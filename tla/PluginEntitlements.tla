------------------------- MODULE PluginEntitlements -------------------------
(***************************************************************************)
(* Signed licences of a plugin (internal/model/plugin_entitlements.go,     *)
(* internal/pluginentitlements): an organization, and the installation as  *)
(* a whole, is bound to the last grant that was imported for it.  Every    *)
(* effect performed for the plugin decides, in its own transaction, which  *)
(* grant covers the organization and whether it allows the work; imports   *)
(* replace and revoke grants; a sweep records boundaries that elapsed; and *)
(* the clock of a Core process may go backwards.                           *)
(*                                                                         *)
(* The transaction of an effect holds the shared import guard and the      *)
(* locks of the bindings it inspected until it commits, so what it wrote   *)
(* on them is visible to nobody before.  Grants are signed by one trusted  *)
(* issuer and the installation stays enabled (see PluginManager); one      *)
(* feature of the plugin is considered.  Time is counted in seconds.       *)
(***************************************************************************)
EXTENDS Naturals

CONSTANTS
    Organizations,  \* organizations the plugin is enabled for
    Wide,           \* the installation scope
    Grants,         \* issuance IDs
    ScopeOf,        \* the organization of a grant, or Wide
    Sequence,       \* the sequence of a grant among those of its scope
    NotBefore, ExpiresAt, GraceUntil,  \* the times of a grant
    Covers,         \* the grants that include the feature
    Effects,        \* transactions performed for the plugin
    None,           \* no grant, transaction or sweep
    MaxTime,        \* bound: the clock
    MaxSnapshot,    \* bound: the sequence of revocation snapshots
    MaxFailures     \* bound: sweeps that fail before their end

Scopes == Organizations \cup {Wide}

ASSUME EntitlementAssumption ==
    /\ Wide \notin Organizations
    /\ None \notin Grants
    /\ ScopeOf \in [Grants -> Scopes]
    /\ Sequence \in [Grants -> Nat \ {0}]
    /\ NotBefore \in [Grants -> Nat]
    /\ ExpiresAt \in [Grants -> Nat]
    /\ GraceUntil \in [Grants -> Nat]
    /\ \A g \in Grants : NotBefore[g] < ExpiresAt[g] /\ ExpiresAt[g] <= GraceUntil[g]
    /\ Covers \subseteq Grants
    /\ MaxTime \in Nat
    /\ MaxSnapshot \in Nat
    /\ MaxFailures \in Nat

VARIABLES
    clock,      \* what a Core process reads as the present time
    binding,    \* plugin_entitlement_bindings
    revoked,    \* plugin_entitlement_revocations
    snapshot,   \* sequence of the last revocation snapshot
    activated,  \* plugin_entitlement_feature_activations
    effect,     \* transactions performed for the plugin
    sweep,      \* a sweep: its time and the bindings it still has to visit
    failures,   \* sweeps that failed before their end
    expired     \* history: grants that a decision or the sweep told or recorded as
                \* expired; the operator's status view, which writes nothing, is not in it

vars == <<clock, binding, revoked, snapshot, activated, effect, sweep, failures, expired>>

NoBinding == [grant |-> None, through |-> 0, grace |-> FALSE, expired |-> FALSE]

Larger(m, n) == IF m > n THEN m ELSE n

-----------------------------------------------------------------------------
(* Decisions.                                                              *)

\* Mutant: a decision trusts the clock.
ClockTime(s, now) == now

\* No decision evaluates a time before one that was already evaluated.
EffectiveNow(s, now) == Larger(binding[s].through, now)

\* EvaluateTime.
EvaluateTime(g, n) ==
    CASE n < NotBefore[g] -> "not_yet_valid"
      [] NotBefore[g] <= n /\ n < ExpiresAt[g] -> "valid"
      [] ExpiresAt[g] <= n /\ n < GraceUntil[g] -> "grace"
      [] GraceUntil[g] <= n -> "expired"

\* grantState of the grant a scope is bound to.
GrantState(s, now) ==
    CASE binding[s].grant = None -> "not_entitled"
      [] binding[s].grant \in revoked -> "revoked"
      [] OTHER -> EvaluateTime(binding[s].grant, EffectiveNow(s, now))

\* PluginEntitlementFallback.
Fallback(organizationState, wideState) ==
    /\ organizationState \in {"expired", "revoked"}
    /\ wideState \in {"valid", "grace"}

\* DecidePluginEntitlementTx: the bindings a decision for organization o inspects.
Inspected(o, now) ==
    {o} \cup (IF GrantState(o, now) \in {"not_entitled", "expired", "revoked"} THEN {Wide} ELSE {})

\* The scope whose grant covers the organization.
Covering(o, now) ==
    IF \/ GrantState(o, now) = "not_entitled"
       \/ Fallback(GrantState(o, now), GrantState(Wide, now))
      THEN Wide
      ELSE o

\* Forward work continues in grace; features of two grants are never combined.
Forward(o, now) ==
    LET s == Covering(o, now)
    IN  /\ GrantState(s, now) \in {"valid", "grace"}
        /\ binding[s].grant \in Covers

\* decidePluginGrantTx: what a decision leaves on the bindings it inspected.
Observed(o, now) ==
    [s \in Scopes |->
       IF s \notin Inspected(o, now) \/ binding[s].grant = None THEN binding[s]
       ELSE [binding[s] EXCEPT !.through = EffectiveNow(s, now),
                               !.grace = @ \/ GrantState(s, now) = "grace",
                               !.expired = @ \/ GrantState(s, now) = "expired"]]

ExpiredBy(o, now) ==
    {binding[s].grant : s \in {t \in Inspected(o, now) : GrantState(t, now) = "expired"}}

-----------------------------------------------------------------------------
(* Locks.                                                                  *)

Working(e) == effect[e] # None /\ effect[e].step = "working"

\* Mutant: decisions do not take the shared import guard.
NoImportGuard == TRUE

\* LockPluginEntitlementImportTx waits for every decision in progress.
ImportGuardFree == \A e \in Effects : ~Working(e)

\* entitlementBindingLock: held until the transaction that took it ends.
BindingFree(s) == \A e \in Effects : Working(e) => s \notin effect[e].holds

\* entitlementIssuerLock: a revocation snapshot waits for every decision.
IssuerFree == \A e \in Effects : Working(e) => effect[e].holds = {}

-----------------------------------------------------------------------------
(* Imports.                                                                *)

\* ImportPluginEntitlementGrant: a later sequence replaces the grant and what was
\* observed of it, never the time that was evaluated.
ImportGrant(g) ==
    LET s == ScopeOf[g]
    IN  /\ ImportGuardFree
        /\ BindingFree(s)
        /\ binding[s].grant # None => Sequence[g] > Sequence[binding[s].grant]
        /\ binding' = [binding EXCEPT ![s].grant = g, ![s].grace = FALSE, ![s].expired = FALSE]
        /\ UNCHANGED <<clock, revoked, snapshot, activated, effect, sweep, failures, expired>>

\* ImportPluginEntitlementRevocations: a later snapshot that keeps all earlier ones.
ImportRevocations(n, ids) ==
    /\ ImportGuardFree
    /\ IssuerFree
    /\ n > snapshot
    /\ revoked \subseteq ids
    /\ snapshot' = n
    /\ revoked' = ids
    /\ UNCHANGED <<clock, binding, activated, effect, sweep, failures, expired>>

-----------------------------------------------------------------------------
(* Effects and discovery.                                                  *)

\* Guard reads the clock before it waits for any lock.
BeginEffect(e, o, safety) ==
    /\ effect[e] = None
    /\ effect' = [effect EXCEPT ![e] =
         [step |-> "deciding", organization |-> o, safety |-> safety, now |-> clock,
          holds |-> {}, under |-> None, writes |-> [s \in {} |-> NoBinding]]]
    /\ UNCHANGED <<clock, binding, revoked, snapshot, activated, sweep, failures, expired>>

Decides(e) ==
    /\ effect[e] # None
    /\ effect[e].step = "deciding"
    /\ \A s \in Inspected(effect[e].organization, effect[e].now) : BindingFree(s)

Permitted(e) ==
    IF effect[e].safety
      THEN effect[e].organization \in activated
      ELSE Forward(effect[e].organization, effect[e].now)

\* Guard permits the effect; what it wrote stays in its transaction.
Admit(e) ==
    LET o == effect[e].organization
        now == effect[e].now
    IN  /\ Decides(e)
        /\ Permitted(e)
        /\ effect' = [effect EXCEPT
             ![e].step = "working",
             ![e].holds = {s \in Inspected(o, now) : binding[s].grant # None},
             ![e].under = binding[Covering(o, now)].grant,
             ![e].writes = Observed(o, now)]
        /\ UNCHANGED <<clock, binding, revoked, snapshot, activated, sweep, failures, expired>>

\* Mutant: the transaction of a denied effect is rolled back.
Forget(o, now) == binding

\* A denied effect commits what its decision observed.
Denied(o, now) == Observed(o, now)

Deny(e) ==
    LET o == effect[e].organization
        now == effect[e].now
    IN  /\ Decides(e)
        /\ ~Permitted(e)
        /\ binding' = Denied(o, now)
        /\ expired' = expired \cup ExpiredBy(o, now)
        /\ effect' = [effect EXCEPT ![e] = None]
        /\ UNCHANGED <<clock, revoked, snapshot, activated, sweep, failures>>

\* The effect commits with its observations; forward work activates the feature.
CommitEffect(e) ==
    /\ Working(e)
    /\ binding' = [s \in Scopes |-> IF s \in effect[e].holds THEN effect[e].writes[s] ELSE binding[s]]
    /\ activated' = IF effect[e].safety THEN activated ELSE activated \cup {effect[e].organization}
    /\ expired' = expired \cup {binding[s].grant : s \in {t \in effect[e].holds : effect[e].writes[t].expired}}
    /\ effect' = [effect EXCEPT ![e] = None]
    /\ UNCHANGED <<clock, revoked, snapshot, sweep, failures>>

RollBackEffect(e) ==
    /\ effect[e] # None
    /\ effect' = [effect EXCEPT ![e] = None]
    /\ UNCHANGED <<clock, binding, revoked, snapshot, activated, sweep, failures, expired>>

\* ResolveEntitlement: a decision for discovery, with the first activation.
ResolveEntitlement(o) ==
    /\ \A s \in Inspected(o, clock) : BindingFree(s)
    /\ binding' = Observed(o, clock)
    /\ expired' = expired \cup ExpiredBy(o, clock)
    /\ activated' = IF Forward(o, clock) THEN activated \cup {o} ELSE activated
    /\ UNCHANGED <<clock, revoked, snapshot, effect, sweep, failures>>

-----------------------------------------------------------------------------
(* SweepPluginEntitlementBoundaries.                                       *)

\* Mutant: expiry is recorded only after grace was.
OwesInOrder(s, now) ==
    LET b == binding[s]
        n == EffectiveNow(s, now)
    IN  /\ b.grant # None
        /\ \/ ~b.grace /\ ExpiresAt[b.grant] <= n /\ n < GraceUntil[b.grant]
           \/ b.grace /\ ~b.expired /\ GraceUntil[b.grant] <= n

\* A boundary of the binding's grant elapsed and is not recorded.
OwesObservation(s, now) ==
    LET b == binding[s]
        n == EffectiveNow(s, now)
    IN  /\ b.grant # None
        /\ \/ ~b.grace /\ ExpiresAt[b.grant] <= n /\ n < GraceUntil[b.grant]
           \/ ~b.expired /\ GraceUntil[b.grant] <= n

\* The candidates are read without a lock.
BeginSweep ==
    /\ sweep = None
    /\ \E s \in Scopes : OwesObservation(s, clock)
    /\ sweep' = [now |-> clock, todo |-> {s \in Scopes : OwesObservation(s, clock)}]
    /\ UNCHANGED <<clock, binding, revoked, snapshot, activated, effect, failures, expired>>

\* Under the binding's lock the candidate is looked at again.
VisitBinding(s) ==
    /\ sweep # None
    /\ s \in sweep.todo
    /\ BindingFree(s)
    /\ LET n == EffectiveNow(s, sweep.now)
           g == binding[s].grant
           markExpired == ~binding[s].expired /\ GraceUntil[g] <= n
           markGrace == ~binding[s].grace /\ ExpiresAt[g] <= n /\ n < GraceUntil[g]
       IN  /\ binding' = IF markExpired \/ markGrace
                           THEN [binding EXCEPT ![s].through = n, ![s].grace = @ \/ markGrace,
                                                ![s].expired = @ \/ markExpired]
                           ELSE binding
           /\ expired' = IF markExpired THEN expired \cup {g} ELSE expired
    /\ sweep' = [sweep EXCEPT !.todo = @ \ {s}]
    /\ UNCHANGED <<clock, revoked, snapshot, activated, effect, failures>>

EndSweep ==
    /\ sweep # None
    /\ sweep.todo = {}
    /\ sweep' = None
    /\ UNCHANGED <<clock, binding, revoked, snapshot, activated, effect, failures, expired>>

\* An error ends the sweep before it visited all its candidates.
FailSweep ==
    /\ sweep # None
    /\ failures < MaxFailures
    /\ failures' = failures + 1
    /\ sweep' = None
    /\ UNCHANGED <<clock, binding, revoked, snapshot, activated, effect, expired>>

-----------------------------------------------------------------------------

\* The wall clock of a Core process moves, forwards or backwards.
MoveClock(n) ==
    /\ n # clock
    /\ clock' = n
    /\ UNCHANGED <<binding, revoked, snapshot, activated, effect, sweep, failures, expired>>

Init ==
    /\ clock = 0
    /\ binding = [s \in Scopes |-> NoBinding]
    /\ revoked = {}
    /\ snapshot = 0
    /\ activated = {}
    /\ effect = [e \in Effects |-> None]
    /\ sweep = None
    /\ failures = 0
    /\ expired = {}

Import ==
    \/ \E g \in Grants : ImportGrant(g)
    \/ \E n \in 1 .. MaxSnapshot, ids \in SUBSET Grants : ImportRevocations(n, ids)

EffectStep(e) ==
    \/ \E o \in Organizations, safety \in BOOLEAN : BeginEffect(e, o, safety)
    \/ Admit(e) \/ Deny(e) \/ CommitEffect(e) \/ RollBackEffect(e)

Sweep == BeginSweep \/ EndSweep \/ FailSweep \/ \E s \in Scopes : VisitBinding(s)

Next ==
    \/ Import
    \/ \E e \in Effects : EffectStep(e)
    \/ \E o \in Organizations : ResolveEntitlement(o)
    \/ Sweep
    \/ \E n \in 0 .. MaxTime : MoveClock(n)

\* The sweep runs again and again (runEvery) and fails only finitely often; one that
\* waits for a binding's lock gets it; every transaction of an effect ends.
Fairness ==
    /\ SF_vars(BeginSweep)
    /\ \A s \in Scopes : SF_vars(VisitBinding(s))
    /\ WF_vars(EndSweep)
    /\ \A e \in Effects : WF_vars(CommitEffect(e) \/ RollBackEffect(e))

Spec == Init /\ [][Next]_vars /\ Fairness

-----------------------------------------------------------------------------
(* Properties.                                                             *)

\* Forward work in progress runs under the grant that covers its organization at
\* this moment: none is replaced, revoked or preferred by an import between the
\* decision and the commit.
WorksUnderCoveringGrant ==
    \A e \in Effects :
      LET f == effect[e]
      IN  Working(e) /\ ~f.safety =>
            /\ f.under = binding[Covering(f.organization, f.now)].grant
            /\ Forward(f.organization, f.now)

\* No forward work is admitted under a grant that a decision or the sweep has called
\* expired, even if the clock goes backwards or a transaction read the time long
\* before.  (PluginEntitlementGrantStatuses may show an operator an expiry that it
\* does not record.)
ExpiredStaysExpired ==
    \A e \in Effects : Working(e) /\ ~effect[e].safety => effect[e].under \notin expired

\* The end of the grace of the binding's grant lies behind the clock.
PastGrace(s) == binding[s].grant # None /\ clock >= GraceUntil[binding[s].grant]

\* A binding that stays past the end of its grant's grace is recorded as expired,
\* with or without requests for the plugin.
ExpiryIsRecorded == \A s \in Scopes : <>[]PastGrace(s) => <>[](binding[s].expired)

=============================================================================
