---------------------- MODULE PluginEntitlementsProofs ----------------------
(***************************************************************************)
(* Proofs about PluginEntitlements, for every set of organizations, grants *)
(* and effects: what a decision concluded stays true until its transaction *)
(* commits, and a grant once called expired never carries work again.      *)
(*                                                                         *)
(* A decision reads the bindings it inspects and the revocations.  The     *)
(* invariant says that a working effect holds exactly the inspected        *)
(* bindings that have a grant, that no two effects hold the same one, and  *)
(* that what it wrote is what it would decide now (Settled).  Expiry needs *)
(* in addition that the time evaluated on a binding is past the grace of   *)
(* every expired grant bound to it, and that an expired grant cannot be    *)
(* bound again, by its sequence (ExpiredArePast).                          *)
(***************************************************************************)
EXTENDS PluginEntitlements, TLAPS

BindingRow == [grant : Grants \cup {None}, through : Nat, grace : BOOLEAN, expired : BOOLEAN]
EffectRow ==
    [step : {"deciding", "working"}, organization : Organizations, safety : BOOLEAN, now : Nat,
     holds : SUBSET Scopes, under : Grants \cup {None},
     writes : [{} -> BindingRow] \cup [Scopes -> BindingRow]]

Typed ==
    /\ clock \in Nat
    /\ binding \in [Scopes -> BindingRow]
    /\ revoked \subseteq Grants
    /\ effect \in [Effects -> {None} \cup EffectRow]
    /\ sweep # None => sweep \in [now : Nat, todo : SUBSET Scopes]

\* A binding names a grant of its own scope; a sweep visits bound scopes.
BindingsMatch ==
    /\ \A s \in Scopes : binding[s].grant # None => ScopeOf[binding[s].grant] = s
    /\ sweep # None => \A s \in sweep.todo : binding[s].grant # None

\* What a working effect holds, wrote and concluded is what it would hold,
\* write and conclude now.
Settled(e) ==
    LET f == effect[e]
        o == f.organization
    IN  /\ f.holds = {s \in Inspected(o, f.now) : binding[s].grant # None}
        /\ \A s \in f.holds : f.writes[s] = Observed(o, f.now)[s]
        /\ ~f.safety => /\ f.under = binding[Covering(o, f.now)].grant
                        /\ Forward(o, f.now)

DecisionsHold ==
    /\ \A e \in Effects : Working(e) => Settled(e)
    /\ \A e, d \in Effects : Working(e) /\ Working(d) /\ e # d =>
         effect[e].holds \cap effect[d].holds = {}

\* The time evaluated on a binding is past what was recorded as expired.
ExpiredArePast ==
    /\ \A s \in Scopes :
         binding[s].expired =>
             binding[s].grant # None /\ GraceUntil[binding[s].grant] <= binding[s].through
    /\ \A g \in expired :
         LET b == binding[ScopeOf[g]]
         IN  /\ g \in Grants /\ b.grant # None
             /\ Sequence[g] <= Sequence[b.grant]
             /\ b.grant = g => GraceUntil[g] <= b.through

EntInv == Typed /\ BindingsMatch /\ DecisionsHold /\ ExpiredArePast

-----------------------------------------------------------------------------
(* Decisions.                                                              *)

\* EvaluateTime against the end of the grace.
LEMMA EvaluateTimeFacts ==
    ASSUME NEW g \in Grants, NEW n \in Nat
    PROVE  /\ EvaluateTime(g, n) = "expired" => GraceUntil[g] <= n
           /\ EvaluateTime(g, n) \in {"valid", "grace"} => n < GraceUntil[g]
<1>1. /\ NotBefore[g] \in Nat /\ ExpiresAt[g] \in Nat /\ GraceUntil[g] \in Nat
      /\ NotBefore[g] < ExpiresAt[g] /\ ExpiresAt[g] <= GraceUntil[g]
  BY EntitlementAssumption
<1>2. CASE n < NotBefore[g]
  BY <1>1, <1>2 DEF EvaluateTime
<1>3. CASE NotBefore[g] <= n /\ n < ExpiresAt[g]
  BY <1>1, <1>3 DEF EvaluateTime
<1>4. CASE ExpiresAt[g] <= n /\ n < GraceUntil[g]
  BY <1>1, <1>4 DEF EvaluateTime
<1>5. CASE GraceUntil[g] <= n
  BY <1>1, <1>5 DEF EvaluateTime
<1> QED
  BY <1>1, <1>2, <1>3, <1>4, <1>5

\* The scopes that a decision for an organization may inspect.
LEMMA ScopeFacts ==
    /\ Wide \in Scopes /\ Organizations \subseteq Scopes
    /\ \A o \in Organizations : \A now : Inspected(o, now) \subseteq Scopes /\ o \in Inspected(o, now)
BY DEF Scopes, Inspected

\* The state of a scope's grant, as far as time and expiry go.
LEMMA GrantStateFacts ==
    ASSUME Typed, NEW s \in Scopes, NEW now \in Nat
    PROVE  /\ EffectiveNow(s, now) \in Nat /\ binding[s].through <= EffectiveNow(s, now)
           /\ now <= EffectiveNow(s, now)
           /\ GrantState(s, now) = "expired" =>
                /\ binding[s].grant \in Grants
                /\ GraceUntil[binding[s].grant] <= EffectiveNow(s, now)
           /\ GrantState(s, now) \in {"valid", "grace"} =>
                /\ binding[s].grant \in Grants
                /\ EffectiveNow(s, now) < GraceUntil[binding[s].grant]
<1>1. binding[s].through \in Nat /\ binding[s].grant \in Grants \cup {None}
  BY DEF Typed, BindingRow
<1>2. EffectiveNow(s, now) \in Nat /\ binding[s].through <= EffectiveNow(s, now)
      /\ now <= EffectiveNow(s, now)
  BY <1>1 DEF EffectiveNow, Larger
<1>3. CASE binding[s].grant = None
  <2>1. GrantState(s, now) = "not_entitled"
    <3>1. binding[s].grant \notin revoked
      BY <1>3, EntitlementAssumption DEF Typed
    <3> QED
      BY <1>3, <3>1 DEF GrantState
  <2> QED
    BY <1>2, <2>1
<1>4. CASE binding[s].grant # None /\ binding[s].grant \in revoked
  <2>1. GrantState(s, now) = "revoked"
    BY <1>4 DEF GrantState
  <2> QED
    BY <1>2, <2>1
<1>5. CASE binding[s].grant # None /\ binding[s].grant \notin revoked
  <2>1. GrantState(s, now) = EvaluateTime(binding[s].grant, EffectiveNow(s, now))
    BY <1>5 DEF GrantState
  <2>2. binding[s].grant \in Grants
    BY <1>1, <1>5
  <2> QED
    BY <1>2, <2>1, <2>2, EvaluateTimeFacts
<1> QED
  BY <1>3, <1>4, <1>5

\* What a decision leaves on a binding: the grant, a time that never goes back,
\* and an expiry only past the grace.
LEMMA ObservedRow ==
    ASSUME Typed, NEW o \in Organizations, NEW now \in Nat, NEW s \in Scopes
    PROVE  LET b == Observed(o, now)[s]
           IN  /\ b \in BindingRow
               /\ b.grant = binding[s].grant
               /\ binding[s].through <= b.through
               /\ b.expired => \/ binding[s].expired
                               \/ /\ b.grant \in Grants
                                  /\ GraceUntil[b.grant] <= b.through
               /\ s \in Inspected(o, now) /\ GrantState(s, now) = "expired" =>
                    /\ b.grant \in Grants
                    /\ GraceUntil[b.grant] <= b.through
               /\ b # binding[s] => s \in Inspected(o, now) /\ binding[s].grant # None
<1>1. binding[s] \in BindingRow
  BY DEF Typed
<1>2. CASE s \notin Inspected(o, now) \/ binding[s].grant = None
  <2>1. Observed(o, now)[s] = binding[s]
    BY <1>2 DEF Observed
  <2>2. s \in Inspected(o, now) => GrantState(s, now) # "expired"
    BY <1>2, EntitlementAssumption, GrantStateFacts
  <2> QED
    BY <1>1, <2>1, <2>2 DEF BindingRow
<1>3. CASE s \in Inspected(o, now) /\ binding[s].grant # None
  <2> DEFINE b == [binding[s] EXCEPT !.through = EffectiveNow(s, now),
                                     !.grace = @ \/ GrantState(s, now) = "grace",
                                     !.expired = @ \/ GrantState(s, now) = "expired"]
  <2>1. Observed(o, now)[s] = b
    BY <1>3 DEF Observed
  <2>2. /\ b.grant = binding[s].grant /\ b.through = EffectiveNow(s, now)
        /\ b.expired = (binding[s].expired \/ GrantState(s, now) = "expired")
    BY <1>1 DEF BindingRow
  <2>3. b \in BindingRow
    BY <1>1, GrantStateFacts DEF BindingRow
  <2> HIDE DEF b
  <2> QED
    BY <1>3, <2>1, <2>2, <2>3, GrantStateFacts
<1> QED
  BY <1>2, <1>3

\* A decision depends on the bindings it inspects and on the revocations only.
LEMMA DecisionStable ==
    ASSUME NEW o \in Organizations, NEW now \in Nat,
           \A s \in Inspected(o, now) : binding'[s] = binding[s], revoked' = revoked
    PROVE  /\ Inspected(o, now)' = Inspected(o, now)
           /\ Covering(o, now)' = Covering(o, now)
           /\ binding'[Covering(o, now)] = binding[Covering(o, now)]
           /\ Forward(o, now)' <=> Forward(o, now)
           /\ \A s \in Inspected(o, now) : Observed(o, now)'[s] = Observed(o, now)[s]
<1>1. \A s \in Inspected(o, now) : /\ EffectiveNow(s, now)' = EffectiveNow(s, now)
                                   /\ GrantState(s, now)' = GrantState(s, now)
  BY DEF EffectiveNow, GrantState
<1>2. o \in Inspected(o, now)
  BY DEF Inspected
<1>3. Inspected(o, now)' = Inspected(o, now)
  BY <1>1, <1>2 DEF Inspected
<1>4. Covering(o, now)' = Covering(o, now) /\ Covering(o, now) \in Inspected(o, now)
  <2>1. CASE GrantState(o, now) \in {"not_entitled", "expired", "revoked"}
    <3>1. Wide \in Inspected(o, now)
      BY <2>1 DEF Inspected
    <3> QED
      BY <1>1, <1>2, <3>1 DEF Covering, Fallback
  <2>2. CASE GrantState(o, now) \notin {"not_entitled", "expired", "revoked"}
    <3>1. Covering(o, now) = o
      BY <2>2 DEF Covering, Fallback
    <3>2. Covering(o, now)' = o
      BY <1>1, <1>2, <2>2 DEF Covering, Fallback
    <3> QED
      BY <1>2, <3>1, <3>2
  <2> QED
    BY <2>1, <2>2
<1>5. Forward(o, now)' <=> Forward(o, now)
  BY <1>1, <1>4 DEF Forward
<1>6. \A s \in Inspected(o, now) : Observed(o, now)'[s] = Observed(o, now)[s]
  BY <1>1, <1>3, ScopeFacts DEF Observed
<1> QED
  BY <1>3, <1>4, <1>5, <1>6

-----------------------------------------------------------------------------
(* What each step does to the bindings.                                    *)

\* Every step but the import of a grant keeps the grants, never turns a time
\* back and calls a grant expired only past its grace.
Advance ==
    /\ \A s \in Scopes :
         /\ binding'[s] \in BindingRow
         /\ binding'[s].grant = binding[s].grant
         /\ binding[s].through <= binding'[s].through
         /\ binding'[s].expired =>
              \/ binding[s].expired
              \/ /\ binding[s].grant \in Grants
                 /\ GraceUntil[binding[s].grant] <= binding'[s].through
    /\ binding' = [s \in Scopes |-> binding'[s]]
    /\ \A g \in expired' \ expired :
         \E s \in Scopes : /\ g = binding[s].grant /\ g \in Grants
                          /\ GraceUntil[g] <= binding'[s].through

\* A binding changes only under its lock: held by nobody who goes on working.
LocksRespected ==
    \A s \in Scopes :
      binding'[s] # binding[s] =>
        /\ binding[s].grant # None
        /\ \A e \in Effects : Working(e) /\ effect'[e] = effect[e] => s \notin effect[e].holds

\* What a decision observes moves the evaluated time of a binding only forward.
LEMMA ObservedAdvances ==
    ASSUME Typed, NEW o \in Organizations, NEW now \in Nat, binding' = Observed(o, now),
           expired' = expired \cup ExpiredBy(o, now),
           \A s \in Inspected(o, now) : BindingFree(s)
    PROVE  Advance /\ LocksRespected
<1>1. \A s \in Scopes : binding'[s] = Observed(o, now)[s]
  OBVIOUS
<1>2. binding' = [s \in Scopes |-> binding'[s]]
  BY DEF Observed
<1>3. ASSUME NEW g \in expired' \ expired
      PROVE  \E s \in Scopes : /\ g = binding[s].grant /\ g \in Grants
                              /\ GraceUntil[g] <= binding'[s].through
  <2>1. PICK s \in Inspected(o, now) : g = binding[s].grant /\ GrantState(s, now) = "expired"
    BY <1>3 DEF ExpiredBy
  <2>2. s \in Scopes
    BY <2>1, ScopeFacts
  <2> QED
    BY <1>1, <2>1, <2>2, ObservedRow
<1>4. Advance
  <2>1. \A s \in Scopes :
         /\ binding'[s] \in BindingRow
         /\ binding'[s].grant = binding[s].grant
         /\ binding[s].through <= binding'[s].through
         /\ binding'[s].expired =>
              \/ binding[s].expired
              \/ /\ binding[s].grant \in Grants
                 /\ GraceUntil[binding[s].grant] <= binding'[s].through
    BY <1>1, ObservedRow
  <2> QED
    BY <1>2, <1>3, <2>1 DEF Advance
<1>5. LocksRespected
  <2> SUFFICES ASSUME NEW s \in Scopes, binding'[s] # binding[s]
               PROVE  /\ binding[s].grant # None
                      /\ \A e \in Effects : Working(e) => s \notin effect[e].holds
    BY DEF LocksRespected
  <2>1. s \in Inspected(o, now) /\ binding[s].grant # None
    BY <1>1, ObservedRow
  <2> QED
    BY <2>1 DEF BindingFree
<1> QED
  BY <1>4, <1>5

\* So does the commit of what it observed.
LEMMA CommitAdvances ==
    ASSUME Typed, DecisionsHold, ExpiredArePast, NEW e \in Effects, CommitEffect(e)
    PROVE  Advance /\ LocksRespected
<1> DEFINE f == effect[e]
           o == f.organization
<1>1. Working(e) /\ Settled(e)
  BY DEF CommitEffect, DecisionsHold
<1>2. f \in EffectRow /\ o \in Organizations /\ f.now \in Nat /\ f.holds \subseteq Scopes
  BY <1>1 DEF Typed, Working, EffectRow
<1>3. \A s \in f.holds : /\ f.writes[s] = Observed(o, f.now)[s]
                         /\ s \in Inspected(o, f.now) /\ binding[s].grant # None
  BY <1>1 DEF Settled
<1>4. \A s \in Scopes : binding'[s] = IF s \in f.holds THEN Observed(o, f.now)[s] ELSE binding[s]
  BY <1>3 DEF CommitEffect
<1>5. binding' = [s \in Scopes |-> binding'[s]]
  BY DEF CommitEffect
<1>6. ASSUME NEW s \in Scopes
      PROVE  /\ binding'[s] \in BindingRow
             /\ binding'[s].grant = binding[s].grant
             /\ binding[s].through <= binding'[s].through
             /\ binding'[s].expired =>
                  \/ binding[s].expired
                  \/ /\ binding[s].grant \in Grants
                     /\ GraceUntil[binding[s].grant] <= binding'[s].through
  <2>1. CASE s \in f.holds
    BY <1>2, <1>4, <2>1, ObservedRow
  <2>2. CASE s \notin f.holds
    BY <1>4, <2>2 DEF Typed, BindingRow
  <2> QED
    BY <2>1, <2>2
<1>7. LocksRespected
  <2> SUFFICES ASSUME NEW s \in Scopes, binding'[s] # binding[s]
               PROVE  /\ binding[s].grant # None
                      /\ \A d \in Effects : Working(d) /\ effect'[d] = effect[d] => s \notin effect[d].holds
    BY DEF LocksRespected
  <2>1. s \in f.holds /\ binding[s].grant # None
    BY <1>3, <1>4
  <2>2. ASSUME NEW d \in Effects, Working(d), effect'[d] = effect[d], s \in effect[d].holds
        PROVE  FALSE
    <3>1. d # e
      BY <1>1, <2>2 DEF CommitEffect, Typed, Working
    <3> QED
      BY <1>1, <2>1, <2>2, <3>1 DEF DecisionsHold
  <2> QED
    BY <2>1, <2>2
<1>8. ASSUME NEW g \in expired' \ expired
      PROVE  \E s \in Scopes : /\ g = binding[s].grant /\ g \in Grants
                              /\ GraceUntil[g] <= binding'[s].through
  <2>1. PICK s \in f.holds : g = binding[s].grant /\ f.writes[s].expired
    BY <1>8 DEF CommitEffect
  <2>2. s \in Scopes /\ binding'[s] = f.writes[s]
    BY <1>2, <1>3, <1>4, <2>1
  <2>3. g \in Grants /\ GraceUntil[g] \in Nat
    BY <1>3, <2>1, <2>2, EntitlementAssumption DEF Typed, BindingRow
  <2>4. binding[s].through \in Nat /\ binding'[s].through \in Nat
    BY <1>6, <2>2 DEF Typed, BindingRow
  <2>5. CASE binding[s].expired
    BY <1>6, <2>1, <2>2, <2>3, <2>4, <2>5 DEF ExpiredArePast
  <2>6. CASE ~binding[s].expired
    BY <1>6, <2>1, <2>2, <2>6
  <2> QED
    BY <2>2, <2>1, <2>3, <2>5, <2>6
<1> QED
  BY <1>5, <1>6, <1>7, <1>8 DEF Advance

\* So does the sweep.
LEMMA VisitAdvances ==
    ASSUME Typed, BindingsMatch, NEW s \in Scopes, VisitBinding(s)
    PROVE  Advance /\ LocksRespected /\ sweep' = [sweep EXCEPT !.todo = @ \ {s}]
<1> DEFINE n == EffectiveNow(s, sweep.now)
           g == binding[s].grant
           markExpired == ~binding[s].expired /\ GraceUntil[g] <= n
           markGrace == ~binding[s].grace /\ ExpiresAt[g] <= n /\ n < GraceUntil[g]
           row == [binding[s] EXCEPT !.through = n, !.grace = @ \/ markGrace,
                                     !.expired = @ \/ markExpired]
<1>1. sweep # None /\ s \in sweep.todo /\ BindingFree(s) /\ sweep.now \in Nat
  BY DEF VisitBinding, Typed
<1>2. g \in Grants /\ binding[s] \in BindingRow /\ binding[s].through \in Nat
  BY <1>1 DEF BindingsMatch, Typed, BindingRow
<1>3. n \in Nat /\ binding[s].through <= n
  BY <1>1, GrantStateFacts
<1>4. binding' = binding \/ binding' = [binding EXCEPT ![s] = row]
  BY DEF VisitBinding, Typed
<1>5. expired' = expired \/ (/\ markExpired /\ expired' = expired \cup {g}
                            /\ binding' = [binding EXCEPT ![s] = row])
  BY DEF VisitBinding, Typed
<1>6. /\ row \in BindingRow /\ row.grant = g /\ row.through = n
      /\ row.expired = (binding[s].expired \/ markExpired)
  BY <1>2, <1>3 DEF BindingRow
<1>7. sweep' = [sweep EXCEPT !.todo = @ \ {s}]
  BY DEF VisitBinding
<1>8. \A t \in Scopes : t # s => binding'[t] = binding[t]
  BY <1>4 DEF Typed
<1>9. binding'[s] = binding[s] \/ binding'[s] = row
  BY <1>4 DEF Typed
<1>10. binding' = [t \in Scopes |-> binding'[t]]
  BY <1>4 DEF Typed
<1>11. \A t \in Scopes : binding[t] \in BindingRow /\ binding[t].through \in Nat
  BY DEF Typed, BindingRow
<1>12. ASSUME NEW t \in Scopes
       PROVE  /\ binding'[t] \in BindingRow
              /\ binding'[t].grant = binding[t].grant
              /\ binding[t].through <= binding'[t].through
              /\ binding'[t].expired =>
                   \/ binding[t].expired
                   \/ /\ binding[t].grant \in Grants
                      /\ GraceUntil[binding[t].grant] <= binding'[t].through
  <2>1. CASE binding'[t] = binding[t]
    BY <1>11, <2>1
  <2>2. CASE t = s /\ binding'[s] = row
    <3> HIDE DEF row, n, g
    <3> QED
      BY <1>2, <1>3, <1>6, <2>2 DEF g
  <2> QED
    BY <1>8, <1>9, <2>1, <2>2
<1>13. ASSUME NEW h \in expired' \ expired
       PROVE  h = g /\ h \in Grants /\ GraceUntil[h] <= binding'[s].through
  <2>1. h = g /\ markExpired /\ binding' = [binding EXCEPT ![s] = row]
    BY <1>5, <1>13
  <2>2. binding'[s] = row
    BY <2>1 DEF Typed
  <2> HIDE DEF row
  <2> QED
    BY <1>2, <1>6, <2>1, <2>2
<1>14. Advance
  BY <1>10, <1>12, <1>13 DEF Advance
<1>15. LocksRespected
  BY <1>1, <1>2, <1>8, EntitlementAssumption DEF LocksRespected, BindingFree
<1> QED
  BY <1>7, <1>14, <1>15

\* Steps that leave the bindings and the record of expiries alone.
LEMMA IdleAdvances ==
    ASSUME Typed, UNCHANGED <<binding, expired>>
    PROVE  Advance /\ LocksRespected
<1>1. \A s \in Scopes : binding[s] \in BindingRow /\ binding[s].through \in Nat
  BY DEF Typed, BindingRow
<1> QED
  BY <1>1 DEF Advance, LocksRespected, Typed

\* Every step but the import of a grant advances the bindings under their locks.
LEMMA EveryStepAdvances ==
    ASSUME EntInv, [Next]_vars, \A g \in Grants : ~ImportGrant(g)
    PROVE  Advance /\ LocksRespected
<1> USE DEF EntInv
<1>1. ASSUME NEW e \in Effects, EffectStep(e)
      PROVE  Advance /\ LocksRespected
  <2>1. CASE Deny(e)
    <3>1. effect[e].organization \in Organizations /\ effect[e].now \in Nat
      BY <2>1 DEF Deny, Decides, Typed, EffectRow
    <3> QED
      BY <2>1, <3>1, ObservedAdvances DEF Deny, Decides, Denied
  <2>2. CASE CommitEffect(e)
    BY <2>2, CommitAdvances
  <2>3. CASE ~Deny(e) /\ ~CommitEffect(e)
    BY <1>1, <2>3, IdleAdvances DEF EffectStep, BeginEffect, Admit, RollBackEffect
  <2> QED
    BY <2>1, <2>2, <2>3
<1>2. ASSUME NEW o \in Organizations, ResolveEntitlement(o)
      PROVE  Advance /\ LocksRespected
  BY <1>2, ObservedAdvances DEF ResolveEntitlement, Typed
<1>3. ASSUME NEW s \in Scopes, VisitBinding(s)
      PROVE  Advance /\ LocksRespected
  BY <1>3, VisitAdvances
<1> QED
  BY <1>1, <1>2, <1>3, IdleAdvances
     DEF Next, Import, ImportRevocations, Sweep, BeginSweep, EndSweep, FailSweep, MoveClock, vars

\* The import of a grant waits for every effect and replaces one binding.
LEMMA ImportFacts ==
    ASSUME Typed, NEW g \in Grants, ImportGrant(g)
    PROVE  LET s == ScopeOf[g]
           IN  /\ s \in Scopes
               /\ \A e \in Effects : ~Working(e)
               /\ binding[s].grant # None => Sequence[g] > Sequence[binding[s].grant]
               /\ binding' \in [Scopes -> BindingRow]
               /\ binding'[s].grant = g /\ binding'[s].through = binding[s].through
               /\ ~binding'[s].expired
               /\ \A t \in Scopes : t # s => binding'[t] = binding[t]
               /\ UNCHANGED <<clock, revoked, effect, sweep, expired>>
<1> DEFINE s == ScopeOf[g]
           row == [binding[s] EXCEPT !.grant = g, !.grace = FALSE, !.expired = FALSE]
<1>1. s \in Scopes
  BY EntitlementAssumption
<1>2. binding[s] \in BindingRow
  BY <1>1 DEF Typed
<1>3. binding' = [binding EXCEPT ![s] = row]
  BY <1>1 DEF ImportGrant, Typed
<1>4. row \in BindingRow /\ row.grant = g /\ row.through = binding[s].through /\ ~row.expired
  BY <1>2 DEF BindingRow
<1> HIDE DEF row
<1>5. /\ binding' \in [Scopes -> BindingRow] /\ binding'[s] = row
      /\ \A t \in Scopes : t # s => binding'[t] = binding[t]
  BY <1>1, <1>3, <1>4 DEF Typed
<1> QED
  BY <1>1, <1>4, <1>5 DEF ImportGrant, ImportGuardFree

\* What a step does to an effect.
LEMMA EffectChange ==
    ASSUME Typed, [Next]_vars, NEW e \in Effects, effect'[e] # effect[e], effect'[e] # None
    PROVE  \/ \E o \in Organizations, safety \in BOOLEAN : BeginEffect(e, o, safety)
           \/ Admit(e)
<1>1. ASSUME NEW d \in Effects, EffectStep(d)
      PROVE  d = e
  BY <1>1 DEF EffectStep, BeginEffect, Admit, Deny, CommitEffect, RollBackEffect, Typed
<1>2. EffectStep(e)
  BY <1>1 DEF Next, Import, ImportGrant, ImportRevocations, ResolveEntitlement, Sweep, BeginSweep,
     EndSweep, FailSweep, VisitBinding, MoveClock, vars
<1> QED
  BY <1>2 DEF EffectStep, Deny, CommitEffect, RollBackEffect, Typed

\* What a decision observes of a binding is a row.
LEMMA ObservedTyped ==
    ASSUME Typed, NEW o \in Organizations, NEW now \in Nat
    PROVE  Observed(o, now) \in [Scopes -> BindingRow]
<1>1. \A s \in Scopes : Observed(o, now)[s] \in BindingRow
  BY ObservedRow
<1>2. Observed(o, now) = [s \in Scopes |-> Observed(o, now)[s]]
  BY DEF Observed
<1> QED
  BY <1>1, <1>2

\* What an admitted effect holds and wrote.
LEMMA AdmitRow ==
    ASSUME Typed, NEW e \in Effects, Admit(e)
    PROVE  LET f == effect[e]
               h == effect'[e]
           IN  /\ f \in EffectRow /\ h \in EffectRow
               /\ h.organization = f.organization /\ h.now = f.now /\ h.safety = f.safety
               /\ h.holds = {s \in Inspected(f.organization, f.now) : binding[s].grant # None}
               /\ h.under = binding[Covering(f.organization, f.now)].grant
               /\ h.writes = Observed(f.organization, f.now)
<1> DEFINE f == effect[e]
           o == f.organization
           held == {s \in Inspected(o, f.now) : binding[s].grant # None}
           under == binding[Covering(o, f.now)].grant
           h == [f EXCEPT !.step = "working", !.holds = held, !.under = under,
                          !.writes = Observed(o, f.now)]
<1>1. f \in EffectRow
  BY DEF Admit, Decides, Typed
<1>2. o \in Organizations /\ f.now \in Nat
  BY <1>1 DEF EffectRow
<1>3. held \subseteq Scopes
  BY <1>2, ScopeFacts
<1>4. under \in Grants \cup {None}
  <2>1. Covering(o, f.now) \in Scopes
    BY <1>2, ScopeFacts DEF Covering
  <2> QED
    BY <2>1 DEF Typed, BindingRow
<1>5. Observed(o, f.now) \in [Scopes -> BindingRow]
  BY <1>2, ObservedTyped
<1>6. effect'[e] = h
  BY DEF Admit, Typed
<1> HIDE DEF held, under
<1>7. /\ h \in EffectRow /\ h.organization = o /\ h.now = f.now /\ h.safety = f.safety
      /\ h.holds = held /\ h.under = under /\ h.writes = Observed(o, f.now)
  BY <1>1, <1>3, <1>4, <1>5 DEF EffectRow
<1> QED
  BY <1>1, <1>6, <1>7 DEF held, under

\* Every step keeps the types and binds a grant to its own scope.
LEMMA TypedStep ==
    ASSUME EntInv, [Next]_vars
    PROVE  Typed' /\ BindingsMatch'
<1> USE DEF EntInv
<1>1. clock' \in Nat
  <2>1. \A n \in 0 .. MaxTime : n \in Nat
    OBVIOUS
  <2>2. ASSUME NEW n \in 0 .. MaxTime, MoveClock(n)
        PROVE  clock' \in Nat
    BY <2>1, <2>2 DEF MoveClock
  <2>3. (\E n \in 0 .. MaxTime : MoveClock(n)) \/ clock' = clock
    BY DEF Next, Import, ImportGrant, ImportRevocations, EffectStep, BeginEffect, Admit, Deny,
       CommitEffect, RollBackEffect, ResolveEntitlement, Sweep, BeginSweep, EndSweep, FailSweep,
       VisitBinding, vars
  <2> QED
    BY <2>2, <2>3 DEF Typed
<1>2. revoked' \subseteq Grants
  BY DEF Typed, Next, Import, ImportGrant, ImportRevocations, EffectStep, BeginEffect, Admit, Deny,
     CommitEffect, RollBackEffect, ResolveEntitlement, Sweep, BeginSweep, EndSweep, FailSweep,
     VisitBinding, MoveClock, vars
<1>3. binding' \in [Scopes -> BindingRow]
  <2>1. ASSUME NEW g \in Grants, ImportGrant(g) PROVE binding' \in [Scopes -> BindingRow]
    BY <2>1, ImportFacts
  <2>2. Advance => binding' \in [Scopes -> BindingRow]
    BY DEF Advance
  <2> QED
    BY <2>1, <2>2, EveryStepAdvances
<1>4. effect' \in [Effects -> {None} \cup EffectRow]
  <2>1. ASSUME NEW e \in Effects PROVE effect'[e] \in {None} \cup EffectRow
    <3>1. CASE effect'[e] = effect[e] \/ effect'[e] = None
      BY <3>1 DEF Typed
    <3>2. ASSUME NEW o \in Organizations, NEW safety \in BOOLEAN, BeginEffect(e, o, safety)
          PROVE  effect'[e] \in EffectRow
      <4>1. [s \in {} |-> NoBinding] \in [{} -> BindingRow]
        OBVIOUS
      <4> QED
        BY <3>2, <4>1 DEF BeginEffect, Typed, EffectRow
    <3>3. CASE Admit(e)
      BY <3>3, AdmitRow
    <3> QED
      BY <3>1, <3>2, <3>3, EffectChange
  <2>2. effect' = [e \in Effects |-> effect'[e]]
    BY DEF Typed, Next, Import, ImportGrant, ImportRevocations, EffectStep, BeginEffect, Admit, Deny,
       CommitEffect, RollBackEffect, ResolveEntitlement, Sweep, BeginSweep, EndSweep, FailSweep,
       VisitBinding, MoveClock, vars
  <2> QED
    BY <2>1, <2>2
<1>5. \A s \in Scopes : binding[s].grant # None => binding'[s].grant # None
  <2>1. ASSUME NEW g \in Grants, ImportGrant(g), NEW s \in Scopes, binding[s].grant # None
        PROVE  binding'[s].grant # None
    BY <2>1, ImportFacts, EntitlementAssumption
  <2> QED
    BY <2>1, EveryStepAdvances DEF Advance
<1>6. sweep' # None => /\ sweep' \in [now : Nat, todo : SUBSET Scopes]
                       /\ \A s \in sweep'.todo : binding'[s].grant # None
  <2>1. CASE BeginSweep
    <3>1. sweep' = [now |-> clock, todo |-> {s \in Scopes : OwesObservation(s, clock)}]
          /\ binding' = binding
      BY <2>1 DEF BeginSweep
    <3>2. \A s \in Scopes : OwesObservation(s, clock) => binding[s].grant # None
      BY DEF OwesObservation
    <3> QED
      BY <3>1, <3>2 DEF Typed
  <2>2. ASSUME NEW s \in Scopes, VisitBinding(s)
        PROVE  sweep' \in [now : Nat, todo : SUBSET Scopes] /\ \A t \in sweep'.todo : binding'[t].grant # None
    <3>1. sweep \in [now : Nat, todo : SUBSET Scopes] /\ sweep' = [sweep EXCEPT !.todo = @ \ {s}]
          /\ sweep # None
      BY <2>2 DEF VisitBinding, Typed
    <3>2. sweep' \in [now : Nat, todo : SUBSET Scopes] /\ sweep'.todo \subseteq sweep.todo
          /\ sweep.todo \subseteq Scopes
      BY <3>1
    <3> QED
      BY <1>5, <3>1, <3>2 DEF BindingsMatch
  <2>3. CASE sweep' = sweep
    <3>1. sweep # None => sweep.todo \subseteq Scopes
      BY DEF Typed
    <3> QED
      BY <1>5, <2>3, <3>1 DEF Typed, BindingsMatch
  <2>4. ~BeginSweep /\ (\A s \in Scopes : ~VisitBinding(s)) => sweep' = sweep \/ sweep' = None
    BY DEF Next, Import, ImportGrant, ImportRevocations, EffectStep, BeginEffect, Admit, Deny,
       CommitEffect, RollBackEffect, ResolveEntitlement, Sweep, EndSweep, FailSweep, MoveClock, vars
  <2> QED
    BY <2>1, <2>2, <2>3, <2>4
<1>7. \A s \in Scopes : binding'[s].grant # None => ScopeOf[binding'[s].grant] = s
  <2>1. ASSUME NEW g \in Grants, ImportGrant(g), NEW s \in Scopes, binding'[s].grant # None
        PROVE  ScopeOf[binding'[s].grant] = s
    <3>1. CASE s = ScopeOf[g]
      BY <2>1, <3>1, ImportFacts
    <3>2. CASE s # ScopeOf[g]
      BY <2>1, <3>2, ImportFacts DEF BindingsMatch
    <3> QED
      BY <3>1, <3>2
  <2> QED
    BY <2>1, EveryStepAdvances DEF Advance, BindingsMatch
<1> QED
  BY <1>1, <1>2, <1>3, <1>4, <1>6, <1>7 DEF Typed, BindingsMatch

\* What an effect at work concluded does not change before it ends.
LEMMA WorkUndisturbed ==
    ASSUME EntInv, [Next]_vars, NEW e \in Effects, Working(e), effect'[e] = effect[e]
    PROVE  /\ revoked' = revoked
           /\ \A s \in Inspected(effect[e].organization, effect[e].now) : binding'[s] = binding[s]
<1> USE DEF EntInv
<1> DEFINE f == effect[e]
<1>1. ~ImportGuardFree
  BY DEF ImportGuardFree
<1>2. \A g \in Grants : ~ImportGrant(g)
  BY <1>1 DEF ImportGrant
<1>3. revoked' = revoked
  BY <1>1, <1>2 DEF Next, Import, ImportRevocations, EffectStep, BeginEffect, Admit, Deny,
     CommitEffect, RollBackEffect, ResolveEntitlement, Sweep, BeginSweep, EndSweep, FailSweep,
     VisitBinding, MoveClock, vars
<1>4. LocksRespected
  BY <1>2, EveryStepAdvances
<1>5. f.organization \in Organizations
  BY DEF Working, Typed, EffectRow
<1>6. ASSUME NEW s \in Inspected(f.organization, f.now), binding'[s] # binding[s]
      PROVE  FALSE
  <2>1. s \in Scopes
    BY <1>5, <1>6, ScopeFacts
  <2>2. binding[s].grant # None /\ s \notin f.holds
    BY <1>4, <1>6, <2>1 DEF LocksRespected
  <2>3. f.holds = {t \in Inspected(f.organization, f.now) : binding[t].grant # None}
    BY DEF DecisionsHold, Settled
  <2> QED
    BY <1>6, <2>2, <2>3
<1> QED
  BY <1>3, <1>6

\* Every step keeps what the decisions in progress concluded.
LEMMA DecisionsHoldStep ==
    ASSUME EntInv, [Next]_vars
    PROVE  DecisionsHold'
<1> USE DEF EntInv
<1>1. ASSUME NEW e \in Effects, Working(e)', effect'[e] # effect[e]
      PROVE  Admit(e) /\ UNCHANGED <<binding, revoked>>
  <2>1. effect'[e] # None /\ effect'[e].step = "working"
    BY <1>1 DEF Working
  <2>2. ASSUME NEW o \in Organizations, NEW safety \in BOOLEAN, BeginEffect(e, o, safety)
        PROVE  FALSE
    BY <2>1, <2>2 DEF BeginEffect, Typed
  <2> QED
    BY <1>1, <2>1, <2>2, EffectChange DEF Admit
<1>2. ASSUME NEW e \in Effects, Working(e)'
      PROVE  Settled(e)'
  <2> DEFINE f == effect[e]
             o == f.organization
  <2>1. CASE effect'[e] = effect[e]
    <3>1. Working(e) /\ Settled(e)
      BY <1>2, <2>1 DEF Working, DecisionsHold
    <3>2. o \in Organizations /\ f.now \in Nat
      BY <3>1 DEF Working, Typed, EffectRow
    <3>3. revoked' = revoked /\ \A s \in Inspected(o, f.now) : binding'[s] = binding[s]
      BY <2>1, <3>1, WorkUndisturbed
    <3>4. PICK org, now : org = o /\ now = f.now
      OBVIOUS
    <3>5. /\ Inspected(org, now)' = Inspected(org, now)
          /\ Covering(org, now)' = Covering(org, now)
          /\ binding'[Covering(org, now)] = binding[Covering(org, now)]
          /\ Forward(org, now)' <=> Forward(org, now)
          /\ \A s \in Inspected(org, now) : Observed(org, now)'[s] = Observed(org, now)[s]
      BY <3>2, <3>3, <3>4, DecisionStable
    <3>6. /\ f.holds = {s \in Inspected(org, now) : binding[s].grant # None}
          /\ \A s \in f.holds : f.writes[s] = Observed(org, now)[s]
          /\ ~f.safety => f.under = binding[Covering(org, now)].grant /\ Forward(org, now)
      BY <3>1, <3>4 DEF Settled
    <3>7. /\ f.holds = {s \in Inspected(org, now)' : binding'[s].grant # None}
          /\ \A s \in f.holds : f.writes[s] = Observed(org, now)'[s]
          /\ ~f.safety => f.under = binding'[Covering(org, now)'].grant /\ Forward(org, now)'
      BY <3>3, <3>4, <3>5, <3>6
    <3> QED
      BY <2>1, <3>4, <3>7 DEF Settled
  <2>2. CASE effect'[e] # effect[e]
    <3>1. Admit(e) /\ UNCHANGED <<binding, revoked>>
      BY <1>2, <2>2, <1>1
    <3>2. /\ f \in EffectRow
          /\ effect'[e].organization = o /\ effect'[e].now = f.now /\ effect'[e].safety = f.safety
          /\ effect'[e].holds = {s \in Inspected(o, f.now) : binding[s].grant # None}
          /\ effect'[e].under = binding[Covering(o, f.now)].grant
          /\ effect'[e].writes = Observed(o, f.now)
      BY <3>1, AdmitRow
    <3>3. ~f.safety => Forward(o, f.now)
      BY <3>1 DEF Admit, Permitted
    <3>4. PICK org, now : org = o /\ now = f.now
      OBVIOUS
    <3>5. o \in Organizations /\ f.now \in Nat
      BY <3>2 DEF EffectRow
    <3>6. /\ Inspected(org, now)' = Inspected(org, now)
          /\ Covering(org, now)' = Covering(org, now)
          /\ Forward(org, now)' <=> Forward(org, now)
          /\ \A s \in Inspected(org, now) : Observed(org, now)'[s] = Observed(org, now)[s]
      BY <3>1, <3>4, <3>5, DecisionStable
    <3>7. /\ effect'[e].holds = {s \in Inspected(org, now)' : binding'[s].grant # None}
          /\ \A s \in effect'[e].holds : effect'[e].writes[s] = Observed(org, now)'[s]
          /\ ~effect'[e].safety => /\ effect'[e].under = binding'[Covering(org, now)'].grant
                                   /\ Forward(org, now)'
      BY <3>1, <3>2, <3>3, <3>4, <3>6
    <3> QED
      BY <3>2, <3>4, <3>7 DEF Settled
  <2> QED
    BY <2>1, <2>2
<1>3. ASSUME NEW e \in Effects, NEW d \in Effects, Working(e)', Working(d)', e # d,
             effect'[e] # effect[e]
      PROVE  effect'[e].holds \cap effect'[d].holds = {}
  <2>1. Admit(e) /\ effect'[d] = effect[d]
    BY <1>1, <1>3 DEF Admit, Typed
  <2>2. Working(d)
    BY <1>3, <2>1 DEF Working
  <2>3. effect'[e].holds \subseteq Inspected(effect[e].organization, effect[e].now)
    BY <2>1, AdmitRow
  <2>4. \A s \in Inspected(effect[e].organization, effect[e].now) : s \notin effect[d].holds
    BY <2>1, <2>2 DEF Admit, Decides, BindingFree
  <2> QED
    BY <2>1, <2>3, <2>4
<1>4. ASSUME NEW e \in Effects, NEW d \in Effects, Working(e)', Working(d)', e # d
      PROVE  effect'[e].holds \cap effect'[d].holds = {}
  <2>1. CASE effect'[e] = effect[e] /\ effect'[d] = effect[d]
    BY <1>4, <2>1 DEF DecisionsHold, Working
  <2>2. CASE effect'[e] # effect[e]
    BY <1>3, <1>4, <2>2
  <2>3. CASE effect'[d] # effect[d]
    BY <1>3, <1>4, <2>3
  <2> QED
    BY <2>1, <2>2, <2>3
<1> QED
  BY <1>2, <1>4 DEF DecisionsHold

\* Every step keeps expired grants in the past of their bindings.
LEMMA ExpiredArePastStep ==
    ASSUME EntInv, [Next]_vars
    PROVE  ExpiredArePast'
<1> USE DEF EntInv
<1>1. /\ \A s \in Scopes : binding[s].through \in Nat /\ binding[s].grant \in Grants \cup {None}
      /\ \A s \in Scopes : binding'[s].through \in Nat
      /\ \A g \in Grants : ScopeOf[g] \in Scopes /\ Sequence[g] \in Nat /\ GraceUntil[g] \in Nat
  BY TypedStep, EntitlementAssumption DEF Typed, BindingRow
<1>2. ASSUME NEW i \in Grants, ImportGrant(i)
      PROVE  ExpiredArePast'
  <2>1. ASSUME NEW s \in Scopes, binding'[s].expired
        PROVE  binding'[s].grant # None /\ GraceUntil[binding'[s].grant] <= binding'[s].through
    BY <1>2, <2>1, ImportFacts DEF ExpiredArePast
  <2>2. ASSUME NEW g \in expired'
        PROVE  LET b == binding'[ScopeOf[g]]
               IN  /\ g \in Grants /\ b.grant # None
                   /\ Sequence[g] <= Sequence[b.grant]
                   /\ b.grant = g => GraceUntil[g] <= b.through
    <3>1. g \in expired
      BY <1>2, ImportFacts
    <3>2. /\ g \in Grants /\ binding[ScopeOf[g]].grant \in Grants
          /\ Sequence[g] <= Sequence[binding[ScopeOf[g]].grant]
          /\ binding[ScopeOf[g]].grant = g => GraceUntil[g] <= binding[ScopeOf[g]].through
      BY <1>1, <3>1 DEF ExpiredArePast
    <3>3. CASE ScopeOf[g] # ScopeOf[i]
      <4>1. binding'[ScopeOf[g]] = binding[ScopeOf[g]]
        BY <1>1, <1>2, <3>2, <3>3, ImportFacts
      <4> QED
        BY <3>2, <4>1, EntitlementAssumption
    <3>4. CASE ScopeOf[g] = ScopeOf[i]
      <4>1. /\ binding[ScopeOf[g]].grant # None
            /\ Sequence[i] > Sequence[binding[ScopeOf[g]].grant]
            /\ binding'[ScopeOf[g]].grant = i
        BY <1>2, <3>2, <3>4, ImportFacts, EntitlementAssumption
      <4>2. Sequence[g] < Sequence[i]
        BY <1>1, <3>2, <4>1
      <4> QED
        BY <1>1, <3>2, <4>1, <4>2, EntitlementAssumption
    <3> QED
      BY <3>3, <3>4
  <2> QED
    BY <2>1, <2>2 DEF ExpiredArePast
<1>3. ASSUME Advance
      PROVE  ExpiredArePast'
  <2>1. ASSUME NEW s \in Scopes, binding'[s].expired
        PROVE  binding'[s].grant # None /\ GraceUntil[binding'[s].grant] <= binding'[s].through
    <3>1. binding'[s].grant = binding[s].grant /\ binding[s].through <= binding'[s].through
      BY <1>3 DEF Advance
    <3>2. CASE binding[s].expired
      <4>1. binding[s].grant \in Grants /\ GraceUntil[binding[s].grant] <= binding[s].through
        BY <1>1, <3>2 DEF ExpiredArePast
      <4> QED
        BY <1>1, <3>1, <4>1, EntitlementAssumption
    <3>3. CASE ~binding[s].expired
      BY <1>3, <2>1, <3>1, <3>3, EntitlementAssumption DEF Advance
    <3> QED
      BY <3>2, <3>3
  <2>2. ASSUME NEW g \in expired'
        PROVE  LET b == binding'[ScopeOf[g]]
               IN  /\ g \in Grants /\ b.grant # None
                   /\ Sequence[g] <= Sequence[b.grant]
                   /\ b.grant = g => GraceUntil[g] <= b.through
    <3>1. CASE g \in expired
      <4>1. /\ g \in Grants /\ binding[ScopeOf[g]].grant # None
            /\ Sequence[g] <= Sequence[binding[ScopeOf[g]].grant]
            /\ binding[ScopeOf[g]].grant = g => GraceUntil[g] <= binding[ScopeOf[g]].through
        BY <3>1 DEF ExpiredArePast
      <4>2. /\ binding'[ScopeOf[g]].grant = binding[ScopeOf[g]].grant
            /\ binding[ScopeOf[g]].through <= binding'[ScopeOf[g]].through
        BY <1>1, <1>3, <4>1 DEF Advance
      <4> QED
        BY <1>1, <4>1, <4>2
    <3>2. CASE g \notin expired
      <4>1. PICK s \in Scopes : /\ g = binding[s].grant /\ g \in Grants
                               /\ GraceUntil[g] <= binding'[s].through
        BY <1>3, <2>2, <3>2 DEF Advance
      <4>2. s = ScopeOf[g] /\ binding'[s].grant = g
        BY <1>3, <4>1, EntitlementAssumption DEF Advance, BindingsMatch
      <4>3. g # None /\ Sequence[g] \in Nat
        BY <4>1, EntitlementAssumption
      <4>4. Sequence[g] <= Sequence[g]
        BY <4>3
      <4>5. binding'[ScopeOf[g]].grant = g /\ GraceUntil[g] <= binding'[ScopeOf[g]].through
        BY <4>1, <4>2
      <4> QED
        BY <4>1, <4>3, <4>4, <4>5
    <3> QED
      BY <3>1, <3>2
  <2> QED
    BY <2>1, <2>2 DEF ExpiredArePast
<1> QED
  BY <1>2, <1>3, EveryStepAdvances

\* The invariant of decisions and expiry holds always.
LEMMA EntInvariant == Spec => []EntInv
<1>1. Init => EntInv
  <2> SUFFICES ASSUME Init PROVE EntInv
    OBVIOUS
  <2>1. Typed
    BY DEF Init, Typed, NoBinding, BindingRow
  <2>2. BindingsMatch /\ DecisionsHold /\ ExpiredArePast
    BY DEF Init, BindingsMatch, DecisionsHold, ExpiredArePast, NoBinding, Working
  <2> QED
    BY <2>1, <2>2 DEF EntInv
<1>2. EntInv /\ [Next]_vars => EntInv'
  BY TypedStep, DecisionsHoldStep, ExpiredArePastStep DEF EntInv
<1> QED
  BY <1>1, <1>2, PTL DEF Spec

\* No import replaces, revokes or outranks the grant of forward work between its
\* decision and its commit, and no other decision moves the time under it.
THEOREM WorkKeepsItsGrant == Spec => []WorksUnderCoveringGrant
<1>1. EntInv => WorksUnderCoveringGrant
  BY DEF EntInv, DecisionsHold, Settled, WorksUnderCoveringGrant
<1> QED
  BY <1>1, EntInvariant, PTL

\* A grant that a decision or the sweep called expired carries no forward work,
\* however the clock moves and whatever is imported.
THEOREM ExpiryIsFinal == Spec => []ExpiredStaysExpired
<1>1. EntInv => ExpiredStaysExpired
  <2> SUFFICES ASSUME EntInv, NEW e \in Effects, Working(e), ~effect[e].safety,
                      effect[e].under \in expired
               PROVE  FALSE
    BY DEF ExpiredStaysExpired
  <2> DEFINE f == effect[e]
             s == Covering(f.organization, f.now)
  <2>1. f.organization \in Organizations /\ f.now \in Nat
    BY DEF EntInv, Typed, Working, EffectRow
  <2>2. s \in Scopes
    BY <2>1, ScopeFacts DEF Covering
  <2>3. f.under = binding[s].grant /\ GrantState(s, f.now) \in {"valid", "grace"}
    BY DEF EntInv, DecisionsHold, Settled, Forward
  <2>4. /\ binding[s].grant \in Grants
        /\ EffectiveNow(s, f.now) < GraceUntil[binding[s].grant]
        /\ binding[s].through <= EffectiveNow(s, f.now) /\ EffectiveNow(s, f.now) \in Nat
    BY <2>1, <2>2, <2>3, GrantStateFacts DEF EntInv
  <2>5. ScopeOf[binding[s].grant] = s
    BY <2>2, <2>4, EntitlementAssumption DEF EntInv, BindingsMatch
  <2>6. GraceUntil[binding[s].grant] <= binding[s].through
    BY <2>3, <2>5 DEF EntInv, ExpiredArePast
  <2>7. GraceUntil[binding[s].grant] \in Nat /\ binding[s].through \in Nat
    BY <2>2, <2>4, EntitlementAssumption DEF EntInv, Typed, BindingRow
  <2> QED
    BY <2>4, <2>6, <2>7
<1> QED
  BY <1>1, EntInvariant, PTL

=============================================================================
