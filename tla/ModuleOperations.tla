-------------------------- MODULE ModuleOperations --------------------------
(***************************************************************************)
(* Delegated operations on a Module: a plugin holds a grant for an         *)
(* operation (internal/model/external_operation_grants.go) and, under it,  *)
(* reserves the Module, promotes the operation's target version, restores  *)
(* the Default captured when the grant was prepared, and releases the      *)
(* reservation (internal/model/external_module_operations.go), while users *)
(* change the same Module (ModuleVersions).                                *)
(*                                                                         *)
(* A command is one transaction under the grant's, the operation's and the *)
(* Module's locks, hence one step.  Commands of the plugin are delayed and *)
(* repeated by its retries: the slow clients of ModuleVersions send them   *)
(* here.  The actor of a command is the actor of the grant revision it     *)
(* names, so comparing revisions compares actors.  Every fence was written *)
(* with the receipt of the reserve that took it, so the evidence a safety  *)
(* reservation looks up is the fence itself.                               *)
(***************************************************************************)
EXTENDS ModuleVersions

CONSTANTS
    Operations,        \* operations of the plugin
    TargetOf,          \* Intent.TargetVersions: the frozen target of an operation
    UserReservations,  \* reservation identities that users take by the API
    MaxFence,          \* bound: fence of an operation
    MaxGrant           \* bound: revision of a grant

\* The reservation of operation o under fence f: uuid.NewSHA1 over both.
Lease(o, f) == <<o, f>>

ASSUME OperationAssumption ==
    /\ TargetOf \in [Operations -> Versions]
    /\ MaxFence \in Nat
    /\ MaxGrant \in Nat
    /\ Reservations = UserReservations \cup (Operations \X (1 .. MaxFence))
    /\ UserReservations \cap (Operations \X (1 .. MaxFence)) = {}

VARIABLES
    grant,      \* external_operation_grants
    operation,  \* external_module_operations (fence 0: no row)
    maker       \* history: who made the present Default: an operation or "user"

opVars == <<grant, operation, maker>>
allVars == <<vars, opVars>>

NoGrant == [state |-> "none", revision |-> 0, baseline |-> NoVersion, safety |-> FALSE]
NoOperation == [state |-> "released", fence |-> 0]

-----------------------------------------------------------------------------
(* ApplyExternalGrantCommand.                                              *)

\* A command in flight under another authority than the present one.
Overtake(o) ==
    pending' = [k \in Clients |->
                  IF pending[k] # NoCommand /\ pending[k].operation = o
                    THEN [pending[k] EXCEPT !.overtaken = TRUE]
                    ELSE pending[k]]

\* prepare: freezes the intent and captures the Default it starts from.
PrepareGrant(o) ==
    /\ grant[o].state = "none"
    /\ catalogue = "active"
    /\ status[TargetOf[o]] # "none"
    /\ grant' = [grant EXCEPT ![o] = [state |-> "prepared", revision |-> 1,
                                      baseline |-> current, safety |-> FALSE]]
    /\ UNCHANGED <<lifecycleVars, catalogue, reservation, pending, operation, maker>>

\* Mutant: activating an active grant keeps its fence.
RotateWhenInactive(o) ==
    IF grant[o].state = "active" THEN grant[o].revision ELSE grant[o].revision + 1

\* Every command rotates the grant's fence, an activation of an active one too.
Rotated(o) == grant[o].revision + 1

\* Mutant: the command's name is stored as the state.
NameOfCommand(command) == command

StateAfter(command) ==
    CASE command = "activate" -> "active"
      [] command = "suspend" -> "suspended"
      [] command = "release" -> "released"

\* activate (from every state, with or without verified safety authority),
\* suspend and release.
ChangeGrant(o, command, safety) ==
    /\ grant[o].state # "none"
    /\ command = "suspend" => grant[o].state = "active"
    /\ command = "release" => grant[o].state # "released"
    /\ safety => command = "activate"
    /\ grant[o].revision < MaxGrant
    /\ grant' = [grant EXCEPT ![o].state = StateAfter(command), ![o].safety = safety,
                              ![o].revision = Rotated(o)]
    /\ Overtake(o)
    /\ UNCHANGED <<lifecycleVars, catalogue, reservation, operation, maker>>

-----------------------------------------------------------------------------
(* ApplyExternalModuleOperation.                                           *)

\* What the grant allows in each state; a suspended or released one only cleanup.
GrantAllows(c) ==
    LET g == grant[c.operation]
    IN  /\ g.revision = c.grantFence
        /\ \/ g.state = "active"
           \/ g.state = "prepared" /\ c.op = "reserve"
           \/ g.state \in {"suspended", "released"} /\ c.op = "release"

\* Mutant: the operation's fence is not compared.
AnyFence(c) == operation[c.operation].fence > 0

\* The command expects the present fence of an existing operation.
SameFence(c) ==
    /\ operation[c.operation].fence > 0
    /\ operation[c.operation].fence = c.expectedFence

\* The operation holds the Module under the fence of its row.
HoldsLease(o) ==
    /\ operation[o].state = "active"
    /\ reservation[Lease(o, operation[o].fence)] = "active"

\* reserve, the first time or after a release: the next fence takes a new
\* reservation.  A safety activation only returns to a Module it held before.
Reserve(c) ==
    LET o == c.operation
        next == operation[o].fence + 1
    IN  /\ c.op = "reserve"
        /\ c.expectedFence = operation[o].fence
        /\ grant[o].safety => c.expectedFence > 0
        /\ operation[o].state = "released"
        /\ next <= MaxFence
        /\ AcquireModuleOperationReservation(Lease(o, next))
        /\ operation' = [operation EXCEPT ![o] = [state |-> "active", fence |-> next]]
        /\ UNCHANGED <<lifecycleVars, catalogue, grant, maker>>

\* Mutant: the operation's row changes, its reservation stays.
ForgetLease(o) == UNCHANGED reservation

\* The exact reservation of the present fence is released.
ReleaseLease(o) == ReleaseModuleOperationReservation(Lease(o, operation[o].fence))

\* release; the Module keeps its Default.
ReleaseOperation(c) ==
    LET o == c.operation
    IN  /\ c.op = "release"
        /\ SameFence(c)
        /\ HoldsLease(o)
        /\ ReleaseLease(o)
        /\ operation' = [operation EXCEPT ![o].state = "released"]
        /\ UNCHANGED <<lifecycleVars, catalogue, grant, maker>>

\* promote: the frozen target replaces the captured Default.
Promote(c) ==
    LET o == c.operation
    IN  /\ c.op = "promote"
        /\ SameFence(c)
        /\ HoldsLease(o)
        /\ current = grant[o].baseline
        /\ status[TargetOf[o]] = "proposed"
        /\ MakeDefault(TargetOf[o], c.expected)
        /\ maker' = o
        /\ UNCHANGED <<catalogue, reservation, grant, operation>>

\* restore: the captured Default replaces the frozen target, at whatever
\* revision the captured version has by now.
Restore(c) ==
    LET o == c.operation
        base == grant[o].baseline
    IN  /\ c.op = "restore"
        /\ SameFence(c)
        /\ HoldsLease(o)
        /\ base # NoVersion
        /\ current = TargetOf[o]
        /\ status[base] = "deprecated"
        /\ MakeDefault(base, rev[base])
        /\ maker' = o
        /\ UNCHANGED <<catalogue, reservation, grant, operation>>

\* A reserve under a safety activation that finds its lease held changes
\* nothing, and every replay of a receipt neither: no step stands for them.
Apply(c) ==
    /\ GrantAllows(c)
    /\ Reserve(c) \/ ReleaseOperation(c) \/ Promote(c) \/ Restore(c)

\* The commands a plugin can build from the grant and the fence it knows.
Command(o, op) ==
    [op |-> op, operation |-> o, grantFence |-> grant[o].revision,
     expectedFence |-> operation[o].fence, expected |-> rev[TargetOf[o]],
     overtaken |-> FALSE]
Commands ==
    {Command(o, op) : o \in {p \in Operations : grant[p].state # "none"},
                      op \in {"reserve", "release", "promote", "restore"}}

PromptOperation(c) == Apply(c) /\ UNCHANGED pending

SendOperation(k, c) == Send(k, c) /\ UNCHANGED opVars

ArriveOperation(k) ==
    /\ pending[k] # NoCommand
    /\ Apply(pending[k])
    /\ pending' = [pending EXCEPT ![k] = NoCommand]

GiveUpOperation(k) == GiveUp(k) /\ UNCHANGED opVars

-----------------------------------------------------------------------------
(* Users of the same Module: its reservation does not bind them.           *)

UserCommand(c) ==
    /\ Prompt(c)
    /\ maker' = IF current' # current THEN "user" ELSE maker
    /\ UNCHANGED <<grant, operation>>

UserAcquire(i) == Acquire(i) /\ UNCHANGED opVars
UserRelease(i) == Release(i) /\ UNCHANGED opVars

-----------------------------------------------------------------------------

OpInit ==
    /\ Init
    /\ grant = [o \in Operations |-> NoGrant]
    /\ operation = [o \in Operations |-> NoOperation]
    /\ maker = "user"

OpNext ==
    \/ \E o \in Operations : PrepareGrant(o)
    \/ \E o \in Operations, c \in {"activate", "suspend", "release"}, safety \in BOOLEAN :
         ChangeGrant(o, c, safety)
    \/ \E c \in Commands : PromptOperation(c)
    \/ \E k \in Clients, c \in Commands : SendOperation(k, c)
    \/ \E k \in Clients : ArriveOperation(k) \/ GiveUpOperation(k)
    \/ \E c \in Publications \cup Changes : UserCommand(c)
    \/ \E i \in UserReservations : UserAcquire(i)
    \/ \E i \in Reservations : UserRelease(i)

OpSpec == OpInit /\ [][OpNext]_allVars

-----------------------------------------------------------------------------
(* Properties.                                                             *)

\* Grants and operations hold the values their columns can hold.
OpTypeOK ==
    /\ grant \in [Operations ->
                    [state : {"none", "prepared", "active", "suspended", "released"},
                     revision : Nat, baseline : Versions \cup {NoVersion}, safety : BOOLEAN]]
    /\ operation \in [Operations -> [state : {"active", "released"}, fence : Nat]]
    /\ maker \in Operations \cup {"user"}

\* An active reservation of an operation is the one of its present fence, and its
\* row says it holds it: no lease outlives a release or the next reserve, so the
\* Module never stays reserved by an operation that cannot give it back.
LeasesAreOwned ==
    \A o \in Operations, f \in 1 .. MaxFence :
      reservation[Lease(o, f)] = "active"
      => operation[o].state = "active" /\ operation[o].fence = f

\* A late command takes effect under the grant revision it was sent under: none
\* lands after its grant was suspended, released or activated anew in between,
\* even if the grant is active again.
AppliesUnderItsGrant ==
    [][\A k \in Clients :
         LET c == pending[k]
         IN  /\ c # NoCommand /\ pending'[k] = NoCommand
             /\ <<current, reservation>>' # <<current, reservation>>
             => ~c.overtaken]_allVars

\* A late promotion, restoration or release takes effect under the very
\* reservation its sender held: the Module was not released and reserved again
\* by the operation, nor freed by a user, while the command was on its way.
AppliesUnderItsLease ==
    [][\A k \in Clients :
         LET c == pending[k]
         IN  /\ c # NoCommand /\ pending'[k] = NoCommand
             /\ <<current, reservation>>' # <<current, reservation>>
             /\ c.op # "reserve"
             => /\ c.expectedFence > 0
                /\ reservation[Lease(c.operation, c.expectedFence)] = "active"]_allVars

\* A restoration undoes a promotion that its own operation made.
RestoresOwnPromotion ==
    [][\A o \in Operations :
         maker' = o /\ current' # current /\ status[current'] = "deprecated"
         => maker = o]_allVars

=============================================================================
