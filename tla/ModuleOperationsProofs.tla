----------------------- MODULE ModuleOperationsProofs -----------------------
(***************************************************************************)
(* Proofs about ModuleOperations, for every set of operations, versions,   *)
(* reservations and clients: the leases of operations, the authority under *)
(* which a late command takes effect, and that the invariants of           *)
(* ModuleVersions survive the commands of plugins.                         *)
(*                                                                         *)
(* The inductive invariant adds to the properties that a fence is within   *)
(* its bound (so that its lease is a reservation), that a grant without a  *)
(* row has revision 0, and what a command in flight knows: its grant fence *)
(* is not ahead of the grant, and behind it once the command is overtaken. *)
(***************************************************************************)
EXTENDS ModuleOperations, ModuleVersionsProofs

-----------------------------------------------------------------------------
(* The inductive invariant.                                                *)

\* A command of a plugin with the fences it knew.
Sent(c) ==
    /\ c.operation \in Operations
    /\ c.grantFence \in Nat
    /\ c.grantFence <= grant[c.operation].revision
    /\ c.overtaken => c.grantFence < grant[c.operation].revision
    /\ c.expected \in Nat

CommandsInFlight ==
    /\ pending = [k \in Clients |-> pending[k]]
    /\ \A k \in Clients : pending[k] # NoCommand => Sent(pending[k])

\* Fences are within their bound; a grant without a row has revision 0.
FencesBounded ==
    /\ \A o \in Operations : operation[o].fence <= MaxFence
    /\ \A o \in Operations : grant[o].state = "none" => grant[o].revision = 0

OpInv ==
    /\ CoreInv
    /\ OpTypeOK
    /\ FencesBounded
    /\ LeasesAreOwned
    /\ CommandsInFlight

-----------------------------------------------------------------------------
(* Facts about leases.                                                     *)

\* A lease is a reservation of its own that no user takes.
LEMMA LeaseFacts ==
    /\ \A o \in Operations, f \in 1 .. MaxFence :
         Lease(o, f) \in Reservations /\ Lease(o, f) \notin UserReservations
    /\ \A o, p \in Operations, f, g \in 1 .. MaxFence :
         Lease(o, f) = Lease(p, g) => o = p /\ f = g
    /\ UserReservations \subseteq Reservations
BY OperationAssumption DEF Lease

\* Taking or returning a reservation keeps the invariant of the Module.
LEMMA ReservationKeepsCore ==
    ASSUME CoreInv, NEW i \in Reservations,
           AcquireModuleOperationReservation(i) \/ ReleaseModuleOperationReservation(i),
           UNCHANGED <<lifecycleVars, catalogue>>
    PROVE  CoreInv'
<1> USE DEF CoreInv, AcquireModuleOperationReservation, ReleaseModuleOperationReservation,
            lifecycleVars
<1>1. TypeOK' /\ DefaultIsCurrent' /\ UnpublishedIsNew'
  BY DEF TypeOK, DefaultIsCurrent, UnpublishedIsNew
<1>2. ArchivedIsUnreserved'
  BY DEF TypeOK, ArchivedIsUnreserved, Reserved
<1>3. HeadIsLastServed' /\ PointersServed'
  BY DEF HeadIsLastServed, PointersServed, LineageHead
<1> QED
  BY <1>1, <1>2, <1>3

\* Steps that leave the Module alone keep its invariant.
LEMMA CoreUnchanged ==
    ASSUME CoreInv, UNCHANGED <<lifecycleVars, catalogue, reservation>>
    PROVE  CoreInv'
BY DEF CoreInv, TypeOK, DefaultIsCurrent, ArchivedIsUnreserved, Reserved, HeadIsLastServed,
       PointersServed, UnpublishedIsNew, LineageHead, lifecycleVars

-----------------------------------------------------------------------------
(* One lemma per command.                                                  *)

\* A reserve takes the lease of the operation's next fence.
LEMMA ReserveStep ==
    ASSUME OpInv, NEW c, c.operation \in Operations, Reserve(c)
    PROVE  CoreInv' /\ OpTypeOK' /\ FencesBounded' /\ LeasesAreOwned'
<1> DEFINE o == c.operation
           next == operation[o].fence + 1
<1> USE DEF OpInv
<1>1. next \in 1 .. MaxFence /\ next \in Nat
  BY OperationAssumption DEF OpTypeOK, Reserve
<1>2. Lease(o, next) \in Reservations
  BY <1>1, LeaseFacts
<1>3. CoreInv'
  BY <1>2, ReservationKeepsCore DEF Reserve
<1>4. operation' = [operation EXCEPT ![o] = [state |-> "active", fence |-> next]]
      /\ UNCHANGED <<grant, maker>>
  BY DEF Reserve
<1>5. OpTypeOK' /\ FencesBounded'
  BY <1>1, <1>4 DEF OpTypeOK, FencesBounded
<1>6. LeasesAreOwned'
  <2>1. /\ reservation' = [reservation EXCEPT ![Lease(o, next)] = "active"]
        /\ \A i \in Reservations : reservation[i] # "active"
    BY DEF Reserve, AcquireModuleOperationReservation, Reserved
  <2>2. SUFFICES ASSUME NEW p \in Operations, NEW f \in 1 .. MaxFence,
                        reservation'[Lease(p, f)] = "active"
                 PROVE  operation'[p].state = "active" /\ operation'[p].fence = f
    BY DEF LeasesAreOwned, Lease
  <2>3. Lease(p, f) = Lease(o, next)
    BY <2>1, <2>2, LeaseFacts DEF CoreInv, TypeOK
  <2>4. p = o /\ f = next
    BY <1>1, <2>3, LeaseFacts
  <2> QED
    BY <1>4, <2>4 DEF OpTypeOK
<1> QED
  BY <1>3, <1>5, <1>6

\* A release ends the lease with the operation's row.
LEMMA ReleaseStep ==
    ASSUME OpInv, NEW c, c.operation \in Operations, ReleaseOperation(c)
    PROVE  CoreInv' /\ OpTypeOK' /\ FencesBounded' /\ LeasesAreOwned'
<1> DEFINE o == c.operation
           held == operation[o].fence
<1> USE DEF OpInv
<1>1. held \in 1 .. MaxFence
  BY OperationAssumption DEF OpTypeOK, FencesBounded, ReleaseOperation, SameFence
<1>2. Lease(o, held) \in Reservations
  BY <1>1, LeaseFacts
<1>3. ReleaseModuleOperationReservation(Lease(o, held))
  BY DEF ReleaseOperation, ReleaseLease
<1>4. CoreInv'
  BY <1>2, <1>3, ReservationKeepsCore DEF ReleaseOperation
<1>5. operation' = [operation EXCEPT ![o].state = "released"] /\ UNCHANGED <<grant, maker>>
  BY DEF ReleaseOperation
<1>6. OpTypeOK' /\ FencesBounded'
  BY <1>5 DEF OpTypeOK, FencesBounded
<1>7. LeasesAreOwned'
  <2>1. SUFFICES ASSUME NEW p \in Operations, NEW f \in 1 .. MaxFence,
                        reservation'[Lease(p, f)] = "active"
                 PROVE  operation'[p].state = "active" /\ operation'[p].fence = f
    BY DEF LeasesAreOwned, Lease
  <2>2. Lease(p, f) \in Reservations
    BY LeaseFacts
  <2>3. reservation[Lease(p, f)] = "active" /\ Lease(p, f) # Lease(o, held)
    BY <1>2, <1>3, <2>1, <2>2 DEF ReleaseModuleOperationReservation, CoreInv, TypeOK
  <2>4. operation[p].state = "active" /\ operation[p].fence = f
    BY <2>3 DEF LeasesAreOwned
  <2>5. p # o
    BY <2>3, <2>4
  <2> QED
    BY <1>5, <2>4, <2>5 DEF OpTypeOK
<1> QED
  BY <1>4, <1>6, <1>7

\* A promotion or restoration by an operation is a promotion or restoration of
\* the Module.
LEMMA OperationMakesDefault ==
    ASSUME OpInv, NEW c, Sent(c), Promote(c) \/ Restore(c)
    PROVE  \E v \in Versions, expected \in Nat :
             MakeDefault(v, expected) /\ UNCHANGED <<catalogue, reservation>>
<1>1. c.operation \in Operations /\ c.expected \in Nat
  BY DEF Sent
<1>2. CASE Promote(c)
  <2>1. TargetOf[c.operation] \in Versions
    BY <1>1, OperationAssumption
  <2> QED
    BY <1>1, <1>2, <2>1 DEF Promote
<1>3. CASE Restore(c)
  <2>1. grant[c.operation].baseline \in Versions
    BY <1>1, <1>3 DEF Restore, OpInv, OpTypeOK
  <2>2. rev[grant[c.operation].baseline] \in Nat
    BY <2>1 DEF OpInv, CoreInv, TypeOK
  <2> QED
    BY <1>3, <2>1, <2>2 DEF Restore
<1> QED
  BY <1>2, <1>3

\* Every command that takes effect keeps fences and leases.
LEMMA ApplyStep ==
    ASSUME OpInv, NEW c, Sent(c), Apply(c)
    PROVE  CoreInv' /\ OpTypeOK' /\ FencesBounded' /\ LeasesAreOwned' /\ grant' = grant
<1>1. c.operation \in Operations
  BY DEF Sent
<1>2. CASE Reserve(c)
  BY <1>1, <1>2, ReserveStep DEF Reserve
<1>3. CASE ReleaseOperation(c)
  BY <1>1, <1>3, ReleaseStep DEF ReleaseOperation
<1>4. CASE Promote(c) \/ Restore(c)
  <2>1. CoreInv'
    BY <1>4, OperationMakesDefault, MakeDefaultStep DEF OpInv
  <2>2. UNCHANGED <<reservation, grant, operation>> /\ maker' = c.operation
    BY <1>4 DEF Promote, Restore
  <2> QED
    BY <1>1, <2>1, <2>2 DEF OpInv, OpTypeOK, FencesBounded, LeasesAreOwned
<1> QED
  BY <1>2, <1>3, <1>4 DEF Apply

\* A client sends the fences that Core has at that moment.
LEMMA CommandsAreSent ==
    ASSUME OpInv, NEW c \in Commands
    PROVE  Sent(c)
<1>1. PICK o \in Operations, op \in {"reserve", "release", "promote", "restore"} : c = Command(o, op)
  BY DEF Commands
<1>2. TargetOf[o] \in Versions
  BY OperationAssumption
<1>3. rev[TargetOf[o]] \in Nat /\ grant[o].revision \in Nat
  BY <1>2 DEF OpInv, CoreInv, TypeOK, OpTypeOK
<1> QED
  BY <1>1, <1>3 DEF Command, Sent

-----------------------------------------------------------------------------
(* Every step.                                                             *)

\* A step that leaves the grants alone and at most ends commands in flight.
LEMMA InFlightKept ==
    ASSUME CommandsInFlight, grant' = grant,
           pending' = pending \/ \E k \in Clients : pending' = [pending EXCEPT ![k] = NoCommand]
    PROVE  CommandsInFlight'
<1>1. CASE pending' = pending
  BY <1>1 DEF CommandsInFlight, Sent
<1>2. ASSUME NEW k \in Clients, pending' = [pending EXCEPT ![k] = NoCommand]
      PROVE  CommandsInFlight'
  <2>1. pending' = [l \in Clients |-> pending'[l]]
    BY <1>2 DEF CommandsInFlight
  <2>2. ASSUME NEW l \in Clients, pending'[l] # NoCommand
        PROVE  Sent(pending[l])'
    <3>1. pending'[l] = pending[l]
      BY <1>2, <2>2 DEF CommandsInFlight
    <3> QED
      BY <2>2, <3>1 DEF CommandsInFlight, Sent
  <2> QED
    BY <2>1, <2>2 DEF CommandsInFlight
<1> QED
  BY <1>1, <1>2

\* Preparing a grant keeps the invariant: no command knows a later revision.
LEMMA PrepareStep ==
    ASSUME OpInv, NEW o \in Operations, PrepareGrant(o)
    PROVE  OpInv'
<1> USE DEF OpInv
<1> DEFINE row == [state |-> "prepared", revision |-> 1, baseline |-> current, safety |-> FALSE]
<1>1. CoreInv'
  BY CoreUnchanged DEF PrepareGrant
<1>2. grant' = [grant EXCEPT ![o] = row] /\ UNCHANGED <<operation, maker, pending, reservation>>
  BY DEF PrepareGrant
<1>3. OpTypeOK'
  <2>1. current \in Versions \cup {NoVersion}
    BY DEF CoreInv, TypeOK
  <2> QED
    BY <1>2, <2>1 DEF OpTypeOK
<1>4. FencesBounded' /\ LeasesAreOwned'
  BY <1>2 DEF FencesBounded, LeasesAreOwned, OpTypeOK
<1>5. grant[o].revision = 0 /\ grant'[o].revision = 1
      /\ \A p \in Operations : p # o => grant'[p] = grant[p]
  BY <1>2 DEF FencesBounded, OpTypeOK, PrepareGrant
<1>6. ASSUME NEW c, Sent(c) PROVE Sent(c)'
  <2>1. grant[c.operation].revision \in Nat
    BY <1>6 DEF Sent, OpTypeOK
  <2>2. CASE c.operation = o
    BY <1>5, <1>6, <2>2 DEF Sent
  <2>3. CASE c.operation # o
    BY <1>5, <1>6, <2>3 DEF Sent
  <2> QED
    BY <2>2, <2>3
<1>7. CommandsInFlight'
  BY <1>2, <1>6 DEF CommandsInFlight
<1> QED
  BY <1>1, <1>3, <1>4, <1>7

\* Every change of a grant rotates its fence and overtakes its commands.
LEMMA ChangeGrantStep ==
    ASSUME OpInv, NEW o \in Operations, NEW command \in {"activate", "suspend", "release"},
           NEW safety \in BOOLEAN, ChangeGrant(o, command, safety)
    PROVE  OpInv'
<1> USE DEF OpInv
<1> DEFINE row == [grant[o] EXCEPT !.state = StateAfter(command), !.safety = safety,
                                   !.revision = Rotated(o)]
<1>1. CoreInv'
  BY CoreUnchanged DEF ChangeGrant
<1>2. StateAfter(command) \in {"active", "suspended", "released"}
  BY DEF StateAfter
<1>3. grant' = [grant EXCEPT ![o] = row] /\ UNCHANGED <<operation, maker, reservation>>
  BY DEF ChangeGrant, OpTypeOK
<1>4. /\ row \in [state : {"none", "prepared", "active", "suspended", "released"},
                  revision : Nat, baseline : Versions \cup {NoVersion}, safety : BOOLEAN]
      /\ row.state # "none" /\ row.revision = grant[o].revision + 1
  <2>1. /\ grant[o] \in [state : {"none", "prepared", "active", "suspended", "released"},
                          revision : Nat, baseline : Versions \cup {NoVersion}, safety : BOOLEAN]
        /\ Rotated(o) = grant[o].revision + 1
    BY DEF OpTypeOK, Rotated
  <2>2. Rotated(o) \in Nat
    BY <2>1
  <2>3. row.state = StateAfter(command) /\ row.revision = Rotated(o)
    BY <2>1
  <2>4. row \in [state : {"none", "prepared", "active", "suspended", "released"},
                revision : Nat, baseline : Versions \cup {NoVersion}, safety : BOOLEAN]
    BY <1>2, <2>1, <2>2
  <2> QED
    BY <1>2, <2>1, <2>3, <2>4
<1> HIDE DEF row
<1>5. OpTypeOK' /\ FencesBounded' /\ LeasesAreOwned'
  BY <1>3, <1>4 DEF OpTypeOK, FencesBounded, LeasesAreOwned
<1>6. grant'[o].revision = grant[o].revision + 1
      /\ \A p \in Operations : p # o => grant'[p] = grant[p]
  BY <1>3, <1>4 DEF OpTypeOK
<1>7. Overtake(o)
  BY DEF ChangeGrant
<1>8. pending' = [k \in Clients |-> pending'[k]]
  BY <1>7 DEF Overtake
<1>9. ASSUME NEW k \in Clients, pending'[k] # NoCommand
      PROVE  Sent(pending[k])'
  <2>1. CASE pending[k] # NoCommand /\ pending[k].operation = o
    <3>1. pending'[k] = [pending[k] EXCEPT !.overtaken = TRUE] /\ Sent(pending[k])
      BY <1>7, <2>1 DEF Overtake, CommandsInFlight
    <3>2. /\ pending'[k].operation = o /\ pending'[k].grantFence = pending[k].grantFence
          /\ pending'[k].expected = pending[k].expected
      BY <2>1, <3>1
    <3> QED
      BY <1>6, <2>1, <3>1, <3>2 DEF Sent, OpTypeOK
  <2>2. CASE pending[k] = NoCommand \/ pending[k].operation # o
    <3>1. pending'[k] = pending[k]
      BY <1>7, <2>2 DEF Overtake
    <3> QED
      BY <1>6, <1>9, <2>2, <3>1 DEF CommandsInFlight, Sent
  <2> QED
    BY <2>1, <2>2
<1> QED
  BY <1>1, <1>5, <1>8, <1>9 DEF CommandsInFlight

\* Every step of users, plugins and grants keeps the invariant.
LEMMA OpInvStep == OpInv /\ [OpNext]_allVars => OpInv'
<1> SUFFICES ASSUME OpInv, [OpNext]_allVars PROVE OpInv'
  OBVIOUS
<1> USE DEF OpInv
<1>1. ASSUME NEW o \in Operations, PrepareGrant(o) PROVE OpInv'
  BY <1>1, PrepareStep
<1>2. ASSUME NEW o \in Operations, NEW command \in {"activate", "suspend", "release"},
             NEW safety \in BOOLEAN, ChangeGrant(o, command, safety)
      PROVE  OpInv'
  BY <1>2, ChangeGrantStep
<1>3. ASSUME NEW c \in Commands, PromptOperation(c) PROVE OpInv'
  BY <1>3, CommandsAreSent, ApplyStep, InFlightKept DEF PromptOperation
<1>4. ASSUME NEW k \in Clients, NEW c \in Commands, SendOperation(k, c) PROVE OpInv'
  <2>1. CoreInv' /\ UNCHANGED <<reservation, grant, operation, maker>>
    BY <1>4, CoreUnchanged DEF SendOperation, Send, opVars
  <2>2. OpTypeOK' /\ FencesBounded' /\ LeasesAreOwned'
    BY <2>1 DEF OpTypeOK, FencesBounded, LeasesAreOwned
  <2>3. pending' = [pending EXCEPT ![k] = c] /\ Sent(c)
    BY <1>4, CommandsAreSent DEF SendOperation, Send
  <2>4. pending' = [l \in Clients |-> pending'[l]]
    BY <2>3 DEF CommandsInFlight
  <2>5. ASSUME NEW l \in Clients, pending'[l] # NoCommand PROVE Sent(pending[l])'
    <3>1. Sent(pending'[l])
      BY <2>3, <2>5 DEF CommandsInFlight
    <3> QED
      BY <2>1, <3>1 DEF Sent
  <2> QED
    BY <2>1, <2>2, <2>4, <2>5 DEF CommandsInFlight
<1>5. ASSUME NEW k \in Clients, ArriveOperation(k) PROVE OpInv'
  <2>1. Sent(pending[k])
    BY <1>5 DEF ArriveOperation, CommandsInFlight
  <2> QED
    BY <1>5, <2>1, ApplyStep, InFlightKept DEF ArriveOperation
<1>6. ASSUME NEW k \in Clients, GiveUpOperation(k) PROVE OpInv'
  <2>1. CoreInv' /\ UNCHANGED <<reservation, grant, operation, maker>>
    BY <1>6, CoreUnchanged DEF GiveUpOperation, GiveUp, opVars
  <2> QED
    BY <1>6, <2>1, InFlightKept DEF GiveUpOperation, GiveUp, OpTypeOK, FencesBounded, LeasesAreOwned
<1>7. ASSUME NEW c \in Publications \cup Changes, UserCommand(c) PROVE OpInv'
  <2>1. Sound(c)
    BY ChangesRead DEF Publications, Publish, Sound, CoreInv
  <2>2. Execute(c) /\ UNCHANGED <<pending, grant, operation>> /\ maker' \in {maker, "user"}
    BY <1>7 DEF UserCommand, Prompt
  <2>3. CoreInv' /\ reservation' = reservation
    BY <2>1, <2>2, ExecuteStep DEF Execute, SetModuleCatalogueStatus
  <2> QED
    BY <2>2, <2>3, InFlightKept DEF OpTypeOK, FencesBounded, LeasesAreOwned
<1>8. ASSUME NEW i \in Reservations, UserRelease(i) \/ (i \in UserReservations /\ UserAcquire(i))
      PROVE  OpInv'
  <2>1. UNCHANGED <<grant, operation, maker, pending>>
    BY <1>8 DEF UserRelease, UserAcquire, Acquire, Release, opVars
  <2>2. CoreInv'
    BY <1>8, ReservationKeepsCore DEF UserRelease, UserAcquire, Acquire, Release
  <2>3. ASSUME NEW o \in Operations, NEW f \in 1 .. MaxFence, reservation'[Lease(o, f)] = "active"
        PROVE  reservation[Lease(o, f)] = "active"
    BY <1>8, <2>3, LeaseFacts DEF UserRelease, UserAcquire, Acquire, Release,
       AcquireModuleOperationReservation, ReleaseModuleOperationReservation, CoreInv, TypeOK
  <2>4. LeasesAreOwned'
    BY <2>1, <2>3 DEF LeasesAreOwned, Lease
  <2> QED
    BY <2>1, <2>2, <2>4, InFlightKept DEF OpTypeOK, FencesBounded
<1>9. CASE UNCHANGED allVars
  <2>1. UNCHANGED <<lifecycleVars, catalogue, reservation, pending, grant, operation, maker>>
    BY <1>9 DEF allVars, vars, opVars
  <2> QED
    BY <2>1, CoreUnchanged, InFlightKept DEF OpTypeOK, FencesBounded, LeasesAreOwned
<1> QED
  BY <1>1, <1>2, <1>3, <1>4, <1>5, <1>6, <1>7, <1>8, <1>9, LeaseFacts DEF OpNext

\* The invariant above holds in every state that operations and users reach.
THEOREM OpInvariance == OpSpec => []OpInv
<1>1. OpInit => OpInv
  <2> SUFFICES ASSUME OpInit PROVE OpInv
    OBVIOUS
  <2>1. CoreInv
    BY ModuleAssumption
       DEF OpInit, Init, CoreInv, TypeOK, Statuses, Generations, DefaultIsCurrent,
           ArchivedIsUnreserved, Reserved, HeadIsLastServed, PointersServed, UnpublishedIsNew,
           LineageHead
  <2>2. OpTypeOK /\ FencesBounded
    BY OperationAssumption DEF OpInit, OpTypeOK, FencesBounded, NoGrant, NoOperation
  <2>3. LeasesAreOwned
    BY LeaseFacts DEF OpInit, Init, LeasesAreOwned
  <2>4. CommandsInFlight
    BY DEF OpInit, Init, CommandsInFlight
  <2> QED
    BY <2>1, <2>2, <2>3, <2>4 DEF OpInv
<1> QED
  BY <1>1, OpInvStep, PTL DEF OpSpec

\* Grants and operations hold the values their columns can hold.
THEOREM OperationTypes == OpSpec => []OpTypeOK
<1>1. OpInv => OpTypeOK
  BY DEF OpInv
<1> QED
  BY <1>1, OpInvariance, PTL

\* An operation's active reservation is the one of its present fence, and its
\* row holds it: none outlives a release or the next reserve.
THEOREM LeasesHaveOwners == OpSpec => []LeasesAreOwned
<1>1. OpInv => LeasesAreOwned
  BY DEF OpInv
<1> QED
  BY <1>1, OpInvariance, PTL

\* The invariants of ModuleVersions survive the commands of plugins: there is
\* one Default, and an archived Module is not reserved by an operation either.
THEOREM ModuleInvariantsSurvive == OpSpec => [](DefaultIsCurrent /\ ArchivedIsUnreserved)
<1>1. OpInv => DefaultIsCurrent /\ ArchivedIsUnreserved
  BY DEF OpInv, CoreInv
<1> QED
  BY <1>1, OpInvariance, PTL

-----------------------------------------------------------------------------
(* Late commands.                                                          *)

\* A command that leaves its client with an effect was applied just now.
LEMMA EffectIsArrival ==
    ASSUME OpInv, [OpNext]_allVars, NEW k \in Clients,
           pending[k] # NoCommand, pending'[k] = NoCommand,
           <<current, reservation>>' # <<current, reservation>>
    PROVE  Sent(pending[k]) /\ Apply(pending[k])
<1>1. ASSUME NEW l \in Clients, ArriveOperation(l)
      PROVE  l = k
  BY <1>1 DEF ArriveOperation, OpInv, CommandsInFlight
<1>2. ~UNCHANGED <<lifecycleVars, reservation>> /\ ~UNCHANGED pending
  BY DEF lifecycleVars
<1>3. \E l \in Clients : ArriveOperation(l)
  <2>1. ~\E o \in Operations : PrepareGrant(o)
    BY <1>2 DEF PrepareGrant
  <2>2. ~\E o \in Operations, c \in {"activate", "suspend", "release"}, safety \in BOOLEAN :
           ChangeGrant(o, c, safety)
    BY <1>2 DEF ChangeGrant
  <2>3. ~\E c \in Commands : PromptOperation(c)
    BY <1>2 DEF PromptOperation
  <2>4. ~\E l \in Clients, c \in Commands : SendOperation(l, c)
    BY <1>2 DEF SendOperation, Send
  <2>5. ~\E l \in Clients : GiveUpOperation(l)
    BY <1>2 DEF GiveUpOperation, GiveUp
  <2>6. ~\E c \in Publications \cup Changes : UserCommand(c)
    BY <1>2 DEF UserCommand, Prompt
  <2>7. /\ ~\E i \in UserReservations : UserAcquire(i)
        /\ ~\E i \in Reservations : UserRelease(i)
    BY <1>2 DEF UserAcquire, UserRelease, Acquire, Release
  <2>8. ~UNCHANGED allVars
    BY <1>2 DEF allVars, vars
  <2> QED
    BY <2>1, <2>2, <2>3, <2>4, <2>5, <2>6, <2>7, <2>8 DEF OpNext
<1> QED
  BY <1>1, <1>3 DEF ArriveOperation, OpInv, CommandsInFlight

\* No command takes effect after its grant changed while it was on its way:
\* every change rotates the fence that GrantAllows compares.
THEOREM CommandsKeepTheirGrant == OpSpec => AppliesUnderItsGrant
<1>1. ASSUME OpInv, [OpNext]_allVars, NEW k \in Clients,
             pending[k] # NoCommand, pending'[k] = NoCommand,
             <<current, reservation>>' # <<current, reservation>>
      PROVE  ~pending[k].overtaken
  <2>1. Sent(pending[k]) /\ GrantAllows(pending[k])
    BY <1>1, EffectIsArrival DEF Apply
  <2> QED
    BY <2>1 DEF Sent, GrantAllows
<1>2. OpInv /\ [OpNext]_allVars =>
        [\A k \in Clients :
           LET c == pending[k]
           IN  /\ c # NoCommand /\ pending'[k] = NoCommand
               /\ <<current, reservation>>' # <<current, reservation>>
               => ~c.overtaken]_allVars
  BY <1>1
<1> QED
  BY <1>2, OpInvariance, PTL DEF OpSpec, AppliesUnderItsGrant

\* A late promotion, restoration or release finds the reservation of the fence
\* it was sent with active: SameFence and HoldsLease compare the same row.
THEOREM CommandsKeepTheirLease == OpSpec => AppliesUnderItsLease
<1>1. ASSUME OpInv, [OpNext]_allVars, NEW k \in Clients,
             pending[k] # NoCommand, pending'[k] = NoCommand,
             <<current, reservation>>' # <<current, reservation>>, pending[k].op # "reserve"
      PROVE  /\ pending[k].expectedFence > 0
             /\ reservation[Lease(pending[k].operation, pending[k].expectedFence)] = "active"
  <2>1. Apply(pending[k]) /\ pending[k].op # "reserve"
    BY <1>1, EffectIsArrival
  <2>2. SameFence(pending[k]) /\ HoldsLease(pending[k].operation)
    BY <2>1 DEF Apply, Reserve, ReleaseOperation, Promote, Restore
  <2> QED
    BY <2>2 DEF SameFence, HoldsLease
<1>2. OpInv /\ [OpNext]_allVars =>
        [\A k \in Clients :
           LET c == pending[k]
           IN  /\ c # NoCommand /\ pending'[k] = NoCommand
               /\ <<current, reservation>>' # <<current, reservation>>
               /\ c.op # "reserve"
               => /\ c.expectedFence > 0
                  /\ reservation[Lease(c.operation, c.expectedFence)] = "active"]_allVars
  BY <1>1
<1> QED
  BY <1>2, OpInvariance, PTL DEF OpSpec, AppliesUnderItsLease

-----------------------------------------------------------------------------
(* The Module's action properties in the presence of operations.           *)

\* Whoever makes a version the Default, it is made so by MakeDefault.
LEMMA OpBecomesDefault ==
    ASSUME OpInv, OpNext, NEW v \in Versions, status[v] # "default", status'[v] = "default"
    PROVE  \E expected \in Nat : MakeDefault(v, expected)
<1> USE DEF OpInv
<1>1. ASSUME NEW c, Sent(c), Apply(c)
      PROVE  \E expected \in Nat : MakeDefault(v, expected)
  <2>1. ~Reserve(c) /\ ~ReleaseOperation(c)
    BY DEF Reserve, ReleaseOperation, lifecycleVars
  <2>2. PICK w \in Versions, expected \in Nat : MakeDefault(w, expected)
    BY <1>1, <2>1, OperationMakesDefault DEF Apply
  <2>3. w = v
    BY <2>2 DEF MakeDefault, PromotedStatuses, CoreInv, TypeOK
  <2> QED
    BY <2>2, <2>3
<1>2. ASSUME NEW c \in Publications \cup Changes, UserCommand(c)
      PROVE  \E expected \in Nat : MakeDefault(v, expected)
  <2>1. Sound(c)
    BY ChangesRead DEF Publications, Publish, Sound, CoreInv
  <2> QED
    BY <1>2, <2>1, BecomesDefault DEF UserCommand, Prompt
<1>3. ASSUME NEW c \in Commands, PromptOperation(c)
      PROVE  \E expected \in Nat : MakeDefault(v, expected)
  BY <1>1, <1>3, CommandsAreSent DEF PromptOperation
<1>4. ASSUME NEW k \in Clients, ArriveOperation(k)
      PROVE  \E expected \in Nat : MakeDefault(v, expected)
  BY <1>1, <1>4 DEF ArriveOperation, CommandsInFlight
<1>5. status' # status
  OBVIOUS
<1> QED
  BY <1>2, <1>3, <1>4, <1>5 DEF OpNext, PrepareGrant, ChangeGrant, SendOperation, Send,
     GiveUpOperation, GiveUp, UserAcquire, Acquire, UserRelease, Release, lifecycleVars

\* A promotion is above the version that was Default most recently, by whatever
\* operation or user.
THEOREM OperationsAdvance == OpSpec => PromotionAdvances
<1>1. ASSUME OpInv, OpNext, NEW v \in Versions,
             status[v] = "proposed", status'[v] = "default",
             lastServed \in Versions \ Legacy
      PROVE  Precedence[v] > Precedence[lastServed]
  <2>1. PICK expected \in Nat : MakeDefault(v, expected)
    BY <1>1, OpBecomesDefault
  <2>2. AboveHead(v)
    BY <1>1, <2>1 DEF MakeDefault, MayPromote
  <2> QED
    BY <1>1, <2>2 DEF OpInv, CoreInv, HeadIsLastServed, AboveHead
<1>2. OpInv /\ [OpNext]_allVars =>
        [\A v \in Versions :
           /\ status[v] = "proposed" /\ status'[v] = "default"
           /\ lastServed \in Versions \ Legacy
           => Precedence[v] > Precedence[lastServed]]_vars
  BY <1>1 DEF allVars
<1> QED
  BY <1>2, OpInvariance, PTL DEF OpSpec, PromotionAdvances

\* A version that an operation or a user restores has been Default before.
THEOREM OperationsRestore == OpSpec => RestoredHasServed
<1>1. ASSUME OpInv, OpNext, NEW v \in Versions,
             status[v] = "deprecated", status'[v] = "default"
      PROVE  v \in served
  <2>1. PICK expected \in Nat : MakeDefault(v, expected)
    BY <1>1, OpBecomesDefault
  <2>2. previous = v /\ v # NoVersion
    BY <1>1, <2>1, ModuleAssumption DEF MakeDefault, MayRestore
  <2> QED
    BY <1>1, <2>2 DEF OpInv, CoreInv, PointersServed
<1>2. OpInv /\ [OpNext]_allVars =>
        [\A v \in Versions :
           status[v] = "deprecated" /\ status'[v] = "default" => v \in served]_vars
  BY <1>1 DEF allVars
<1> QED
  BY <1>2, OpInvariance, PTL DEF OpSpec, RestoredHasServed

=============================================================================
