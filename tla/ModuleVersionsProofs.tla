------------------------ MODULE ModuleVersionsProofs ------------------------
(***************************************************************************)
(* Proofs about ModuleVersions, for every set of versions (legacy ones and *)
(* versions of equal precedence included), reservations and clients.       *)
(*                                                                         *)
(* The action properties need more than the invariants the runs check.     *)
(* PromotionAdvances compares with the version served last, the code with  *)
(* the pointer or an event, so the two must agree (HeadIsLastServed).      *)
(* RestoredHasServed needs that the previous pointer names a version that  *)
(* was served (PointersServed).  AppliesToWhatWasRead needs that an        *)
(* expected revision that still matches was read from the present state    *)
(* (ReadsAreRevisioned), which in turn rests on every change of a row      *)
(* raising its revision (Revisioned).                                      *)
(***************************************************************************)
EXTENDS ModuleVersions, TLAPS

-----------------------------------------------------------------------------
(* The inductive invariant.                                                *)

\* The lineage head is the version served last, by pointer or by event.
HeadIsLastServed == LineageHead = lastServed

\* The Module's pointers name versions that have been Default.
PointersServed == \A v \in {current, previous} : v # NoVersion => v \in served

\* A version without a row has no revision.
UnpublishedIsNew == \A v \in Versions : status[v] = "none" => rev[v] = 0

CoreInv ==
    /\ TypeOK
    /\ DefaultIsCurrent
    /\ ArchivedIsUnreserved
    /\ HeadIsLastServed
    /\ PointersServed
    /\ UnpublishedIsNew

\* What a command read of version v, while its revision is still that of v.
ReadOf(c, v) ==
    /\ v \in Versions
    /\ c.expected \in Nat
    /\ c.expected <= rev[v]
    /\ c.expected = rev[v] => c.seen = status[v] /\ status[v] # "none"

\* A command in flight that expects the present revision read the present state.
CommandRead(c) ==
    /\ c.op \in {"successor", "transition", "catalogue"}
    /\ c.op = "successor" => c.version \in Versions /\ ReadOf(c, c.from)
    /\ c.op = "transition" => ReadOf(c, c.version)
    /\ c.op = "catalogue" =>
         /\ c.target \in {"active", "archived"}
         /\ c.expected \in Nat
         /\ c.expected <= mrev
         /\ c.expected = mrev => c.seen = <<catalogue, current>>

ReadsAreRevisioned ==
    /\ pending = [k \in Clients |-> pending[k]]
    /\ \A k \in Clients : pending[k] # NoCommand => CommandRead(pending[k])

IInv == CoreInv /\ ReadsAreRevisioned

\* What every step does to revisions.
Revisioned ==
    /\ \A v \in Versions :
         /\ rev'[v] >= rev[v]
         /\ status'[v] # status[v] => rev'[v] > rev[v]
    /\ mrev' >= mrev
    /\ <<catalogue, current>>' # <<catalogue, current>> => mrev' > mrev

-----------------------------------------------------------------------------
(* One lemma per command.                                                  *)

\* A publication preserves the invariant and leaves every other row alone.
LEMMA PublishStep ==
    ASSUME CoreInv, NEW v \in Versions,
           PublishCoreModuleVersion(v), UNCHANGED <<catalogue, reservation>>
    PROVE  CoreInv' /\ Revisioned
<1> USE ModuleAssumption DEF CoreInv, PublishCoreModuleVersion, Statuses, Generations
<1>1. TypeOK'
  BY DEF TypeOK
<1>2. DefaultIsCurrent' /\ ArchivedIsUnreserved'
  BY DEF TypeOK, DefaultIsCurrent, ArchivedIsUnreserved, Reserved
<1>3. HeadIsLastServed' /\ PointersServed'
  BY DEF HeadIsLastServed, PointersServed, LineageHead
<1>4. UnpublishedIsNew'
  BY DEF TypeOK, UnpublishedIsNew
<1>5. Revisioned
  BY DEF TypeOK, UnpublishedIsNew, Revisioned
<1> QED
  BY <1>1, <1>2, <1>3, <1>4, <1>5

\* A stable successor preserves the invariant and raises its prerelease's revision.
LEMMA SuccessorStep ==
    ASSUME CoreInv, NEW p \in Versions, NEW v \in Versions, NEW expected \in Nat,
           PublishStableModuleVersionSuccessor(p, v, expected),
           UNCHANGED <<catalogue, reservation>>
    PROVE  CoreInv' /\ Revisioned
<1> USE ModuleAssumption DEF CoreInv, PublishStableModuleVersionSuccessor, Unchanged,
                             Statuses, Generations
<1>1. p # v
  BY DEF TypeOK
<1>2. TypeOK'
  BY DEF TypeOK
<1>3. DefaultIsCurrent' /\ ArchivedIsUnreserved'
  BY <1>1 DEF TypeOK, DefaultIsCurrent, ArchivedIsUnreserved, Reserved
<1>4. HeadIsLastServed' /\ PointersServed'
  BY DEF HeadIsLastServed, PointersServed, LineageHead
<1>5. UnpublishedIsNew'
  BY <1>1 DEF TypeOK, UnpublishedIsNew
<1>6. Revisioned
  BY <1>1 DEF TypeOK, UnpublishedIsNew, Revisioned
<1> QED
  BY <1>2, <1>3, <1>4, <1>5, <1>6

\* A promotion or restoration preserves the invariant: the one Default moves.
LEMMA MakeDefaultStep ==
    ASSUME CoreInv, NEW v \in Versions, NEW expected \in Nat,
           MakeDefault(v, expected), UNCHANGED <<catalogue, reservation>>
    PROVE  CoreInv' /\ Revisioned
<1> USE ModuleAssumption DEF CoreInv, MakeDefault, MayTransition, Unchanged,
                             PromotedStatuses, PromotedRevisions, ManagedLabel,
                             Statuses, Generations
<1>1. status' \in [Versions -> Statuses] /\ rev' \in [Versions -> Nat]
  BY DEF TypeOK
<1>2. migration' \in [Versions -> Generations] /\ generation' \in Nat
  BY DEF TypeOK
<1>3. TypeOK'
  BY <1>1, <1>2 DEF TypeOK
<1>4. DefaultIsCurrent'
  BY DEF TypeOK, DefaultIsCurrent
<1>5. ArchivedIsUnreserved'
  BY DEF ArchivedIsUnreserved, Reserved
<1>6. HeadIsLastServed' /\ PointersServed'
  BY DEF TypeOK, HeadIsLastServed, PointersServed, LineageHead
<1>7. UnpublishedIsNew'
  BY DEF TypeOK, UnpublishedIsNew
<1>8. Revisioned
  BY DEF TypeOK, Revisioned
<1> QED
  BY <1>3, <1>4, <1>5, <1>6, <1>7, <1>8

\* A withdrawal preserves the invariant: a Default that leaves the pointer is
\* remembered as the lineage head.
LEMMA WithdrawStep ==
    ASSUME CoreInv, NEW v \in Versions, NEW target, NEW expected \in Nat,
           Withdraw(v, target, expected), UNCHANGED <<catalogue, reservation>>
    PROVE  CoreInv' /\ Revisioned
<1> USE ModuleAssumption DEF CoreInv, Withdraw, MayTransition, Unchanged,
                             Statuses, Generations
<1>1. TypeOK'
  BY DEF TypeOK
<1>2. DefaultIsCurrent'
  BY DEF TypeOK, DefaultIsCurrent
<1>3. ArchivedIsUnreserved'
  BY DEF ArchivedIsUnreserved, Reserved
<1>4. HeadIsLastServed' /\ PointersServed'
  BY DEF TypeOK, DefaultIsCurrent, HeadIsLastServed, PointersServed, LineageHead
<1>5. UnpublishedIsNew'
  BY DEF TypeOK, UnpublishedIsNew
<1>6. Revisioned
  BY DEF TypeOK, Revisioned
<1> QED
  BY <1>1, <1>2, <1>3, <1>4, <1>5, <1>6

\* Archiving and unarchiving preserve the invariant.
LEMMA CatalogueStep ==
    ASSUME CoreInv, NEW target \in {"active", "archived"}, NEW expected \in Nat,
           SetModuleCatalogueStatus(target, expected)
    PROVE  CoreInv' /\ Revisioned
<1> USE ModuleAssumption DEF CoreInv, SetModuleCatalogueStatus
<1>1. TypeOK' /\ DefaultIsCurrent' /\ UnpublishedIsNew'
  BY DEF TypeOK, DefaultIsCurrent, UnpublishedIsNew
<1>2. ArchivedIsUnreserved'
  BY DEF TypeOK, ArchivedIsUnreserved, Reserved, NoReservations
<1>3. HeadIsLastServed' /\ PointersServed'
  BY DEF HeadIsLastServed, PointersServed, LineageHead
<1>4. Revisioned
  BY DEF TypeOK, Revisioned
<1> QED
  BY <1>1, <1>2, <1>3, <1>4

\* A metadata edit preserves the invariant.
LEMMA EditStep ==
    ASSUME CoreInv, Edit
    PROVE  CoreInv' /\ Revisioned /\ UNCHANGED <<status, catalogue, pending>>
<1> USE DEF CoreInv, Edit, UpdateModuleCatalogueMetadata
<1>1. TypeOK' /\ DefaultIsCurrent' /\ UnpublishedIsNew'
  BY DEF TypeOK, DefaultIsCurrent, UnpublishedIsNew
<1>2. ArchivedIsUnreserved' /\ HeadIsLastServed' /\ PointersServed'
  BY DEF ArchivedIsUnreserved, Reserved, HeadIsLastServed, PointersServed, LineageHead
<1>3. Revisioned
  BY DEF TypeOK, Revisioned
<1> QED
  BY <1>1, <1>2, <1>3

\* Reservations are taken only of an active Module, so they preserve the invariant.
LEMMA ReservationStep ==
    ASSUME CoreInv, NEW i \in Reservations, Acquire(i) \/ Release(i)
    PROVE  CoreInv' /\ Revisioned /\ UNCHANGED <<status, catalogue, pending>>
<1> USE DEF CoreInv, Acquire, Release, AcquireModuleOperationReservation,
            ReleaseModuleOperationReservation, lifecycleVars
<1>1. TypeOK' /\ DefaultIsCurrent' /\ UnpublishedIsNew'
  BY DEF TypeOK, DefaultIsCurrent, UnpublishedIsNew
<1>2. ArchivedIsUnreserved'
  BY DEF TypeOK, ArchivedIsUnreserved, Reserved
<1>3. HeadIsLastServed' /\ PointersServed'
  BY DEF HeadIsLastServed, PointersServed, LineageHead
<1>4. Revisioned
  BY DEF TypeOK, Revisioned
<1> QED
  BY <1>1, <1>2, <1>3, <1>4

-----------------------------------------------------------------------------
(* Commands.                                                               *)

\* What the code may execute: a publication, or a command that read its rows.
Sound(c) == (c.op = "publish" /\ c.version \in Versions) \/ CommandRead(c)

\* No transition leaves a version without a row.
LEMMA NothingFromNone == Allowed["none"] = {}
  BY Zenon DEF Allowed, Statuses

\* A command built from the present state read the present state.
LEMMA ChangesRead ==
    ASSUME TypeOK, NEW c \in Changes
    PROVE  CommandRead(c)
<1>1. \/ \E p \in Prereleases, v \in Versions :
           status[p] = "proposed" /\ c = Successor(p, v)
      \/ \E v \in Versions : \E t \in Allowed[status[v]] : c = Transition(v, t)
      \/ \E t \in {"active", "archived"} : c = ChangeStatus(t)
  BY DEF Changes
<1>2. ASSUME NEW p \in Prereleases, NEW v \in Versions,
             status[p] = "proposed", c = Successor(p, v)
      PROVE  CommandRead(c)
  BY <1>2, ModuleAssumption DEF TypeOK, CommandRead, ReadOf, Successor
<1>3. ASSUME NEW v \in Versions, NEW t \in Allowed[status[v]], c = Transition(v, t)
      PROVE  CommandRead(c)
  <2>1. status[v] # "none"
    BY <1>3, NothingFromNone
  <2> QED
    BY <1>3, <2>1 DEF TypeOK, CommandRead, ReadOf, Transition
<1>4. ASSUME NEW t \in {"active", "archived"}, c = ChangeStatus(t)
      PROVE  CommandRead(c)
  BY <1>4 DEF TypeOK, CommandRead, ChangeStatus
<1> QED
  BY <1>1, <1>2, <1>3, <1>4

\* Every command preserves the invariant, whenever it arrives.
LEMMA ExecuteStep ==
    ASSUME CoreInv, NEW c, Sound(c), Execute(c)
    PROVE  CoreInv' /\ Revisioned
<1>1. CASE c.op = "publish" /\ PublishCoreModuleVersion(c.version)
           /\ UNCHANGED <<catalogue, reservation>>
  <2>1. c.version \in Versions
    BY <1>1 DEF Sound, CommandRead
  <2> QED
    BY <1>1, <2>1, PublishStep
<1>2. CASE c.op = "successor" /\ UNCHANGED <<catalogue, reservation>>
           /\ PublishStableModuleVersionSuccessor(c.from, c.version, c.expected)
  <2>1. c.from \in Versions /\ c.version \in Versions /\ c.expected \in Nat
    BY <1>2 DEF Sound, CommandRead, ReadOf
  <2> QED
    BY <1>2, <2>1, SuccessorStep
<1>3. CASE c.op = "transition" /\ UNCHANGED <<catalogue, reservation>>
           /\ TransitionCoreModuleVersion(c.version, c.target, c.expected)
  <2>1. c.version \in Versions /\ c.expected \in Nat
    BY <1>3 DEF Sound, CommandRead, ReadOf
  <2> QED
    BY <1>3, <2>1, MakeDefaultStep, WithdrawStep DEF TransitionCoreModuleVersion
<1>4. CASE c.op = "catalogue" /\ SetModuleCatalogueStatus(c.target, c.expected)
  <2>1. c.target \in {"active", "archived"} /\ c.expected \in Nat
    BY <1>4 DEF Sound, CommandRead
  <2> QED
    BY <1>4, <2>1, CatalogueStep
<1> QED
  BY <1>1, <1>2, <1>3, <1>4 DEF Execute

\* Where a version's status becomes Default, the step is a promotion or
\* restoration of that version.
LEMMA BecomesDefault ==
    ASSUME CoreInv, NEW c, Sound(c), Execute(c),
           NEW v \in Versions, status[v] # "default", status'[v] = "default"
    PROVE  \E expected \in Nat : MakeDefault(v, expected)
<1> USE DEF CoreInv, TypeOK, Statuses
<1>1. CASE c.op = "publish" /\ PublishCoreModuleVersion(c.version)
  BY <1>1 DEF PublishCoreModuleVersion
<1>2. CASE c.op = "successor"
           /\ PublishStableModuleVersionSuccessor(c.from, c.version, c.expected)
  BY <1>2 DEF PublishStableModuleVersionSuccessor
<1>3. CASE c.op = "transition"
           /\ TransitionCoreModuleVersion(c.version, c.target, c.expected)
  <2>1. c.version \in Versions /\ c.expected \in Nat
    BY <1>3 DEF Sound, CommandRead, ReadOf
  <2>2. CASE Withdraw(c.version, c.target, c.expected)
    BY <2>1, <2>2 DEF Withdraw
  <2>3. CASE MakeDefault(c.version, c.expected)
    <3>1. v = c.version
      BY <2>1, <2>3, Zenon DEF MakeDefault, PromotedStatuses
    <3> QED
      BY <2>1, <2>3, <3>1
  <2> QED
    BY <1>3, <2>2, <2>3 DEF TransitionCoreModuleVersion
<1>4. CASE c.op = "catalogue" /\ SetModuleCatalogueStatus(c.target, c.expected)
  BY <1>4 DEF SetModuleCatalogueStatus
<1> QED
  BY <1>1, <1>2, <1>3, <1>4 DEF Execute

-----------------------------------------------------------------------------
(* Every step.                                                             *)

\* The commands that can be executed in a state of the invariant are sound.
LEMMA CommandsAreSound ==
    ASSUME IInv
    PROVE  /\ \A c \in Publications \cup Changes : Sound(c)
           /\ \A k \in Clients : pending[k] # NoCommand => Sound(pending[k])
<1>1. \A c \in Publications : Sound(c)
  BY DEF Publications, Publish, Sound
<1>2. \A c \in Changes : Sound(c)
  BY ChangesRead DEF IInv, CoreInv, Sound
<1>3. \A k \in Clients : pending[k] # NoCommand => Sound(pending[k])
  BY DEF IInv, ReadsAreRevisioned, Sound
<1> QED
  BY <1>1, <1>2, <1>3

\* A step executes a sound command or leaves statuses and the catalogue alone.
LEMMA StepExecutes ==
    ASSUME IInv, Next, <<status, catalogue>>' # <<status, catalogue>>
    PROVE  \E c : Sound(c) /\ Execute(c)
<1>1. ASSUME NEW c \in Publications \cup Changes, Prompt(c)
      PROVE  \E d : Sound(d) /\ Execute(d)
  BY <1>1, CommandsAreSound DEF Prompt
<1>2. ASSUME NEW k \in Clients, Arrive(k)
      PROVE  \E d : Sound(d) /\ Execute(d)
  BY <1>2, CommandsAreSound DEF Arrive
<1>3. ASSUME NEW k \in Clients, NEW c, Send(k, c) \/ GiveUp(k)
      PROVE  FALSE
  BY <1>3 DEF Send, GiveUp, lifecycleVars
<1>4. ~Edit /\ \A i \in Reservations : ~Acquire(i) /\ ~Release(i)
  BY DEF Edit, UpdateModuleCatalogueMetadata, Acquire, Release, lifecycleVars
<1> QED
  BY <1>1, <1>2, <1>3, <1>4 DEF Next

\* Every step preserves the core invariant and raises what it changes.
LEMMA CoreStep ==
    ASSUME IInv, Next
    PROVE  CoreInv' /\ Revisioned
<1>1. ASSUME NEW c \in Publications \cup Changes, Prompt(c)
      PROVE  CoreInv' /\ Revisioned
  BY <1>1, CommandsAreSound, ExecuteStep DEF Prompt, IInv
<1>2. ASSUME NEW k \in Clients, Arrive(k)
      PROVE  CoreInv' /\ Revisioned
  BY <1>2, CommandsAreSound, ExecuteStep DEF Arrive, IInv
<1>3. ASSUME UNCHANGED <<lifecycleVars, catalogue, reservation>>
      PROVE  CoreInv' /\ Revisioned
  BY <1>3 DEF IInv, CoreInv, TypeOK, DefaultIsCurrent, ArchivedIsUnreserved, Reserved,
              HeadIsLastServed, PointersServed, UnpublishedIsNew, LineageHead,
              lifecycleVars, Revisioned
<1>4. ASSUME NEW k \in Clients, NEW c, Send(k, c) \/ GiveUp(k)
      PROVE  CoreInv' /\ Revisioned
  BY <1>3, <1>4 DEF Send, GiveUp
<1> QED
  BY <1>1, <1>2, <1>4, EditStep, ReservationStep DEF Next, IInv

\* A command in flight stays one that read what it expects.
LEMMA InFlightStep ==
    ASSUME IInv, Next
    PROVE  ReadsAreRevisioned'
<1>1. TypeOK /\ TypeOK' /\ Revisioned
  BY CoreStep DEF IInv, CoreInv
<1>2. ASSUME NEW k \in Clients, pending[k] # NoCommand, pending'[k] = pending[k]
      PROVE  CommandRead(pending[k])'
  <2>1. CommandRead(pending[k])
    BY <1>2 DEF IInv, ReadsAreRevisioned
  <2> QED
    BY <1>1, <1>2, <2>1 DEF CommandRead, ReadOf, Revisioned, TypeOK
<1>3. ASSUME UNCHANGED pending
      PROVE  ReadsAreRevisioned'
  BY <1>2, <1>3 DEF IInv, ReadsAreRevisioned
<1>4. ASSUME NEW k \in Clients, pending' = [pending EXCEPT ![k] = NoCommand]
      PROVE  ReadsAreRevisioned'
  BY <1>2, <1>4 DEF IInv, ReadsAreRevisioned
<1>5. ASSUME NEW k \in Clients, NEW c \in Changes, Send(k, c)
      PROVE  ReadsAreRevisioned'
  <2>1. CommandRead(c)
    BY <1>1, ChangesRead
  <2>2. CommandRead(pending[k])'
    BY <1>5, <2>1 DEF IInv, ReadsAreRevisioned, Send, lifecycleVars, CommandRead, ReadOf
  <2> QED
    BY <1>2, <1>5, <2>2 DEF IInv, ReadsAreRevisioned, Send
<1> QED
  BY <1>3, <1>4, <1>5
     DEF Next, Prompt, Arrive, GiveUp, Edit, Acquire, Release

\* The inductive invariant holds in every reachable state, for every set of
\* versions, reservations and clients.
THEOREM Invariance == Spec => []IInv
<1>1. Init => IInv
  BY ModuleAssumption
     DEF Init, IInv, CoreInv, TypeOK, Statuses, Generations, DefaultIsCurrent,
         ArchivedIsUnreserved, Reserved, HeadIsLastServed, PointersServed,
         UnpublishedIsNew, LineageHead, ReadsAreRevisioned
<1>2. IInv /\ [Next]_vars => IInv'
  <2>1. ASSUME IInv, Next PROVE IInv'
    BY <2>1, CoreStep, InFlightStep DEF IInv
  <2>2. ASSUME IInv, UNCHANGED vars PROVE IInv'
    BY <2>2
       DEF IInv, CoreInv, TypeOK, DefaultIsCurrent, ArchivedIsUnreserved, Reserved,
           HeadIsLastServed, PointersServed, UnpublishedIsNew, LineageHead,
           ReadsAreRevisioned, CommandRead, ReadOf, vars, lifecycleVars
  <2> QED
    BY <2>1, <2>2
<1> QED
  BY <1>1, <1>2, PTL DEF Spec

-----------------------------------------------------------------------------
(* The properties.                                                         *)

\* The rows of the Module, its versions and its reservations keep their types.
THEOREM TypeCorrect == Spec => []TypeOK
<1>1. IInv => TypeOK
  BY DEF IInv, CoreInv
<1> QED
  BY <1>1, Invariance, PTL

\* There is at most one Default, and it is the version the Module points at.
THEOREM OneDefault == Spec => []DefaultIsCurrent
<1>1. IInv => DefaultIsCurrent
  BY DEF IInv, CoreInv
<1> QED
  BY <1>1, Invariance, PTL

\* An archived Module has no active reservation.
THEOREM ArchiveExcludesReservation == Spec => []ArchivedIsUnreserved
<1>1. IInv => ArchivedIsUnreserved
  BY DEF IInv, CoreInv
<1> QED
  BY <1>1, Invariance, PTL

\* A promotion is above the version that was Default most recently.
THEOREM PromotionsAdvance == Spec => PromotionAdvances
<1>1. ASSUME IInv, Next, NEW v \in Versions,
             status[v] = "proposed", status'[v] = "default",
             lastServed \in Versions \ Legacy
      PROVE  Precedence[v] > Precedence[lastServed]
  <2>1. PICK c : Sound(c) /\ Execute(c)
    BY <1>1, StepExecutes
  <2>2. PICK expected \in Nat : MakeDefault(v, expected)
    BY <1>1, <2>1, BecomesDefault DEF IInv
  <2>3. AboveHead(v)
    BY <1>1, <2>2 DEF MakeDefault, MayPromote
  <2> QED
    BY <1>1, <2>3 DEF IInv, CoreInv, HeadIsLastServed, AboveHead
<1>2. IInv /\ [Next]_vars =>
        [\A v \in Versions :
           /\ status[v] = "proposed" /\ status'[v] = "default"
           /\ lastServed \in Versions \ Legacy
           => Precedence[v] > Precedence[lastServed]]_vars
  BY <1>1
<1> QED
  BY <1>2, Invariance, PTL DEF Spec, PromotionAdvances

\* A restored version has been Default before.
THEOREM RestorationsReturn == Spec => RestoredHasServed
<1>1. ASSUME IInv, Next, NEW v \in Versions,
             status[v] = "deprecated", status'[v] = "default"
      PROVE  v \in served
  <2>1. PICK c : Sound(c) /\ Execute(c)
    BY <1>1, StepExecutes
  <2>2. PICK expected \in Nat : MakeDefault(v, expected)
    BY <1>1, <2>1, BecomesDefault DEF IInv
  <2>3. previous = v /\ v # NoVersion
    BY <1>1, <2>2, ModuleAssumption DEF MakeDefault, MayRestore
  <2> QED
    BY <1>1, <2>3 DEF IInv, CoreInv, PointersServed
<1>2. IInv /\ [Next]_vars =>
        [\A v \in Versions :
           status[v] = "deprecated" /\ status'[v] = "default" => v \in served]_vars
  BY <1>1
<1> QED
  BY <1>2, Invariance, PTL DEF Spec, RestoredHasServed

\* A command that takes effect late does so on the state its client read.
THEOREM LateCommandsApplyToWhatWasRead == Spec => AppliesToWhatWasRead
<1>1. ASSUME IInv, Next, NEW k \in Clients, pending[k] # NoCommand,
             pending'[k] = NoCommand, <<status, catalogue>>' # <<status, catalogue>>
      PROVE  Execute(pending[k])
  <2>1. ASSUME NEW l \in Clients, Arrive(l)
        PROVE  l = k
    BY <1>1, <2>1 DEF IInv, ReadsAreRevisioned, Arrive
  <2>2. ASSUME UNCHANGED pending
        PROVE  FALSE
    BY <1>1, <2>2
  <2>3. ASSUME NEW l \in Clients, NEW c, Send(l, c) \/ GiveUp(l)
        PROVE  FALSE
    BY <1>1, <2>3 DEF Send, GiveUp, lifecycleVars
  <2>4. PICK l \in Clients : Arrive(l)
    BY <1>1, <2>2, <2>3 DEF Next, Prompt, Edit, Acquire, Release
  <2> QED
    BY <2>1, <2>4 DEF Arrive
<1>2. ASSUME IInv, NEW c, CommandRead(c), Execute(c)
      PROVE  /\ c.op = "transition" => c.seen = status[c.version]
             /\ c.op = "successor" => c.seen = status[c.from]
             /\ c.op = "catalogue" => c.seen = <<catalogue, current>>
  <2>1. ASSUME c.op = "transition" PROVE c.seen = status[c.version]
    BY <1>2, <2>1 DEF CommandRead, ReadOf, Execute, TransitionCoreModuleVersion,
                      MakeDefault, Withdraw, MayTransition, Unchanged
  <2>2. ASSUME c.op = "successor" PROVE c.seen = status[c.from]
    BY <1>2, <2>2 DEF CommandRead, ReadOf, Execute, Unchanged,
                      PublishStableModuleVersionSuccessor
  <2>3. ASSUME c.op = "catalogue" PROVE c.seen = <<catalogue, current>>
    BY <1>2, <2>3 DEF CommandRead, Execute, SetModuleCatalogueStatus
  <2> QED
    BY <2>1, <2>2, <2>3
<1>3. IInv /\ [Next]_vars =>
        [\A k \in Clients :
           LET c == pending[k]
           IN  /\ c # NoCommand /\ pending'[k] = NoCommand
               /\ <<status, catalogue>>' # <<status, catalogue>>
               => /\ c.op = "transition" => c.seen = status[c.version]
                  /\ c.op = "successor" => c.seen = status[c.from]
                  /\ c.op = "catalogue" => c.seen = <<catalogue, current>>]_vars
  BY <1>1, <1>2 DEF IInv, ReadsAreRevisioned
<1> QED
  BY <1>3, Invariance, PTL DEF Spec, AppliesToWhatWasRead
=============================================================================
