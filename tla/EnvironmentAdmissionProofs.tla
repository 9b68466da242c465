----------------------- MODULE EnvironmentAdmissionProofs -----------------------
(***************************************************************************)
(* Proofs about EnvironmentAdmission, for every set of admissions,         *)
(* dispatches, operations, Pins and readers: the types, the mutual         *)
(* exclusion of executions, what a resolution means, and the protection    *)
(* and the truth of Pins.                                                  *)
(***************************************************************************)
EXTENDS EnvironmentAdmission, TLAPS

DispatchRow ==
    [state : {"active", "withdrawn", "settled"}, fence : Nat, target : Versions,
     approved : Nat \cup {NoApproval}, outcome : {"none", "succeeded", "failed", "absent"}]
PinRow ==
    [status : {"active", "override_pending", "overridden", "removed"}, version : Versions,
     rv : Nat, activation : Nat, owner : Operations \cup {NoOperation},
     target : Versions \cup {NoVersion}, assumed : BOOLEAN, quiet : BOOLEAN]
ReaderRow ==
    [stage : {"epoch", "status", "observed"}, kind : {"create", "reconcile", "restore"},
     plugin : BOOLEAN, pin : Pins, rv : Nat, version : Versions,
     deployment : Deployments \cup {Earlier}, epoch : Nat, quiet : BOOLEAN, fence : Nat]
DpStates ==
    {"none", "prepared", "admitting", "running", "succeeded", "failed", "sealed", "closed"}

\* The types of Core's tables, of the Pins with their readers and of the Data
\* Plane, with the domains that TypeOK leaves out.
CoreTyped ==
    /\ epoch \in Nat
    /\ guard \in [Admissions -> {"none", "unresolved", "succeeded", "failed", "absent"}]
    /\ dispatch \in [Dispatches -> {NoDispatch} \cup DispatchRow]
    /\ seen \in [Dispatches -> {"nothing", "succeeded", "failed", "absent"}]
    /\ grant \in [Operations -> [state : {"prepared", "active", "suspended", "released"},
                                 revision : Nat]]

PinTyped ==
    /\ pin \in [Pins -> {NoPin} \cup PinRow]
    /\ events \in Nat
    /\ reader \in [Readers -> {IdleReader} \cup ReaderRow]
    /\ \A q \in Pins :
         pin[q].status \in {"override_pending", "overridden"} =>
             pin[q].owner \in Operations /\ pin[q].target \in Versions

CatalogueTyped ==
    /\ lifecycle \in [Versions -> Statuses]
    /\ deleting \in BOOLEAN

DpTyped ==
    /\ dp \in [Deployments -> DpStates]
    /\ captured \in [Dispatches -> Versions \cup {NoVersion}]
    /\ effective \in Versions \cup {NoVersion}
    /\ lastStatus \in {"running", "succeeded", "failed"}

\* Nothing of a dispatch without a row reaches the Data Plane.
Recorded == \A d \in Dispatches : dispatch[d].state = "none" => dp[d] = "none"

Typed == CoreTyped /\ PinTyped /\ CatalogueTyped /\ DpTyped /\ Recorded

\* A Deployment that holds the Environment: it executes, or still may.
Holds(x) ==
    IF x \in Admissions
      THEN guard[x] = "unresolved"
      ELSE \/ dispatch[x].state = "active"
           \/ dispatch[x].state = "withdrawn" /\ Executing(x)

\* What executes has not been resolved, and a receipt that a recovering handler
\* holds stays true.
AdmissionFlow ==
    \A a \in Admissions :
        /\ dp[a] # "admitting"
        /\ dp[a] = "running" => guard[a] = "unresolved"
        /\ guard[a] \in {"succeeded", "failed"} => dp[a] = guard[a]
        /\ guard[a] = "absent" => dp[a] \in {"sealed", "closed"}
        /\ dp[a] = "closed" => guard[a] = "absent"

DispatchFlow ==
    \A d \in Dispatches :
        /\ dp[d] \in {"none", "admitting", "running", "succeeded", "failed"}
        /\ seen[d] = "absent" =>
             dispatch[d].state \in {"withdrawn", "settled"} /\ dp[d] = "none"
        /\ seen[d] \in {"succeeded", "failed"} => dp[d] = seen[d]
        /\ dispatch[d].state = "settled" =>
             dp[d] = IF dispatch[d].outcome = "absent" THEN "none" ELSE dispatch[d].outcome
        /\ dispatch[d].state = "settled" => dispatch[d].outcome \in {"succeeded", "failed", "absent"}

OneHolder == \A x, y \in Deployments : Holds(x) /\ Holds(y) => x = y

ExecutionInv == Typed /\ AdmissionFlow /\ DispatchFlow /\ OneHolder

\* Every holder was admitted against the Pins that protect the Module now, or
\* belongs to the operation that is overriding the Pin.
HoldersRespectPins ==
    \A q \in Pins :
        Protecting(q) /\ ~pin[q].assumed =>
            \A x \in Deployments :
                Holds(x) /\ ModeOf(x) # "destroy" =>
                    \/ TargetOfDeployment(x) = pin[q].version
                    \/ /\ pin[q].status = "override_pending"
                       /\ x \in Dispatches
                       /\ OperationOf[x] = pin[q].owner

\* The newest activation boundary is one of the Pins' and none is ahead of the
\* event counter.
ActivationsBounded ==
    /\ \A q \in Pins : pin[q].activation \in Nat /\ pin[q].activation <= events
    /\ \E n \in {0} \cup {pin[q].activation : q \in Pins} :
         \A q \in Pins : pin[q].activation <= n

\* Evidence whose capture began while nothing was unresolved is current as long
\* as the epoch is.
EvidenceCurrent ==
    \A h \in Readers :
        reader[h].stage # "idle" =>
            /\ reader[h].epoch <= epoch
            /\ reader[h].quiet /\ reader[h].epoch = epoch =>
                 /\ Barrier
                 /\ reader[h].stage = "observed" => effective = reader[h].version

Destroyed == \E a \in Admissions : Intent[a].mode = "destroy" /\ dp[a] \in {"succeeded", "failed"}

\* A protecting Pin written from such evidence names the active version until a
\* dispatch of its overriding operation ends, or the Environment is destroyed.
PinsTrue ==
    \A q \in Pins :
        Protecting(q) /\ ~pin[q].assumed /\ pin[q].quiet =>
            \/ effective = pin[q].version
            \/ Destroyed
            \/ /\ pin[q].status = "override_pending"
               /\ \E d \in Dispatches :
                    OperationOf[d] = pin[q].owner /\ dp[d] \in {"succeeded", "failed"}

-----------------------------------------------------------------------------
(* Types.                                                                  *)

\* The variables that each family of steps leaves alone.
LEMMA PinStepFrame ==
    ASSUME NEW q \in Pins, PinStep(q)
    PROVE  UNCHANGED <<coreVars, reader, catalogueVars, dpVars>>
BY DEF PinStep, Unpin, BeginOverride, CancelOverride, BeginOperationOverride, ReconcileFailed,
       ReconcileOperationFailed

\* Evidence handlers change nothing but themselves and the Pins.
LEMMA ReaderStepFrame ==
    ASSUME NEW h \in Readers, ReaderStep(h)
    PROVE  UNCHANGED <<coreVars, catalogueVars, dpVars>>
BY DEF ReaderStep, ReadEpochToCreate, ReadEpochToReconcile, ReadStatus, ReadActive,
       WriteProtection, ReaderFails

\* The steps of admissions leave the Pins and their readers alone.
LEMMA AdmissionStepFrame ==
    ASSUME NEW a \in Admissions, AdmissionStep(a)
    PROVE  UNCHANGED <<dispatch, seen, grant, pinVars, catalogueVars, captured>>
BY DEF AdmissionStep, DpPrepare, Authorize, DpStart, DpFinish, DpSeal, SealAbsence, Settle,
       coreVars, dpVars

\* So do the steps of dispatches.
LEMMA DispatchStepFrame ==
    ASSUME NEW d \in Dispatches, DispatchStep(d)
    PROVE  UNCHANGED <<guard, grant, pinVars, catalogueVars>>
BY DEF DispatchStep, Submit, Withdraw, WithdrawMissing, Callback, DpCommit, DpFinish, Lookup,
       Complete, coreVars, dpVars

\* The initial tables have their types.
LEMMA InitTyped == Init => Typed
<1> SUFFICES ASSUME Init PROVE Typed
  OBVIOUS
<1>1. CoreTyped
  BY DEF Init, CoreTyped
<1>2. PinTyped
  <2>1. pin \in [Pins -> {NoPin} \cup PinRow] /\ reader \in [Readers -> {IdleReader} \cup ReaderRow]
        /\ events \in Nat
    BY DEF Init
  <2>2. \A q \in Pins : pin[q].status = "absent"
    BY DEF Init, NoPin
  <2> QED
    BY <2>1, <2>2 DEF PinTyped
<1>3. CatalogueTyped
  BY ConstantAssumption DEF Init, CatalogueTyped
<1>4. DpTyped
  BY ConstantAssumption DEF Init, DpTyped, DpStates
<1>5. Recorded
  BY DEF Init, Recorded, Deployments
<1> QED
  BY <1>1, <1>2, <1>3, <1>4, <1>5 DEF Typed

\* Authorize, settle, seal and the Data Plane's part keep the types.
LEMMA AdmissionTyped ==
    ASSUME Typed, NEW a \in Admissions, AdmissionStep(a)
    PROVE  Typed'
<1> USE DEF Typed
<1>1. a \in Deployments /\ a \notin Dispatches /\ Dispatches \subseteq Deployments
  BY ConstantAssumption DEF Deployments
<1>2. UNCHANGED <<dispatch, seen, grant, captured>> /\ PinTyped' /\ CatalogueTyped'
  BY AdmissionStepFrame DEF pinVars, catalogueVars, PinTyped, CatalogueTyped
<1>3. guard' \in [Admissions -> {"none", "unresolved", "succeeded", "failed", "absent"}]
      /\ epoch' \in Nat
  BY DEF CoreTyped, AdmissionStep, DpPrepare, Authorize, DpStart, DpFinish, DpSeal,
         SealAbsence, Settle, coreVars
<1>4. /\ dp' \in [Deployments -> DpStates]
      /\ lastStatus' \in {"running", "succeeded", "failed"}
      /\ \A d \in Dispatches : dp'[d] = dp[d]
  BY <1>1 DEF DpTyped, DpStates, AdmissionStep, DpPrepare, Authorize, DpStart, DpFinish, DpSeal,
         SealAbsence, Settle, dpVars
<1>5. effective' \in Versions \cup {NoVersion}
  <2>1. Intent[a].target \in Versions \cup {NoVersion}
    BY ConstantAssumption
  <2>2. CASE DpFinish(a)
    <3>1. effective' \in {effective, NoVersion, Intent[a].target}
      BY <2>2 DEF DpFinish, TargetOfDeployment
    <3> QED
      BY <2>1, <3>1 DEF DpTyped
  <2>3. CASE ~DpFinish(a)
    BY <2>3 DEF DpTyped, AdmissionStep, DpPrepare, Authorize, DpStart, DpSeal, SealAbsence, Settle,
         dpVars
  <2> QED
    BY <2>2, <2>3
<1> QED
  BY <1>2, <1>3, <1>4, <1>5 DEF CoreTyped, DpTyped, Recorded

\* Record, submit, callback, withdrawal, lookup and completion keep the types.
LEMMA DispatchTyped ==
    ASSUME Typed, NEW d \in Dispatches, DispatchStep(d)
    PROVE  Typed'
<1> USE DEF Typed
<1>1. d \in Deployments /\ d \notin Admissions /\ OperationOf[d] \in Operations
  BY ConstantAssumption DEF Deployments
<1>2. UNCHANGED <<guard, grant>> /\ PinTyped' /\ CatalogueTyped'
  BY DispatchStepFrame DEF pinVars, catalogueVars, PinTyped, CatalogueTyped
<1>3. /\ epoch' \in Nat
      /\ seen' \in [Dispatches -> {"nothing", "succeeded", "failed", "absent"}]
  BY DEF CoreTyped, DispatchStep, Submit, Withdraw, WithdrawMissing, Callback, DpCommit, DpFinish,
         Lookup, Complete, coreVars
<1>4. dispatch' \in [Dispatches -> {NoDispatch} \cup DispatchRow]
  <2>1. ASSUME NEW v \in Versions, NEW approved \in {NoApproval} \cup 0 .. events,
               Submit(d, v, approved)
        PROVE  dispatch' \in [Dispatches -> {NoDispatch} \cup DispatchRow]
    <3>1. approved \in Nat \cup {NoApproval} /\ grant[OperationOf[d]].revision \in Nat
      BY <1>1 DEF CoreTyped, PinTyped
    <3> QED
      BY <2>1, <3>1 DEF CoreTyped, Submit, DispatchRow
  <2>2. ASSUME NEW v \in Versions, WithdrawMissing(d, v)
        PROVE  dispatch' \in [Dispatches -> {NoDispatch} \cup DispatchRow]
    BY <1>1, <2>2 DEF CoreTyped, WithdrawMissing, DispatchRow, NoApproval
  <2>3. CASE Withdraw(d)
    BY <2>3 DEF CoreTyped, Withdraw, DispatchRow, NoDispatch
  <2>4. CASE Complete(d)
    <3>1. dispatch[d] \in DispatchRow /\ seen[d] \in {"none", "succeeded", "failed", "absent"}
      BY <2>4 DEF CoreTyped, Complete, NoDispatch
    <3>2. [dispatch[d] EXCEPT !.state = "settled", !.outcome = seen[d]] \in DispatchRow
      BY <3>1 DEF DispatchRow
    <3>3. dispatch' = [dispatch EXCEPT ![d] = [dispatch[d] EXCEPT !.state = "settled",
                                                                  !.outcome = seen[d]]]
      BY <2>4 DEF CoreTyped, Complete
    <3> QED
      BY <3>2, <3>3 DEF CoreTyped
  <2>5. CASE Callback(d) \/ DpCommit(d) \/ DpFinish(d) \/ Lookup(d)
    BY <2>5 DEF CoreTyped, Callback, DpCommit, DpFinish, Lookup, coreVars
  <2> QED
    BY <2>1, <2>2, <2>3, <2>4, <2>5 DEF DispatchStep
<1>5. /\ dp' \in [Deployments -> DpStates]
      /\ lastStatus' \in {"running", "succeeded", "failed"}
      /\ captured' \in [Dispatches -> Versions \cup {NoVersion}]
  BY <1>1 DEF DpTyped, DpStates, DispatchStep, Submit, Withdraw, WithdrawMissing, Callback, DpCommit,
         DpFinish, Lookup, Complete, dpVars
<1>6. effective' \in Versions \cup {NoVersion}
  <2>1. dp[d] = "running" => dispatch[d].target \in Versions
    BY DEF Recorded, CoreTyped, NoDispatch, DispatchRow
  <2> QED
    BY <1>1, <2>1 DEF DpTyped, DispatchStep, Submit, Withdraw, WithdrawMissing, Callback, DpCommit,
         DpFinish, Lookup, Complete, dpVars, TargetOfDeployment, ModeOf
<1>7. Recorded'
  <2>1. \A e \in Dispatches \ {d} : dispatch'[e] = dispatch[e] /\ dp'[e] = dp[e]
    BY <1>1 DEF CoreTyped, DpTyped, Deployments, DispatchStep, Submit, Withdraw, WithdrawMissing,
         Callback, DpCommit, DpFinish, Lookup, Complete, dpVars, coreVars
  <2>2. dispatch'[d].state = "none" => dp'[d] = "none"
    <3>1. CASE dispatch' = dispatch
      BY <3>1, <1>1 DEF Recorded, CoreTyped, DpTyped, DispatchStep, Submit, Withdraw,
         WithdrawMissing, Callback, DpCommit, DpFinish, Lookup, Complete, dpVars
    <3>2. CASE dispatch' # dispatch
      BY <3>2, <1>1 DEF Recorded, CoreTyped, DpTyped, DispatchStep, Submit, Withdraw,
         WithdrawMissing, Callback, DpCommit, DpFinish, Lookup, Complete, dpVars, coreVars,
         NoDispatch, DispatchRow
    <3> QED
      BY <3>1, <3>2
  <2> QED
    BY <2>1, <2>2 DEF Recorded
<1> QED
  BY <1>2, <1>3, <1>4, <1>5, <1>6, <1>7 DEF CoreTyped, DpTyped

\* What a step of a Pin writes.
LEMMA PinStepRow ==
    ASSUME Typed, NEW q \in Pins, PinStep(q)
    PROVE  /\ events' = events + 1
           /\ \E row \in PinRow :
                /\ pin' = [pin EXCEPT ![q] = row]
                /\ pin[q] \in PinRow
                /\ row.version = pin[q].version
                /\ row.activation = pin[q].activation
                /\ row.assumed \/ row.assumed = pin[q].assumed
                /\ row.quiet => pin[q].quiet
                /\ row.status \in {"active", "override_pending", "removed"}
                /\ row.status = "override_pending" =>
                     /\ row.owner \in Operations /\ row.target \in Versions
                     /\ pin[q].status = "active"
                /\ row.status = "active" /\ ~row.assumed => CancelOverride(q)
<1> DEFINE Fields(row) ==
      /\ row.version = pin[q].version
      /\ row.activation = pin[q].activation
      /\ row.assumed \/ row.assumed = pin[q].assumed
      /\ row.quiet => pin[q].quiet
      /\ row.status \in {"active", "override_pending", "removed"}
      /\ row.status = "override_pending" =>
           /\ row.owner \in Operations /\ row.target \in Versions
           /\ pin[q].status = "active"
      /\ row.status = "active" /\ ~row.assumed => CancelOverride(q)
<1>1. pin[q] \in {NoPin} \cup PinRow /\ events + 1 \in Nat
  BY DEF Typed, PinTyped
<1>2. CASE Unpin(q)
  <2> DEFINE row == [pin[q] EXCEPT !.status = "removed", !.rv = events + 1,
                                   !.owner = NoOperation, !.target = NoVersion]
  <2>1. pin[q] \in PinRow
    BY <1>1, <1>2 DEF Unpin, NoPin
  <2>2. row \in PinRow /\ Fields(row)
    BY <1>1, <2>1 DEF PinRow
  <2> QED
    BY <1>2, <2>1, <2>2 DEF Unpin, Transition
<1>3. ASSUME NEW o \in Operations, NEW v \in Versions, pin[q].status = "active",
             Transition(q, PendingFor(q, o, v))
      PROVE  /\ pin[q] \in PinRow /\ PendingFor(q, o, v) \in PinRow
             /\ Fields(PendingFor(q, o, v))
  <2>1. pin[q] \in PinRow
    BY <1>1, <1>3 DEF NoPin
  <2> QED
    BY <1>1, <1>3, <2>1 DEF PinRow, PendingFor
<1>4. ASSUME NEW o \in Operations, NEW v \in Versions, BeginOverride(q, o, v)
      PROVE  events' = events + 1 /\ \E row \in PinRow :
               pin' = [pin EXCEPT ![q] = row] /\ pin[q] \in PinRow /\ Fields(row)
  BY <1>3, <1>4 DEF BeginOverride, Transition
<1>5. ASSUME NEW o \in Operations, BeginOperationOverride(q, o)
      PROVE  events' = events + 1 /\ \E row \in PinRow :
               pin' = [pin EXCEPT ![q] = row] /\ pin[q] \in PinRow /\ Fields(row)
  <2>1. TargetOf[o] \in Versions
    BY ConstantAssumption
  <2> QED
    BY <1>3, <1>5, <2>1 DEF BeginOperationOverride, Transition
<1>6. ASSUME NEW assumed \in BOOLEAN, NEW quiet \in BOOLEAN, pin[q].status = "override_pending",
             assumed \/ assumed = pin[q].assumed, quiet => pin[q].quiet,
             ~assumed => CancelOverride(q)
      PROVE  /\ pin[q] \in PinRow
             /\ Active(pin[q].version, pin[q].activation, assumed, quiet) \in PinRow
             /\ Fields(Active(pin[q].version, pin[q].activation, assumed, quiet))
  <2>1. pin[q] \in PinRow
    BY <1>1, <1>6 DEF NoPin
  <2> QED
    BY <1>1, <1>6, <2>1 DEF PinRow, Active
<1>7. CASE CancelOverride(q)
  <2>1. pin[q].assumed \in BOOLEAN /\ pin[q].quiet \in BOOLEAN
    BY <1>1, <1>7 DEF CancelOverride, NoPin, PinRow
  <2> QED
    BY <1>6, <1>7, <2>1 DEF CancelOverride, Transition
<1>8. ASSUME pin[q].status = "override_pending",
             Transition(q, Active(pin[q].version, pin[q].activation, TRUE, FALSE))
      PROVE  events' = events + 1 /\ \E row \in PinRow :
               pin' = [pin EXCEPT ![q] = row] /\ pin[q] \in PinRow /\ Fields(row)
  BY <1>6, <1>8 DEF Transition
<1> QED
  BY <1>2, <1>4, <1>5, <1>7, <1>8 DEF PinStep, ReconcileFailed, ReconcileOperationFailed

\* What the write of an evidence reader does: an override that is reconciled
\* stops protecting, and protection is written behind the barrier only.
LEMMA WriteProtectionRow ==
    ASSUME Typed, NEW h \in Readers, WriteProtection(h)
    PROVE  /\ reader[h] \in ReaderRow
           /\ reader' = [reader EXCEPT ![h] = IdleReader]
           /\ Barrier /\ epoch = reader[h].epoch /\ reader[h].stage = "observed"
           /\ events' = events + 1
           /\ \E row \in PinRow :
                /\ pin' = [pin EXCEPT ![reader[h].pin] = row]
                /\ \/ /\ row.status = "overridden"
                      /\ row.owner \in Operations /\ row.target \in Versions
                      /\ row.activation = pin[reader[h].pin].activation
                   \/ /\ row.status = "active"
                      /\ row.version = reader[h].version
                      /\ row.activation = events + 1
                      /\ row.quiet = reader[h].quiet
<1> DEFINE r == reader[h]
           q == r.pin
<1>1. r \in ReaderRow /\ q \in Pins /\ r.version \in Versions /\ r.quiet \in BOOLEAN
  BY DEF Typed, PinTyped, WriteProtection, IdleReader, ReaderRow
<1>2. pin[q] \in {NoPin} \cup PinRow /\ events + 1 \in Nat
  BY <1>1 DEF Typed, PinTyped
<1>3. Barrier /\ epoch = r.epoch /\ r.stage = "observed" /\ events' = events + 1
      /\ reader' = [reader EXCEPT ![h] = IdleReader]
  BY DEF WriteProtection, EpochUnchanged, Transition
<1>4. CASE Transition(q, Active(r.version, events + 1, FALSE, r.quiet))
  <2>1. Active(r.version, events + 1, FALSE, r.quiet) \in PinRow
    BY <1>1, <1>2 DEF Active, PinRow
  <2> QED
    BY <1>1, <1>3, <1>4, <2>1 DEF Transition, Active
<1>5. CASE /\ pin[q].status = "override_pending"
           /\ Transition(q, [pin[q] EXCEPT !.status = "overridden", !.rv = events + 1])
  <2> DEFINE row == [pin[q] EXCEPT !.status = "overridden", !.rv = events + 1]
  <2>1. pin[q] \in PinRow /\ pin[q].owner \in Operations /\ pin[q].target \in Versions
    BY <1>1, <1>2, <1>5 DEF NoPin, Typed, PinTyped
  <2>2. /\ row \in PinRow /\ row.status = "overridden" /\ row.owner = pin[q].owner
        /\ row.target = pin[q].target /\ row.activation = pin[q].activation
    BY <1>2, <2>1 DEF PinRow
  <2> QED
    BY <1>1, <1>3, <1>5, <2>1, <2>2 DEF Transition
<1> QED
  BY <1>4, <1>5 DEF WriteProtection

\* The Pin commands keep the types.
LEMMA PinTypedStep ==
    ASSUME Typed, NEW q \in Pins, PinStep(q)
    PROVE  PinTyped'
<1>1. PICK row \in PinRow :
        /\ pin' = [pin EXCEPT ![q] = row]
        /\ row.status \in {"active", "override_pending", "removed"}
        /\ row.status = "override_pending" => row.owner \in Operations /\ row.target \in Versions
  BY PinStepRow
<1>2. events' = events + 1 /\ reader' = reader
  BY PinStepRow, PinStepFrame
<1> QED
  BY <1>1, <1>2 DEF Typed, PinTyped

\* The evidence handlers keep the types.
LEMMA ReaderTypedStep ==
    ASSUME Typed, NEW h \in Readers, ReaderStep(h)
    PROVE  PinTyped'
<1> USE DEF Typed
<1>1. CASE WriteProtection(h)
  <2>1. PICK row \in PinRow :
          /\ pin' = [pin EXCEPT ![reader[h].pin] = row]
          /\ row.status \in {"overridden", "active"}
          /\ row.status = "overridden" => row.owner \in Operations /\ row.target \in Versions
    BY <1>1, WriteProtectionRow
  <2>2. events' = events + 1 /\ reader' = [reader EXCEPT ![h] = IdleReader]
    BY <1>1, WriteProtectionRow
  <2>3. pin' \in [Pins -> {NoPin} \cup PinRow]
    BY <2>1 DEF PinTyped
  <2>4. ASSUME NEW q \in Pins, pin'[q].status \in {"override_pending", "overridden"}
        PROVE  pin'[q].owner \in Operations /\ pin'[q].target \in Versions
    <3>1. CASE q = reader[h].pin
      BY <2>1, <2>4, <3>1 DEF PinTyped
    <3>2. CASE q # reader[h].pin
      BY <2>1, <2>4, <3>2 DEF PinTyped
    <3> QED
      BY <3>1, <3>2
  <2> QED
    BY <2>2, <2>3, <2>4 DEF PinTyped
<1>2. CASE ReadStatus(h) \/ ReadActive(h)
  <2>1. reader[h] \in ReaderRow
    BY <1>2 DEF PinTyped, ReadStatus, ReadActive, IdleReader
  <2>2. PICK stage \in {"status", "observed"} : reader' = [reader EXCEPT ![h] = [reader[h] EXCEPT !.stage = stage]]
    BY <1>2 DEF PinTyped, ReadStatus, ReadActive
  <2>3. [reader[h] EXCEPT !.stage = stage] \in ReaderRow
    BY <2>1 DEF ReaderRow
  <2>4. UNCHANGED <<pin, events>>
    BY <1>2 DEF ReadStatus, ReadActive
  <2> QED
    BY <2>2, <2>3, <2>4 DEF PinTyped
<1>3. CASE ReaderFails(h)
  BY <1>3 DEF ReaderFails, PinTyped
<1>4. ASSUME NEW q \in Pins, NEW v \in Versions, ReadEpochToCreate(h, q, v)
      PROVE  PinTyped'
  <2>1. [stage |-> "epoch", kind |-> "create", plugin |-> FALSE, pin |-> q, rv |-> 0,
         version |-> v, deployment |-> Earlier, epoch |-> epoch, quiet |-> Barrier,
         fence |-> 0] \in ReaderRow
    BY DEF CoreTyped, ReaderRow, Barrier
  <2> QED
    BY <1>4, <2>1 DEF ReadEpochToCreate, PinTyped
<1>5. ASSUME NEW q \in Pins, NEW x \in Deployments, NEW plugin \in BOOLEAN,
             ReadEpochToReconcile(h, q, x, plugin)
      PROVE  PinTyped'
  <2>1. /\ pin[q] \in PinRow
        /\ pin[q].owner \in Operations /\ pin[q].target \in Versions
        /\ pin[q].version \in Versions /\ pin[q].rv \in Nat
    <3>1. pin[q].status \in {"override_pending", "overridden"}
      BY <1>5 DEF ReadEpochToReconcile
    <3>2. pin[q] \in PinRow /\ pin[q].owner \in Operations /\ pin[q].target \in Versions
      BY <3>1 DEF PinTyped, NoPin
    <3> QED
      BY <3>2 DEF PinRow
  <2>2. grant[pin[q].owner].revision \in Nat /\ epoch \in Nat
    BY <2>1 DEF CoreTyped
  <2> DEFINE restore == pin[q].status = "overridden"
             row == [stage |-> "epoch", kind |-> IF restore THEN "restore" ELSE "reconcile",
                     plugin |-> plugin, pin |-> q, rv |-> pin[q].rv,
                     version |-> IF restore THEN pin[q].version ELSE pin[q].target,
                     deployment |-> IF plugin THEN x ELSE Earlier, epoch |-> epoch,
                     quiet |-> Barrier, fence |-> grant[pin[q].owner].revision]
  <2>3. row \in ReaderRow /\ reader' = [reader EXCEPT ![h] = row]
    BY <1>5, <2>1, <2>2 DEF ReadEpochToReconcile, ReaderRow, Barrier
  <2>4. UNCHANGED <<pin, events>>
    BY <1>5 DEF ReadEpochToReconcile
  <2> QED
    <3> HIDE DEF row
    <3> QED
      BY <2>3, <2>4 DEF PinTyped
<1> QED
  BY <1>1, <1>2, <1>3, <1>4, <1>5 DEF ReaderStep

\* Every step keeps the types.
LEMMA TypedStep == Typed /\ [Next]_vars => Typed'
<1> SUFFICES ASSUME Typed, [Next]_vars PROVE Typed'
  OBVIOUS
<1>1. ASSUME NEW a \in Admissions, AdmissionStep(a) PROVE Typed'
  BY <1>1, AdmissionTyped
<1>2. ASSUME NEW d \in Dispatches, DispatchStep(d) PROVE Typed'
  BY <1>2, DispatchTyped
<1>3. ASSUME NEW o \in Operations, NEW state \in {"active", "suspended", "released"},
             GrantCommand(o, state)
      PROVE  Typed'
  <2>1. CoreTyped'
    <3>1. [state |-> state, revision |-> grant[o].revision + 1] \in
            [state : {"prepared", "active", "suspended", "released"}, revision : Nat]
      BY DEF Typed, CoreTyped
    <3> QED
      BY <1>3, <3>1 DEF Typed, CoreTyped, GrantCommand
  <2> QED
    BY <1>3, <2>1 DEF Typed, PinTyped, CatalogueTyped, DpTyped, Recorded, GrantCommand, pinVars,
       catalogueVars, dpVars
<1>4. ASSUME NEW q \in Pins, PinStep(q) PROVE Typed'
  BY <1>4, PinStepFrame, PinTypedStep DEF Typed, CoreTyped, CatalogueTyped, DpTyped, Recorded,
     coreVars, catalogueVars, dpVars
<1>5. ASSUME NEW h \in Readers, ReaderStep(h) PROVE Typed'
  BY <1>5, ReaderStepFrame, ReaderTypedStep DEF Typed, CoreTyped, CatalogueTyped, DpTyped, Recorded,
     coreVars, catalogueVars, dpVars
<1>6. ASSUME NEW v \in Versions, NEW to \in Statuses, LifecycleChange(v, to) PROVE Typed'
  <2>1. CatalogueTyped'
    BY <1>6 DEF Typed, CatalogueTyped, LifecycleChange
  <2> QED
    BY <1>6, <2>1 DEF Typed, CoreTyped, PinTyped, DpTyped, Recorded, LifecycleChange, coreVars,
       pinVars, dpVars
<1>7. CASE BeginDelete \/ UNCHANGED vars
  BY <1>7 DEF Typed, CoreTyped, PinTyped, CatalogueTyped, DpTyped, Recorded, BeginDelete, vars,
     coreVars, pinVars, catalogueVars, dpVars
<1>8. \A change \in CatalogueChanges : change[1] \in Versions /\ change[2] \in Statuses
  BY ConstantAssumption
<1> QED
  BY <1>1, <1>2, <1>3, <1>4, <1>5, <1>6, <1>7, <1>8 DEF Next

\* Type correctness of the admission tables, the Pins and the Data Plane.
THEOREM TypeCorrect == Spec => []TypeOK
<1>1. Typed => TypeOK
  <2> SUFFICES ASSUME Typed PROVE TypeOK
    OBVIOUS
  <2>1. \A d \in Dispatches : dispatch[d] = NoDispatch \/ dispatch[d] \in DispatchRow
    BY DEF Typed, CoreTyped
  <2>2. \A q \in Pins : pin[q] = NoPin \/ pin[q] \in PinRow
    BY DEF Typed, PinTyped
  <2> QED
    BY <2>1, <2>2 DEF Typed, TypeOK, CoreTyped, PinTyped, CatalogueTyped, DpTyped, DpStates,
       DispatchRow, PinRow
<1> QED
  BY <1>1, InitTyped, TypedStep, PTL DEF Spec

-----------------------------------------------------------------------------
(* One execution at a time.                                                *)

\* A step of one admission leaves every other Deployment alone.
LEMMA AdmissionStepOthers ==
    ASSUME Typed, NEW a \in Admissions, AdmissionStep(a)
    PROVE  /\ \A x \in Deployments : x # a => dp'[x] = dp[x]
           /\ \A b \in Admissions : b # a => guard'[b] = guard[b]
           /\ UNCHANGED <<dispatch, seen>>
<1>1. a \in Deployments
  BY DEF Deployments
<1> QED
  BY <1>1, AdmissionStepFrame DEF Typed, CoreTyped, DpTyped, AdmissionStep, DpPrepare, Authorize,
     DpStart, DpFinish, DpSeal, SealAbsence, Settle, coreVars, dpVars

\* A step of one dispatch leaves every other Deployment alone.
LEMMA DispatchStepOthers ==
    ASSUME Typed, NEW d \in Dispatches, DispatchStep(d)
    PROVE  /\ \A x \in Deployments : x # d => dp'[x] = dp[x]
           /\ \A e \in Dispatches : e # d => dispatch'[e] = dispatch[e] /\ seen'[e] = seen[e]
           /\ UNCHANGED guard
<1>1. d \in Deployments
  BY DEF Deployments
<1> QED
  BY <1>1, DispatchStepFrame DEF Typed, CoreTyped, DpTyped, DispatchStep, Submit, Withdraw,
     WithdrawMissing, Callback, DpCommit, DpFinish, Lookup, Complete, coreVars, dpVars

\* Grants, Pins, readers, the catalogue and a deletion leave both kinds of
\* Deployment alone.
LEMMA OtherStepFrame ==
    ASSUME [Next]_vars,
           \A a \in Admissions : ~AdmissionStep(a), \A d \in Dispatches : ~DispatchStep(d)
    PROVE  UNCHANGED <<epoch, guard, dispatch, seen, dpVars>>
<1>1. ASSUME NEW q \in Pins, PinStep(q)
      PROVE  UNCHANGED <<epoch, guard, dispatch, seen, dpVars>>
  BY <1>1, PinStepFrame DEF coreVars
<1>2. ASSUME NEW h \in Readers, ReaderStep(h)
      PROVE  UNCHANGED <<epoch, guard, dispatch, seen, dpVars>>
  BY <1>2, ReaderStepFrame DEF coreVars
<1> QED
  BY <1>1, <1>2 DEF Next, GrantCommand, LifecycleChange, BeginDelete, vars, coreVars

\* Where checkExternalDispatchBarrier passes, nothing holds the Environment.
LEMMA BarrierStopsHolders ==
    ASSUME Typed, AdmissionFlow, DispatchFlow, Barrier, NEW x \in Deployments
    PROVE  ~Holds(x) /\ ~Executing(x)
BY DEF Deployments, Typed, AdmissionFlow, DispatchFlow, Barrier, Holds, Executing, Recorded

\* Every step keeps guards and the Data Plane in agreement.
LEMMA AdmissionFlowStep ==
    ASSUME Typed, AdmissionFlow, [Next]_vars
    PROVE  AdmissionFlow'
<1> USE DEF AdmissionFlow
<1>1. ASSUME NEW a \in Admissions, AdmissionStep(a)
      PROVE  AdmissionFlow'
  <2>1. a \in Deployments /\ Admissions \subseteq Deployments
    BY DEF Deployments
  <2>2. \A b \in Admissions : b # a => dp'[b] = dp[b] /\ guard'[b] = guard[b]
    BY <1>1, <2>1, AdmissionStepOthers
  <2>3. /\ dp'[a] # "admitting"
        /\ dp'[a] = "running" => guard'[a] = "unresolved"
        /\ guard'[a] \in {"succeeded", "failed"} => dp'[a] = guard'[a]
        /\ guard'[a] = "absent" => dp'[a] \in {"sealed", "closed"}
        /\ dp'[a] = "closed" => guard'[a] = "absent"
    BY <1>1, <2>1 DEF Typed, CoreTyped, DpTyped, AdmissionStep, DpPrepare, Authorize, DpStart,
       DpFinish, DpSeal, SealAbsence, Settle, coreVars, dpVars
  <2> QED
    BY <2>2, <2>3
<1>2. ASSUME NEW d \in Dispatches, DispatchStep(d)
      PROVE  AdmissionFlow'
  BY <1>2, DispatchStepOthers, ConstantAssumption DEF Deployments
<1> QED
  BY <1>1, <1>2, OtherStepFrame DEF dpVars

\* Every step keeps dispatches and the Data Plane in agreement.
LEMMA DispatchFlowStep ==
    ASSUME Typed, DispatchFlow, [Next]_vars
    PROVE  DispatchFlow'
<1> DEFINE Flow(d) ==
      /\ dp[d] \in {"none", "admitting", "running", "succeeded", "failed"}
      /\ seen[d] = "absent" =>
           dispatch[d].state \in {"withdrawn", "settled"} /\ dp[d] = "none"
      /\ seen[d] \in {"succeeded", "failed"} => dp[d] = seen[d]
      /\ dispatch[d].state = "settled" =>
           dp[d] = IF dispatch[d].outcome = "absent" THEN "none" ELSE dispatch[d].outcome
      /\ dispatch[d].state = "settled" => dispatch[d].outcome \in {"succeeded", "failed", "absent"}
<1>1. ASSUME NEW a \in Admissions, AdmissionStep(a)
      PROVE  DispatchFlow'
  BY <1>1, AdmissionStepOthers, ConstantAssumption DEF Deployments, DispatchFlow
<1>2. ASSUME NEW d \in Dispatches, DispatchStep(d)
      PROVE  DispatchFlow'
  <2>1. d \in Deployments /\ Dispatches \subseteq Deployments
    BY DEF Deployments
  <2>2. \A e \in Dispatches : e # d => dp'[e] = dp[e] /\ dispatch'[e] = dispatch[e] /\ seen'[e] = seen[e]
    BY <1>2, <2>1, DispatchStepOthers
  <2>3. Flow(d)
    BY DEF DispatchFlow
  <2>4. dispatch[d] \in {NoDispatch} \cup DispatchRow
    BY DEF Typed, CoreTyped
  <2>5. Flow(d)'
    <3> USE DEF Typed, CoreTyped, DpTyped
    <3>1. ASSUME NEW v \in Versions, NEW approved, Submit(d, v, approved) PROVE Flow(d)'
      BY <2>1, <2>3, <3>1 DEF Submit, Recorded, dpVars
    <3>2. ASSUME NEW v \in Versions, WithdrawMissing(d, v) PROVE Flow(d)'
      BY <2>1, <2>3, <3>2 DEF WithdrawMissing, Recorded, dpVars
    <3>3. CASE Withdraw(d)
      BY <2>1, <2>3, <2>4, <3>3 DEF Withdraw, dpVars, DispatchRow
    <3>4. CASE Callback(d) \/ DpCommit(d) \/ DpFinish(d)
      BY <2>1, <2>3, <3>4 DEF Callback, DpCommit, DpFinish, coreVars
    <3>5. CASE Lookup(d)
      BY <2>1, <2>3, <3>5 DEF Lookup, dpVars
    <3>6. CASE Complete(d)
      BY <2>1, <2>3, <2>4, <3>6 DEF Complete, dpVars, DispatchRow, NoDispatch
    <3> QED
      BY <1>2, <3>1, <3>2, <3>3, <3>4, <3>5, <3>6 DEF DispatchStep
  <2> QED
    BY <2>2, <2>5 DEF DispatchFlow
<1> QED
  BY <1>1, <1>2, OtherStepFrame DEF dpVars, DispatchFlow

\* Only an admission or a submission behind the barrier makes a new holder.
LEMMA NewHolder ==
    ASSUME ExecutionInv, [Next]_vars, NEW x \in Deployments, Holds(x)', ~Holds(x)
    PROVE  /\ Barrier
           /\ \A y \in Deployments : y # x /\ Holds(y)' => Holds(y)
           /\ UNCHANGED dpVars
           /\ \/ x \in Admissions /\ \E fresh \in BOOLEAN : Authorize(x, fresh)
              \/ x \in Dispatches /\ \E v \in Versions, approved \in {NoApproval} \cup 0 .. events :
                                        Submit(x, v, approved)
<1> USE DEF ExecutionInv, Typed
<1>1. ASSUME NEW a \in Admissions, AdmissionStep(a)
      PROVE  /\ x = a /\ \E fresh \in BOOLEAN : Authorize(x, fresh)
             /\ \A y \in Deployments : y # x /\ Holds(y)' => Holds(y)
  <2>1. ASSUME NEW y \in Deployments, y # a, Holds(y)' PROVE Holds(y)
    BY <1>1, <2>1, AdmissionStepOthers DEF Holds, Executing
  <2>2. guard[a] # "unresolved" /\ guard'[a] = "unresolved" /\ x = a
    BY <1>1, <2>1 DEF Holds
  <2>3. \E fresh \in BOOLEAN : Authorize(a, fresh)
    BY <1>1, <2>2 DEF AdmissionStep, DpPrepare, DpStart, DpFinish, DpSeal, SealAbsence, Settle,
       coreVars, CoreTyped
  <2> QED
    BY <2>1, <2>2, <2>3
<1>2. ASSUME NEW d \in Dispatches, DispatchStep(d)
      PROVE  /\ x = d
             /\ \E v \in Versions, approved \in {NoApproval} \cup 0 .. events :
                  Submit(x, v, approved)
             /\ \A y \in Deployments : y # x /\ Holds(y)' => Holds(y)
  <2>1. ASSUME NEW y \in Deployments, y # d, Holds(y)' PROVE Holds(y)
    BY <1>2, <2>1, DispatchStepOthers DEF Holds, Executing, Deployments
  <2>2. x = d /\ d \notin Admissions /\ d \in Deployments
    BY <1>2, <2>1, ConstantAssumption DEF Deployments
  <2>3. /\ dispatch[d].state # "active"
        /\ dispatch[d].state # "withdrawn" \/ ~Executing(d)
        /\ dispatch'[d].state = "active" \/ (dispatch'[d].state = "withdrawn" /\ Executing(d)')
    BY <2>2 DEF Holds
  <2>4. dispatch[d] \in {NoDispatch} \cup DispatchRow /\ dp[d] \in DpStates
    BY <2>2 DEF CoreTyped, DpTyped
  <2>5. ~Withdraw(d) /\ ~Callback(d) /\ ~Lookup(d)
    BY <2>2, <2>3, <2>4 DEF Withdraw, Callback, Lookup, CoreTyped, DpTyped, DispatchRow,
       Executing, dpVars, coreVars
  <2>6. ~Complete(d)
    <3>1. Complete(d) => dispatch'[d].state = "settled"
      BY <2>4 DEF Complete, CoreTyped, DispatchRow, NoDispatch
    <3> QED
      BY <2>3, <3>1
  <2>7. ~DpCommit(d) /\ ~DpFinish(d)
    BY <2>2, <2>3, <2>4 DEF DpCommit, DpFinish, CoreTyped, DpTyped, Executing, coreVars
  <2>8. \A v \in Versions : ~WithdrawMissing(d, v)
    BY <2>2, <2>3, <2>4 DEF WithdrawMissing, CoreTyped, DpTyped, Recorded, Executing, dpVars
  <2> QED
    BY <1>2, <2>1, <2>2, <2>5, <2>6, <2>7, <2>8 DEF DispatchStep
<1>3. ASSUME \A a \in Admissions : ~AdmissionStep(a), \A d \in Dispatches : ~DispatchStep(d)
      PROVE  FALSE
  BY <1>3, OtherStepFrame DEF dpVars, Holds, Executing
<1> QED
  BY <1>1, <1>2, <1>3 DEF Authorize, Submit

\* Every step keeps the invariant of executions.
LEMMA ExecutionInvStep == ExecutionInv /\ [Next]_vars => ExecutionInv'
<1> SUFFICES ASSUME ExecutionInv, [Next]_vars PROVE ExecutionInv'
  OBVIOUS
<1>1. Typed' /\ AdmissionFlow' /\ DispatchFlow'
  BY TypedStep, AdmissionFlowStep, DispatchFlowStep DEF ExecutionInv
<1>2. ASSUME NEW x \in Deployments, NEW y \in Deployments, Holds(x)', Holds(y)'
      PROVE  x = y
  <2>1. CASE Holds(x) /\ Holds(y)
    BY <2>1 DEF ExecutionInv, OneHolder
  <2>2. CASE ~Holds(x)
    BY <1>2, <2>2, NewHolder, BarrierStopsHolders DEF ExecutionInv
  <2>3. CASE ~Holds(y)
    BY <1>2, <2>3, NewHolder, BarrierStopsHolders DEF ExecutionInv
  <2> QED
    BY <2>1, <2>2, <2>3
<1> QED
  BY <1>1, <1>2 DEF ExecutionInv, OneHolder

\* It holds initially.
LEMMA InitExecutionInv == Init => ExecutionInv
<1> SUFFICES ASSUME Init PROVE ExecutionInv
  OBVIOUS
<1>1. AdmissionFlow /\ DispatchFlow
  BY DEF Init, AdmissionFlow, DispatchFlow, Deployments, NoDispatch
<1>2. OneHolder
  BY DEF Init, OneHolder, Holds, Deployments, NoDispatch
<1> QED
  BY <1>1, <1>2, InitTyped DEF ExecutionInv

\* So it holds always.
LEMMA ExecutionInvariant == Spec => []ExecutionInv
BY InitExecutionInv, ExecutionInvStep, PTL DEF Spec

\* What the Data Plane executes, Core holds a record of that excludes others.
LEMMA ExecutingHolds ==
    ASSUME ExecutionInv, NEW x \in Deployments, Executing(x)
    PROVE  Holds(x)
<1>1. CASE x \in Admissions
  BY <1>1 DEF ExecutionInv, AdmissionFlow, Executing, Holds
<1>2. CASE x \in Dispatches /\ x \notin Admissions
  <2>1. dispatch[x] \in {NoDispatch} \cup DispatchRow
    BY <1>2 DEF ExecutionInv, Typed, CoreTyped
  <2>2. dispatch[x].state \in {"none", "active", "withdrawn", "settled"}
    BY <2>1 DEF NoDispatch, DispatchRow
  <2>3. dispatch[x].state \notin {"none", "settled"}
    BY <1>2 DEF ExecutionInv, Typed, Recorded, DispatchFlow, Executing
  <2> QED
    BY <1>2, <2>2, <2>3 DEF Holds
<1> QED
  BY <1>1, <1>2 DEF Deployments

\* The Data Plane never executes two Deployments of the Environment at once,
\* however Authorize, Submit, Callback, withdrawals and settlements cross.
THEOREM ExecutionsAreExclusive == Spec => []OneExecution
<1>1. ExecutionInv => OneExecution
  BY ExecutingHolds DEF ExecutionInv, OneHolder, OneExecution
<1> QED
  BY <1>1, ExecutionInvariant, PTL

\* What Settle, SealAbsence and Complete recorded is what happened, for good.
THEOREM ResolutionsAreTrue == Spec => []ResolvedIsOver
<1>1. ExecutionInv => ResolvedIsOver
  BY DEF ExecutionInv, AdmissionFlow, DispatchFlow, ResolvedIsOver
<1> QED
  BY <1>1, ExecutionInvariant, PTL

\* A delayed Authorize never leaves a guard behind for an admission whose
\* absence SealAbsence confirmed.
THEOREM AbsenceStaysClosed == Spec => []NoOrphanGuard
<1>1. ExecutionInv => NoOrphanGuard
  BY DEF ExecutionInv, AdmissionFlow, NoOrphanGuard
<1> QED
  BY <1>1, ExecutionInvariant, PTL

-----------------------------------------------------------------------------
(* Protection by Pins.                                                     *)

\* A holder keeps its target: only a dispatch without a row gets one.
LEMMA HolderKeepsTarget ==
    ASSUME ExecutionInv, [Next]_vars, NEW x \in Deployments, Holds(x)
    PROVE  TargetOfDeployment(x)' = TargetOfDeployment(x)
<1> USE DEF ExecutionInv, Typed
<1>1. CASE x \in Admissions
  BY <1>1 DEF TargetOfDeployment
<1>2. CASE x \notin Admissions
  <2>1. x \in Dispatches /\ dispatch[x] \in DispatchRow
    BY <1>2 DEF Deployments, Holds, CoreTyped, NoDispatch
  <2>2. ASSUME NEW a \in Admissions, AdmissionStep(a)
        PROVE  dispatch'[x].target = dispatch[x].target
    BY <2>2, AdmissionStepOthers
  <2>3. ASSUME NEW d \in Dispatches, DispatchStep(d)
        PROVE  dispatch'[x].target = dispatch[x].target
    <3>1. CASE x # d
      BY <2>1, <2>3, <3>1, DispatchStepOthers
    <3>2. CASE x = d /\ (Withdraw(d) \/ Complete(d))
      BY <2>1, <3>2 DEF Withdraw, Complete, CoreTyped, DispatchRow
    <3>3. CASE x = d /\ ~Withdraw(d) /\ ~Complete(d)
      <4>1. dispatch[d].state # "none"
        BY <1>2, <3>3 DEF Holds
      <4> QED
        BY <2>3, <3>3, <4>1 DEF DispatchStep, Submit, WithdrawMissing, Callback, DpCommit, DpFinish,
           Lookup, coreVars
    <3> QED
      BY <3>1, <3>2, <3>3
  <2>4. dispatch'[x].target = dispatch[x].target
    BY <2>2, <2>3, OtherStepFrame
  <2> QED
    BY <1>2, <2>4 DEF TargetOfDeployment
<1> QED
  BY <1>1, <1>2

\* The steps of Deployments leave the Pins alone.
LEMMA DeploymentStepFrame ==
    ASSUME [Next]_vars,
           \A q \in Pins : ~PinStep(q), \A h \in Readers : ~WriteProtection(h)
    PROVE  UNCHANGED <<pin, events>>
<1>1. ASSUME NEW h \in Readers, ReaderStep(h)
      PROVE  UNCHANGED <<pin, events>>
  BY <1>1 DEF ReaderStep, ReadEpochToCreate, ReadEpochToReconcile, ReadStatus, ReadActive, ReaderFails
<1> QED
  BY <1>1, AdmissionStepFrame, DispatchStepFrame DEF Next, GrantCommand, LifecycleChange, BeginDelete,
     vars, pinVars

\* Every step keeps holders within the Pins.
LEMMA HoldersRespectPinsStep ==
    ASSUME ExecutionInv, HoldersRespectPins, [Next]_vars
    PROVE  HoldersRespectPins'
<1> USE DEF ExecutionInv
<1>1. SUFFICES ASSUME NEW p \in Pins, Protecting(p)', ~pin'[p].assumed,
                      NEW x \in Deployments, Holds(x)', ModeOf(x) # "destroy"
               PROVE  \/ TargetOfDeployment(x)' = pin'[p].version
                      \/ /\ pin'[p].status = "override_pending"
                         /\ x \in Dispatches
                         /\ OperationOf[x] = pin'[p].owner
  BY DEF HoldersRespectPins, ModeOf
<1>2. ASSUME NEW q \in Pins, PinStep(q)
      PROVE  \/ TargetOfDeployment(x)' = pin'[p].version
             \/ /\ pin'[p].status = "override_pending"
                /\ x \in Dispatches
                /\ OperationOf[x] = pin'[p].owner
  <2>1. UNCHANGED <<guard, dispatch, dp>>
    BY <1>2, PinStepFrame DEF coreVars, dpVars
  <2>2. Holds(x) /\ TargetOfDeployment(x)' = TargetOfDeployment(x)
    BY <1>1, <2>1 DEF Holds, Executing, TargetOfDeployment
  <2>3. PICK row \in PinRow :
          /\ pin' = [pin EXCEPT ![q] = row]
          /\ pin[q] \in PinRow
          /\ row.version = pin[q].version
          /\ row.assumed \/ row.assumed = pin[q].assumed
          /\ row.status \in {"active", "override_pending", "removed"}
          /\ row.status = "override_pending" => pin[q].status = "active"
          /\ row.status = "active" /\ ~row.assumed => CancelOverride(q)
    BY <1>2, PinStepRow
  <2>4. CASE p # q
    <3>1. pin'[p] = pin[p]
      BY <2>3, <2>4 DEF Typed, PinTyped
    <3> QED
      BY <1>1, <2>2, <3>1 DEF HoldersRespectPins, Protecting
  <2>5. CASE p = q
    <3>1. pin'[q] = row
      BY <2>3 DEF Typed, PinTyped
    <3>2. /\ row.status \in {"active", "override_pending"} /\ ~row.assumed /\ ~pin[q].assumed
      BY <1>1, <2>3, <2>5, <3>1 DEF Protecting
    <3>3. CASE row.status = "override_pending"
      BY <1>1, <2>2, <2>3, <2>5, <3>1, <3>2, <3>3 DEF HoldersRespectPins, Protecting
    <3>4. CASE row.status = "active"
      <4>1. CancelOverride(q) /\ pin[q].status = "override_pending"
        BY <2>3, <3>2, <3>4 DEF CancelOverride
      <4>2. ~(x \in Dispatches /\ OperationOf[x] = pin[q].owner)
        BY <2>2, <4>1, ConstantAssumption DEF CancelOverride, Holds
      <4>3. TargetOfDeployment(x) = pin[q].version
        BY <1>1, <2>2, <3>2, <4>1, <4>2 DEF HoldersRespectPins, Protecting
      <4> QED
        BY <2>2, <2>3, <2>5, <3>1, <4>3
    <3> QED
      BY <3>2, <3>3, <3>4
  <2> QED
    BY <2>4, <2>5
<1>3. ASSUME NEW h \in Readers, WriteProtection(h)
      PROVE  FALSE
  <2>1. UNCHANGED <<guard, dispatch, dp>> /\ Barrier
    BY <1>3, ReaderStepFrame, WriteProtectionRow DEF ReaderStep, coreVars, dpVars
  <2> QED
    BY <1>1, <2>1, BarrierStopsHolders DEF Holds, Executing
<1>4. ASSUME UNCHANGED pin
      PROVE  \/ TargetOfDeployment(x)' = pin'[p].version
             \/ /\ pin'[p].status = "override_pending"
                /\ x \in Dispatches
                /\ OperationOf[x] = pin'[p].owner
  <2>1. CASE Holds(x)
    BY <1>1, <1>4, <2>1, HolderKeepsTarget DEF HoldersRespectPins, Protecting
  <2>2. ASSUME x \in Admissions, NEW fresh \in BOOLEAN, Authorize(x, fresh)
        PROVE  TargetOfDeployment(x)' = pin'[p].version
    BY <1>1, <1>4, <2>2 DEF Authorize, PreservesPins, Protecting, TargetOfDeployment, ModeOf
  <2>3. ASSUME x \in Dispatches, NEW v \in Versions, NEW approved, Submit(x, v, approved)
        PROVE  \/ TargetOfDeployment(x)' = pin'[p].version
               \/ /\ pin'[p].status = "override_pending"
                  /\ OperationOf[x] = pin'[p].owner
    <3>1. TargetOfDeployment(x)' = v
      BY <2>3, ConstantAssumption DEF Submit, TargetOfDeployment, Typed, CoreTyped
    <3> QED
      BY <1>1, <1>4, <2>3, <3>1 DEF Submit, PinsAllow, Protecting
  <2> QED
    BY <1>1, <2>1, <2>2, <2>3, NewHolder
<1> QED
  BY <1>2, <1>3, <1>4, DeploymentStepFrame

\* While a Pin written from evidence is active, nothing but its version is
\* executed, whatever admissions, overrides and cancellations cross.
THEOREM PinsProtect == Spec => []EvidencedPinsProtect
<1>1. Init => HoldersRespectPins
  BY DEF Init, HoldersRespectPins, Protecting, NoPin
<1>2. ExecutionInv /\ HoldersRespectPins /\ [Next]_vars => HoldersRespectPins'
  BY HoldersRespectPinsStep
<1>3. ExecutionInv /\ HoldersRespectPins => EvidencedPinsProtect
  BY ExecutingHolds DEF HoldersRespectPins, EvidencedPinsProtect, Protecting
<1> QED
  BY <1>1, <1>2, <1>3, ExecutionInvariant, PTL DEF Spec

-----------------------------------------------------------------------------
(* Approvals.                                                              *)

\* LatestActivation is the maximum, where there is one.
LEMMA LatestIsMaximum ==
    ASSUME NEW p, \A q \in Pins : p[q].activation \in Nat,
           NEW n \in {0} \cup {p[q].activation : q \in Pins},
           \A q \in Pins : p[q].activation <= n
    PROVE  n = CHOOSE k \in {0} \cup {p[q].activation : q \in Pins} :
                   \A q \in Pins : p[q].activation <= k
<1> DEFINE S == {0} \cup {p[q].activation : q \in Pins}
           Bound(k) == \A q \in Pins : p[q].activation <= k
           top == CHOOSE k \in S : Bound(k)
<1>1. n \in S /\ Bound(n)
  OBVIOUS
<1>2. top \in S /\ Bound(top)
  BY <1>1
<1>3. S \subseteq Nat
  OBVIOUS
<1>4. \A m \in S : m <= n /\ m <= top
  <2> SUFFICES ASSUME NEW m \in S PROVE m <= n /\ m <= top
    OBVIOUS
  <2>1. n \in Nat /\ top \in Nat
    BY <1>1, <1>2, <1>3
  <2>2. CASE m = 0
    BY <2>1, <2>2
  <2>3. CASE m # 0
    <3>1. PICK q \in Pins : m = p[q].activation
      BY <2>3
    <3> QED
      BY <1>1, <1>2, <3>1
  <2> QED
    BY <2>2, <2>3
<1> HIDE DEF S, Bound, top
<1>5. n <= top /\ top <= n /\ n \in Nat /\ top \in Nat
  BY <1>1, <1>2, <1>3, <1>4
<1>6. n = top
  BY <1>5
<1> QED
  BY <1>6 DEF top, S, Bound

\* Where no Pin's activation changes, the latest activation stays.
LEMMA SameActivations ==
    ASSUME ActivationsBounded, \A q \in Pins : pin'[q].activation = pin[q].activation
    PROVE  LatestActivation' = LatestActivation
<1>1. PICK n \in {0} \cup {pin[q].activation : q \in Pins} : \A q \in Pins : pin[q].activation <= n
  BY DEF ActivationsBounded
<1>2. n = LatestActivation
  BY <1>1, LatestIsMaximum DEF ActivationsBounded, LatestActivation
<1>3. n \in {0} \cup {pin'[q].activation : q \in Pins} /\ \A q \in Pins : pin'[q].activation <= n
  BY <1>1
<1>4. \A q \in Pins : pin'[q].activation \in Nat
  BY DEF ActivationsBounded
<1>5. n = LatestActivation'
  BY <1>3, <1>4, LatestIsMaximum DEF LatestActivation
<1> QED
  BY <1>2, <1>5

\* Every step keeps activations below the number of events.
LEMMA ActivationsBoundedStep ==
    ASSUME Typed, ActivationsBounded, [Next]_vars
    PROVE  ActivationsBounded'
<1>1. events \in Nat
  BY DEF Typed, PinTyped
<1>2. PICK n \in {0} \cup {pin[q].activation : q \in Pins} : \A q \in Pins : pin[q].activation <= n
  BY DEF ActivationsBounded
<1>3. ASSUME \A q \in Pins : pin'[q].activation = pin[q].activation,
             events' = events \/ events' = events + 1
      PROVE  ActivationsBounded'
  <2>1. n \in {0} \cup {pin'[q].activation : q \in Pins} /\ \A q \in Pins : pin'[q].activation <= n
    BY <1>2, <1>3
  <2>2. \A q \in Pins : pin'[q].activation \in Nat /\ pin'[q].activation <= events'
    BY <1>1, <1>3 DEF ActivationsBounded
  <2> QED
    BY <2>1, <2>2 DEF ActivationsBounded
<1>4. ASSUME NEW q \in Pins, PinStep(q)
      PROVE  ActivationsBounded'
  <2>1. PICK row \in PinRow : pin' = [pin EXCEPT ![q] = row] /\ row.activation = pin[q].activation
    BY <1>4, PinStepRow
  <2>2. events' = events + 1
    BY <1>4, PinStepRow
  <2> QED
    BY <1>3, <2>1, <2>2 DEF Typed, PinTyped
<1>5. ASSUME NEW h \in Readers, WriteProtection(h)
      PROVE  ActivationsBounded'
  <2>1. reader[h].pin \in Pins /\ events' = events + 1
    BY <1>5, WriteProtectionRow DEF ReaderRow
  <2>2. PICK row \in PinRow :
          /\ pin' = [pin EXCEPT ![reader[h].pin] = row]
          /\ row.activation \in {pin[reader[h].pin].activation, events + 1}
    BY <1>5, WriteProtectionRow
  <2>3. CASE row.activation = pin[reader[h].pin].activation
    BY <1>3, <2>1, <2>2, <2>3 DEF Typed, PinTyped
  <2>4. CASE row.activation = events + 1
    <3>1. /\ pin'[reader[h].pin].activation = events + 1
          /\ \A q \in Pins : q # reader[h].pin => pin'[q].activation = pin[q].activation
      BY <2>1, <2>2, <2>4 DEF Typed, PinTyped
    <3>2. \A q \in Pins : pin'[q].activation \in Nat /\ pin'[q].activation <= events + 1
      BY <1>1, <3>1 DEF ActivationsBounded
    <3>3. events + 1 \in {0} \cup {pin'[q].activation : q \in Pins}
      BY <2>1, <3>1
    <3> QED
      BY <2>1, <3>2, <3>3 DEF ActivationsBounded
  <2> QED
    BY <2>2, <2>3, <2>4
<1> QED
  BY <1>3, <1>4, <1>5, DeploymentStepFrame

\* An active row is a new one, of a Submit, or the one of before.
LEMMA ActiveRow ==
    ASSUME Typed, [Next]_vars, NEW d \in Dispatches, dispatch'[d].state = "active"
    PROVE  \/ dispatch'[d] = dispatch[d]
           \/ \E v \in Versions, approved \in {NoApproval} \cup 0 .. events : Submit(d, v, approved)
<1>1. ASSUME NEW a \in Admissions, AdmissionStep(a)
      PROVE  dispatch'[d] = dispatch[d]
  BY <1>1, AdmissionStepOthers
<1>2. ASSUME NEW e \in Dispatches, DispatchStep(e)
      PROVE  \/ dispatch'[d] = dispatch[d]
             \/ \E v \in Versions, approved \in {NoApproval} \cup 0 .. events : Submit(d, v, approved)
  <2>1. CASE d # e
    BY <1>2, <2>1, DispatchStepOthers
  <2>2. CASE d = e
    <3>1. ~Withdraw(d) /\ ~Complete(d) /\ \A v \in Versions : ~WithdrawMissing(d, v)
      <4>1. dispatch[d] \in {NoDispatch} \cup DispatchRow
        BY DEF Typed, CoreTyped
      <4> QED
        BY <4>1 DEF Withdraw, Complete, WithdrawMissing, Typed, CoreTyped, NoDispatch, DispatchRow
    <3> QED
      BY <1>2, <2>2, <3>1 DEF DispatchStep, Callback, DpCommit, DpFinish, Lookup, coreVars
  <2> QED
    BY <2>1, <2>2
<1> QED
  BY <1>1, <1>2, OtherStepFrame

\* No step activates a Pin beside an approved dispatch.
LEMMA ApprovalsCurrentStep ==
    ASSUME Typed, ActivationsBounded, ApprovalsCurrent, [Next]_vars
    PROVE  ApprovalsCurrent'
<1>1. SUFFICES ASSUME NEW d \in Dispatches, dispatch'[d].state = "active",
                      dispatch'[d].approved # NoApproval
               PROVE  dispatch'[d].approved = LatestActivation'
  BY DEF ApprovalsCurrent, NoApproval
<1>2. ASSUME NEW h \in Readers, WriteProtection(h)
      PROVE  FALSE
  BY <1>1, <1>2, ReaderStepFrame, WriteProtectionRow DEF ReaderStep, coreVars, Barrier
<1>3. ASSUME NEW q \in Pins, PinStep(q)
      PROVE  LatestActivation' = LatestActivation
  <2>1. PICK row \in PinRow : pin' = [pin EXCEPT ![q] = row] /\ row.activation = pin[q].activation
    BY <1>3, PinStepRow
  <2>2. \A p \in Pins : pin'[p].activation = pin[p].activation
    BY <2>1 DEF Typed, PinTyped
  <2> QED
    BY <2>2, SameActivations
<1>4. LatestActivation' = LatestActivation
  <2>1. CASE UNCHANGED pin
    BY <2>1, SameActivations
  <2> QED
    BY <1>2, <1>3, <2>1, DeploymentStepFrame
<1>5. ASSUME NEW v \in Versions, NEW approved, Submit(d, v, approved)
      PROVE  dispatch'[d].approved = LatestActivation
  <2>1. dispatch'[d].approved = approved
    BY <1>5 DEF Submit, Typed, CoreTyped
  <2> QED
    BY <1>1, <1>5, <2>1 DEF Submit, PinsAllow
<1> QED
  BY <1>1, <1>4, <1>5, ActiveRow DEF ApprovalsCurrent

\* Initially no Pin was ever activated.
LEMMA InitActivations == Init => ActivationsBounded
<1> SUFFICES ASSUME Init PROVE ActivationsBounded
  OBVIOUS
<1>1. \A q \in Pins : pin[q].activation = 0
  BY DEF Init, NoPin
<1>2. events = 0
  BY DEF Init
<1> QED
  BY <1>1, <1>2 DEF ActivationsBounded

\* No activation of a Pin slips in between the record of an approved dispatch
\* and its end, so the comparison that Callback repeats cannot go stale.
THEOREM ApprovalsStayCurrent == Spec => []ApprovalsCurrent
<1>1. Init => ApprovalsCurrent
  BY DEF Init, ApprovalsCurrent, NoDispatch
<1>2. Typed /\ ActivationsBounded /\ ApprovalsCurrent /\ [Next]_vars
        => ActivationsBounded' /\ ApprovalsCurrent'
  BY ActivationsBoundedStep, ApprovalsCurrentStep
<1> QED
  BY <1>1, <1>2, InitTyped, InitActivations, TypedStep, PTL DEF Spec

-----------------------------------------------------------------------------
(* Evidence whose capture began while nothing was unresolved.              *)

\* What a step of a Deployment can do while the epoch stands still.
LEMMA SameEpochStep ==
    ASSUME ExecutionInv, Barrier, [Next]_vars, epoch' = epoch
    PROVE  Barrier' /\ effective' = effective
<1> USE DEF ExecutionInv, Typed
<1>1. epoch # epoch + 1
  BY DEF CoreTyped
<1>2. \A x \in Deployments : dp[x] # "running"
  BY BarrierStopsHolders DEF Executing
<1>3. ASSUME NEW a \in Admissions, AdmissionStep(a)
      PROVE  Barrier' /\ effective' = effective
  <2>1. \A fresh : ~Authorize(a, fresh)
    BY <1>1 DEF Authorize
  <2>2. ~DpFinish(a)
    BY <1>2 DEF DpFinish, Deployments
  <2>3. guard'[a] # "unresolved" /\ effective' = effective
    BY <1>3, <2>1, <2>2 DEF AdmissionStep, DpPrepare, DpStart, DpSeal, SealAbsence, Settle, coreVars,
       dpVars, CoreTyped, Barrier
  <2> QED
    BY <1>3, <2>3, AdmissionStepOthers DEF Barrier
<1>4. ASSUME NEW d \in Dispatches, DispatchStep(d)
      PROVE  Barrier' /\ effective' = effective
  <2>1. ~DpFinish(d)
    BY <1>2 DEF DpFinish, Deployments
  <2>2. dispatch[d].state \in {"none", "settled"}
    BY DEF Barrier
  <2>3. dispatch' = dispatch /\ guard' = guard /\ effective' = effective
    BY <1>1, <1>4, <2>1, <2>2 DEF DispatchStep, Submit, Withdraw, WithdrawMissing, Callback,
       DpCommit, Lookup, Complete, coreVars, dpVars
  <2> QED
    BY <2>3 DEF Barrier
<1> QED
  BY <1>3, <1>4, OtherStepFrame DEF Barrier, dpVars

\* The epoch never goes back.
LEMMA EpochGrows ==
    ASSUME Typed, [Next]_vars
    PROVE  epoch' = epoch \/ epoch' = epoch + 1
<1>1. ASSUME NEW a \in Admissions, AdmissionStep(a)
      PROVE  epoch' = epoch \/ epoch' = epoch + 1
  BY <1>1 DEF AdmissionStep, DpPrepare, Authorize, DpStart, DpFinish, DpSeal, SealAbsence, Settle,
     coreVars
<1>2. ASSUME NEW d \in Dispatches, DispatchStep(d)
      PROVE  epoch' = epoch \/ epoch' = epoch + 1
  BY <1>2 DEF DispatchStep, Submit, Withdraw, WithdrawMissing, Callback, DpCommit, DpFinish, Lookup,
     Complete, coreVars
<1> QED
  BY <1>1, <1>2, OtherStepFrame

\* What a step does to a reader that is under way afterwards: it began now, it
\* looked at the active version now, or it holds what it held before.
LEMMA ReaderAfter ==
    ASSUME Typed, [Next]_vars, NEW h \in Readers, reader'[h].stage # "idle"
    PROVE  \/ /\ reader'[h].quiet => Barrier
              /\ reader'[h].epoch = epoch /\ reader'[h].stage = "epoch"
              /\ UNCHANGED <<coreVars, dpVars>>
           \/ /\ reader[h].stage # "idle" /\ reader'[h].epoch = reader[h].epoch
              /\ reader'[h].version = reader[h].version /\ reader'[h].quiet = reader[h].quiet
              /\ \/ reader'[h].stage = reader[h].stage
                 \/ reader'[h].stage = "status" /\ UNCHANGED <<coreVars, dpVars>>
                 \/ effective = reader[h].version /\ UNCHANGED <<coreVars, dpVars>>
<1> DEFINE New == /\ reader'[h].quiet => Barrier
                  /\ reader'[h].epoch = epoch /\ reader'[h].stage = "epoch"
                  /\ UNCHANGED <<coreVars, dpVars>>
           Old == /\ reader[h].stage # "idle" /\ reader'[h].epoch = reader[h].epoch
                  /\ reader'[h].version = reader[h].version /\ reader'[h].quiet = reader[h].quiet
                  /\ \/ reader'[h].stage = reader[h].stage
                     \/ reader'[h].stage = "status" /\ UNCHANGED <<coreVars, dpVars>>
                     \/ effective = reader[h].version /\ UNCHANGED <<coreVars, dpVars>>
<1>1. CASE reader'[h] = reader[h]
  BY <1>1
<1>2. ASSUME NEW g \in Readers, ReaderStep(g)
      PROVE  New \/ Old
  <2>1. UNCHANGED <<coreVars, dpVars>>
    BY <1>2, ReaderStepFrame
  <2>2. CASE g # h
    <3>1. reader'[h] = reader[h]
      BY <1>2, <2>2 DEF ReaderStep, ReadEpochToCreate, ReadEpochToReconcile, ReadStatus, ReadActive,
         WriteProtection, ReaderFails, Typed, PinTyped
    <3> QED
      BY <1>1, <3>1
  <2>3. CASE g = h
    <3> USE <2>3 DEF Typed, PinTyped
    <3>1. ASSUME NEW q \in Pins, NEW v \in Versions, ReadEpochToCreate(h, q, v) PROVE New
      BY <2>1, <3>1 DEF ReadEpochToCreate
    <3>2. ASSUME NEW q \in Pins, NEW x \in Deployments, NEW plugin \in BOOLEAN,
                 ReadEpochToReconcile(h, q, x, plugin)
          PROVE  New
      BY <2>1, <3>2 DEF ReadEpochToReconcile
    <3>3. CASE ReadStatus(h) \/ ReadActive(h)
      <4>1. reader[h] \in ReaderRow
        BY <3>3 DEF ReadStatus, ReadActive, IdleReader
      <4>2. CASE ReadStatus(h)
        BY <2>1, <4>1, <4>2 DEF ReadStatus, ReaderRow
      <4>3. CASE ReadActive(h)
        BY <2>1, <4>1, <4>3 DEF ReadActive, ReaderRow
      <4> QED
        BY <3>3, <4>2, <4>3
    <3>4. ~WriteProtection(h) /\ ~ReaderFails(h)
      <4>1. WriteProtection(h) \/ ReaderFails(h) => reader' = [reader EXCEPT ![h] = IdleReader]
        BY DEF WriteProtection, ReaderFails
      <4>2. reader' = [reader EXCEPT ![h] = IdleReader] => reader'[h].stage = "idle"
        BY DEF IdleReader
      <4> QED
        BY <4>1, <4>2
    <3> QED
      BY <1>2, <3>1, <3>2, <3>3, <3>4 DEF ReaderStep
  <2> QED
    BY <2>2, <2>3
<1>3. ASSUME \A g \in Readers : ~ReaderStep(g)
      PROVE  reader' = reader
  BY <1>3, AdmissionStepFrame, DispatchStepFrame, PinStepFrame DEF Next, GrantCommand,
     LifecycleChange, BeginDelete, vars, pinVars
<1> QED
  BY <1>1, <1>2, <1>3

\* Evidence captured in quiet stays true as long as the epoch is unchanged.
LEMMA EvidenceCurrentStep ==
    ASSUME ExecutionInv, EvidenceCurrent, [Next]_vars
    PROVE  EvidenceCurrent'
<1> USE DEF ExecutionInv
<1>1. SUFFICES ASSUME NEW h \in Readers, reader'[h].stage # "idle"
               PROVE  /\ reader'[h].epoch <= epoch'
                      /\ reader'[h].quiet /\ reader'[h].epoch = epoch' =>
                           /\ Barrier'
                           /\ reader'[h].stage = "observed" => effective' = reader'[h].version
  BY DEF EvidenceCurrent
<1>2. epoch \in Nat /\ epoch' \in Nat
  BY TypedStep DEF Typed, CoreTyped
<1>3. CASE /\ reader'[h].quiet => Barrier
           /\ reader'[h].epoch = epoch /\ reader'[h].stage = "epoch"
           /\ UNCHANGED <<coreVars, dpVars>>
  BY <1>2, <1>3 DEF coreVars, dpVars, Barrier
<1>4. ASSUME reader[h].stage # "idle", reader'[h].epoch = reader[h].epoch,
             reader'[h].version = reader[h].version, reader'[h].quiet = reader[h].quiet,
             \/ reader'[h].stage = reader[h].stage
             \/ reader'[h].stage = "status" /\ UNCHANGED <<coreVars, dpVars>>
             \/ effective = reader[h].version /\ UNCHANGED <<coreVars, dpVars>>
      PROVE  /\ reader'[h].epoch <= epoch'
             /\ reader'[h].quiet /\ reader'[h].epoch = epoch' =>
                  /\ Barrier'
                  /\ reader'[h].stage = "observed" => effective' = reader'[h].version
  <2>1. reader[h].epoch <= epoch /\ reader[h].epoch \in Nat
    <3>1. reader[h] \in ReaderRow
      BY <1>4 DEF Typed, PinTyped, IdleReader
    <3> QED
      BY <1>4, <3>1 DEF EvidenceCurrent, ReaderRow
  <2>2. CASE epoch' = epoch + 1
    BY <1>2, <1>4, <2>1, <2>2
  <2>3. CASE epoch' = epoch
    <3>1. reader'[h].epoch <= epoch'
      BY <1>4, <2>1, <2>3
    <3>2. ASSUME reader'[h].quiet, reader'[h].epoch = epoch'
          PROVE  /\ Barrier'
                 /\ reader'[h].stage = "observed" => effective' = reader'[h].version
      <4>1. Barrier /\ (reader[h].stage = "observed" => effective = reader[h].version)
        BY <1>4, <2>3, <3>2 DEF EvidenceCurrent
      <4>2. Barrier' /\ effective' = effective
        BY <2>3, <4>1, SameEpochStep
      <4> QED
        BY <1>4, <4>1, <4>2
    <3> QED
      BY <3>1, <3>2
  <2> QED
    BY <2>2, <2>3, EpochGrows
<1> QED
  BY <1>1, <1>3, <1>4, ReaderAfter

\* The end of a Deployment is final.
LEMMA TerminalStays ==
    ASSUME ExecutionInv, [Next]_vars, NEW x \in Deployments, dp[x] \in {"succeeded", "failed"}
    PROVE  dp'[x] = dp[x]
<1> USE DEF ExecutionInv, Typed
<1>1. ASSUME NEW a \in Admissions, AdmissionStep(a)
      PROVE  dp'[x] = dp[x]
  <2>1. CASE x = a
    BY <1>1, <2>1 DEF AdmissionStep, DpPrepare, Authorize, DpStart, DpFinish, DpSeal, SealAbsence,
       Settle, dpVars
  <2> QED
    BY <1>1, <2>1, AdmissionStepOthers
<1>2. ASSUME NEW d \in Dispatches, DispatchStep(d)
      PROVE  dp'[x] = dp[x]
  <2>1. CASE x = d
    BY <1>2, <2>1 DEF DispatchStep, Submit, Withdraw, WithdrawMissing, Callback, DpCommit, DpFinish,
       Lookup, Complete, dpVars
  <2> QED
    BY <1>2, <2>1, DispatchStepOthers
<1> QED
  BY <1>1, <1>2, OtherStepFrame DEF dpVars

\* The active version changes only when an executing Deployment ends, to its
\* target or by a destroy.
LEMMA EffectiveChange ==
    ASSUME ExecutionInv, [Next]_vars, effective' # effective
    PROVE  \E x \in Deployments :
             /\ Holds(x) /\ dp'[x] \in {"succeeded", "failed"}
             /\ ModeOf(x) # "destroy" => effective' = TargetOfDeployment(x)
<1>1. ASSUME NEW x \in Deployments, DpFinish(x)
      PROVE  /\ Holds(x) /\ dp'[x] \in {"succeeded", "failed"}
             /\ ModeOf(x) # "destroy" => effective' = TargetOfDeployment(x)
  <2>1. Executing(x)
    BY <1>1 DEF DpFinish, Executing
  <2>2. dp'[x] \in {"succeeded", "failed"}
    BY <1>1 DEF DpFinish, ExecutionInv, Typed, DpTyped
  <2> QED
    BY <1>1, <2>1, <2>2, ExecutingHolds DEF DpFinish
<1>2. ASSUME NEW a \in Admissions, AdmissionStep(a)
      PROVE  DpFinish(a) /\ a \in Deployments
  BY <1>2 DEF AdmissionStep, DpPrepare, Authorize, DpStart, DpSeal, SealAbsence, Settle, dpVars,
     Deployments
<1>3. ASSUME NEW d \in Dispatches, DispatchStep(d)
      PROVE  DpFinish(d) /\ d \in Deployments
  BY <1>3 DEF DispatchStep, Submit, Withdraw, WithdrawMissing, Callback, DpCommit, Lookup, Complete,
     dpVars, Deployments
<1> QED
  BY <1>1, <1>2, <1>3, OtherStepFrame DEF dpVars

\* A destroy that ended has ended for good.
LEMMA DestroyedStays ==
    ASSUME ExecutionInv, [Next]_vars, Destroyed
    PROVE  Destroyed'
BY TerminalStays DEF Destroyed, Deployments

\* Every step keeps Pins written from such evidence true.
LEMMA PinsTrueStep ==
    ASSUME ExecutionInv, HoldersRespectPins, EvidenceCurrent, PinsTrue, [Next]_vars
    PROVE  PinsTrue'
<1> USE DEF ExecutionInv
<1> DEFINE Overridden(q) == /\ pin[q].status = "override_pending"
                            /\ \E d \in Dispatches :
                                 OperationOf[d] = pin[q].owner /\ dp[d] \in {"succeeded", "failed"}
           True(q) == effective = pin[q].version \/ Destroyed \/ Overridden(q)
<1>1. ASSUME UNCHANGED pin, NEW p \in Pins, Protecting(p), ~pin[p].assumed,
             pin[p].quiet
      PROVE  True(p)'
  <2>1. CASE effective' = effective
    <3>1. Overridden(p) => Overridden(p)'
      BY <1>1, TerminalStays DEF Deployments
    <3> QED
      BY <1>1, <2>1, <3>1, DestroyedStays DEF PinsTrue
  <2>2. CASE effective' # effective
    <3>1. PICK x \in Deployments :
            /\ Holds(x) /\ dp'[x] \in {"succeeded", "failed"}
            /\ ModeOf(x) # "destroy" => effective' = TargetOfDeployment(x)
      BY <2>2, EffectiveChange
    <3>2. CASE ModeOf(x) = "destroy"
      <4>1. x \in Admissions /\ Intent[x].mode = "destroy"
        BY <3>2, ConstantAssumption DEF ModeOf, Deployments
      <4> QED
        BY <3>1, <4>1 DEF Destroyed
    <3>3. CASE ModeOf(x) # "destroy"
      BY <1>1, <3>1, <3>3 DEF HoldersRespectPins
    <3> QED
      BY <3>2, <3>3
  <2> QED
    BY <2>1, <2>2
<1>2. ASSUME NEW q \in Pins, PinStep(q), NEW p \in Pins, Protecting(p)', ~pin'[p].assumed,
             pin'[p].quiet
      PROVE  True(p)'
  <2>1. UNCHANGED <<effective, dp, dispatch>>
    BY <1>2, PinStepFrame DEF dpVars, coreVars
  <2>2. PICK row \in PinRow :
          /\ pin' = [pin EXCEPT ![q] = row]
          /\ pin[q] \in PinRow
          /\ row.version = pin[q].version
          /\ row.assumed \/ row.assumed = pin[q].assumed
          /\ row.quiet => pin[q].quiet
          /\ row.status = "override_pending" => pin[q].status = "active"
          /\ row.status = "active" /\ ~row.assumed => CancelOverride(q)
    BY <1>2, PinStepRow
  <2>3. CASE p # q
    <3>1. pin'[p] = pin[p]
      BY <2>2, <2>3 DEF Typed, PinTyped
    <3> QED
      BY <1>2, <2>1, <3>1 DEF PinsTrue, Protecting, Destroyed
  <2>4. CASE p = q
    <3>1. pin'[q] = row
      BY <2>2 DEF Typed, PinTyped
    <3>2. /\ row.status \in {"active", "override_pending"} /\ ~row.assumed /\ ~pin[q].assumed
          /\ pin[q].quiet
      BY <1>2, <2>2, <2>4, <3>1 DEF Protecting
    <3>3. pin[q].status \in {"active", "override_pending"}
      BY <2>2, <3>2 DEF CancelOverride
    <3>4. True(q)
      BY <3>2, <3>3 DEF PinsTrue, Protecting
    <3>5. ~Overridden(q)
      <4>1. CASE row.status = "override_pending"
        BY <2>2, <4>1
      <4>2. CASE row.status = "active"
        <5>1. CancelOverride(q)
          BY <2>2, <3>2, <4>2
        <5>2. ASSUME NEW d \in Dispatches, OperationOf[d] = pin[q].owner,
                     dp[d] \in {"succeeded", "failed"}
              PROVE  FALSE
          BY <5>1, <5>2 DEF CancelOverride, Typed, Recorded, DispatchFlow
        <5> QED
          BY <5>2
      <4> QED
        BY <3>2, <4>1, <4>2
    <3> QED
      BY <2>1, <2>2, <2>4, <3>1, <3>4, <3>5 DEF Destroyed
  <2> QED
    BY <2>3, <2>4
<1>3. ASSUME NEW h \in Readers, WriteProtection(h), NEW p \in Pins, Protecting(p)',
             ~pin'[p].assumed, pin'[p].quiet
      PROVE  True(p)'
  <2>1. UNCHANGED <<effective, dp>>
    BY <1>3, ReaderStepFrame DEF ReaderStep, dpVars
  <2>2. PICK row \in PinRow :
          /\ pin' = [pin EXCEPT ![reader[h].pin] = row]
          /\ \/ row.status = "overridden"
             \/ row.version = reader[h].version /\ row.quiet = reader[h].quiet
    BY <1>3, WriteProtectionRow
  <2>3. reader[h].quiet => effective = reader[h].version
    BY <1>3, WriteProtectionRow DEF EvidenceCurrent
  <2>4. CASE p # reader[h].pin
    <3>1. pin'[p] = pin[p]
      BY <2>2, <2>4 DEF Typed, PinTyped
    <3> QED
      BY <1>3, <2>1, <3>1 DEF PinsTrue, Protecting, Destroyed
  <2>5. CASE p = reader[h].pin
    <3>1. pin'[p] = row
      BY <2>2, <2>5 DEF Typed, PinTyped
    <3> QED
      BY <1>3, <2>1, <2>2, <2>3, <3>1 DEF Protecting
  <2> QED
    BY <2>4, <2>5
<1>4. SUFFICES ASSUME NEW p \in Pins, Protecting(p)', ~pin'[p].assumed, pin'[p].quiet PROVE True(p)'
  BY DEF PinsTrue
<1> QED
  <2>1. CASE UNCHANGED pin
    BY <1>1, <1>4, <2>1 DEF Protecting
  <2> QED
    BY <1>2, <1>3, <1>4, <2>1, DeploymentStepFrame

\* An active Pin written from evidence whose capture began while nothing was
\* unresolved (ReadEnvironmentAdmissionEpoch and CheckEnvironmentAdmissionEpoch)
\* names the version that is active, whatever is admitted and settled meanwhile.
THEOREM QuietEvidenceHolds == Spec => []QuietEvidenceIsTrue
<1>1. Init => HoldersRespectPins /\ EvidenceCurrent /\ PinsTrue
  BY DEF Init, HoldersRespectPins, EvidenceCurrent, PinsTrue, Protecting, NoPin, IdleReader
<1>2. ExecutionInv /\ HoldersRespectPins /\ EvidenceCurrent /\ PinsTrue /\ [Next]_vars
        => HoldersRespectPins' /\ EvidenceCurrent' /\ PinsTrue'
  BY HoldersRespectPinsStep, EvidenceCurrentStep, PinsTrueStep
<1>3. PinsTrue => QuietEvidenceIsTrue
  BY DEF PinsTrue, QuietEvidenceIsTrue, NamesWhatRuns, Protecting, Destroyed
<1> QED
  BY <1>1, <1>2, <1>3, ExecutionInvariant, PTL DEF Spec

=============================================================================
