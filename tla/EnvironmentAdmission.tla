------------------------- MODULE EnvironmentAdmission -------------------------
(***************************************************************************)
(* Admission of Deployments to one Environment, against the Pins that      *)
(* protect one Module in it.  Ordinary Deployments are admitted by guards  *)
(* (internal/model/environment_admission.go), the ones of plugin           *)
(* operations by recorded dispatches (external_operation_dispatch.go,      *)
(* external_dispatch_recovery.go).  Pins are written from evidence that is *)
(* read from the Data Plane without a lock (module_version_pins.go,        *)
(* external_pin_operations.go and their API handlers).                     *)
(*                                                                         *)
(* Every transaction here holds the Environment's advisory lock, so it is  *)
(* one step.  The calls between Core and the Data Plane are not: they are  *)
(* delayed, lost and repeated, and evidence is collected over several      *)
(* steps.  Replays of an admission or a dispatch only repeat an answer and *)
(* change no state.  The Data Plane is not part of the repository; its     *)
(* steps are those the handlers and docs/environment-admission-guards.md   *)
(* rely on.                                                                *)
(***************************************************************************)
EXTENDS Integers, FiniteSets

CONSTANTS
    Versions,       \* versions of the Module
    NoVersion,      \* the Module has no version
    Admissions,     \* identities of ordinary Deployment admissions
    Intent,         \* their frozen intents: mode, target, carry, confirmed
    Dispatches,     \* identities of external dispatches
    OperationOf,    \* the operation of a dispatch
    DispatchMode,   \* "deploy" or "rollback"
    ForwardOf,      \* the forward dispatch that a rollback dispatch undoes
    Operations,     \* operation grants whose scope holds the Environment
    TargetOf,       \* the frozen target version of an operation
    NoOperation,    \* a Pin that no operation owns
    Pins,           \* Pin identities
    Readers,        \* handlers that collect Pin evidence
    Earlier,        \* the Deployment that produced the initial state
    InitialVersion,     \* the version it left
    InitialLifecycle,   \* lifecycle status of the versions
    Archived,           \* whether the Module is archived in the catalogue
    CatalogueChanges,   \* bound: the lifecycle changes <<version, status>> to explore
    MaxRevision,        \* bound: revisions of a grant
    MaxEvents           \* bound: lifecycle events of Pins

Deployments == Admissions \cup Dispatches
Statuses == {"proposed", "default", "deprecated", "defective"}

ASSUME ConstantAssumption ==
    /\ NoVersion \notin Versions
    /\ NoOperation \notin Operations
    /\ Admissions \cap Dispatches = {}
    /\ Earlier \notin Deployments
    /\ Intent \in [Admissions -> [mode : {"deploy", "rollback", "destroy"},
                                  target : Versions \cup {NoVersion},
                                  carry : BOOLEAN, confirmed : BOOLEAN]]
    /\ \A a \in Admissions : Intent[a].mode = "destroy" => Intent[a].target = NoVersion
    /\ OperationOf \in [Dispatches -> Operations]
    /\ DispatchMode \in [Dispatches -> {"deploy", "rollback"}]
    /\ ForwardOf \in [Dispatches -> Dispatches]
    /\ TargetOf \in [Operations -> Versions]
    /\ InitialVersion \in Versions \cup {NoVersion}
    /\ InitialLifecycle \in [Versions -> Statuses]
    /\ Archived \in BOOLEAN
    /\ CatalogueChanges \subseteq Versions \X Statuses
    /\ MaxRevision \in Nat
    /\ MaxEvents \in Nat

VARIABLES
    epoch,       \* environment_admission_epochs.epoch
    guard,       \* deployment_admission_guards: "none", "unresolved" or its outcome
    dispatch,    \* external_operation_dispatches rows
    seen,        \* the receipt a recovering handler read from the Data Plane
    grant,       \* external_operation_grants: state and revision
    pin,         \* environment_module_version_pins rows
    events,      \* number of Pin lifecycle events
    reader,      \* evidence handlers between their reads
    lifecycle,   \* definition_versions.semantic_status
    deleting,    \* the Environment is being deleted
    dp,          \* Data Plane: state of each Deployment
    captured,    \* Data Plane: the base a dispatch's Deployment captured
    effective,   \* Data Plane: the active version of the Module
    base,        \* Data Plane: the last successful Deployment
    lastStatus   \* Data Plane: status of the last state-changing Deployment

coreVars == <<epoch, guard, dispatch, seen, grant>>
pinVars == <<pin, events, reader>>
catalogueVars == <<lifecycle, deleting>>
dpVars == <<dp, captured, effective, base, lastStatus>>
vars == <<coreVars, pinVars, catalogueVars, dpVars>>

-----------------------------------------------------------------------------

NoApproval == -1
NoDispatch == [state |-> "none"]
NoPin == [status |-> "absent", activation |-> 0]
IdleReader == [stage |-> "idle"]

ModeOf(x) == IF x \in Admissions THEN Intent[x].mode ELSE DispatchMode[x]
TargetOfDeployment(x) == IF x \in Admissions THEN Intent[x].target ELSE dispatch[x].target

\* A Deployment that the Data Plane executes or is about to commit.
Executing(x) == dp[x] \in {"admitting", "running"}

\* Mutant: the barrier does not see the other kind of Deployment.
DispatchBarrier == \A d \in Dispatches : dispatch[d].state \in {"none", "settled"}

\* checkExternalDispatchBarrier: nothing in the Environment is unresolved.
Barrier ==
    /\ \A d \in Dispatches : dispatch[d].state \in {"none", "settled"}
    /\ \A a \in Admissions : guard[a] # "unresolved"

\* Mutant: the evidence is compared with unresolved Deployments only.
NothingUnresolved(captureEpoch) == Barrier

\* Mutant: the evidence is compared with the epoch only.
SameEpoch(captureEpoch) == epoch = captureEpoch

\* CheckEnvironmentAdmissionEpoch.
EpochUnchanged(captureEpoch) == epoch = captureEpoch /\ Barrier

\* The statuses of the unique index environment_module_version_pins_protected.
Protecting(q) == pin[q].status \in {"active", "override_pending"}

\* The newest activation boundary of any Pin, removed ones included.
LatestActivation ==
    CHOOSE n \in {0} \cup {pin[q].activation : q \in Pins} :
        \A q \in Pins : pin[q].activation <= n

-----------------------------------------------------------------------------
(* Ordinary admissions.                                                    *)

\* AuthorizeDeploymentAdmission: the Pins, checked under the lock.
PreservesPins(intent) ==
    \A q \in Pins :
        Protecting(q) =>
            IF intent.mode = "destroy"
              THEN pin[q].status = "active"
              ELSE intent.target = pin[q].version

\* AuthorizeDeploymentAdmission: the lifecycle of the target version.  fresh is
\* the IAM decision on fresh Proposed versions.
AdmitsLifecycle(intent, fresh) ==
    LET v == intent.target
        rollback == intent.mode = "rollback"
        pinned == \E q \in Pins : pin[q].status = "active" /\ pin[q].version = v
    IN  IF v = NoVersion
          THEN ~intent.confirmed
          ELSE /\ Archived => rollback \/ intent.carry
               /\ lifecycle[v] = "proposed" => pinned \/ rollback \/ intent.carry \/ fresh
               /\ lifecycle[v] = "deprecated" => pinned \/ rollback
               /\ lifecycle[v] = "defective" => intent.confirmed /\ (pinned \/ rollback)
               /\ intent.confirmed => lifecycle[v] = "defective"

\* AuthorizeDeploymentAdmission of a request that may have been under way for
\* long: the Data Plane may already have given it up.
Authorize(a, fresh) ==
    /\ dp[a] # "none"
    /\ guard[a] = "none"
    /\ Barrier
    /\ Intent[a].mode = "destroy" => deleting
    /\ PreservesPins(Intent[a])
    /\ AdmitsLifecycle(Intent[a], fresh)
    /\ epoch' = epoch + 1
    /\ guard' = [guard EXCEPT ![a] = "unresolved"]
    /\ UNCHANGED <<dispatch, seen, grant, pinVars, catalogueVars, dpVars>>

\* Mutant: a timeout of a running Deployment counts as its failure.
SettleOnTimeout(a) ==
    /\ dp[a] \in {"running", "succeeded", "failed"}
    /\ guard[a] = "unresolved"
    /\ guard' = [guard EXCEPT ![a] = IF dp[a] = "running" THEN "failed" ELSE dp[a]]
    /\ UNCHANGED <<epoch, dispatch, seen, grant, pinVars, catalogueVars, dpVars>>

\* SettleDeploymentAdmission with the Data Plane's durable terminal state.
Settle(a) ==
    /\ dp[a] \in {"succeeded", "failed"}
    /\ guard[a] = "unresolved"
    /\ guard' = [guard EXCEPT ![a] = dp[a]]
    /\ UNCHANGED <<epoch, dispatch, seen, grant, pinVars, catalogueVars, dpVars>>

\* Mutant: the absence of an unknown admission is confirmed without a tombstone.
SealWithoutTombstone(a) ==
    /\ dp[a] = "sealed"
    /\ guard[a] \in {"none", "unresolved", "absent"}
    /\ guard' = [guard EXCEPT ![a] = IF @ = "none" THEN "none" ELSE "absent"]
    /\ dp' = [dp EXCEPT ![a] = "closed"]
    /\ UNCHANGED <<epoch, dispatch, seen, grant, pinVars, catalogueVars,
                   captured, effective, base, lastStatus>>

\* SealDeploymentAdmissionAbsence: settles the guard or inserts a settled one;
\* the answer reaches the Data Plane, or is lost and the call repeated.
SealAbsence(a) ==
    /\ dp[a] = "sealed"
    /\ guard[a] \in {"none", "unresolved", "absent"}
    /\ guard' = [guard EXCEPT ![a] = "absent"]
    /\ epoch' = IF guard[a] = "none" THEN epoch + 1 ELSE epoch
    /\ dp' \in {dp, [dp EXCEPT ![a] = "closed"]}
    /\ UNCHANGED <<dispatch, seen, grant, pinVars, catalogueVars,
                   captured, effective, base, lastStatus>>

-----------------------------------------------------------------------------
(* The Data Plane (external).                                              *)

\* A durable request is prepared before Core is asked to authorize it.
DpPrepare(a) ==
    /\ dp[a] = "none"
    /\ dp' = [dp EXCEPT ![a] = "prepared"]
    /\ UNCHANGED <<coreVars, pinVars, catalogueVars, captured, effective, base, lastStatus>>

\* The answer of Authorize arrives, and the Deployment commits with its epoch.
DpStart(a) ==
    /\ dp[a] = "prepared"
    /\ guard[a] = "unresolved"
    /\ dp' = [dp EXCEPT ![a] = "running"]
    /\ lastStatus' = "running"
    /\ UNCHANGED <<coreVars, pinVars, catalogueVars, captured, effective, base>>

\* The answer is ambiguous: a permanent absence tombstone.
DpSeal(a) ==
    /\ dp[a] = "prepared"
    /\ dp' = [dp EXCEPT ![a] = "sealed"]
    /\ UNCHANGED <<coreVars, pinVars, catalogueVars, captured, effective, base, lastStatus>>

\* The admission transaction of a dispatch commits or fails.
DpCommit(d) ==
    /\ dp[d] = "admitting"
    /\ \/ /\ dp' = [dp EXCEPT ![d] = "running"]
          /\ captured' = [captured EXCEPT ![d] = effective]
          /\ lastStatus' = "running"
       \/ /\ dp' = [dp EXCEPT ![d] = "none"]
          /\ UNCHANGED <<captured, lastStatus>>
    /\ UNCHANGED <<coreVars, pinVars, catalogueVars, effective, base>>

\* A Deployment ends.  "failed" also stands for cancelled and terminated; such
\* a Deployment may have been applied in part.
DpFinish(x) ==
    LET result == IF ModeOf(x) = "destroy" THEN NoVersion ELSE TargetOfDeployment(x)
    IN  /\ dp[x] = "running"
        /\ \/ /\ dp' = [dp EXCEPT ![x] = "succeeded"]
              /\ effective' = result
              /\ base' = x
              /\ lastStatus' = "succeeded"
           \/ /\ dp' = [dp EXCEPT ![x] = "failed"]
              /\ effective' \in {effective, result}
              /\ lastStatus' = "failed"
              /\ UNCHANGED base
        /\ UNCHANGED <<coreVars, pinVars, catalogueVars, captured>>

-----------------------------------------------------------------------------
(* Operation grants, as far as dispatches and Pins read them.              *)

\* ApplyExternalGrantCommand: activate (from every state), suspend, release.
GrantCommand(o, state) ==
    /\ grant[o].revision < MaxRevision
    /\ state = "suspended" => grant[o].state = "active"
    /\ state = "released" => grant[o].state # "released"
    /\ grant' = [grant EXCEPT ![o] = [state |-> state, revision |-> @.revision + 1]]
    /\ UNCHANGED <<epoch, guard, dispatch, seen, pinVars, catalogueVars, dpVars>>

-----------------------------------------------------------------------------
(* External dispatches.                                                    *)

\* validateExternalDispatchPins.
PinsAllow(o, v, approved) ==
    /\ approved # NoApproval => approved = LatestActivation
    /\ \A q \in Pins :
         Protecting(q) =>
             \/ pin[q].version = v
             \/ /\ pin[q].status = "override_pending"
                /\ pin[q].owner = o
                /\ pin[q].target = v

\* validateExternalDispatch: the grant is active at the dispatch's fence.
Fenced(o, fence) == grant[o].state = "active" /\ grant[o].revision = fence

\* pluginDeploymentIntent: a forward dispatch targets the frozen version, a
\* rollback the base that the operation's own forward Deployment captured,
\* which must have ended unless the dispatch is being withdrawn.
DispatchTarget(d, v, forward) ==
    IF DispatchMode[d] = "deploy"
      THEN v = TargetOf[OperationOf[d]]
      ELSE /\ dp[ForwardOf[d]] \in forward
           /\ v = captured[ForwardOf[d]]
           /\ v # NoVersion

\* RecordExternalDispatch, by SubmitPluginDeployment or by a recovery that
\* finds no row.
Submit(d, v, approved) ==
    LET o == OperationOf[d]
    IN  /\ dispatch[d].state = "none"
        /\ grant[o].state = "active"
        /\ DispatchTarget(d, v, {"succeeded", "failed"})
        /\ Barrier
        /\ PinsAllow(o, v, approved)
        /\ epoch' = epoch + 1
        /\ dispatch' = [dispatch EXCEPT ![d] =
                          [state |-> "active", fence |-> grant[o].revision, target |-> v,
                           approved |-> approved, outcome |-> "none"]]
        /\ UNCHANGED <<guard, seen, grant, pinVars, catalogueVars, dpVars>>

\* CheckExternalDispatch: the Data Plane asks again before it commits, holding
\* its lock on the dispatch.
Callback(d) ==
    /\ dp[d] = "none"
    /\ dispatch[d].state = "active"
    /\ Fenced(OperationOf[d], dispatch[d].fence)
    /\ PinsAllow(OperationOf[d], dispatch[d].target, dispatch[d].approved)
    /\ dp' = [dp EXCEPT ![d] = "admitting"]
    /\ UNCHANGED <<coreVars, pinVars, catalogueVars, captured, effective, base, lastStatus>>

\* RecoverWithdrawnExternalDispatch: an active row is withdrawn.
Withdraw(d) ==
    /\ dispatch[d].state = "active"
    /\ dispatch' = [dispatch EXCEPT ![d].state = "withdrawn"]
    /\ UNCHANGED <<epoch, guard, seen, grant, pinVars, catalogueVars, dpVars>>

\* RecoverWithdrawnExternalDispatch: a missing row is inserted withdrawn, behind
\* no barrier and without a look at the Pins.  Its approval is not read again.
WithdrawMissing(d, v) ==
    /\ dispatch[d].state = "none"
    /\ DispatchTarget(d, v, {"running", "succeeded", "failed"})
    /\ epoch' = epoch + 1
    /\ dispatch' = [dispatch EXCEPT ![d] =
                      [state |-> "withdrawn", fence |-> grant[OperationOf[d]].revision,
                       target |-> v, approved |-> NoApproval, outcome |-> "none"]]
    /\ UNCHANGED <<guard, seen, grant, pinVars, catalogueVars, dpVars>>

\* Mutant: the Data Plane is asked before the withdrawal is committed.
LookupAnyState(d) ==
    /\ dispatch[d].state \in {"active", "withdrawn"}
    /\ \/ dp[d] = "none" /\ seen' = [seen EXCEPT ![d] = "absent"]
       \/ dp[d] \in {"succeeded", "failed"} /\ seen' = [seen EXCEPT ![d] = dp[d]]
    /\ UNCHANGED <<epoch, guard, dispatch, grant, pinVars, catalogueVars, dpVars>>

\* Mutant: a receipt counts whatever its status.
ReceiptOfAnyStatus(d) ==
    /\ dispatch[d].state \in {"active", "withdrawn"}
    /\ dp[d] \notin {"none", "admitting"}
    /\ seen' = [seen EXCEPT ![d] = dp[d]]
    /\ UNCHANGED <<epoch, guard, dispatch, grant, pinVars, catalogueVars, dpVars>>

\* ReconcilePluginDeployment reads the receipt, waiting for the dispatch lock.
\* An absent receipt counts only for a handler that committed the withdrawal.
Lookup(d) ==
    /\ dispatch[d].state \in {"active", "withdrawn"}
    /\ \/ /\ dp[d] = "none"
          /\ dispatch[d].state = "withdrawn"
          /\ seen' = [seen EXCEPT ![d] = "absent"]
       \/ /\ dp[d] \in {"succeeded", "failed"}
          /\ seen' = [seen EXCEPT ![d] = dp[d]]
    /\ UNCHANGED <<epoch, guard, dispatch, grant, pinVars, catalogueVars, dpVars>>

\* CompleteExternalDispatch with that receipt.
Complete(d) ==
    /\ seen[d] # "nothing"
    /\ dispatch[d].state \in {"active", "withdrawn"}
    /\ seen[d] = "absent" => dispatch[d].state = "withdrawn"
    /\ dispatch' = [dispatch EXCEPT ![d].state = "settled", ![d].outcome = seen[d]]
    /\ UNCHANGED <<epoch, guard, seen, grant, pinVars, catalogueVars, dpVars>>
-----------------------------------------------------------------------------
(* Pins.                                                                   *)

\* TransitionEnvironmentModuleVersionPin, the write: the resource version is
\* the number of the Pin's last event, of which only equality is used.  assumed
\* and quiet are history: the Pin was reactivated because an override failed, or
\* written from evidence whose capture began while nothing was unresolved.
Transition(q, row) ==
    /\ events < MaxEvents
    /\ events' = events + 1
    /\ pin' = [pin EXCEPT ![q] = row]

Active(version, activation, assumed, quiet) ==
    [status |-> "active", version |-> version, rv |-> events + 1, activation |-> activation,
     owner |-> NoOperation, target |-> NoVersion, assumed |-> assumed,
     quiet |-> quiet]

\* TransitionEnvironmentModuleVersionPin to removed: unpin and discard.
Unpin(q) ==
    /\ pin[q].status \in {"active", "overridden"}
    /\ Transition(q, [pin[q] EXCEPT !.status = "removed", !.rv = events + 1,
                                    !.owner = NoOperation, !.target = NoVersion])
    /\ UNCHANGED <<coreVars, reader, catalogueVars, dpVars>>

PendingFor(q, o, v) ==
    [pin[q] EXCEPT !.status = "override_pending", !.rv = events + 1, !.owner = o, !.target = v]

\* BeginEnvironmentModuleVersionPinOverride: a user names any operation and any
\* Proposed or Default target.
BeginOverride(q, o, v) ==
    /\ pin[q].status = "active"
    /\ lifecycle[v] \in {"proposed", "default"}
    /\ Transition(q, PendingFor(q, o, v))
    /\ UNCHANGED <<coreVars, reader, catalogueVars, dpVars>>

\* The begin command of an operation, for its own frozen target.
BeginOperationOverride(q, o) ==
    /\ pin[q].status = "active"
    /\ grant[o].state = "active"
    /\ TargetOf[o] # pin[q].version
    /\ ~Archived
    /\ lifecycle[TargetOf[o]] \in {"proposed", "default"}
    /\ Transition(q, PendingFor(q, o, TargetOf[o]))
    /\ UNCHANGED <<coreVars, reader, catalogueVars, dpVars>>

\* The cancel command of the owning operation: none of its dispatches had an
\* effect or may still have one.
CancelOverride(q) ==
    /\ pin[q].status = "override_pending"
    /\ \A d \in Dispatches :
         OperationOf[d] = pin[q].owner =>
             \/ dispatch[d].state = "none"
             \/ dispatch[d].state = "settled" /\ dispatch[d].outcome = "absent"
    /\ Transition(q, Active(pin[q].version, pin[q].activation, pin[q].assumed, pin[q].quiet))
    /\ UNCHANGED <<coreVars, reader, catalogueVars, dpVars>>

\* ReconcileEnvironmentModuleVersionPinOverride with the outcome failed or
\* cancelled, for which a user may name any Deployment of the Environment.  The
\* failure is terminal, so its read and the write are one step; the epoch is
\* not compared.
ReconcileFailed(q, x) ==
    /\ pin[q].status = "override_pending"
    /\ dp[x] = "failed"
    /\ Transition(q, Active(pin[q].version, pin[q].activation, TRUE, FALSE))
    /\ UNCHANGED <<coreVars, reader, catalogueVars, dpVars>>

\* The same for the reconcile command of an operation and its own forward
\* Deployments.
ReconcileOperationFailed(q, d) ==
    /\ pin[q].status = "override_pending"
    /\ pin[q].owner = OperationOf[d]
    /\ DispatchMode[d] = "deploy"
    /\ dp[d] = "failed"
    /\ Transition(q, Active(pin[q].version, pin[q].activation, TRUE, FALSE))
    /\ UNCHANGED <<coreVars, reader, catalogueVars, dpVars>>

\* The handlers that write protection from evidence start with the epoch, which
\* ReadEnvironmentAdmissionEpoch reads without a look at unresolved Deployments;
\* quiet is history of whether there were any.  CreateEnvironmentModuleVersionPin:
ReadEpochToCreate(h, q, v) ==
    /\ reader[h].stage = "idle"
    /\ pin[q].status = "absent"
    /\ reader' = [reader EXCEPT ![h] =
                    [stage |-> "epoch", kind |-> "create", plugin |-> FALSE, pin |-> q, rv |-> 0,
                     version |-> v, deployment |-> Earlier, epoch |-> epoch, quiet |-> Barrier,
                     fence |-> 0]]
    /\ UNCHANGED <<coreVars, pin, events, catalogueVars, dpVars>>

\* The reconcile and restore handlers of a user, which first read that the named
\* Deployment succeeded, or of a plugin.
ReadEpochToReconcile(h, q, x, plugin) ==
    LET restore == pin[q].status = "overridden"
    IN  /\ reader[h].stage = "idle"
        /\ pin[q].status \in {"override_pending", "overridden"}
        /\ IF plugin
             THEN x \in Dispatches /\ OperationOf[x] = pin[q].owner
             ELSE dp[x] = "succeeded" /\ (restore => ModeOf(x) = "rollback")
        /\ reader' = [reader EXCEPT ![h] =
                        [stage |-> "epoch", kind |-> IF restore THEN "restore" ELSE "reconcile",
                         plugin |-> plugin, pin |-> q, rv |-> pin[q].rv,
                         version |-> IF restore THEN pin[q].version ELSE pin[q].target,
                         deployment |-> IF plugin THEN x ELSE Earlier, epoch |-> epoch,
                         quiet |-> Barrier, fence |-> grant[pin[q].owner].revision]]
        /\ UNCHANGED <<coreVars, pin, events, catalogueVars, dpVars>>

\* The first read of the Data Plane: the last Deployment, or the receipt.
ReadStatus(h) ==
    LET r == reader[h]
    IN  /\ r.stage = "epoch"
        /\ IF r.plugin
             THEN /\ dp[r.deployment] = "succeeded"
                  /\ DispatchMode[r.deployment] =
                       IF r.kind = "restore" THEN "rollback" ELSE "deploy"
                  /\ dispatch[r.deployment].target = r.version
             ELSE lastStatus = "succeeded"
        /\ reader' = [reader EXCEPT ![h].stage = "status"]
        /\ UNCHANGED <<coreVars, pin, events, catalogueVars, dpVars>>

\* The second read: the active resource nodes, or the readiness of the
\* Environment with the named Deployment as its base.
ReadActive(h) ==
    LET r == reader[h]
    IN  /\ r.stage = "status"
        /\ effective = r.version
        /\ r.plugin => base = r.deployment /\ \A x \in Deployments : ~Executing(x)
        /\ reader' = [reader EXCEPT ![h].stage = "observed"]
        /\ UNCHANGED <<coreVars, pin, events, catalogueVars, dpVars>>

\* The evidence does not hold, the write conflicts, or the request is lost.
ReaderFails(h) ==
    /\ reader[h].stage # "idle"
    /\ reader' = [reader EXCEPT ![h] = IdleReader]
    /\ UNCHANGED <<coreVars, pin, events, catalogueVars, dpVars>>

\* The write under the Environment lock.
WriteProtection(h) ==
    LET r == reader[h]
        q == r.pin
        unprotected == \A p \in Pins : ~Protecting(p)
    IN  /\ r.stage = "observed"
        /\ EpochUnchanged(r.epoch)
        /\ \/ /\ r.kind = "create"
              /\ pin[q].status = "absent"
              /\ unprotected
              /\ Transition(q, Active(r.version, events + 1, FALSE, r.quiet))
           \/ /\ r.kind = "reconcile"
              /\ pin[q].status = "override_pending"
              /\ pin[q].rv = r.rv
              /\ r.plugin => grant[pin[q].owner].revision = r.fence
              /\ Transition(q, [pin[q] EXCEPT !.status = "overridden", !.rv = events + 1])
           \/ /\ r.kind = "restore"
              /\ pin[q].status = "overridden"
              /\ pin[q].rv = r.rv
              /\ r.plugin => Fenced(pin[q].owner, r.fence)
              /\ unprotected
              /\ Transition(q, Active(r.version, events + 1, FALSE, r.quiet))
        /\ reader' = [reader EXCEPT ![h] = IdleReader]
        /\ UNCHANGED <<coreVars, catalogueVars, dpVars>>

-----------------------------------------------------------------------------
(* The catalogue and the Environment.                                      *)

\* ValidateLifecycleTransition.
AllowedTransition(from, to) ==
    \/ from = "proposed" /\ to \in {"default", "deprecated", "defective"}
    \/ from = "default" /\ to \in {"deprecated", "defective"}
    \/ from = "deprecated" /\ to \in {"default", "defective"}

LifecycleChange(v, to) ==
    /\ AllowedTransition(lifecycle[v], to)
    /\ lifecycle' = [lifecycle EXCEPT ![v] = to]
    /\ UNCHANGED <<coreVars, pinVars, deleting, dpVars>>

\* DeleteEnvironmentAndCreateMessage without force, explored when some admission
\* is a destroy.
BeginDelete ==
    /\ \E a \in Admissions : Intent[a].mode = "destroy"
    /\ ~deleting
    /\ \A q \in Pins : pin[q].status # "override_pending"
    /\ deleting' = TRUE
    /\ UNCHANGED <<coreVars, pinVars, lifecycle, dpVars>>

-----------------------------------------------------------------------------

\* An Environment after a successful Deployment, without Pins; prepared grants.
Init ==
    /\ epoch = 0
    /\ guard = [a \in Admissions |-> "none"]
    /\ dispatch = [d \in Dispatches |-> NoDispatch]
    /\ seen = [d \in Dispatches |-> "nothing"]
    /\ grant = [o \in Operations |-> [state |-> "prepared", revision |-> 1]]
    /\ pin = [q \in Pins |-> NoPin]
    /\ events = 0
    /\ reader = [h \in Readers |-> IdleReader]
    /\ lifecycle = InitialLifecycle
    /\ deleting = FALSE
    /\ dp = [x \in Deployments |-> "none"]
    /\ captured = [d \in Dispatches |-> NoVersion]
    /\ effective = InitialVersion
    /\ base = Earlier
    /\ lastStatus = "succeeded"

AdmissionStep(a) ==
    \/ DpPrepare(a)
    \/ \E fresh \in BOOLEAN : Authorize(a, fresh)
    \/ DpStart(a)
    \/ DpFinish(a)
    \/ DpSeal(a)
    \/ SealAbsence(a)
    \/ Settle(a)

DispatchStep(d) ==
    \/ \E v \in Versions, approved \in {NoApproval} \cup 0 .. events : Submit(d, v, approved)
    \/ Withdraw(d)
    \/ \E v \in Versions : WithdrawMissing(d, v)
    \/ Callback(d)
    \/ DpCommit(d)
    \/ DpFinish(d)
    \/ Lookup(d)
    \/ Complete(d)

PinStep(q) ==
    \/ Unpin(q)
    \/ \E o \in Operations, v \in Versions : BeginOverride(q, o, v)
    \/ CancelOverride(q)
    \/ \E o \in Operations : BeginOperationOverride(q, o)
    \/ \E x \in Deployments : ReconcileFailed(q, x)
    \/ \E d \in Dispatches : ReconcileOperationFailed(q, d)

ReaderStep(h) ==
    \/ \E q \in Pins, v \in Versions : ReadEpochToCreate(h, q, v)
    \/ \E q \in Pins, x \in Deployments, plugin \in BOOLEAN : ReadEpochToReconcile(h, q, x, plugin)
    \/ ReadStatus(h)
    \/ ReadActive(h)
    \/ WriteProtection(h)
    \/ ReaderFails(h)

Next ==
    \/ \E a \in Admissions : AdmissionStep(a)
    \/ \E d \in Dispatches : DispatchStep(d)
    \/ \E o \in Operations, state \in {"active", "suspended", "released"} : GrantCommand(o, state)
    \/ \E q \in Pins : PinStep(q)
    \/ \E h \in Readers : ReaderStep(h)
    \/ \E change \in CatalogueChanges : LifecycleChange(change[1], change[2])
    \/ BeginDelete

Spec == Init /\ [][Next]_vars

-----------------------------------------------------------------------------
(* Properties.                                                             *)

\* Type invariant of the admission tables, the Pins and the Data Plane.
TypeOK ==
    /\ epoch \in Nat
    /\ guard \in [Admissions -> {"none", "unresolved", "succeeded", "failed", "absent"}]
    /\ \A d \in Dispatches :
         \/ dispatch[d] = NoDispatch
         \/ dispatch[d] \in [state : {"active", "withdrawn", "settled"}, fence : Nat,
                             target : Versions, approved : Nat \cup {NoApproval},
                             outcome : {"none", "succeeded", "failed", "absent"}]
    /\ seen \in [Dispatches -> {"nothing", "succeeded", "failed", "absent"}]
    /\ grant \in [Operations -> [state : {"prepared", "active", "suspended", "released"}, revision : Nat]]
    /\ \A q \in Pins :
         \/ pin[q] = NoPin
         \/ pin[q] \in [status : {"active", "override_pending", "overridden", "removed"},
                        version : Versions, rv : Nat, activation : Nat,
                        owner : Operations \cup {NoOperation},
                        target : Versions \cup {NoVersion}, assumed : BOOLEAN,
                        quiet : BOOLEAN]
    /\ events \in Nat
    /\ lifecycle \in [Versions -> Statuses]
    /\ deleting \in BOOLEAN
    /\ dp \in [Deployments -> {"none", "prepared", "admitting", "running", "succeeded",
                               "failed", "sealed", "closed"}]
    /\ captured \in [Dispatches -> Versions \cup {NoVersion}]
    /\ effective \in Versions \cup {NoVersion}
    /\ lastStatus \in {"running", "succeeded", "failed"}

\* The Data Plane never executes two Deployments of the Environment at once,
\* however ordinary admissions, dispatches, withdrawals and delayed calls cross.
OneExecution ==
    \A x, y \in Deployments : Executing(x) /\ Executing(y) => x = y

\* A resolved admission or dispatch is over: its Deployment ended as recorded,
\* or none ever existed and none can start.
ResolvedIsOver ==
    /\ \A a \in Admissions :
         /\ guard[a] \in {"succeeded", "failed"} => dp[a] = guard[a]
         /\ guard[a] = "absent" => dp[a] \in {"sealed", "closed"}
    /\ \A d \in Dispatches :
         dispatch[d].state = "settled" =>
             dp[d] = IF dispatch[d].outcome = "absent" THEN "none" ELSE dispatch[d].outcome

\* A delayed authorization never reopens what the Data Plane has given up: once
\* Core confirmed an absence, no guard of that admission holds the Environment.
NoOrphanGuard ==
    \A a \in Admissions : dp[a] = "closed" => guard[a] = "absent"

\* Protection: while a Pin written from evidence is active, nothing but its
\* version is executed in the Environment (or the Environment is destroyed).
EvidencedPinsProtect ==
    \A q \in Pins :
        pin[q].status = "active" /\ ~pin[q].assumed =>
            \A x \in Deployments :
                Executing(x) /\ ModeOf(x) # "destroy" => TargetOfDeployment(x) = pin[q].version

\* The Pin names the version that is active, unless the Environment was destroyed.
NamesWhatRuns(q) ==
    \/ effective = pin[q].version
    \/ \E a \in Admissions : Intent[a].mode = "destroy" /\ dp[a] \in {"succeeded", "failed"}

\* Truth, as far as the epoch reaches: an active Pin whose evidence was collected
\* from a moment on at which nothing was unresolved names what runs.  No Deployment
\* started, finished and settled between two reads of the Data Plane, and nothing
\* but the Pin's version was executed since.
QuietEvidenceIsTrue ==
    \A q \in Pins :
        pin[q].status = "active" /\ ~pin[q].assumed /\ pin[q].quiet => NamesWhatRuns(q)

\* "ReadEnvironmentAdmissionEpoch must precede all remote evidence reads used to
\* create or restore protection", so that no fast Deployment is missed: an active
\* Pin written from evidence, however it was collected, names what runs.
EvidencedPinsAreEffective ==
    \A q \in Pins : pin[q].status = "active" /\ ~pin[q].assumed => NamesWhatRuns(q)

\* An approved dispatch that holds the Environment was approved with the Pins
\* as they are now: no activation slips in between its record and its end.
ApprovalsCurrent ==
    \A d \in Dispatches :
        dispatch[d].state = "active" /\ dispatch[d].approved # NoApproval =>
            dispatch[d].approved = LatestActivation

\* Pin evidence readers "capture the Environment admission epoch before remote
\* DP inspection and compare it under the same lock when writing": no active
\* Pin stands beside a Deployment of another version.
ActivePinsProtect ==
    \A q \in Pins :
        pin[q].status = "active" =>
            \A x \in Deployments :
                Executing(x) /\ ModeOf(x) # "destroy" => TargetOfDeployment(x) = pin[q].version
=============================================================================
