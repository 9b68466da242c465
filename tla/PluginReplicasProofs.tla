------------------------ MODULE PluginReplicasProofs -------------------------
(***************************************************************************)
(* PluginManager implements ReplicatedView, for all sets of replicas and   *)
(* of callers of Refresh and for every sequence of commands; the types of  *)
(* its state; and the order in which PluginCapabilities registers packages *)
(* in IAM, for all sets of reconcilers.  The last two rest on the same     *)
(* fact, that the package of an installation only grows.                   *)
(***************************************************************************)
EXTENDS PluginManagerProofs, PluginCapabilities

\* A creation holds the lock of the Plugin Manager since it read the revision.
PlanInv == \A o \in Organizations : creation[o] # None => creation[o].revision = revision

\* What a replica serves, what it read and the present are in this order, and one
\* caller of Refresh is at work.
ReplicaInv ==
    /\ \A r \in Replicas : snapshot[r].revision \in Nat /\ snapshot[r].revision <= revision
    /\ \A r \in Replicas, t \in Refreshers : refresh[r][t] # None =>
         /\ refresh[r][t].revision \in Nat
         /\ snapshot[r].revision <= refresh[r][t].revision
         /\ refresh[r][t].revision <= revision
    /\ \A r \in Replicas, t, u \in Refreshers :
         refresh[r][t] # None /\ refresh[r][u] # None => t = u

\* The steps, as the replicas see them: a new revision, or nothing they would read.
NewRevision == revision' = revision + 1 /\ UNCHANGED <<refresh, snapshot>>
SameState == UNCHANGED <<revision, installation, enablement, refresh, snapshot>>

\* A change of the state has its own revision.
LEMMA StepKinds ==
  ASSUME IInv, PlanInv, ActivationInv, [Next]_vars
  PROVE  /\ PlanInv'
         /\ \/ NewRevision
            \/ SameState
            \/ \E r \in Replicas, t \in Refreshers : RefreshStep(r, t)
            \/ \E r \in Replicas : Restart(r)
  <1>1. ASSUME Execute
        PROVE  PlanInv' /\ NewRevision
    BY <1>1 DEF Execute, ManagerFree, PlanInv, NewRevision, replicaVars
  <1>2. ASSUME NEW i \in Installations, InstallationCommand(i)
        PROVE  Execute
    BY <1>2 DEF InstallationCommand, CreateInstallation, Upgrade, Transition, TransitionTo,
       Uninstall, SetOrganizationMode, ImportEntitlementBundle, Update
  <1>3. ASSUME NEW i \in Installations, NEW o \in Organizations, EnablementCommand(i, o)
        PROVE  Execute
    BY <1>3 DEF EnablementCommand, PutEnablement, RemoveEnablement, Update
  <1>4. ASSUME UNCHANGED <<creation, revision, installation, enablement, refresh, snapshot>>
        PROVE  PlanInv' /\ SameState
    BY <1>4 DEF PlanInv, SameState
  <1>5. CASE Activation
    <2>1. CASE Activate
      BY <1>1, <2>1 DEF Activate, Update
    <2>2. CASE ~Activate
      BY <1>4, <1>5, <2>2 DEF Activation, ReadStatus, AbandonActivation, stateVars, replicaVars
    <2> QED
      BY <2>1, <2>2
  <1>6. ASSUME NEW o \in Organizations, OrganizationStep(o)
        PROVE  PlanInv' /\ (NewRevision \/ SameState)
    <2>1. CASE BeginOrganization(o)
      <3>1. UNCHANGED <<revision, installation, enablement, refresh, snapshot>>
        BY <2>1 DEF BeginOrganization, replicaVars
      <3>2. PICK i \in IF ServingAll = {} THEN {None} ELSE ServingAll :
              creation' = [creation EXCEPT ![o] =
                [revision |-> revision,
                 installation |-> IF i # None /\ WithinLimit(i, 1) THEN i ELSE None,
                 limited |-> i # None /\ ~WithinLimit(i, 1)]]
        BY <2>1 DEF BeginOrganization
      <3>3. \A p \in Organizations : p # o => creation'[p] = creation[p]
        BY <3>2 DEF IInv, Shapes
      <3>4. creation'[o].revision = revision
        BY <3>2 DEF IInv, Shapes
      <3> QED
        BY <3>1, <3>3, <3>4 DEF PlanInv, SameState
    <2>2. CASE CommitOrganization(o)
      <3>1. /\ creation[o] # None /\ creation' = [creation EXCEPT ![o] = None]
            /\ UNCHANGED <<installation, refresh, snapshot>>
            /\ \/ revision' = creation[o].revision + 1
               \/ UNCHANGED <<enablement, revision>>
        BY <2>2 DEF CommitOrganization, SystemRevision, replicaVars
      <3>2. \A p \in Organizations : creation'[p] = None
        BY <3>1 DEF IInv, Shapes, CreationInv
      <3> QED
        BY <3>1, <3>2 DEF PlanInv, NewRevision, SameState
    <2>3. CASE RollBackOrganization(o)
      BY <2>3 DEF RollBackOrganization, PlanInv, SameState, IInv, Shapes, replicaVars
    <2>4. CASE SettleOrganization(o) \/ CreateWithoutHost(o) \/ DiscardWithoutHost(o)
      BY <1>4, <2>4 DEF SettleOrganization, CreateWithoutHost, DiscardWithoutHost, replicaVars
    <2>5. CASE DiscardOrganization(o)
      BY <2>5 DEF DiscardOrganization, SystemRevision, ManagerFree, PlanInv, NewRevision, SameState,
         replicaVars
    <2> QED
      BY <1>6, <2>1, <2>2, <2>3, <2>4, <2>5 DEF OrganizationStep
  <1>7. ASSUME NEW e \in Effects, EffectStep(e)
        PROVE  PlanInv' /\ SameState
    BY <1>4, <1>7 DEF EffectStep, BeginEffect, CommitEffect, RollBackEffect, stateVars, replicaVars
  <1>8. ASSUME NEW r \in Replicas, NEW t \in Refreshers, RefreshStep(r, t)
        PROVE  PlanInv'
    BY <1>8 DEF RefreshStep, LoadSnapshot, Replace, PlanInv, stateVars
  <1>9. ASSUME NEW r \in Replicas, Restart(r)
        PROVE  PlanInv'
    BY <1>9 DEF Restart, PlanInv, stateVars
  <1>10. CASE UNCHANGED vars
    BY <1>4, <1>10 DEF vars, stateVars, replicaVars
  <1> QED
    BY <1>1, <1>2, <1>3, <1>5, <1>6, <1>7, <1>8, <1>9, <1>10 DEF Next

\* Revisions grow, and a replica follows them in order.
LEMMA ReplicaStep ==
  ASSUME IInv, SnapshotInv, PlanInv, ActivationInv, ReplicaInv, [Next]_vars
  PROVE  ReplicaInv'
  <1>0. revision \in Nat
    BY DEF IInv, Shapes
  <1>1. CASE NewRevision
    BY <1>0, <1>1 DEF NewRevision, ReplicaInv
  <1>2. CASE SameState
    BY <1>2 DEF SameState, ReplicaInv
  <1>3. ASSUME NEW r \in Replicas, NEW t \in Refreshers, LoadSnapshot(r, t)
        PROVE  ReplicaInv'
    <2>1. Snapshot(revision, ServedView).revision = revision
      BY DEF Snapshot
    <2>2. /\ \A q \in Replicas, u \in Refreshers :
               refresh'[q][u] = IF q = r /\ u = t THEN Snapshot(revision, ServedView)
                                                  ELSE refresh[q][u]
          /\ \A u \in Refreshers : refresh[r][u] = None
          /\ revision' = revision /\ snapshot' = snapshot
      BY <1>3 DEF LoadSnapshot, MutexFree, SnapshotInv
    <2> QED
      BY <1>0, <2>1, <2>2 DEF ReplicaInv
  <1>4. ASSUME NEW r \in Replicas, NEW t \in Refreshers, Replace(r, t)
        PROVE  ReplicaInv'
    <2>1. /\ \A q \in Replicas, u \in Refreshers :
               refresh'[q][u] = IF q = r /\ u = t THEN None ELSE refresh[q][u]
          /\ \A q \in Replicas : snapshot'[q] = IF q = r THEN refresh[r][t] ELSE snapshot[q]
          /\ refresh[r][t] # None
          /\ revision' = revision
      BY <1>4 DEF Replace, SnapshotInv
    <2> QED
      BY <2>1 DEF ReplicaInv
  <1>5. ASSUME NEW r \in Replicas, Restart(r)
        PROVE  ReplicaInv'
    <2>1. Snapshot(0, EmptyView).revision = 0
      BY DEF Snapshot
    <2>2. /\ \A q \in Replicas, u \in Refreshers :
               refresh'[q][u] = IF q = r THEN None ELSE refresh[q][u]
          /\ \A q \in Replicas :
               snapshot'[q] = IF q = r THEN Snapshot(0, EmptyView) ELSE snapshot[q]
          /\ revision' = revision
      BY <1>5 DEF Restart, SnapshotInv
    <2> QED
      BY <1>0, <2>1, <2>2 DEF ReplicaInv
  <1> QED
    BY <1>1, <1>2, <1>3, <1>4, <1>5, StepKinds DEF RefreshStep

-----------------------------------------------------------------------------
(* The refinement.                                                         *)

Fetched == [r \in Replicas |-> {refresh[r][t] : t \in Refreshers} \ {None}]

\* An initial state shows nothing, and there is nothing to show.
LEMMA InitRefines == Init => Abstract!Init
  <1> SUFFICES ASSUME Init
               PROVE  Abstract!Init
    OBVIOUS
  <1>1. ServedView = EmptyView
    BY DEF Init, ServedView, EmptyView, IsServed, NoInstallation
  <1>2. Fetched = [r \in Replicas |-> {}]
    BY DEF Init, Fetched
  <1> QED
    BY <1>1, <1>2 DEF Init, Fetched, Snapshot, Abstract!Init, Abstract!Nothing, Abstract!Copy

\* The view depends on the rows of installations and enablements alone.
LEMMA ViewUnchanged ==
  ASSUME UNCHANGED <<installation, enablement>>
  PROVE  ServedView' = ServedView
  BY DEF ServedView, IsServed, Availability

\* Every step is a step of the abstract specification, or changes nothing in it.
LEMMA NextRefines ==
  ASSUME IInv, SnapshotInv, PlanInv, ActivationInv, ReplicaInv, [Next]_vars
  PROVE  [Abstract!Next]_<<revision, ServedView, Fetched, snapshot>>
  <1>1. CASE NewRevision
    BY <1>1 DEF NewRevision, Fetched, Abstract!Next, Abstract!Change
  <1>2. CASE SameState
    BY <1>2, ViewUnchanged DEF SameState, Fetched
  <1>3. ASSUME NEW r \in Replicas, NEW t \in Refreshers, LoadSnapshot(r, t)
        PROVE  [Abstract!Next]_<<revision, ServedView, Fetched, snapshot>>
    <2> DEFINE c == Snapshot(revision, ServedView)
    <2>1. /\ \A q \in Replicas, u \in Refreshers :
               refresh'[q][u] = IF q = r /\ u = t THEN c ELSE refresh[q][u]
          /\ \A u \in Refreshers : refresh[r][u] = None
          /\ revision' = revision /\ snapshot' = snapshot
          /\ UNCHANGED <<installation, enablement>>
      BY <1>3 DEF LoadSnapshot, MutexFree, SnapshotInv, stateVars
    <2>2. ServedView' = ServedView
      BY <2>1, ViewUnchanged
    <2> HIDE DEF c
    <2>3. CASE c = None
      <3>1. Fetched' = Fetched
        BY <2>1, <2>3 DEF Fetched
      <3> QED
        BY <2>1, <2>2, <3>1
    <2>4. CASE c # None
      <3>1. Fetched' = [Fetched EXCEPT ![r] = @ \cup {c}]
        <4>1. \A q \in Replicas : Fetched'[q] = IF q = r THEN {c} ELSE Fetched[q]
          BY <2>1, <2>4 DEF Fetched
        <4>2. Fetched[r] = {}
          BY <2>1 DEF Fetched
        <4> QED
          BY <4>1, <4>2 DEF Fetched
      <3> QED
        BY <2>1, <2>2, <3>1 DEF c, Fetched, Snapshot, Abstract!Next, Abstract!Fetch, Abstract!Copy
    <2> QED
      BY <2>3, <2>4
  <1>4. ASSUME NEW r \in Replicas, NEW t \in Refreshers, Replace(r, t)
        PROVE  [Abstract!Next]_<<revision, ServedView, Fetched, snapshot>>
    <2> DEFINE c == refresh[r][t]
    <2>1. /\ \A q \in Replicas, u \in Refreshers :
               refresh'[q][u] = IF q = r /\ u = t THEN None ELSE refresh[q][u]
          /\ snapshot' = [snapshot EXCEPT ![r] = c]
          /\ c # None
          /\ revision' = revision
          /\ UNCHANGED <<installation, enablement>>
      BY <1>4 DEF Replace, SnapshotInv, stateVars
    <2>2. ServedView' = ServedView
      BY <2>1, ViewUnchanged
    <2>3. c.revision >= snapshot[r].revision
      BY <2>1 DEF ReplicaInv
    <2>4. c \in Fetched[r] /\ Fetched[r] = {c}
      BY <2>1 DEF Fetched, ReplicaInv
    <2>5. Fetched' = [Fetched EXCEPT ![r] = @ \ {c}]
      <3>1. \A q \in Replicas : Fetched'[q] = IF q = r THEN {} ELSE Fetched[q]
        BY <2>1, <2>4 DEF Fetched, ReplicaInv
      <3> QED
        BY <3>1, <2>4 DEF Fetched
    <2> HIDE DEF c
    <2>6. Abstract!Show(r)
      BY <2>1, <2>2, <2>3, <2>4, <2>5 DEF Abstract!Show, Fetched
    <2> QED
      BY <2>6 DEF Abstract!Next
  <1>5. ASSUME NEW r \in Replicas, Restart(r)
        PROVE  [Abstract!Next]_<<revision, ServedView, Fetched, snapshot>>
    <2>1. /\ \A q \in Replicas, u \in Refreshers :
               refresh'[q][u] = IF q = r THEN None ELSE refresh[q][u]
          /\ snapshot' = [snapshot EXCEPT ![r] = Snapshot(0, EmptyView)]
          /\ revision' = revision
          /\ UNCHANGED <<installation, enablement>>
      BY <1>5 DEF Restart, SnapshotInv, stateVars
    <2>2. ServedView' = ServedView
      BY <2>1, ViewUnchanged
    <2>3. Fetched' = [Fetched EXCEPT ![r] = {}]
      <3>1. \A q \in Replicas : Fetched'[q] = IF q = r THEN {} ELSE Fetched[q]
        BY <2>1 DEF Fetched
      <3> QED
        BY <3>1 DEF Fetched
    <2> QED
      BY <2>1, <2>2, <2>3 DEF Fetched, Snapshot, Abstract!Next, Abstract!Restart,
         Abstract!Nothing, Abstract!Copy
  <1> QED
    BY <1>1, <1>2, <1>3, <1>4, <1>5, StepKinds DEF RefreshStep

\* The Plugin Manager implements ReplicatedView: every change of what replicas serve
\* has its own revision, and a replica shows complete revisions in their order.
THEOREM ImplementsReplicatedView == Spec => ShowsOneRevision
  <1>1. Init => PlanInv /\ ReplicaInv
    BY DEF Init, PlanInv, ReplicaInv, Snapshot
  <1>2. Spec => [](IInv /\ SnapshotInv /\ ActivationInv /\ PlanInv /\ ReplicaInv)
    BY <1>1, AlwaysIInv, StepKinds, ReplicaStep, PTL DEF Spec
  <1> QED
    BY <1>2, InitRefines, NextRefines, PTL DEF Spec, ShowsOneRevision, Abstract!Spec, Fetched

-----------------------------------------------------------------------------
(* Packages only grow.                                                     *)

\* What a row says once it was installed: a package, and a later target at most.
Installed(row) ==
    row.state # "none" =>
      /\ row.package \in Packages
      /\ row.target # None => row.target \in Packages /\ row.target > row.package

PackagesInstalled == \A i \in Installations : Installed(installation[i])

\* A row is never forgotten, and its package never goes back.
Grows(row, new) == row.state # "none" => new.state # "none" /\ row.package <= new.package

\* Every step keeps the packages and replaces one only by a later one: an upgrade
\* names a later target, and only an activation that proved the target serves it.
LEMMA PackagesStep ==
  ASSUME IInv, ActivationInv, PackagesInstalled, [Next]_vars
  PROVE  /\ PackagesInstalled'
         /\ \A i \in Installations : Grows(installation[i], installation'[i])
  <1> DEFINE Kept == /\ PackagesInstalled'
                     /\ \A i \in Installations : Grows(installation[i], installation'[i])
  <1> SUFFICES Kept
    OBVIOUS
  <1>0. \A i \in Installations :
          /\ installation[i] \in Rows
          /\ installation[i].state # "none" =>
               installation[i].package \in Packages /\ installation[i].package \in Nat
    BY PluginAssumption DEF IInv, Shapes, PackagesInstalled, Installed
  <1>1. ASSUME installation' = installation
        PROVE  Kept
    <2>1. \A i \in Installations : Grows(installation[i], installation[i])
      BY <1>0 DEF Grows
    <2> QED
      BY <1>1, <2>1 DEF PackagesInstalled
  <1>2. ASSUME NEW i \in Installations, NEW row, installation' = [installation EXCEPT ![i] = row],
               Installed(row), Grows(installation[i], row)
        PROVE  Kept
    <2>1. \A j \in Installations : installation'[j] = IF j = i THEN row ELSE installation[j]
      BY <1>2 DEF IInv, Shapes
    <2>2. \A j \in Installations : Grows(installation[j], installation[j])
      BY <1>0 DEF Grows
    <2> QED
      BY <1>2, <2>1, <2>2 DEF PackagesInstalled
  <1> HIDE DEF Kept
  <1>3. ASSUME NEW i \in Installations, NEW row, installation' = [installation EXCEPT ![i] = row],
               installation[i].state # "none", row.state # "none",
               row.package = installation[i].package,
               row.target \in {None, installation[i].target}
        PROVE  Kept
    <2>1. /\ installation[i].package \in Packages /\ installation[i].package \in Nat
          /\ installation[i].target # None =>
               /\ installation[i].target \in Packages
               /\ installation[i].target > installation[i].package
      BY <1>0, <1>3 DEF PackagesInstalled, Installed
    <2>2. Installed(row)
      BY <1>3, <2>1 DEF Installed
    <2>3. Grows(installation[i], row)
      BY <1>3, <2>1 DEF Grows
    <2> QED
      BY <1>2, <1>3, <2>2, <2>3
  <1>4. ASSUME NEW i \in Installations, InstallationCommand(i)
        PROVE  Kept
    <2>0. installation[i] \in Rows
      BY <1>0
    <2>1. ASSUME NEW q \in Packages, CreateInstallation(i, q)
          PROVE  Kept
      BY <1>2, <2>1 DEF CreateInstallation, Installed, Grows
    <2>2. ASSUME NEW q \in Packages, Upgrade(i, q)
          PROVE  Kept
      <3> DEFINE row == [installation[i] EXCEPT !.target =
                           IF q = installation[i].package THEN None ELSE q]
      <3>1. /\ installation' = [installation EXCEPT ![i] = row]
            /\ installation[i].state # "none"
            /\ q > installation[i].package \/ q = installation[i].package
        BY <2>2 DEF Upgrade, Update
      <3>2. /\ row.state = installation[i].state /\ row.package = installation[i].package
            /\ row.target = IF q = installation[i].package THEN None ELSE q
        BY <2>0 DEF Rows
      <3> HIDE DEF row
      <3>3. Installed(row) /\ Grows(installation[i], row)
        BY <1>0, <3>1, <3>2 DEF Installed, Grows
      <3> QED
        BY <1>2, <3>1, <3>3
    <2>3. CASE Transition(i)
      BY <1>3, <2>0, <2>3 DEF Transition, TransitionTo, Update, Rows
    <2>4. CASE Uninstall(i)
      <3> DEFINE row == [installation[i] EXCEPT !.state = "uninstalled", !.target = None,
                                                !.mode = "selected"]
      <3>1. installation' = [installation EXCEPT ![i] = row] /\ installation[i].state # "none"
        BY <2>4 DEF Uninstall, Update
      <3>2. row.state # "none" /\ row.package = installation[i].package /\ row.target = None
        BY <2>0 DEF Rows
      <3> HIDE DEF row
      <3> QED
        BY <1>3, <3>1, <3>2
    <2>5. ASSUME NEW mode \in {"selected", "all"}, SetOrganizationMode(i, mode)
          PROVE  Kept
      <3> DEFINE row == [installation[i] EXCEPT !.mode = mode]
      <3>1. installation' = [installation EXCEPT ![i] = row] /\ installation[i].state # "none"
        BY <2>5 DEF SetOrganizationMode, Update
      <3>2. /\ row.state = installation[i].state /\ row.package = installation[i].package
            /\ row.target = installation[i].target
        BY <2>0 DEF Rows
      <3> HIDE DEF row
      <3> QED
        BY <1>3, <3>1, <3>2
    <2>6. ASSUME NEW n \in Limits, ImportEntitlementBundle(i, n)
          PROVE  Kept
      BY <1>1, <2>6 DEF ImportEntitlementBundle
    <2> QED
      BY <1>4, <2>1, <2>2, <2>3, <2>4, <2>5, <2>6 DEF InstallationCommand
  <1>5. CASE Activate
    <2> DEFINE i == activation.installation
               row == [installation[i] EXCEPT
                         !.state = IF @ = "installed" THEN "active" ELSE @,
                         !.package = ToServe(i), !.target = None]
    <2>1. i \in Installations /\ AwaitsProof(i) /\ installation' = [installation EXCEPT ![i] = row]
      BY <1>5 DEF Activate, Update, ActivationInv
    <2>2. installation[i] \in Rows /\ installation[i].state # "none"
      BY <1>0, <2>1 DEF AwaitsProof, IsServed
    <2>3. row.state # "none" /\ row.package = ToServe(i) /\ row.target = None
      BY <2>2 DEF Rows
    <2> HIDE DEF i, row
    <2>4. ToServe(i) \in Packages /\ installation[i].package <= ToServe(i)
      <3>1. CASE installation[i].target = None
        BY <1>0, <2>1, <2>2, <3>1 DEF ToServe
      <3>2. CASE installation[i].target # None
        <4>1. installation[i].target \in Packages /\ installation[i].target > installation[i].package
          BY <2>1, <2>2, <3>2 DEF PackagesInstalled, Installed
        <4>2. installation[i].target \in Nat /\ installation[i].package \in Nat
          BY <1>0, <2>1, <2>2, <4>1, PluginAssumption
        <4> QED
          BY <3>2, <4>1, <4>2 DEF ToServe
      <3> QED
        BY <3>1, <3>2
    <2>5. Installed(row) /\ Grows(installation[i], row)
      BY <2>3, <2>4 DEF Installed, Grows
    <2> QED
      BY <1>2, <2>1, <2>5
  <1>6. ASSUME NEW i \in Installations, NEW o \in Organizations, EnablementCommand(i, o)
        PROVE  Kept
    BY <1>1, <1>6 DEF EnablementCommand, PutEnablement, RemoveEnablement, Update, IInv, Shapes
  <1>7. CASE Activation /\ ~Activate
    BY <1>1, <1>7 DEF Activation, ReadStatus, AbandonActivation, stateVars
  <1>8. ASSUME NEW o \in Organizations, OrganizationStep(o)
        PROVE  installation' = installation
    BY <1>8 DEF OrganizationStep, BeginOrganization, CommitOrganization,
       RollBackOrganization, SettleOrganization, DiscardOrganization, CreateWithoutHost,
       DiscardWithoutHost
  <1>9. ASSUME NEW e \in Effects, EffectStep(e)
        PROVE  installation' = installation
    BY <1>9 DEF EffectStep, BeginEffect, CommitEffect, RollBackEffect, stateVars
  <1>10. ASSUME UNCHANGED vars \/ (\E r \in Replicas, t \in Refreshers : RefreshStep(r, t))
                \/ (\E r \in Replicas : Restart(r))
         PROVE  installation' = installation
    BY <1>10 DEF RefreshStep, LoadSnapshot, Replace, Restart, stateVars, vars
  <1> QED
    BY <1>1, <1>4, <1>5, <1>6, <1>7, <1>8, <1>9, <1>10 DEF Next

-----------------------------------------------------------------------------
(* Types.                                                                  *)

\* Every change of the state leaves room for its revision, also the one that a
\* creation makes long after it looked.
RevisionBounded ==
    /\ revision <= MaxRevision
    /\ \A o \in Organizations : creation[o] # None => revision < MaxRevision

ActivationTyped ==
    activation \in {None} \cup
      [installation : Installations, expected : 0 .. MaxRevision, observed : Reports]

\* Every step keeps the revision within its bound.
LEMMA BoundStep ==
  ASSUME IInv, PlanInv, RevisionBounded, [Next]_vars
  PROVE  RevisionBounded'
  <1>0. revision \in Nat /\ MaxRevision \in Nat
    BY PluginAssumption DEF IInv, Shapes
  <1>1. ASSUME Execute
        PROVE  RevisionBounded'
    BY <1>0, <1>1 DEF Execute, ManagerFree, RevisionBounded
  <1>2. ASSUME NEW i \in Installations, InstallationCommand(i)
        PROVE  Execute
    BY <1>2 DEF InstallationCommand, CreateInstallation, Upgrade, Transition, TransitionTo,
       Uninstall, SetOrganizationMode, ImportEntitlementBundle, Update
  <1>3. ASSUME NEW i \in Installations, NEW o \in Organizations, EnablementCommand(i, o)
        PROVE  Execute
    BY <1>3 DEF EnablementCommand, PutEnablement, RemoveEnablement, Update
  <1>4. ASSUME UNCHANGED <<creation, revision>>
        PROVE  RevisionBounded'
    BY <1>4 DEF RevisionBounded
  <1>5. CASE Activation
    BY <1>1, <1>4, <1>5 DEF Activation, Activate, Update, ReadStatus, AbandonActivation, stateVars
  <1>6. ASSUME NEW o \in Organizations, BeginOrganization(o)
        PROVE  RevisionBounded'
    BY <1>0, <1>6 DEF BeginOrganization, RevisionBounded
  <1>7. ASSUME NEW o \in Organizations, CommitOrganization(o) \/ RollBackOrganization(o)
        PROVE  RevisionBounded'
    <2>1. /\ creation[o] # None /\ creation' = [creation EXCEPT ![o] = None]
          /\ revision' \in {revision, creation[o].revision + 1}
      BY <1>7 DEF CommitOrganization, RollBackOrganization, SystemRevision
    <2>2. \A p \in Organizations : creation'[p] = None
      BY <2>1 DEF IInv, Shapes, CreationInv
    <2>3. revision < MaxRevision /\ creation[o].revision = revision
      BY <2>1 DEF RevisionBounded, PlanInv
    <2> QED
      BY <1>0, <2>1, <2>2, <2>3 DEF RevisionBounded
  <1>8. ASSUME NEW o \in Organizations, SettleOrganization(o) \/ DiscardOrganization(o)
               \/ CreateWithoutHost(o) \/ DiscardWithoutHost(o)
        PROVE  RevisionBounded'
    <2>1. CASE SettleOrganization(o) \/ CreateWithoutHost(o) \/ DiscardWithoutHost(o)
      BY <1>4, <2>1 DEF SettleOrganization, CreateWithoutHost, DiscardWithoutHost
    <2>2. CASE DiscardOrganization(o)
      <3>1. /\ \A p \in Organizations : creation'[p] = None
            /\ revision' = revision \/ (revision < MaxRevision /\ revision' = revision + 1)
        BY <2>2 DEF DiscardOrganization, ManagerFree, SystemRevision
      <3> QED
        BY <1>0, <3>1 DEF RevisionBounded
    <2> QED
      BY <1>8, <2>1, <2>2
  <1>9. ASSUME NEW e \in Effects, EffectStep(e)
        PROVE  UNCHANGED <<creation, revision>>
    BY <1>9 DEF EffectStep, BeginEffect, CommitEffect, RollBackEffect, stateVars
  <1>10. ASSUME UNCHANGED vars \/ (\E r \in Replicas, t \in Refreshers : RefreshStep(r, t))
                \/ (\E r \in Replicas : Restart(r))
         PROVE  UNCHANGED <<creation, revision>>
    BY <1>10 DEF RefreshStep, LoadSnapshot, Replace, Restart, stateVars, vars
  <1> QED
    BY <1>1, <1>2, <1>3, <1>4, <1>5, <1>6, <1>7, <1>8, <1>9, <1>10 DEF Next, OrganizationStep

\* Every step keeps the types of the activations in progress.
LEMMA ActivationTypeStep ==
  ASSUME IInv, RevisionBounded, ActivationTyped, [Next]_vars
  PROVE  ActivationTyped'
  <1>1. ASSUME NEW i \in Installations, NEW report \in Reports, ReadStatus(i, report)
        PROVE  ActivationTyped'
    <2>1. revision \in 0 .. MaxRevision
      BY PluginAssumption DEF IInv, Shapes, RevisionBounded
    <2> QED
      BY <1>1, <2>1 DEF ReadStatus, ActivationTyped
  <1>2. ASSUME activation' \in {activation, None}
        PROVE  ActivationTyped'
    BY <1>2 DEF ActivationTyped, Reports
  <1>3. \/ \E i \in Installations, report \in Reports : ReadStatus(i, report)
        \/ activation' \in {activation, None}
    <2>1. ASSUME NEW i \in Installations, InstallationCommand(i)
          PROVE  activation' = activation
      BY <2>1 DEF InstallationCommand, CreateInstallation, Upgrade, Transition, TransitionTo,
         Uninstall, SetOrganizationMode, ImportEntitlementBundle
    <2>2. ASSUME NEW i \in Installations, NEW o \in Organizations, EnablementCommand(i, o)
          PROVE  activation' = activation
      BY <2>2 DEF EnablementCommand, PutEnablement, RemoveEnablement
    <2>3. ASSUME NEW o \in Organizations, OrganizationStep(o)
          PROVE  activation' = activation
      BY <2>3 DEF OrganizationStep, BeginOrganization, CommitOrganization, RollBackOrganization,
         SettleOrganization, DiscardOrganization, CreateWithoutHost, DiscardWithoutHost
    <2>4. ASSUME NEW e \in Effects, EffectStep(e)
          PROVE  activation' = activation
      BY <2>4 DEF EffectStep, BeginEffect, CommitEffect, RollBackEffect
    <2> QED
      BY <2>1, <2>2, <2>3, <2>4 DEF Next, Activation, Activate, AbandonActivation, RefreshStep,
         LoadSnapshot, Replace, Restart, vars
  <1> QED
    BY <1>1, <1>2, <1>3

\* The rows, transactions and snapshots hold what the code can store in them, for
\* every number of operators, organizations, replicas and effects.
THEOREM PluginTypes == Spec => []TypeOK
  <1> DEFINE Types == /\ PlanInv /\ ReplicaInv /\ PackagesInstalled /\ RevisionBounded
                      /\ ActivationTyped /\ limit \in [Installations -> Nat] /\ PlansWithinLimit
  <1>1. Init => Types
    BY PluginAssumption DEF Init, PlanInv, ReplicaInv, Snapshot, PackagesInstalled, Installed,
       NoInstallation, RevisionBounded, ActivationTyped, PlansWithinLimit
  <1>2. IInv /\ SnapshotInv /\ ActivationInv /\ Types /\ [Next]_vars => Types'
    BY StepKinds, ReplicaStep, PackagesStep, BoundStep, ActivationTypeStep, PlansStep
  <1>3. IInv /\ SnapshotInv /\ ActivationInv /\ Types => TypeOK
    <2> SUFFICES ASSUME IInv, SnapshotInv, ActivationInv, Types PROVE TypeOK
      OBVIOUS
    <2>1. revision \in 0 .. MaxRevision
      BY PluginAssumption DEF IInv, Shapes, RevisionBounded
    <2>2. creation \in [Organizations -> {None} \cup
            [revision : 0 .. MaxRevision, installation : Installations \cup {None},
             limited : BOOLEAN]]
      <3>1. ASSUME NEW o \in Organizations, creation[o] # None
            PROVE  creation[o] \in [revision : 0 .. MaxRevision,
                                    installation : Installations \cup {None}, limited : BOOLEAN]
        <4>1. creation[o] \in Plans /\ creation[o].revision = revision
          BY <3>1 DEF IInv, Shapes, PlanInv
        <4> QED
          BY <2>1, <4>1 DEF Plans
      <3> QED
        BY <3>1 DEF IInv, Shapes
    <2>3. effect \in [Effects -> {None} \cup
            [installation : Installations, package : Packages, organization : Organizations,
             safety : BOOLEAN]]
      <3>1. ASSUME NEW e \in Effects, effect[e] # None
            PROVE  effect[e] \in [installation : Installations, package : Packages,
                                  organization : Organizations, safety : BOOLEAN]
        <4>1. effect[e] \in Uses /\ Current(effect[e])
          BY <3>1, EffectsCurrent DEF IInv, Shapes
        <4>2. effect[e].installation \in Installations
          BY <4>1 DEF Uses
        <4>3. effect[e].package \in Packages
          BY <4>1, <4>2 DEF Current, IsServed, PackagesInstalled, Installed
        <4> QED
          BY <4>1, <4>3 DEF Uses
      <3> QED
        BY <3>1 DEF IInv, Shapes
    <2>4. \A r \in Replicas : snapshot[r].revision \in 0 .. MaxRevision
      <3>1. revision \in Nat /\ MaxRevision \in Nat /\ revision <= MaxRevision
        BY PluginAssumption DEF IInv, Shapes, RevisionBounded
      <3> TAKE r \in Replicas
      <3>2. snapshot[r].revision \in Nat /\ snapshot[r].revision <= revision
        BY DEF ReplicaInv
      <3> QED
        BY <3>1, <3>2
    <2> QED
      BY <2>1, <2>2, <2>3, <2>4 DEF TypeOK, IInv, Shapes, Rows, Enablements, States, Reasons,
         ActivationTyped
  <1> QED
    BY <1>1, <1>2, <1>3, AlwaysIInv, PTL DEF Spec

-----------------------------------------------------------------------------
(* Capabilities.                                                           *)

Declarations == [installation : Installations, package : Packages]

Fields == {"step", "installation", "package", "todo", "rows"}

\* What the reconcilers, IAM and the requests under way hold.
CapTyped ==
    /\ catalogue \in [Organizations -> {None} \cup Declarations]
    /\ late \in {None} \cup [organization : Organizations, declared : Declarations]
    /\ DOMAIN reconcile = Reconcilers
    /\ \A k \in Reconcilers : reconcile[k] # None =>
         /\ DOMAIN reconcile[k] = Fields
         /\ reconcile[k].step \in {"waiting", "locked"}
         /\ reconcile[k].installation \in Installations
         /\ installation[reconcile[k].installation].state # "none"
         /\ reconcile[k].package \in Packages

Locked(k) == reconcile[k] # None /\ reconcile[k].step = "locked"

\* The advisory lock of the plugin.
OneLocked == \A j, k \in Reconcilers : Locked(j) /\ Locked(k) => j = k

\* The declarations that IAM holds, or will hold when it performs a late request.
Held ==
    {d \in Declarations :
       \/ d # None /\ \E o \in Organizations : catalogue[o] = d
       \/ late # None /\ late.declared = d}

\* Nothing that is held is later than the package of its installation, nor, while a
\* reconciler has the lock, than the package that it read under the lock.
HeldIsOld ==
    /\ \A d \in Held :
         /\ installation[d.installation].state # "none"
         /\ d.package <= installation[d.installation].package
    /\ \A k \in Reconcilers : Locked(k) =>
         /\ reconcile[k].package <= installation[reconcile[k].installation].package
         /\ \A d \in Held : d.installation = reconcile[k].installation =>
              d.package <= reconcile[k].package

CapInv == CapTyped /\ OneLocked /\ HeldIsOld

\* A step of the Plugin Manager: packages only grow under the declarations.
LEMMA ManagerKeepsCap ==
  ASSUME CapInv, PackagesInstalled, PackagesInstalled', UNCHANGED capVars,
         \A i \in Installations : Grows(installation[i], installation'[i])
  PROVE  CapInv'
  <1>1. UNCHANGED <<catalogue, late, reconcile>>
    BY DEF capVars
  <1>2. \A i \in Installations : installation[i].state # "none" =>
          /\ installation'[i].state # "none"
          /\ installation[i].package \in Nat /\ installation'[i].package \in Nat
          /\ installation[i].package <= installation'[i].package
    BY PluginAssumption DEF PackagesInstalled, Installed, Grows
  <1>3. CapTyped'
    BY <1>1, <1>2 DEF CapInv, CapTyped
  <1>4. OneLocked' /\ Held' = Held /\ \A k \in Reconcilers : Locked(k)' <=> Locked(k)
    BY <1>1 DEF CapInv, OneLocked, Locked, Held
  <1>5. ASSUME NEW d \in Held
        PROVE  /\ installation'[d.installation].state # "none"
               /\ d.package <= installation'[d.installation].package
    <2>1. d.installation \in Installations /\ d.package \in Nat
      BY PluginAssumption DEF Held, Declarations
    <2>2. installation[d.installation].state # "none" /\ d.package <= installation[d.installation].package
      BY DEF CapInv, HeldIsOld
    <2> QED
      BY <1>2, <2>1, <2>2
  <1>6. ASSUME NEW k \in Reconcilers, Locked(k)
        PROVE  reconcile[k].package <= installation'[reconcile[k].installation].package
    <2>1. /\ reconcile[k].installation \in Installations /\ reconcile[k].package \in Nat
          /\ installation[reconcile[k].installation].state # "none"
      BY <1>6, PluginAssumption DEF Locked, CapInv, CapTyped
    <2>2. reconcile[k].package <= installation[reconcile[k].installation].package
      BY <1>6 DEF CapInv, HeldIsOld
    <2> QED
      BY <1>2, <2>1, <2>2
  <1>7. \A k \in Reconcilers : Locked(k) =>
          \A d \in Held : d.installation = reconcile[k].installation => d.package <= reconcile[k].package
    BY DEF CapInv, HeldIsOld
  <1>8. HeldIsOld'
    BY <1>1, <1>4, <1>5, <1>6, <1>7 DEF HeldIsOld
  <1> QED
    BY <1>3, <1>4, <1>8 DEF CapInv

\* A step that holds nothing new, and locks nothing, keeps what is held old.
LEMMA NothingNewHeld ==
  ASSUME CapInv, installation' = installation, Held' \subseteq Held,
         \A k \in Reconcilers : Locked(k)' =>
           /\ Locked(k)
           /\ reconcile'[k].installation = reconcile[k].installation
           /\ reconcile'[k].package = reconcile[k].package
  PROVE  OneLocked' /\ HeldIsOld'
  <1>1. OneLocked'
    BY DEF CapInv, OneLocked
  <1>2. HeldIsOld'
    BY DEF CapInv, HeldIsOld
  <1> QED
    BY <1>1, <1>2

\* The locked reconciler's declaration is no later than its installation's package.
LEMMA WantedIsOld ==
  ASSUME CapInv, NEW k \in Reconcilers, Locked(k)
  PROVE  /\ Wanted(k) \in Declarations
         /\ Wanted(k).installation = reconcile[k].installation
         /\ Wanted(k).package = reconcile[k].package
         /\ reconcile[k].package \in Nat
         /\ installation[reconcile[k].installation].state # "none"
         /\ reconcile[k].package <= installation[reconcile[k].installation].package
  <1>1. /\ reconcile[k].installation \in Installations /\ reconcile[k].package \in Packages
        /\ installation[reconcile[k].installation].state # "none"
    BY DEF Locked, CapInv, CapTyped
  <1> QED
    BY <1>1, PluginAssumption DEF Wanted, Declared, Declarations, CapInv, HeldIsOld

\* The reconciler with the lock has IAM hold its declarations, at once or later.
LEMMA WantedHeld ==
  ASSUME CapInv, installation' = installation, NEW k \in Reconcilers, Locked(k),
         Held' \subseteq Held \cup {Wanted(k)},
         \A j \in Reconcilers : Locked(j)' =>
           /\ Locked(j)
           /\ reconcile'[j].installation = reconcile[j].installation
           /\ reconcile'[j].package = reconcile[j].package
  PROVE  OneLocked' /\ HeldIsOld'
  <1>1. OneLocked'
    BY DEF CapInv, OneLocked
  <1>2. ASSUME NEW d \in Held'
        PROVE  /\ installation[d.installation].state # "none"
               /\ d.package <= installation[d.installation].package
    BY WantedIsOld DEF CapInv, HeldIsOld
  <1>3. ASSUME NEW j \in Reconcilers, Locked(j)'
        PROVE  /\ reconcile'[j].package <= installation[reconcile'[j].installation].package
               /\ \A d \in Held' : d.installation = reconcile'[j].installation =>
                    d.package <= reconcile'[j].package
    <2>1. /\ Locked(j) /\ j = k
          /\ reconcile'[j].installation = reconcile[k].installation
          /\ reconcile'[j].package = reconcile[k].package
      BY <1>3 DEF CapInv, OneLocked
    <2>2. ASSUME NEW d \in Held', d.installation = reconcile[k].installation
          PROVE  d.package <= reconcile[k].package
      <3>1. CASE d \in Held
        BY <2>2, <3>1 DEF CapInv, HeldIsOld
      <3>2. CASE d = Wanted(k)
        BY <3>2, WantedIsOld
      <3> QED
        BY <3>1, <3>2
    <2> QED
      BY <2>1, <2>2, WantedIsOld
  <1>4. HeldIsOld'
    BY <1>2, <1>3 DEF HeldIsOld
  <1> QED
    BY <1>1, <1>4

\* Note removes an organization from the list of the reconciler and adds its row.
LEMMA NoteFacts ==
  ASSUME CapInv, installation' = installation, NEW k \in Reconcilers, Locked(k),
         NEW o, NEW failed, Note(k, o, failed)
  PROVE  /\ DOMAIN reconcile' = Reconcilers
         /\ \A j \in Reconcilers : reconcile'[j] # None =>
              /\ DOMAIN reconcile'[j] = Fields
              /\ reconcile'[j].step \in {"waiting", "locked"}
              /\ reconcile'[j].installation \in Installations
              /\ installation[reconcile'[j].installation].state # "none"
              /\ reconcile'[j].package \in Packages
         /\ \A j \in Reconcilers : Locked(j)' =>
              /\ Locked(j)
              /\ reconcile'[j].installation = reconcile[j].installation
              /\ reconcile'[j].package = reconcile[j].package
  <1> DEFINE new == [reconcile[k] EXCEPT !.todo = @ \ {o},
                 !.rows = (o :> [package |-> reconcile[k].package, failed |-> failed]) @@ @]
  <1>1. DOMAIN reconcile[k] = Fields /\ reconcile[k] # None /\ DOMAIN reconcile = Reconcilers
    BY DEF CapInv, CapTyped, Locked
  <1>2. reconcile' = [reconcile EXCEPT ![k] = new]
    BY DEF Note
  <1>3. /\ DOMAIN new = Fields /\ new.step = reconcile[k].step
        /\ new.installation = reconcile[k].installation /\ new.package = reconcile[k].package
    BY <1>1 DEF Fields
  <1> HIDE DEF new
  <1>4. \A j \in Reconcilers : reconcile'[j] = IF j = k THEN new ELSE reconcile[j]
    BY <1>1, <1>2
  <1>5. DOMAIN reconcile' = Reconcilers
    BY <1>1, <1>2
  <1> QED
    BY <1>1, <1>3, <1>4, <1>5 DEF CapInv, CapTyped, Locked

\* Every step of the reconcilers and of IAM.
LEMMA ReconcileKeepsCap ==
  ASSUME CapInv, PackagesInstalled, installation' = installation,
         (\E k \in Reconcilers : ReconcileStep(k)) \/ LateReplace
  PROVE  CapInv'
  <1>1. ASSUME NEW k \in Reconcilers, NEW i \in Installations, NEW orgs, StartReconcile(k, i, orgs)
        PROVE  CapInv'
    <2> DEFINE new == [step |-> "waiting", installation |-> i, package |-> installation[i].package,
                       todo |-> orgs, rows |-> [o \in {} |-> NoRecord]]
    <2>1. /\ reconcile' = [reconcile EXCEPT ![k] = new] /\ UNCHANGED <<catalogue, late>>
          /\ installation[i].state # "none"
      BY <1>1 DEF StartReconcile
    <2>2. /\ DOMAIN new = Fields /\ new.step = "waiting" /\ new.installation = i
          /\ new.package = installation[i].package
      BY DEF Fields
    <2>3. installation[i].package \in Packages
      BY <2>1 DEF PackagesInstalled, Installed
    <2> HIDE DEF new
    <2>4. \A j \in Reconcilers : reconcile'[j] = IF j = k THEN new ELSE reconcile[j]
      BY <2>1 DEF CapInv, CapTyped
    <2>5. CapTyped'
      BY <2>1, <2>2, <2>3, <2>4 DEF CapInv, CapTyped
    <2>6. Held' = Held
      BY <2>1 DEF Held
    <2>7. OneLocked' /\ HeldIsOld'
      BY <2>2, <2>4, <2>6, NothingNewHeld DEF Locked
    <2> QED
      BY <2>5, <2>7 DEF CapInv
  <1>2. ASSUME NEW k \in Reconcilers, LockCapabilities(k)
        PROVE  CapInv'
    <2> DEFINE i == reconcile[k].installation
               new == [reconcile[k] EXCEPT !.step = "locked", !.package = PackageUnderLock(k),
                                           !.todo = ToReconcile(k)]
    <2>1. /\ reconcile[k] # None /\ UNCHANGED <<catalogue, late>>
          /\ \A j \in Reconcilers : ~Locked(j)
          /\ reconcile' = [reconcile EXCEPT ![k] = new]
      BY <1>2 DEF LockCapabilities, Locked
    <2>2. /\ DOMAIN reconcile[k] = Fields /\ DOMAIN reconcile = Reconcilers
          /\ i \in Installations /\ installation[i].state # "none"
      BY <2>1 DEF CapInv, CapTyped
    <2>3. /\ DOMAIN new = Fields /\ new.step = "locked" /\ new.installation = i
          /\ new.package = installation[i].package
      BY <2>2 DEF Fields, PackageUnderLock
    <2>4. installation[i].package \in Packages /\ installation[i].package \in Nat
      BY <2>2, PluginAssumption DEF PackagesInstalled, Installed
    <2> HIDE DEF new, i
    <2>5. \A j \in Reconcilers : reconcile'[j] = IF j = k THEN new ELSE reconcile[j]
      BY <2>1, <2>2
    <2>6. CapTyped'
      BY <2>1, <2>2, <2>3, <2>4, <2>5 DEF CapInv, CapTyped
    <2>7. Held' = Held
      BY <2>1 DEF Held
    <2>8. \A j \in Reconcilers : Locked(j)' => j = k
      BY <2>1, <2>5 DEF Locked
    <2>9. OneLocked'
      BY <2>8 DEF OneLocked
    <2>10. \A d \in Held : /\ installation[d.installation].state # "none"
                           /\ d.package <= installation[d.installation].package
      BY DEF CapInv, HeldIsOld
    <2>11. reconcile'[k].package = installation[i].package /\ reconcile'[k].installation = i
      BY <2>3, <2>5
    <2>12. HeldIsOld'
      BY <2>4, <2>7, <2>8, <2>10, <2>11 DEF HeldIsOld
    <2> QED
      BY <2>6, <2>9, <2>12 DEF CapInv
  <1>3. ASSUME NEW k \in Reconcilers, CommitReconcile(k) \/ CrashReconcile(k)
        PROVE  CapInv'
    <2>1. reconcile' = [reconcile EXCEPT ![k] = None] /\ UNCHANGED <<catalogue, late>>
      BY <1>3 DEF CommitReconcile, CrashReconcile
    <2>2. \A j \in Reconcilers : reconcile'[j] = IF j = k THEN None ELSE reconcile[j]
      BY <2>1 DEF CapInv, CapTyped
    <2>3. CapTyped'
      BY <2>1, <2>2 DEF CapInv, CapTyped
    <2>4. Held' = Held
      BY <2>1 DEF Held
    <2>5. OneLocked' /\ HeldIsOld'
      BY <2>2, <2>4, NothingNewHeld DEF Locked
    <2> QED
      BY <2>3, <2>5 DEF CapInv
  <1>4. ASSUME NEW k \in Reconcilers, NEW o \in Organizations, NEW failed \in BOOLEAN,
               Register(k, o, failed)
        PROVE  CapInv'
    <2>1. /\ Locked(k) /\ Note(k, o, failed) /\ late' = late
          /\ catalogue' = [catalogue EXCEPT ![o] = Wanted(k)]
      BY <1>4 DEF Register, Asks, Locked
    <2>2. Wanted(k) \in Declarations
      BY <2>1, WantedIsOld
    <2>3. CapTyped'
      BY <2>1, <2>2, NoteFacts DEF CapInv, CapTyped
    <2>4. \A q \in Organizations : catalogue'[q] = IF q = o THEN Wanted(k) ELSE catalogue[q]
      BY <2>1 DEF CapInv, CapTyped
    <2>5. Held' \subseteq Held \cup {Wanted(k)}
      BY <2>1, <2>4 DEF Held
    <2>6. OneLocked' /\ HeldIsOld'
      BY <2>1, <2>5, NoteFacts, WantedHeld
    <2> QED
      BY <2>3, <2>6 DEF CapInv
  <1>5. ASSUME NEW k \in Reconcilers, NEW o \in Organizations, FailToRegister(k, o)
        PROVE  CapInv'
    <2>1. Locked(k) /\ Note(k, o, TRUE) /\ UNCHANGED <<catalogue, late>>
      BY <1>5 DEF FailToRegister, Asks, Locked
    <2>2. CapTyped'
      BY <2>1, NoteFacts DEF CapInv, CapTyped
    <2>3. Held' = Held
      BY <2>1 DEF Held
    <2>4. OneLocked' /\ HeldIsOld'
      BY <2>1, <2>3, NoteFacts, NothingNewHeld
    <2> QED
      BY <2>2, <2>4 DEF CapInv
  <1>6. ASSUME NEW k \in Reconcilers, NEW o \in Organizations, TimeOut(k, o)
        PROVE  CapInv'
    <2>1. /\ Locked(k) /\ Note(k, o, TRUE) /\ catalogue' = catalogue
          /\ late' = [organization |-> o, declared |-> Wanted(k)]
      BY <1>6 DEF TimeOut, Asks, Locked
    <2>2. Wanted(k) \in Declarations
      BY <2>1, WantedIsOld
    <2>3. CapTyped'
      BY <2>1, <2>2, NoteFacts DEF CapInv, CapTyped
    <2>4. Held' \subseteq Held \cup {Wanted(k)}
      BY <2>1 DEF Held
    <2>5. OneLocked' /\ HeldIsOld'
      BY <2>1, <2>4, NoteFacts, WantedHeld
    <2> QED
      BY <2>3, <2>5 DEF CapInv
  <1>7. ASSUME LateReplace
        PROVE  CapInv'
    <2>1. /\ late # None /\ late' = None /\ reconcile' = reconcile
          /\ catalogue' = [catalogue EXCEPT ![late.organization] = late.declared]
      BY <1>7 DEF LateReplace
    <2>2. late.organization \in Organizations /\ late.declared \in Declarations
      BY <2>1 DEF CapInv, CapTyped
    <2>3. CapTyped'
      BY <2>1, <2>2 DEF CapInv, CapTyped
    <2>4. \A q \in Organizations :
            catalogue'[q] = IF q = late.organization THEN late.declared ELSE catalogue[q]
      BY <2>1 DEF CapInv, CapTyped
    <2>5. Held' \subseteq Held
      BY <2>1, <2>4 DEF Held
    <2>6. OneLocked' /\ HeldIsOld'
      BY <2>1, <2>5, NothingNewHeld DEF Locked
    <2> QED
      BY <2>3, <2>6 DEF CapInv
  <1> QED
    BY <1>1, <1>2, <1>3, <1>4, <1>5, <1>6, <1>7 DEF ReconcileStep

\* A reconciler (reconcileCapabilities) never replaces the declarations of a later
\* package by those of an earlier one, however many reconcilers wait for the lock,
\* crash or lose answers.  The requests they leave behind, which IAM performs late,
\* are exempt: CapabilitiesFollow says that the catalogue recovers from them.
THEOREM RegistrationAdvances == CapSpec => RegistrationNeverGoesBack
  <1> DEFINE Inv == IInv /\ SnapshotInv /\ ActivationInv /\ PackagesInstalled /\ CapInv
             Body ==
               \A o \in Organizations :
                 /\ catalogue'[o] # catalogue[o]
                 /\ catalogue[o] # None
                 /\ late' = late
                 /\ catalogue'[o].installation = catalogue[o].installation
                 => catalogue'[o].package > catalogue[o].package
  <1>1. CapInit => Inv
    <2> SUFFICES ASSUME CapInit PROVE Inv
      OBVIOUS
    <2>1. Init
      BY DEF CapInit
    <2>2. SnapshotInv /\ ActivationInv /\ PackagesInstalled
      BY <2>1 DEF Init, SnapshotInv, ActivationInv, Snapshot, EmptyView, PackagesInstalled,
         Installed, NoInstallation
    <2>3. CapInv
      BY DEF CapInit, CapInv, CapTyped, OneLocked, HeldIsOld, Held, Locked
    <2> QED
      BY <2>1, <2>2, <2>3, InitIInv
  <1>2. Inv /\ [CapNext]_allVars => Inv'
    <2> SUFFICES ASSUME Inv, [CapNext]_allVars PROVE Inv'
      OBVIOUS
    <2>1. [Next]_vars
      BY DEF CapNext, ReconcileStep, StartReconcile, LockCapabilities, CommitReconcile,
         CrashReconcile, Register, FailToRegister, TimeOut, LateReplace, allVars
    <2>2. IInv' /\ SnapshotInv' /\ ActivationInv'
      BY <2>1, NextIInv, SnapshotStep, ActivationStep
    <2>3. PackagesInstalled' /\ \A i \in Installations : Grows(installation[i], installation'[i])
      BY <2>1, PackagesStep
    <2>4. CASE UNCHANGED capVars
      BY <2>2, <2>3, <2>4, ManagerKeepsCap
    <2>5. CASE (\E k \in Reconcilers : ReconcileStep(k)) \/ LateReplace
      <3>1. installation' = installation
        BY <2>5 DEF ReconcileStep, StartReconcile, LockCapabilities, CommitReconcile,
           CrashReconcile, Register, FailToRegister, TimeOut, LateReplace, vars, stateVars
      <3> QED
        BY <2>2, <2>3, <2>5, <3>1, ReconcileKeepsCap
    <2> QED
      BY <2>4, <2>5 DEF CapNext, allVars
  <1>3. Inv /\ [CapNext]_allVars => [Body]_allVars
    <2> SUFFICES ASSUME CapInv, [CapNext]_allVars,
                        NEW o \in Organizations, catalogue'[o] # catalogue[o], catalogue[o] # None,
                        late' = late, catalogue'[o].installation = catalogue[o].installation
                 PROVE  catalogue'[o].package > catalogue[o].package
      OBVIOUS
    <2>1. PICK k \in Reconcilers, q \in Organizations, failed \in BOOLEAN : Register(k, q, failed)
      BY DEF CapNext, ReconcileStep, StartReconcile, LockCapabilities, CommitReconcile,
         CrashReconcile, FailToRegister, TimeOut, LateReplace, allVars, capVars
    <2>2. Locked(k) /\ catalogue' = [catalogue EXCEPT ![q] = Wanted(k)]
      BY <2>1 DEF Register, Asks, Locked
    <2>3. q = o /\ catalogue'[o] = Wanted(k)
      BY <2>2 DEF CapInv, CapTyped
    <2>4. catalogue[o] \in Declarations /\ catalogue[o] \in Held
      BY DEF CapInv, CapTyped, Held
    <2>5. catalogue[o].package <= reconcile[k].package
      BY <2>2, <2>3, <2>4, WantedIsOld DEF CapInv, HeldIsOld
    <2>6. catalogue[o].package # Wanted(k).package
      <3>1. Wanted(k) \in Declarations
        BY <2>2, WantedIsOld
      <3> QED
        BY <2>3, <2>4, <3>1 DEF Declarations
    <2>7. catalogue[o].package \in Nat
      BY <2>4, PluginAssumption DEF Declarations
    <2> QED
      BY <2>2, <2>3, <2>5, <2>6, <2>7, WantedIsOld
  <1> QED
    BY <1>1, <1>2, <1>3, PTL DEF CapSpec, RegistrationNeverGoesBack
=============================================================================
