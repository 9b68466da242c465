------------------------- MODULE PluginCapabilities -------------------------
(***************************************************************************)
(* Registration of a plugin's capabilities in IAM                          *)
(* (internal/pluginmanager/capabilities.go): after a command, and          *)
(* periodically, a reconciler brings IAM's catalogue of every organization *)
(* with an enablement in line with the package that Core serves            *)
(* (PluginManager).                                                        *)
(*                                                                         *)
(* A reconciliation is one transaction under the plugin's advisory lock    *)
(* that calls IAM for each organization and records the outcomes.  A call  *)
(* may fail, its answer may be lost, or Core may stop waiting for a        *)
(* request that IAM performs later.  Packages declare different            *)
(* capabilities, so a catalogue is named by the package it came from; its  *)
(* installation is kept as history.                                        *)
(***************************************************************************)
EXTENDS PluginManager, TLC

CONSTANTS
    Reconcilers,  \* reconciliations at work: the periodic one and those of commands
    Periodic,     \* the ones that start again and again (runEvery)
    MaxFaults     \* bound: crashes, and requests that IAM performs after Core stopped waiting

ASSUME CapabilityAssumption ==
    /\ Periodic \subseteq Reconcilers
    /\ MaxFaults \in Nat

VARIABLES
    catalogue,  \* IAM: the declarations it holds for an organization
    record,     \* plugin_capability_registrations
    reconcile,  \* reconciliations in progress
    late,       \* a request that IAM performs later
    faults      \* crashes and such requests so far

capVars == <<catalogue, record, reconcile, late, faults>>
allVars == <<vars, capVars>>

Declared(i, p) == [installation |-> i, package |-> p]
NoRecord == [package |-> None, failed |-> FALSE]

\* reconcileCapabilities begins: it reads the installation, for its plugin only.
StartReconcile(k, i, orgs) ==
    /\ reconcile[k] = None
    /\ installation[i].state # "none"
    /\ \E o \in orgs : enablement[o].installation = i
    /\ reconcile' = [reconcile EXCEPT ![k] =
         [step |-> "waiting", installation |-> i, package |-> installation[i].package,
          todo |-> orgs, rows |-> [o \in {} |-> NoRecord]]]
    /\ UNCHANGED <<vars, catalogue, record, late, faults>>

\* Mutant: the package read before the lock is registered.
PackageBeforeLock(k) == reconcile[k].package

\* The package that is read again under the lock.
PackageUnderLock(k) == installation[reconcile[k].installation].package

\* Mutant: what the record calls registered is not compared with IAM again.
ToRegisterOnce(k) ==
    {o \in reconcile[k].todo :
       /\ enablement[o].installation = reconcile[k].installation
       /\ record[o] # [package |-> PackageUnderLock(k), failed |-> FALSE]}

\* Every organization with an enablement is compared with IAM, registered or not.
ToReconcile(k) ==
    {o \in reconcile[k].todo : enablement[o].installation = reconcile[k].installation}

\* LockPluginCapabilities: one reconciliation of the plugin at a time, which reads
\* the package and the enablements once it has the lock.
LockCapabilities(k) ==
    /\ reconcile[k] # None
    /\ reconcile[k].step = "waiting"
    /\ \A j \in Reconcilers : reconcile[j] # None => reconcile[j].step = "waiting"
    /\ reconcile' = [reconcile EXCEPT
         ![k].step = "locked",
         ![k].package = PackageUnderLock(k),
         ![k].todo = ToReconcile(k)]
    /\ UNCHANGED <<vars, catalogue, record, late, faults>>

\* The organization is done, with the row the transaction will commit.
Note(k, o, failed) ==
    reconcile' = [reconcile EXCEPT
      ![k].todo = @ \ {o},
      ![k].rows = (o :> [package |-> reconcile[k].package, failed |-> failed]) @@ @]

Asks(k, o) ==
    /\ reconcile[k] # None
    /\ reconcile[k].step = "locked"
    /\ o \in reconcile[k].todo

Wanted(k) == Declared(reconcile[k].installation, reconcile[k].package)

\* registerCapabilities: IAM holds the declarations, or replaces its own by them.
\* An answer that is lost counts as a failure.
Register(k, o, failed) ==
    /\ Asks(k, o)
    /\ Note(k, o, failed)
    /\ catalogue' = [catalogue EXCEPT ![o] = Wanted(k)]
    /\ UNCHANGED <<vars, record, late, faults>>

\* IAM cannot be reached or refuses.
FailToRegister(k, o) ==
    /\ Asks(k, o)
    /\ Note(k, o, TRUE)
    /\ UNCHANGED <<vars, catalogue, record, late, faults>>

\* Core stops waiting for an answer, and IAM performs the request later.
TimeOut(k, o) ==
    /\ Asks(k, o)
    /\ late = None
    /\ faults < MaxFaults
    /\ Note(k, o, TRUE)
    /\ late' = [organization |-> o, declared |-> Wanted(k)]
    /\ faults' = faults + 1
    /\ UNCHANGED <<vars, catalogue, record>>

LateReplace ==
    /\ late # None
    /\ catalogue' = [catalogue EXCEPT ![late.organization] = late.declared]
    /\ late' = None
    /\ UNCHANGED <<vars, record, reconcile, faults>>

\* The rows of the reconciliation and the lock's release.
CommitReconcile(k) ==
    /\ reconcile[k] # None
    /\ reconcile[k].step = "locked"
    /\ reconcile[k].todo = {}
    /\ record' = reconcile[k].rows @@ record
    /\ reconcile' = [reconcile EXCEPT ![k] = None]
    /\ UNCHANGED <<vars, catalogue, late, faults>>

\* The replica stops, or its database connection fails: the rows are lost.
CrashReconcile(k) ==
    /\ reconcile[k] # None
    /\ faults < MaxFaults
    /\ faults' = faults + 1
    /\ reconcile' = [reconcile EXCEPT ![k] = None]
    /\ UNCHANGED <<vars, catalogue, record, late>>

-----------------------------------------------------------------------------

CapInit ==
    /\ Init
    /\ catalogue = [o \in Organizations |-> None]
    /\ record = [o \in Organizations |-> NoRecord]
    /\ reconcile = [k \in Reconcilers |-> None]
    /\ late = None
    /\ faults = 0

ReconcileStep(k) ==
    \/ \E i \in Installations, orgs \in {Organizations} \cup {{o} : o \in Organizations} :
         StartReconcile(k, i, orgs)
    \/ LockCapabilities(k) \/ CommitReconcile(k) \/ CrashReconcile(k)
    \/ \E o \in Organizations :
         \/ \E failed \in BOOLEAN : Register(k, o, failed)
         \/ FailToRegister(k, o) \/ TimeOut(k, o)

CapNext ==
    \/ Next /\ UNCHANGED capVars
    \/ \E k \in Reconcilers : ReconcileStep(k)
    \/ LateReplace

\* The periodic reconciliation starts again and again, gets the lock that is free
\* again and again, and is answered by IAM if it asks for ever.
CapFairness ==
    /\ \A k \in Periodic :
         /\ \A i \in Installations : WF_allVars(StartReconcile(k, i, Organizations))
         /\ SF_allVars(LockCapabilities(k))
         /\ \A o \in Organizations : SF_allVars(Register(k, o, FALSE))
    /\ \A k \in Reconcilers : WF_allVars(CommitReconcile(k))
    /\ \A k \in Reconcilers, o \in Organizations :
         WF_allVars(Register(k, o, FALSE) \/ FailToRegister(k, o))
    /\ WF_allVars(LateReplace)

CapSpec == CapInit /\ [][CapNext]_allVars /\ CapFairness

-----------------------------------------------------------------------------
(* Properties.                                                             *)

\* A reconciler never replaces the declarations of a later package of the
\* installation by those of an earlier one, however long it waited for its turn.  A
\* request whose sender gave up and that IAM performs late is exempt: it may.
RegistrationNeverGoesBack ==
    [][\A o \in Organizations :
         /\ catalogue'[o] # catalogue[o]
         /\ catalogue[o] # None
         /\ late' = late
         /\ catalogue'[o].installation = catalogue[o].installation
         => catalogue'[o].package > catalogue[o].package]_allVars

\* In an organization that keeps its enablement under a package that stays served,
\* IAM comes to hold the package's capabilities and keeps them, whatever calls
\* failed, were lost or arrived late.
CapabilitiesFollow ==
    \A i \in Installations, o \in Organizations, p \in Packages :
      <>[](IsServed(i) /\ installation[i].package = p /\ enablement[o].installation = i)
      => <>[](catalogue[o] = Declared(i, p))

=============================================================================
