--------------------------- MODULE PluginManager ----------------------------
(***************************************************************************)
(* The Plugin Manager (internal/pluginmanager, internal/model/             *)
(* plugin_manager.go): operators install a plugin, prove and activate its  *)
(* packages and enable it for organizations; Core enables new              *)
(* organizations on its own while an installation serves all of them;      *)
(* every replica serves a snapshot that it refreshes when the revision     *)
(* moves; and effects performed for the plugin re-verify the installation  *)
(* in their own transaction.                                               *)
(*                                                                         *)
(* A command is one transaction under the lock of plugin_manager_state     *)
(* that requires the expected revision, hence one step at the revision its *)
(* sender read; one that expects another revision, or repeats a key,       *)
(* changes nothing.  Three things take several steps: an activation reads  *)
(* the running plugin before its transaction, the creation of an           *)
(* organization holds the lock until it commits, and an effect shares the  *)
(* rows of its installation and enablement until it commits.               *)
(* Manifests, endpoints, identities, time zones and approval policies are  *)
(* data that validation accepted; packages are registered beforehand and   *)
(* named by their version.                                                 *)
(***************************************************************************)
EXTENDS Naturals, FiniteSets

CONSTANTS
    Packages,       \* registered packages of the plugin, named by their version
    Installations,  \* installation UUIDs
    Organizations,  \* organization IDs
    Replicas,       \* Control Plane replicas
    Refreshers,     \* callers of Refresh in a replica: its ticker and its commands
    Tickers,        \* the ones that call it again and again (Run)
    Effects,        \* transactions performed for the plugin
    Limits,         \* organization limits of installation-wide grants (0: none)
    None,           \* no package, installation, observation or transaction
    MaxRevision,    \* bound: revision of the Plugin Manager
    MaxRestarts     \* bound: restarts of replicas

ASSUME PluginAssumption ==
    /\ Packages \subseteq Nat
    /\ Limits \subseteq Nat
    /\ None \notin Packages \cup Installations
    /\ Tickers \subseteq Refreshers
    /\ MaxRevision \in Nat
    /\ MaxRestarts \in Nat

VARIABLES
    revision,      \* plugin_manager_state
    installation,  \* plugin_installations
    enablement,    \* plugin_enablements, one per organization
    limit,         \* organization limit of the installation-wide grant
    organization,  \* orgs: absent, without an administrator yet (new, or bare when its
                   \* server runs no plugin host), or settled
    creation,      \* a creation transaction that holds the Plugin Manager lock
    skipped,       \* history: why the installation that serves all organizations does
                   \* not serve this one, or "no"
    activation,    \* an activation that read the status of the running plugin
    effect,        \* transactions that share the plugin's rows
    work,          \* Core's safety work for the plugin: none, open or settled
    refresh,       \* Refresh in progress, by replica and caller
    snapshot,      \* what a replica serves
    restarts       \* restarts of replicas so far

stateVars == <<installation, enablement, limit, organization, creation, skipped>>
effectVars == <<effect, work>>
replicaVars == <<refresh, snapshot, restarts>>
vars == <<revision, stateVars, effectVars, replicaVars, activation>>

NoInstallation == [state |-> "none", package |-> None, target |-> None, mode |-> "selected"]
NoEnablement == [installation |-> None, state |-> "none"]
Enablement(i, s) == [installation |-> i, state |-> s]

IsServed(i) == installation[i].state \in {"active", "disabled"}
Committed == {o \in Organizations : organization[o] # "absent"}
\* PluginInstallationsServingAllOrganizations; the plugin has one at most.
ServingAll == {i \in Installations : installation[i].mode = "all"}
EnabledOrganizations(i) == {o \in Organizations : enablement[o] = Enablement(i, "enabled")}
NothingSkipped == [o \in Organizations |-> "no"]
WithoutEnablement == {o \in Committed : enablement[o] = NoEnablement}

-----------------------------------------------------------------------------
(* Snapshots.                                                              *)

\* view: what an organization may use of the installation.
Availability(i, o) ==
    CASE enablement[o].installation # i -> "none"
      [] installation[i].state = "active" /\ enablement[o].state = "enabled" -> "available"
      [] OTHER -> "not_enabled"

\* LoadPluginManagerSnapshot, servedInstallations: the served installations.
ServedView ==
    [i \in {j \in Installations : IsServed(j)} |->
       [package |-> installation[i].package,
        organizations |-> [o \in Organizations |-> Availability(i, o)]]]

EmptyView == [i \in {} |-> None]
Snapshot(n, v) == [revision |-> n, view |-> v]

-----------------------------------------------------------------------------
(* Locks.                                                                  *)

\* Mutant: the creation of an organization does not lock the Plugin Manager.
LockNobody == TRUE

\* LockPluginManager: no creation transaction holds the lock.
ManagerFree == \A o \in Organizations : creation[o] = None

\* Mutant: an effect does not hold its rows until it commits.
RowAlwaysFree(i) == TRUE

\* FOR UPDATE of the installation waits for the effects that share its row.
RowFree(i) ==
    \A e \in Effects : effect[e] # None => effect[e].installation # i

\* An effect shares the row of its enablement too.
EnablementFree(o) ==
    \A e \in Effects : effect[e] # None => effect[e].organization # o

\* FOR SHARE waits for the creation transaction that updates the row.
RowSharable(i) ==
    \A o \in Organizations : creation[o] # None => creation[o].installation # i

\* Mutant: a limit admits one organization too many.
OffByOneAllowed(i, added) ==
    limit[i] = 0 \/ Cardinality(EnabledOrganizations(i)) + added <= limit[i] + 1

\* checkOrganizationLimit: added more organizations are within the limit.
WithinLimit(i, added) ==
    \/ added = 0
    \/ limit[i] = 0
    \/ Cardinality(EnabledOrganizations(i)) + added <= limit[i]

-----------------------------------------------------------------------------
(* Operator commands.                                                      *)

\* execute, ExecutePluginManagerCommand: what every changing command does.
Execute ==
    /\ ManagerFree
    /\ revision < MaxRevision
    /\ revision' = revision + 1
    /\ UNCHANGED <<organization, creation, effectVars, replicaVars>>

\* A command that locks the installation and changes its row alone.
Update(i, row) ==
    /\ Execute
    /\ RowFree(i)
    /\ installation' = [installation EXCEPT ![i] = row]

CreateInstallation(i, p) ==
    /\ Execute
    /\ installation[i].state = "none"
    /\ \A j \in Installations : installation[j].state \in {"none", "purged"}
    /\ installation' = [installation EXCEPT ![i] =
         [state |-> "installed", package |-> p, target |-> None, mode |-> "selected"]]
    /\ UNCHANGED <<enablement, limit, skipped, activation>>

\* Transition: disable, enable, reinstall and purge.
TransitionTo(i, from, to) ==
    /\ installation[i].state = from
    /\ Update(i, [installation[i] EXCEPT !.state = to])
    /\ UNCHANGED <<enablement, limit, skipped, activation>>

\* Mutant: the name of the command is stored for the state.
NameOfCommand(i) ==
    \/ TransitionTo(i, "active", "disable")
    \/ TransitionTo(i, "disable", "active")

Transition(i) ==
    \/ TransitionTo(i, "active", "disabled")
    \/ TransitionTo(i, "disabled", "active")
    \/ TransitionTo(i, "uninstalled", "installed")
    \/ TransitionTo(i, "uninstalled", "purged")

\* Mutant: only work of enabled organizations keeps the installation.
SettledWhereEnabled(i) == \A o \in EnabledOrganizations(i) : work[o] # "open"

\* UnsettledPluginWork: no organization holds work of the plugin.
WorkSettled(i) == \A o \in Organizations : work[o] # "open"

\* Transition: uninstall removes the enablements, the mode and a pending upgrade.
Uninstall(i) ==
    /\ installation[i].state \in {"installed", "active", "disabled"}
    /\ WorkSettled(i)
    /\ Update(i, [installation[i] EXCEPT !.state = "uninstalled", !.target = None,
                                         !.mode = "selected"])
    /\ enablement' = [o \in Organizations |->
         IF enablement[o].installation = i THEN NoEnablement ELSE enablement[o]]
    /\ skipped' = NothingSkipped
    /\ UNCHANGED <<limit, activation>>

\* Upgrade: the target is a later version; the served package withdraws it.
Upgrade(i, p) ==
    /\ installation[i].state \in {"installed", "active", "disabled"}
    /\ p # installation[i].target
    /\ \/ p > installation[i].package
       \/ p = installation[i].package /\ installation[i].target # None
    /\ Update(i, [installation[i] EXCEPT !.target =
                    IF p = installation[i].package THEN None ELSE p])
    /\ UNCHANGED <<enablement, limit, skipped, activation>>

\* SetOrganizationMode: mode all enables every organization without an
\* enablement, or refuses as a whole.
SetOrganizationMode(i, mode) ==
    LET pending == IF mode = "all" THEN WithoutEnablement ELSE {}
    IN  /\ installation[i].state \notin {"none", "purged"}
        /\ mode = "all" => IsServed(i)
        /\ installation[i].mode # mode \/ pending # {}
        /\ WithinLimit(i, Cardinality(pending))
        /\ Update(i, [installation[i] EXCEPT !.mode = mode])
        /\ enablement' = [o \in Organizations |->
             IF o \in pending THEN Enablement(i, "enabled") ELSE enablement[o]]
        /\ skipped' = NothingSkipped
        /\ UNCHANGED <<limit, activation>>

\* What an enablement adds to the organizations the limit counts.
Added(i, o, s) == IF s = "enabled" /\ o \notin EnabledOrganizations(i) THEN 1 ELSE 0

PutEnablement(i, o, s) ==
    /\ IsServed(i)
    /\ o \in Committed
    /\ enablement[o] # Enablement(i, s)
    /\ WithinLimit(i, Added(i, o, s))
    /\ Update(i, installation[i])
    /\ EnablementFree(o)
    /\ enablement' = [enablement EXCEPT ![o] = Enablement(i, s)]
    /\ skipped' = [skipped EXCEPT ![o] = "no"]
    /\ UNCHANGED <<limit, activation>>

\* An installation that serves all organizations keeps its enablements.
MayRemove(i, o) ==
    ~(installation[i].mode = "all" /\ enablement[o].installation = i)

\* RemoveEnablement: the installation may be in any state, and the enablement it
\* removes is the organization's for the plugin, whichever installation has it.
\* Work of the organization is not looked at.
RemoveEnablement(i, o) ==
    /\ installation[i].state # "none"
    /\ enablement[o] # NoEnablement
    /\ MayRemove(i, o)
    /\ Update(i, installation[i])
    /\ EnablementFree(o)
    /\ enablement' = [enablement EXCEPT ![o] = NoEnablement]
    /\ skipped' = [skipped EXCEPT ![o] = IF enablement[o].installation \in ServingAll THEN "removed" ELSE @]
    /\ UNCHANGED <<limit, activation>>

\* ImportEntitlementBundle: a new installation-wide grant brings its limit.
ImportEntitlementBundle(i, n) ==
    /\ Execute
    /\ installation[i].state \in {"installed", "active", "disabled"}
    /\ n # limit[i]
    /\ limit' = [limit EXCEPT ![i] = n]
    /\ UNCHANGED <<installation, enablement, skipped, activation>>

-----------------------------------------------------------------------------
(* Activation.                                                             *)

AwaitsProof(i) ==
    \/ installation[i].state = "installed"
    \/ IsServed(i) /\ installation[i].target # None

\* What the running plugin may report: it is operated apart from Core, so any
\* installation and package at any time; None is a read that failed.
Reports == [installation : Installations, package : Packages] \cup {None}

\* activate reads the installation and, outside every transaction, the status of
\* the plugin; its command names the revision its sender read.
ReadStatus(i, report) ==
    /\ activation = None
    /\ AwaitsProof(i)
    /\ activation' = [installation |-> i, expected |-> revision, observed |-> report]
    /\ UNCHANGED <<revision, stateVars, effectVars, replicaVars>>

\* The package the activation is to serve: the target of a pending upgrade.
ToServe(i) ==
    IF installation[i].target # None THEN installation[i].target ELSE installation[i].package

\* ExecutePluginManagerCommand: the revision is the one the sender read.
ExpectsThisRevision == activation.expected = revision

\* Mutant: the report is compared with the package served so far.
ProvesServed(i) ==
    activation.observed = [installation |-> i, package |-> installation[i].package]

\* diagnose: the plugin reports exactly this installation and package.
Proves(i) ==
    activation.observed = [installation |-> i, package |-> ToServe(i)]

\* The activation's transaction switches package and registrations at once.
Activate ==
    /\ activation # None
    /\ LET i == activation.installation
       IN  /\ ExpectsThisRevision
           /\ AwaitsProof(i)
           /\ Proves(i)
           /\ Update(i, [installation[i] EXCEPT
                !.state = IF @ = "installed" THEN "active" ELSE @,
                !.package = ToServe(i), !.target = None])
    /\ activation' = None
    /\ UNCHANGED <<enablement, limit, skipped>>

\* The command is refused, or its caller goes away: nothing changes.
AbandonActivation ==
    /\ activation # None
    /\ activation' = None
    /\ UNCHANGED <<revision, stateVars, effectVars, replicaVars>>

-----------------------------------------------------------------------------
(* Organizations.                                                          *)

\* createOrganizationCore while the plugin host is on: EnableNewOrganization locks
\* the Plugin Manager and decides from what it reads under the lock.
BeginOrganization(o) ==
    /\ organization[o] = "absent"
    /\ creation[o] = None
    /\ ManagerFree
    /\ revision < MaxRevision
    /\ \A i \in ServingAll : RowFree(i)
    /\ \E i \in IF ServingAll = {} THEN {None} ELSE ServingAll :
         creation' = [creation EXCEPT ![o] =
           [revision |-> revision,
            installation |-> IF i # None /\ WithinLimit(i, 1) THEN i ELSE None,
            limited |-> i # None /\ ~WithinLimit(i, 1)]]
    /\ UNCHANGED <<revision, installation, enablement, limit, organization, skipped,
                   effectVars, replicaVars, activation>>

\* RecordPluginManagerSystemChange: the revision after the one read under the lock.
SystemRevision(n) == n + 1

CommitOrganization(o) ==
    LET plan == creation[o]
    IN  /\ plan # None
        /\ creation' = [creation EXCEPT ![o] = None]
        /\ organization' = [organization EXCEPT ![o] = "new"]
        /\ IF plan.installation # None
             THEN /\ enablement' = [enablement EXCEPT ![o] = Enablement(plan.installation, "enabled")]
                  /\ revision' = SystemRevision(plan.revision)
             ELSE UNCHANGED <<enablement, revision>>
        /\ skipped' = [skipped EXCEPT ![o] = IF plan.limited THEN "limit_reached" ELSE @]
        /\ UNCHANGED <<installation, limit, effectVars, replicaVars, activation>>

\* The creation transaction fails.
RollBackOrganization(o) ==
    /\ creation[o] # None
    /\ creation' = [creation EXCEPT ![o] = None]
    /\ UNCHANGED <<revision, installation, enablement, limit, organization, skipped,
                   effectVars, replicaVars, activation>>

\* createOrganizationCore of a server whose plugin host is off (PluginManager is
\* nil): the organization is created beside the Plugin Manager and its lock.
CreateWithoutHost(o) ==
    /\ organization[o] = "absent"
    /\ creation[o] = None
    /\ organization' = [organization EXCEPT ![o] = "bare"]
    /\ skipped' = [skipped EXCEPT ![o] = IF ServingAll = {} THEN "no" ELSE "host_off"]
    /\ UNCHANGED <<revision, installation, enablement, limit, creation,
                   effectVars, replicaVars, activation>>

\* IAM made the first administrator.  A crash before it leaves the organization.
SettleOrganization(o) ==
    /\ organization[o] \in {"new", "bare"}
    /\ organization' = [organization EXCEPT ![o] = "settled"]
    /\ UNCHANGED <<revision, installation, enablement, limit, creation, skipped,
                   effectVars, replicaVars, activation>>

\* IAM refused: discardOrganization removes the enablements and the organization,
\* unless rows of the plugin's work refer to it.
DiscardOrganization(o) ==
    /\ organization[o] = "new"
    /\ ManagerFree
    /\ work[o] = "none"
    /\ organization' = [organization EXCEPT ![o] = "absent"]
    /\ IF enablement[o] # NoEnablement
         THEN /\ revision < MaxRevision
              /\ RowFree(enablement[o].installation)
              /\ revision' = SystemRevision(revision)
              /\ enablement' = [enablement EXCEPT ![o] = NoEnablement]
         ELSE UNCHANGED <<revision, enablement>>
    /\ skipped' = [skipped EXCEPT ![o] = "no"]
    /\ UNCHANGED <<installation, limit, creation, effectVars, replicaVars, activation>>

\* The same while the plugin host is off: DeleteOrg alone, which fails when an
\* enablement or the plugin's work refers to the organization.
DiscardWithoutHost(o) ==
    /\ organization[o] = "bare"
    /\ enablement[o] = NoEnablement
    /\ work[o] = "none"
    /\ organization' = [organization EXCEPT ![o] = "absent"]
    /\ skipped' = [skipped EXCEPT ![o] = "no"]
    /\ UNCHANGED <<revision, installation, enablement, limit, creation,
                   effectVars, replicaVars, activation>>

-----------------------------------------------------------------------------
(* Effects performed for the plugin.                                       *)

\* RequirePluginEnablement: the installation and package of the caller's
\* snapshot are the served ones, and enabled unless this is safety work.
RequirePluginEnablement(i, p, o, safety) ==
    /\ IsServed(i)
    /\ installation[i].package = p
    /\ enablement[o].installation = i
    /\ safety \/ Availability(i, o) = "available"

\* pluginEffectDatabase.BeginTx, for a caller that read replica r's snapshot.
BeginEffect(e, r, o, safety) ==
    /\ effect[e] = None
    /\ \E i \in DOMAIN snapshot[r].view :
         LET seen == snapshot[r].view[i]
         IN  /\ seen.organizations[o] \in {"available"} \cup (IF safety THEN {"not_enabled"} ELSE {})
             /\ RowSharable(i)
             /\ RequirePluginEnablement(i, seen.package, o, safety)
             /\ effect' = [effect EXCEPT ![e] =
                  [installation |-> i, package |-> seen.package, organization |-> o,
                   safety |-> safety]]
    /\ UNCHANGED <<revision, stateVars, work, replicaVars, activation>>

\* The effect commits: forward work opens safety work, either kind settles it.
CommitEffect(e, outcome) ==
    /\ effect[e] # None
    /\ outcome = "open" => ~effect[e].safety
    /\ outcome = "settled" => work[effect[e].organization] = "open"
    /\ work' = [work EXCEPT ![effect[e].organization] = outcome]
    /\ effect' = [effect EXCEPT ![e] = None]
    /\ UNCHANGED <<revision, stateVars, replicaVars, activation>>

RollBackEffect(e) ==
    /\ effect[e] # None
    /\ effect' = [effect EXCEPT ![e] = None]
    /\ UNCHANGED <<revision, stateVars, work, replicaVars, activation>>

-----------------------------------------------------------------------------
(* Replicas.                                                               *)

\* Mutant: two callers refresh a replica at once.
NoMutex(r) == TRUE

\* Manager.refresh: one Refresh of a replica at a time.
MutexFree(r) == \A t \in Refreshers : refresh[r][t] = None

\* Mutant: a refresh expects that the revision moved by one.
MovedByOne(r) == revision = snapshot[r].revision + 1

\* The revision is another one than the registry serves.
RevisionMoved(r) == revision # snapshot[r].revision

\* Refresh loads a snapshot when the revision moved; a read that fails changes
\* nothing, and the ticker tries again.
LoadSnapshot(r, t) ==
    /\ MutexFree(r)
    /\ refresh[r][t] = None
    /\ RevisionMoved(r)
    /\ refresh' = [refresh EXCEPT ![r][t] = Snapshot(revision, ServedView)]
    /\ UNCHANGED <<revision, stateVars, effectVars, snapshot, restarts, activation>>

\* InstallationRegistry.Replace.
Replace(r, t) ==
    /\ refresh[r][t] # None
    /\ snapshot' = [snapshot EXCEPT ![r] = refresh[r][t]]
    /\ refresh' = [refresh EXCEPT ![r][t] = None]
    /\ UNCHANGED <<revision, stateVars, effectVars, restarts, activation>>

\* A replica starts again with an empty registry.
Restart(r) ==
    /\ restarts < MaxRestarts
    /\ restarts' = restarts + 1
    /\ snapshot' = [snapshot EXCEPT ![r] = Snapshot(0, EmptyView)]
    /\ refresh' = [refresh EXCEPT ![r] = [t \in Refreshers |-> None]]
    /\ UNCHANGED <<revision, stateVars, effectVars, activation>>

-----------------------------------------------------------------------------

Init ==
    /\ revision = 0
    /\ installation = [i \in Installations |-> NoInstallation]
    /\ enablement = [o \in Organizations |-> NoEnablement]
    /\ limit = [i \in Installations |-> 0]
    /\ organization = [o \in Organizations |-> "absent"]
    /\ creation = [o \in Organizations |-> None]
    /\ skipped = NothingSkipped
    /\ activation = None
    /\ effect = [e \in Effects |-> None]
    /\ work = [o \in Organizations |-> "none"]
    /\ refresh = [r \in Replicas |-> [t \in Refreshers |-> None]]
    /\ snapshot = [r \in Replicas |-> Snapshot(0, EmptyView)]
    /\ restarts = 0

InstallationCommand(i) ==
    \/ \E p \in Packages : CreateInstallation(i, p) \/ Upgrade(i, p)
    \/ Transition(i) \/ Uninstall(i)
    \/ \E mode \in {"selected", "all"} : SetOrganizationMode(i, mode)
    \/ \E n \in Limits : ImportEntitlementBundle(i, n)

EnablementCommand(i, o) ==
    \/ \E s \in {"enabled", "disabled"} : PutEnablement(i, o, s)
    \/ RemoveEnablement(i, o)

Activation ==
    \/ \E i \in Installations, report \in Reports : ReadStatus(i, report)
    \/ Activate \/ AbandonActivation

OrganizationStep(o) ==
    \/ BeginOrganization(o) \/ CommitOrganization(o) \/ RollBackOrganization(o)
    \/ CreateWithoutHost(o)
    \/ SettleOrganization(o) \/ DiscardOrganization(o) \/ DiscardWithoutHost(o)

EffectStep(e) ==
    \/ \E r \in Replicas, o \in Organizations, safety \in BOOLEAN : BeginEffect(e, r, o, safety)
    \/ \E outcome \in {"open", "settled"} : CommitEffect(e, outcome)
    \/ RollBackEffect(e)

RefreshStep(r, t) == LoadSnapshot(r, t) \/ Replace(r, t)

Next ==
    \/ \E i \in Installations : InstallationCommand(i)
    \/ \E i \in Installations, o \in Organizations : EnablementCommand(i, o)
    \/ Activation
    \/ \E o \in Organizations : OrganizationStep(o)
    \/ \E e \in Effects : EffectStep(e)
    \/ \E r \in Replicas, t \in Refreshers : RefreshStep(r, t)
    \/ \E r \in Replicas : Restart(r)

\* A replica's ticker calls Refresh again and again (Run); one that is tried for
\* ever reads the database at some time, and a snapshot that was read is published.
Fairness ==
    \A r \in Replicas :
      /\ \A t \in Tickers : SF_vars(LoadSnapshot(r, t))
      /\ \A t \in Refreshers : WF_vars(Replace(r, t))

Spec == Init /\ [][Next]_vars /\ Fairness

-----------------------------------------------------------------------------
(* Properties.                                                             *)

\* The rows, transactions and snapshots hold the values the code can store in them.
TypeOK ==
    /\ revision \in 0 .. MaxRevision
    /\ installation \in [Installations ->
         [state : {"none", "installed", "active", "disabled", "uninstalled", "purged"},
          package : Packages \cup {None}, target : Packages \cup {None},
          mode : {"selected", "all"}]]
    /\ enablement \in [Organizations -> {NoEnablement} \cup
         [installation : Installations, state : {"enabled", "disabled"}]]
    /\ limit \in [Installations -> Nat]
    /\ organization \in [Organizations -> {"absent", "new", "bare", "settled"}]
    /\ creation \in [Organizations -> {None} \cup
         [revision : 0 .. MaxRevision, installation : Installations \cup {None},
          limited : BOOLEAN]]
    /\ skipped \in [Organizations -> {"no", "host_off", "limit_reached", "removed"}]
    /\ activation \in {None} \cup
         [installation : Installations, expected : 0 .. MaxRevision, observed : Reports]
    /\ effect \in [Effects -> {None} \cup
         [installation : Installations, package : Packages, organization : Organizations,
          safety : BOOLEAN]]
    /\ work \in [Organizations -> {"none", "open", "settled"}]
    /\ \A r \in Replicas : snapshot[r].revision \in 0 .. MaxRevision

\* An effect in progress runs under the installation, package and enablement that
\* Core serves at this moment, and forward work only while both are enabled: no
\* command changes them between the effect's check and its commit.
EffectsAreCurrent ==
    \A e \in Effects :
      LET f == effect[e]
      IN  f # None =>
            RequirePluginEnablement(f.installation, f.package, f.organization, f.safety)

\* While Core holds unsettled work of the plugin, the plugin has an installation
\* that is served: uninstalling cannot cut off the work's cancel and rollback paths.
WorkKeepsItsInstallation ==
    (\E o \in Organizations : work[o] = "open") => \E i \in Installations : IsServed(i)

\* An installation that serves all organizations has an enablement for every
\* organization, whichever of the mode switch and the creation came first.  Left out
\* since the mode was last set are only the organizations "created while the plugin
\* host was off, or while the installation-wide grant's organization limit was
\* reached", and those that lost the enablement through an earlier installation of
\* the plugin, which is what AllKeepsEnablements is about.
AllServesEveryOrganization ==
    \A i \in Installations : installation[i].mode = "all" =>
      \A o \in Committed :
        \/ enablement[o].installation = i
        \/ skipped[o] \in {"host_off", "limit_reached", "removed"}

\* "An installation that serves all organizations keeps an enablement for every
\* organization" (RemoveEnablement): none of its enablements goes while it does.
AllKeepsEnablements ==
    [][\A i \in Installations, o \in Organizations :
         /\ enablement[o].installation = i
         /\ installation[i].mode = "all" /\ installation'[i].mode = "all"
         /\ organization'[o] # "absent"
         => enablement'[o].installation = i]_vars

\* No step that enables organizations leaves more of them enabled than the
\* installation-wide licence allows.
EnablesWithinLimit ==
    [][\A i \in Installations :
         /\ limit'[i] # 0
         /\ Cardinality(EnabledOrganizations(i)') > Cardinality(EnabledOrganizations(i))
         => Cardinality(EnabledOrganizations(i)') <= limit'[i]]_vars

\* A package begins to be served only by an activation that read it, for this very
\* installation, from the running plugin, with no operator command in between.
ServesWhatItProved ==
    [][\A i \in Installations :
         /\ IsServed(i)'
         /\ ~IsServed(i) \/ installation'[i].package # installation[i].package
         => /\ activation # None
            /\ activation.observed = [installation |-> i, package |-> installation'[i].package]
            /\ activation.expected = revision]_vars

\* The Plugin Manager implements ReplicatedView: every change of what replicas
\* serve has its own revision, a replica serves one complete revision and never
\* goes back to an earlier one while it runs.
Abstract == INSTANCE ReplicatedView WITH
    view <- ServedView,
    fetched <- [r \in Replicas |-> {refresh[r][t] : t \in Refreshers} \ {None}],
    shown <- snapshot
ShowsOneRevision == Abstract!Spec

\* Every replica comes to serve every revision or a later one, whatever commands,
\* failed reads and restarts happen meanwhile.
ReplicasCatchUp ==
    \A r \in Replicas, n \in 1 .. MaxRevision :
      revision >= n ~> snapshot[r].revision >= n

=============================================================================
