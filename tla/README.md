# Verification of the Platform Orchestrator Control Plane

TLA+ modules, TLC configurations and TLAPS proofs for the Control Plane
(`internal/`, `cmd/server`). Paths below are relative to the repository root.
`PROJECT.json` maps every definition to the lines it models.

## 1. The system

The Control Plane ("Core") keeps organizations, projects, environments, module
catalogues, Pins and plugin state in PostgreSQL. It serves an API to users,
plugins and the Data Plane. The Data Plane executes Deployments. A plugin runs
*operations*: it gets a grant from Core, dispatches Deployments through it and
follows Core's changes through a journal.

Every replica is a stateless process in front of one database, so the hard part
is what happens *between* transactions: between two calls of the Data Plane,
between a decision and a commit, between a read of evidence and the write that
relies on it, across a crash.

| Component | State | Operations | What makes it correct |
| --- | --- | --- | --- |
| Extension resource journal (`model/extension_events.go`) | head, entries, retention boundary, journal state with gap, acknowledgements | journal at commit, start and pause with subscriptions, page reads, pruning, startup reconciliation | no holes, no silent skip, entries held for consumers |
| Environment admission guards (`model/environment_admission.go`) | guards, epoch | authorize, settle, seal absence | one Deployment at a time, no orphan guard |
| External dispatch and recovery (`model/external_operation_dispatch.go`, `external_dispatch_recovery.go`) | dispatches with fence, approval, outcome | record, callback, withdraw, look up, complete | a settled dispatch is over; approvals are current |
| Module version Pins (`model/module_version_pins.go`, `external_pin_operations.go`) | Pins, events | create, unpin, override, reconcile, cancel, restore, bulk, notes | an active Pin protects and is true |
| Operation grants (`model/external_operation_grants.go`) | grant, revision, command receipts, published events | prepare, activate, suspend, release, publish | fencing, exactly-once commands |
| Module versions (`model/module_version_management.go`) | versions, lifecycle, default pointers, catalogue status, command receipts | publish, promote, restore, deprecate, mark defective, archive, lifecycle transactions | one Default, an advancing lineage, commands apply to what was read |
| Reservations and delegated module operations (`model/module_extensions.go`, `external_module_operations.go`) | reservations, operations with fences, receipts | reserve, promote, restore, release | no command under an old grant or lease, no lease without owner |
| Drafts and draft tests (`model/module_drafts.go`) | drafts, snapshots | edit, test, publish | tests of what is published |
| Resource types and versions | types, versions, conformance | publish, bind | Modules conform to the bound version |
| Plugin Manager (`model/plugin_manager.go`, `internal/pluginmanager`) | revision, packages, installations, enablements, registrations; per replica a snapshot | install, activate, upgrade, disable, uninstall, enable, organization mode, refresh | only proven packages served, effects are current, no work stranded, replicas follow |
| Plugin capabilities (`pluginmanager/capabilities.go`) | IAM's catalogue, recorded outcomes | reconcile after a command and periodically | IAM follows the served package and never goes back |
| Plugin entitlements (`model/plugin_entitlements.go`, `internal/pluginentitlements`) | bindings with evaluated time and observed boundaries, revocations, activations | import, revoke, decide, discover, sweep | work only under the covering grant, no revival by a clock |
| Environments | status, deletion policy, runner | create, update, delete, force delete | no resource outlives its Environment |
| Observations (`api/plugin_observations.go`, `plugin_observation_recovery.go`) | grant, journal of intents, receipts, closures | start, redeploy, look up, resolve | a final answer is true for good, sends have current authority |
| Catalogue resolution, rules | rules | match | the most specific rule wins |
| Organizations, projects, providers, runners | rows | CRUD | referential integrity |
| Outbox, vault, tokens, configuration, logging | | | not protocol state |

Interactions: every transaction that changes a resource appends pending
messages, and its commit journals them. Plugin Manager changes start and pause
the journal in their own transaction. Grants hold journal history and fence
dispatches. Admissions and dispatches share one barrier and one epoch per
Environment; Pins are checked by both and written under the same lock. The Data
Plane calls back before it commits a dispatched Deployment. Every effect performed for
a plugin re-verifies installation, enablement and licence in its own transaction,
because the caller was chosen from a replica's snapshot. A server with a plugin
host creates an organization under the Plugin Manager's lock, one without it does not.

## 2. Modules

| Module | Models | Composes |
| --- | --- | --- |
| `EventJournal` | the journal of one organization: replicas, writers, subscriptions, readers, retention | |
| `JournalConsumer` | a plugin that follows the journal with the inventory | `EventJournal` |
| `EnvironmentAdmission` | guards, dispatches, Pins and evidence readers of one Module in one Environment, with the Data Plane | |
| `ModuleVersions` | the versions, Default, catalogue status and reservations of one Module, with late commands | |
| `ModuleOperations` | delegated operations on a Module: grants, fences, leases | `ModuleVersions` |
| `PluginManager` | installations, enablements, organizations, effects and the snapshots of replicas, of one plugin | |
| `ReplicatedView` | abstract: what replicas promise of one state that all of them serve from memory | |
| `PluginCapabilities` | registration of capabilities in IAM | `PluginManager` |
| `PluginEntitlements` | licences of one plugin: grants, revocations, decisions, sweep, clock | |
| `EnvironmentObservation` | observations and redeployments, their closure and the Data Plane | |
| `ModuleVersionsProofs`, `EnvironmentAdmissionProofs`, `PluginManagerProofs`, `PluginEntitlementsProofs`, `EnvironmentObservationProofs` | proofs about the modules they are named after | |
| `EventJournalProofs` | proofs about `EventJournal` and `JournalConsumer` | |
| `ModuleOperationsProofs` | proofs about `ModuleOperations` | `ModuleVersionsProofs` |
| `PluginReplicasProofs` | `PluginManager` implements `ReplicatedView`; its types; proofs about `PluginCapabilities` | `PluginManagerProofs` |
| `MC...` | constants for TLC | |

### EventJournal

A transaction is split exactly where another one can observe or disturb it.

* `WriterDecide`, `WriterAllocate`, `WriterCommit`, `WriterCommitSkipped`,
  `WriterRollback`: `journalTransaction.Commit`. A plugin host's writer reads the
  journaling decision under the shared advisory lock (`HoldsShared`), takes its
  cursors under the head row lock (`HeadLockFree`) and commits. Changes of a
  Core-only server skip the journal and take no lock.
* `ChangeSubscription`, `StartReplica`, `StopReplica`: Plugin Manager changes and
  `ReconcileExtensionResourceJournal` under the exclusive lock; a crash rolls back.
* `ReadAcknowledge` / `ReadFromOldest`, then `ReadPage` or `ReadFails`: the two
  transactions of `ReadExtensionResourceEvents`.
* `PruneScan`, then `PruneDelete` or `PruneEnds`: a retention run reads its bound in
  one statement and deletes in a later one.
* `changes`, `total`, `issued`, `lastPage` are history variables: what was
  committed, and which history each returned cursor stands for.

Organizations share no row, so one stands for each. Two entries of one Module or
Environment differ only in whether a consumer's frozen scope contains them.

### JournalConsumer

The plugin is not part of the repository. `Inventory` is
`ReadExternalOperationInventory`, one repeatable-read snapshot; `CursorExpired` is
the 409 of `pluginResourceEventError`. `CursorFirst` chooses the order of a
rebuild.

### EnvironmentAdmission

Every Core transaction holds the Environment's advisory lock, so each is one step.
`DpPrepare`, `DpStart`, `DpSeal`, `DpCommit` and `DpFinish` are the Data Plane,
external to the repository and modelled from the handlers that serve it: it asks,
starts on an answer, gives up for good, or executes. Authorizations may arrive
after the Data Plane gave up. `Lookup` and `Complete` are the two halves of
`ReconcilePluginDeployment`, so a receipt is used after it may have changed.
`ReadEpochToCreate` / `ReadEpochToReconcile`, `ReadStatus`, `ReadActive`,
`WriteProtection` are the evidence handlers, one remote read per step. A Pin's
`assumed` is history: it was reactivated because an override failed, without
evidence of the present. Its `quiet` is history too: the capture of its evidence began
while nothing was unresolved, which the code does not look at.

### ModuleVersions

Every command of `model/module_version_management.go` locks the Module's row (the
metadata update is one statement) and commits state, events and receipt together, so a
command is one step: `PublishCoreModuleVersion`, `PublishStableModuleVersionSuccessor`,
`MakeDefault` (promote and restore) and `Withdraw` (deprecate and mark defective) of
`TransitionCoreModuleVersion`, `SetModuleCatalogueStatus`,
`UpdateModuleCatalogueMetadata`, `AcquireModuleOperationReservation`,
`ReleaseModuleOperationReservation`. A SemVer is its precedence; a prerelease and a
legacy version are sets of versions.

The client is not atomic. `Send` builds a command from what the client reads, `Arrive`
executes it later, `GiveUp` drops it, `Prompt` is a client that is served at once. A
command that commits leaves a receipt (`StoreModuleCoreCommand`), so a repeated copy
changes nothing; a refused one leaves none and may be sent again, which is a command
still outstanding. `served` and `lastServed` are history: which versions have been
Default, and which was last. A command's `seen` is history too: what its client read.

### ModuleOperations

`ApplyExternalModuleOperation` is one transaction under the grant's, the operation's
and the Module's locks: `Reserve`, `Promote`, `Restore`, `ReleaseOperation`, each behind
`GrantAllows` and, except for reserve, `SameFence` and `HoldsLease`. `PrepareGrant` and
`ChangeGrant` are `ApplyExternalGrantCommand`. `Lease(o, f)` is the reservation identity
derived from the operation and its fence. Users act on the same Module through
`UserCommand`, `UserAcquire` and `UserRelease`: a reservation stops archiving and other
reservations, not lifecycle changes. `maker` (who made the Default) and a command's
`overtaken` (its grant has changed since it was sent) are history.

### PluginManager

An operator's command is one transaction under the lock of `plugin_manager_state` that
requires the revision its sender read (`Execute`), so it is one step: `CreateInstallation`,
`Transition` (disable, enable, reinstall, purge), `Uninstall`, `Upgrade`,
`SetOrganizationMode`, `PutEnablement`, `RemoveEnablement`, `ImportEntitlementBundle`. A
command that expects another revision or repeats a key changes nothing.

Three things take several steps. An activation reads the running plugin outside every
transaction (`ReadStatus`), then commits (`Activate`) or is refused (`AbandonActivation`);
the plugin is operated apart from Core, so it may report anything. The creation of an
organization holds the lock from `BeginOrganization` to `CommitOrganization`; after it IAM
makes the first administrator (`SettleOrganization`) or the organization is discarded. A
server whose plugin host is off creates and discards beside the lock and enables nothing
(`CreateWithoutHost`, `DiscardWithoutHost`: `api/orgs.go:130` and `:204`). An
effect shares the rows of its installation and enablement from `BeginEffect` to
`CommitEffect`; it starts from what a replica's snapshot shows, which may be old. `RowFree`,
`EnablementFree` and `RowSharable` are these row locks.

A replica refreshes in two steps, `LoadSnapshot` (one repeatable-read transaction) and
`Replace`, under a mutex of its own; several callers compete for it. `Restart` empties its
registry. `work` is one value per organization for what `UnsettledPluginWork` counts.
`skipped` is history: why the installation that serves all organizations does not serve this
one, which is the plugin host being off, the limit of the licence, or a removal through an
earlier installation. Setting the mode again forgets it.

`ReplicatedView` is instantiated with `view <- ServedView`, `shown <- snapshot` and the
copies that a replica's callers hold for `fetched`.

### PluginCapabilities

`StartReconcile` is the first read, `LockCapabilities` the advisory lock and the second
read, `Register`, `FailToRegister` and `TimeOut` one organization's calls to IAM,
`CommitReconcile` the recorded outcomes. IAM is external: it may refuse, its answer may be
lost (`Register` with a failure), or it may perform a request after Core stopped waiting
(`LateReplace`). A catalogue is named by the installation and package it came from.

### PluginEntitlements

`Inspected`, `Covering` and `Forward` are the decision of `DecidePluginEntitlementTx`,
`Observed` what it leaves on the bindings. An effect reads the clock before it waits for a
lock (`BeginEffect`), decides (`Admit`, `Deny`) and holds the import guard and the bindings'
locks until it ends. What it observed is not visible before. A denied effect commits what
it observed. `BeginSweep` reads its candidates without a lock, `VisitBinding` looks at each
again under its lock. `MoveClock` sets the clock of a Core process to any value. `expired`
is history: the grants that a decision or the sweep has told or recorded as expired. The
operator's status view (`model/plugin_entitlement_status.go:82-133`) computes expiry from the
clock, records nothing and is not part of it: what it shows can change when the clock goes
back.

### EnvironmentObservation

A submission is two transactions with the Data Plane in the second: `RecordIntent` commits
the intent, `CallDataPlane` reacquires authority and sends, `CommitCall` stores the receipt;
`Abandon` is a refusal, a timeout or a crash, after which the call may still be on its way
(`calls`). A resolution commits its closure before it asks (`Close`, `AskDataPlane`,
`CommitResolution`); where no intent exists Core settles it on its own. `Older` submitters
run a Core version without closures: the insert trigger of migration 53 is all that stops
them. The Data Plane is external: it decides a request once, and a resolution of an unknown
request leaves a tombstone.

## 3. Runs

| Run | Shows |
| --- | --- |
| `event_journal` | two replicas of a uniform fleet, events of two scopes, retention of the first entry: `RetainedContiguous`, `CursorCoverage`, `PageComplete`, `JournalFollowsSubscription` |
| `journal_consumer` | one replica with retention, an upgraded database, transactions of two entries: `NothingSilentlyMissed` for a consumer that takes its cursor first, `RetentionKeepsHolders`, `TypeOK` |
| `admission_guards` | an ordinary Deployment, a destroy and a dispatch against a Pin: `OneExecution`, `ResolvedIsOver`, `NoOrphanGuard`, `EvidencedPinsProtect`, `ApprovalsCurrent` |
| `pin_overrides` | a forward and a rollback dispatch beside an ordinary Deployment, a lifecycle change: `QuietEvidenceIsTrue`, `TypeOK` |
| `module_versions` | three stable versions and a release candidate, a reservation and a slow client: `DefaultIsCurrent`, `ArchivedIsUnreserved`, `PromotionAdvances`, `RestoredHasServed`, `AppliesToWhatWasRead`, `TypeOK` |
| `module_operations` | an operation with two fences and three grant revisions beside users: `LeasesAreOwned`, `AppliesUnderItsGrant`, `AppliesUnderItsLease`, `OpTypeOK` |
| `plugin_manager` | two installations, beside two packages and two effects in one organization, or beside two organizations created with the plugin host on or off and licences without a limit or with one of one: `EffectsAreCurrent`, `WorkKeepsItsInstallation`, `AllServesEveryOrganization`, `ServesWhatItProved`, `EnablesWithinLimit`, `TypeOK` |
| `plugin_replicas` | a replica with a ticker and a command that both refresh, and a restart: `ShowsOneRevision` (refinement), `ReplicasCatchUp` (liveness) |
| `plugin_capabilities` | a periodic reconciler and one after a command, two faults: `RegistrationNeverGoesBack`, `CapabilitiesFollow` (liveness) |
| `plugin_entitlements` | two grants of an organization and one of the installation, a clock that goes back: `WorksUnderCoveringGrant`, `ExpiredStaysExpired`, `ExpiryIsRecorded` (liveness) |
| `observations` | an observation with two bodies, a redeployment, a current and an older submitter: `TerminalIsTrue`, `SendsUnderCurrentGrant`, `ClosuresResolve` (liveness) |
| `stale_evidence` | violates `EvidencedPinsAreEffective`: evidence captured while a Deployment is unresolved |

Bounds. Two changes and a head of four (`journal_consumer`) allow: journal, pause,
skip, resume, journal again, with a cursor from each period. The head of two in
`event_journal` is one entry from each of two racing writers, or an entry and a
gap. Two replicas are what the locks are about, and one plugin switches the
subscription on and off; the theorems cover every number. `PageLimit` 1 makes each page
full or empty. A page of scope `s1` beside events of `s2` reaches the cursor rule
for partly matching pages. `MaxAged` leaves out the last cursor, so a prune
can stop in the middle. In `EnvironmentAdmission`, three lifecycle events are
create, override and its outcome, and the fourth is the rollback's; three grant revisions are
prepare, activate and one command that moves the fence. In `ModuleVersions`, three stable versions with five
revisions each and six Module revisions are what it takes to promote two versions,
restore the first, publish a third between them, restore the second and then try to
promote the third, which only the floor at promotion refuses. One slow client suffices,
because commands of different clients meet only through the Module's state; the
theorems cover every number. In `ModuleOperations`, two fences are a lease, its release
and the next lease; three grant revisions are prepare, activate and activate again
(or suspend). In `plugin_manager`, the constraint
`OneOrganizationOrPackage` unites two kinds of histories. With effects, six revisions are
install, activate, an enablement and three commands that disturb them; two installations are a
plugin that is purged and installed again. With several organizations and no effects, a new
installation in mode all after a purge and a removal through the old one are the seventh
revision, and nine leave room for organizations before and after; two organizations pass a
limit of one. The theorems need no such bound. Five
revisions in `plugin_replicas` and `plugin_capabilities` are install, activate, enable,
upgrade and activate again. The clock of three values in `PluginEntitlements` is before, in
and after the grace of a grant. In `EnvironmentObservation`, two grant revisions are a grant
and its replacement or revocation. Deadlock is checked only in `plugin_entitlements`;
elsewhere bounded histories end.

### Fairness

* `PluginManager`: a replica's ticker calls `Refresh` for ever (`Manager.Run`), and a call
  that is made for ever reads the database at some time (strong fairness of `LoadSnapshot`,
  because the mutex comes and goes); a snapshot that was read is published. Nothing is
  assumed of operators.
* `PluginCapabilities`: `runEvery` starts the periodic reconciliation for ever; a waiter
  for the lock gets it if it is free again and again; a call to IAM that is made for ever
  succeeds at some time; transactions end. Crashes and late requests are finite.
* `PluginEntitlements`: `runEvery` sweeps for ever and fails finitely often; a sweep that
  waits for a lock gets it; transactions of effects end. The clock need not advance:
  `ExpiryIsRecorded` speaks of a binding that stays past its grace.
* `EnvironmentObservation`: the plugin repeats an unanswered resolution, as the
  `close_requested` answer asks it to; the Data Plane answers one; transactions end;
  resolutions fail finitely often. Nothing is assumed of start calls, which may be lost.

### Counterexamples

`stale_evidence`: the epoch advances at authorization and is captured without a look at
unresolved guards. A Deployment authorized before and settled during evidence collection is
invisible to the comparison. Evidence whose capture begins while nothing is unresolved is
true (`QuietEvidenceIsTrue`, `pin_overrides`).

Six more configurations state a sentence of the code or of the documentation that does not
hold; TLC prints the trace (`tlc -config X.cfg M`).

* `JournalMixedFleet.cfg`, `MCEventJournal`, `ReadResumesJournaling`:
  `docs/plugin-event-boundary.md:54-56` says journaling resumes at the next journal write or
  read of a subscribed server. Writes skip and reads do not look. The same page advises
  against mixed fleets.
* `JournalResync.cfg`, `MCJournalConsumer`, `NothingSilentlyMissed`: the 409 answer
  (`api/plugin_events.go:100`) asks to rebuild and then to read without a cursor. A change
  made while the journal paused in between is missed; the page starts after the gap and
  nothing tells the consumer. Cursor first, inventory second is safe (`journal_consumer`).
* `FailedOverride.cfg`, `MCEnvironmentAdmission`, `ActivePinsProtect`:
  `docs/environment-admission-guards.md:69-70` says evidence readers compare the epoch when
  writing. Failed and cancelled evidence is written without a comparison, so a Pin becomes
  active beside a running Deployment of another version.
* `DeprecatedDefault.cfg`, `MCModuleVersions`, `PointerNamesDefault`: the lifecycle table
  allows Default to Deprecated, and only a defective Default clears the pointer
  (`model/module_version_management.go:570`). The Module then points at a Deprecated version,
  and the statement that deprecates the replaced Default (533-534) finds no row, so no later
  promotion commits.
* `OperationRestore.cfg`, `MCModuleOperations`, `RestoresOwnPromotion`: the refusal at
  `model/external_module_operations.go:138` says a restoration undoes only this operation's
  promotion. The code compares versions, not who promoted them: a user who promotes the
  operation's target sees the operation's restore undo it.
* `PurgedRemoval.cfg`, `MCPluginManager`, `AllKeepsEnablements`: the comment at
  `pluginmanager/commands.go:755-757` says an installation that serves all organizations
  keeps an enablement for every organization. The check looks at the installation the
  command names, the deletion at the plugin. A removal through a purged installation deletes
  the enablement of the present one. `AllServesEveryOrganization` therefore names it beside
  the two documented reasons.

## 4. Proofs

Every safety property of a passing run is a theorem, for every value of the constants that
the named assumptions allow. The assumption of a model (`ConstantAssumption`,
`ModuleAssumption`, ...) gives its constants their kinds and says which of them differ.
Where a theorem has a further hypothesis it is named below. Before each proof TLC checked
the inductive invariant on the instance of the run.

### EventJournalProofs

`EventJournalProofs` proves, for every value of the constants with `~MixedFleet`:
`TypeCorrect`, `NoSilentSkip` (`CursorCoverage`), `NoHoles` (`RetainedContiguous`)
and `SubscriptionFollowed` (`JournalFollowsSubscription`). The only assumption is
`ConstantAssumption`.

The inductive invariant `IInv` is `TypeOK /\ FleetInv /\ JournalInv`.
`CursorCoverage` alone is not inductive:

* a commit could add a skipped change under a valid cursor, so `WritersAgree` says a
  writer's decision is the journal state until it commits (the shared lock), and
  `UniformFleet` that Core-only servers run only while the journal is off;
* a commit's entries follow every issued cursor because of `OneAllocator` (the head
  row lock) and `HeadBounds`;
* a resumed journal's gap is above every cursor (`HeadBounds`), and one that starts at
  zero has issued none (`NothingIssuedBeforeStart`);
* a full page moves the cursor onto an entry, and `HistoryOrdered` says that what was
  committed after it has higher cursors, is retained, and is not skipped.

The lemmas follow the argument: `PageEnds`, `PruneBound` and `LowestIsCursor` say what
the page and retention queries return (largest and smallest elements exist by
well-foundedness of the naturals), `TypeStep`, `FleetStep` and `JournalStep` that every
step keeps each part.

Three more theorems rest on `IInv`, also with `~MixedFleet`:

* `PagesAreComplete` (`PageComplete`). `FirstOfTakesSmallest` says that a query ordered by
  cursor with a limit returns the smallest cursors: were one skipped, the smallest skipped
  one would have fewer than `limit` predecessors and be taken. So a page that stops at the
  limit has everything up to its last entry, and one that does not has everything up to the
  head it saw. Afterwards every new entry is above the returned cursor (`PagesBounded`).
* `RetentionRespectsHolders` (`RetentionKeepsHolders`), an action property. `ScansHold` says
  that the bound a scan read is at most what each counted consumer has acknowledged, at any
  later time too, because acknowledgements never decrease (`AcknowledgementsAdvance`).
* `CursorFirstIsComplete` (`NothingSilentlyMissed`), with the hypothesis `CursorFirst`: the
  protocol that takes its cursor before the inventory. It is not the order that the 409 answer
  asks for: `JournalResync.cfg` violates the property in that order. `ConsumerUsesJournal` proves first that the composition
  implements `EventJournal`, so the journal's theorems hold of it, and that a consumer's
  position is a cursor it was issued (`PositionIssued`). `CoverageSurvives` is the argument:
  what an issued cursor still accounts for, given the changes its holder knows, no journal
  step takes away, and a page moves from the cursor to what the holder knows.

### ModuleVersionsProofs

`ModuleVersionsProofs` proves, for every set of versions, legacy ones and versions of
equal precedence included, every set of reservations and of clients: `TypeCorrect`,
`OneDefault` (`DefaultIsCurrent`), `ArchiveExcludesReservation`
(`ArchivedIsUnreserved`), and the action properties `PromotionsAdvance`,
`RestorationsReturn` and `LateCommandsApplyToWhatWasRead`. The only assumption is
`ModuleAssumption`. What the inductive invariant adds:

* `HeadIsLastServed`: the code takes the floor from the pointer, or from the last event
  Default to Defective when the pointer is empty; both agree with the version served
  last, so the check at promotion compares with the right one;
* `PointersServed`: the previous pointer names a version that has been Default, so
  restoring it restores one;
* `ReadsAreRevisioned`: a command in flight whose expected revision still matches read
  the present state. It is kept because every step that changes a status, the catalogue
  status or the pointer raises the revision of that row (`Revisioned`), and
  `UnpublishedIsNew` makes that true of a publication.

One lemma per command (`PublishStep`, `SuccessorStep`, `MakeDefaultStep`,
`WithdrawStep`, `CatalogueStep`, `EditStep`, `ReservationStep`) shows the core invariant
and `Revisioned`; `ExecuteStep` collects them, `BecomesDefault` says which command makes
a version Default.

### ModuleOperationsProofs

For every set of operations, reservations and clients: `OperationTypes` (`OpTypeOK`),
`LeasesHaveOwners` (`LeasesAreOwned`), `CommandsKeepTheirGrant` (`AppliesUnderItsGrant`) and
`CommandsKeepTheirLease` (`AppliesUnderItsLease`). The commands of plugins change the same
rows as those of users, so `ModuleInvariantsSurvive`, `OperationsAdvance` and
`OperationsRestore` repeat the results of `ModuleVersionsProofs` for the composition. The
invariant adds:

* `FencesBounded`: the fence of an operation names one of its leases, and a grant without a
  row has revision 0;
* `CommandsInFlight`: the grant fence of a command on its way is not ahead of the grant, and
  is behind it once the grant changed. It makes `AppliesUnderItsGrant` follow from one
  comparison, whatever happened to the grant meanwhile.

### EnvironmentAdmissionProofs

For every set of admissions, dispatches, operations, Pins and evidence readers, from
`ConstantAssumption`:

* `TypeCorrect`, from `Typed`, which gives the rows the domains that `TypeOK` leaves out;
* `ExecutionsAreExclusive` (`OneExecution`). What excludes is not the execution but the
  guard or the dispatch behind it: `OneHolder` says that at most one Deployment has an
  unresolved guard, an active dispatch, or a withdrawn one that still executes. `AdmissionFlow` and `DispatchFlow` relate the
  record of each to the Data Plane, and `ExecutingHolds` concludes that what executes
  holds. A settlement frees the place only because the flows say the execution is over,
  or can no longer begin;
* `ResolutionsAreTrue` (`ResolvedIsOver`) and `AbsenceStaysClosed` (`NoOrphanGuard`), from
  the same two flows;
* `PinsProtect` (`EvidencedPinsProtect`). `HoldersRespectPins` says it of every holder, not
  only of what executes: a holder was admitted against the Pins and may start at any time
  later. A Pin is written from evidence only while there is no holder, and what an override
  admits belongs to the operation that the Pin names;
* `ApprovalsStayCurrent` (`ApprovalsCurrent`). Activations have increasing numbers
  (`ActivationsBounded`), and a new one needs that nothing is unresolved;
* `QuietEvidenceHolds` (`QuietEvidenceIsTrue`). It is about the code as it is: readers capture
  the epoch at any time, and the theorem speaks of the Pins whose capture happened to begin
  while nothing was unresolved. `stale_evidence` shows what happens to the others.
  `EvidenceCurrent` says that evidence of a quiet capture is true as long as the epoch is
  unchanged; `PinsTrue` carries it from the writing of a Pin through overrides and destroys.

### PluginManagerProofs

`PluginManagerProofs` proves, for every set of packages, installations, organizations,
effects and replicas: `EffectAuthority` (`EffectsAreCurrent`), `WorkStaysReachable`
(`WorkKeepsItsInstallation`), `EveryOrganizationServed` (`AllServesEveryOrganization`) and
`ActivationProves` (`ServesWhatItProved`), from `PluginAssumption`. The invariant adds to
the properties:

* `Ownership`: one installation of the plugin is live at a time, and only a served one has
  enablements or mode all. Without it, an uninstall could strand the work of another
  installation, or a new installation inherit enablements;
* `CreationInv`: what the creation of an organization read under the Plugin Manager's lock
  (the organization does not exist, and which installation serves all) still holds when it
  commits, since every command needs the lock;
* `SnapshotInv` and `ActivationInv`: snapshots and activations name installations, so an
  effect begun from an old snapshot does.

`EveryOrganizationServed` names every organization that mode all leaves out: the two kinds that
`pluginmanager/organizations.go:30-33` documents (the plugin host was off, the limit was
reached) and the one of `PurgedRemoval.cfg`. An organization created without the lock is in none
of the plans that `CreationInv` speaks of (`WithoutHostStep`).

`KeepsEffects` is the argument about locks: a step that changes the rows of an installation
or enablement only while no effect shares them keeps `EffectsAreCurrent`. One lemma per
command follows.

`LimitHolds` (`EnablesWithinLimit`) has the hypothesis `IsFiniteSet(Organizations)`: the code
counts rows. The creation of an organization decides the limit long before it commits, so
`PlansWithinLimit` says that what it decided still holds: every other step that enables, or
that changes a limit, needs the lock it holds.

### PluginReplicasProofs

`PluginReplicasProofs` proves `ImplementsReplicatedView` (`ShowsOneRevision`): `Init` maps
to `Init` and every step to a step or a stutter. `StepKinds` says that every step that
changes what is served has a revision of its own, for which `PlanInv` is needed: the
creation of an organization writes the revision it read plus one, and holds the lock since.
`ReplicaInv` orders what a replica shows, what it fetched and the present, and says that one
caller refreshes at a time; without it a late `Replace` would go back.

`PluginTypes` (`TypeOK` of `PluginManager`) and `RegistrationAdvances`
(`RegistrationNeverGoesBack`, of `CapSpec`) use that the package of an installation only
grows. For the second, `HeldIsOld` says that nothing IAM holds, or will hold when it performs
a request that was left behind, is later than the package of its installation, nor than the
package that the reconciler with the lock read under it; `OneLocked` that one has the lock.
The property is about reconcilers: a request that IAM performs after Core stopped waiting is
exempt, and may set the catalogue back until the next reconciliation (`CapabilitiesFollow`).

### PluginEntitlementsProofs

For every set of organizations, grants and effects, from `EntitlementAssumption`:
`WorkKeepsItsGrant` (`WorksUnderCoveringGrant`) and `ExpiryIsFinal` (`ExpiredStaysExpired`).

* `DecisionsHold`: a working effect holds the rows of all bindings it inspected that have a
  grant, no two effects hold the same row, and what it wrote is what it would decide now
  (`Settled`). An import that replaces, revokes or outranks the grant needs one of these
  rows.
* `ExpiredArePast`: the time evaluated on a binding is past the grace of every expired grant
  bound to it, and an expired grant that is bound no more cannot be bound again, because of
  its sequence. The clock going back does not matter: a decision takes the later of the
  clock and the evaluated time. The theorem covers what Core acts on, not the operator's
  status view.

### EnvironmentObservationProofs

`EnvironmentObservationProofs` proves `TerminalAnswer` (`TerminalIsTrue`) and
`SendAuthority` (`SendsUnderCurrentGrant`) from `ObservationAssumption`, older processes
included. `IntentPrecedesSend` says nothing reaches the Data Plane without a committed
intent; `ClosureInv` that a request settled as not started has no intent, or was skipped or
sealed by the Data Plane. The first is what makes Core's own settlement sound, and the
trigger on insert is what keeps it: a closure without an intent never gets one.

### Only model-checked

The four liveness properties: `ReplicasCatchUp`, `CapabilitiesFollow`, `ExpiryIsRecorded` and
`ClosuresResolve`. Liveness under fairness, ENABLED and induction over data are out of the
prover's reach. The counterexample configurations are TLC's as well.

## 5. Plan

1. `EventJournal`, `JournalConsumer`, `EventJournalProofs` (done).
2. `EnvironmentAdmission`, `EnvironmentAdmissionProofs` (done). Left: bulk Pins and the
   removal of Pins at the end of an Environment's deletion, which reads them without the
   Environment's lock (`api/envs.go:215`).
3. `ModuleVersions`, `ModuleOperations` with their proofs (done). Left: lifecycle
   transactions and operations over several Modules with their lock order.
4. `PluginManager`, `ReplicatedView`, `PluginCapabilities` with their proofs (done). Left:
   two plugins that compete for a registration.
5. `PluginEntitlements` with its proofs (done). Left: `PluginManager` composed with it, so
   that an effect takes both locks and a limit comes from a grant.
6. `EnvironmentObservation` with its proofs (done).
7. `OperationGrants`: commands exactly once by request identity, published events. Then
   `ModuleDrafts`, the deletion of Environments with the Data Plane, and the catalogue.

An abstract specification still worth stating is a fence: one holder at a time, and a
holder's command takes effect only while it holds. Grants, module leases and dispatches
are its implementations; `LeasesHaveOwners`, `CommandsKeepTheirLease` and
`ExecutionsAreExclusive` are the facts its refinement proofs would rest on.

## 6. Not modelled

* Generated code: `shared/genclient`, `internal/api/server.gen.go` and the two
  `observationapi` packages are 73,000 of the repository's 102,000 lines. They encode and
  decode requests and hold no state. The map covers hand-written code only.
* Signatures and package digests (cryptography), JSON schema comparison (resource types,
  conformance), SemVer parsing, HTTP validation and authorization answers: a guard that
  rejects has no effect, an answer that matters is a nondeterministic choice.
* Deployment outcome acknowledgements: Core checks permissions and forwards, without state.
* Catalogue resolution and rules (`api/catalogue.go`): the catalogue keeps the rules of the
  highest specificity for each kind of resource, a pure function over one read; in the plan
  as an operator checked against a reference definition.
* Organizations beyond their creation, projects, providers, runners, environment types:
  single-row CRUD whose integrity is the database's foreign keys.
* Module drafts and their tests, beyond the admission guards they share: in the plan.
* Of the modelled components: package pushes, identities and status observations of the
  Plugin Manager; several issuers and features of a licence, and the
  operator's view of its status; the query of observation
  targets and the deadline of a request; receipts of repeated commands, whose repetition
  changes nothing.
* Message delivery after the outbox, vault, tokens, configuration, logging, pagination and
  the command-line tools.
* A guard of the Data Plane that nobody settles holds its Environment: the code releases
  none on its own, so no liveness property is stated for admissions.

PostgreSQL lock waits and deadlock detection are not modelled; a transaction is a step
or is split as described. Everything else that is left out is in the plan, and in
`PROJECT.json` with its reason.
