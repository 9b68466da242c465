--------------------------- MODULE ModuleVersions ---------------------------
(***************************************************************************)
(* The lifecycle of the versions of one Module                             *)
(* (internal/model/module_version_management.go): users publish versions,  *)
(* promote, restore, deprecate and mark them defective, archive the        *)
(* Module, change its metadata, and operations reserve it.                 *)
(*                                                                         *)
(* Every command locks the Module's row FOR UPDATE first and commits its   *)
(* state, events and receipt together, so a command is one step and one    *)
(* Module stands for each.  What is not atomic is the client: it reads     *)
(* revisions, sends a command that expects them, and the command arrives   *)
(* later, perhaps after others, perhaps again.  A command that commits     *)
(* leaves a receipt under its idempotency key, so further copies of it     *)
(* return the stored response; one that is refused leaves nothing and may  *)
(* be sent again.                                                          *)
(***************************************************************************)
EXTENDS Integers

CONSTANTS
    Versions,      \* version identities of the Module
    Precedence,    \* SemVer precedence of a version; build metadata gives equals
    Prereleases,   \* versions with a prerelease component
    Legacy,        \* opaque versions the v0 migration kept without SemVer
    NoVersion,     \* NULL for a version pointer
    Reservations,  \* reservation identities (namespace, operation)
    Clients,       \* clients whose commands arrive late or again
    NoCommand,     \* a client without an outstanding command
    MaxRevision,   \* bound: resource_version of a version
    MaxModuleRev   \* bound: resource_version of the Module

ASSUME ModuleAssumption ==
    /\ Precedence \in [Versions -> Nat]
    /\ Prereleases \subseteq Versions
    /\ Legacy \subseteq Versions
    /\ NoVersion \notin Versions
    /\ MaxRevision \in Nat
    /\ MaxModuleRev \in Nat

VARIABLES
    status,       \* definition_versions.semantic_status ("none": no row)
    rev,          \* definition_versions.resource_version
    migration,    \* definition_versions.migration_generation
    current,      \* definitions.current_default_version_uuid (and latest_version_id)
    previous,     \* definitions.previous_default_version_uuid
    generation,   \* definitions.managed_default_generation
    lastDefect,   \* the latest lifecycle event from default to defective
    catalogue,    \* definitions.catalogue_status
    mrev,         \* definitions.resource_version
    reservation,  \* module_operation_reservations: "none", "active" or "released"
    pending,      \* the command each slow client has outstanding
    served,       \* history: the versions that have been Default
    lastServed    \* history: the version that was Default most recently

lifecycleVars == <<status, rev, migration, current, previous, generation,
                   lastDefect, mrev, served, lastServed>>
vars == <<lifecycleVars, catalogue, reservation, pending>>

-----------------------------------------------------------------------------

Statuses == {"none", "proposed", "default", "deprecated", "defective"}
Generations == {"v0", "v1", "managed"}

\* ValidateLifecycleTransition: what a version's status may become.
Allowed ==
    [from \in Statuses |->
       CASE from = "proposed" -> {"default", "deprecated", "defective"}
         [] from = "default" -> {"deprecated", "defective"}
         [] from = "deprecated" -> {"default", "defective"}
         [] OTHER -> {}]

\* managedDefaultLineageHead: the Default, or else the last one found defective.
LineageHead == IF current # NoVersion THEN current ELSE lastDefect

\* ValidatePublicationVersion against the head; a legacy head has no SemVer.
AboveHead(v) ==
    LineageHead \in Versions \ Legacy => Precedence[v] > Precedence[LineageHead]

\* A row exists and the caller's revision of it is current.
Unchanged(v, expected) == status[v] # "none" /\ rev[v] = expected

Reserved == \E i \in Reservations : reservation[i] = "active"

-----------------------------------------------------------------------------
(* Publication.                                                            *)

\* PublishCoreModuleVersion: the unique indexes allow one Proposed version
\* and each SemVer once.
PublishCoreModuleVersion(v) ==
    /\ catalogue = "active"
    /\ v \notin Legacy
    /\ AboveHead(v)
    /\ status[v] = "none"
    /\ \A w \in Versions : status[w] # "proposed"
    /\ status' = [status EXCEPT ![v] = "proposed"]
    /\ rev' = [rev EXCEPT ![v] = 1]
    /\ migration' = [migration EXCEPT ![v] = "managed"]
    /\ UNCHANGED <<current, previous, generation, lastDefect, mrev, served, lastServed>>

\* PublishStableModuleVersionSuccessor: deprecates the exact Proposed
\* prerelease and publishes a higher stable version in its place.
PublishStableModuleVersionSuccessor(p, v, expected) ==
    /\ Unchanged(p, expected)
    /\ status[p] = "proposed"
    /\ p \in Prereleases
    /\ v \notin Prereleases \cup Legacy
    /\ Precedence[v] > Precedence[p]
    /\ catalogue = "active"
    /\ AboveHead(v)
    /\ status[v] = "none"
    /\ rev[p] < MaxRevision
    /\ status' = [status EXCEPT ![p] = "deprecated", ![v] = "proposed"]
    /\ rev' = [rev EXCEPT ![p] = @ + 1, ![v] = 1]
    /\ migration' = [migration EXCEPT ![v] = "managed"]
    /\ UNCHANGED <<current, previous, generation, lastDefect, mrev, served, lastServed>>

-----------------------------------------------------------------------------
(* TransitionCoreModuleVersion.                                            *)

\* The checks every transition passes.
MayTransition(v, target, expected) ==
    /\ Unchanged(v, expected)
    /\ v \notin Legacy
    /\ target \in Allowed[status[v]]
    /\ target = "default" => v \notin Prereleases
    /\ catalogue = "archived" => target = "defective"
    /\ rev[v] < MaxRevision

\* Mutant: any Deprecated version can be restored.
MayRestoreAny(v) == TRUE

\* Only the immediately preceding Default is restored.
MayRestore(v) == previous = v

\* Mutant: the floor is checked at publication only.
PublishedAboveHead(v) == TRUE

\* The floor is checked again: the Default may have changed since publication.
MayPromote(v) == AboveHead(v)

\* Mutant: the replaced Default keeps its revision.
ReplacedAtSameRevision(v) == [rev EXCEPT ![v] = @ + 1]

\* The promoted version and the Default it replaces both change.
PromotedRevisions(v) ==
    [w \in Versions |-> IF w \in {v, current} THEN rev[w] + 1 ELSE rev[w]]

\* Mutant: the replaced Default keeps its status.
ReplacedStaysDefault(v) == [status EXCEPT ![v] = "default"]

PromotedStatuses(v) ==
    [w \in Versions |-> CASE w = v -> "default"
                          [] w = current /\ w # v -> "deprecated"
                          [] OTHER -> status[w]]

\* Mutant: the label is numbered like the generation.
NumberedLabel == IF generation = 0 THEN "v1" ELSE "v2"

\* The first managed Default is labelled v1.
ManagedLabel == IF generation = 0 THEN "v1" ELSE "managed"

\* promote and restore: the replaced Default becomes Deprecated and previous.
\* The statement that deprecates it matches only a row that still is Default.
MakeDefault(v, expected) ==
    /\ MayTransition(v, "default", expected)
    /\ status[v] = "proposed" => MayPromote(v)
    /\ status[v] = "deprecated" => MayRestore(v)
    /\ current # NoVersion => status[current] = "default" /\ rev[current] < MaxRevision
    /\ mrev < MaxModuleRev
    /\ status' = PromotedStatuses(v)
    /\ rev' = PromotedRevisions(v)
    /\ IF status[v] = "proposed"
         THEN /\ generation' = generation + 1
              /\ migration' = [migration EXCEPT ![v] = ManagedLabel]
         ELSE UNCHANGED <<generation, migration>>
    /\ current' = v
    /\ previous' = current
    /\ mrev' = mrev + 1
    /\ served' = served \cup {v}
    /\ lastServed' = v
    /\ UNCHANGED lastDefect

\* deprecate and mark-defective.  Only a Default that becomes Defective
\* clears the Module's pointer.
Withdraw(v, target, expected) ==
    /\ target \in {"deprecated", "defective"}
    /\ MayTransition(v, target, expected)
    /\ status' = [status EXCEPT ![v] = target]
    /\ rev' = [rev EXCEPT ![v] = @ + 1]
    /\ IF status[v] = "default" /\ target = "defective"
         THEN /\ mrev < MaxModuleRev
              /\ current' = NoVersion
              /\ mrev' = mrev + 1
              /\ lastDefect' = v
         ELSE UNCHANGED <<current, mrev, lastDefect>>
    /\ UNCHANGED <<migration, previous, generation, served, lastServed>>

TransitionCoreModuleVersion(v, target, expected) ==
    \/ target = "default" /\ MakeDefault(v, expected)
    \/ Withdraw(v, target, expected)

-----------------------------------------------------------------------------
(* The catalogue entry and its reservations.                               *)

\* Mutant: archiving does not look at reservations.
NothingBlocks == TRUE

\* An active reservation blocks archiving.
NoReservations == ~Reserved

\* SetModuleCatalogueStatus; asking for the present status changes nothing.
SetModuleCatalogueStatus(target, expected) ==
    /\ mrev = expected
    /\ catalogue # target
    /\ target = "archived" => NoReservations
    /\ mrev < MaxModuleRev
    /\ catalogue' = target
    /\ mrev' = mrev + 1
    /\ UNCHANGED <<status, rev, migration, current, previous, generation, lastDefect,
                   served, lastServed, reservation>>

\* UpdateModuleCatalogueMetadata.
UpdateModuleCatalogueMetadata(expected) ==
    /\ mrev = expected
    /\ mrev < MaxModuleRev
    /\ mrev' = mrev + 1
    /\ UNCHANGED <<status, rev, migration, current, previous, generation, lastDefect,
                   served, lastServed, catalogue, reservation>>

\* AcquireModuleOperationReservation: one active reservation per Module, and a
\* reservation identity is used once.
AcquireModuleOperationReservation(i) ==
    /\ catalogue = "active"
    /\ ~Reserved
    /\ reservation[i] = "none"
    /\ reservation' = [reservation EXCEPT ![i] = "active"]

\* ReleaseModuleOperationReservation.
ReleaseModuleOperationReservation(i) ==
    /\ reservation[i] = "active"
    /\ reservation' = [reservation EXCEPT ![i] = "released"]

-----------------------------------------------------------------------------
(* Clients: a command is built from what the client read.                  *)

Publish(v) == [op |-> "publish", version |-> v]
Successor(p, v) ==
    [op |-> "successor", from |-> p, version |-> v, expected |-> rev[p], seen |-> status[p]]
Transition(v, target) ==
    [op |-> "transition", version |-> v, target |-> target,
     expected |-> rev[v], seen |-> status[v]]
ChangeStatus(target) ==
    [op |-> "catalogue", target |-> target, expected |-> mrev,
     seen |-> <<catalogue, current>>]

\* The commands a client can build now: what it asks of a version or of the
\* Module is a change from the status it read.
Publications == {Publish(v) : v \in Versions}
Changes ==
    {Successor(p, v) : p \in {q \in Prereleases : status[q] = "proposed"}, v \in Versions}
      \cup (UNION {{Transition(v, t) : t \in Allowed[status[v]]} : v \in Versions})
      \cup {ChangeStatus(t) : t \in {"active", "archived"} \ {catalogue}}

\* A command arrives.
Execute(c) ==
    \/ /\ c.op = "publish"
       /\ PublishCoreModuleVersion(c.version)
       /\ UNCHANGED <<catalogue, reservation>>
    \/ /\ c.op = "successor"
       /\ PublishStableModuleVersionSuccessor(c.from, c.version, c.expected)
       /\ UNCHANGED <<catalogue, reservation>>
    \/ /\ c.op = "transition"
       /\ TransitionCoreModuleVersion(c.version, c.target, c.expected)
       /\ UNCHANGED <<catalogue, reservation>>
    \/ /\ c.op = "catalogue"
       /\ SetModuleCatalogueStatus(c.target, c.expected)

\* A prompt client reads and is served before anything else happens.
Prompt(c) == Execute(c) /\ UNCHANGED pending

\* A slow client reads now; its command arrives later.  A publication expects
\* nothing, so a late one is a prompt one at its arrival.
Send(k, c) ==
    /\ pending[k] = NoCommand
    /\ pending' = [pending EXCEPT ![k] = c]
    /\ UNCHANGED <<lifecycleVars, catalogue, reservation>>

\* The command of a slow client arrives and commits.
Arrive(k) ==
    /\ pending[k] # NoCommand
    /\ Execute(pending[k])
    /\ pending' = [pending EXCEPT ![k] = NoCommand]

\* The client gives up.
GiveUp(k) ==
    /\ pending[k] # NoCommand
    /\ pending' = [pending EXCEPT ![k] = NoCommand]
    /\ UNCHANGED <<lifecycleVars, catalogue, reservation>>

\* A metadata edit, and the reservation calls of users.
Edit == UpdateModuleCatalogueMetadata(mrev) /\ UNCHANGED pending
Acquire(i) ==
    AcquireModuleOperationReservation(i) /\ UNCHANGED <<lifecycleVars, catalogue, pending>>
Release(i) ==
    ReleaseModuleOperationReservation(i) /\ UNCHANGED <<lifecycleVars, catalogue, pending>>

-----------------------------------------------------------------------------

\* CreateEmptyModule, or a Module whose legacy Default the migration kept.
Init ==
    /\ current \in Legacy \cup {NoVersion}
    /\ status = [v \in Versions |-> IF v = current THEN "default" ELSE "none"]
    /\ rev = [v \in Versions |-> IF v = current THEN 1 ELSE 0]
    /\ migration = [v \in Versions |-> "v0"]
    /\ previous = NoVersion
    /\ generation = 0
    /\ lastDefect = NoVersion
    /\ catalogue = "active"
    /\ mrev = 1
    /\ reservation = [i \in Reservations |-> "none"]
    /\ pending = [k \in Clients |-> NoCommand]
    /\ served = {current} \ {NoVersion}
    /\ lastServed = current

Next ==
    \/ \E c \in Publications \cup Changes : Prompt(c)
    \/ \E k \in Clients, c \in Changes : Send(k, c)
    \/ \E k \in Clients : Arrive(k) \/ GiveUp(k)
    \/ Edit
    \/ \E i \in Reservations : Acquire(i) \/ Release(i)

Spec == Init /\ [][Next]_vars

-----------------------------------------------------------------------------
(* Properties.                                                             *)

\* Every variable has the values its column can hold.
TypeOK ==
    /\ status \in [Versions -> Statuses]
    /\ rev \in [Versions -> Nat]
    /\ migration \in [Versions -> Generations]
    /\ current \in Versions \cup {NoVersion}
    /\ previous \in Versions \cup {NoVersion}
    /\ generation \in Nat
    /\ lastDefect \in Versions \cup {NoVersion}
    /\ catalogue \in {"active", "archived"}
    /\ mrev \in Nat
    /\ reservation \in [Reservations -> {"none", "active", "released"}]
    /\ served \subseteq Versions
    /\ lastServed \in Versions \cup {NoVersion}

\* A version whose status is Default is the one the Module points at, whatever
\* the order of promotions, restorations and withdrawals; so there is one Default.
DefaultIsCurrent == \A v \in Versions : status[v] = "default" => current = v

\* The Module's pointer names a version whose status is Default: promotion's
\* statement that deprecates the replaced Default relies on it.
PointerNamesDefault == current # NoVersion => status[current] = "default"

\* No reservation outlives the archiving of its Module, and none is taken after
\* it: archiving and reserving check each other under the Module's lock.
ArchivedIsUnreserved == catalogue = "archived" => ~Reserved

\* A Proposed version that becomes Default is above the version that was Default
\* most recently, even when that one was withdrawn or restored after the
\* publication; only a legacy Default sets no floor.
PromotionAdvances ==
    [][\A v \in Versions :
         /\ status[v] = "proposed" /\ status'[v] = "default"
         /\ lastServed \in Versions \ Legacy
         => Precedence[v] > Precedence[lastServed]]_vars

\* A version that returns from Deprecated to Default has been Default before: a
\* candidate deprecated unpromoted never comes back.
RestoredHasServed ==
    [][\A v \in Versions :
         status[v] = "deprecated" /\ status'[v] = "default" => v \in served]_vars

\* What a command takes effect on is what its client read: a version that keeps
\* the status read since, a Module that keeps its catalogue status and Default.
AppliesToWhatWasRead ==
    [][\A k \in Clients :
         LET c == pending[k]
         IN  /\ c # NoCommand /\ pending'[k] = NoCommand
             /\ <<status, catalogue>>' # <<status, catalogue>>
             => /\ c.op = "transition" => c.seen = status[c.version]
                /\ c.op = "successor" => c.seen = status[c.from]
                /\ c.op = "catalogue" => c.seen = <<catalogue, current>>]_vars

=============================================================================
