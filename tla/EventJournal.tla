---------------------------- MODULE EventJournal ----------------------------
(***************************************************************************)
(* The extension resource journal of one organization                      *)
(* (internal/model/extension_events.go): Control Plane replicas append     *)
(* resource changes to it as they commit, plugins subscribe and            *)
(* unsubscribe, consumers page through it with cursors and acknowledge,    *)
(* retention prunes a prefix of it, replicas crash and restart.            *)
(*                                                                         *)
(* Every table of the code is keyed by org_id and no statement joins two   *)
(* organizations, so one organization stands for each of them.  A          *)
(* transaction is split exactly where another transaction can observe or   *)
(* disturb it: a writer decides under the shared journal lock, allocates   *)
(* its cursors under the head row lock, then commits; a page read          *)
(* acknowledges in one transaction and reads in another; a retention run   *)
(* reads its bound in one statement and deletes in a later one.            *)
(***************************************************************************)
EXTENDS Integers, FiniteSets

CONSTANTS
    Replicas,     \* Control Plane processes
    Plugins,      \* plugins that can be enabled for the organization
    Operations,   \* operation grants that delegate resource-events.read
    PluginOf,     \* the plugin that owns an operation
    Scopes,       \* the Environments and Modules that events are about
    ScopeOf,      \* the frozen scope of an operation's intent
    PageLimit,    \* the page size a consumer asks for
    Batch,        \* ExtensionResourceRetention.Batch
    MaxEntries,   \* bound: journal events of one transaction
    MaxChanges,   \* bound: resource changes of a behaviour
    MaxHead,      \* bound: the journal head
    LegacyHead,   \* bound: the head found by the upgrade that added journal state
    MaxAged,      \* bound: entries that leave the retention window (0: no retention)
    MixedFleet    \* whether replicas with and without plugin host may coexist

ASSUME ConstantAssumption ==
    /\ PluginOf \in [Operations -> Plugins]
    /\ ScopeOf \in [Operations -> SUBSET Scopes]
    /\ PageLimit \in Nat \ {0}
    /\ Batch \in Nat \ {0}
    /\ MaxEntries \in Nat \ {0}
    /\ MaxChanges \in Nat
    /\ MaxHead \in Nat
    /\ LegacyHead \in 0 .. MaxChanges
    /\ MaxAged \in Nat
    /\ MixedFleet \in BOOLEAN

VARIABLES
    mode,           \* what each replica runs as: "off", "host" or "core"
    wtx,            \* each replica's open transaction with journal events
    prune,          \* each replica's open retention transaction
    subs,           \* plugins enabled with a resource-events.read grant
    jstate,         \* journal_state row: "none", "journaling" or "paused"
    gap,            \* journal_state.gap_cursor (0 for NULL)
    head,           \* event_heads.cursor (0 for no row)
    retained,       \* cursors of the rows of extension_resource_events
    old,            \* the retained cursors recorded before the retention window
    prunedThrough,  \* event_retention.pruned_through (0 for no row)
    grants,         \* grant state: "none", "live", "released" or "lapsed"
    acked,          \* consumers.acknowledged_cursor (-1 for no row)
    reading,        \* a page read between its two transactions
    issued,         \* history: cursors returned to each operation
    lastPage,       \* history: the last successful page of each operation
    changes,        \* history: every committed resource change
    total           \* history: the number of committed resource changes

replicaVars == <<mode, wtx, prune>>
journalVars == <<jstate, gap, head, retained, old, prunedThrough>>
consumerVars == <<grants, acked, reading, issued, lastPage>>
historyVars == <<changes, total>>
vars == <<replicaVars, subs, journalVars, consumerVars, historyVars>>

-----------------------------------------------------------------------------

NoTx == [stage |-> "none"]
NoPrune == [stage |-> "none"]
NoPage == [stage |-> "none"]
Idle == -2           \* no page read is open
NilCursor == -1      \* a page read without a cursor

MaxOf(a, b) == IF a >= b THEN a ELSE b
Largest(cursors) == CHOOSE c \in cursors : \A d \in cursors : d <= c
Smallest(cursors) == CHOOSE c \in cursors : \A d \in cursors : c <= d

\* Cursors at or before it predate pruned or never journaled history.
Horizon == MaxOf(prunedThrough, gap)

\* resourceEventSubscribers: the plugins whose operations count as consumers.
Subscribed(o) == PluginOf[o] \in subs

\* A host replica's writer holds the shared journal lock until it commits; a
\* subscription change takes the exclusive one.  A Core-only replica takes none.
HoldsShared(r) == mode[r] = "host" /\ wtx[r].stage # "none"
ExclusiveLockFree == \A r \in Replicas : ~HoldsShared(r)

\* The head row stays locked from a writer's first allocation to its commit.
HeadLockFree == \A r \in Replicas : wtx[r].stage # "allocated"

-----------------------------------------------------------------------------
(* Writers: journalTransaction.Commit and flushExtensionJournal.           *)

\* A transaction that changes resources reaches its commit.  With a plugin
\* host it reads the journaling decision under the shared lock, which no
\* subscription change holds exclusively: those are single steps here.
WriterDecide(r, k, scopes) ==
    /\ mode[r] # "off"
    /\ wtx[r].stage = "none"
    /\ total + k <= MaxChanges
    /\ wtx' = [wtx EXCEPT ![r] =
                 [stage |-> "decided", size |-> k, scopes |-> scopes, first |-> 0,
                  journaled |-> mode[r] = "host" /\ jstate = "journaling"]]
    /\ UNCHANGED <<mode, prune, subs, journalVars, consumerVars, historyVars>>

\* Mutant: cursors come from a sequence, visible before their entries commit.
AllocateFromSequence(r) ==
    /\ wtx[r].stage = "decided"
    /\ wtx[r].journaled
    /\ head + wtx[r].size <= MaxHead
    /\ wtx' = [wtx EXCEPT ![r].stage = "allocated", ![r].first = head + 1]
    /\ head' = head + wtx[r].size
    /\ UNCHANGED <<mode, prune, subs, jstate, gap, retained, old, prunedThrough,
                   consumerVars, historyVars>>

\* journalExtensionResourceEvent for each entry: the first one locks the head
\* row, so the cursors of one transaction are consecutive.
WriterAllocate(r) ==
    /\ wtx[r].stage = "decided"
    /\ wtx[r].journaled
    /\ HeadLockFree
    /\ head + wtx[r].size <= MaxHead
    /\ wtx' = [wtx EXCEPT ![r].stage = "allocated", ![r].first = head + 1]
    /\ UNCHANGED <<mode, prune, subs, journalVars, consumerVars, historyVars>>

\* What a committing transaction adds to the history of changes.
Committed(tx) ==
    {[n |-> total + i, scope |-> tx.scopes[i],
      cursor |-> IF tx.journaled THEN tx.first + i - 1 ELSE 0] : i \in 1 .. tx.size}

\* The transaction commits its changes with their journal entries.
WriterCommit(r) ==
    LET tx == wtx[r]
    IN  /\ tx.stage = "allocated"
        /\ head' = tx.first + tx.size - 1
        /\ retained' = retained \cup (tx.first .. tx.first + tx.size - 1)
        /\ changes' = changes \cup Committed(tx)
        /\ total' = total + tx.size
        /\ wtx' = [wtx EXCEPT ![r] = NoTx]
        /\ UNCHANGED <<mode, prune, subs, jstate, gap, old, prunedThrough, consumerVars>>

\* The transaction commits its changes and skips the journal.
WriterCommitSkipped(r) ==
    LET tx == wtx[r]
    IN  /\ tx.stage = "decided"
        /\ ~tx.journaled
        /\ changes' = changes \cup Committed(tx)
        /\ total' = total + tx.size
        /\ wtx' = [wtx EXCEPT ![r] = NoTx]
        /\ UNCHANGED <<mode, prune, subs, journalVars, consumerVars>>

\* Any error before the commit, or journalTransaction.Rollback.
WriterRollback(r) ==
    /\ wtx[r].stage # "none"
    /\ wtx' = [wtx EXCEPT ![r] = NoTx]
    /\ UNCHANGED <<mode, prune, subs, journalVars, consumerVars, historyVars>>

-----------------------------------------------------------------------------
(* Subscription changes and startup.                                       *)

\* pauseExtensionResourceJournal: the UPDATE of a journaling row, then the
\* INSERT for an organization that has a head but no row.
Pause ==
    /\ jstate' = IF jstate = "none" /\ head = 0 THEN "none" ELSE "paused"
    /\ UNCHANGED <<gap, head>>

\* Mutant: a paused journal resumes without a gap.
StartWithoutGap ==
    /\ jstate' = "journaling"
    /\ UNCHANGED <<gap, head>>

\* startExtensionResourceJournal: an organization without history starts at
\* cursor zero, a paused one (or one with legacy history) takes a gap cursor.
Start ==
    \/ /\ jstate = "none" /\ head = 0
       /\ jstate' = "journaling"
       /\ UNCHANGED <<gap, head>>
    \/ /\ jstate = "paused" \/ (jstate = "none" /\ head > 0)
       /\ head < MaxHead
       /\ head' = head + 1
       /\ gap' = head + 1
       /\ jstate' = "journaling"
    \/ /\ jstate = "journaling"
       /\ UNCHANGED <<jstate, gap, head>>

\* syncExtensionResourceJournal under the exclusive journal lock: no writer is
\* between its decision and its commit.
Sync(subscribers) ==
    /\ ExclusiveLockFree
    /\ IF subscribers = {} THEN Pause ELSE Start

\* Mutant: the journal follows the subscriptions from before the change.
ChangeSubscriptionAfterSync(p) ==
    /\ \E r \in Replicas : mode[r] = "host"
    /\ Sync(subs)
    /\ subs' = IF p \in subs THEN subs \ {p} ELSE subs \cup {p}
    /\ UNCHANGED <<replicaVars, retained, old, prunedThrough, consumerVars, historyVars>>

\* PutPluginEnablement, DeletePluginEnablement or ReplacePluginRegistrations
\* on a plugin host: the subscription changes with the journal state.
ChangeSubscription(p) ==
    /\ \E r \in Replicas : mode[r] = "host"
    /\ subs' = IF p \in subs THEN subs \ {p} ELSE subs \cup {p}
    /\ Sync(subs')
    /\ UNCHANGED <<replicaVars, retained, old, prunedThrough, consumerVars, historyVars>>

\* Whether the deployment rules allow a replica to start with this mode.
MayStart(r, m) ==
    \/ MixedFleet
    \/ \A q \in Replicas \ {r} : mode[q] \in {"off", m}

\* ReconcileExtensionResourceJournal, before the replica serves requests.
StartReplica(r, m) ==
    /\ mode[r] = "off"
    /\ MayStart(r, m)
    /\ mode' = [mode EXCEPT ![r] = m]
    /\ IF m = "host"
         THEN Sync(subs)
         ELSE ExclusiveLockFree /\ Pause
    /\ UNCHANGED <<wtx, prune, subs, retained, old, prunedThrough, consumerVars, historyVars>>

\* A replica stops or crashes: its transactions roll back and their locks go.
StopReplica(r) ==
    /\ mode[r] # "off"
    /\ mode' = [mode EXCEPT ![r] = "off"]
    /\ wtx' = [wtx EXCEPT ![r] = NoTx]
    /\ prune' = [prune EXCEPT ![r] = NoPrune]
    /\ UNCHANGED <<subs, journalVars, consumerVars, historyVars>>

-----------------------------------------------------------------------------
(* Operation grants, as far as the journal reads them.                     *)

\* A consumer holds history while its plugin subscribes and its grant is
\* unreleased, or released for less than the retention window.
Holder(o) == Subscribed(o) /\ grants[o] \in {"live", "released"}

SetGrant(o, state) ==
    /\ grants' = [grants EXCEPT ![o] = state]
    /\ UNCHANGED <<replicaVars, subs, journalVars, acked, reading, issued, lastPage, historyVars>>

\* ApplyExternalGrantCommand: prepare.
PrepareGrant(o) == grants[o] = "none" /\ Subscribed(o) /\ SetGrant(o, "live")

\* ApplyExternalGrantCommand: release.
ReleaseGrant(o) == grants[o] = "live" /\ SetGrant(o, "released")

\* ApplyExternalGrantCommand: activate, which a released grant allows.
ActivateGrant(o) == grants[o] \in {"released", "lapsed"} /\ SetGrant(o, "live")

\* The release becomes older than the retention window, as entries do.
GrantLapses(o) == MaxAged > 0 /\ grants[o] = "released" /\ SetGrant(o, "lapsed")

-----------------------------------------------------------------------------
(* Page reads: ReadExtensionResourceEvents.                                *)

Served == \E r \in Replicas : mode[r] = "host"

\* acknowledgeExtensionResourceCursor: the first transaction of a read with a
\* cursor.  The upsert never moves an acknowledgement back, and does not
\* record a cursor beyond the head.
ReadAcknowledge(o, c) ==
    /\ Served
    /\ reading[o] = Idle
    /\ grants[o] # "none"
    /\ Subscribed(o)
    /\ acked' = [acked EXCEPT ![o] = IF c <= head /\ @ < c THEN c ELSE @]
    /\ reading' = [reading EXCEPT ![o] = c]
    /\ UNCHANGED <<replicaVars, subs, journalVars, grants, issued, lastPage, historyVars>>

\* A read without a cursor has no acknowledgement.
ReadFromOldest(o) ==
    /\ Served
    /\ reading[o] = Idle
    /\ grants[o] # "none"
    /\ reading' = [reading EXCEPT ![o] = NilCursor]
    /\ UNCHANGED <<replicaVars, subs, journalVars, grants, acked, issued, lastPage, historyVars>>

\* The rows of the page query: retained, in the frozen scope, after start.
Matching(o, start) ==
    {ch.cursor : ch \in {x \in changes : /\ x.cursor \in retained
                                         /\ x.cursor > start
                                         /\ x.cursor <= head
                                         /\ x.scope \in ScopeOf[o]}}

\* ORDER BY cursor LIMIT PageLimit.
FirstOf(cursors, limit) ==
    {c \in cursors : Cardinality({d \in cursors : d <= c}) <= limit}

\* Mutant: every page ends at the head.
NextCursorAlwaysHead(items) == head

\* A full page ends at its last item, any other page at the head.
NextCursor(items) ==
    IF Cardinality(items) = PageLimit
      THEN Largest(items)
      ELSE head

\* The history that a returned cursor accounts for: all of it, or for a full
\* page the changes up to the one of its last item.
AccountedFor(items) ==
    IF Cardinality(items) = PageLimit
      THEN (CHOOSE ch \in changes : ch.cursor = NextCursor(items)).n
      ELSE total

\* The second transaction, one snapshot: the subscription check,
\* extensionResourceStart and the page.
ReadPage(o) ==
    LET start == IF reading[o] = NilCursor THEN Horizon ELSE reading[o]
        items == FirstOf(Matching(o, start), PageLimit)
    IN  /\ Served
        /\ reading[o] # Idle
        /\ Subscribed(o)
        /\ start >= Horizon
        /\ start <= head
        /\ issued' = [issued EXCEPT ![o] =
                        @ \cup {[cursor |-> NextCursor(items), at |-> AccountedFor(items)]}]
        /\ lastPage' = [lastPage EXCEPT ![o] =
                          [stage |-> "page", from |-> start,
                           next |-> NextCursor(items), items |-> items]]
        /\ reading' = [reading EXCEPT ![o] = Idle]
        /\ UNCHANGED <<replicaVars, subs, journalVars, grants, acked, historyVars>>

\* ErrExtensionResourceCursorExpired, plugin_not_installed, or a lost request.
ReadFails(o) ==
    /\ reading[o] # Idle
    /\ reading' = [reading EXCEPT ![o] = Idle]
    /\ UNCHANGED <<replicaVars, subs, journalVars, grants, acked, issued, lastPage, historyVars>>

-----------------------------------------------------------------------------
(* Retention: pruneExtensionResourceOrganization on a plugin host.         *)

\* An entry's recorded_at passes out of the retention window.  recorded_at is
\* its transaction's start, so entries need not age in cursor order.
EntryAges(c) ==
    /\ c \in retained \ old
    /\ c <= MaxAged
    /\ old' = old \cup {c}
    /\ UNCHANGED <<replicaVars, subs, jstate, gap, head, retained, prunedThrough, consumerVars, historyVars>>

\* Mutant: MIN over the raw acknowledgements, the -1 of a missing row included.
LowestWithoutCoalesce ==
    LET acks == {acked[o] : o \in {x \in Operations : Holder(x)}}
    IN  IF acks = {} THEN MaxHead + 1 ELSE Smallest(acks)

\* Mutant: a consumer that never acknowledged does not count.
LowestOfAcknowledged ==
    LET acks == {acked[o] : o \in {x \in Operations : Holder(x) /\ acked[x] >= 0}}
    IN  IF acks = {} THEN MaxHead + 1 ELSE Smallest(acks)

\* MIN(COALESCE(acknowledged_cursor, 0)) over the active consumers; without
\* any, MaxHead + 1 stands for math.MaxInt64.
LowestAcknowledgement ==
    LET acks == {MaxOf(acked[o], 0) : o \in {x \in Operations : Holder(x)}}
    IN  IF acks = {} THEN MaxHead + 1 ELSE Smallest(acks)

\* The run takes the try-advisory lock (a locked organization is skipped),
\* fixes its clock and reads the subscribers and the lowest acknowledgement.
PruneScan(r) ==
    /\ MaxAged > 0
    /\ mode[r] = "host"
    /\ \A q \in Replicas : prune[q].stage = "none"
    /\ prune' = [prune EXCEPT ![r] =
                   [stage |-> "scanned", below |-> LowestAcknowledgement, old |-> old,
                    holders |-> {o \in Operations : Holder(o)}]]
    /\ UNCHANGED <<mode, wtx, subs, journalVars, consumerVars, historyVars>>

\* The longest prefix of the next Batch entries whose entries are all old and
\* below the lowest acknowledgement.
PrunablePrefix(p) ==
    LET candidates == FirstOf({c \in retained : c > prunedThrough}, Batch)
    IN  {c \in candidates : \A d \in candidates : d <= c => d \in p.old /\ d < p.below}

\* Mutant: the run deletes each old entry and records no boundary.
DeleteOldEntries(r) ==
    LET prefix == FirstOf(prune[r].old \cap retained, Batch)
    IN  /\ prune[r].stage = "scanned"
        /\ prefix # {}
        /\ retained' = retained \ prefix
        /\ old' = old \ prefix
        /\ prune' = [prune EXCEPT ![r] = NoPrune]
        /\ UNCHANGED <<mode, wtx, subs, jstate, gap, head, prunedThrough, consumerVars, historyVars>>

\* The later statements read the bound, delete and commit.
PruneDelete(r) ==
    LET prefix == PrunablePrefix(prune[r])
        bound == Largest(prefix)
    IN  /\ prune[r].stage = "scanned"
        /\ prefix # {}
        /\ retained' = retained \ (prunedThrough + 1 .. bound)
        /\ old' = old \ (prunedThrough + 1 .. bound)
        /\ prunedThrough' = bound
        /\ prune' = [prune EXCEPT ![r] = NoPrune]
        /\ UNCHANGED <<mode, wtx, subs, jstate, gap, head, consumerVars, historyVars>>

\* Nothing to prune, or the run fails: the transaction ends without effect.
PruneEnds(r) ==
    /\ prune[r].stage = "scanned"
    /\ prune' = [prune EXCEPT ![r] = NoPrune]
    /\ UNCHANGED <<mode, wtx, subs, journalVars, consumerVars, historyVars>>

-----------------------------------------------------------------------------

\* All replicas are down.  A database upgraded from a version without journal
\* state may hold entries, and consumers may hold the cursor of its head.  The
\* migration records such a journal as running; a head that a server of the old
\* version writes after the migration has no state row.
Init ==
    \E h \in 0 .. LegacyHead :
    \E scopes \in [1 .. h -> Scopes] :
    \E holders \in SUBSET Operations :
        /\ h = 0 => holders = {}
        /\ mode = [r \in Replicas |-> "off"]
        /\ wtx = [r \in Replicas |-> NoTx]
        /\ prune = [r \in Replicas |-> NoPrune]
        /\ subs = {}
        /\ jstate \in IF h = 0 THEN {"none"} ELSE {"none", "journaling"}
        /\ gap = 0
        /\ head = h
        /\ retained = 1 .. h
        /\ old = {}
        /\ prunedThrough = 0
        /\ grants = [o \in Operations |-> IF o \in holders THEN "live" ELSE "none"]
        /\ acked = [o \in Operations |-> -1]
        /\ reading = [o \in Operations |-> Idle]
        /\ issued = [o \in Operations |->
                       IF o \in holders THEN {[cursor |-> h, at |-> h]} ELSE {}]
        /\ lastPage = [o \in Operations |-> NoPage]
        /\ changes = {[n |-> i, scope |-> scopes[i], cursor |-> i] : i \in 1 .. h}
        /\ total = h

ReplicaStep(r) ==
    \/ \E k \in 1 .. MaxEntries : \E scopes \in [1 .. k -> Scopes] : WriterDecide(r, k, scopes)
    \/ WriterAllocate(r)
    \/ WriterCommit(r)
    \/ WriterCommitSkipped(r)
    \/ WriterRollback(r)
    \/ \E m \in {"host", "core"} : StartReplica(r, m)
    \/ StopReplica(r)
    \/ PruneScan(r)
    \/ PruneDelete(r)
    \/ PruneEnds(r)

OperationStep(o) ==
    \/ PrepareGrant(o)
    \/ ReleaseGrant(o)
    \/ ActivateGrant(o)
    \/ GrantLapses(o)
    \/ \E i \in issued[o] : ReadAcknowledge(o, i.cursor)
    \/ ReadFromOldest(o)
    \/ ReadPage(o)
    \/ ReadFails(o)

Next ==
    \/ \E r \in Replicas : ReplicaStep(r)
    \/ \E p \in Plugins : ChangeSubscription(p)
    \/ \E o \in Operations : OperationStep(o)
    \/ \E c \in retained : EntryAges(c)

Spec == Init /\ [][Next]_vars

-----------------------------------------------------------------------------
(* Properties.                                                             *)

\* The open transactions of a replica, as its connections hold them.
EntryScopes == UNION {[1 .. k -> Scopes] : k \in 1 .. MaxEntries}
WriterTx ==
    [stage : {"decided", "allocated"}, size : 1 .. MaxEntries, scopes : EntryScopes,
     first : Nat, journaled : BOOLEAN]
PruneTx ==
    [stage : {"scanned"}, below : Nat, old : SUBSET Nat, holders : SUBSET Operations]

\* Type invariant of the journal tables, the transactions and the history.
TypeOK ==
    /\ mode \in [Replicas -> {"off", "host", "core"}]
    /\ wtx \in [Replicas -> {NoTx} \cup WriterTx]
    /\ \A r \in Replicas : wtx[r] # NoTx => wtx[r].scopes \in [1 .. wtx[r].size -> Scopes]
    /\ prune \in [Replicas -> {NoPrune} \cup PruneTx]
    /\ subs \subseteq Plugins
    /\ jstate \in {"none", "journaling", "paused"}
    /\ gap \in Nat /\ head \in Nat /\ prunedThrough \in Nat /\ total \in Nat
    /\ retained \subseteq Nat /\ old \subseteq retained
    /\ grants \in [Operations -> {"none", "live", "released", "lapsed"}]
    /\ acked \in [Operations -> Nat \cup {-1}]
    /\ reading \in [Operations -> Nat \cup {Idle, NilCursor}]
    /\ issued \in [Operations -> SUBSET [cursor : Nat, at : Nat]]
    /\ changes \subseteq [n : Nat, scope : Scopes, cursor : Nat]

\* Retained history has no holes: every cursor between the retention boundary
\* and the head is an entry a reader can see, or marked a gap.  It fails when
\* a cursor becomes visible before the transaction that allocated it commits.
RetainedContiguous ==
    \A c \in prunedThrough + 1 .. head :
        \/ c \in retained
        \/ c <= gap

\* No silent skip: while the journal runs, a cursor that a consumer was given
\* and that is not reported expired still accounts for every later change.
\* Each change committed after the history the cursor stands for is a retained
\* entry after it, whatever pauses, restarts and retention runs came between.
CursorCoverage ==
    jstate = "journaling" =>
        \A o \in Operations : \A i \in issued[o] :
            i.cursor >= Horizon =>
                \A ch \in changes :
                    ch.n > i.at => ch.cursor > i.cursor /\ ch.cursor \in retained

\* A page never jumps over an event of its scope, also when an event's
\* transaction was still open as the page was read.
PageComplete ==
    \A o \in Operations :
        lastPage[o].stage = "page" =>
            \A ch \in changes :
                (/\ ch.cursor > lastPage[o].from
                 /\ ch.cursor <= lastPage[o].next
                 /\ ch.scope \in ScopeOf[o]) => ch.cursor \in lastPage[o].items

\* While a plugin host serves, the organization journals exactly when a plugin
\* subscribes: no subscriber is left without a journal and no journal runs on
\* without one, however enablement changes and restarts interleave.
JournalFollowsSubscription ==
    Served => (jstate = "journaling" <=> subs # {})

\* A retention run never expires a cursor that a consumer it counted still
\* needs, though consumers acknowledge, release and reactivate while the run
\* is between reading the lowest acknowledgement and deleting.
RetentionKeepsHolders ==
    [][\A r \in Replicas :
          prune[r].stage = "scanned" /\ prunedThrough' # prunedThrough =>
              \A o \in prune[r].holders : \A i \in issued[o] :
                  i.cursor >= acked[o] /\ i.cursor >= prunedThrough
                      => i.cursor >= prunedThrough']_vars

\* "Journaling resumes at the startup of a subscribed Control Plane, or at its
\* next journal write or read": a page that a subscriber is served leaves the
\* organization journaling.
ReadResumesJournaling ==
    [][\A o \in Operations :
          lastPage'[o] # lastPage[o] => jstate' = "journaling"]_vars
=============================================================================
