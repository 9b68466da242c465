--------------------------- MODULE JournalConsumer ---------------------------
(***************************************************************************)
(* A plugin that follows the extension resource journal, composed with it. *)
(* It reads the inventory of its operation (ReadPluginOperationInventory)  *)
(* and pages of the journal (ReadPluginResourceEvents), commits a page's   *)
(* cursor with its effects, and rebuilds its state when the read answers   *)
(* 409 plugin_resource_cursor_expired.                                     *)
(*                                                                         *)
(* The plugin is not part of the repository: its steps are the protocol    *)
(* that the read's error message and docs/plugin-event-boundary.md give.   *)
(* CursorFirst chooses the order of a rebuild.  FALSE is the order the     *)
(* message gives, the inventory and then a read without a cursor.          *)
(***************************************************************************)
EXTENDS EventJournal

CONSTANT CursorFirst

ASSUME CursorFirstAssumption == CursorFirst \in BOOLEAN

VARIABLES
    phase,   \* what the consumer does next: "cursor", "inventory" or "following"
    pos,     \* the cursor it committed, NilCursor before its first page
    known    \* the changes that its state reflects, by their number

clientVars == <<phase, pos, known>>
allVars == <<vars, clientVars>>

-----------------------------------------------------------------------------

FirstPhase == IF CursorFirst THEN "cursor" ELSE "inventory"

\* Mutant: the inventory is read outside one snapshot and misses the last change.
InventoryWithoutSnapshot(o) ==
    /\ Served
    /\ grants[o] \in {"live", "released"}
    /\ phase[o] = "inventory"
    /\ known' = [known EXCEPT ![o] = @ \cup {ch.n : ch \in {x \in changes : x.n < total}}]
    /\ phase' = [phase EXCEPT ![o] = IF CursorFirst THEN "following" ELSE "cursor"]
    /\ UNCHANGED <<vars, pos>>

\* ReadExternalOperationInventory: one repeatable-read snapshot of the frozen
\* scope, for operations that may still reconcile (ExternalOperationReconciles).
Inventory(o) ==
    /\ Served
    /\ grants[o] \in {"live", "released"}
    /\ phase[o] = "inventory"
    /\ known' = [known EXCEPT ![o] = @ \cup {ch.n : ch \in changes}]
    /\ phase' = [phase EXCEPT ![o] = IF CursorFirst THEN "following" ELSE "cursor"]
    /\ UNCHANGED <<vars, pos>>

\* The consumer sends a read: without a cursor to rebuild, else with its own.
SendRead(o) ==
    /\ \/ phase[o] = "cursor" /\ ReadFromOldest(o)
       \/ phase[o] = "following" /\ ReadAcknowledge(o, pos[o])
    /\ UNCHANGED clientVars

\* It receives a page and commits the page's effects with the next cursor.
ReceivePage(o) ==
    /\ ReadPage(o)
    /\ pos' = [pos EXCEPT ![o] = lastPage'[o].next]
    /\ known' = [known EXCEPT ![o] =
                   @ \cup {ch.n : ch \in {x \in changes : x.cursor \in lastPage'[o].items}}]
    /\ phase' = [phase EXCEPT ![o] =
                   IF @ = "cursor" /\ CursorFirst THEN "inventory" ELSE "following"]

\* pluginResourceEventError: the cursor expired, and the consumer starts over.
CursorExpired(o) ==
    /\ reading[o] # NilCursor
    /\ reading[o] < Horizon
    /\ Subscribed(o)
    /\ ReadFails(o)
    /\ phase' = [phase EXCEPT ![o] = FirstPhase]
    /\ pos' = [pos EXCEPT ![o] = NilCursor]
    /\ UNCHANGED known

\* Any other error or a lost answer: the consumer repeats the read.
RetryRead(o) == ReadFails(o) /\ UNCHANGED clientVars

-----------------------------------------------------------------------------

ConsumerInit ==
    /\ Init
    /\ phase = [o \in Operations |-> FirstPhase]
    /\ pos = [o \in Operations |-> NilCursor]
    /\ known = [o \in Operations |-> {}]

ConsumerStep(o) ==
    \/ PrepareGrant(o) /\ UNCHANGED clientVars
    \/ ReleaseGrant(o) /\ UNCHANGED clientVars
    \/ ActivateGrant(o) /\ UNCHANGED clientVars
    \/ GrantLapses(o) /\ UNCHANGED clientVars
    \/ Inventory(o)
    \/ SendRead(o)
    \/ ReceivePage(o)
    \/ CursorExpired(o)
    \/ RetryRead(o)

ConsumerNext ==
    \/ \E r \in Replicas : ReplicaStep(r) /\ UNCHANGED clientVars
    \/ \E p \in Plugins : ChangeSubscription(p) /\ UNCHANGED clientVars
    \/ \E o \in Operations : ConsumerStep(o)
    \/ \E c \in retained : EntryAges(c) /\ UNCHANGED clientVars

ConsumerSpec == ConsumerInit /\ [][ConsumerNext]_allVars

-----------------------------------------------------------------------------
(* Properties.                                                             *)

\* Core records a gap instead of letting a returning subscriber silently miss
\* changes: a following consumer whose cursor is not expired knows every change
\* of its scope, or will find it as a retained entry after its cursor.
NothingSilentlyMissed ==
    jstate = "journaling" =>
        \A o \in Operations :
            phase[o] = "following" /\ pos[o] >= Horizon =>
                \A ch \in changes :
                    ch.scope \in ScopeOf[o] =>
                        \/ ch.n \in known[o]
                        \/ ch.cursor > pos[o] /\ ch.cursor \in retained
=============================================================================
