--------------------------- MODULE ReplicatedView ---------------------------
(***************************************************************************)
(* What the replicas of a service promise of one state that all of them    *)
(* serve from memory: every change of the state has a revision of its own, *)
(* a replica shows the complete state of one revision, never a mix of two, *)
(* and while it runs it never goes back to an earlier revision.  A replica *)
(* that restarts shows nothing until it read the state again.              *)
(***************************************************************************)
EXTENDS Naturals

CONSTANTS Replicas, EmptyView

VARIABLES
    revision,  \* the revision of the state
    view,      \* the state at that revision
    fetched,   \* the copies a replica read and did not show yet
    shown      \* the copy a replica shows

Copy(n, v) == [revision |-> n, view |-> v]
Nothing == Copy(0, EmptyView)

Init ==
    /\ revision = 0
    /\ view = EmptyView
    /\ fetched = [r \in Replicas |-> {}]
    /\ shown = [r \in Replicas |-> Nothing]

\* The state becomes anything, at the next revision.
Change ==
    /\ revision' = revision + 1
    /\ UNCHANGED <<fetched, shown>>

\* One read of the state and its revision.
Fetch(r) ==
    /\ fetched' = [fetched EXCEPT ![r] = @ \cup {Copy(revision, view)}]
    /\ UNCHANGED <<revision, view, shown>>

\* A copy that is no longer needed is dropped.
Drop(r) ==
    /\ fetched' = [fetched EXCEPT ![r] = {}]
    /\ UNCHANGED <<revision, view, shown>>

\* The replica shows a copy that is not older than the one it shows.
Show(r) ==
    /\ \E c \in fetched[r] :
         /\ c.revision >= shown[r].revision
         /\ shown' = [shown EXCEPT ![r] = c]
         /\ fetched' = [fetched EXCEPT ![r] = @ \ {c}]
    /\ UNCHANGED <<revision, view>>

Restart(r) ==
    /\ shown' = [shown EXCEPT ![r] = Nothing]
    /\ fetched' = [fetched EXCEPT ![r] = {}]
    /\ UNCHANGED <<revision, view>>

Next == Change \/ \E r \in Replicas : Fetch(r) \/ Drop(r) \/ Show(r) \/ Restart(r)

Spec == Init /\ [][Next]_<<revision, view, fetched, shown>>

=============================================================================
