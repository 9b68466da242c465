------------------------- MODULE EventJournalProofs -------------------------
(***************************************************************************)
(* Proofs about EventJournal for a uniform fleet (~MixedFleet), for every  *)
(* number of replicas, plugins, operations, entries and changes.           *)
(*                                                                         *)
(* CursorCoverage is not inductive.  A page moves a cursor over entries it *)
(* was issued earlier, so the proof needs the order of the history         *)
(* (HistoryOrdered); a commit extends the history, so it needs that a      *)
(* writer's decision agrees with the journal state until it commits        *)
(* (WritersAgree, OneAllocator); a resumed journal declares a gap above    *)
(* every issued cursor, so it needs HeadBounds; and an organization that   *)
(* starts at cursor zero has issued none (NothingIssuedBeforeStart).       *)
(*                                                                         *)
(* On this invariant rest the completeness of a page (its limit takes the  *)
(* smallest cursors), the promise of retention (an acknowledgement never   *)
(* decreases, so what a scan read stays a lower bound) and, for the        *)
(* consumer of JournalConsumer, that it misses no change.                  *)
(***************************************************************************)
EXTENDS JournalConsumer, FiniteSetTheorems, WellFoundedInduction, TLAPS

-----------------------------------------------------------------------------
(* The inductive invariant.                                                *)

\* Running replicas have the same mode, and Core-only ones keep the journal off.
UniformFleet ==
    /\ \A r, q \in Replicas : mode[r] # "off" /\ mode[q] # "off" => mode[r] = mode[q]
    /\ \A r \in Replicas : mode[r] = "core" => jstate # "journaling"

\* A writer's decision is the journal state until it commits.
WritersAgree ==
    \A r \in Replicas :
        wtx[r].stage # "none" =>
            /\ mode[r] # "off"
            /\ wtx[r].journaled <=> jstate = "journaling"

\* The head row lock: one writer has cursors, and they follow the head.
OneAllocator ==
    /\ \A r \in Replicas :
         wtx[r].stage = "allocated" => wtx[r].journaled /\ wtx[r].first = head + 1
    /\ \A r, q \in Replicas :
         wtx[r].stage = "allocated" /\ wtx[q].stage = "allocated" => r = q

FleetInv == UniformFleet /\ WritersAgree /\ OneAllocator /\ JournalFollowsSubscription

\* No cursor is beyond the head, and no change beyond the history.
HeadBounds ==
    /\ retained \subseteq 1 .. head
    /\ gap <= head
    /\ prunedThrough <= head
    /\ \A o \in Operations : \A i \in issued[o] : i.cursor <= head
    /\ \A ch \in changes : ch.cursor <= head /\ ch.n <= total

\* An organization whose journal never started has no reader.
NothingIssuedBeforeStart ==
    jstate = "none" /\ head = 0 => \A o \in Operations : issued[o] = {}

\* Journaled changes have cursors in commit order and stay until pruned; while
\* the journal runs, none is skipped after one behind the last gap.
HistoryOrdered ==
    /\ \A ch, later \in changes :
         later.n > ch.n /\ later.cursor # 0 => later.cursor > ch.cursor
    /\ \A ch \in changes : ch.cursor # 0 => ch.cursor \in retained \/ ch.cursor <= prunedThrough
    /\ jstate = "journaling" =>
         \A ch, later \in changes :
             ch.cursor > gap /\ later.n > ch.n => later.cursor # 0

JournalInv ==
    /\ HeadBounds
    /\ RetainedContiguous
    /\ NothingIssuedBeforeStart
    /\ HistoryOrdered
    /\ CursorCoverage

IInv == TypeOK /\ FleetInv /\ JournalInv

-----------------------------------------------------------------------------
(* Lemmas about bounded sets of cursors.                                   *)

\* A nonempty set of cursors has a smallest one.
LEMMA SmallestExists ==
    ASSUME NEW S \in SUBSET Nat, S # {}
    PROVE  \E m \in S : \A s \in S : m <= s
<1> DEFINE Less == OpToRel(<, Nat)
<1>1. IsWellFoundedOn(Less, Nat)
  BY NatLessThanWellFounded
<1> HIDE DEF Less
<1>2. PICK m \in S : \A s \in S : ~ (<<s, m>> \in Less)
  BY <1>1, WFMin
<1>3. \A s \in S : ~ (s < m)
  BY <1>2 DEF Less, OpToRel
<1> QED
  BY <1>3

\* A nonempty set of cursors below a bound has a largest one.
LEMMA LargestExists ==
    ASSUME NEW S \in SUBSET Nat, S # {}, NEW h \in Nat, \A s \in S : s <= h
    PROVE  \E m \in S : \A s \in S : s <= m
<1> DEFINE D == {d \in Nat : \E s \in S : d = h - s}
<1>1. D \in SUBSET Nat
  OBVIOUS
<1>2. \A s \in S : h - s \in D
  OBVIOUS
<1>3. PICK d \in D : \A e \in D : d <= e
  <2> HIDE DEF D
  <2>1. D # {}
    BY <1>2
  <2> QED BY <1>1, <2>1, SmallestExists
<1>4. PICK m \in S : d = h - m
  OBVIOUS
<1>5. \A s \in S : h - m <= h - s
  BY <1>2, <1>3, <1>4
<1>6. \A s \in S : s <= m
  <2> TAKE s \in S
  <2> QED BY <1>5
<1> QED
  BY <1>6

\* What a page read returns: the head and the whole history, or for a full
\* page a retained cursor of its scope with the change it belongs to.
LEMMA PageEnds ==
    ASSUME ConstantAssumption, TypeOK, HeadBounds, NEW o \in Operations, NEW start \in Nat,
           NEW items, items = FirstOf(Matching(o, start), PageLimit)
    PROVE  \/ NextCursor(items) = head /\ AccountedFor(items) = total
           \/ \E ch \in changes :
                 /\ NextCursor(items) = ch.cursor
                 /\ AccountedFor(items) = ch.n
                 /\ ch.cursor \in retained
                 /\ ch.cursor > start
<1>1. CASE Cardinality(items) # PageLimit
  BY <1>1 DEF NextCursor, AccountedFor
<1>2. CASE Cardinality(items) = PageLimit
  <2>1. \A c \in items : \E ch \in changes :
            c = ch.cursor /\ ch.cursor \in retained /\ ch.cursor > start
    BY DEF FirstOf, Matching
  <2>2. /\ head \in Nat
        /\ items \in SUBSET Nat /\ \A c \in items : c <= head
    BY <2>1 DEF TypeOK, HeadBounds
  <2>3. items # {}
    BY <1>2, FS_EmptySet DEF ConstantAssumption
  <2>4. \E c \in items : \A d \in items : d <= c
    BY <2>2, <2>3, LargestExists
  <2>5. NextCursor(items) \in items
    BY <1>2, <2>4 DEF NextCursor, Largest
  <2>6. \E ch \in changes : ch.cursor = NextCursor(items)
    BY <2>1, <2>5
  <2> DEFINE last == CHOOSE ch \in changes : ch.cursor = NextCursor(items)
  <2>7. last \in changes /\ last.cursor = NextCursor(items)
    BY <2>6
  <2>8. AccountedFor(items) = last.n
    BY <1>2 DEF AccountedFor
  <2>9. NextCursor(items) \in retained /\ NextCursor(items) > start
    BY <2>1, <2>5
  <2> QED
    BY <2>7, <2>8, <2>9
<1> QED
  BY <1>1, <1>2

\* The bound of a retention run is a retained cursor after the last boundary.
LEMMA PruneBound ==
    ASSUME TypeOK, HeadBounds, NEW p, NEW P, P = PrunablePrefix(p), P # {}
    PROVE  /\ Largest(P) \in retained
           /\ Largest(P) \in prunedThrough + 1 .. head
<1>1. \A c \in P : c \in retained /\ c > prunedThrough
  BY DEF PrunablePrefix, FirstOf
<1>2. /\ head \in Nat /\ prunedThrough \in Nat
      /\ \A c \in retained : c \in Nat /\ c <= head
  BY DEF TypeOK, HeadBounds
<1>3. P \in SUBSET Nat /\ \A c \in P : c <= head
  BY <1>1, <1>2
<1>4. \E c \in P : \A d \in P : d <= c
  BY <1>2, <1>3, LargestExists
<1>5. Largest(P) \in P
  BY <1>4 DEF Largest
<1> QED
  BY <1>1, <1>2, <1>5

\* The lowest acknowledgement is a cursor, without a consumer one beyond all.
LEMMA LowestIsCursor ==
    ASSUME ConstantAssumption, TypeOK
    PROVE  LowestAcknowledgement \in Nat
<1> DEFINE acks == {MaxOf(acked[o], 0) : o \in {x \in Operations : Holder(x)}}
<1>1. acks \in SUBSET Nat
  BY DEF TypeOK, MaxOf
<1>2. CASE acks = {}
  BY <1>2 DEF LowestAcknowledgement, ConstantAssumption
<1>3. CASE acks # {}
  <2>1. LowestAcknowledgement = Smallest(acks)
    BY <1>3 DEF LowestAcknowledgement
  <2> HIDE DEF acks
  <2>2. \E a \in acks : \A b \in acks : a <= b
    BY <1>1, <1>3, SmallestExists
  <2> QED
    BY <1>1, <2>1, <2>2 DEF Smallest
<1> QED
  BY <1>2, <1>3

-----------------------------------------------------------------------------
(* Types.                                                                  *)

\* Every step keeps the types, given that no cursor is beyond the head.
LEMMA TypeStep ==
    ASSUME ConstantAssumption, TypeOK, HeadBounds, [Next]_vars
    PROVE  TypeOK'
<1> USE DEF vars, replicaVars, journalVars, consumerVars, historyVars, Idle, NilCursor
<1>1. ASSUME NEW r \in Replicas, NEW k \in 1 .. MaxEntries, NEW scopes \in [1 .. k -> Scopes],
             WriterDecide(r, k, scopes)
      PROVE  TypeOK'
  BY <1>1 DEF TypeOK, WriterDecide, WriterTx, EntryScopes, NoTx
<1>2. ASSUME NEW r \in Replicas, WriterAllocate(r)
      PROVE  TypeOK'
  <2> DEFINE tx == [wtx[r] EXCEPT !.stage = "allocated", !.first = head + 1]
  <2>1. wtx[r] \in WriterTx /\ wtx[r] # NoTx
    BY <1>2 DEF TypeOK, WriterAllocate, NoTx
  <2>2. tx \in WriterTx /\ tx.scopes = wtx[r].scopes /\ tx.size = wtx[r].size
    <3>1. head + 1 \in Nat
      BY DEF TypeOK
    <3> QED
      BY <2>1, <3>1 DEF WriterTx
  <2>3. wtx' = [wtx EXCEPT ![r] = tx]
    BY <1>2 DEF TypeOK, WriterAllocate
  <2> HIDE DEF tx
  <2>4. wtx' \in [Replicas -> {NoTx} \cup WriterTx]
    BY <2>2, <2>3 DEF TypeOK
  <2>5. \A q \in Replicas : wtx'[q] # NoTx => wtx'[q].scopes \in [1 .. wtx'[q].size -> Scopes]
    <3>1. wtx'[r] = tx /\ \A q \in Replicas \ {r} : wtx'[q] = wtx[q]
      BY <2>3 DEF TypeOK
    <3>2. tx.scopes \in [1 .. tx.size -> Scopes]
      BY <2>1, <2>2 DEF TypeOK
    <3>3. \A q \in Replicas : wtx[q] # NoTx => wtx[q].scopes \in [1 .. wtx[q].size -> Scopes]
      BY DEF TypeOK
    <3> QED
      BY <3>1, <3>2, <3>3
  <2> QED
    BY <1>2, <2>4, <2>5 DEF TypeOK, WriterAllocate
<1>3. ASSUME NEW r \in Replicas, WriterCommit(r)
      PROVE  TypeOK'
  <2>1. /\ wtx[r] \in WriterTx /\ wtx[r].scopes \in [1 .. wtx[r].size -> Scopes]
        /\ wtx[r].size \in Nat /\ wtx[r].first \in Nat /\ wtx[r].journaled \in BOOLEAN
        /\ wtx[r].size > 0
    BY <1>3 DEF TypeOK, WriterCommit, NoTx, WriterTx, ConstantAssumption
  <2>2. \A i \in 1 .. wtx[r].size :
            /\ wtx[r].scopes[i] \in Scopes
            /\ total + i \in Nat
            /\ wtx[r].first + i - 1 \in Nat
    BY <2>1 DEF TypeOK
  <2>3. Committed(wtx[r]) \subseteq [n : Nat, scope : Scopes, cursor : Nat]
    BY <2>2 DEF Committed
  <2>4. wtx[r].first .. wtx[r].first + wtx[r].size - 1 \subseteq Nat
    BY <2>1
  <2>5. wtx[r].first + wtx[r].size - 1 \in Nat /\ total + wtx[r].size \in Nat
    BY <2>1 DEF TypeOK
  <2> QED
    BY <1>3, <2>3, <2>4, <2>5 DEF TypeOK, WriterCommit
<1>4. ASSUME NEW r \in Replicas, WriterCommitSkipped(r)
      PROVE  TypeOK'
  BY <1>4 DEF TypeOK, WriterCommitSkipped, Committed, WriterTx, NoTx
<1>5. ASSUME NEW r \in Replicas, WriterRollback(r)
      PROVE  TypeOK'
  BY <1>5 DEF TypeOK, WriterRollback
<1>6. ASSUME NEW r \in Replicas, NEW m \in {"host", "core"}, StartReplica(r, m)
      PROVE  TypeOK'
  BY <1>6 DEF TypeOK, StartReplica, Sync, Pause, Start
<1>7. ASSUME NEW r \in Replicas, StopReplica(r)
      PROVE  TypeOK'
  BY <1>7 DEF TypeOK, StopReplica
<1>8. ASSUME NEW r \in Replicas, PruneScan(r)
      PROVE  TypeOK'
  BY <1>8, LowestIsCursor DEF TypeOK, PruneScan, PruneTx
<1>9. ASSUME NEW r \in Replicas, PruneDelete(r)
      PROVE  TypeOK'
  BY <1>9, PruneBound DEF TypeOK, PruneDelete
<1>10. ASSUME NEW r \in Replicas, PruneEnds(r)
       PROVE  TypeOK'
  BY <1>10 DEF TypeOK, PruneEnds
<1>11. ASSUME NEW p \in Plugins, ChangeSubscription(p)
       PROVE  TypeOK'
  BY <1>11 DEF TypeOK, ChangeSubscription, Sync, Pause, Start
<1>12. ASSUME NEW o \in Operations,
              PrepareGrant(o) \/ ReleaseGrant(o) \/ ActivateGrant(o) \/ GrantLapses(o)
       PROVE  TypeOK'
  BY <1>12 DEF TypeOK, PrepareGrant, ReleaseGrant, ActivateGrant, GrantLapses, SetGrant
<1>13. ASSUME NEW o \in Operations, NEW i \in issued[o], ReadAcknowledge(o, i.cursor)
       PROVE  TypeOK'
  BY <1>13 DEF TypeOK, ReadAcknowledge
<1>14. ASSUME NEW o \in Operations, ReadFromOldest(o)
       PROVE  TypeOK'
  BY <1>14 DEF TypeOK, ReadFromOldest
<1>15. ASSUME NEW o \in Operations, ReadPage(o)
       PROVE  TypeOK'
  <2> DEFINE start == IF reading[o] = NilCursor THEN Horizon ELSE reading[o]
             items == FirstOf(Matching(o, start), PageLimit)
             entry == [cursor |-> NextCursor(items), at |-> AccountedFor(items)]
  <2>1. start \in Nat
    BY <1>15 DEF TypeOK, ReadPage, Horizon, MaxOf
  <2>2. entry \in [cursor : Nat, at : Nat]
    <3> HIDE DEF start
    <3>1. \/ NextCursor(items) = head /\ AccountedFor(items) = total
          \/ \E ch \in changes : NextCursor(items) = ch.cursor /\ AccountedFor(items) = ch.n
      BY <2>1, PageEnds
    <3> QED
      BY <3>1 DEF TypeOK
  <2>3. issued' = [issued EXCEPT ![o] = @ \cup {entry}]
    BY <1>15 DEF ReadPage
  <2>4. issued' \in [Operations -> SUBSET [cursor : Nat, at : Nat]]
    <3> HIDE DEF entry
    <3> QED BY <2>2, <2>3 DEF TypeOK
  <2> QED
    BY <1>15, <2>4 DEF TypeOK, ReadPage
<1>16. ASSUME NEW o \in Operations, ReadFails(o)
       PROVE  TypeOK'
  BY <1>16 DEF TypeOK, ReadFails
<1>17. ASSUME NEW c \in retained, EntryAges(c)
       PROVE  TypeOK'
  BY <1>17 DEF TypeOK, EntryAges
<1>18. CASE UNCHANGED vars
  BY <1>18 DEF TypeOK
<1> QED
  BY <1>1, <1>2, <1>3, <1>4, <1>5, <1>6, <1>7, <1>8, <1>9, <1>10, <1>11, <1>12, <1>13,
     <1>14, <1>15, <1>16, <1>17, <1>18 DEF Next, ReplicaStep, OperationStep

-----------------------------------------------------------------------------
(* Replicas, their writers and the journal state.                          *)

\* Every step of a uniform fleet keeps writers and journal state in agreement.
LEMMA FleetStep ==
    ASSUME ConstantAssumption, ~MixedFleet, TypeOK, FleetInv, [Next]_vars
    PROVE  FleetInv'
<1> USE DEF vars, replicaVars, journalVars, consumerVars, historyVars,
            FleetInv, UniformFleet, WritersAgree, OneAllocator, JournalFollowsSubscription,
            Served, NoTx
<1>1. ASSUME NEW r \in Replicas, NEW k \in 1 .. MaxEntries, NEW scopes \in [1 .. k -> Scopes],
             WriterDecide(r, k, scopes)
      PROVE  FleetInv'
  BY <1>1 DEF TypeOK, WriterDecide
<1>2. ASSUME NEW r \in Replicas, WriterAllocate(r)
      PROVE  FleetInv'
  BY <1>2 DEF TypeOK, WriterAllocate, HeadLockFree, WriterTx
<1>3. ASSUME NEW r \in Replicas, WriterCommit(r)
      PROVE  FleetInv'
  BY <1>3 DEF TypeOK, WriterCommit
<1>4. ASSUME NEW r \in Replicas, WriterCommitSkipped(r)
      PROVE  FleetInv'
  BY <1>4 DEF TypeOK, WriterCommitSkipped
<1>5. ASSUME NEW r \in Replicas, WriterRollback(r)
      PROVE  FleetInv'
  BY <1>5 DEF TypeOK, WriterRollback
<1>6. ASSUME NEW r \in Replicas, NEW m \in {"host", "core"}, StartReplica(r, m)
      PROVE  FleetInv'
  BY <1>6 DEF TypeOK, StartReplica, MayStart, Sync, Pause, Start, ExclusiveLockFree, HoldsShared
<1>7. ASSUME NEW r \in Replicas, StopReplica(r)
      PROVE  FleetInv'
  BY <1>7 DEF TypeOK, StopReplica
<1>8. ASSUME NEW p \in Plugins, ChangeSubscription(p)
      PROVE  FleetInv'
  BY <1>8 DEF TypeOK, ChangeSubscription, Sync, Pause, Start, ExclusiveLockFree, HoldsShared
<1>9. ASSUME UNCHANGED <<mode, wtx, subs, jstate, head>>
      PROVE  FleetInv'
  BY <1>9
<1>10. ASSUME NEW r \in Replicas, PruneScan(r) \/ PruneDelete(r) \/ PruneEnds(r)
       PROVE  FleetInv'
  BY <1>9, <1>10 DEF PruneScan, PruneDelete, PruneEnds
<1>11. ASSUME NEW o \in Operations, OperationStep(o)
       PROVE  FleetInv'
  BY <1>9, <1>11 DEF OperationStep, PrepareGrant, ReleaseGrant, ActivateGrant, GrantLapses,
                     SetGrant, ReadAcknowledge, ReadFromOldest, ReadPage, ReadFails
<1>12. ASSUME NEW c \in retained, EntryAges(c)
       PROVE  FleetInv'
  BY <1>9, <1>12 DEF EntryAges
<1> QED
  BY <1>1, <1>2, <1>3, <1>4, <1>5, <1>6, <1>7, <1>8, <1>9, <1>10, <1>11, <1>12
     DEF Next, ReplicaStep

-----------------------------------------------------------------------------
(* The journal, its history and the cursors of its consumers.              *)

\* The part of the types that the history needs.
CursorTypes ==
    /\ gap \in Nat /\ head \in Nat /\ prunedThrough \in Nat /\ total \in Nat
    /\ \A c \in retained : c \in Nat
    /\ \A o \in Operations : \A i \in issued[o] : i.cursor \in Nat /\ i.at \in Nat
    /\ \A ch \in changes : ch.n \in Nat /\ ch.cursor \in Nat

\* The changes of a transaction get the numbers after the history, and, when it
\* is journaled, the cursors after the head.
LEMMA CommittedChanges ==
    ASSUME ConstantAssumption, TypeOK, WritersAgree, OneAllocator, NEW r \in Replicas,
           wtx[r].stage # "none", wtx[r].journaled => wtx[r].stage = "allocated"
    PROVE  /\ wtx[r].size \in Nat /\ wtx[r].size > 0
           /\ wtx[r].journaled => wtx[r].first = head + 1
           /\ \A ch \in Committed(wtx[r]) :
                /\ ch.n \in total + 1 .. total + wtx[r].size
                /\ IF wtx[r].journaled
                     THEN /\ ch.cursor \in head + 1 .. head + wtx[r].size
                          /\ ch.cursor - head = ch.n - total
                     ELSE ch.cursor = 0
<1>1. /\ wtx[r].size \in Nat /\ wtx[r].size > 0 /\ wtx[r].first \in Nat
      /\ head \in Nat /\ total \in Nat
  BY DEF TypeOK, NoTx, WriterTx, ConstantAssumption
<1>2. wtx[r].journaled => wtx[r].first = head + 1
  BY DEF OneAllocator
<1>3. ASSUME NEW ch \in Committed(wtx[r])
      PROVE  /\ ch.n \in total + 1 .. total + wtx[r].size
             /\ IF wtx[r].journaled
                  THEN /\ ch.cursor \in head + 1 .. head + wtx[r].size
                       /\ ch.cursor - head = ch.n - total
                  ELSE ch.cursor = 0
  <2>1. PICK i \in 1 .. wtx[r].size :
            /\ ch.n = total + i
            /\ ch.cursor = IF wtx[r].journaled THEN wtx[r].first + i - 1 ELSE 0
    BY DEF Committed
  <2> QED
    BY <1>1, <1>2, <2>1
<1> QED
  BY <1>1, <1>2, <1>3

\* A commit with journal entries: it extends the history behind the head.
LEMMA CommitKeepsJournal ==
    ASSUME ConstantAssumption, TypeOK, FleetInv, JournalInv, NEW r \in Replicas, WriterCommit(r)
    PROVE  JournalInv'
<1> DEFINE k == wtx[r].size
           new == Committed(wtx[r])
<1>1. CursorTypes
  BY DEF TypeOK, CursorTypes
<1>2. wtx[r].journaled /\ jstate = "journaling"
  BY DEF WriterCommit, FleetInv, WritersAgree, OneAllocator
<1>3. /\ k \in Nat /\ k > 0
      /\ \A ch \in new : /\ ch.n \in total + 1 .. total + k
                         /\ ch.cursor \in head + 1 .. head + k
                         /\ ch.cursor - head = ch.n - total
      /\ wtx[r].first = head + 1
  BY <1>2, CommittedChanges DEF WriterCommit, FleetInv
<1>4. /\ head' = head + k /\ total' = total + k
      /\ retained' = retained \cup (head + 1 .. head + k)
      /\ changes' = changes \cup new
      /\ UNCHANGED <<jstate, gap, prunedThrough, issued>>
  BY <1>1, <1>3 DEF WriterCommit, consumerVars, CursorTypes
<1> HIDE DEF k, new
<1>5. HeadBounds'
  <2>1. retained' \subseteq 1 .. head'
    BY <1>1, <1>3, <1>4 DEF JournalInv, HeadBounds, CursorTypes
  <2>2. gap' <= head' /\ prunedThrough' <= head'
    BY <1>1, <1>3, <1>4 DEF JournalInv, HeadBounds, CursorTypes
  <2>3. \A o \in Operations : \A i \in issued'[o] : i.cursor <= head'
    BY <1>1, <1>3, <1>4 DEF JournalInv, HeadBounds, CursorTypes
  <2>4. \A ch \in changes' : ch.cursor <= head' /\ ch.n <= total'
    BY <1>1, <1>3, <1>4 DEF JournalInv, HeadBounds, CursorTypes
  <2> QED
    BY <2>1, <2>2, <2>3, <2>4 DEF HeadBounds
<1>6. RetainedContiguous'
  BY <1>1, <1>3, <1>4 DEF JournalInv, RetainedContiguous, CursorTypes
<1>7. NothingIssuedBeforeStart'
  BY <1>2, <1>4 DEF NothingIssuedBeforeStart
<1>8. HistoryOrdered'
  <2>1. ASSUME NEW ch \in changes', NEW later \in changes', later.n > ch.n, later.cursor # 0
        PROVE  later.cursor > ch.cursor
    BY <1>1, <1>3, <1>4, <2>1 DEF JournalInv, HistoryOrdered, HeadBounds, CursorTypes
  <2>2. ASSUME NEW ch \in changes', ch.cursor # 0
        PROVE  ch.cursor \in retained' \/ ch.cursor <= prunedThrough'
    BY <1>1, <1>3, <1>4, <2>2 DEF JournalInv, HistoryOrdered
  <2>3. ASSUME NEW ch \in changes', NEW later \in changes', ch.cursor > gap', later.n > ch.n
        PROVE  later.cursor # 0
    BY <1>1, <1>2, <1>3, <1>4, <2>3 DEF JournalInv, HistoryOrdered, HeadBounds, CursorTypes
  <2> QED
    BY <2>1, <2>2, <2>3 DEF HistoryOrdered
<1>9. CursorCoverage'
  <2>1. Horizon' = Horizon
    BY <1>4 DEF Horizon, MaxOf
  <2>2. ASSUME NEW o \in Operations, NEW i \in issued[o], i.cursor >= Horizon,
               NEW ch \in changes', ch.n > i.at
        PROVE  ch.cursor > i.cursor /\ ch.cursor \in retained'
    <3>1. CASE ch \in changes
      BY <1>2, <1>4, <2>2, <3>1 DEF JournalInv, CursorCoverage
    <3>2. CASE ch \in new
      BY <1>1, <1>3, <1>4, <2>2, <3>2 DEF JournalInv, HeadBounds, CursorTypes
    <3> QED
      BY <1>4, <3>1, <3>2
  <2> QED
    BY <1>4, <2>1, <2>2 DEF CursorCoverage
<1> QED
  BY <1>5, <1>6, <1>7, <1>8, <1>9 DEF JournalInv

\* A commit that skips the journal: the journal is not running.
LEMMA SkippedCommitKeepsJournal ==
    ASSUME ConstantAssumption, TypeOK, FleetInv, JournalInv,
           NEW r \in Replicas, WriterCommitSkipped(r)
    PROVE  JournalInv'
<1> DEFINE k == wtx[r].size
           new == Committed(wtx[r])
<1>1. CursorTypes
  BY DEF TypeOK, CursorTypes
<1>2. jstate # "journaling"
  BY DEF WriterCommitSkipped, FleetInv, WritersAgree
<1>3. /\ k \in Nat
      /\ \A ch \in new : ch.n \in total + 1 .. total + k /\ ch.cursor = 0
  BY CommittedChanges DEF WriterCommitSkipped, FleetInv
<1>4. /\ total' = total + k
      /\ changes' = changes \cup new
      /\ UNCHANGED <<jstate, gap, head, retained, prunedThrough, issued>>
  BY DEF WriterCommitSkipped, consumerVars, journalVars
<1> HIDE DEF k, new
<1>5. HeadBounds'
  <2>1. \A ch \in changes' : ch.cursor <= head' /\ ch.n <= total'
    BY <1>1, <1>3, <1>4 DEF JournalInv, HeadBounds, CursorTypes
  <2> QED
    BY <1>4, <2>1 DEF JournalInv, HeadBounds
<1>6. RetainedContiguous' /\ NothingIssuedBeforeStart'
  BY <1>4 DEF JournalInv, RetainedContiguous, NothingIssuedBeforeStart
<1>7. HistoryOrdered'
  <2>1. ASSUME NEW ch \in changes', NEW later \in changes', later.n > ch.n, later.cursor # 0
        PROVE  later.cursor > ch.cursor
    BY <1>1, <1>3, <1>4, <2>1 DEF JournalInv, HistoryOrdered, HeadBounds, CursorTypes
  <2>2. ASSUME NEW ch \in changes', ch.cursor # 0
        PROVE  ch.cursor \in retained' \/ ch.cursor <= prunedThrough'
    BY <1>3, <1>4, <2>2 DEF JournalInv, HistoryOrdered
  <2> QED
    BY <1>2, <1>4, <2>1, <2>2 DEF HistoryOrdered
<1>8. CursorCoverage'
  BY <1>2, <1>4 DEF CursorCoverage
<1> QED
  BY <1>5, <1>6, <1>7, <1>8 DEF JournalInv

\* Pausing hides the journal; starting it declares a gap above every cursor, or
\* finds that none was issued.
LEMMA SyncKeepsJournal ==
    ASSUME TypeOK, JournalInv, Pause \/ Start,
           UNCHANGED <<retained, prunedThrough, issued, changes, total>>
    PROVE  JournalInv'
<1>1. CursorTypes
  BY DEF TypeOK, CursorTypes
<1>2. CASE jstate' = jstate /\ UNCHANGED <<gap, head>>
  BY <1>2 DEF JournalInv, HeadBounds, RetainedContiguous, NothingIssuedBeforeStart,
              HistoryOrdered, CursorCoverage, Horizon, MaxOf
<1>3. CASE jstate' = "paused" /\ UNCHANGED <<gap, head>>
  BY <1>3 DEF JournalInv, HeadBounds, RetainedContiguous, NothingIssuedBeforeStart,
              HistoryOrdered, CursorCoverage
<1>4. CASE jstate = "none" /\ head = 0 /\ jstate' = "journaling" /\ UNCHANGED <<gap, head>>
  <2>1. HeadBounds' /\ RetainedContiguous' /\ NothingIssuedBeforeStart'
    BY <1>4 DEF JournalInv, HeadBounds, RetainedContiguous, NothingIssuedBeforeStart
  <2>2. HistoryOrdered'
    BY <1>1, <1>4 DEF JournalInv, HeadBounds, HistoryOrdered, CursorTypes
  <2>3. CursorCoverage'
    BY <1>4 DEF JournalInv, NothingIssuedBeforeStart, CursorCoverage
  <2> QED
    BY <2>1, <2>2, <2>3 DEF JournalInv
<1>5. CASE head' = head + 1 /\ gap' = head + 1 /\ jstate' = "journaling"
  <2>1. HeadBounds'
    <3>1. retained' \subseteq 1 .. head'
      BY <1>1, <1>5 DEF JournalInv, HeadBounds, CursorTypes
    <3>2. gap' <= head' /\ prunedThrough' <= head'
      BY <1>1, <1>5 DEF JournalInv, HeadBounds, CursorTypes
    <3>3. \A o \in Operations : \A i \in issued'[o] : i.cursor <= head'
      BY <1>1, <1>5 DEF JournalInv, HeadBounds, CursorTypes
    <3>4. \A ch \in changes' : ch.cursor <= head' /\ ch.n <= total'
      BY <1>1, <1>5 DEF JournalInv, HeadBounds, CursorTypes
    <3> QED
      BY <3>1, <3>2, <3>3, <3>4 DEF HeadBounds
  <2>2. RetainedContiguous' /\ NothingIssuedBeforeStart'
    BY <1>1, <1>5 DEF RetainedContiguous, NothingIssuedBeforeStart, CursorTypes
  <2>3. HistoryOrdered'
    BY <1>1, <1>5 DEF JournalInv, HeadBounds, HistoryOrdered, CursorTypes
  <2>4. ASSUME NEW o \in Operations, NEW i \in issued'[o], i.cursor >= Horizon'
        PROVE  FALSE
    BY <1>1, <1>5, <2>4 DEF JournalInv, HeadBounds, CursorTypes, Horizon, MaxOf
  <2>5. CursorCoverage'
    BY <2>4 DEF CursorCoverage
  <2> QED
    BY <2>1, <2>2, <2>3, <2>5 DEF JournalInv
<1> QED
  BY <1>2, <1>3, <1>4, <1>5 DEF Pause, Start

\* Retention removes a prefix and records it as the boundary.
LEMMA PruneKeepsJournal ==
    ASSUME TypeOK, JournalInv, NEW r \in Replicas, PruneDelete(r)
    PROVE  JournalInv'
<1> DEFINE bound == Largest(PrunablePrefix(prune[r]))
<1>1. CursorTypes
  BY DEF TypeOK, CursorTypes
<1>2. bound \in prunedThrough + 1 .. head
  BY PruneBound DEF PruneDelete, JournalInv
<1>3. /\ retained' = retained \ (prunedThrough + 1 .. bound)
      /\ prunedThrough' = bound
      /\ UNCHANGED <<jstate, gap, head, issued, changes, total>>
  BY DEF PruneDelete, consumerVars, historyVars
<1> HIDE DEF bound
<1>4. HeadBounds'
  <2>1. prunedThrough' <= head'
    BY <1>1, <1>2, <1>3 DEF CursorTypes
  <2>2. retained' \subseteq 1 .. head'
    BY <1>3 DEF JournalInv, HeadBounds
  <2> QED
    BY <1>3, <2>1, <2>2 DEF JournalInv, HeadBounds
<1>5. RetainedContiguous'
  BY <1>1, <1>2, <1>3 DEF JournalInv, RetainedContiguous, CursorTypes
<1>6. NothingIssuedBeforeStart'
  BY <1>3 DEF JournalInv, NothingIssuedBeforeStart
<1>7. HistoryOrdered'
  <2>1. ASSUME NEW ch \in changes, ch.cursor # 0
        PROVE  ch.cursor \in retained' \/ ch.cursor <= prunedThrough'
    BY <1>1, <1>2, <1>3, <2>1 DEF JournalInv, HistoryOrdered, CursorTypes
  <2> QED
    BY <1>3, <2>1 DEF JournalInv, HistoryOrdered
<1>8. CursorCoverage'
  <2>1. Horizon' >= Horizon /\ Horizon' >= bound /\ Horizon \in Nat /\ Horizon' \in Nat
    BY <1>1, <1>2, <1>3 DEF Horizon, MaxOf, CursorTypes
  <2>2. ASSUME jstate = "journaling", NEW o \in Operations, NEW i \in issued[o],
               i.cursor >= Horizon', NEW ch \in changes, ch.n > i.at
        PROVE  ch.cursor > i.cursor /\ ch.cursor \in retained'
    <3>1. i.cursor >= Horizon /\ i.cursor >= bound
      BY <1>1, <1>2, <2>1, <2>2 DEF CursorTypes
    <3>2. ch.cursor > i.cursor /\ ch.cursor \in retained
      BY <2>2, <3>1 DEF JournalInv, CursorCoverage
    <3> QED
      BY <1>1, <1>2, <1>3, <3>1, <3>2 DEF CursorTypes
  <2> QED
    BY <1>3, <2>2 DEF CursorCoverage
<1> QED
  BY <1>4, <1>5, <1>6, <1>7, <1>8 DEF JournalInv

\* A page: its cursor is the head with the whole history, or the cursor of its
\* last item, behind the last gap, whose later changes are all retained.
LEMMA PageKeepsJournal ==
    ASSUME ConstantAssumption, TypeOK, FleetInv, JournalInv, NEW o \in Operations, ReadPage(o)
    PROVE  JournalInv'
<1> DEFINE start == IF reading[o] = NilCursor THEN Horizon ELSE reading[o]
           items == FirstOf(Matching(o, start), PageLimit)
           entry == [cursor |-> NextCursor(items), at |-> AccountedFor(items)]
<1>1. CursorTypes
  BY DEF TypeOK, CursorTypes
<1>2. jstate = "journaling"
  BY DEF ReadPage, Subscribed, FleetInv, JournalFollowsSubscription
<1>3. start \in Nat /\ start >= Horizon
  BY <1>1 DEF ReadPage, TypeOK, Horizon, MaxOf, Idle, NilCursor, CursorTypes
<1>4. Horizon \in Nat /\ Horizon >= gap /\ Horizon >= prunedThrough
  BY <1>1 DEF Horizon, MaxOf, CursorTypes
<1>5. /\ issued' = [issued EXCEPT ![o] = @ \cup {entry}]
      /\ UNCHANGED <<jstate, gap, head, retained, prunedThrough, changes, total>>
  BY DEF ReadPage, journalVars, historyVars
<1> HIDE DEF start
<1>6. \/ entry.cursor = head /\ entry.at = total
      \/ \E ch \in changes : /\ entry.cursor = ch.cursor /\ entry.at = ch.n
                             /\ ch.cursor \in retained /\ ch.cursor > start
  BY <1>3, PageEnds DEF JournalInv
<1> HIDE DEF entry
<1>7. \A p \in Operations : \A i \in issued'[p] : i \in issued[p] \/ i = entry
  BY <1>5 DEF TypeOK
<1>8. HeadBounds'
  <2>1. \A p \in Operations : \A i \in issued'[p] : i.cursor <= head'
    BY <1>1, <1>5, <1>6, <1>7 DEF JournalInv, HeadBounds, CursorTypes
  <2> QED
    BY <1>5, <2>1 DEF JournalInv, HeadBounds
<1>9. RetainedContiguous' /\ NothingIssuedBeforeStart' /\ HistoryOrdered'
  BY <1>2, <1>5 DEF JournalInv, RetainedContiguous, NothingIssuedBeforeStart, HistoryOrdered
<1>10. CursorCoverage'
  <2>1. ASSUME NEW ch \in changes, ch.n > entry.at
        PROVE  ch.cursor > entry.cursor /\ ch.cursor \in retained
    <3>1. CASE entry.at = total
      BY <1>1, <2>1, <3>1 DEF JournalInv, HeadBounds, CursorTypes
    <3>2. ASSUME NEW last \in changes, entry.cursor = last.cursor, entry.at = last.n,
                 last.cursor > start
          PROVE  ch.cursor > entry.cursor /\ ch.cursor \in retained
      <4>1. ch.cursor # 0
        BY <1>1, <1>2, <1>3, <1>4, <2>1, <3>2 DEF JournalInv, HistoryOrdered, CursorTypes
      <4>2. ch.cursor > last.cursor
        BY <2>1, <3>2, <4>1 DEF JournalInv, HistoryOrdered
      <4>3. ch.cursor > prunedThrough
        BY <1>1, <1>3, <1>4, <3>2, <4>2 DEF CursorTypes
      <4> QED
        BY <1>1, <3>2, <4>1, <4>2, <4>3 DEF JournalInv, HistoryOrdered, CursorTypes
    <3> QED
      BY <1>6, <3>1, <3>2
  <2>2. Horizon' = Horizon
    BY <1>5 DEF Horizon, MaxOf
  <2> QED
    BY <1>2, <1>5, <1>7, <2>1, <2>2 DEF JournalInv, CursorCoverage
<1> QED
  BY <1>8, <1>9, <1>10 DEF JournalInv

\* Every step keeps the journal invariant.
LEMMA JournalStep ==
    ASSUME ConstantAssumption, TypeOK, FleetInv, JournalInv, [Next]_vars
    PROVE  JournalInv'
<1> USE DEF vars, replicaVars, journalVars, consumerVars, historyVars
<1>1. ASSUME UNCHANGED <<jstate, gap, head, retained, prunedThrough, issued, changes, total>>
      PROVE  JournalInv'
  BY <1>1 DEF JournalInv, HeadBounds, RetainedContiguous, NothingIssuedBeforeStart,
              HistoryOrdered, CursorCoverage, Horizon, MaxOf
<1>2. ASSUME NEW r \in Replicas, ReplicaStep(r)
      PROVE  JournalInv'
  <2>1. ASSUME NEW k \in 1 .. MaxEntries, NEW scopes \in [1 .. k -> Scopes], WriterDecide(r, k, scopes)
        PROVE  JournalInv'
    BY <1>1, <2>1 DEF WriterDecide
  <2>2. ASSUME WriterAllocate(r) \/ WriterRollback(r) \/ StopReplica(r) \/ PruneScan(r) \/ PruneEnds(r)
        PROVE  JournalInv'
    BY <1>1, <2>2 DEF WriterAllocate, WriterRollback, StopReplica, PruneScan, PruneEnds
  <2>3. ASSUME NEW m \in {"host", "core"}, StartReplica(r, m)
        PROVE  JournalInv'
    BY <2>3, SyncKeepsJournal DEF StartReplica, Sync
  <2> QED
    BY <1>2, <2>1, <2>2, <2>3, CommitKeepsJournal, SkippedCommitKeepsJournal, PruneKeepsJournal
       DEF ReplicaStep
<1>3. ASSUME NEW p \in Plugins, ChangeSubscription(p)
      PROVE  JournalInv'
  BY <1>3, SyncKeepsJournal DEF ChangeSubscription, Sync
<1>4. ASSUME NEW o \in Operations, OperationStep(o)
      PROVE  JournalInv'
  <2>1. ASSUME PrepareGrant(o) \/ ReleaseGrant(o) \/ ActivateGrant(o) \/ GrantLapses(o)
        PROVE  JournalInv'
    BY <1>1, <2>1 DEF PrepareGrant, ReleaseGrant, ActivateGrant, GrantLapses, SetGrant
  <2>2. ASSUME NEW i \in issued[o], ReadAcknowledge(o, i.cursor)
        PROVE  JournalInv'
    BY <1>1, <2>2 DEF ReadAcknowledge
  <2>3. ASSUME ReadFromOldest(o) \/ ReadFails(o)
        PROVE  JournalInv'
    BY <1>1, <2>3 DEF ReadFromOldest, ReadFails
  <2> QED
    BY <1>4, <2>1, <2>2, <2>3, PageKeepsJournal DEF OperationStep
<1>5. ASSUME NEW c \in retained, EntryAges(c)
      PROVE  JournalInv'
  BY <1>1, <1>5 DEF EntryAges
<1> QED
  BY <1>1, <1>2, <1>3, <1>4, <1>5 DEF Next

-----------------------------------------------------------------------------
(* The theorems.                                                           *)

\* The invariant holds initially, in an empty and in an upgraded database.
LEMMA InitIInv == ConstantAssumption /\ Init => IInv
<1> SUFFICES ASSUME ConstantAssumption, Init PROVE IInv
  OBVIOUS
<1>0. PICK h \in 0 .. LegacyHead :
        \E scopes \in [1 .. h -> Scopes], holders \in SUBSET Operations :
          /\ h = 0 => holders = {}
          /\ head = h /\ total = h /\ retained = 1 .. h
          /\ issued = [o \in Operations |->
                         IF o \in holders THEN {[cursor |-> h, at |-> h]} ELSE {}]
          /\ changes = {[n |-> i, scope |-> scopes[i], cursor |-> i] : i \in 1 .. h}
  BY DEF Init
<1>1. PICK scopes \in [1 .. h -> Scopes], holders \in SUBSET Operations :
        /\ h = 0 => holders = {}
        /\ head = h /\ total = h /\ retained = 1 .. h
        /\ issued = [o \in Operations |->
                       IF o \in holders THEN {[cursor |-> h, at |-> h]} ELSE {}]
        /\ changes = {[n |-> i, scope |-> scopes[i], cursor |-> i] : i \in 1 .. h}
  BY <1>0
<1>2. /\ mode = [r \in Replicas |-> "off"] /\ wtx = [r \in Replicas |-> NoTx]
      /\ prune = [r \in Replicas |-> NoPrune] /\ subs = {} /\ gap = 0
      /\ jstate \in {"none", "journaling"}
      /\ old = {} /\ prunedThrough = 0 /\ acked = [o \in Operations |-> -1]
      /\ reading = [o \in Operations |-> Idle]
      /\ grants \in [Operations -> {"none", "live", "released", "lapsed"}]
  BY DEF Init
<1>3. h \in Nat
  BY <1>1 DEF ConstantAssumption
<1>4. TypeOK
  <2>1. \A i \in 1 .. h : scopes[i] \in Scopes /\ i \in Nat
    OBVIOUS
  <2>2. changes \subseteq [n : Nat, scope : Scopes, cursor : Nat]
    BY <1>1, <2>1
  <2>3. issued \in [Operations -> SUBSET [cursor : Nat, at : Nat]]
    BY <1>1, <1>3
  <2> QED
    BY <1>1, <1>2, <1>3, <2>2, <2>3 DEF TypeOK
<1>5. FleetInv
  BY <1>2 DEF FleetInv, UniformFleet, WritersAgree, OneAllocator, JournalFollowsSubscription, NoTx, Served
<1>6. JournalInv
  <2>1. \A ch \in changes : ch.n \in 1 .. h /\ ch.cursor = ch.n
    BY <1>1
  <2>2. \A o \in Operations : \A i \in issued[o] : i.cursor = h
    BY <1>1
  <2>3. HeadBounds
    BY <1>1, <1>2, <1>3, <2>1, <2>2 DEF HeadBounds
  <2>4. RetainedContiguous
    BY <1>1, <1>2, <1>3 DEF RetainedContiguous
  <2>5. NothingIssuedBeforeStart
    BY <1>1 DEF NothingIssuedBeforeStart
  <2>6. HistoryOrdered
    BY <1>1, <1>2, <1>3, <2>1 DEF HistoryOrdered
  <2>7. CursorCoverage
    <3>1. \A o \in Operations : \A i \in issued[o] : i.at = h
      BY <1>1
    <3> QED
      BY <1>3, <2>1, <3>1 DEF CursorCoverage
  <2> QED
    BY <2>3, <2>4, <2>5, <2>6, <2>7 DEF JournalInv
<1> QED
  BY <1>4, <1>5, <1>6 DEF IInv

\* The inductive invariant holds throughout every behaviour of a uniform fleet.
THEOREM Invariance ==
    ASSUME ~MixedFleet
    PROVE  Spec => []IInv
<1>1. Init => IInv
  BY InitIInv, ConstantAssumption
<1>2. IInv /\ [Next]_vars => IInv'
  BY TypeStep, FleetStep, JournalStep, ConstantAssumption DEF IInv, JournalInv
<1> QED
  BY <1>1, <1>2, PTL DEF Spec

\* The tables, the transactions and the history keep their types.
THEOREM TypeCorrect ==
    ASSUME ~MixedFleet
    PROVE  Spec => []TypeOK
<1>1. IInv => TypeOK
  BY DEF IInv
<1> QED
  BY <1>1, Invariance, PTL

\* No silent skip (flushExtensionJournal, startExtensionResourceJournal,
\* ReadExtensionResourceEvents, pruneExtensionResourceOrganization): a cursor
\* that is not expired accounts for every later change.
THEOREM NoSilentSkip ==
    ASSUME ~MixedFleet
    PROVE  Spec => []CursorCoverage
<1>1. IInv => CursorCoverage
  BY DEF IInv, JournalInv
<1> QED
  BY <1>1, Invariance, PTL

\* Retained history has no holes: a cursor is never visible before the
\* transaction that allocated it commits (journalExtensionResourceEvent).
THEOREM NoHoles ==
    ASSUME ~MixedFleet
    PROVE  Spec => []RetainedContiguous
<1>1. IInv => RetainedContiguous
  BY DEF IInv, JournalInv
<1> QED
  BY <1>1, Invariance, PTL

\* The journal runs exactly while someone subscribes, as seen by a serving
\* plugin host (syncExtensionResourceJournal).
THEOREM SubscriptionFollowed ==
    ASSUME ~MixedFleet
    PROVE  Spec => []JournalFollowsSubscription
<1>1. IInv => JournalFollowsSubscription
  BY DEF IInv, FleetInv
<1> QED
  BY <1>1, Invariance, PTL

-----------------------------------------------------------------------------
(* Pages are complete.                                                     *)

PageRow == [stage : {"page"}, from : Nat, next : Nat, items : SUBSET Nat]

\* No page reaches beyond the head, where the next entries are appended.
PagesBounded ==
    /\ lastPage \in [Operations -> {NoPage} \cup PageRow]
    /\ \A o \in Operations : lastPage[o].stage = "page" => lastPage[o].next <= head

\* ORDER BY ... LIMIT takes the smallest cursors, and fewer than the limit only
\* when there are no more.
LEMMA FirstOfTakesSmallest ==
    ASSUME NEW h \in Nat, NEW M \in SUBSET (0 .. h), NEW limit \in Nat \ {0},
           NEW c \in M, c \notin FirstOf(M, limit)
    PROVE  /\ Cardinality(FirstOf(M, limit)) = limit
           /\ \A d \in FirstOf(M, limit) : d < c
<1> DEFINE UpTo(x) == {d \in M : d <= x}
           F == FirstOf(M, limit)
<1>0. \A d \in M : d \in Nat /\ d <= h
  OBVIOUS
<1>1. \A x \in M : IsFiniteSet(UpTo(x)) /\ Cardinality(UpTo(x)) \in Nat
  <2>1. IsFiniteSet(0 .. h)
    BY FS_Interval
  <2>2. \A x \in M : UpTo(x) \subseteq 0 .. h
    OBVIOUS
  <2> QED
    BY <2>1, <2>2, FS_Subset, FS_CardinalityType
<1>2. \A x \in M : x \in F <=> Cardinality(UpTo(x)) <= limit
  BY DEF FirstOf
<1>3. F \subseteq M
  BY DEF FirstOf
<1>4. ASSUME NEW x \in M, NEW y \in M, x <= y, y \in F
      PROVE  x \in F
  <2>1. ASSUME NEW d \in UpTo(x)
        PROVE  d \in UpTo(y)
    <3>1. d \in Nat /\ x \in Nat /\ y \in Nat /\ d <= x
      BY <1>0
    <3> QED
      BY <1>4, <3>1
  <2>2. Cardinality(UpTo(x)) <= Cardinality(UpTo(y))
    BY <1>1, <2>1, FS_Subset
  <2> HIDE DEF UpTo, F
  <2> QED
    BY <1>1, <1>2, <1>4, <2>2
<1>5. PICK m \in M \ F : \A d \in M \ F : m <= d
  <2>1. M \ F \in SUBSET Nat /\ M \ F # {}
    BY <1>0
  <2> HIDE DEF F
  <2> QED
    BY <2>1, SmallestExists
<1>6. \A d \in F : d < m
  <2> TAKE d \in F
  <2>1. d \in M /\ d \in Nat /\ m \in Nat
    BY <1>0, <1>3, <1>5
  <2>2. ~(m <= d)
    BY <1>4, <1>5, <2>1
  <2> QED
    BY <2>1, <2>2
<1>7. UpTo(m) = F \cup {m}
  <2>1. \A d \in M : d \in Nat
    BY <1>0
  <2>2. m \in Nat /\ m \in M
    BY <1>5, <2>1
  <2>3. ASSUME NEW d \in UpTo(m), d # m
        PROVE  d \in F
    <3>1. d \in M /\ d <= m /\ ~(m <= d)
      BY <2>1, <2>2, <2>3
    <3> QED
      BY <1>5, <3>1
  <2>4. ASSUME NEW d \in F
        PROVE  d \in UpTo(m)
    <3>1. d \in M /\ d \in Nat /\ d < m
      BY <1>3, <1>6, <2>1
    <3> QED
      BY <2>2, <3>1
  <2>5. m \in UpTo(m)
    BY <2>1, <2>2
  <2> HIDE DEF F, UpTo
  <2> QED
    BY <2>3, <2>4, <2>5
<1>8. IsFiniteSet(F) /\ Cardinality(F) \in Nat
  <2>1. F \subseteq UpTo(m)
    BY <1>7
  <2> QED
    BY <1>1, <1>5, <2>1, FS_Subset, FS_CardinalityType
<1>9. Cardinality(UpTo(m)) = Cardinality(F) + 1
  <2>1. m \notin F
    BY <1>5
  <2> HIDE DEF F, UpTo
  <2> QED
    BY <1>7, <1>8, <2>1, FS_AddElement
<1>10. Cardinality(F) >= limit
  <2>1. m \in M /\ m \notin F
    BY <1>5
  <2> HIDE DEF F, UpTo
  <2> QED
    BY <1>1, <1>2, <1>8, <1>9, <2>1
<1>11. Cardinality(F) <= limit
  <2>1. CASE F = {}
    BY <2>1, FS_EmptySet
  <2>2. CASE F # {}
    <3>1. F \in SUBSET Nat /\ \A d \in F : d <= h
      BY <1>0, <1>3
    <3>2. PICK l \in F : \A d \in F : d <= l
      <4> HIDE DEF F
      <4> QED
        BY <2>2, <3>1, LargestExists
    <3>3. F \subseteq UpTo(l) /\ l \in M
      BY <1>3, <3>2
    <3>4. Cardinality(F) <= Cardinality(UpTo(l))
      BY <1>1, <3>3, FS_Subset
    <3>5. Cardinality(UpTo(l)) <= limit
      BY <1>2, <3>2, <3>3
    <3> HIDE DEF F, UpTo
    <3> QED
      BY <1>1, <1>8, <3>3, <3>4, <3>5
  <2> QED
    BY <2>1, <2>2
<1>12. m <= c
  BY <1>5
<1>13. \A d \in F : d < c
  <2> TAKE d \in F
  <2>1. d \in Nat /\ m \in Nat /\ c \in Nat
    BY <1>0, <1>3, <1>5
  <2> QED
    BY <1>6, <1>12, <2>1
<1> QED
  BY <1>8, <1>10, <1>11, <1>13

\* A page of the read's second transaction has every event of its scope between
\* its start and its next cursor.
LEMMA PageTakesAll ==
    ASSUME ConstantAssumption, TypeOK, HeadBounds, HistoryOrdered,
           NEW o \in Operations, NEW start \in Nat, start >= Horizon,
           NEW items, items = FirstOf(Matching(o, start), PageLimit),
           NEW ch \in changes, ch.scope \in ScopeOf[o],
           ch.cursor > start, ch.cursor <= NextCursor(items)
    PROVE  ch.cursor \in items
<1> DEFINE M == Matching(o, start)
<1>1. CursorTypes
  BY DEF TypeOK, CursorTypes
<1>2. Horizon \in Nat /\ Horizon >= prunedThrough
  BY <1>1 DEF Horizon, MaxOf, CursorTypes
<1>3. ch.cursor \in Nat /\ ch.cursor # 0 /\ ch.cursor > prunedThrough
  BY <1>1, <1>2 DEF CursorTypes
<1>4. ch.cursor \in retained /\ ch.cursor <= head
  BY <1>1, <1>3 DEF HistoryOrdered, HeadBounds, CursorTypes
<1>5. ch.cursor \in M
  BY <1>4 DEF Matching
<1>6. M \in SUBSET (0 .. head)
  BY <1>1 DEF Matching, CursorTypes
<1>7. head \in Nat
  BY <1>1 DEF CursorTypes
<1>8. PageLimit \in Nat \ {0}
  BY DEF ConstantAssumption
<1> HIDE DEF M
<1>9. SUFFICES ASSUME ch.cursor \notin items PROVE FALSE
  OBVIOUS
<1>10. items = FirstOf(M, PageLimit)
  BY DEF M
<1>11. Cardinality(items) = PageLimit /\ \A d \in items : d < ch.cursor
  BY <1>5, <1>6, <1>7, <1>8, <1>9, <1>10, FirstOfTakesSmallest
<1>12. items \in SUBSET Nat /\ \A d \in items : d <= head
  <2>1. \A d \in M : d \in Nat /\ d <= head
    BY <1>6, <1>7
  <2> QED
    BY <1>10, <2>1 DEF FirstOf
<1>13. items # {}
  BY <1>8, <1>11, FS_EmptySet
<1>14. \E c \in items : \A d \in items : d <= c
  BY <1>7, <1>12, <1>13, LargestExists
<1>15. NextCursor(items) \in items
  BY <1>11, <1>14 DEF NextCursor, Largest
<1> QED
  BY <1>3, <1>11, <1>12, <1>15

\* The journal only grows at its end: no step takes the head back, and a change
\* that a step commits has no cursor or one behind the head.
LEMMA HistoryGrows ==
    ASSUME ConstantAssumption, TypeOK, FleetInv, [Next]_vars
    PROVE  /\ head' >= head
           /\ \A ch \in changes' : ch \in changes \/ ch.cursor = 0 \/ ch.cursor > head
<1> USE DEF vars, replicaVars, journalVars, consumerVars, historyVars
<1>0. head \in Nat
  BY DEF TypeOK
<1>1. ASSUME head' = head \/ head' = head + 1, changes' = changes
      PROVE  head' >= head /\ \A ch \in changes' : ch \in changes \/ ch.cursor = 0 \/ ch.cursor > head
  BY <1>0, <1>1
<1>2. ASSUME NEW r \in Replicas, WriterCommit(r)
      PROVE  head' >= head /\ \A ch \in changes' : ch \in changes \/ ch.cursor = 0 \/ ch.cursor > head
  <2>1. /\ wtx[r].size \in Nat /\ wtx[r].size > 0 /\ wtx[r].first = head + 1
        /\ \A ch \in Committed(wtx[r]) : ch.cursor \in head + 1 .. head + wtx[r].size
    BY <1>2, CommittedChanges DEF WriterCommit, FleetInv, OneAllocator
  <2>2. head' = wtx[r].first + wtx[r].size - 1 /\ changes' = changes \cup Committed(wtx[r])
    BY <1>2 DEF WriterCommit
  <2>3. head' >= head
    BY <1>0, <2>1, <2>2
  <2>4. \A ch \in Committed(wtx[r]) : ch.cursor > head
    BY <1>0, <2>1
  <2> QED
    BY <2>2, <2>3, <2>4
<1>3. ASSUME NEW r \in Replicas, WriterCommitSkipped(r)
      PROVE  head' >= head /\ \A ch \in changes' : ch \in changes \/ ch.cursor = 0 \/ ch.cursor > head
  <2>1. \A ch \in Committed(wtx[r]) : ch.cursor = 0
    BY <1>3, CommittedChanges DEF WriterCommitSkipped, FleetInv
  <2>2. head' = head /\ changes' = changes \cup Committed(wtx[r])
    BY <1>3 DEF WriterCommitSkipped
  <2> QED
    BY <1>0, <2>1, <2>2
<1>4. ASSUME NEW r \in Replicas, ReplicaStep(r), ~WriterCommit(r), ~WriterCommitSkipped(r)
      PROVE  (head' = head \/ head' = head + 1) /\ changes' = changes
  <2>1. ASSUME NEW k \in 1 .. MaxEntries, NEW scopes \in [1 .. k -> Scopes], WriterDecide(r, k, scopes)
        PROVE  head' = head /\ changes' = changes
    BY <2>1 DEF WriterDecide
  <2>2. ASSUME WriterAllocate(r) \/ WriterRollback(r) \/ StopReplica(r) \/ PruneScan(r) \/ PruneEnds(r)
               \/ PruneDelete(r)
        PROVE  head' = head /\ changes' = changes
    BY <2>2 DEF WriterAllocate, WriterRollback, StopReplica, PruneScan, PruneEnds, PruneDelete
  <2>3. ASSUME NEW m \in {"host", "core"}, StartReplica(r, m)
        PROVE  (head' = head \/ head' = head + 1) /\ changes' = changes
    BY <2>3 DEF StartReplica, Sync, Pause, Start
  <2> QED
    BY <1>4, <2>1, <2>2, <2>3 DEF ReplicaStep
<1>5. ASSUME NEW p \in Plugins, ChangeSubscription(p)
      PROVE  (head' = head \/ head' = head + 1) /\ changes' = changes
  BY <1>5 DEF ChangeSubscription, Sync, Pause, Start
<1>6. ASSUME NEW o \in Operations, OperationStep(o)
      PROVE  head' = head /\ changes' = changes
  BY <1>6 DEF OperationStep, PrepareGrant, ReleaseGrant, ActivateGrant, GrantLapses, SetGrant,
     ReadAcknowledge, ReadFromOldest, ReadPage, ReadFails
<1>7. ASSUME NEW c \in retained, EntryAges(c)
      PROVE  head' = head /\ changes' = changes
  BY <1>7 DEF EntryAges
<1> QED
  BY <1>1, <1>2, <1>3, <1>4, <1>5, <1>6, <1>7 DEF Next

\* What ReadPage returns: it starts at the horizon or at the consumer's cursor and
\* holds every event of its scope up to its next cursor.
LEMMA PageFacts ==
    ASSUME ConstantAssumption, TypeOK, FleetInv, JournalInv, NEW o \in Operations, ReadPage(o)
    PROVE  \E row \in PageRow :
             /\ lastPage' = [lastPage EXCEPT ![o] = row]
             /\ row.from = (IF reading[o] = NilCursor THEN Horizon ELSE reading[o])
             /\ row.from >= Horizon
             /\ row.next <= head
             /\ \A ch \in changes :
                  ch.cursor > row.from /\ ch.cursor <= row.next /\ ch.scope \in ScopeOf[o]
                      => ch.cursor \in row.items
             /\ \E i \in issued'[o] : i.cursor = row.next
<1> DEFINE start == IF reading[o] = NilCursor THEN Horizon ELSE reading[o]
           items == FirstOf(Matching(o, start), PageLimit)
           row == [stage |-> "page", from |-> start, next |-> NextCursor(items), items |-> items]
<1>1. CursorTypes
  BY DEF TypeOK, CursorTypes
<1>2. start \in Nat /\ start >= Horizon
  BY <1>1 DEF ReadPage, TypeOK, Horizon, MaxOf, Idle, NilCursor, CursorTypes
<1>3. /\ lastPage' = [lastPage EXCEPT ![o] = row]
      /\ issued' = [issued EXCEPT ![o] =
                      @ \cup {[cursor |-> NextCursor(items), at |-> AccountedFor(items)]}]
  BY DEF ReadPage
<1> HIDE DEF start
<1>4. NextCursor(items) \in Nat /\ NextCursor(items) <= head
  <2>1. \/ NextCursor(items) = head
        \/ \E ch \in changes : NextCursor(items) = ch.cursor
    BY <1>2, PageEnds DEF JournalInv
  <2> QED
    BY <1>1, <2>1 DEF JournalInv, HeadBounds, CursorTypes
<1>5. items \in SUBSET Nat
  BY <1>1 DEF FirstOf, Matching, CursorTypes
<1>6. \A ch \in changes :
        ch.cursor > start /\ ch.cursor <= NextCursor(items) /\ ch.scope \in ScopeOf[o]
            => ch.cursor \in items
  BY <1>2, PageTakesAll DEF JournalInv
<1> DEFINE entry == [cursor |-> NextCursor(items), at |-> AccountedFor(items)]
<1> HIDE DEF items
<1>7. \E i \in issued'[o] : i.cursor = NextCursor(items)
  <2>1. entry.cursor = NextCursor(items)
    OBVIOUS
  <2>2. issued' = [issued EXCEPT ![o] = @ \cup {entry}]
    BY <1>3
  <2> HIDE DEF entry
  <2>3. entry \in issued'[o]
    BY <2>2 DEF TypeOK
  <2> QED
    BY <2>1, <2>3
<1>8. /\ row \in PageRow /\ row.from = start /\ row.next = NextCursor(items) /\ row.items = items
  BY <1>2, <1>4, <1>5 DEF PageRow
<1> HIDE DEF row
<1>9. row.from = (IF reading[o] = NilCursor THEN Horizon ELSE reading[o])
  BY <1>8 DEF start
<1> QED
  BY <1>2, <1>3, <1>4, <1>6, <1>7, <1>8, <1>9

\* A page stays complete: later entries get cursors beyond its next cursor.
LEMMA PagesStep ==
    ASSUME ConstantAssumption, TypeOK, FleetInv, JournalInv, PagesBounded, PageComplete,
           [Next]_vars
    PROVE  PagesBounded' /\ PageComplete'
<1>1. CursorTypes
  BY DEF TypeOK, CursorTypes
<1>2. head' \in Nat /\ head' >= head
  BY TypeStep, HistoryGrows DEF JournalInv, TypeOK
<1>3. ASSUME NEW o \in Operations, ReadPage(o)
      PROVE  PagesBounded' /\ PageComplete'
  <2>1. PICK row \in PageRow :
          /\ lastPage' = [lastPage EXCEPT ![o] = row]
          /\ row.next <= head
          /\ \A ch \in changes :
               ch.cursor > row.from /\ ch.cursor <= row.next /\ ch.scope \in ScopeOf[o]
                   => ch.cursor \in row.items
    BY <1>3, PageFacts
  <2>2. head' = head /\ changes' = changes
    BY <1>3 DEF ReadPage, journalVars, historyVars
  <2>3. \A q \in Operations : lastPage'[q] = IF q = o THEN row ELSE lastPage[q]
    BY <2>1 DEF PagesBounded
  <2>4. lastPage' \in [Operations -> {NoPage} \cup PageRow]
    BY <2>1 DEF PagesBounded
  <2>5. PagesBounded'
    BY <2>1, <2>2, <2>3, <2>4 DEF PagesBounded
  <2>6. PageComplete'
    BY <2>1, <2>2, <2>3 DEF PageComplete
  <2> QED
    BY <2>5, <2>6
<1>4. ASSUME lastPage' = lastPage
      PROVE  PagesBounded' /\ PageComplete'
  <2>1. ASSUME NEW o \in Operations, lastPage[o].stage = "page"
        PROVE  lastPage[o].from \in Nat /\ lastPage[o].next \in Nat /\ lastPage[o].next <= head
    BY <2>1 DEF PagesBounded, PageRow, NoPage
  <2>2. PagesBounded'
    BY <1>1, <1>2, <1>4, <2>1 DEF PagesBounded, CursorTypes
  <2>3. ASSUME NEW o \in Operations, lastPage[o].stage = "page", NEW ch \in changes',
               ch.cursor > lastPage[o].from, ch.cursor <= lastPage[o].next, ch.scope \in ScopeOf[o]
        PROVE  ch.cursor \in lastPage[o].items
    <3>1. ch.cursor # 0 /\ ~(ch.cursor > head)
      <4>1. ch.cursor \in Nat
        BY TypeStep DEF JournalInv, TypeOK
      <4> QED
        BY <1>1, <2>1, <2>3, <4>1 DEF CursorTypes
    <3>2. ch \in changes
      BY <3>1, HistoryGrows
    <3> QED
      BY <2>3, <3>2 DEF PageComplete
  <2> QED
    BY <1>4, <2>2, <2>3 DEF PageComplete
<1>5. (\E o \in Operations : ReadPage(o)) \/ lastPage' = lastPage
  BY DEF Next, ReplicaStep, WriterDecide, WriterAllocate, WriterCommit, WriterCommitSkipped,
     WriterRollback, StartReplica, StopReplica, PruneScan, PruneDelete, PruneEnds,
     ChangeSubscription, OperationStep, PrepareGrant, ReleaseGrant, ActivateGrant, GrantLapses,
     SetGrant, ReadAcknowledge, ReadFromOldest, ReadFails, EntryAges, vars, consumerVars
<1> QED
  BY <1>3, <1>4, <1>5

\* The page query (ReadExtensionResourceEvents) misses nothing: a page has every
\* event of its scope between its start and the cursor it returns, also those of
\* transactions that were open while it was read.
THEOREM PagesAreComplete ==
    ASSUME ~MixedFleet
    PROVE  Spec => []PageComplete
<1>1. Init => PagesBounded /\ PageComplete
  BY DEF Init, PagesBounded, PageComplete, NoPage
<1>2. IInv /\ PagesBounded /\ PageComplete /\ [Next]_vars => (PagesBounded /\ PageComplete)'
  BY PagesStep, ConstantAssumption DEF IInv
<1> QED
  BY <1>1, <1>2, Invariance, PTL DEF Spec

-----------------------------------------------------------------------------
(* Retention keeps what its consumers need.                                *)

\* One run at a time is between its two statements, and what it read is still a
\* lower bound: no consumer it counted has taken an acknowledgement back.
ScansHold ==
    /\ \A r, q \in Replicas :
         prune[r].stage = "scanned" /\ prune[q].stage = "scanned" => r = q
    /\ \A r \in Replicas :
         prune[r].stage = "scanned" =>
             \A o \in prune[r].holders : prune[r].below <= MaxOf(acked[o], 0)

\* MIN over the active consumers is at most the acknowledgement of each.
LEMMA LowestIsLowest ==
    ASSUME TypeOK, NEW o \in Operations, Holder(o)
    PROVE  LowestAcknowledgement <= MaxOf(acked[o], 0)
<1> DEFINE acks == {MaxOf(acked[x], 0) : x \in {y \in Operations : Holder(y)}}
<1>1. acks \in SUBSET Nat
  BY DEF TypeOK, MaxOf
<1>2. MaxOf(acked[o], 0) \in acks
  OBVIOUS
<1>3. LowestAcknowledgement = Smallest(acks)
  BY <1>2 DEF LowestAcknowledgement
<1> HIDE DEF acks
<1>4. \E m \in acks : \A s \in acks : m <= s
  BY <1>1, <1>2, SmallestExists
<1> QED
  BY <1>2, <1>3, <1>4 DEF Smallest

\* The upsert of acknowledgeExtensionResourceCursor never takes one back.
LEMMA AcknowledgementsAdvance ==
    ASSUME TypeOK, [Next]_vars, NEW o \in Operations
    PROVE  MaxOf(acked[o], 0) <= MaxOf(acked'[o], 0)
<1> USE DEF vars, consumerVars
<1>1. acked[o] \in Int /\ \A p \in Operations : \A i \in issued[p] : i.cursor \in Nat
  BY DEF TypeOK
<1>2. ASSUME NEW p \in Operations, NEW i \in issued[p], ReadAcknowledge(p, i.cursor)
      PROVE  MaxOf(acked[o], 0) <= MaxOf(acked'[o], 0)
  <2>1. acked'[o] = acked[o] \/ (acked'[o] = i.cursor /\ acked[o] < i.cursor)
    BY <1>2 DEF ReadAcknowledge, TypeOK
  <2>2. i.cursor \in Nat
    BY <1>1
  <2> QED
    BY <1>1, <2>1, <2>2 DEF MaxOf
<1>3. (\E p \in Operations : \E i \in issued[p] : ReadAcknowledge(p, i.cursor)) \/ acked' = acked
  BY DEF Next, ReplicaStep, WriterDecide, WriterAllocate, WriterCommit, WriterCommitSkipped,
     WriterRollback, StartReplica, StopReplica, PruneScan, PruneDelete, PruneEnds,
     ChangeSubscription, OperationStep, PrepareGrant, ReleaseGrant, ActivateGrant, GrantLapses,
     SetGrant, ReadPage, ReadFromOldest, ReadFails, EntryAges
<1>4. MaxOf(acked[o], 0) <= MaxOf(acked[o], 0)
  BY <1>1 DEF MaxOf
<1> QED
  BY <1>2, <1>3, <1>4

\* Every step keeps the scans.
LEMMA ScansStep ==
    ASSUME ConstantAssumption, TypeOK, HeadBounds, ScansHold, [Next]_vars
    PROVE  ScansHold'
<1>1. \A r \in Replicas : \A o \in prune[r].holders :
        prune[r].stage = "scanned" =>
          /\ o \in Operations /\ prune[r].below \in Nat
          /\ MaxOf(acked[o], 0) \in Nat /\ MaxOf(acked'[o], 0) \in Nat
  BY TypeStep DEF TypeOK, PruneTx, NoPrune, MaxOf
<1>2. ASSUME NEW r \in Replicas, PruneScan(r)
      PROVE  ScansHold'
  <2>1. /\ \A q \in Replicas : prune[q].stage = "none"
        /\ acked' = acked
        /\ prune' = [prune EXCEPT ![r] =
                       [stage |-> "scanned", below |-> LowestAcknowledgement, old |-> old,
                        holders |-> {o \in Operations : Holder(o)}]]
    BY <1>2 DEF PruneScan, consumerVars
  <2>2. \A q \in Replicas : prune'[q].stage = "scanned" => q = r
    BY <2>1 DEF TypeOK
  <2>3. prune'[r].below = LowestAcknowledgement /\ prune'[r].holders = {o \in Operations : Holder(o)}
    BY <2>1 DEF TypeOK
  <2>4. \A o \in prune'[r].holders : prune'[r].below <= MaxOf(acked'[o], 0)
    BY <2>1, <2>3, LowestIsLowest
  <2> QED
    BY <2>2, <2>4 DEF ScansHold, MaxOf
<1>3. ASSUME \A r \in Replicas : prune'[r] = prune[r] \/ prune'[r] = NoPrune
      PROVE  ScansHold'
  <2>1. \A r \in Replicas : prune'[r].stage = "scanned" => prune'[r] = prune[r]
    BY <1>3 DEF NoPrune
  <2>2. ASSUME NEW r \in Replicas, prune'[r].stage = "scanned", NEW o \in prune'[r].holders
        PROVE  prune'[r].below <= MaxOf(acked'[o], 0)
    <3>1. prune'[r] = prune[r]
      BY <2>1, <2>2
    <3>2. o \in Operations /\ prune[r].below <= MaxOf(acked[o], 0)
      BY <1>1, <2>2, <3>1 DEF ScansHold
    <3>3. MaxOf(acked[o], 0) <= MaxOf(acked'[o], 0)
      BY <3>2, AcknowledgementsAdvance
    <3>4. prune[r].below \in Nat /\ MaxOf(acked[o], 0) \in Nat /\ MaxOf(acked'[o], 0) \in Nat
      BY <1>1, <2>2, <3>1
    <3> QED
      BY <3>1, <3>2, <3>3, <3>4
  <2>3. \A r, q \in Replicas :
          prune'[r].stage = "scanned" /\ prune'[q].stage = "scanned" => r = q
    BY <2>1 DEF ScansHold
  <2> QED
    BY <2>2, <2>3 DEF ScansHold, MaxOf
<1>4. \/ \E r \in Replicas : PruneScan(r)
      \/ \A r \in Replicas : prune'[r] = prune[r] \/ prune'[r] = NoPrune
  <2>1. ASSUME NEW r \in Replicas, StopReplica(r) \/ PruneDelete(r) \/ PruneEnds(r)
        PROVE  \A q \in Replicas : prune'[q] = prune[q] \/ prune'[q] = NoPrune
    BY <2>1 DEF StopReplica, PruneDelete, PruneEnds, TypeOK
  <2>2. \/ \E r \in Replicas : PruneScan(r) \/ StopReplica(r) \/ PruneDelete(r) \/ PruneEnds(r)
        \/ prune' = prune
    BY DEF Next, ReplicaStep, WriterDecide, WriterAllocate, WriterCommit, WriterCommitSkipped,
       WriterRollback, StartReplica, ChangeSubscription, OperationStep, PrepareGrant,
       ReleaseGrant, ActivateGrant, GrantLapses, SetGrant, ReadAcknowledge, ReadPage,
       ReadFromOldest, ReadFails, EntryAges, vars, replicaVars
  <2> QED
    BY <2>1, <2>2
<1> QED
  BY <1>2, <1>3, <1>4

\* The boundary of a run is below the acknowledgement of each consumer it counted.
LEMMA PruneRespectsHolders ==
    ASSUME TypeOK, HeadBounds, ScansHold, [Next]_vars,
           NEW r \in Replicas, prune[r].stage = "scanned", prunedThrough' # prunedThrough,
           NEW o \in prune[r].holders, NEW i \in issued[o], i.cursor >= acked[o]
    PROVE  i.cursor >= prunedThrough'
<1>1. PICK q \in Replicas : PruneDelete(q)
  BY DEF Next, ReplicaStep, WriterDecide, WriterAllocate, WriterCommit, WriterCommitSkipped,
     WriterRollback, StartReplica, StopReplica, PruneScan, PruneEnds, ChangeSubscription,
     OperationStep, PrepareGrant, ReleaseGrant, ActivateGrant, GrantLapses, SetGrant,
     ReadAcknowledge, ReadPage, ReadFromOldest, ReadFails, EntryAges, vars, journalVars
<1>2. q = r
  BY <1>1 DEF PruneDelete, ScansHold
<1> DEFINE P == PrunablePrefix(prune[r])
<1>3. P # {} /\ prunedThrough' = Largest(P)
  BY <1>1, <1>2 DEF PruneDelete
<1>4. \A c \in P : c < prune[r].below /\ c \in Nat /\ c <= head /\ c > prunedThrough
  <2>1. \A c \in retained : c \in Nat /\ c <= head
    BY DEF TypeOK, HeadBounds
  <2>2. \A c \in P : c \in FirstOf({d \in retained : d > prunedThrough}, Batch)
    BY DEF PrunablePrefix
  <2>3. \A c \in P : c \in retained /\ c > prunedThrough
    BY <2>2 DEF FirstOf
  <2>4. ASSUME NEW c \in P
        PROVE  c < prune[r].below
    <3>1. c <= c
      BY <2>1, <2>3
    <3> QED
      BY <2>4, <3>1 DEF PrunablePrefix
  <2> QED
    BY <2>1, <2>3, <2>4
<1> HIDE DEF P
<1>5. head \in Nat /\ prunedThrough \in Nat
  BY DEF TypeOK
<1>6. \E c \in P : \A d \in P : d <= c
  BY <1>3, <1>4, <1>5, LargestExists
<1>7. Largest(P) \in P
  BY <1>6 DEF Largest
<1>8. o \in Operations /\ prune[r].below \in Nat
  BY DEF TypeOK, PruneTx, NoPrune
<1>9. acked[o] \in Int /\ i.cursor \in Nat
  BY <1>8 DEF TypeOK
<1>10. prune[r].below <= MaxOf(acked[o], 0)
  BY DEF ScansHold
<1> QED
  BY <1>3, <1>4, <1>7, <1>8, <1>9, <1>10 DEF MaxOf

\* Retention (pruneExtensionResourceOrganization) never expires a cursor that a
\* consumer it counted has not acknowledged past, however long it takes from
\* reading the lowest acknowledgement to deleting.
THEOREM RetentionRespectsHolders ==
    ASSUME ~MixedFleet
    PROVE  Spec => RetentionKeepsHolders
<1>1. Init => ScansHold
  BY DEF Init, ScansHold, NoPrune
<1>2. IInv /\ ScansHold /\ [Next]_vars => ScansHold'
  BY ScansStep, ConstantAssumption DEF IInv, JournalInv
<1>3. IInv /\ ScansHold /\ [Next]_vars =>
        [\A r \in Replicas :
            prune[r].stage = "scanned" /\ prunedThrough' # prunedThrough =>
                \A o \in prune[r].holders : \A i \in issued[o] :
                    i.cursor >= acked[o] /\ i.cursor >= prunedThrough
                        => i.cursor >= prunedThrough']_vars
  BY PruneRespectsHolders DEF IInv, JournalInv
<1> QED
  BY <1>1, <1>2, <1>3, Invariance, PTL DEF Spec, RetentionKeepsHolders

-----------------------------------------------------------------------------
(* A consumer that takes its cursor before the inventory.                  *)

ConsumerTyped ==
    /\ phase \in [Operations -> {"cursor", "inventory", "following"}]
    /\ pos \in [Operations -> Nat \cup {NilCursor}]
    /\ known \in [Operations -> SUBSET Nat]

\* A consumer's cursor was issued to it, and its open read asks for what follows it.
PositionIssued ==
    \A o \in Operations :
        /\ pos[o] # NilCursor => \E i \in issued[o] : i.cursor = pos[o]
        /\ phase[o] = "following" => pos[o] # NilCursor /\ reading[o] \in {Idle, pos[o]}
        /\ phase[o] = "inventory" =>
             /\ reading[o] = Idle
             /\ CursorFirst => pos[o] # NilCursor

ConsumerInv == ConsumerTyped /\ PositionIssued

\* A reader with the cursor of i that knows the changes K finds every other change of
\* the scope S as a retained entry behind its cursor, unless the cursor expired: no
\* step of the journal, its writers, its retention or its subscriptions ends that.
LEMMA CoverageSurvives ==
    ASSUME ConstantAssumption, TypeOK, FleetInv, JournalInv, [Next]_vars,
           NEW o \in Operations, NEW i \in issued[o], NEW S, NEW K,
           jstate = "journaling" /\ i.cursor >= Horizon =>
               \A ch \in changes :
                   ch.scope \in S => ch.n \in K \/ (ch.cursor > i.cursor /\ ch.cursor \in retained),
           jstate' = "journaling", i.cursor >= Horizon',
           NEW ch \in changes', ch.scope \in S, ch.n \notin K
    PROVE  ch.cursor > i.cursor /\ ch.cursor \in retained'
<1> DEFINE Goal == ch.cursor > i.cursor /\ ch.cursor \in retained'
<1> SUFFICES Goal
  OBVIOUS
<1> HIDE DEF Goal
<1> USE DEF vars, replicaVars, journalVars, consumerVars, historyVars
<1>0. CursorTypes
  BY DEF TypeOK, CursorTypes
<1>1. ASSUME UNCHANGED <<jstate, gap, retained, prunedThrough, changes>>
      PROVE  Goal
  BY <1>1 DEF Horizon, MaxOf, Goal
<1>2. ASSUME Pause \/ Start, UNCHANGED <<retained, prunedThrough, changes>>
      PROVE  Goal
  <2>1. CASE jstate' = jstate /\ UNCHANGED <<gap, head>>
    BY <1>1, <1>2, <2>1
  <2>2. CASE jstate = "none" /\ head = 0
    BY <2>2 DEF JournalInv, NothingIssuedBeforeStart
  <2>3. CASE gap' = head + 1
    <3>1. i.cursor \in Nat /\ i.cursor <= head /\ head \in Nat /\ prunedThrough' \in Nat
      BY <1>0, <1>2 DEF JournalInv, HeadBounds, CursorTypes
    <3>2. Horizon' >= head + 1
      BY <2>3, <3>1 DEF Horizon, MaxOf
    <3>3. Horizon' \in Nat
      BY <2>3, <3>1 DEF Horizon, MaxOf
    <3> QED
      BY <3>1, <3>2, <3>3
  <2> QED
    BY <1>2, <2>1, <2>2, <2>3 DEF Pause, Start
<1>3. ASSUME NEW r \in Replicas, WriterCommit(r)
      PROVE  Goal
  <2>1. wtx[r].journaled /\ jstate = "journaling"
    BY <1>3 DEF WriterCommit, FleetInv, WritersAgree, OneAllocator
  <2>2. /\ wtx[r].size \in Nat /\ wtx[r].first = head + 1
        /\ \A x \in Committed(wtx[r]) : x.cursor \in head + 1 .. head + wtx[r].size
    BY <1>3, <2>1, CommittedChanges DEF WriterCommit, FleetInv
  <2>3. /\ changes' = changes \cup Committed(wtx[r])
        /\ retained' = retained \cup (head + 1 .. head + wtx[r].size)
        /\ Horizon' = Horizon
    BY <1>0, <1>3, <2>2 DEF WriterCommit, Horizon, MaxOf, CursorTypes
  <2>4. CASE ch \in changes
    BY <2>1, <2>3, <2>4 DEF Goal
  <2>5. CASE ch \in Committed(wtx[r])
    <3>1. ch.cursor \in head + 1 .. head + wtx[r].size
      BY <2>2, <2>5
    <3>2. i.cursor \in Nat /\ i.cursor <= head /\ head \in Nat
      BY <1>0 DEF JournalInv, HeadBounds, CursorTypes
    <3> QED
      BY <2>2, <2>3, <3>1, <3>2 DEF Goal
  <2> QED
    BY <2>3, <2>4, <2>5
<1>4. ASSUME NEW r \in Replicas, WriterCommitSkipped(r)
      PROVE  Goal
  BY <1>4 DEF WriterCommitSkipped, FleetInv, WritersAgree
<1>5. ASSUME NEW r \in Replicas, PruneDelete(r)
      PROVE  Goal
  <2> DEFINE bound == Largest(PrunablePrefix(prune[r]))
  <2>1. bound \in prunedThrough + 1 .. head
    BY <1>5, PruneBound DEF PruneDelete, JournalInv
  <2>2. /\ retained' = retained \ (prunedThrough + 1 .. bound)
        /\ prunedThrough' = bound
        /\ UNCHANGED <<jstate, gap, changes>>
    BY <1>5 DEF PruneDelete
  <2> HIDE DEF bound
  <2>3. /\ Horizon' >= Horizon /\ Horizon' >= bound /\ Horizon \in Nat /\ Horizon' \in Nat
        /\ bound \in Nat /\ i.cursor \in Nat /\ ch.cursor \in Nat
    BY <1>0, <2>1, <2>2 DEF Horizon, MaxOf, CursorTypes
  <2>4. i.cursor >= Horizon /\ i.cursor >= bound
    BY <2>3
  <2>5. ch.cursor > i.cursor /\ ch.cursor \in retained
    BY <2>2, <2>4
  <2>6. ch.cursor > bound
    BY <2>3, <2>4, <2>5
  <2>7. ch.cursor \notin prunedThrough + 1 .. bound
    BY <1>0, <2>3, <2>6 DEF CursorTypes
  <2> QED
    BY <2>2, <2>5, <2>7 DEF Goal
<1>6. ASSUME NEW r \in Replicas, ReplicaStep(r)
      PROVE  Goal
  <2>1. ASSUME NEW k \in 1 .. MaxEntries, NEW scopes \in [1 .. k -> Scopes], WriterDecide(r, k, scopes)
        PROVE  Goal
    BY <1>1, <2>1 DEF WriterDecide
  <2>2. ASSUME WriterAllocate(r) \/ WriterRollback(r) \/ StopReplica(r) \/ PruneScan(r) \/ PruneEnds(r)
        PROVE  Goal
    BY <1>1, <2>2 DEF WriterAllocate, WriterRollback, StopReplica, PruneScan, PruneEnds
  <2>3. ASSUME NEW m \in {"host", "core"}, StartReplica(r, m)
        PROVE  Goal
    BY <1>2, <2>3 DEF StartReplica, Sync
  <2> QED
    BY <1>3, <1>4, <1>5, <1>6, <2>1, <2>2, <2>3 DEF ReplicaStep
<1>7. ASSUME NEW p \in Plugins, ChangeSubscription(p)
      PROVE  Goal
  BY <1>2, <1>7 DEF ChangeSubscription, Sync
<1>8. ASSUME NEW p \in Operations, OperationStep(p)
      PROVE  Goal
  BY <1>1, <1>8 DEF OperationStep, PrepareGrant, ReleaseGrant, ActivateGrant, GrantLapses, SetGrant,
     ReadAcknowledge, ReadFromOldest, ReadPage, ReadFails
<1>9. ASSUME NEW c \in retained, EntryAges(c)
      PROVE  Goal
  BY <1>1, <1>9 DEF EntryAges
<1> QED
  BY <1>1, <1>6, <1>7, <1>8, <1>9 DEF Next

\* Every step of the consumer is a step of the journal, or none.
LEMMA ConsumerMaps ==
    ASSUME ConsumerInv, [ConsumerNext]_allVars
    PROVE  [Next]_vars
<1>1. ASSUME NEW o \in Operations, SendRead(o)
      PROVE  OperationStep(o)
  <2>1. CASE phase[o] = "following" /\ ReadAcknowledge(o, pos[o])
    <3>1. PICK i \in issued[o] : i.cursor = pos[o]
      BY <2>1 DEF ConsumerInv, PositionIssued
    <3> QED
      BY <2>1, <3>1 DEF OperationStep
  <2> QED
    BY <1>1, <2>1 DEF SendRead, OperationStep
<1>2. ASSUME NEW o \in Operations, ConsumerStep(o)
      PROVE  OperationStep(o) \/ UNCHANGED vars
  BY <1>1, <1>2 DEF ConsumerStep, OperationStep, Inventory, ReceivePage, CursorExpired, RetryRead
<1> QED
  BY <1>2 DEF ConsumerNext, Next, allVars

\* Cursors stay issued.
LEMMA IssuedGrows ==
    ASSUME TypeOK, [Next]_vars, NEW o \in Operations, NEW i \in issued[o]
    PROVE  i \in issued'[o]
<1>1. ASSUME NEW p \in Operations, ReadPage(p)
      PROVE  i \in issued'[o]
  BY <1>1 DEF ReadPage, TypeOK
<1>2. (\E p \in Operations : ReadPage(p)) \/ issued' = issued
  BY DEF Next, ReplicaStep, WriterDecide, WriterAllocate, WriterCommit, WriterCommitSkipped,
     WriterRollback, StartReplica, StopReplica, PruneScan, PruneDelete, PruneEnds,
     ChangeSubscription, OperationStep, PrepareGrant, ReleaseGrant, ActivateGrant, GrantLapses,
     SetGrant, ReadAcknowledge, ReadFromOldest, ReadFails, EntryAges, vars, consumerVars
<1> QED
  BY <1>1, <1>2

\* The steps that leave the consumer and its open read alone.
LEMMA QuietSteps ==
    ASSUME [ConsumerNext]_allVars,
           \A o \in Operations : /\ ~Inventory(o) /\ ~SendRead(o) /\ ~ReceivePage(o)
                                 /\ ~CursorExpired(o) /\ ~RetryRead(o)
    PROVE  UNCHANGED <<phase, pos, known, reading>>
<1> USE DEF vars, consumerVars, clientVars
<1>1. ASSUME NEW r \in Replicas, ReplicaStep(r)
      PROVE  reading' = reading
  BY <1>1 DEF ReplicaStep, WriterDecide, WriterAllocate, WriterCommit, WriterCommitSkipped,
     WriterRollback, StartReplica, StopReplica, PruneScan, PruneDelete, PruneEnds
<1>2. ASSUME NEW p \in Plugins, ChangeSubscription(p)
      PROVE  reading' = reading
  BY <1>2 DEF ChangeSubscription
<1>3. ASSUME NEW o \in Operations, ConsumerStep(o)
      PROVE  UNCHANGED <<phase, pos, known, reading>>
  BY <1>3 DEF ConsumerStep, PrepareGrant, ReleaseGrant, ActivateGrant, GrantLapses, SetGrant
<1>4. ASSUME NEW c \in retained, EntryAges(c)
      PROVE  reading' = reading
  BY <1>4 DEF EntryAges
<1> QED
  BY <1>1, <1>2, <1>3, <1>4 DEF ConsumerNext, allVars

\* What the consumer's own steps do to it.
LEMMA ReceiveFacts ==
    ASSUME ConstantAssumption, IInv, PagesBounded, ConsumerInv, NEW o \in Operations, ReceivePage(o)
    PROVE  \E row \in PageRow :
             /\ row.from = (IF reading[o] = NilCursor THEN Horizon ELSE reading[o])
             /\ row.from >= Horizon
             /\ \A ch \in changes :
                  ch.cursor > row.from /\ ch.cursor <= row.next /\ ch.scope \in ScopeOf[o]
                      => ch.cursor \in row.items
             /\ \E i \in issued'[o] : i.cursor = row.next
             /\ pos' = [pos EXCEPT ![o] = row.next]
             /\ known' = [known EXCEPT ![o] =
                            @ \cup {ch.n : ch \in {x \in changes : x.cursor \in row.items}}]
             /\ phase' = [phase EXCEPT ![o] =
                            IF @ = "cursor" /\ CursorFirst THEN "inventory" ELSE "following"]
             /\ reading' = [reading EXCEPT ![o] = Idle]
             /\ UNCHANGED <<jstate, gap, prunedThrough, retained, changes>>
<1>1. ReadPage(o)
  BY DEF ReceivePage
<1>2. PICK row \in PageRow :
        /\ lastPage' = [lastPage EXCEPT ![o] = row]
        /\ row.from = (IF reading[o] = NilCursor THEN Horizon ELSE reading[o])
        /\ row.from >= Horizon
        /\ \A ch \in changes :
             ch.cursor > row.from /\ ch.cursor <= row.next /\ ch.scope \in ScopeOf[o]
                 => ch.cursor \in row.items
        /\ \E i \in issued'[o] : i.cursor = row.next
  BY <1>1, PageFacts DEF IInv
<1>3. lastPage'[o] = row
  BY <1>2 DEF PagesBounded
<1>4. UNCHANGED <<jstate, gap, prunedThrough, retained, changes>>
      /\ reading' = [reading EXCEPT ![o] = Idle]
  BY <1>1 DEF ReadPage, journalVars, historyVars
<1> QED
  BY <1>2, <1>3, <1>4 DEF ReceivePage

\* The consumer keeps to cursors that Core issued to it.
LEMMA ConsumerStepKeeps ==
    ASSUME ConstantAssumption, IInv, PagesBounded, ConsumerInv, [ConsumerNext]_allVars
    PROVE  ConsumerInv'
<1>1. [Next]_vars
  BY ConsumerMaps
<1>2. \A o \in Operations : \A i \in issued[o] : i \in issued'[o]
  BY <1>1, IssuedGrows DEF IInv
<1>3. reading \in [Operations -> Nat \cup {Idle, NilCursor}]
  BY DEF IInv, TypeOK
<1> USE DEF ConsumerInv
<1>4. ASSUME UNCHANGED <<phase, pos, known>>,
             \A q \in Operations : \/ reading'[q] = reading[q] \/ reading'[q] = Idle
                                   \/ phase[q] # "inventory" /\ reading'[q] = pos[q]
                                   \/ phase[q] = "cursor"
      PROVE  ConsumerInv'
  BY <1>2, <1>4 DEF ConsumerTyped, PositionIssued
<1>5. ASSUME NEW o \in Operations, Inventory(o)
      PROVE  ConsumerInv'
  <2>1. /\ phase[o] = "inventory"
        /\ known' = [known EXCEPT ![o] = @ \cup {ch.n : ch \in changes}]
        /\ phase' = [phase EXCEPT ![o] = IF CursorFirst THEN "following" ELSE "cursor"]
        /\ pos' = pos /\ reading' = reading
    BY <1>5 DEF Inventory, vars, consumerVars
  <2>2. {ch.n : ch \in changes} \in SUBSET Nat
    BY DEF IInv, TypeOK
  <2>3. ConsumerTyped'
    BY <2>1, <2>2 DEF ConsumerTyped
  <2>4. \A q \in Operations :
          phase'[q] = IF q = o THEN (IF CursorFirst THEN "following" ELSE "cursor") ELSE phase[q]
    BY <2>1 DEF ConsumerTyped
  <2>5. PositionIssued'
    BY <1>2, <2>1, <2>4 DEF PositionIssued
  <2> QED
    BY <2>3, <2>5
<1>6. ASSUME NEW o \in Operations, SendRead(o)
      PROVE  ConsumerInv'
  <2>1. UNCHANGED <<phase, pos, known>>
    BY <1>6 DEF SendRead, clientVars
  <2>2. CASE phase[o] = "cursor" /\ ReadFromOldest(o)
    BY <1>3, <1>4, <2>1, <2>2 DEF ReadFromOldest
  <2>3. CASE phase[o] = "following" /\ ReadAcknowledge(o, pos[o])
    BY <1>3, <1>4, <2>1, <2>3 DEF ReadAcknowledge
  <2> QED
    BY <1>6, <2>2, <2>3 DEF SendRead
<1>7. ASSUME NEW o \in Operations, RetryRead(o)
      PROVE  ConsumerInv'
  BY <1>3, <1>4, <1>7 DEF RetryRead, ReadFails, clientVars
<1>8. ASSUME NEW o \in Operations, CursorExpired(o)
      PROVE  ConsumerInv'
  <2>1. /\ phase' = [phase EXCEPT ![o] = FirstPhase]
        /\ pos' = [pos EXCEPT ![o] = NilCursor]
        /\ known' = known
        /\ reading' = [reading EXCEPT ![o] = Idle]
    BY <1>8 DEF CursorExpired, ReadFails
  <2>2. ConsumerTyped'
    BY <2>1 DEF ConsumerTyped, FirstPhase
  <2>3. \A q \in Operations :
          /\ phase'[q] = IF q = o THEN FirstPhase ELSE phase[q]
          /\ pos'[q] = IF q = o THEN NilCursor ELSE pos[q]
          /\ reading'[q] = IF q = o THEN Idle ELSE reading[q]
    BY <1>3, <2>1 DEF ConsumerTyped
  <2>4. PositionIssued'
    BY <1>2, <2>3 DEF PositionIssued, FirstPhase
  <2> QED
    BY <2>2, <2>4
<1>9. ASSUME NEW o \in Operations, ReceivePage(o)
      PROVE  ConsumerInv'
  <2>1. PICK row \in PageRow :
          /\ \E i \in issued'[o] : i.cursor = row.next
          /\ pos' = [pos EXCEPT ![o] = row.next]
          /\ known' = [known EXCEPT ![o] =
                         @ \cup {ch.n : ch \in {x \in changes : x.cursor \in row.items}}]
          /\ phase' = [phase EXCEPT ![o] =
                         IF @ = "cursor" /\ CursorFirst THEN "inventory" ELSE "following"]
          /\ reading' = [reading EXCEPT ![o] = Idle]
    BY <1>9, ReceiveFacts
  <2>2. row.next \in Nat
    BY DEF PageRow
  <2>3. {ch.n : ch \in {x \in changes : x.cursor \in row.items}} \in SUBSET Nat
    BY DEF IInv, TypeOK
  <2>4. ConsumerTyped'
    BY <2>1, <2>2, <2>3 DEF ConsumerTyped
  <2>5. \A q \in Operations :
          /\ pos'[q] = IF q = o THEN row.next ELSE pos[q]
          /\ reading'[q] = IF q = o THEN Idle ELSE reading[q]
          /\ q = o => phase'[q] \in {"inventory", "following"}
          /\ q # o => phase'[q] = phase[q]
    BY <1>3, <2>1 DEF ConsumerTyped
  <2>6. PositionIssued'
    <3>1. row.next # NilCursor
      BY <2>2 DEF NilCursor
    <3> QED
      BY <1>2, <2>1, <2>5, <3>1 DEF PositionIssued
  <2> QED
    BY <2>4, <2>6
<1> QED
  BY <1>4, <1>5, <1>6, <1>7, <1>8, <1>9, QuietSteps

\* With the consumer the journal still does what EventJournal specifies, so every
\* theorem above holds of the composition: the protocol sends only cursors that
\* ReadExtensionResourceEvents returned to it.
THEOREM ConsumerUsesJournal ==
    ASSUME ~MixedFleet
    PROVE  ConsumerSpec => Spec /\ [](IInv /\ PagesBounded /\ ConsumerInv)
<1> DEFINE Inv == IInv /\ PagesBounded /\ PageComplete /\ ConsumerInv
<1>1. ConsumerInit => Init /\ Inv
  <2>1. ConsumerInit => Init /\ IInv
    BY InitIInv, ConstantAssumption DEF ConsumerInit
  <2>2. ConsumerInit => PagesBounded /\ PageComplete
    BY DEF ConsumerInit, Init, PagesBounded, PageComplete, NoPage
  <2>3. ConsumerInit => ConsumerInv
    <3> SUFFICES ASSUME ConsumerInit PROVE ConsumerInv
      OBVIOUS
    <3>1. reading = [o \in Operations |-> Idle]
      BY DEF ConsumerInit, Init
    <3> QED
      BY <3>1 DEF ConsumerInit, ConsumerInv, ConsumerTyped, PositionIssued, FirstPhase
  <2> QED
    BY <2>1, <2>2, <2>3
<1>2. Inv /\ [ConsumerNext]_allVars => [Next]_vars
  BY ConsumerMaps
<1>3. Inv /\ [ConsumerNext]_allVars => Inv'
  <2> SUFFICES ASSUME Inv, [ConsumerNext]_allVars PROVE Inv'
    OBVIOUS
  <2>1. [Next]_vars
    BY <1>2
  <2>2. IInv'
    BY <2>1, TypeStep, FleetStep, JournalStep, ConstantAssumption DEF IInv, JournalInv
  <2>3. PagesBounded' /\ PageComplete'
    BY <2>1, PagesStep, ConstantAssumption DEF IInv
  <2>4. ConsumerInv'
    BY ConsumerStepKeeps, ConstantAssumption
  <2> QED
    BY <2>2, <2>3, <2>4
<1> QED
  BY <1>1, <1>2, <1>3, PTL DEF Spec, ConsumerSpec

\* Every step of the composition keeps a following consumer complete.
LEMMA NothingMissedStep ==
    ASSUME ConstantAssumption, CursorFirst, IInv, PagesBounded, ConsumerInv,
           NothingSilentlyMissed, [ConsumerNext]_allVars
    PROVE  NothingSilentlyMissed'
<1>1. [Next]_vars
  BY ConsumerMaps
<1>2. CursorTypes
  BY DEF IInv, TypeOK, CursorTypes
<1>3. SUFFICES ASSUME NEW o \in Operations, jstate' = "journaling",
                      phase'[o] = "following", pos'[o] >= Horizon',
                      NEW ch \in changes', ch.scope \in ScopeOf[o], ch.n \notin known'[o]
               PROVE  ch.cursor > pos'[o] /\ ch.cursor \in retained'
  BY DEF NothingSilentlyMissed
<1>4. ASSUME phase'[o] = phase[o], pos'[o] = pos[o], known'[o] = known[o]
      PROVE  ch.cursor > pos'[o] /\ ch.cursor \in retained'
  <2>1. PICK i \in issued[o] : i.cursor = pos[o]
    BY <1>3, <1>4 DEF ConsumerInv, PositionIssued
  <2>2. jstate = "journaling" /\ i.cursor >= Horizon =>
          \A x \in changes : x.scope \in ScopeOf[o] =>
              x.n \in known[o] \/ (x.cursor > i.cursor /\ x.cursor \in retained)
    BY <1>3, <1>4, <2>1 DEF NothingSilentlyMissed
  <2>3. ch.n \notin known[o] /\ i.cursor >= Horizon'
    BY <1>3, <1>4, <2>1
  <2>4. ch.cursor > i.cursor /\ ch.cursor \in retained'
    BY <1>1, <1>3, <2>2, <2>3, CoverageSurvives DEF IInv
  <2> QED
    BY <1>4, <2>1, <2>4
<1>5. CASE Inventory(o)
  <2>1. changes' = changes /\ known'[o] = known[o] \cup {x.n : x \in changes}
    BY <1>5 DEF Inventory, vars, historyVars, ConsumerInv, ConsumerTyped
  <2> QED
    BY <1>3, <2>1
<1>6. CASE ReceivePage(o)
  <2>1. PICK row \in PageRow :
          /\ row.from = (IF reading[o] = NilCursor THEN Horizon ELSE reading[o])
          /\ row.from >= Horizon
          /\ \A x \in changes :
               x.cursor > row.from /\ x.cursor <= row.next /\ x.scope \in ScopeOf[o]
                   => x.cursor \in row.items
          /\ pos' = [pos EXCEPT ![o] = row.next]
          /\ known' = [known EXCEPT ![o] =
                         @ \cup {x.n : x \in {y \in changes : y.cursor \in row.items}}]
          /\ phase' = [phase EXCEPT ![o] =
                         IF @ = "cursor" /\ CursorFirst THEN "inventory" ELSE "following"]
          /\ UNCHANGED <<jstate, gap, prunedThrough, retained, changes>>
    BY <1>6, ReceiveFacts
  <2>2. /\ pos'[o] = row.next /\ phase[o] # "cursor"
        /\ known'[o] = known[o] \cup {x.n : x \in {y \in changes : y.cursor \in row.items}}
    BY <1>3, <2>1 DEF ConsumerInv, ConsumerTyped
  <2>3. phase[o] = "following" /\ reading[o] = pos[o] /\ pos[o] # NilCursor
    BY <1>6, <2>2 DEF ConsumerInv, ConsumerTyped, PositionIssued, ReceivePage, ReadPage
  <2>4. row.from = pos[o]
    BY <2>1, <2>3
  <2>5. ch \in changes /\ ch.n \notin known[o] /\ ch.cursor \notin row.items
    BY <1>3, <2>1, <2>2
  <2>6. ch.cursor > pos[o] /\ ch.cursor \in retained
    BY <1>3, <2>1, <2>3, <2>4, <2>5 DEF NothingSilentlyMissed
  <2>7. ~(ch.cursor <= row.next)
    BY <1>3, <2>1, <2>4, <2>5, <2>6
  <2>8. ch.cursor \in Nat /\ row.next \in Nat
    BY <1>2, <2>5 DEF PageRow, CursorTypes
  <2>9. ch.cursor > row.next
    BY <2>7, <2>8
  <2> QED
    BY <2>1, <2>2, <2>6, <2>9
<1>7. CASE CursorExpired(o)
  <2>1. phase'[o] = "cursor"
    BY <1>7 DEF CursorExpired, FirstPhase, ConsumerInv, ConsumerTyped
  <2> QED
    BY <1>3, <2>1
<1>8. ASSUME ~Inventory(o), ~ReceivePage(o), ~CursorExpired(o)
      PROVE  phase'[o] = phase[o] /\ pos'[o] = pos[o] /\ known'[o] = known[o]
  <2>1. ASSUME NEW q \in Operations, q # o, Inventory(q) \/ ReceivePage(q) \/ CursorExpired(q)
        PROVE  phase'[o] = phase[o] /\ pos'[o] = pos[o] /\ known'[o] = known[o]
    BY <2>1 DEF Inventory, ReceivePage, CursorExpired, ConsumerInv, ConsumerTyped
  <2>2. ASSUME NEW q \in Operations, SendRead(q) \/ RetryRead(q)
        PROVE  phase'[o] = phase[o] /\ pos'[o] = pos[o] /\ known'[o] = known[o]
    BY <2>2 DEF SendRead, RetryRead, clientVars
  <2> QED
    BY <1>8, <2>1, <2>2, QuietSteps
<1> QED
  BY <1>4, <1>5, <1>6, <1>7, <1>8

\* A consumer that takes its cursor before it reads the inventory
\* (ReadPluginOperationInventory) and follows the pages of ReadPluginResourceEvents
\* is complete, through retention, pauses, restarts and rebuilds: while its cursor is
\* not expired it knows each change of its scope, or will still be sent it.
THEOREM CursorFirstIsComplete ==
    ASSUME ~MixedFleet, CursorFirst
    PROVE  ConsumerSpec => []NothingSilentlyMissed
<1>1. ConsumerInit => NothingSilentlyMissed
  BY DEF ConsumerInit, FirstPhase, NothingSilentlyMissed
<1>2. /\ IInv /\ PagesBounded /\ ConsumerInv
      /\ NothingSilentlyMissed /\ [ConsumerNext]_allVars
      => NothingSilentlyMissed'
  BY NothingMissedStep, ConstantAssumption
<1> QED
  BY <1>1, <1>2, ConsumerUsesJournal, PTL DEF ConsumerSpec
=============================================================================
