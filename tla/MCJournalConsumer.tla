------------------------- MODULE MCJournalConsumer -------------------------
(* Instances of JournalConsumer for TLC.                                   *)
EXTENDS JournalConsumer, TLC

CONSTANTS r1, r2, p1, o1, s1, s2

OnePluginOf == [o \in Operations |-> p1]
NarrowScope == [o \in Operations |-> {s1}]

ReplicaSymmetry == Permutations(Replicas)
=============================================================================
