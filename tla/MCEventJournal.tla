--------------------------- MODULE MCEventJournal ---------------------------
(* Instances of EventJournal for TLC.                                      *)
EXTENDS EventJournal, TLC

CONSTANTS r1, r2, p1, p2, o1, o2, s1, s2

OnePluginOf == [o \in Operations |-> p1]
NarrowScope == [o \in Operations |-> {s1}]

ReplicaSymmetry == Permutations(Replicas)
=============================================================================
