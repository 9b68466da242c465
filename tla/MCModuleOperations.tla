------------------------- MODULE MCModuleOperations -------------------------
(* Instances of ModuleOperations for TLC.                                  *)
EXTENDS ModuleOperations

CONSTANTS a1, b2, o1, u1

\* Two versions; the operation promotes the second.
Ordered == [v \in Versions |-> CASE v = a1 -> 1 [] v = b2 -> 2]
Second == [o \in Operations |-> b2]

\* Two leases of the operation, and a reservation of a user.
TwoFences == (Operations \X (1 .. 2)) \cup {u1}
=============================================================================
