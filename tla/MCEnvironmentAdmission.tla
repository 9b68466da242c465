----------------------- MODULE MCEnvironmentAdmission -----------------------
(* Instances of EnvironmentAdmission for TLC.                              *)
EXTENDS EnvironmentAdmission

CONSTANTS v1, v2, a1, a2, a3, d1, d2, d3, o1, q1, q2, h1, h2

\* Ordinary admissions: the pinned version, another one, and a destroy.
OrdinaryIntent ==
    [a \in Admissions |->
       CASE a = a1 -> [mode |-> "deploy", target |-> v1, carry |-> TRUE, confirmed |-> FALSE]
         [] a = a2 -> [mode |-> "deploy", target |-> v2, carry |-> FALSE, confirmed |-> FALSE]
         [] a = a3 -> [mode |-> "destroy", target |-> NoVersion, carry |-> FALSE, confirmed |-> FALSE]]

\* Dispatches of one operation: two attempts forward and the rollback of the first.
OneOperation == [d \in Dispatches |-> o1]
ForwardThenRollback == [d \in Dispatches |-> IF d = d3 THEN "rollback" ELSE "deploy"]
FirstForward == [d \in Dispatches |-> d1]
SecondVersion == [o \in Operations |-> v2]

\* v2 is proposed beside the default v1, and may be deprecated.
ProposedBesideDefault == [v \in Versions |-> IF v = v1 THEN "default" ELSE "proposed"]
DeprecateSecond == {<<v2, "deprecated">>}
NoChange == {}
=============================================================================
