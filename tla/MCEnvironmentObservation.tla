---------------------- MODULE MCEnvironmentObservation ----------------------
(* Instances of EnvironmentObservation for TLC.                            *)
EXTENDS EnvironmentObservation

CONSTANTS x1, d1, b1, b2

\* A redeployment follows the run of the only observation.
Baseline == [d \in Redeployments |-> x1]

\* An observation ID may come back with another body.
Sent == [r \in Requests |-> IF r = x1 THEN Bodies ELSE {b1}]

\* Two bodies that name different revisions.
Named == [b \in Bodies |-> IF b = b1 THEN 1 ELSE 2]
=============================================================================
