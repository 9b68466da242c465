-------------------------- MODULE MCModuleVersions --------------------------
(* Instances of ModuleVersions for TLC.                                    *)
EXTENDS ModuleVersions

CONSTANTS a1, rc, b2, c3

\* Three stable versions and a release candidate of the second.
Ordered ==
    [v \in Versions |-> CASE v = a1 -> 1 [] v = rc -> 2 [] v = b2 -> 3 [] v = c3 -> 4]
=============================================================================
