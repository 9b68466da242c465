-------------------------- MODULE MCPluginManager ---------------------------
(* Instances of PluginManager for TLC.                                     *)
EXTENDS PluginManager, TLC

\* Installations and organizations are only compared with each other.
Identities == Permutations(Installations) \cup Permutations(Organizations)

\* Bound: a history has either one organization and effects, without limits and
\* within six revisions, or several organizations and one package, which no
\* replica has read, so that there are no effects.
OneOrganization ==
    /\ Cardinality({o \in Organizations : organization[o] # "absent" \/ creation[o] # None}) <= 1
    /\ Cardinality({o \in Organizations : enablement[o] # NoEnablement \/ work[o] # "none"}) <= 1
    /\ \A i \in Installations : limit[i] = 0
    /\ revision <= 6
OnePackage ==
    /\ \A i \in Installations : installation[i].package \in {1, None} /\ installation[i].target = None
    /\ \A r \in Replicas : snapshot[r].revision = 0 /\ \A t \in Refreshers : refresh[r][t] = None
    /\ activation = None \/ activation.observed \in {None} \cup [installation : Installations, package : {1}]
OneOrganizationOrPackage == OneOrganization \/ OnePackage
=============================================================================
