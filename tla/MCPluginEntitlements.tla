------------------------ MODULE MCPluginEntitlements ------------------------
(* Instances of PluginEntitlements for TLC.                                *)
EXTENDS PluginEntitlements

CONSTANTS o1, a1, a2, w1

\* Two grants of the organization, one after the other, and one of the installation
\* that has a grace; the organization's second grant lacks the feature.
Scope == [g \in Grants |-> IF g = w1 THEN Wide ELSE o1]
Order == [g \in Grants |-> IF g = a2 THEN 2 ELSE 1]
Begins == [g \in Grants |-> IF g = a2 THEN 1 ELSE 0]
Expires == [g \in Grants |-> IF g = a2 THEN 2 ELSE 1]
Graces == [g \in Grants |-> IF g = a1 THEN 1 ELSE 2]
=============================================================================
