------------------------ MODULE MCPluginCapabilities ------------------------
(* Instances of PluginCapabilities for TLC.                                *)
EXTENDS PluginCapabilities
=============================================================================
