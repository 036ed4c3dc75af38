-------------------------- MODULE MCPluginLifecycle --------------------------
(* Two resources, as on a node with whole and virtual MLUs.                 *)
EXTENDS PluginLifecycle

CONSTANTS a, b
=============================================================================
