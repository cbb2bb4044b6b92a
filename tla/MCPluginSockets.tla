-------------------------- MODULE MCPluginSockets --------------------------
(* PluginSockets for TLC: two threads that compete for fewer descriptors   *)
(* than they open connections, so that numbers are reused and run out.     *)
EXTENDS PluginSockets
============================================================================
