-------------------------- MODULE MCPluginLoader --------------------------
(* PluginLoader on small instances.  The plugins differ by name only, and  *)
(* only safety is checked, so they are taken up to permutation.            *)
EXTENDS PluginLoader, TLC

Symmetry == Permutations(Plugins)
=============================================================================
