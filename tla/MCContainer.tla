---------------------------- MODULE MCContainer ----------------------------
(***************************************************************************)
(* Container on small instances: a root container with a child scope, two  *)
(* types, and bindings chosen so that dependencies, singletons of the root *)
(* resolved through both, a two-key cycle, a scoped binding of the child   *)
(* and an unbound dependency all occur.                                    *)
(***************************************************************************)
EXTENDS Container, TLC

CONSTANTS root, child, ka, kb

Bind(c, k, s, d) == [in |-> c, key |-> k, scope |-> s, deps |-> d]

ChildOfRoot == root :> <<root>> @@ child :> <<child, root>>

Wiring == {Bind(root, ka, "SINGLETON", <<kb>>),
           Bind(root, kb, "SINGLETON", <<>>),
           Bind(root, kb, "TRANSIENT", <<ka>>),
           Bind(child, kb, "SCOPED", <<>>)}

FlatWiring == {Bind(root, ka, "SINGLETON", <<>>), Bind(root, kb, "SINGLETON", <<>>)}

Alone == root :> <<root>>

Symmetry == Permutations(Threads)
=============================================================================
