-------------------------- MODULE MCConfigSources --------------------------
(* ConfigSources on small instances: dictionaries, the environment and the *)
(* file, some of them layered in any order; one key K with one entry S, at *)
(* which a mapping of P and Q, or a plain value, may be.                   *)
EXTENDS ConfigSources

CONSTANTS K, S, P, Q, v1, v2, v3

\* A configuration with K.S as given, one with K.S.P, and one with K only.
AtS(t) == K :> (S :> t)
AtP(v) == AtS(P :> v)
JustK(t) == K :> t

SomeDicts == {JustK(<<>>), JustK(v1), AtS(v1), AtP(v1), AtS(Q :> v2)}

\* Nothing, a variable for each depth, and one that takes the place of another.
SomeEnv ==
    LET var(path) == [path |-> path, value |-> v2]
    IN  {<<>>, <<var(<<K, S, P>>)>>, <<var(<<K, S, P>>), var(<<K>>)>>,
         <<var(<<K, S>>), var(<<K, S, Q>>)>>}

SomeFile == {<<>>, Broken, AtP(v3)}

SomeStacks == {t \in [1..3 -> Sources] \cup [1..4 -> Sources] : IsInjective(t)}

Symmetry == Permutations(Dicts)
=============================================================================
