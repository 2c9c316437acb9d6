------------------------- MODULE MCPlatformBuilder -------------------------
(* Two builds that share a container or its child scope, or have their own. *)
EXTENDS PlatformBuilder

CONSTANTS root, child, good, unfit

ChildOfRoot == child :> root @@ root :> NoOne

SomeKeys == {"ClockPort", "LifecycleManager"}

\* A flag that is not mentioned, enabled, or both enabled and disabled; and,
\* with the first of those, plugins that cannot be installed.
SomeKnobs ==
    LET all(S) == [enabled |-> S, disabled |-> {}]
    IN  {[settings |-> s, plugins |-> <<good>>] :
            s \in {all({}), all(Flags), [enabled |-> Flags, disabled |-> Flags]}}
        \cup {[settings |-> all({}), plugins |-> q] : q \in {<<good, good>>, <<good, unfit>>}}

Symmetry == Permutations(Builds)
=============================================================================
