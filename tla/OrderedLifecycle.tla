-------------------------- MODULE OrderedLifecycle --------------------------
(***************************************************************************)
(* What the lifecycle manager promises its callers, without saying how:    *)
(* hooks come up one at a time in registration order, come down one at a   *)
(* time in the reverse order, never come back, and the lifecycle is only   *)
(* declared down when no hook that needs stopping is up.  This is the      *)
(* abstract specification that LifecycleManager implements.                *)
(*                                                                         *)
(* A hook registered without a stop function is never taken down.          *)
(***************************************************************************)
EXTENDS Naturals

CONSTANT MaxHooks

VARIABLES
    mode,   \* "assembling", "rising", "serving", "falling" or "down"
    hooks,  \* the number of hooks registered
    needs,  \* the hooks that have to be stopped
    up      \* the hooks that are up

vars == <<mode, hooks, needs, up>>

Init ==
    /\ mode = "assembling"
    /\ hooks = 0
    /\ needs = {}
    /\ up = {}

\* One more hook is registered, with or without a stop function.
Register ==
    /\ mode = "assembling"
    /\ hooks < MaxHooks
    /\ hooks' = hooks + 1
    /\ needs' \in {needs, needs \cup {hooks + 1}}
    /\ UNCHANGED <<mode, up>>

\* Startup begins; with no hook registered there is nothing to wait for.
Rise ==
    /\ mode = "assembling"
    /\ mode' = IF hooks = 0 THEN "serving" ELSE "rising"
    /\ UNCHANGED <<hooks, needs, up>>

\* The next hook in registration order comes up; the last one ends startup.
BringUp ==
    /\ mode = "rising"
    /\ \E i \in 1..hooks :
          /\ up = 1..(i - 1)
          /\ up' = up \cup {i}
          /\ mode' = IF i = hooks THEN "serving" ELSE "rising"
    /\ UNCHANGED <<hooks, needs>>

\* Startup fails, or a shutdown is requested.
Fall ==
    /\ mode \in {"rising", "serving"}
    /\ mode' = "falling"
    /\ UNCHANGED <<hooks, needs, up>>

\* The highest hook that still has to be stopped is stopped; it may be the
\* last thing a shutdown was waiting for.
TakeDown ==
    /\ mode = "falling"
    /\ \E i \in up \cap needs :
          /\ \A k \in up \cap needs : k =< i
          /\ up' = up \ {i}
          /\ mode' \in IF up' \cap needs = {} THEN {"falling", "down"}
                                              ELSE {"falling"}
    /\ UNCHANGED <<hooks, needs>>

\* The shutdown is over.
Settle ==
    /\ mode \in {"serving", "falling"}
    /\ up \cap needs = {}
    /\ mode' = "down"
    /\ UNCHANGED <<hooks, needs, up>>

Next == Register \/ Rise \/ BringUp \/ Fall \/ TakeDown \/ Settle

Spec == Init /\ [][Next]_vars
=============================================================================
