----------------------------- MODULE MCEventBus -----------------------------
(* EventBus on small instances: an event type and a subclass of it, and    *)
(* subscriptions to the first with and without its subclasses.             *)
EXTENDS EventBus, TLC

CONSTANTS thing, subthing, s1, s2

Subclassing == thing :> {thing} @@ subthing :> {thing, subthing}

Wanted == s1 :> [type |-> thing, subs |-> TRUE] @@
          s2 :> [type |-> thing, subs |-> FALSE]
=============================================================================
