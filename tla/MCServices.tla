----------------------------- MODULE MCServices -----------------------------
(* Services, and with it LifecycleManager, on small instances. *)
EXTENDS Services
=============================================================================
