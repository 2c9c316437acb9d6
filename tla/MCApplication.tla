--------------------------- MODULE MCApplication ---------------------------
(* Application on small instances; liveness is checked, so no symmetry. *)
EXTENDS Application
=============================================================================
