----------------------------- MODULE MCRegistry -----------------------------
(* CapabilityRegistry, and with it Registry, on small instances. *)
EXTENDS CapabilityRegistry, TLC

Capabilities == [title : Titles, status : Statuses]

Symmetry == Permutations(Threads) \cup Permutations(Titles)
               \cup Permutations(Statuses) \cup Permutations(Observers)
=============================================================================
