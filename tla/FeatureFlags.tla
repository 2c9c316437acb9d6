---------------------------- MODULE FeatureFlags ----------------------------
(***************************************************************************)
(* eaip.core.feature_flags.FeatureFlagRegistry.  Every operation runs      *)
(* under the registry's lock, so that each is an operator from one state   *)
(* of the registry to the next.                                            *)
(***************************************************************************)
EXTENDS TLC

\* A registry: the defaults of the flags that are defined, and the overrides.
NoFlags == [flags |-> <<>>, overrides |-> <<>>]

\* define(): also of a flag that is known, whose default it replaces.
Define(r, name, default) == [r EXCEPT !.flags = name :> default @@ @]

\* Overrides of names are added, in place of those there are.
Override(r, names, value) ==
    [r EXCEPT !.overrides =
        [n \in DOMAIN @ \cup names |-> IF n \in names THEN value ELSE @[n]]]

\* Mutant of ApplyOverrides: the disabled ones are applied first.
DisabledFirst(r, enabled, disabled) ==
    Override(Override(r, disabled, FALSE), enabled, TRUE)

\* apply_overrides(): the enabled ones first, then the disabled ones.
ApplyOverrides(r, enabled, disabled) ==
    Override(Override(r, enabled, TRUE), disabled, FALSE)

\* is_enabled()
IsEnabled(r, name) ==
    \/ name \in DOMAIN r.overrides /\ r.overrides[name]
    \/ name \notin DOMAIN r.overrides /\ name \in DOMAIN r.flags /\ r.flags[name]
=============================================================================
