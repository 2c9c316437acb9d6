------------------------------ MODULE Version ------------------------------
(***************************************************************************)
(* eaip.version.semver.Version: the four comparisons of versions, two of   *)
(* which go by the key and two by the equality of the dataclass as well,   *)
(* and the compatibility of versions.                                      *)
(*                                                                         *)
(* Prereleases are strings compared lexicographically; of them the order   *)
(* matters and that "" is the least, so that a prerelease is its position  *)
(* among those there are, and 0 is none.  Build metadata is compared for   *)
(* equality alone.                                                         *)
(***************************************************************************)
EXTENDS Integers

CONSTANT Metadata   \* what build metadata there is

Versions == [major : Nat, minor : Nat, patch : Nat, prerelease : Nat, build : Metadata]

\* _key(): a version without prerelease outranks one with.
PreRank(v) == IF v.prerelease = 0 THEN 0 ELSE 1

SameCore(v, w) == v.major = w.major /\ v.minor = w.minor /\ v.patch = w.patch

CoreLess(v, w) ==
    \/ v.major < w.major
    \/ v.major = w.major /\ v.minor < w.minor
    \/ v.major = w.major /\ v.minor = w.minor /\ v.patch < w.patch

\* __lt__
Less(v, w) ==
    \/ CoreLess(v, w)
    \/ SameCore(v, w) /\ -PreRank(v) < -PreRank(w)
    \/ SameCore(v, w) /\ PreRank(v) = PreRank(w) /\ v.prerelease < w.prerelease

\* __le__, __gt__, __ge__: the first by the equality of all five fields.
LessOrEqual(v, w)    == v = w \/ Less(v, w)
Greater(v, w)        == ~LessOrEqual(v, w)
GreaterOrEqual(v, w) == ~Less(v, w)

\* is_compatible_with()
CompatibleWith(v, w) ==
    IF v.major = 0 \/ w.major = 0 THEN v.major = w.major /\ v.minor = w.minor
    ELSE v.major = w.major

\* The versions that differ in their build metadata at most.
SameButBuild(v, w) == SameCore(v, w) /\ v.prerelease = w.prerelease
=============================================================================
