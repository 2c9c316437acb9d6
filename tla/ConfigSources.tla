--------------------------- MODULE ConfigSources ---------------------------
(***************************************************************************)
(* eaip.config.sources: sources of configuration, and LayeredSource, which *)
(* merges some of them, later ones over earlier ones.                      *)
(*                                                                         *)
(* A mapping within a mapping is an object, and _deep_merge() moves such   *)
(* objects about without copying them: what load() of a DictSource returns *)
(* shares its sections with the source, and a section that the layers      *)
(* below do not have is stored in theirs as it is, from then on part of    *)
(* both sources.  The model has therefore a heap of mappings, each named   *)
(* by the source and the place it was made for, and follows the recursion  *)
(* to whatever depth the configurations have.                              *)
(***************************************************************************)
EXTENDS Naturals, Sequences, FiniteSets, SequencesExt, TLC

CONSTANTS
    Dicts,          \* the DictSources there are
    Env, File,      \* the EnvSource and the FileSource
    Result,         \* makes what load() of a LayeredSource returns
    Keys, Values,
    Broken,         \* of a file that is required and missing, or does not parse
    DictChoices,    \* bound: what a DictSource may be given,
    EnvChoices,     \* what variables may be set, in the order they are listed,
    FileChoices,    \* what may be in the file, nothing if it need not exist,
    Stacks          \* and which sources, in which order, are layered

Sources == Dicts \cup {Env, File}

\* A configuration is a mapping of keys to values and to configurations.
IsSection(v) == v \notin Values

\* A variable PREFIX_A__B has the path <<a, b>>.
Variables == [path : Seq(Keys) \ {<<>>}, value : Values]

ASSUME ConfigAssumption ==
    /\ EnvChoices \subseteq Seq(Variables)
    /\ \A stack \in Stacks : stack \in Seq(Sources) /\ stack # <<>>
    /\ Env # File /\ {Env, File} \cap Dicts = {} /\ Result \notin Sources
    /\ Broken \notin Values

VARIABLES
    heap,       \* the mappings there are: each from keys to values and mappings
    env, file   \* what EnvSource and FileSource would read now

configVars == <<heap, env, file>>

-----------------------------------------------------------------------------
(***************************************************************************)
(* Mappings as objects.                                                    *)
(***************************************************************************)

\* The mapping made by source s at a path of its configuration; the
\* environment and the file are read many times, each a generation.
Ref(s, n, path) == [by |-> s, gen |-> n, at |-> path]

\* self._data of a DictSource.
Root(d) == Ref(d, 0, <<>>)

\* The paths at which the configuration t has a mapping, and what is at one.
RECURSIVE SectionsOf(_)
SectionsOf(t) ==
    IF ~IsSection(t) THEN {}
    ELSE {<<>>} \cup UNION {{<<k>> \o p : p \in SectionsOf(t[k])} : k \in DOMAIN t}

At(t, path) == FoldLeft(LAMBDA u, k : u[k], t, path)

\* The configuration t as new objects.
Objects(t, s, n) ==
    [r \in {Ref(s, n, p) : p \in SectionsOf(t)} |->
        [k \in DOMAIN At(t, r.at) |->
            LET p == Append(r.at, k)
            IN  IF IsSection(At(t, p)) THEN Ref(s, n, p) ELSE At(t, p)]]

\* The configuration that the value v stands for, in the heap h.
RECURSIVE View(_, _)
View(h, v) ==
    IF IsSection(v) THEN [k \in DOMAIN h[v] |-> View(h, h[v][k])] ELSE v

ViewOf(h, mapping) == [k \in DOMAIN mapping |-> View(h, mapping[k])]

\* The mappings that are found in one.
RECURSIVE Below(_, _)
Below(h, mapping) ==
    UNION {{mapping[k]} \cup Below(h, h[mapping[k]]) :
              k \in {j \in DOMAIN mapping : IsSection(mapping[j])}}

\* What is part of some source, and will be written into or read again.
InSources(h) == UNION {{Root(d)} \cup Below(h, h[Root(d)]) : d \in Dicts}

-----------------------------------------------------------------------------
(***************************************************************************)
(* load() of each source, in a world w of heap, environment and file.      *)
(***************************************************************************)

world == [heap |-> heap, env |-> env, file |-> file]

\* EnvSource._assign: on the way to the last key of its path, whatever is not
\* a mapping gives way to one.
RECURSIVE Assign(_, _, _)
Assign(t, path, v) ==
    LET k == Head(path)
        there == IF k \in DOMAIN t /\ IsSection(t[k]) THEN t[k] ELSE <<>>
    IN  IF Len(path) = 1 THEN (k :> v) @@ t
        ELSE (k :> Assign(there, Tail(path), v)) @@ t

EnvLoaded(variables) ==
    FoldLeft(LAMBDA t, x : Assign(t, x.path, x.value), <<>>, variables)

\* The configuration that source s has now; Broken if load() raises
\* ConfigurationError.
Loaded(s, w) ==
    CASE s \in Dicts -> View(w.heap, Root(s))
      [] s = Env     -> EnvLoaded(w.env)
      [] s = File    -> w.file

\* A generation that no mapping made by s in the heap h is of.
Fresh(s, h) ==
    CHOOSE n \in 0..Cardinality(DOMAIN h) : \A r \in DOMAIN h : r.by = s => r.gen # n

-----------------------------------------------------------------------------
(***************************************************************************)
(* LayeredSource.load().                                                   *)
(***************************************************************************)

\* Mutants of DeepMerge: a section takes the place of the one below it; the
\* one above is written into, and takes that place; the one above is empty
\* when it has been merged.
ShallowMerge(h, dest, src) == [h EXCEPT ![dest] = src @@ @]
MergeUpwards(h, dest, src) ==
    LET merge(k, g) ==
            IF IsSection(src[k]) /\ k \in DOMAIN g[dest] /\ IsSection(g[dest][k])
            THEN [g EXCEPT ![src[k]] = @ @@ g[g[dest][k]], ![dest][k] = src[k]]
            ELSE [g EXCEPT ![dest] = (k :> src[k]) @@ @]
    IN  FoldSet(merge, h, DOMAIN src)

RECURSIVE MergeMoves(_, _, _)
MergeMoves(h, dest, src) ==
    LET merge(k, g) ==
            IF IsSection(src[k]) /\ k \in DOMAIN g[dest] /\ IsSection(g[dest][k])
            THEN [MergeMoves(g, g[dest][k], g[src[k]]) EXCEPT ![src[k]] = <<>>]
            ELSE [g EXCEPT ![dest] = (k :> src[k]) @@ @]
    IN  FoldSet(merge, h, DOMAIN src)

(***************************************************************************)
(* _deep_merge(dest, src), dest by its name and src by what it maps: two   *)
(* mappings of one key are merged within the object that dest has, and any *)
(* other value is stored in dest as it is, a mapping as the object it is.  *)
(* The keys do not affect each other: an object has one place.             *)
(***************************************************************************)
RECURSIVE DeepMerge(_, _, _)
DeepMerge(h, dest, src) ==
    LET merge(k, g) ==
            IF IsSection(src[k]) /\ k \in DOMAIN g[dest] /\ IsSection(g[dest][k])
            THEN DeepMerge(g, g[dest][k], g[src[k]])
            ELSE [g EXCEPT ![dest] = (k :> src[k]) @@ @]
    IN  FoldSet(merge, h, DOMAIN src)

result == Ref(Result, 0, <<>>)

\* One source of LayeredSource.load(): the first that raises ends it.
Layer(m, s) ==
    LET t == Loaded(s, m)
        n == Fresh(s, m.heap)
        h == IF s \in Dicts THEN m.heap ELSE Objects(t, s, n) @@ m.heap
        top == IF s \in Dicts THEN h[Root(s)] ELSE h[Ref(s, n, <<>>)]
    IN  IF m.failed THEN m
        ELSE IF t = Broken THEN [m EXCEPT !.failed = TRUE]
        ELSE [m EXCEPT !.heap = DeepMerge(h, result, top)]

\* The world w after load() of the sources of the stack, whether it failed,
\* and the mapping it returned if not.
Merged(stack, w) ==
    LET start == [heap |-> (result :> <<>>) @@ w.heap, env |-> w.env, file |-> w.file,
                  failed |-> FALSE]
        m == FoldLeft(Layer, start, stack)
    IN  [heap |-> Restrict(m.heap, DOMAIN m.heap \ {result}), env |-> w.env, file |-> w.file,
         failed |-> m.failed, value |-> IF m.failed THEN <<>> ELSE m.heap[result]]

(***************************************************************************)
(* What "later sources override earlier ones (deep-merge)" asks for, of    *)
(* the configurations q: nothing below the highest plain value counts, and *)
(* above it the same holds of each key of the mappings.                    *)
(***************************************************************************)
RECURSIVE AddUp(_)
AddUp(q) ==
    LET plain == {i \in DOMAIN q : ~IsSection(q[i])}
        above == {i \in DOMAIN q : \A j \in plain : i > j}
        with(k) == {i \in above : k \in DOMAIN q[i]}
        values(k) == LET s == SetToSortSeq(with(k), <) IN [i \in DOMAIN s |-> q[s[i]][k]]
    IN  IF above = {} THEN q[Len(q)]
        ELSE [k \in UNION {DOMAIN q[i] : i \in above} |-> AddUp(values(k))]

-----------------------------------------------------------------------------
ConfigInit ==
    /\ \E given \in [Dicts -> DictChoices] :
          heap = [r \in UNION {DOMAIN Objects(given[d], d, 0) : d \in Dicts} |->
                     Objects(given[r.by], r.by, 0)[r]]
    /\ env \in EnvChoices
    /\ file \in FileChoices

\* load() of a LayeredSource.  One that raises has merged the layers before.
Load(stack) ==
    LET m == Merged(stack, world)
    IN  /\ heap' = Restrict(m.heap, InSources(m.heap))
        /\ UNCHANGED <<env, file>>

\* Someone changes the environment or the file.
Changed ==
    /\ env' \in EnvChoices
    /\ file' \in FileChoices
    /\ UNCHANGED heap

ConfigNext == (\E stack \in Stacks : Load(stack)) \/ Changed

ConfigSpec == ConfigInit /\ [][ConfigNext]_configVars

-----------------------------------------------------------------------------
(***************************************************************************)
(* Safety.  Each property is about any load() from the state at hand.      *)
(***************************************************************************)

InPlace(h, mapping, path) ==
    \A k \in {j \in DOMAIN mapping : IsSection(mapping[j])} :
       mapping[k] \in DOMAIN h /\ mapping[k].at = Append(path, k)

\* Every mapping has one place: it is found only under the keys it was made
\* under, in whatever sources and in what a load() returns, so that none
\* contains itself.
ConfigTypeOK ==
    /\ \A r \in DOMAIN heap : InPlace(heap, heap[r], r.at)
    /\ \A stack \in Stacks :
          LET m == Merged(stack, world) IN InPlace(m.heap, m.value, <<>>)
    /\ env \in EnvChoices /\ file \in FileChoices

Configurations(stack, w) == [i \in DOMAIN stack |-> Loaded(stack[i], w)]

Unreadable(stack, w) == \E i \in DOMAIN stack : Loaded(stack[i], w) = Broken

\* The mappings of a source that a load() may write into: not its _data,
\* which load() copies.
Sections(s) == IF s \in Dicts THEN Below(heap, heap[Root(s)]) ELSE {}

\* No two sources of the stack have a mapping in common.
Apart(stack) ==
    \A i, j \in DOMAIN stack : i # j => Sections(stack[i]) \cap Sections(stack[j]) = {}

\* What one source of the stack has as a mapping within a top-level section,
\* none of them has as a plain value.
SameKinds(stack) ==
    \A i, j \in DOMAIN stack :
       LET t == Loaded(stack[i], world)
           u == Loaded(stack[j], world)
       IN  t # Broken /\ u # Broken =>
              \A p \in SectionsOf(t) :
                 Len(p) > 1 /\ Front(p) \in SectionsOf(u) /\ Last(p) \in DOMAIN At(u, Front(p))
                    => p \in SectionsOf(u)

\* "Later sources override earlier ones (deep-merge)", sources.py:157: load()
\* returns what its sources add up to when it is called, though it changes
\* some of them as it goes, but only as long as no earlier load() has left one
\* mapping in two of them: then an earlier source may win.  It fails just when
\* one of its sources does.
LaterWinsApart ==
    \A stack \in Stacks :
       LET m == Merged(stack, world)
       IN  /\ m.failed <=> Unreadable(stack, world)
           /\ Apart(stack) /\ ~m.failed =>
                 ViewOf(m.heap, m.value) = AddUp(Configurations(stack, world))

\* "Implementations must be idempotent", sources.py:21: load() once more, with
\* environment and file as they were, returns the same, and no source differs
\* after it from what the first one left, but only if the sources agree on what
\* is a mapping: a plain value hides the entries below it from the first load()
\* and not those that the first load() has left there from the second.
IdempotentOnSameKinds ==
    \A stack \in Stacks :
       SameKinds(stack) =>
          LET m == Merged(stack, world)
              n == Merged(stack, m)
          IN  /\ n.failed = m.failed
              /\ ViewOf(n.heap, n.value) = ViewOf(m.heap, m.value)
              /\ \A d \in Dicts : View(n.heap, Root(d)) = View(m.heap, Root(d))

\* What a load(), also one that fails, writes into: no mapping but those within
\* the DictSources that it merges, though through these also into others that
\* share them; such a mapping keeps its keys, and what it gets another source
\* of the stack has under the same keys, one above if no two share a mapping.
WritesOnlyIntoItsSources ==
    \A stack \in Stacks :
       LET m == Merged(stack, world)
           gets(r, k, j) ==
              LET t == Loaded(stack[j], world)
              IN  /\ t # Broken /\ r.at \in SectionsOf(t) /\ k \in DOMAIN At(t, r.at)
                  /\ IF IsSection(m.heap[r][k]) THEN IsSection(At(t, r.at)[k])
                     ELSE At(t, r.at)[k] = m.heap[r][k]
       IN  \A r \in DOMAIN heap :
              m.heap[r] # heap[r] =>
                 /\ DOMAIN heap[r] \subseteq DOMAIN m.heap[r]
                 /\ \E i \in DOMAIN stack :
                       /\ r \in Sections(stack[i])
                       /\ \A k \in DOMAIN m.heap[r] :
                             \/ k \in DOMAIN heap[r] /\ m.heap[r][k] = heap[r][k]
                             \/ \E j \in DOMAIN stack \ {i} :
                                   gets(r, k, j) /\ (Apart(stack) => j > i)

\* The type invariant together with that.
ConfigInv == ConfigTypeOK /\ WritesOnlyIntoItsSources
=============================================================================
