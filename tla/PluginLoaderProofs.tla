------------------------- MODULE PluginLoaderProofs -------------------------
(***************************************************************************)
(* Proofs about PluginLoader, for any plugins: its types, whatever tasks   *)
(* use it, and what activate_all() and deactivate_all() leave when one     *)
(* does.                                                                   *)
(***************************************************************************)
EXTENDS PluginLoader, FiniteSetTheorems, SequenceTheorems, TLAPS

-----------------------------------------------------------------------------
(***************************************************************************)
(* What a step of the loader leaves.                                       *)
(***************************************************************************)

\* A set that is listed is all in the list.
LEMMA ListedAll ==
    ASSUME NEW A, IsFiniteSet(A), NEW q \in SetToSeqs(A)
    PROVE  q \in Seq(A) /\ ToSet(q) = A
<1> DEFINE D == 1..Cardinality(A)
<1>1. Cardinality(A) \in Nat
  BY FS_CardinalityType
<1>2. q \in [D -> A] /\ \A i, j \in D : i # j => q[i] # q[j]
  \* One is the Cardinality that SetToSeqs uses, one that of the theorems.
  <2>1. Cardinality(A) = Cardinality(A)
    BY DEF Cardinality, Cardinality
  <2> QED
    BY <2>1 DEF SetToSeqs
<1>3. q \in Injection(D, A)
  BY <1>2 DEF Injection, IsInjective
<1>4. Cardinality(D) = Cardinality(A)
  BY <1>1, FS_Interval
<1>5. q \in Surjection(D, A)
  BY <1>3, <1>4, FS_Injection
<1>6. \A a \in A : \E i \in D : q[i] = a
  BY <1>5 DEF Surjection
<1>7. q \in Seq(A)
  BY <1>1, <1>2
<1> QED
  BY <1>2, <1>6, <1>7 DEF ToSet

\* What is left of a list after its n-th element.
LEMMA RestOfSeq ==
    ASSUME NEW S, NEW q \in Seq(S), NEW n \in 1..Len(q)
    PROVE  LET r == SubSeq(q, n + 1, Len(q))
           IN  /\ r \in Seq(S) /\ Len(r) = Len(q) - n
               /\ \A i \in 1..(Len(q) - n) : r[i] = q[n + i]
<1> DEFINE r == SubSeq(q, n + 1, Len(q))
<1>1. Len(q) \in Nat /\ n \in Nat /\ n =< Len(q) /\ \A i \in 1..Len(q) : q[i] \in S
  OBVIOUS
<1>2. /\ r \in Seq(S) /\ Len(r) = IF n + 1 =< Len(q) THEN Len(q) - (n + 1) + 1 ELSE 0
      /\ \A i \in 1..(Len(q) - (n + 1) + 1) : r[i] = q[(n + 1) + i - 1]
  <2>1. \A i \in (n + 1)..Len(q) : q[i] \in S
    BY <1>1
  <2> QED
    BY <1>1, <2>1, SubSeqProperties
<1>3. Len(q) - (n + 1) + 1 = Len(q) - n
  BY <1>1
<1>4. \A i \in 1..(Len(q) - n) : (n + 1) + i - 1 = n + i
  BY <1>1
<1>5. ASSUME NEW i \in 1..(Len(q) - n) PROVE r[i] = q[n + i]
  BY <1>2, <1>3, <1>4
<1>6. Len(r) = Len(q) - n
  <2>1. n + 1 =< Len(q) \/ n = Len(q)
    BY <1>1
  <2>2. n = Len(q) => Len(q) - n = 0 /\ ~(n + 1 =< Len(q))
    BY <1>1
  <2> QED
    BY <1>2, <1>3, <2>1, <2>2
<1> QED
  BY <1>2, <1>5, <1>6

\* deactivate_all() with the names q still to visit, when every active one of A
\* is among them: it is done when none is active, and awaits one otherwise, with
\* the others still to visit; it raises only over a name that is active.
LEMMA Deactivating ==
    ASSUME NEW t \in Tasks, NEW S, NEW q \in Seq(S), NEW A, A \subseteq ToSet(q),
           DeactivateNext(t, q, A),
           t \in DOMAIN doing, t \in DOMAIN on, t \in DOMAIN todo
    PROVE  \/ doing'[t] = "idle" /\ A = {}
           \/ doing'[t] = "raised" /\ A # {}
           \/ /\ doing'[t] = "deactivating" /\ A # {}
              /\ todo'[t] \in Seq(S)
              /\ A \subseteq ToSet(todo'[t]) \cup {on'[t]}
<1>1. CASE ToSet(q) \cap A = {} /\ End(t, "idle")
  BY <1>1 DEF End, Await
<1>2. ASSUME NEW n \in 1..Len(q), \A m \in 1..(n - 1) : q[m] \notin A, q[n] \in A,
             End(t, "raised")
      PROVE  doing'[t] = "raised" /\ A # {}
  BY <1>2 DEF End, Await
<1>3. ASSUME NEW n \in 1..Len(q), \A m \in 1..(n - 1) : q[m] \notin A, q[n] \in A,
             Await(t, "deactivating", q[n], SubSeq(q, n + 1, Len(q)))
      PROVE  /\ doing'[t] = "deactivating" /\ A # {}
             /\ todo'[t] \in Seq(S)
             /\ A \subseteq ToSet(todo'[t]) \cup {on'[t]}
  <2> DEFINE r == SubSeq(q, n + 1, Len(q))
  <2>1. doing'[t] = "deactivating" /\ on'[t] = q[n] /\ todo'[t] = r
    BY <1>3 DEF Await
  <2>2. /\ r \in Seq(S) /\ Len(r) = Len(q) - n
        /\ \A i \in 1..(Len(q) - n) : r[i] = q[n + i]
    BY RestOfSeq
  <2> HIDE DEF r
  <2>3. ASSUME NEW a \in A PROVE a = q[n] \/ a \in ToSet(r)
    <3>1. PICK i \in 1..Len(q) : q[i] = a
      BY DEF ToSet
    <3>2. i >= n
      BY <1>3, <3>1
    <3>3. CASE i > n
      <4>1. i - n \in 1..(Len(q) - n) /\ n + (i - n) = i
        BY <3>3
      <4>2. r[i - n] = a /\ i - n \in DOMAIN r
        BY <2>2, <3>1, <4>1
      <4> QED
        BY <4>2 DEF ToSet
    <3> QED
      BY <3>1, <3>2, <3>3
  <2> QED
    BY <1>3, <2>1, <2>2, <2>3
<1> QED
  BY <1>1, <1>2, <1>3 DEF DeactivateNext

\* A plugin's deactivate() has ended, and deactivate_all() goes on or raises.
LEMMA DeactivationGoesOn ==
    ASSUME NEW t \in Tasks, NEW S, todo[t] \in Seq(S),
           activated \subseteq ToSet(todo[t]) \cup {on[t]},
           doing[t] = "deactivating", Resume(t),
           t \in DOMAIN doing, t \in DOMAIN on, t \in DOMAIN todo
    PROVE  /\ activated' \subseteq activated
           /\ \/ doing'[t] = "idle" /\ activated' = {}
              \/ doing'[t] = "raised"
              \/ /\ doing'[t] = "deactivating"
                 /\ todo'[t] \in Seq(S)
                 /\ activated' \subseteq ToSet(todo'[t]) \cup {on'[t]}
<1>1. CASE PluginDeactivated(t)
  <2>1. /\ activated' = activated \ {on[t]}
        /\ DeactivateNext(t, todo[t], activated')
    BY <1>1 DEF PluginDeactivated, Discard
  <2>2. activated' \subseteq ToSet(todo[t])
    BY <2>1
  <2> QED
    BY <2>1, <2>2, Deactivating
<1>2. CASE PluginDeactivationFails(t)
  BY <1>2 DEF PluginDeactivationFails, Discard, End, Await
<1> QED
  BY <1>1, <1>2 DEF Resume, PluginActivated, PluginActivationFails

-----------------------------------------------------------------------------
(***************************************************************************)
(* The types of the plugin loader, whatever tasks use it.                  *)
(***************************************************************************)

\* Without the only occurrence of e, a list without repetitions still has all
\* its other elements, each once.
LEMMA RemovedOnce ==
    ASSUME NEW S, NEW s \in Seq(S), IsInjective(s), NEW e
    PROVE  LET r == RemoveFirst(s, e)
           IN  /\ r \in Seq(S) /\ IsInjective(r)
               /\ ToSet(r) = ToSet(s) \ {e}
<1> DEFINE r == RemoveFirst(s, e)
           I == {i \in 1..Len(s) : s[i] = e}
<1>1. Len(s) \in Nat /\ DOMAIN s = 1..Len(s) /\ \A i \in 1..Len(s) : s[i] \in S
  OBVIOUS
<1>2. CASE I = {}
  <2>1. r = s
    BY <1>2 DEF RemoveFirst
  <2>2. e \notin ToSet(s)
    BY <1>1, <1>2 DEF ToSet
  <2> QED
    BY <2>1, <2>2
<1>3. CASE I # {}
  <2>1. PICK k \in 1..Len(s) : s[k] = e
    BY <1>3
  <2>2. I = {k}
    BY <1>1, <2>1 DEF IsInjective
  <2>3. SelectInSeq(s, LAMBDA v : v = e) = k
    <3>1. k =< k
      BY <1>1
    <3>2. Min({k}) = k
      BY <3>1 DEF Min
    <3> QED
      BY <2>2, <3>2 DEF SelectInSeq
  <2> DEFINE a == SubSeq(s, 1, k - 1)
             b == SubSeq(s, k + 1, Len(s))
  <2>4. r = a \o b
    BY <2>1, <2>3 DEF RemoveFirst, RemoveAt
  <2>5. a \in Seq(S) /\ Len(a) = k - 1 /\ \A i \in 1..(k - 1) : a[i] = s[i]
    <3>1. \A i \in 1..(k - 1) : s[i] \in S
      BY <1>1
    <3>2. 1 \in Int /\ k - 1 \in Int /\ (k - 1) - 1 + 1 = k - 1 /\ \A i \in 1..(k - 1) : 1 + i - 1 = i
      BY <1>1
    <3>3. /\ a \in Seq(S) /\ Len(a) = IF 1 =< k - 1 THEN (k - 1) - 1 + 1 ELSE 0
          /\ \A i \in 1..((k - 1) - 1 + 1) : a[i] = s[1 + i - 1]
      BY <3>1, <3>2, SubSeqProperties
    <3>4. 1 =< k - 1 \/ k - 1 = 0
      BY <1>1
    <3>5. k - 1 = 0 => ~(1 =< k - 1)
      BY <1>1
    <3> QED
      BY <3>2, <3>3, <3>4, <3>5
  <2>6. /\ b \in Seq(S) /\ Len(b) = Len(s) - k
        /\ \A i \in 1..(Len(s) - k) : b[i] = s[k + i]
    BY <1>1, RestOfSeq
  <2> HIDE DEF a, b, r
  <2>7. /\ r \in Seq(S) /\ Len(r) = (k - 1) + (Len(s) - k)
        /\ \A i \in 1..((k - 1) + (Len(s) - k)) : r[i] = IF i =< k - 1 THEN a[i] ELSE b[i - (k - 1)]
    <3>1. /\ a \o b \in Seq(S) /\ Len(a \o b) = Len(a) + Len(b)
          /\ \A i \in 1..(Len(a) + Len(b)) :
                (a \o b)[i] = IF i =< Len(a) THEN a[i] ELSE b[i - Len(a)]
      BY <2>5, <2>6, ConcatProperties
    <3>2. Len(a) = k - 1 /\ Len(b) = Len(s) - k
      BY <2>5, <2>6
    <3> QED
      BY <2>4, <3>1, <3>2, Zenon
  <2>8. Len(r) = Len(s) - 1 /\ DOMAIN r = 1..(Len(s) - 1)
    <3>1. (k - 1) + (Len(s) - k) = Len(s) - 1
      BY <1>1
    <3> QED
      BY <2>7, <3>1, LenProperties
  <2>9. ASSUME NEW i \in 1..(Len(s) - 1) PROVE r[i] = IF i < k THEN s[i] ELSE s[i + 1]
    <3>1. i \in 1..((k - 1) + (Len(s) - k))
      BY <1>1
    <3>2. CASE i < k
      <4>1. i =< k - 1 /\ i \in 1..(k - 1)
        BY <1>1, <3>2
      <4> QED
        BY <2>5, <2>7, <3>1, <3>2, <4>1
    <3>3. CASE ~(i < k)
      <4>1. ~(i =< k - 1) /\ i - (k - 1) \in 1..(Len(s) - k) /\ k + (i - (k - 1)) = i + 1
        BY <1>1, <3>3
      <4> QED
        BY <2>6, <2>7, <3>1, <3>3, <4>1
    <3> QED
      BY <3>2, <3>3
  <2>10. IsInjective(r)
    <3> SUFFICES ASSUME NEW i \in 1..(Len(s) - 1), NEW j \in 1..(Len(s) - 1), r[i] = r[j]
                 PROVE  i = j
      BY <2>8 DEF IsInjective
    <3> DEFINE At(n) == IF n < k THEN n ELSE n + 1
    <3>1. At(i) \in 1..Len(s) /\ At(j) \in 1..Len(s) /\ s[At(i)] = s[At(j)]
      BY <1>1, <2>9
    <3>2. At(i) = At(j)
      BY <1>1, <3>1 DEF IsInjective
    <3> QED
      BY <3>2
  <2>11. ASSUME NEW x \in ToSet(r) PROVE x \in ToSet(s) \ {e}
    <3>1. PICK i \in 1..(Len(s) - 1) : x = r[i]
      BY <2>8 DEF ToSet
    <3>2. PICK j \in 1..Len(s) : x = s[j] /\ j # k
      <4>1. CASE i < k
        BY <1>1, <2>9, <3>1, <4>1
      <4>2. CASE ~(i < k)
        BY <1>1, <2>9, <3>1, <4>2
      <4> QED
        BY <4>1, <4>2
    <3> QED
      BY <1>1, <2>1, <3>2 DEF IsInjective, ToSet
  <2>12. ASSUME NEW x \in ToSet(s) \ {e} PROVE x \in ToSet(r)
    <3>1. PICK j \in 1..Len(s) : x = s[j] /\ j # k
      BY <1>1, <2>1 DEF ToSet
    <3>2. \E i \in 1..(Len(s) - 1) : r[i] = x
      <4>1. CASE j < k
        <5>1. j \in 1..(Len(s) - 1)
          BY <4>1
        <5> QED
          BY <2>9, <3>1, <4>1, <5>1
      <4>2. CASE j > k
        <5>1. j - 1 \in 1..(Len(s) - 1) /\ ~(j - 1 < k) /\ (j - 1) + 1 = j
          BY <4>2
        <5> QED
          BY <2>9, <3>1, <5>1
      <4> QED
        BY <3>1, <4>1, <4>2
    <3> QED
      BY <2>8, <3>2 DEF ToSet
  <2> QED
    BY <2>7, <2>10, <2>11, <2>12 DEF r
<1> QED
  BY <1>2, <1>3

\* What a task may do next in the loader: be over, or await a plugin with a list
\* of those still to visit.
MayAwait(d, p, q) ==
    \/ d \in Ended /\ p = NoPlugin /\ q = <<>>
    \/ d \in Awaiting /\ p \in Plugins /\ q \in Seq(Plugins)

TaskTypes ==
    /\ doing \in [Tasks -> Ended \cup Awaiting]
    /\ on \in [Tasks -> Plugins \cup {NoPlugin}]
    /\ todo \in [Tasks -> Seq(Plugins)]
    /\ \A t \in Tasks : /\ doing[t] \in Awaiting <=> on[t] # NoPlugin
                        /\ doing[t] \in Ended => todo[t] = <<>>

LEMMA AwaitTyped ==
    ASSUME TypeOK, NEW t \in Tasks, NEW d, NEW p, NEW q, MayAwait(d, p, q), Await(t, d, p, q)
    PROVE  TaskTypes'
<1>1. d \in Ended \cup Awaiting /\ p \in Plugins \cup {NoPlugin} /\ q \in Seq(Plugins)
  BY EmptySeq DEF MayAwait
<1>2. /\ d \in Awaiting <=> p # NoPlugin
      /\ d \in Ended => q = <<>>
  BY PluginAssumption DEF MayAwait, Ended, Awaiting
<1>3. /\ doing' \in [Tasks -> Ended \cup Awaiting]
      /\ on' \in [Tasks -> Plugins \cup {NoPlugin}]
      /\ todo' \in [Tasks -> Seq(Plugins)]
  BY <1>1 DEF TypeOK, Await
<1>4. ASSUME NEW u \in Tasks
      PROVE  /\ doing'[u] \in Awaiting <=> on'[u] # NoPlugin
             /\ doing'[u] \in Ended => todo'[u] = <<>>
  <2>1. CASE u = t
    <3>1. doing'[u] = d /\ on'[u] = p /\ todo'[u] = q
      BY <2>1 DEF TypeOK, Await
    <3> QED
      BY <1>2, <3>1
  <2>2. CASE u # t
    <3>1. doing'[u] = doing[u] /\ on'[u] = on[u] /\ todo'[u] = todo[u]
      BY <2>2 DEF TypeOK, Await
    <3> QED
      BY <3>1 DEF TypeOK
  <2> QED
    BY <2>1, <2>2
<1> QED
  BY <1>3, <1>4 DEF TaskTypes

\* Where activate() and deactivate() of each name of q stop.
LEMMA NextAwaits ==
    ASSUME NEW t \in Tasks, NEW q \in Seq(Plugins), NEW A,
           ActivateNext(t, q, A) \/ DeactivateNext(t, q, A)
    PROVE  \E d, p, r : MayAwait(d, p, r) /\ Await(t, d, p, r)
<1>1. ASSUME NEW e \in Ended, End(t, e) PROVE MayAwait(e, NoPlugin, <<>>) /\ Await(t, e, NoPlugin, <<>>)
  BY <1>1 DEF End, MayAwait
<1>2. ASSUME NEW e \in Awaiting, NEW n \in 1..Len(q),
             Await(t, e, q[n], SubSeq(q, n + 1, Len(q)))
      PROVE  MayAwait(e, q[n], SubSeq(q, n + 1, Len(q)))
  <2>1. q[n] \in Plugins
    BY ElementOfSeq
  <2>2. SubSeq(q, n + 1, Len(q)) \in Seq(Plugins)
    BY RestOfSeq
  <2> QED
    BY <2>1, <2>2 DEF MayAwait
<1>3. {"idle", "raised"} = Ended /\ {"activating", "deactivating"} = Awaiting
  BY DEF Ended, Awaiting
<1>4. \/ \E e \in Ended : End(t, e)
      \/ \E e \in Awaiting, n \in 1..Len(q) : Await(t, e, q[n], SubSeq(q, n + 1, Len(q)))
  BY <1>3 DEF ActivateNext, DeactivateNext
<1> QED
  BY <1>1, <1>2, <1>4

\* A listed set of active names is one of plugins, each once.
LEMMA ActiveListed ==
    ASSUME TypeOK
    PROVE  /\ IsFiniteSet(activated) /\ activated \subseteq Plugins
           /\ \A q \in SetToSeqs(activated) : q \in Seq(Plugins) /\ ToSet(q) = activated
<1>1. activated = {order[i] : i \in 1..Len(order)} /\ Len(order) \in Nat
  BY DEF TypeOK, ToSet
<1>2. IsFiniteSet(activated)
  <2>1. IsFiniteSet(1..Len(order))
    BY <1>1, FS_Interval
  <2>2. order \in [1..Len(order) -> activated]
    BY <1>1 DEF TypeOK
  <2>3. order \in Surjection(1..Len(order), activated)
    BY <1>1, <2>2 DEF Surjection
  <2> QED
    BY <2>1, <2>3, FS_Surjection
<1>3. activated \subseteq Plugins
  BY <1>1, ElementOfSeq DEF TypeOK
<1> QED
  BY <1>2, <1>3, ListedAll, SeqMonotonic

Lists ==
    /\ installed \in Seq(Plugins)
    /\ IsInjective(installed)
    /\ order \in Seq(Plugins)
    /\ IsInjective(order)
    /\ activated = ToSet(order)

LEMMA AppendOnce ==
    ASSUME NEW s \in Seq(Plugins), IsInjective(s), NEW p \in Plugins, p \notin ToSet(s)
    PROVE  /\ Append(s, p) \in Seq(Plugins) /\ IsInjective(Append(s, p))
           /\ ToSet(Append(s, p)) = ToSet(s) \cup {p}
<1> DEFINE r == Append(s, p)
<1>1. PICK n \in Nat : n = Len(s) /\ DOMAIN s = 1..n
  BY LenProperties
<1>2. /\ r \in Seq(Plugins) /\ DOMAIN r = 1..(n + 1)
      /\ \A i \in 1..n : r[i] = s[i]
      /\ r[n + 1] = p
  BY <1>1, AppendProperties, LenProperties
<1> HIDE DEF r
<1>3. \A i \in 1..n : s[i] # p
  BY <1>1 DEF ToSet
<1>4. \A i \in 1..(n + 1) : i \in 1..n \/ i = n + 1
  BY <1>1
<1>5. IsInjective(r)
  BY <1>1, <1>2, <1>3, <1>4 DEF IsInjective
<1>6. \A x \in ToSet(r) : x \in ToSet(s) \cup {p}
  BY <1>1, <1>2, <1>4 DEF ToSet
<1>7. \A i \in 1..n : i \in 1..(n + 1) /\ n + 1 \in 1..(n + 1)
  OBVIOUS
<1>8. \A x \in ToSet(s) : x \in ToSet(r)
  BY <1>1, <1>2, <1>7 DEF ToSet
<1>9. p \in ToSet(r)
  <2>1. n + 1 \in 1..(n + 1)
    OBVIOUS
  <2> QED
    BY <1>2, <2>1 DEF ToSet
<1> QED
  BY <1>2, <1>5, <1>6, <1>8, <1>9 DEF r

\* Every operation of the loader keeps its types, whichever task calls it.
LEMMA LoaderTypeStep ==
    ASSUME TypeOK, NEW t \in Tasks, Request(t) \/ Resume(t)
    PROVE  TypeOK'
<1>1. \A p \in Plugins : <<p>> \in Seq(Plugins)
  OBVIOUS
<1>2. /\ todo[t] \in Seq(Plugins) /\ installed \in Seq(Plugins)
      /\ doing[t] \in Awaiting => on[t] \in Plugins
  BY DEF TypeOK
<1>3. ASSUME NEW e \in {"idle", "raised"}, End(t, e)
      PROVE  MayAwait(e, NoPlugin, <<>>) /\ Await(t, e, NoPlugin, <<>>)
  BY <1>3 DEF End, MayAwait, Ended
<1>4. TaskTypes'
  <2>1. \E d, p, r : MayAwait(d, p, r) /\ Await(t, d, p, r)
    <3>1. CASE Install(t) \/ InstallViolatesContract(t) \/ Uninstall(t)
      <4>1. PICK e \in {"idle", "raised"} : End(t, e)
        BY <3>1 DEF Install, InstallViolatesContract, Uninstall
      <4> QED
        BY <1>3, <4>1
    <3>2. CASE Activate(t) \/ Deactivate(t)
      <4>1. PICK p \in Plugins :
               ActivateNext(t, <<p>>, activated) \/ DeactivateNext(t, <<p>>, activated)
        BY <3>2 DEF Activate, Deactivate
      <4> QED
        BY <1>1, <4>1, NextAwaits
    <3>3. CASE ActivateAll(t)
      BY <1>2, <3>3, NextAwaits DEF ActivateAll
    <3>4. CASE DeactivateAll(t)
      BY <3>4, NextAwaits, ActiveListed DEF DeactivateAll
    <3>5. CASE PluginActivated(t) \/ PluginDeactivated(t)
      BY <1>2, <3>5, NextAwaits DEF PluginActivated, PluginDeactivated
    <3>6. CASE PluginActivationFails(t) \/ PluginDeactivationFails(t)
      <4>1. End(t, "raised")
        BY <3>6 DEF PluginActivationFails, PluginDeactivationFails
      <4> QED
        BY <1>3, <4>1
    <3> QED
      BY <3>1, <3>2, <3>3, <3>4, <3>5, <3>6 DEF Request, Resume
  <2>2. PICK d, p, r : MayAwait(d, p, r) /\ Await(t, d, p, r)
    BY <2>1
  <2> QED
    BY <2>2, AwaitTyped
<1>5. Lists'
  <2>1. Lists
    BY DEF TypeOK, Lists
  <2>2. ASSUME UNCHANGED <<installed, activated, order>> PROVE Lists'
    BY <2>1, <2>2 DEF Lists
  <2>3. ASSUME NEW p \in Plugins, UNCHANGED <<activated, order>>,
               \/ p \notin Installed /\ installed' = Append(installed, p)
               \/ installed' = RemoveFirst(installed, p)
        PROVE  Lists'
    <3>1. installed' \in Seq(Plugins) /\ IsInjective(installed')
      <4>1. CASE p \notin Installed /\ installed' = Append(installed, p)
        BY <2>1, <4>1, AppendOnce DEF Lists, Installed
      <4>2. CASE installed' = RemoveFirst(installed, p)
        BY <2>1, <4>2, RemovedOnce DEF Lists
      <4> QED
        BY <2>3, <4>1, <4>2
    <3> QED
      BY <2>1, <2>3, <3>1 DEF Lists
  <2>4. CASE Install(t) \/ Uninstall(t)
    BY <2>2, <2>3, <2>4 DEF Install, Uninstall
  <2>5. CASE PluginActivated(t)
    <3>1. /\ UNCHANGED installed /\ activated' = activated \cup {on[t]}
          /\ order' = IF on[t] \in activated THEN order ELSE Append(order, on[t])
          /\ on[t] \in Plugins
      BY <1>2, <2>5 DEF PluginActivated, Awaiting
    <3>2. CASE on[t] \in activated
      BY <2>2, <3>1, <3>2
    <3>3. CASE on[t] \notin activated
      BY <2>1, <3>1, <3>3, AppendOnce DEF Lists
    <3> QED
      BY <3>2, <3>3
  <2>6. CASE PluginDeactivated(t) \/ PluginDeactivationFails(t)
    <3>1. /\ UNCHANGED installed /\ activated' = activated \ {on[t]}
          /\ order' = RemoveFirst(order, on[t])
      BY <2>6 DEF PluginDeactivated, PluginDeactivationFails, Discard
    <3> QED
      BY <2>1, <3>1, RemovedOnce DEF Lists
  <2> QED
    BY <2>2, <2>4, <2>5, <2>6
       DEF Request, Resume, InstallViolatesContract, Activate, ActivateAll,
           Deactivate, DeactivateAll, PluginActivationFails
<1>6. call' \in [Tasks -> Calls]
  BY DEF TypeOK, Calls, Called, Request, Resume, Install, Uninstall,
         InstallViolatesContract, Activate, ActivateAll, Deactivate,
         DeactivateAll, PluginActivated, PluginActivationFails,
         PluginDeactivated, PluginDeactivationFails
<1> QED
  BY <1>4, <1>5, <1>6 DEF TaskTypes, Lists, TypeOK

LEMMA LoaderTypesInit == Init => TypeOK
<1> SUFFICES ASSUME Init PROVE TypeOK
  OBVIOUS
<1>1. Lists
  <2>1. <<>> \in Seq(Plugins) /\ DOMAIN <<>> = {}
    BY EmptySeq
  <2> QED
    BY <2>1 DEF Init, Lists, IsInjective, ToSet
<1>2. TaskTypes
  BY EmptySeq DEF Init, TaskTypes, Ended, Awaiting
<1>3. call \in [Tasks -> Calls]
  BY DEF Init, Calls
<1> QED
  BY <1>1, <1>2, <1>3 DEF Lists, TaskTypes, TypeOK

\* A loader is well typed whatever tasks use it, overlapping in every way.
THEOREM LoaderTypes == Spec => []TypeOK
<1>1. TypeOK /\ UNCHANGED vars => TypeOK'
  BY DEF vars, TypeOK, Installed
<1>2. TypeOK /\ [Next]_vars => TypeOK'
  BY <1>1, LoaderTypeStep DEF Next
<1> QED
  BY <1>2, LoaderTypesInit, PTL DEF Spec

-----------------------------------------------------------------------------
(***************************************************************************)
(* A plugin loader that one task uses.                                     *)
(***************************************************************************)

\* q is what follows the n-th installed plugin.
IsRest(q, n) ==
    /\ q \in Seq(Plugins) /\ n \in 0..Len(installed)
    /\ Len(q) = Len(installed) - n
    /\ \A i \in 1..Len(q) : q[i] = installed[n + i]

\* Every plugin installed before the n-th one is active.
UpTo(n) == \A m \in 1..(n - 1) : installed[m] \in activated

\* What a task that is using the loader alone knows of the plugins.
Alone(t) ==
    /\ activated \subseteq Installed
    /\ doing[t] = "activating" =>
          /\ on[t] \in Installed \ activated
          /\ call[t] \in {"activate", "activate_all"}
    /\ doing[t] = "deactivating" =>
          /\ on[t] \in activated
          /\ call[t] \in {"deactivate", "deactivate_all"}
    /\ call[t] = "activate_all" /\ doing[t] = "activating" =>
          \E n \in 1..Len(installed) :
             on[t] = installed[n] /\ IsRest(todo[t], n) /\ UpTo(n)
    /\ call[t] = "activate_all" /\ doing[t] = "idle" => activated = Installed
    /\ call[t] = "activate_all" /\ doing[t] = "raised" =>
          \E n \in 1..Len(installed) : installed[n] \notin activated /\ UpTo(n)
    /\ call[t] = "deactivate_all" /\ doing[t] = "deactivating" =>
          activated \subseteq ToSet(todo[t]) \cup {on[t]}
    /\ call[t] = "deactivate_all" /\ doing[t] = "idle" => activated = {}

\* activate() of each name of q: it awaits one that is installed and not active.
LEMMA ActivatingOne ==
    ASSUME TypeOK, NEW t \in Tasks, NEW q, NEW A, ActivateNext(t, q, A)
    PROVE  \/ doing'[t] \in {"idle", "raised"}
           \/ doing'[t] = "activating" /\ on'[t] \in Installed \ A
BY DEF ActivateNext, End, Await, TypeOK

LEMMA DeactivatingOne ==
    ASSUME TypeOK, NEW t \in Tasks, NEW q, NEW A, DeactivateNext(t, q, A)
    PROVE  \/ doing'[t] \in {"idle", "raised"}
           \/ doing'[t] = "deactivating" /\ on'[t] \in A
BY DEF DeactivateNext, End, Await, TypeOK

\* activate_all() with the plugins after the n-th still to visit and those up to
\* it active: either all installed ones are, or it awaits the first that is not.
LEMMA ActivatingAll ==
    ASSUME TypeOK, NEW t \in Tasks, NEW q, NEW n, IsRest(q, n),
           NEW A, A \subseteq Installed, \A m \in 1..n : installed[m] \in A,
           ActivateNext(t, q, A)
    PROVE  \/ doing'[t] = "idle" /\ A = Installed
           \/ /\ doing'[t] = "activating"
              /\ \E k \in 1..Len(installed) :
                    /\ on'[t] = installed[k] /\ installed[k] \notin A
                    /\ IsRest(todo'[t], k)
                    /\ \A m \in 1..(k - 1) : installed[m] \in A
<1>1. /\ Len(installed) \in Nat /\ Len(q) \in Nat /\ n \in Nat /\ Len(q) = Len(installed) - n
      /\ DOMAIN q = 1..Len(q) /\ DOMAIN installed = 1..Len(installed)
  BY DEF IsRest, TypeOK
<1>2. \A i \in 1..Len(q) : n + i \in 1..Len(installed) /\ q[i] = installed[n + i]
  BY <1>1 DEF IsRest
<1>3. ASSUME NEW k \in 1..Len(q), \A j \in 1..(k - 1) : q[j] \in A,
             NEW m \in 1..Len(installed), m < n + k
      PROVE  installed[m] \in A
  <2>1. CASE m =< n
    BY <1>1, <2>1
  <2>2. CASE m > n
    <3>1. m - n \in 1..(k - 1) /\ m - n \in 1..Len(q) /\ n + (m - n) = m
      BY <1>1, <1>3, <2>2
    <3> QED
      BY <1>2, <1>3, <3>1
  <2> QED
    BY <1>1, <2>1, <2>2
<1>4. CASE ToSet(q) \subseteq A /\ End(t, "idle")
  <2>1. ASSUME NEW m \in 1..Len(installed) PROVE installed[m] \in A
    <3>1. CASE m =< n
      BY <1>1, <3>1
    <3>2. CASE m > n
      <4>1. m - n \in 1..Len(q) /\ n + (m - n) = m
        BY <1>1, <3>2
      <4> QED
        BY <1>1, <1>2, <1>4, <4>1 DEF ToSet
    <3> QED
      BY <1>1, <3>1, <3>2
  <2>2. A = Installed
    BY <1>1, <2>1 DEF Installed, ToSet
  <2>3. doing'[t] = "idle"
    BY <1>4 DEF End, Await, TypeOK
  <2> QED
    BY <2>2, <2>3
<1>5. ASSUME NEW k \in 1..Len(q), \A m \in 1..(k - 1) : q[m] \in A, q[k] \notin A,
             Await(t, "activating", q[k], SubSeq(q, k + 1, Len(q)))
      PROVE  /\ doing'[t] = "activating"
             /\ \E j \in 1..Len(installed) :
                   /\ on'[t] = installed[j] /\ installed[j] \notin A
                   /\ IsRest(todo'[t], j)
                   /\ \A m \in 1..(j - 1) : installed[m] \in A
  <2> DEFINE r == SubSeq(q, k + 1, Len(q))
  <2>1. doing'[t] = "activating" /\ on'[t] = q[k] /\ todo'[t] = r
    BY <1>5 DEF Await, TypeOK
  <2>2. /\ r \in Seq(Plugins) /\ Len(r) = Len(q) - k
        /\ \A i \in 1..(Len(q) - k) : r[i] = q[k + i]
    BY RestOfSeq DEF IsRest
  <2> HIDE DEF r
  <2>3. IsRest(r, n + k)
    <3>1. n + k \in 0..Len(installed) /\ Len(r) = Len(installed) - (n + k)
      BY <1>1, <2>2
    <3>2. ASSUME NEW i \in 1..Len(r) PROVE r[i] = installed[(n + k) + i]
      <4>1. i \in 1..(Len(q) - k) /\ k + i \in 1..Len(q) /\ n + (k + i) = (n + k) + i
        BY <1>1, <2>2
      <4> QED
        BY <1>2, <2>2, <4>1
    <3> QED
      BY <2>2, <3>1, <3>2 DEF IsRest
  <2>4. n + k \in 1..Len(installed) /\ q[k] = installed[n + k]
    BY <1>2
  <2>5. \A m \in 1..((n + k) - 1) : installed[m] \in A
    <3>1. \A m \in 1..((n + k) - 1) : m \in 1..Len(installed) /\ m < n + k
      BY <1>1, <2>4
    <3> QED
      BY <1>3, <1>5, <3>1
  <2> QED
    BY <1>5, <2>1, <2>3, <2>4, <2>5
<1>6. \A k \in 1..Len(q) : q[k] \in Installed
  BY <1>1, <1>2 DEF Installed, ToSet
<1> QED
  BY <1>4, <1>5, <1>6 DEF ActivateNext

\* Of a loader in which a single task is at work, or none yet.
LEMMA AloneStep ==
    ASSUME TypeOK, NEW t \in Tasks, Alone(t), Request(t) \/ Resume(t)
    PROVE  Alone(t)'
<1>1. /\ t \in DOMAIN doing /\ t \in DOMAIN on /\ t \in DOMAIN todo /\ t \in DOMAIN call
      /\ todo[t] \in Seq(Plugins)
      /\ Len(installed) \in Nat /\ DOMAIN installed = 1..Len(installed)
  BY DEF TypeOK
<1>2. CASE Install(t) \/ InstallViolatesContract(t)
  <2>1. /\ activated' = activated /\ doing'[t] \in {"idle", "raised"} /\ call'[t] = "none"
        /\ installed' = installed \/ \E p \in Plugins : installed' = Append(installed, p)
    BY <1>1, <1>2 DEF Install, InstallViolatesContract, End, Await, Called
  <2>2. Installed \subseteq Installed'
    <3>1. ASSUME NEW p \in Plugins, installed' = Append(installed, p)
          PROVE  Installed \subseteq Installed'
      <4>1. /\ DOMAIN installed' = 1..(Len(installed) + 1)
            /\ \A i \in 1..Len(installed) : installed'[i] = installed[i] /\ i \in 1..(Len(installed) + 1)
        BY <3>1, AppendProperties, LenProperties DEF TypeOK
      <4> QED
        BY <1>1, <4>1 DEF Installed, ToSet
    <3> QED
      BY <2>1, <3>1 DEF Installed
  <2> QED
    BY <2>1, <2>2 DEF Alone
<1>3. CASE Uninstall(t)
  <2>1. /\ activated' = activated /\ doing'[t] \in {"idle", "raised"} /\ call'[t] = "none"
        /\ \/ installed' = installed
           \/ \E p \in Plugins : p \notin activated /\ installed' = RemoveFirst(installed, p)
    BY <1>1, <1>3 DEF Uninstall, End, Await, Called
  <2>2. activated \subseteq Installed'
    <3>1. ASSUME NEW p \in Plugins, p \notin activated, installed' = RemoveFirst(installed, p)
          PROVE  activated \subseteq Installed'
      <4>1. ToSet(installed') = ToSet(installed) \ {p}
        BY <3>1, RemovedOnce DEF TypeOK
      <4> QED
        BY <3>1, <4>1 DEF Alone, Installed
    <3> QED
      BY <2>1, <3>1 DEF Installed, Alone
  <2> QED
    BY <2>1, <2>2 DEF Alone
<1>4. CASE Activate(t)
  <2>1. /\ activated' = activated /\ installed' = installed /\ call'[t] = "activate"
        /\ \E p \in Plugins : ActivateNext(t, <<p>>, activated)
    BY <1>1, <1>4 DEF Activate, Called
  <2>2. \/ doing'[t] \in {"idle", "raised"}
        \/ doing'[t] = "activating" /\ on'[t] \in Installed \ activated
    BY <2>1, ActivatingOne
  <2> QED
    BY <2>1, <2>2 DEF Alone, Installed
<1>5. CASE Deactivate(t)
  <2>1. /\ activated' = activated /\ installed' = installed /\ call'[t] = "deactivate"
        /\ \E p \in Plugins : DeactivateNext(t, <<p>>, activated)
    BY <1>1, <1>5 DEF Deactivate, Called
  <2>2. \/ doing'[t] \in {"idle", "raised"}
        \/ doing'[t] = "deactivating" /\ on'[t] \in activated
    BY <2>1, DeactivatingOne
  <2> QED
    BY <2>1, <2>2 DEF Alone, Installed
<1>6. ASSUME installed' = installed, call'[t] = "activate_all", activated' \subseteq Installed,
             NEW q, NEW n, IsRest(q, n), \A m \in 1..n : installed[m] \in activated',
             ActivateNext(t, q, activated')
      PROVE  Alone(t)'
  <2>1. CASE doing'[t] = "idle" /\ activated' = Installed
    BY <1>6, <2>1 DEF Alone, Installed
  <2>2. ASSUME doing'[t] = "activating", NEW k \in 1..Len(installed), on'[t] = installed[k],
               installed[k] \notin activated', IsRest(todo'[t], k),
               \A m \in 1..(k - 1) : installed[m] \in activated'
        PROVE  Alone(t)'
    <3>1. IsRest(todo[t], k)' /\ UpTo(k)'
      BY <1>6, <2>2 DEF IsRest, UpTo
    <3>2. on'[t] \in Installed \ activated'
      BY <1>1, <2>2 DEF Installed, ToSet
    <3> QED
      BY <1>6, <2>2, <3>1, <3>2 DEF Alone, Installed
  <2> QED
    BY <1>6, <2>1, <2>2, ActivatingAll
<1>7. CASE ActivateAll(t)
  <2>1. /\ activated' = activated /\ installed' = installed /\ call'[t] = "activate_all"
        /\ ActivateNext(t, installed, activated)
    BY <1>1, <1>7 DEF ActivateAll, Called
  <2>2. IsRest(installed, 0) /\ \A m \in 1..0 : installed[m] \in activated
    BY <1>1 DEF IsRest, TypeOK
  <2> QED
    BY <1>6, <2>1, <2>2 DEF Alone
<1>8. CASE DeactivateAll(t)
  <2>1. /\ activated' = activated /\ installed' = installed /\ call'[t] = "deactivate_all"
        /\ \E q \in SetToSeqs(activated) : DeactivateNext(t, q, activated)
    BY <1>1, <1>8 DEF DeactivateAll, Called
  <2>2. PICK q \in SetToSeqs(activated) : DeactivateNext(t, q, activated)
    BY <2>1
  <2>3. q \in Seq(Plugins) /\ activated \subseteq ToSet(q)
    BY ActiveListed
  <2>4. \/ doing'[t] = "idle" /\ activated = {}
        \/ doing'[t] = "raised"
        \/ /\ doing'[t] = "deactivating"
           /\ activated \subseteq ToSet(todo'[t]) \cup {on'[t]}
    BY <1>1, <2>2, <2>3, Deactivating
  <2>5. doing'[t] = "deactivating" => on'[t] \in activated
    BY <2>2, DeactivatingOne
  <2> QED
    BY <2>1, <2>4, <2>5 DEF Alone, Installed
<1>9. CASE PluginActivated(t)
  <2>1. /\ doing[t] = "activating" /\ activated' = activated \cup {on[t]}
        /\ installed' = installed /\ call' = call /\ ActivateNext(t, todo[t], activated')
    BY <1>9 DEF PluginActivated
  <2>2. activated' \subseteq Installed
    BY <2>1 DEF Alone
  <2>3. CASE call[t] = "activate_all"
    <3>1. PICK n \in 1..Len(installed) :
             on[t] = installed[n] /\ IsRest(todo[t], n) /\ UpTo(n)
      BY <2>1, <2>3 DEF Alone
    <3>2. ASSUME NEW m \in 1..n PROVE installed[m] \in activated'
      <4>1. m = n \/ m \in 1..(n - 1)
        BY <1>1
      <4> QED
        BY <2>1, <3>1, <4>1 DEF UpTo
    <3> QED
      BY <1>6, <2>1, <2>2, <2>3, <3>1, <3>2
  <2>4. CASE call[t] = "activate"
    <3>1. \/ doing'[t] \in {"idle", "raised"}
          \/ doing'[t] = "activating" /\ on'[t] \in Installed \ activated'
      BY <2>1, ActivatingOne
    <3> QED
      BY <2>1, <2>2, <2>4, <3>1 DEF Alone, Installed
  <2> QED
    BY <2>1, <2>3, <2>4 DEF Alone
<1>10. CASE PluginActivationFails(t)
  <2>1. /\ doing[t] = "activating" /\ doing'[t] = "raised"
        /\ UNCHANGED <<installed, activated, call>>
    BY <1>1, <1>10 DEF PluginActivationFails, End, Await
  <2>2. ASSUME call[t] = "activate_all"
        PROVE  \E n \in 1..Len(installed) : installed[n] \notin activated /\ UpTo(n)
    <3>1. on[t] \notin activated
      BY <2>1 DEF Alone
    <3>2. \E n \in 1..Len(installed) : on[t] = installed[n] /\ UpTo(n)
      BY <2>1, <2>2 DEF Alone
    <3> QED
      BY <3>1, <3>2
  <2>3. call[t] = "activate_all" =>
           \E n \in 1..Len(installed') : installed'[n] \notin activated' /\ UpTo(n)'
    BY <2>1, <2>2 DEF UpTo
  <2> QED
    BY <2>1, <2>3 DEF Alone, Installed
<1>11. CASE PluginDeactivated(t)
  <2>1. /\ doing[t] = "deactivating" /\ activated' = activated \ {on[t]}
        /\ installed' = installed /\ call' = call /\ DeactivateNext(t, todo[t], activated')
    BY <1>11 DEF PluginDeactivated, Discard
  <2>2. \/ doing'[t] \in {"idle", "raised"}
        \/ doing'[t] = "deactivating" /\ on'[t] \in activated'
    BY <2>1, DeactivatingOne
  <2>3. ASSUME call[t] = "deactivate_all"
        PROVE  /\ doing'[t] = "idle" => activated' = {}
               /\ doing'[t] = "deactivating" =>
                     activated' \subseteq ToSet(todo'[t]) \cup {on'[t]}
    <3>1. activated' \subseteq ToSet(todo[t])
      BY <2>1, <2>3 DEF Alone
    <3> QED
      BY <1>1, <2>1, <3>1, Deactivating
  <2> QED
    BY <2>1, <2>2, <2>3 DEF Alone, Installed
<1>12. CASE PluginDeactivationFails(t)
  <2>1. /\ doing[t] = "deactivating" /\ doing'[t] = "raised"
        /\ activated' = activated \ {on[t]} /\ UNCHANGED <<installed, call>>
    BY <1>1, <1>12 DEF PluginDeactivationFails, Discard, End, Await
  <2> QED
    BY <2>1 DEF Alone, Installed
<1> QED
  BY <1>2, <1>3, <1>4, <1>5, <1>7, <1>8, <1>9, <1>10, <1>11, <1>12 DEF Request, Resume

LEMMA LoneInvariant ==
    ASSUME NEW t, Tasks = {t}
    PROVE  Spec => [](TypeOK /\ Alone(t))
<1>1. Init => TypeOK /\ Alone(t)
  BY LoaderTypesInit DEF Init, Alone, Installed
<1>2. TypeOK /\ Alone(t) /\ UNCHANGED vars => (TypeOK /\ Alone(t))'
  BY DEF vars, TypeOK, Alone, Installed, IsRest, UpTo
<1>3. TypeOK /\ Alone(t) /\ [Next]_(vars) => (TypeOK /\ Alone(t))'
  BY <1>2, LoaderTypeStep, AloneStep DEF Next
<1> QED
  BY <1>1, <1>3, PTL DEF Spec

\* A loader that one task uses: what is active is installed, no call reaches a
\* plugin in a state its contract does not allow, and activate_all() and
\* deactivate_all() leave what they should, returned or raised, whatever was
\* installed, uninstalled, activated and deactivated before.
THEOREM LoneLoader == ASSUME NEW t, Tasks = {t} PROVE Spec => []LoaderInv
<1>1. TypeOK /\ Alone(t) => ActiveIsInstalled /\ CallsMatchState
  BY DEF Alone, ActiveIsInstalled, CallsMatchState
<1>2. TypeOK /\ Alone(t) => AllOutcomes
  BY DEF Alone, UpTo, AllOutcomes
<1>3. TypeOK /\ Alone(t) => LoaderInv
  BY <1>1, <1>2 DEF LoaderInv
<1> QED
  BY <1>3, LoneInvariant, PTL
=============================================================================
