--------------------------- MODULE RegistryProofs ---------------------------
(***************************************************************************)
(* Proofs about Registry and CapabilityRegistry, for any threads, keys,    *)
(* values and observers: the changes explain the items, an observer is     *)
(* told of each change once and of each thread's changes in their order, a *)
(* CapabilityRegistry is a Registry, and set_status() takes back only what *)
(* was committed between its two steps.                                    *)
(***************************************************************************)
EXTENDS CapabilityRegistry, FiniteSets, SequenceTheorems, TLAPS

-----------------------------------------------------------------------------
(***************************************************************************)
(* Lists.                                                                  *)
(***************************************************************************)

\* What is left of a list after its n-th element.
LEMMA RestOfSeq ==
    ASSUME NEW S, NEW q \in Seq(S), NEW n \in 1..Len(q)
    PROVE  LET r == SubSeq(q, n + 1, Len(q))
           IN  /\ r \in Seq(S) /\ Len(r) = Len(q) - n
               /\ \A i \in 1..(Len(q) - n) : r[i] = q[n + i]
<1> DEFINE r == SubSeq(q, n + 1, Len(q))
<1>1. Len(q) \in Nat /\ n \in Nat /\ n =< Len(q) /\ \A i \in 1..Len(q) : q[i] \in S
  OBVIOUS
<1>2. /\ r \in Seq(S) /\ Len(r) = IF n + 1 =< Len(q) THEN Len(q) - (n + 1) + 1 ELSE 0
      /\ \A i \in 1..(Len(q) - (n + 1) + 1) : r[i] = q[(n + 1) + i - 1]
  <2>1. \A i \in (n + 1)..Len(q) : q[i] \in S
    BY <1>1
  <2> QED
    BY <1>1, <2>1, SubSeqProperties
<1>3. Len(q) - (n + 1) + 1 = Len(q) - n
  BY <1>1
<1>4. \A i \in 1..(Len(q) - n) : (n + 1) + i - 1 = n + i
  BY <1>1
<1>5. ASSUME NEW i \in 1..(Len(q) - n) PROVE r[i] = q[n + i]
  BY <1>2, <1>3, <1>4
<1>6. Len(r) = Len(q) - n
  <2>1. n + 1 =< Len(q) \/ n = Len(q)
    BY <1>1
  <2>2. n = Len(q) => Len(q) - n = 0 /\ ~(n + 1 =< Len(q))
    BY <1>1
  <2> QED
    BY <1>2, <1>3, <2>1, <2>2
<1> QED
  BY <1>2, <1>5, <1>6

\* A new element at the end of a list without repetitions.
LEMMA AppendOnce ==
    ASSUME NEW S, NEW s \in Seq(S), IsInjective(s), NEW p \in S, p \notin ToSet(s)
    PROVE  /\ Append(s, p) \in Seq(S) /\ IsInjective(Append(s, p))
           /\ ToSet(Append(s, p)) = ToSet(s) \cup {p}
<1> DEFINE r == Append(s, p)
<1>1. PICK n \in Nat : n = Len(s) /\ DOMAIN s = 1..n
  BY LenProperties
<1>2. /\ r \in Seq(S) /\ DOMAIN r = 1..(n + 1)
      /\ \A i \in 1..n : r[i] = s[i]
      /\ r[n + 1] = p
  BY <1>1, AppendProperties, LenProperties
<1> HIDE DEF r
<1>3. \A i \in 1..n : s[i] # p
  BY <1>1 DEF ToSet
<1>4. \A i \in 1..(n + 1) : i \in 1..n \/ i = n + 1
  BY <1>1
<1>5. IsInjective(r)
  BY <1>1, <1>2, <1>3, <1>4 DEF IsInjective
<1>6. \A x \in ToSet(r) : x \in ToSet(s) \cup {p}
  BY <1>1, <1>2, <1>4 DEF ToSet
<1>7. \A i \in 1..n : i \in 1..(n + 1) /\ n + 1 \in 1..(n + 1)
  OBVIOUS
<1>8. \A x \in ToSet(s) : x \in ToSet(r)
  BY <1>1, <1>2, <1>7 DEF ToSet
<1>9. p \in ToSet(r)
  <2>1. n + 1 \in 1..(n + 1)
    OBVIOUS
  <2> QED
    BY <1>2, <2>1 DEF ToSet
<1> QED
  BY <1>2, <1>5, <1>6, <1>8, <1>9 DEF r

\* Without the only occurrence of e, a list without repetitions still has all
\* its other elements, each once.
LEMMA RemovedOnce ==
    ASSUME NEW S, NEW s \in Seq(S), IsInjective(s), NEW e
    PROVE  LET r == RemoveFirst(s, e)
           IN  /\ r \in Seq(S) /\ IsInjective(r)
               /\ ToSet(r) = ToSet(s) \ {e}
<1> DEFINE r == RemoveFirst(s, e)
           I == {i \in 1..Len(s) : s[i] = e}
<1>1. Len(s) \in Nat /\ DOMAIN s = 1..Len(s) /\ \A i \in 1..Len(s) : s[i] \in S
  OBVIOUS
<1>2. CASE I = {}
  <2>1. r = s
    BY <1>2 DEF RemoveFirst
  <2>2. e \notin ToSet(s)
    BY <1>1, <1>2 DEF ToSet
  <2> QED
    BY <2>1, <2>2
<1>3. CASE I # {}
  <2>1. PICK k \in 1..Len(s) : s[k] = e
    BY <1>3
  <2>2. I = {k}
    BY <1>1, <2>1 DEF IsInjective
  <2>3. SelectInSeq(s, LAMBDA v : v = e) = k
    <3>1. k =< k
      BY <1>1
    <3>2. Min({k}) = k
      BY <3>1 DEF Min
    <3> QED
      BY <2>2, <3>2 DEF SelectInSeq
  <2> DEFINE a == SubSeq(s, 1, k - 1)
             b == SubSeq(s, k + 1, Len(s))
  <2>4. r = a \o b
    BY <2>1, <2>3 DEF RemoveFirst, RemoveAt
  <2>5. a \in Seq(S) /\ Len(a) = k - 1 /\ \A i \in 1..(k - 1) : a[i] = s[i]
    <3>1. \A i \in 1..(k - 1) : s[i] \in S
      BY <1>1
    <3>2. 1 \in Int /\ k - 1 \in Int /\ (k - 1) - 1 + 1 = k - 1 /\ \A i \in 1..(k - 1) : 1 + i - 1 = i
      BY <1>1
    <3>3. /\ a \in Seq(S) /\ Len(a) = IF 1 =< k - 1 THEN (k - 1) - 1 + 1 ELSE 0
          /\ \A i \in 1..((k - 1) - 1 + 1) : a[i] = s[1 + i - 1]
      BY <3>1, <3>2, SubSeqProperties
    <3>4. 1 =< k - 1 \/ k - 1 = 0
      BY <1>1
    <3>5. k - 1 = 0 => ~(1 =< k - 1)
      BY <1>1
    <3> QED
      BY <3>2, <3>3, <3>4, <3>5
  <2>6. /\ b \in Seq(S) /\ Len(b) = Len(s) - k
        /\ \A i \in 1..(Len(s) - k) : b[i] = s[k + i]
    BY <1>1, RestOfSeq
  <2> HIDE DEF a, b, r
  <2>7. /\ r \in Seq(S) /\ Len(r) = (k - 1) + (Len(s) - k)
        /\ \A i \in 1..((k - 1) + (Len(s) - k)) : r[i] = IF i =< k - 1 THEN a[i] ELSE b[i - (k - 1)]
    <3>1. /\ a \o b \in Seq(S) /\ Len(a \o b) = Len(a) + Len(b)
          /\ \A i \in 1..(Len(a) + Len(b)) :
                (a \o b)[i] = IF i =< Len(a) THEN a[i] ELSE b[i - Len(a)]
      BY <2>5, <2>6, ConcatProperties
    <3>2. Len(a) = k - 1 /\ Len(b) = Len(s) - k
      BY <2>5, <2>6
    <3> QED
      BY <2>4, <3>1, <3>2, Zenon
  <2>8. Len(r) = Len(s) - 1 /\ DOMAIN r = 1..(Len(s) - 1)
    <3>1. (k - 1) + (Len(s) - k) = Len(s) - 1
      BY <1>1
    <3> QED
      BY <2>7, <3>1, LenProperties
  <2>9. ASSUME NEW i \in 1..(Len(s) - 1) PROVE r[i] = IF i < k THEN s[i] ELSE s[i + 1]
    <3>1. i \in 1..((k - 1) + (Len(s) - k))
      BY <1>1
    <3>2. CASE i < k
      <4>1. i =< k - 1 /\ i \in 1..(k - 1)
        BY <1>1, <3>2
      <4> QED
        BY <2>5, <2>7, <3>1, <3>2, <4>1
    <3>3. CASE ~(i < k)
      <4>1. ~(i =< k - 1) /\ i - (k - 1) \in 1..(Len(s) - k) /\ k + (i - (k - 1)) = i + 1
        BY <1>1, <3>3
      <4> QED
        BY <2>6, <2>7, <3>1, <3>3, <4>1
    <3> QED
      BY <3>2, <3>3
  <2>10. IsInjective(r)
    <3> SUFFICES ASSUME NEW i \in 1..(Len(s) - 1), NEW j \in 1..(Len(s) - 1), r[i] = r[j]
                 PROVE  i = j
      BY <2>8 DEF IsInjective
    <3> DEFINE At(n) == IF n < k THEN n ELSE n + 1
    <3>1. At(i) \in 1..Len(s) /\ At(j) \in 1..Len(s) /\ s[At(i)] = s[At(j)]
      BY <1>1, <2>9
    <3>2. At(i) = At(j)
      BY <1>1, <3>1 DEF IsInjective
    <3> QED
      BY <3>2
  <2>11. ASSUME NEW x \in ToSet(r) PROVE x \in ToSet(s) \ {e}
    <3>1. PICK i \in 1..(Len(s) - 1) : x = r[i]
      BY <2>8 DEF ToSet
    <3>2. PICK j \in 1..Len(s) : x = s[j] /\ j # k
      <4>1. CASE i < k
        BY <1>1, <2>9, <3>1, <4>1
      <4>2. CASE ~(i < k)
        BY <1>1, <2>9, <3>1, <4>2
      <4> QED
        BY <4>1, <4>2
    <3> QED
      BY <1>1, <2>1, <3>2 DEF IsInjective, ToSet
  <2>12. ASSUME NEW x \in ToSet(s) \ {e} PROVE x \in ToSet(r)
    <3>1. PICK j \in 1..Len(s) : x = s[j] /\ j # k
      BY <1>1, <2>1 DEF ToSet
    <3>2. \E i \in 1..(Len(s) - 1) : r[i] = x
      <4>1. CASE j < k
        <5>1. j \in 1..(Len(s) - 1)
          BY <4>1
        <5> QED
          BY <2>9, <3>1, <4>1, <5>1
      <4>2. CASE j > k
        <5>1. j - 1 \in 1..(Len(s) - 1) /\ ~(j - 1 < k) /\ (j - 1) + 1 = j
          BY <4>2
        <5> QED
          BY <2>9, <3>1, <5>1
      <4> QED
        BY <3>1, <4>1, <4>2
    <3> QED
      BY <2>8, <3>2 DEF ToSet
  <2> QED
    BY <2>7, <2>10, <2>11, <2>12 DEF r
<1> QED
  BY <1>2, <1>3

\* A list without its last element.
LEMMA FrontOfSeq ==
    ASSUME NEW S, NEW q \in Seq(S), q # <<>>
    PROVE  /\ Front(q) \in Seq(S) /\ Len(Front(q)) = Len(q) - 1
           /\ \A i \in 1..(Len(q) - 1) : Front(q)[i] = q[i]
<1> DEFINE r == SubSeq(q, 1, Len(q) - 1)
<1>1. Len(q) \in Nat /\ Len(q) >= 1 /\ \A i \in 1..Len(q) : q[i] \in S
  OBVIOUS
<1>2. /\ r \in Seq(S) /\ Len(r) = IF 1 =< Len(q) - 1 THEN (Len(q) - 1) - 1 + 1 ELSE 0
      /\ \A i \in 1..((Len(q) - 1) - 1 + 1) : r[i] = q[1 + i - 1]
  <2>1. \A i \in 1..(Len(q) - 1) : q[i] \in S
    BY <1>1
  <2>2. 1 \in Int /\ Len(q) - 1 \in Int
    BY <1>1
  <2> QED
    BY <2>1, <2>2, SubSeqProperties
<1>3. (Len(q) - 1) - 1 + 1 = Len(q) - 1
  BY <1>1
<1>4. Len(r) = Len(q) - 1
  <2>1. \A n \in Nat : n >= 1 => (n - 1 = 0 /\ ~(1 =< n - 1)) \/ 1 =< n - 1
    OBVIOUS
  <2> QED
    BY <1>1, <1>2, <1>3, <2>1
<1>5. ASSUME NEW i \in 1..(Len(q) - 1) PROVE r[i] = q[i]
  <2>1. 1 + i - 1 = i
    BY <1>1
  <2> QED
    BY <1>2, <1>3, <2>1
<1> QED
  BY <1>2, <1>4, <1>5 DEF Front

-----------------------------------------------------------------------------
(***************************************************************************)
(* What the steps do to the log and to the announcements.                  *)
(***************************************************************************)

\* One entry is added to the log.
Grown ==
    /\ log' \in Seq(Entries) /\ Len(log') = Len(log) + 1
    /\ \A id \in 1..Len(log) : log'[id] = log[id]

\* Announcement a begins in thread t.
Begins(t, a) ==
    /\ announcing' \in [Threads -> Seq(Announcements)]
    /\ \A u \in Threads : u # t => announcing'[u] = announcing[u]
    /\ Len(announcing'[t]) = Len(announcing[t]) + 1
    /\ \A i \in 1..Len(announcing[t]) : announcing'[t][i] = announcing[t][i]
    /\ announcing'[t][Len(announcing[t]) + 1] = a

\* The innermost announcement of t becomes a.
GoesOn(t, a) ==
    /\ announcing' \in [Threads -> Seq(Announcements)]
    /\ \A u \in Threads : u # t => announcing'[u] = announcing[u]
    /\ Len(announcing'[t]) = Len(announcing[t]) /\ Len(announcing[t]) >= 1
    /\ \A i \in 1..(Len(announcing[t]) - 1) : announcing'[t][i] = announcing[t][i]
    /\ announcing'[t][Len(announcing[t])] = a

\* The innermost announcement of t ends.
Ends(t) ==
    /\ announcing' \in [Threads -> Seq(Announcements)]
    /\ \A u \in Threads : u # t => announcing'[u] = announcing[u]
    /\ Len(announcing'[t]) = Len(announcing[t]) - 1 /\ Len(announcing[t]) >= 1
    /\ \A i \in 1..(Len(announcing[t]) - 1) : announcing'[t][i] = announcing[t][i]

LEMMA StackTyped ==
    ASSUME TypeOK, NEW t \in Threads
    PROVE  /\ announcing[t] \in Seq(Announcements) /\ Len(announcing[t]) \in Nat
           /\ DOMAIN announcing[t] = 1..Len(announcing[t])
           /\ \A i \in 1..Len(announcing[t]) : announcing[t][i] \in Announcements
           /\ Announcing(t) <=> Len(announcing[t]) >= 1
           /\ Len(log) \in Nat /\ DOMAIN log = 1..Len(log)
           /\ \A id \in 1..Len(log) : log[id] \in Entries
           /\ \A i \in 1..Len(announcing[t]) :
                 /\ announcing[t][i].id \in 1..Len(log)
                 /\ log[announcing[t][i].id].event \in Events
                 /\ announcing[t][i].todo \in Seq(Observers)
                 /\ IsInjective(announcing[t][i].todo)
                 /\ announcing[t][i].at \in {"committed", "copied", "calling"}
                 /\ announcing[t][i].at = "committed" => announcing[t][i].todo = <<>>
<1>1. /\ announcing[t] \in Seq(Announcements)
      /\ log \in Seq(Entries)
  BY DEF TypeOK
<1>2. Announcing(t) <=> Len(announcing[t]) >= 1
  BY <1>1 DEF Announcing
<1>3. /\ Len(announcing[t]) \in Nat /\ DOMAIN announcing[t] = 1..Len(announcing[t])
      /\ \A i \in 1..Len(announcing[t]) : announcing[t][i] \in Announcements
      /\ Len(log) \in Nat /\ DOMAIN log = 1..Len(log)
      /\ \A id \in 1..Len(log) : log[id] \in Entries
  BY <1>1, LenProperties
<1>4. ASSUME NEW i \in 1..Len(announcing[t])
      PROVE  /\ announcing[t][i].id \in 1..Len(log)
             /\ log[announcing[t][i].id].event \in Events
             /\ IsInjective(announcing[t][i].todo)
             /\ announcing[t][i].at = "committed" => announcing[t][i].todo = <<>>
  BY <1>3 DEF TypeOK
<1>5. ASSUME NEW i \in 1..Len(announcing[t])
      PROVE  /\ announcing[t][i].todo \in Seq(Observers)
             /\ announcing[t][i].at \in {"committed", "copied", "calling"}
  BY <1>3 DEF Announcements
<1> QED
  BY <1>1, <1>2, <1>3, <1>4, <1>5

LEMMA LogGrows ==
    ASSUME TypeOK, NEW e \in Entries, log' = Append(log, e)
    PROVE  Grown /\ log'[Len(log) + 1] = e
<1>1. log \in Seq(Entries)
  BY DEF TypeOK
<1> QED
  BY <1>1, AppendProperties DEF Grown

\* The change that Commit() adds to the log.
Committed(t, event, k, v) ==
    [event |-> event, key |-> k, value |-> v, by |-> t, nested |-> InObserver(t)]

LEMMA CommitFacts ==
    ASSUME TypeOK, NEW t \in Threads, NEW event \in Events, NEW k \in Keys, NEW v \in Values,
           Commit(t, event, k, v)
    PROVE  /\ Grown /\ log'[Len(log) + 1] = Committed(t, event, k, v)
           /\ Begins(t, [id |-> Len(log) + 1, todo |-> <<>>, at |-> "committed"])
<1>1. InObserver(t) \in BOOLEAN
  BY DEF InObserver, Announcing
<1>2. Committed(t, event, k, v) \in Entries
  BY <1>1 DEF Committed, Entries
<1>3. log' = Append(log, Committed(t, event, k, v))
  BY DEF Commit, Committed
<1>4. Grown /\ log'[Len(log) + 1] = Committed(t, event, k, v)
  BY <1>2, <1>3, LogGrows
<1> DEFINE a == [id |-> Len(log) + 1, todo |-> <<>>, at |-> "committed"]
<1>5. a \in Announcements
  BY StackTyped DEF Announcements
<1>6. /\ announcing[t] \in Seq(Announcements)
      /\ announcing \in [Threads -> Seq(Announcements)]
  BY DEF TypeOK
<1>7. announcing' = [announcing EXCEPT ![t] = Append(@, a)]
  BY DEF Commit
<1> HIDE DEF a
<1>8. /\ Append(announcing[t], a) \in Seq(Announcements)
      /\ Len(Append(announcing[t], a)) = Len(announcing[t]) + 1
      /\ \A i \in 1..Len(announcing[t]) : Append(announcing[t], a)[i] = announcing[t][i]
      /\ Append(announcing[t], a)[Len(announcing[t]) + 1] = a
  BY <1>5, <1>6, AppendProperties
<1>9. /\ announcing'[t] = Append(announcing[t], a)
      /\ \A u \in Threads : u # t => announcing'[u] = announcing[u]
      /\ announcing' \in [Threads -> Seq(Announcements)]
  BY <1>6, <1>7, <1>8
<1>10. Begins(t, a)
  BY <1>8, <1>9 DEF Begins
<1> QED
  BY <1>4, <1>10 DEF a

LEMMA BecomesFacts ==
    ASSUME TypeOK, NEW t \in Threads, Announcing(t), NEW a \in Announcements, Becomes(t, a)
    PROVE  GoesOn(t, a)
<1> DEFINE n == Len(announcing[t])
<1>1. /\ announcing[t] \in Seq(Announcements)
      /\ announcing \in [Threads -> Seq(Announcements)]
      /\ n \in 1..Len(announcing[t]) /\ n >= 1 /\ n \in Nat
  BY StackTyped DEF TypeOK
<1>2. announcing'[t] = [announcing[t] EXCEPT ![n] = a]
  BY <1>1 DEF Becomes
<1>3. \A u \in Threads : u # t => announcing'[u] = announcing[u]
  BY <1>1 DEF Becomes
<1>4. /\ announcing'[t] \in Seq(Announcements) /\ Len(announcing'[t]) = n
      /\ \A i \in 1..n : announcing'[t][i] = IF i = n THEN a ELSE announcing[t][i]
  BY <1>1, <1>2, ExceptSeq
<1>5. announcing' = [announcing EXCEPT ![t] = announcing'[t]]
  BY <1>1, <1>2 DEF Becomes
<1>6. announcing' \in [Threads -> Seq(Announcements)]
  BY <1>1, <1>4, <1>5
<1>7. \A i \in 1..(n - 1) : i \in 1..n /\ i # n
  BY <1>1
<1>8. announcing'[t][n] = a
  BY <1>1, <1>4
<1> QED
  BY <1>1, <1>3, <1>4, <1>6, <1>7, <1>8 DEF GoesOn

LEMMA AnnouncedFacts ==
    ASSUME TypeOK, NEW t \in Threads, Announced(t)
    PROVE  /\ Ends(t)
           /\ announcing[t][Len(announcing[t])].at # "committed"
           /\ announcing[t][Len(announcing[t])].todo = <<>>
<1>1. /\ announcing[t] \in Seq(Announcements) /\ announcing[t] # <<>>
      /\ announcing \in [Threads -> Seq(Announcements)]
      /\ Len(announcing[t]) >= 1
  BY StackTyped DEF TypeOK, Announced, Announcing
<1>2. /\ announcing'[t] = Front(announcing[t])
      /\ \A u \in Threads : u # t => announcing'[u] = announcing[u]
  BY <1>1 DEF Announced
<1>3. /\ Front(announcing[t]) \in Seq(Announcements)
      /\ Len(Front(announcing[t])) = Len(announcing[t]) - 1
      /\ \A i \in 1..(Len(announcing[t]) - 1) : Front(announcing[t])[i] = announcing[t][i]
  BY <1>1, FrontOfSeq
<1>4. announcing' \in [Threads -> Seq(Announcements)]
  BY <1>1, <1>3 DEF Announced
<1> QED
  BY <1>1, <1>2, <1>3, <1>4 DEF Ends, Announced, Last

-----------------------------------------------------------------------------
(***************************************************************************)
(* The changes explain the items.                                          *)
(***************************************************************************)

\* The definitions of Registry for any log L.
TouchesIn(L, id, k) == L[id].event = "cleared" \/ L[id].key = k

LeavesIn(L, id) == IF L[id].event \in {"registered", "replaced"} THEN L[id].value ELSE NoValue

IsAfterIn(L, n, k, v) ==
    \/ v = NoValue /\ \A i \in 1..n : ~TouchesIn(L, i, k)
    \/ \E i \in 1..n :
          /\ TouchesIn(L, i, k)
          /\ v = LeavesIn(L, i)
          /\ \A j \in (i + 1)..n : ~TouchesIn(L, j, k)

\* It is true to say of key k, which was was, what entry c says.
TrueOf(c, was) ==
    \/ c.event = "registered" /\ was = NoValue
    \/ c.event = "replaced" /\ was # NoValue
    \/ c.event = "unregistered" /\ was = c.value

ExplainedBy(L, it) ==
    /\ \A k \in Keys : IsAfterIn(L, Len(L), k, it[k])
    /\ \A id \in 1..Len(L) : L[id].event \in Events =>
          \E was \in Values \cup {NoValue} :
              IsAfterIn(L, id - 1, L[id].key, was) /\ TrueOf(L[id], was)

LEMMA LogOf ==
    ASSUME NEW n, NEW k, NEW v
    PROVE  /\ IsAfter(n, k, v) <=> IsAfterIn(log, n, k, v)
           /\ IsAfter(n, k, v)' <=> IsAfterIn(log', n, k, v)
BY DEF IsAfter, IsAfterIn, Touches, TouchesIn, Leaves, LeavesIn

\* A key was after n changes what the log says, and later ones are no matter.
LEMMA PastStands ==
    ASSUME NEW L, NEW M, NEW m \in Nat, \A i \in 1..m : M[i] = L[i],
           NEW n \in 0..m, NEW k, NEW v
    PROVE  IsAfterIn(M, n, k, v) <=> IsAfterIn(L, n, k, v)
<1>1. \A i \in 1..n : i \in 1..m
  OBVIOUS
<1>2. \A i \in 1..n : /\ TouchesIn(M, i, k) <=> TouchesIn(L, i, k)
                      /\ LeavesIn(M, i) = LeavesIn(L, i)
  BY <1>1 DEF TouchesIn, LeavesIn
<1>3. \A i \in 1..n : \A j \in (i + 1)..n : j \in 1..n
  OBVIOUS
<1> QED
  BY <1>2, <1>3 DEF IsAfterIn

\* What no change from the m-th on touches is as it was.
LEMMA StandsUntouched ==
    ASSUME NEW L, NEW m \in Nat, NEW n \in Nat, m =< n, NEW k, NEW v,
           IsAfterIn(L, m, k, v), \A j \in (m + 1)..n : ~TouchesIn(L, j, k)
    PROVE  IsAfterIn(L, n, k, v)
<1>1. \A i \in 1..n : i \in 1..m \/ i \in (m + 1)..n
  OBVIOUS
<1>2. CASE v = NoValue /\ \A i \in 1..m : ~TouchesIn(L, i, k)
  BY <1>1, <1>2 DEF IsAfterIn
<1>3. CASE \E i \in 1..m : TouchesIn(L, i, k) /\ v = LeavesIn(L, i)
                           /\ \A j \in (i + 1)..m : ~TouchesIn(L, j, k)
  <2>1. PICK i \in 1..m : TouchesIn(L, i, k) /\ v = LeavesIn(L, i)
                          /\ \A j \in (i + 1)..m : ~TouchesIn(L, j, k)
    BY <1>3
  <2>2. i \in 1..n /\ \A j \in (i + 1)..n : j \in (i + 1)..m \/ j \in (m + 1)..n
    OBVIOUS
  <2> QED
    BY <2>1, <2>2 DEF IsAfterIn
<1> QED
  BY <1>2, <1>3 DEF IsAfterIn

\* A change that touches a key leaves it so.
LEMMA LeavesSo ==
    ASSUME NEW L, NEW n \in Nat \ {0}, NEW k, TouchesIn(L, n, k)
    PROVE  IsAfterIn(L, n, k, LeavesIn(L, n))
<1>1. n \in 1..n /\ \A j \in (n + 1)..n : FALSE
  OBVIOUS
<1> QED
  BY <1>1 DEF IsAfterIn

\* A key is one thing after n changes.
LEMMA IsOne ==
    ASSUME NEW L, NEW n \in Nat, NEW k, NEW v, NEW w,
           IsAfterIn(L, n, k, v), IsAfterIn(L, n, k, w)
    PROVE  v = w
<1>1. CASE \A i \in 1..n : ~TouchesIn(L, i, k)
  BY <1>1 DEF IsAfterIn
<1>2. CASE ~(\A i \in 1..n : ~TouchesIn(L, i, k))
  <2>1. PICK i \in 1..n : /\ TouchesIn(L, i, k) /\ v = LeavesIn(L, i)
                          /\ \A j \in (i + 1)..n : ~TouchesIn(L, j, k)
    BY <1>2 DEF IsAfterIn
  <2>2. PICK j \in 1..n : /\ TouchesIn(L, j, k) /\ w = LeavesIn(L, j)
                          /\ \A h \in (j + 1)..n : ~TouchesIn(L, h, k)
    BY <1>2 DEF IsAfterIn
  <2>3. i < j \/ j < i \/ i = j
    OBVIOUS
  <2>4. ~(i < j)
    <3>1. i < j => j \in (i + 1)..n
      OBVIOUS
    <3> QED
      BY <2>1, <2>2, <3>1
  <2>5. ~(j < i)
    <3>1. j < i => i \in (j + 1)..n
      OBVIOUS
    <3> QED
      BY <2>1, <2>2, <3>1
  <2> QED
    BY <2>1, <2>2, <2>3, <2>4, <2>5
<1> QED
  BY <1>1, <1>2

\* A log that explains the items, with an entry that touches what has changed
\* and says truly what it did, explains the items there are then.
LEMMA ExplainsNext ==
    ASSUME NEW L \in Seq(Entries), NEW M \in Seq(Entries), NEW it, NEW jt,
           Len(M) = Len(L) + 1, \A i \in 1..Len(L) : M[i] = L[i],
           ExplainedBy(L, it),
           \A k \in Keys : IF TouchesIn(M, Len(L) + 1, k) THEN jt[k] = LeavesIn(M, Len(L) + 1)
                                                          ELSE jt[k] = it[k],
           M[Len(L) + 1].event \in Events =>
               /\ M[Len(L) + 1].key \in Keys
               /\ it[M[Len(L) + 1].key] \in Values \cup {NoValue}
               /\ TrueOf(M[Len(L) + 1], it[M[Len(L) + 1].key])
    PROVE  ExplainedBy(M, jt)
<1> DEFINE n == Len(L)
<1>1. n \in Nat /\ n + 1 \in Nat \ {0} /\ n =< n + 1 /\ n \in 0..n
  OBVIOUS
<1>2. ASSUME NEW k \in Keys PROVE IsAfterIn(M, n, k, it[k])
  BY <1>1, PastStands DEF ExplainedBy
<1>3. ASSUME NEW k \in Keys PROVE IsAfterIn(M, n + 1, k, jt[k])
  <2>1. CASE TouchesIn(M, n + 1, k)
    BY <1>1, <2>1, LeavesSo
  <2>2. CASE ~TouchesIn(M, n + 1, k)
    <3>1. \A j \in (n + 1)..(n + 1) : j = n + 1
      BY <1>1
    <3>2. IsAfterIn(M, n + 1, k, it[k])
      BY <1>1, <1>2, <2>2, <3>1, StandsUntouched
    <3> QED
      BY <2>2, <3>2
  <2> QED
    BY <2>1, <2>2
<1>4. ASSUME NEW id \in 1..(n + 1), M[id].event \in Events
      PROVE  \E was \in Values \cup {NoValue} :
                 IsAfterIn(M, id - 1, M[id].key, was) /\ TrueOf(M[id], was)
  <2>1. CASE id = n + 1
    <3>1. id - 1 = n
      BY <1>1, <2>1
    <3> QED
      BY <1>2, <1>4, <2>1, <3>1
  <2>2. CASE id \in 1..n
    <3>1. M[id] = L[id] /\ id - 1 \in 0..n
      BY <1>1, <2>2
    <3>2. PICK was \in Values \cup {NoValue} :
              IsAfterIn(L, id - 1, L[id].key, was) /\ TrueOf(L[id], was)
      BY <1>4, <2>2, <3>1 DEF ExplainedBy
    <3>3. IsAfterIn(M, id - 1, L[id].key, was)
      BY <1>1, <3>1, <3>2, PastStands
    <3> QED
      BY <3>1, <3>2, <3>3
  <2> QED
    BY <1>1, <2>1, <2>2
<1> QED
  BY <1>3, <1>4 DEF ExplainedBy

LEMMA ExplainsIs ==
    /\ log \in Seq(Entries) => (LogExplainsItems <=> ExplainedBy(log, items))
    /\ log' \in Seq(Entries) => (LogExplainsItems' <=> ExplainedBy(log', items'))
<1>1. /\ log \in Seq(Entries) => DOMAIN log = 1..Len(log)
      /\ log' \in Seq(Entries) => DOMAIN log' = 1..Len(log')
  BY LenProperties
<1>2. /\ \A n, k, v : IsAfter(n, k, v) <=> IsAfterIn(log, n, k, v)
      /\ \A n, k, v : IsAfter(n, k, v)' <=> IsAfterIn(log', n, k, v)
  BY LogOf
<1>3. \A id : SaysTruly(id) <=> \E was \in Values \cup {NoValue} :
          IsAfterIn(log, id - 1, log[id].key, was) /\ TrueOf(log[id], was)
  BY <1>2 DEF SaysTruly, TrueOf
<1>4. \A id : SaysTruly(id)' <=> \E was \in Values \cup {NoValue} :
          IsAfterIn(log', id - 1, log'[id].key, was) /\ TrueOf(log'[id], was)
  BY DEF SaysTruly, TrueOf, IsAfter, IsAfterIn, Touches, TouchesIn, Leaves, LeavesIn
<1>5. log \in Seq(Entries) => (LogExplainsItems <=> ExplainedBy(log, items))
  <2>1. \A k \in Keys : IsAfter(Len(log), k, items[k]) <=> IsAfterIn(log, Len(log), k, items[k])
    BY <1>2
  <2> QED
    BY <1>1, <1>3, <2>1 DEF LogExplainsItems, ExplainedBy
<1>6. log' \in Seq(Entries) => (LogExplainsItems' <=> ExplainedBy(log', items'))
  <2>1. \A k \in Keys : IsAfter(Len(log), k, items[k])'
                            <=> IsAfterIn(log', Len(log'), k, items'[k])
    BY DEF IsAfter, IsAfterIn, Touches, TouchesIn, Leaves, LeavesIn
  <2>2. LogExplainsItems' <=>
            /\ \A k \in Keys : IsAfter(Len(log), k, items[k])'
            /\ \A id \in DOMAIN log' : log'[id].event \in Events => SaysTruly(id)'
    BY DEF LogExplainsItems
  <2> QED
    BY <1>1, <1>4, <2>1, <2>2 DEF ExplainedBy
<1> QED
  BY <1>5, <1>6

\* Every change is entered as what it is, whichever thread makes it.
LEMMA ExplainsStep ==
    ASSUME TypeOK, LogExplainsItems, NEW t \in Threads,
           Register(t) \/ Unregister(t) \/ Clear(t)
    PROVE  LogExplainsItems'
<1> DEFINE n == Len(log)
<1>1. log \in Seq(Entries) /\ items \in [Keys -> Values \cup {NoValue}] /\ n \in Nat
  BY StackTyped DEF TypeOK
<1>2. ExplainedBy(log, items)
  BY <1>1, ExplainsIs
<1>3. NoValue \notin Values
  BY RegistryAssumption
<1>4. CASE Register(t)
  <2>1. PICK k \in Keys, v \in Values :
            /\ items' = [items EXCEPT ![k] = v]
            /\ Commit(t, IF items[k] = NoValue THEN "registered" ELSE "replaced", k, v)
    BY <1>4 DEF Register
  <2> DEFINE event == IF items[k] = NoValue THEN "registered" ELSE "replaced"
  <2>2. event \in Events /\ event \in {"registered", "replaced"}
    BY DEF Events
  <2>3. Grown /\ log'[n + 1] = Committed(t, event, k, v)
    BY <2>1, <2>2, CommitFacts
  <2>4. /\ log'[n + 1].event = event /\ log'[n + 1].key = k /\ log'[n + 1].value = v
    BY <2>3 DEF Committed
  <2>5. TrueOf(log'[n + 1], items[k])
    BY <2>4 DEF TrueOf
  <2>6. LeavesIn(log', n + 1) = v
    BY <2>2, <2>4 DEF LeavesIn
  <2>7. \A x \in Keys : TouchesIn(log', n + 1, x) <=> x = k
    BY <2>2, <2>4 DEF TouchesIn
  <2>8. \A x \in Keys : items'[x] = IF x = k THEN v ELSE items[x]
    BY <1>1, <2>1
  <2>9. log' \in Seq(Entries) /\ Len(log') = n + 1 /\ \A i \in 1..n : log'[i] = log[i]
    BY <2>3 DEF Grown
  <2> HIDE DEF event, n
  <2>10. ExplainedBy(log', items')
    BY <1>1, <1>2, <2>4, <2>5, <2>6, <2>7, <2>8, <2>9, ExplainsNext DEF n
  <2> QED
    BY <2>9, <2>10, ExplainsIs
<1>5. CASE Unregister(t)
  <2>1. PICK k \in Keys :
            /\ items[k] # NoValue
            /\ items' = [items EXCEPT ![k] = NoValue]
            /\ Commit(t, "unregistered", k, items[k])
    BY <1>5 DEF Unregister
  <2>2. items[k] \in Values /\ "unregistered" \in Events
    BY <1>1, <2>1 DEF Events
  <2>3. Grown /\ log'[n + 1] = Committed(t, "unregistered", k, items[k])
    BY <2>1, <2>2, CommitFacts
  <2>4. /\ log'[n + 1].event = "unregistered" /\ log'[n + 1].key = k
        /\ log'[n + 1].value = items[k]
    BY <2>3 DEF Committed
  <2>5. TrueOf(log'[n + 1], items[k])
    BY <2>4 DEF TrueOf
  <2>6. LeavesIn(log', n + 1) = NoValue
    BY <2>4 DEF LeavesIn
  <2>7. \A x \in Keys : TouchesIn(log', n + 1, x) <=> x = k
    BY <2>4 DEF TouchesIn
  <2>8. \A x \in Keys : items'[x] = IF x = k THEN NoValue ELSE items[x]
    BY <1>1, <2>1
  <2>9. log' \in Seq(Entries) /\ Len(log') = n + 1 /\ \A i \in 1..n : log'[i] = log[i]
    BY <2>3 DEF Grown
  <2> HIDE DEF n
  <2>10. ExplainedBy(log', items')
    BY <1>1, <1>2, <2>4, <2>5, <2>6, <2>7, <2>8, <2>9, ExplainsNext DEF n
  <2> QED
    BY <2>9, <2>10, ExplainsIs
<1>6. CASE Clear(t)
  <2> DEFINE e == [event |-> "cleared"]
  <2>1. e \in Entries /\ log' = Append(log, e) /\ items' = [k \in Keys |-> NoValue]
    BY <1>6 DEF Entries, Clear
  <2>2. Grown /\ log'[n + 1] = e
    BY <2>1, LogGrows
  <2>3. log'[n + 1].event = "cleared" /\ log'[n + 1].event \notin Events
    BY <2>2 DEF Events
  <2>4. LeavesIn(log', n + 1) = NoValue /\ \A x \in Keys : TouchesIn(log', n + 1, x)
    BY <2>3 DEF LeavesIn, TouchesIn
  <2>5. \A x \in Keys : items'[x] = NoValue
    BY <2>1
  <2>6. log' \in Seq(Entries) /\ Len(log') = n + 1 /\ \A i \in 1..n : log'[i] = log[i]
    BY <2>2 DEF Grown
  <2> HIDE DEF n
  <2>7. ExplainedBy(log', items')
    BY <1>1, <1>2, <2>3, <2>4, <2>5, <2>6, ExplainsNext DEF n
  <2> QED
    BY <2>6, <2>7, ExplainsIs
<1> QED
  BY <1>4, <1>5, <1>6

-----------------------------------------------------------------------------
(***************************************************************************)
(* The types.                                                              *)
(***************************************************************************)

\* What the types say of announcement a when the log is L.
FrameOK(L, a) ==
    /\ a.id \in 1..Len(L) /\ L[a.id].event \in Events
    /\ IsInjective(a.todo)
    /\ a.at = "committed" => a.todo = <<>>

FramesOK ==
    /\ announcing \in [Threads -> Seq(Announcements)]
    /\ \A t \in Threads : \A i \in 1..Len(announcing[t]) : FrameOK(log, announcing[t][i])

ToldOK ==
    /\ got \in [Observers -> Seq(1..Len(log))]
    /\ \A o \in Observers : \A i \in 1..Len(got[o]) : log[got[o][i]].event \in Events

ObserversOK ==
    /\ observers \in Seq(Observers) /\ IsInjective(observers)
    /\ since \in [Observers -> 0..(Len(log) + 1)]
    /\ \A o \in Observers : since[o] > 0 <=> o \in ToSet(observers)

ItemsOK == items \in [Keys -> Values \cup {NoValue}] /\ log \in Seq(Entries)

LEMMA TypesApart == TypeOK <=> ItemsOK /\ FramesOK /\ ToldOK /\ ObserversOK
<1>1. log \in Seq(Entries) => DOMAIN log = 1..Len(log)
  BY LenProperties
<1>2. announcing \in [Threads -> Seq(Announcements)] =>
          \A t \in Threads : DOMAIN announcing[t] = 1..Len(announcing[t])
  BY LenProperties
<1>3. \A S : got \in [Observers -> Seq(S)] =>
          \A o \in Observers : DOMAIN got[o] = 1..Len(got[o])
  BY LenProperties
<1>4. ASSUME log \in Seq(Entries), announcing \in [Threads -> Seq(Announcements)]
      PROVE  (\A t \in Threads : \A i \in 1..Len(announcing[t]) : FrameOK(log, announcing[t][i]))
             <=> \A t \in Threads : \A i \in DOMAIN announcing[t] :
                    /\ announcing[t][i].id \in DOMAIN log
                    /\ log[announcing[t][i].id].event \in Events
                    /\ IsInjective(announcing[t][i].todo)
                    /\ announcing[t][i].at = "committed" => announcing[t][i].todo = <<>>
  BY <1>1, <1>2, <1>4 DEF FrameOK
<1>5. ASSUME log \in Seq(Entries)
      PROVE  ToldOK <=> /\ got \in [Observers -> Seq(DOMAIN log)]
                        /\ \A o \in Observers : \A i \in DOMAIN got[o] :
                              log[got[o][i]].event \in Events
  BY <1>1, <1>3, <1>5 DEF ToldOK
<1> QED
  BY <1>4, <1>5 DEF TypeOK, ItemsOK, FramesOK, ObserversOK

LEMMA TypesApartNext == TypeOK' <=> ItemsOK' /\ FramesOK' /\ ToldOK' /\ ObserversOK'
BY TypesApart, PTL

\* The announcements are typed after each kind of step.
LEMMA FramesBegin ==
    ASSUME TypeOK, NEW t \in Threads, NEW a, Grown, Begins(t, a), FrameOK(log', a)
    PROVE  FramesOK'
<1>1. Len(log) \in Nat /\ 1..Len(log) \subseteq 1..Len(log')
  BY StackTyped DEF Grown
<1>2. \A b : FrameOK(log, b) => FrameOK(log', b)
  BY <1>1 DEF FrameOK, Grown
<1>3. FramesOK
  BY TypesApart
<1>4. ASSUME NEW u \in Threads, NEW i \in 1..Len(announcing'[u])
      PROVE  FrameOK(log', announcing'[u][i])
  <2>1. CASE u # t
    <3>1. announcing'[u] = announcing[u]
      BY <2>1 DEF Begins
    <3> QED
      BY <1>2, <1>3, <3>1 DEF FramesOK
  <2>2. CASE u = t
    <3>1. i \in 1..Len(announcing[t]) \/ i = Len(announcing[t]) + 1
      BY <2>2, StackTyped DEF Begins
    <3> QED
      BY <1>2, <1>3, <2>2, <3>1 DEF FramesOK, Begins
  <2> QED
    BY <2>1, <2>2
<1> QED
  BY <1>4 DEF FramesOK, Begins

LEMMA FramesGoOn ==
    ASSUME TypeOK, NEW t \in Threads, NEW a, log' = log, GoesOn(t, a), FrameOK(log, a)
    PROVE  FramesOK'
<1>1. FramesOK
  BY TypesApart
<1>2. ASSUME NEW u \in Threads, NEW i \in 1..Len(announcing'[u])
      PROVE  FrameOK(log, announcing'[u][i])
  <2>1. CASE u # t
    BY <1>1, <2>1 DEF FramesOK, GoesOn
  <2>2. CASE u = t
    <3>1. /\ i \in 1..Len(announcing[t])
          /\ i \in 1..(Len(announcing[t]) - 1) \/ i = Len(announcing[t])
      BY <2>2, StackTyped DEF GoesOn
    <3> QED
      BY <1>1, <2>2, <3>1 DEF FramesOK, GoesOn
  <2> QED
    BY <2>1, <2>2
<1> QED
  BY <1>2 DEF FramesOK, GoesOn

LEMMA FramesEnd ==
    ASSUME TypeOK, NEW t \in Threads, log' = log, Ends(t)
    PROVE  FramesOK'
<1>1. FramesOK
  BY TypesApart
<1>2. ASSUME NEW u \in Threads, NEW i \in 1..Len(announcing'[u])
      PROVE  FrameOK(log, announcing'[u][i])
  <2>1. CASE u # t
    BY <1>1, <2>1 DEF FramesOK, Ends
  <2>2. CASE u = t
    <3>1. i \in 1..Len(announcing[t]) /\ i \in 1..(Len(announcing[t]) - 1)
      BY <2>2, StackTyped DEF Ends
    <3> QED
      BY <1>1, <2>2, <3>1 DEF FramesOK, Ends
  <2> QED
    BY <2>1, <2>2
<1> QED
  BY <1>2 DEF FramesOK, Ends

LEMMA ToldGrows ==
    ASSUME TypeOK, Grown, UNCHANGED got
    PROVE  ToldOK'
<1>1. ToldOK /\ Len(log) \in Nat
  BY TypesApart, LenProperties DEF ItemsOK
<1>2. 1..Len(log) \subseteq 1..Len(log')
  BY <1>1 DEF Grown
<1>3. Seq(1..Len(log)) \subseteq Seq(1..Len(log'))
  <2>1. ASSUME NEW S, NEW T, S \subseteq T PROVE \A q \in Seq(S) : q \in Seq(T)
    BY <2>1
  <2> QED
    BY <1>2, <2>1
<1>4. got' \in [Observers -> Seq(1..Len(log'))]
  BY <1>1, <1>3 DEF ToldOK
<1>5. ASSUME NEW o \in Observers, NEW i \in 1..Len(got[o])
      PROVE  log'[got[o][i]].event \in Events
  <2>1. got[o] \in Seq(1..Len(log))
    BY <1>1 DEF ToldOK
  <2>2. got[o][i] \in 1..Len(log)
    BY <2>1, LenProperties
  <2> QED
    BY <1>1, <2>2 DEF ToldOK, Grown
<1> QED
  BY <1>4, <1>5 DEF ToldOK

LEMMA ObserversGrow ==
    ASSUME TypeOK, Grown, UNCHANGED <<observers, since>>
    PROVE  ObserversOK'
<1>1. ObserversOK /\ Len(log) \in Nat
  BY TypesApart, LenProperties DEF ItemsOK
<1>2. 0..(Len(log) + 1) \subseteq 0..(Len(log') + 1)
  BY <1>1 DEF Grown
<1> QED
  BY <1>1, <1>2 DEF ObserversOK

LEMMA InitTyped == Init => TypeOK
<1> SUFFICES ASSUME Init PROVE TypeOK
  OBVIOUS
<1>1. /\ items \in [Keys -> Values \cup {NoValue}]
      /\ log \in Seq(Entries) /\ Len(log) = 0
  BY DEF Init
<1>2. FramesOK
  BY DEF Init, FramesOK
<1>3. ToldOK
  BY DEF Init, ToldOK
<1>4. ObserversOK
  <2>1. ToSet(observers) = {} /\ observers \in Seq(Observers) /\ IsInjective(observers)
    BY DEF Init, ToSet, IsInjective
  <2> QED
    BY <1>1, <2>1 DEF Init, ObserversOK
<1> QED
  BY <1>1, <1>2, <1>3, <1>4, TypesApart DEF ItemsOK

\* CallObserver() calls the first observer of those still to be called.
LEMMA CallFacts ==
    ASSUME TypeOK, NEW t \in Threads, CallObserver(t)
    PROVE  \E a \in Announcements, b \in Announcements, o \in Observers :
               /\ a = announcing[t][Len(announcing[t])] /\ GoesOn(t, b)
               /\ Announcing(t) /\ a.todo # <<>> /\ a.at # "committed"
               /\ b.id = a.id /\ b.at = "calling" /\ o = Head(a.todo) /\ b.todo = Tail(a.todo)
               /\ got' = [got EXCEPT ![o] = Append(@, a.id)]
<1> DEFINE a == announcing[t][Len(announcing[t])]
           b == [a EXCEPT !.todo = Tail(@), !.at = "calling"]
           o == Head(a.todo)
<1>1. Announcing(t) /\ a.todo # <<>>
  BY DEF CallObserver, Last
<1>2. Len(announcing[t]) \in 1..Len(announcing[t]) /\ a \in Announcements
  BY <1>1, StackTyped
<1>3. a.todo \in Seq(Observers) /\ (a.at = "committed" => a.todo = <<>>)
  BY <1>2, StackTyped
<1>4. o \in Observers /\ Tail(a.todo) \in Seq(Observers)
  BY <1>1, <1>3, HeadTailProperties
<1>5. b \in Announcements /\ b.id = a.id /\ b.at = "calling" /\ b.todo = Tail(a.todo)
  BY <1>2, <1>4 DEF Announcements
<1>6. got' = [got EXCEPT ![o] = Append(@, a.id)] /\ Becomes(t, b)
  BY DEF CallObserver, Last
<1>7. GoesOn(t, b)
  <2> HIDE DEF b
  <2> QED
    BY <1>1, <1>5, <1>6, BecomesFacts
<1> QED
  BY <1>1, <1>2, <1>3, <1>4, <1>5, <1>6, <1>7

\* CopyObservers() takes the observers there are.
LEMMA CopyFacts ==
    ASSUME TypeOK, NEW t \in Threads, CopyObservers(t)
    PROVE  \E a \in Announcements, b \in Announcements :
               /\ a = announcing[t][Len(announcing[t])] /\ GoesOn(t, b)
               /\ Announcing(t) /\ a.at = "committed"
               /\ b.id = a.id /\ b.at = "copied" /\ b.todo = observers
<1> DEFINE a == announcing[t][Len(announcing[t])]
           b == [a EXCEPT !.todo = observers, !.at = "copied"]
<1>1. Announcing(t) /\ a.at = "committed" /\ observers \in Seq(Observers)
  BY DEF CopyObservers, Last, TypeOK
<1>2. Len(announcing[t]) \in 1..Len(announcing[t]) /\ a \in Announcements
  BY <1>1, StackTyped
<1>3. b \in Announcements /\ b.id = a.id /\ b.at = "copied" /\ b.todo = observers
  BY <1>1, <1>2 DEF Announcements
<1>4. Becomes(t, b)
  BY DEF CopyObservers, Last
<1>5. GoesOn(t, b)
  <2> HIDE DEF b
  <2> QED
    BY <1>1, <1>3, <1>4, BecomesFacts
<1> QED
  BY <1>1, <1>2, <1>3, <1>5

\* The rest of a list without repetitions has none, and lacks its head only.
LEMMA TailOnce ==
    ASSUME NEW S, NEW q \in Seq(S), q # <<>>, IsInjective(q)
    PROVE  /\ IsInjective(Tail(q)) /\ ToSet(Tail(q)) = ToSet(q) \ {Head(q)}
<1>1. /\ Len(q) \in Nat /\ Len(q) >= 1 /\ DOMAIN q = 1..Len(q) /\ Head(q) = q[1]
  BY LenProperties
<1>2. /\ Tail(q) \in Seq(S) /\ Len(Tail(q)) = Len(q) - 1
      /\ \A i \in 1..(Len(q) - 1) : Tail(q)[i] = q[i + 1]
  BY HeadTailProperties
<1>3. DOMAIN Tail(q) = 1..(Len(q) - 1)
  BY <1>2, LenProperties
<1>4. \A i \in 1..(Len(q) - 1) : i + 1 \in 1..Len(q) /\ i + 1 # 1
  BY <1>1
<1>5. \A i \in 1..Len(q) : i = 1 \/ (i - 1 \in 1..(Len(q) - 1) /\ (i - 1) + 1 = i)
  BY <1>1
<1>6. IsInjective(Tail(q))
  <2> SUFFICES ASSUME NEW i \in 1..(Len(q) - 1), NEW j \in 1..(Len(q) - 1),
                      Tail(q)[i] = Tail(q)[j]
               PROVE  i = j
    BY <1>3 DEF IsInjective
  <2>1. q[i + 1] = q[j + 1]
    BY <1>2
  <2>2. i + 1 = j + 1
    BY <1>1, <1>4, <2>1 DEF IsInjective
  <2> QED
    BY <1>1, <2>2
<1>7. ASSUME NEW x \in ToSet(Tail(q)) PROVE x \in ToSet(q) \ {Head(q)}
  <2>1. PICK i \in 1..(Len(q) - 1) : x = q[i + 1]
    BY <1>2, <1>3 DEF ToSet
  <2>2. x # q[1]
    BY <1>1, <1>4, <2>1 DEF IsInjective
  <2> QED
    BY <1>1, <1>4, <2>1, <2>2 DEF ToSet
<1>8. ASSUME NEW x \in ToSet(q) \ {Head(q)} PROVE x \in ToSet(Tail(q))
  <2>1. PICK i \in 1..Len(q) : x = q[i] /\ i # 1
    BY <1>1 DEF ToSet
  <2>2. i - 1 \in 1..(Len(q) - 1) /\ Tail(q)[i - 1] = x
    BY <1>2, <1>5, <2>1
  <2> QED
    BY <1>3, <2>2 DEF ToSet
<1> QED
  BY <1>6, <1>7, <1>8

\* Every operation keeps the types.
LEMMA TypeStep == TypeOK /\ [Next]_vars => TypeOK'
<1> SUFFICES ASSUME TypeOK, [Next]_vars PROVE TypeOK'
  OBVIOUS
<1>1. /\ items \in [Keys -> Values \cup {NoValue}] /\ log \in Seq(Entries)
      /\ FramesOK /\ ToldOK /\ ObserversOK
  BY TypesApart DEF ItemsOK
<1>2. ASSUME /\ items' \in [Keys -> Values \cup {NoValue}] /\ log' \in Seq(Entries)
             /\ FramesOK' /\ ToldOK' /\ ObserversOK'
      PROVE  TypeOK'
  BY <1>2, TypesApartNext DEF ItemsOK
<1>3. ASSUME NEW t \in Threads, NEW event \in Events, NEW k \in Keys, NEW v \in Values,
             NEW w \in Values \cup {NoValue},
             items' = [items EXCEPT ![k] = w], Commit(t, event, k, v)
      PROVE  TypeOK'
  <2> DEFINE a == [id |-> Len(log) + 1, todo |-> <<>>, at |-> "committed"]
  <2>1. Grown /\ Begins(t, a) /\ log'[Len(log) + 1] = Committed(t, event, k, v)
    BY <1>3, CommitFacts
  <2>2. a.id \in 1..Len(log') /\ log'[a.id].event \in Events
    BY <2>1, StackTyped DEF Grown, Committed
  <2>3. FrameOK(log', a)
    BY <2>2 DEF FrameOK, IsInjective
  <2>4. items' \in [Keys -> Values \cup {NoValue}]
    BY <1>1, <1>3
  <2>5. UNCHANGED <<observers, got, since>>
    BY <1>3 DEF Commit
  <2> HIDE DEF a
  <2>6. FramesOK' /\ ToldOK' /\ ObserversOK'
    BY <2>1, <2>3, <2>5, FramesBegin, ToldGrows, ObserversGrow
  <2> QED
    BY <1>2, <2>1, <2>4, <2>6 DEF Grown
<1>4. ASSUME NEW t \in Threads, Register(t) PROVE TypeOK'
  <2>1. PICK k \in Keys, v \in Values :
            /\ items' = [items EXCEPT ![k] = v]
            /\ Commit(t, IF items[k] = NoValue THEN "registered" ELSE "replaced", k, v)
    BY <1>4 DEF Register
  <2>2. (IF items[k] = NoValue THEN "registered" ELSE "replaced") \in Events
    BY DEF Events
  <2> QED
    BY <1>3, <2>1, <2>2
<1>5. ASSUME NEW t \in Threads, Unregister(t) PROVE TypeOK'
  <2>1. PICK k \in Keys :
            /\ items[k] # NoValue
            /\ items' = [items EXCEPT ![k] = NoValue]
            /\ Commit(t, "unregistered", k, items[k])
    BY <1>5 DEF Unregister
  <2>2. items[k] \in Values /\ "unregistered" \in Events
    BY <1>1, <2>1 DEF Events
  <2> QED
    BY <1>3, <2>1, <2>2
<1>6. ASSUME NEW t \in Threads, Clear(t) PROVE TypeOK'
  <2> DEFINE e == [event |-> "cleared"]
  <2>1. e \in Entries /\ log' = Append(log, e)
    BY <1>6 DEF Entries, Clear
  <2>2. Grown
    BY <2>1, LogGrows
  <2>3. items' \in [Keys -> Values \cup {NoValue}] /\ UNCHANGED <<observers, announcing, got, since>>
    BY <1>6 DEF Clear
  <2>4. FramesOK'
    <3>1. 1..Len(log) \subseteq 1..Len(log')
      BY <2>2, StackTyped DEF Grown
    <3>2. \A b : FrameOK(log, b) => FrameOK(log', b)
      BY <2>2, <3>1 DEF FrameOK, Grown
    <3> QED
      BY <1>1, <2>3, <3>2 DEF FramesOK
  <2> QED
    BY <1>2, <2>2, <2>3, <2>4, ToldGrows, ObserversGrow DEF Grown
<1>7. ASSUME NEW t \in Threads, CopyObservers(t) PROVE TypeOK'
  <2>1. UNCHANGED <<items, observers, log, got, since>>
    BY <1>7 DEF CopyObservers
  <2>2. PICK a \in Announcements, b \in Announcements :
            /\ a = announcing[t][Len(announcing[t])] /\ GoesOn(t, b)
            /\ Announcing(t)
            /\ b.id = a.id /\ b.at = "copied" /\ b.todo = observers
    BY <1>7, CopyFacts
  <2>3. FrameOK(log, a)
    BY <1>1, <2>2, StackTyped DEF FramesOK
  <2>4. FrameOK(log, b)
    BY <1>1, <2>2, <2>3 DEF FrameOK, ObserversOK
  <2> QED
    BY <1>1, <1>2, <2>1, <2>2, <2>4, FramesGoOn DEF ToldOK, ObserversOK
<1>8. ASSUME NEW t \in Threads, CallObserver(t) PROVE TypeOK'
  <2>1. UNCHANGED <<items, observers, log, since>>
    BY <1>8 DEF CallObserver
  <2>2. PICK a \in Announcements, b \in Announcements, o \in Observers :
            /\ a = announcing[t][Len(announcing[t])] /\ GoesOn(t, b)
            /\ Announcing(t) /\ a.todo # <<>>
            /\ b.id = a.id /\ b.at = "calling" /\ b.todo = Tail(a.todo)
            /\ got' = [got EXCEPT ![o] = Append(@, a.id)]
    BY <1>8, CallFacts
  <2>3. FrameOK(log, a)
    BY <1>1, <2>2, StackTyped DEF FramesOK
  <2>4. FrameOK(log, b)
    <3>1. a.todo \in Seq(Observers)
      BY DEF Announcements
    <3> QED
      BY <2>2, <2>3, <3>1, TailOnce DEF FrameOK
  <2>5. ToldOK'
    <3>1. got[o] \in Seq(1..Len(log)) /\ a.id \in 1..Len(log)
      BY <1>1, <2>3 DEF ToldOK, FrameOK
    <3>2. /\ Append(got[o], a.id) \in Seq(1..Len(log))
          /\ Len(Append(got[o], a.id)) = Len(got[o]) + 1 /\ Len(got[o]) \in Nat
          /\ \A i \in 1..Len(got[o]) : Append(got[o], a.id)[i] = got[o][i]
          /\ Append(got[o], a.id)[Len(got[o]) + 1] = a.id
      BY <3>1, AppendProperties, LenProperties
    <3>3. got \in [Observers -> Seq(1..Len(log))]
      BY <1>1 DEF ToldOK
    <3>4. /\ got'[o] = Append(got[o], a.id)
          /\ \A x \in Observers : x # o => got'[x] = got[x]
          /\ got' \in [Observers -> Seq(1..Len(log))]
      BY <2>2, <3>2, <3>3
    <3>5. ASSUME NEW x \in Observers, NEW i \in 1..Len(got'[x])
          PROVE  log[got'[x][i]].event \in Events
      <4>1. CASE x # o
        BY <1>1, <3>4, <4>1 DEF ToldOK
      <4>2. CASE x = o
        <5>1. i \in 1..Len(got[o]) \/ i = Len(got[o]) + 1
          <6>1. \A n \in Nat : \A j \in 1..(n + 1) : j \in 1..n \/ j = n + 1
            OBVIOUS
          <6>2. Len(got'[x]) = Len(got[o]) + 1 /\ Len(got[o]) \in Nat
            BY <3>2, <3>4, <4>2
          <6> QED
            BY <6>1, <6>2
        <5>2. CASE i \in 1..Len(got[o])
          <6>1. got'[x][i] = got[o][i]
            BY <3>2, <3>4, <4>2, <5>2
          <6> QED
            BY <1>1, <5>2, <6>1 DEF ToldOK
        <5>3. CASE i = Len(got[o]) + 1
          <6>1. got'[x][i] = a.id
            BY <3>2, <3>4, <4>2, <5>3
          <6> QED
            BY <2>3, <6>1 DEF FrameOK
        <5> QED
          BY <5>1, <5>2, <5>3
      <4> QED
        BY <4>1, <4>2
    <3> QED
      BY <2>1, <3>4, <3>5 DEF ToldOK
  <2> QED
    BY <1>1, <1>2, <2>1, <2>2, <2>4, <2>5, FramesGoOn DEF ObserversOK
<1>9. ASSUME NEW t \in Threads, Announced(t) PROVE TypeOK'
  <2>1. UNCHANGED <<items, observers, log, got, since>>
    BY <1>9 DEF Announced
  <2>2. FramesOK'
    BY <1>9, <2>1, AnnouncedFacts, FramesEnd
  <2> QED
    BY <1>1, <1>2, <2>1, <2>2 DEF ToldOK, ObserversOK
<1>10. ASSUME NEW o \in Observers, Observe(o) PROVE TypeOK'
  <2>1. UNCHANGED <<items, announcing, log, got>>
    BY <1>10 DEF Observe
  <2>2. /\ observers' \in Seq(Observers) /\ IsInjective(observers')
        /\ ToSet(observers') = ToSet(observers) \cup {o}
    BY <1>1, <1>10, AppendOnce DEF Observe, ObserversOK
  <2>3. since' = [since EXCEPT ![o] = Len(log) + 1] /\ Len(log) \in Nat
    BY <1>1, <1>10, LenProperties DEF Observe
  <2>4. ObserversOK'
    <3>1. since' \in [Observers -> 0..(Len(log) + 1)]
      BY <1>1, <2>3 DEF ObserversOK
    <3>2. \A x \in Observers : since'[x] = IF x = o THEN Len(log) + 1 ELSE since[x]
      BY <1>1, <2>3 DEF ObserversOK
    <3>3. Len(log) + 1 > 0
      BY <2>3
    <3>4. \A x \in Observers : since'[x] > 0 <=> x \in ToSet(observers')
      BY <1>1, <2>2, <3>2, <3>3 DEF ObserversOK
    <3> QED
      BY <2>1, <2>2, <3>1, <3>4 DEF ObserversOK
  <2> QED
    BY <1>1, <1>2, <2>1, <2>4 DEF FramesOK, ToldOK
<1>11. ASSUME NEW o \in Observers, StopObserving(o) PROVE TypeOK'
  <2>1. UNCHANGED <<items, announcing, log, got>>
    BY <1>11 DEF StopObserving
  <2>2. /\ observers' \in Seq(Observers) /\ IsInjective(observers')
        /\ ToSet(observers') = ToSet(observers) \ {o}
    BY <1>1, <1>11, RemovedOnce DEF StopObserving, ObserversOK
  <2>3. since' = [since EXCEPT ![o] = 0] /\ Len(log) \in Nat
    BY <1>1, <1>11, LenProperties DEF StopObserving
  <2>4. ObserversOK'
    <3>1. since' \in [Observers -> 0..(Len(log) + 1)]
      BY <1>1, <2>3 DEF ObserversOK
    <3>2. \A x \in Observers : since'[x] = IF x = o THEN 0 ELSE since[x]
      BY <1>1, <2>3 DEF ObserversOK
    <3>3. \A x \in Observers : since'[x] > 0 <=> x \in ToSet(observers')
      BY <1>1, <2>2, <3>2 DEF ObserversOK
    <3> QED
      BY <2>1, <2>2, <3>1, <3>3 DEF ObserversOK
  <2> QED
    BY <1>1, <1>2, <2>1, <2>4 DEF FramesOK, ToldOK
<1>12. CASE UNCHANGED vars
  BY <1>1, <1>2, <1>12 DEF vars, FramesOK, ToldOK, ObserversOK
<1> QED
  BY <1>4, <1>5, <1>6, <1>7, <1>8, <1>9, <1>10, <1>11, <1>12 DEF Next

-----------------------------------------------------------------------------
(***************************************************************************)
(* The announcements.                                                      *)
(***************************************************************************)

LEMMA Domains ==
    ASSUME TypeOK, announcing' \in [Threads -> Seq(Announcements)], NEW u \in Threads
    PROVE  /\ Len(announcing[u]) \in Nat /\ Len(announcing'[u]) \in Nat
           /\ DOMAIN announcing[u] = 1..Len(announcing[u])
           /\ DOMAIN announcing'[u] = 1..Len(announcing'[u])
<1>1. announcing[u] \in Seq(Announcements) /\ announcing'[u] \in Seq(Announcements)
  BY DEF TypeOK
<1> QED
  BY <1>1, LenProperties

\* Where the announcements after each kind of step come from.
LEMMA BeginsFrames ==
    ASSUME TypeOK, NEW t \in Threads, NEW a, Begins(t, a)
    PROVE  /\ \A u \in Threads : \A i \in 1..Len(announcing'[u]) :
                 \/ i \in 1..Len(announcing[u]) /\ announcing'[u][i] = announcing[u][i]
                 \/ u = t /\ i = Len(announcing[t]) + 1 /\ announcing'[u][i] = a
           /\ \A u \in Threads : \A i \in 1..Len(announcing[u]) :
                 i \in 1..Len(announcing'[u]) /\ announcing'[u][i] = announcing[u][i]
           /\ Len(announcing[t]) + 1 \in 1..Len(announcing'[t])
<1>1. Len(announcing[t]) \in Nat
  BY StackTyped
<1>2. ASSUME NEW u \in Threads, u # t PROVE announcing'[u] = announcing[u]
  BY <1>2 DEF Begins
<1>3. \A i \in 1..Len(announcing'[t]) : i \in 1..Len(announcing[t]) \/ i = Len(announcing[t]) + 1
  BY <1>1 DEF Begins
<1>4. \A i \in 1..Len(announcing[t]) : i \in 1..Len(announcing'[t])
  BY <1>1 DEF Begins
<1>5. Len(announcing[t]) + 1 \in 1..Len(announcing'[t])
  BY <1>1 DEF Begins
<1> QED
  BY <1>2, <1>3, <1>4, <1>5 DEF Begins

LEMMA GoesOnFrames ==
    ASSUME TypeOK, NEW t \in Threads, NEW a, GoesOn(t, a)
    PROVE  /\ \A u \in Threads : Len(announcing'[u]) = Len(announcing[u])
           /\ \A u \in Threads : \A i \in 1..Len(announcing[u]) :
                 ~(u = t /\ i = Len(announcing[t])) => announcing'[u][i] = announcing[u][i]
           /\ announcing'[t][Len(announcing[t])] = a
           /\ Len(announcing[t]) \in 1..Len(announcing[t])
<1>1. Len(announcing[t]) \in Nat
  BY StackTyped
<1>2. ASSUME NEW u \in Threads, u # t PROVE announcing'[u] = announcing[u]
  BY <1>2 DEF GoesOn
<1>3. \A i \in 1..Len(announcing[t]) : i # Len(announcing[t]) => i \in 1..(Len(announcing[t]) - 1)
  BY <1>1
<1>4. Len(announcing[t]) \in 1..Len(announcing[t])
  BY <1>1 DEF GoesOn
<1> QED
  BY <1>2, <1>3, <1>4 DEF GoesOn

LEMMA EndsFrames ==
    ASSUME TypeOK, NEW t \in Threads, Ends(t)
    PROVE  /\ \A u \in Threads : \A i \in 1..Len(announcing'[u]) :
                 /\ i \in 1..Len(announcing[u]) /\ announcing'[u][i] = announcing[u][i]
                 /\ ~(u = t /\ i = Len(announcing[t]))
           /\ \A u \in Threads : \A i \in 1..Len(announcing[u]) :
                 ~(u = t /\ i = Len(announcing[t])) => i \in 1..Len(announcing'[u])
<1>1. Len(announcing[t]) \in Nat
  BY StackTyped
<1>2. ASSUME NEW u \in Threads, u # t PROVE announcing'[u] = announcing[u]
  BY <1>2 DEF Ends
<1>3. \A i \in 1..Len(announcing'[t]) :
          i \in 1..Len(announcing[t]) /\ i # Len(announcing[t]) /\ i \in 1..(Len(announcing[t]) - 1)
  BY <1>1 DEF Ends
<1>4. \A i \in 1..Len(announcing[t]) : i # Len(announcing[t]) => i \in 1..Len(announcing'[t])
  BY <1>1 DEF Ends
<1> QED
  BY <1>2, <1>3, <1>4 DEF Ends

LEMMA OnceIndexed ==
    ASSUME TypeOK, announcing' \in [Threads -> Seq(Announcements)]
    PROVE  /\ AnnouncedOnce =>
                 \A u, v \in Threads :
                     \A i \in 1..Len(announcing[u]), j \in 1..Len(announcing[v]) :
                         announcing[u][i].id = announcing[v][j].id => u = v /\ i = j
           /\ (\A u, v \in Threads :
                  \A i \in 1..Len(announcing'[u]), j \in 1..Len(announcing'[v]) :
                      announcing'[u][i].id = announcing'[v][j].id => u = v /\ i = j)
              => AnnouncedOnce'
<1>1. \A u \in Threads : /\ DOMAIN announcing[u] = 1..Len(announcing[u])
                         /\ DOMAIN announcing'[u] = 1..Len(announcing'[u])
  BY Domains
<1>2. ASSUME AnnouncedOnce, NEW u \in Threads, NEW v \in Threads,
             NEW i \in 1..Len(announcing[u]), NEW j \in 1..Len(announcing[v]),
             announcing[u][i].id = announcing[v][j].id
      PROVE  u = v /\ i = j
  <2>1. i \in DOMAIN announcing[u] /\ j \in DOMAIN announcing[v]
    BY <1>1
  <2> QED
    BY <1>2, <2>1, Zenon DEF AnnouncedOnce
<1>3. ASSUME \A u, v \in Threads :
                 \A i \in 1..Len(announcing'[u]), j \in 1..Len(announcing'[v]) :
                     announcing'[u][i].id = announcing'[v][j].id => u = v /\ i = j,
             NEW u \in Threads, NEW v \in Threads,
             NEW i \in DOMAIN announcing'[u], NEW j \in DOMAIN announcing'[v],
             announcing'[u][i].id = announcing'[v][j].id
      PROVE  u = v /\ i = j
  <2>1. i \in 1..Len(announcing'[u]) /\ j \in 1..Len(announcing'[v])
    BY <1>1
  <2> QED
    BY <1>3, <2>1, Zenon
<1> QED
  BY <1>2, <1>3, Zenon DEF AnnouncedOnce

\* No change is announced twice.
LEMMA OnceBegins ==
    ASSUME TypeOK, AnnouncedOnce, NEW t \in Threads, NEW a, Begins(t, a), a.id = Len(log) + 1
    PROVE  AnnouncedOnce'
<1> SUFFICES ASSUME NEW u \in Threads, NEW v \in Threads,
                    NEW i \in 1..Len(announcing'[u]), NEW j \in 1..Len(announcing'[v]),
                    announcing'[u][i].id = announcing'[v][j].id
             PROVE  u = v /\ i = j
  BY OnceIndexed DEF Begins
<1>1. \A x \in Threads : \A h \in 1..Len(announcing[x]) : announcing[x][h].id # Len(log) + 1
  BY StackTyped
<1>2. \/ i \in 1..Len(announcing[u]) /\ announcing'[u][i] = announcing[u][i]
      \/ u = t /\ i = Len(announcing[t]) + 1 /\ announcing'[u][i] = a
  BY BeginsFrames
<1>3. \/ j \in 1..Len(announcing[v]) /\ announcing'[v][j] = announcing[v][j]
      \/ v = t /\ j = Len(announcing[t]) + 1 /\ announcing'[v][j] = a
  BY BeginsFrames
<1>4. \A x, y \in Threads : \A g \in 1..Len(announcing[x]), h \in 1..Len(announcing[y]) :
          announcing[x][g].id = announcing[y][h].id => x = y /\ g = h
  BY OnceIndexed DEF Begins
<1>5. CASE i \in 1..Len(announcing[u]) /\ announcing'[u][i] = announcing[u][i]
  <2>1. j \in 1..Len(announcing[v]) /\ announcing'[v][j] = announcing[v][j]
    BY <1>1, <1>3, <1>5
  <2>2. announcing[u][i].id = announcing[v][j].id
    BY <1>5, <2>1
  <2>3. \A g \in 1..Len(announcing[u]), h \in 1..Len(announcing[v]) :
            announcing[u][g].id = announcing[v][h].id => u = v /\ g = h
    BY <1>4
  <2> QED
    BY <1>5, <2>1, <2>2, <2>3
<1>6. CASE u = t /\ i = Len(announcing[t]) + 1 /\ announcing'[u][i] = a
  <2>1. v = t /\ j = Len(announcing[t]) + 1
    BY <1>1, <1>3, <1>6
  <2> QED
    BY <1>6, <2>1
<1> QED
  BY <1>2, <1>5, <1>6

LEMMA OnceGoesOn ==
    ASSUME TypeOK, AnnouncedOnce, NEW t \in Threads, NEW a, GoesOn(t, a),
           a.id = announcing[t][Len(announcing[t])].id
    PROVE  AnnouncedOnce'
<1> SUFFICES ASSUME NEW u \in Threads, NEW v \in Threads,
                    NEW i \in 1..Len(announcing'[u]), NEW j \in 1..Len(announcing'[v]),
                    announcing'[u][i].id = announcing'[v][j].id
             PROVE  u = v /\ i = j
  BY OnceIndexed DEF GoesOn
<1>1. /\ i \in 1..Len(announcing[u]) /\ announcing'[u][i].id = announcing[u][i].id
      /\ j \in 1..Len(announcing[v]) /\ announcing'[v][j].id = announcing[v][j].id
  BY GoesOnFrames
<1>2. \A x, y \in Threads : \A g \in 1..Len(announcing[x]), h \in 1..Len(announcing[y]) :
          announcing[x][g].id = announcing[y][h].id => x = y /\ g = h
  BY OnceIndexed DEF GoesOn
<1>3. announcing[u][i].id = announcing[v][j].id
  BY <1>1
<1>4. \A g \in 1..Len(announcing[u]), h \in 1..Len(announcing[v]) :
          announcing[u][g].id = announcing[v][h].id => u = v /\ g = h
  BY <1>2
<1> QED
  BY <1>1, <1>3, <1>4

LEMMA OnceEnds ==
    ASSUME TypeOK, AnnouncedOnce, NEW t \in Threads, Ends(t)
    PROVE  AnnouncedOnce'
<1> SUFFICES ASSUME NEW u \in Threads, NEW v \in Threads,
                    NEW i \in 1..Len(announcing'[u]), NEW j \in 1..Len(announcing'[v]),
                    announcing'[u][i].id = announcing'[v][j].id
             PROVE  u = v /\ i = j
  BY OnceIndexed DEF Ends
<1>1. /\ i \in 1..Len(announcing[u]) /\ announcing'[u][i] = announcing[u][i]
      /\ j \in 1..Len(announcing[v]) /\ announcing'[v][j] = announcing[v][j]
  BY EndsFrames
<1>2. \A x, y \in Threads : \A g \in 1..Len(announcing[x]), h \in 1..Len(announcing[y]) :
          announcing[x][g].id = announcing[y][h].id => x = y /\ g = h
  BY OnceIndexed DEF Ends
<1>3. announcing[u][i].id = announcing[v][j].id
  BY <1>1
<1>4. \A g \in 1..Len(announcing[u]), h \in 1..Len(announcing[v]) :
          announcing[u][g].id = announcing[v][h].id => u = v /\ g = h
  BY <1>2
<1> QED
  BY <1>1, <1>3, <1>4

\* A thread announces its own changes, the outermost first and last made.
LEMMA OwnBegins ==
    ASSUME TypeOK, OwnChanges, OutermostIsLast, NEW t \in Threads, MayCall(t),
           NEW event \in Events, NEW k \in Keys, NEW v \in Values, Commit(t, event, k, v)
    PROVE  OwnChanges' /\ OutermostIsLast'
<1> DEFINE n == Len(log)
           a == [id |-> n + 1, todo |-> <<>>, at |-> "committed"]
<1>1. Grown /\ Begins(t, a) /\ log'[n + 1] = Committed(t, event, k, v)
  BY CommitFacts
<1>2. /\ log'[n + 1].by = t /\ log'[n + 1].event = event
      /\ log'[n + 1].nested <=> InObserver(t)
  <2>1. log'[n + 1].nested = InObserver(t)
    BY <1>1 DEF Committed
  <2> QED
    BY <1>1, <2>1 DEF Committed
<1>3. Announcing(t) <=> InObserver(t)
  BY DEF MayCall, InObserver
<1>4. /\ Len(announcing[t]) \in Nat /\ Announcing(t) <=> Len(announcing[t]) >= 1
      /\ n \in Nat /\ a.id = n + 1
  BY StackTyped
<1>5. announcing' \in [Threads -> Seq(Announcements)]
  BY <1>1 DEF Begins
<1> HIDE DEF a
<1>6. OwnChanges'
  <2> SUFFICES ASSUME NEW u \in Threads, NEW i \in 1..Len(announcing'[u])
               PROVE  /\ log'[announcing'[u][i].id].by = u
                      /\ log'[announcing'[u][i].id].nested <=> i > 1
    BY <1>5, Domains DEF OwnChanges
  <2>1. CASE i \in 1..Len(announcing[u]) /\ announcing'[u][i] = announcing[u][i]
    <3>1. announcing[u][i].id \in 1..n
      BY <2>1, StackTyped
    <3>2. log'[announcing[u][i].id] = log[announcing[u][i].id]
      BY <1>1, <3>1 DEF Grown
    <3> QED
      BY <1>5, <2>1, <3>2, Domains DEF OwnChanges
  <2>2. CASE u = t /\ i = Len(announcing[t]) + 1 /\ announcing'[u][i] = a
    <3>1. i > 1 <=> Len(announcing[t]) >= 1
      BY <1>4, <2>2
    <3> QED
      BY <1>2, <1>3, <1>4, <2>2, <3>1
  <2> QED
    BY <1>1, <2>1, <2>2, BeginsFrames
<1>7. OutermostIsLast'
  <2> SUFFICES ASSUME NEW u \in Threads, announcing'[u] # <<>>, NEW id \in 1..(n + 1),
                      log'[id].event \in Events, log'[id].by = u, ~log'[id].nested
               PROVE  id =< announcing'[u][1].id
    <3>1. DOMAIN log' = 1..(n + 1)
      BY <1>1, LenProperties DEF Grown
    <3> QED
      BY <3>1 DEF OutermostIsLast, Announcing
  <2>1. announcing[u][1].id \in Nat \/ Len(announcing[u]) = 0
    <3>1. Len(announcing[u]) \in Nat
      BY StackTyped
    <3>2. Len(announcing[u]) # 0 => 1 \in 1..Len(announcing[u])
      BY <3>1
    <3> QED
      BY <1>4, <3>2, StackTyped
  <2>2. CASE id = n + 1
    <3>1. u = t /\ ~InObserver(t)
      BY <1>2, <2>2
    <3>2. Len(announcing[t]) = 0
      BY <1>3, <1>4, <3>1
    <3>3. announcing'[t][1] = a
      BY <1>1, <3>2 DEF Begins
    <3> QED
      BY <1>4, <2>2, <3>1, <3>3
  <2>3. CASE id \in 1..n
    <3>1. log'[id] = log[id] /\ id \in DOMAIN log
      BY <1>1, <2>3, StackTyped DEF Grown
    <3>2. CASE Announcing(u)
      <4>1. 1 \in 1..Len(announcing[u])
        BY <3>2, StackTyped
      <4>2. announcing'[u][1] = announcing[u][1]
        BY <1>1, <4>1, BeginsFrames
      <4> QED
        BY <3>1, <3>2, <4>2 DEF OutermostIsLast
    <3>3. CASE ~Announcing(u)
      <4>1. Len(announcing[u]) = 0
        BY <3>3, StackTyped
      <4>2. u = t
        <5>1. u # t => announcing'[u] = announcing[u]
          BY <1>1 DEF Begins
        <5> QED
          BY <3>3, <5>1 DEF Announcing
      <4>3. announcing'[t][1] = a
        BY <1>1, <4>1, <4>2 DEF Begins
      <4> QED
        BY <1>4, <2>3, <4>2, <4>3
    <3> QED
      BY <3>2, <3>3
  <2> QED
    BY <1>4, <2>2, <2>3
<1> QED
  BY <1>6, <1>7

LEMMA OwnGoesOn ==
    ASSUME TypeOK, OwnChanges, OutermostIsLast, NEW t \in Threads, NEW a, GoesOn(t, a),
           a.id = announcing[t][Len(announcing[t])].id, log' = log
    PROVE  OwnChanges' /\ OutermostIsLast'
<1>1. announcing' \in [Threads -> Seq(Announcements)]
  BY DEF GoesOn
<1>2. ASSUME NEW u \in Threads, NEW i \in 1..Len(announcing[u])
      PROVE  announcing'[u][i].id = announcing[u][i].id
  BY GoesOnFrames
<1>3. \A u \in Threads : Len(announcing'[u]) = Len(announcing[u])
  BY GoesOnFrames
<1>4. OwnChanges'
  <2>1. \A u \in Threads : DOMAIN announcing'[u] = DOMAIN announcing[u]
                           /\ DOMAIN announcing[u] = 1..Len(announcing[u])
    BY <1>1, <1>3, Domains
  <2> QED
    BY <1>2, <2>1 DEF OwnChanges
<1>5. ASSUME NEW u \in Threads, announcing'[u] # <<>>
      PROVE  Announcing(u) /\ announcing'[u][1].id = announcing[u][1].id
  <2>1. announcing'[u] \in Seq(Announcements)
    BY <1>1
  <2>2. Len(announcing[u]) \in Nat /\ Len(announcing[u]) # 0
    BY <1>3, <1>5, <2>1, StackTyped
  <2>3. 1 \in 1..Len(announcing[u]) /\ Len(announcing[u]) >= 1
    BY <2>2
  <2> QED
    BY <1>2, <2>3, StackTyped
<1>6. OutermostIsLast'
  BY <1>5 DEF OutermostIsLast, Announcing
<1> QED
  BY <1>4, <1>6

LEMMA OwnEnds ==
    ASSUME TypeOK, OwnChanges, OutermostIsLast, NEW t \in Threads, Ends(t), log' = log
    PROVE  OwnChanges' /\ OutermostIsLast'
<1>1. announcing' \in [Threads -> Seq(Announcements)]
  BY DEF Ends
<1>2. ASSUME NEW u \in Threads, NEW i \in 1..Len(announcing'[u])
      PROVE  i \in 1..Len(announcing[u]) /\ announcing'[u][i] = announcing[u][i]
  BY EndsFrames
<1>3. OwnChanges'
  <2>1. \A u \in Threads : /\ DOMAIN announcing'[u] = 1..Len(announcing'[u])
                           /\ DOMAIN announcing[u] = 1..Len(announcing[u])
    BY <1>1, Domains
  <2> QED
    BY <1>2, <2>1 DEF OwnChanges
<1>4. ASSUME NEW u \in Threads, announcing'[u] # <<>>
      PROVE  Announcing(u) /\ announcing'[u][1] = announcing[u][1]
  <2>1. announcing'[u] \in Seq(Announcements)
    BY <1>1
  <2>2. Len(announcing'[u]) \in Nat /\ Len(announcing'[u]) # 0
    BY <1>4, <2>1
  <2>3. 1 \in 1..Len(announcing'[u])
    BY <2>2
  <2>4. 1 \in 1..Len(announcing[u]) /\ announcing'[u][1] = announcing[u][1]
    BY <1>2, <2>3
  <2>5. Len(announcing[u]) \in Nat
    BY StackTyped
  <2>6. Len(announcing[u]) >= 1
    BY <2>4, <2>5
  <2> QED
    BY <2>4, <2>6, StackTyped
<1>5. OutermostIsLast'
  BY <1>4 DEF OutermostIsLast, Announcing
<1> QED
  BY <1>3, <1>5

LEMMA OwnClear ==
    ASSUME TypeOK, OwnChanges, OutermostIsLast, Grown, log'[Len(log) + 1].event \notin Events,
           announcing' = announcing
    PROVE  OwnChanges' /\ OutermostIsLast'
<1>1. ASSUME NEW u \in Threads, NEW i \in DOMAIN announcing[u]
      PROVE  log'[announcing[u][i].id] = log[announcing[u][i].id]
  BY StackTyped DEF Grown
<1>2. OwnChanges'
  BY <1>1 DEF OwnChanges
<1>3. DOMAIN log' = 1..(Len(log) + 1) /\ Len(log) \in Nat /\ DOMAIN log = 1..Len(log)
  BY LenProperties DEF TypeOK, Grown
<1>4. ASSUME NEW id \in DOMAIN log', log'[id].event \in Events
      PROVE  id \in DOMAIN log /\ log'[id] = log[id]
  <2>1. id \in 1..Len(log)
    BY <1>3, <1>4
  <2> QED
    BY <1>3, <2>1 DEF Grown
<1>5. OutermostIsLast'
  BY <1>4 DEF OutermostIsLast, Announcing
<1> QED
  BY <1>2, <1>5

-----------------------------------------------------------------------------
(***************************************************************************)
(* Who has been told of what.                                              *)
(***************************************************************************)

\* What DueOrTold says of one observer and one change.
DueOrToldOf(o, id) ==
    IF Due(o, id) THEN CallsWith(o, id) = {}
                  ELSE \E i \in DOMAIN got[o] : CallsWith(o, id) = {i}

LEMMA DueOrToldKept ==
    ASSUME NEW o, NEW id, DueOrToldOf(o, id),
           Due(o, id)' <=> Due(o, id), CallsWith(o, id)' = CallsWith(o, id)
    PROVE  DueOrToldOf(o, id)'
<1>1. CASE Due(o, id)
  BY <1>1 DEF DueOrToldOf
<1>2. CASE ~Due(o, id)
  <2>1. PICK i : CallsWith(o, id)' = {i}
    BY <1>2 DEF DueOrToldOf
  <2>2. i \in DOMAIN got'[o]
    BY <2>1 DEF CallsWith
  <2> QED
    BY <1>2, <2>1, <2>2 DEF DueOrToldOf
<1> QED
  BY <1>1, <1>2

\* What is due, with the announcements counted.
DueBy(ann, o, id) ==
    \E t \in Threads : \E i \in 1..Len(ann[t]) :
        /\ ann[t][i].id = id
        /\ ann[t][i].at = "committed" \/ o \in ToSet(ann[t][i].todo)

LEMMA DueIndexed ==
    ASSUME TypeOK, announcing' \in [Threads -> Seq(Announcements)], NEW o, NEW id
    PROVE  /\ Due(o, id) <=> DueBy(announcing, o, id)
           /\ Due(o, id)' <=> DueBy(announcing', o, id)
<1>1. \A u \in Threads : /\ DOMAIN announcing[u] = 1..Len(announcing[u])
                         /\ DOMAIN announcing'[u] = 1..Len(announcing'[u])
  BY Domains
<1> QED
  BY <1>1 DEF Due, DueBy

LEMMA Told ==
    ASSUME TypeOK, NEW o \in Observers, NEW i \in DOMAIN got[o]
    PROVE  got[o][i] \in 1..Len(log)
<1>1. ToldOK
  BY TypesApart
<1>2. got[o] \in Seq(1..Len(log))
  BY <1>1 DEF ToldOK
<1> QED
  BY <1>2, LenProperties

LEMMA ObserverOf ==
    ASSUME TypeOK, NEW o \in ToSet(observers)
    PROVE  o \in Observers /\ since[o] \in Nat /\ since[o] > 0
<1>1. ObserversOK /\ Len(log) \in Nat
  BY TypesApart, LenProperties DEF ItemsOK
<1>2. o \in Observers
  <2>1. PICK i \in DOMAIN observers : o = observers[i]
    BY DEF ToSet
  <2> QED
    BY <1>1, <2>1 DEF ObserversOK
<1> QED
  BY <1>1, <1>2 DEF ObserversOK

\* A new change is due to all who observe.
LEMMA DueBegins ==
    ASSUME TypeOK, DueOrTold, NEW t \in Threads, NEW event \in Events, NEW k \in Keys,
           NEW v \in Values, Commit(t, event, k, v)
    PROVE  DueOrTold'
<1> DEFINE n == Len(log)
           a == [id |-> n + 1, todo |-> <<>>, at |-> "committed"]
<1>1. Grown /\ Begins(t, a) /\ UNCHANGED <<observers, got, since>>
  BY CommitFacts DEF Commit
<1>2. n \in Nat /\ a.id = n + 1 /\ a.at = "committed"
  BY StackTyped
<1>3. announcing' \in [Threads -> Seq(Announcements)]
  BY <1>1 DEF Begins
<1> HIDE DEF a
<1> SUFFICES ASSUME NEW o \in ToSet(observers), NEW id \in since[o]..(n + 1),
                    log'[id].event \in Events
             PROVE  DueOrToldOf(o, id)'
  BY <1>1 DEF DueOrTold, DueOrToldOf, Grown
<1>4. o \in Observers /\ since[o] \in Nat /\ since[o] > 0
  BY ObserverOf
<1>5. CASE id = n + 1
  <2>1. Due(o, id)'
    <3>1. Len(announcing[t]) + 1 \in 1..Len(announcing'[t])
          /\ announcing'[t][Len(announcing[t]) + 1] = a
      BY <1>1, BeginsFrames DEF Begins
    <3>2. DueBy(announcing', o, id)
      BY <1>2, <1>5, <3>1 DEF DueBy
    <3> QED
      BY <1>3, <3>2, DueIndexed
  <2>2. CallsWith(o, id)' = {}
    <3>1. \A i \in DOMAIN got[o] : got[o][i] # n + 1
      BY <1>2, <1>4, Told
    <3> QED
      BY <1>1, <1>5, <3>1 DEF CallsWith
  <2> QED
    BY <2>1, <2>2 DEF DueOrToldOf
<1>6. CASE id # n + 1
  <2>1. id \in since[o]..n /\ id \in 1..n
    BY <1>2, <1>4, <1>6
  <2>2. log[id] = log'[id]
    BY <1>1, <2>1 DEF Grown
  <2>3. DueOrToldOf(o, id)
    BY <2>1, <2>2 DEF DueOrTold, DueOrToldOf
  <2>4. DueBy(announcing', o, id) <=> DueBy(announcing, o, id)
    <3>1. ASSUME DueBy(announcing', o, id) PROVE DueBy(announcing, o, id)
      <4>1. PICK u \in Threads : \E i \in 1..Len(announcing'[u]) :
                /\ announcing'[u][i].id = id
                /\ announcing'[u][i].at = "committed" \/ o \in ToSet(announcing'[u][i].todo)
        BY <3>1 DEF DueBy
      <4>2. PICK i \in 1..Len(announcing'[u]) :
                /\ announcing'[u][i].id = id
                /\ announcing'[u][i].at = "committed" \/ o \in ToSet(announcing'[u][i].todo)
        BY <4>1
      <4>3. i \in 1..Len(announcing[u]) /\ announcing'[u][i] = announcing[u][i]
        BY <1>1, <1>2, <1>6, <4>2, BeginsFrames
      <4> QED
        BY <4>2, <4>3 DEF DueBy
    <3>2. ASSUME DueBy(announcing, o, id) PROVE DueBy(announcing', o, id)
      <4>1. PICK u \in Threads : \E i \in 1..Len(announcing[u]) :
                /\ announcing[u][i].id = id
                /\ announcing[u][i].at = "committed" \/ o \in ToSet(announcing[u][i].todo)
        BY <3>2 DEF DueBy
      <4>2. PICK i \in 1..Len(announcing[u]) :
                /\ announcing[u][i].id = id
                /\ announcing[u][i].at = "committed" \/ o \in ToSet(announcing[u][i].todo)
        BY <4>1
      <4>3. i \in 1..Len(announcing'[u]) /\ announcing'[u][i] = announcing[u][i]
        BY <1>1, <4>2, BeginsFrames
      <4> QED
        BY <4>2, <4>3 DEF DueBy
    <3> QED
      BY <3>1, <3>2
  <2>5. CallsWith(o, id)' = CallsWith(o, id)
    BY <1>1 DEF CallsWith
  <2> QED
    BY <1>3, <2>3, <2>4, <2>5, DueIndexed, DueOrToldKept
<1> QED
  BY <1>5, <1>6

\* An announcement that goes on stays due to x, or does not become so.
LEMMA DueGoesOn ==
    ASSUME TypeOK, NEW t \in Threads, NEW a, NEW b, GoesOn(t, b), NEW x, NEW id,
           a = announcing[t][Len(announcing[t])], a.id = b.id,
           a.id = id =>
               (b.at = "committed" \/ x \in ToSet(b.todo)
                    <=> a.at = "committed" \/ x \in ToSet(a.todo))
    PROVE  Due(x, id)' <=> Due(x, id)
<1>1. announcing' \in [Threads -> Seq(Announcements)]
  BY DEF GoesOn
<1>2. ASSUME NEW u \in Threads, NEW i \in 1..Len(announcing[u])
      PROVE  /\ announcing'[u][i].id = announcing[u][i].id
             /\ announcing[u][i].id = id =>
                   (announcing'[u][i].at = "committed" \/ x \in ToSet(announcing'[u][i].todo)
                    <=> announcing[u][i].at = "committed" \/ x \in ToSet(announcing[u][i].todo))
  <2>1. CASE u = t /\ i = Len(announcing[t])
    <3>1. announcing'[u][i] = b /\ announcing[u][i] = a
      BY <2>1, GoesOnFrames
    <3> QED
      BY <3>1
  <2>2. CASE ~(u = t /\ i = Len(announcing[t]))
    <3>1. announcing'[u][i] = announcing[u][i]
      BY <2>2, GoesOnFrames
    <3> QED
      BY <3>1
  <2> QED
    BY <2>1, <2>2
<1>3. \A u \in Threads : Len(announcing'[u]) = Len(announcing[u])
  BY GoesOnFrames
<1>4. DueBy(announcing', x, id) <=> DueBy(announcing, x, id)
  <2>1. ASSUME DueBy(announcing', x, id) PROVE DueBy(announcing, x, id)
    <3>1. PICK u \in Threads : \E i \in 1..Len(announcing'[u]) :
              /\ announcing'[u][i].id = id
              /\ announcing'[u][i].at = "committed" \/ x \in ToSet(announcing'[u][i].todo)
      BY <2>1 DEF DueBy
    <3>2. PICK i \in 1..Len(announcing[u]) :
              /\ announcing'[u][i].id = id
              /\ announcing'[u][i].at = "committed" \/ x \in ToSet(announcing'[u][i].todo)
      BY <1>3, <3>1
    <3>3. /\ announcing[u][i].id = id
          /\ announcing[u][i].at = "committed" \/ x \in ToSet(announcing[u][i].todo)
      BY <1>2, <3>2
    <3> QED
      BY <3>3 DEF DueBy
  <2>2. ASSUME DueBy(announcing, x, id) PROVE DueBy(announcing', x, id)
    <3>1. PICK u \in Threads : \E i \in 1..Len(announcing[u]) :
              /\ announcing[u][i].id = id
              /\ announcing[u][i].at = "committed" \/ x \in ToSet(announcing[u][i].todo)
      BY <2>2 DEF DueBy
    <3>2. PICK i \in 1..Len(announcing[u]) :
              /\ announcing[u][i].id = id
              /\ announcing[u][i].at = "committed" \/ x \in ToSet(announcing[u][i].todo)
      BY <3>1
    <3>3. /\ i \in 1..Len(announcing'[u]) /\ announcing'[u][i].id = id
          /\ announcing'[u][i].at = "committed" \/ x \in ToSet(announcing'[u][i].todo)
      BY <1>2, <1>3, <3>2
    <3> QED
      BY <3>3 DEF DueBy
  <2> QED
    BY <2>1, <2>2
<1> QED
  BY <1>1, <1>4, DueIndexed

\* Copying the observers, what was due to all is due to each of them.
LEMMA DueCopied ==
    ASSUME TypeOK, DueOrTold, NEW t \in Threads, CopyObservers(t)
    PROVE  DueOrTold'
<1>1. UNCHANGED <<items, observers, log, got, since>>
  BY DEF CopyObservers
<1>2. PICK a \in Announcements, b \in Announcements :
          /\ a = announcing[t][Len(announcing[t])] /\ GoesOn(t, b)
          /\ a.at = "committed"
          /\ b.id = a.id /\ b.at = "copied" /\ b.todo = observers
  BY CopyFacts
<1> SUFFICES ASSUME NEW o \in ToSet(observers), NEW id \in since[o]..Len(log),
                    log[id].event \in Events
             PROVE  DueOrToldOf(o, id)'
  BY <1>1 DEF DueOrTold, DueOrToldOf
<1>3. DueOrToldOf(o, id)
  BY DEF DueOrTold, DueOrToldOf
<1>4. Due(o, id)' <=> Due(o, id)
  BY <1>2, DueGoesOn
<1>5. CallsWith(o, id)' = CallsWith(o, id)
  BY <1>1 DEF CallsWith
<1> QED
  BY <1>3, <1>4, <1>5, DueOrToldKept

\* A call makes the change told, and it is due to the observer no more.
LEMMA DueCalled ==
    ASSUME TypeOK, AnnouncedOnce, DueOrTold, NEW t \in Threads, CallObserver(t)
    PROVE  DueOrTold'
<1>1. UNCHANGED <<items, observers, log, since>>
  BY DEF CallObserver
<1>2. PICK a \in Announcements, b \in Announcements, p \in Observers :
          /\ a = announcing[t][Len(announcing[t])] /\ GoesOn(t, b)
          /\ Announcing(t) /\ a.todo # <<>> /\ a.at # "committed"
          /\ b.id = a.id /\ b.at = "calling" /\ p = Head(a.todo) /\ b.todo = Tail(a.todo)
          /\ got' = [got EXCEPT ![p] = Append(@, a.id)]
  BY CallFacts
<1>3. /\ Len(announcing[t]) \in 1..Len(announcing[t])
      /\ a.todo \in Seq(Observers) /\ IsInjective(a.todo) /\ a.id \in 1..Len(log)
  BY <1>2, StackTyped
<1>4. p \in ToSet(a.todo) /\ ToSet(b.todo) = ToSet(a.todo) \ {p}
  <2>1. ToSet(b.todo) = ToSet(a.todo) \ {p}
    BY <1>2, <1>3, TailOnce
  <2>2. 1 \in DOMAIN a.todo /\ p = a.todo[1]
    BY <1>2, <1>3
  <2> QED
    BY <2>1, <2>2 DEF ToSet
<1>5. /\ got[p] \in Seq(1..Len(log)) /\ got'[p] = Append(got[p], a.id)
      /\ \A x \in Observers : x # p => got'[x] = got[x]
  <2>1. ToldOK
    BY TypesApart
  <2> QED
    BY <1>2, <2>1 DEF ToldOK
<1>6. /\ Len(got[p]) \in Nat /\ DOMAIN got[p] = 1..Len(got[p])
      /\ DOMAIN got'[p] = 1..(Len(got[p]) + 1)
      /\ \A i \in 1..Len(got[p]) : got'[p][i] = got[p][i]
      /\ got'[p][Len(got[p]) + 1] = a.id
  <2>1. /\ Append(got[p], a.id) \in Seq(1..Len(log))
        /\ Len(Append(got[p], a.id)) = Len(got[p]) + 1
        /\ \A i \in 1..Len(got[p]) : Append(got[p], a.id)[i] = got[p][i]
        /\ Append(got[p], a.id)[Len(got[p]) + 1] = a.id
    BY <1>3, <1>5, AppendProperties
  <2> QED
    BY <1>5, <2>1, LenProperties
<1> SUFFICES ASSUME NEW o \in ToSet(observers), NEW id \in since[o]..Len(log),
                    log[id].event \in Events
             PROVE  DueOrToldOf(o, id)'
  BY <1>1 DEF DueOrTold, DueOrToldOf
<1>7. DueOrToldOf(o, id) /\ o \in Observers
  BY ObserverOf DEF DueOrTold, DueOrToldOf
<1>8. CASE o = p /\ id = a.id
  <2>1. Due(o, id)
    <3>1. DueBy(announcing, o, id)
      BY <1>2, <1>3, <1>4, <1>8 DEF DueBy
    <3> QED
      BY <1>2, <3>1, DueIndexed DEF GoesOn
  <2>2. \A i \in 1..Len(got[p]) : got[p][i] # a.id
    BY <1>6, <1>7, <1>8, <2>1 DEF DueOrToldOf, CallsWith
  <2>3. \A i \in 1..(Len(got[p]) + 1) : i \in 1..Len(got[p]) \/ i = Len(got[p]) + 1
    BY <1>6
  <2>4. Len(got[p]) + 1 \in 1..(Len(got[p]) + 1)
    BY <1>6
  <2>5. CallsWith(o, id)' = {Len(got[p]) + 1}
    <3>1. CallsWith(o, id)' = {i \in DOMAIN got'[o] : got'[o][i] = id}
      BY DEF CallsWith
    <3> QED
      BY <1>6, <1>8, <2>2, <2>3, <2>4, <3>1
  <2>6. ~Due(o, id)'
    <3> SUFFICES ASSUME DueBy(announcing', o, id) PROVE FALSE
      BY <1>2, DueIndexed DEF GoesOn
    <3>1. PICK u \in Threads : \E i \in 1..Len(announcing'[u]) :
              /\ announcing'[u][i].id = id
              /\ announcing'[u][i].at = "committed" \/ o \in ToSet(announcing'[u][i].todo)
      BY DEF DueBy
    <3>2. PICK i \in 1..Len(announcing'[u]) :
              /\ announcing'[u][i].id = id
              /\ announcing'[u][i].at = "committed" \/ o \in ToSet(announcing'[u][i].todo)
      BY <3>1
    <3>3. i \in 1..Len(announcing[u])
      BY <1>2, GoesOnFrames
    <3>4. ~(u = t /\ i = Len(announcing[t]))
      <4> SUFFICES ASSUME u = t /\ i = Len(announcing[t]) PROVE FALSE
        OBVIOUS
      <4>1. announcing'[u][i] = b
        BY <1>2, GoesOnFrames
      <4> QED
        BY <1>2, <1>4, <1>8, <3>2, <4>1
    <3>5. announcing[u][i].id = announcing[t][Len(announcing[t])].id
      BY <1>2, <1>8, <3>2, <3>3, <3>4, GoesOnFrames
    <3>6. \A x, y \in Threads : \A g \in 1..Len(announcing[x]), h \in 1..Len(announcing[y]) :
              announcing[x][g].id = announcing[y][h].id => x = y /\ g = h
      BY <1>2, OnceIndexed DEF GoesOn
    <3>7. \A g \in 1..Len(announcing[u]), h \in 1..Len(announcing[t]) :
              announcing[u][g].id = announcing[t][h].id => u = t /\ g = h
      BY <3>6
    <3> QED
      BY <1>3, <3>3, <3>4, <3>5, <3>7
  <2>7. Len(got[p]) + 1 \in DOMAIN got'[o]
    BY <1>6, <1>8, <2>4
  <2> QED
    BY <2>5, <2>6, <2>7 DEF DueOrToldOf
<1>9. CASE ~(o = p /\ id = a.id)
  <2>1. Due(o, id)' <=> Due(o, id)
    <3>1. a.id = id => (o \in ToSet(b.todo) <=> o \in ToSet(a.todo))
      BY <1>4, <1>9
    <3> QED
      BY <1>2, <3>1, DueGoesOn
  <2>2. CallsWith(o, id)' = CallsWith(o, id)
    <3>1. CASE o # p
      BY <1>5, <1>7, <3>1 DEF CallsWith
    <3>2. CASE o = p
      <4>1. id # a.id
        BY <1>9, <3>2
      <4>2. \A i \in 1..(Len(got[p]) + 1) : i \in 1..Len(got[p]) \/ i = Len(got[p]) + 1
        BY <1>6
      <4>3. \A i \in 1..Len(got[p]) : i \in 1..(Len(got[p]) + 1)
        BY <1>6
      <4> QED
        BY <1>6, <3>2, <4>1, <4>2, <4>3 DEF CallsWith
    <3> QED
      BY <3>1, <3>2
  <2> QED
    BY <1>7, <2>1, <2>2, DueOrToldKept
<1> QED
  BY <1>8, <1>9

\* An announcement that ends is due to nobody any more.
LEMMA DueEnds ==
    ASSUME TypeOK, DueOrTold, NEW t \in Threads, Announced(t)
    PROVE  DueOrTold'
<1>1. UNCHANGED <<items, observers, log, got, since>>
  BY DEF Announced
<1>2. /\ Ends(t)
      /\ announcing[t][Len(announcing[t])].at # "committed"
      /\ announcing[t][Len(announcing[t])].todo = <<>>
  BY AnnouncedFacts
<1>3. announcing' \in [Threads -> Seq(Announcements)]
  BY <1>2 DEF Ends
<1> SUFFICES ASSUME NEW o \in ToSet(observers), NEW id \in since[o]..Len(log),
                    log[id].event \in Events
             PROVE  DueOrToldOf(o, id)'
  BY <1>1 DEF DueOrTold, DueOrToldOf
<1>4. DueOrToldOf(o, id)
  BY DEF DueOrTold, DueOrToldOf
<1>5. ASSUME DueBy(announcing', o, id) PROVE DueBy(announcing, o, id)
  <2>1. PICK u \in Threads : \E i \in 1..Len(announcing'[u]) :
            /\ announcing'[u][i].id = id
            /\ announcing'[u][i].at = "committed" \/ o \in ToSet(announcing'[u][i].todo)
    BY <1>5 DEF DueBy
  <2> QED
    BY <1>2, <2>1, EndsFrames DEF DueBy
<1>6. ASSUME DueBy(announcing, o, id) PROVE DueBy(announcing', o, id)
  <2>1. PICK u \in Threads : \E i \in 1..Len(announcing[u]) :
            /\ announcing[u][i].id = id
            /\ announcing[u][i].at = "committed" \/ o \in ToSet(announcing[u][i].todo)
    BY <1>6 DEF DueBy
  <2>2. PICK i \in 1..Len(announcing[u]) :
            /\ announcing[u][i].id = id
            /\ announcing[u][i].at = "committed" \/ o \in ToSet(announcing[u][i].todo)
    BY <2>1
  <2>3. ~(u = t /\ i = Len(announcing[t]))
    <3>1. o \notin ToSet(<<>>)
      BY DEF ToSet
    <3> QED
      BY <1>2, <2>2, <3>1
  <2>4. i \in 1..Len(announcing'[u]) /\ announcing'[u][i] = announcing[u][i]
    BY <1>2, <2>2, <2>3, EndsFrames
  <2> QED
    BY <2>2, <2>4 DEF DueBy
<1>7. Due(o, id)' <=> Due(o, id)
  BY <1>3, <1>5, <1>6, DueIndexed
<1>8. CallsWith(o, id)' = CallsWith(o, id)
  BY <1>1 DEF CallsWith
<1> QED
  BY <1>4, <1>7, <1>8, DueOrToldKept

\* Nobody is due what came before it observed, or is told of clear().
LEMMA DueComesAndGoes ==
    ASSUME TypeOK, DueOrTold,
           \/ \E o \in Observers : Observe(o) \/ StopObserving(o)
           \/ \E t \in Threads : Clear(t)
    PROVE  DueOrTold'
<1>1. announcing' = announcing /\ got' = got
  BY DEF Observe, StopObserving, Clear
<1>2. Len(log) \in Nat /\ ObserversOK
  BY TypesApart, LenProperties DEF ItemsOK
<1>3. ASSUME NEW o, NEW id, DueOrToldOf(o, id) PROVE DueOrToldOf(o, id)'
  BY <1>1, <1>3 DEF DueOrToldOf, Due, CallsWith
<1>4. ASSUME NEW o \in Observers, Observe(o) PROVE DueOrTold'
  <2>1. /\ ToSet(observers') = ToSet(observers) \cup {o}
        /\ since' = [since EXCEPT ![o] = Len(log) + 1] /\ log' = log
    BY <1>2, <1>4, AppendOnce DEF Observe, ObserversOK
  <2> SUFFICES ASSUME NEW x \in ToSet(observers'), NEW id \in since'[x]..Len(log),
                      log[id].event \in Events
               PROVE  DueOrToldOf(x, id)'
    BY <2>1 DEF DueOrTold, DueOrToldOf
  <2>2. x # o
    <3>1. x = o => since'[x] = Len(log) + 1
      BY <1>2, <2>1 DEF ObserversOK
    <3>2. ~(\E j \in (Len(log) + 1)..Len(log) : TRUE)
      BY <1>2
    <3> QED
      BY <3>1, <3>2
  <2>3. x \in ToSet(observers) /\ x \in Observers
    BY <2>1, <2>2, ObserverOf
  <2>4. since'[x] = since[x]
    BY <1>2, <2>1, <2>2, <2>3 DEF ObserversOK
  <2> QED
    BY <1>3, <2>3, <2>4 DEF DueOrTold, DueOrToldOf
<1>5. ASSUME NEW o \in Observers, StopObserving(o) PROVE DueOrTold'
  <2>1. /\ ToSet(observers') = ToSet(observers) \ {o}
        /\ since' = [since EXCEPT ![o] = 0] /\ log' = log
    BY <1>2, <1>5, RemovedOnce DEF StopObserving, ObserversOK
  <2> SUFFICES ASSUME NEW x \in ToSet(observers'), NEW id \in since'[x]..Len(log),
                      log[id].event \in Events
               PROVE  DueOrToldOf(x, id)'
    BY <2>1 DEF DueOrTold, DueOrToldOf
  <2>2. x \in ToSet(observers) /\ x # o /\ x \in Observers
    BY <2>1, ObserverOf
  <2>3. since'[x] = since[x]
    BY <1>2, <2>1, <2>2 DEF ObserversOK
  <2> QED
    BY <1>3, <2>2, <2>3 DEF DueOrTold, DueOrToldOf
<1>6. ASSUME NEW t \in Threads, Clear(t) PROVE DueOrTold'
  <2> DEFINE e == [event |-> "cleared"]
  <2>1. e \in Entries /\ log' = Append(log, e) /\ UNCHANGED <<observers, since>>
    BY <1>6 DEF Entries, Clear
  <2>2. Grown /\ log'[Len(log) + 1] = e /\ e.event \notin Events
    BY <2>1, LogGrows DEF Events
  <2> SUFFICES ASSUME NEW x \in ToSet(observers), NEW id \in since[x]..(Len(log) + 1),
                      log'[id].event \in Events
               PROVE  DueOrToldOf(x, id)'
    BY <2>1, <2>2 DEF DueOrTold, DueOrToldOf, Grown
  <2>3. x \in Observers /\ since[x] \in Nat /\ since[x] > 0
    BY ObserverOf
  <2>4. id # Len(log) + 1
    BY <2>2
  <2>5. id \in since[x]..Len(log) /\ id \in 1..Len(log)
    BY <1>2, <2>3, <2>4
  <2>6. log[id] = log'[id]
    BY <2>2, <2>5 DEF Grown
  <2> QED
    BY <1>3, <2>5, <2>6 DEF DueOrTold, DueOrToldOf
<1> QED
  BY <1>4, <1>5, <1>6

-----------------------------------------------------------------------------
(***************************************************************************)
(* The order in which one observer is told.                                *)
(***************************************************************************)

\* The order of the changes with the calls of observer o counted.
OrderedFor(L, g) ==
    \A i, j \in 1..Len(g) :
        i < j /\ L[g[i]].by = L[g[j]].by /\ ~L[g[i]].nested /\ ~L[g[j]].nested =>
            g[i] =< g[j]

LEMMA OrderIndexed ==
    /\ ToldOK => (OrderPerThread <=> \A o \in Observers : OrderedFor(log, got[o]))
    /\ ToldOK' => (OrderPerThread' <=> \A o \in Observers : OrderedFor(log', got'[o]))
<1>1. ASSUME ToldOK PROVE \A o \in Observers : DOMAIN got[o] = 1..Len(got[o])
  BY <1>1, LenProperties DEF ToldOK
<1>2. ASSUME ToldOK' PROVE \A o \in Observers : DOMAIN got'[o] = 1..Len(got'[o])
  BY <1>2, LenProperties DEF ToldOK
<1> QED
  BY <1>1, <1>2 DEF OrderPerThread, OrderedFor

\* Only the call of an observer adds to what it was called with, and the change
\* is the last of its thread, or one made from within an observer.
LEMMA OrderStep ==
    ASSUME TypeOK, TypeOK', OwnChanges, OutermostIsLast, OrderPerThread, [Next]_vars
    PROVE  OrderPerThread'
<1>1. ToldOK /\ ToldOK' /\ Len(log) \in Nat
  BY TypesApart, TypesApartNext, LenProperties DEF ItemsOK
<1>2. \A o \in Observers : OrderedFor(log, got[o])
  BY <1>1, OrderIndexed
<1>3. ASSUME NEW t \in Threads, CallObserver(t) PROVE OrderPerThread'
  <2>1. log' = log
    BY <1>3 DEF CallObserver
  <2>2. PICK a \in Announcements, b \in Announcements, p \in Observers :
            /\ a = announcing[t][Len(announcing[t])]
            /\ Announcing(t)
            /\ got' = [got EXCEPT ![p] = Append(@, a.id)]
    BY <1>3, CallFacts
  <2>3. /\ Len(announcing[t]) \in DOMAIN announcing[t] /\ a.id \in 1..Len(log)
        /\ Len(announcing[t]) >= 1 /\ Len(announcing[t]) \in Nat
    BY <2>2, StackTyped
  <2>4. /\ log[a.id].by = t
        /\ ~log[a.id].nested => Len(announcing[t]) = 1
    <3>1. log[a.id].by = t /\ (log[a.id].nested <=> Len(announcing[t]) > 1)
      BY <2>2, <2>3 DEF OwnChanges
    <3>2. Len(announcing[t]) > 1 \/ Len(announcing[t]) = 1
      <4>1. \A n \in Nat : n >= 1 => n > 1 \/ n = 1
        OBVIOUS
      <4> QED
        BY <2>3, <4>1
    <3> QED
      BY <3>1, <3>2, Zenon
  <2>5. /\ got[p] \in Seq(1..Len(log)) /\ got'[p] = Append(got[p], a.id)
        /\ \A x \in Observers : x # p => got'[x] = got[x]
    BY <1>1, <2>2 DEF ToldOK
  <2>6. /\ Len(got[p]) \in Nat /\ Len(got'[p]) = Len(got[p]) + 1
        /\ \A i \in 1..Len(got[p]) : got'[p][i] = got[p][i] /\ got[p][i] \in 1..Len(log)
        /\ got'[p][Len(got[p]) + 1] = a.id
    BY <2>3, <2>5, AppendProperties, LenProperties
  <2>7. ASSUME NEW i \in 1..Len(got'[p]), NEW j \in 1..Len(got'[p]), i < j,
               log[got'[p][i]].by = log[got'[p][j]].by,
               ~log[got'[p][i]].nested, ~log[got'[p][j]].nested
        PROVE  got'[p][i] =< got'[p][j]
    <3>1. i \in 1..Len(got[p]) /\ (j \in 1..Len(got[p]) \/ j = Len(got[p]) + 1)
      BY <2>6, <2>7
    <3>2. CASE j \in 1..Len(got[p])
      BY <1>2, <2>6, <2>7, <3>1, <3>2 DEF OrderedFor
    <3>3. CASE j = Len(got[p]) + 1
      <4>1. got'[p][j] = a.id /\ ~log[a.id].nested
        <5>1. got'[p][j] = a.id
          BY <2>6, <3>3
        <5>2. ~log[got'[p][j]].nested
          BY <2>7
        <5> QED
          BY <5>1, <5>2, Zenon
      <4>2. Len(announcing[t]) = 1
        BY <2>4, <4>1, Zenon
      <4>3. announcing[t][1].id = a.id
        BY <2>2, <4>2
      <4>4. log[got[p][i]].by = t /\ ~log[got[p][i]].nested /\ got[p][i] \in DOMAIN log
        BY <2>4, <2>6, <2>7, <3>1, <4>1, StackTyped
      <4>5. log[got[p][i]].event \in Events
        BY <1>1, <3>1 DEF ToldOK
      <4>6. got[p][i] =< announcing[t][1].id
        BY <2>2, <4>4, <4>5 DEF OutermostIsLast
      <4> QED
        BY <2>6, <3>1, <4>1, <4>3, <4>6
    <3> QED
      BY <3>1, <3>2, <3>3
  <2>8. \A x \in Observers : OrderedFor(log', got'[x])
    BY <1>2, <2>1, <2>5, <2>7 DEF OrderedFor
  <2> QED
    BY <1>1, <2>8, OrderIndexed
<1>4. ASSUME got' = got, \A id \in 1..Len(log) : log'[id] = log[id] PROVE OrderPerThread'
  <2>1. \A o \in Observers : \A i \in 1..Len(got[o]) : got[o][i] \in 1..Len(log)
    BY <1>1, LenProperties DEF ToldOK
  <2>2. \A o \in Observers : \A i \in 1..Len(got[o]) : log'[got[o][i]] = log[got[o][i]]
    BY <1>4, <2>1
  <2>3. \A o \in Observers : OrderedFor(log', got'[o])
    BY <1>2, <1>4, <2>2 DEF OrderedFor
  <2> QED
    BY <1>1, <2>3, OrderIndexed
<1>5. ASSUME NEW t \in Threads, Register(t) \/ Unregister(t) \/ Clear(t)
      PROVE  got' = got /\ \A id \in 1..Len(log) : log'[id] = log[id]
  <2>1. \E e : log' = Append(log, e) /\ got' = got
    BY <1>5 DEF Register, Unregister, Clear, Commit
  <2> QED
    BY <2>1 DEF TypeOK
<1>6. ASSUME \/ \E t \in Threads : CopyObservers(t) \/ Announced(t)
             \/ \E o \in Observers : Observe(o) \/ StopObserving(o)
             \/ UNCHANGED vars
      PROVE  got' = got /\ log' = log
  BY <1>6 DEF CopyObservers, Announced, Observe, StopObserving, vars
<1> QED
  BY <1>3, <1>4, <1>5, <1>6 DEF Next

-----------------------------------------------------------------------------
(***************************************************************************)
(* The invariant of a registry.                                            *)
(***************************************************************************)

LEMMA InitInv == Init => RegistryInv /\ OrderPerThread
<1> SUFFICES ASSUME Init PROVE RegistryInv /\ OrderPerThread
  OBVIOUS
<1>1. TypeOK
  BY InitTyped
<1>2. /\ log = <<>> /\ Len(log) = 0 /\ DOMAIN log = {} /\ log \in Seq(Entries)
      /\ observers = <<>> /\ ToSet(observers) = {}
      /\ \A t \in Threads : announcing[t] = <<>> /\ DOMAIN announcing[t] = {}
      /\ \A o \in Observers : got[o] = <<>> /\ DOMAIN got[o] = {}
      /\ \A k \in Keys : items[k] = NoValue
  BY DEF Init, ToSet
<1>3. LogExplainsItems
  BY <1>2 DEF LogExplainsItems, IsAfter
<1>4. AnnouncedOnce /\ DueOrTold /\ OwnChanges /\ OutermostIsLast /\ OrderPerThread
  BY <1>2 DEF AnnouncedOnce, DueOrTold, OwnChanges, OutermostIsLast, Announcing, OrderPerThread
<1> QED
  BY <1>1, <1>3, <1>4 DEF RegistryInv

LEMMA StepInv == RegistryInv /\ [Next]_vars => RegistryInv'
<1> SUFFICES ASSUME RegistryInv, [Next]_vars PROVE RegistryInv'
  OBVIOUS
<1>1. /\ TypeOK /\ LogExplainsItems
      /\ AnnouncedOnce /\ DueOrTold
      /\ OwnChanges /\ OutermostIsLast
  BY DEF RegistryInv
<1>2. TypeOK'
  BY <1>1, TypeStep
<1>3. ASSUME NEW t \in Threads, Register(t) \/ Unregister(t) PROVE RegistryInv'
  <2>1. PICK event \in Events, k \in Keys, v \in Values :
            MayCall(t) /\ Commit(t, event, k, v)
    <3>1. CASE Register(t)
      BY <3>1 DEF Register, Events
    <3>2. CASE Unregister(t)
      <4>1. PICK k \in Keys : items[k] # NoValue /\ MayCall(t)
                              /\ Commit(t, "unregistered", k, items[k])
        BY <3>2 DEF Unregister
      <4>2. items[k] \in Values /\ "unregistered" \in Events
        BY <1>1, <4>1 DEF TypeOK, Events
      <4> QED
        BY <4>1, <4>2
    <3> QED
      BY <1>3, <3>1, <3>2
  <2>2. LogExplainsItems'
    BY <1>1, <1>3, ExplainsStep
  <2>3. OwnChanges' /\ OutermostIsLast'
    BY <1>1, <2>1, OwnBegins
  <2>4. DueOrTold'
    BY <1>1, <2>1, DueBegins
  <2>5. AnnouncedOnce'
    <3> DEFINE a == [id |-> Len(log) + 1, todo |-> <<>>, at |-> "committed"]
    <3>1. Begins(t, a) /\ a.id = Len(log) + 1
      BY <1>1, <2>1, CommitFacts
    <3> HIDE DEF a
    <3> QED
      BY <1>1, <3>1, OnceBegins
  <2> QED
    BY <1>2, <2>2, <2>3, <2>4, <2>5 DEF RegistryInv
<1>4. ASSUME NEW t \in Threads, Clear(t) PROVE RegistryInv'
  <2> DEFINE e == [event |-> "cleared"]
  <2>1. e \in Entries /\ log' = Append(log, e) /\ announcing' = announcing
    BY <1>4 DEF Entries, Clear
  <2>2. Grown /\ log'[Len(log) + 1] = e /\ e.event \notin Events
    BY <1>1, <2>1, LogGrows DEF Events
  <2>3. OwnChanges' /\ OutermostIsLast'
    BY <1>1, <2>1, <2>2, OwnClear
  <2>4. LogExplainsItems' /\ DueOrTold'
    BY <1>1, <1>4, ExplainsStep, DueComesAndGoes
  <2>5. AnnouncedOnce'
    BY <1>1, <2>1 DEF AnnouncedOnce
  <2> QED
    BY <1>2, <2>3, <2>4, <2>5 DEF RegistryInv
<1>5. ASSUME UNCHANGED <<log, items>> PROVE LogExplainsItems'
  BY <1>1, <1>5 DEF LogExplainsItems, SaysTruly, IsAfter, Touches, Leaves
<1>6. ASSUME NEW t \in Threads, CopyObservers(t) \/ CallObserver(t) PROVE RegistryInv'
  <2>1. PICK b : GoesOn(t, b) /\ announcing[t][Len(announcing[t])].id = b.id
    <3>1. CASE CopyObservers(t)
      BY <1>1, <3>1, CopyFacts
    <3>2. CASE CallObserver(t)
      BY <1>1, <3>2, CallFacts
    <3> QED
      BY <1>6, <3>1, <3>2
  <2>2. UNCHANGED <<log, items>>
    BY <1>6 DEF CopyObservers, CallObserver
  <2>3. AnnouncedOnce' /\ OwnChanges' /\ OutermostIsLast'
    BY <1>1, <2>1, <2>2, OnceGoesOn, OwnGoesOn
  <2>4. DueOrTold'
    BY <1>1, <1>6, DueCopied, DueCalled
  <2> QED
    BY <1>2, <1>5, <2>2, <2>3, <2>4 DEF RegistryInv
<1>7. ASSUME NEW t \in Threads, Announced(t) PROVE RegistryInv'
  <2>1. Ends(t) /\ UNCHANGED <<log, items>>
    BY <1>1, <1>7, AnnouncedFacts DEF Announced
  <2>2. AnnouncedOnce' /\ OwnChanges' /\ OutermostIsLast' /\ DueOrTold'
    BY <1>1, <1>7, <2>1, OnceEnds, OwnEnds, DueEnds
  <2> QED
    BY <1>2, <1>5, <2>1, <2>2 DEF RegistryInv
<1>8. ASSUME NEW o \in Observers, Observe(o) \/ StopObserving(o) PROVE RegistryInv'
  <2>1. UNCHANGED <<items, announcing, log, got>>
    BY <1>8 DEF Observe, StopObserving
  <2>2. AnnouncedOnce' /\ OwnChanges' /\ OutermostIsLast'
    BY <1>1, <2>1 DEF AnnouncedOnce, OwnChanges, OutermostIsLast, Announcing
  <2>3. DueOrTold'
    BY <1>1, <1>8, DueComesAndGoes
  <2> QED
    BY <1>2, <1>5, <2>1, <2>2, <2>3 DEF RegistryInv
<1>9. CASE UNCHANGED vars
  <2>1. AnnouncedOnce' /\ OwnChanges' /\ OutermostIsLast' /\ DueOrTold'
    BY <1>1, <1>9 DEF vars, AnnouncedOnce, OwnChanges, OutermostIsLast, Announcing,
                      DueOrTold, Due, CallsWith
  <2> QED
    BY <1>2, <1>5, <1>9, <2>1 DEF RegistryInv, vars
<1> QED
  BY <1>3, <1>4, <1>6, <1>7, <1>8, <1>9 DEF Next

\* With any number of threads and observers at work the changes explain the
\* items (register(), unregister() and clear() commit under one lock), no change
\* is announced twice, and every observer has been told of each change since it
\* came, or is still to be.
THEOREM RegistryInvariant == Spec => []RegistryInv
<1> QED
  BY InitInv, StepInv, PTL DEF Spec

\* Whoever observes is told of every change since it came exactly once, though
\* others come, go and change the registry in the midst of it: observe() and
\* _notify() with its copy of the list.
THEOREM ToldExactlyOnce == Spec => []ExactlyOnce
<1>1. RegistryInv => ExactlyOnce
  <2> SUFFICES ASSUME RegistryInv, \A t \in Threads : ~Announcing(t),
                      NEW o \in ToSet(observers), NEW id \in since[o]..Len(log),
                      log[id].event \in Events
               PROVE  \E i \in DOMAIN got[o] : CallsWith(o, id) = {i}
    BY DEF ExactlyOnce
  <2>1. ~Due(o, id)
    BY DEF Due, Announcing
  <2> QED
    BY <2>1 DEF RegistryInv, DueOrTold
<1> QED
  BY <1>1, RegistryInvariant, PTL

\* The changes that one thread makes one after the other reach every observer in
\* that order: a call that changes the registry returns when all have been told.
THEOREM ToldInOrder == Spec => []OrderPerThread
<1>1. RegistryInv /\ RegistryInv' /\ OrderPerThread /\ [Next]_vars => OrderPerThread'
  BY OrderStep DEF RegistryInv
<1> QED
  BY <1>1, InitInv, RegistryInvariant, PTL DEF Spec

-----------------------------------------------------------------------------
(***************************************************************************)
(* The registry of capabilities.                                           *)
(***************************************************************************)

LEMMA CallTyped ==
    ASSUME CapTypeOK, NEW t \in Threads, pending[t] # NoCall
    PROVE  /\ pending[t] \in Calls /\ Updated(pending[t]) \in Values
           /\ pending[t].key \in Keys /\ pending[t].was \in Values
           /\ pending[t].status \in Statuses
           /\ pending[t].seen \in Nat /\ pending[t].seen =< Len(log)
<1>1. pending[t] \in Calls /\ pending[t].seen =< Len(log)
  BY DEF CapTypeOK
<1>2. /\ pending[t].key \in Keys /\ pending[t].was \in Values
      /\ pending[t].status \in Statuses /\ pending[t].seen \in Nat
  BY <1>1 DEF Calls
<1>3. Updated(pending[t]) \in Values
  BY <1>2, CapabilityAssumption DEF Updated
<1> QED
  BY <1>1, <1>2, <1>3

\* Every step of a registry of capabilities is one of a registry: set_status()
\* writes by a register() with replace=True.
LEMMA CapStepIsStep == CapTypeOK /\ [CapNext]_capVars => [Next]_vars
<1> SUFFICES ASSUME CapTypeOK, [CapNext]_capVars PROVE [Next]_vars
  OBVIOUS
<1>1. ASSUME NEW t \in Threads, Change(t) \/ Announce(t) PROVE [Next]_vars
  BY <1>1 DEF Change, Announce, Next
<1>2. ASSUME NEW t \in Threads, SetStatusReads(t) PROVE UNCHANGED vars
  BY <1>2 DEF SetStatusReads
<1>3. ASSUME NEW t \in Threads, SetStatusWrites(t) PROVE [Next]_vars
  <2>1. Updated(pending[t]) \in Values /\ pending[t].key \in Keys
    BY <1>3, CallTyped DEF SetStatusWrites
  <2>2. Register(t)
    BY <1>3, <2>1 DEF SetStatusWrites, Register
  <2> QED
    BY <2>2 DEF Next
<1>4. CASE UNCHANGED capVars
  BY <1>4 DEF capVars
<1> QED
  BY <1>1, <1>2, <1>3, <1>4 DEF CapNext, Next

LEMMA CapInitInv == CapInit => CapInv
<1> SUFFICES ASSUME CapInit PROVE CapInv
  OBVIOUS
<1>1. RegistryInv
  BY InitInv DEF CapInit
<1>2. CapTypeOK
  <2>1. log = <<>> /\ basis = <<>> /\ pending = [t \in Threads |-> NoCall] /\ wrapped \in BOOLEAN
    BY DEF CapInit, Init
  <2> QED
    BY <2>1 DEF CapTypeOK
<1>3. ReadsTruly
  BY DEF CapInit, ReadsTruly
<1> QED
  BY <1>1, <1>2, <1>3 DEF CapInv

\* What the steps do to the log and to its basis.
LEMMA CapLog ==
    ASSUME TypeOK, CapTypeOK, [CapNext]_capVars
    PROVE  \/ log' = log /\ basis' = basis
           \/ /\ Grown
              /\ \E t \in Threads, b \in Calls \cup {NoCall} :
                    /\ basis' = Append(basis, b)
                    /\ b # NoCall => SetStatusWrites(t) /\ b = pending[t]
<1>1. ASSUME NEW t \in Threads, Register(t) \/ Unregister(t) \/ Clear(t) PROVE Grown
  <2>1. CASE Register(t)
    <3>1. PICK k \in Keys, v \in Values :
              Commit(t, IF items[k] = NoValue THEN "registered" ELSE "replaced", k, v)
      BY <2>1 DEF Register
    <3>2. (IF items[k] = NoValue THEN "registered" ELSE "replaced") \in Events
      BY DEF Events
    <3> QED
      BY <3>1, <3>2, CommitFacts
  <2>2. CASE Unregister(t)
    <3>1. PICK k \in Keys : items[k] # NoValue /\ Commit(t, "unregistered", k, items[k])
      BY <2>2 DEF Unregister
    <3>2. items[k] \in Values /\ "unregistered" \in Events
      BY <3>1 DEF TypeOK, Events
    <3> QED
      BY <3>1, <3>2, CommitFacts
  <2>3. CASE Clear(t)
    <3> DEFINE e == [event |-> "cleared"]
    <3>1. e \in Entries /\ log' = Append(log, e)
      BY <2>3 DEF Entries, Clear
    <3> QED
      BY <3>1, LogGrows
  <2> QED
    BY <1>1, <2>1, <2>2, <2>3
<1>2. ASSUME NEW t \in Threads, Change(t)
      PROVE  Grown /\ basis' = Append(basis, NoCall)
  BY <1>1, <1>2 DEF Change
<1>3. ASSUME NEW t \in Threads, Announce(t) PROVE log' = log /\ basis' = basis
  BY <1>3 DEF Announce, CopyObservers, CallObserver, Announced
<1>4. ASSUME NEW t \in Threads, SetStatusReads(t) PROVE log' = log /\ basis' = basis
  BY <1>4 DEF SetStatusReads, vars
<1>5. ASSUME NEW t \in Threads, SetStatusWrites(t)
      PROVE  /\ Grown /\ basis' = Append(basis, pending[t])
             /\ pending[t] \in Calls
  <2>1. Updated(pending[t]) \in Values /\ pending[t].key \in Keys /\ pending[t] \in Calls
    BY <1>5, CallTyped DEF SetStatusWrites
  <2>2. Register(t)
    BY <1>5, <2>1 DEF SetStatusWrites, Register
  <2> QED
    BY <1>1, <1>5, <2>1, <2>2 DEF SetStatusWrites
<1>6. ASSUME NEW o \in Observers, Observe(o) \/ StopObserving(o), UNCHANGED basis
      PROVE  log' = log /\ basis' = basis
  BY <1>6 DEF Observe, StopObserving
<1>7. CASE UNCHANGED capVars
  BY <1>7 DEF capVars, vars
<1> QED
  BY <1>2, <1>3, <1>4, <1>5, <1>6, <1>7 DEF CapNext

LEMMA CapTypeStep ==
    ASSUME RegistryInv, CapTypeOK, [CapNext]_capVars
    PROVE  CapTypeOK'
<1>1. TypeOK /\ log \in Seq(Entries) /\ Len(log) \in Nat
  BY LenProperties DEF RegistryInv, TypeOK
<1>2. /\ wrapped \in BOOLEAN /\ pending \in [Threads -> Calls \cup {NoCall}]
      /\ \A t \in Threads : pending[t] # NoCall => wrapped /\ pending[t].seen =< Len(log)
      /\ basis \in Seq(Calls \cup {NoCall}) /\ Len(basis) = Len(log)
  BY DEF CapTypeOK
<1>3. /\ basis' \in Seq(Calls \cup {NoCall}) /\ Len(basis') = Len(log')
      /\ Len(log') \in Nat /\ Len(log) =< Len(log')
  <2>1. CASE log' = log /\ basis' = basis
    BY <1>1, <1>2, <2>1
  <2>2. CASE Grown /\ \E b \in Calls \cup {NoCall} : basis' = Append(basis, b)
    BY <1>1, <1>2, <2>2, AppendProperties DEF Grown
  <2> QED
    BY <1>1, <2>1, <2>2, CapLog
<1>4. wrapped' = wrapped
  BY DEF CapNext, capVars
<1>5. /\ pending' \in [Threads -> Calls \cup {NoCall}]
      /\ \A t \in Threads : pending'[t] # NoCall => wrapped /\ pending'[t].seen =< Len(log')
  <2>1. CASE pending' = pending
    <3>1. ASSUME NEW t \in Threads, pending[t] # NoCall PROVE pending[t].seen =< Len(log')
      <4>1. pending[t].seen \in Nat /\ pending[t].seen =< Len(log)
        BY <3>1, CallTyped
      <4> QED
        BY <1>1, <1>3, <4>1
    <3> QED
      BY <1>2, <2>1, <3>1
  <2>2. CASE \E t \in Threads : SetStatusReads(t)
    <3>1. PICK t \in Threads, k \in Keys, s \in Statuses :
              /\ wrapped /\ Found(k) /\ log' = log
              /\ pending' = [pending EXCEPT ![t] =
                    [key |-> k, was |-> items[k], status |-> s, seen |-> Len(log)]]
      BY <2>2 DEF SetStatusReads, vars
    <3> DEFINE c == [key |-> k, was |-> items[k], status |-> s, seen |-> Len(log)]
    <3>2. items[k] \in Values
      BY <1>1, <3>1 DEF Found, TypeOK
    <3>3. c \in Calls /\ c.seen = Len(log)
      BY <1>1, <3>2 DEF Calls
    <3> HIDE DEF c
    <3>4. pending' = [pending EXCEPT ![t] = c]
      BY <3>1 DEF c
    <3>5. \A u \in Threads : pending'[u] = IF u = t THEN c ELSE pending[u]
      BY <1>2, <3>4
    <3>6. \A u \in Threads : pending'[u] # NoCall => pending'[u].seen =< Len(log)
      BY <1>1, <1>2, <3>3, <3>5
    <3> QED
      BY <1>2, <3>1, <3>3, <3>4, <3>6
  <2>3. CASE \E t \in Threads : SetStatusWrites(t)
    <3>1. PICK t \in Threads : pending' = [pending EXCEPT ![t] = NoCall]
      BY <2>3 DEF SetStatusWrites
    <3>2. \A u \in Threads : pending'[u] = IF u = t THEN NoCall ELSE pending[u]
      BY <1>2, <3>1
    <3>3. ASSUME NEW u \in Threads, pending'[u] # NoCall
          PROVE  wrapped /\ pending'[u].seen =< Len(log')
      <4>1. pending'[u] = pending[u] /\ pending[u] # NoCall
        BY <3>2, <3>3
      <4>2. pending[u].seen \in Nat /\ pending[u].seen =< Len(log)
        BY <4>1, CallTyped
      <4> QED
        BY <1>1, <1>2, <1>3, <4>1, <4>2
    <3> QED
      BY <1>2, <3>1, <3>3
  <2> QED
    BY <2>1, <2>2, <2>3 DEF CapNext, capVars
<1> QED
  BY <1>2, <1>3, <1>4, <1>5 DEF CapTypeOK

\* What a call has read was so when it read, and later changes are no matter.
LEMMA ReadsStep ==
    ASSUME RegistryInv, CapTypeOK, ReadsTruly, [CapNext]_capVars
    PROVE  ReadsTruly'
<1>1. TypeOK /\ LogExplainsItems /\ Len(log) \in Nat
  BY LenProperties DEF RegistryInv, TypeOK
<1>2. \A i \in 1..Len(log) : log'[i] = log[i]
  BY <1>1, CapLog DEF Grown
<1> SUFFICES ASSUME NEW t \in Threads, pending'[t] # NoCall
             PROVE  IsAfter(pending[t].seen, pending[t].key, pending[t].was)'
  BY DEF ReadsTruly
<1>3. IsAfter(pending[t].seen, pending[t].key, pending[t].was)'
          <=> IsAfterIn(log', pending'[t].seen, pending'[t].key, pending'[t].was)
  BY DEF IsAfter, IsAfterIn, Touches, TouchesIn, Leaves, LeavesIn
<1>4. CASE pending'[t] = pending[t]
  <2>1. pending[t] # NoCall
    BY <1>4
  <2>2. IsAfter(pending[t].seen, pending[t].key, pending[t].was)
    BY <2>1 DEF ReadsTruly
  <2>3. IsAfterIn(log, pending[t].seen, pending[t].key, pending[t].was)
    BY <2>2, LogOf
  <2>4. pending[t].seen \in 0..Len(log)
    BY <1>1, <2>1, CallTyped
  <2>5. IsAfterIn(log', pending[t].seen, pending[t].key, pending[t].was)
    BY <1>1, <1>2, <2>3, <2>4, PastStands
  <2> QED
    BY <1>3, <1>4, <2>5
<1>5. CASE pending'[t] # pending[t]
  <2>1. pending \in [Threads -> Calls \cup {NoCall}]
    BY DEF CapTypeOK
  <2>2. PICK u \in Threads : SetStatusReads(u) \/ SetStatusWrites(u)
    BY <1>5 DEF CapNext, capVars
  <2>3. SetStatusReads(u)
    <3> SUFFICES ASSUME SetStatusWrites(u) PROVE FALSE
      BY <2>2
    <3>1. pending' = [pending EXCEPT ![u] = NoCall]
      BY DEF SetStatusWrites
    <3> QED
      BY <1>5, <2>1, <3>1
  <2>4. PICK k \in Keys, s \in Statuses :
            /\ log' = log
            /\ pending' = [pending EXCEPT ![u] =
                  [key |-> k, was |-> items[k], status |-> s, seen |-> Len(log)]]
    BY <2>3 DEF SetStatusReads, vars
  <2>5. pending'[t] = [key |-> k, was |-> items[k], status |-> s, seen |-> Len(log)]
    BY <1>5, <2>1, <2>4
  <2>6. pending'[t].seen = Len(log) /\ pending'[t].key = k /\ pending'[t].was = items[k]
    BY <2>5
  <2>7. IsAfterIn(log, Len(log), k, items[k])
    BY <1>1, LogOf DEF LogExplainsItems
  <2> QED
    BY <1>3, <2>4, <2>6, <2>7
<1> QED
  BY <1>4, <1>5

\* With set_status() as with register() the changes explain the items; it is
\* CapabilityRegistry.register(), unregister() and set_status() by any threads.
THEOREM CapabilityInvariant == CapSpec => []CapInv
<1>1. CapInv /\ [CapNext]_capVars => CapInv'
  <2> SUFFICES ASSUME CapInv, [CapNext]_capVars PROVE CapInv'
    OBVIOUS
  <2>1. RegistryInv /\ CapTypeOK /\ ReadsTruly
    BY DEF CapInv
  <2>2. RegistryInv'
    BY <2>1, CapStepIsStep, StepInv
  <2> QED
    BY <2>1, <2>2, CapTypeStep, ReadsStep DEF CapInv
<1> QED
  BY <1>1, CapInitInv, PTL DEF CapSpec

\* A CapabilityRegistry is a Registry: each of its operations is at most one
\* change of the registry it wraps, and what holds of a registry holds of it.
THEOREM CapabilityRefinesRegistry == CapSpec => Spec
<1>1. CapInit => Init
  BY DEF CapInit
<1>2. CapInv /\ [CapNext]_capVars => [Next]_vars
  BY CapStepIsStep DEF CapInv
<1> QED
  BY <1>1, <1>2, CapabilityInvariant, PTL DEF CapSpec, Spec

\* What OnlyOverlapLoses says of one change.
LosesNoneBut(id) ==
    \/ /\ log[id].event = "replaced"
       /\ \E was \in Values :
             /\ IsAfter(id - 1, log[id].key, was)
             /\ log[id].value = [was EXCEPT !.status = basis[id].status]
    \/ \E j \in (basis[id].seen + 1)..(id - 1) : Touches(j, log[id].key)

LosesNoneButIn(L, c, b, id) ==
    \/ /\ c.event = "replaced"
       /\ \E was \in Values :
             /\ IsAfterIn(L, id - 1, c.key, was)
             /\ c.value = [was EXCEPT !.status = b.status]
    \/ \E j \in (b.seen + 1)..(id - 1) : TouchesIn(L, j, c.key)

LEMMA LosesIn ==
    ASSUME NEW id
    PROVE  /\ LosesNoneBut(id) <=> LosesNoneButIn(log, log[id], basis[id], id)
           /\ LosesNoneBut(id)' <=> LosesNoneButIn(log', log'[id], basis'[id], id)
BY DEF LosesNoneBut, LosesNoneButIn, IsAfter, IsAfterIn, Touches, TouchesIn, Leaves, LeavesIn

\* A call that no other change of its capability has overlapped finds what it
\* has read, and writes it back with another status.
LEMMA WritesBack ==
    ASSUME CapInv, NEW t \in Threads, SetStatusWrites(t)
    PROVE  LosesNoneButIn(log', log'[Len(log) + 1], pending[t], Len(log) + 1)
<1> DEFINE n == Len(log)
           p == pending[t]
           event == IF items[p.key] = NoValue THEN "registered" ELSE "replaced"
<1>1. TypeOK /\ CapTypeOK /\ LogExplainsItems /\ ReadsTruly /\ n \in Nat
  BY LenProperties DEF CapInv, RegistryInv, TypeOK
<1>2. /\ p \in Calls /\ p.key \in Keys /\ p.was \in Values /\ Updated(p) \in Values
      /\ p.seen \in Nat /\ p.seen =< n
  BY <1>1, CallTyped DEF SetStatusWrites
<1>3. event \in Events
  BY DEF Events
<1>4. Commit(t, event, p.key, Updated(p))
  BY DEF SetStatusWrites
<1> HIDE DEF event, p
<1>5. Grown /\ log'[n + 1] = Committed(t, event, p.key, Updated(p))
  BY <1>1, <1>2, <1>3, <1>4, CommitFacts
<1>6. /\ log'[n + 1].event = event /\ log'[n + 1].key = p.key
      /\ log'[n + 1].value = Updated(p) /\ (n + 1) - 1 = n
  BY <1>1, <1>5 DEF Committed
<1>7. IsAfterIn(log, p.seen, p.key, p.was)
  <2>1. IsAfter(p.seen, p.key, p.was)
    BY <1>1 DEF ReadsTruly, SetStatusWrites, p
  <2> QED
    BY <2>1, LogOf
<1>8. CASE \A j \in (p.seen + 1)..n : ~TouchesIn(log', j, p.key)
  <2>1. IsAfterIn(log', p.seen, p.key, p.was)
    <3>1. p.seen \in 0..n /\ \A i \in 1..n : log'[i] = log[i]
      BY <1>1, <1>2, <1>5 DEF Grown
    <3> QED
      BY <1>1, <1>7, <3>1, PastStands
  <2>2. IsAfterIn(log', n, p.key, p.was)
    BY <1>1, <1>2, <1>8, <2>1, StandsUntouched
  <2>3. IsAfterIn(log', n, p.key, items[p.key])
    <3>1. IsAfterIn(log, n, p.key, items[p.key])
      BY <1>1, <1>2, LogOf DEF LogExplainsItems
    <3>2. n \in 0..n /\ \A i \in 1..n : log'[i] = log[i]
      BY <1>1, <1>5 DEF Grown
    <3> QED
      BY <1>1, <3>1, <3>2, PastStands
  <2>4. items[p.key] = p.was
    BY <1>1, <2>2, <2>3, IsOne
  <2>5. event = "replaced"
    BY <1>2, <2>4, RegistryAssumption DEF event
  <2>6. Updated(p) = [p.was EXCEPT !.status = p.status]
    BY DEF Updated
  <2> QED
    BY <1>2, <1>6, <2>2, <2>5, <2>6 DEF LosesNoneButIn, p
<1>9. CASE ~(\A j \in (p.seen + 1)..n : ~TouchesIn(log', j, p.key))
  BY <1>6, <1>9 DEF LosesNoneButIn, p
<1> QED
  BY <1>8, <1>9

\* set_status() loses no change but one made to the same capability between its
\* reading the record and its registering the changed copy.
THEOREM OnlyOverlapsLose == CapSpec => []OnlyOverlapLoses
<1> DEFINE J == \A id \in 1..Len(log) : basis[id] # NoCall => LosesNoneBut(id)
<1>1. CapInit => J
  <2>1. CapInit => Len(log) = 0
    BY DEF CapInit, Init
  <2> QED
    BY <2>1
<1>2. CapInv /\ J /\ [CapNext]_capVars => J'
  <2> SUFFICES ASSUME CapInv, J, [CapNext]_capVars,
                      NEW id \in 1..Len(log'), basis'[id] # NoCall
               PROVE  LosesNoneBut(id)'
    OBVIOUS
  <2>1. TypeOK /\ CapTypeOK /\ Len(log) \in Nat
    BY LenProperties DEF CapInv, RegistryInv, TypeOK
  <2>2. basis \in Seq(Calls \cup {NoCall}) /\ Len(basis) = Len(log)
    BY <2>1 DEF CapTypeOK
  <2> HIDE DEF J
  <2>3. CASE log' = log /\ basis' = basis
    BY <2>3 DEF J, LosesNoneBut, IsAfter, Touches, Leaves
  <2>4. CASE /\ Grown
             /\ \E t \in Threads, b \in Calls \cup {NoCall} :
                   /\ basis' = Append(basis, b)
                   /\ b # NoCall => SetStatusWrites(t) /\ b = pending[t]
    <3>1. PICK t \in Threads, b \in Calls \cup {NoCall} :
              /\ basis' = Append(basis, b)
              /\ b # NoCall => SetStatusWrites(t) /\ b = pending[t]
      BY <2>4
    <3>2. /\ \A i \in 1..Len(log) : basis'[i] = basis[i]
          /\ basis'[Len(log) + 1] = b
      BY <2>2, <3>1, AppendProperties
    <3>3. id \in 1..Len(log) \/ id = Len(log) + 1
      BY <2>1, <2>4 DEF Grown
    <3>4. CASE id = Len(log) + 1
      <4>1. SetStatusWrites(t) /\ basis'[id] = pending[t]
        BY <3>1, <3>2, <3>4
      <4> QED
        BY <3>4, <4>1, WritesBack, LosesIn
    <3>5. CASE id \in 1..Len(log)
      <4>1. basis'[id] = basis[id] /\ log'[id] = log[id]
        BY <2>4, <3>2, <3>5 DEF Grown
      <4>2. LosesNoneButIn(log, log[id], basis[id], id)
        BY <3>5, <4>1, LosesIn DEF J
      <4>3. id - 1 \in 0..Len(log) /\ \A i \in 1..Len(log) : log'[i] = log[i]
        BY <2>1, <2>4, <3>5 DEF Grown
      <4>4. \A v : IsAfterIn(log', id - 1, log[id].key, v)
                       <=> IsAfterIn(log, id - 1, log[id].key, v)
        BY <2>1, <4>3, PastStands
      <4>5. ASSUME NEW j \in (basis[id].seen + 1)..(id - 1), TouchesIn(log, j, log[id].key)
            PROVE  LosesNoneButIn(log', log[id], basis[id], id)
        <5>1. basis[id] \in Calls
          BY <2>2, <3>5, <4>1
        <5>2. basis[id].seen \in Nat
          BY <5>1 DEF Calls
        <5>3. j \in 1..Len(log)
          BY <2>1, <3>5, <5>2
        <5>4. TouchesIn(log', j, log[id].key)
          BY <4>3, <4>5, <5>3 DEF TouchesIn
        <5> QED
          BY <5>4 DEF LosesNoneButIn
      <4>6. LosesNoneButIn(log', log[id], basis[id], id)
        BY <4>2, <4>4, <4>5 DEF LosesNoneButIn
      <4> QED
        BY <4>1, <4>6, LosesIn
    <3> QED
      BY <3>3, <3>4, <3>5
  <2> QED
    BY <2>1, <2>3, <2>4, CapLog
<1>3. CapInv /\ J => OnlyOverlapLoses
  <2> SUFFICES ASSUME CapInv, J PROVE OnlyOverlapLoses
    OBVIOUS
  <2>1. DOMAIN log = 1..Len(log)
    BY LenProperties DEF CapInv, RegistryInv, TypeOK
  <2> QED
    BY <2>1 DEF OnlyOverlapLoses, LosesNoneBut
<1> QED
  BY <1>1, <1>2, <1>3, CapabilityInvariant, PTL DEF CapSpec

=============================================================================
