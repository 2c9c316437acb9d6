-------------------------- MODULE ContainerProofs --------------------------
(***************************************************************************)
(* Proofs about containers and child scopes, for any number of threads,    *)
(* any wiring and any depth of scopes: the reentrant locks, the frames of  *)
(* the shared resolve stack, what is built once and what is never built.   *)
(***************************************************************************)
EXTENDS Container, TLAPS, FiniteSetTheorems, SequenceTheorems,
        WellFoundedInduction

-----------------------------------------------------------------------------
(***************************************************************************)
(* What the operators do.                                                  *)
(***************************************************************************)

\* The innermost call of a busy thread.
LEMMA TopIsCall ==
    ASSUME TypeOK, NEW t \in Threads, ~Idle(t)
    PROVE  /\ Len(calls[t]) \in Nat \ {0}
           /\ Top(t) \in Call
           /\ calls[t] \in Seq(Call)
           /\ Len(calls[t]) \in 1..Len(calls[t])
<1>1. calls[t] \in Seq(Call) /\ calls[t] # <<>>
  BY DEF TypeOK, Idle
<1>2. Len(calls[t]) \in Nat \ {0}
  BY <1>1, EmptySeq
<1>3. Len(calls[t]) \in 1..Len(calls[t])
  BY <1>2
<1>4. Top(t) \in Call
  BY <1>1, <1>3, ElementOfSeq DEF Top
<1> QED
  BY <1>1, <1>2, <1>3, <1>4

\* Becomes() replaces the innermost call and nothing else.
LEMMA BecomesEffect ==
    ASSUME TypeOK, NEW t \in Threads, ~Idle(t), NEW r \in Call, Becomes(t, r)
    PROVE  /\ calls' \in [Threads -> Seq(Call)]
           /\ Len(calls'[t]) = Len(calls[t])
           /\ calls'[t][Len(calls[t])] = r
           /\ \A i \in 1..Len(calls[t]) : i < Len(calls[t]) => calls'[t][i] = calls[t][i]
           /\ \A s \in Threads : s # t => calls'[s] = calls[s]
<1>1. /\ calls[t] \in Seq(Call)
      /\ Len(calls[t]) \in Nat
      /\ Len(calls[t]) \in 1..Len(calls[t])
  BY TopIsCall
<1>2. calls' = [calls EXCEPT ![t] = [calls[t] EXCEPT ![Len(calls[t])] = r]]
  BY DEF Becomes
<1>3. calls \in [Threads -> Seq(Call)]
  BY DEF TypeOK
<1>4. /\ calls'[t] = [calls[t] EXCEPT ![Len(calls[t])] = r]
      /\ \A s \in Threads : s # t => calls'[s] = calls[s]
  BY <1>2, <1>3
<1>5. /\ calls'[t] \in Seq(Call)
      /\ Len(calls'[t]) = Len(calls[t])
      /\ \A j \in 1..Len(calls[t]) :
            calls'[t][j] = IF j = Len(calls[t]) THEN r ELSE calls[t][j]
  BY <1>1, <1>4, ExceptSeq
<1>6. calls' \in [Threads -> Seq(Call)]
  BY <1>2, <1>3, <1>4, <1>5
<1> QED
  BY <1>1, <1>4, <1>5, <1>6

\* What a factory is told changes where it goes on.
LEMMA ToldFields ==
    ASSUME NEW call \in Call, NEW r \in Results
    PROVE  /\ Told(call, r) \in Call
           /\ Told(call, r).on = call.on
           /\ Told(call, r).key = call.key
           /\ Told(call, r).holder = call.holder
           /\ Told(call, r).at = call.at
           /\ Told(call, r).next = call.next + 1
           /\ Told(call, r).result = r
<1> DEFINE new == [call EXCEPT !.next = @ + 1]
<1>1. /\ new \in Call /\ new.on = call.on /\ new.key = call.key
      /\ new.holder = call.holder /\ new.at = call.at
      /\ new.next = call.next + 1
  BY DEF Call
<1>2. Told(call, r) = [new EXCEPT !.result = r]
  BY DEF Told, Call
<1> HIDE DEF new
<1> QED
  BY <1>1, <1>2 DEF Call

\* A sequence without its last element.
LEMMA DropLast ==
    ASSUME NEW S, NEW s \in Seq(S), s # <<>>
    PROVE  /\ SubSeq(s, 1, Len(s) - 1) \in Seq(S)
           /\ Len(SubSeq(s, 1, Len(s) - 1)) = Len(s) - 1
           /\ \A i \in 1..(Len(s) - 1) : SubSeq(s, 1, Len(s) - 1)[i] = s[i]
<1>1. Len(s) \in Nat \ {0}
  BY EmptySeq
<1>2. PICK n \in Nat : n = Len(s) - 1
  BY <1>1
<1>3. \A i \in 1..n : s[i] \in S
  BY <1>1, <1>2, ElementOfSeq
<1>4. /\ SubSeq(s, 1, n) \in Seq(S)
      /\ Len(SubSeq(s, 1, n)) = IF 1 =< n THEN n - 1 + 1 ELSE 0
      /\ \A i \in 1..(n - 1 + 1) : SubSeq(s, 1, n)[i] = s[1 + i - 1]
  BY <1>2, <1>3, SubSeqProperties
<1>5. n - 1 + 1 = n /\ (IF 1 =< n THEN n - 1 + 1 ELSE 0) = n
  BY <1>2
<1>6. \A i \in 1..n : 1 + i - 1 = i
  OBVIOUS
<1> QED
  BY <1>2, <1>4, <1>5, <1>6

\* Return() takes the innermost call away and tells the one below.
LEMMA ReturnEffect ==
    ASSUME TypeOK, NEW t \in Threads, ~Idle(t), NEW r \in Results, Return(t, r)
    PROVE  /\ calls' \in [Threads -> Seq(Call)]
           /\ Len(calls'[t]) = Len(calls[t]) - 1
           /\ \A i \in 1..(Len(calls[t]) - 1) :
                 calls'[t][i] = IF i = Len(calls[t]) - 1
                                THEN Told(calls[t][i], r)
                                ELSE calls[t][i]
           /\ \A s \in Threads : s # t => calls'[s] = calls[s]
<1> DEFINE rest == SubSeq(calls[t], 1, Len(calls[t]) - 1)
<1>1. /\ calls[t] \in Seq(Call) /\ calls[t] # <<>>
      /\ Len(calls[t]) \in Nat \ {0}
  BY TopIsCall DEF Idle
<1>2. PICK n \in Nat : n = Len(calls[t]) - 1
  BY <1>1
<1>3. /\ rest \in Seq(Call)
      /\ Len(rest) = n
      /\ \A i \in 1..n : rest[i] = calls[t][i]
  BY <1>1, <1>2, DropLast
<1>4. calls \in [Threads -> Seq(Call)]
  BY DEF TypeOK
<1>5. \/ /\ Len(rest) = 0
         /\ calls' = [calls EXCEPT ![t] = rest]
      \/ /\ Len(rest) > 0
         /\ calls' = [calls EXCEPT ![t] =
                         [rest EXCEPT ![Len(rest)] = Told(rest[Len(rest)], r)]]
  BY Zenon DEF Return
<1> HIDE DEF rest
<1> DEFINE Effect(m) ==
              /\ calls' \in [Threads -> Seq(Call)]
              /\ Len(calls'[t]) = m
              /\ \A i \in 1..m :
                    calls'[t][i] = IF i = m THEN Told(calls[t][i], r) ELSE calls[t][i]
              /\ \A s \in Threads : s # t => calls'[s] = calls[s]
<1>6. ASSUME n = 0 PROVE Effect(n)
  <2>1. calls' = [calls EXCEPT ![t] = rest]
    BY <1>3, <1>5, <1>6
  <2>2. calls'[t] = rest /\ \A s \in Threads : s # t => calls'[s] = calls[s]
    BY <1>4, <2>1
  <2>3. calls' \in [Threads -> Seq(Call)]
    BY <1>3, <1>4, <2>1
  <2> QED
    BY <1>3, <1>6, <2>2, <2>3
<1>7. ASSUME n > 0 PROVE Effect(n)
  <2>1. calls' = [calls EXCEPT ![t] = [rest EXCEPT ![n] = Told(rest[n], r)]]
    BY <1>3, <1>5, <1>7
  <2>2. n \in 1..Len(rest)
    BY <1>3, <1>7
  <2>3. rest[n] = calls[t][n] /\ rest[n] \in Call
    BY <1>3, <2>2, ElementOfSeq
  <2>4. Told(rest[n], r) \in Call
    BY <2>3, ToldFields
  <2>5. /\ [rest EXCEPT ![n] = Told(rest[n], r)] \in Seq(Call)
        /\ Len([rest EXCEPT ![n] = Told(rest[n], r)]) = n
        /\ \A i \in 1..n : [rest EXCEPT ![n] = Told(rest[n], r)][i]
                            = IF i = n THEN Told(rest[n], r) ELSE rest[i]
    BY <1>3, <2>2, <2>4, ExceptSeq
  <2>6. /\ calls'[t] = [rest EXCEPT ![n] = Told(rest[n], r)]
        /\ \A s \in Threads : s # t => calls'[s] = calls[s]
    BY <1>4, <2>1
  <2>7. calls' \in [Threads -> Seq(Call)]
    BY <1>4, <2>1, <2>5
  <2>8. \A i \in 1..n : calls'[t][i] = IF i = n THEN Told(calls[t][i], r) ELSE calls[t][i]
    BY <1>3, <2>3, <2>5, <2>6
  <2> QED
    BY <2>5, <2>6, <2>7, <2>8
<1>8. n = 0 \/ n > 0
  OBVIOUS
<1>9. Effect(Len(calls[t]) - 1)
  BY <1>2, <1>6, <1>7, <1>8, Zenon
<1> QED
  BY <1>9

\* A factory's call of resolve() goes on top.
LEMMA CallEffect ==
    ASSUME TypeOK, NEW t \in Threads, NEW r \in Call,
           calls' = [calls EXCEPT ![t] = Append(@, r)]
    PROVE  /\ calls' \in [Threads -> Seq(Call)]
           /\ Len(calls'[t]) = Len(calls[t]) + 1
           /\ calls'[t][Len(calls[t]) + 1] = r
           /\ \A i \in 1..Len(calls[t]) : calls'[t][i] = calls[t][i]
           /\ \A s \in Threads : s # t => calls'[s] = calls[s]
<1>1. calls \in [Threads -> Seq(Call)] /\ calls[t] \in Seq(Call)
  BY DEF TypeOK
<1>2. calls'[t] = Append(calls[t], r) /\ \A s \in Threads : s # t => calls'[s] = calls[s]
  BY <1>1
<1>3. /\ Append(calls[t], r) \in Seq(Call)
      /\ Len(Append(calls[t], r)) = Len(calls[t]) + 1
      /\ \A i \in 1..Len(calls[t]) : Append(calls[t], r)[i] = calls[t][i]
      /\ Append(calls[t], r)[Len(calls[t]) + 1] = r
  BY <1>1, AppendProperties
<1> QED
  BY <1>1, <1>2, <1>3

\* A key that is found is bound where it is found.
LEMMA FoundIsBound ==
    ASSUME NEW c \in Containers, NEW k, Holder(c, k) # NoOne
    PROVE  Holder(c, k) \in Containers /\ Bound(Holder(c, k), k)
<1> DEFINE L == Lineage[c]
           P(i) == Bound(L[i], k) /\ \A j \in 1..(i - 1) : ~Bound(L[j], k)
<1>1. L \in Seq(Containers) /\ Len(L) \in Nat
  BY ContainerAssumption
<1>2. PICK i \in 1..Len(L) : Bound(L[i], k)
  BY DEF Holder
<1>3. \E m \in 1..Len(L) : P(m)
  <2> DEFINE B == {m \in 1..Len(L) : Bound(L[m], k)}
  <2>1. B \subseteq Nat /\ B # {}
    BY <1>1, <1>2
  <2>2. PICK m \in B : \A j \in B : ~ (<<j, m>> \in OpToRel(<, Nat))
    BY <2>1, NatLessThanWellFounded, WFMin
  <2>3. \A j \in B : ~ (j < m)
    BY <2>1, <2>2 DEF OpToRel
  <2>4. ASSUME NEW j \in 1..(m - 1) PROVE ~Bound(L[j], k)
    <3>1. j \in 1..Len(L) /\ j < m
      BY <1>1
    <3> QED
      BY <2>3, <3>1
  <2>5. m \in 1..Len(L) /\ Bound(L[m], k)
    OBVIOUS
  <2> QED
    BY <2>4, <2>5
<1>4. P(Innermost(c, k)) /\ Innermost(c, k) \in 1..Len(L)
  BY <1>3 DEF Innermost
<1>5. Holder(c, k) = L[Innermost(c, k)]
  BY <1>2 DEF Holder
<1> QED
  BY <1>1, <1>4, <1>5, ElementOfSeq

\* A bound key has a binding, the only one for that key in the container.
LEMMA BindingOfKey ==
    ASSUME TypeOK, NEW c \in Containers, NEW k, Bound(c, k)
    PROVE  /\ Binding(c, k) \in providers[c]
           /\ Binding(c, k) \in Bindings
           /\ Binding(c, k).key = k
           /\ k \in Keys /\ Binding(c, k).deps \in Seq(Keys)
           /\ \A b \in providers[c] : b.key = k => b = Binding(c, k)
<1>1. PICK x \in providers[c] : x.key = k
  BY DEF Bound
<1>2. Binding(c, k) \in providers[c] /\ Binding(c, k).key = k
  BY <1>1 DEF Binding
<1>3. Binding(c, k) \in Bindings
  BY <1>2 DEF TypeOK
<1>4. k \in Keys /\ Binding(c, k).deps \in Seq(Keys)
  BY <1>2, <1>3, ContainerAssumption
<1>5. \A b \in providers[c] : b.key = k => b = Binding(c, k)
  BY <1>2 DEF TypeOK
<1> QED
  BY <1>2, <1>3, <1>4, <1>5

\* What a call of resolve() starts with.
LEMMA EntryIsCall ==
    ASSUME NEW c \in Containers, NEW k \in Keys, NEW h \in Containers
    PROVE  /\ Entry(c, k, h) \in Call
           /\ Entry(c, k, h).on = c /\ Entry(c, k, h).key = k
           /\ Entry(c, k, h).holder = h /\ Entry(c, k, h).at = "check"
           /\ Entry(c, k, h).next = 1 /\ Entry(c, k, h).result = "ok"
BY DEF Entry, Call, Places, Results

-----------------------------------------------------------------------------
(***************************************************************************)
(* What a step does to the calls of its thread: the innermost one moves on,*)
(* it returns, or one more is entered.                                     *)
(***************************************************************************)

\* The innermost call of t is at p with result r now.
Moved(t, p, r) ==
    /\ calls' \in [Threads -> Seq(Call)]
    /\ \A s \in Threads : s # t => calls'[s] = calls[s]
    /\ Len(calls'[t]) = Len(calls[t])
    /\ \A i \in 1..Len(calls[t]) :
          /\ i < Len(calls[t]) => calls'[t][i] = calls[t][i]
          /\ i = Len(calls[t]) => calls'[t][i].at = p /\ calls'[t][i].result = r
          /\ calls'[t][i].on = calls[t][i].on
          /\ calls'[t][i].key = calls[t][i].key
          /\ calls'[t][i].holder = calls[t][i].holder
          /\ calls'[t][i].next = calls[t][i].next

\* The innermost call of t is over with result r.
Returned(t, r) ==
    /\ calls' \in [Threads -> Seq(Call)]
    /\ \A s \in Threads : s # t => calls'[s] = calls[s]
    /\ Len(calls'[t]) = Len(calls[t]) - 1
    /\ \A i \in 1..Len(calls'[t]) :
          /\ i < Len(calls'[t]) => calls'[t][i] = calls[t][i]
          /\ i = Len(calls'[t]) => /\ calls'[t][i].next = calls[t][i].next + 1
                                  /\ calls'[t][i].result = r
          /\ calls'[t][i].on = calls[t][i].on
          /\ calls'[t][i].key = calls[t][i].key
          /\ calls'[t][i].holder = calls[t][i].holder
          /\ calls'[t][i].at = calls[t][i].at

\* t is in one more call, the call r.
Entered(t, r) ==
    /\ calls' \in [Threads -> Seq(Call)]
    /\ \A s \in Threads : s # t => calls'[s] = calls[s]
    /\ Len(calls'[t]) = Len(calls[t]) + 1
    /\ \A i \in 1..Len(calls[t]) : calls'[t][i] = calls[t][i]
    /\ calls'[t][Len(calls[t]) + 1] = r

LEMMA Moves ==
    ASSUME TypeOK, NEW t \in Threads, ~Idle(t), NEW p \in Places, NEW r \in Results
    PROVE  /\ Becomes(t, [Top(t) EXCEPT !.at = p]) => Moved(t, p, Top(t).result)
           /\ Becomes(t, [Top(t) EXCEPT !.result = r]) => Moved(t, Top(t).at, r)
           /\ Becomes(t, [Top(t) EXCEPT !.at = p, !.result = r]) => Moved(t, p, r)
<1>1. /\ Top(t) \in Call /\ Top(t) = calls[t][Len(calls[t])]
      /\ Len(calls[t]) \in Nat
  BY TopIsCall DEF Top
<1>2. ASSUME NEW q \in Places, NEW u \in Results, NEW new \in Call, Becomes(t, new),
             new.at = q, new.result = u, new.on = Top(t).on, new.key = Top(t).key,
             new.holder = Top(t).holder, new.next = Top(t).next
      PROVE  Moved(t, q, u)
  <2>1. /\ calls' \in [Threads -> Seq(Call)]
        /\ Len(calls'[t]) = Len(calls[t])
        /\ calls'[t][Len(calls[t])] = new
        /\ \A i \in 1..Len(calls[t]) : i < Len(calls[t]) => calls'[t][i] = calls[t][i]
        /\ \A s \in Threads : s # t => calls'[s] = calls[s]
    BY <1>2, BecomesEffect
  <2>2. \A i \in 1..Len(calls[t]) : i < Len(calls[t]) \/ i = Len(calls[t])
    BY <1>1
  <2> QED
    BY <1>1, <1>2, <2>1, <2>2 DEF Moved
<1>3. Top(t).at \in Places /\ Top(t).result \in Results
  BY <1>1 DEF Call
<1>4. ASSUME Becomes(t, [Top(t) EXCEPT !.at = p]) PROVE Moved(t, p, Top(t).result)
  <2> DEFINE new == [Top(t) EXCEPT !.at = p]
  <2>1. /\ new \in Call /\ new.at = p /\ new.result = Top(t).result
        /\ new.on = Top(t).on /\ new.key = Top(t).key /\ new.holder = Top(t).holder
        /\ new.next = Top(t).next
    BY <1>1 DEF Call
  <2> HIDE DEF new
  <2> QED
    BY <1>2, <1>3, <1>4, <2>1 DEF new
<1>5. ASSUME Becomes(t, [Top(t) EXCEPT !.result = r]) PROVE Moved(t, Top(t).at, r)
  <2> DEFINE new == [Top(t) EXCEPT !.result = r]
  <2>1. /\ new \in Call /\ new.at = Top(t).at /\ new.result = r
        /\ new.on = Top(t).on /\ new.key = Top(t).key /\ new.holder = Top(t).holder
        /\ new.next = Top(t).next
    BY <1>1 DEF Call
  <2> HIDE DEF new
  <2> QED
    BY <1>2, <1>3, <1>5, <2>1 DEF new
<1>6. ASSUME Becomes(t, [Top(t) EXCEPT !.at = p, !.result = r]) PROVE Moved(t, p, r)
  <2> DEFINE new == [Top(t) EXCEPT !.at = p, !.result = r]
  <2>1. /\ new \in Call /\ new.at = p /\ new.result = r
        /\ new.on = Top(t).on /\ new.key = Top(t).key /\ new.holder = Top(t).holder
        /\ new.next = Top(t).next
    BY <1>1 DEF Call
  <2> HIDE DEF new
  <2> QED
    BY <1>2, <1>6, <2>1 DEF new
<1> QED
  BY <1>4, <1>5, <1>6

LEMMA Returns ==
    ASSUME TypeOK, NEW t \in Threads, ~Idle(t), NEW r \in Results, Return(t, r)
    PROVE  Returned(t, r)
<1>1. PICK n \in Nat : n = Len(calls[t]) - 1
  <2>1. Len(calls[t]) \in Nat \ {0}
    BY TopIsCall
  <2>2. Len(calls[t]) - 1 \in Nat
    BY <2>1
  <2> QED
    BY <2>2
<1>2. /\ calls' \in [Threads -> Seq(Call)]
      /\ Len(calls'[t]) = n
      /\ \A i \in 1..n :
            calls'[t][i] = IF i = n THEN Told(calls[t][i], r) ELSE calls[t][i]
      /\ \A s \in Threads : s # t => calls'[s] = calls[s]
  BY <1>1, ReturnEffect
<1>3. \A i \in 1..n : calls[t][i] \in Call
  BY <1>1, TopIsCall, ElementOfSeq
<1>4. ASSUME NEW i \in 1..n
      PROVE  /\ i < n => calls'[t][i] = calls[t][i]
             /\ i = n => /\ calls'[t][i].next = calls[t][i].next + 1
                        /\ calls'[t][i].result = r
             /\ calls'[t][i].on = calls[t][i].on
             /\ calls'[t][i].key = calls[t][i].key
             /\ calls'[t][i].holder = calls[t][i].holder
             /\ calls'[t][i].at = calls[t][i].at
  <2>1. CASE i = n
    BY <1>2, <1>3, <2>1, ToldFields
  <2>2. CASE i # n
    BY <1>2, <2>2
  <2> QED
    BY <2>1, <2>2
<1>5. Len(calls'[t]) = Len(calls[t]) - 1
  BY <1>1, <1>2
<1> QED
  BY <1>2, <1>4, <1>5 DEF Returned

LEMMA Enters ==
    ASSUME TypeOK, NEW t \in Threads, NEW r \in Call,
           \/ calls' = [calls EXCEPT ![t] = Append(@, r)]
           \/ Idle(t) /\ calls' = [calls EXCEPT ![t] = <<r>>]
    PROVE  Entered(t, r)
<1>1. CASE calls' = [calls EXCEPT ![t] = Append(@, r)]
  BY <1>1, CallEffect DEF Entered
<1>2. CASE Idle(t) /\ calls' = [calls EXCEPT ![t] = <<r>>]
  <2>1. calls \in [Threads -> Seq(Call)]
    BY DEF TypeOK
  <2>2. <<r>> \in Seq(Call) /\ Len(<<r>>) = 1 /\ <<r>>[1] = r
    OBVIOUS
  <2>3. Len(calls[t]) = 0
    BY <1>2 DEF Idle
  <2>4. calls'[t] = <<r>> /\ \A s \in Threads : s # t => calls'[s] = calls[s]
    BY <1>2, <2>1
  <2>5. calls' \in [Threads -> Seq(Call)]
    BY <1>2, <2>1, <2>2
  <2> QED
    BY <2>2, <2>3, <2>4, <2>5 DEF Entered
<1> QED
  BY <1>1, <1>2

\* The steps, in these terms.
LEMMA Effects ==
    ASSUME TypeOK, NEW t \in Threads
    PROVE  /\ Resolve(t) =>
                 /\ Idle(t) /\ UNCHANGED shared
                 /\ \E c \in Containers, k \in Keys :
                       Holder(c, k) # NoOne /\ Entered(t, Entry(c, k, Holder(c, k)))
           /\ Check(t) =>
                 /\ In(t, "check") /\ UNCHANGED shared
                 /\ Moved(t, "push", Top(t).result) \/ Returned(t, "cycle")
           /\ Push(t) => In(t, "push") /\ Moved(t, "lock", Top(t).result)
           /\ Lock(t) =>
                 /\ In(t, "lock")
                 /\ \/ /\ Moved(t, "pop", Top(t).result) /\ UNCHANGED shared
                       /\ Building(t) \in cached
                    \/ /\ Moved(t, "factory", Top(t).result) /\ Acquire(t, Top(t).on)
                       /\ ~(Building(t) \in cached /\ KeptBy(Top(t).on, Building(t)))
           /\ ResolveNext(t) =>
                 /\ In(t, "factory") /\ UNCHANGED shared
                 /\ Top(t).result = "ok" /\ Top(t).next =< Len(Building(t).deps)
                 /\ \/ Moved(t, "factory", "error")
                    \/ /\ Holder(Top(t).on, Building(t).deps[Top(t).next]) # NoOne
                       /\ Entered(t, Entry(Top(t).on, Building(t).deps[Top(t).next],
                                Holder(Top(t).on, Building(t).deps[Top(t).next])))
           /\ Built(t) => In(t, "factory") /\ Moved(t, "pop", "ok")
           /\ BuildFails(t) =>
                 /\ In(t, "factory")
                 /\ \E r \in Results \ {"ok"} : Moved(t, "pop", r)
           /\ Pop(t) => In(t, "pop") /\ Returned(t, Top(t).result)
<1> DEFINE c == Top(t)
<1>1. ASSUME ~Idle(t) PROVE c \in Call /\ c.at \in Places /\ c.result \in Results
  BY <1>1, TopIsCall DEF Call
<1>2. {"ok", "cycle", "error"} = Results /\ {"push", "lock", "pop", "factory"} \subseteq Places
  BY DEF Results, Places
<1>3. ASSUME NEW d \in Containers, NEW k, Holder(d, k) # NoOne
      PROVE  k \in Keys /\ Entry(d, k, Holder(d, k)) \in Call
  <2>1. Holder(d, k) \in Containers /\ Bound(Holder(d, k), k)
    BY <1>3, FoundIsBound
  <2>2. k \in Keys
    BY <2>1, BindingOfKey
  <2> QED
    BY <2>1, <2>2, EntryIsCall
<1>4. ASSUME Resolve(t)
      PROVE  /\ Idle(t) /\ UNCHANGED shared
             /\ \E d \in Containers, k \in Keys :
                   Holder(d, k) # NoOne /\ Entered(t, Entry(d, k, Holder(d, k)))
  <2>1. PICK d \in Containers, k \in Keys :
          /\ Holder(d, k) # NoOne
          /\ calls' = [calls EXCEPT ![t] = <<Entry(d, k, Holder(d, k))>>]
    BY <1>4 DEF Resolve
  <2>2. Entered(t, Entry(d, k, Holder(d, k)))
    BY <1>3, <1>4, <2>1, Enters DEF Resolve
  <2> QED
    BY <1>4, <2>1, <2>2 DEF Resolve
<1>5. ASSUME Check(t)
      PROVE  /\ In(t, "check") /\ UNCHANGED shared
             /\ Moved(t, "push", c.result) \/ Returned(t, "cycle")
  <2>1. CASE Return(t, "cycle")
    BY <1>2, <1>5, <2>1, Returns DEF Check, In
  <2>2. CASE Becomes(t, [c EXCEPT !.at = "push"])
    BY <1>1, <1>2, <1>5, <2>2, Moves DEF Check, In
  <2> QED
    BY <1>5, <2>1, <2>2 DEF Check
<1>6. ASSUME Push(t) PROVE In(t, "push") /\ Moved(t, "lock", c.result)
  BY <1>1, <1>2, <1>6, Moves DEF Push, In
<1>7. ASSUME Lock(t)
      PROVE  /\ In(t, "lock")
             /\ \/ /\ Moved(t, "pop", c.result) /\ UNCHANGED shared
                   /\ Building(t) \in cached
                \/ /\ Moved(t, "factory", c.result) /\ Acquire(t, c.on)
                   /\ ~(Building(t) \in cached /\ KeptBy(c.on, Building(t)))
  <2>1. In(t, "lock") /\ ~Idle(t)
    BY <1>7 DEF Lock, In
  <2>2. CASE /\ Becomes(t, [c EXCEPT !.at = "pop"])
             /\ Building(t) \in cached
             /\ UNCHANGED <<lock, depth>>
    BY <1>1, <1>2, <1>7, <2>1, <2>2, Moves DEF Lock, shared
  <2>3. CASE /\ Becomes(t, [c EXCEPT !.at = "factory"])
             /\ ~(Building(t) \in cached /\ KeptBy(c.on, Building(t)))
             /\ Acquire(t, c.on)
    BY <1>1, <1>2, <2>1, <2>3, Moves
  <2> QED
    BY <1>7, <2>2, <2>3 DEF Lock
<1>8. ASSUME ResolveNext(t)
      PROVE  /\ In(t, "factory") /\ UNCHANGED shared
             /\ c.result = "ok" /\ c.next =< Len(Building(t).deps)
             /\ \/ Moved(t, "factory", "error")
                \/ /\ Holder(c.on, Building(t).deps[c.next]) # NoOne
                   /\ Entered(t, Entry(c.on, Building(t).deps[c.next],
                            Holder(c.on, Building(t).deps[c.next])))
  <2> DEFINE k == Building(t).deps[c.next]
             h == Holder(c.on, k)
  <2>1. In(t, "factory") /\ ~Idle(t) /\ c.at = "factory"
    BY <1>8 DEF ResolveNext, In
  <2>2. c.on \in Containers
    BY <1>1, <2>1 DEF Call
  <2>3. CASE Becomes(t, [c EXCEPT !.result = "error"])
    BY <1>2, <1>8, <2>1, <2>3, Moves DEF ResolveNext
  <2>4. CASE h # NoOne /\ calls' = [calls EXCEPT ![t] = Append(@, Entry(c.on, k, h))]
    <3>1. Entered(t, Entry(c.on, k, h))
      BY <1>3, <2>2, <2>4, Enters
    <3> QED
      BY <1>8, <2>1, <2>4, <3>1 DEF ResolveNext
  <2> QED
    BY <1>8, <2>3, <2>4 DEF ResolveNext
<1>9. ASSUME Built(t) PROVE In(t, "factory") /\ Moved(t, "pop", "ok")
  BY <1>2, <1>9, Moves DEF Built, In
<1>10. ASSUME BuildFails(t)
       PROVE  In(t, "factory") /\ \E r \in Results \ {"ok"} : Moved(t, "pop", r)
  <2>1. In(t, "factory") /\ ~Idle(t)
    BY <1>10 DEF BuildFails, In
  <2>2. Becomes(t, [c EXCEPT !.at = "pop",
                             !.result = IF c.result = "ok" THEN "error" ELSE c.result])
    BY <1>10 DEF BuildFails
  <2>3. (IF c.result = "ok" THEN "error" ELSE c.result) \in Results \ {"ok"}
    BY <1>1, <1>2, <2>1
  <2> QED
    BY <1>2, <2>1, <2>2, <2>3, Moves
<1>11. ASSUME Pop(t) PROVE In(t, "pop") /\ Returned(t, c.result)
  BY <1>1, <1>11, Returns DEF Pop, In
<1> QED
  BY <1>4, <1>5, <1>6, <1>7, <1>8, <1>9, <1>10, <1>11

-----------------------------------------------------------------------------
(***************************************************************************)
(* Types, and the keys that calls have found.                              *)
(***************************************************************************)

\* A call has found the container that holds its key, and whatever is bound
\* later it stays bound there.
AllFound ==
    \A t \in Threads : \A i \in 1..Len(calls[t]) :
        Bound(calls[t][i].holder, calls[t][i].key)

\* Bindings are only added, for keys that have none.
LEMMA ProvidersGrow ==
    ASSUME TypeOK, [Next]_vars
    PROVE  /\ providers' \in [Containers -> SUBSET Bindings]
           /\ \A c \in Containers : \A b, other \in providers'[c] :
                 b.in = c /\ (b.key = other.key => b = other)
           /\ \A c \in Containers : providers[c] \subseteq providers'[c]
           /\ calls' # calls => providers' = providers
           /\ providers' # providers =>
                 /\ UNCHANGED <<lock, depth, frames, calls, stores>>
                 /\ \E b \in Bindings :
                       /\ ~Bound(b.in, b.key)
                       /\ providers' = [providers EXCEPT ![b.in] = @ \cup {b}]
                       /\ cached' = cached \/ (b.deps = <<>> /\ cached' = cached \cup {b})
<1>1. CASE providers' = providers
  BY <1>1 DEF TypeOK
<1>2. CASE providers' # providers
  <2>1. PICK t \in Threads : Register(t)
    BY <1>2 DEF Next, Step, Resolve, Check, Push, Lock, ResolveNext, Built, BuildFails,
                Pop, vars, shared
  <2>2. PICK b \in Bindings :
          /\ ~Bound(b.in, b.key)
          /\ providers' = [providers EXCEPT ![b.in] = @ \cup {b}]
          /\ cached' = cached \/ (b.deps = <<>> /\ cached' = cached \cup {b})
    BY <2>1 DEF Register
  <2>3. b.in \in Containers
    BY ContainerAssumption
  <2>4. /\ providers' \in [Containers -> SUBSET Bindings]
        /\ \A c \in Containers : providers[c] \subseteq providers'[c]
        /\ \A c \in Containers : c # b.in => providers'[c] = providers[c]
        /\ providers'[b.in] = providers[b.in] \cup {b}
    BY <2>2, <2>3 DEF TypeOK
  <2>5. ASSUME NEW c \in Containers, NEW e \in providers'[c], NEW other \in providers'[c]
        PROVE  e.in = c /\ (e.key = other.key => e = other)
    BY <2>2, <2>4 DEF TypeOK, Bound
  <2> QED
    BY <2>1, <2>2, <2>4, <2>5 DEF Register
<1> QED
  BY <1>1, <1>2

\* So a key keeps its binding.
LEMMA BindingStays ==
    ASSUME TypeOK, [Next]_vars, NEW c \in Containers, NEW k, Bound(c, k)
    PROVE  Bound(c, k)' /\ Binding(c, k)' = Binding(c, k)
<1>1. Binding(c, k) \in providers'[c] /\ Binding(c, k).key = k
  BY BindingOfKey, ProvidersGrow
<1>2. \A b \in providers'[c] : b.key = k <=> b = Binding(c, k)
  BY <1>1, ProvidersGrow
<1>3. Bound(c, k)'
  BY <1>1 DEF Bound
<1>4. (CHOOSE b \in providers'[c] : b.key = k) = Binding(c, k)
  BY <1>1, <1>2
<1> QED
  BY <1>3, <1>4 DEF Binding

\* The calls that hold the lock, by where the innermost one is.
LEMMA HeldBy ==
    ASSUME TypeOK, NEW t \in Threads
    PROVE  /\ Held(t) \in Nat /\ Len(calls[t]) \in Nat
           /\ Idle(t) <=> Len(calls[t]) = 0
           /\ Idle(t) => Held(t) = 0
           /\ In(t, "factory") => Held(t) = Len(calls[t]) /\ Held(t) > 0
           /\ ~Idle(t) /\ ~In(t, "factory") => Held(t) = Len(calls[t]) - 1
<1>1. calls[t] \in Seq(Call)
  BY DEF TypeOK
<1>2. Len(calls[t]) \in Nat /\ (calls[t] = <<>> <=> Len(calls[t]) = 0)
  BY <1>1, EmptySeq
<1> QED
  BY <1>2 DEF Held, In, Idle

\* What the innermost call builds is bound where it was found.
LEMMA BuildingIsBound ==
    ASSUME TypeOK, AllFound, NEW t \in Threads, ~Idle(t)
    PROVE  /\ Top(t).holder \in Containers /\ Top(t).on \in Containers
           /\ Top(t).key \in Keys /\ Top(t).next \in Nat
           /\ Bound(Top(t).holder, Top(t).key)
           /\ Building(t) \in providers[Top(t).holder]
           /\ Building(t) \in Bindings
           /\ Building(t).key = Top(t).key
           /\ Building(t).deps \in Seq(Keys)
<1>1. Top(t) \in Call /\ Top(t) = calls[t][Len(calls[t])] /\ Len(calls[t]) \in 1..Len(calls[t])
  BY TopIsCall DEF Top
<1>2. Bound(Top(t).holder, Top(t).key)
  BY <1>1 DEF AllFound
<1>3. Top(t).holder \in Containers /\ Top(t).on \in Containers /\ Top(t).key \in Keys /\ Top(t).next \in Nat
  BY <1>1 DEF Call
<1> QED
  BY <1>2, <1>3, BindingOfKey DEF Building

\* A step that changes the calls does one of three things to those of one thread.
LEMMA Shapes ==
    ASSUME TypeOK, [Next]_vars, calls' # calls
    PROVE  \E t \in Threads :
              \/ \E p \in Places, r \in Results : ~Idle(t) /\ Moved(t, p, r)
              \/ \E r \in Results : ~Idle(t) /\ Returned(t, r)
              \/ \E c \in Containers, k \in Keys :
                    /\ Holder(c, k) # NoOne /\ Entered(t, Entry(c, k, Holder(c, k)))
                    /\ \/ Idle(t)
                       \/ /\ ~Idle(t) /\ Top(t).next =< Len(Building(t).deps)
                          /\ k = Building(t).deps[Top(t).next]
<1>1. PICK t \in Threads : Resolve(t) \/ Step(t)
  BY DEF Next, Register, vars
<1>13. \/ Resolve(t) \/ Check(t) \/ Push(t) \/ Lock(t) \/ ResolveNext(t)
       \/ Built(t) \/ BuildFails(t) \/ Pop(t)
  BY <1>1 DEF Step
<1>2. ~Idle(t) => Top(t).on \in Containers /\ Top(t).result \in Results
  BY TopIsCall DEF Call
<1>3. {"ok", "cycle", "error"} = Results /\ {"push", "lock", "pop", "factory"} \subseteq Places
  BY DEF Results, Places
<1>4. ASSUME ResolveNext(t), NEW k, Holder(Top(t).on, k) # NoOne PROVE k \in Keys
  <2>1. Top(t).on \in Containers
    BY <1>2, <1>4 DEF ResolveNext, In
  <2> QED
    BY <1>4, <2>1, FoundIsBound, BindingOfKey
<1>5. CASE Resolve(t)
  BY <1>5, Effects
<1>6. CASE Check(t)
  BY <1>2, <1>3, <1>6, Effects DEF In
<1>7. CASE Push(t)
  BY <1>2, <1>3, <1>7, Effects DEF In
<1>8. CASE Lock(t)
  BY <1>2, <1>3, <1>8, Effects DEF In
<1>9. CASE ResolveNext(t)
  BY <1>2, <1>3, <1>4, <1>9, Effects DEF In
<1>10. CASE Built(t)
  BY <1>3, <1>10, Effects DEF In
<1>11. CASE BuildFails(t)
  BY <1>3, <1>11, Effects DEF In
<1>12. CASE Pop(t)
  BY <1>2, <1>12, Effects DEF In
<1> QED
  BY <1>5, <1>6, <1>7, <1>8, <1>9, <1>10, <1>11, <1>12, <1>13, Zenon

LEMMA FoundStep ==
    ASSUME TypeOK, AllFound, [Next]_vars
    PROVE  AllFound'
<1>1. ASSUME NEW c \in Containers, NEW k, Bound(c, k)
      PROVE  \E b \in providers'[c] : b.key = k
  BY <1>1, BindingStays DEF Bound
<1>2. ASSUME NEW t \in Threads, NEW i \in 1..Len(calls[t])
      PROVE  \E b \in providers'[calls[t][i].holder] : b.key = calls[t][i].key
  <2>1. calls[t][i] \in Call
    BY ElementOfSeq DEF TypeOK
  <2>2. calls[t][i].holder \in Containers
    BY <2>1 DEF Call
  <2> QED
    BY <1>1, <2>2 DEF AllFound
<1>3. CASE calls' = calls
  BY <1>2, <1>3 DEF AllFound, Bound
<1>7. ASSUME NEW t \in Threads,
             \A s \in Threads : s # t => calls'[s] = calls[s],
             \A i \in 1..Len(calls'[t]) :
                \E b \in providers'[calls'[t][i].holder] : b.key = calls'[t][i].key
      PROVE  AllFound'
  <2> SUFFICES ASSUME NEW s \in Threads, NEW i \in 1..Len(calls'[s])
               PROVE  \E b \in providers'[calls'[s][i].holder] : b.key = calls'[s][i].key
    BY DEF AllFound, Bound
  <2>1. CASE s = t
    BY <1>7, <2>1
  <2>2. CASE s # t
    <3>1. calls'[s] = calls[s]
      BY <1>7, <2>2
    <3> QED
      BY <1>2, <3>1
  <2> QED
    BY <2>1, <2>2
<1>4. ASSUME NEW t \in Threads, NEW p \in Places, NEW r \in Results, Moved(t, p, r)
      PROVE  AllFound'
  <2>1. \A s \in Threads : s # t => calls'[s] = calls[s]
    BY <1>4 DEF Moved
  <2>2. ASSUME NEW i \in 1..Len(calls'[t])
        PROVE  \E b \in providers'[calls'[t][i].holder] : b.key = calls'[t][i].key
    <3>1. i \in 1..Len(calls[t])
      BY <1>4 DEF Moved
    <3>2. calls'[t][i].holder = calls[t][i].holder /\ calls'[t][i].key = calls[t][i].key
      BY <1>4, <3>1 DEF Moved
    <3> QED
      BY <1>2, <3>1, <3>2
  <2> QED
    BY <1>7, <2>1, <2>2
<1>5. ASSUME NEW t \in Threads, NEW r \in Results, Returned(t, r), ~Idle(t)
      PROVE  AllFound'
  <2>1. \A i \in 1..Len(calls'[t]) : i \in 1..Len(calls[t])
    BY <1>5, HeldBy DEF Returned
  <2>2. ASSUME NEW i \in 1..Len(calls'[t])
        PROVE  \E b \in providers'[calls'[t][i].holder] : b.key = calls'[t][i].key
    <3>1. calls'[t][i].holder = calls[t][i].holder /\ calls'[t][i].key = calls[t][i].key
      BY <1>5 DEF Returned
    <3> QED
      BY <1>2, <2>1, <3>1
  <2>3. \A s \in Threads : s # t => calls'[s] = calls[s]
    BY <1>5 DEF Returned
  <2> QED
    BY <1>7, <2>2, <2>3
<1>6. ASSUME NEW t \in Threads, NEW c \in Containers, NEW k, Holder(c, k) # NoOne,
             Entered(t, Entry(c, k, Holder(c, k)))
      PROVE  AllFound'
  <2> DEFINE h == Holder(c, k)
             new == Entry(c, k, h)
  <2>1. new.key = k /\ new.holder = h
    BY DEF Entry
  <2>2. \E b \in providers'[h] : b.key = k
    BY <1>1, <1>6, FoundIsBound
  <2>3. \A i \in 1..Len(calls'[t]) : i \in 1..Len(calls[t]) \/ i = Len(calls[t]) + 1
    BY <1>6, HeldBy DEF Entered
  <2>4. ASSUME NEW i \in 1..Len(calls'[t])
        PROVE  \E b \in providers'[calls'[t][i].holder] : b.key = calls'[t][i].key
    <3>1. CASE i \in 1..Len(calls[t])
      <4>1. calls'[t][i] = calls[t][i]
        BY <1>6, <3>1 DEF Entered
      <4> QED
        BY <1>2, <3>1, <4>1
    <3>2. CASE i = Len(calls[t]) + 1
      <4>1. calls'[t][i] = new
        BY <1>6, <3>2 DEF Entered
      <4> QED
        BY <2>1, <2>2, <4>1
    <3> QED
      BY <2>3, <3>1, <3>2
  <2>5. \A s \in Threads : s # t => calls'[s] = calls[s]
    BY <1>6 DEF Entered
  <2> QED
    BY <1>7, <2>4, <2>5
<1> QED
  BY <1>3, <1>4, <1>5, <1>6, Shapes

\* Every step keeps the types, since no lock is given back that is not held.
LEMMA TypeStep ==
    ASSUME TypeOK, AllFound, LockInv, [Next]_vars
    PROVE  TypeOK'
<1>1. /\ providers' \in [Containers -> SUBSET Bindings]
      /\ \A c \in Containers : \A b, other \in providers'[c] :
            b.in = c /\ (b.key = other.key => b = other)
      /\ \A c \in Containers : providers[c] \subseteq providers'[c]
  BY ProvidersGrow
<1>2. calls' \in [Threads -> Seq(Call)]
  BY Shapes DEF TypeOK, Moved, Returned, Entered
<1>3. ASSUME cached' = cached PROVE cached' \subseteq UNION {providers'[c] : c \in Containers}
  BY <1>1, <1>3 DEF TypeOK
<1>4. ASSUME UNCHANGED <<cached, lock, depth, frames, stores>>
      PROVE  TypeOK'
  BY <1>1, <1>2, <1>3, <1>4 DEF TypeOK
<1>5. ASSUME NEW t \in Threads, In(t, "factory"), Release(Top(t).on)
      PROVE  /\ depth' \in [Containers -> Nat]
             /\ lock' \in [Containers -> Threads \cup {NoOne}]
  <2>1. Held(t) > 0 /\ Held(t) \in Nat /\ Top(t).on \in Containers
    BY <1>5, HeldBy, TopIsCall DEF In, Call
  <2>2. lock[Top(t).on] = t
    BY <2>1 DEF LockInv
  <2>4. t # NoOne
    BY ContainerAssumption
  <2>5. PICK s \in Threads : /\ lock[Top(t).on] = s
                             /\ depth[Top(t).on] = Held(s) /\ Held(s) > 0
    BY <2>1, <2>2, <2>4 DEF LockInv, Locked
  <2>3. depth[Top(t).on] > 0
    BY <2>5
  <2> QED
    BY <1>5, <2>1, <2>3 DEF Release, TypeOK
<1>6. ASSUME NEW t \in Threads, NEW c \in Containers, Acquire(t, c)
      PROVE  /\ depth' \in [Containers -> Nat]
             /\ lock' \in [Containers -> Threads \cup {NoOne}]
  BY <1>6 DEF Acquire, TypeOK
<1>7. ASSUME NEW t \in Threads, Register(t) PROVE TypeOK'
  <2>1. PICK b \in Bindings :
          /\ providers' = [providers EXCEPT ![b.in] = @ \cup {b}]
          /\ cached' = cached \/ cached' = cached \cup {b}
    BY <1>7 DEF Register
  <2>2. b \in providers'[b.in] /\ b.in \in Containers
    BY <2>1, ContainerAssumption DEF TypeOK
  <2>3. cached' \subseteq UNION {providers'[c] : c \in Containers}
    BY <1>3, <2>1, <2>2, <1>1 DEF TypeOK
  <2> QED
    BY <1>1, <1>2, <1>7, <2>3 DEF TypeOK, Register
<1>8. ASSUME NEW t \in Threads, Push(t) PROVE TypeOK'
  <2>1. Top(t).on \in Containers /\ Top(t).key \in Keys
    BY <1>8, BuildingIsBound DEF Push, In
  <2>2. Append(frames[Top(t).on], Top(t).key) \in Seq(Keys)
    BY <2>1, AppendProperties DEF TypeOK
  <2>3. frames' \in [Containers -> Seq(Keys)]
    BY <1>8, <2>1, <2>2 DEF Push, TypeOK
  <2> QED
    BY <1>1, <1>2, <1>3, <1>8, <2>3 DEF Push, TypeOK
<1>9. ASSUME NEW t \in Threads, Pop(t) PROVE TypeOK'
  <2>1. Top(t).on \in Containers
    BY <1>9, BuildingIsBound DEF Pop, In
  <2>2. frames[Top(t).on] \in Seq(Keys)
    BY <2>1 DEF TypeOK
  <2>3. SubSeq(frames[Top(t).on], 1, Len(frames[Top(t).on]) - 1) \in Seq(Keys)
    <3>1. CASE frames[Top(t).on] = <<>>
      <4>1. SubSeq(frames[Top(t).on], 1, 0 - 1) = <<>>
        BY SubSeqEmpty
      <4> QED
        BY <3>1, <4>1
    <3>2. CASE frames[Top(t).on] # <<>>
      BY <2>2, <3>2, DropLast
    <3> QED
      BY <3>1, <3>2
  <2>4. frames' \in [Containers -> Seq(Keys)]
    BY <1>9, <2>1, <2>3 DEF Pop, TypeOK
  <2> QED
    BY <1>1, <1>2, <1>3, <1>9, <2>4 DEF Pop, TypeOK
<1>10. ASSUME NEW t \in Threads, Lock(t) PROVE TypeOK'
  <2>1. Top(t).on \in Containers
    BY <1>10, BuildingIsBound DEF Lock, In
  <2>2. UNCHANGED <<providers, cached, frames, stores>>
    BY <1>10 DEF Lock
  <2>3. UNCHANGED <<lock, depth>> \/ Acquire(t, Top(t).on)
    BY <1>10 DEF Lock
  <2> QED
    BY <1>1, <1>2, <1>3, <1>4, <1>6, <2>1, <2>2, <2>3 DEF TypeOK
<1>11. ASSUME NEW t \in Threads, Built(t) PROVE TypeOK'
  <2>1. /\ Top(t).on \in Containers /\ Top(t).holder \in Containers
        /\ Building(t) \in Bindings /\ Building(t) \in providers[Top(t).holder]
    BY <1>11, BuildingIsBound DEF Built, In
  <2>2. cached' = cached \/ cached' = cached \cup {Building(t)}
    BY <1>11 DEF Built
  <2>3. cached' \subseteq UNION {providers'[c] : c \in Containers}
    <3>1. Building(t) \in UNION {providers'[c] : c \in Containers}
      BY <1>1, <2>1
    <3>2. cached \subseteq UNION {providers'[c] : c \in Containers}
      BY <1>1 DEF TypeOK
    <3> QED
      BY <2>2, <3>1, <3>2
  <2>4. stores' \in [Bindings -> [Containers -> Nat]]
    <3>1. stores' = stores \/ stores' = [stores EXCEPT ![Building(t)][Top(t).on] = @ + 1]
      BY <1>11 DEF Built
    <3>2. stores \in [Bindings -> [Containers -> Nat]]
      BY DEF TypeOK
    <3>3. stores[Building(t)] \in [Containers -> Nat]
      BY <2>1, <3>2
    <3>4. [stores[Building(t)] EXCEPT ![Top(t).on] = @ + 1] \in [Containers -> Nat]
      BY <2>1, <3>3
    <3> QED
      BY <2>1, <3>1, <3>2, <3>4
  <2>5. frames' = frames /\ Release(Top(t).on) /\ In(t, "factory")
    BY <1>11 DEF Built
  <2> QED
    BY <1>1, <1>2, <1>5, <2>3, <2>4, <2>5 DEF TypeOK
<1>12. ASSUME NEW t \in Threads, BuildFails(t) PROVE TypeOK'
  <2>1. UNCHANGED <<cached, frames, stores>> /\ Release(Top(t).on) /\ In(t, "factory")
    BY <1>12 DEF BuildFails
  <2> QED
    BY <1>1, <1>2, <1>3, <1>5, <2>1 DEF TypeOK
<1>13. ASSUME NEW t \in Threads, Resolve(t) \/ Check(t) \/ ResolveNext(t) PROVE TypeOK'
  BY <1>4, <1>13 DEF Resolve, Check, ResolveNext, shared
<1>14. CASE UNCHANGED vars
  BY <1>4, <1>14 DEF vars, shared
<1> QED
  BY <1>7, <1>8, <1>9, <1>10, <1>11, <1>12, <1>13, <1>14 DEF Next, Step

-----------------------------------------------------------------------------
(***************************************************************************)
(* The reentrant locks.                                                    *)
(***************************************************************************)

\* Threads whose calls stay as they are.
LEMMA Bystander ==
    ASSUME NEW s \in Threads, calls'[s] = calls[s]
    PROVE  /\ Held(s)' = Held(s) /\ Top(s)' = Top(s) /\ Idle(s)' = Idle(s)
           /\ Stacked(s)' <=> Stacked(s)
BY DEF Held, Top, Idle, In, Stacked

\* What holds the lock after a step: as many calls as before, one less when the
\* factory is left, one more when it is entered.
LEMMA HeldAfterMove ==
    ASSUME TypeOK, NEW t \in Threads, ~Idle(t), Stacked(t),
           NEW p \in Places, NEW r \in Results, Moved(t, p, r)
    PROVE  /\ Stacked(t)' /\ Top(t)'.on = Top(t).on
           /\ p = "factory" => Held(t)' = Len(calls[t])
           /\ p # "factory" => Held(t)' = Len(calls[t]) - 1
<1>1. PICK n \in Nat \ {0} : n = Len(calls[t])
  BY TopIsCall
<1>2. /\ Len(calls'[t]) = n
      /\ \A i \in 1..n : i < n => calls'[t][i] = calls[t][i]
      /\ \A i \in 1..n : calls'[t][i].on = calls[t][i].on
      /\ calls'[t][n].at = p
  BY <1>1 DEF Moved
<1>3. Top(t)' = calls'[t][n] /\ Top(t) = calls[t][n] /\ n \in 1..n
  BY <1>1, <1>2 DEF Top
<1>4. Top(t)'.on = Top(t).on
  BY <1>2, <1>3
<1>5. Stacked(t)'
  BY <1>1, <1>2, <1>4 DEF Stacked
<1>6. ~Idle(t)'
  BY <1>1, <1>2 DEF Idle
<1>7. In(t, "factory")' <=> p = "factory"
  BY <1>2, <1>3, <1>6 DEF In
<1>8. p = "factory" => Held(t)' = n
  BY <1>2, <1>7 DEF Held
<1>9. p # "factory" => Held(t)' = n - 1
  BY <1>2, <1>6, <1>7 DEF Held
<1> QED
  BY <1>1, <1>4, <1>5, <1>8, <1>9

LEMMA HeldAfterReturn ==
    ASSUME TypeOK, NEW t \in Threads, ~Idle(t), ~In(t, "factory"), Stacked(t),
           NEW r \in Results, Returned(t, r)
    PROVE  /\ Stacked(t)' /\ Held(t)' = Held(t)
           /\ Held(t) > 0 => Top(t)'.on = Top(t).on
<1>1. PICK n \in Nat : n = Len(calls[t]) - 1 /\ n + 1 = Len(calls[t])
  <2>1. Len(calls[t]) \in Nat \ {0}
    BY TopIsCall
  <2> QED
    BY <2>1
<1>2. Held(t) = n
  BY <1>1 DEF Held
<1>3. /\ Len(calls'[t]) = n /\ calls'[t] \in Seq(Call)
      /\ \A i \in 1..n : i < n => calls'[t][i] = calls[t][i]
      /\ \A i \in 1..n : calls'[t][i].on = calls[t][i].on
      /\ \A i \in 1..n : calls'[t][i].at = calls[t][i].at
  BY <1>1 DEF Returned
<1>4. \A i \in 1..n : /\ calls[t][i].on = Top(t).on
                      /\ calls[t][i].at = "factory" /\ calls[t][i].result = "ok"
  BY <1>1 DEF Stacked
<1>5. CASE n = 0
  <2>1. Idle(t)'
    BY <1>3, <1>5, EmptySeq DEF Idle
  <2> QED
    BY <1>2, <1>3, <1>5, <2>1 DEF Held, Stacked
<1>6. CASE n > 0
  <2>1. Top(t)' = calls'[t][n] /\ n \in 1..n
    BY <1>3, <1>6 DEF Top
  <2>2. Top(t)'.on = Top(t).on /\ Top(t)'.at = "factory"
    BY <1>3, <1>4, <2>1
  <2>3. ~Idle(t)'
    BY <1>3, <1>6 DEF Idle
  <2>4. Held(t)' = n
    BY <1>3, <2>2, <2>3 DEF Held, In
  <2>5. Stacked(t)'
    BY <1>3, <1>4, <2>2 DEF Stacked
  <2> QED
    BY <1>2, <2>2, <2>4, <2>5
<1>7. n = 0 \/ n > 0
  OBVIOUS
<1> QED
  BY <1>5, <1>6, <1>7, Zenon

LEMMA HeldAfterEntry ==
    ASSUME TypeOK, NEW t \in Threads, Stacked(t), NEW new, Entered(t, new),
           new.at = "check",
           Idle(t) \/ (In(t, "factory") /\ Top(t).result = "ok" /\ new.on = Top(t).on)
    PROVE  /\ Stacked(t)' /\ Held(t)' = Held(t)
           /\ Held(t) > 0 => Top(t)'.on = Top(t).on
<1>1. PICK n \in Nat : n = Len(calls[t])
  BY HeldBy
<1>2. Held(t) = n
  BY <1>1 DEF Held
<1>3. /\ Len(calls'[t]) = n + 1
      /\ \A i \in 1..n : calls'[t][i] = calls[t][i]
      /\ calls'[t][n + 1] = new
  BY <1>1 DEF Entered
<1>4. Top(t)' = new
  BY <1>3 DEF Top
<1>5. ~Idle(t)' /\ ~In(t, "factory")'
  BY <1>3, <1>4 DEF Idle, In
<1>6. Held(t)' = n
  BY <1>3, <1>5 DEF Held
<1>7. CASE Idle(t)
  <2>1. n = 0
    BY <1>1, <1>7, HeldBy
  <2>2. Stacked(t)'
    BY <1>3, <1>4, <2>1 DEF Stacked
  <2> QED
    BY <1>2, <1>6, <2>1, <2>2
<1>8. CASE In(t, "factory") /\ Top(t).result = "ok" /\ new.on = Top(t).on
  <2>1. \A i \in 1..n : /\ calls[t][i].on = Top(t).on
                        /\ calls[t][i].at = "factory" /\ calls[t][i].result = "ok"
    <3>1. Top(t) = calls[t][n] /\ Top(t).at = "factory"
      BY <1>1, <1>8 DEF Top, In
    <3>2. \A i \in 1..n : i < n \/ i = n
      OBVIOUS
    <3> QED
      BY <1>1, <1>8, <3>1, <3>2 DEF Stacked
  <2>2. Stacked(t)'
    <3>1. ASSUME NEW i \in 1..(n + 1)
          PROVE  /\ calls'[t][i].on = new.on
                 /\ i < n + 1 => calls'[t][i].at = "factory" /\ calls'[t][i].result = "ok"
      <4>1. CASE i = n + 1
        BY <1>3, <4>1
      <4>2. CASE i # n + 1
        BY <1>3, <1>8, <2>1, <4>2
      <4> QED
        BY <4>1, <4>2
    <3> QED
      BY <1>3, <1>4, <3>1 DEF Stacked
  <2> QED
    BY <1>2, <1>4, <1>6, <1>8, <2>2
<1> QED
  BY <1>7, <1>8

\* The lock table agrees with the calls if neither changes, or both do.
LEMMA LockSame ==
    ASSUME TypeOK, LockInv, NEW t \in Threads,
           \A s \in Threads : s # t => calls'[s] = calls[s],
           Stacked(t)', Held(t)' = Held(t), Held(t) > 0 => Top(t)'.on = Top(t).on,
           UNCHANGED <<lock, depth>>
    PROVE  LockInv'
<1>1. ASSUME NEW s \in Threads
      PROVE  /\ Stacked(s)' /\ Held(s)' = Held(s)
             /\ Held(s) > 0 => Top(s)'.on = Top(s).on
  <2>1. CASE s = t
    BY <2>1
  <2>2. CASE s # t
    BY <2>2, Bystander DEF LockInv
  <2> QED
    BY <2>1, <2>2
<1>2. ASSUME NEW s \in Threads, Held(s)' > 0 PROVE lock'[Top(s)'.on] = s
  BY <1>1, <1>2 DEF LockInv
<1>3. ASSUME NEW c \in Containers PROVE Locked(c)'
  <2>1. CASE lock[c] = NoOne /\ depth[c] = 0
    BY <2>1 DEF Locked
  <2>2. ASSUME NEW s \in Threads, lock[c] = s, depth[c] = Held(s), Held(s) > 0, Top(s).on = c
        PROVE  Locked(c)'
    <3>1. lock'[c] = s /\ depth'[c] = Held(s)' /\ Held(s)' > 0 /\ Top(s)'.on = c
      BY <1>1, <2>2
    <3> QED
      BY <3>1 DEF Locked
  <2> QED
    BY <2>1, <2>2 DEF LockInv, Locked
<1> QED
  BY <1>1, <1>2, <1>3 DEF LockInv

LEMMA LockChanges ==
    ASSUME TypeOK, LockInv, NEW t \in Threads, NEW c \in Containers, NEW m \in Nat,
           \A s \in Threads : s # t => calls'[s] = calls[s],
           Stacked(t)', Top(t).on = c, Top(t)'.on = c, Held(t)' = m,
           lock[c] \in {NoOne, t},
           lock' = [lock EXCEPT ![c] = IF m = 0 THEN NoOne ELSE t],
           depth' = [depth EXCEPT ![c] = m]
    PROVE  LockInv'
<1>1. ASSUME NEW s \in Threads, s # t
      PROVE  /\ Stacked(s)' /\ Held(s)' = Held(s) /\ Top(s)' = Top(s)
             /\ Held(s) > 0 => Top(s).on # c /\ lock[Top(s).on] = s
  <2>1. Stacked(s)' /\ Held(s)' = Held(s) /\ Top(s)' = Top(s)
    BY <1>1, Bystander DEF LockInv
  <2>2. Held(s) > 0 => lock[Top(s).on] = s
    BY DEF LockInv
  <2>3. lock[c] # s
    BY <1>1, ContainerAssumption
  <2> QED
    BY <2>1, <2>2, <2>3
<1>2. ASSUME NEW s \in Threads, Held(s)' > 0 PROVE lock'[Top(s)'.on] = s
  <2>1. CASE s = t
    BY <1>2, <2>1 DEF TypeOK
  <2>2. CASE s # t
    <3>1. Held(s) > 0 /\ Top(s)' = Top(s) /\ Top(s).on # c /\ lock[Top(s).on] = s
      BY <1>1, <1>2, <2>2
    <3>2. ~Idle(s)
      BY <3>1, HeldBy
    <3>3. Top(s).on \in Containers
      BY <3>2, TopIsCall DEF Call
    <3> QED
      BY <3>1, <3>3 DEF TypeOK
  <2> QED
    BY <2>1, <2>2
<1>3. ASSUME NEW d \in Containers PROVE Locked(d)'
  <2>1. CASE d = c
    <3>1. lock'[c] = (IF m = 0 THEN NoOne ELSE t) /\ depth'[c] = m
      BY DEF TypeOK
    <3>2. CASE m = 0
      BY <2>1, <3>1, <3>2 DEF Locked
    <3>3. CASE m # 0
      <4>1. lock'[c] = t /\ depth'[c] = Held(t)' /\ Held(t)' > 0 /\ Top(t)'.on = c
        BY <3>1, <3>3
      <4> QED
        BY <2>1, <4>1 DEF Locked
    <3> QED
      BY <3>2, <3>3
  <2>2. CASE d # c
    <3>1. lock'[d] = lock[d] /\ depth'[d] = depth[d]
      BY <2>2 DEF TypeOK
    <3>2. CASE lock[d] = NoOne /\ depth[d] = 0
      BY <3>1, <3>2 DEF Locked
    <3>3. ASSUME NEW s \in Threads, lock[d] = s, depth[d] = Held(s), Held(s) > 0, Top(s).on = d
          PROVE  Locked(d)'
      <4>1. s # t
        BY <2>2, <3>3
      <4>2. lock'[d] = s /\ depth'[d] = Held(s)' /\ Held(s)' > 0 /\ Top(s)'.on = d
        BY <1>1, <3>1, <3>3, <4>1
      <4> QED
        BY <4>2 DEF Locked
    <3> QED
      BY <3>2, <3>3 DEF LockInv, Locked
  <2> QED
    BY <2>1, <2>2
<1> QED
  BY <1>1, <1>2, <1>3 DEF LockInv

\* A lock is taken by the thread that holds it or by one that finds it free, and
\* given back with the outermost call: LockInv is inductive.
LEMMA LockStep ==
    ASSUME TypeOK, AllFound, LockInv, [Next]_vars
    PROVE  LockInv'
<1>1. ASSUME UNCHANGED <<calls, lock, depth>> PROVE LockInv'
  BY <1>1 DEF LockInv, Locked, Stacked, Held, In, Idle, Top
<1>2. ASSUME NEW t \in Threads
      PROVE  Stacked(t) /\ Held(t) \in Nat /\ Len(calls[t]) \in Nat
  BY HeldBy DEF LockInv
<1>3. {"ok", "cycle", "error"} = Results /\ {"push", "lock", "pop", "factory"} \subseteq Places
  BY DEF Results, Places
<1>4. ASSUME NEW t \in Threads, ~Idle(t), ~In(t, "factory"), NEW p \in Places \ {"factory"},
             NEW r \in Results, Moved(t, p, r), UNCHANGED <<lock, depth>>
      PROVE  LockInv'
  <2>1. Held(t)' = Held(t) /\ Stacked(t)' /\ Top(t)'.on = Top(t).on
    BY <1>2, <1>4, HeldAfterMove, HeldBy
  <2> QED
    BY <1>4, <2>1, LockSame DEF Moved
<1>5. ASSUME NEW t \in Threads, ~Idle(t), ~In(t, "factory"), NEW r \in Results,
             Returned(t, r), UNCHANGED <<lock, depth>>
      PROVE  LockInv'
  BY <1>2, <1>5, HeldAfterReturn, LockSame DEF Returned
<1>6. ASSUME NEW t \in Threads, NEW new, Entered(t, new), new.at = "check",
             Idle(t) \/ (In(t, "factory") /\ Top(t).result = "ok" /\ new.on = Top(t).on),
             UNCHANGED <<lock, depth>>
      PROVE  LockInv'
  BY <1>2, <1>6, HeldAfterEntry, LockSame DEF Entered
<1>7. ASSUME NEW t \in Threads, In(t, "factory"), NEW r \in Results, Moved(t, "pop", r),
             Release(Top(t).on)
      PROVE  LockInv'
  <2> DEFINE c == Top(t).on
  <2>1. ~Idle(t) /\ c \in Containers
    BY <1>7, TopIsCall DEF In, Call
  <2>2. Held(t) > 0 /\ Held(t) = Len(calls[t]) /\ lock[c] = t
    BY <1>7, HeldBy DEF LockInv
  <2>3. depth[c] = Held(t)
    BY <2>1, <2>2, ContainerAssumption DEF LockInv, Locked
  <2>4. PICK m \in Nat : m = Held(t) - 1
    BY <1>2, <2>2
  <2>5. Held(t)' = m /\ Stacked(t)' /\ Top(t)'.on = c
    BY <1>2, <1>3, <1>7, <2>1, <2>2, <2>4, HeldAfterMove
  <2>6. depth[c] = 1 <=> m = 0
    BY <1>2, <2>3, <2>4
  <2>7. depth' = [depth EXCEPT ![c] = m]
    BY <1>7, <2>3, <2>4 DEF Release
  <2>8. lock' = [lock EXCEPT ![c] = IF m = 0 THEN NoOne ELSE t]
    BY <1>7, <2>2, <2>6 DEF Release
  <2>9. \A s \in Threads : s # t => calls'[s] = calls[s]
    BY <1>7 DEF Moved
  <2> QED
    BY <2>1, <2>2, <2>5, <2>7, <2>8, <2>9, LockChanges
<1>8. ASSUME NEW t \in Threads, In(t, "lock"), NEW r \in Results, Moved(t, "factory", r),
             Acquire(t, Top(t).on)
      PROVE  LockInv'
  <2> DEFINE c == Top(t).on
  <2>1. ~Idle(t) /\ ~In(t, "factory") /\ c \in Containers
    BY <1>8, TopIsCall DEF In, Call
  <2>2. Held(t) = Len(calls[t]) - 1 /\ lock[c] \in {NoOne, t}
    BY <1>8, <2>1, HeldBy DEF Acquire
  <2>3. depth[c] = Held(t)
    <3>1. CASE lock[c] = t
      BY <2>1, <3>1, ContainerAssumption DEF LockInv, Locked
    <3>2. CASE lock[c] = NoOne
      <4>1. depth[c] = 0
        BY <2>1, <3>2, ContainerAssumption DEF LockInv, Locked
      <4>2. ~(Held(t) > 0)
        BY <3>2, ContainerAssumption DEF LockInv
      <4> QED
        BY <1>2, <4>1, <4>2
    <3> QED
      BY <2>2, <3>1, <3>2
  <2>4. PICK m \in Nat \ {0} : m = Held(t) + 1
    BY <1>2
  <2>5. Held(t)' = m /\ Stacked(t)' /\ Top(t)'.on = c
    <3>1. m = Len(calls[t])
      BY <1>2, <2>2, <2>4
    <3> QED
      BY <1>2, <1>3, <1>8, <2>1, <3>1, HeldAfterMove
  <2>6. depth' = [depth EXCEPT ![c] = m] /\ lock' = [lock EXCEPT ![c] = IF m = 0 THEN NoOne ELSE t]
    BY <1>8, <2>3, <2>4 DEF Acquire
  <2>7. \A s \in Threads : s # t => calls'[s] = calls[s]
    BY <1>8 DEF Moved
  <2> QED
    BY <2>1, <2>2, <2>5, <2>6, <2>7, LockChanges
<1>9. ASSUME NEW t \in Threads PROVE ~Idle(t) => Top(t).result \in Results
  BY TopIsCall DEF Call
<1>10. ASSUME NEW t \in Threads, Resolve(t) PROVE LockInv'
  BY <1>6, <1>10, Effects DEF Entry, shared
<1>11. ASSUME NEW t \in Threads, Check(t) PROVE LockInv'
  <2>1. In(t, "check") /\ ~Idle(t) /\ ~In(t, "factory") /\ UNCHANGED <<lock, depth>>
    BY <1>11 DEF Check, In, shared
  <2> QED
    BY <1>3, <1>4, <1>5, <1>9, <1>11, <2>1, Effects
<1>12. ASSUME NEW t \in Threads, Push(t) PROVE LockInv'
  BY <1>3, <1>4, <1>9, <1>12, Effects DEF Push, In
<1>13. ASSUME NEW t \in Threads, Lock(t) PROVE LockInv'
  <2>1. In(t, "lock") /\ ~Idle(t) /\ ~In(t, "factory")
    BY <1>13 DEF Lock, In
  <2> QED
    BY <1>3, <1>4, <1>8, <1>9, <1>13, <2>1, Effects DEF shared
<1>14. ASSUME NEW t \in Threads, ResolveNext(t) PROVE LockInv'
  <2>1. In(t, "factory") /\ ~Idle(t) /\ UNCHANGED <<lock, depth>> /\ Top(t).result = "ok"
    BY <1>14 DEF ResolveNext, In, shared
  <2>2. CASE Moved(t, "factory", "error")
    <3>1. Held(t)' = Held(t) /\ Stacked(t)' /\ Top(t)'.on = Top(t).on
      BY <1>2, <1>3, <2>1, <2>2, HeldAfterMove, HeldBy
    <3> QED
      BY <2>1, <2>2, <3>1, LockSame DEF Moved
  <2>3. ASSUME NEW k, NEW h, Entered(t, Entry(Top(t).on, k, h)) PROVE LockInv'
    BY <1>6, <2>1, <2>3 DEF Entry
  <2> QED
    BY <1>14, <2>2, <2>3, Effects
<1>15. ASSUME NEW t \in Threads, Built(t) PROVE LockInv'
  BY <1>3, <1>7, <1>15, Effects DEF Built
<1>16. ASSUME NEW t \in Threads, BuildFails(t) PROVE LockInv'
  BY <1>7, <1>16, Effects DEF BuildFails
<1>17. ASSUME NEW t \in Threads, Pop(t) PROVE LockInv'
  <2>1. ~Idle(t) /\ ~In(t, "factory") /\ UNCHANGED <<lock, depth>>
    BY <1>17 DEF Pop, In
  <2> QED
    BY <1>5, <1>9, <1>17, <2>1, Effects
<1>18. ASSUME NEW t \in Threads, Register(t) PROVE LockInv'
  BY <1>1, <1>18 DEF Register
<1>19. CASE UNCHANGED vars
  BY <1>1, <1>19 DEF vars, shared
<1> QED
  BY <1>10, <1>11, <1>12, <1>13, <1>14, <1>15, <1>16, <1>17, <1>18, <1>19 DEF Next, Step

\* Invariance of the two and of what they rest on.
LEMMA LockedAndTyped == Spec => [](TypeOK /\ AllFound /\ LockInv)
<1>1. Init => TypeOK /\ AllFound /\ LockInv
  <2> SUFFICES ASSUME Init PROVE TypeOK /\ AllFound /\ LockInv
    OBVIOUS
  <2>1. TypeOK
    BY EmptySeq DEF Init, TypeOK
  <2>2. \A t \in Threads : Idle(t) /\ Held(t) = 0
    BY <2>1, HeldBy DEF Init, Idle
  <2> QED
    BY <2>1, <2>2 DEF Init, AllFound, LockInv, Locked, Stacked, Idle
<1>2. TypeOK /\ AllFound /\ LockInv /\ [Next]_vars => (TypeOK /\ AllFound /\ LockInv)'
  BY TypeStep, FoundStep, LockStep
<1> QED
  BY <1>1, <1>2, PTL DEF Spec

-----------------------------------------------------------------------------
(***************************************************************************)
(* The shared resolve stack.                                               *)
(***************************************************************************)

FramesInv == \A c \in Containers : IsFiniteSet(Pushed(c)) /\ Len(frames[c]) = Cardinality(Pushed(c))

\* If the frames of one thread alone change, and by none or by one call, so does
\* the set.
LEMMA PushedAfter ==
    ASSUME NEW t \in Threads, NEW c, \A s \in Threads : s # t => calls'[s] = calls[s]
    PROVE  LET old == FramesOf(calls[t], c)
               new == FramesOf(calls'[t], c)
           IN  /\ new = old => Pushed(c)' = Pushed(c)
               /\ \A n : n \notin old /\ new = old \cup {n} =>
                     Pushed(c)' = Pushed(c) \cup {<<t, n>>} /\ <<t, n>> \notin Pushed(c)
               /\ \A n : n \in old /\ new = old \ {n} =>
                     Pushed(c)' = Pushed(c) \ {<<t, n>>} /\ <<t, n>> \in Pushed(c)
<1> DEFINE P == UNION {{<<s, i>> : i \in FramesOf(calls[s], c)} : s \in Threads}
           Q == UNION {{<<s, i>> : i \in FramesOf(calls'[s], c)} : s \in Threads}
<1>1. \A s \in Threads : \A i : <<s, i>> \in P <=> i \in FramesOf(calls[s], c)
  OBVIOUS
<1>2. \A s \in Threads : \A i : <<s, i>> \in Q <=> i \in FramesOf(calls'[s], c)
  OBVIOUS
<1>3. \A x \in P : \E s \in Threads : \E i : x = <<s, i>>
  OBVIOUS
<1>4. \A x \in Q : \E s \in Threads : \E i : x = <<s, i>>
  OBVIOUS
<1>5. \A s \in Threads : s # t => FramesOf(calls'[s], c) = FramesOf(calls[s], c)
  OBVIOUS
<1>6. Pushed(c) = P /\ Pushed(c)' = Q
  BY DEF Pushed
<1> HIDE DEF P, Q
<1> QED
  BY <1>1, <1>2, <1>3, <1>4, <1>5, <1>6

LEMMA FramesStep ==
    ASSUME TypeOK, AllFound, LockInv, FramesInv, [Next]_vars
    PROVE  FramesInv'
<1>1. ASSUME frames' = frames, \A c \in Containers : Pushed(c)' = Pushed(c)
      PROVE  FramesInv'
  BY <1>1 DEF FramesInv
<1>2. ASSUME UNCHANGED <<calls, frames>> PROVE FramesInv'
  BY <1>2 DEF FramesInv, Pushed, FramesOf
<1>3. ASSUME NEW t \in Threads, ~Idle(t)
      PROVE  /\ DOMAIN calls[t] = 1..Len(calls[t]) /\ Len(calls[t]) \in Nat \ {0}
             /\ Top(t) = calls[t][Len(calls[t])] /\ Top(t).result \in Results
             /\ Top(t).on \in Containers /\ Top(t).key \in Keys
  BY <1>3, TopIsCall DEF Top, Call
<1>4. ASSUME NEW t \in Threads, ~Idle(t), NEW p \in Places, NEW r \in Results, Moved(t, p, r),
             NEW c
      PROVE  LET n == Len(calls[t])
                 old == FramesOf(calls[t], c)
                 new == FramesOf(calls'[t], c)
             IN  /\ \A i : i # n => (i \in new <=> i \in old)
                 /\ n \in old <=> Top(t).on = c /\ Top(t).at \in {"lock", "factory", "pop"}
                 /\ n \in new <=> Top(t).on = c /\ p \in {"lock", "factory", "pop"}
  <2>1. PICK n \in Nat \ {0} : n = Len(calls[t])
    BY <1>3, <1>4
  <2>2. calls'[t] \in Seq(Call) /\ Len(calls'[t]) = n
    BY <1>4, <2>1 DEF Moved
  <2>3. DOMAIN calls'[t] = 1..n /\ DOMAIN calls[t] = 1..n /\ n \in 1..n
    BY <1>3, <1>4, <2>1, <2>2
  <2>4. /\ \A i \in 1..n : i # n => calls'[t][i] = calls[t][i]
        /\ calls'[t][n].at = p /\ calls'[t][n].on = calls[t][n].on
    BY <1>4, <2>1, <2>3 DEF Moved
  <2>5. Top(t) = calls[t][n]
    BY <1>3, <1>4, <2>1
  <2> QED
    BY <2>1, <2>3, <2>4, <2>5 DEF FramesOf
<1>5. ASSUME NEW t \in Threads, ~Idle(t), NEW p \in Places, NEW r \in Results, Moved(t, p, r),
             Top(t).at \in {"lock", "factory", "pop"} <=> p \in {"lock", "factory", "pop"},
             frames' = frames
      PROVE  FramesInv'
  <2>1. ASSUME NEW c PROVE FramesOf(calls'[t], c) = FramesOf(calls[t], c)
    <3> DEFINE n == Len(calls[t])
               old == FramesOf(calls[t], c)
               new == FramesOf(calls'[t], c)
    <3>1. \A i : i # n => (i \in new <=> i \in old)
      BY <1>4, <1>5
    <3>2. n \in new <=> n \in old
      BY <1>4, <1>5
    <3> HIDE DEF n, old, new
    <3>3. new = old
      BY <3>1, <3>2
    <3> QED
      BY <3>3 DEF old, new
  <2> QED
    BY <1>1, <1>5, <2>1, PushedAfter DEF Moved
<1>6. ASSUME NEW t \in Threads, ~Idle(t), NEW r \in Results, Returned(t, r), NEW c
      PROVE  LET n == Len(calls[t])
                 old == FramesOf(calls[t], c)
                 new == FramesOf(calls'[t], c)
             IN  /\ new = old \ {n}
                 /\ n \in old <=> Top(t).on = c /\ Top(t).at \in {"lock", "factory", "pop"}
  <2>1. PICK n \in Nat \ {0} : n = Len(calls[t])
    BY <1>3, <1>6
  <2>2. calls'[t] \in Seq(Call) /\ Len(calls'[t]) = n - 1
    BY <1>6, <2>1 DEF Returned
  <2>3. DOMAIN calls'[t] = 1..(n - 1) /\ DOMAIN calls[t] = 1..n /\ n \in 1..n
    BY <1>3, <1>6, <2>1, <2>2
  <2>4. \A i \in 1..(n - 1) : calls'[t][i].at = calls[t][i].at /\ calls'[t][i].on = calls[t][i].on
    BY <1>6, <2>1, <2>2 DEF Returned
  <2>5. Top(t) = calls[t][n] /\ \A i : i \in 1..(n - 1) <=> i \in 1..n /\ i # n
    BY <1>3, <1>6, <2>1
  <2>6. FramesOf(calls'[t], c) = FramesOf(calls[t], c) \ {n}
    BY <2>3, <2>4, <2>5 DEF FramesOf
  <2>7. n \in FramesOf(calls[t], c) <=> Top(t).on = c /\ Top(t).at \in {"lock", "factory", "pop"}
    BY <2>3, <2>5 DEF FramesOf
  <2> QED
    BY <2>1, <2>6, <2>7
<1>7. ASSUME NEW t \in Threads, NEW new, Entered(t, new), new.at = "check", frames' = frames
      PROVE  FramesInv'
  <2>1. PICK n \in Nat : n = Len(calls[t])
    BY HeldBy
  <2>2. /\ calls'[t] \in Seq(Call) /\ Len(calls'[t]) = n + 1
        /\ \A i \in 1..n : calls'[t][i] = calls[t][i]
        /\ calls'[t][n + 1] = new
    BY <1>7, <2>1 DEF Entered
  <2>3. DOMAIN calls'[t] = 1..(n + 1) /\ DOMAIN calls[t] = 1..n
    BY <2>1, <2>2 DEF TypeOK
  <2>4. \A c : FramesOf(calls'[t], c) = FramesOf(calls[t], c)
    <3>1. \A i : i \in 1..(n + 1) <=> i \in 1..n \/ i = n + 1
      BY <2>1
    <3> QED
      BY <1>7, <2>2, <2>3, <3>1 DEF FramesOf
  <2> QED
    BY <1>1, <1>7, <2>4, PushedAfter DEF Entered
<1>8. {"ok", "cycle", "error"} = Results /\ {"push", "lock", "pop", "factory"} \subseteq Places
  BY DEF Results, Places
<1>9. ASSUME NEW t \in Threads, Push(t) PROVE FramesInv'
  <2>1. In(t, "push") /\ ~Idle(t) /\ Moved(t, "lock", Top(t).result)
    BY <1>9, Effects DEF In
  <2>c. PICK c \in Containers : c = Top(t).on
    BY <1>3, <2>1
  <2>n. PICK n \in Nat : n = Len(calls[t])
    BY HeldBy
  <2>2. ASSUME NEW d
        PROVE  /\ n \notin FramesOf(calls[t], d)
               /\ d = c => FramesOf(calls'[t], d) = FramesOf(calls[t], d) \cup {n}
               /\ d # c => FramesOf(calls'[t], d) = FramesOf(calls[t], d)
    <3>1. Top(t).at = "push" /\ Top(t).result \in Results /\ "lock" \in Places
      BY <1>3, <1>8, <2>1 DEF In
    <3>2. /\ \A i : i # n => (i \in FramesOf(calls'[t], d) <=> i \in FramesOf(calls[t], d))
          /\ n \in FramesOf(calls[t], d) <=> c = d /\ Top(t).at \in {"lock", "factory", "pop"}
          /\ n \in FramesOf(calls'[t], d) <=> c = d /\ "lock" \in {"lock", "factory", "pop"}
      BY <1>4, <2>1, <2>c, <2>n, <3>1
    <3> QED
      BY <3>1, <3>2
  <2>3. \A s \in Threads : s # t => calls'[s] = calls[s]
    BY <2>1 DEF Moved
  <2>4. ASSUME NEW d \in Containers, d # c
        PROVE  Pushed(d)' = Pushed(d) /\ frames'[d] = frames[d]
    <3>1. FramesOf(calls'[t], d) = FramesOf(calls[t], d)
      BY <2>2, <2>4
    <3>2. frames'[d] = frames[d]
      BY <1>9, <2>4, <2>c DEF Push, TypeOK
    <3> QED
      BY <2>3, <3>1, <3>2, PushedAfter
  <2>5. Pushed(c)' = Pushed(c) \cup {<<t, n>>} /\ <<t, n>> \notin Pushed(c)
    <3>1. n \notin FramesOf(calls[t], c) /\ FramesOf(calls'[t], c) = FramesOf(calls[t], c) \cup {n}
      BY <2>2
    <3> QED
      BY <2>3, <3>1, PushedAfter
  <2>6. c \in Containers /\ Top(t).key \in Keys
    BY <1>3, <2>1, <2>c
  <2>7. IsFiniteSet(Pushed(c)) /\ Len(frames[c]) = Cardinality(Pushed(c))
    BY <2>6 DEF FramesInv
  <2>8. IsFiniteSet(Pushed(c)') /\ Cardinality(Pushed(c)') = Cardinality(Pushed(c)) + 1
    BY <2>5, <2>7, FS_AddElement
  <2>9. frames'[c] = Append(frames[c], Top(t).key)
    BY <1>9, <2>6, <2>c DEF Push, TypeOK
  <2>10. Len(frames'[c]) = Len(frames[c]) + 1
    BY <2>6, <2>9, AppendProperties DEF TypeOK
  <2>11. ASSUME NEW d \in Containers
         PROVE  IsFiniteSet(Pushed(d)') /\ Len(frames'[d]) = Cardinality(Pushed(d)')
    <3>1. CASE d = c
      BY <2>7, <2>8, <2>10, <3>1
    <3>2. CASE d # c
      BY <2>4, <3>2 DEF FramesInv
    <3> QED
      BY <3>1, <3>2
  <2>12. \A d \in Containers : IsFiniteSet(Pushed(d)') /\ Len(frames'[d]) = Cardinality(Pushed(d)')
    BY <2>11
  <2> QED
    BY <2>12 DEF FramesInv
<1>10. ASSUME NEW t \in Threads, Pop(t) PROVE FramesInv'
  <2>1. In(t, "pop") /\ ~Idle(t) /\ Returned(t, Top(t).result)
    BY <1>10, Effects DEF In
  <2>c. PICK c \in Containers : c = Top(t).on
    BY <1>3, <2>1
  <2>n. PICK n \in Nat : n = Len(calls[t])
    BY HeldBy
  <2>2. ASSUME NEW d
        PROVE  /\ n \in FramesOf(calls[t], d) <=> c = d
               /\ FramesOf(calls'[t], d) = FramesOf(calls[t], d) \ {n}
    <3>1. Top(t).at = "pop" /\ Top(t).result \in Results
      BY <1>3, <2>1 DEF In
    <3>2. /\ FramesOf(calls'[t], d) = FramesOf(calls[t], d) \ {n}
          /\ n \in FramesOf(calls[t], d) <=> c = d /\ Top(t).at \in {"lock", "factory", "pop"}
      BY <1>6, <2>1, <2>c, <2>n, <3>1
    <3> QED
      BY <3>1, <3>2
  <2>3. \A s \in Threads : s # t => calls'[s] = calls[s]
    BY <2>1 DEF Returned
  <2>4. ASSUME NEW d \in Containers, d # c
        PROVE  Pushed(d)' = Pushed(d) /\ frames'[d] = frames[d]
    <3>1. FramesOf(calls'[t], d) = FramesOf(calls[t], d)
      <4>1. n \notin FramesOf(calls[t], d) /\ FramesOf(calls'[t], d) = FramesOf(calls[t], d) \ {n}
        BY <2>2, <2>4
      <4> QED
        BY <4>1
    <3>2. frames'[d] = frames[d]
      BY <1>10, <2>4, <2>c DEF Pop, TypeOK
    <3> QED
      BY <2>3, <3>1, <3>2, PushedAfter
  <2>5. Pushed(c)' = Pushed(c) \ {<<t, n>>} /\ <<t, n>> \in Pushed(c)
    <3>1. n \in FramesOf(calls[t], c) /\ FramesOf(calls'[t], c) = FramesOf(calls[t], c) \ {n}
      BY <2>2
    <3> QED
      BY <2>3, <3>1, PushedAfter
  <2>6. c \in Containers
    BY <1>3, <2>1
  <2>7. IsFiniteSet(Pushed(c)) /\ Len(frames[c]) = Cardinality(Pushed(c))
    BY <2>6 DEF FramesInv
  <2>8. IsFiniteSet(Pushed(c)') /\ Cardinality(Pushed(c)') = Cardinality(Pushed(c)) - 1
    BY <2>5, <2>7, FS_RemoveElement
  <2>9. frames[c] \in Seq(Keys) /\ frames[c] # <<>>
    <3>1. Cardinality(Pushed(c)) # 0
      BY <2>5, <2>7, FS_EmptySet
    <3>2. frames[c] \in Seq(Keys)
      BY <2>6 DEF TypeOK
    <3> QED
      BY <2>7, <3>1, <3>2, EmptySeq
  <2>10. frames'[c] = SubSeq(frames[c], 1, Len(frames[c]) - 1)
    BY <1>10, <2>6, <2>c DEF Pop, TypeOK
  <2>11. Len(frames'[c]) = Len(frames[c]) - 1
    BY <2>9, <2>10, DropLast
  <2>12. ASSUME NEW d \in Containers
         PROVE  IsFiniteSet(Pushed(d)') /\ Len(frames'[d]) = Cardinality(Pushed(d)')
    <3>1. CASE d = c
      BY <2>7, <2>8, <2>11, <3>1
    <3>2. CASE d # c
      BY <2>4, <3>2 DEF FramesInv
    <3> QED
      BY <3>1, <3>2
  <2>13. \A d \in Containers : IsFiniteSet(Pushed(d)') /\ Len(frames'[d]) = Cardinality(Pushed(d)')
    BY <2>12
  <2> QED
    BY <2>13 DEF FramesInv
<1>11. ASSUME NEW t \in Threads, Resolve(t) PROVE FramesInv'
  BY <1>7, <1>11, Effects DEF Entry, shared
<1>12. ASSUME NEW t \in Threads, Check(t) PROVE FramesInv'
  <2>1. In(t, "check") /\ ~Idle(t) /\ frames' = frames /\ Top(t).at = "check"
    BY <1>12 DEF Check, In, shared
  <2>2. CASE Moved(t, "push", Top(t).result)
    BY <1>3, <1>5, <1>8, <2>1, <2>2
  <2>3. CASE Returned(t, "cycle")
    <3>1. ASSUME NEW c PROVE FramesOf(calls'[t], c) = FramesOf(calls[t], c)
      <4>1. /\ FramesOf(calls'[t], c) = FramesOf(calls[t], c) \ {Len(calls[t])}
            /\ Len(calls[t]) \notin FramesOf(calls[t], c)
        BY <1>6, <1>8, <2>1, <2>3
      <4> QED
        BY <4>1
    <3> QED
      BY <1>1, <2>1, <2>3, <3>1, PushedAfter DEF Returned
  <2> QED
    BY <1>12, <2>2, <2>3, Effects
<1>13. ASSUME NEW t \in Threads, Lock(t) PROVE FramesInv'
  <2>1. In(t, "lock") /\ ~Idle(t) /\ frames' = frames /\ Top(t).at = "lock"
    BY <1>13 DEF Lock, In
  <2>2. Moved(t, "pop", Top(t).result) \/ Moved(t, "factory", Top(t).result)
    BY <1>13, Effects
  <2> QED
    BY <1>3, <1>5, <1>8, <2>1, <2>2
<1>14. ASSUME NEW t \in Threads, ResolveNext(t) PROVE FramesInv'
  <2>1. In(t, "factory") /\ ~Idle(t) /\ frames' = frames /\ Top(t).at = "factory"
    BY <1>14 DEF ResolveNext, In, shared
  <2>2. CASE Moved(t, "factory", "error")
    BY <1>5, <1>8, <2>1, <2>2
  <2>3. ASSUME NEW k, NEW h, Entered(t, Entry(Top(t).on, k, h)) PROVE FramesInv'
    BY <1>7, <2>1, <2>3 DEF Entry
  <2> QED
    BY <1>14, <2>2, <2>3, Effects
<1>15. ASSUME NEW t \in Threads, Built(t) \/ BuildFails(t) PROVE FramesInv'
  <2>1. In(t, "factory") /\ ~Idle(t) /\ frames' = frames /\ Top(t).at = "factory"
    BY <1>15 DEF Built, BuildFails, In
  <2>2. \E r \in Results : Moved(t, "pop", r)
    BY <1>8, <1>15, Effects
  <2> QED
    BY <1>5, <1>8, <2>1, <2>2
<1>16. ASSUME NEW t \in Threads, Register(t) PROVE FramesInv'
  BY <1>2, <1>16 DEF Register
<1>17. CASE UNCHANGED vars
  BY <1>2, <1>17 DEF vars, shared
<1> QED
  BY <1>9, <1>10, <1>11, <1>12, <1>13, <1>14, <1>15, <1>16, <1>17 DEF Next, Step

\* Whatever the threads do and however their factories fail, no pop meets an
\* empty resolve stack, no frame stays behind, and every reentrant lock is held
\* exactly by the thread whose calls are in their factories.
THEOREM FramesAndLocks == Spec => []ContainerInv
<1>1. Init => FramesInv
  <2> SUFFICES ASSUME Init PROVE FramesInv
    OBVIOUS
  <2>1. \A c : Pushed(c) = {}
    BY DEF Init, Pushed, FramesOf
  <2>2. \A c \in Containers : Len(frames[c]) = 0
    BY DEF Init
  <2> QED
    BY <2>1, <2>2, FS_EmptySet DEF FramesInv
<1>2. TypeOK /\ AllFound /\ LockInv /\ FramesInv /\ [Next]_vars => FramesInv'
  BY FramesStep
<1>3. TypeOK /\ LockInv /\ FramesInv => ContainerInv
  BY DEF FramesInv, FramesBalanced, ContainerInv
<1> QED
  BY <1>1, <1>2, <1>3, LockedAndTyped, PTL DEF Spec

-----------------------------------------------------------------------------
(***************************************************************************)
(* How the calls of a thread are linked.                                   *)
(***************************************************************************)

\* The binding a call builds, given the providers.
Build(prov, call) == CHOOSE b \in prov[call.holder] : b.key = call.key

\* Each call but the outermost resolves the dependency that the factory below it
\* is at.
Linked(prov, stack) ==
    \A i \in 1..Len(stack) : i + 1 \in 1..Len(stack) =>
        /\ stack[i].next =< Len(Build(prov, stack[i]).deps)
        /\ stack[i + 1].key = Build(prov, stack[i]).deps[stack[i].next]

LinkInv == \A t \in Threads : Linked(providers, calls[t])

\* Nothing is stored without being kept.
StoresInv == \A b \in Bindings, c \in Containers : stores[b][c] > 0 => b \in cached

\* What a call builds, and that it stays so.
LEMMA BuildIs ==
    ASSUME TypeOK, AllFound, [Next]_vars, NEW t \in Threads, NEW i \in 1..Len(calls[t])
    PROVE  LET call == calls[t][i]
               b == Build(providers, call)
           IN  /\ call \in Call /\ call.holder \in Containers /\ call.on \in Containers
               /\ b \in providers[call.holder] /\ b \in Bindings /\ b.key = call.key
               /\ b.deps \in Seq(Keys)
               /\ Build(providers', call) = b
<1> DEFINE call == calls[t][i]
           c == call.holder
           k == call.key
<1>1. call \in Call
  BY ElementOfSeq DEF TypeOK
<1>2. c \in Containers /\ call.on \in Containers
  BY <1>1 DEF Call
<1>3. Bound(c, k)
  BY DEF AllFound
<1>4. /\ Binding(c, k) \in providers[c] /\ Binding(c, k) \in Bindings
      /\ Binding(c, k).key = k /\ Binding(c, k).deps \in Seq(Keys)
  BY <1>2, <1>3, BindingOfKey
<1>5. Build(providers, call) = Binding(c, k)
  BY DEF Build, Binding
<1>6. \A b \in providers'[c] : b.key = k <=> b = Binding(c, k)
  BY <1>2, <1>4, ProvidersGrow
<1>7. Binding(c, k) \in providers'[c]
  BY <1>2, <1>4, ProvidersGrow
<1>8. Build(providers', call) = Binding(c, k)
  BY <1>6, <1>7 DEF Build
<1> QED
  BY <1>1, <1>2, <1>4, <1>5, <1>8

LEMMA BuildOfTop ==
    ASSUME TypeOK, NEW t \in Threads, ~Idle(t)
    PROVE  Building(t) = Build(providers, calls[t][Len(calls[t])])
BY DEF Building, Build, Binding, Top

\* A call and what it is later build the same.
LEMMA SameBuild ==
    ASSUME NEW prov, NEW x, NEW y, x.holder = y.holder, x.key = y.key
    PROVE  Build(prov, x) = Build(prov, y)
BY DEF Build

LEMMA LinkStep ==
    ASSUME TypeOK, AllFound, LinkInv, [Next]_vars
    PROVE  LinkInv'
<1>1. ASSUME NEW s \in Threads, calls'[s] = calls[s] PROVE Linked(providers', calls'[s])
  BY <1>1, BuildIs DEF LinkInv, Linked
<1>2. CASE calls' = calls
  BY <1>1, <1>2 DEF LinkInv
<1>3. CASE calls' # calls
  <2>1. providers' = providers
    BY <1>3, ProvidersGrow
  <2>2. ASSUME NEW t \in Threads, NEW p \in Places, NEW r \in Results, ~Idle(t), Moved(t, p, r)
        PROVE  LinkInv'
    <3>1. ASSUME NEW i \in 1..Len(calls[t])
          PROVE  /\ Build(providers', calls'[t][i]) = Build(providers, calls[t][i])
                 /\ calls'[t][i].key = calls[t][i].key
                 /\ calls'[t][i].next = calls[t][i].next
      BY <2>1, <2>2, SameBuild DEF Moved
    <3>2. Linked(providers', calls'[t])
      BY <2>2, <3>1 DEF LinkInv, Linked, Moved
    <3> QED
      BY <1>1, <2>2, <3>2 DEF LinkInv, Moved
  <2>3. ASSUME NEW t \in Threads, NEW r \in Results, ~Idle(t), Returned(t, r)
        PROVE  LinkInv'
    <3>1. PICK n \in Nat : n = Len(calls[t]) - 1 /\ n + 1 = Len(calls[t])
      <4>1. Len(calls[t]) \in Nat \ {0}
        BY <2>3, TopIsCall
      <4> QED
        BY <4>1
    <3>2. Len(calls'[t]) = n
      BY <2>3, <3>1 DEF Returned
    <3>3. ASSUME NEW i \in 1..n, i + 1 \in 1..n
          PROVE  /\ calls'[t][i].next =< Len(Build(providers', calls'[t][i]).deps)
                 /\ calls'[t][i + 1].key = Build(providers', calls'[t][i]).deps[calls'[t][i].next]
      <4>1. calls'[t][i] = calls[t][i] /\ calls'[t][i + 1].key = calls[t][i + 1].key
        BY <2>3, <3>2, <3>3 DEF Returned
      <4>2. i \in 1..Len(calls[t]) /\ i + 1 \in 1..Len(calls[t])
        BY <3>1
      <4> QED
        BY <2>1, <4>1, <4>2 DEF LinkInv, Linked
    <3>4. Linked(providers', calls'[t])
      BY <3>2, <3>3 DEF Linked
    <3> QED
      BY <1>1, <2>3, <3>4 DEF LinkInv, Returned
  <2>4. ASSUME NEW t \in Threads, NEW c \in Containers, NEW k \in Keys,
               Entered(t, Entry(c, k, Holder(c, k))),
               \/ Idle(t)
               \/ /\ ~Idle(t) /\ Top(t).next =< Len(Building(t).deps)
                  /\ k = Building(t).deps[Top(t).next]
        PROVE  LinkInv'
    <3>1. PICK n \in Nat : n = Len(calls[t])
      BY HeldBy
    <3>2. /\ Len(calls'[t]) = n + 1
          /\ \A i \in 1..n : calls'[t][i] = calls[t][i]
          /\ calls'[t][n + 1].key = k
      BY <2>4, <3>1 DEF Entered, Entry
    <3>3. ASSUME NEW i \in 1..(n + 1), i + 1 \in 1..(n + 1)
          PROVE  /\ calls'[t][i].next =< Len(Build(providers', calls'[t][i]).deps)
                 /\ calls'[t][i + 1].key = Build(providers', calls'[t][i]).deps[calls'[t][i].next]
      <4>1. i \in 1..n /\ calls'[t][i] = calls[t][i]
        BY <3>1, <3>2, <3>3
      <4>2. CASE i + 1 \in 1..n
        <5>1. calls'[t][i + 1] = calls[t][i + 1]
          BY <3>2, <4>2
        <5> QED
          BY <2>1, <3>1, <4>1, <4>2, <5>1 DEF LinkInv, Linked
      <4>3. CASE i = n
        <5>1. ~Idle(t) /\ Top(t) = calls[t][n]
          BY <3>1, <4>1, <4>3, HeldBy DEF Top
        <5>2. Building(t) = Build(providers, calls[t][n])
          BY <3>1, <5>1, BuildOfTop
        <5> QED
          BY <2>1, <2>4, <3>2, <4>1, <4>3, <5>1, <5>2
      <4>4. i + 1 \in 1..n \/ i = n
        BY <4>1
      <4> QED
        BY <4>2, <4>3, <4>4
    <3>4. Linked(providers', calls'[t])
      BY <3>2, <3>3 DEF Linked
    <3> QED
      BY <1>1, <2>4, <3>4 DEF LinkInv, Entered
  <2> QED
    BY <1>3, <2>2, <2>3, <2>4, Shapes
<1> QED
  BY <1>2, <1>3

LEMMA StoresStep ==
    ASSUME TypeOK, AllFound, StoresInv, [Next]_vars
    PROVE  StoresInv'
<1>1. CASE stores' = stores
  <2>1. cached \subseteq cached'
    BY DEF Next, Register, Resolve, Step, Check, Push, Lock, ResolveNext, Built, BuildFails,
           Pop, vars, shared
  <2> QED
    BY <1>1, <2>1 DEF StoresInv
<1>2. ASSUME NEW t \in Threads, Built(t) PROVE StoresInv'
  <2>1. CASE UNCHANGED <<cached, stores>>
    BY <2>1 DEF StoresInv
  <2>2. CASE /\ cached' = cached \cup {Building(t)}
             /\ stores' = [stores EXCEPT ![Building(t)][Top(t).on] = @ + 1]
    <3>1. Building(t) \in Bindings /\ stores \in [Bindings -> [Containers -> Nat]]
      BY <1>2, BuildingIsBound DEF Built, In, TypeOK
    <3>2. ASSUME NEW b \in Bindings, b # Building(t) PROVE stores'[b] = stores[b]
      BY <2>2, <3>1, <3>2
    <3> QED
      BY <2>2, <3>2 DEF StoresInv
  <2> QED
    BY <1>2, <2>1, <2>2 DEF Built
<1>3. stores' # stores => \E t \in Threads : Built(t)
  BY DEF Next, Register, Resolve, Step, Check, Push, Lock, ResolveNext, BuildFails,
         Pop, vars, shared
<1> QED
  BY <1>1, <1>2, <1>3

-----------------------------------------------------------------------------
(***************************************************************************)
(* Built once.                                                             *)
(***************************************************************************)

\* Once a factory is under way whose dependencies lie in a closed set of keys,
\* so do all calls made from it.
StaysIn(D, prov, stack) ==
    \A i, j \in 1..Len(stack) :
        i < j /\ DepsOf(Build(prov, stack[i])) \subseteq D => stack[j].key \in D

DepsInv ==
    \A D \in SUBSET Keys : Closed(D) => \A t \in Threads : StaysIn(D, providers, calls[t])

\* A binding of its own dependencies that is being built under a lock has not
\* been stored through the container of that lock.
UnderWay ==
    \A t \in Threads : \A i \in 1..Len(calls[t]) :
        LET b == Build(providers, calls[t][i])
            c == calls[t][i].on
        IN  calls[t][i].at = "factory" /\ KeptBy(c, b) /\ OffCycle(b) => stores[b][c] = 0

LEMMA ClosedBefore ==
    ASSUME TypeOK, [Next]_vars, NEW D
    PROVE  Closed(D)' => Closed(D)
BY ProvidersGrow DEF Closed

LEMMA OffCycleBefore ==
    ASSUME TypeOK, [Next]_vars, NEW b
    PROVE  OffCycle(b)' => OffCycle(b)
<1>1. ASSUME NEW D \in SUBSET Keys, b.key \notin D, DepsOf(b) \subseteq D, Closed(D)'
      PROVE  OffCycle(b)
  BY <1>1, ClosedBefore DEF OffCycle
<1> QED
  BY <1>1 DEF OffCycle

LEMMA DepsStep ==
    ASSUME TypeOK, AllFound, LinkInv, DepsInv, [Next]_vars
    PROVE  DepsInv'
<1> SUFFICES ASSUME NEW D \in SUBSET Keys, Closed(D)'
             PROVE  \A t \in Threads : StaysIn(D, providers', calls'[t])
  BY DEF DepsInv
<1>1. Closed(D)
  BY ClosedBefore
<1>2. \A t \in Threads : StaysIn(D, providers, calls[t])
  BY <1>1 DEF DepsInv
<1>3. ASSUME NEW s \in Threads, calls'[s] = calls[s] PROVE StaysIn(D, providers', calls'[s])
  BY <1>2, <1>3, BuildIs DEF StaysIn
<1>4. CASE calls' = calls
  BY <1>3, <1>4
<1>5. CASE calls' # calls
  <2>1. providers' = providers
    BY <1>5, ProvidersGrow
  <2>2. ASSUME NEW t \in Threads, NEW p \in Places, NEW r \in Results, ~Idle(t), Moved(t, p, r)
        PROVE  StaysIn(D, providers', calls'[t])
    <3>1. ASSUME NEW i \in 1..Len(calls[t])
          PROVE  /\ Build(providers', calls'[t][i]) = Build(providers, calls[t][i])
                 /\ calls'[t][i].key = calls[t][i].key
      BY <2>1, <2>2, SameBuild DEF Moved
    <3> QED
      BY <1>2, <2>2, <3>1 DEF StaysIn, Moved
  <2>3. ASSUME NEW t \in Threads, NEW r \in Results, ~Idle(t), Returned(t, r)
        PROVE  StaysIn(D, providers', calls'[t])
    <3>1. \A i \in 1..Len(calls'[t]) : i \in 1..Len(calls[t])
      BY <2>3, HeldBy DEF Returned
    <3>2. ASSUME NEW i \in 1..Len(calls'[t])
          PROVE  /\ Build(providers', calls'[t][i]) = Build(providers, calls[t][i])
                 /\ calls'[t][i].key = calls[t][i].key
      BY <2>1, <2>3, SameBuild DEF Returned
    <3> QED
      BY <1>2, <3>1, <3>2 DEF StaysIn
  <2>4. ASSUME NEW t \in Threads, NEW c \in Containers, NEW k \in Keys,
               Entered(t, Entry(c, k, Holder(c, k))),
               \/ Idle(t)
               \/ /\ ~Idle(t) /\ Top(t).next =< Len(Building(t).deps)
                  /\ k = Building(t).deps[Top(t).next]
        PROVE  StaysIn(D, providers', calls'[t])
    <3>1. PICK n \in Nat : n = Len(calls[t])
      BY HeldBy
    <3>2. /\ Len(calls'[t]) = n + 1
          /\ \A i \in 1..n : calls'[t][i] = calls[t][i]
          /\ calls'[t][n + 1].key = k
      BY <2>4, <3>1 DEF Entered, Entry
    <3>3. ASSUME NEW i \in 1..(n + 1), NEW j \in 1..(n + 1), i < j,
                 DepsOf(Build(providers', calls'[t][i])) \subseteq D
          PROVE  calls'[t][j].key \in D
      <4>1. i \in 1..n /\ DepsOf(Build(providers, calls[t][i])) \subseteq D
        BY <2>1, <3>1, <3>2, <3>3
      <4>2. CASE j \in 1..n
        BY <1>2, <3>1, <3>2, <3>3, <4>1, <4>2 DEF StaysIn
      <4>3. CASE j = n + 1
        <5>1. ~Idle(t) /\ n \in 1..n
          BY <3>1, <4>1, HeldBy
        <5> DEFINE b == Build(providers, calls[t][n])
        <5>2. k \in DepsOf(b)
          <6>1. b = Building(t) /\ Top(t).next \in Nat \ {0}
            BY <3>1, <5>1, BuildOfTop, TopIsCall DEF Call
          <6>2. b.deps \in Seq(Keys)
            BY <3>1, <5>1, BuildIs
          <6>3. Top(t).next \in 1..Len(b.deps)
            BY <2>4, <5>1, <6>1, <6>2, LenProperties
          <6> QED
            BY <2>4, <5>1, <6>1, <6>3 DEF DepsOf
        <5>3. DepsOf(b) \subseteq D
          <6>1. CASE i = n
            BY <4>1, <6>1
          <6>2. CASE i # n
            <7>1. calls[t][n].key \in D
              BY <1>2, <3>1, <4>1, <5>1, <6>2 DEF StaysIn
            <7>2. /\ b \in providers[calls[t][n].holder] /\ b.key = calls[t][n].key
                  /\ calls[t][n].holder \in Containers
              BY <3>1, <5>1, BuildIs
            <7> QED
              BY <1>1, <7>1, <7>2 DEF Closed
          <6> QED
            BY <6>1, <6>2
        <5> QED
          BY <3>2, <4>3, <5>2, <5>3
      <4> QED
        BY <4>2, <4>3
    <3> QED
      BY <3>2, <3>3 DEF StaysIn
  <2>5. PICK t \in Threads :
              \/ \E p \in Places, r \in Results : ~Idle(t) /\ Moved(t, p, r)
              \/ \E r \in Results : ~Idle(t) /\ Returned(t, r)
              \/ \E c \in Containers, k \in Keys :
                    /\ Holder(c, k) # NoOne /\ Entered(t, Entry(c, k, Holder(c, k)))
                    /\ \/ Idle(t)
                       \/ /\ ~Idle(t) /\ Top(t).next =< Len(Building(t).deps)
                          /\ k = Building(t).deps[Top(t).next]
    BY <1>5, Shapes
  <2>6. StaysIn(D, providers', calls'[t])
    BY <2>2, <2>3, <2>4, <2>5
  <2>7. \A s \in Threads : s # t => calls'[s] = calls[s]
    BY <2>5 DEF Moved, Returned, Entered
  <2> QED
    BY <1>3, <2>6, <2>7
<1> QED
  BY <1>4, <1>5

\* A step that takes no lock starts no factory.
LEMMA NoNewFactory ==
    ASSUME TypeOK, [Next]_vars, NEW s \in Threads, NEW i \in 1..Len(calls'[s]),
           calls'[s][i].at = "factory",
           ~(Lock(s) /\ i = Len(calls[s]) /\ Moved(s, "factory", Top(s).result))
    PROVE  /\ i \in 1..Len(calls[s]) /\ calls[s][i].at = "factory"
           /\ calls'[s][i].on = calls[s][i].on
           /\ calls'[s][i].holder = calls[s][i].holder
           /\ calls'[s][i].key = calls[s][i].key
<1>1. CASE calls'[s] = calls[s]
  BY <1>1
<1>2. ASSUME NEW p \in Places, NEW r \in Results, Moved(s, p, r), ~Idle(s),
             i = Len(calls[s]) => calls[s][i].at = "factory"
      PROVE  /\ i \in 1..Len(calls[s]) /\ calls[s][i].at = "factory"
             /\ calls'[s][i].on = calls[s][i].on
             /\ calls'[s][i].holder = calls[s][i].holder
             /\ calls'[s][i].key = calls[s][i].key
  BY <1>2, HeldBy DEF Moved
<1>3. ASSUME NEW r \in Results, ~Idle(s), Returned(s, r)
      PROVE  /\ i \in 1..Len(calls[s]) /\ calls[s][i].at = "factory"
             /\ calls'[s][i].on = calls[s][i].on
             /\ calls'[s][i].holder = calls[s][i].holder
             /\ calls'[s][i].key = calls[s][i].key
  BY <1>3, HeldBy DEF Returned
<1>4. ASSUME NEW new, Entered(s, new), new.at = "check"
      PROVE  /\ i \in 1..Len(calls[s]) /\ calls[s][i].at = "factory"
             /\ calls'[s][i].on = calls[s][i].on
             /\ calls'[s][i].holder = calls[s][i].holder
             /\ calls'[s][i].key = calls[s][i].key
  <2>1. Len(calls[s]) \in Nat
    BY HeldBy
  <2>2. i # Len(calls[s]) + 1
    BY <1>4 DEF Entered
  <2>3. i \in 1..Len(calls[s])
    BY <1>4, <2>1, <2>2 DEF Entered
  <2> QED
    BY <1>4, <2>3 DEF Entered
<1>5. CASE calls'[s] # calls[s]
  <2>1. PICK t \in Threads : Resolve(t) \/ Step(t)
    BY <1>5 DEF Next, Register, vars
  <2>2. s = t
    <3>1. \/ \E p, r : Moved(t, p, r)
          \/ \E r : Returned(t, r)
          \/ \E new : Entered(t, new)
      BY <2>1, Effects DEF Step
    <3> QED
      BY <1>5, <3>1 DEF Moved, Returned, Entered
  <2>3. ~Idle(s) => Top(s).result \in Results /\ Top(s) = calls[s][Len(calls[s])]
    BY TopIsCall DEF Call, Top
  <2>4. {"ok", "cycle", "error"} = Results /\ {"push", "lock", "pop", "factory"} \subseteq Places
    BY DEF Results, Places
  <2>5. CASE Resolve(s)
    BY <1>4, <2>5, Effects DEF Entry
  <2>6. CASE Check(s)
    <3>1. ~Idle(s) /\ (Moved(s, "push", Top(s).result) \/ Returned(s, "cycle"))
      BY <2>6, Effects DEF In
    <3>2. Moved(s, "push", Top(s).result) => i # Len(calls[s])
      BY DEF Moved
    <3> QED
      BY <1>2, <1>3, <2>3, <2>4, <3>1, <3>2
  <2>7. CASE Push(s)
    <3>1. ~Idle(s) /\ Moved(s, "lock", Top(s).result)
      BY <2>7, Effects DEF In
    <3>2. i # Len(calls[s])
      BY <3>1 DEF Moved
    <3> QED
      BY <1>2, <2>3, <2>4, <3>1, <3>2
  <2>8. CASE Lock(s)
    <3>1. ~Idle(s) /\ (Moved(s, "pop", Top(s).result) \/ Moved(s, "factory", Top(s).result))
      BY <2>8, Effects DEF In
    <3>2. i # Len(calls[s])
      BY <2>8, <3>1 DEF Moved
    <3> QED
      BY <1>2, <2>3, <2>4, <3>1, <3>2
  <2>9. CASE ResolveNext(s)
    <3>1. ~Idle(s) /\ Top(s).at = "factory"
      BY <2>9, Effects DEF In
    <3>2. CASE Moved(s, "factory", "error")
      BY <1>2, <2>3, <2>4, <3>1, <3>2
    <3>3. CASE \E k, h : Entered(s, Entry(Top(s).on, k, h))
      BY <1>4, <3>3 DEF Entry
    <3> QED
      BY <2>9, <3>2, <3>3, Effects
  <2>10. CASE Built(s) \/ BuildFails(s)
    <3>1. ~Idle(s) /\ Top(s).at = "factory" /\ \E r \in Results : Moved(s, "pop", r)
      BY <2>4, <2>10, Effects DEF In
    <3> QED
      BY <1>2, <2>3, <2>4, <3>1
  <2>11. CASE Pop(s)
    <3>1. ~Idle(s) /\ Returned(s, Top(s).result)
      BY <2>11, Effects DEF In
    <3> QED
      BY <1>3, <2>3, <3>1
  <2> QED
    BY <2>1, <2>2, <2>5, <2>6, <2>7, <2>8, <2>9, <2>10, <2>11 DEF Step
<1> QED
  BY <1>1, <1>5

\* Whoever is in a factory on c holds the lock of c.
LEMMA FactoryHolds ==
    ASSUME TypeOK, LockInv, NEW t \in Threads, NEW i \in 1..Len(calls[t]),
           calls[t][i].at = "factory"
    PROVE  lock[calls[t][i].on] = t
<1>1. calls[t][i].on = Top(t).on
  BY DEF LockInv, Stacked
<1>2. ~Idle(t) /\ Len(calls[t]) \in Nat
  BY HeldBy
<1>3. Held(t) > 0
  <2>1. CASE i = Len(calls[t])
    <3>1. In(t, "factory")
      BY <1>2, <2>1 DEF In, Top
    <3> QED
      BY <3>1, HeldBy
  <2>2. CASE i < Len(calls[t])
    <3>1. Held(t) = Len(calls[t]) \/ Held(t) = Len(calls[t]) - 1
      BY DEF Held
    <3> QED
      BY <1>2, <2>2, <3>1
  <2> QED
    BY <1>2, <2>1, <2>2
<1> QED
  BY <1>1, <1>3 DEF LockInv

\* Only the end of a factory stores an instance.
LEMMA StoredByBuilt ==
    ASSUME TypeOK, AllFound, [Next]_vars, NEW b \in Bindings, NEW c \in Containers,
           stores'[b][c] # stores[b][c]
    PROVE  \E t \in Threads :
              /\ Built(t) /\ Building(t) = b /\ Top(t).on = c /\ KeptBy(c, b)
              /\ stores'[b][c] = stores[b][c] + 1
<1>1. PICK t \in Threads : Built(t)
  BY DEF Next, Register, Resolve, Step, Check, Push, Lock, ResolveNext, BuildFails,
         Pop, vars, shared
<1>2. /\ KeptBy(Top(t).on, Building(t))
      /\ stores' = [stores EXCEPT ![Building(t)][Top(t).on] = @ + 1]
  BY <1>1 DEF Built
<1>3. /\ Building(t) \in Bindings /\ Top(t).on \in Containers
      /\ stores \in [Bindings -> [Containers -> Nat]]
  BY <1>1, BuildingIsBound DEF Built, In, TypeOK
<1>4. Building(t) = b /\ Top(t).on = c
  BY <1>2, <1>3
<1>5. stores'[b][c] = stores[b][c] + 1
  BY <1>2, <1>3, <1>4
<1> QED
  BY <1>1, <1>2, <1>4, <1>5

LEMMA UnderWayStep ==
    ASSUME TypeOK, AllFound, LockInv, DepsInv, StoresInv, UnderWay, [Next]_vars
    PROVE  UnderWay'
<1> DEFINE Made(t, i) == Build(providers', calls'[t][i])
<1> SUFFICES ASSUME NEW t \in Threads, NEW i \in 1..Len(calls'[t]),
                    calls'[t][i].at = "factory", KeptBy(calls'[t][i].on, Made(t, i)),
                    NEW D \in SUBSET Keys, Made(t, i).key \notin D,
                    DepsOf(Made(t, i)) \subseteq D, Closed(D)'
             PROVE  stores'[Made(t, i)][calls'[t][i].on] = 0
  BY DEF UnderWay, OffCycle
<1>1. Closed(D)
  BY ClosedBefore
<1>2. CASE Lock(t) /\ i = Len(calls[t]) /\ Moved(t, "factory", Top(t).result)
  <2>1. ~Idle(t) /\ stores' = stores /\ providers' = providers
    BY <1>2 DEF Lock, In
  <2>2. Made(t, i) = Building(t) /\ calls'[t][i].on = Top(t).on
    <3>1. i \in 1..Len(calls[t]) /\ calls[t][i] = Top(t)
      BY <1>2, <2>1, TopIsCall DEF Top
    <3>2. /\ calls'[t][i].on = Top(t).on /\ calls'[t][i].holder = calls[t][i].holder
          /\ calls'[t][i].key = calls[t][i].key
      BY <1>2, <3>1 DEF Moved
    <3>3. Made(t, i) = Build(providers, calls[t][i])
      BY <2>1, <3>2, SameBuild
    <3> QED
      BY <1>2, <2>1, <3>2, <3>3, BuildOfTop
  <2>3. ~(Building(t) \in cached /\ KeptBy(Top(t).on, Building(t)))
    <3>1. calls'[t][i].at # "pop"
      OBVIOUS
    <3>2. ~Moved(t, "pop", Top(t).result)
      <4>1. i \in 1..Len(calls[t])
        BY <1>2, <2>1, TopIsCall
      <4> QED
        BY <1>2, <3>1, <4>1 DEF Moved
    <3> QED
      BY <1>2, <3>2, Effects
  <2>4. Building(t) \in Bindings /\ Top(t).on \in Containers
    BY <2>1, BuildingIsBound
  <2>5. stores[Building(t)][Top(t).on] \in Nat
    BY <2>4 DEF TypeOK
  <2>6. ~(stores[Building(t)][Top(t).on] > 0)
    BY <2>2, <2>3, <2>4 DEF StoresInv
  <2> QED
    BY <2>1, <2>2, <2>5, <2>6
<1>3. CASE ~(Lock(t) /\ i = Len(calls[t]) /\ Moved(t, "factory", Top(t).result))
  <2>1. /\ i \in 1..Len(calls[t]) /\ calls[t][i].at = "factory"
        /\ calls'[t][i].on = calls[t][i].on
        /\ calls'[t][i].holder = calls[t][i].holder
        /\ calls'[t][i].key = calls[t][i].key
    BY <1>3, NoNewFactory
  <2>2. PICK b \in Bindings : b = Build(providers, calls[t][i])
    BY <2>1, BuildIs
  <2>3. PICK c \in Containers : c = calls[t][i].on
    BY <2>1, BuildIs
  <2>4. Made(t, i) = b
    BY <2>1, <2>2, BuildIs, SameBuild
  <2>5. OffCycle(b)
    BY <1>1, <2>4 DEF OffCycle
  <2>6. stores[b][c] = 0
    BY <2>1, <2>2, <2>3, <2>4, <2>5 DEF UnderWay
  <2>7. ASSUME NEW s \in Threads, Built(s), Building(s) = b, Top(s).on = c
        PROVE  FALSE
    <3>1. ~Idle(s) /\ Top(s).at = "factory" /\ Moved(s, "pop", "ok")
      BY <2>7, Effects DEF In
    <3>2. Len(calls[s]) \in 1..Len(calls[s]) /\ Top(s) = calls[s][Len(calls[s])]
      BY <3>1, TopIsCall DEF Top
    <3>3. lock[c] = s /\ lock[c] = t
      BY <2>1, <2>3, <2>7, <3>1, <3>2, FactoryHolds
    <3>4. s = t
      BY <3>3
    <3>5. i # Len(calls[t]) /\ Len(calls[t]) \in Nat
      BY <3>1, <3>2, <3>4, HeldBy DEF Moved
    <3>6. i < Len(calls[t])
      BY <2>1, <3>5
    <3>7. calls[t][Len(calls[t])].key \in D
      BY <1>1, <2>1, <2>2, <2>4, <3>2, <3>4, <3>6 DEF DepsInv, StaysIn
    <3>8. Building(s).key = Top(s).key
      BY <3>1, BuildingIsBound
    <3> QED
      BY <2>4, <2>7, <3>2, <3>4, <3>7, <3>8
  <2>8. stores'[b][c] = stores[b][c]
    BY <2>7, StoredByBuilt
  <2> QED
    BY <2>1, <2>3, <2>4, <2>6, <2>8
<1> QED
  BY <1>2, <1>3

LEMMA OnceStep ==
    ASSUME TypeOK, AllFound, UnderWay, OncePerContainer, [Next]_vars
    PROVE  OncePerContainer'
<1> SUFFICES ASSUME NEW b \in Bindings, NEW c \in Containers, OffCycle(b)'
             PROVE  stores'[b][c] =< 1
  BY DEF OncePerContainer
<1>1. OffCycle(b)
  BY OffCycleBefore
<1>2. stores[b][c] =< 1
  BY <1>1 DEF OncePerContainer
<1>3. ASSUME stores'[b][c] # stores[b][c] PROVE stores'[b][c] =< 1
  <2>1. PICK t \in Threads :
              /\ Built(t) /\ Building(t) = b /\ Top(t).on = c /\ KeptBy(c, b)
              /\ stores'[b][c] = stores[b][c] + 1
    BY <1>3, StoredByBuilt
  <2>2. ~Idle(t) /\ Top(t).at = "factory"
    BY <2>1 DEF Built, In
  <2>3. Len(calls[t]) \in 1..Len(calls[t]) /\ Top(t) = calls[t][Len(calls[t])]
    BY <2>2, TopIsCall DEF Top
  <2>4. stores[b][c] = 0
    BY <1>1, <2>1, <2>2, <2>3, BuildOfTop DEF UnderWay
  <2> QED
    BY <2>1, <2>4
<1> QED
  BY <1>2, <1>3

\* An instance of a singleton, or of a scoped binding of the container's own,
\* that does not depend on itself is stored at most once through a container,
\* whatever the threads do and however deep the scopes are nested.
THEOREM BuiltOnce == Spec => []OncePerContainer
<1> DEFINE IInv == LinkInv /\ DepsInv /\ StoresInv /\ UnderWay /\ OncePerContainer
<1>1. Init => IInv
  <2> SUFFICES ASSUME Init PROVE IInv
    OBVIOUS
  <2>1. \A t \in Threads : calls[t] = <<>> /\ Len(calls[t]) = 0
    BY DEF Init
  <2>2. \A b \in Bindings, c \in Containers : stores[b][c] = 0
    BY DEF Init
  <2> QED
    BY <2>1, <2>2 DEF LinkInv, Linked, DepsInv, StaysIn, StoresInv, UnderWay, OncePerContainer
<1>2. TypeOK /\ AllFound /\ LockInv /\ IInv /\ [Next]_vars => IInv'
  BY LinkStep, DepsStep, StoresStep, UnderWayStep, OnceStep
<1> QED
  BY <1>1, <1>2, LockedAndTyped, PTL DEF Spec

-----------------------------------------------------------------------------
(***************************************************************************)
(* Never built.                                                            *)
(***************************************************************************)

\* Whichever of these providers is found for k, it is one of C.
Awaits(prov, C, k) == \A c \in Containers : \A b \in prov[c] : b.key = k => b \in C

\* A call that has met no error is not over, and no further than the first
\* dependency for which only C provides.
Stuck(prov, C, call) ==
    call.result = "ok" =>
        /\ call.at # "pop"
        /\ \A m \in 1..Len(Build(prov, call).deps) :
              Awaits(prov, C, Build(prov, call).deps[m]) => call.next =< m

HopelessInv ==
    \A C \in SUBSET UNION {providers[c] : c \in Containers} :
        Hopeless(C) =>
            /\ \A b \in C : b \notin cached
            /\ \A b \in C, c \in Containers : stores[b][c] = 0
            /\ \A t \in Threads : \A i \in 1..Len(calls[t]) :
                  Build(providers, calls[t][i]) \in C => Stuck(providers, C, calls[t][i])

\* What was registered of a hopeless set was hopeless already.
LEMMA HopelessBefore ==
    ASSUME TypeOK, [Next]_vars, NEW C, Hopeless(C)'
    PROVE  LET C0 == C \cap UNION {providers[c] : c \in Containers}
           IN  /\ Hopeless(C0)
               /\ C0 \in SUBSET UNION {providers[c] : c \in Containers}
               /\ \A k : Awaits(providers', C, k) => Awaits(providers, C0, k)
               /\ \A b \in C : \E k \in DepsOf(b) : Awaits(providers', C, k)
<1> DEFINE C0 == C \cap UNION {providers[c] : c \in Containers}
<1>1. ASSUME NEW k, Awaits(providers', C, k) PROVE Awaits(providers, C0, k)
  <2>1. ASSUME NEW c \in Containers, NEW b \in providers[c], b.key = k PROVE b \in C0
    <3>1. b \in providers'[c]
      BY ProvidersGrow
    <3> QED
      BY <1>1, <2>1, <3>1 DEF Awaits
  <2> QED
    BY <2>1 DEF Awaits
<1>2. \A b \in C : \E k \in DepsOf(b) : Awaits(providers', C, k)
  BY DEF Hopeless, OnlyIn, Awaits
<1>3. \A b \in C0 : \E k \in DepsOf(b) : Awaits(providers, C0, k)
  BY <1>1, <1>2
<1>4. Hopeless(C0)
  BY <1>3 DEF Hopeless, OnlyIn, Awaits
<1> QED
  BY <1>1, <1>2, <1>4

\* A factory that awaits what only C provides does not return.
LEMMA NotBuilt ==
    ASSUME TypeOK, AllFound, HopelessInv, NEW t \in Threads, Built(t),
           NEW C \in SUBSET UNION {providers[c] : c \in Containers}, Hopeless(C)
    PROVE  Building(t) \notin C
<1>1. ~Idle(t) /\ Top(t).result = "ok" /\ Top(t).next > Len(Building(t).deps)
  BY DEF Built, In
<1>2. Top(t) = calls[t][Len(calls[t])] /\ Len(calls[t]) \in 1..Len(calls[t])
  BY <1>1, TopIsCall DEF Top
<1>3. Building(t) = Build(providers, Top(t)) /\ Building(t).deps \in Seq(Keys) /\ Top(t).next \in Nat
  BY <1>1, <1>2, BuildOfTop, BuildingIsBound
<1>4. SUFFICES ASSUME Building(t) \in C PROVE FALSE
  OBVIOUS
<1>5. Stuck(providers, C, Top(t))
  BY <1>2, <1>3, <1>4 DEF HopelessInv
<1>6. PICK m \in 1..Len(Building(t).deps) : Awaits(providers, C, Building(t).deps[m])
  BY <1>4 DEF Hopeless, OnlyIn, Awaits, DepsOf
<1>7. Top(t).next =< m
  BY <1>1, <1>3, <1>5, <1>6 DEF Stuck
<1>8. Len(Building(t).deps) \in Nat
  BY <1>3, LenProperties
<1> QED
  BY <1>1, <1>3, <1>6, <1>7, <1>8

LEMMA CachedByBuilt ==
    ASSUME TypeOK, [Next]_vars, NEW b \in cached', b \notin cached
    PROVE  b.deps = <<>> \/ \E t \in Threads : Built(t) /\ Building(t) = b
BY DEF Next, Register, Resolve, Step, Check, Push, Lock, ResolveNext, Built, BuildFails,
       Pop, vars, shared

LEMMA HopelessStep ==
    ASSUME TypeOK, AllFound, LockInv, LinkInv, StoresInv, HopelessInv, [Next]_vars
    PROVE  HopelessInv'
<1> DEFINE Old == UNION {providers[c] : c \in Containers}
<1> SUFFICES ASSUME NEW C \in SUBSET UNION {providers'[c] : c \in Containers}, Hopeless(C)'
             PROVE  /\ \A b \in C : b \notin cached'
                    /\ \A b \in C, c \in Containers : stores'[b][c] = 0
                    /\ \A t \in Threads : \A i \in 1..Len(calls'[t]) :
                          Build(providers', calls'[t][i]) \in C => Stuck(providers', C, calls'[t][i])
  BY DEF HopelessInv
<1>1. PICK C0 \in SUBSET Old :
        /\ C0 = C \cap Old /\ Hopeless(C0)
        /\ \A k : Awaits(providers', C, k) => Awaits(providers, C0, k)
        /\ \A b \in C : \E k \in DepsOf(b) : Awaits(providers', C, k)
  BY HopelessBefore
<1>2. /\ \A b \in C0 : b \notin cached
      /\ \A b \in C0, c \in Containers : stores[b][c] = 0
      /\ \A t \in Threads : \A i \in 1..Len(calls[t]) :
            Build(providers, calls[t][i]) \in C0 => Stuck(providers, C0, calls[t][i])
  BY <1>1 DEF HopelessInv
<1>3. ASSUME NEW t \in Threads, Built(t) PROVE Building(t) \notin C
  <2>1. Building(t) \in Old
    BY <1>3, BuildingIsBound DEF Built, In
  <2>2. Building(t) \notin C0
    BY <1>1, <1>3, NotBuilt
  <2> QED
    BY <1>1, <2>1, <2>2
<1>4. ASSUME NEW b \in C PROVE b \notin cached'
  <2>1. b.deps # <<>>
    <3>1. DepsOf(b) # {}
      BY <1>1
    <3> QED
      BY <3>1 DEF DepsOf
  <2>2. b \notin cached
    BY <1>1, <1>2 DEF TypeOK
  <2> QED
    BY <1>3, <2>1, <2>2, CachedByBuilt
<1>5. ASSUME NEW b \in C, NEW c \in Containers PROVE stores'[b][c] = 0
  <2>1. b \in Bindings
    BY ProvidersGrow
  <2>2. stores'[b][c] = stores[b][c]
    BY <1>3, <2>1, StoredByBuilt
  <2>3. stores[b][c] = 0
    <3>1. CASE b \in Old
      BY <1>1, <1>2, <3>1
    <3>2. CASE b \notin Old
      <4>1. b \notin cached
        BY <3>2 DEF TypeOK
      <4>2. stores[b][c] \in Nat /\ ~(stores[b][c] > 0)
        BY <2>1, <4>1 DEF TypeOK, StoresInv
      <4> QED
        BY <4>2
    <3> QED
      BY <3>1, <3>2
  <2> QED
    BY <2>2, <2>3
<1>6. ASSUME NEW t \in Threads, NEW i \in 1..Len(calls[t]),
             Build(providers', calls[t][i]) \in C
      PROVE  Stuck(providers', C, calls[t][i])
  <2>1. /\ Build(providers', calls[t][i]) = Build(providers, calls[t][i])
        /\ Build(providers, calls[t][i]) \in C0
    BY <1>1, <1>6, BuildIs
  <2> QED
    BY <1>1, <1>2, <2>1 DEF Stuck
<1>7. CASE calls' = calls
  BY <1>4, <1>5, <1>6, <1>7
<1>8. CASE calls' # calls
  <2>1. providers' = providers
    BY <1>8, ProvidersGrow
  <2>2. PICK t \in Threads : Resolve(t) \/ Step(t)
    BY <1>8 DEF Next, Register, vars
  <2> DEFINE Safe == \A i \in 1..Len(calls'[t]) :
                 Build(providers', calls'[t][i]) \in C => Stuck(providers', C, calls'[t][i])
  <2>3. ~Idle(t) => /\ Top(t).result \in Results /\ Top(t) = calls[t][Len(calls[t])]
                    /\ Len(calls[t]) \in Nat \ {0} /\ Top(t).next \in Nat
    BY TopIsCall DEF Call, Top
  <2>4. {"ok", "cycle", "error"} = Results /\ {"push", "lock", "pop", "factory"} \subseteq Places
    BY DEF Results, Places
  <2>5. ASSUME NEW p \in Places, NEW r \in Results, Moved(t, p, r), ~Idle(t),
               r = "ok" => (Top(t).result = "ok" /\ p # "pop") \/ Building(t) \notin C
        PROVE  Safe
    <3> SUFFICES ASSUME NEW i \in 1..Len(calls'[t]), Build(providers', calls'[t][i]) \in C
                 PROVE  Stuck(providers', C, calls'[t][i])
      OBVIOUS
    <3>1. /\ i \in 1..Len(calls[t])
          /\ calls'[t][i].key = calls[t][i].key /\ calls'[t][i].holder = calls[t][i].holder
          /\ calls'[t][i].next = calls[t][i].next
      BY <2>5 DEF Moved
    <3>2. Build(providers', calls'[t][i]) = Build(providers', calls[t][i])
      BY <3>1, SameBuild
    <3>3. Stuck(providers', C, calls[t][i])
      BY <1>6, <3>1, <3>2
    <3>4. CASE i < Len(calls[t])
      BY <2>5, <3>1, <3>3, <3>4 DEF Moved
    <3>5. CASE i = Len(calls[t])
      <4>1. calls'[t][i].at = p /\ calls'[t][i].result = r
        BY <2>5, <3>1, <3>5 DEF Moved
      <4>2. calls[t][i] = Top(t) /\ Building(t) \in C
        BY <2>1, <2>3, <2>5, <3>2, <3>5, BuildOfTop
      <4> QED
        BY <2>5, <3>1, <3>2, <3>3, <4>1, <4>2 DEF Stuck
    <3> QED
      BY <2>3, <2>5, <3>1, <3>4, <3>5
  <2>6. ASSUME NEW r \in Results, Returned(t, r), ~Idle(t),
               r = "ok" => Top(t).at = "pop" /\ Top(t).result = "ok"
        PROVE  Safe
    <3> SUFFICES ASSUME NEW i \in 1..Len(calls'[t]), Build(providers', calls'[t][i]) \in C
                 PROVE  Stuck(providers', C, calls'[t][i])
      OBVIOUS
    <3> DEFINE b == Build(providers', calls'[t][i])
    <3>1. PICK n \in Nat : n = Len(calls[t]) - 1 /\ n + 1 = Len(calls[t])
      BY <2>3, <2>6
    <3>2. /\ Len(calls'[t]) = n /\ i \in 1..n /\ i \in 1..Len(calls[t]) /\ i < Len(calls[t])
          /\ calls'[t][i].key = calls[t][i].key /\ calls'[t][i].holder = calls[t][i].holder
          /\ calls'[t][i].at = calls[t][i].at
      BY <2>6, <3>1 DEF Returned
    <3>3. b = Build(providers', calls[t][i]) /\ b = Build(providers, calls[t][i])
      BY <2>1, <3>2, SameBuild
    <3>4. Stuck(providers', C, calls[t][i])
      BY <1>6, <3>2, <3>3
    <3>5. CASE i < n
      <4>1. calls'[t][i] = calls[t][i]
        BY <2>6, <3>2, <3>5 DEF Returned
      <4> QED
        BY <3>4, <4>1
    <3>6. CASE i = n
      <4>1. calls'[t][n].next = calls[t][n].next + 1 /\ calls'[t][n].result = r
        BY <2>6, <3>2, <3>6 DEF Returned
      <4>2. calls[t][n].at = "factory" /\ calls[t][n].result = "ok"
        BY <3>2, <3>6 DEF LockInv, Stacked
      <4>3. calls[t][n].next \in Nat
        BY <3>2, <3>6, BuildIs DEF Call
      <4>4. ASSUME r = "ok", NEW m \in 1..Len(b.deps), Awaits(providers', C, b.deps[m])
            PROVE  calls[t][n].next + 1 =< m
        <5> DEFINE e == Build(providers, calls[t][n + 1])
        <5>1. n + 1 \in 1..Len(calls[t]) /\ calls[t][n + 1] = Top(t)
          BY <2>3, <2>6, <3>1
        <5>2. e \notin C
          <6>1. Build(providers', calls[t][n + 1]) = e
            BY <2>1
          <6> QED
            BY <1>6, <2>6, <4>4, <5>1, <6>1 DEF Stuck
        <5>3. /\ e \in providers[calls[t][n + 1].holder] /\ e.key = calls[t][n + 1].key
              /\ calls[t][n + 1].holder \in Containers
          BY <5>1, BuildIs
        <5>4. calls[t][n + 1].key = b.deps[calls[t][n].next]
          BY <3>2, <3>3, <3>6, <5>1 DEF LinkInv, Linked
        <5>5. calls[t][n].next # m
          BY <2>1, <4>4, <5>2, <5>3, <5>4 DEF Awaits
        <5>6. calls[t][n].next =< m
          BY <3>3, <3>4, <3>6, <4>2, <4>4 DEF Stuck
        <5> QED
          BY <4>3, <5>5, <5>6
      <4> QED
        BY <3>2, <3>6, <4>1, <4>2, <4>4 DEF Stuck
    <3> QED
      BY <3>1, <3>2, <3>5, <3>6
  <2>7. ASSUME NEW new, Entered(t, new), new.at = "check", new.next = 1
        PROVE  Safe
    <3> SUFFICES ASSUME NEW i \in 1..Len(calls'[t]), Build(providers', calls'[t][i]) \in C
                 PROVE  Stuck(providers', C, calls'[t][i])
      OBVIOUS
    <3>1. Len(calls[t]) \in Nat
      BY HeldBy
    <3>2. CASE i \in 1..Len(calls[t])
      BY <1>6, <2>7, <3>2 DEF Entered
    <3>3. CASE i = Len(calls[t]) + 1
      <4>1. calls'[t][i] = new
        BY <2>7, <3>3 DEF Entered
      <4>2. \A m \in 1..Len(Build(providers', new).deps) : 1 =< m
        OBVIOUS
      <4> QED
        BY <2>7, <4>1, <4>2 DEF Stuck
    <3> QED
      BY <2>7, <3>1, <3>2, <3>3 DEF Entered
  <2>8. Safe
    <3>1. CASE Resolve(t)
      BY <2>7, <3>1, Effects DEF Entry
    <3>2. CASE Check(t)
      BY <2>3, <2>4, <2>5, <2>6, <3>2, Effects DEF In
    <3>3. CASE Push(t)
      BY <2>3, <2>4, <2>5, <3>3, Effects DEF In
    <3>4. CASE Lock(t)
      <4>1. ~Idle(t)
        BY <3>4 DEF Lock, In
      <4>2. CASE Moved(t, "factory", Top(t).result)
        BY <2>3, <2>4, <2>5, <4>1, <4>2
      <4>3. CASE Moved(t, "pop", Top(t).result) /\ Building(t) \in cached
        <5>1. Building(t) \notin C
          BY <1>4, <3>4, <4>3 DEF Lock
        <5> QED
          BY <2>3, <2>4, <2>5, <4>1, <4>3, <5>1
      <4> QED
        BY <3>4, <4>2, <4>3, Effects
    <3>5. CASE ResolveNext(t)
      <4>1. ~Idle(t)
        BY <3>5 DEF ResolveNext, In
      <4>2. CASE Moved(t, "factory", "error")
        BY <2>4, <2>5, <4>1, <4>2
      <4>3. CASE \E k, h : Entered(t, Entry(Top(t).on, k, h))
        BY <2>7, <4>3 DEF Entry
      <4> QED
        BY <3>5, <4>2, <4>3, Effects
    <3>6. CASE Built(t)
      BY <1>3, <2>4, <2>5, <3>6, Effects DEF In
    <3>7. CASE BuildFails(t)
      BY <2>4, <2>5, <3>7, Effects DEF In
    <3>8. CASE Pop(t)
      BY <2>3, <2>6, <3>8, Effects DEF In
    <3> QED
      BY <2>2, <3>1, <3>2, <3>3, <3>4, <3>5, <3>6, <3>7, <3>8 DEF Step
  <2>9. \A s \in Threads : s # t => calls'[s] = calls[s]
    <3>1. \/ \E p, r : Moved(t, p, r)
          \/ \E r : Returned(t, r)
          \/ \E new : Entered(t, new)
      BY <2>2, Effects DEF Step
    <3> QED
      BY <3>1 DEF Moved, Returned, Entered
  <2> HIDE DEF Safe
  <2>10. ASSUME NEW s \in Threads, NEW i \in 1..Len(calls'[s]), Build(providers', calls'[s][i]) \in C
         PROVE  Stuck(providers', C, calls'[s][i])
    <3>1. CASE s = t
      BY <2>8, <2>10, <3>1 DEF Safe
    <3>2. CASE s # t
      BY <1>6, <2>9, <2>10, <3>2
    <3> QED
      BY <3>1, <3>2
  <2> QED
    BY <1>4, <1>5, <2>10
<1> QED
  BY <1>7, <1>8

\* No instance is ever stored of a binding on a cycle, of any length and across
\* any scopes, of one that depends on it or on a key that nobody binds, whatever
\* the threads do to one another's frames.
THEOREM NeverBuilt == Spec => []CyclicNeverBuilt
<1> DEFINE IInv == LinkInv /\ StoresInv /\ HopelessInv
<1>1. Init => IInv
  <2> SUFFICES ASSUME Init PROVE IInv
    OBVIOUS
  <2>1. \A t \in Threads : calls[t] = <<>> /\ Len(calls[t]) = 0
    BY DEF Init
  <2>2. /\ \A b \in Bindings, c \in Containers : stores[b][c] = 0
        /\ UNION {providers[c] : c \in Containers} = {}
    BY DEF Init
  <2> QED
    BY <2>1, <2>2 DEF LinkInv, Linked, StoresInv, HopelessInv
<1>2. TypeOK /\ AllFound /\ LockInv /\ IInv /\ [Next]_vars => IInv'
  BY LinkStep, StoresStep, HopelessStep
<1>3. HopelessInv => CyclicNeverBuilt
  BY DEF HopelessInv, CyclicNeverBuilt
<1> QED
  BY <1>1, <1>2, <1>3, LockedAndTyped, PTL DEF Spec
=============================================================================
