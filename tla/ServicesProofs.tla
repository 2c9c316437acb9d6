--------------------------- MODULE ServicesProofs ---------------------------
(***************************************************************************)
(* Proofs about Services, for any set of tasks and any number of hooks:    *)
(* that the services leave the lifecycle manager what it is, so that every *)
(* theorem of LifecycleManagerProofs holds of it, and that no two callers  *)
(* are ever in the same service.                                           *)
(***************************************************************************)
EXTENDS Services, LifecycleManagerProofs, SequenceTheorems

\* Every behaviour of the manager with services is one of the manager with
\* hooks that return and raise as they like.
THEOREM ServicesRefineManager == ServiceSpec => Spec
<1>1. ServiceInit => Init
  BY DEF ServiceInit
<1>2. [ServiceNext]_serviceVars => [Next]_vars
  <2>1. ASSUME ServiceNext PROVE [Next]_vars
    BY <2>1 DEF ServiceNext, ServiceAdd, ServiceCall, DirectCall, ServiceResume,
                ServiceStarted, ServiceFails, ServiceStopped, DirectEnds,
                Next, Call, Resume
  <2>2. ASSUME UNCHANGED serviceVars PROVE UNCHANGED vars
    BY <2>2 DEF serviceVars
  <2> QED
    BY <2>1, <2>2
<1> QED
  BY <1>1, <1>2, PTL DEF ServiceSpec, Spec

\* With any services on its hooks and any clients that call them directly, the
\* manager still starts hooks in order, stops them in reverse, and leaves none
\* up when it is over.
THEOREM ServicesKeepOrder ==
    ServiceSpec => [](StartOrder /\ StopOrder /\ DownWhenOver)
<1>1. Spec => []StartOrder
  BY StartsInOrder
<1>2. Spec => []StopOrder
  BY StopsInReverse
<1>3. Spec => []DownWhenOver
  BY NothingLeftUp
<1> QED
  BY <1>1, <1>2, <1>3, ServicesRefineManager, PTL

-----------------------------------------------------------------------------
BusyState == {"STARTING", "STOPPING"}

\* What holds halfway through a step of t: it has left its service, with the
\* services now in the states S, and has not entered another one yet.
Between(t, S) ==
    /\ S \in Seq(ServiceState \cup {"plain"})
    /\ Len(S) = Len(stoppable)
    /\ \A i \in Hooks :
          /\ S[i] # "plain" => stoppable[i]
          /\ S[i] \in BusyState <=> \E u \in Tasks \ {t} : inside[u] = i
    /\ \A u, v \in Tasks \ {t} : inside[u] # 0 /\ inside[u] = inside[v] => u = v
    /\ \A i \in touched : i \in Hooks /\ S[i] # "plain"

\* Leaving a service, or being in none, is the first half of a step.
LEMMA LeftIsBetween ==
    ASSUME ServiceInv, NEW t \in Tasks, NEW w \in ServiceState \ BusyState
    PROVE  Between(t, Left(t, w))
<1> USE DEF ServiceInv, ServiceTypeOK, InsideOne, BusyState, ServiceState
<1>1. Len(stoppable) \in Nat /\ Hooks = 1..Len(stoppable) /\ DOMAIN state = Hooks
  BY DEF TypeOK, Hooks
<1>2. /\ inside[t] \in 0..Len(stoppable)
      /\ inside[t] # 0 => inside[t] \in Hooks /\ state[inside[t]] # "plain"
  BY DEF Services
<1>a. /\ state \in Seq(ServiceState \cup {"plain"}) /\ Len(state) = Len(stoppable)
      /\ w \in ServiceState \cup {"plain"} /\ w # "plain" /\ w \notin BusyState
  OBVIOUS
<1>3. /\ Left(t, w) \in Seq(ServiceState \cup {"plain"})
      /\ Len(Left(t, w)) = Len(stoppable)
  <2>1. CASE inside[t] = 0
    BY <1>a, <2>1 DEF Left
  <2>2. CASE inside[t] # 0
    <3> HIDE DEF ServiceInv, ServiceTypeOK, InsideOne, BusyState, ServiceState
    <3>1. inside[t] \in 1..Len(state)
      BY <1>1, <1>2, <1>a, <2>2
    <3> QED
      BY <1>a, <2>2, <3>1, ExceptSeq DEF Left
  <2> QED
    BY <2>1, <2>2
<1>4. \A i \in Hooks : Left(t, w)[i] = IF i = inside[t] THEN w ELSE state[i]
  BY <1>1, <1>2 DEF Left
<1>5. \A i \in Hooks : Left(t, w)[i] = "plain" <=> state[i] = "plain"
  <2> HIDE DEF ServiceInv, ServiceTypeOK, InsideOne, BusyState, ServiceState
  <2> QED
    BY <1>1, <1>2, <1>4, <1>a
<1>6. \A u, v \in Tasks \ {t} : inside[u] # 0 /\ inside[u] = inside[v] => u = v
  OBVIOUS
<1>7. ASSUME NEW i \in Hooks
      PROVE  Left(t, w)[i] \in BusyState <=> \E u \in Tasks \ {t} : inside[u] = i
  <2>1. CASE state[i] = "plain"
    <3>1. \A u \in Tasks : inside[u] # i
      BY <1>1, <2>1 DEF Services
    <3> QED
      BY <1>5, <2>1, <3>1
  <2>2. CASE state[i] # "plain" /\ i = inside[t]
    <3>1. \A u \in Tasks \ {t} : inside[u] # i
      BY <2>2 DEF Services
    <3> QED
      BY <1>4, <2>2, <3>1
  <2>3. CASE state[i] # "plain" /\ i # inside[t]
    BY <1>4, <2>3 DEF Services
  <2> QED
    BY <2>1, <2>2, <2>3
<1> QED
  BY <1>1, <1>3, <1>5, <1>6, <1>7 DEF Between, Services

\* Entering the service of the hook that is called, or none, is the second
\* half; it moves no other task.
LEMMA EntersStep ==
    ASSUME ServiceInv, TypeOK', NEW t \in Tasks, NEW S, Between(t, S),
           UNCHANGED <<stoppable, touched>>, Enters(t, S),
           \A u \in Tasks \ {t} : pc'[u] = pc[u] /\ at'[u] = at[u]
    PROVE  ServiceInv'
<1> USE DEF Between, BusyState, ServiceState
<1>1. /\ Len(stoppable) \in Nat /\ Hooks = 1..Len(stoppable) /\ Hooks' = Hooks
      /\ DOMAIN S = Hooks /\ at'[t] \in 0..Len(stoppable)
      /\ inside \in [Tasks -> 0..Len(stoppable)]
  BY DEF TypeOK, Hooks, ServiceInv, ServiceTypeOK
<1>2. \A u \in Tasks \ {t} : inside[u] # 0 => inside[u] \in Hooks /\ S[inside[u]] # "plain"
  BY <1>1 DEF ServiceInv, ServiceTypeOK
<1>3. \A u \in Tasks \ {t} : ~Free(u)' => inside[u] \in {0, at'[u]}
  BY DEF ServiceInv, ServiceTypeOK, Free
<1>4. CASE at'[t] # 0 /\ S[at'[t]] \in Admits[pc'[t]]
  <2> DEFINE i == at'[t]
             w == IF pc'[t] = "starting" THEN "STARTING" ELSE "STOPPING"
  <2>1. i \in Hooks /\ state' = [S EXCEPT ![i] = w] /\ inside' = [inside EXCEPT ![t] = i]
    BY <1>1, <1>4 DEF Enters
  <2>2. pc'[t] \in {"starting", "rollback", "stopping"}
    BY <1>4 DEF TypeOK, Rolling
  <2>3. S[i] \notin BusyState \cup {"plain"}
    BY <1>4, <2>2 DEF Admits
  <2>4. w \in BusyState
    OBVIOUS
  <2> HIDE DEF i, w
  <2>5. /\ \A k \in Hooks : state'[k] = IF k = i THEN w ELSE S[k]
        /\ \A u \in Tasks : inside'[u] = IF u = t THEN i ELSE inside[u]
    BY <1>1, <2>1
  <2>6. \A u \in Tasks \ {t} : inside[u] # i
    BY <2>1, <2>3
  <2>7. /\ state' \in Seq(ServiceState \cup {"plain"}) /\ Len(state') = Len(stoppable)
        /\ inside' \in [Tasks -> 0..Len(stoppable)]
    BY <1>1, <2>1, <2>4
  <2>8. \A k \in Hooks : state'[k] # "plain" <=> S[k] # "plain"
    BY <2>3, <2>4, <2>5
  <2>9. ServiceTypeOK'
    <3>1. \A u \in Tasks : inside'[u] # 0 => inside'[u] \in Services'
      BY <1>1, <1>2, <2>1, <2>3, <2>5, <2>8 DEF Services
    <3>2. \A u \in Tasks : ~Free(u)' => inside'[u] \in {0, at'[u]}
      BY <1>3, <2>5 DEF i
    <3>3. touched' \subseteq Services' /\ \A k \in Services' : stoppable'[k]
      BY <1>1, <2>8 DEF Services
    <3> QED
      BY <2>7, <3>1, <3>2, <3>3 DEF ServiceTypeOK
  <2>10. ASSUME NEW k \in Services'
         PROVE  /\ state'[k] \in BusyState <=> \E u \in Tasks : inside'[u] = k
                /\ \A u, v \in Tasks : inside'[u] = k /\ inside'[v] = k => u = v
    <3>1. k \in Hooks /\ k # 0
      BY <1>1 DEF Services
    <3>2. CASE k = i
      BY <2>4, <2>5, <2>6, <3>1, <3>2
    <3>3. CASE k # i
      BY <2>5, <3>1, <3>3
    <3> QED
      BY <3>2, <3>3
  <2> QED
    BY <2>9, <2>10 DEF ServiceInv, InsideOne
<1>5. CASE ~(at'[t] # 0 /\ S[at'[t]] \in Admits[pc'[t]])
  <2>1. state' = S /\ inside' = [inside EXCEPT ![t] = 0]
    BY <1>5 DEF Enters
  <2>2. \A u \in Tasks : inside'[u] = IF u = t THEN 0 ELSE inside[u]
    BY <1>1, <2>1
  <2>3. ServiceTypeOK'
    <3>1. inside' \in [Tasks -> 0..Len(stoppable)]
      BY <1>1, <2>1
    <3>2. \A u \in Tasks : inside'[u] # 0 => inside'[u] \in Services'
      BY <1>1, <1>2, <2>1, <2>2 DEF Services
    <3>3. \A u \in Tasks : ~Free(u)' => inside'[u] \in {0, at'[u]}
      BY <1>3, <2>2
    <3>4. touched' \subseteq Services' /\ \A k \in Services' : stoppable'[k]
      BY <1>1, <2>1 DEF Services
    <3> QED
      BY <2>1, <3>1, <3>2, <3>3, <3>4 DEF ServiceTypeOK
  <2>4. ASSUME NEW k \in Services'
        PROVE  /\ state'[k] \in BusyState <=> \E u \in Tasks : inside'[u] = k
               /\ \A u, v \in Tasks : inside'[u] = k /\ inside'[v] = k => u = v
    <3>1. k \in Hooks /\ k # 0
      BY <1>1 DEF Services
    <3> QED
      BY <2>1, <2>2, <3>1
  <2> QED
    BY <2>3, <2>4 DEF ServiceInv, InsideOne
<1> QED
  BY <1>4, <1>5

\* A step of the manager moves no task but its own.
LEMMA OneMoves ==
    ASSUME TypeOK, NEW t \in Tasks, Call(t) \/ Resume(t)
    PROVE  /\ \A u \in Tasks \ {t} : pc'[u] = pc[u] /\ at'[u] = at[u]
           /\ ~Add(t) => UNCHANGED stoppable
<1>1. \E w, i : Goto(t, w, i)
  BY DEF Call, Resume, Add, AddUnnamed, Start, Refused, Stop, StopIsNoop, StopRefused,
         StartHookReturns, StartHookRaises, StopHookEnds, CallsNextStop
<1>2. ~Add(t) => UNCHANGED stoppable
  BY DEF Call, Resume, AddUnnamed, Start, Refused, Stop, StopIsNoop, StopRefused,
         StartHookReturns, StartHookRaises, StopHookEnds
<1> QED
  BY <1>1, <1>2 DEF Goto, TypeOK

\* Every step keeps the invariant.
LEMMA ServiceStep ==
    ASSUME ServiceInv, ServiceNext
    PROVE  ServiceInv'
<1> PICK t \in Tasks : \/ ~Direct(t) /\ (ServiceAdd(t) \/ ServiceCall(t))
                       \/ DirectCall(t)
                       \/ ServiceResume(t)
  BY DEF ServiceNext
<1>t. TypeOK /\ Len(stoppable) \in Nat /\ Hooks = 1..Len(stoppable)
  BY DEF ServiceInv, ServiceTypeOK, TypeOK, Hooks
<1>1. CASE ~Direct(t) /\ ServiceAdd(t)
  <2>1. /\ Add(t) /\ TypeOK' /\ inside[t] = 0
        /\ \A u \in Tasks \ {t} : pc'[u] = pc[u] /\ at'[u] = at[u]
    BY <1>1, <1>t, TypeStep, OneMoves DEF ServiceAdd, Direct, Add, Call
  <2>2. PICK b \in BOOLEAN : stoppable' = Append(stoppable, b)
    BY <2>1 DEF Add
  <2> DEFINE n == Len(stoppable) + 1
  <2>3. /\ Len(stoppable') = n /\ stoppable'[n] = b
        /\ \A i \in Hooks : stoppable'[i] = stoppable[i]
    BY <1>t, <2>2 DEF TypeOK
  <2>4. PICK w \in {"plain", "CREATED"} :
           state' = Append(state, w) /\ (w # "plain" => stoppable'[n])
    BY <1>1, <2>3 DEF ServiceAdd
  <2>5. /\ state' \in Seq(ServiceState \cup {"plain"}) /\ Len(state') = n
        /\ state'[n] = w /\ \A i \in Hooks : state'[i] = state[i]
    BY <1>t, <2>4 DEF ServiceInv, ServiceTypeOK, ServiceState
  <2>6. Hooks' = Hooks \cup {n} /\ n \notin Hooks
    BY <1>t, <2>3 DEF Hooks
  <2>7. Services \subseteq Services' /\ Services' \subseteq Services \cup {n}
    BY <2>5, <2>6 DEF Services
  <2>8. UNCHANGED <<inside, touched>>
    BY <1>1 DEF ServiceAdd
  <2>9. inside' \in [Tasks -> 0..Len(stoppable')] /\ \A u \in Tasks : inside[u] # n
    BY <1>t, <2>3, <2>8 DEF ServiceInv, ServiceTypeOK
  <2>10. \A i \in Services' : stoppable'[i]
    BY <2>3, <2>4, <2>5, <2>6, <2>7 DEF ServiceInv, ServiceTypeOK, Services
  <2>11. \A u \in Tasks : /\ inside'[u] # 0 => inside'[u] \in Services'
                          /\ ~Free(u)' => inside'[u] \in {0, at'[u]}
    BY <2>1, <2>7, <2>8 DEF ServiceInv, ServiceTypeOK, Free
  <2>12. ServiceTypeOK'
    BY <2>1, <2>3, <2>5, <2>7, <2>8, <2>9, <2>10, <2>11 DEF ServiceInv, ServiceTypeOK
  <2>13. InsideOne'
    <3>1. ASSUME NEW i \in Services'
          PROVE  /\ state'[i] \in BusyState <=> \E u \in Tasks : inside'[u] = i
                 /\ \A u, v \in Tasks : inside'[u] = i /\ inside'[v] = i => u = v
      <4>1. CASE i \in Services
        BY <2>5, <2>8, <4>1 DEF ServiceInv, InsideOne, BusyState, Services
      <4>2. CASE i = n
        BY <2>4, <2>5, <2>8, <2>9, <4>2 DEF BusyState
      <4> QED
        BY <2>7, <4>1, <4>2
    <3> QED
      BY <3>1 DEF InsideOne, BusyState
  <2> QED
    BY <2>12, <2>13 DEF ServiceInv
<1>2. CASE ~Direct(t) /\ ServiceCall(t)
  <2>1. /\ Call(t) /\ Free(t) /\ Enters(t, state)
        /\ UNCHANGED <<stoppable, touched>>
    BY <1>2 DEF ServiceCall, Call, AddUnnamed, Start, Refused, Stop, StopIsNoop, StopRefused
  <2>2. inside[t] = 0
    BY <1>2, <2>1 DEF Direct
  <2>3. Left(t, "FAILED") = state
    BY <2>2 DEF Left
  <2>4. Between(t, state)
    BY <2>3, LeftIsBetween DEF ServiceState, BusyState
  <2>5. TypeOK' /\ \A u \in Tasks \ {t} : pc'[u] = pc[u] /\ at'[u] = at[u]
    BY <1>t, <2>1, TypeStep, OneMoves
  <2> QED
    BY <2>1, <2>4, <2>5, EntersStep
<1>3. CASE ServiceStarted(t) \/ ServiceFails(t) \/ ServiceStopped(t)
  <2>1. PICK w \in ServiceState \ BusyState : Enters(t, Left(t, w))
    BY <1>3 DEF ServiceStarted, ServiceFails, ServiceStopped, ServiceState, BusyState
  <2>2. Resume(t) /\ UNCHANGED <<stoppable, touched>>
    BY <1>3 DEF ServiceStarted, ServiceFails, ServiceStopped, Resume,
                StartHookReturns, StartHookRaises, StopHookEnds
  <2>3. Between(t, Left(t, w))
    BY LeftIsBetween
  <2>4. TypeOK' /\ \A u \in Tasks \ {t} : pc'[u] = pc[u] /\ at'[u] = at[u]
    BY <1>t, <2>2, TypeStep, OneMoves
  <2> QED
    BY <2>1, <2>2, <2>3, <2>4, EntersStep
<1>4. CASE DirectCall(t)
  <2>1. PICK i \in Services, w \in BusyState :
           /\ state[i] \notin BusyState
           /\ state' = [state EXCEPT ![i] = w]
           /\ inside' = [inside EXCEPT ![t] = i]
           /\ touched' = touched \cup {i}
    <3>1. PICK i \in Services, v \in {"starting", "stopping"} :
             /\ state[i] \in Admits[v]
             /\ state' = [state EXCEPT ![i] =
                             IF v = "starting" THEN "STARTING" ELSE "STOPPING"]
             /\ inside' = [inside EXCEPT ![t] = i]
             /\ touched' = touched \cup {i}
      BY <1>4 DEF DirectCall
    <3>2. state[i] \notin BusyState
      BY <3>1 DEF Admits, BusyState
    <3>3. PICK w \in BusyState : w = IF v = "starting" THEN "STARTING" ELSE "STOPPING"
      BY DEF BusyState
    <3> QED
      BY <3>1, <3>2, <3>3
  <2>2. Free(t) /\ inside[t] = 0 /\ UNCHANGED vars
    BY <1>4 DEF DirectCall
  <2>3. i \in 1..Len(state) /\ Len(state) = Len(stoppable) /\ i # 0
    BY <1>t DEF ServiceInv, ServiceTypeOK, Services
  <2>4. /\ state' \in Seq(ServiceState \cup {"plain"}) /\ Len(state') = Len(stoppable)
        /\ \A k \in Hooks : state'[k] = IF k = i THEN w ELSE state[k]
    <3>1. state \in Seq(ServiceState \cup {"plain"}) /\ w \in ServiceState \cup {"plain"}
      BY DEF ServiceInv, ServiceTypeOK, ServiceState, BusyState
    <3> QED
      BY <1>t, <2>1, <2>3, <3>1, ExceptSeq
  <2>5. \A u \in Tasks : inside'[u] = IF u = t THEN i ELSE inside[u]
    BY <2>1 DEF ServiceInv, ServiceTypeOK
  <2>6. Hooks' = Hooks /\ Services' = Services
    BY <2>2, <2>4 DEF vars, Hooks, Services, BusyState
  <2>7. ServiceTypeOK'
    <3>1. inside' \in [Tasks -> 0..Len(stoppable)]
      BY <2>1, <2>3 DEF ServiceInv, ServiceTypeOK
    <3>2. TypeOK'
      BY <1>t, <2>2 DEF TypeOK, vars, Hooks
    <3>3. \A u \in Tasks : inside'[u] # 0 => inside'[u] \in Services
      BY <2>5 DEF ServiceInv, ServiceTypeOK
    <3>4. \A u \in Tasks : ~Free(u)' => inside'[u] \in {0, at'[u]}
      BY <2>2, <2>5 DEF ServiceInv, ServiceTypeOK, Free, vars
    <3> QED
      BY <2>1, <2>2, <2>4, <2>6, <3>1, <3>2, <3>3, <3>4 DEF ServiceInv, ServiceTypeOK, vars
  <2>8. InsideOne'
    <3>1. \A u \in Tasks : inside[u] # i
      BY <2>1 DEF ServiceInv, InsideOne, BusyState
    <3>2. ASSUME NEW k \in Services
          PROVE  /\ state'[k] \in BusyState <=> \E u \in Tasks : inside'[u] = k
                 /\ \A u, v \in Tasks : inside'[u] = k /\ inside'[v] = k => u = v
      <4>1. k \in Hooks /\ k # 0
        BY <1>t DEF Services
      <4>2. CASE k = i
        BY <2>1, <2>4, <2>5, <3>1, <4>1, <4>2
      <4>3. CASE k # i
        BY <2>2, <2>4, <2>5, <4>1, <4>3 DEF ServiceInv, InsideOne, BusyState
      <4> QED
        BY <4>2, <4>3
    <3> QED
      BY <2>6, <3>2 DEF InsideOne, BusyState
  <2> QED
    BY <2>7, <2>8 DEF ServiceInv
<1>5. CASE DirectEnds(t)
  <2>1. PICK w \in ServiceState \ BusyState : state' = Left(t, w)
    BY <1>5 DEF DirectEnds, ServiceState, BusyState
  <2>2. /\ Free(t) /\ UNCHANGED <<vars, touched>>
        /\ inside' = [inside EXCEPT ![t] = 0]
    BY <1>5 DEF DirectEnds, Direct
  <2>3. Between(t, Left(t, w))
    BY LeftIsBetween
  <2>4. TypeOK' /\ UNCHANGED <<stoppable, touched>> /\ at'[t] = 0
    BY <1>t, <2>2 DEF TypeOK, vars, Hooks, Free
  <2>5. \A u \in Tasks \ {t} : pc'[u] = pc[u] /\ at'[u] = at[u]
    BY <2>2 DEF vars
  <2>6. Enters(t, Left(t, w))
    BY <2>1, <2>2, <2>4 DEF Enters
  <2> QED
    BY <2>3, <2>4, <2>5, <2>6, EntersStep
<1> QED
  BY <1>1, <1>2, <1>3, <1>4, <1>5 DEF ServiceResume

\* No two callers are ever in the _on_start() or _on_stop() of one service, and
\* it is STARTING or STOPPING just while one is: what start() and stop() write
\* after their await is not written over what another caller has done.
THEOREM ServicesGuarded == ServiceSpec => []ServiceInv
<1>1. ServiceInit => ServiceInv
  <2>1. ASSUME ServiceInit PROVE ServiceInv
    <3>1. TypeOK /\ Hooks = {} /\ Len(stoppable) = 0
      BY <2>1, LifecycleAssumption DEF ServiceInit, Init, TypeOK, Phases, Hooks, Outcomes
    <3>2. ServiceTypeOK
      BY <2>1, <3>1 DEF ServiceInit, ServiceTypeOK, Services
    <3>3. InsideOne
      BY <3>1 DEF InsideOne, Services
    <3> QED
      BY <3>2, <3>3 DEF ServiceInv
  <2> QED
    BY <2>1
<1>2. ServiceInv /\ [ServiceNext]_serviceVars => ServiceInv'
  <2>1. ASSUME ServiceInv, UNCHANGED serviceVars PROVE ServiceInv'
    BY <2>1 DEF serviceVars, vars, ServiceInv, ServiceTypeOK, InsideOne, Services,
                TypeOK, Hooks, Free
  <2> QED
    BY <2>1, ServiceStep
<1> QED
  BY <1>1, <1>2, PTL DEF ServiceSpec

-----------------------------------------------------------------------------
(***************************************************************************)
(* Services follow their lifecycle and go down in reverse order.  What is  *)
(* added to the invariants so far says what the state of a service that    *)
(* only the manager calls means for its entry (RUNNING that it is started, *)
(* STOPPED that nothing above it is any more), who is inside of it while   *)
(* it is neither, and that one start() failed at most.                     *)
(***************************************************************************)
Down == {"FAILED", "STOPPING", "STOPPED"}

\* A service in state s at index i, with the lifecycle in phase p and the
\* entries S started.
EntryIs(i, s, p, S) ==
    /\ s = "RUNNING" => i \in S
    /\ s = "STOPPED" => \A k \in Owed(S) : k < i
    /\ s \in {"STOPPED", "FAILED"} => p \in Down
    /\ i \in S /\ p \notin Down => s = "RUNNING"

EntryOf(i) == EntryIs(i, state[i], phase, started)

OneFailed(S) ==
    \A i, j \in Services \ touched : S[i] = "FAILED" /\ S[j] = "FAILED" => i = j

CallerOf(t) ==
    /\ Free(t) /\ inside[t] # 0 => inside[t] \in touched
    /\ ~Free(t) /\ inside[t] # 0 =>
          state[inside[t]] = IF pc[t] = "starting" THEN "STARTING" ELSE "STOPPING"
    /\ pc[t] \in Rolling /\ Managed(at[t]) => state[at[t]] # "RUNNING"

FollowInv ==
    /\ IInv /\ ServiceInv
    /\ \A i \in Services \ touched : EntryOf(i)
    /\ OneFailed(state)
    /\ \A t \in Tasks : CallerOf(t)

\* The invariant implies the order: a service that is being stopped has the
\* rollback in it, which stands above all that is left.
LEMMA FollowInReverse == FollowInv => ServicesStopInReverse
<1> SUFFICES ASSUME FollowInv, NEW i \in Hooks, NEW k \in Hooks, i < k, Managed(i), Managed(k),
                    state[i] \in {"STOPPING", "STOPPED"}
             PROVE  state[k] \notin {"STARTING", "RUNNING"}
  BY DEF ServicesStopInReverse
<1>1. ASSUME NEW j \in Hooks, Managed(j), state[j] \in {"STARTING", "STOPPING"}
      PROVE  \E t \in Tasks :
                /\ at[t] = j /\ pc[t] \notin Outcomes
                /\ state[j] = IF pc[t] = "starting" THEN "STARTING" ELSE "STOPPING"
  <2>1. PICK t \in Tasks : inside[t] = j
    BY <1>1 DEF FollowInv, ServiceInv, InsideOne, Managed
  <2>2. j # 0 /\ ~Free(t)
    BY <1>1, <2>1 DEF FollowInv, CallerOf, Managed, Hooks
  <2>3. at[t] = j
    BY <2>1, <2>2 DEF FollowInv, ServiceInv, ServiceTypeOK
  <2> QED
    BY <2>1, <2>2, <2>3 DEF FollowInv, CallerOf, Free
<1>2. phase \in Down /\ \A j \in Owed(started) : j =< i
  <2>1. CASE state[i] = "STOPPED"
    BY <2>1 DEF FollowInv, EntryOf, EntryIs, Managed, Owed, IInv, TypeOK, Hooks
  <2>2. CASE state[i] = "STOPPING"
    <3>1. PICK t \in Tasks : at[t] = i /\ pc[t] \notin Outcomes /\ pc[t] # "starting"
      BY <1>1, <2>2
    <3>2. pc[t] \in Rolling
      BY <3>1 DEF FollowInv, IInv, TypeOK
    <3> QED
      BY <3>1, <3>2 DEF FollowInv, IInv, StopOrder, WhoMayBeWhere, Rolling, Down
  <2> QED
    BY <2>1, <2>2
<1>3. state[k] # "RUNNING"
  <2>1. stoppable[k] /\ k > i
    BY DEF FollowInv, ServiceInv, ServiceTypeOK, Managed
  <2>2. k \notin started
    BY <1>2, <2>1 DEF Owed, Hooks
  <2> QED
    BY <2>2 DEF FollowInv, EntryOf, EntryIs, Managed
<1>4. state[k] # "STARTING"
  <2>1. ASSUME state[k] = "STARTING" PROVE FALSE
    <3>1. PICK t \in Tasks : pc[t] = "starting"
      BY <1>1, <2>1
    <3> QED
      BY <1>2, <3>1 DEF FollowInv, IInv, StartOrder, Down
  <2> QED
    BY <2>1
<1> QED
  BY <1>3, <1>4

\* With one shutdown at a time it also implies that services follow the
\* lifecycle: what is RUNNING when it is over would be owed a stop, and what is
\* STOPPING has a rollback in it.
LEMMA FollowWhenOver == FollowInv /\ InCharge => ServicesFollow
<1> SUFFICES ASSUME FollowInv, InCharge PROVE ServicesFollow
  OBVIOUS
<1>1. ASSUME NEW i \in Hooks, Managed(i), phase = "RUNNING" PROVE state[i] = "RUNNING"
  BY <1>1 DEF FollowInv, EntryOf, EntryIs, Managed, IInv, StartOrder, Down
<1>2. ASSUME NEW i \in Hooks, Managed(i),
             phase = "STOPPED" \/ (phase = "FAILED" /\ \A t \in Tasks : pc[t] \notin Rolling)
      PROVE  \/ state[i] \in {"CREATED", "FAILED", "STOPPED"}
             \/ state[i] = "STOPPING" /\ \E t \in Tasks : inside[t] = i /\ pc[t] = "rollback"
  <2>1. state[i] \in ServiceState
    BY <1>2 DEF FollowInv, ServiceInv, ServiceTypeOK, Managed, Services, Hooks
  <2>2. state[i] # "RUNNING"
    <3>1. Owed(started) = {} /\ stoppable[i]
      BY <1>2 DEF FollowInv, IInv, DownWhenOver, ServiceInv, ServiceTypeOK, Managed
    <3>2. i \notin started
      BY <3>1 DEF Owed
    <3> QED
      BY <1>2, <3>2 DEF FollowInv, EntryOf, EntryIs, Managed
  <2>3. ASSUME state[i] \in BusyState
        PROVE  state[i] = "STOPPING" /\ \E t \in Tasks : inside[t] = i /\ pc[t] = "rollback"
    <3>1. PICK t \in Tasks : inside[t] = i
      BY <1>2, <2>3 DEF FollowInv, ServiceInv, InsideOne, Managed, BusyState
    <3>2. /\ ~Free(t) /\ pc[t] \in Outcomes \cup {"starting"} \cup Rolling
          /\ state[i] = IF pc[t] = "starting" THEN "STARTING" ELSE "STOPPING"
      BY <1>2, <3>1 DEF FollowInv, IInv, TypeOK, CallerOf, Managed, Hooks
    <3>3. pc[t] # "starting" /\ (pc[t] = "stopping" => phase = "STOPPING")
      BY <1>2 DEF FollowInv, IInv, StartOrder, InCharge
    <3>4. pc[t] = "rollback"
      BY <1>2, <3>2, <3>3 DEF Free, Outcomes, Rolling
    <3> QED
      BY <3>1, <3>2, <3>4
  <2> QED
    BY <2>1, <2>2, <2>3 DEF ServiceState, BusyState
<1>3. ASSUME NEW i \in Hooks, NEW j \in Hooks, Managed(i), Managed(j),
             state[i] = "FAILED", state[j] = "FAILED"
      PROVE  i = j
  BY <1>3 DEF FollowInv, OneFailed, Managed
<1> QED
  BY <1>1, <1>2, <1>3 DEF ServicesFollow

\* The second half of a step keeps the invariant, if after the first half, with
\* the services in the states S, a state still means for its entry what it
\* should, one service has failed at most, and no other task has been disturbed.
LEMMA EntersFollow ==
    ASSUME FollowInv, (IInv /\ ServiceInv)', NEW t \in Tasks, NEW S, Between(t, S),
           UNCHANGED <<stoppable, touched>>, Enters(t, S),
           \A u \in Tasks \ {t} : pc'[u] = pc[u] /\ at'[u] = at[u],
           \A i \in Hooks : S[i] = "plain" <=> state[i] = "plain",
           \A u \in Tasks \ {t} : inside[u] # 0 => S[inside[u]] = state[inside[u]],
           \A i \in Services \ touched : EntryIs(i, S[i], phase', started'), OneFailed(S),
           \A u \in Tasks \ {t} :
              pc[u] \in Rolling /\ Managed(at[u]) => S[at[u]] # "RUNNING"
    PROVE  FollowInv'
<1>1. /\ Len(stoppable) \in Nat /\ Hooks = 1..Len(stoppable) /\ Hooks' = Hooks
      /\ DOMAIN S = Hooks /\ at'[t] \in 0..Len(stoppable)
      /\ inside \in [Tasks -> 0..Len(stoppable)]
      /\ Free(t)' => at'[t] = 0
      /\ pc'[t] \in Outcomes \cup {"starting"} \cup Rolling
  BY DEF FollowInv, IInv, TypeOK, Hooks, ServiceInv, ServiceTypeOK, Between, Free
<1> DEFINE w == IF pc'[t] = "starting" THEN "STARTING" ELSE "STOPPING"
           In == at'[t] # 0 /\ S[at'[t]] \in Admits[pc'[t]]
<1>2. /\ \A k \in Hooks : state'[k] = IF In /\ k = at'[t] THEN w ELSE S[k]
      /\ \A u \in Tasks \ {t} : inside'[u] = inside[u]
      /\ inside'[t] = IF In THEN at'[t] ELSE 0
  BY <1>1 DEF Enters
<1>3. In => at'[t] \in Hooks /\ S[at'[t]] \in {"CREATED", "RUNNING", "FAILED"}
  BY <1>1 DEF Admits, Hooks, Outcomes, Rolling, Free
<1>4. w \in BusyState
  BY DEF BusyState
<1>5. \A i \in Services' : i \in Services
  BY <1>1, <1>2, <1>3 DEF Services
<1>6. ASSUME NEW i \in (Services \ touched)' PROVE EntryOf(i)'
  <2>1. i \in Services \ touched /\ i \in Hooks
    BY <1>5 DEF Services
  <2>3. CASE ~(In /\ i = at'[t])
    BY <1>2, <2>1, <2>3 DEF EntryOf, EntryIs, Owed
  <2>4. CASE In /\ i = at'[t]
    <3>1. i \in started' => phase' \in Down
      <4>1. CASE pc'[t] = "starting"
        BY <1>1, <2>1, <2>4, <4>1 DEF EntryIs, Admits
      <4>2. CASE pc'[t] \in Rolling
        BY <4>2 DEF IInv, WhoMayBeWhere, Down, Rolling
      <4> QED
        BY <1>1, <2>4, <4>1, <4>2 DEF Free
    <3>2. state'[i] \in BusyState
      BY <1>2, <1>4, <2>1, <2>4
    <3> HIDE DEF w, In
    <3> QED
      BY <3>1, <3>2 DEF EntryOf, EntryIs, BusyState
  <2> QED
    BY <2>3, <2>4
<1>9. OneFailed(state)'
  <2>1. ASSUME NEW i \in (Services \ touched)', state'[i] = "FAILED"
        PROVE  S[i] = "FAILED" /\ i \in Services \ touched
    <3>1. i \in Services \ touched /\ i \in Hooks
      BY <1>5, <2>1 DEF Services
    <3> QED
      BY <1>2, <1>4, <2>1, <3>1 DEF BusyState
  <2> HIDE DEF w, In
  <2> QED
    BY <2>1 DEF OneFailed
<1>7. CallerOf(t)'
  <2>1. Free(t)' => inside'[t] = 0
    BY <1>1, <1>2
  <2>2. inside'[t] # 0 => state'[inside'[t]] = w
    BY <1>2, <1>3
  <2>3. ASSUME pc'[t] \in Rolling PROVE state'[at'[t]] # "RUNNING"
    <3>1. at'[t] \in Hooks
      BY <1>1, <2>3 DEF FollowInv, IInv, TypeOK, Rolling, Outcomes, Hooks
    <3>2. CASE In
      BY <1>2, <1>4, <3>1, <3>2 DEF BusyState
    <3>3. CASE ~In
      <4>1. state'[at'[t]] = S[at'[t]] /\ at'[t] # 0
        BY <1>1, <1>2, <3>1, <3>3
      <4>2. S[at'[t]] \notin Admits[pc'[t]]
        BY <3>3, <4>1
      <4> QED
        BY <2>3, <4>1, <4>2 DEF Admits, Rolling
    <3> QED
      BY <3>2, <3>3
  <2> QED
    BY <2>1, <2>2, <2>3 DEF CallerOf
<1>8. ASSUME NEW u \in Tasks \ {t} PROVE CallerOf(u)'
  <2>1. inside'[u] = inside[u] /\ pc'[u] = pc[u] /\ at'[u] = at[u] /\ CallerOf(u)
    BY <1>2 DEF FollowInv
  <2>2. ASSUME ~Free(u)', inside'[u] # 0
        PROVE  state'[inside'[u]] = IF pc'[u] = "starting" THEN "STARTING" ELSE "STOPPING"
    <3>1. inside[u] \in Hooks
      BY <1>1, <2>1, <2>2
    <3>2. S[inside[u]] = IF pc[u] = "starting" THEN "STARTING" ELSE "STOPPING"
      BY <2>1, <2>2 DEF CallerOf, Free
    <3>3. ~(In /\ inside[u] = at'[t])
      BY <1>3, <3>2
    <3> HIDE DEF w, In
    <3> QED
      BY <1>2, <2>1, <3>1, <3>2, <3>3
  <2>3. ASSUME pc'[u] \in Rolling, Managed(at[u])' PROVE state'[at[u]] # "RUNNING"
    <3>1. at[u] \in Hooks /\ Managed(at[u])
      BY <1>5, <2>3 DEF Managed, Services
    <3>2. S[at[u]] # "RUNNING"
      BY <2>1, <2>3, <3>1
    <3> QED
      BY <1>2, <1>4, <3>1, <3>2 DEF BusyState
  <2>4. Free(u)' /\ inside'[u] # 0 => inside'[u] \in touched'
    BY <2>1 DEF CallerOf, Free
  <2> HIDE DEF w, In
  <2> QED
    BY <2>1, <2>2, <2>3, <2>4 DEF CallerOf, Managed
<1> QED
  BY <1>6, <1>7, <1>8, <1>9 DEF FollowInv

\* Every step keeps the invariant.
LEMMA FollowStep ==
    ASSUME FollowInv, (IInv /\ ServiceInv)', ServiceNext
    PROVE  FollowInv'
<1> PICK t \in Tasks : \/ ~Direct(t) /\ (ServiceAdd(t) \/ ServiceCall(t))
                       \/ DirectCall(t)
                       \/ ServiceResume(t)
  BY DEF ServiceNext
<1>t. /\ TypeOK /\ Len(stoppable) \in Nat /\ Hooks = 1..Len(stoppable)
      /\ DOMAIN state = Hooks /\ ServiceInv /\ InsideOne /\ CallerOf(t)
      /\ inside \in [Tasks -> 0..Len(stoppable)]
  BY DEF FollowInv, IInv, ServiceInv, ServiceTypeOK, TypeOK, Hooks
<1>i. \A u \in Tasks : inside[u] # 0 => inside[u] \in Services /\ state[inside[u]] \in BusyState
  BY <1>t DEF ServiceInv, ServiceTypeOK, InsideOne, BusyState
<1>l. ASSUME NEW w
      PROVE  /\ \A i \in Hooks : Left(t, w)[i] = IF i = inside[t] THEN w ELSE state[i]
             /\ \A u \in Tasks \ {t} : inside[u] # 0 => Left(t, w)[inside[u]] = state[inside[u]]
  <2>1. \A i \in Hooks : Left(t, w)[i] = IF i = inside[t] THEN w ELSE state[i]
    BY <1>t DEF Left
  <2>2. \A u \in Tasks \ {t} : inside[u] # 0 => inside[u] # inside[t] /\ inside[u] \in Hooks
    BY <1>t, <1>i DEF InsideOne, Services
  <2> QED
    BY <2>1, <2>2
<1>p. \A i \in Hooks, w \in ServiceState :
         i = inside[t] => w # "plain" /\ state[i] # "plain"
  BY <1>i, <1>t DEF ServiceState, Services
<1>1. CASE ~Direct(t) /\ ServiceCall(t)
  <2>1. /\ Call(t) /\ ~Add(t) /\ Free(t) /\ inside[t] = 0 /\ Enters(t, state)
        /\ UNCHANGED <<stoppable, started, touched>>
        /\ phase \in Down => phase' \in Down
    BY <1>1 DEF ServiceCall, Call, AddUnnamed, Start, Refused, Stop, StopIsNoop,
                StopRefused, Direct, Add, Down
  <2>2. Between(t, state)
    <3>1. Left(t, "FAILED") = state
      BY <2>1 DEF Left
    <3> QED
      BY <1>t, <3>1, LeftIsBetween DEF ServiceState, BusyState
  <2>3. \A u \in Tasks \ {t} : pc'[u] = pc[u] /\ at'[u] = at[u]
    BY <1>t, <2>1, OneMoves
  <2>4. OneFailed(state) /\ \A i \in Services \ touched : EntryIs(i, state[i], phase', started')
    BY <2>1 DEF FollowInv, EntryOf, EntryIs
  <2>5. \A u \in Tasks \ {t} :
           pc[u] \in Rolling /\ Managed(at[u]) => state[at[u]] # "RUNNING"
    BY DEF FollowInv, CallerOf
  <2> QED
    BY <2>1, <2>2, <2>3, <2>4, <2>5, EntersFollow
<1>2. CASE ServiceStarted(t) \/ ServiceFails(t)
  <2>1. PICK w \in {"RUNNING", "FAILED"} :
           /\ Enters(t, Left(t, w))
           /\ w = "RUNNING" => /\ StartHookReturns(t)
                               /\ inside[t] = at[t] \/ state[at[t]] = "plain"
           /\ w = "FAILED" => StartHookRaises(t)
    BY <1>2 DEF ServiceStarted, ServiceFails
  <2>2. /\ Resume(t) /\ UNCHANGED <<stoppable, touched>>
        /\ pc[t] = "starting" /\ started \subseteq started'
        /\ w = "RUNNING" => started' = started \cup {at[t]}
        /\ w = "FAILED" => started' = started /\ phase' = "FAILED"
    BY <1>2, <2>1 DEF ServiceStarted, ServiceFails, Resume, StartHookReturns, StartHookRaises
  <2>3. phase \notin Down /\ \A u \in Tasks : pc[u] \notin Rolling
    BY <2>2 DEF FollowInv, IInv, StartOrder, WhoMayBeWhere, Down, Rolling
  <2>4. inside[t] \in {0, at[t]}
    BY <1>t, <2>2 DEF ServiceInv, ServiceTypeOK, Free, Outcomes
  <2>5. w \in ServiceState \ BusyState
    BY DEF ServiceState, BusyState
  <2>6. Between(t, Left(t, w))
    BY <1>t, <2>5, LeftIsBetween
  <2>7. \A u \in Tasks \ {t} : pc'[u] = pc[u] /\ at'[u] = at[u]
    BY <1>t, <2>2, OneMoves
  <2>8. ASSUME NEW i \in Services \ touched
        PROVE  /\ EntryIs(i, Left(t, w)[i], phase', started')
               /\ Left(t, w)[i] = "FAILED" => i = inside[t]
    <3>1. EntryOf(i) /\ i \in Hooks /\ i # 0 /\ state[i] # "plain"
      BY <1>t DEF FollowInv, Services
    <3>2. state[i] \notin {"STOPPED", "FAILED"} /\ (i \in started <=> state[i] = "RUNNING")
      BY <2>3, <3>1 DEF EntryOf, EntryIs
    <3>3. CASE w = "RUNNING"
      <4>1. Left(t, w)[i] \notin {"STOPPED", "FAILED"}
        BY <1>l, <3>1, <3>2, <3>3
      <4>2. Left(t, w)[i] = "RUNNING" <=> i \in started'
        BY <1>l, <2>1, <2>2, <2>4, <3>1, <3>2, <3>3
      <4> QED
        BY <4>1, <4>2 DEF EntryIs
    <3>4. CASE w = "FAILED"
      <4>1. Left(t, w)[i] = IF i = inside[t] THEN "FAILED" ELSE state[i]
        BY <1>l, <3>1, <3>4
      <4>2. phase' \in Down
        BY <2>2, <3>4 DEF Down
      <4> QED
        BY <2>2, <3>2, <3>4, <4>1, <4>2 DEF EntryIs
    <3> QED
      BY <3>3, <3>4
  <2>b. OneFailed(Left(t, w))
    BY <2>8 DEF OneFailed
  <2>9. \A i \in Hooks : Left(t, w)[i] = "plain" <=> state[i] = "plain"
    BY <1>l, <1>p, <2>5
  <2> QED
    BY <1>l, <2>1, <2>2, <2>3, <2>6, <2>7, <2>8, <2>9, <2>b, EntersFollow
<1>3. CASE ServiceStopped(t)
  <2>1. /\ Enters(t, Left(t, "STOPPED")) /\ Resume(t)
        /\ UNCHANGED <<stoppable, touched>>
        /\ pc[t] \in Rolling /\ started' = started \ {at[t]}
        /\ phase' \in {phase, "STOPPED"}
    BY <1>3 DEF ServiceStopped, Resume, StopHookEnds
  <2>2. phase \in Down /\ phase' \in Down
    BY <2>1 DEF FollowInv, IInv, WhoMayBeWhere, Down, Rolling
  <2>3. inside[t] \in {0, at[t]}
    BY <1>t, <2>1 DEF ServiceInv, ServiceTypeOK, Free, Outcomes, Rolling
  <2>4. "STOPPED" \in ServiceState \ BusyState
    BY DEF ServiceState, BusyState
  <2>5. Between(t, Left(t, "STOPPED"))
    BY <1>t, <2>4, LeftIsBetween
  <2>6. \A u \in Tasks \ {t} : pc'[u] = pc[u] /\ at'[u] = at[u]
    BY <1>t, <2>1, OneMoves
  <2>7. \A k \in Owed(started)' : k \in Owed(started) /\ k < at[t]
    <3>1. \A k \in Owed(started)' : k \in Owed(started) /\ k # at[t]
      BY <2>1 DEF Owed
    <3>2. \A k \in Owed(started) : k =< at[t]
      BY <2>1 DEF FollowInv, IInv, StopOrder
    <3>3. \A k \in Owed(started) : k \in Nat
      BY <1>t DEF TypeOK, Owed
    <3>4. at[t] \in Nat
      BY <1>t DEF TypeOK
    <3> QED
      BY <3>1, <3>2, <3>3, <3>4
  <2>8. ASSUME NEW i \in Services \ touched
        PROVE  /\ EntryIs(i, Left(t, "STOPPED")[i], phase', started')
               /\ Left(t, "STOPPED")[i] = "FAILED" => state[i] = "FAILED"
    <3>1. EntryOf(i) /\ i \in Hooks /\ i # 0
      BY <1>t DEF FollowInv, Services
    <3>2. CASE i = inside[t]
      <4>1. Left(t, "STOPPED")[i] = "STOPPED" /\ i = at[t]
        BY <1>l, <2>3, <3>1, <3>2
      <4>2. \A k \in Owed(started') : k < i
        BY <2>1, <2>7, <4>1 DEF Owed
      <4> QED
        BY <2>2, <4>1, <4>2 DEF EntryIs
    <3>3. CASE i # inside[t]
      <4>1. Left(t, "STOPPED")[i] = state[i]
        BY <1>l, <3>1, <3>3
      <4>2. state[i] = "RUNNING" => i # at[t]
        BY <1>t, <2>1 DEF CallerOf, Managed
      <4>3. \A k \in Owed(started') : k \in Owed(started)
        BY <2>1 DEF Owed
      <4> QED
        BY <2>1, <2>2, <3>1, <4>1, <4>2, <4>3 DEF EntryOf, EntryIs
    <3> QED
      BY <3>2, <3>3
  <2>b. OneFailed(Left(t, "STOPPED"))
    BY <2>8 DEF OneFailed, FollowInv
  <2>9. \A i \in Hooks : Left(t, "STOPPED")[i] = "plain" <=> state[i] = "plain"
    BY <1>l, <1>p, <2>4
  <2>10. ASSUME NEW u \in Tasks \ {t}, pc[u] \in Rolling, Managed(at[u])
         PROVE  Left(t, "STOPPED")[at[u]] # "RUNNING"
    <3>1. state[at[u]] # "RUNNING" /\ at[u] \in Hooks
      BY <2>10 DEF FollowInv, CallerOf, Managed, Services
    <3> QED
      BY <1>l, <3>1
  <2>11. \A u \in Tasks \ {t} :
            inside[u] # 0 => Left(t, "STOPPED")[inside[u]] = state[inside[u]]
    BY <1>l
  <2> DEFINE S == Left(t, "STOPPED")
  <2>12. Between(t, S) /\ Enters(t, S) /\ UNCHANGED <<stoppable, touched>>
    BY <2>1, <2>5
  <2> HIDE DEF S
  <2> QED
    BY <2>6, <2>8, <2>9, <2>10, <2>11, <2>12, <2>b, EntersFollow DEF S
<1>4. CASE ~Direct(t) /\ ServiceAdd(t)
  <2>1. /\ Add(t) /\ Free(t) /\ inside[t] = 0 /\ UNCHANGED <<started, phase, inside, touched>>
        /\ pc'[t] = "idle" /\ phase = "CREATED" /\ started = {}
        /\ \A u \in Tasks \ {t} : pc'[u] = pc[u] /\ at'[u] = at[u]
    BY <1>4, <1>t, OneMoves DEF ServiceAdd, Direct, Add, Call, Goto, TypeOK,
                                FollowInv, IInv, WhoMayBeWhere
  <2>2. \A u \in Tasks : pc[u] \in Outcomes
    BY <1>t, <2>1 DEF FollowInv, IInv, StartOrder, WhoMayBeWhere, TypeOK, Rolling
  <2>3. PICK v \in {"plain", "CREATED"} : state' = Append(state, v)
    BY <1>4 DEF ServiceAdd
  <2>4. \A u \in Tasks : pc'[u] \in Outcomes
    BY <2>1, <2>2 DEF Outcomes
  <2>5. \A i \in Services' : state'[i] = "CREATED" \/ (i \in Services /\ state'[i] = state[i])
    <3>1. /\ Len(stoppable') = Len(stoppable) + 1 /\ Len(state) = Len(stoppable)
          /\ state \in Seq(ServiceState \cup {"plain"})
      BY <1>t, <2>1 DEF Add, TypeOK, ServiceInv, ServiceTypeOK
    <3>2. /\ state'[Len(stoppable) + 1] = v
          /\ \A i \in Hooks : state'[i] = state[i]
      BY <1>t, <2>3, <3>1 DEF ServiceState
    <3>3. Hooks' = Hooks \cup {Len(stoppable) + 1}
      BY <1>t, <3>1 DEF Hooks
    <3> QED
      BY <3>2, <3>3 DEF Services
  <2>6. \A i \in (Services \ touched)' : EntryOf(i)'
    <3>1. ASSUME NEW i \in (Services \ touched)', i \in Services, state'[i] = state[i]
          PROVE  EntryOf(i)'
      BY <2>1, <3>1 DEF FollowInv, EntryOf, EntryIs, Down, Owed
    <3>2. ASSUME NEW i \in (Services \ touched)', state'[i] = "CREATED"
          PROVE  EntryOf(i)'
      BY <2>1, <3>2 DEF EntryOf, EntryIs
    <3> QED
      BY <2>5, <3>1, <3>2
  <2>b. OneFailed(state)'
    BY <2>1, <2>5 DEF FollowInv, OneFailed
  <2>7. \A u \in Tasks : CallerOf(u)'
    BY <2>1, <2>2, <2>4 DEF FollowInv, CallerOf, Free, Outcomes, Rolling
  <2> QED
    BY <2>6, <2>7, <2>b DEF FollowInv
<1>5. CASE DirectCall(t)
  <2>1. PICK i \in Services, w \in BusyState :
           /\ state[i] \notin BusyState
           /\ state' = [state EXCEPT ![i] = w]
           /\ inside' = [inside EXCEPT ![t] = i]
           /\ touched' = touched \cup {i}
    <3>1. PICK i \in Services, v \in {"starting", "stopping"} :
             /\ state[i] \in Admits[v]
             /\ state' = [state EXCEPT ![i] =
                             IF v = "starting" THEN "STARTING" ELSE "STOPPING"]
             /\ inside' = [inside EXCEPT ![t] = i]
             /\ touched' = touched \cup {i}
      BY <1>5 DEF DirectCall
    <3>2. state[i] \notin BusyState
      BY <3>1 DEF Admits, BusyState
    <3>3. PICK w \in BusyState : w = IF v = "starting" THEN "STARTING" ELSE "STOPPING"
      BY DEF BusyState
    <3> QED
      BY <3>1, <3>2, <3>3
  <2>2. Free(t) /\ inside[t] = 0 /\ UNCHANGED <<phase, stoppable, started, pc, at>>
    BY <1>5 DEF DirectCall, vars
  <2>3. /\ \A k \in Hooks : state'[k] = IF k = i THEN w ELSE state[k]
        /\ \A u \in Tasks : inside'[u] = IF u = t THEN i ELSE inside[u]
    BY <1>t, <2>1 DEF Services
  <2>4. Hooks' = Hooks /\ Services' = Services
    BY <2>1, <2>2, <2>3 DEF Hooks, Services, BusyState
  <2>5. ASSUME NEW k \in Services \ touched, k # i PROVE EntryOf(k)'
    <3>1. EntryOf(k) /\ state'[k] = state[k]
      BY <2>2, <2>3, <2>5 DEF FollowInv, Services
    <3> QED
      BY <2>2, <3>1 DEF EntryOf, EntryIs, Owed
  <2>b. OneFailed(state)'
    <3>1. \A k \in (Services \ touched)' : k \in Services \ touched /\ state'[k] = state[k]
      BY <2>1, <2>3, <2>4 DEF Services
    <3> QED
      BY <3>1 DEF FollowInv, OneFailed
  <2>6. ASSUME NEW u \in Tasks PROVE CallerOf(u)'
    <3>1. CallerOf(u) /\ UNCHANGED <<pc[u], at[u], Free(u)>>
      BY <2>2 DEF FollowInv, Free
    <3>2. Free(u)' /\ inside'[u] # 0 => inside'[u] \in touched'
      BY <2>1, <2>3, <3>1 DEF CallerOf
    <3>3. ~Free(u)' /\ inside'[u] # 0 =>
             state'[inside'[u]] = IF pc'[u] = "starting" THEN "STARTING" ELSE "STOPPING"
      <4>1. ~Free(u)' => u # t /\ inside'[u] = inside[u]
        BY <2>2, <2>3, <3>1
      <4>2. inside[u] # 0 => inside[u] \in Hooks /\ inside[u] # i
        BY <1>i, <2>1 DEF Services
      <4> QED
        BY <2>3, <3>1, <4>1, <4>2 DEF CallerOf
    <3>4. pc'[u] \in Rolling /\ Managed(at[u])' => state'[at'[u]] # "RUNNING"
      <4>1. Managed(at[u])' => Managed(at[u]) /\ at[u] # i /\ at[u] \in Hooks
        BY <2>1, <2>4, <3>1 DEF Managed, Services
      <4> QED
        BY <2>3, <3>1, <4>1 DEF CallerOf
    <3> QED
      BY <3>2, <3>3, <3>4 DEF CallerOf
  <2> QED
    BY <2>1, <2>4, <2>5, <2>6, <2>b DEF FollowInv
<1>6. CASE DirectEnds(t)
  <2>1. PICK w \in ServiceState \ BusyState : state' = Left(t, w)
    BY <1>6 DEF DirectEnds, ServiceState, BusyState
  <2>2. /\ Free(t) /\ UNCHANGED <<vars, touched>>
        /\ inside' = [inside EXCEPT ![t] = 0] /\ inside[t] \in touched
    BY <1>6, <1>t DEF DirectEnds, Direct, CallerOf
  <2>3. Between(t, Left(t, w))
    BY <1>t, LeftIsBetween
  <2>4. /\ UNCHANGED <<phase, stoppable, started, pc, at>> /\ at'[t] = 0
    BY <1>t, <2>2 DEF TypeOK, vars, Free
  <2>5. Enters(t, Left(t, w))
    BY <2>1, <2>2, <2>4 DEF Enters
  <2>6. \A i \in Hooks \ touched : Left(t, w)[i] = state[i]
    BY <1>l, <2>2
  <2>7. /\ \A i \in Services \ touched : EntryIs(i, Left(t, w)[i], phase', started')
        /\ OneFailed(Left(t, w))
    BY <2>4, <2>6 DEF FollowInv, EntryOf, OneFailed, Services
  <2>8. \A i \in Hooks : Left(t, w)[i] = "plain" <=> state[i] = "plain"
    BY <1>l, <1>p
  <2>9. \A u \in Tasks \ {t} :
           pc[u] \in Rolling /\ Managed(at[u]) => Left(t, w)[at[u]] # "RUNNING"
    BY <2>6 DEF FollowInv, CallerOf, Managed, Services
  <2> QED
    BY <1>l, <2>2, <2>3, <2>4, <2>5, <2>7, <2>8, <2>9, EntersFollow
<1> QED
  BY <1>1, <1>2, <1>3, <1>4, <1>5, <1>6 DEF ServiceResume

\* The invariant holds in every reachable state.
THEOREM ServicesInvariant == ServiceSpec => []FollowInv
<1>1. ServiceSpec => []IInv
  BY Invariant, ServicesRefineManager, PTL
<1>2. ServiceSpec => []ServiceInv
  BY ServicesGuarded
<1>3. ASSUME ServiceInit, IInv, ServiceInv PROVE FollowInv
  BY <1>3 DEF ServiceInit, Init, FollowInv, OneFailed, CallerOf, Services, Hooks, Rolling
<1>4. ASSUME FollowInv, (IInv /\ ServiceInv)', [ServiceNext]_serviceVars PROVE FollowInv'
  <2>1. ASSUME UNCHANGED serviceVars PROVE FollowInv'
    BY <1>4, <2>1 DEF serviceVars, vars, FollowInv, EntryOf, EntryIs, OneFailed, CallerOf,
                      Managed, Services, Hooks, Owed, Free
  <2> QED
    BY <1>4, <2>1, FollowStep
<1> QED
  BY <1>1, <1>2, <1>3, <1>4, PTL DEF ServiceSpec

\* Whichever services fail to start, whoever stops the lifecycle and whatever
\* clients do to other services: one that only the manager calls is RUNNING with
\* its lifecycle, and never left RUNNING or half way when that is over.
THEOREM ServicesFollowLifecycle == ServiceSpec => []ServicesFollow
BY ServicesInvariant, ShutsDownOnce, ServicesRefineManager, FollowWhenOver, PTL

\* It is taken down only when every such service above it is on its way down.
THEOREM ServicesReverse == ServiceSpec => []ServicesStopInReverse
BY ServicesInvariant, FollowInReverse, PTL

=============================================================================
