----------------------- MODULE LifecycleManagerProofs -----------------------
(***************************************************************************)
(* Proofs about LifecycleManager, for any set of tasks and any number of   *)
(* hooks: its inductive invariant, the safety properties that follow from  *)
(* it, and that it implements OrderedLifecycle.                            *)
(***************************************************************************)
EXTENDS LifecycleManager, TLAPS

(***************************************************************************)
(* Lemmas about the walk down the entries.                                 *)
(***************************************************************************)

\* The hook that a rollback calls next is a started one with a stop function,
\* below the point it has reached, and nothing it passes over is owed a stop.
LEMMA NextStop ==
    ASSUME NEW t, NEW w, NEW n \in Nat, NEW S \in SUBSET Hooks,
           stoppable \in Seq(BOOLEAN),
           \A k \in Owed(S) : k < n,
           CallsNextStop(t, w, n, S)
    PROVE  \E i \in Owed(S) : /\ i \in Hooks
                              /\ Goto(t, w, i)
                              /\ \A k \in Owed(S) : k =< i
  BY DEF CallsNextStop, Owed, Hooks

\* When the walk runs off the end, nothing is owed a stop any more.
LEMMA NothingOwed ==
    ASSUME NEW n \in Nat, NEW S \in SUBSET Nat,
           \A k \in Owed(S) : k < n,
           NoStopBelow(n, S)
    PROVE  Owed(S) = {}
<1> SUFFICES ASSUME NEW k \in Owed(S)
             PROVE  FALSE
  OBVIOUS
<1>1. k \in Nat
  BY DEF Owed
<1>2. k < n /\ k >= n
  BY DEF NoStopBelow
<1> QED
  BY <1>1, <1>2

(***************************************************************************)
(* Type correctness.                                                       *)
(***************************************************************************)

\* Moving one task, to a hook that exists or out of the manager, keeps the
\* types of pc and at; the list of entries may have grown meanwhile.
LEMMA GotoType ==
    ASSUME TypeOK, NEW t \in Tasks, NEW i,
           NEW w \in Outcomes \cup {"starting"} \cup Rolling,
           Goto(t, w, i),
           i \in 0..Len(stoppable)', w \in Outcomes <=> i = 0,
           Len(stoppable)' \in Nat, Len(stoppable) =< Len(stoppable)'
    PROVE  /\ pc' \in [Tasks -> Outcomes \cup {"starting"} \cup Rolling]
           /\ at' \in [Tasks -> 0..Len(stoppable)']
           /\ \A u \in Tasks : pc'[u] \in Outcomes <=> at'[u] = 0
<1>1. Len(stoppable) \in Nat
  BY DEF TypeOK
<1>2. pc' \in [Tasks -> Outcomes \cup {"starting"} \cup Rolling]
  BY DEF TypeOK, Goto
<1>3. at' \in [Tasks -> 0..Len(stoppable)']
  BY <1>1 DEF TypeOK, Goto
<1>4. \A u \in Tasks : pc'[u] \in Outcomes <=> at'[u] = 0
  BY DEF TypeOK, Goto
<1> QED
  BY <1>2, <1>3, <1>4

\* A task that waits in a hook waits in one of the registered hooks.
LEMMA AwaitsAHook ==
    ASSUME TypeOK, NEW t \in Tasks, pc[t] \notin Outcomes
    PROVE  at[t] \in Hooks /\ Len(stoppable) \in Nat
<1>1. Len(stoppable) \in Nat /\ at[t] \in 0..Len(stoppable) /\ at[t] # 0
  BY DEF TypeOK
<1> QED
  BY <1>1 DEF Hooks

\* Every step keeps the type invariant.
LEMMA TypeStep ==
    ASSUME TypeOK, NEW t \in Tasks, Call(t) \/ Resume(t)
    PROVE  TypeOK'
<1> USE LifecycleAssumption
<1>a. Len(stoppable) \in Nat /\ started \in SUBSET Hooks
  BY DEF TypeOK
<1>1. CASE Add(t)
  <2>1. PICK b \in BOOLEAN : stoppable' = Append(stoppable, b)
    BY <1>1 DEF Add
  <2>2. stoppable' \in Seq(BOOLEAN) /\ Len(stoppable') = Len(stoppable) + 1
    BY <2>1 DEF TypeOK
  <2>3. Len(stoppable') =< MaxHooks /\ started' \subseteq Hooks'
    BY <1>1, <1>a, <2>2 DEF Add, Hooks
  <2>4. Goto(t, "idle", 0)
    BY <1>1 DEF Add
  <2>5. /\ pc' \in [Tasks -> Outcomes \cup {"starting"} \cup Rolling]
        /\ at' \in [Tasks -> 0..Len(stoppable)']
        /\ \A u \in Tasks : pc'[u] \in Outcomes <=> at'[u] = 0
    BY <1>a, <2>2, <2>4, GotoType DEF Outcomes
  <2> QED
    BY <1>1, <2>2, <2>3, <2>5 DEF Add, TypeOK
<1>b. ASSUME UNCHANGED stoppable, started' \subseteq Hooks, phase' \in Phases,
             NEW w \in Outcomes \cup {"starting"} \cup Rolling,
             NEW i \in 0..Len(stoppable), w \in Outcomes <=> i = 0,
             Goto(t, w, i)
      PROVE  TypeOK'
  <2>1. /\ pc' \in [Tasks -> Outcomes \cup {"starting"} \cup Rolling]
        /\ at' \in [Tasks -> 0..Len(stoppable)']
        /\ \A u \in Tasks : pc'[u] \in Outcomes <=> at'[u] = 0
    BY <1>a, <1>b, GotoType
  <2> QED
    BY <1>b, <2>1 DEF TypeOK, Hooks
<1>c. ASSUME NEW w \in Rolling, NEW n, NEW S \in SUBSET Hooks,
             CallsNextStop(t, w, n, S), UNCHANGED stoppable,
             started' \subseteq Hooks, phase' \in Phases
      PROVE  TypeOK'
  <2>1. PICK i \in Owed(S) : Goto(t, w, i)
    BY <1>c DEF CallsNextStop
  <2>2. i \in 1..Len(stoppable)
    BY DEF Owed, Hooks
  <2>3. i \in 0..Len(stoppable) /\ i # 0 /\ w \notin Outcomes
    BY <1>a, <2>2 DEF Rolling, Outcomes
  <2> QED
    BY <1>b, <1>c, <2>1, <2>3 DEF Rolling
<1>2. CASE AddUnnamed(t) \/ Refused(t) \/ StopRefused(t)
  BY <1>2, <1>a, <1>b DEF AddUnnamed, Refused, StopRefused, TypeOK, Outcomes
<1>3. CASE Start(t)
  <2>1. CASE Hooks = {}
    BY <1>3, <1>a, <1>b, <2>1 DEF Start, Phases, Outcomes
  <2>2. CASE Hooks # {}
    <3>1. 1 \in 0..Len(stoppable)
      BY <1>a, <2>2 DEF Hooks
    <3> QED
      BY <1>3, <1>a, <1>b, <2>2, <3>1 DEF Start, Phases, Outcomes
  <2> QED
    BY <2>1, <2>2
<1>4. CASE StartHookReturns(t)
  <2>1. at[t] \in 1..Len(stoppable)
    BY <1>4, AwaitsAHook DEF StartHookReturns, Outcomes, Hooks
  <2>2. started' \subseteq Hooks
    BY <1>4, <1>a, <2>1 DEF StartHookReturns, Hooks
  <2>3. CASE at[t] = Len(stoppable)
    BY <1>4, <1>a, <1>b, <2>2, <2>3 DEF StartHookReturns, Phases, Outcomes
  <2>4. CASE at[t] < Len(stoppable)
    <3>1. at[t] + 1 \in 0..Len(stoppable) /\ at[t] + 1 # 0
      BY <1>a, <2>1, <2>4
    <3> QED
      BY <1>4, <1>b, <2>2, <2>4, <3>1 DEF StartHookReturns, TypeOK, Outcomes
  <2> QED
    BY <1>a, <2>1, <2>3, <2>4
<1>5. CASE StartHookRaises(t)
  <2>1. CASE CallsNextStop(t, "rollback", Len(stoppable) + 1, started)
    BY <1>5, <1>a, <1>c, <2>1 DEF StartHookRaises, Phases, Rolling
  <2>2. CASE Goto(t, "raised", 0)
    BY <1>5, <1>a, <1>b, <2>2 DEF StartHookRaises, Phases, Outcomes
  <2> QED
    BY <1>5, <2>1, <2>2 DEF StartHookRaises
<1>6. CASE StopIsNoop(t)
  BY <1>6, <1>a, <1>b DEF StopIsNoop, TypeOK, Outcomes
<1>7. CASE Stop(t)
  <2>1. CASE CallsNextStop(t, "stopping", Len(stoppable) + 1, started)
    BY <1>7, <1>a, <1>c, <2>1 DEF Stop, Phases, Rolling
  <2>2. CASE Goto(t, "idle", 0)
    BY <1>7, <1>a, <1>b, <2>2 DEF Stop, Phases, Outcomes
  <2> QED
    BY <1>7, <2>1, <2>2 DEF Stop
<1>8. CASE StopHookEnds(t)
  <2>1. started' \in SUBSET Hooks /\ phase' \in Phases
    BY <1>8, <1>a DEF StopHookEnds, TypeOK, Phases
  <2>2. CASE CallsNextStop(t, pc[t], at[t], started')
    BY <1>8, <1>c, <2>1, <2>2 DEF StopHookEnds
  <2>3. CASE Goto(t, "raised", 0)
    BY <1>8, <1>a, <1>b, <2>1, <2>3 DEF StopHookEnds, Outcomes
  <2>4. CASE Goto(t, "idle", 0)
    BY <1>8, <1>a, <1>b, <2>1, <2>4 DEF StopHookEnds, Outcomes
  <2> QED
    BY <1>8, <2>2, <2>3, <2>4 DEF StopHookEnds
<1> QED
  BY <1>1, <1>2, <1>3, <1>4, <1>5, <1>6, <1>7, <1>8 DEF Call, Resume

\* Type correctness: LifecycleManager never leaves its types, whatever the
\* tasks call and however their hooks end.
THEOREM TypeCorrect == Spec => []TypeOK
<1>1. Init => TypeOK
  BY LifecycleAssumption DEF Init, TypeOK, Phases, Hooks, Outcomes
<1>2. TypeOK /\ [Next]_vars => TypeOK'
  <2>1. ASSUME TypeOK, UNCHANGED vars PROVE TypeOK'
    BY <2>1 DEF vars, TypeOK, Hooks
  <2> QED
    BY <2>1, TypeStep DEF Next
<1> QED
  BY <1>1, <1>2, PTL DEF Spec

(***************************************************************************)
(* The inductive invariant.                                                *)
(***************************************************************************)

\* The three actions that walk down the entries to a next stop hook keep the
\* order: nothing the walk passes over, and nothing above, is owed a stop.
LEMMA WalkStep ==
    ASSUME TypeOK, TypeOK', StopOrder, NEW t \in Tasks,
           NEW w \in Rolling, NEW n \in Nat,
           UNCHANGED stoppable, started' \subseteq started,
           \A k \in Owed(started') : k < n,
           CallsNextStop(t, w, n, started')
    PROVE  StopOrder'
<1>1. PICK i \in Owed(started') : /\ Goto(t, w, i)
                                  /\ \A k \in Owed(started') : k =< i
  BY NextStop DEF TypeOK, Hooks
<1>2. at' = [at EXCEPT ![t] = i] /\ pc' = [pc EXCEPT ![t] = w]
  BY <1>1 DEF Goto
<1>3. Owed(started)' = Owed(started')
  BY DEF Owed
<1>4. Owed(started') \subseteq Owed(started)
  BY DEF Owed
<1>5. ASSUME NEW u \in Tasks, pc'[u] \in Rolling
      PROVE  stoppable'[at'[u]] /\ \A k \in Owed(started)' : k =< at'[u]
  <2>1. CASE u = t
    <3>1. at'[u] = i
      BY <1>2, <2>1 DEF TypeOK
    <3>2. stoppable[i]
      BY DEF Owed
    <3> QED
      BY <1>1, <1>3, <3>1, <3>2
  <2>2. CASE u # t
    <3>1. at'[u] = at[u] /\ pc[u] \in Rolling
      BY <1>2, <1>5, <2>2 DEF TypeOK
    <3> QED
      BY <1>3, <1>4, <3>1 DEF StopOrder
  <2> QED
    BY <2>1, <2>2
<1> QED
  BY <1>5 DEF StopOrder

\* An action that puts its task out of any stop hook and stops nothing keeps
\* the order for the tasks that remain in one.
LEMMA LeaveStep ==
    ASSUME TypeOK, StopOrder, NEW t \in Tasks, NEW w, w \notin Rolling, NEW i,
           Goto(t, w, i), UNCHANGED stoppable, started' \subseteq started
    PROVE  StopOrder'
<1>1. at' = [at EXCEPT ![t] = i] /\ pc' = [pc EXCEPT ![t] = w]
  BY DEF Goto
<1>2. \A u \in Tasks : pc'[u] \in Rolling => pc[u] \in Rolling /\ at'[u] = at[u]
  BY <1>1 DEF TypeOK
<1> QED
  BY <1>2 DEF StopOrder, Owed

\* Every step keeps the inductive invariant.
LEMMA InvStep ==
    ASSUME IInv, NEW t \in Tasks, Call(t) \/ Resume(t)
    PROVE  IInv'
<1> USE DEF IInv
<1>t. TypeOK'
  BY TypeStep
<1>a. Len(stoppable) \in Nat /\ started \in SUBSET Hooks /\ Hooks \in SUBSET Nat
  BY DEF TypeOK, Hooks
<1>b. \A S \in SUBSET Hooks : \A k \in Owed(S) : k < Len(stoppable) + 1
  BY <1>a DEF Owed, Hooks
<1>1. CASE Add(t)
  <2>1. /\ phase = "CREATED" /\ phase' = "CREATED"
        /\ started = {} /\ started' = {}
        /\ pc' = [pc EXCEPT ![t] = "idle"]
    BY <1>1 DEF Add, WhoMayBeWhere, Goto
  <2>2. \A u \in Tasks : pc'[u] \in Outcomes
    BY <2>1 DEF WhoMayBeWhere, StartOrder, TypeOK, Outcomes, Rolling
  <2>3. StartOrder' /\ StopOrder' /\ DownWhenOver' /\ WhoMayBeWhere'
    BY <2>1, <2>2 DEF StartOrder, StopOrder, DownWhenOver, WhoMayBeWhere,
                      Outcomes, Rolling
  <2> QED
    BY <1>t, <2>3
<1>2. CASE AddUnnamed(t) \/ Refused(t) \/ StopRefused(t) \/ StopIsNoop(t)
  <2>1. PICK w \in Outcomes : Goto(t, w, 0)
    BY <1>2 DEF AddUnnamed, Refused, StopRefused, StopIsNoop, Outcomes
  <2>2. Free(t) /\ UNCHANGED <<phase, stoppable, started>>
    BY <1>2 DEF AddUnnamed, Refused, StopRefused, StopIsNoop
  <2>3. pc' = [pc EXCEPT ![t] = w] /\ at' = [at EXCEPT ![t] = 0]
    BY <2>1 DEF Goto
  <2>4. \A u \in Tasks : IF u = t THEN pc'[u] = w /\ pc[u] \in Outcomes
                                  ELSE pc'[u] = pc[u] /\ at'[u] = at[u]
    BY <2>2, <2>3 DEF TypeOK, Free
  <2>5. StopOrder'
    BY <2>1, <2>2, LeaveStep DEF Outcomes, Rolling
  <2>6. StartOrder'
    BY <2>2, <2>4 DEF StartOrder, Outcomes, Hooks
  <2>7. DownWhenOver'
    BY <2>2, <2>4 DEF DownWhenOver, Outcomes, Rolling, Owed
  <2>8. WhoMayBeWhere'
    BY <2>2, <2>4 DEF WhoMayBeWhere, Outcomes
  <2> QED
    BY <1>t, <2>5, <2>6, <2>7, <2>8
<1>3. CASE Start(t)
  <2>1. /\ phase = "CREATED" /\ started = {} /\ started' = {}
        /\ stoppable' = stoppable
    BY <1>3 DEF Start, WhoMayBeWhere
  <2>2. \A u \in Tasks : pc[u] \in Outcomes
    BY <2>1 DEF WhoMayBeWhere, StartOrder, TypeOK, Outcomes, Rolling
  <2>3. CASE Hooks = {}
    <3>1. phase' = "RUNNING" /\ pc' = [pc EXCEPT ![t] = "idle"]
      BY <1>3, <2>3 DEF Start, Goto
    <3>2. \A u \in Tasks : pc'[u] \in Outcomes
      BY <2>2, <3>1 DEF TypeOK, Outcomes
    <3> QED
      BY <1>t, <2>1, <2>3, <3>1, <3>2
         DEF StartOrder, StopOrder, DownWhenOver, WhoMayBeWhere, Outcomes,
             Rolling, Hooks
  <2>4. CASE Hooks # {}
    <3>1. /\ phase' = "STARTING" /\ pc' = [pc EXCEPT ![t] = "starting"]
          /\ at' = [at EXCEPT ![t] = 1]
      BY <1>3, <2>4 DEF Start, Goto
    <3>2. \A u \in Tasks : IF u = t THEN pc'[u] = "starting" /\ at'[u] = 1
                                    ELSE pc'[u] \in Outcomes
      BY <2>2, <3>1 DEF TypeOK
    <3>3. 1..(1 - 1) = {}
      OBVIOUS
    <3> QED
      BY <1>t, <2>1, <3>1, <3>2, <3>3
         DEF StartOrder, StopOrder, DownWhenOver, WhoMayBeWhere, Outcomes,
             Rolling, Hooks
  <2> QED
    BY <2>3, <2>4
<1>4. CASE StartHookReturns(t)
  <2>1. /\ phase = "STARTING" /\ started = 1..(at[t] - 1)
        /\ started' = started \cup {at[t]} /\ stoppable' = stoppable
        /\ at[t] \in 1..Len(stoppable)
    BY <1>4, AwaitsAHook DEF StartHookReturns, StartOrder, Outcomes, Hooks
  <2>2. started' = 1..at[t]
    BY <1>a, <2>1
  <2>3. \A u \in Tasks : u # t => pc[u] \in Outcomes
    BY <1>4, <2>1 DEF StartHookReturns, WhoMayBeWhere, TypeOK, Rolling
  <2>4. CASE at[t] = Len(stoppable)
    <3>1. phase' = "RUNNING" /\ pc' = [pc EXCEPT ![t] = "idle"]
      BY <1>4, <1>a, <2>4 DEF StartHookReturns, Goto
    <3>2. \A u \in Tasks : pc'[u] \in Outcomes
      BY <2>3, <3>1 DEF TypeOK, Outcomes
    <3> QED
      BY <1>t, <2>1, <2>2, <2>4, <3>1, <3>2
         DEF StartOrder, StopOrder, DownWhenOver, WhoMayBeWhere, Outcomes,
             Rolling, Hooks
  <2>5. CASE at[t] < Len(stoppable)
    <3>1. /\ phase' = "STARTING" /\ pc' = [pc EXCEPT ![t] = "starting"]
          /\ at' = [at EXCEPT ![t] = at[t] + 1]
      BY <1>4, <1>a, <2>1, <2>5 DEF StartHookReturns, Goto
    <3>2. \A u \in Tasks : IF u = t THEN pc'[u] = "starting" /\ at'[u] = at[t] + 1
                                    ELSE pc'[u] \in Outcomes
      BY <2>3, <3>1 DEF TypeOK
    <3>3. (at[t] + 1) - 1 = at[t]
      BY <1>a, <2>1
    <3> QED
      BY <1>t, <2>1, <2>2, <3>1, <3>2, <3>3
         DEF StartOrder, StopOrder, DownWhenOver, WhoMayBeWhere, Outcomes, Rolling
  <2> QED
    BY <1>a, <2>1, <2>4, <2>5
<1>5. CASE StartHookRaises(t)
  <2>1. /\ phase = "STARTING" /\ phase' = "FAILED"
        /\ started' = started /\ stoppable' = stoppable
    BY <1>5 DEF StartHookRaises, StartOrder
  <2>2. \A u \in Tasks : u # t => pc[u] \in Outcomes
    BY <1>5, <2>1 DEF StartHookRaises, WhoMayBeWhere, TypeOK, Rolling
  <2>3. CASE CallsNextStop(t, "rollback", Len(stoppable) + 1, started)
    <3>1. StopOrder'
      BY <1>t, <1>a, <1>b, <2>1, <2>3, WalkStep DEF Rolling
    <3>2. pc' = [pc EXCEPT ![t] = "rollback"]
      BY <2>3 DEF CallsNextStop, Goto
    <3>3. \A u \in Tasks : IF u = t THEN pc'[u] = "rollback" ELSE pc'[u] \in Outcomes
      BY <2>2, <3>2 DEF TypeOK
    <3> QED
      BY <1>t, <2>1, <3>1, <3>3
         DEF StartOrder, DownWhenOver, WhoMayBeWhere, Outcomes, Rolling
  <2>4. CASE NoStopBelow(Len(stoppable) + 1, started) /\ Goto(t, "raised", 0)
    <3>1. StopOrder'
      BY <2>1, <2>4, LeaveStep DEF Rolling
    <3>2. Owed(started) = {}
      BY <1>a, <1>b, <2>4, NothingOwed
    <3>3. pc' = [pc EXCEPT ![t] = "raised"]
      BY <2>4 DEF Goto
    <3>4. \A u \in Tasks : pc'[u] \in Outcomes
      BY <2>2, <3>3 DEF TypeOK, Outcomes
    <3> QED
      BY <1>t, <2>1, <3>1, <3>2, <3>4
         DEF StartOrder, DownWhenOver, WhoMayBeWhere, Outcomes, Rolling, Owed
  <2> QED
    BY <1>5, <2>3, <2>4 DEF StartHookRaises
<1>6. CASE Stop(t)
  <2>1. /\ phase \in {"RUNNING", "FAILED"} /\ started' = started
        /\ stoppable' = stoppable
    BY <1>6 DEF Stop
  <2>2. \A u \in Tasks : pc[u] # "starting"
    BY <2>1 DEF StartOrder
  <2>3. CASE /\ CallsNextStop(t, "stopping", Len(stoppable) + 1, started)
             /\ phase' = "STOPPING"
    <3>1. StopOrder'
      BY <1>t, <1>a, <1>b, <2>1, <2>3, WalkStep DEF Rolling
    <3>2. pc' = [pc EXCEPT ![t] = "stopping"]
      BY <2>3 DEF CallsNextStop, Goto
    <3>3. \A u \in Tasks : pc'[u] # "starting"
      BY <2>2, <3>2 DEF TypeOK
    <3> QED
      BY <1>t, <2>1, <2>3, <3>1, <3>3
         DEF StartOrder, DownWhenOver, WhoMayBeWhere
  <2>4. CASE /\ NoStopBelow(Len(stoppable) + 1, started)
             /\ phase' = "STOPPED"
             /\ Goto(t, "idle", 0)
    <3>1. StopOrder'
      BY <2>1, <2>4, LeaveStep DEF Rolling
    <3>2. Owed(started) = {}
      BY <1>a, <1>b, <2>4, NothingOwed
    <3>3. pc' = [pc EXCEPT ![t] = "idle"]
      BY <2>4 DEF Goto
    <3>4. \A u \in Tasks : pc'[u] # "starting"
      BY <2>2, <3>3 DEF TypeOK
    <3> QED
      BY <1>t, <2>1, <2>4, <3>1, <3>2, <3>4
         DEF StartOrder, DownWhenOver, WhoMayBeWhere, Owed
  <2> QED
    BY <1>6, <2>3, <2>4 DEF Stop
<1>7. CASE StopHookEnds(t)
  <2>1. /\ pc[t] \in Rolling /\ started' = started \ {at[t]}
        /\ stoppable' = stoppable /\ at[t] \in Nat
    BY <1>7, <1>a, AwaitsAHook DEF StopHookEnds, Outcomes, Rolling
  <2>2. phase \in {"FAILED", "STOPPING", "STOPPED"}
    BY <2>1 DEF WhoMayBeWhere, Rolling
  <2>3. \A u \in Tasks : pc[u] # "starting"
    BY <2>2 DEF StartOrder
  <2>4. \A k \in Owed(started') : k \in Owed(started) /\ k < at[t]
    BY <1>a, <2>1 DEF StopOrder, Owed
  <2>5. CASE CallsNextStop(t, pc[t], at[t], started') /\ phase' = phase
    <3>1. StopOrder'
      BY <1>t, <2>1, <2>4, <2>5, WalkStep
    <3>2. pc' = [pc EXCEPT ![t] = pc[t]]
      BY <2>5 DEF CallsNextStop, Goto
    <3>3. pc' = pc
      BY <3>2 DEF TypeOK
    <3> QED
      BY <1>t, <2>1, <2>2, <2>3, <2>4, <2>5, <3>1, <3>3
         DEF StartOrder, DownWhenOver, WhoMayBeWhere, Owed
  <2>6. CASE NoStopBelow(at[t], started') /\ \E w \in Outcomes : Goto(t, w, 0)
    <3>1. PICK w \in Outcomes : Goto(t, w, 0)
      BY <2>6
    <3>2. phase' \in {phase, "STOPPED"}
      BY <1>7 DEF StopHookEnds
    <3>3. StopOrder'
      BY <2>1, <3>1, LeaveStep DEF Outcomes, Rolling
    <3>4. Owed(started') = {}
      BY <1>a, <2>1, <2>4, <2>6, NothingOwed
    <3>5. pc' = [pc EXCEPT ![t] = w]
      BY <3>1 DEF Goto
    <3>6. \A u \in Tasks : IF u = t THEN pc'[u] \in Outcomes ELSE pc'[u] = pc[u]
      BY <3>1, <3>5 DEF TypeOK
    <3>7. StartOrder'
      BY <2>2, <2>3, <3>2, <3>6 DEF StartOrder, Outcomes
    <3>8. DownWhenOver'
      BY <2>1, <3>4 DEF DownWhenOver, Owed
    <3>9. WhoMayBeWhere'
      <4>1. phase = "STOPPED" => phase' = "STOPPED"
        BY <3>2
      <4>2. \A u \in Tasks : pc'[u] # "starting"
        BY <2>3, <3>6 DEF Outcomes
      <4>3. phase' # "CREATED"
        BY <2>2, <3>2
      <4> QED
        BY <3>2, <3>6, <4>1, <4>2, <4>3 DEF WhoMayBeWhere, Outcomes
    <3> QED
      BY <1>t, <3>3, <3>7, <3>8, <3>9
  <2> QED
    BY <1>7, <2>5, <2>6 DEF StopHookEnds, Outcomes
<1> QED
  BY <1>1, <1>2, <1>3, <1>4, <1>5, <1>6, <1>7 DEF Call, Resume

\* The inductive invariant holds in every reachable state.
THEOREM Invariant == Spec => []IInv
<1>1. Init => IInv
  <2>1. Init => TypeOK
    BY LifecycleAssumption DEF Init, TypeOK, Phases, Hooks, Outcomes
  <2> QED
    BY <2>1 DEF Init, IInv, StartOrder, StopOrder, DownWhenOver, WhoMayBeWhere,
                Rolling
<1>2. IInv /\ [Next]_vars => IInv'
  <2>1. ASSUME IInv, UNCHANGED vars PROVE IInv'
    BY <2>1 DEF vars, IInv, TypeOK, StartOrder, StopOrder, DownWhenOver,
                WhoMayBeWhere, Hooks, Owed
  <2> QED
    BY <2>1, InvStep DEF Next
<1> QED
  BY <1>1, <1>2, PTL DEF Spec

\* Hooks start in registration order, and RUNNING means all are started.
THEOREM StartsInOrder == Spec => []StartOrder
BY Invariant, PTL DEF IInv

\* Stop hooks are called in reverse order, by every rollback there may be.
THEOREM StopsInReverse == Spec => []StopOrder
BY Invariant, PTL DEF IInv

\* A failed start() that has raised, and STOPPED, leave nothing to stop.
THEOREM NothingLeftUp == Spec => []DownWhenOver
BY Invariant, PTL DEF IInv

\* A lifecycle on its way up or down has a task that takes it there, and on its
\* way down just one: stop() is past its check in at most one task, and STOPPED
\* is set only by that one, when it is through.
InCharge ==
    /\ phase = "STARTING" => \E t \in Tasks : pc[t] = "starting"
    /\ phase = "STOPPING" <=> \E t \in Tasks : pc[t] = "stopping"
    /\ \A t, u \in Tasks : pc[t] = "stopping" /\ pc[u] = "stopping" => t = u

THEOREM ShutsDownOnce == Spec => []InCharge
<1>1. Init => InCharge
  BY DEF Init, InCharge
<1>2. ASSUME IInv, InCharge, [Next]_vars PROVE InCharge'
  <2>1. CASE UNCHANGED vars
    BY <1>2, <2>1 DEF vars, InCharge
  <2>2. ASSUME NEW t \in Tasks, Call(t) \/ Resume(t) PROVE InCharge'
    <3>1. PICK w, i : Goto(t, w, i)
      BY <2>2 DEF Call, Resume, Add, AddUnnamed, Start, Refused, Stop, StopIsNoop,
             StopRefused, StartHookReturns, StartHookRaises, StopHookEnds, CallsNextStop
    <3>2. \A u \in Tasks : pc'[u] = IF u = t THEN w ELSE pc[u]
      BY <1>2, <3>1 DEF Goto, IInv, TypeOK
    <3>3. CASE Add(t) \/ AddUnnamed(t) \/ Refused(t) \/ StopIsNoop(t) \/ StopRefused(t)
      <4>1. phase' = phase /\ pc[t] \in Outcomes /\ pc'[t] \in Outcomes
        BY <1>2, <3>3 DEF Add, AddUnnamed, Refused, StopIsNoop, StopRefused, Goto,
                          IInv, TypeOK, Outcomes, Free
      <4> QED
        BY <1>2, <3>2, <4>1 DEF InCharge, Outcomes
    <3>4. CASE Start(t) \/ StartHookReturns(t) \/ StartHookRaises(t)
      <4>1. /\ phase # "STOPPING" /\ phase' # "STOPPING" /\ pc'[t] # "stopping"
            /\ phase' = "STARTING" => pc'[t] = "starting"
        <5>1. CASE Start(t)
          BY <1>2, <5>1 DEF Start, Goto, IInv, TypeOK
        <5>2. CASE StartHookReturns(t)
          BY <1>2, <5>2 DEF StartHookReturns, Goto, IInv, TypeOK, StartOrder
        <5>3. CASE StartHookRaises(t)
          BY <1>2, <5>3 DEF StartHookRaises, CallsNextStop, Goto, IInv, TypeOK, StartOrder
        <5> QED
          BY <3>4, <5>1, <5>2, <5>3
      <4> QED
        BY <1>2, <3>2, <4>1 DEF InCharge
    <3>5. CASE Stop(t)
      <4>1. /\ phase \notin {"STARTING", "STOPPING"} /\ phase' # "STARTING"
            /\ pc'[t] = "stopping" <=> phase' = "STOPPING"
        BY <1>2, <3>5 DEF Stop, CallsNextStop, Goto, IInv, TypeOK
      <4> QED
        BY <1>2, <3>2, <4>1 DEF InCharge
    <3>6. CASE StopHookEnds(t)
      <4>1. /\ \/ phase' = phase /\ pc'[t] = pc[t]
               \/ phase' = phase /\ pc[t] = "rollback" /\ pc'[t] = "raised"
               \/ pc[t] = "stopping" /\ pc'[t] = "idle" /\ phase' = "STOPPED"
            /\ pc[t] # "starting"
        BY <1>2, <3>6 DEF StopHookEnds, CallsNextStop, Goto, IInv, TypeOK, Rolling
      <4> QED
        BY <1>2, <3>2, <4>1 DEF InCharge
    <3> QED
      BY <2>2, <3>3, <3>4, <3>5, <3>6 DEF Call, Resume
  <2> QED
    BY <1>2, <2>1, <2>2 DEF Next
<1> QED
  BY <1>1, <1>2, Invariant, PTL DEF Spec

\* The phase never moves back, whatever the tasks do concurrently.
THEOREM PhaseNeverGoesBack == Spec => PhaseForward
<1>1. ASSUME IInv, [Next]_vars, phase' # phase
      PROVE  Rank[phase'] > Rank[phase]
  <2>1. PICK t \in Tasks : Call(t) \/ Resume(t)
    BY <1>1 DEF Next, vars
  <2>2. CASE Start(t) \/ Stop(t) \/ StartHookRaises(t)
    BY <1>1, <2>2 DEF Start, Stop, StartHookRaises, IInv, StartOrder, Rank, Phases
  <2>3. CASE StartHookReturns(t)
    BY <1>1, <2>3 DEF StartHookReturns, IInv, StartOrder, Rank, Phases
  <2>4. CASE StopHookEnds(t)
    BY <1>1, <2>4 DEF StopHookEnds, IInv, WhoMayBeWhere, Rank, Phases, Rolling
  <2> QED
    BY <1>1, <2>1, <2>2, <2>3, <2>4 DEF Call, Resume, Add, AddUnnamed, Refused, StopRefused, StopIsNoop
<1>2. IInv /\ [Next]_vars => [phase' # phase => Rank[phase'] > Rank[phase]]_phase
  BY <1>1
<1> QED
  BY <1>2, Invariant, PTL DEF Spec, PhaseForward

(***************************************************************************)
(* The manager implements OrderedLifecycle.                                *)
(***************************************************************************)

\* A step of the manager is a step of the abstract lifecycle or changes
\* nothing of it.
LEMMA RefinementStep ==
    ASSUME IInv, NEW t \in Tasks, Call(t) \/ Resume(t)
    PROVE  Ordered!Next \/ UNCHANGED Ordered!vars
<1> USE DEF IInv, Ordered!vars
<1>a. /\ Len(stoppable) \in Nat /\ started \in SUBSET Hooks
      /\ Hooks = 1..Len(stoppable)
  BY DEF TypeOK, Hooks
<1>b. \A S \in SUBSET Hooks : Owed(S) = S \cap Owed(Hooks)
  BY DEF Owed
<1>1. CASE Add(t)
  <2>1. PICK b \in BOOLEAN : stoppable' = Append(stoppable, b)
    BY <1>1 DEF Add
  <2>2. /\ Len(stoppable') = Len(stoppable) + 1
        /\ \A k \in Hooks : stoppable'[k] = stoppable[k]
        /\ stoppable'[Len(stoppable) + 1] = b
    BY <1>a, <2>1 DEF TypeOK
  <2>3. Hooks' = Hooks \cup {Len(stoppable) + 1}
    BY <1>a, <2>2 DEF Hooks
  <2>4. Owed(Hooks)' \in {Owed(Hooks), Owed(Hooks) \cup {Len(stoppable) + 1}}
    BY <2>2, <2>3 DEF Owed
  <2>5. Ordered!Register
    BY <1>1, <1>a, <2>2, <2>4 DEF Ordered!Register, Add, Mode
  <2> QED
    BY <2>5 DEF Ordered!Next
<1>2. CASE AddUnnamed(t) \/ Refused(t) \/ StopRefused(t) \/ StopIsNoop(t)
  BY <1>2 DEF AddUnnamed, Refused, StopRefused, StopIsNoop, Mode, Owed, Hooks
<1>c. ASSUME stoppable' = stoppable
      PROVE  Len(stoppable)' = Len(stoppable) /\ Owed(Hooks)' = Owed(Hooks)
  BY <1>c DEF Owed, Hooks
<1>3. CASE Start(t)
  <2>1. Hooks = {} <=> Len(stoppable) = 0
    BY <1>a
  <2>2. Mode = "assembling"
    BY <1>3 DEF Start, Mode
  <2>3. Mode' = IF Hooks = {} THEN "serving" ELSE "rising"
    BY <1>3 DEF Start, Mode
  <2>4. Ordered!Rise
    BY <1>3, <1>c, <2>1, <2>2, <2>3 DEF Ordered!Rise, Start
  <2> QED
    BY <2>4 DEF Ordered!Next
<1>4. CASE StartHookReturns(t)
  <2>1. at[t] \in 1..Len(stoppable)
    BY <1>4, AwaitsAHook DEF StartHookReturns, Outcomes, Hooks
  <2>2. phase = "STARTING" /\ started = 1..(at[t] - 1)
    BY <1>4 DEF StartHookReturns, StartOrder
  <2>3. Mode' = IF at[t] = Len(stoppable) THEN "serving" ELSE "rising"
    BY <1>4, <1>a, <2>1, <2>2 DEF StartHookReturns, Mode
  <2>4. Ordered!BringUp
    BY <1>4, <1>c, <2>1, <2>2, <2>3 DEF Ordered!BringUp, StartHookReturns, Mode
  <2> QED
    BY <2>4 DEF Ordered!Next
<1>5. CASE StartHookRaises(t)
  <2>1. Ordered!Fall
    BY <1>5, <1>c DEF Ordered!Fall, StartHookRaises, StartOrder, Mode
  <2> QED
    BY <2>1 DEF Ordered!Next
<1>6. CASE Stop(t)
  <2>1. CASE phase' = "STOPPING" /\ phase = "RUNNING"
    <3>1. Ordered!Fall
      BY <1>6, <1>c, <2>1 DEF Ordered!Fall, Stop, Mode
    <3> QED
      BY <3>1 DEF Ordered!Next
  <2>2. CASE phase' = "STOPPING" /\ phase = "FAILED"
    BY <1>6, <1>c, <2>2 DEF Stop, Mode
  <2>3. CASE phase' = "STOPPED" /\ NoStopBelow(Len(stoppable) + 1, started)
    <3>1. \A k \in Owed(started) : k < Len(stoppable) + 1
      BY <1>a DEF Owed
    <3>2. Owed(started) = {}
      BY <1>a, <2>3, <3>1, NothingOwed
    <3>3. Ordered!Settle
      BY <1>6, <1>a, <1>b, <1>c, <2>3, <3>2 DEF Ordered!Settle, Stop, Mode
    <3> QED
      BY <3>3 DEF Ordered!Next
  <2> QED
    BY <1>6, <2>1, <2>2, <2>3 DEF Stop
<1>7. CASE StopHookEnds(t)
  <2>1. /\ pc[t] \in Rolling /\ started' = started \ {at[t]}
        /\ stoppable' = stoppable /\ at[t] \in Hooks
    BY <1>7, AwaitsAHook DEF StopHookEnds, Outcomes, Rolling
  <2>2. phase \in {"FAILED", "STOPPING", "STOPPED"}
    BY <2>1 DEF WhoMayBeWhere, Rolling
  <2>3. \A k \in Owed(started) : k =< at[t]
    BY <2>1 DEF StopOrder
  <2>4. \/ phase' = phase
        \/ phase' = "STOPPED" /\ Owed(started') = {}
    <3>1. CASE NoStopBelow(at[t], started')
      <4>1. \A k \in Owed(started') : k < at[t]
        BY <1>a, <2>1, <2>3 DEF Owed
      <4>2. Owed(started') = {}
        BY <1>a, <2>1, <3>1, <4>1, NothingOwed
      <4> QED
        BY <1>7, <4>2 DEF StopHookEnds
    <3> QED
      BY <1>7, <3>1 DEF StopHookEnds
  <2>5. CASE at[t] \in started
    <3>1. at[t] \in Owed(started)
      BY <2>1, <2>5 DEF Owed, StopOrder
    <3>2. phase # "STOPPED"
      BY <3>1 DEF DownWhenOver
    <3>3. /\ Mode = "falling"
          /\ \/ Mode' = "falling"
             \/ Mode' = "down" /\ Owed(started') = {}
      BY <2>2, <2>4, <3>2 DEF Mode
    <3>4. /\ at[t] \in started \cap Owed(Hooks)
          /\ \A k \in started \cap Owed(Hooks) : k =< at[t]
          /\ Owed(started') = started' \cap Owed(Hooks)
      BY <1>a, <1>b, <2>1, <2>3, <3>1
    <3>5. Ordered!TakeDown
      BY <1>c, <2>1, <3>3, <3>4 DEF Ordered!TakeDown
    <3> QED
      BY <3>5 DEF Ordered!Next
  <2>6. CASE at[t] \notin started
    <3>1. started' = started
      BY <2>1, <2>6
    <3>2. CASE phase' = phase
      BY <1>c, <2>1, <3>1, <3>2 DEF Mode
    <3>3. CASE phase' = "STOPPED" /\ Owed(started') = {} /\ phase # "STOPPED"
      <4>1. Ordered!Settle
        BY <1>a, <1>b, <1>c, <2>1, <2>2, <3>1, <3>3 DEF Ordered!Settle, Mode
      <4> QED
        BY <4>1 DEF Ordered!Next
    <3> QED
      BY <2>4, <3>2, <3>3
  <2> QED
    BY <2>5, <2>6
<1> QED
  BY <1>1, <1>2, <1>3, <1>4, <1>5, <1>6, <1>7 DEF Call, Resume

\* The lifecycle manager, with any number of tasks calling it, implements the
\* abstract ordered lifecycle.
THEOREM Refinement == Spec => ImplementsOrdered
<1>1. Init => Ordered!Init
  BY DEF Init, Ordered!Init, Mode, Owed, Hooks
<1>2. IInv /\ [Next]_vars => [Ordered!Next]_(Ordered!vars)
  <2>1. ASSUME UNCHANGED vars PROVE UNCHANGED Ordered!vars
    BY <2>1 DEF vars, Ordered!vars, Mode, Owed, Hooks
  <2> QED
    BY <2>1, RefinementStep DEF Next
<1> QED
  BY <1>1, <1>2, Invariant, PTL DEF Spec, ImplementsOrdered, Ordered!Spec
=============================================================================
