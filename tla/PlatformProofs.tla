--------------------------- MODULE PlatformProofs ---------------------------
(***************************************************************************)
(* Proofs about Platform and the application that runs it, for any tasks,  *)
(* hooks and plugins: its halves are a lifecycle manager and a plugin      *)
(* loader, the plugins come up only after the hooks, no two tasks start    *)
(* the platform, how start() and stop() end, and that run_platform stops   *)
(* what it has started.                                                    *)
(***************************************************************************)
EXTENDS Application, FiniteSetTheorems, SequenceTheorems, TLAPS

Early == {"CREATED", "STARTING", "FAILED"}

Types ==
    /\ pc \in [Tasks -> LM!Outcomes \cup {"starting"} \cup LM!Rolling]
    /\ doing \in [Tasks -> PL!Ended \cup PL!Awaiting]
    /\ stage \in [Tasks -> Done \cup Busy]

\* Where a task is in the lifecycle and in the loader, by its stage and by the
\* phase of the lifecycle.
Where(t) ==
    /\ pc[t] = "starting" => phase = "STARTING" /\ stage[t] = "starting"
    /\ pc[t] = "rollback" => phase \in {"FAILED", "STOPPING", "STOPPED"}
    /\ pc[t] = "stopping" => phase \in {"STOPPING", "STOPPED"}
    /\ stage[t] = "starting" => pc[t] \in {"starting", "rollback"}
    /\ stage[t] = "stopping" => pc[t] = "stopping"
    /\ \A d \in PL!Awaiting : doing[t] = d <=> stage[t] = d
    /\ doing[t] = "activating" => phase \notin Early

IInv ==
    /\ Types
    /\ \A t \in Tasks : Where(t)
    /\ OneStart
    /\ phase \in Early => activated = {}

-----------------------------------------------------------------------------
(***************************************************************************)
(* What a step of the lifecycle does to the phase and to its task.         *)
(***************************************************************************)

Moves(t, w) == pc' = [pc EXCEPT ![t] = w]

\* A call that is refused or has nothing to do.
LEMMA CallIsOver ==
    ASSUME NEW t \in Tasks,
           \/ LM!Add(t) \/ LM!AddUnnamed(t) \/ LM!Refused(t)
           \/ LM!StopIsNoop(t) \/ LM!StopRefused(t)
    PROVE  phase' = phase /\ \E w \in LM!Outcomes : Moves(t, w)
BY DEF LM!Add, LM!AddUnnamed, LM!Refused, LM!StopIsNoop, LM!StopRefused, LM!Goto,
       LM!Outcomes, Moves

LEMMA StartMoves ==
    ASSUME NEW t \in Tasks, LM!Start(t)
    PROVE  /\ phase = "CREATED"
           /\ \/ phase' = "RUNNING" /\ Moves(t, "idle")
              \/ phase' = "STARTING" /\ Moves(t, "starting")
BY DEF LM!Start, LM!Goto, Moves

LEMMA StopMoves ==
    ASSUME NEW t \in Tasks, LM!Stop(t)
    PROVE  /\ phase \in {"RUNNING", "FAILED"}
           /\ \/ phase' = "STOPPING" /\ Moves(t, "stopping")
              \/ phase' = "STOPPED" /\ Moves(t, "idle")
BY DEF LM!Stop, LM!CallsNextStop, LM!Goto, Moves

LEMMA ResumeMoves ==
    ASSUME NEW t \in Tasks, LM!Resume(t)
    PROVE  \/ /\ pc[t] = "starting"
              /\ \/ phase' = "RUNNING" /\ Moves(t, "idle")
                 \/ phase' = phase /\ Moves(t, "starting")
                 \/ phase' = "FAILED" /\ \E w \in {"rollback", "raised"} : Moves(t, w)
           \/ /\ pc[t] = "rollback" /\ phase' = phase
              /\ \E w \in {"rollback", "raised"} : Moves(t, w)
           \/ /\ pc[t] = "stopping"
              /\ \/ phase' = phase /\ Moves(t, "stopping")
                 \/ phase' = "STOPPED" /\ Moves(t, "idle")
<1>1. CASE LM!StartHookReturns(t)
    BY <1>1 DEF LM!StartHookReturns, LM!Goto, Moves
<1>2. CASE LM!StartHookRaises(t)
    BY <1>2 DEF LM!StartHookRaises, LM!CallsNextStop, LM!Goto, Moves
<1>3. CASE LM!StopHookEnds(t)
  <2>1. pc[t] \in {"rollback", "stopping"}
    BY <1>3 DEF LM!StopHookEnds, LM!Rolling
  <2>2. \/ phase' = phase /\ Moves(t, pc[t])
        \/ pc[t] = "rollback" /\ phase' = phase /\ Moves(t, "raised")
        \/ pc[t] = "stopping" /\ phase' = "STOPPED" /\ Moves(t, "idle")
    BY <1>3 DEF LM!StopHookEnds, LM!CallsNextStop, LM!Goto, Moves
  <2> QED
    BY <2>1, <2>2
<1> QED
    BY <1>1, <1>2, <1>3 DEF LM!Resume

(***************************************************************************)
(* What a step of the loader does to its task.                             *)
(***************************************************************************)

Does(t, d) == doing' = [doing EXCEPT ![t] = d]

LEMMA InstallMoves ==
    ASSUME NEW t \in Tasks, PL!Install(t) \/ PL!InstallViolatesContract(t) \/ PL!Uninstall(t)
    PROVE  activated' = activated /\ PL!Free(t) /\ \E d \in PL!Ended : Does(t, d)
BY DEF PL!Install, PL!InstallViolatesContract, PL!Uninstall, PL!End, PL!Await, PL!Ended, Does

LEMMA ActivateMoves ==
    ASSUME NEW t \in Tasks, NEW q, NEW A, PL!ActivateNext(t, q, A)
    PROVE  \E d \in PL!Ended \cup {"activating"} : Does(t, d)
BY DEF PL!ActivateNext, PL!End, PL!Await, PL!Ended, Does

LEMMA DeactivateMoves ==
    ASSUME NEW t \in Tasks, NEW q, NEW A, PL!DeactivateNext(t, q, A)
    PROVE  \E d \in PL!Ended \cup {"deactivating"} : Does(t, d)
BY DEF PL!DeactivateNext, PL!End, PL!Await, PL!Ended, Does

LEMMA PluginResumes ==
    ASSUME NEW t \in Tasks, PL!Resume(t)
    PROVE  \/ doing[t] = "activating" /\ \E d \in PL!Ended \cup {"activating"} : Does(t, d)
           \/ /\ doing[t] = "deactivating" /\ activated' \subseteq activated
              /\ \E d \in PL!Ended \cup {"deactivating"} : Does(t, d)
<1>1. CASE PL!PluginActivated(t)
    BY <1>1, ActivateMoves DEF PL!PluginActivated
<1>2. CASE PL!PluginActivationFails(t)
    BY <1>2 DEF PL!PluginActivationFails, PL!End, PL!Await, PL!Ended, Does
<1>3. CASE PL!PluginDeactivated(t)
    BY <1>3, DeactivateMoves DEF PL!PluginDeactivated, PL!Discard
<1>4. CASE PL!PluginDeactivationFails(t)
    BY <1>4 DEF PL!PluginDeactivationFails, PL!Discard, PL!End, PL!Await, PL!Ended, Does
<1> QED
    BY <1>1, <1>2, <1>3, <1>4 DEF PL!Resume

-----------------------------------------------------------------------------
LEMMA InitOK == Init => IInv
BY DEF Init, LM!Init, PL!Init, IInv, Types, Where, OneStart, LM!Outcomes, LM!Rolling,
       PL!Ended, PL!Awaiting, Done, Busy, Early

(***************************************************************************)
(* A step of t sets its pc to w, its doing to d and its stage to s.  What  *)
(* is left to show of each step is in the hypotheses of this lemma.        *)
(***************************************************************************)
LEMMA StepOf ==
    ASSUME IInv, NEW t \in Tasks, NEW w, NEW d, NEW s,
           w \in LM!Outcomes \cup {"starting"} \cup LM!Rolling,
           d \in PL!Ended \cup PL!Awaiting, s \in Done \cup Busy,
           Moves(t, w), Does(t, d), Enter(t, s),
           Where(t)',
           \A u \in Tasks \ {t} :
              /\ pc[u] = "starting" => phase' = "STARTING"
              /\ pc[u] = "rollback" => phase' \in {"FAILED", "STOPPING", "STOPPED"}
              /\ pc[u] = "stopping" => phase' \in {"STOPPING", "STOPPED"}
              /\ doing[u] = "activating" => phase' \notin Early
              /\ s \in {"starting", "activating"} => stage[u] \notin {"starting", "activating"},
           phase' \in Early => activated' = {}
    PROVE  IInv'
<1>1. Types'
    BY DEF IInv, Types, Moves, Does, Enter
<1>2. \A u \in Tasks : /\ pc'[u] = IF u = t THEN w ELSE pc[u]
                       /\ doing'[u] = IF u = t THEN d ELSE doing[u]
                       /\ stage'[u] = IF u = t THEN s ELSE stage[u]
    BY DEF IInv, Types, Moves, Does, Enter
<1>3. \A u \in Tasks \ {t} : Where(u)'
    BY <1>2 DEF IInv, Where
<1>4. OneStart'
    BY <1>2 DEF IInv, OneStart
<1> QED
    BY <1>1, <1>3, <1>4 DEF IInv

(***************************************************************************)
(* How a step of t may change the phase, and what that leaves true of the  *)
(* other tasks and of the plugins.                                         *)
(***************************************************************************)
PhaseStep(t) ==
    \/ phase' = phase
    \/ phase = "CREATED"
    \/ pc[t] = "starting" /\ phase' \in {"RUNNING", "FAILED"}
    \/ phase \in {"RUNNING", "FAILED"} /\ phase' \in {"STOPPING", "STOPPED"}
    \/ pc[t] = "stopping" /\ phase' = "STOPPED"

LEMMA OthersGoOn ==
    ASSUME IInv, NEW t \in Tasks, PhaseStep(t)
    PROVE  /\ \A u \in Tasks \ {t} :
                 /\ pc[u] = "starting" => phase' = "STARTING"
                 /\ pc[u] = "rollback" => phase' \in {"FAILED", "STOPPING", "STOPPED"}
                 /\ pc[u] = "stopping" => phase' \in {"STOPPING", "STOPPED"}
                 /\ doing[u] = "activating" => phase' \notin Early
           /\ phase' \in Early => activated = {}
<1>1. ASSUME pc[t] = "starting" PROVE phase = "STARTING" /\ stage[t] = "starting"
    BY <1>1 DEF IInv, Where
<1>2. ASSUME pc[t] = "stopping" PROVE phase \in {"STOPPING", "STOPPED"}
    BY <1>2 DEF IInv, Where
<1>3. ASSUME NEW u \in Tasks \ {t}
      PROVE  /\ pc[u] = "starting" => phase = "STARTING" /\ pc[t] # "starting"
             /\ pc[u] = "rollback" => phase \in {"FAILED", "STOPPING", "STOPPED"}
             /\ pc[u] = "stopping" => phase \in {"STOPPING", "STOPPED"}
             /\ doing[u] = "activating" => phase \notin Early
    BY <1>1 DEF IInv, Where, OneStart
<1>4. phase' \in Early => phase \in Early
    BY <1>1, <1>2 DEF PhaseStep, Early
<1>5. ASSUME NEW u \in Tasks \ {t}
      PROVE  /\ pc[u] = "starting" => phase' = "STARTING"
             /\ pc[u] = "rollback" => phase' \in {"FAILED", "STOPPING", "STOPPED"}
             /\ pc[u] = "stopping" => phase' \in {"STOPPING", "STOPPED"}
             /\ doing[u] = "activating" => phase' \notin Early
    BY <1>1, <1>2, <1>3, <1>4 DEF PhaseStep
<1> QED
    BY <1>4, <1>5 DEF IInv

\* What the lifecycle or the loader leaves alone of t.
LEMMA Still ==
    ASSUME IInv, NEW t \in Tasks
    PROVE  /\ UNCHANGED lifecycle => Moves(t, pc[t]) /\ phase' = phase
           /\ UNCHANGED plugins => Does(t, doing[t]) /\ activated' = activated
           /\ UNCHANGED stage => Enter(t, stage[t])
           /\ pc[t] \in LM!Outcomes \cup {"starting"} \cup LM!Rolling
           /\ doing[t] \in PL!Ended \cup PL!Awaiting
           /\ stage[t] \in Done \cup Busy
<1>1. /\ pc = [pc EXCEPT ![t] = pc[t]] /\ doing = [doing EXCEPT ![t] = doing[t]]
      /\ stage = [stage EXCEPT ![t] = stage[t]]
    BY DEF IInv, Types
<1> QED
    BY <1>1 DEF IInv, Types, lifecycle, plugins, Moves, Does, Enter

\* A free task is in neither of the two.
LEMMA FreeIsOut ==
    ASSUME IInv, NEW t \in Tasks, Free(t)
    PROVE  /\ pc[t] # "starting" /\ doing[t] \in PL!Ended
           /\ stage[t] \notin {"starting", "activating", "deactivating", "stopping"}
BY DEF IInv, Types, Where, Free, Done, PL!Awaiting, PL!Ended

\* What t's own values are after a step that assigns them.
LEMMA After ==
    ASSUME IInv, NEW t \in Tasks
    PROVE  /\ \A w : Moves(t, w) => pc'[t] = w
           /\ \A d : Does(t, d) => doing'[t] = d
           /\ \A s : Enter(t, s) => stage'[t] = s
BY DEF IInv, Types, Moves, Does, Enter

-----------------------------------------------------------------------------
LEMMA AddKeeps == ASSUME IInv, NEW t \in Tasks, AddHook(t) PROVE IInv'
<1>1. PICK w \in LM!Outcomes : Moves(t, w) /\ phase' = phase
    BY CallIsOver DEF AddHook
<1>2. /\ Does(t, doing[t]) /\ Enter(t, stage[t]) /\ activated' = activated
      /\ doing[t] \in PL!Ended \cup PL!Awaiting /\ stage[t] \in Done \cup Busy
    BY Still DEF AddHook
<1>3. Free(t)
    BY DEF AddHook
<1>4. Where(t)'
    BY <1>1, <1>2, <1>3, After, FreeIsOut DEF IInv, Where, LM!Outcomes
<1> QED
    BY <1>1, <1>2, <1>3, <1>4, StepOf, OthersGoOn, FreeIsOut DEF PhaseStep

LEMMA InstallKeeps == ASSUME IInv, NEW t \in Tasks, InstallPlugin(t) PROVE IInv'
<1>1. PICK d \in PL!Ended : Does(t, d) /\ activated' = activated
    BY InstallMoves DEF InstallPlugin
<1>2. /\ Moves(t, pc[t]) /\ Enter(t, stage[t]) /\ phase' = phase
      /\ pc[t] \in LM!Outcomes \cup {"starting"} \cup LM!Rolling /\ stage[t] \in Done \cup Busy
    BY Still DEF InstallPlugin
<1>3. Free(t)
    BY DEF InstallPlugin
<1>4. Where(t)'
    BY <1>1, <1>2, <1>3, After, FreeIsOut DEF IInv, Where, PL!Ended, PL!Awaiting
<1> QED
    BY <1>1, <1>2, <1>3, <1>4, StepOf, OthersGoOn, FreeIsOut DEF PhaseStep

\* lifecycle.start() has moved t to w, and no other task is in start().
LEMMA StartGoesIntoPlugins ==
    ASSUME IInv, NEW t \in Tasks, NEW w \in {"idle", "raised", "starting", "rollback"},
           Moves(t, w), PhaseStep(t), AfterLifecycleStart(t),
           w = "idle" => phase' = "RUNNING",
           w = "starting" => phase' = "STARTING",
           w = "rollback" => phase' \in {"FAILED", "STOPPING", "STOPPED"},
           doing[t] \in PL!Ended,
           \A u \in Tasks \ {t} : stage[u] \notin {"starting", "activating"}
    PROVE  IInv'
<1>1. pc'[t] = w /\ w \in LM!Outcomes \cup {"starting"} \cup LM!Rolling
    BY After DEF LM!Outcomes, LM!Rolling
<1>2. CASE w \in {"starting", "rollback"}
  <2>1. Enter(t, "starting") /\ UNCHANGED plugins
    BY <1>1, <1>2 DEF AfterLifecycleStart, LM!Outcomes
  <2>2. Does(t, doing[t]) /\ activated' = activated /\ doing[t] \in PL!Ended \cup PL!Awaiting
    BY <2>1, Still
  <2>3. Where(t)'
    BY <1>1, <1>2, <2>1, <2>2, After DEF Where, PL!Ended, PL!Awaiting
  <2>4. "starting" \in Done \cup Busy
    BY DEF Busy
  <2> QED
    BY <1>1, <2>1, <2>2, <2>3, <2>4, StepOf, OthersGoOn
<1>3. CASE w = "raised"
  <2>1. Enter(t, "start raised") /\ UNCHANGED plugins
    BY <1>1, <1>3 DEF AfterLifecycleStart, LM!Outcomes
  <2>2. Does(t, doing[t]) /\ activated' = activated /\ doing[t] \in PL!Ended \cup PL!Awaiting
    BY <2>1, Still
  <2>3. Where(t)'
    BY <1>1, <1>3, <2>1, <2>2, After DEF Where, PL!Ended, PL!Awaiting
  <2>4. "start raised" \in Done \cup Busy
    BY DEF Done
  <2> QED
    BY <1>1, <2>1, <2>2, <2>3, <2>4, StepOf, OthersGoOn
<1>4. CASE w = "idle"
  <2>1. PL!ActivateAll(t) /\ AfterActivateAll(t)
    BY <1>1, <1>4 DEF AfterLifecycleStart, LM!Outcomes
  <2>2. PICK d \in PL!Ended \cup {"activating"} : Does(t, d)
    BY <2>1, ActivateMoves DEF PL!ActivateAll
  <2>3. activated' = activated /\ doing'[t] = d /\ phase' = "RUNNING"
    BY <1>4, <2>1, <2>2, After DEF PL!ActivateAll
  <2>4. PICK s \in {"activating", "started", "start raised"} :
           Enter(t, s) /\ (s = "activating" <=> d = "activating")
    BY <2>1, <2>3 DEF AfterActivateAll, PL!Ended
  <2>5. Where(t)'
    BY <1>1, <1>4, <2>2, <2>3, <2>4, After DEF Where, PL!Ended, PL!Awaiting, Early
  <2>6. d \in PL!Ended \cup PL!Awaiting /\ s \in Done \cup Busy
    BY DEF PL!Awaiting, Done, Busy
  <2> QED
    BY <1>1, <2>2, <2>3, <2>4, <2>5, <2>6, StepOf, OthersGoOn
<1> QED
    BY <1>2, <1>3, <1>4

LEMMA StartKeeps == ASSUME IInv, NEW t \in Tasks, Start(t) PROVE IInv'
<1>1. AfterLifecycleStart(t) /\ doing[t] \in PL!Ended /\ pc[t] # "starting"
    BY FreeIsOut DEF Start
<1>2. CASE LM!Start(t)
  <2>1. \A u \in Tasks \ {t} : stage[u] \notin {"starting", "activating"}
    BY <1>2, StartMoves DEF IInv, Where, Early, PL!Awaiting
  <2> QED
    BY <1>1, <1>2, <2>1, StartMoves, StartGoesIntoPlugins DEF PhaseStep
<1>3. CASE LM!Refused(t)
  <2>1. Moves(t, "raised") /\ phase' = phase
    BY <1>3 DEF LM!Refused, LM!Goto, Moves
  <2>2. pc'[t] = "raised"
    BY <2>1, After
  <2>3. Enter(t, "start raised") /\ UNCHANGED plugins
    BY <1>1, <2>2 DEF AfterLifecycleStart, LM!Outcomes
  <2>4. Does(t, doing[t]) /\ activated' = activated /\ doing[t] \in PL!Ended \cup PL!Awaiting
    BY <2>3, Still
  <2>5. Where(t)'
    BY <1>1, <2>1, <2>2, <2>3, <2>4, After DEF Where, PL!Ended, PL!Awaiting
  <2>6. "start raised" \in Done \cup Busy /\ "raised" \in LM!Outcomes
    BY DEF Done, LM!Outcomes
  <2> QED
    BY <2>1, <2>3, <2>4, <2>5, <2>6, StepOf, OthersGoOn DEF PhaseStep
<1> QED
    BY <1>2, <1>3 DEF Start

LEMMA HookKeeps == ASSUME IInv, NEW t \in Tasks, StartGoesOnFromHook(t) PROVE IInv'
<1>1. stage[t] = "starting" /\ LM!Resume(t) /\ AfterLifecycleStart(t)
    BY DEF StartGoesOnFromHook
<1>2. /\ \A u \in Tasks \ {t} : stage[u] \notin {"starting", "activating"}
      /\ doing[t] \in PL!Ended /\ pc[t] \in {"starting", "rollback"}
      /\ pc[t] = "starting" => phase = "STARTING"
      /\ pc[t] = "rollback" => phase \in {"FAILED", "STOPPING", "STOPPED"}
    BY <1>1 DEF IInv, Types, Where, OneStart, PL!Awaiting
<1>3. CASE pc[t] = "starting"
    BY <1>1, <1>2, <1>3, ResumeMoves, StartGoesIntoPlugins DEF PhaseStep
<1>4. CASE pc[t] = "rollback"
    BY <1>1, <1>2, <1>4, ResumeMoves, StartGoesIntoPlugins DEF PhaseStep
<1> QED
    BY <1>2, <1>3, <1>4

LEMMA PluginKeeps == ASSUME IInv, NEW t \in Tasks, StartGoesOnFromPlugin(t) PROVE IInv'
<1>1. /\ stage[t] = "activating" /\ PL!Resume(t) /\ AfterActivateAll(t)
      /\ UNCHANGED lifecycle
    BY DEF StartGoesOnFromPlugin
<1>2. /\ doing[t] = "activating" /\ phase \notin Early /\ pc[t] # "starting"
      /\ \A u \in Tasks \ {t} : stage[u] \notin {"starting", "activating"}
    BY <1>1 DEF IInv, Where, OneStart, PL!Awaiting
<1>3. PICK d \in PL!Ended \cup {"activating"} : Does(t, d)
    BY <1>1, <1>2, PluginResumes
<1>4. /\ doing'[t] = d /\ Moves(t, pc[t]) /\ phase' = phase /\ pc'[t] = pc[t]
      /\ pc[t] \in LM!Outcomes \cup {"starting"} \cup LM!Rolling
    BY <1>1, <1>3, After, Still
<1>5. PICK s \in {"activating", "started", "start raised"} :
         Enter(t, s) /\ (s = "activating" <=> d = "activating")
    BY <1>1, <1>4 DEF AfterActivateAll, PL!Ended
<1>6. Where(t)'
    BY <1>2, <1>3, <1>4, <1>5, After DEF IInv, Where, PL!Ended, PL!Awaiting
<1>7. d \in PL!Ended \cup PL!Awaiting /\ s \in Done \cup Busy
    BY DEF PL!Awaiting, Done, Busy
<1> QED
    BY <1>2, <1>3, <1>4, <1>5, <1>6, <1>7, StepOf, OthersGoOn DEF PhaseStep

\* deactivate_all() is over for t, and lifecycle.stop() has moved it to w.
LEMMA StopIsOver ==
    ASSUME IInv, NEW t \in Tasks, NEW w \in {"idle", "raised", "stopping"}, NEW d \in PL!Ended,
           Moves(t, w), Does(t, d), PhaseStep(t), AfterLifecycleStop(t),
           w = "stopping" => phase' \in {"STOPPING", "STOPPED"},
           activated' \subseteq activated
    PROVE  IInv'
<1>1. /\ pc'[t] = w /\ w \in LM!Outcomes \cup {"starting"} \cup LM!Rolling
      /\ d \in PL!Ended \cup PL!Awaiting /\ doing'[t] = d
    BY After DEF LM!Outcomes, LM!Rolling
<1>2. PICK s \in {"stopping", "stop raised", "stopped"} :
         Enter(t, s) /\ (s = "stopping" <=> w = "stopping")
    BY <1>1 DEF AfterLifecycleStop
<1>3. s \in Done \cup Busy
    BY DEF Done, Busy
<1>4. Where(t)'
    BY <1>1, <1>2, After DEF Where, PL!Ended, PL!Awaiting
<1>5. phase' \in Early => activated' = {}
    BY OthersGoOn
<1> QED
    BY <1>1, <1>2, <1>3, <1>4, <1>5, StepOf, OthersGoOn

\* deactivate_all() was entered or went on.
LEMMA AfterDeactivate ==
    ASSUME IInv, NEW t \in Tasks, NEW d \in PL!Ended \cup {"deactivating"}, Does(t, d),
           activated' \subseteq activated, AfterDeactivateAll(t), pc[t] # "starting"
    PROVE  IInv'
<1>1. doing'[t] = d
    BY After
<1>2. CASE d = "deactivating"
  <2>1. Enter(t, "deactivating") /\ UNCHANGED lifecycle
    BY <1>1, <1>2 DEF AfterDeactivateAll, PL!Ended
  <2>2. /\ Moves(t, pc[t]) /\ phase' = phase /\ pc'[t] = pc[t]
        /\ pc[t] \in LM!Outcomes \cup {"starting"} \cup LM!Rolling
    BY <2>1, Still, After
  <2>3. Where(t)'
    BY <1>1, <1>2, <2>1, <2>2, After DEF IInv, Where, PL!Awaiting
  <2>4. "deactivating" \in Done \cup Busy /\ d \in PL!Ended \cup PL!Awaiting
    BY <1>2 DEF Busy, PL!Awaiting
  <2>5. phase' \in Early => activated' = {}
    BY <2>2 DEF IInv
  <2> QED
    BY <2>1, <2>2, <2>3, <2>4, <2>5, StepOf, OthersGoOn DEF PhaseStep
<1>3. CASE d \in PL!Ended
  <2>1. /\ LM!Stop(t) \/ LM!StopIsNoop(t) \/ LM!StopRefused(t)
        /\ AfterLifecycleStop(t)
    BY <1>1, <1>3 DEF AfterDeactivateAll, PL!Ended
  <2>2. CASE LM!Stop(t)
    BY <1>3, <2>1, <2>2, StopMoves, StopIsOver DEF PhaseStep
  <2>3. CASE LM!StopIsNoop(t) \/ LM!StopRefused(t)
    <3>1. PICK w \in {"idle", "raised"} : Moves(t, w) /\ phase' = phase
        BY <2>3, CallIsOver DEF LM!Outcomes
    <3> QED
        BY <1>3, <2>1, <3>1, StopIsOver DEF PhaseStep
  <2> QED
    BY <2>1, <2>2, <2>3
<1> QED
    BY <1>2, <1>3

LEMMA StopKeeps ==
    ASSUME IInv, NEW t \in Tasks, Stop(t) \/ StopGoesOnFromPlugin(t)
    PROVE  IInv'
<1>1. CASE Stop(t)
  <2>1. /\ AfterDeactivateAll(t) /\ pc[t] # "starting" /\ activated' = activated
        /\ \E d \in PL!Ended \cup {"deactivating"} : Does(t, d)
    BY <1>1, FreeIsOut, DeactivateMoves DEF Stop, PL!DeactivateAll
  <2> QED
    BY <2>1, AfterDeactivate
<1>2. CASE StopGoesOnFromPlugin(t)
  <2>1. doing[t] = "deactivating" /\ pc[t] # "starting"
    BY <1>2 DEF StopGoesOnFromPlugin, IInv, Where, PL!Awaiting
  <2>2. /\ AfterDeactivateAll(t) /\ activated' \subseteq activated
        /\ \E d \in PL!Ended \cup {"deactivating"} : Does(t, d)
    BY <1>2, <2>1, PluginResumes DEF StopGoesOnFromPlugin
  <2> QED
    BY <2>1, <2>2, AfterDeactivate
<1> QED
    BY <1>1, <1>2

LEMMA StopHookKeeps == ASSUME IInv, NEW t \in Tasks, StopGoesOnFromHook(t) PROVE IInv'
<1>1. /\ stage[t] = "stopping" /\ LM!Resume(t) /\ UNCHANGED plugins
      /\ AfterLifecycleStop(t)
    BY DEF StopGoesOnFromHook
<1>2. pc[t] = "stopping" /\ doing[t] \in PL!Ended /\ phase \in {"STOPPING", "STOPPED"}
    BY <1>1 DEF IInv, Types, Where, PL!Awaiting
<1>3. Does(t, doing[t]) /\ activated' = activated
    BY <1>1, Still
<1> QED
    BY <1>1, <1>2, <1>3, ResumeMoves, StopIsOver DEF PhaseStep

LEMMA Inductive == IInv /\ [Next]_vars => IInv'
<1> SUFFICES ASSUME IInv, [Next]_vars PROVE IInv'
    OBVIOUS
<1>1. ASSUME NEW t \in Tasks, Request(t) PROVE IInv'
    BY <1>1, AddKeeps, InstallKeeps, StartKeeps, StopKeeps DEF Request
<1>2. ASSUME NEW t \in Tasks, Resume(t) PROVE IInv'
    BY <1>2, HookKeeps, PluginKeeps, StopKeeps, StopHookKeeps DEF Resume
<1>3. ASSUME UNCHANGED vars PROVE IInv'
    BY <1>3 DEF vars, lifecycle, plugins, IInv, Types, Where, OneStart
<1> QED
    BY <1>1, <1>2, <1>3 DEF Next

-----------------------------------------------------------------------------
\* While some start hook has still to run, or has failed, no plugin is active
\* or being activated, whatever tasks start, stop, install and uninstall.
THEOREM HooksBeforePlugins == Spec => []PluginsAfterHooks
<1>1. IInv => PluginsAfterHooks
    BY DEF IInv, Where, Early, PluginsAfterHooks
<1> QED
    BY <1>1, InitOK, Inductive, PTL DEF Spec

\* The phase gate of lifecycle.start() serialises the whole of start(), the
\* activation of the plugins after it included.
THEOREM StartIsSerial == Spec => []OneStart
<1>1. IInv => OneStart
    BY DEF IInv
<1> QED
    BY <1>1, InitOK, Inductive, PTL DEF Spec

-----------------------------------------------------------------------------
(***************************************************************************)
(* How start() and stop() end when one task calls them, for any hooks and  *)
(* plugins and any clients that add hooks, install and uninstall meanwhile.*)
(*                                                                         *)
(* The lifecycle in a platform is a lifecycle manager, so that the         *)
(* invariants proved of that one hold of it.                               *)
(***************************************************************************)
LMP == INSTANCE LifecycleManagerProofs

\* LMP names the operations of the manager anew.
LEMMA SameManager ==
    ASSUME NEW t \in Tasks
    PROVE  /\ LM!Call(t) => LMP!Call(t)
           /\ LM!Resume(t) => LMP!Resume(t)
<1> USE DEF LM!Goto, LMP!Goto, LM!Free, LMP!Free, LM!Outcomes, LMP!Outcomes,
            LM!Hooks, LMP!Hooks, LM!Owed, LMP!Owed, LM!Rolling, LMP!Rolling,
            LM!CallsNextStop, LMP!CallsNextStop, LM!NoStopBelow, LMP!NoStopBelow
<1>1. LM!Add(t) => LMP!Add(t)
  BY DEF LM!Add, LMP!Add
<1>2. LM!Start(t) => LMP!Start(t)
  BY DEF LM!Start, LMP!Start
<1>3. LM!Stop(t) => LMP!Stop(t)
  BY DEF LM!Stop, LMP!Stop
<1>4. LM!StartHookReturns(t) => LMP!StartHookReturns(t)
  BY DEF LM!StartHookReturns, LMP!StartHookReturns
<1>5. LM!StartHookRaises(t) => LMP!StartHookRaises(t)
  BY DEF LM!StartHookRaises, LMP!StartHookRaises
<1>6. LM!StopHookEnds(t) => LMP!StopHookEnds(t)
  BY DEF LM!StopHookEnds, LMP!StopHookEnds
<1>7. /\ LM!AddUnnamed(t) => LMP!AddUnnamed(t)
      /\ LM!Refused(t) => LMP!Refused(t)
      /\ LM!StopIsNoop(t) => LMP!StopIsNoop(t)
      /\ LM!StopRefused(t) => LMP!StopRefused(t)
  BY DEF LM!AddUnnamed, LMP!AddUnnamed, LM!Refused, LMP!Refused,
         LM!StopIsNoop, LMP!StopIsNoop, LM!StopRefused, LMP!StopRefused
<1> QED
  BY <1>1, <1>2, <1>3, <1>4, <1>5, <1>6, <1>7
     DEF LM!Call, LMP!Call, LM!Resume, LMP!Resume

\* Every behaviour of a platform is one of its lifecycle manager: the plugins
\* and the gates of start() and stop() never take it where it could not go.
THEOREM PlatformRefinesManager == Spec => LMP!Spec
<1>1. Init => LMP!Init
  BY DEF Init, LM!Init, LMP!Init
<1>2. [Next]_vars => [LMP!Next]_LMP!vars
  <2>1. ASSUME NEW t \in Tasks, Request(t) \/ Resume(t)
        PROVE  LM!Call(t) \/ LM!Resume(t) \/ UNCHANGED lifecycle
    BY <2>1 DEF Request, Resume, AddHook, InstallPlugin, Start, Stop, AfterDeactivateAll,
                StartGoesOnFromHook, StartGoesOnFromPlugin, StopGoesOnFromPlugin,
                StopGoesOnFromHook, LM!Call
  <2>2. UNCHANGED vars => UNCHANGED lifecycle
    BY DEF vars
  <2>3. UNCHANGED lifecycle => UNCHANGED LMP!vars
    BY DEF lifecycle, LMP!vars
  <2> QED
    BY <2>1, <2>2, <2>3, SameManager DEF Next, LMP!Next
<1> QED
  BY <1>1, <1>2, PTL DEF Spec, LMP!Spec

\* So the hooks of a platform start in order, stop in reverse, and leave nothing
\* up, whichever tasks start and stop the platform.
THEOREM PlatformKeepsOrder == Spec => [](LMP!IInv /\ LMP!InCharge)
BY PlatformRefinesManager, LMP!Invariant, LMP!ShutsDownOnce, PlatformAssumption, PTL
   DEF LMP!LifecycleAssumption

-----------------------------------------------------------------------------
(***************************************************************************)
(* Likewise the plugin loader.                                             *)
(***************************************************************************)
PLP == INSTANCE PluginLoaderProofs

\* PLP names the operations of the loader anew.
LEMMA SameBatches ==
    /\ \A q : PL!ToSet(q) = PLP!ToSet(q)
    /\ \A A : PL!SetToSeqs(A) = PLP!SetToSeqs(A)
    /\ \A t, q, A : PL!ActivateNext(t, q, A) <=> PLP!ActivateNext(t, q, A)
    /\ \A t, q, A : PL!DeactivateNext(t, q, A) <=> PLP!DeactivateNext(t, q, A)
<1>1. \A q : PL!ToSet(q) = PLP!ToSet(q)
  BY DEF PL!ToSet, PLP!ToSet
<1>2. \A t, d, p, r : PL!Await(t, d, p, r) <=> PLP!Await(t, d, p, r)
  BY DEF PL!Await, PLP!Await
<1>3. PL!Installed = PLP!Installed
  BY <1>1 DEF PL!Installed, PLP!Installed
<1>4. \A A : PL!SetToSeqs(A) = PLP!SetToSeqs(A)
  BY DEF PL!SetToSeqs, PLP!SetToSeqs, PL!Cardinality, PLP!Cardinality
<1> QED
  BY <1>1, <1>2, <1>3, <1>4 DEF PL!End, PLP!End, PL!ActivateNext, PLP!ActivateNext,
     PL!DeactivateNext, PLP!DeactivateNext

LEMMA SameLoader ==
    ASSUME NEW t \in Tasks
    PROVE  /\ PL!Request(t) => PLP!Request(t)
           /\ PL!Resume(t) => PLP!Resume(t)
<1>1. /\ PL!Free(t) <=> PLP!Free(t)
      /\ PL!Installed = PLP!Installed
      /\ \A o : PL!End(t, o) <=> PLP!End(t, o)
      /\ \A c : PL!Called(t, c) <=> PLP!Called(t, c)
  BY SameBatches DEF PL!Free, PLP!Free, PL!Ended, PLP!Ended, PL!Installed, PLP!Installed,
     PL!Await, PLP!Await, PL!End, PLP!End, PL!Called, PLP!Called
<1>2. \A q, e : PL!RemoveFirst(q, e) = PLP!RemoveFirst(q, e)
  <2>1. \A I : PL!Min(I) = PLP!Min(I)
    BY DEF PL!Min, PLP!Min
  <2> QED
    BY <2>1 DEF PL!RemoveFirst, PLP!RemoveFirst, PL!RemoveAt, PLP!RemoveAt,
       PL!SelectInSeq, PLP!SelectInSeq
<1>3. PL!Discard(on[t]) <=> PLP!Discard(on[t])
  BY <1>2 DEF PL!Discard, PLP!Discard
<1>4. /\ PL!Install(t) => PLP!Install(t)
      /\ PL!InstallViolatesContract(t) => PLP!InstallViolatesContract(t)
      /\ PL!Uninstall(t) => PLP!Uninstall(t)
  BY <1>1, <1>2 DEF PL!Install, PLP!Install, PL!InstallViolatesContract,
     PLP!InstallViolatesContract, PL!Uninstall, PLP!Uninstall
<1>5. /\ PL!Activate(t) => PLP!Activate(t)
      /\ PL!ActivateAll(t) => PLP!ActivateAll(t)
      /\ PL!Deactivate(t) => PLP!Deactivate(t)
      /\ PL!DeactivateAll(t) => PLP!DeactivateAll(t)
  BY <1>1, SameBatches DEF PL!Activate, PLP!Activate, PL!ActivateAll, PLP!ActivateAll,
     PL!Deactivate, PLP!Deactivate, PL!DeactivateAll, PLP!DeactivateAll
<1>6. /\ PL!PluginActivated(t) => PLP!PluginActivated(t)
      /\ PL!PluginActivationFails(t) => PLP!PluginActivationFails(t)
      /\ PL!PluginDeactivated(t) => PLP!PluginDeactivated(t)
      /\ PL!PluginDeactivationFails(t) => PLP!PluginDeactivationFails(t)
  BY <1>1, <1>3, SameBatches DEF PL!PluginActivated, PLP!PluginActivated,
     PL!PluginActivationFails, PLP!PluginActivationFails, PL!PluginDeactivated,
     PLP!PluginDeactivated, PL!PluginDeactivationFails, PLP!PluginDeactivationFails
<1> QED
  BY <1>4, <1>5, <1>6 DEF PL!Request, PLP!Request, PL!Resume, PLP!Resume

\* The loader in a platform is a plugin loader: the lifecycle and the gates of
\* start() and stop() never take it where it could not go.
THEOREM PlatformRefinesLoader == Spec => PLP!Spec
<1>1. Init => PLP!Init
  BY DEF Init, PL!Init, PLP!Init
<1>2. [Next]_vars => [PLP!Next]_PLP!vars
  <2>1. ASSUME NEW t \in Tasks, Request(t) \/ Resume(t)
        PROVE  PL!Request(t) \/ PL!Resume(t) \/ UNCHANGED plugins
    BY <2>1 DEF Request, Resume, AddHook, InstallPlugin, Start, Stop, AfterLifecycleStart,
         StartGoesOnFromHook, StartGoesOnFromPlugin, StopGoesOnFromPlugin,
         StopGoesOnFromHook, PL!Request
  <2>2. UNCHANGED vars => UNCHANGED plugins
    BY DEF vars
  <2>3. UNCHANGED plugins => UNCHANGED PLP!vars
    BY DEF plugins, PLP!vars
  <2> QED
    BY <2>1, <2>2, <2>3, SameLoader DEF Next, PLP!Next
<1> QED
  BY <1>1, <1>2, PTL DEF Spec, PLP!Spec

LEMMA PluginTypes == Spec => []PL!TypeOK
<1>1. PLP!TypeOK => PL!TypeOK
  BY SameBatches DEF PL!TypeOK, PLP!TypeOK, PL!IsInjective, PLP!IsInjective,
     PL!Ended, PLP!Ended, PL!Awaiting, PLP!Awaiting, PL!Calls, PLP!Calls
<1>2. Spec => []PLP!TypeOK
  BY PlatformRefinesLoader, PLP!LoaderTypes, PlatformAssumption DEF PLP!PluginAssumption
<1> QED
  BY <1>1, <1>2, PTL

\* deactivate_all() with the names q still to visit, when every active one of A
\* is among them.
LEMMA Deactivating ==
    ASSUME NEW t \in Tasks, NEW S, NEW q \in Seq(S), NEW A, A \subseteq PL!ToSet(q),
           PL!DeactivateNext(t, q, A),
           t \in DOMAIN doing, t \in DOMAIN on, t \in DOMAIN todo
    PROVE  \/ doing'[t] = "idle" /\ A = {}
           \/ doing'[t] = "raised" /\ A # {}
           \/ /\ doing'[t] = "deactivating" /\ A # {}
              /\ todo'[t] \in Seq(S)
              /\ A \subseteq PL!ToSet(todo'[t]) \cup {on'[t]}
<1>1. A \subseteq PLP!ToSet(q) /\ PLP!DeactivateNext(t, q, A)
  BY SameBatches
<1> QED
  BY <1>1, SameBatches, PLP!Deactivating, PlatformAssumption DEF PLP!PluginAssumption

\* A plugin's deactivate() has ended, and deactivate_all() goes on or raises.
LEMMA DeactivationGoesOn ==
    ASSUME NEW t \in Tasks, NEW S, todo[t] \in Seq(S),
           activated \subseteq PL!ToSet(todo[t]) \cup {on[t]},
           doing[t] = "deactivating", PL!Resume(t),
           t \in DOMAIN doing, t \in DOMAIN on, t \in DOMAIN todo
    PROVE  /\ activated' \subseteq activated
           /\ \/ doing'[t] = "idle" /\ activated' = {}
              \/ doing'[t] = "raised"
              \/ /\ doing'[t] = "deactivating"
                 /\ todo'[t] \in Seq(S)
                 /\ activated' \subseteq PL!ToSet(todo'[t]) \cup {on'[t]}
<1>1. PLP!Resume(t)
  BY SameLoader
<1>2. activated \subseteq PLP!ToSet(todo[t]) \cup {on[t]}
  BY SameBatches
<1> QED
  BY <1>1, <1>2, SameBatches, PLP!DeactivationGoesOn, PlatformAssumption
     DEF PLP!PluginAssumption

-----------------------------------------------------------------------------
(***************************************************************************)
(* The inductive invariant.                                                *)
(***************************************************************************)

\* A task that start() and stop() do not have in the lifecycle is out of it.
Outside(t) == stage[t] \notin {"starting", "stopping"} => pc[t] \in LM!Outcomes

\* What one task that starts and stops the platform by itself knows of the
\* lifecycle and of the plugins at each stage: while it deactivates, every
\* active plugin is the one it awaits or still on its list.
Knows(t) ==
    /\ stage[t] \in {"activating", "started"} => phase = "RUNNING"
    /\ stage[t] = "start raised" => phase \in {"RUNNING", "FAILED", "STOPPED"}
    /\ stage[t] = "deactivating" =>
          /\ phase # "CREATED"
          /\ \E S : /\ todo[t] \in Seq(S)
                    /\ activated \subseteq PL!ToSet(todo[t]) \cup {on[t]}
    /\ stage[t] = "stopping" /\ doing[t] = "idle" => activated = {}
    /\ stage[t] = "stopped" => activated = {} /\ phase \in {"CREATED", "STOPPED"}
    /\ stage[t] = "stop raised" => phase = "STOPPED"

Shape == IsFiniteSet(activated) /\ DOMAIN on = Tasks /\ DOMAIN todo = Tasks

OInv ==
    /\ IInv
    /\ Shape
    /\ \A t \in Tasks : Outside(t)
    /\ \A t \in Tasks : OnlyController(t) => Knows(t)

LEMMA InitKnows == Init => OInv
<1> SUFFICES ASSUME Init PROVE OInv
  OBVIOUS
<1>1. Shape
  BY FS_EmptySet DEF Init, PL!Init, Shape
<1>2. ASSUME NEW t \in Tasks PROVE stage[t] = "new" /\ pc[t] = "idle"
  BY DEF Init, LM!Init
<1> QED
  BY <1>1, <1>2, InitOK DEF OInv, Outside, Knows, LM!Outcomes

(***************************************************************************)
(* A step of start() or stop() is one of its task, which has then called   *)
(* one of them.                                                            *)
(***************************************************************************)
LEMMA AfterActivateEnters ==
    ASSUME IInv, NEW t \in Tasks, NEW d \in PL!Ended \cup {"activating"},
           Does(t, d), AfterActivateAll(t)
    PROVE  Enter(t, IF d = "activating" THEN "activating"
                    ELSE IF d = "idle" THEN "started" ELSE "start raised")
BY After DEF AfterActivateAll, PL!Ended

LEMMA AfterStartEnters ==
    ASSUME IInv, NEW t \in Tasks, AfterLifecycleStart(t)
    PROVE  \/ pc'[t] \notin LM!Outcomes /\ Enter(t, "starting") /\ UNCHANGED plugins
           \/ pc'[t] = "raised" /\ Enter(t, "start raised") /\ UNCHANGED plugins
           \/ /\ pc'[t] = "idle"
              /\ \E s \in {"activating", "started", "start raised"} : Enter(t, s)
<1>1. CASE pc'[t] = "idle" /\ PL!ActivateAll(t) /\ AfterActivateAll(t)
  <2>1. PICK d \in PL!Ended \cup {"activating"} : Does(t, d)
    BY <1>1, ActivateMoves DEF PL!ActivateAll
  <2> QED
    BY <1>1, <2>1, AfterActivateEnters
<1> QED
  BY <1>1 DEF AfterLifecycleStart

LEMMA StartEnters ==
    ASSUME IInv, NEW t \in Tasks,
           Start(t) \/ StartGoesOnFromHook(t) \/ StartGoesOnFromPlugin(t)
    PROVE  \E s \in {"starting", "activating", "started", "start raised"} : Enter(t, s)
<1>1. CASE Start(t) \/ StartGoesOnFromHook(t)
  BY <1>1, AfterStartEnters DEF Start, StartGoesOnFromHook
<1>2. CASE StartGoesOnFromPlugin(t)
  <2>1. PL!Resume(t) /\ doing[t] = "activating" /\ AfterActivateAll(t)
    BY <1>2 DEF StartGoesOnFromPlugin, IInv, Where, PL!Awaiting
  <2>2. PICK d \in PL!Ended \cup {"activating"} : Does(t, d)
    BY <2>1, PluginResumes
  <2> QED
    BY <2>1, <2>2, AfterActivateEnters
<1> QED
  BY <1>1, <1>2

LEMMA StopEnters ==
    ASSUME NEW t \in Tasks,
           Stop(t) \/ StopGoesOnFromPlugin(t) \/ StopGoesOnFromHook(t)
    PROVE  \E s \in {"deactivating", "stopping", "stopped", "stop raised"} : Enter(t, s)
<1>1. AfterDeactivateAll(t) \/ AfterLifecycleStop(t)
  BY DEF Stop, StopGoesOnFromPlugin, StopGoesOnFromHook
<1> QED
  BY <1>1 DEF AfterDeactivateAll, AfterLifecycleStop

LEMMA Enters ==
    ASSUME IInv, NEW t \in Tasks, Start(t) \/ Stop(t) \/ Resume(t)
    PROVE  \E s \in (Done \cup Busy) \ {"new"} : Enter(t, s)
BY StartEnters, StopEnters DEF Resume, Done, Busy

LEMMA ShapeKept ==
    ASSUME OInv, NEW t \in Tasks, Request(t) \/ Resume(t)
    PROVE  Shape'
<1>1. UNCHANGED <<activated, on, todo>> => Shape'
  BY DEF OInv, Shape
<1>2. ASSUME NEW d, NEW p, NEW q, PL!Await(t, d, p, q),
             \/ activated' \subseteq activated
             \/ activated' = activated \cup {on[t]}
      PROVE  Shape'
  <2>1. IsFiniteSet(activated')
    BY <1>2, FS_Subset, FS_AddElement DEF OInv, Shape
  <2> QED
    BY <1>2, <2>1 DEF OInv, Shape, PL!Await
<1>3. CASE PL!Install(t) \/ PL!InstallViolatesContract(t) \/ PL!Uninstall(t)
  BY <1>2, <1>3 DEF PL!Install, PL!InstallViolatesContract, PL!Uninstall, PL!End
<1>4. CASE PL!ActivateAll(t) \/ PL!DeactivateAll(t)
  BY <1>2, <1>4
     DEF PL!ActivateAll, PL!DeactivateAll, PL!ActivateNext, PL!DeactivateNext, PL!End
<1>5. CASE PL!Resume(t)
  <2>1. CASE PL!PluginActivated(t)
    <3>1. activated' = activated \cup {on[t]} /\ PL!ActivateNext(t, todo[t], activated')
      BY <2>1 DEF PL!PluginActivated
    <3> QED
      BY <1>2, <3>1 DEF PL!ActivateNext, PL!End
  <2>2. CASE PL!PluginDeactivated(t)
    <3>1. activated' \subseteq activated /\ PL!DeactivateNext(t, todo[t], activated')
      BY <2>2 DEF PL!PluginDeactivated, PL!Discard
    <3> QED
      BY <1>2, <3>1 DEF PL!DeactivateNext, PL!End
  <2>3. CASE PL!PluginActivationFails(t) \/ PL!PluginDeactivationFails(t)
    BY <1>2, <2>3
       DEF PL!PluginActivationFails, PL!PluginDeactivationFails, PL!Discard, PL!End
  <2> QED
    BY <1>5, <2>1, <2>2, <2>3 DEF PL!Resume
<1>6. UNCHANGED plugins => UNCHANGED <<activated, on, todo>>
  BY DEF plugins
<1> QED
  BY <1>1, <1>3, <1>4, <1>5, <1>6
     DEF Request, Resume, AddHook, InstallPlugin, Start, Stop, AfterLifecycleStart,
         StartGoesOnFromHook, StartGoesOnFromPlugin, StopGoesOnFromPlugin,
         StopGoesOnFromHook

\* The task of a step is out of the lifecycle when the step takes it out of
\* start() and stop(), or leaves it out.
LEMMA OutsideKept ==
    ASSUME OInv, NEW t \in Tasks, Request(t) \/ Resume(t)
    PROVE  Outside(t)'
<1>1. CASE AddHook(t)
  <2>1. PICK w \in LM!Outcomes : Moves(t, w)
    BY <1>1, CallIsOver DEF AddHook
  <2> QED
    BY <2>1, After DEF OInv, Outside
<1>2. CASE InstallPlugin(t)
  BY <1>2 DEF InstallPlugin, lifecycle, OInv, Outside
<1>3. CASE Start(t) \/ StartGoesOnFromHook(t)
  <2>1. AfterLifecycleStart(t)
    BY <1>3 DEF Start, StartGoesOnFromHook
  <2>2. CASE Enter(t, "starting")
    BY <2>2, After DEF OInv, Outside
  <2>3. CASE pc'[t] \in {"idle", "raised"}
    BY <2>3 DEF Outside, LM!Outcomes
  <2> QED
    BY <2>1, <2>2, <2>3, AfterStartEnters DEF OInv
<1>4. CASE StartGoesOnFromPlugin(t)
  BY <1>4 DEF StartGoesOnFromPlugin, lifecycle, OInv, Outside
<1>5. ASSUME AfterLifecycleStop(t), pc'[t] \in {"idle", "raised", "stopping"}
      PROVE  Outside(t)'
  <2>1. CASE pc'[t] = "stopping"
    <3>1. Enter(t, "stopping")
      BY <1>5, <2>1 DEF AfterLifecycleStop
    <3> QED
      BY <3>1, After DEF OInv, Outside
  <2> QED
    BY <1>5, <2>1 DEF Outside, LM!Outcomes
<1>6. CASE StopGoesOnFromHook(t)
  <2>1. pc[t] = "stopping" /\ LM!Resume(t) /\ AfterLifecycleStop(t)
    BY <1>6 DEF StopGoesOnFromHook, OInv, IInv, Where
  <2>2. \E w \in {"idle", "stopping"} : Moves(t, w)
    BY <2>1, ResumeMoves
  <2> QED
    BY <1>5, <2>1, <2>2, After DEF OInv
<1>7. CASE Stop(t) \/ StopGoesOnFromPlugin(t)
  <2>1. AfterDeactivateAll(t) /\ (UNCHANGED lifecycle => pc[t] \in LM!Outcomes)
    BY <1>7 DEF Stop, StopGoesOnFromPlugin, OInv, Outside, Free, Done
  <2>2. CASE UNCHANGED lifecycle
    BY <2>1, <2>2 DEF lifecycle, Outside
  <2>3. CASE /\ LM!Stop(t) \/ LM!StopIsNoop(t) \/ LM!StopRefused(t)
             /\ AfterLifecycleStop(t)
    <3>1. \E w \in {"idle", "raised", "stopping"} : Moves(t, w)
      BY <2>3, StopMoves, CallIsOver DEF LM!Outcomes
    <3> QED
      BY <1>5, <2>3, <3>1, After DEF OInv
  <2> QED
    BY <2>1, <2>2, <2>3 DEF AfterDeactivateAll
<1> QED
  BY <1>1, <1>2, <1>3, <1>4, <1>6, <1>7 DEF Request, Resume

(***************************************************************************)
(* What the steps of a task by itself come to know.                        *)
(***************************************************************************)

\* With one task in start() and stop(), that one takes the lifecycle up and
\* down: it is in neither when the task is not.
LEMMA AloneInCharge ==
    ASSUME OInv, LMP!InCharge, NEW t \in Tasks, OnlyController(t)
    PROVE  /\ phase = "STARTING" => pc[t] = "starting"
           /\ phase = "STOPPING" => pc[t] = "stopping"
<1>1. \A u \in Tasks \ {t} : pc[u] \in LM!Outcomes
  BY DEF OInv, Outside, OnlyController
<1> QED
  BY <1>1 DEF LMP!InCharge, LM!Outcomes

\* lifecycle.start() has moved t to w.
LEMMA KnowsAfterStart ==
    ASSUME OInv, NEW t \in Tasks, NEW w, Moves(t, w), AfterLifecycleStart(t),
           w = "idle" => phase' = "RUNNING",
           w = "raised" => phase' \in {"RUNNING", "FAILED", "STOPPED"}
    PROVE  Knows(t)'
<1>1. pc'[t] = w
  BY After DEF OInv
<1>2. CASE Enter(t, "starting")
  BY <1>2, After DEF OInv, Knows
<1>3. CASE w = "raised" /\ Enter(t, "start raised")
  <2>1. stage'[t] = "start raised"
    BY <1>3, After DEF OInv
  <2> QED
    BY <1>3, <2>1 DEF Knows
<1>4. ASSUME w = "idle", NEW s \in {"activating", "started", "start raised"}, Enter(t, s)
      PROVE  Knows(t)'
  <2>1. stage'[t] = s /\ phase' = "RUNNING"
    BY <1>4, After DEF OInv
  <2> QED
    BY <2>1 DEF Knows
<1> QED
  BY <1>1, <1>2, <1>3, <1>4, AfterStartEnters DEF OInv

\* deactivate_all() has ended with d, and lifecycle.stop() has moved t to w.
LEMMA KnowsAfterStop ==
    ASSUME OInv, NEW t \in Tasks, NEW w \in {"idle", "stopping"}, NEW d \in PL!Ended,
           Moves(t, w), doing'[t] = d, AfterLifecycleStop(t),
           d = "idle" => activated' = {},
           w = "idle" => phase' \in {"CREATED", "STOPPED"},
           w = "idle" /\ d = "raised" => phase' = "STOPPED"
    PROVE  Knows(t)'
<1>1. pc'[t] = w
  BY After DEF OInv
<1>2. CASE w = "stopping"
  <2>1. stage'[t] = "stopping"
    BY <1>1, <1>2, After DEF OInv, AfterLifecycleStop
  <2> QED
    BY <2>1 DEF Knows
<1>3. CASE w = "idle" /\ d = "raised"
  <2>1. stage'[t] = "stop raised"
    BY <1>1, <1>3, After DEF OInv, AfterLifecycleStop
  <2> QED
    BY <1>3, <2>1 DEF Knows
<1>4. CASE w = "idle" /\ d = "idle"
  <2>1. stage'[t] = "stopped"
    BY <1>1, <1>4, After DEF OInv, AfterLifecycleStop
  <2> QED
    BY <1>4, <2>1 DEF Knows
<1> QED
  BY <1>2, <1>3, <1>4 DEF PL!Ended

\* deactivate_all() has ended or awaits a plugin, in a lifecycle that is not
\* coming up or going down.
LEMMA KnowsAfterDeactivation ==
    ASSUME OInv, NEW t \in Tasks, AfterDeactivateAll(t), NEW S,
           phase \notin {"STARTING", "STOPPING"},
           \/ doing'[t] = "idle" /\ activated' = {}
           \/ doing'[t] = "raised" /\ phase # "CREATED"
           \/ /\ doing'[t] = "deactivating" /\ phase # "CREATED"
              /\ todo'[t] \in Seq(S)
              /\ activated' \subseteq PL!ToSet(todo'[t]) \cup {on'[t]}
    PROVE  Knows(t)'
<1>1. CASE doing'[t] = "deactivating"
  <2>1. stage'[t] = "deactivating" /\ phase' = phase
    BY <1>1, After DEF OInv, AfterDeactivateAll, PL!Ended, lifecycle
  <2> QED
    BY <1>1, <2>1 DEF Knows
<1>2. CASE doing'[t] \in PL!Ended
  <2>1. /\ LM!Stop(t) \/ LM!StopIsNoop(t)
        /\ AfterLifecycleStop(t)
    BY <1>2 DEF AfterDeactivateAll, PL!Ended, LM!StopRefused
  <2>2. CASE LM!Stop(t)
    BY <1>2, <2>1, <2>2, StopMoves, KnowsAfterStop
  <2>3. CASE LM!StopIsNoop(t)
    <3>1. phase' = phase /\ phase \in {"CREATED", "STOPPED"} /\ Moves(t, "idle")
      BY <2>3 DEF LM!StopIsNoop, LM!Goto, Moves
    <3> QED
      BY <1>2, <2>1, <3>1, KnowsAfterStop
  <2> QED
    BY <2>1, <2>2, <2>3
<1> QED
  BY <1>1, <1>2 DEF PL!Ended

LEMMA OwnStep ==
    ASSUME OInv, LMP!IInv, LMP!InCharge, NEW t \in Tasks, OnlyController(t),
           Request(t) \/ Resume(t)
    PROVE  Knows(t)'
<1>1. /\ IInv /\ Where(t) /\ Knows(t)
      /\ t \in DOMAIN doing /\ t \in DOMAIN on /\ t \in DOMAIN todo
  BY DEF OInv, Shape, IInv, Types
<1>2. CASE AddHook(t)
  <2>1. phase' = phase /\ UNCHANGED <<plugins, stage>>
    BY <1>2, CallIsOver DEF AddHook
  <2> QED
    BY <1>1, <2>1 DEF Knows, plugins
<1>3. CASE InstallPlugin(t)
  <2>1. phase' = phase /\ stage' = stage /\ activated' = activated /\ Free(t)
    BY <1>3, InstallMoves DEF InstallPlugin, lifecycle
  <2>2. stage[t] \notin {"deactivating", "stopping"}
    BY <1>1, <2>1, FreeIsOut
  <2> QED
    BY <1>1, <2>1, <2>2 DEF Knows
<1>4. CASE Start(t)
  <2>1. AfterLifecycleStart(t) /\ Free(t)
    BY <1>4 DEF Start
  <2>2. CASE LM!Start(t)
    BY <2>1, <2>2, StartMoves, KnowsAfterStart
  <2>3. CASE LM!Refused(t)
    <3>1. phase' = phase /\ phase # "CREATED" /\ Moves(t, "raised")
      BY <2>3 DEF LM!Refused, LM!Goto, Moves
    <3>2. phase \notin {"STARTING", "STOPPING"}
      BY <1>1, <2>1, AloneInCharge, FreeIsOut DEF Outside, OInv, LM!Outcomes
    <3>3. phase \in {"RUNNING", "FAILED", "STOPPED"}
      BY <3>1, <3>2 DEF LMP!IInv, LMP!TypeOK, LMP!Phases
    <3> QED
      BY <2>1, <3>1, <3>3, KnowsAfterStart
  <2> QED
    BY <1>4, <2>2, <2>3 DEF Start
<1>5. CASE StartGoesOnFromHook(t)
  <2>1. LM!Resume(t) /\ AfterLifecycleStart(t) /\ pc[t] \in {"starting", "rollback"}
    BY <1>1, <1>5 DEF StartGoesOnFromHook, Where
  <2>2. pc[t] = "rollback" => phase \in {"FAILED", "STOPPED"}
    BY <1>1, AloneInCharge DEF Where
  <2> QED
    BY <2>1, <2>2, ResumeMoves, KnowsAfterStart
<1>6. CASE StartGoesOnFromPlugin(t)
  <2>1. /\ PL!Resume(t) /\ AfterActivateAll(t) /\ phase' = phase
        /\ doing[t] = "activating" /\ phase = "RUNNING"
    BY <1>1, <1>6 DEF StartGoesOnFromPlugin, Where, PL!Awaiting, Knows, lifecycle
  <2>2. PICK d \in PL!Ended \cup {"activating"} : Does(t, d)
    BY <2>1, PluginResumes
  <2>3. PICK s \in {"activating", "started", "start raised"} : Enter(t, s)
    BY <1>1, <2>1, <2>2, AfterActivateEnters
  <2>4. stage'[t] = s
    BY <1>1, <2>3, After
  <2> QED
    BY <2>1, <2>4 DEF Knows
<1>7. CASE Stop(t)
  <2>1. /\ AfterDeactivateAll(t) /\ Free(t) /\ activated' = activated
        /\ \E q \in PL!SetToSeqs(activated) : PL!DeactivateNext(t, q, activated)
    BY <1>7 DEF Stop, PL!DeactivateAll
  <2>2. phase \notin {"STARTING", "STOPPING"}
    BY <1>1, <2>1, AloneInCharge, FreeIsOut DEF Outside, OInv, LM!Outcomes
  <2>3. PICK q \in PL!SetToSeqs(activated) : PL!DeactivateNext(t, q, activated)
    BY <2>1
  <2>4. q \in Seq(activated) /\ activated \subseteq PL!ToSet(q)
    BY SameBatches, PLP!ListedAll, PlatformAssumption
       DEF OInv, Shape, PLP!PluginAssumption, IsFiniteSet, PLP!IsFiniteSet
  <2>5. phase = "CREATED" => activated = {}
    BY <1>1 DEF IInv, Early
  <2>6. \/ doing'[t] = "idle" /\ activated = {}
        \/ doing'[t] = "raised" /\ activated # {}
        \/ /\ doing'[t] = "deactivating" /\ activated # {}
           /\ todo'[t] \in Seq(activated)
           /\ activated \subseteq PL!ToSet(todo'[t]) \cup {on'[t]}
    BY <1>1, <2>3, <2>4, Deactivating
  <2> QED
    BY <2>1, <2>2, <2>5, <2>6, KnowsAfterDeactivation
<1>8. CASE StopGoesOnFromPlugin(t)
  <2>1. /\ PL!Resume(t) /\ AfterDeactivateAll(t) /\ doing[t] = "deactivating"
        /\ stage[t] = "deactivating"
    BY <1>1, <1>8 DEF StopGoesOnFromPlugin, Where, PL!Awaiting
  <2>2. phase \notin {"CREATED", "STARTING", "STOPPING"}
    BY <1>1, <2>1, AloneInCharge DEF Knows, Outside, OInv, LM!Outcomes
  <2>3. PICK S : /\ todo[t] \in Seq(S)
                 /\ activated \subseteq PL!ToSet(todo[t]) \cup {on[t]}
    BY <1>1, <2>1 DEF Knows
  <2> QED
    BY <1>1, <2>1, <2>2, <2>3, DeactivationGoesOn, KnowsAfterDeactivation
<1>9. CASE StopGoesOnFromHook(t)
  <2>1. /\ LM!Resume(t) /\ UNCHANGED plugins /\ AfterLifecycleStop(t)
        /\ pc[t] = "stopping" /\ stage[t] = "stopping"
    BY <1>1, <1>9 DEF StopGoesOnFromHook, Where
  <2>2. doing'[t] = doing[t] /\ activated' = activated /\ doing[t] \in PL!Ended
    BY <1>1, <2>1 DEF plugins, IInv, Types, Where, PL!Awaiting
  <2>3. doing[t] = "idle" => activated = {}
    BY <1>1, <2>1 DEF Knows
  <2>4. PICK w \in {"idle", "stopping"} : Moves(t, w) /\ (w = "idle" => phase' = "STOPPED")
    BY <2>1, ResumeMoves
  <2> QED
    BY <2>1, <2>2, <2>3, <2>4, KnowsAfterStop
<1> QED
  BY <1>2, <1>3, <1>4, <1>5, <1>6, <1>7, <1>8, <1>9 DEF Request, Resume

\* Another task's step changes nothing that t knows, unless it is the first of
\* a start() or stop() of its own.
LEMMA OthersStep ==
    ASSUME OInv, NEW t \in Tasks, NEW a \in Tasks \ {t}, Request(a) \/ Resume(a),
           OnlyController(t), stage'[a] = "new", Knows(t)
    PROVE  Knows(t)'
<1>1. AddHook(a) \/ InstallPlugin(a)
  BY Enters, After DEF Request, OInv
<1>2. CASE AddHook(a)
  <2>1. phase' = phase /\ UNCHANGED <<plugins, stage>>
    BY <1>2, CallIsOver DEF AddHook
  <2> QED
    BY <2>1 DEF Knows, plugins
<1>3. CASE InstallPlugin(a)
  <2>1. /\ phase' = phase /\ stage' = stage /\ activated' = activated
        /\ \E d, p, q : PL!Await(a, d, p, q)
    BY <1>3, InstallMoves DEF InstallPlugin, lifecycle, PL!Install,
       PL!InstallViolatesContract, PL!Uninstall, PL!End
  <2>2. doing'[t] = doing[t] /\ on'[t] = on[t] /\ todo'[t] = todo[t]
    BY <2>1 DEF PL!Await, OInv, Shape, IInv, Types
  <2> QED
    BY <2>1, <2>2 DEF Knows
<1> QED
  BY <1>1, <1>2, <1>3

LEMMA OutcomeStep == OInv /\ LMP!IInv /\ LMP!InCharge /\ [Next]_vars => OInv'
<1> SUFFICES ASSUME OInv, LMP!IInv, LMP!InCharge, [Next]_vars PROVE OInv'
  OBVIOUS
<1>1. CASE UNCHANGED vars
  <2>1. IInv'
    BY <1>1, Inductive DEF OInv
  <2> QED
    BY <1>1, <2>1 DEF vars, lifecycle, plugins, OInv, Shape, Outside, Knows, OnlyController
<1>2. ASSUME NEW a \in Tasks, Request(a) \/ Resume(a) PROVE OInv'
  <2>1. IInv' /\ Shape'
    BY <1>2, Inductive, ShapeKept DEF OInv, Next
  <2>2. PICK s : /\ Enter(a, s)
                 /\ s = "new" => stage[a] = "new"
    <3>1. CASE Start(a) \/ Stop(a) \/ Resume(a)
      BY <3>1, Enters DEF OInv
    <3>2. CASE AddHook(a) \/ InstallPlugin(a)
      <4>1. Enter(a, stage[a])
        BY <3>2, Still DEF AddHook, InstallPlugin, OInv
      <4> QED
        BY <4>1
    <3> QED
      BY <1>2, <3>1, <3>2 DEF Request
  <2>3. \A u \in Tasks : stage'[u] = IF u = a THEN s ELSE stage[u]
    BY <2>2 DEF Enter, OInv, IInv, Types
  <2>4. ASSUME NEW t \in Tasks PROVE Outside(t)'
    <3>1. CASE t = a
      BY <1>2, <3>1, OutsideKept
    <3>2. CASE t # a
      <4>1. pc'[t] = pc[t]
        <5>1. UNCHANGED pc \/ \E w : Moves(a, w)
          BY <1>2, CallIsOver, StartMoves, StopMoves, ResumeMoves
             DEF Request, Resume, AddHook, InstallPlugin, Start, Stop, AfterDeactivateAll,
                 StartGoesOnFromHook, StartGoesOnFromPlugin, StopGoesOnFromPlugin,
                 StopGoesOnFromHook, lifecycle
        <5> QED
          BY <3>2, <5>1 DEF Moves, OInv, IInv, Types
      <4> QED
        BY <2>3, <3>2, <4>1 DEF OInv, Outside
    <3> QED
      BY <3>1, <3>2
  <2>5. ASSUME NEW t \in Tasks, OnlyController(t)' PROVE Knows(t)'
    <3>1. OnlyController(t)
      BY <2>2, <2>3, <2>5 DEF OnlyController
    <3>2. CASE t = a
      BY <1>2, <3>1, <3>2, OwnStep
    <3>3. CASE t # a
      <4>1. a \in Tasks \ {t} /\ stage'[a] = "new" /\ Knows(t)
        BY <2>5, <3>1, <3>3 DEF OnlyController, OInv
      <4> QED
        BY <1>2, <3>1, <4>1, OthersStep
    <3> QED
      BY <3>2, <3>3
  <2> QED
    BY <2>1, <2>4, <2>5 DEF OInv
<1> QED
  BY <1>1, <1>2 DEF Next

\* Together with what is known of the manager, that is inductive: it holds at
\* every point of start() and stop().
THEOREM OutcomeInvariant == Spec => [](OInv /\ LMP!IInv /\ LMP!InCharge)
BY InitKnows, OutcomeStep, PlatformKeepsOrder, PTL DEF Spec

-----------------------------------------------------------------------------
\* With one task in start() and stop(), what is left started when neither is
\* under way is what the phase says: every hook, or none with a stop function.
LEMMA AtRest ==
    ASSUME OInv, LMP!IInv, NEW t \in Tasks, OnlyController(t),
           stage[t] \notin {"starting", "stopping"}
    PROVE  /\ phase = "RUNNING" => started = LM!Hooks
           /\ phase \in {"CREATED", "FAILED", "STOPPED"} => LM!Owed(started) = {}
<1>1. \A u \in Tasks : pc[u] \in LM!Outcomes
  BY DEF OInv, Outside, OnlyController
<1>2. phase = "RUNNING" => started = LM!Hooks
  BY DEF LMP!IInv, LMP!StartOrder, LMP!Hooks, LM!Hooks
<1>3. phase = "CREATED" => LM!Owed(started) = {}
  BY DEF LMP!IInv, LMP!WhoMayBeWhere, LM!Owed
<1>4. phase \in {"FAILED", "STOPPED"} => LM!Owed(started) = {}
  BY <1>1 DEF LMP!IInv, LMP!DownWhenOver, LMP!Owed, LM!Owed, LM!Outcomes, LMP!Rolling
<1> QED
  BY <1>2, <1>3, <1>4

\* A start() that returns leaves the lifecycle running with every hook up; one
\* that raises leaves nothing up, or, for a plugin's failure, every hook.
THEOREM StartEndsWell == Spec => []StartOutcome
<1>1. OInv /\ LMP!IInv => StartOutcome
  <2> SUFFICES ASSUME OInv, LMP!IInv, NEW t \in Tasks, OnlyController(t),
                      stage[t] \in {"started", "start raised"}
               PROVE  \/ phase = "RUNNING" /\ started = LM!Hooks
                      \/ /\ stage[t] = "start raised" /\ phase \in {"FAILED", "STOPPED"}
                         /\ LM!Owed(started) = {}
    BY DEF StartOutcome
  <2>1. Knows(t)
    BY DEF OInv
  <2> QED
    BY <2>1, AtRest DEF Knows
<1> QED
  BY <1>1, OutcomeInvariant, PTL

\* A stop() that returns leaves no plugin active and nothing to stop; one that
\* raises leaves nothing to stop either.
THEOREM StopEndsWell == Spec => []StopOutcome
<1>1. OInv /\ LMP!IInv => StopOutcome
  <2> SUFFICES ASSUME OInv, LMP!IInv, NEW t \in Tasks, OnlyController(t)
               PROVE  /\ stage[t] = "stopped" => activated = {} /\ phase \in {"CREATED", "STOPPED"}
                      /\ stage[t] = "stop raised" => phase = "STOPPED"
                      /\ stage[t] \in {"stopped", "stop raised"} => LM!Owed(started) = {}
    BY DEF StopOutcome
  <2>1. Knows(t)
    BY DEF OInv
  <2> QED
    BY <2>1, AtRest DEF Knows
<1> QED
  BY <1>1, OutcomeInvariant, PTL

\* No stop hook runs while a plugin is active or in a call of its own, unless
\* the plugins' deactivation has failed.
THEOREM PluginsLeaveFirst == Spec => []HooksOutlivePlugins
<1>1. OInv => HooksOutlivePlugins
  <2> SUFFICES ASSUME OInv, NEW t \in Tasks, OnlyController(t), stage[t] = "stopping",
                      doing[t] # "raised"
               PROVE  activated = {} /\ \A u \in Tasks : doing[u] \notin PL!Awaiting
    BY DEF HooksOutlivePlugins
  <2>1. \A u \in Tasks : doing[u] \notin PL!Awaiting
    BY DEF OInv, IInv, Where, OnlyController, PL!Awaiting
  <2>2. doing[t] = "idle" /\ Knows(t)
    BY <2>1 DEF OInv, IInv, Types, PL!Ended
  <2> QED
    BY <2>1, <2>2 DEF Knows
<1> QED
  BY <1>1, OutcomeInvariant, PTL
-----------------------------------------------------------------------------
\* A platform is well typed, lifecycle and plugins included, its tasks are in
\* the halves of start() and stop() that their stages say, and no two of them
\* are in start(), the activation of the plugins after the hooks included.
THEOREM PlatformInvariant == Spec => []PlatformInv
<1>1. OInv /\ LMP!IInv /\ PL!TypeOK => PlatformInv
  <2> SUFFICES ASSUME OInv, LMP!IInv, PL!TypeOK PROVE PlatformInv
    OBVIOUS
  <2>1. LM!TypeOK
    BY DEF LMP!IInv, LMP!TypeOK, LM!TypeOK, LMP!Phases, LM!Phases, LMP!Hooks, LM!Hooks,
           LMP!Outcomes, LM!Outcomes, LMP!Rolling, LM!Rolling
  <2>2. stage \in [Tasks -> Done \cup Busy] /\ OneStart
    BY DEF OInv, IInv, Types
  <2>3. ASSUME NEW t \in Tasks
        PROVE  /\ pc[t] \in LM!Outcomes <=> stage[t] \notin {"starting", "stopping"}
               /\ doing[t] \in PL!Awaiting => stage[t] = doing[t]
    <3>1. Where(t) /\ Outside(t)
      BY DEF OInv, IInv
    <3> QED
      BY <3>1 DEF Where, Outside, LM!Outcomes
  <2> QED
    BY <2>1, <2>2, <2>3 DEF PlatformInv, TypeOK
<1> QED
  BY <1>1, OutcomeInvariant, PluginTypes, PTL

-----------------------------------------------------------------------------
(***************************************************************************)
(* The application that runs the platform.                                 *)
(***************************************************************************)

\* A run of the application is one of its platform: run_platform does nothing
\* to it that a client might not, and the clients do what they may.
THEOREM ApplicationRefinesPlatform == AppSpec => Spec
<1>1. AppInit => Init
  BY DEF AppInit
<1>2. [AppNext]_appVars => [Next]_vars
  <2>1. CASE UNCHANGED appVars
    BY <2>1 DEF appVars
  <2>2. CASE Run \/ Signal
    <3>1. Request(main) \/ Resume(main) \/ UNCHANGED vars
      BY <2>2 DEF Run, Signal, RunPlatform, StartGoesOn, AwaitShutdown,
           Leave, LeaveWithError, StopGoesOn, Request, Resume
    <3> QED
      BY <3>1, ApplicationAssumption DEF Next
  <2>3. CASE User
    BY <2>3 DEF User, UserCalls, UserCallGoesOn, Next
  <2> QED
    BY <2>1, <2>2, <2>3 DEF AppNext
<1> QED
  BY <1>1, <1>2, PTL DEF AppSpec, Spec

(***************************************************************************)
(* Once platform.start() has returned, the lifecycle only goes down and no *)
(* plugin is activated any more, whoever does what: start() is refused.    *)
(***************************************************************************)
Late == {"RUNNING", "STOPPING", "STOPPED"}

OnlyDown ==
    /\ phase \in Late
    /\ \A t \in Tasks : stage[t] \notin {"starting", "activating"}

\* A step that one task takes then.
LEMMA DownStep ==
    ASSUME OInv, OnlyDown, NEW a \in Tasks, Request(a) \/ Resume(a)
    PROVE  /\ OnlyDown'
           /\ phase = "STOPPED" => phase' = "STOPPED"
           /\ phase = "STOPPING" => phase' \in {"STOPPING", "STOPPED"}
           /\ activated' \subseteq activated
           /\ pc'[a] = "stopping" => pc[a] = "stopping" \/ phase = "RUNNING"
<1> DEFINE Falls == /\ phase' \in Late
                    /\ phase = "STOPPED" => phase' = "STOPPED"
                    /\ phase = "STOPPING" => phase' \in {"STOPPING", "STOPPED"}
                    /\ pc'[a] = "stopping" => pc[a] = "stopping" \/ phase = "RUNNING"
           Ends(s) == Enter(a, s) /\ s \notin {"starting", "activating"}
<1>1. IInv /\ Where(a) /\ stage[a] \notin {"starting", "activating"}
  BY DEF OInv, IInv, OnlyDown
<1>2. phase # "CREATED" /\ phase # "FAILED" /\ phase \in Late
  BY DEF OnlyDown, Late
<1>3. ASSUME LM!Refused(a) \/ LM!StopIsNoop(a) \/ LM!StopRefused(a) PROVE Falls
  <2>1. phase' = phase /\ \E w \in LM!Outcomes : Moves(a, w)
    BY <1>3, CallIsOver
  <2> QED
    BY <1>1, <1>2, <2>1, After DEF LM!Outcomes, Late
<1>4. ASSUME LM!Stop(a) PROVE Falls
  BY <1>1, <1>2, <1>4, StopMoves, After DEF Late
<1>5. ASSUME UNCHANGED lifecycle PROVE Falls
  BY <1>2, <1>5 DEF lifecycle, Late
<1>6. CASE AddHook(a)
  <2>1. LM!Refused(a) /\ UNCHANGED <<plugins, stage>>
    BY <1>2, <1>6 DEF AddHook, LM!Add, LM!AddUnnamed
  <2> QED
    BY <1>3, <2>1 DEF OnlyDown, plugins
<1>7. CASE InstallPlugin(a)
  <2>1. UNCHANGED <<lifecycle, stage>> /\ activated' = activated
    BY <1>7, InstallMoves DEF InstallPlugin
  <2> QED
    BY <1>5, <2>1 DEF OnlyDown
<1>8. ASSUME Falls, activated' \subseteq activated, NEW s, Ends(s)
      PROVE  /\ OnlyDown'
             /\ activated' \subseteq activated
  <2>1. \A u \in Tasks : stage'[u] = IF u = a THEN s ELSE stage[u]
    BY <1>1, <1>8 DEF Enter, IInv, Types
  <2> QED
    BY <1>8, <2>1 DEF OnlyDown
<1>9. CASE Start(a)
  <2>1. LM!Refused(a) /\ AfterLifecycleStart(a)
    BY <1>2, <1>9 DEF Start, LM!Start
  <2>2. pc'[a] = "raised"
    BY <1>1, <2>1, After DEF LM!Refused, LM!Goto, Moves
  <2>3. Ends("start raised") /\ UNCHANGED plugins
    BY <2>1, <2>2 DEF AfterLifecycleStart, LM!Outcomes
  <2> QED
    BY <1>3, <1>8, <2>1, <2>3 DEF plugins
<1>10. CASE Stop(a) \/ StopGoesOnFromPlugin(a)
  <2>1. AfterDeactivateAll(a) /\ \E s : Ends(s)
    BY <1>10, StopEnters DEF Stop, StopGoesOnFromPlugin
  <2>2. activated' \subseteq activated
    <3>1. CASE Stop(a)
      BY <3>1 DEF Stop, PL!DeactivateAll
    <3>2. CASE StopGoesOnFromPlugin(a)
      <4>1. PL!Resume(a) /\ doing[a] = "deactivating"
        BY <1>1, <3>2 DEF StopGoesOnFromPlugin, Where, PL!Awaiting
      <4> QED
        BY <4>1, PluginResumes
    <3> QED
      BY <1>10, <3>1, <3>2
  <2>3. Falls
    BY <1>3, <1>4, <1>5, <2>1 DEF AfterDeactivateAll
  <2> QED
    BY <1>8, <2>1, <2>2, <2>3
<1>11. CASE StopGoesOnFromHook(a)
  <2>1. /\ pc[a] = "stopping" /\ LM!Resume(a) /\ UNCHANGED plugins
        /\ phase \in {"STOPPING", "STOPPED"}
    BY <1>1, <1>11 DEF StopGoesOnFromHook, Where
  <2>2. phase' = phase \/ phase' = "STOPPED"
    BY <2>1, ResumeMoves
  <2>3. Falls /\ \E s : Ends(s)
    BY <1>11, <2>1, <2>2, StopEnters DEF Late
  <2> QED
    BY <1>8, <2>1, <2>3 DEF plugins
<1> QED
  BY <1>1, <1>6, <1>7, <1>9, <1>10, <1>11
     DEF Request, Resume, StartGoesOnFromHook, StartGoesOnFromPlugin

\* A step of one task leaves what the others know of themselves alone.
LEMMA OthersStay ==
    ASSUME OInv, NEW a \in Tasks, Request(a) \/ Resume(a), NEW t \in Tasks \ {a}
    PROVE  /\ stage'[t] = stage[t] /\ pc'[t] = pc[t]
           /\ doing'[t] = doing[t] /\ on'[t] = on[t] /\ todo'[t] = todo[t]
<1>1. UNCHANGED stage \/ \E s : Enter(a, s)
  BY Enters DEF Request, AddHook, InstallPlugin, OInv
<1>2. UNCHANGED pc \/ \E w : Moves(a, w)
  BY CallIsOver, StartMoves, StopMoves, ResumeMoves
     DEF Request, Resume, AddHook, InstallPlugin, Start, Stop, AfterDeactivateAll,
         StartGoesOnFromHook, StartGoesOnFromPlugin, StopGoesOnFromPlugin,
         StopGoesOnFromHook, lifecycle
<1>3. UNCHANGED plugins \/ \E d, p, q : PL!Await(a, d, p, q)
  <2>1. UNCHANGED plugins \/ PL!Request(a) \/ PL!Resume(a)
    BY DEF Request, Resume, AddHook, InstallPlugin, Start, Stop, AfterLifecycleStart,
         StartGoesOnFromHook, StartGoesOnFromPlugin, StopGoesOnFromPlugin,
         StopGoesOnFromHook, PL!Request
  <2>2. ASSUME PL!Resume(a) PROVE \E d, p, q : PL!Await(a, d, p, q)
    BY <2>2 DEF PL!Resume, PL!PluginActivated, PL!PluginActivationFails,
       PL!PluginDeactivated, PL!PluginDeactivationFails, PL!ActivateNext,
       PL!DeactivateNext, PL!End
  <2>3. ASSUME PL!Request(a) PROVE \E d, p, q : PL!Await(a, d, p, q)
    BY <2>3 DEF PL!Request, PL!Install, PL!InstallViolatesContract, PL!Uninstall,
       PL!Activate, PL!ActivateAll, PL!Deactivate, PL!DeactivateAll, PL!Called,
       PL!ActivateNext, PL!DeactivateNext, PL!End
  <2> QED
    BY <2>1, <2>2, <2>3
<1> QED
  BY <1>1, <1>2, <1>3 DEF Enter, Moves, PL!Await, plugins, OInv, Shape, IInv, Types

(***************************************************************************)
(* What a stop() that deactivates the plugins itself comes to.             *)
(***************************************************************************)
Deactivates(t) ==
    \E S : todo[t] \in Seq(S) /\ activated \subseteq PL!ToSet(todo[t]) \cup {on[t]}

\* Under way, and at its end.
Stopping(t) ==
    \/ stage[t] = "deactivating" /\ Deactivates(t)
    \/ stage[t] = "stopping" /\ (doing[t] = "idle" => activated = {})

StopEnded(t) ==
    \/ stage[t] = "stopped" /\ phase = "STOPPED" /\ activated = {}
    \/ stage[t] = "stop raised" /\ phase \in {"STOPPING", "STOPPED"}

\* lifecycle.stop() after deactivate_all(), once the lifecycle only goes down.
LEMMA AfterTheFinally ==
    ASSUME OInv, OnlyDown, NEW t \in Tasks, NEW d \in PL!Ended, doing'[t] = d,
           d = "idle" => activated' = {},
           LM!Stop(t) \/ LM!StopIsNoop(t) \/ LM!StopRefused(t), AfterLifecycleStop(t)
    PROVE  Stopping(t)' \/ StopEnded(t)'
<1>1. /\ IInv /\ (\A s : Enter(t, s) => stage'[t] = s)
      /\ phase \in Late /\ d \in {"idle", "raised"}
  BY After DEF OInv, OnlyDown, PL!Ended
<1>2. \/ pc'[t] = "stopping"
      \/ pc'[t] = "idle" /\ phase' = "STOPPED"
      \/ pc'[t] = "raised" /\ phase' = "STOPPING"
  <2>1. CASE LM!Stop(t)
    BY <1>1, <2>1, StopMoves, After
  <2>2. CASE LM!StopIsNoop(t)
    BY <1>1, <2>2, After DEF LM!StopIsNoop, LM!Goto, Moves, Late
  <2>3. CASE LM!StopRefused(t)
    BY <1>1, <2>3, After DEF LM!StopRefused, LM!Goto, Moves, Late
  <2> QED
    BY <2>1, <2>2, <2>3
<1>3. CASE pc'[t] = "stopping"
  <2>1. stage'[t] = "stopping"
    BY <1>1, <1>3 DEF AfterLifecycleStop
  <2> QED
    BY <2>1 DEF Stopping
<1>4. CASE pc'[t] = "idle" /\ phase' = "STOPPED"
  <2>1. stage'[t] = IF d = "raised" THEN "stop raised" ELSE "stopped"
    BY <1>1, <1>4 DEF AfterLifecycleStop
  <2> QED
    BY <1>1, <1>4, <2>1 DEF StopEnded
<1>5. CASE pc'[t] = "raised" /\ phase' = "STOPPING"
  <2>1. stage'[t] = "stop raised"
    BY <1>1, <1>5 DEF AfterLifecycleStop
  <2> QED
    BY <1>5, <2>1 DEF StopEnded
<1> QED
  BY <1>2, <1>3, <1>4, <1>5

\* deactivate_all() was entered or went on.
LEMMA AfterBatch ==
    ASSUME OInv, OnlyDown, NEW t \in Tasks, NEW S, AfterDeactivateAll(t),
           \/ doing'[t] = "idle" /\ activated' = {}
           \/ doing'[t] = "raised"
           \/ /\ doing'[t] = "deactivating"
              /\ todo'[t] \in Seq(S)
              /\ activated' \subseteq PL!ToSet(todo'[t]) \cup {on'[t]}
    PROVE  Stopping(t)' \/ StopEnded(t)'
<1>1. CASE doing'[t] = "deactivating"
  <2>1. stage'[t] = "deactivating"
    BY <1>1, After DEF OInv, AfterDeactivateAll, PL!Ended
  <2> QED
    BY <1>1, <2>1 DEF Stopping, Deactivates
<1>2. CASE doing'[t] \in PL!Ended
  <2>1. /\ LM!Stop(t) \/ LM!StopIsNoop(t) \/ LM!StopRefused(t)
        /\ AfterLifecycleStop(t)
    BY <1>2 DEF AfterDeactivateAll, PL!Ended
  <2>2. doing'[t] = "idle" => activated' = {}
    OBVIOUS
  <2> QED
    BY <1>2, <2>1, <2>2, AfterTheFinally
<1> QED
  BY <1>1, <1>2 DEF PL!Ended

\* stop() is called, or goes on from where it is under way.
LEMMA StopStep ==
    ASSUME OInv, OnlyDown, NEW t \in Tasks,
           \/ Stop(t)
           \/ Stopping(t) /\ (StopGoesOnFromPlugin(t) \/ StopGoesOnFromHook(t))
    PROVE  Stopping(t)' \/ StopEnded(t)'
<1>1. /\ IInv /\ Where(t)
      /\ t \in DOMAIN doing /\ t \in DOMAIN on /\ t \in DOMAIN todo
  BY DEF OInv, Shape, IInv, Types
<1>2. CASE Stop(t)
  <2>1. AfterDeactivateAll(t) /\ activated' = activated
    BY <1>2 DEF Stop, PL!DeactivateAll
  <2>2. PICK q \in PL!SetToSeqs(activated) : PL!DeactivateNext(t, q, activated)
    BY <1>2 DEF Stop, PL!DeactivateAll
  <2>3. q \in Seq(activated) /\ activated \subseteq PL!ToSet(q)
    BY SameBatches, PLP!ListedAll, PlatformAssumption
       DEF OInv, Shape, PLP!PluginAssumption, IsFiniteSet, PLP!IsFiniteSet
  <2>4. \/ doing'[t] = "idle" /\ activated = {}
        \/ doing'[t] = "raised" /\ activated # {}
        \/ /\ doing'[t] = "deactivating" /\ activated # {}
           /\ todo'[t] \in Seq(activated)
           /\ activated \subseteq PL!ToSet(todo'[t]) \cup {on'[t]}
    BY <1>1, <2>2, <2>3, Deactivating
  <2> QED
    BY <2>1, <2>4, AfterBatch
<1>3. CASE Stopping(t) /\ StopGoesOnFromPlugin(t)
  <2>1. /\ PL!Resume(t) /\ AfterDeactivateAll(t) /\ doing[t] = "deactivating"
        /\ stage[t] = "deactivating"
    BY <1>1, <1>3 DEF StopGoesOnFromPlugin, Where, PL!Awaiting
  <2>2. PICK S : todo[t] \in Seq(S) /\ activated \subseteq PL!ToSet(todo[t]) \cup {on[t]}
    BY <1>3, <2>1 DEF Stopping, Deactivates
  <2> QED
    BY <1>1, <2>1, <2>2, DeactivationGoesOn, AfterBatch
<1>4. CASE Stopping(t) /\ StopGoesOnFromHook(t)
  <2>1. /\ LM!Resume(t) /\ UNCHANGED plugins /\ AfterLifecycleStop(t)
        /\ pc[t] = "stopping" /\ stage[t] = "stopping"
    BY <1>1, <1>4 DEF StopGoesOnFromHook, Where
  <2>2. /\ doing'[t] = doing[t] /\ activated' = activated /\ doing[t] \in {"idle", "raised"}
        /\ doing[t] = "idle" => activated = {}
    BY <1>1, <1>4, <2>1
       DEF plugins, IInv, Types, Where, PL!Awaiting, PL!Ended, Stopping
  <2>3. \/ pc'[t] = "stopping"
        \/ pc'[t] = "idle" /\ phase' = "STOPPED"
    BY <1>1, <2>1, ResumeMoves, After
  <2>4. stage'[t] = IF pc'[t] = "stopping" THEN "stopping"
                    ELSE IF doing[t] = "raised" THEN "stop raised" ELSE "stopped"
    BY <1>1, <2>1, <2>2, <2>3, After DEF AfterLifecycleStop
  <2> QED
    BY <2>2, <2>3, <2>4 DEF Stopping, StopEnded
<1> QED
  BY <1>2, <1>3, <1>4

(***************************************************************************)
(* Where the platform is when run_platform is there.                       *)
(***************************************************************************)
PastStart == {"on_running", "waiting", "stopping", "returned", "raised"}

RunnerInv ==
    /\ runner \in RunnerStates /\ failing \in BOOLEAN /\ shutdown \in BOOLEAN
    /\ runner = "starting" => stage[main] \in {"starting", "activating"}
    /\ runner \in PastStart => OnlyDown
    /\ runner = "waiting" => Free(main)
    /\ runner = "stopping" => Stopping(main)
    /\ runner = "returned" => phase = "STOPPED" /\ activated = {}
    /\ runner = "raised" => /\ phase \in {"STOPPING", "STOPPED"}
                            /\ phase = "STOPPING" => pc[main] # "stopping"

LEMMA RunnerInit == AppInit => RunnerInv
BY DEF AppInit, RunnerInv, RunnerStates, PastStart

\* Nothing that user code does takes run_platform from where it is: other
\* tasks never undo what it relies on, and its own task calls the platform
\* outside of run_platform and in the callback only.
LEMMA UserStep == ASSUME OInv, RunnerInv, User PROVE RunnerInv'
<1>1. PICK a \in Tasks : UserCalls(a) \/ UserCallGoesOn(a)
  BY DEF User
<1>2. /\ Request(a) \/ Resume(a)
      /\ UNCHANGED <<runner, failing, shutdown>>
      /\ a = main => runner \in UserCode
  BY <1>1 DEF UserCalls, UserCallGoesOn
<1>3. ASSUME a # main
      PROVE  /\ stage'[main] = stage[main] /\ pc'[main] = pc[main]
             /\ doing'[main] = doing[main] /\ on'[main] = on[main] /\ todo'[main] = todo[main]
  BY <1>2, <1>3, OthersStay, ApplicationAssumption
<1>4. CASE runner \notin PastStart
  BY <1>2, <1>3, <1>4 DEF RunnerInv, PastStart, UserCode, RunnerEnded
<1>5. CASE runner \in PastStart
  <2>1. /\ OnlyDown /\ OnlyDown' /\ activated' \subseteq activated
        /\ phase = "STOPPED" => phase' = "STOPPED"
        /\ phase = "STOPPING" => phase' \in {"STOPPING", "STOPPED"}
        /\ pc'[a] = "stopping" => pc[a] = "stopping" \/ phase = "RUNNING"
    BY <1>2, <1>5, DownStep DEF RunnerInv
  <2>2. CASE runner \in {"waiting", "stopping"}
    <3>1. a # main
      BY <1>2, <2>2 DEF UserCode, RunnerEnded
    <3>2. Stopping(main) => Stopping(main)'
      BY <1>3, <2>1, <3>1 DEF Stopping, Deactivates
    <3> QED
      BY <1>2, <1>3, <2>1, <2>2, <3>1, <3>2 DEF RunnerInv, PastStart, Free
  <2>3. CASE runner \in {"on_running", "returned"}
    BY <1>2, <2>1, <2>3 DEF RunnerInv, PastStart
  <2>4. CASE runner = "raised"
    <3>1. phase' = "STOPPING" => phase = "STOPPING" /\ pc'[main] # "stopping"
      BY <1>3, <2>1, <2>4 DEF RunnerInv
    <3> QED
      BY <1>2, <2>1, <2>4, <3>1 DEF RunnerInv, PastStart
  <2> QED
    BY <1>5, <2>2, <2>3, <2>4 DEF PastStart
<1> QED
  BY <1>4, <1>5

\* platform.start(), called or going on, gets past itself only with the
\* lifecycle up and nobody else in start().
LEMMA RunnerStarts ==
    ASSUME OInv, OInv', LMP!IInv', RunnerInv, RunPlatform \/ StartGoesOn
    PROVE  RunnerInv'
<1>1. /\ main \in Tasks /\ IInv /\ AfterStart
      /\ Start(main) \/ StartGoesOnFromHook(main) \/ StartGoesOnFromPlugin(main)
      /\ StartGoesOn => stage[main] \in {"starting", "activating"}
  BY ApplicationAssumption DEF OInv, RunPlatform, StartGoesOn, RunnerInv
<1>2. PICK s \in {"starting", "activating", "started", "start raised"} : Enter(main, s)
  BY <1>1, StartEnters
<1>3. \A u \in Tasks : stage'[u] = IF u = main THEN s ELSE stage[u]
  BY <1>1, <1>2 DEF Enter, IInv, Types
<1>4. CASE s = "started"
  <2>1. ASSUME Start(main)
        PROVE  /\ phase' = "RUNNING"
               /\ \A u \in Tasks : stage[u] \notin {"starting", "activating"}
    <3>1. AfterLifecycleStart(main) /\ pc'[main] \notin {"starting", "raised"}
      BY <1>1, <1>3, <1>4, <2>1, After DEF Start, AfterLifecycleStart, LM!Outcomes
    <3>2. LM!Start(main)
      BY <1>1, <2>1, <3>1, After DEF Start, LM!Refused, LM!Goto, Moves
    <3>3. phase = "CREATED" /\ phase' = "RUNNING"
      BY <1>1, <3>1, <3>2, StartMoves, After
    <3> QED
      BY <1>1, <3>3 DEF IInv, Where, Early, PL!Awaiting
  <2>2. ASSUME StartGoesOn PROVE \A u \in Tasks \ {main} : stage[u] \notin {"starting", "activating"}
    BY <1>1, <2>2 DEF IInv, OneStart
  <2>3. ASSUME StartGoesOnFromHook(main) PROVE phase' = "RUNNING"
    <3>1. /\ AfterLifecycleStart(main) /\ LM!Resume(main)
          /\ pc[main] \in {"starting", "rollback"}
      BY <1>1, <2>3 DEF StartGoesOnFromHook, IInv, Where
    <3>2. pc'[main] = "idle"
      BY <1>1, <1>3, <1>4, <3>1, After DEF AfterLifecycleStart, LM!Outcomes
    <3> QED
      BY <1>1, <3>1, <3>2, ResumeMoves, After
  <2>4. ASSUME StartGoesOnFromPlugin(main) PROVE phase' \in Late
    <3>1. doing[main] = "activating" /\ phase' = phase
      BY <1>1, <2>4 DEF StartGoesOnFromPlugin, IInv, Where, PL!Awaiting, lifecycle
    <3>2. phase' \in LMP!Phases /\ phase \notin Early
      BY <1>1, <3>1 DEF IInv, Where, LMP!IInv, LMP!TypeOK
    <3> QED
      BY <3>1, <3>2 DEF LMP!Phases, Early, Late
  <2>5. OnlyDown'
    <3>1. CASE RunPlatform
      BY <1>3, <1>4, <2>1, <3>1 DEF RunPlatform, OnlyDown, Late
    <3>2. CASE StartGoesOn
      BY <1>3, <1>4, <2>2, <2>3, <2>4, <3>2 DEF StartGoesOn, OnlyDown, Late
    <3> QED
      BY <3>1, <3>2
  <2>6. runner' = "on_running" /\ UNCHANGED <<failing, shutdown>>
    BY <1>1, <1>3, <1>4 DEF AfterStart, Busy
  <2> QED
    BY <2>5, <2>6 DEF RunnerInv, RunnerStates
<1>5. CASE s \in {"starting", "activating", "start raised"}
  <2>1. /\ runner' = IF s = "start raised" THEN "start failed" ELSE "starting"
        /\ UNCHANGED <<failing, shutdown>> /\ stage'[main] = s
    BY <1>1, <1>3, <1>5 DEF AfterStart, Busy
  <2> QED
    BY <1>5, <2>1 DEF RunnerInv, RunnerStates, PastStart
<1> QED
  BY <1>2, <1>4, <1>5

\* platform.stop() of the finally clause, called or going on.
LEMMA RunnerStops ==
    ASSUME OInv, OInv', RunnerInv, Leave \/ LeaveWithError \/ StopGoesOn
    PROVE  RunnerInv'
<1>1. /\ main \in Tasks /\ OnlyDown /\ AfterStop
      /\ \/ Stop(main)
         \/ Stopping(main) /\ (StopGoesOnFromPlugin(main) \/ StopGoesOnFromHook(main))
      /\ failing' \in BOOLEAN
  BY ApplicationAssumption DEF Leave, LeaveWithError, StopGoesOn, RunnerInv, PastStart
<1>2. Stopping(main)' \/ StopEnded(main)'
  BY <1>1, StopStep
<1>3. OnlyDown'
  BY <1>1, DownStep DEF Request, Resume
<1>4. CASE Stopping(main)'
  <2>1. stage'[main] \in {"deactivating", "stopping"}
    BY <1>4 DEF Stopping
  <2>2. runner' = "stopping" /\ UNCHANGED shutdown
    BY <1>1, <2>1 DEF AfterStop, Busy
  <2> QED
    BY <1>1, <1>3, <1>4, <2>2 DEF RunnerInv, RunnerStates
<1>5. CASE StopEnded(main)'
  <2>1. /\ stage'[main] \in {"stopped", "stop raised"}
        /\ stage'[main] = "stopped" => phase' = "STOPPED" /\ activated' = {}
        /\ phase' \in {"STOPPING", "STOPPED"}
    BY <1>5 DEF StopEnded
  <2>2. /\ stage'[main] = "stopped" => runner' \in {"raised", "returned"}
        /\ stage'[main] = "stop raised" => runner' = "raised"
        /\ UNCHANGED shutdown
    BY <1>1, <2>1 DEF AfterStop, Busy
  <2>3. pc'[main] # "stopping"
    BY <1>1, <2>1 DEF OInv, Outside, LM!Outcomes
  <2> QED
    BY <1>1, <1>3, <2>1, <2>2, <2>3 DEF RunnerInv, RunnerStates
<1> QED
  BY <1>2, <1>4, <1>5

LEMMA RunnerStep ==
    ASSUME OInv, OInv', LMP!IInv', RunnerInv, [AppNext]_appVars
    PROVE  RunnerInv'
<1>1. CASE UNCHANGED appVars
  BY <1>1 DEF appVars, vars, lifecycle, plugins, RunnerInv, OnlyDown, Stopping, Deactivates, Free
<1>2. CASE AwaitShutdown
  BY <1>2 DEF AwaitShutdown, vars, lifecycle, plugins, RunnerInv, OnlyDown, Free,
              RunnerStates, PastStart
<1>3. CASE Signal
  BY <1>3 DEF Signal, vars, lifecycle, plugins, RunnerInv, OnlyDown, Stopping, Deactivates, Free
<1> QED
  BY <1>1, <1>2, <1>3, UserStep, RunnerStarts, RunnerStops DEF AppNext, Run

\* Once platform.start() has returned, run_platform does not return before the
\* platform is down, every hook and every plugin, whatever other tasks do with
\* it, and it does not raise before that either unless a stop() of another task
\* is on its way through the hooks.
THEOREM StopsWhatItStarts == AppSpec => []AppInv
<1>1. AppSpec => [](OInv /\ LMP!IInv /\ LMP!InCharge /\ PlatformInv)
  BY ApplicationRefinesPlatform, OutcomeInvariant, PlatformInvariant, PTL
<1>2. AppSpec => []RunnerInv
  BY <1>1, RunnerInit, RunnerStep, PTL DEF AppSpec
<1>3. OInv /\ LMP!IInv /\ LMP!InCharge /\ PlatformInv /\ RunnerInv => AppInv
  <2> SUFFICES ASSUME OInv, LMP!IInv, LMP!InCharge, PlatformInv, RunnerInv PROVE AppInv
    OBVIOUS
  <2>1. AppTypeOK
    <3>1. runner \in {"starting", "stopping"} => stage[main] \in Busy
      BY DEF RunnerInv, Stopping, Busy
    <3> QED
      BY <3>1 DEF AppTypeOK, PlatformInv, RunnerInv
  <2>2. phase = "STOPPED" => Down
    BY DEF LMP!IInv, LMP!DownWhenOver, LMP!Owed, LM!Owed, Down
  <2>3. phase = "STOPPING" /\ pc[main] # "stopping" => \E t \in Tasks \ {main} : pc[t] = "stopping"
    BY DEF LMP!InCharge
  <2>4. StopsWhatItStarted
    BY <2>2, <2>3 DEF RunnerInv, StopsWhatItStarted
  <2> QED
    BY <2>1, <2>4 DEF AppInv
<1> QED
  BY <1>1, <1>2, <1>3, PTL

=============================================================================
