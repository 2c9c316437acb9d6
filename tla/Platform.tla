------------------------------ MODULE Platform ------------------------------
(***************************************************************************)
(* eaip.platform.platform.Platform: start() runs the lifecycle's start and *)
(* then activates the plugins, stop() deactivates them and then, whatever  *)
(* came of that, runs the lifecycle's stop.  The module composes           *)
(* LifecycleManager and PluginLoader; each of their actions is used whole. *)
(*                                                                         *)
(* A call that comes back from one of them goes on into the other without  *)
(* a suspension point, so that a step of one is conjoined with what the    *)
(* caller does next, as decided by the step's outcome.                     *)
(***************************************************************************)
EXTENDS Naturals, Sequences

CONSTANTS Tasks, MaxHooks, Plugins, NoPlugin

ASSUME PlatformAssumption == MaxHooks \in Nat /\ NoPlugin \notin Plugins

VARIABLES
    phase, stoppable, started, pc, at,                      \* the lifecycle
    installed, activated, order, doing, on, todo, call,     \* the plugins
    stage       \* where each task is in start() or stop(), or how they ended

LM == INSTANCE LifecycleManager
PL == INSTANCE PluginLoader

lifecycle == <<phase, stoppable, started, pc, at>>
plugins   == <<installed, activated, order, doing, on, todo, call>>
vars      == <<lifecycle, plugins, stage>>

(***************************************************************************)
(* A task is "new" before its first call; "started", "start raised",       *)
(* "stopped" and "stop raised" are the outcomes of its last one.  In       *)
(* between it awaits a hook of lifecycle.start(), a plugin's activate(), a *)
(* plugin's deactivate() or a hook of lifecycle.stop().                    *)
(***************************************************************************)
Done == {"new", "started", "start raised", "stopped", "stop raised"}
Busy == {"starting", "activating", "deactivating", "stopping"}

TypeOK ==
    /\ LM!TypeOK
    /\ PL!TypeOK
    /\ stage \in [Tasks -> Done \cup Busy]
    /\ \A t \in Tasks :
          /\ pc[t] \in LM!Outcomes <=> stage[t] \notin {"starting", "stopping"}
          /\ doing[t] \in PL!Awaiting =>  stage[t] = doing[t]

Init ==
    /\ LM!Init
    /\ PL!Init
    /\ stage = [t \in Tasks |-> "new"]

Free(t) == stage[t] \in Done

Enter(t, s) == stage' = [stage EXCEPT ![t] = s]

-----------------------------------------------------------------------------
\* platform.lifecycle.add() and platform.plugin_loader.install()/uninstall()
\* by any client that holds the platform.
AddHook(t) ==
    /\ Free(t)
    /\ LM!Add(t) \/ LM!AddUnnamed(t) \/ LM!Refused(t)
    /\ UNCHANGED <<plugins, stage>>

InstallPlugin(t) ==
    /\ Free(t)
    /\ PL!Install(t) \/ PL!InstallViolatesContract(t) \/ PL!Uninstall(t)
    /\ UNCHANGED <<lifecycle, stage>>

-----------------------------------------------------------------------------
\* activate_all() was entered or went on.
AfterActivateAll(t) ==
    Enter(t, CASE doing'[t] = "activating" -> "activating"
               [] doing'[t] = "idle"       -> "started"
               [] doing'[t] = "raised"     -> "start raised")

\* Mutant of AfterLifecycleStart: a LifecycleError is swallowed.
ActivatesAnyway(t) ==
    \/ /\ pc'[t] \notin LM!Outcomes
       /\ Enter(t, "starting")
       /\ UNCHANGED plugins
    \/ /\ pc'[t] \in LM!Outcomes
       /\ PL!ActivateAll(t)
       /\ AfterActivateAll(t)

\* lifecycle.start() was entered or went on; if it has returned, activate_all()
\* is next, and if it has raised, start() raises.
AfterLifecycleStart(t) ==
    \/ /\ pc'[t] \notin LM!Outcomes
       /\ Enter(t, "starting")
       /\ UNCHANGED plugins
    \/ /\ pc'[t] = "raised"
       /\ Enter(t, "start raised")
       /\ UNCHANGED plugins
    \/ /\ pc'[t] = "idle"
       /\ PL!ActivateAll(t)
       /\ AfterActivateAll(t)

\* start() up to its first suspension.
Start(t) ==
    /\ Free(t)
    /\ LM!Start(t) \/ LM!Refused(t)
    /\ AfterLifecycleStart(t)

\* start() after a hook of lifecycle.start(), or of its rollback.
StartGoesOnFromHook(t) ==
    /\ stage[t] = "starting"
    /\ LM!Resume(t)
    /\ AfterLifecycleStart(t)

\* start() after a plugin's activate().
StartGoesOnFromPlugin(t) ==
    /\ stage[t] = "activating"
    /\ PL!Resume(t)
    /\ AfterActivateAll(t)
    /\ UNCHANGED lifecycle

\* lifecycle.stop() was entered or went on.  An exception that left
\* deactivate_all() is still in flight and is raised when it is over.
AfterLifecycleStop(t) ==
    Enter(t, IF pc'[t] = "stopping" THEN "stopping"
             ELSE IF "raised" \in {pc'[t], doing'[t]} THEN "stop raised"
             ELSE "stopped")

\* Mutants of AfterDeactivateAll: no finally clause, and no await.
NoFinally(t) ==
    \/ /\ doing'[t] = "deactivating"
       /\ Enter(t, "deactivating")
       /\ UNCHANGED lifecycle
    \/ /\ doing'[t] = "raised"
       /\ Enter(t, "stop raised")
       /\ UNCHANGED lifecycle
    \/ /\ doing'[t] = "idle"
       /\ LM!Stop(t) \/ LM!StopIsNoop(t) \/ LM!StopRefused(t)
       /\ AfterLifecycleStop(t)
NoAwait(t) ==
    /\ LM!Stop(t) \/ LM!StopIsNoop(t) \/ LM!StopRefused(t)
    /\ Enter(t, IF pc'[t] = "stopping" THEN "stopping" ELSE "stopped")

\* deactivate_all() was entered or went on; returned or raised, it is
\* followed by lifecycle.stop().
AfterDeactivateAll(t) ==
    \/ /\ doing'[t] = "deactivating"
       /\ Enter(t, "deactivating")
       /\ UNCHANGED lifecycle
    \/ /\ doing'[t] \in PL!Ended
       /\ LM!Stop(t) \/ LM!StopIsNoop(t) \/ LM!StopRefused(t)
       /\ AfterLifecycleStop(t)

\* stop() up to its first suspension.
Stop(t) ==
    /\ Free(t)
    /\ PL!DeactivateAll(t)
    /\ AfterDeactivateAll(t)

\* stop() after a plugin's deactivate().
StopGoesOnFromPlugin(t) ==
    /\ stage[t] = "deactivating"
    /\ PL!Resume(t)
    /\ AfterDeactivateAll(t)

\* stop() after a hook of lifecycle.stop().
StopGoesOnFromHook(t) ==
    /\ stage[t] = "stopping"
    /\ LM!Resume(t)
    /\ UNCHANGED plugins
    /\ AfterLifecycleStop(t)

\* What a client may call; `async with platform` calls start() and then stop().
Request(t) == AddHook(t) \/ InstallPlugin(t) \/ Start(t) \/ Stop(t)

Resume(t) == \/ StartGoesOnFromHook(t) \/ StartGoesOnFromPlugin(t)
             \/ StopGoesOnFromPlugin(t) \/ StopGoesOnFromHook(t)

Next == \E t \in Tasks : Request(t) \/ Resume(t)

Spec == Init /\ [][Next]_vars

\* Hooks and plugin calls end, and the event loop then resumes their task.
FairSpec == Spec /\ \A t \in Tasks : WF_vars(Resume(t))

-----------------------------------------------------------------------------
(***************************************************************************)
(* Safety, for any number of tasks that start and stop the platform.       *)
(***************************************************************************)

\* Plugins come up only on a lifecycle that is up: as long as some start hook
\* has still to run, or has failed, no plugin is active or being activated.
PluginsAfterHooks ==
    phase \in {"CREATED", "STARTING", "FAILED"} =>
        /\ activated = {}
        /\ \A t \in Tasks : doing[t] # "activating"

\* The phase gate of lifecycle.start() serialises the whole of start(): two
\* tasks are never both in it, so no plugin is activated twice at a time
\* although the loader itself would allow it.
OneStart ==
    \A t, u \in Tasks :
        stage[t] \in {"starting", "activating"} /\ stage[u] \in {"starting", "activating"}
        => t = u

\* The type invariant together with that.
PlatformInv == TypeOK /\ OneStart

(***************************************************************************)
(* Safety, when one task starts and stops the platform; the others may add *)
(* hooks, install and uninstall plugins at any time all the same.          *)
(***************************************************************************)

\* t is the only task that has ever called start() or stop().
OnlyController(t) == \A u \in Tasks \ {t} : stage[u] = "new"

\* A stop() that returns leaves no plugin active and no hook up; one that
\* raises leaves no hook up either, as its finally clause promises.
StopOutcome ==
    \A t \in Tasks : OnlyController(t) =>
        /\ stage[t] = "stopped" => activated = {} /\ phase \in {"CREATED", "STOPPED"}
        /\ stage[t] = "stop raised" => phase = "STOPPED"
        /\ stage[t] \in {"stopped", "stop raised"} => LM!Owed(started) = {}

\* A start() that returns leaves the lifecycle running with every hook up;
\* one that raises leaves it failed or already stopped with nothing up, or,
\* when it was a plugin that failed, running with every hook up.
StartOutcome ==
    \A t \in Tasks : OnlyController(t) =>
        /\ stage[t] = "started" => phase = "RUNNING" /\ started = LM!Hooks
        /\ stage[t] = "start raised" =>
              \/ phase \in {"FAILED", "STOPPED"} /\ LM!Owed(started) = {}
              \/ phase = "RUNNING" /\ started = LM!Hooks

\* Plugins leave before the hooks they rely on: no stop hook runs while a
\* plugin is active, or is in a call of its own, unless an exception of the
\* plugins' deactivation is on its way out.
HooksOutlivePlugins ==
    \A t \in Tasks : OnlyController(t) /\ stage[t] = "stopping" =>
        \/ doing[t] = "raised"
        \/ activated = {} /\ \A u \in Tasks : doing[u] \notin PL!Awaiting

(***************************************************************************)
(* Liveness.                                                               *)
(***************************************************************************)

\* Every start() and stop() ends, however the calls of several tasks meet.
CallsEnd == \A t \in Tasks : stage[t] \in Busy ~> stage[t] \in Done

=============================================================================
