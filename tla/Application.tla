---------------------------- MODULE Application ----------------------------
(***************************************************************************)
(* eaip.application.runner.run_platform: one task that starts a platform,  *)
(* runs the optional on_running callback, waits for a shutdown signal and  *)
(* stops the platform.  SIGINT and SIGTERM set an asyncio.Event through    *)
(* the event loop (eaip.core.signals), so that a signal can arrive at any  *)
(* suspension point and is remembered.                                     *)
(*                                                                         *)
(* The platform belongs to whoever built it and is handed to the callback, *)
(* so that these, and any other task they give it to, may call it as well, *)
(* before, during and after the run.  A run without callback is one whose  *)
(* callback returns at once.                                               *)
(***************************************************************************)
EXTENDS Platform

CONSTANT main       \* the task that runs run_platform

ASSUME ApplicationAssumption == main \in Tasks

VARIABLES
    runner,     \* where run_platform is
    failing,    \* whether an exception is on its way through its finally
    shutdown    \* whether the ShutdownSignal is set

appVars == <<vars, runner, failing, shutdown>>

\* "assembly" is the host that builds the platform; the last three are the
\* ways run_platform ends.  In the states of UserCode the task is outside of
\* run_platform or in the callback.
RunnerStates == {"assembly", "starting", "on_running", "waiting",
                 "stopping", "start failed", "returned", "raised"}
RunnerEnded  == {"start failed", "returned", "raised"}
UserCode     == {"assembly", "on_running"} \cup RunnerEnded

AppTypeOK ==
    /\ TypeOK
    /\ runner \in RunnerStates
    /\ failing \in BOOLEAN
    /\ shutdown \in BOOLEAN
    /\ runner \in {"starting", "stopping"} => stage[main] \in Busy
    /\ runner = "waiting" => Free(main)

AppInit ==
    /\ Init
    /\ runner = "assembly"
    /\ failing = FALSE
    /\ shutdown = FALSE

-----------------------------------------------------------------------------
\* Whatever user code does with the platform: the host before and after the
\* run, the callback, and the other tasks at any time.
UserCalls(t) ==
    /\ t = main => runner \in UserCode
    /\ Request(t)
    /\ UNCHANGED <<runner, failing, shutdown>>

UserCallGoesOn(t) ==
    /\ t = main => runner \in UserCode
    /\ Resume(t)
    /\ UNCHANGED <<runner, failing, shutdown>>

\* platform.start() was called or went on.  It is outside the try block: when
\* it raises, run_platform raises and is over.
AfterStart ==
    /\ runner' = CASE stage'[main] \in Busy         -> "starting"
                   [] stage'[main] = "started"      -> "on_running"
                   [] stage'[main] = "start raised" -> "start failed"
    /\ UNCHANGED <<failing, shutdown>>

\* run_platform() installs the signal handlers and calls platform.start().
RunPlatform ==
    /\ runner = "assembly"
    /\ Start(main)
    /\ AfterStart

StartGoesOn ==
    /\ runner = "starting"
    /\ StartGoesOnFromHook(main) \/ StartGoesOnFromPlugin(main)
    /\ AfterStart

\* on_running returns before a signal has come: wait for one.
AwaitShutdown ==
    /\ runner = "on_running"
    /\ Free(main)
    /\ ~shutdown
    /\ runner' = "waiting"
    /\ UNCHANGED <<vars, failing, shutdown>>

\* platform.stop(), in the finally clause, was called or went on.
AfterStop ==
    /\ runner' = CASE stage'[main] \in Busy        -> "stopping"
                   [] stage'[main] = "stop raised" -> "raised"
                   [] stage'[main] = "stopped"     ->
                        IF failing' THEN "raised" ELSE "returned"
    /\ UNCHANGED shutdown

\* Mutant of Leave: the flag is not looked at after on_running.
LeaveFromWaitOnly ==
    /\ runner = "waiting"
    /\ shutdown
    /\ Stop(main)
    /\ UNCHANGED failing
    /\ AfterStop

\* on_running has returned, the signal is set, and the platform is stopped.
Leave ==
    /\ runner \in {"on_running", "waiting"}
    /\ shutdown
    /\ Stop(main)
    /\ UNCHANGED failing
    /\ AfterStop

\* Mutant of LeaveWithError: there is no finally.
LeaveWithoutStop ==
    /\ runner \in {"on_running", "waiting"}
    /\ Free(main)
    /\ runner' = "raised"
    /\ failing' = TRUE
    /\ UNCHANGED <<vars, shutdown>>

\* on_running raises, or the task is cancelled in it or in the wait; the
\* platform is stopped before the exception is raised.
LeaveWithError ==
    /\ runner \in {"on_running", "waiting"}
    /\ Stop(main)
    /\ failing' = TRUE
    /\ AfterStop

StopGoesOn ==
    /\ runner = "stopping"
    /\ StopGoesOnFromPlugin(main) \/ StopGoesOnFromHook(main)
    /\ UNCHANGED failing
    /\ AfterStop

\* A signal is delivered to the event loop once the handlers are installed.
Signal ==
    /\ runner \notin {"assembly"} \cup RunnerEnded
    /\ shutdown' = TRUE
    /\ UNCHANGED <<vars, runner, failing>>

Run == RunPlatform \/ StartGoesOn \/ AwaitShutdown \/ Leave \/ LeaveWithError \/ StopGoesOn

User == \E t \in Tasks : UserCalls(t) \/ UserCallGoesOn(t)

AppNext == Run \/ User \/ Signal

AppSpec == AppInit /\ [][AppNext]_appVars

(***************************************************************************)
(* Hooks, plugin calls and on_running end, and the event loop resumes the  *)
(* tasks.  Nothing makes a signal come, an exception be raised or anyone   *)
(* call anything.                                                          *)
(***************************************************************************)
FairAppSpec ==
    /\ AppSpec
    /\ WF_appVars(StartGoesOn \/ AwaitShutdown \/ Leave \/ StopGoesOn)
    /\ \A t \in Tasks : WF_appVars(UserCallGoesOn(t))

-----------------------------------------------------------------------------
Down == phase = "STOPPED" /\ LM!Owed(started) = {}

\* Once platform.start() has returned, run_platform does not return before the
\* platform is down, with no plugin active, whatever other tasks do with it;
\* and it does not raise before that either, unless a stop() of another task
\* is taking the lifecycle down, which its own is refused for.  ("*Always*
\* stops the platform cleanly", application/README.md:22, is true without such
\* a stop() only.)
StopsWhatItStarted ==
    /\ runner = "returned" => Down /\ activated = {}
    /\ runner = "raised" =>
          \/ Down
          \/ phase = "STOPPING" /\ \E t \in Tasks \ {main} : pc[t] = "stopping"

\* The type invariant together with that.
AppInv == AppTypeOK /\ StopsWhatItStarted

\* After a run that got past platform.start() the platform is down in the end,
\* although its own stop() may be refused: the one it met goes on.
DownInTheEnd == runner \in {"returned", "raised"} ~> Down

\* A signal that arrives while the platform starts, while the callback runs or
\* while the task waits is not lost: the run ends.
SignalEndsRun == shutdown ~> runner \in RunnerEnded
=============================================================================
