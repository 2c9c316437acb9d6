-------------------------- MODULE LifecycleManager --------------------------
(***************************************************************************)
(* eaip.lifecycle.manager.LifecycleManager, used by any number of asyncio  *)
(* tasks of one event loop.                                                *)
(*                                                                         *)
(* The event loop switches tasks only where a coroutine awaits, and the    *)
(* manager awaits only inside _invoke, on a hook.  An action is therefore  *)
(* the code a task runs from one hook to the next: everything between two  *)
(* hooks is atomic, and while a task waits in a hook any other task may    *)
(* call the manager.  A synchronous hook is one whose completion follows   *)
(* its call at once, which is one of the interleavings allowed here.       *)
(***************************************************************************)
EXTENDS Naturals, Sequences

CONSTANTS
    Tasks,      \* the tasks that call the manager
    MaxHooks    \* bound: how many hooks get registered

ASSUME LifecycleAssumption == MaxHooks \in Nat

VARIABLES
    phase,      \* self._phase
    stoppable,  \* self._entries: for each entry, whether entry.stop is given
    started,    \* self._entries: the indices whose entry.started is True
    pc,         \* what each task is doing in the manager
    at          \* the index of the hook each task awaits, 0 when it does not

vars == <<phase, stoppable, started, pc, at>>

Phases == {"CREATED", "STARTING", "RUNNING", "STOPPING", "STOPPED", "FAILED"}

(***************************************************************************)
(* A task is "idle" before its first call and after a call that returned,  *)
(* "raised" after one that raised; "starting" awaits a start hook,         *)
(* "rollback" a stop hook called by the rollback of a failed start(), and  *)
(* "stopping" a stop hook called by stop().                                *)
(***************************************************************************)
Outcomes == {"idle", "raised"}
Rolling  == {"rollback", "stopping"}

Hooks == 1..Len(stoppable)

\* The hooks whose stop function is still to be run, were a rollback to start.
Owed(S) == {i \in S : stoppable[i]}

TypeOK ==
    /\ phase \in Phases
    /\ stoppable \in Seq(BOOLEAN)
    /\ Len(stoppable) =< MaxHooks
    /\ started \subseteq Hooks
    /\ pc \in [Tasks -> Outcomes \cup {"starting"} \cup Rolling]
    /\ at \in [Tasks -> 0..Len(stoppable)]
    /\ \A t \in Tasks : pc[t] \in Outcomes <=> at[t] = 0

Init ==
    /\ phase = "CREATED"
    /\ stoppable = <<>>
    /\ started = {}
    /\ pc = [t \in Tasks |-> "idle"]
    /\ at = [t \in Tasks |-> 0]

Free(t) == pc[t] \in Outcomes

\* The task awaits hook i in state w; i = 0 when its call is over.
Goto(t, w, i) ==
    /\ pc' = [pc EXCEPT ![t] = w]
    /\ at' = [at EXCEPT ![t] = i]

\* add() in CREATED.
Add(t) ==
    /\ Free(t)
    /\ phase = "CREATED"
    /\ Len(stoppable) < MaxHooks
    /\ \E hasStop \in BOOLEAN : stoppable' = Append(stoppable, hasStop)
    /\ Goto(t, "idle", 0)
    /\ UNCHANGED <<phase, started>>

\* add() in CREATED without a name: ValueError.
AddUnnamed(t) ==
    /\ Free(t)
    /\ phase = "CREATED"
    /\ Goto(t, "raised", 0)
    /\ UNCHANGED <<phase, stoppable, started>>

\* add() or start() in any other phase than CREATED: LifecycleError.
Refused(t) ==
    /\ Free(t)
    /\ phase # "CREATED"
    /\ Goto(t, "raised", 0)
    /\ UNCHANGED <<phase, stoppable, started>>

\* Mutants of Start: it may run again after a shutdown, or while it is running.
StartFrom(t, phases) ==
    /\ Free(t)
    /\ phase \in phases
    /\ Hooks # {}
    /\ phase' = "STARTING"
    /\ Goto(t, "starting", 1)
    /\ UNCHANGED <<stoppable, started>>
StartAgain(t) == StartFrom(t, {"CREATED", "STOPPED"})
StartTwice(t) == StartFrom(t, {"CREATED", "STARTING"})

\* start() up to the call of the first start hook.
Start(t) ==
    /\ Free(t)
    /\ phase = "CREATED"
    /\ \/ /\ Hooks = {}
          /\ phase' = "RUNNING"
          /\ Goto(t, "idle", 0)
       \/ /\ Hooks # {}
          /\ phase' = "STARTING"
          /\ Goto(t, "starting", 1)
    /\ UNCHANGED <<stoppable, started>>

\* The awaited start hook returns; start() goes on to the next or is done.
StartHookReturns(t) ==
    /\ pc[t] = "starting"
    /\ started' = started \cup {at[t]}
    /\ \/ /\ at[t] = Len(stoppable)
          /\ phase' = "RUNNING"
          /\ Goto(t, "idle", 0)
       \/ /\ at[t] < Len(stoppable)
          /\ phase' = phase
          /\ Goto(t, "starting", at[t] + 1)
    /\ UNCHANGED stoppable

\* Mutant of CallsNextStop: the entries are walked from the first one up.
CallsFirstStop(t, w, n, S) ==
    \E i \in Owed(S) :
        /\ \A k \in Owed(S) : i =< k
        /\ Goto(t, w, i)

(***************************************************************************)
(* _rollback from below index n, with S the entries still started: it      *)
(* skips down to the first started entry with a stop function and calls    *)
(* it, or runs off the end of the list.                                    *)
(***************************************************************************)
CallsNextStop(t, w, n, S) ==
    \E i \in Owed(S) :
        /\ i < n
        /\ \A k \in Owed(S) : k < n => k =< i
        /\ Goto(t, w, i)

NoStopBelow(n, S) == \A i \in Owed(S) : i >= n

\* The awaited start hook raises (or the task is cancelled in it): FAILED,
\* then the rollback; with nothing to stop the failure is re-raised at once.
StartHookRaises(t) ==
    /\ pc[t] = "starting"
    /\ phase' = "FAILED"
    /\ \/ CallsNextStop(t, "rollback", Len(stoppable) + 1, started)
       \/ /\ NoStopBelow(Len(stoppable) + 1, started)
          /\ Goto(t, "raised", 0)
    /\ UNCHANGED <<stoppable, started>>

\* stop() in CREATED or STOPPED is a no-op that returns.
StopIsNoop(t) ==
    /\ Free(t)
    /\ phase \in {"CREATED", "STOPPED"}
    /\ Goto(t, "idle", 0)
    /\ UNCHANGED <<phase, stoppable, started>>

\* stop() while the lifecycle is on its way up or down: LifecycleError.
StopRefused(t) ==
    /\ Free(t)
    /\ phase \in {"STARTING", "STOPPING"}
    /\ Goto(t, "raised", 0)
    /\ UNCHANGED <<phase, stoppable, started>>

\* stop() in RUNNING or FAILED, up to the call of the first stop hook.
Stop(t) ==
    /\ Free(t)
    /\ phase \in {"RUNNING", "FAILED"}
    /\ \/ /\ CallsNextStop(t, "stopping", Len(stoppable) + 1, started)
          /\ phase' = "STOPPING"
       \/ /\ NoStopBelow(Len(stoppable) + 1, started)
          /\ phase' = "STOPPED"
          /\ Goto(t, "idle", 0)
    /\ UNCHANGED <<stoppable, started>>

\* Mutants of StopHookEnds: a rollback that goes on as long as an entry is
\* started does not mark it; a stop hook that raises ends the rollback.
StopHookAgain(t) ==
    /\ pc[t] \in Rolling
    /\ CallsNextStop(t, pc[t], Len(stoppable) + 1, started)
    /\ UNCHANGED <<phase, stoppable, started>>

StopHookAborts(t) ==
    /\ pc[t] \in Rolling
    /\ started' = started \ {at[t]}
    /\ Goto(t, "raised", 0)
    /\ UNCHANGED <<phase, stoppable>>

(***************************************************************************)
(* The awaited stop hook returns or raises; either way the entry is marked *)
(* not started and the rollback goes on downwards.  A rollback that has    *)
(* run off the end re-raises in start() and sets STOPPED in stop().        *)
(***************************************************************************)
StopHookEnds(t) ==
    /\ pc[t] \in Rolling
    /\ started' = started \ {at[t]}
    /\ \/ /\ CallsNextStop(t, pc[t], at[t], started')
          /\ phase' = phase
       \/ /\ NoStopBelow(at[t], started')
          /\ \/ /\ pc[t] = "rollback"
                /\ phase' = phase
                /\ Goto(t, "raised", 0)
             \/ /\ pc[t] = "stopping"
                /\ phase' = "STOPPED"
                /\ Goto(t, "idle", 0)
    /\ UNCHANGED stoppable

Call(t)   == \/ Add(t) \/ AddUnnamed(t) \/ Start(t) \/ Refused(t)
             \/ Stop(t) \/ StopIsNoop(t) \/ StopRefused(t)
Resume(t) == StartHookReturns(t) \/ StartHookRaises(t) \/ StopHookEnds(t)

Next == \E t \in Tasks : Call(t) \/ Resume(t)

Spec == Init /\ [][Next]_vars

\* Every awaited hook ends and the event loop then resumes its task.
FairSpec == Spec /\ \A t \in Tasks : WF_vars(Resume(t))

-----------------------------------------------------------------------------
(***************************************************************************)
(* Safety, whatever the tasks do and however their hooks interleave.       *)
(***************************************************************************)

\* "Start hooks run in registration order": while one start hook is awaited
\* exactly those before it have been started, and a manager that is RUNNING
\* has started every hook it holds.
StartOrder ==
    /\ \A t \in Tasks : pc[t] = "starting" =>
          /\ phase = "STARTING"
          /\ started = 1..(at[t] - 1)
    /\ phase = "RUNNING" => started = Hooks

\* "Hooks stop in reverse registration order": when a stop hook is awaited,
\* by whichever task, no hook above it still has a stop function to run.
\* Two rollbacks at once (stop() during a failing start()) must keep this.
StopOrder ==
    \A t \in Tasks : pc[t] \in Rolling =>
        /\ stoppable[at[t]]
        /\ \A k \in Owed(started) : k =< at[t]

\* "Already-started hooks are stopped before the failure is re-raised": once
\* start() has failed and no task is in a rollback any more, nothing that
\* can be stopped is left started; and STOPPED always means just that.
DownWhenOver ==
    \/ phase = "STOPPED"
    \/ phase = "FAILED" /\ \A t \in Tasks : pc[t] \notin Rolling
    => Owed(started) = {}

\* The phases of a manager nobody starts or stops twice: no step goes back
\* to an earlier phase, whatever tasks start, fail and stop concurrently,
\* and none leads from RUNNING to FAILED or back.
Rank == [CREATED |-> 0, STARTING |-> 1, RUNNING |-> 2, FAILED |-> 2,
         STOPPING |-> 3, STOPPED |-> 4]

PhaseForward ==
    [][phase' # phase => Rank[phase'] > Rank[phase]]_phase

(***************************************************************************)
(* Liveness.                                                               *)
(***************************************************************************)

\* A start() that has begun ends, with the lifecycle running or with the
\* failure and nothing left up; a shutdown that has begun ends in STOPPED.
Settles ==
    /\ phase = "STARTING" ~> phase # "STARTING"
    /\ phase = "FAILED"   ~> Owed(started) = {}
    /\ phase = "STOPPING" ~> phase = "STOPPED"

(***************************************************************************)
(* Refinement.                                                             *)
(***************************************************************************)

Mode == [CREATED |-> "assembling", STARTING |-> "rising",
         RUNNING |-> "serving", FAILED |-> "falling",
         STOPPING |-> "falling", STOPPED |-> "down"][phase]

Ordered == INSTANCE OrderedLifecycle
             WITH mode <- Mode, hooks <- Len(stoppable),
                  needs <- Owed(Hooks), up <- started

\* Seen through Ordered, the manager brings hooks up and takes them down in
\* order, each at most once, even when two rollbacks overlap.
ImplementsOrdered == Ordered!Spec

(***************************************************************************)
(* The inductive invariant: the safety properties above and who can be in  *)
(* a hook in which phase.                                                  *)
(***************************************************************************)

\* Only one task is ever in start(), nothing is started before it runs, and
\* a rollback goes on only once the lifecycle is coming down.
WhoMayBeWhere ==
    /\ \A t, u \in Tasks : pc[t] = "starting" /\ pc[u] = "starting" => t = u
    /\ phase = "CREATED" => started = {}
    /\ \A t \in Tasks :
          /\ pc[t] = "rollback" => phase \in {"FAILED", "STOPPING", "STOPPED"}
          /\ pc[t] = "stopping" => phase \in {"STOPPING", "STOPPED"}

IInv == TypeOK /\ StartOrder /\ StopOrder /\ DownWhenOver /\ WhoMayBeWhere

=============================================================================
