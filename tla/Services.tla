------------------------------ MODULE Services ------------------------------
(***************************************************************************)
(* eaip.interfaces.service.AbstractService under the lifecycle manager:    *)
(* some hooks are the start() and stop() of a service, which keeps a state *)
(* of its own and refuses what that state does not allow, and a client     *)
(* that holds the service may call the two directly as well.               *)
(*                                                                         *)
(* Every action of LifecycleManager is used whole.  A hook that ends moves *)
(* its service on, and the hook called next enters its service, in the     *)
(* same stretch between two suspension points.                             *)
(***************************************************************************)
EXTENDS LifecycleManager

VARIABLES
    state,      \* service._state for each hook, "plain" for one without service
    inside,     \* the service in whose _on_start or _on_stop each task is, or 0
    touched     \* history: the services some client has called directly

serviceVars == <<vars, state, inside, touched>>

ServiceState == {"CREATED", "STARTING", "RUNNING", "STOPPING", "STOPPED", "FAILED"}

\* The states from which start(), in a start hook, and stop(), in a rollback,
\* do not raise LifecycleError.
Admits == [starting |-> {"CREATED"},
           rollback |-> {"RUNNING", "FAILED"}, stopping |-> {"RUNNING", "FAILED"}]

Services == {i \in Hooks : state[i] # "plain"}

ServiceInit ==
    /\ Init
    /\ state = <<>>
    /\ inside = [t \in Tasks |-> 0]
    /\ touched = {}

-----------------------------------------------------------------------------
\* The states once the service that t is inside of has moved on to w.
Left(t, w) == IF inside[t] = 0 THEN state ELSE [state EXCEPT ![inside[t]] = w]

\* Mutant of Enters: start() and stop() do not look at the state.
EntersAlways(t, S) ==
    IF at'[t] # 0 /\ S[at'[t]] # "plain"
    THEN /\ state' = [S EXCEPT ![at'[t]] =
                         IF pc'[t] = "starting" THEN "STARTING" ELSE "STOPPING"]
         /\ inside' = [inside EXCEPT ![t] = at'[t]]
    ELSE /\ state' = S
         /\ inside' = [inside EXCEPT ![t] = 0]

(***************************************************************************)
(* The manager calls the next hook of t, if there is one, with the services *)
(* in the states S: a service that admits the call is entered, another one *)
(* raises at once and stays as it is.                                      *)
(***************************************************************************)
Enters(t, S) ==
    IF at'[t] # 0 /\ S[at'[t]] \in Admits[pc'[t]]
    THEN /\ state' = [S EXCEPT ![at'[t]] =
                         IF pc'[t] = "starting" THEN "STARTING" ELSE "STOPPING"]
         /\ inside' = [inside EXCEPT ![t] = at'[t]]
    ELSE /\ state' = S
         /\ inside' = [inside EXCEPT ![t] = 0]

\* add() of a plain hook, or of a service's start and stop.
ServiceAdd(t) ==
    /\ Add(t)
    /\ \/ state' = Append(state, "plain")
       \/ /\ stoppable'[Len(stoppable')]
          /\ state' = Append(state, "CREATED")
    /\ UNCHANGED <<inside, touched>>

\* The calls of the manager that call a hook, or none.
ServiceCall(t) ==
    /\ \/ AddUnnamed(t) \/ Start(t) \/ Refused(t)
       \/ Stop(t) \/ StopIsNoop(t) \/ StopRefused(t)
    /\ Enters(t, state)
    /\ UNCHANGED touched

\* _on_start() returns, or a plain start hook does; a service that refused
\* its start() has raised.
ServiceStarted(t) ==
    /\ StartHookReturns(t)
    /\ inside[t] = at[t] \/ state[at[t]] = "plain"
    /\ Enters(t, Left(t, "RUNNING"))
    /\ UNCHANGED touched

\* Mutant of ServiceFails: a cancelled _on_start() is not caught.
ServiceFailsUncaught(t) ==
    /\ StartHookRaises(t)
    /\ Enters(t, state)
    /\ UNCHANGED touched

\* _on_start() raises or is cancelled.
ServiceFails(t) ==
    /\ StartHookRaises(t)
    /\ Enters(t, Left(t, "FAILED"))
    /\ UNCHANGED touched

\* _on_stop() returns, raises or is cancelled: STOPPED in any case.
ServiceStopped(t) ==
    /\ StopHookEnds(t)
    /\ Enters(t, Left(t, "STOPPED"))
    /\ UNCHANGED touched

-----------------------------------------------------------------------------
\* A task that is in a service by a call of its own.
Direct(t) == Free(t) /\ inside[t] # 0

\* A client calls start() or stop() on a service; a refused call changes nothing.
DirectCall(t) ==
    /\ Free(t) /\ inside[t] = 0
    /\ \E i \in Services, w \in {"starting", "stopping"} :
          /\ state[i] \in Admits[w]
          /\ state' = [state EXCEPT ![i] =
                          IF w = "starting" THEN "STARTING" ELSE "STOPPING"]
          /\ inside' = [inside EXCEPT ![t] = i]
          /\ touched' = touched \cup {i}
    /\ UNCHANGED vars

\* The _on_start() or _on_stop() of that call ends.
DirectEnds(t) ==
    /\ Direct(t)
    /\ \E w \in IF state[inside[t]] = "STARTING" THEN {"RUNNING", "FAILED"} ELSE {"STOPPED"} :
          state' = Left(t, w)
    /\ inside' = [inside EXCEPT ![t] = 0]
    /\ UNCHANGED <<vars, touched>>

ServiceResume(t) == ServiceStarted(t) \/ ServiceFails(t) \/ ServiceStopped(t) \/ DirectEnds(t)

ServiceNext ==
    \E t \in Tasks :
       \/ ~Direct(t) /\ (ServiceAdd(t) \/ ServiceCall(t))
       \/ DirectCall(t)
       \/ ServiceResume(t)

ServiceSpec == ServiceInit /\ [][ServiceNext]_serviceVars

\* _on_start(), _on_stop() and every other hook end.
FairServiceSpec == ServiceSpec /\ \A t \in Tasks : WF_serviceVars(ServiceResume(t))

-----------------------------------------------------------------------------
(***************************************************************************)
(* Safety.                                                                 *)
(***************************************************************************)

\* A service is STARTING or STOPPING while exactly one task is in its hook, so
\* that what start() and stop() write after their await is never written over
\* the work of another caller.
InsideOne ==
    \A i \in Services :
        /\ state[i] \in {"STARTING", "STOPPING"} <=> \E t \in Tasks : inside[t] = i
        /\ \A t, u \in Tasks : inside[t] = i /\ inside[u] = i => t = u

ServiceTypeOK ==
    /\ TypeOK
    /\ state \in Seq(ServiceState \cup {"plain"})
    /\ Len(state) = Len(stoppable)
    /\ \A i \in Services : stoppable[i]
    /\ inside \in [Tasks -> 0..Len(stoppable)]
    /\ \A t \in Tasks : /\ inside[t] # 0 => inside[t] \in Services
                        /\ ~Free(t) => inside[t] \in {0, at[t]}
    /\ touched \subseteq Services

\* The type invariant and the one on who is in which service.
ServiceInv == ServiceTypeOK /\ InsideOne

\* A service that only the manager calls.
Managed(i) == i \in Services \ touched

\* A service follows its lifecycle, whatever clients do to the other ones.  On
\* a RUNNING lifecycle it is RUNNING.  Once a start that failed or a shutdown
\* is over, it is not: it never was started, it is stopped, or it is the one
\* service whose own _on_start() failed, which nobody stops.  STOPPED finds it
\* STOPPING only where the rollback of a failed start is still in its hook.
ServicesFollow ==
    /\ phase = "RUNNING" => \A i \in Hooks : Managed(i) => state[i] = "RUNNING"
    /\ phase = "STOPPED" \/ (phase = "FAILED" /\ \A t \in Tasks : pc[t] \notin Rolling) =>
          \A i \in Hooks : Managed(i) =>
              \/ state[i] \in {"CREATED", "FAILED", "STOPPED"}
              \/ state[i] = "STOPPING" /\ \E t \in Tasks : inside[t] = i /\ pc[t] = "rollback"
    /\ \A i, j \in Hooks :
          Managed(i) /\ Managed(j) /\ state[i] = "FAILED" /\ state[j] = "FAILED" => i = j

\* A service is taken down only when every service above it is on its way down:
\* none of them serves while one it may rely on is being stopped.
ServicesStopInReverse ==
    \A i, k \in Hooks :
        /\ i < k /\ Managed(i) /\ Managed(k)
        /\ state[i] \in {"STOPPING", "STOPPED"}
        => state[k] \notin {"STARTING", "RUNNING"}

=============================================================================
