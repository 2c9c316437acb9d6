--------------------------- MODULE HealthReporter ---------------------------
(***************************************************************************)
(* eaip.health.reporter.HealthReporter: report() runs every registered     *)
(* check as a task of its own (asyncio.gather) and rolls their results up, *)
(* while tasks of the same event loop register and unregister checks, call *)
(* report() again, or give one up with run_with_timeout().                 *)
(*                                                                         *)
(* The tasks of one gather stand side by side in the event loop's queue,   *)
(* so that a cancellation finds all of them started or none.  One that has *)
(* not started ends at once, and gather with it; a check that runs is sent *)
(* CancelledError, which it may catch, and which counts as a failure.      *)
(***************************************************************************)
EXTENDS Naturals, FiniteSets

CONSTANTS
    Reports,    \* the report() calls there are; each is made once
    Checks      \* the names of the health checks

VARIABLES
    checks,     \* the names in self._checks
    reporter,   \* where each report() is
    child,      \* where the check a report runs is
    outcome,    \* the status in the HealthReport of that check
    rollup      \* the status report() returned

vars == <<checks, reporter, child, outcome, rollup>>

Status == {"healthy", "degraded", "unhealthy"}

\* HealthStatus.numeric
Numeric == [healthy |-> 0, degraded |-> 1, unhealthy |-> 2]

Over  == {"returned", "raised", "skipped"}
Ended == {"returned", "cancelled"}

\* The checks report r runs: those registered when it was called.
Asked(r) == {c \in Checks : child[r][c] # "none"}

AllOver(r) == \A c \in Asked(r) : child[r][c] \in Over

TypeOK ==
    /\ checks \subseteq Checks
    /\ reporter \in [Reports -> {"new", "gathering", "cancelling"} \cup Ended]
    /\ child \in [Reports -> [Checks -> {"none", "ready", "running"} \cup Over]]
    /\ outcome \in [Reports -> [Checks -> Status \cup {"none"}]]
    /\ rollup \in [Reports -> Status \cup {"none"}]
    /\ \A r \in Reports : /\ reporter[r] = "returned" <=> rollup[r] # "none"
                          /\ reporter[r] = "new" => Asked(r) = {}

Init ==
    /\ checks = {}
    /\ reporter = [r \in Reports |-> "new"]
    /\ child = [r \in Reports |-> [c \in Checks |-> "none"]]
    /\ outcome = [r \in Reports |-> [c \in Checks |-> "none"]]
    /\ rollup = [r \in Reports |-> "none"]

-----------------------------------------------------------------------------
\* register(); a name that is there is refused and changes nothing.
Register(c) ==
    /\ c \notin checks
    /\ checks' = checks \cup {c}
    /\ UNCHANGED <<reporter, child, outcome, rollup>>

\* unregister()
Unregister(c) ==
    /\ c \in checks
    /\ checks' = checks \ {c}
    /\ UNCHANGED <<reporter, child, outcome, rollup>>

\* report() up to its await; without checks it returns at once.
Report(r) ==
    /\ reporter[r] = "new"
    /\ \/ /\ checks = {}
          /\ reporter' = [reporter EXCEPT ![r] = "returned"]
          /\ rollup' = [rollup EXCEPT ![r] = "healthy"]
          /\ child' = child
       \/ /\ checks # {}
          /\ reporter' = [reporter EXCEPT ![r] = "gathering"]
          /\ child' = [child EXCEPT ![r] =
                          [c \in Checks |-> IF c \in checks THEN "ready" ELSE "none"]]
          /\ rollup' = rollup
    /\ UNCHANGED <<checks, outcome>>

Becomes(r, c, place, status) ==
    /\ child' = [child EXCEPT ![r][c] = place]
    /\ outcome' = [outcome EXCEPT ![r][c] = status]
    /\ UNCHANGED <<checks, reporter, rollup>>

\* Mutant of StartCheck: a cancelled check is forgotten.
StartUncancelled(r, c) ==
    /\ child[r][c] = "ready"
    /\ reporter[r] = "gathering"
    /\ Becomes(r, c, "running", "none")

\* The event loop starts the task of a check, or ends one cancelled before.
StartCheck(r, c) ==
    /\ child[r][c] = "ready"
    /\ \/ /\ reporter[r] = "gathering"
          /\ Becomes(r, c, "running", "none")
       \/ /\ reporter[r] # "gathering"
          /\ Becomes(r, c, "skipped", "none")

CheckReturns(r, c) ==
    /\ child[r][c] = "running"
    /\ \E s \in Status : Becomes(r, c, "returned", s)

\* Mutant of CheckRaises: the failed check is left out of the rollup.
CheckIgnored(r, c) ==
    /\ child[r][c] = "running"
    /\ Becomes(r, c, "raised", "healthy")

\* _safe_check: whatever the check raises is a report that it is unhealthy.
CheckRaises(r, c) ==
    /\ child[r][c] = "running"
    /\ Becomes(r, c, "raised", "unhealthy")

\* The deadline of run_with_timeout() passes, or the caller is cancelled.
GiveUp(r) ==
    /\ reporter[r] = "gathering"
    /\ \A c, d \in Asked(r) : child[r][c] = "ready" => child[r][d] = "ready"
    /\ reporter' = [reporter EXCEPT ![r] = "cancelling"]
    /\ UNCHANGED <<checks, child, outcome, rollup>>

\* max(..., key=lambda s: s.numeric)
Worst(S) == CHOOSE s \in S : \A other \in S : Numeric[other] =< Numeric[s]

\* Mutant of ReportEnds: a report that is given up does not wait for checks.
ReportEndsAtOnce(r) ==
    /\ reporter[r] \in {"gathering", "cancelling"}
    /\ \/ /\ reporter[r] = "gathering"
          /\ AllOver(r)
          /\ reporter' = [reporter EXCEPT ![r] = "returned"]
          /\ rollup' = [rollup EXCEPT ![r] = Worst({outcome[r][c] : c \in Asked(r)})]
       \/ /\ reporter[r] = "cancelling"
          /\ reporter' = [reporter EXCEPT ![r] = "cancelled"]
          /\ rollup' = rollup
    /\ UNCHANGED <<checks, child, outcome>>

\* All checks are over: report() aggregates them.  One that was given up
\* raises then, or as soon as a check ends that had not started.
ReportEnds(r) ==
    /\ \/ /\ reporter[r] = "gathering"
          /\ AllOver(r)
          /\ reporter' = [reporter EXCEPT ![r] = "returned"]
          /\ rollup' = [rollup EXCEPT ![r] = Worst({outcome[r][c] : c \in Asked(r)})]
       \/ /\ reporter[r] = "cancelling"
          /\ AllOver(r) \/ \E c \in Asked(r) : child[r][c] = "skipped"
          /\ reporter' = [reporter EXCEPT ![r] = "cancelled"]
          /\ rollup' = rollup
    /\ UNCHANGED <<checks, child, outcome>>

CheckEnds(r, c) == CheckReturns(r, c) \/ CheckRaises(r, c)

Next ==
    \/ \E c \in Checks : Register(c) \/ Unregister(c)
    \/ \E r \in Reports : Report(r) \/ GiveUp(r) \/ ReportEnds(r)
    \/ \E r \in Reports, c \in Checks : StartCheck(r, c) \/ CheckEnds(r, c)

Spec == Init /\ [][Next]_vars

\* The event loop runs what is ready, and every check ends.
FairSpec ==
    /\ Spec
    /\ \A r \in Reports : WF_vars(ReportEnds(r))
    /\ \A r \in Reports, c \in Checks :
          WF_vars(StartCheck(r, c)) /\ WF_vars(CheckEnds(r, c))

-----------------------------------------------------------------------------
(***************************************************************************)
(* Safety.                                                                 *)
(***************************************************************************)

\* However report() ends, none of its checks is at work any more: a report
\* that is given up in time leaves nothing running behind its caller's back.
NothingOutlivesReport ==
    \A r \in Reports : reporter[r] \in Ended =>
        \A c \in Checks : child[r][c] # "running"

\* The type invariant together with what a report leaves.
HealthInv == TypeOK /\ NothingOutlivesReport

\* "Isolates failures" and "worst status": a report that returns has a result
\* of every check it asked, though checks came and went and other reports ran
\* meanwhile; it is unhealthy if one of them failed or said so, and healthy
\* only if all of them did.
RollupIsWorst ==
    \A r \in Reports : reporter[r] = "returned" =>
        /\ \A c \in Asked(r) : child[r][c] \in {"returned", "raised"}
        /\ rollup[r] = "unhealthy" <=>
              \E c \in Asked(r) : child[r][c] = "raised" \/ outcome[r][c] = "unhealthy"
        /\ rollup[r] = "healthy" <=> \A c \in Asked(r) : outcome[r][c] = "healthy"

(***************************************************************************)
(* Liveness.                                                               *)
(***************************************************************************)

\* Every report() ends, given up or not, whatever its checks do.
ReportsEnd ==
    \A r \in Reports : reporter[r] \in {"gathering", "cancelling"} ~> reporter[r] \in Ended
=============================================================================
