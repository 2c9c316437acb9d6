---------------------------- MODULE GatherProofs ----------------------------
(***************************************************************************)
(* Proofs about the two components that wait in asyncio.gather.            *)
(* HealthReporter, for any reports and any checks: nothing outlives a      *)
(* report, and a report that returns is the worst of its results.          *)
(* EventBus, for any publications, subscriptions and event types: nothing  *)
(* outlives publish(), which accounts for every subscription that matched, *)
(* and every handler is called in the order of the publications.           *)
(***************************************************************************)
EXTENDS HealthReporter, EventBus, FiniteSetTheorems, SequenceTheorems, TLAPS

\* The tasks of one gather have all been started, or none of them.
Unstarted == {"ready", "skipped"}

\* What is known of a report, by where it is.
ReportInv(r) ==
    /\ reporter[r] = "gathering" =>
          Asked(r) # {} /\ \A c \in Asked(r) : child[r][c] # "skipped"
    /\ reporter[r] = "cancelling" =>
          \A c, d \in Asked(r) : child[r][c] \in Unstarted => child[r][d] \in Unstarted
    /\ reporter[r] \in Ended => \A c \in Checks : child[r][c] # "running"
    /\ reporter[r] = "returned" => \A c \in Asked(r) : child[r][c] \in {"returned", "raised"}

\* What is known of a check: its outcome, by how it ended.
OutcomeInv(r) ==
    \A c \in Checks : /\ child[r][c] = "returned" => outcome[r][c] \in Status
                      /\ child[r][c] = "raised" => outcome[r][c] = "unhealthy"

IInv == /\ TypeOK
        /\ \A r \in Reports : ReportInv(r) /\ OutcomeInv(r)
        /\ RollupIsWorst

-----------------------------------------------------------------------------
\* The worst of some statuses is one of them, and no other is worse.
LEMMA WorstIsMax ==
    ASSUME NEW S \in SUBSET Status, S # {}
    PROVE  /\ Worst(S) \in S
           /\ Worst(S) = "unhealthy" <=> "unhealthy" \in S
           /\ Worst(S) = "healthy" <=> S = {"healthy"}
<1>1. /\ Numeric["healthy"] = 0 /\ Numeric["degraded"] = 1 /\ Numeric["unhealthy"] = 2
    BY DEF Numeric
<1>2. \E s \in S : \A other \in S : Numeric[other] =< Numeric[s]
  <2>1. CASE "unhealthy" \in S
    BY <1>1, <2>1 DEF Status
  <2>2. CASE "unhealthy" \notin S /\ "degraded" \in S
    <3>1. \A other \in S : other = "healthy" \/ other = "degraded"
        BY <2>2 DEF Status
    <3>2. \A other \in S : Numeric[other] =< Numeric["degraded"]
        BY <1>1, <3>1
    <3> QED
        BY <2>2, <3>2
  <2>3. CASE "unhealthy" \notin S /\ "degraded" \notin S
    <3>1. \A other \in S : other = "healthy"
        BY <2>3 DEF Status
    <3>2. PICK s \in S : TRUE
        OBVIOUS
    <3>3. \A other \in S : Numeric[other] =< Numeric[s]
        BY <1>1, <3>1
    <3> QED
        BY <3>3
  <2> QED
    BY <2>1, <2>2, <2>3
<1>3. Worst(S) \in S /\ \A other \in S : Numeric[other] =< Numeric[Worst(S)]
    BY <1>2 DEF Worst
<1>4. ASSUME "unhealthy" \in S PROVE Worst(S) = "unhealthy"
  <2>1. Numeric["unhealthy"] =< Numeric[Worst(S)]
    BY <1>3, <1>4
  <2>2. Worst(S) \in {"healthy", "degraded", "unhealthy"}
    BY <1>3 DEF Status
  <2> QED
    BY <1>1, <2>1, <2>2
<1>5. ASSUME Worst(S) = "healthy" PROVE S = {"healthy"}
  <2>1. \A other \in S : Numeric[other] =< 0 /\ other \in {"healthy", "degraded", "unhealthy"}
    BY <1>1, <1>3, <1>5 DEF Status
  <2>2. \A other \in S : other = "healthy"
    BY <1>1, <2>1
  <2> QED
    BY <2>2
<1>6. ASSUME S = {"healthy"} PROVE Worst(S) = "healthy"
    BY <1>3, <1>6
<1> QED
    BY <1>3, <1>4, <1>5, <1>6

\* What a step leaves as it is of a report, it leaves true.
LEMMA ReportStays ==
    ASSUME IInv, NEW r \in Reports, reporter'[r] = reporter[r],
           child'[r] = child[r], outcome'[r] = outcome[r]
    PROVE  ReportInv(r)' /\ OutcomeInv(r)'
BY DEF IInv, ReportInv, OutcomeInv, Asked

LEMMA InitOK == Init => IInv
BY DEF Init, IInv, TypeOK, Status, Over, Ended, Asked, ReportInv, OutcomeInv, RollupIsWorst

\* A check of report r moves on, and r stays where it is.
LEMMA CheckMoves ==
    ASSUME IInv, NEW r \in Reports, NEW c \in Checks,
           NEW w \in {"running"} \cup Over, NEW s \in Status \cup {"none"},
           Becomes(r, c, w, s),
           child[r][c] \in {"ready", "running"},
           w = "running" => reporter[r] = "gathering" /\ child[r][c] = "ready",
           w = "skipped" => reporter[r] # "gathering" /\ child[r][c] = "ready",
           w \in {"returned", "raised"} => child[r][c] = "running",
           w = "returned" => s \in Status,
           w = "raised" => s = "unhealthy"
    PROVE  IInv'
<1>1. /\ child' \in [Reports -> [Checks -> {"none", "ready", "running"} \cup Over]]
      /\ outcome' \in [Reports -> [Checks -> Status \cup {"none"}]]
    BY DEF IInv, TypeOK, Becomes
<1>2. UNCHANGED <<checks, reporter, rollup>>
    BY DEF Becomes
<1>3. \A o \in Reports, d \in Checks :
          /\ child'[o][d] = IF o = r /\ d = c THEN w ELSE child[o][d]
          /\ outcome'[o][d] = IF o = r /\ d = c THEN s ELSE outcome[o][d]
    BY DEF IInv, TypeOK, Becomes
<1>4. \A o \in Reports : Asked(o)' = Asked(o)
    BY <1>3 DEF Asked, Over
<1>5. reporter[r] # "returned" /\ reporter[r] # "new"
    BY DEF IInv, TypeOK, ReportInv, Asked, Ended
<1>6. TypeOK'
    BY <1>1, <1>2, <1>4 DEF IInv, TypeOK
<1>7. ReportInv(r)'
    BY <1>2, <1>3, <1>4, <1>5 DEF IInv, ReportInv, Unstarted, Ended, Over, Asked
<1>8. OutcomeInv(r)'
    BY <1>3 DEF IInv, OutcomeInv
<1>9. ASSUME NEW o \in Reports, o # r PROVE ReportInv(o)' /\ OutcomeInv(o)'
    BY <1>2, <1>9, ReportStays DEF IInv, TypeOK, Becomes
<1>10. RollupIsWorst'
    BY <1>2, <1>3, <1>4, <1>5 DEF IInv, RollupIsWorst, Asked
<1> QED
    BY <1>6, <1>7, <1>8, <1>9, <1>10 DEF IInv

-----------------------------------------------------------------------------
LEMMA Inductive == IInv /\ [Next]_vars => IInv'
<1> SUFFICES ASSUME IInv, [Next]_vars PROVE IInv'
    OBVIOUS
<1>1. ASSUME NEW c \in Checks, Register(c) \/ Unregister(c) PROVE IInv'
    BY <1>1 DEF Register, Unregister, IInv, TypeOK, Asked, ReportInv, OutcomeInv, RollupIsWorst
<1>2. ASSUME NEW r \in Reports, Report(r) PROVE IInv'
  <2>0. reporter[r] = "new" /\ Asked(r) = {} /\ checks \subseteq Checks
    BY <1>2 DEF Report, IInv, TypeOK
  <2>1. CASE checks = {}
    <3>1. /\ reporter' = [reporter EXCEPT ![r] = "returned"]
          /\ rollup' = [rollup EXCEPT ![r] = "healthy"]
          /\ UNCHANGED <<checks, child, outcome>>
        BY <1>2, <2>1 DEF Report
    <3>2. \A o \in Reports : Asked(o)' = Asked(o)
        BY <3>1 DEF Asked
    <3>3. TypeOK'
        BY <2>0, <3>1, <3>2 DEF IInv, TypeOK, Ended, Status
    <3>4. \A o \in Reports : ReportInv(o)' /\ OutcomeInv(o)'
        BY <2>0, <3>1, <3>2 DEF IInv, TypeOK, ReportInv, OutcomeInv, Asked
    <3>5. RollupIsWorst'
        BY <2>0, <3>1, <3>2 DEF IInv, TypeOK, RollupIsWorst
    <3> QED
        BY <3>3, <3>4, <3>5 DEF IInv
  <2>2. CASE checks # {}
    <3>1. /\ reporter' = [reporter EXCEPT ![r] = "gathering"]
          /\ child' = [child EXCEPT ![r] =
                          [c \in Checks |-> IF c \in checks THEN "ready" ELSE "none"]]
          /\ UNCHANGED <<checks, rollup, outcome>>
        BY <1>2, <2>2 DEF Report
    <3>2. /\ \A o \in Reports \ {r} : child'[o] = child[o] /\ reporter'[o] = reporter[o]
          /\ \A c \in Checks : child'[r][c] = IF c \in checks THEN "ready" ELSE "none"
          /\ reporter'[r] = "gathering"
        BY <3>1 DEF IInv, TypeOK
    <3>3. Asked(r)' = checks /\ \A o \in Reports \ {r} : Asked(o)' = Asked(o)
        BY <2>0, <3>2 DEF Asked
    <3>4. TypeOK'
      <4>1. child' \in [Reports -> [Checks -> {"none", "ready", "running"} \cup Over]]
        BY <3>1 DEF IInv, TypeOK
      <4>2. /\ reporter' \in [Reports -> {"new", "gathering", "cancelling"} \cup Ended]
            /\ \A o \in Reports : reporter'[o] = IF o = r THEN "gathering" ELSE reporter[o]
        BY <3>1 DEF IInv, TypeOK
      <4>3. \A o \in Reports : /\ reporter'[o] = "returned" <=> rollup'[o] # "none"
                               /\ reporter'[o] = "new" => Asked(o)' = {}
        BY <2>0, <3>1, <3>3, <4>2 DEF IInv, TypeOK
      <4>4. UNCHANGED <<checks, outcome, rollup>>
        BY <3>1
      <4> QED
        BY <4>1, <4>2, <4>3, <4>4 DEF IInv, TypeOK
    <3>5. ReportInv(r)' /\ OutcomeInv(r)'
        BY <2>0, <2>2, <3>2, <3>3 DEF ReportInv, OutcomeInv, Ended
    <3>6. ASSUME NEW o \in Reports, o # r PROVE ReportInv(o)' /\ OutcomeInv(o)'
        BY <3>1, <3>2, <3>6, ReportStays
    <3>7. RollupIsWorst'
      <4>1. SUFFICES ASSUME NEW o \in Reports, reporter'[o] = "returned"
                     PROVE  /\ \A c \in Asked(o)' : child'[o][c] \in {"returned", "raised"}
                            /\ rollup'[o] = "unhealthy" <=>
                                  \E c \in Asked(o)' : \/ child'[o][c] = "raised"
                                                       \/ outcome'[o][c] = "unhealthy"
                            /\ rollup'[o] = "healthy" <=>
                                  \A c \in Asked(o)' : outcome'[o][c] = "healthy"
        BY DEF RollupIsWorst
      <4>2. o # r /\ reporter[o] = "returned" /\ child'[o] = child[o] /\ Asked(o)' = Asked(o)
        BY <3>2, <3>3, <4>1
      <4> QED
        BY <3>1, <4>2 DEF IInv, RollupIsWorst
    <3> QED
        BY <3>4, <3>5, <3>6, <3>7 DEF IInv
  <2> QED
    BY <2>1, <2>2
<1>3. ASSUME NEW r \in Reports, GiveUp(r) PROVE IInv'
  <2>1. \A o \in Reports : Asked(o)' = Asked(o)
    BY <1>3 DEF GiveUp, Asked
  <2>2. TypeOK'
    BY <1>3, <2>1 DEF GiveUp, IInv, TypeOK
  <2>3. ReportInv(r)' /\ OutcomeInv(r)'
    BY <1>3, <2>1 DEF GiveUp, IInv, TypeOK, ReportInv, OutcomeInv, Unstarted, Ended
  <2>4. ASSUME NEW o \in Reports, o # r PROVE ReportInv(o)' /\ OutcomeInv(o)'
    BY <1>3, <2>4, ReportStays DEF GiveUp, IInv, TypeOK
  <2>5. RollupIsWorst'
    BY <1>3, <2>1 DEF GiveUp, IInv, TypeOK, RollupIsWorst
  <2> QED
    BY <2>2, <2>3, <2>4, <2>5 DEF IInv
<1>4. ASSUME NEW r \in Reports, ReportEnds(r) PROVE IInv'
  <2>0. \A o \in Reports : Asked(o)' = Asked(o)
    BY <1>4 DEF ReportEnds, Asked
  <2>1. CASE reporter[r] = "gathering"
    <3> DEFINE S == {outcome[r][c] : c \in Asked(r)}
    <3>1. /\ AllOver(r)
          /\ reporter' = [reporter EXCEPT ![r] = "returned"]
          /\ rollup' = [rollup EXCEPT ![r] = Worst(S)]
          /\ UNCHANGED <<checks, child, outcome>>
        BY <1>4, <2>1 DEF ReportEnds
    <3>2. /\ Asked(r) # {} /\ Asked(r) \subseteq Checks
          /\ \A c \in Asked(r) : child[r][c] \in {"returned", "raised"}
        BY <2>1, <3>1 DEF IInv, ReportInv, AllOver, Over, Asked
    <3>3. \A c \in Asked(r) : outcome[r][c] \in Status
        BY <3>2 DEF IInv, OutcomeInv, Status
    <3>4. /\ Worst(S) \in Status
          /\ Worst(S) = "unhealthy" <=> "unhealthy" \in S
          /\ Worst(S) = "healthy" <=> S = {"healthy"}
        BY <3>2, <3>3, WorstIsMax
    <3>5. TypeOK'
        BY <2>0, <2>1, <3>1, <3>4 DEF IInv, TypeOK, Ended, Status
    <3>6. ReportInv(r)' /\ OutcomeInv(r)'
        BY <2>0, <3>1, <3>2 DEF IInv, TypeOK, ReportInv, OutcomeInv, Asked
    <3>7. ASSUME NEW o \in Reports, o # r PROVE ReportInv(o)' /\ OutcomeInv(o)'
        BY <3>1, <3>7, ReportStays DEF IInv, TypeOK
    <3>8. /\ Worst(S) = "unhealthy" <=>
                \E c \in Asked(r) : child[r][c] = "raised" \/ outcome[r][c] = "unhealthy"
          /\ Worst(S) = "healthy" <=> \A c \in Asked(r) : outcome[r][c] = "healthy"
        BY <3>2, <3>4 DEF IInv, OutcomeInv
    <3>9. RollupIsWorst'
        BY <2>0, <3>1, <3>2, <3>8 DEF IInv, TypeOK, RollupIsWorst
    <3> QED
        BY <3>5, <3>6, <3>7, <3>9 DEF IInv
  <2>2. CASE reporter[r] = "cancelling"
    <3>1. /\ AllOver(r) \/ \E c \in Asked(r) : child[r][c] = "skipped"
          /\ reporter' = [reporter EXCEPT ![r] = "cancelled"]
          /\ UNCHANGED <<checks, child, outcome, rollup>>
        BY <1>4, <2>2 DEF ReportEnds
    <3>2. \A c \in Checks : child[r][c] # "running"
        BY <2>2, <3>1 DEF IInv, ReportInv, AllOver, Over, Unstarted, Asked
    <3>3. TypeOK'
        BY <2>0, <2>2, <3>1 DEF IInv, TypeOK, Ended
    <3>4. ReportInv(r)' /\ OutcomeInv(r)'
        BY <2>0, <3>1, <3>2 DEF IInv, TypeOK, ReportInv, OutcomeInv
    <3>5. ASSUME NEW o \in Reports, o # r PROVE ReportInv(o)' /\ OutcomeInv(o)'
        BY <3>1, <3>5, ReportStays DEF IInv, TypeOK
    <3>6. RollupIsWorst'
        BY <2>0, <3>1 DEF IInv, TypeOK, RollupIsWorst
    <3> QED
        BY <3>3, <3>4, <3>5, <3>6 DEF IInv
  <2> QED
    BY <1>4, <2>1, <2>2 DEF ReportEnds
<1>5. ASSUME NEW r \in Reports, NEW c \in Checks, StartCheck(r, c) PROVE IInv'
  <2>1. CASE reporter[r] = "gathering"
    BY <1>5, <2>1, CheckMoves DEF StartCheck, Over
  <2>2. CASE reporter[r] # "gathering"
    BY <1>5, <2>2, CheckMoves DEF StartCheck, Over
  <2> QED
    BY <2>1, <2>2
<1>6. ASSUME NEW r \in Reports, NEW c \in Checks, CheckEnds(r, c) PROVE IInv'
  <2>1. CASE CheckReturns(r, c)
    <3>1. PICK s \in Status : Becomes(r, c, "returned", s)
        BY <2>1 DEF CheckReturns
    <3> QED
        BY <2>1, <3>1, CheckMoves DEF CheckReturns, Over
  <2>2. CASE CheckRaises(r, c)
    BY <2>2, CheckMoves DEF CheckRaises, Over, Status
  <2> QED
    BY <1>6, <2>1, <2>2 DEF CheckEnds
<1>7. ASSUME UNCHANGED vars PROVE IInv'
    BY <1>7 DEF vars, IInv, TypeOK, Asked, ReportInv, OutcomeInv, RollupIsWorst
<1> QED
    BY <1>1, <1>2, <1>3, <1>4, <1>5, <1>6, <1>7 DEF Next

\* However report() ends, by return or by giving up, none of its checks is at
\* work any more.
THEOREM NothingLeftRunning == Spec => []HealthInv
<1>1. IInv => HealthInv
    BY DEF IInv, HealthInv, NothingOutlivesReport, ReportInv
<1> QED
    BY <1>1, InitOK, Inductive, PTL DEF Spec

\* A report that returns has a result of every check it asked, and is the
\* worst of them; a check that failed makes it unhealthy.
THEOREM WorstIsReported == Spec => []RollupIsWorst
<1>1. IInv => RollupIsWorst
    BY DEF IInv
<1> QED
    BY <1>1, InitOK, Inductive, PTL DEF Spec

-----------------------------------------------------------------------------
(***************************************************************************)
(* Lists without repetitions.                                              *)
(***************************************************************************)

LEMMA AppendOnce ==
    ASSUME NEW S, NEW q \in Seq(S), NEW x \in S, x \notin ToSet(q), IsInjective(q)
    PROVE  LET r == Append(q, x)
           IN  /\ r \in Seq(S) /\ IsInjective(r) /\ ToSet(r) = ToSet(q) \cup {x}
               /\ Len(q) \in Nat /\ DOMAIN q = 1..Len(q) /\ DOMAIN r = 1..(Len(q) + 1)
               /\ \A i \in 1..Len(q) : r[i] = q[i]
               /\ r[Len(q) + 1] = x
<1> DEFINE r == Append(q, x)
<1>1. PICK n \in Nat : n = Len(q) /\ DOMAIN q = 1..n
  BY LenProperties
<1>2. /\ r \in Seq(S) /\ DOMAIN r = 1..(n + 1)
      /\ \A i \in 1..n : r[i] = q[i]
      /\ r[n + 1] = x
  BY <1>1, AppendProperties, LenProperties
<1> HIDE DEF r
<1>3. \A i \in 1..n : q[i] # x
  BY <1>1 DEF ToSet
<1>4. \A i \in 1..(n + 1) : i \in 1..n \/ i = n + 1
  BY <1>1
<1>5. IsInjective(r)
  BY <1>1, <1>2, <1>3, <1>4 DEF IsInjective
<1>6. \A y \in ToSet(r) : y \in ToSet(q) \cup {x}
  BY <1>1, <1>2, <1>4 DEF ToSet
<1>7. \A i \in 1..n : i \in 1..(n + 1) /\ n + 1 \in 1..(n + 1)
  OBVIOUS
<1>8. \A y \in ToSet(q) : y \in ToSet(r)
  BY <1>1, <1>2, <1>7 DEF ToSet
<1>9. x \in ToSet(r)
  <2>1. n + 1 \in 1..(n + 1)
    OBVIOUS
  <2> QED
    BY <1>2, <2>1 DEF ToSet
<1> QED
  BY <1>1, <1>2, <1>5, <1>6, <1>8, <1>9 DEF r

\* [x for x in q if x in S] has what it says, once.
LEMMA FilteredOnce ==
    ASSUME NEW T, NEW q \in Seq(T), NEW S, NEW r \in Filtered(q, S)
    PROVE  r \in Seq(T) /\ IsInjective(r) /\ ToSet(r) = ToSet(q) \cap S
<1> DEFINE A == ToSet(q) \cap S
           D == 1..Cardinality(A)
<1>1. IsFiniteSet(A)
  <2>1. IsFiniteSet(1..Len(q)) /\ DOMAIN q = 1..Len(q)
    BY LenProperties, FS_Interval
  <2>2. q \in Surjection(1..Len(q), ToSet(q))
    BY <2>1, LenProperties DEF Surjection, ToSet
  <2>3. IsFiniteSet(ToSet(q))
    BY <2>1, <2>2, FS_Surjection
  <2> QED
    BY <2>3, FS_Subset
<1>2. Cardinality(A) \in Nat
  BY <1>1, FS_CardinalityType
<1>3. r \in [D -> A] /\ \A i, j \in D : i # j => r[i] # r[j]
  BY DEF Filtered, SetToSeqs
<1> HIDE DEF A
<1>4. r \in Injection(D, A)
  BY <1>3 DEF Injection, IsInjective
<1>5. r \in Surjection(D, A)
  BY <1>1, <1>2, <1>4, FS_Interval, FS_Injection
<1>6. r \in Seq(A) /\ IsInjective(r)
  BY <1>2, <1>3 DEF IsInjective
<1>7. A \subseteq T
  BY ElementOfSeq DEF A, ToSet
<1>8. ToSet(r) = A
  BY <1>3, <1>5 DEF Surjection, ToSet
<1> QED
  BY <1>6, <1>7, <1>8, SeqMonotonic DEF A

\* Of what a list without repetitions has it has one.
LEMMA CountedOnce ==
    ASSUME NEW q, IsInjective(q), NEW x
    PROVE  /\ x \in {q[i] : i \in DOMAIN q} => Count(q, x) = 1
           /\ x \notin {q[i] : i \in DOMAIN q} => Count(q, x) = 0
<1> DEFINE I == {i \in DOMAIN q : q[i] = x}
<1>1. ASSUME x \in {q[i] : i \in DOMAIN q} PROVE Cardinality(I) = 1
  <2>1. PICK i \in DOMAIN q : q[i] = x
    BY <1>1
  <2>2. I = {i}
    BY <2>1 DEF IsInjective
  <2> QED
    BY <2>2, FS_Singleton
<1>2. ASSUME x \notin {q[i] : i \in DOMAIN q} PROVE Cardinality(I) = 0
  <2>1. I = {}
    BY <1>2
  <2> QED
    BY <2>1, FS_EmptySet
<1> QED
  BY <1>1, <1>2 DEF Count

-----------------------------------------------------------------------------
(***************************************************************************)
(* The event bus: what is known of each delivery and each publication.     *)
(***************************************************************************)

Waiting == {"ready", "skipped"}
Called  == Handling \cup {"done", "raised", "cancelled"}

\* The queue has every delivery that is ready, once, and nothing else.
QueueInv ==
    /\ IsInjective(ready)
    /\ \A i \in DOMAIN ready : delivery[ready[i][1]][ready[i][2]] = "ready"

\* Who was called, and who is reported, by how far its delivery has come.
AccountInv ==
    \A p \in Publications, s \in Subscriptions :
        /\ IsInjective(calls[s]) /\ IsInjective(failures[p])
        /\ p \in ToSet(calls[s]) <=> delivery[p][s] \in Called
        /\ delivery[p][s] = "raised" => s \in ToSet(failures[p])
        /\ s \in ToSet(failures[p]) => delivery[p][s] \in {"raised", "cancelled"}

\* Where the deliveries of p may be, by where publish() is.
PublishInv(p) ==
    /\ publisher[p] = "gathering" =>
          \A s \in Subscriptions :
             delivery[p][s] \in {"none", "ready", "handling", "done", "raised"}
    /\ publisher[p] = "returned" =>
          \A s \in Subscriptions : delivery[p][s] \in {"none", "done", "raised"}
    /\ p \in own => publisher[p] \in {"cancelling", "cancelled"}
    /\ p \notin own => \A s \in Subscriptions : delivery[p][s] \notin {"condemned", "cancelled"}
    /\ publisher[p] = "cancelling" /\ p \notin own =>
          \A r, s \in matching[p] : delivery[p][r] \in Waiting => delivery[p][s] \in Waiting
    /\ publisher[p] = "cancelled" /\ p \notin own =>
          \A s \in Subscriptions : delivery[p][s] \notin Handling

\* p was published before r.
Before(p, r) == \E i, j \in DOMAIN made : i < j /\ made[i] = p /\ made[j] = r

\* Whoever was called was called in that order, the queue is in that order, and
\* what it has for a subscription comes after what that was called with.
OrderInv ==
    /\ \A s \in Subscriptions : \A m, n \in DOMAIN calls[s] :
          m < n => Before(calls[s][m], calls[s][n])
    /\ \A m, n \in DOMAIN ready :
          m < n => ready[m][1] = ready[n][1] \/ Before(ready[m][1], ready[n][1])
    /\ \A n \in DOMAIN ready : \A m \in DOMAIN calls[ready[n][2]] :
          Before(calls[ready[n][2]][m], ready[n][1])

BusIInv == /\ BusTypeOK /\ QueueInv /\ AccountInv /\ OrderInv
           /\ \A p \in Publications : PublishInv(p)

\* The parts of the type invariant.
EntriesOK ==
    /\ entries \in Seq(Subscriptions)
    /\ IsInjective(entries)
    /\ ToSet(entries) \subseteq subscribed
    /\ subscribed \subseteq Subscriptions
TablesOK ==
    /\ event \in [Publications -> EventTypes \cup {NoType}]
    /\ matching \in [Publications -> SUBSET Subscriptions]
    /\ delivery \in [Publications -> [Subscriptions -> Deliveries]]
    /\ failures \in [Publications -> Seq(Subscriptions)]
    /\ publisher \in [Publications -> Publishing]
    /\ own \subseteq Publications
    /\ ready \in Seq(Publications \X Subscriptions)
    /\ calls \in [Subscriptions -> Seq(Publications)]
LinkOK(p, s) ==
    /\ delivery[p][s] = "ready" => <<p, s>> \in ToSet(ready)
    /\ s \in matching[p] <=> delivery[p][s] # "none"
    /\ delivery[p][s] = "ready" => publisher[p] \notin {"new", "returned"}
    /\ delivery[p][s] = "condemned" => p \in own
MadeOK ==
    /\ \A s \in Subscriptions : ToSet(calls[s]) \subseteq ToSet(made)
    /\ made \in Seq(Publications)
    /\ IsInjective(made)
    /\ \A p \in Publications : p \in ToSet(made) <=> publisher[p] # "new"

LEMMA TypeParts ==
    /\ BusTypeOK <=> /\ EntriesOK /\ TablesOK /\ MadeOK
                     /\ \A p \in Publications, s \in Subscriptions : LinkOK(p, s)
    /\ BusTypeOK' <=> /\ EntriesOK' /\ TablesOK' /\ MadeOK'
                      /\ \A p \in Publications, s \in Subscriptions : LinkOK(p, s)'
BY DEF BusTypeOK, EntriesOK, TablesOK, MadeOK, LinkOK

LEMMA BusInitOK == BusInit => BusIInv
<1> SUFFICES ASSUME BusInit PROVE BusIInv
  OBVIOUS
<1>1. \A S : <<>> \in Seq(S) /\ DOMAIN <<>> = {} /\ ToSet(<<>>) = {} /\ IsInjective(<<>>)
  BY EmptySeq DEF ToSet, IsInjective
<1>2. EntriesOK /\ TablesOK /\ MadeOK
  BY <1>1 DEF BusInit, EntriesOK, TablesOK, MadeOK, Deliveries, Publishing
<1>3. \A p \in Publications, s \in Subscriptions : LinkOK(p, s)
  BY DEF BusInit, LinkOK
<1>4. QueueInv /\ AccountInv /\ OrderInv
  BY <1>1 DEF BusInit, QueueInv, AccountInv, OrderInv, Called, Handling
<1>5. \A p \in Publications : PublishInv(p)
  BY DEF BusInit, PublishInv, Handling
<1> QED
  BY <1>2, <1>3, <1>4, <1>5, TypeParts DEF BusIInv

\* A step that leaves the queue, the deliveries and what was called alone.
Quiet == UNCHANGED <<delivery, failures, ready, made, calls>>

LEMMA QuietStep ==
    ASSUME BusIInv, Quiet
    PROVE  QueueInv' /\ AccountInv' /\ OrderInv'
BY DEF BusIInv, Quiet, QueueInv, AccountInv, OrderInv, Before

\* What is true of a publication remains so while nothing happens to it.
LEMMA PublicationStays ==
    ASSUME BusIInv, NEW p \in Publications, delivery'[p] = delivery[p],
           publisher'[p] = publisher[p], matching'[p] = matching[p],
           p \in own' <=> p \in own
    PROVE  PublishInv(p)'
BY DEF BusIInv, PublishInv

LEMMA LinkStays ==
    ASSUME BusIInv, NEW p \in Publications, NEW s \in Subscriptions,
           delivery'[p][s] = delivery[p][s], matching'[p] = matching[p],
           publisher[p] # "new" => publisher'[p] \notin {"new", "returned"}
                                   \/ publisher'[p] = publisher[p]
                                   \/ delivery[p][s] # "ready",
           publisher[p] = "new" => publisher'[p] = publisher[p],
           delivery[p][s] = "ready" => <<p, s>> \in ToSet(ready)',
           own \subseteq own'
    PROVE  LinkOK(p, s)'
BY TypeParts DEF BusIInv, LinkOK

\* Subscriptions come and go.
LEMMA EntriesStep ==
    ASSUME BusIInv, NEW s \in Subscriptions, Subscribe(s) \/ Unsubscribe(s) \/ Clear
    PROVE  BusIInv'
<1>1. EntriesOK /\ TablesOK /\ MadeOK /\ \A p \in Publications, x \in Subscriptions : LinkOK(p, x)
  BY TypeParts DEF BusIInv
<1>2. UNCHANGED <<event, matching, delivery, failures, publisher, ready, own, made, calls>>
  BY DEF Subscribe, Unsubscribe, Clear, history
<1>3. EntriesOK'
  <2>1. CASE Subscribe(s)
    <3>1. s \notin ToSet(entries) /\ entries' = Append(entries, s) /\ subscribed' = subscribed \cup {s}
      BY <1>1, <2>1 DEF Subscribe, EntriesOK
    <3>2. /\ entries' \in Seq(Subscriptions) /\ IsInjective(entries')
          /\ ToSet(entries') = ToSet(entries) \cup {s}
      BY <1>1, <3>1, AppendOnce DEF EntriesOK
    <3> QED
      BY <1>1, <3>1, <3>2 DEF EntriesOK
  <2>2. CASE Unsubscribe(s)
    <3>1. entries' \in Filtered(entries, Subscriptions \ {s}) /\ subscribed' = subscribed
      BY <2>2 DEF Unsubscribe
    <3>2. /\ entries' \in Seq(Subscriptions) /\ IsInjective(entries')
          /\ ToSet(entries') \subseteq ToSet(entries)
      BY <1>1, <3>1, FilteredOnce DEF EntriesOK
    <3> QED
      BY <1>1, <3>1, <3>2 DEF EntriesOK
  <2>3. CASE Clear
    <3>1. entries' = <<>> /\ subscribed' = subscribed
      BY <2>3 DEF Clear
    <3>2. <<>> \in Seq(Subscriptions) /\ IsInjective(<<>>) /\ ToSet(<<>>) = {}
      BY EmptySeq DEF IsInjective, ToSet
    <3> QED
      BY <1>1, <3>1, <3>2 DEF EntriesOK
  <2> QED
    BY <2>1, <2>2, <2>3
<1>4. TablesOK' /\ MadeOK'
  BY <1>1, <1>2 DEF TablesOK, MadeOK
<1>5. \A p \in Publications, x \in Subscriptions : LinkOK(p, x)'
  BY <1>1, <1>2 DEF LinkOK
<1>6. QueueInv' /\ AccountInv' /\ OrderInv'
  BY <1>2, QuietStep DEF Quiet
<1>7. \A p \in Publications : PublishInv(p)'
  BY <1>2, PublicationStays
<1> QED
  BY <1>3, <1>4, <1>5, <1>6, <1>7, TypeParts DEF BusIInv

\* publish() is cancelled from outside, or ends.
LEMMA PublisherStep ==
    ASSUME BusIInv, NEW p \in Publications, Cancel(p) \/ PublishEnds(p)
    PROVE  BusIInv'
<1>1. EntriesOK /\ TablesOK /\ MadeOK /\ \A r \in Publications, x \in Subscriptions : LinkOK(r, x)
  BY TypeParts DEF BusIInv
<1>2. UNCHANGED <<entries, subscribed, event, matching, delivery, failures, ready, own, made, calls>>
  BY DEF Cancel, PublishEnds, subscriptions, history
<1>3. PICK w \in {"cancelling", "returned", "cancelled"} :
          publisher' = [publisher EXCEPT ![p] = w]
  BY DEF Cancel, PublishEnds
<1>4. publisher[p] \in {"gathering", "cancelling"}
  BY DEF Cancel, PublishEnds
<1>5. /\ publisher' \in [Publications -> Publishing] /\ publisher'[p] = w
      /\ \A r \in Publications : r # p => publisher'[r] = publisher[r]
  BY <1>1, <1>3 DEF TablesOK, Publishing
<1>6. w = "returned" => publisher[p] = "gathering" /\ AllSettled(p)
  BY <1>1, <1>3 DEF Cancel, PublishEnds, TablesOK
<1>7. EntriesOK' /\ TablesOK' /\ MadeOK'
  BY <1>1, <1>2, <1>4, <1>5 DEF EntriesOK, TablesOK, MadeOK
<1>8. w = "returned" => \A s \in Subscriptions : delivery[p][s] \in {"none", "done", "raised"}
  BY <1>1, <1>6 DEF BusIInv, PublishInv, AllSettled, LinkOK, Settled, Cancelled
<1>9. \A r \in Publications, x \in Subscriptions : LinkOK(r, x)'
  BY <1>1, <1>2, <1>4, <1>5, <1>8 DEF LinkOK
<1>10. QueueInv' /\ AccountInv' /\ OrderInv'
  BY <1>2, QuietStep DEF Quiet
<1>11. PublishInv(p)'
  <2>1. CASE w = "returned"
    BY <1>2, <1>5, <1>6, <1>8, <2>1 DEF BusIInv, PublishInv
  <2>2. CASE w = "cancelling"
    <3>1. publisher[p] = "gathering" /\ \A r, s \in matching[p] : delivery[p][r] = "ready" => delivery[p][s] = "ready"
      BY <1>1, <1>3, <2>2 DEF Cancel, PublishEnds, TablesOK
    <3>2. \A s \in Subscriptions : delivery[p][s] \in {"none", "ready", "handling", "done", "raised"}
      BY <3>1 DEF BusIInv, PublishInv
    <3>3. matching[p] \subseteq Subscriptions
      BY <1>1 DEF TablesOK
    <3> QED
      BY <1>2, <1>5, <2>2, <3>1, <3>2, <3>3 DEF BusIInv, PublishInv, Waiting
  <2>3. CASE w = "cancelled"
    <3>1. /\ publisher[p] = "cancelling"
          /\ AllSettled(p) \/ \E s \in matching[p] : delivery[p][s] \in Cancelled
      BY <1>1, <1>3, <2>3 DEF Cancel, PublishEnds, TablesOK
    <3>2. matching[p] \subseteq Subscriptions
      BY <1>1 DEF TablesOK
    <3>3. ASSUME p \notin own, NEW s \in Subscriptions PROVE delivery[p][s] \notin Handling
      <4>1. CASE s \notin matching[p]
        BY <1>1, <4>1 DEF LinkOK, Handling
      <4>2. CASE s \in matching[p] /\ AllSettled(p)
        BY <4>2 DEF AllSettled, Settled, Cancelled, Handling
      <4>3. CASE s \in matching[p] /\ \E r \in matching[p] : delivery[p][r] \in Cancelled
        BY <3>1, <3>2, <3>3, <4>3 DEF BusIInv, PublishInv, Cancelled, Waiting, Handling
      <4> QED
        BY <3>1, <4>1, <4>2, <4>3
    <3> QED
      BY <1>2, <1>5, <2>3, <3>1, <3>3 DEF BusIInv, PublishInv
  <2> QED
    BY <2>1, <2>2, <2>3
<1>12. \A r \in Publications : PublishInv(r)'
  BY <1>2, <1>5, <1>11, PublicationStays
<1> QED
  BY <1>7, <1>9, <1>10, <1>12, TypeParts DEF BusIInv

\* The delivery of p to s goes on to w.
Onwards(p, s, w) == delivery' = [delivery EXCEPT ![p][s] = w]

LEMMA OnwardsEffect ==
    ASSUME BusIInv, NEW p \in Publications, NEW s \in Subscriptions, NEW w \in Deliveries,
           Onwards(p, s, w)
    PROVE  /\ delivery' \in [Publications -> [Subscriptions -> Deliveries]]
           /\ delivery'[p][s] = w
           /\ \A x \in Subscriptions : x # s => delivery'[p][x] = delivery[p][x]
           /\ \A r \in Publications : r # p => delivery'[r] = delivery[r]
BY TypeParts DEF BusIInv, TablesOK, Onwards

\* A handler returns, raises, or cancels its publication.
LEMMA HandlerStep ==
    ASSUME BusIInv, NEW p \in Publications, NEW s \in Subscriptions,
           HandlerEnds(p, s) \/ CancelOwn(p, s)
    PROVE  BusIInv'
<1>1. EntriesOK /\ TablesOK /\ MadeOK /\ \A r \in Publications, x \in Subscriptions : LinkOK(r, x)
  BY TypeParts DEF BusIInv
<1>2. UNCHANGED <<entries, subscribed, event, matching, ready, made, calls>>
  BY DEF HandlerEnds, HandlerReturns, HandlerRaises, CancelOwn, subscriptions, history
<1>3. delivery[p][s] \in Handling
  BY DEF HandlerEnds, HandlerReturns, HandlerRaises, CancelOwn, Handling
<1>4. PICK w \in {"done", "raised", "cancelled", "condemned"} :
          /\ Onwards(p, s, w)
          /\ w \in {"done", "raised", "cancelled"} => UNCHANGED <<publisher, own>>
          /\ w = "cancelled" => delivery[p][s] = "condemned"
          /\ w = "condemned" => /\ publisher[p] = "gathering"
                                /\ publisher' = [publisher EXCEPT ![p] = "cancelling"]
                                /\ own' = own \cup {p}
          /\ \/ failures' = failures /\ w # "raised"
             \/ failures' = [failures EXCEPT ![p] = Append(@, s)] /\ w \in {"raised", "cancelled"}
  BY DEF HandlerEnds, HandlerReturns, HandlerRaises, CancelOwn, EndsAs, Onwards
<1>5. w \in Deliveries /\ w \in Called
  BY DEF Deliveries, Called, Handling, Settled, Cancelled
<1>6. /\ delivery' \in [Publications -> [Subscriptions -> Deliveries]]
      /\ delivery'[p][s] = w
      /\ \A x \in Subscriptions : x # s => delivery'[p][x] = delivery[p][x]
      /\ \A r \in Publications : r # p => delivery'[r] = delivery[r]
  BY <1>4, <1>5, OnwardsEffect
<1>7. /\ publisher' \in [Publications -> Publishing]
      /\ \A r \in Publications : r # p => publisher'[r] = publisher[r]
      /\ publisher'[p] = IF w = "condemned" THEN "cancelling" ELSE publisher[p]
      /\ own' = IF w = "condemned" THEN own \cup {p} ELSE own
  BY <1>1, <1>4 DEF TablesOK, Publishing
<1>8. s \notin ToSet(failures[p]) /\ IsInjective(failures[p]) /\ failures[p] \in Seq(Subscriptions)
  BY <1>1, <1>3 DEF BusIInv, AccountInv, TablesOK, Handling
<1>9. /\ failures' \in [Publications -> Seq(Subscriptions)]
      /\ \A r \in Publications : r # p => failures'[r] = failures[r]
      /\ IsInjective(failures'[p])
      /\ \A x \in Subscriptions : x # s =>
            (x \in ToSet(failures'[p]) <=> x \in ToSet(failures[p]))
      /\ w = "raised" => s \in ToSet(failures'[p])
      /\ s \in ToSet(failures'[p]) => w \in {"raised", "cancelled"}
  <2>1. CASE failures' = failures /\ w # "raised"
    BY <1>1, <1>8, <2>1 DEF TablesOK
  <2>2. CASE failures' = [failures EXCEPT ![p] = Append(@, s)] /\ w \in {"raised", "cancelled"}
    <3> DEFINE q == Append(failures[p], s)
    <3>1. q \in Seq(Subscriptions) /\ IsInjective(q) /\ ToSet(q) = ToSet(failures[p]) \cup {s}
      BY <1>8, AppendOnce
    <3> HIDE DEF q
    <3>2. failures' = [failures EXCEPT ![p] = q]
      BY <2>2 DEF q
    <3>3. failures'[p] = q /\ \A r \in Publications : r # p => failures'[r] = failures[r]
      BY <1>1, <3>2 DEF TablesOK
    <3>4. failures' \in [Publications -> Seq(Subscriptions)]
      BY <1>1, <3>1, <3>2 DEF TablesOK
    <3> QED
      BY <2>2, <3>1, <3>3, <3>4
  <2> QED
    BY <1>4, <2>1, <2>2
<1>10. publisher[p] # "new"
  BY <1>1, <1>3 DEF BusIInv, AccountInv, MadeOK, Called
<1>11. EntriesOK' /\ TablesOK' /\ MadeOK'
  BY <1>1, <1>2, <1>6, <1>7, <1>9, <1>10 DEF EntriesOK, TablesOK, MadeOK
<1>12. ASSUME NEW r \in Publications, NEW x \in Subscriptions PROVE LinkOK(r, x)'
  <2>1. CASE r # p
    BY <1>1, <1>2, <1>6, <1>7, <2>1 DEF LinkOK
  <2>2. CASE r = p /\ x # s
    BY <1>1, <1>2, <1>6, <1>7, <2>2 DEF LinkOK
  <2>3. CASE r = p /\ x = s
    BY <1>1, <1>2, <1>3, <1>6, <1>7, <2>3 DEF LinkOK, Handling
  <2> QED
    BY <2>1, <2>2, <2>3
<1>13. QueueInv'
  <2>1. ASSUME NEW i \in DOMAIN ready PROVE delivery'[ready[i][1]][ready[i][2]] = "ready"
    <3>1. delivery[ready[i][1]][ready[i][2]] = "ready"
      BY DEF BusIInv, QueueInv
    <3>2. ready[i][1] \in Publications /\ ready[i][2] \in Subscriptions
      BY <1>1, LenProperties, ElementOfSeq DEF TablesOK
    <3> QED
      BY <1>3, <1>6, <3>1, <3>2 DEF Handling
  <2> QED
    BY <1>2, <2>1 DEF BusIInv, QueueInv
<1>14. AccountInv'
  <2> SUFFICES ASSUME NEW r \in Publications, NEW x \in Subscriptions
               PROVE  /\ IsInjective(calls[x]) /\ IsInjective(failures'[r])
                      /\ r \in ToSet(calls[x]) <=> delivery'[r][x] \in Called
                      /\ delivery'[r][x] = "raised" => x \in ToSet(failures'[r])
                      /\ x \in ToSet(failures'[r]) => delivery'[r][x] \in {"raised", "cancelled"}
    BY <1>2 DEF AccountInv
  <2>1. /\ IsInjective(calls[x]) /\ IsInjective(failures[r])
        /\ r \in ToSet(calls[x]) <=> delivery[r][x] \in Called
        /\ delivery[r][x] = "raised" => x \in ToSet(failures[r])
        /\ x \in ToSet(failures[r]) => delivery[r][x] \in {"raised", "cancelled"}
    BY DEF BusIInv, AccountInv
  <2>2. CASE r # p
    BY <1>6, <1>9, <2>1, <2>2
  <2>3. CASE r = p /\ x # s
    BY <1>6, <1>9, <2>1, <2>3
  <2>4. CASE r = p /\ x = s
    BY <1>3, <1>5, <1>6, <1>9, <2>1, <2>4 DEF Called
  <2> QED
    BY <2>2, <2>3, <2>4
<1>15. OrderInv'
  BY <1>2 DEF BusIInv, OrderInv, Before
<1>16. PublishInv(p)'
  <2>1. PublishInv(p) /\ LinkOK(p, s) /\ s \in matching[p] /\ matching[p] \subseteq Subscriptions
    BY <1>1, <1>3 DEF BusIInv, LinkOK, Handling, TablesOK
  <2>2. CASE w = "condemned"
    BY <1>2, <1>6, <1>7, <2>1, <2>2 DEF PublishInv
  <2>3. CASE w # "condemned"
    <3>1. publisher'[p] = publisher[p] /\ own' = own /\ w \in {"done", "raised", "cancelled"}
      BY <1>7, <2>3
    <3>2. w = "cancelled" => p \in own
      BY <1>4, <2>1 DEF LinkOK
    <3>3. publisher[p] # "returned"
      BY <1>3, <2>1 DEF PublishInv, Handling
    <3>4. publisher[p] = "cancelled" => p \in own
      BY <1>3, <2>1 DEF PublishInv
    <3>5. publisher[p] = "cancelling" /\ p \notin own =>
             \A r, x \in matching[p] : delivery'[p][r] \in Waiting => delivery'[p][x] \in Waiting
      BY <1>3, <1>6, <2>1, <3>1 DEF PublishInv, Waiting, Handling
    <3>6. p \notin own => \A x \in Subscriptions : delivery'[p][x] \notin {"condemned", "cancelled"}
      BY <1>6, <2>1, <3>1, <3>2 DEF PublishInv
    <3>7. publisher[p] = "gathering" =>
             \A x \in Subscriptions :
                delivery'[p][x] \in {"none", "ready", "handling", "done", "raised"}
      <4>1. publisher[p] = "gathering" => p \notin own
        BY <2>1 DEF PublishInv
      <4> QED
        BY <1>6, <2>1, <3>1, <3>2, <4>1 DEF PublishInv
    <3> QED
      BY <1>2, <2>1, <3>1, <3>3, <3>4, <3>5, <3>6, <3>7 DEF PublishInv
  <2> QED
    BY <2>2, <2>3
<1>17. \A r \in Publications : PublishInv(r)'
  BY <1>2, <1>6, <1>7, <1>16, PublicationStays
<1> QED
  BY <1>11, <1>12, <1>13, <1>14, <1>15, <1>17, TypeParts DEF BusIInv

\* The event loop takes the first delivery off its queue.
LEMMA StartStep ==
    ASSUME BusIInv, StartDelivery
    PROVE  BusIInv'
<1>1. EntriesOK /\ TablesOK /\ MadeOK /\ \A r \in Publications, x \in Subscriptions : LinkOK(r, x)
  BY TypeParts DEF BusIInv
<1>2. /\ UNCHANGED <<entries, subscribed, event, matching, failures, publisher, own, made>>
      /\ ready # <<>> /\ ready' = Tail(ready)
  BY DEF StartDelivery, subscriptions
<1>3. PICK n \in Nat : Len(ready) = n /\ DOMAIN ready = 1..n /\ 1 \in 1..n
  BY <1>1, <1>2, LenProperties, EmptySeq DEF TablesOK
<1>4. /\ ready' \in Seq(Publications \X Subscriptions) /\ DOMAIN ready' = 1..(n - 1)
      /\ \A i \in 1..(n - 1) : i + 1 \in 1..n /\ ready'[i] = ready[i + 1]
  BY <1>1, <1>2, <1>3, HeadTailProperties, LenProperties DEF TablesOK
<1>5a. \A i \in 1..n : \E r \in Publications, x \in Subscriptions : ready[i] = <<r, x>>
  <2>1. ready \in Seq(Publications \X Subscriptions)
    BY <1>1 DEF TablesOK
  <2>2. \A i \in 1..n : ready[i] \in Publications \X Subscriptions
    BY <1>3, <2>1, ElementOfSeq
  <2> QED
    BY <2>2
<1>5. PICK p \in Publications, s \in Subscriptions : ready[1] = <<p, s>>
  BY <1>3, <1>5a
<1>6. Head(ready)[1] = p /\ Head(ready)[2] = s
  <2>1. Head(ready) = ready[1]
    BY <1>1, <1>2 DEF TablesOK
  <2> QED
    BY <1>5, <2>1
<1>7. delivery[p][s] = "ready" /\ \A i \in 1..(n - 1) : ready'[i] # <<p, s>>
  <2>1. \A i, j \in 1..n : ready[i] = ready[j] => i = j
    BY <1>3 DEF BusIInv, QueueInv, IsInjective
  <2>2. delivery[p][s] = "ready"
    BY <1>3, <1>5 DEF BusIInv, QueueInv
  <2>3. ASSUME NEW i \in 1..(n - 1) PROVE ready'[i] # <<p, s>>
    <3>1. i + 1 \in 1..n /\ i + 1 # 1 /\ ready'[i] = ready[i + 1]
      BY <1>4
    <3> QED
      BY <1>3, <1>5, <2>1, <3>1
  <2> QED
    BY <2>2, <2>3
<1>8. PICK w \in {"handling", "skipped"} :
          /\ Onwards(p, s, w)
          /\ w = "handling" => /\ publisher[p] = "gathering"
                               /\ calls' = [calls EXCEPT ![s] = Append(@, p)]
          /\ w = "skipped" => /\ publisher[p] \in {"cancelling", "cancelled"}
                              /\ calls' = calls
  BY <1>6 DEF StartDelivery, Onwards
<1>9. w \in Deliveries
  BY DEF Deliveries, Handling, Settled, Cancelled
<1>10. /\ delivery' \in [Publications -> [Subscriptions -> Deliveries]]
       /\ delivery'[p][s] = w
       /\ \A x \in Subscriptions : x # s => delivery'[p][x] = delivery[p][x]
       /\ \A r \in Publications : r # p => delivery'[r] = delivery[r]
  BY <1>8, <1>9, OnwardsEffect
<1>11. /\ p \notin ToSet(calls[s]) /\ IsInjective(calls[s]) /\ calls[s] \in Seq(Publications)
       /\ p \in ToSet(made)
  <2>1. publisher[p] # "new" /\ calls[s] \in Seq(Publications)
    BY <1>1, <1>7 DEF LinkOK, TablesOK
  <2>2. IsInjective(calls[s]) /\ (p \in ToSet(calls[s]) <=> delivery[p][s] \in Called)
    BY DEF BusIInv, AccountInv
  <2>3. delivery[p][s] \notin Called
    BY <1>7 DEF Called, Handling
  <2> QED
    BY <1>1, <2>1, <2>2, <2>3 DEF MadeOK
<1>12. /\ calls' \in [Subscriptions -> Seq(Publications)]
       /\ \A x \in Subscriptions : x # s => calls'[x] = calls[x]
       /\ IsInjective(calls'[s])
       /\ ToSet(calls'[s]) = ToSet(calls[s]) \cup (IF w = "handling" THEN {p} ELSE {})
       /\ \A m \in DOMAIN calls'[s] :
             \/ m \in DOMAIN calls[s] /\ calls'[s][m] = calls[s][m]
             \/ calls'[s][m] = p /\ \A k \in DOMAIN calls[s] : k < m
       /\ \A m, k \in DOMAIN calls'[s] : m < k => m \in DOMAIN calls[s]
  <2>1. CASE w = "skipped"
    <3>1. calls' = calls
      BY <1>8, <2>1
    <3> QED
      BY <1>1, <1>11, <2>1, <3>1 DEF TablesOK
  <2>2. CASE w = "handling"
    <3> DEFINE q == Append(calls[s], p)
    <3>1. /\ q \in Seq(Publications) /\ IsInjective(q) /\ ToSet(q) = ToSet(calls[s]) \cup {p}
          /\ Len(calls[s]) \in Nat /\ DOMAIN calls[s] = 1..Len(calls[s])
          /\ DOMAIN q = 1..(Len(calls[s]) + 1)
          /\ \A i \in 1..Len(calls[s]) : q[i] = calls[s][i]
          /\ q[Len(calls[s]) + 1] = p
      BY <1>11, AppendOnce
    <3> HIDE DEF q
    <3>2. calls' = [calls EXCEPT ![s] = q]
      BY <1>8, <2>2 DEF q
    <3>3. /\ calls' \in [Subscriptions -> Seq(Publications)] /\ calls'[s] = q
          /\ \A x \in Subscriptions : x # s => calls'[x] = calls[x]
      BY <1>1, <3>1, <3>2 DEF TablesOK
    <3>4. \A m \in DOMAIN q : \/ m \in DOMAIN calls[s] /\ q[m] = calls[s][m]
                              \/ q[m] = p /\ \A k \in DOMAIN calls[s] : k < m
      <4>1. \A m \in DOMAIN q : m \in 1..Len(calls[s]) \/ m = Len(calls[s]) + 1
        BY <3>1
      <4>2. \A k \in DOMAIN calls[s] : k < Len(calls[s]) + 1
        BY <3>1
      <4> QED
        BY <3>1, <4>1, <4>2
    <3>5. \A m, k \in DOMAIN q : m < k => m \in DOMAIN calls[s]
      BY <3>1
    <3> QED
      BY <2>2, <3>1, <3>3, <3>4, <3>5
  <2> QED
    BY <2>1, <2>2
<1>13. EntriesOK' /\ TablesOK' /\ MadeOK'
  <2>1. \A x \in Subscriptions : ToSet(calls'[x]) \subseteq ToSet(made)
    BY <1>1, <1>11, <1>12 DEF MadeOK
  <2> QED
    BY <1>1, <1>2, <1>4, <1>10, <1>12, <2>1 DEF EntriesOK, TablesOK, MadeOK
<1>14. ASSUME NEW r \in Publications, NEW x \in Subscriptions PROVE LinkOK(r, x)'
  <2>1. CASE r = p /\ x = s
    BY <1>1, <1>2, <1>7, <1>10, <2>1 DEF LinkOK
  <2>2. CASE ~(r = p /\ x = s)
    <3>1. delivery'[r][x] = delivery[r][x]
      BY <1>10, <2>2
    <3>2. ASSUME delivery[r][x] = "ready" PROVE <<r, x>> \in ToSet(ready')
      <4>1. PICK i \in 1..n : ready[i] = <<r, x>>
        BY <1>1, <1>3, <3>2 DEF LinkOK, ToSet
      <4>2. i # 1
        BY <1>5, <2>2, <4>1
      <4>3. i - 1 \in 1..(n - 1) /\ (i - 1) + 1 = i
        BY <4>1, <4>2
      <4>4. ready'[i - 1] = <<r, x>>
        BY <1>4, <4>1, <4>3
      <4> QED
        BY <1>4, <4>3, <4>4 DEF ToSet
    <3> QED
      BY <1>1, <1>2, <3>1, <3>2 DEF LinkOK
  <2> QED
    BY <2>1, <2>2
<1>15. QueueInv'
  <2>1. IsInjective(ready')
    <3>1. \A i, j \in 1..n : ready[i] = ready[j] => i = j
      BY <1>3 DEF BusIInv, QueueInv, IsInjective
    <3>2. ASSUME NEW i \in 1..(n - 1), NEW j \in 1..(n - 1), ready'[i] = ready'[j] PROVE i = j
      <4>1. i + 1 = j + 1
        BY <1>4, <3>1, <3>2
      <4> QED
        BY <4>1
    <3> QED
      BY <1>4, <3>2 DEF IsInjective
  <2>2. ASSUME NEW i \in 1..(n - 1) PROVE delivery'[ready'[i][1]][ready'[i][2]] = "ready"
    <3>1. PICK r \in Publications, x \in Subscriptions : ready'[i] = <<r, x>>
      BY <1>4, <1>5a
    <3>2. delivery[r][x] = "ready"
      <4>1. delivery[ready[i + 1][1]][ready[i + 1][2]] = "ready"
        BY <1>3, <1>4 DEF BusIInv, QueueInv
      <4> QED
        BY <1>4, <3>1, <4>1
    <3>3. ~(r = p /\ x = s)
      BY <1>7, <3>1
    <3> QED
      BY <1>10, <3>1, <3>2, <3>3
  <2> QED
    BY <1>4, <2>1, <2>2 DEF QueueInv
<1>16. AccountInv'
  <2> SUFFICES ASSUME NEW r \in Publications, NEW x \in Subscriptions
               PROVE  /\ IsInjective(calls'[x]) /\ IsInjective(failures[r])
                      /\ r \in ToSet(calls'[x]) <=> delivery'[r][x] \in Called
                      /\ delivery'[r][x] = "raised" => x \in ToSet(failures[r])
                      /\ x \in ToSet(failures[r]) => delivery'[r][x] \in {"raised", "cancelled"}
    BY <1>2 DEF AccountInv
  <2>1. /\ IsInjective(calls[x]) /\ IsInjective(failures[r])
        /\ r \in ToSet(calls[x]) <=> delivery[r][x] \in Called
        /\ delivery[r][x] = "raised" => x \in ToSet(failures[r])
        /\ x \in ToSet(failures[r]) => delivery[r][x] \in {"raised", "cancelled"}
    BY DEF BusIInv, AccountInv
  <2>2. CASE x # s
    BY <1>10, <1>12, <2>1, <2>2
  <2>3. CASE r # p /\ x = s
    BY <1>10, <1>12, <2>1, <2>3
  <2>4. CASE r = p /\ x = s
    BY <1>7, <1>10, <1>11, <1>12, <2>1, <2>4 DEF Called, Handling
  <2> QED
    BY <2>2, <2>3, <2>4
<1>17. OrderInv'
  <2>1. ASSUME NEW i \in 1..n, ready[i][2] = s, NEW m \in DOMAIN calls[s]
        PROVE  Before(calls[s][m], ready[i][1])
    BY <1>3, <2>1 DEF BusIInv, OrderInv
  <2>2. ready[1][1] = p /\ ready[1][2] = s
    BY <1>5
  <2>3. ASSUME NEW x \in Subscriptions, NEW m \in DOMAIN calls'[x], NEW k \in DOMAIN calls'[x], m < k
        PROVE  Before(calls'[x][m], calls'[x][k])
    <3>1. CASE x # s
      BY <1>12, <2>3, <3>1 DEF BusIInv, OrderInv
    <3>2. CASE x = s
      <4>1. m \in DOMAIN calls[s]
        BY <1>12, <2>3, <3>2
      <4>2. calls'[s][m] = calls[s][m]
        <5>1. DOMAIN calls[s] = 1..Len(calls[s]) /\ Len(calls[s]) \in Nat
          BY <1>11, LenProperties
        <5>2. ~(\A j \in DOMAIN calls[s] : j < m)
          BY <4>1, <5>1
        <5> QED
          BY <1>12, <2>3, <3>2, <5>2
      <4>3. CASE k \in DOMAIN calls[s] /\ calls'[s][k] = calls[s][k]
        BY <2>3, <3>2, <4>1, <4>2, <4>3 DEF BusIInv, OrderInv
      <4>4. CASE calls'[s][k] = p
        BY <1>3, <2>1, <2>2, <3>2, <4>1, <4>2, <4>4
      <4> QED
        BY <1>12, <2>3, <3>2, <4>3, <4>4
    <3> QED
      BY <3>1, <3>2
  <2>4. ASSUME NEW i \in 1..n, NEW j \in 1..n, i < j
        PROVE  ready[i][1] = ready[j][1] \/ Before(ready[i][1], ready[j][1])
    BY <1>3, <2>4 DEF BusIInv, OrderInv
  <2>5. ASSUME NEW i \in 1..(n - 1), NEW j \in 1..(n - 1), i < j
        PROVE  ready'[i][1] = ready'[j][1] \/ Before(ready'[i][1], ready'[j][1])
    <3>1. i + 1 < j + 1
      BY <2>5
    <3> QED
      BY <1>4, <2>4, <3>1
  <2>6. ASSUME NEW i \in 1..(n - 1), NEW m \in DOMAIN calls'[ready'[i][2]]
        PROVE  Before(calls'[ready'[i][2]][m], ready'[i][1])
    <3>1. PICK r \in Publications, x \in Subscriptions : ready'[i] = <<r, x>>
      BY <1>4, <1>5a
    <3>2. i + 1 \in 1..n /\ ready[i + 1] = <<r, x>> /\ 1 < i + 1
      BY <1>4, <3>1
    <3>3. \A k \in DOMAIN calls[x] : Before(calls[x][k], r)
      <4>1. ready[i + 1][2] = x /\ ready[i + 1][1] = r
        BY <3>2
      <4> QED
        BY <1>3, <3>2, <4>1 DEF BusIInv, OrderInv
    <3>4. CASE x # s
      BY <1>12, <2>6, <3>1, <3>3, <3>4
    <3>5. CASE x = s
      <4>1. r # p
        BY <1>7, <3>1, <3>5
      <4>2. Before(p, r)
        BY <1>3, <2>2, <2>4, <3>2, <4>1
      <4>3. m \in DOMAIN calls'[s]
        BY <2>6, <3>1, <3>5
      <4> QED
        <5>1. calls'[s][m] = p \/ (m \in DOMAIN calls[s] /\ calls'[s][m] = calls[s][m])
          BY <1>12, <4>3
        <5> QED
          BY <3>1, <3>3, <3>5, <4>2, <5>1
    <3> QED
      BY <3>4, <3>5
  <2>7. made' = made
    BY <1>2
  <2>8. (\A x \in Subscriptions : \A m, k \in DOMAIN calls[x] :
            m < k => Before(calls[x][m], calls[x][k]))'
    BY <2>3, <2>7 DEF Before
  <2>9. (\A m, k \in DOMAIN ready :
            m < k => ready[m][1] = ready[k][1] \/ Before(ready[m][1], ready[k][1]))'
    <3>1. ASSUME NEW m \in DOMAIN ready', NEW k \in DOMAIN ready', m < k
          PROVE  ready'[m][1] = ready'[k][1] \/ Before(ready'[m][1], ready'[k][1])
      BY <1>4, <2>5, <3>1
    <3>2. \A r, x : Before(r, x) => Before(r, x)'
      BY <2>7 DEF Before
    <3> QED
      BY <3>1, <3>2
  <2>10. (\A k \in DOMAIN ready : \A m \in DOMAIN calls[ready[k][2]] :
             Before(calls[ready[k][2]][m], ready[k][1]))'
    <3>1. ASSUME NEW k \in DOMAIN ready', NEW m \in DOMAIN calls'[ready'[k][2]]
          PROVE  \E i, j \in DOMAIN made : /\ i < j /\ made[i] = calls'[ready'[k][2]][m]
                                          /\ made[j] = ready'[k][1]
      BY <1>4, <2>6, <3>1 DEF Before
    <3> QED
      BY <2>7, <3>1 DEF Before
  <2> QED
    BY <2>8, <2>9, <2>10 DEF OrderInv
<1>18. PublishInv(p)'
  <2>1. PublishInv(p) /\ matching[p] \subseteq Subscriptions
    BY <1>1 DEF BusIInv, TablesOK
  <2>2. CASE w = "handling"
    BY <1>2, <1>8, <1>10, <2>1, <2>2 DEF PublishInv, Handling
  <2>3. CASE w = "skipped"
    <3>1. /\ publisher'[p] = publisher[p] /\ own' = own /\ matching' = matching
          /\ publisher[p] \in {"cancelling", "cancelled"}
          /\ \A x \in Subscriptions : delivery'[p][x] \in {delivery[p][x], "skipped"}
      BY <1>2, <1>8, <1>10, <2>3
    <3>2. ASSUME publisher[p] = "cancelling", p \notin own, NEW x \in matching[p]
          PROVE  delivery'[p][x] \in Waiting
      <4>1. s \in matching[p] /\ delivery[p][s] \in Waiting
        BY <1>1, <1>7 DEF LinkOK, Waiting
      <4>2. delivery[p][x] \in Waiting
        BY <2>1, <3>2, <4>1 DEF PublishInv
      <4> QED
        BY <2>1, <3>1, <4>2 DEF Waiting
    <3> QED
      BY <2>1, <3>1, <3>2 DEF PublishInv, Handling
  <2> QED
    BY <2>2, <2>3
<1>19. \A r \in Publications : PublishInv(r)'
  BY <1>2, <1>10, <1>18, PublicationStays
<1> QED
  BY <1>13, <1>14, <1>15, <1>16, <1>17, <1>19, TypeParts DEF BusIInv

\* publish() finds the subscriptions that match and makes their deliveries ready.
LEMMA PublishStep ==
    ASSUME BusIInv, NEW p \in Publications, Publish(p)
    PROVE  BusIInv'
<1>1. EntriesOK /\ TablesOK /\ MadeOK /\ \A r \in Publications, x \in Subscriptions : LinkOK(r, x)
  BY TypeParts DEF BusIInv
<1>2. /\ UNCHANGED <<entries, subscribed, failures, own, calls>>
      /\ publisher[p] = "new" /\ made' = Append(made, p)
  BY DEF Publish, subscriptions
<1> DEFINE Found(e) == Filtered(entries, {s \in Subscriptions : Matches(s, e)})
           Taken(e, q) ==
               /\ event' = [event EXCEPT ![p] = e]
               /\ matching' = [matching EXCEPT ![p] = ToSet(q)]
               /\ delivery' = [delivery EXCEPT ![p] =
                                  [s \in Subscriptions |-> IF s \in ToSet(q) THEN "ready"
                                                                             ELSE "none"]]
               /\ publisher' = [publisher EXCEPT ![p] =
                                   IF q = <<>> THEN "returned" ELSE "gathering"]
               /\ Schedule(p, q)
<1>3. PICK e \in EventTypes : \E q \in Found(e) : Taken(e, q)
  BY DEF Publish
<1>4. PICK q \in Found(e) : Taken(e, q)
  BY <1>3
<1>5. q \in Seq(Subscriptions) /\ IsInjective(q) /\ ToSet(q) \subseteq Subscriptions
  BY <1>1, FilteredOnce DEF EntriesOK
<1>6. PICK k \in Nat : Len(q) = k /\ DOMAIN q = 1..k /\ \A i \in 1..k : q[i] \in Subscriptions
  BY <1>5, LenProperties, ElementOfSeq
<1>7. q = <<>> => ToSet(q) = {}
  BY DEF ToSet
<1> DEFINE w == [i \in DOMAIN q |-> <<p, q[i]>>]
<1>8. w \in Seq(Publications \X Subscriptions) /\ Len(w) = k /\ \A i \in 1..k : w[i] = <<p, q[i]>>
  <2>1. w \in [1..k -> Publications \X Subscriptions] /\ \A i \in 1..k : w[i] = <<p, q[i]>>
    BY <1>6
  <2> HIDE DEF w
  <2> QED
    BY <2>1
<1>9. PICK n \in Nat : Len(ready) = n /\ DOMAIN ready = 1..n
  BY <1>1, LenProperties DEF TablesOK
<1>10. /\ ready' \in Seq(Publications \X Subscriptions) /\ DOMAIN ready' = 1..(n + k)
       /\ \A i \in 1..n : ready'[i] = ready[i] /\ i \in 1..(n + k)
       /\ \A i \in 1..k : \E j \in 1..(n + k) : ready'[j] = <<p, q[i]>>
       /\ \A i \in 1..(n + k) :
             i \in 1..n \/ \E j \in 1..k : i = n + j /\ ready'[i] = <<p, q[j]>>
  <2>1. ready' = ready \o w
    BY <1>4 DEF Schedule
  <2> HIDE DEF w
  <2>2. /\ ready' \in Seq(Publications \X Subscriptions)
        /\ Len(ready') = n + k
        /\ \A i \in 1..(n + k) : ready'[i] = IF i <= n THEN ready[i] ELSE w[i - n]
    BY <1>1, <1>8, <1>9, <2>1, ConcatProperties DEF TablesOK
  <2>3. DOMAIN ready' = 1..(n + k)
    BY <2>2, LenProperties
  <2>4. ASSUME NEW i \in 1..n PROVE ready'[i] = ready[i] /\ i \in 1..(n + k)
    BY <1>9, <2>2
  <2>5. ASSUME NEW i \in 1..k PROVE \E j \in 1..(n + k) : ready'[j] = <<p, q[i]>>
    <3>1. n + i \in 1..(n + k) /\ ~(n + i <= n) /\ (n + i) - n = i
      BY <1>9
    <3> QED
      BY <1>8, <2>2, <3>1
  <2>6. ASSUME NEW i \in 1..(n + k), i \notin 1..n
        PROVE  \E j \in 1..k : i = n + j /\ ready'[i] = <<p, q[j]>>
    <3>1. i - n \in 1..k /\ i = n + (i - n) /\ ~(i <= n)
      BY <1>9, <2>6
    <3>2. ready'[i] = <<p, q[i - n]>>
      BY <1>8, <2>2, <3>1
    <3> QED
      BY <3>1, <3>2
  <2> QED
    BY <2>2, <2>3, <2>4, <2>5, <2>6
<1> HIDE DEF w
<1>11. \A i \in 1..n : \E r \in Publications, x \in Subscriptions :
           ready[i] = <<r, x>> /\ delivery[r][x] = "ready" /\ r # p
  <2>1. ASSUME NEW i \in 1..n
        PROVE  \E r \in Publications, x \in Subscriptions :
                  ready[i] = <<r, x>> /\ delivery[r][x] = "ready" /\ r # p
    <3>1. PICK r \in Publications, x \in Subscriptions : ready[i] = <<r, x>>
      BY <1>1, <1>9, ElementOfSeq DEF TablesOK
    <3>2. delivery[r][x] = "ready"
      BY <1>9, <3>1 DEF BusIInv, QueueInv
    <3> QED
      BY <1>1, <1>2, <3>1, <3>2 DEF LinkOK
  <2> QED
    BY <2>1
<1>12. /\ delivery' \in [Publications -> [Subscriptions -> Deliveries]]
       /\ \A s \in Subscriptions : delivery'[p][s] = IF s \in ToSet(q) THEN "ready" ELSE "none"
       /\ \A r \in Publications : r # p => delivery'[r] = delivery[r]
  BY <1>1, <1>4 DEF TablesOK, Deliveries
<1>13. /\ event' \in [Publications -> EventTypes \cup {NoType}]
       /\ matching' \in [Publications -> SUBSET Subscriptions] /\ matching'[p] = ToSet(q)
       /\ publisher' \in [Publications -> Publishing]
       /\ publisher'[p] = IF q = <<>> THEN "returned" ELSE "gathering"
       /\ \A r \in Publications : r # p =>
             matching'[r] = matching[r] /\ publisher'[r] = publisher[r]
  BY <1>1, <1>4, <1>5 DEF TablesOK, Publishing
<1>14. p \notin ToSet(made)
  BY <1>1, <1>2 DEF MadeOK
<1>15. /\ made' \in Seq(Publications) /\ IsInjective(made') /\ ToSet(made') = ToSet(made) \cup {p}
       /\ Len(made) \in Nat /\ DOMAIN made = 1..Len(made) /\ DOMAIN made' = 1..(Len(made) + 1)
       /\ \A i \in 1..Len(made) : made'[i] = made[i]
       /\ made'[Len(made) + 1] = p
  BY <1>1, <1>2, <1>14, AppendOnce DEF MadeOK
<1>16. /\ \A r, x : Before(r, x) => Before(r, x)'
       /\ \A r \in ToSet(made) : Before(r, p)'
  <2>1. \A i \in 1..Len(made) : i \in 1..(Len(made) + 1) /\ i < Len(made) + 1
    BY <1>15
  <2>2. Len(made) + 1 \in 1..(Len(made) + 1)
    BY <1>15
  <2>3. \A r, x : Before(r, x) => Before(r, x)'
    BY <1>15, <2>1 DEF Before
  <2>4. ASSUME NEW r \in ToSet(made) PROVE Before(r, p)'
    <3>1. PICK i \in 1..Len(made) : made[i] = r
      BY <1>15 DEF ToSet
    <3> QED
      BY <1>15, <2>1, <2>2, <3>1 DEF Before
  <2> QED
    BY <2>3, <2>4
<1>17. \A s \in Subscriptions : p \notin ToSet(calls[s])
  BY <1>1, <1>14 DEF MadeOK
<1>18. EntriesOK' /\ TablesOK' /\ MadeOK'
  <2>1. EntriesOK' /\ TablesOK'
    BY <1>1, <1>2, <1>9, <1>10, <1>12, <1>13 DEF EntriesOK, TablesOK
  <2>2. \A r \in Publications : r \in ToSet(made') <=> publisher'[r] # "new"
    BY <1>1, <1>13, <1>15 DEF MadeOK
  <2> QED
    BY <1>1, <1>2, <1>15, <2>1, <2>2 DEF MadeOK
<1>19. ASSUME NEW r \in Publications, NEW s \in Subscriptions PROVE LinkOK(r, s)'
  <2>1. CASE r = p
    <3>1. delivery'[p][s] = "ready" => s \in ToSet(q) /\ q # <<>>
      BY <1>7, <1>12
    <3>2. s \in ToSet(q) => <<p, s>> \in ToSet(ready')
      <4>1. ASSUME s \in ToSet(q) PROVE <<p, s>> \in ToSet(ready')
        <5>1. PICK i \in 1..k : q[i] = s
          BY <1>6, <4>1 DEF ToSet
        <5>2. PICK j \in DOMAIN ready' : ready'[j] = <<p, s>>
          BY <1>10, <5>1
        <5> QED
          BY <5>2 DEF ToSet
      <4> QED
        BY <4>1
    <3> QED
      BY <1>12, <1>13, <2>1, <3>1, <3>2 DEF LinkOK
  <2>2. CASE r # p
    <3>1. delivery[r][s] = "ready" => <<r, s>> \in ToSet(ready')
      <4>1. ASSUME delivery[r][s] = "ready" PROVE <<r, s>> \in ToSet(ready')
        <5>1. PICK i \in 1..n : ready[i] = <<r, s>>
          BY <1>1, <1>9, <4>1 DEF LinkOK, ToSet
        <5>2. ready'[i] = <<r, s>> /\ i \in DOMAIN ready'
          BY <1>9, <1>10, <5>1
        <5> QED
          BY <5>2 DEF ToSet
      <4> QED
        BY <4>1
    <3> QED
      BY <1>1, <1>2, <1>12, <1>13, <2>2, <3>1 DEF LinkOK
  <2> QED
    BY <2>1, <2>2
<1>20. QueueInv'
  <2>1. ASSUME NEW i \in 1..(n + k) PROVE delivery'[ready'[i][1]][ready'[i][2]] = "ready"
    <3>1. CASE i \in 1..n
      <4>1. PICK r \in Publications, x \in Subscriptions :
                ready[i] = <<r, x>> /\ delivery[r][x] = "ready" /\ r # p
        BY <1>11, <3>1
      <4>2. ready'[i] = <<r, x>>
        BY <1>9, <1>10, <3>1, <4>1
      <4> QED
        BY <1>12, <4>1, <4>2
    <3>2. ASSUME NEW j \in 1..k, ready'[i] = <<p, q[j]>> PROVE delivery'[ready'[i][1]][ready'[i][2]] = "ready"
      <4>1. ready'[i] = <<p, q[j]>> /\ q[j] \in ToSet(q) /\ q[j] \in Subscriptions
        BY <1>6, <1>9, <1>10, <3>2 DEF ToSet
      <4> QED
        BY <1>12, <4>1
    <3> QED
      BY <1>9, <1>10, <3>1, <3>2
  <2>2. ASSUME NEW i \in 1..(n + k), NEW j \in 1..(n + k), ready'[i] = ready'[j] PROVE i = j
    <3>1. CASE i \in 1..n /\ j \in 1..n
      BY <1>9, <1>10, <2>2, <3>1 DEF BusIInv, QueueInv, IsInjective
    <3>2. ASSUME NEW a \in 1..n, NEW b \in 1..k PROVE ready'[a] # <<p, q[b]>>
      <4>1. PICK r \in Publications, x \in Subscriptions : ready[a] = <<r, x>> /\ r # p
        BY <1>11
      <4>2. ready'[a] = <<r, x>>
        BY <1>10, <4>1
      <4> QED
        BY <4>1, <4>2
    <3>3. ASSUME NEW a \in 1..k, NEW b \in 1..k, i = n + a, j = n + b,
                 ready'[i] = <<p, q[a]>>, ready'[j] = <<p, q[b]>>
          PROVE  i = j
      <4>1. <<p, q[a]>> = <<p, q[b]>>
        BY <2>2, <3>3
      <4>2. a = b
        BY <1>5, <1>6, <4>1 DEF IsInjective
      <4> QED
        BY <3>3, <4>2
    <3>4. \A x \in 1..(n + k) :
             x \in 1..n \/ \E b \in 1..k : x = n + b /\ ready'[x] = <<p, q[b]>>
      BY <1>10
    <3>5. CASE i \in 1..n
      BY <2>2, <3>1, <3>2, <3>4, <3>5
    <3>6. CASE i \notin 1..n
      <4>1. PICK a \in 1..k : i = n + a /\ ready'[i] = <<p, q[a]>>
        BY <3>4, <3>6
      <4> QED
        BY <2>2, <3>2, <3>3, <3>4, <4>1
    <3> QED
      BY <3>5, <3>6
  <2> QED
    BY <1>9, <1>10, <2>1, <2>2 DEF QueueInv, IsInjective
<1>21. AccountInv'
  <2> SUFFICES ASSUME NEW r \in Publications, NEW x \in Subscriptions
               PROVE  /\ IsInjective(calls[x]) /\ IsInjective(failures[r])
                      /\ r \in ToSet(calls[x]) <=> delivery'[r][x] \in Called
                      /\ delivery'[r][x] = "raised" => x \in ToSet(failures[r])
                      /\ x \in ToSet(failures[r]) => delivery'[r][x] \in {"raised", "cancelled"}
    BY <1>2 DEF AccountInv
  <2>1. /\ IsInjective(calls[x]) /\ IsInjective(failures[r])
        /\ r \in ToSet(calls[x]) <=> delivery[r][x] \in Called
        /\ delivery[r][x] = "raised" => x \in ToSet(failures[r])
        /\ x \in ToSet(failures[r]) => delivery[r][x] \in {"raised", "cancelled"}
    BY DEF BusIInv, AccountInv
  <2>2. CASE r # p
    BY <1>12, <2>1, <2>2
  <2>3. CASE r = p
    <3>1. delivery'[p][x] \in {"ready", "none"}
      BY <1>12
    <3>2. x \notin ToSet(failures[p])
      BY <1>17, <2>1, <2>3 DEF Called
    <3> QED
      BY <1>17, <2>1, <2>3, <3>1, <3>2 DEF Called, Handling
  <2> QED
    BY <2>2, <2>3
<1>22. OrderInv'
  <2>1. (\A s \in Subscriptions : \A m, j \in DOMAIN calls[s] :
            m < j => Before(calls[s][m], calls[s][j]))'
    BY <1>2, <1>16 DEF BusIInv, OrderInv
  <2>2. \A i \in 1..n : ready[i][1] \in ToSet(made)
    <3>1. \A r \in Publications, x \in Subscriptions : delivery[r][x] = "ready" => r \in ToSet(made)
      BY <1>1 DEF LinkOK, MadeOK
    <3> QED
      BY <1>11, <3>1
  <2>3. ASSUME NEW i \in 1..(n + k), NEW j \in 1..(n + k), i < j
        PROVE  ready'[i][1] = ready'[j][1] \/ Before(ready[i][1], ready[j][1])'
    <3>1. CASE i \in 1..n /\ j \in 1..n
      <4>1. ready[i][1] = ready[j][1] \/ Before(ready[i][1], ready[j][1])
        BY <1>9, <2>3, <3>1 DEF BusIInv, OrderInv
      <4> QED
        BY <1>9, <1>10, <1>16, <3>1, <4>1
    <3>2. ASSUME i \in 1..n, NEW b \in 1..k, ready'[j] = <<p, q[b]>>
          PROVE  Before(ready[i][1], ready[j][1])'
      <4>1. ready'[i][1] = ready[i][1] /\ ready'[j][1] = p
        BY <1>9, <1>10, <3>2
      <4> QED
        BY <1>16, <2>2, <3>2, <4>1
    <3>3. ASSUME NEW a \in 1..k, NEW b \in 1..k,
                 ready'[i] = <<p, q[a]>>, ready'[j] = <<p, q[b]>>
          PROVE  ready'[i][1] = ready'[j][1]
      BY <1>9, <1>10, <3>3
    <3>4. ASSUME NEW a \in 1..k, i = n + a PROVE j \notin 1..n
      BY <1>9, <2>3, <3>4
    <3> QED
      BY <1>9, <1>10, <3>1, <3>2, <3>3, <3>4
  <2>4. ASSUME NEW i \in 1..(n + k), NEW m \in DOMAIN calls[ready'[i][2]]
        PROVE  Before(calls[ready[i][2]][m], ready[i][1])'
    <3>1. CASE i \in 1..n
      <4>1. ready'[i] = ready[i]
        BY <1>9, <1>10, <3>1
      <4>2. Before(calls[ready[i][2]][m], ready[i][1])
        BY <1>9, <2>4, <3>1, <4>1 DEF BusIInv, OrderInv
      <4> QED
        BY <1>2, <1>16, <4>1, <4>2
    <3>2. ASSUME NEW b \in 1..k, ready'[i] = <<p, q[b]>>
          PROVE  Before(calls[ready[i][2]][m], ready[i][1])'
      <4>1. ready'[i][1] = p /\ ready'[i][2] = q[b] /\ q[b] \in Subscriptions
        BY <1>6, <1>9, <1>10, <3>2
      <4>2. calls[q[b]][m] \in ToSet(made)
        <5>1. m \in DOMAIN calls[q[b]]
          BY <2>4, <4>1
        <5>2. calls[q[b]][m] \in ToSet(calls[q[b]])
          BY <5>1 DEF ToSet
        <5> QED
          BY <1>1, <4>1, <5>2 DEF MadeOK
      <4> QED
        BY <1>2, <1>16, <4>1, <4>2
    <3> QED
      BY <1>9, <1>10, <3>1, <3>2
  <2>5. (\A m, j \in DOMAIN ready :
            m < j => ready[m][1] = ready[j][1] \/ Before(ready[m][1], ready[j][1]))'
    BY <1>9, <1>10, <2>3
  <2>6. (\A j \in DOMAIN ready : \A m \in DOMAIN calls[ready[j][2]] :
             Before(calls[ready[j][2]][m], ready[j][1]))'
    BY <1>2, <1>9, <1>10, <2>4
  <2> QED
    BY <2>1, <2>5, <2>6 DEF OrderInv
<1>23. PublishInv(p)'
  <2>1. p \notin own' /\ publisher'[p] \in {"returned", "gathering"}
    BY <1>2, <1>13 DEF BusIInv, PublishInv
  <2>2. publisher'[p] = "returned" => \A s \in Subscriptions : delivery'[p][s] = "none"
    BY <1>7, <1>12, <1>13
  <2>3. \A s \in Subscriptions : delivery'[p][s] \in {"none", "ready"}
    BY <1>12
  <2> QED
    BY <2>1, <2>2, <2>3 DEF PublishInv
<1>24. \A r \in Publications : PublishInv(r)'
  BY <1>2, <1>12, <1>13, <1>23, PublicationStays
<1> QED
  BY <1>18, <1>19, <1>20, <1>21, <1>22, <1>24, TypeParts DEF BusIInv

LEMMA BusStep == BusIInv /\ [BusNext]_busVars => BusIInv'
<1>1. ASSUME BusIInv, UNCHANGED busVars PROVE BusIInv'
  <2>1. EntriesOK /\ TablesOK /\ MadeOK /\ \A p \in Publications, x \in Subscriptions : LinkOK(p, x)
    BY <1>1, TypeParts DEF BusIInv
  <2>2. /\ UNCHANGED <<entries, subscribed, event, matching, delivery, failures>>
        /\ UNCHANGED <<publisher, ready, own, made, calls>>
    BY <1>1 DEF busVars, subscriptions, history
  <2>3. EntriesOK' /\ TablesOK' /\ MadeOK' /\ \A p \in Publications, x \in Subscriptions : LinkOK(p, x)'
    BY <2>1, <2>2 DEF EntriesOK, TablesOK, MadeOK, LinkOK
  <2>4. QueueInv' /\ AccountInv' /\ OrderInv'
    BY <1>1, <2>2, QuietStep DEF Quiet
  <2>5. \A p \in Publications : PublishInv(p)'
    BY <1>1, <2>2, PublicationStays
  <2> QED
    BY <2>3, <2>4, <2>5, TypeParts DEF BusIInv
<1>2. ASSUME BusIInv, Clear PROVE BusIInv'
  <2>1. CASE Subscriptions # {}
    BY <1>2, <2>1, EntriesStep
  <2>2. CASE Subscriptions = {}
    <3>1. entries = <<>>
      BY <1>2, <2>2, TypeParts, EmptySeq, ElementOfSeq, LenProperties DEF BusIInv, EntriesOK
    <3> QED
      BY <1>2, <3>1 DEF Clear
  <2> QED
    BY <2>1, <2>2
<1> QED
  BY <1>1, <1>2, EntriesStep, PublisherStep, HandlerStep, StartStep, PublishStep DEF BusNext

LEMMA BusInvariant == BusSpec => []BusIInv
BY BusInitOK, BusStep, PTL DEF BusSpec

\* However publish() ends, by return or by cancellation, no handler of its event
\* is at work or starts later, unless one of them cancelled it; and every table of the bus is well
\* typed, whatever subscribes, publishes and cancels meanwhile.
THEOREM NothingLeftHandling == BusSpec => []BusInv
<1>1. BusIInv => BusInv
  BY DEF BusIInv, BusInv, PublishInv, NothingOutlivesPublish, Handling
<1> QED
  BY <1>1, BusInvariant, PTL

\* When publish() returns, every subscription that matched was called exactly
\* once and no other was, and the failures are those that raised, once each.
THEOREM PublishAccounts == BusSpec => []ReturnAccounts
<1>1. ASSUME BusIInv, NEW p \in Publications, publisher[p] = "returned", NEW s \in Subscriptions
      PROVE  /\ Count(calls[s], p) = IF s \in matching[p] THEN 1 ELSE 0
             /\ Count(failures[p], s) = IF delivery[p][s] = "raised" THEN 1 ELSE 0
  <2>1. delivery[p][s] \in {"none", "done", "raised"}
    BY <1>1 DEF BusIInv, PublishInv
  <2>2. p \in ToSet(calls[s]) <=> s \in matching[p]
    BY <1>1, <2>1, TypeParts DEF BusIInv, AccountInv, LinkOK, Called, Handling
  <2>3. s \in ToSet(failures[p]) <=> delivery[p][s] = "raised"
    BY <1>1, <2>1 DEF BusIInv, AccountInv
  <2>4. IsInjective(calls[s]) /\ IsInjective(failures[p])
    BY <1>1 DEF BusIInv, AccountInv
  <2> QED
    BY <2>2, <2>3, <2>4, CountedOnce DEF ToSet
<1>2. BusIInv => ReturnAccounts
  BY <1>1 DEF ReturnAccounts
<1> QED
  BY <1>2, BusInvariant, PTL

\* Every handler is called with events in the order they were published, though
\* publications overlap and fail, and are cancelled.
THEOREM CalledInOrder == BusSpec => []InPublishOrder
<1>1. ASSUME BusIInv, NEW s \in Subscriptions, NEW i \in DOMAIN made, NEW j \in DOMAIN made,
             NEW m \in DOMAIN calls[s], NEW n \in DOMAIN calls[s],
             i < j, calls[s][m] = made[i], calls[s][n] = made[j]
      PROVE  m < n
  <2>1. \A a, b \in DOMAIN made : made[a] = made[b] => a = b
    BY <1>1, TypeParts DEF BusIInv, MadeOK, IsInjective
  <2>2. m \in Nat /\ n \in Nat /\ DOMAIN made = 1..Len(made) /\ Len(made) \in Nat
    <3>1. calls[s] \in Seq(Publications) /\ made \in Seq(Publications)
      BY <1>1, TypeParts DEF BusIInv, TablesOK, MadeOK
    <3>2. /\ DOMAIN calls[s] = 1..Len(calls[s]) /\ Len(calls[s]) \in Nat
          /\ DOMAIN made = 1..Len(made) /\ Len(made) \in Nat
      BY <3>1, LenProperties
    <3> QED
      BY <1>1, <3>2
  <2>3. m # n
    BY <1>1, <2>1, <2>2
  <2>4. ASSUME n < m PROVE FALSE
    <3>1. Before(made[j], made[i])
      BY <1>1, <2>4 DEF BusIInv, OrderInv
    <3>2. PICK a, b \in DOMAIN made : a < b /\ made[a] = made[j] /\ made[b] = made[i]
      BY <3>1 DEF Before
    <3>3. a = j /\ b = i
      BY <1>1, <2>1, <3>2
    <3> QED
      BY <1>1, <2>2, <3>2, <3>3
  <2> QED
    BY <2>2, <2>3, <2>4
<1>2. BusIInv => InPublishOrder
  BY <1>1 DEF InPublishOrder
<1> QED
  BY <1>2, BusInvariant, PTL
=============================================================================
