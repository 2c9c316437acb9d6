--------------------------- MODULE AssemblyProofs ---------------------------
(***************************************************************************)
(* Proofs about what platforms are assembled with: PlatformBuilder and the *)
(* feature flags in it, for any builds, containers, scopes and knobs, and  *)
(* the comparisons of Version, for all versions.                           *)
(***************************************************************************)
EXTENDS PlatformBuilder, Version, SequenceTheorems, TLAPS

\* What a build has come past is wired: a port is found in its container, and
\* a subsystem is bound there by itself.
Wired(b) ==
    \A i \in 1..Len(Wiring) : i < next[b] =>
        /\ Holder(place[b], Wiring[i]) # NoOne
        /\ i > Len(Ports) => bound[place[b]][Wiring[i]] = b

\* It has come to the end when it installs plugins, and not before.
Progress(b) ==
    /\ stage[b] = "new" => next[b] = 1
    /\ stage[b] = "wiring" => next[b] =< Len(Wiring)
    /\ stage[b] \in {"installing", "built"} => next[b] = Len(Wiring) + 1

IInv ==
    /\ TypeOK
    /\ \A b \in Builds : Progress(b) /\ (stage[b] # "new" => Wired(b))

-----------------------------------------------------------------------------
LEMMA WiringFacts ==
    /\ Len(Ports) = 3 /\ Len(Subsystems) = 8 /\ Len(Wiring) = 11
    /\ \A i \in 1..11 : Wiring[i] \in Keys
    /\ \A i \in 1..3 : Wiring[i] = Ports[i]
    /\ \A i \in 1..8 : Wiring[i + 3] = Subsystems[i]
    /\ DOMAIN Ports = 1..3 /\ DOMAIN Subsystems = 1..8
<1> DEFINE Names == {Ports[i] : i \in 1..3} \cup {Subsystems[i] : i \in 1..8}
<1>1. Ports \in Seq(Names) /\ Len(Ports) = 3
    BY DEF Ports
<1>2. Subsystems \in Seq(Names) /\ Len(Subsystems) = 8
    BY DEF Subsystems
<1> HIDE DEF Names
<1>3. /\ Wiring \in Seq(Names)
      /\ Len(Wiring) = Len(Ports) + Len(Subsystems)
      /\ \A i \in 1..(Len(Ports) + Len(Subsystems)) :
            Wiring[i] = IF i =< Len(Ports) THEN Ports[i] ELSE Subsystems[i - Len(Ports)]
    BY <1>1, <1>2, ConcatProperties DEF Wiring
<1>4. /\ DOMAIN Ports = 1..3 /\ DOMAIN Subsystems = 1..8 /\ DOMAIN Wiring = 1..11
      /\ \A i \in 1..3 : Wiring[i] = Ports[i]
      /\ \A i \in 1..8 : Wiring[i + 3] = Subsystems[i]
    BY <1>1, <1>2, <1>3
<1> QED
    BY <1>1, <1>2, <1>3, <1>4 DEF Keys, ToSet

LEMMA Lengths == Len(Ports) = 3 /\ Len(Wiring) = 11
BY WiringFacts

\* A key that is bound stays bound by whoever bound it.
BindingsStay ==
    \A c \in Places, k \in Keys : bound[c][k] # NoOne => bound'[c][k] = bound[c][k]

LEMMA HolderStays ==
    ASSUME BindingsStay, NEW c \in Places, NEW k \in Keys, Holder(c, k) # NoOne
    PROVE  Holder(c, k)' # NoOne
BY BuilderAssumption DEF BindingsStay, Holder, Places

\* A build that a step leaves alone stays wired.
LEMMA WiredStays ==
    ASSUME BindingsStay, NEW b \in Builds, place[b] \in Places, Wired(b),
           next'[b] = next[b], place'[b] = place[b]
    PROVE  Wired(b)'
<1> SUFFICES ASSUME NEW i \in 1..Len(Wiring), i < next[b]
             PROVE  /\ Holder(place[b], Wiring[i])' # NoOne
                    /\ i > Len(Ports) => bound'[place[b]][Wiring[i]] = b
    BY DEF Wired, Holder
<1>1. /\ Holder(place[b], Wiring[i]) # NoOne
      /\ i > Len(Ports) => bound[place[b]][Wiring[i]] = b
      /\ Wiring[i] \in Keys
    BY WiringFacts DEF Wired
<1>2. b # NoOne
    BY BuilderAssumption
<1> QED
    BY <1>1, <1>2, HolderStays DEF BindingsStay

-----------------------------------------------------------------------------
LEMMA InitOK == Init => IInv
BY WiringFacts, BuilderAssumption DEF Init, IInv, TypeOK, Places, Progress

(***************************************************************************)
(* What is left to show of a step of build b: the types, that it unbinds   *)
(* nothing, what becomes of b itself, and that the others stand still.     *)
(***************************************************************************)
LEMMA OthersStay ==
    ASSUME IInv, BindingsStay, NEW o \in Builds,
           next'[o] = next[o], place'[o] = place[o], stage'[o] = stage[o]
    PROVE  Progress(o)' /\ (stage'[o] # "new" => Wired(o)')
<1>1. Progress(o)'
    BY DEF IInv, Progress
<1>2. ASSUME stage'[o] # "new" PROVE Wired(o)'
  <2>1. place[o] \in Places /\ Wired(o)
    BY <1>2 DEF IInv, TypeOK
  <2> QED
    BY <2>1, WiredStays
<1> QED
    BY <1>1, <1>2

LEMMA Inductive == IInv /\ [Next]_vars => IInv'
<1> SUFFICES ASSUME IInv, [Next]_vars PROVE IInv'
    OBVIOUS
<1> USE Lengths, BuilderAssumption
<1>1. ASSUME NEW b \in Builds, Begin(b) PROVE IInv'
  <2>1. TypeOK'
    BY <1>1 DEF IInv, TypeOK, Begin, Places
  <2>2. BindingsStay
    BY <1>1 DEF BindingsStay, Begin
  <2>3. Wired(b)' /\ Progress(b)'
    BY <1>1 DEF IInv, TypeOK, Begin, Wired, Progress
  <2>4. ASSUME NEW o \in Builds, o # b PROVE Progress(o)' /\ (stage'[o] # "new" => Wired(o)')
    BY <1>1, <2>2, <2>4, OthersStay DEF IInv, TypeOK, Begin
  <2> QED
    BY <2>1, <2>3, <2>4 DEF IInv
<1>2. ASSUME NEW b \in Builds, LookForPort(b) PROVE IInv'
  <2>0. stage[b] = "wiring" /\ next[b] \in 1..3
    BY <1>2 DEF IInv, TypeOK, LookForPort
  <2>1. TypeOK'
    <3>0. next \in [Builds -> 1..12] /\ looked \in [Builds -> BOOLEAN]
        BY DEF IInv, TypeOK
    <3>1. next' = next \/ next' = [next EXCEPT ![b] = @ + 1]
        BY <1>2 DEF LookForPort
    <3>2. next' \in [Builds -> 1..12]
        BY <2>0, <3>0, <3>1
    <3>3. looked' = looked \/ looked' = [looked EXCEPT ![b] = TRUE]
        BY <1>2 DEF LookForPort
    <3>4. looked' \in [Builds -> BOOLEAN]
        BY <3>0, <3>3
    <3>5. UNCHANGED <<bound, stage, place>>
        BY <1>2 DEF LookForPort
    <3> QED
        BY <3>2, <3>4, <3>5 DEF IInv, TypeOK
  <2>2. BindingsStay
    BY <1>2 DEF BindingsStay, LookForPort
  <2>3. Wired(b)' /\ Progress(b)'
    <3>1. stage[b] = "wiring" /\ next[b] \in 1..3 /\ place[b] \in Places /\ Wired(b)
        BY <1>2 DEF IInv, TypeOK, LookForPort
    <3>2. CASE Holder(place[b], Key(b)) = NoOne
        BY <1>2, <2>2, <3>1, <3>2, WiredStays DEF IInv, TypeOK, LookForPort, Progress
    <3>3. CASE Holder(place[b], Key(b)) # NoOne
      <4>1. next'[b] = next[b] + 1 /\ stage' = stage /\ bound' = bound /\ place' = place
        BY <1>2, <3>1, <3>3 DEF IInv, TypeOK, LookForPort
      <4>2. ASSUME NEW i \in 1..11, i < next'[b]
            PROVE  i < next[b] \/ (i = next[b] /\ i =< 3)
        BY <3>1, <4>1, <4>2
      <4>3. \A i \in 1..11 : i < next'[b] =>
               /\ Holder(place[b], Wiring[i]) # NoOne
               /\ i > 3 => bound[place[b]][Wiring[i]] = b
        BY <3>1, <3>3, <4>2 DEF Wired, Key
      <4>4. Wired(b)'
        BY <4>1, <4>3 DEF Wired, Holder
      <4> QED
        BY <3>1, <4>1, <4>4 DEF Progress
    <3> QED
        BY <3>2, <3>3
  <2>4. ASSUME NEW o \in Builds, o # b PROVE Progress(o)' /\ (stage'[o] # "new" => Wired(o)')
    BY <1>2, <2>2, <2>4, OthersStay DEF IInv, TypeOK, LookForPort
  <2> QED
    BY <2>1, <2>3, <2>4 DEF IInv
<1>3. ASSUME NEW b \in Builds, Bind(b) PROVE IInv'
  <2>0. /\ stage[b] = "wiring" /\ next[b] \in 1..11 /\ place[b] \in Places
        /\ Wired(b) /\ Key(b) \in Keys /\ b # NoOne
    BY <1>3, WiringFacts DEF IInv, TypeOK, Bind, Progress, Key
  <2>1. TypeOK'
    <3>1. CASE bound[place[b]][Key(b)] # NoOne
        BY <1>3, <2>0, <3>1 DEF IInv, TypeOK, Bind
    <3>2. CASE bound[place[b]][Key(b)] = NoOne
      <4>1. bound' \in [Places -> [Keys -> Builds \cup {Client, NoOne}]]
        <5>1. bound \in [Places -> [Keys -> Builds \cup {Client, NoOne}]]
            BY DEF IInv, TypeOK
        <5>2. bound' = [bound EXCEPT ![place[b]][Key(b)] = b]
            BY <1>3, <3>2 DEF Bind
        <5> QED
            BY <2>0, <5>1, <5>2
      <4>2. /\ next \in [Builds -> 1..12] /\ looked \in [Builds -> BOOLEAN]
            /\ stage \in [Builds -> {"new", "wiring", "installing", "built", "failed"}]
        BY DEF IInv, TypeOK
      <4>3. Proceed(b) /\ place' = place
        BY <1>3, <3>2 DEF Bind
      <4>4. next' \in [Builds -> 1..12]
        BY <2>0, <4>2, <4>3 DEF Proceed
      <4>5. looked' \in [Builds -> BOOLEAN]
        BY <4>2, <4>3 DEF Proceed
      <4>6. /\ stage' \in [Builds -> {"new", "wiring", "installing", "built", "failed"}]
            /\ \A o \in Builds : stage'[o] = "new" <=> stage[o] = "new"
        BY <2>0, <4>2, <4>3 DEF Proceed
      <4> QED
        BY <4>1, <4>3, <4>4, <4>5, <4>6 DEF IInv, TypeOK
    <3> QED
        BY <3>1, <3>2
  <2>2. BindingsStay
    BY <1>3, <2>0 DEF BindingsStay, Bind, IInv, TypeOK
  <2>3. Wired(b)' /\ Progress(b)'
    <3>1. CASE bound[place[b]][Key(b)] # NoOne
        BY <1>3, <2>0, <2>2, <3>1, WiredStays DEF Bind, IInv, TypeOK, Progress
    <3>2. CASE bound[place[b]][Key(b)] = NoOne
      <4>1. /\ next'[b] = next[b] + 1 /\ place' = place
            /\ stage'[b] = IF next[b] = 11 THEN "installing" ELSE "wiring"
            /\ bound'[place[b]][Key(b)] = b
        BY <1>3, <2>0, <3>2 DEF IInv, TypeOK, Bind, Proceed
      <4>2. ASSUME NEW i \in 1..11, i < next'[b]
            PROVE  /\ Holder(place[b], Wiring[i])' # NoOne
                   /\ i > 3 => bound'[place[b]][Wiring[i]] = b
        <5>1. CASE i = next[b]
            BY <2>0, <4>1, <5>1 DEF Holder, Key
        <5>2. CASE i < next[b]
          <6>1. /\ Holder(place[b], Wiring[i]) # NoOne
                /\ i > 3 => bound[place[b]][Wiring[i]] = b
            BY <2>0, <5>2 DEF Wired
          <6> QED
            <7>1. Wiring[i] \in Keys
                BY WiringFacts
            <7>2. Holder(place[b], Wiring[i])' # NoOne
                BY <2>0, <2>2, <4>1, <6>1, <7>1, HolderStays DEF Holder
            <7> QED
                BY <2>0, <2>2, <6>1, <7>1, <7>2 DEF BindingsStay
        <5> QED
            BY <2>0, <4>1, <4>2, <5>1, <5>2
      <4>3. Wired(b)'
        BY <4>1, <4>2 DEF Wired, Holder
      <4> QED
        BY <2>0, <4>1, <4>3 DEF Progress
    <3> QED
        BY <3>1, <3>2
  <2>4. ASSUME NEW o \in Builds, o # b PROVE Progress(o)' /\ (stage'[o] # "new" => Wired(o)')
    BY <1>3, <2>2, <2>4, OthersStay DEF IInv, TypeOK, Bind, Proceed
  <2> QED
    BY <2>1, <2>3, <2>4 DEF IInv
<1>4. ASSUME NEW b \in Builds, InstallPlugins(b) PROVE IInv'
  <2>1. TypeOK'
    BY <1>4 DEF IInv, TypeOK, InstallPlugins, Places
  <2>2. BindingsStay
    BY <1>4 DEF BindingsStay, InstallPlugins
  <2>3. Wired(b)' /\ Progress(b)'
    BY <1>4, <2>2, WiredStays DEF IInv, TypeOK, InstallPlugins, Progress
  <2>4. ASSUME NEW o \in Builds, o # b PROVE Progress(o)' /\ (stage'[o] # "new" => Wired(o)')
    BY <1>4, <2>2, <2>4, OthersStay DEF IInv, TypeOK, InstallPlugins
  <2> QED
    BY <2>1, <2>3, <2>4 DEF IInv
<1>5. ASSUME NEW c \in Containers, NEW k \in ClientKeys, ClientBinds(c, k) PROVE IInv'
  <2>1. TypeOK'
    BY <1>5 DEF IInv, TypeOK, ClientBinds, Places
  <2>2. BindingsStay
    BY <1>5 DEF BindingsStay, ClientBinds, IInv, TypeOK
  <2> QED
    BY <1>5, <2>1, <2>2, OthersStay DEF IInv, ClientBinds
<1>6. ASSUME NEW b \in Builds, NEW f \in Flags, NEW default \in BOOLEAN,
             ClientDefines(b, f, default)
      PROVE  IInv'
  <2>1. TypeOK' /\ BindingsStay
    BY <1>6 DEF IInv, TypeOK, ClientDefines, BindingsStay
  <2> QED
    BY <1>6, <2>1, OthersStay DEF IInv, ClientDefines
<1>7. ASSUME UNCHANGED vars PROVE IInv'
  <2>1. TypeOK' /\ BindingsStay
    BY <1>7 DEF IInv, TypeOK, vars, BindingsStay
  <2> QED
    BY <1>7, <2>1, OthersStay DEF IInv, vars
<1> QED
    BY <1>1, <1>2, <1>3, <1>4, <1>5, <1>6, <1>7 DEF Next

\* A platform that is built is wired to itself: the invariant implies it.
LEMMA WiredIsOwn == IInv => BuilderInv
<1> SUFFICES ASSUME IInv, NEW b \in Builds, stage[b] = "built"
             PROVE  /\ \A i \in 1..8 : Holder(place[b], Subsystems[i]) = b
                    /\ \A i \in 1..3 : Holder(place[b], Ports[i]) # NoOne
    BY WiringFacts DEF IInv, BuilderInv, OwnWiring, Attribute
<1>1. Wired(b) /\ next[b] = 12
    BY WiringFacts DEF IInv, Progress
<1>2. ASSUME NEW i \in 1..8 PROVE Holder(place[b], Subsystems[i]) = b
  <2>1. i + 3 \in 1..11 /\ i + 3 > 3 /\ i + 3 < 12 /\ Subsystems[i] = Wiring[i + 3]
    BY WiringFacts
  <2> QED
    BY <1>1, <2>1, WiringFacts, BuilderAssumption DEF Wired, Holder
<1>3. ASSUME NEW i \in 1..3 PROVE Holder(place[b], Ports[i]) # NoOne
    BY <1>1, WiringFacts DEF Wired
<1> QED
    BY <1>2, <1>3

\* A platform's container resolves to the platform's own subsystems, and has
\* every port, whatever builds and clients share the container or its parent.
THEOREM PlatformsStayApart == Spec => []BuilderInv
BY InitOK, Inductive, WiredIsOwn, PTL DEF Spec

-----------------------------------------------------------------------------
(***************************************************************************)
(* One of the builds that meet in a container succeeds.  A build that has  *)
(* bound a key is past it, and one that has failed stands at a key that    *)
(* was taken: the build that has come furthest cannot have failed.         *)
(***************************************************************************)

\* No key is wired twice.
LEMMA WiringInjective == \A i, j \in 1..11 : Wiring[i] = Wiring[j] => i = j
<1>1. \A i \in 1..11 : Wiring[i] = IF i =< 3 THEN Ports[i] ELSE Subsystems[i - 3]
  <2>1. ASSUME NEW i \in 1..11, i > 3 PROVE Wiring[i] = Subsystems[i - 3]
    <3>1. i - 3 \in 1..8 /\ (i - 3) + 3 = i
      BY <2>1
    <3> QED
      BY <3>1, WiringFacts
  <2>2. ASSUME NEW i \in 1..11, i =< 3 PROVE Wiring[i] = Ports[i]
    BY <2>2, WiringFacts
  <2> QED
    BY <2>1, <2>2
<1>2. /\ Wiring[1] = "ClockPort" /\ Wiring[2] = "IdGeneratorPort"
      /\ Wiring[3] = "SecretProviderPort" /\ Wiring[4] = "EventBus"
      /\ Wiring[5] = "HealthReporter" /\ Wiring[6] = "LifecycleManager"
      /\ Wiring[7] = "CapabilityRegistry" /\ Wiring[8] = "PluginRegistry"
      /\ Wiring[9] = "PluginLoader" /\ Wiring[10] = "FeatureFlagRegistry"
      /\ Wiring[11] = "PlatformSettings"
  BY <1>1 DEF Ports, Subsystems
<1>3. \A i \in 1..11 : \/ i = 1 \/ i = 2 \/ i = 3 \/ i = 4 \/ i = 5 \/ i = 6
                       \/ i = 7 \/ i = 8 \/ i = 9 \/ i = 10 \/ i = 11
  OBVIOUS
<1> QED
  BY <1>2, <1>3

\* Who bound a key of a container builds there and is past that key.
BoundBy(c, i) ==
    LET b == bound[c][Wiring[i]]
    IN  b \in Builds => place[b] = c /\ i < next[b]

\* A build that failed for no plugin of its own stands at a key that was taken.
Blocked(b) ==
    stage[b] = "failed" /\ Installable(given[b].plugins) =>
        next[b] \in 1..11 /\ bound[place[b]][Key(b)] # NoOne

WinnerInv ==
    /\ IInv /\ given = [b \in Builds |-> given[b]]
    /\ \A c \in Places, i \in 1..11 : BoundBy(c, i)
    /\ \A b \in Builds : Blocked(b)

\* What a step does not bind anew stays bound by who it was, and what a build
\* that it leaves alone stands at stays taken.
LEMMA BoundByStays ==
    ASSUME WinnerInv, NEW c \in Places, NEW i \in 1..11,
           bound'[c][Wiring[i]] \in {bound[c][Wiring[i]], Client},
           next' \in [Builds -> 1..12],
           \A b \in Builds : /\ place[b] # NoOne => place'[b] = place[b]
                             /\ next'[b] >= next[b]
    PROVE  BoundBy(c, i)'
<1>1. Client \notin Builds /\ c # NoOne
  BY BuilderAssumption DEF Places
<1> SUFFICES ASSUME bound'[c][Wiring[i]] \in Builds
             PROVE  LET b == bound'[c][Wiring[i]] IN place'[b] = c /\ i < next'[b]
  BY DEF BoundBy
<1> DEFINE b == bound[c][Wiring[i]]
<1>2. bound'[c][Wiring[i]] = b /\ b \in Builds
  BY <1>1
<1>3. place[b] = c /\ i < next[b]
  BY <1>2 DEF WinnerInv, BoundBy
<1>4. next[b] \in Nat /\ next'[b] \in Nat /\ next'[b] >= next[b] /\ place'[b] = c
  BY <1>1, <1>2, <1>3, Lengths DEF WinnerInv, IInv, TypeOK
<1> HIDE DEF b
<1> QED
  BY <1>2, <1>3, <1>4

LEMMA BlockedStays ==
    ASSUME WinnerInv, BindingsStay, NEW b \in Builds, stage[b] # "new",
           next'[b] = next[b], place'[b] = place[b], stage'[b] = stage[b],
           given'[b] = given[b]
    PROVE  Blocked(b)'
<1>1. Blocked(b) /\ place[b] \in Places
  BY DEF WinnerInv, IInv, TypeOK
<1> SUFFICES ASSUME stage[b] = "failed", Installable(given[b].plugins)
             PROVE  next[b] \in 1..11 /\ bound'[place[b]][Wiring[next[b]]] # NoOne
  BY DEF Blocked, Key, Installable
<1>2. next[b] \in 1..11 /\ bound[place[b]][Wiring[next[b]]] # NoOne
  BY <1>1 DEF Blocked, Key
<1>3. Wiring[next[b]] \in Keys
  BY <1>2, WiringFacts
<1> QED
  BY <1>1, <1>2, <1>3 DEF BindingsStay

\* Of builds at some keys one has come furthest.
LEMMA Furthest ==
    ASSUME NEW T \in SUBSET (1..12), T # {}
    PROVE  \E m \in T : \A k \in T : k =< m
<1>0. SUFFICES ASSUME \A m \in T : ~(\A k \in T : k =< m) PROVE FALSE
  OBVIOUS
<1> DEFINE Above == {n \in Nat : \A k \in T : k =< n}
<1>1. \A k \in T : k \in 1..12
  OBVIOUS
<1>2. 12 \in Above
  BY <1>1
<1>3. 0 \notin Above
  <2>1. PICK k \in T : TRUE
    OBVIOUS
  <2>2. k \in 1..12
    BY <1>1
  <2> QED
    BY <2>2
<1>4. ASSUME NEW n \in Nat, n + 1 \in Above PROVE n \in Above
  <2>1. n + 1 \notin T
    BY <1>0, <1>4
  <2>2. ASSUME NEW k \in T PROVE k =< n
    <3>1. k \in 1..12 /\ k =< n + 1 /\ k # n + 1
      BY <1>1, <1>4, <2>1
    <3> QED
      BY <3>1
  <2> QED
    BY <2>2
<1> HIDE DEF Above
<1>5. \A n \in Nat : n + 1 \in Above => n \in Above
  BY <1>4
<1>6. 9 \in Above
  BY <1>2, <1>5
<1>7. 6 \in Above
  BY <1>5, <1>6
<1>8. 3 \in Above
  BY <1>5, <1>7
<1>9. 0 \in Above
  BY <1>5, <1>8
<1> QED
  BY <1>3, <1>9

LEMMA OneHasWon == WinnerInv => OneWinner
<1> SUFFICES ASSUME WinnerInv, NEW c \in Places,
                    NEW on, on = {b \in Builds : place[b] = c}, on # {},
                    \A b \in on : stage[b] \in {"built", "failed"} /\ Installable(given[b].plugins),
                    \A k \in Keys : bound[c][k] # Client
             PROVE  \E b \in on : /\ stage[b] = "built"
                                  /\ \A other \in on \ {b} : stage[other] = "failed"
  BY DEF OneWinner
<1>1. next \in [Builds -> 1..12] /\ \A b \in on : b \in Builds /\ place[b] = c
  BY Lengths DEF WinnerInv, IInv, TypeOK
<1>2. PICK b \in on : \A o \in on : next[o] =< next[b]
  <2>1. {next[o] : o \in on} \in SUBSET (1..12) /\ {next[o] : o \in on} # {}
    BY <1>1
  <2>2. PICK m \in {next[o] : o \in on} : \A k \in {next[o] : o \in on} : k =< m
    BY <2>1, Furthest
  <2> QED
    BY <2>2
<1>3. stage[b] = "built"
  <2>1. ASSUME stage[b] = "failed" PROVE FALSE
    <3>1. next[b] \in 1..11 /\ bound[c][Wiring[next[b]]] # NoOne
      BY <1>1, <2>1 DEF WinnerInv, Blocked, Key
    <3> DEFINE o == bound[c][Wiring[next[b]]]
    <3>2. Wiring[next[b]] \in Keys
      BY <3>1, WiringFacts
    <3>3. o \in Builds
      BY <3>1, <3>2 DEF WinnerInv, IInv, TypeOK
    <3>4. place[o] = c /\ next[b] < next[o]
      BY <3>1, <3>3 DEF WinnerInv, BoundBy
    <3>5. o \in on /\ next[o] \in Nat /\ next[b] \in Nat
      BY <1>1, <3>3, <3>4
    <3> HIDE DEF o
    <3> QED
      BY <1>2, <3>4, <3>5
  <2> QED
    BY <2>1
<1>4. ASSUME NEW o \in on \ {b}, stage[o] = "built" PROVE FALSE
  <2>1. \A u \in {o, b} : Wired(u) /\ next[u] = 12
    BY <1>1, <1>3, <1>4, WiringFacts DEF WinnerInv, IInv, Progress
  <2>2. bound[c][Wiring[4]] = o /\ bound[c][Wiring[4]] = b
    BY <1>1, <2>1, WiringFacts DEF Wired
  <2> QED
    BY <2>2
<1> QED
  BY <1>3, <1>4

LEMMA WinnerInductive == WinnerInv /\ IInv' /\ [Next]_vars => WinnerInv'
<1> SUFFICES ASSUME WinnerInv, IInv', [Next]_vars PROVE WinnerInv'
  OBVIOUS
<1>t. /\ next \in [Builds -> 1..12] /\ next' \in [Builds -> 1..12]
      /\ bound \in [Places -> [Keys -> Builds \cup {Client, NoOne}]]
      /\ stage \in [Builds -> {"new", "wiring", "installing", "built", "failed"}]
      /\ place \in [Builds -> Places \cup {NoOne}]
      /\ given = [b \in Builds |-> given[b]]
      /\ \A b \in Builds : stage[b] = "new" <=> place[b] = NoOne
  BY Lengths DEF WinnerInv, IInv, TypeOK
<1>1. ASSUME NEW b \in Builds, Begin(b) PROVE WinnerInv'
  <2>1. /\ stage[b] = "new" /\ UNCHANGED <<bound, next>> /\ stage'[b] = "wiring"
        /\ \A o \in Builds \ {b} : /\ stage'[o] = stage[o] /\ place'[o] = place[o]
                                   /\ given'[o] = given[o]
        /\ given' = [o \in Builds |-> given'[o]]
    BY <1>1, <1>t DEF Begin
  <2>2. BindingsStay
    BY <2>1 DEF BindingsStay
  <2>3. \A c \in Places, i \in 1..11 : BoundBy(c, i)'
    BY <1>t, <2>1, BoundByStays
  <2>4. \A o \in Builds : Blocked(o)'
    <3>1. Blocked(b)'
      BY <2>1 DEF Blocked
    <3>2. ASSUME NEW o \in Builds \ {b}, stage[o] = "new" PROVE Blocked(o)'
      BY <2>1, <3>2 DEF Blocked
    <3>3. ASSUME NEW o \in Builds \ {b}, stage[o] # "new" PROVE Blocked(o)'
      BY <2>1, <2>2, <3>3, BlockedStays
    <3> QED
      BY <3>1, <3>2, <3>3
  <2> QED
    BY <2>1, <2>3, <2>4 DEF WinnerInv
\* What a later step of b leaves alone.
<1>o. ASSUME NEW b \in Builds, stage[b] # "new", BindingsStay, UNCHANGED <<place, given>>,
             \A o \in Builds \ {b} : stage'[o] = stage[o] /\ next'[o] = next[o],
             next'[b] >= next[b], Blocked(b)',
             \A c \in Places, i \in 1..11 :
                bound'[c][Wiring[i]] \in {bound[c][Wiring[i]], Client} \/ BoundBy(c, i)'
      PROVE  WinnerInv'
  <2>1. \A o \in Builds : next'[o] >= next[o]
    BY <1>t, <1>o
  <2>2. \A c \in Places, i \in 1..11 : BoundBy(c, i)'
    BY <1>t, <1>o, <2>1, BoundByStays
  <2>3. \A o \in Builds : Blocked(o)'
    <3>1. ASSUME NEW o \in Builds \ {b}, stage[o] = "new" PROVE Blocked(o)'
      BY <1>o, <3>1 DEF Blocked
    <3>2. ASSUME NEW o \in Builds \ {b}, stage[o] # "new" PROVE Blocked(o)'
      BY <1>o, <3>2, BlockedStays
    <3> QED
      BY <1>o, <3>1, <3>2
  <2> QED
    BY <1>t, <1>o, <2>2, <2>3 DEF WinnerInv
<1>2. ASSUME NEW b \in Builds, LookForPort(b) PROVE WinnerInv'
  <2>1. /\ stage[b] = "wiring" /\ UNCHANGED <<bound, stage, place, given>>
        /\ next' = next \/ next' = [next EXCEPT ![b] = @ + 1]
    BY <1>2 DEF LookForPort
  <2>2. \A o \in Builds : next'[o] >= next[o] /\ (o # b => next'[o] = next[o])
    BY <1>t, <2>1
  <2>3. BindingsStay /\ Blocked(b)'
    BY <2>1 DEF BindingsStay, Blocked
  <2> QED
    BY <2>1, <2>2, <2>3, <1>o
<1>3. ASSUME NEW b \in Builds, Bind(b) PROVE WinnerInv'
  <2>1. /\ stage[b] = "wiring" /\ UNCHANGED <<place, given>>
        /\ place[b] \in Places /\ next[b] \in 1..11 /\ Key(b) \in Keys
    BY <1>3, <1>t, WiringFacts DEF Bind, Key, WinnerInv, IInv, Progress
  <2>2. CASE /\ bound[place[b]][Key(b)] = NoOne
             /\ bound' = [bound EXCEPT ![place[b]][Key(b)] = b]
             /\ Proceed(b)
    <3>1. /\ next'[b] = next[b] + 1 /\ stage'[b] # "failed"
          /\ \A o \in Builds \ {b} : stage'[o] = stage[o] /\ next'[o] = next[o]
      BY <1>t, <2>1, <2>2 DEF Proceed
    <3>2. BindingsStay
      BY <1>t, <2>1, <2>2 DEF BindingsStay
    <3>3. Blocked(b)'
      BY <3>1 DEF Blocked
    <3>4. ASSUME NEW c \in Places, NEW i \in 1..11
          PROVE  bound'[c][Wiring[i]] = bound[c][Wiring[i]] \/ BoundBy(c, i)'
      <4>1. Wiring[i] \in Keys
        BY WiringFacts
      <4>2. CASE c = place[b] /\ Wiring[i] = Key(b)
        <5>1. i = next[b]
          BY <2>1, <4>2, WiringInjective DEF Key
        <5>2. bound'[c][Wiring[i]] = b
          BY <1>t, <2>1, <2>2, <4>2
        <5> QED
          BY <2>1, <3>1, <4>2, <5>1, <5>2 DEF BoundBy
      <4>3. CASE ~(c = place[b] /\ Wiring[i] = Key(b))
        BY <1>t, <2>1, <2>2, <4>1, <4>3
      <4> QED
        BY <4>2, <4>3
    <3>5. next'[b] >= next[b]
      BY <2>1, <3>1
    <3> QED
      BY <2>1, <3>1, <3>2, <3>3, <3>4, <3>5, <1>o
  <2>3. CASE /\ bound[place[b]][Key(b)] # NoOne
             /\ stage' = [stage EXCEPT ![b] = "failed"]
             /\ UNCHANGED <<bound, next>>
    <3>1. \A o \in Builds \ {b} : stage'[o] = stage[o] /\ next'[o] = next[o]
      BY <1>t, <2>3
    <3>2. BindingsStay /\ next'[b] >= next[b]
      BY <1>t, <2>1, <2>3 DEF BindingsStay
    <3>3. Blocked(b)'
      BY <2>1, <2>3 DEF Blocked, Key
    <3> QED
      BY <2>1, <2>3, <3>1, <3>2, <3>3, <1>o
  <2> QED
    BY <1>3, <2>2, <2>3 DEF Bind
<1>4. ASSUME NEW b \in Builds, InstallPlugins(b) PROVE WinnerInv'
  <2>1. /\ stage[b] = "installing" /\ UNCHANGED <<bound, place, next, given>>
        /\ stage'[b] = IF Installable(given[b].plugins) THEN "built" ELSE "failed"
        /\ \A o \in Builds \ {b} : stage'[o] = stage[o]
    BY <1>4, <1>t DEF InstallPlugins
  <2>2. BindingsStay /\ next'[b] >= next[b]
    BY <1>t, <2>1 DEF BindingsStay
  <2>3. Blocked(b)'
    BY <2>1 DEF Blocked, Installable
  <2> QED
    BY <2>1, <2>2, <2>3, <1>o
<1>5. ASSUME UNCHANGED <<stage, place, next, given>>, BindingsStay,
             \A c \in Places, k \in Keys : bound'[c][k] \in {bound[c][k], Client}
      PROVE  WinnerInv'
  <2>1. ASSUME NEW c \in Places, NEW i \in 1..11 PROVE BoundBy(c, i)'
    <3>1. bound'[c][Wiring[i]] \in {bound[c][Wiring[i]], Client}
      BY <1>5, WiringFacts
    <3>2. \A b \in Builds : next'[b] >= next[b] /\ place'[b] = place[b]
      BY <1>5, <1>t
    <3> QED
      BY <1>t, <3>1, <3>2, BoundByStays
  <2>2. \A b \in Builds : Blocked(b)'
    <3>1. ASSUME NEW b \in Builds, stage[b] = "new" PROVE Blocked(b)'
      BY <1>5, <3>1 DEF Blocked
    <3>2. ASSUME NEW b \in Builds, stage[b] # "new" PROVE Blocked(b)'
      BY <1>5, <3>2, BlockedStays
    <3> QED
      BY <3>1, <3>2
  <2> QED
    BY <1>5, <1>t, <2>1, <2>2 DEF WinnerInv
<1>6. ASSUME NEW c \in Containers, NEW k \in ClientKeys, ClientBinds(c, k) PROVE WinnerInv'
  <2>1. UNCHANGED <<stage, place, next, given>>
    BY <1>6 DEF ClientBinds
  <2>2. BindingsStay /\ \A d \in Places, j \in Keys : bound'[d][j] \in {bound[d][j], Client}
    BY <1>6, <1>t DEF ClientBinds, BindingsStay
  <2> QED
    BY <1>5, <2>1, <2>2
<1>7. ASSUME UNCHANGED <<bound, stage, place, next, given>> PROVE WinnerInv'
  BY <1>5, <1>7 DEF BindingsStay
<1> QED
  BY <1>1, <1>2, <1>3, <1>4, <1>6, <1>7 DEF Next, ClientDefines, vars

\* Builds that meet in one container do not fail each other: when all of them
\* are over, undisturbed, exactly one of them has its platform.
THEOREM OneBuildWins == Spec => []OneWinner
<1>1. Spec => []IInv
  BY InitOK, Inductive, PTL DEF Spec
<1>2. Init /\ IInv => WinnerInv
  BY WiringFacts, BuilderAssumption DEF Init, WinnerInv, BoundBy, Blocked, Places
<1> QED
  BY <1>1, <1>2, WinnerInductive, OneHasWon, PTL DEF Spec

-----------------------------------------------------------------------------
(***************************************************************************)
(* The feature flags of a platform.                                        *)
(***************************************************************************)

\* Registry r overrides just the flags of settings s, the disabled ones last.
Decided(r, s) ==
    /\ DOMAIN r = {"flags", "overrides"}
    /\ DOMAIN r.overrides = s.enabled \cup s.disabled
    /\ \A n \in s.disabled : ~r.overrides[n]
    /\ \A n \in s.enabled \ s.disabled : r.overrides[n]

LEMMA OverridesDecide ==
    ASSUME NEW s PROVE Decided(ApplyOverrides(NoFlags, s.enabled, s.disabled), s)
<1> DEFINE q == Override(NoFlags, s.enabled, TRUE)
           r == Override(q, s.disabled, FALSE)
<1>1. /\ DOMAIN NoFlags = {"flags", "overrides"} /\ DOMAIN NoFlags.overrides = {}
    BY DEF NoFlags
<1>2. /\ DOMAIN q = {"flags", "overrides"}
      /\ q.overrides = [n \in s.enabled |-> TRUE]
  <2>1. DOMAIN q = DOMAIN NoFlags
    BY DEF Override
  <2>2. q.overrides = [n \in {} \cup s.enabled |->
                          IF n \in s.enabled THEN TRUE ELSE NoFlags.overrides[n]]
    BY <1>1 DEF Override
  <2> QED
    BY <1>1, <2>1, <2>2
<1> HIDE DEF q
<1>3. /\ DOMAIN r = {"flags", "overrides"}
      /\ r.overrides = [n \in s.enabled \cup s.disabled |->
                           IF n \in s.disabled THEN FALSE ELSE q.overrides[n]]
    BY <1>2 DEF Override
<1>4. r = ApplyOverrides(NoFlags, s.enabled, s.disabled)
    BY DEF ApplyOverrides, q
<1> HIDE DEF r
<1> QED
    BY <1>2, <1>3, <1>4 DEF Decided

\* A client's definition of a flag leaves the overrides alone.
LEMMA DefinitionKeeps ==
    ASSUME NEW r, NEW s, NEW f, NEW default, Decided(r, s)
    PROVE  Decided(Define(r, f, default), s)
<1>1. /\ DOMAIN Define(r, f, default) = {"flags", "overrides"}
      /\ Define(r, f, default).overrides = r.overrides
    BY DEF Define, Decided
<1> QED
    BY <1>1 DEF Decided

LEMMA DecidedIsDecided ==
    ASSUME NEW r, NEW s, NEW f, Decided(r, s)
    PROVE  /\ f \in s.disabled => ~IsEnabled(r, f)
           /\ f \in s.enabled \ s.disabled => IsEnabled(r, f)
           /\ f \notin s.enabled \cup s.disabled =>
                 (IsEnabled(r, f) <=> f \in DOMAIN r.flags /\ r.flags[f])
BY DEF Decided, IsEnabled

FlagsInv ==
    /\ stage \in [Builds -> {"new", "wiring", "installing", "built", "failed"}]
    /\ given = [b \in Builds |-> given[b]] /\ flags = [b \in Builds |-> flags[b]]
    /\ \A b \in Builds : stage[b] # "new" => Decided(flags[b], given[b].settings)

LEMMA FlagsInductive == FlagsInv /\ [Next]_vars => FlagsInv'
<1> SUFFICES ASSUME FlagsInv, [Next]_vars PROVE FlagsInv'
    OBVIOUS
<1>1. ASSUME NEW b \in Builds, Begin(b) PROVE FlagsInv'
  <2>1. PICK knobs \in Knobs :
           /\ given' = [given EXCEPT ![b] = knobs]
           /\ flags' = [flags EXCEPT ![b] = ApplyOverrides(NoFlags, knobs.settings.enabled,
                                                           knobs.settings.disabled)]
    BY <1>1 DEF Begin
  <2>2. stage' = [stage EXCEPT ![b] = "wiring"]
    BY <1>1 DEF Begin
  <2>3. Decided(flags'[b], given'[b].settings)
    BY <2>1, OverridesDecide DEF FlagsInv
  <2> QED
    BY <2>1, <2>2, <2>3 DEF FlagsInv
<1>2. ASSUME NEW b \in Builds, LookForPort(b) \/ Bind(b) \/ InstallPlugins(b) PROVE FlagsInv'
  <2>1. UNCHANGED <<given, flags>> /\ stage[b] # "new"
    BY <1>2 DEF LookForPort, Bind, InstallPlugins
  <2>2. \/ stage' = stage
        \/ \E w \in {"wiring", "installing", "built", "failed"} : stage' = [stage EXCEPT ![b] = w]
    BY <1>2 DEF LookForPort, Bind, Proceed, InstallPlugins
  <2> QED
    BY <2>1, <2>2 DEF FlagsInv
<1>3. ASSUME NEW b \in Builds, NEW f \in Flags, NEW default \in BOOLEAN,
             ClientDefines(b, f, default)
      PROVE  FlagsInv'
    BY <1>3, DefinitionKeeps DEF ClientDefines, FlagsInv
<1>4. ASSUME UNCHANGED <<given, flags, stage>> PROVE FlagsInv'
    BY <1>4 DEF FlagsInv
<1> QED
    BY <1>1, <1>2, <1>3, <1>4 DEF Next, ClientBinds, vars

\* What the settings say of a flag decides, whatever clients define later.
THEOREM SettingsWin == Spec => []SettingsDecideFlags
<1>1. Init => FlagsInv
    BY DEF Init, FlagsInv
<1>2. FlagsInv => SettingsDecideFlags
    BY DecidedIsDecided DEF FlagsInv, SettingsDecideFlags
<1> QED
    BY <1>1, <1>2, FlagsInductive, PTL DEF Spec

-----------------------------------------------------------------------------
(***************************************************************************)
(* Versions.                                                               *)
(***************************************************************************)

\* __lt__ is a strict order, in which those versions that differ in nothing
\* but the build metadata are not ordered, and any other two are: sorting by
\* it is well defined, and "pre-release lowers precedence".
THEOREM LessIsWeakOrder ==
    \A u, v, w \in Versions :
        /\ ~(Less(u, v) /\ Less(v, u))
        /\ Less(u, v) /\ Less(v, w) => Less(u, w)
        /\ SameButBuild(u, v) <=> ~Less(u, v) /\ ~Less(v, u)
        /\ SameCore(u, v) /\ u.prerelease # 0 /\ v.prerelease = 0 => Less(u, v)
BY DEF Versions, Less, CoreLess, SameCore, PreRank, SameButBuild

\* "Build metadata is ignored" is true of __lt__ and __ge__ and false of the
\* other two: of two versions that differ in it alone each is greater than
\* the other, neither is less or equal, and both are greater or equal.  On
\* all other pairs the four agree.
THEOREM BuildIsNotIgnored ==
    \A v, w \in Versions :
        /\ SameButBuild(v, w) /\ v # w =>
              /\ Greater(v, w) /\ Greater(w, v)
              /\ ~LessOrEqual(v, w) /\ GreaterOrEqual(v, w)
        /\ ~SameButBuild(v, w) \/ v = w =>
              /\ Greater(v, w) <=> Less(w, v)
              /\ GreaterOrEqual(v, w) <=> LessOrEqual(w, v)
<1> SUFFICES ASSUME NEW v \in Versions, NEW w \in Versions
             PROVE  /\ SameButBuild(v, w) /\ v # w =>
                          /\ Greater(v, w) /\ Greater(w, v)
                          /\ ~LessOrEqual(v, w) /\ GreaterOrEqual(v, w)
                    /\ ~SameButBuild(v, w) \/ v = w =>
                          /\ Greater(v, w) <=> Less(w, v)
                          /\ GreaterOrEqual(v, w) <=> LessOrEqual(w, v)
    OBVIOUS
<1>1. /\ ~(Less(v, w) /\ Less(w, v))
      /\ SameButBuild(v, w) <=> ~Less(v, w) /\ ~Less(w, v)
    BY LessIsWeakOrder
<1>2. SameButBuild(v, v)
    BY DEF SameButBuild, SameCore
<1> QED
    BY <1>1, <1>2 DEF Greater, GreaterOrEqual, LessOrEqual

\* Compatibility divides the versions into classes, although its rule for 0.x
\* looks at the two of them: it is reflexive, symmetric and transitive.
THEOREM CompatibleIsEquivalence ==
    \A u, v, w \in Versions :
        /\ CompatibleWith(v, v)
        /\ CompatibleWith(v, w) => CompatibleWith(w, v)
        /\ CompatibleWith(u, v) /\ CompatibleWith(v, w) => CompatibleWith(u, w)
BY DEF CompatibleWith

=============================================================================
