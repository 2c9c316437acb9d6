-------------------------- MODULE PlatformBuilder --------------------------
(***************************************************************************)
(* eaip.platform.builder.PlatformBuilder: build() wires a platform into a  *)
(* container, a fresh one or one it is given, which may be a child scope.  *)
(*                                                                         *)
(* The container's operations are atomic, build() is not: threads that     *)
(* build on the same container, or bind in it, meet between any two of its *)
(* registrations.  The three default ports are bound unless the container  *)
(* or its parent has them already, which is looked at first; the eight     *)
(* subsystems are bound in any case, and a key that the container itself   *)
(* has raises and ends build(), with what was bound so far left bound.     *)
(***************************************************************************)
EXTENDS Naturals, Sequences, SequencesExt, FeatureFlags

CONSTANTS
    Builds,         \* the build() calls there are; each is made once
    Containers,     \* the containers clients hold; a build's own is its name
    Parent,         \* the parent of each of those, or NoOne
    ClientKeys,     \* bound: what clients bind in them themselves
    Plugins,        \* the plugins there are
    Knobs,          \* bound: the feature flags in the settings of a build, and
                    \* the plugins given to with_plugin(), in order
    Unfit,          \* the plugins whose contract has another major
    Flags,          \* the names of feature flags
    Client, NoOne   \* who bound a key: a client, nobody

Ports      == <<"ClockPort", "IdGeneratorPort", "SecretProviderPort">>
Subsystems == <<"EventBus", "HealthReporter", "LifecycleManager", "CapabilityRegistry",
                "PluginRegistry", "PluginLoader", "FeatureFlagRegistry", "PlatformSettings">>
Wiring     == Ports \o Subsystems
Keys       == ToSet(Wiring)

\* FeatureFlagSettings
FlagSettings == [enabled : SUBSET Flags, disabled : SUBSET Flags]

ASSUME BuilderAssumption ==
    /\ Parent \in [Containers -> Containers \cup {NoOne}]
    /\ Containers \cap Builds = {}
    /\ {Client, NoOne} \cap (Builds \cup Containers) = {}
    /\ Client # NoOne
    /\ ClientKeys \subseteq Keys
    /\ Knobs \subseteq [settings : FlagSettings, plugins : Seq(Plugins)]

VARIABLES
    bound,      \* who bound each key in each container
    stage,      \* where each build() is
    place,      \* the container it builds on
    next,       \* the key of Wiring it has got to
    looked,     \* whether it has found that key, a port, missing
    given,      \* its settings and plugins
    flags       \* its FeatureFlagRegistry

vars == <<bound, stage, place, next, looked, given, flags>>

Places == Containers \cup Builds

\* Container._find
Holder(c, k) ==
    IF bound[c][k] # NoOne \/ c \in Builds \/ Parent[c] = NoOne THEN bound[c][k]
    ELSE bound[Parent[c]][k]

TypeOK ==
    /\ bound \in [Places -> [Keys -> Builds \cup {Client, NoOne}]]
    /\ stage \in [Builds -> {"new", "wiring", "installing", "built", "failed"}]
    /\ place \in [Builds -> Places \cup {NoOne}]
    /\ next \in [Builds -> 1..(Len(Wiring) + 1)]
    /\ looked \in [Builds -> BOOLEAN]
    /\ \A b \in Builds : stage[b] = "new" <=> place[b] = NoOne

Init ==
    /\ bound = [c \in Places |-> [k \in Keys |-> NoOne]]
    /\ stage = [b \in Builds |-> "new"]
    /\ place = [b \in Builds |-> NoOne]
    /\ next = [b \in Builds |-> 1]
    /\ looked = [b \in Builds |-> FALSE]
    /\ given = [b \in Builds |-> [settings |-> [enabled |-> {}, disabled |-> {}],
                                  plugins |-> <<>>]]
    /\ flags = [b \in Builds |-> NoFlags]

-----------------------------------------------------------------------------
\* The knobs are set and build() is called; a container of its own has no
\* parent.  The feature flags are of this build alone.
Begin(b) ==
    /\ stage[b] = "new"
    /\ \E c \in Containers \cup {b}, knobs \in Knobs :
          /\ place' = [place EXCEPT ![b] = c]
          /\ given' = [given EXCEPT ![b] = knobs]
          /\ flags' = [flags EXCEPT ![b] = ApplyOverrides(NoFlags, knobs.settings.enabled,
                                                          knobs.settings.disabled)]
    /\ stage' = [stage EXCEPT ![b] = "wiring"]
    /\ UNCHANGED <<bound, next, looked>>

Key(b) == Wiring[next[b]]

\* "if not container.has(...)"
LookForPort(b) ==
    /\ stage[b] = "wiring"
    /\ next[b] =< Len(Ports)
    /\ ~looked[b]
    /\ \/ /\ Holder(place[b], Key(b)) # NoOne
          /\ next' = [next EXCEPT ![b] = @ + 1]
          /\ looked' = looked
       \/ /\ Holder(place[b], Key(b)) = NoOne
          /\ looked' = [looked EXCEPT ![b] = TRUE]
          /\ next' = next
    /\ UNCHANGED <<bound, stage, place, given, flags>>

\* The build goes on to the next key, or to the plugins after the last one.
Proceed(b) ==
    /\ next' = [next EXCEPT ![b] = @ + 1]
    /\ looked' = [looked EXCEPT ![b] = FALSE]
    /\ stage' = [stage EXCEPT ![b] = IF next[b] = Len(Wiring) THEN "installing" ELSE @]

\* Mutants of Bind: the container does not refuse a key it has; it refuses a
\* key that its parent has.
BindAnyway(b) ==
    /\ stage[b] = "wiring"
    /\ next[b] > Len(Ports) \/ looked[b]
    /\ bound' = [bound EXCEPT ![place[b]][Key(b)] = b]
    /\ Proceed(b)
    /\ UNCHANGED <<place, given, flags>>
BindUnlessInherited(b) ==
    /\ stage[b] = "wiring"
    /\ next[b] > Len(Ports) \/ looked[b]
    /\ \/ /\ Holder(place[b], Key(b)) = NoOne
          /\ bound' = [bound EXCEPT ![place[b]][Key(b)] = b]
          /\ Proceed(b)
       \/ /\ Holder(place[b], Key(b)) # NoOne
          /\ stage' = [stage EXCEPT ![b] = "failed"]
          /\ UNCHANGED <<bound, next, looked>>
    /\ UNCHANGED <<place, given, flags>>

\* register_factory() of a port found missing, register_instance() of a
\* subsystem: DuplicateRegistrationError if the container itself has the key.
Bind(b) ==
    /\ stage[b] = "wiring"
    /\ next[b] > Len(Ports) \/ looked[b]
    /\ \/ /\ bound[place[b]][Key(b)] = NoOne
          /\ bound' = [bound EXCEPT ![place[b]][Key(b)] = b]
          /\ Proceed(b)
       \/ /\ bound[place[b]][Key(b)] # NoOne
          /\ stage' = [stage EXCEPT ![b] = "failed"]
          /\ UNCHANGED <<bound, next, looked>>
    /\ UNCHANGED <<place, given, flags>>

\* The plugin list can be installed to the end.
Installable(q) == IsInjective(q) /\ ToSet(q) \cap Unfit = {}

\* The plugins are installed, in a registry of this build alone; one that is
\* refused loses the platform.
InstallPlugins(b) ==
    /\ stage[b] = "installing"
    /\ stage' = [stage EXCEPT ![b] = IF Installable(given[b].plugins) THEN "built" ELSE "failed"]
    /\ UNCHANGED <<bound, place, next, looked, given, flags>>

\* A client binds a key in a container it holds, before, during or after.
ClientBinds(c, k) ==
    /\ bound[c][k] = NoOne
    /\ bound' = [bound EXCEPT ![c][k] = Client]
    /\ UNCHANGED <<stage, place, next, looked, given, flags>>

\* A client defines a flag of a platform that is built.
ClientDefines(b, f, default) ==
    /\ stage[b] = "built"
    /\ flags' = [flags EXCEPT ![b] = Define(@, f, default)]
    /\ UNCHANGED <<bound, stage, place, next, looked, given>>

Next ==
    \/ \E b \in Builds : Begin(b) \/ LookForPort(b) \/ Bind(b) \/ InstallPlugins(b)
    \/ \E c \in Containers, k \in ClientKeys : ClientBinds(c, k)
    \/ \E b \in Builds, f \in Flags, default \in BOOLEAN : ClientDefines(b, f, default)

Spec == Init /\ [][Next]_vars

-----------------------------------------------------------------------------
(***************************************************************************)
(* Safety.                                                                 *)
(***************************************************************************)

\* The subsystem that the Platform made by b keeps and its accessors return: of
\* each key the one b made, whatever became of the container.
Attribute(b, k) == b

\* A platform's container resolves each subsystem to the platform's own and
\* has every port, whoever builds or binds in the same container or its
\* parent at the same time or later: two platforms are never mixed.
OwnWiring ==
    \A b \in Builds : stage[b] = "built" =>
        /\ \A i \in DOMAIN Subsystems : Holder(place[b], Subsystems[i]) = Attribute(b, Subsystems[i])
        /\ \A i \in DOMAIN Ports : Holder(place[b], Ports[i]) # NoOne

\* The type invariant together with the wiring.
BuilderInv == TypeOK /\ OwnWiring

\* Builds that meet in one container do not fail each other: when all those on
\* it are over, and neither a client's binding nor a plugin was in the way of
\* any of them, exactly one has succeeded.
OneWinner ==
    \A c \in Places :
        LET on == {b \in Builds : place[b] = c}
        IN  /\ on # {}
            /\ \A b \in on : stage[b] \in {"built", "failed"} /\ Installable(given[b].plugins)
            /\ \A k \in Keys : bound[c][k] # Client
            => \E b \in on : /\ stage[b] = "built"
                             /\ \A other \in on \ {b} : stage[other] = "failed"

\* "Enabled/disabled at boot": what the settings say of a flag decides, and
\* disabling it before enabling it; the default, defined whenever and however
\* often, counts only for a flag they do not mention.
SettingsDecideFlags ==
    \A b \in Builds : stage[b] = "built" =>
        \A f \in Flags :
            LET s == given[b].settings
            IN  /\ f \in s.disabled => ~IsEnabled(flags[b], f)
                /\ f \in s.enabled \ s.disabled => IsEnabled(flags[b], f)
                /\ f \notin s.enabled \cup s.disabled =>
                      (IsEnabled(flags[b], f) <=> f \in DOMAIN flags[b].flags
                                                     /\ flags[b].flags[f])
=============================================================================
