---------------------------- MODULE PluginLoader ----------------------------
(***************************************************************************)
(* eaip.plugins.loader.PluginLoader over eaip.plugins.registry, used by    *)
(* any number of asyncio tasks of one event loop.                          *)
(*                                                                         *)
(* The loader awaits only a plugin's own activate() and deactivate().  An  *)
(* action is the code a task runs from one of those to the next; while a   *)
(* task waits in a plugin, others may install, uninstall, activate and     *)
(* deactivate.  A plugin is known by its name.                             *)
(***************************************************************************)
EXTENDS Naturals, Sequences, SequencesExt

CONSTANTS
    Tasks,      \* the tasks that call the loader
    Plugins,    \* the names of the plugins there are
    NoPlugin    \* what a task that awaits no plugin awaits

ASSUME PluginAssumption == NoPlugin \notin Plugins

VARIABLES
    installed,  \* the registry's plugins, in the order registry.all() lists
    activated,  \* self._activated, the set of names
    order,      \* history: those names in the order they were activated
    doing,      \* what each task is doing in the loader
    on,         \* the plugin each task awaits
    todo,       \* the names its activate_all or deactivate_all has yet to visit
    call        \* the loader's operation each task called last

vars == <<installed, activated, order, doing, on, todo, call>>

\* "idle" and "raised" are the outcomes of a call; the others await a plugin.
Ended    == {"idle", "raised"}
Awaiting == {"activating", "deactivating"}
Calls    == {"none", "activate", "deactivate", "activate_all", "deactivate_all"}

Installed == ToSet(installed)

TypeOK ==
    /\ installed \in Seq(Plugins)
    /\ IsInjective(installed)
    /\ order \in Seq(Plugins)
    /\ IsInjective(order)
    /\ activated = ToSet(order)
    /\ doing \in [Tasks -> Ended \cup Awaiting]
    /\ on \in [Tasks -> Plugins \cup {NoPlugin}]
    /\ todo \in [Tasks -> Seq(Plugins)]
    /\ \A t \in Tasks : /\ doing[t] \in Awaiting <=> on[t] # NoPlugin
                        /\ doing[t] \in Ended => todo[t] = <<>>
    /\ call \in [Tasks -> Calls]

Init ==
    /\ installed = <<>>
    /\ activated = {}
    /\ order = <<>>
    /\ doing = [t \in Tasks |-> "idle"]
    /\ on = [t \in Tasks |-> NoPlugin]
    /\ todo = [t \in Tasks |-> <<>>]
    /\ call = [t \in Tasks |-> "none"]

Free(t) == doing[t] \in Ended

Await(t, d, p, rest) ==
    /\ doing' = [doing EXCEPT ![t] = d]
    /\ on' = [on EXCEPT ![t] = p]
    /\ todo' = [todo EXCEPT ![t] = rest]

End(t, outcome) == Await(t, outcome, NoPlugin, <<>>)

Called(t, c) == call' = [call EXCEPT ![t] = c]

-----------------------------------------------------------------------------
\* install() of a plugin with the right contract major: registered last, or
\* refused by the registry as a duplicate.
Install(t) ==
    /\ Free(t)
    /\ \E p \in Plugins :
          \/ /\ p \notin Installed
             /\ installed' = Append(installed, p)
             /\ End(t, "idle")
          \/ /\ p \in Installed
             /\ installed' = installed
             /\ End(t, "raised")
    /\ Called(t, "none")
    /\ UNCHANGED <<activated, order>>

\* install() of a plugin whose contract targets another major.
InstallViolatesContract(t) ==
    /\ Free(t)
    /\ End(t, "raised")
    /\ Called(t, "none")
    /\ UNCHANGED <<installed, activated, order>>

\* Mutant of Uninstall: an active plugin is not refused.
UninstallActive(t) ==
    /\ Free(t)
    /\ \E p \in Plugins : installed' = RemoveFirst(installed, p)
    /\ End(t, "idle")
    /\ Called(t, "none")
    /\ UNCHANGED <<activated, order>>

\* uninstall(): refused while the name is in _activated, and otherwise taken
\* out of the registry; False for a name that is not there.
Uninstall(t) ==
    /\ Free(t)
    /\ \E p \in Plugins :
          \/ /\ p \in activated
             /\ installed' = installed
             /\ End(t, "raised")
          \/ /\ p \notin activated
             /\ installed' = RemoveFirst(installed, p)
             /\ End(t, "idle")
    /\ Called(t, "none")
    /\ UNCHANGED <<activated, order>>

(***************************************************************************)
(* activate() of each name of q in turn, with A the names active now: an   *)
(* unknown name raises NotFoundError, an active one is passed over, and    *)
(* the first other one is awaited.                                         *)
(***************************************************************************)
ActivateNext(t, q, A) ==
    \/ /\ ToSet(q) \subseteq A \cap Installed
       /\ End(t, "idle")
    \/ \E n \in 1..Len(q) :
          /\ \A m \in 1..(n - 1) : q[m] \in A \cap Installed
          /\ \/ /\ q[n] \notin Installed
                /\ End(t, "raised")
             \/ /\ q[n] \in Installed \ A
                /\ Await(t, "activating", q[n], SubSeq(q, n + 1, Len(q)))

(***************************************************************************)
(* deactivate() of each name of q in turn: a name that is not active is    *)
(* passed over, an active one that is not in the registry raises           *)
(* NotFoundError, and the first other one is awaited.                      *)
(***************************************************************************)
DeactivateNext(t, q, A) ==
    \/ /\ ToSet(q) \cap A = {}
       /\ End(t, "idle")
    \/ \E n \in 1..Len(q) :
          /\ \A m \in 1..(n - 1) : q[m] \notin A
          /\ q[n] \in A
          /\ \/ /\ q[n] \notin Installed
                /\ End(t, "raised")
             \/ /\ q[n] \in Installed
                /\ Await(t, "deactivating", q[n], SubSeq(q, n + 1, Len(q)))

\* activate(name).
Activate(t) ==
    /\ Free(t)
    /\ \E p \in Plugins : ActivateNext(t, <<p>>, activated)
    /\ Called(t, "activate")
    /\ UNCHANGED <<installed, activated, order>>

\* activate_all(): the names are those registry.all() lists at the call.
ActivateAll(t) ==
    /\ Free(t)
    /\ ActivateNext(t, installed, activated)
    /\ Called(t, "activate_all")
    /\ UNCHANGED <<installed, activated, order>>

\* deactivate(name).
Deactivate(t) ==
    /\ Free(t)
    /\ \E p \in Plugins : DeactivateNext(t, <<p>>, activated)
    /\ Called(t, "deactivate")
    /\ UNCHANGED <<installed, activated, order>>

\* deactivate_all(): the names are those in _activated at the call, in the
\* order a Python set of strings happens to iterate, which may be any.
DeactivateAll(t) ==
    /\ Free(t)
    /\ \E q \in SetToSeqs(activated) : DeactivateNext(t, q, activated)
    /\ Called(t, "deactivate_all")
    /\ UNCHANGED <<installed, activated, order>>

\* The awaited plugin's activate() returns.
PluginActivated(t) ==
    /\ doing[t] = "activating"
    /\ activated' = activated \cup {on[t]}
    /\ order' = IF on[t] \in activated THEN order ELSE Append(order, on[t])
    /\ ActivateNext(t, todo[t], activated')
    /\ UNCHANGED <<installed, call>>

\* It raises: PluginError, also out of activate_all().
PluginActivationFails(t) ==
    /\ doing[t] = "activating"
    /\ End(t, "raised")
    /\ UNCHANGED <<installed, activated, order, call>>

Discard(p) ==
    /\ activated' = activated \ {p}
    /\ order' = RemoveFirst(order, p)

\* The awaited plugin's deactivate() returns.
PluginDeactivated(t) ==
    /\ doing[t] = "deactivating"
    /\ Discard(on[t])
    /\ DeactivateNext(t, todo[t], activated')
    /\ UNCHANGED <<installed, call>>

\* It raises: the name is discarded all the same and the exception goes on,
\* also out of deactivate_all().
PluginDeactivationFails(t) ==
    /\ doing[t] = "deactivating"
    /\ Discard(on[t])
    /\ End(t, "raised")
    /\ UNCHANGED <<installed, call>>

Request(t) ==
    \/ Install(t) \/ InstallViolatesContract(t) \/ Uninstall(t)
    \/ Activate(t) \/ ActivateAll(t) \/ Deactivate(t) \/ DeactivateAll(t)

Resume(t) ==
    \/ PluginActivated(t) \/ PluginActivationFails(t)
    \/ PluginDeactivated(t) \/ PluginDeactivationFails(t)

Next == \E t \in Tasks : Request(t) \/ Resume(t)

Spec == Init /\ [][Next]_vars

-----------------------------------------------------------------------------
(***************************************************************************)
(* Safety.                                                                 *)
(***************************************************************************)

\* "Cannot uninstall active plugin; deactivate first": an active plugin is in
\* the registry, without which it could never be deactivated again.  True of
\* a loader that one task uses.
ActiveIsInstalled == activated \subseteq Installed

\* What activate_all() and deactivate_all() of a lone task leave.  The first:
\* on return every installed plugin active; on an error the plugin that failed
\* inactive and those installed before it active.  The second: on return
\* nothing active; one that raises may leave plugins active.
AllOutcomes ==
    \A t \in Tasks :
        /\ call[t] = "activate_all" /\ doing[t] = "idle" => activated = Installed
        /\ call[t] = "activate_all" /\ doing[t] = "raised" =>
              \E n \in 1..Len(installed) :
                 /\ installed[n] \notin activated
                 /\ \A m \in 1..(n - 1) : installed[m] \in activated
        /\ call[t] = "deactivate_all" /\ doing[t] = "idle" => activated = {}

\* A plugin is in its activate() only when it is installed and not active,
\* and in its deactivate() only when it is active: no call reaches a plugin
\* in a state its contract does not allow.  True of a loader one task uses.
CallsMatchState ==
    \A t \in Tasks :
        /\ doing[t] = "activating" => on[t] \in Installed \ activated
        /\ doing[t] = "deactivating" => on[t] \in activated

\* The invariant of a loader that one task uses: it is well typed, what is
\* active is installed, its calls match the state of the plugins, and its
\* batches leave what they should.
LoaderInv == TypeOK /\ ActiveIsInstalled /\ CallsMatchState /\ AllOutcomes

(***************************************************************************)
(* What the documentation says and the code does not do.                   *)
(***************************************************************************)

\* "Deactivates all activated plugins in reverse order of activation": the
\* plugin a deactivate_all() awaits is the last activated of the active ones.
DeactivatedInReverse ==
    \A t \in Tasks :
        call[t] = "deactivate_all" /\ doing[t] = "deactivating"
        => on[t] = Last(order)
=============================================================================
