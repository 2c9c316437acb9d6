----------------------------- MODULE Container -----------------------------
(***************************************************************************)
(* eaip.dependency_injection.container.Container: a container and the      *)
(* child scopes created from it, used by any number of threads.            *)
(*                                                                         *)
(* A thread may be preempted anywhere, so that every access to what the    *)
(* threads share is a step: the cycle check, the append to the resolve     *)
(* stack, taking the lock (with the look at the cached instance, which     *)
(* nothing can tell from it), storing the instance and giving the lock     *)
(* back, and the pop.  A factory resolves some keys, in order, through the *)
(* container it is given, and then returns an instance or raises.          *)
(***************************************************************************)
EXTENDS Naturals, Sequences, FiniteSets

CONSTANTS
    Threads,    \* the threads that use the containers
    Containers, \* the containers there are
    Lineage,    \* each container, its parent, the parent's parent, to the root
    Keys,       \* the types that can be bound
    Bindings,   \* what clients may register: [in, key, scope, deps] records
    NoOne       \* no container that binds a key, no owner of a lock

Scopes == {"SINGLETON", "TRANSIENT", "SCOPED"}

ASSUME ContainerAssumption ==
    /\ NoOne \notin Containers \cup Threads
    /\ Lineage \in [Containers -> Seq(Containers)]
    /\ \A c \in Containers : Lineage[c] # <<>> /\ Lineage[c][1] = c
    /\ \A b \in Bindings :
          /\ b.in \in Containers /\ b.key \in Keys /\ b.scope \in Scopes
          /\ b.deps \in Seq(Keys)

VARIABLES
    providers,  \* self._providers of each container: bindings, one for a key
    cached,     \* the bindings whose provider has an instance
    lock,       \* the thread that holds self._lock of each container
    depth,      \* how often it has taken that (reentrant) lock
    frames,     \* self._stack.frames of each container
    calls,      \* the resolve() calls each thread is in, innermost last
    stores      \* history: how often an instance of a binding was stored by
                \* a resolve() on a container

shared == <<providers, cached, lock, depth, frames, stores>>
vars   == <<shared, calls>>

(***************************************************************************)
(* A call of resolve() is at its "check" for a cycle, its "push" on the    *)
(* frames, its wait for the "lock", in its "factory" with the next         *)
(* dependency to resolve, or at the "pop" that ends it with a result.      *)
(***************************************************************************)
Places  == {"check", "push", "lock", "factory", "pop"}
Results == {"ok", "cycle", "error"}

Call == [on : Containers, key : Keys, holder : Containers,
         at : Places, next : Nat \ {0}, result : Results]

\* provider lookup along the parents: _find.  The innermost container that
\* binds the key wins.
Bound(c, k) == \E b \in providers[c] : b.key = k
Binding(c, k) == CHOOSE b \in providers[c] : b.key = k

Innermost(c, k) ==
    CHOOSE i \in 1..Len(Lineage[c]) :
        /\ Bound(Lineage[c][i], k)
        /\ \A j \in 1..(i - 1) : ~Bound(Lineage[c][j], k)

Holder(c, k) ==
    IF \E i \in 1..Len(Lineage[c]) : Bound(Lineage[c][i], k)
    THEN Lineage[c][Innermost(c, k)]
    ELSE NoOne

TypeOK ==
    /\ providers \in [Containers -> SUBSET Bindings]
    /\ \A c \in Containers : \A b, other \in providers[c] :
          b.in = c /\ (b.key = other.key => b = other)
    /\ cached \subseteq UNION {providers[c] : c \in Containers}
    /\ lock \in [Containers -> Threads \cup {NoOne}]
    /\ depth \in [Containers -> Nat]
    /\ frames \in [Containers -> Seq(Keys)]
    /\ calls \in [Threads -> Seq(Call)]
    /\ stores \in [Bindings -> [Containers -> Nat]]

Init ==
    /\ providers = [c \in Containers |-> {}]
    /\ cached = {}
    /\ lock = [c \in Containers |-> NoOne]
    /\ depth = [c \in Containers |-> 0]
    /\ frames = [c \in Containers |-> <<>>]
    /\ calls = [t \in Threads |-> <<>>]
    /\ stores = [b \in Bindings |-> [c \in Containers |-> 0]]

-----------------------------------------------------------------------------
Idle(t) == calls[t] = <<>>
Top(t)  == calls[t][Len(calls[t])]
In(t, place) == ~Idle(t) /\ Top(t).at = place

\* The innermost call of t becomes r.
Becomes(t, r) == calls' = [calls EXCEPT ![t][Len(calls[t])] = r]

\* The binding the innermost call of t builds.
Building(t) == Binding(Top(t).holder, Top(t).key)

\* A binding whose instance resolve() on c keeps: a singleton, or a scoped
\* one registered in c itself.
KeptBy(c, b) ==
    \/ b.scope = "SINGLETON"
    \/ (b.scope = "SCOPED" /\ b.in = c)

\* Mutant of Acquire: _build() without its lock.
AcquireNothing(t, c) == UNCHANGED <<lock, depth>>

Acquire(t, c) ==
    /\ lock[c] \in {NoOne, t}
    /\ lock' = [lock EXCEPT ![c] = t]
    /\ depth' = [depth EXCEPT ![c] = @ + 1]

Release(c) ==
    /\ depth' = [depth EXCEPT ![c] = @ - 1]
    /\ lock' = [lock EXCEPT ![c] = IF depth[c] = 1 THEN NoOne ELSE @]

\* register_factory() and register(), or with an instance at hand
\* register_instance(), of a key that is not bound in the container yet; the
\* lock is taken and given back in one step.  A duplicate changes nothing.
Register(t) ==
    /\ Idle(t)
    /\ \E b \in Bindings :
          /\ lock[b.in] = NoOne
          /\ ~Bound(b.in, b.key)
          /\ providers' = [providers EXCEPT ![b.in] = @ \cup {b}]
          /\ \/ cached' = cached
             \/ /\ b.scope = "SINGLETON" /\ b.deps = <<>>
                /\ cached' = cached \cup {b}
    /\ UNCHANGED <<lock, depth, frames, calls, stores>>

Entry(c, k, h) ==
    [on |-> c, key |-> k, holder |-> h, at |-> "check", next |-> 1, result |-> "ok"]

\* A client calls resolve(k) on c; an unknown key raises NotFoundError, and
\* nothing changes.
Resolve(t) ==
    /\ Idle(t)
    /\ \E c \in Containers, k \in Keys :
          /\ Holder(c, k) # NoOne
          /\ calls' = [calls EXCEPT ![t] = <<Entry(c, k, Holder(c, k))>>]
    /\ UNCHANGED shared

\* A factory is told the result r of a call: it goes on with its next
\* dependency, or unwinds if r is an error.
Told(call, r) == [call EXCEPT !.next = @ + 1, !.result = r]

\* The innermost call of t is over with result r.
Return(t, r) ==
    LET rest == SubSeq(calls[t], 1, Len(calls[t]) - 1)
        n    == Len(rest)
    IN  \/ /\ n = 0
           /\ calls' = [calls EXCEPT ![t] = rest]
        \/ /\ n > 0
           /\ calls' = [calls EXCEPT ![t] = [rest EXCEPT ![n] = Told(@, r)]]

\* "key in self._stack.frames"
InFrames(t) ==
    \E i \in 1..Len(frames[Top(t).on]) : frames[Top(t).on][i] = Top(t).key

\* Mutant of Check: a key on the frames resolves to the instance to come.
CheckReturns(t) ==
    /\ In(t, "check")
    /\ \/ /\ InFrames(t)
          /\ Return(t, "ok")
       \/ /\ ~InFrames(t)
          /\ Becomes(t, [Top(t) EXCEPT !.at = "push"])
    /\ UNCHANGED shared

\* A key on the frames raises DependencyCycleError, before the try block.
Check(t) ==
    /\ In(t, "check")
    /\ \/ /\ InFrames(t)
          /\ Return(t, "cycle")
       \/ /\ ~InFrames(t)
          /\ Becomes(t, [Top(t) EXCEPT !.at = "push"])
    /\ UNCHANGED shared

Push(t) ==
    /\ In(t, "push")
    /\ frames' = [frames EXCEPT ![Top(t).on] = Append(@, Top(t).key)]
    /\ Becomes(t, [Top(t) EXCEPT !.at = "lock"])
    /\ UNCHANGED <<providers, cached, lock, depth, stores>>

\* _build: the lock of the container resolve() was called on, not of the one
\* that holds the provider.  A cached instance is returned, and the lock given
\* back, at once; otherwise the factory is called.
Lock(t) ==
    /\ In(t, "lock")
    /\ lock[Top(t).on] \in {NoOne, t}
    /\ \/ /\ Building(t) \in cached
          /\ KeptBy(Top(t).on, Building(t))
          /\ Becomes(t, [Top(t) EXCEPT !.at = "pop"])
          /\ UNCHANGED <<lock, depth>>
       \/ /\ ~(Building(t) \in cached /\ KeptBy(Top(t).on, Building(t)))
          /\ Becomes(t, [Top(t) EXCEPT !.at = "factory"])
          /\ Acquire(t, Top(t).on)
    /\ UNCHANGED <<providers, cached, frames, stores>>

\* The factory resolves its next dependency through the container it is given.
ResolveNext(t) ==
    /\ In(t, "factory")
    /\ Top(t).result = "ok"
    /\ Top(t).next =< Len(Building(t).deps)
    /\ LET k == Building(t).deps[Top(t).next]
           h == Holder(Top(t).on, k)
       IN  \/ /\ h = NoOne
              /\ Becomes(t, [Top(t) EXCEPT !.result = "error"])
           \/ /\ h # NoOne
              /\ calls' = [calls EXCEPT ![t] = Append(@, Entry(Top(t).on, k, h))]
    /\ UNCHANGED <<shared>>

\* The factory returns: the instance is stored if the scope says so, and the
\* lock is given back.
Built(t) ==
    /\ In(t, "factory")
    /\ Top(t).result = "ok"
    /\ Top(t).next > Len(Building(t).deps)
    /\ \/ /\ KeptBy(Top(t).on, Building(t))
          /\ cached' = cached \cup {Building(t)}
          /\ stores' = [stores EXCEPT ![Building(t)][Top(t).on] = @ + 1]
       \/ /\ ~KeptBy(Top(t).on, Building(t))
          /\ UNCHANGED <<cached, stores>>
    /\ Release(Top(t).on)
    /\ Becomes(t, [Top(t) EXCEPT !.at = "pop"])
    /\ UNCHANGED <<providers, frames>>

\* Mutant of BuildFails: acquire() and release() without "with".
FailsWithLock(t) ==
    /\ In(t, "factory")
    /\ Becomes(t, [Top(t) EXCEPT !.at = "pop",
                                 !.result = IF @ = "ok" THEN "error" ELSE @])
    /\ UNCHANGED <<shared>>

\* The factory raises, lets an error of a dependency through, or returns an
\* instance of another type than the key: nothing is stored.
BuildFails(t) ==
    /\ In(t, "factory")
    /\ Release(Top(t).on)
    /\ Becomes(t, [Top(t) EXCEPT !.at = "pop",
                                 !.result = IF @ = "ok" THEN "error" ELSE @])
    /\ UNCHANGED <<providers, cached, frames, stores>>

\* Mutant of Pop: the pop follows the build instead of being its finally.
PopAfterSuccess(t) ==
    /\ In(t, "pop")
    /\ \/ /\ Top(t).result = "ok"
          /\ frames' = [frames EXCEPT ![Top(t).on] = SubSeq(@, 1, Len(@) - 1)]
       \/ /\ Top(t).result # "ok"
          /\ UNCHANGED frames
    /\ Return(t, Top(t).result)
    /\ UNCHANGED <<providers, cached, lock, depth, stores>>

\* "finally: self._stack.frames.pop()": the last frame, whosever it is.
Pop(t) ==
    /\ In(t, "pop")
    /\ frames' = [frames EXCEPT ![Top(t).on] = SubSeq(@, 1, Len(@) - 1)]
    /\ Return(t, Top(t).result)
    /\ UNCHANGED <<providers, cached, lock, depth, stores>>

Step(t) ==
    \/ Check(t) \/ Push(t) \/ Lock(t) \/ ResolveNext(t)
    \/ Built(t) \/ BuildFails(t) \/ Pop(t)

Next == \E t \in Threads : Register(t) \/ Resolve(t) \/ Step(t)

Spec == Init /\ [][Next]_vars

\* Threads that can run do, factories end, and a lock that is given back time
\* and again is not withheld from one waiting thread for ever.
FairSpec == Spec /\ \A t \in Threads : WF_vars(Step(t)) /\ SF_vars(Lock(t))

-----------------------------------------------------------------------------
(***************************************************************************)
(* Safety.                                                                 *)
(***************************************************************************)

\* A thread resolves on one container at a time, and all its calls but the
\* innermost are in their factories, which have met no error.
Stacked(t) ==
    \A i \in 1..Len(calls[t]) :
        /\ calls[t][i].on = Top(t).on
        /\ i < Len(calls[t]) => calls[t][i].at = "factory" /\ calls[t][i].result = "ok"

\* The number of calls of t that hold the lock of that container.
Held(t) == IF In(t, "factory") \/ Idle(t) THEN Len(calls[t]) ELSE Len(calls[t]) - 1

\* The lock of c is held, once for every call in its factory, by the one thread
\* that builds with it.
Locked(c) ==
    \/ lock[c] = NoOne /\ depth[c] = 0
    \/ \E t \in Threads :
          /\ lock[c] = t /\ depth[c] = Held(t) /\ Held(t) > 0
          /\ Top(t).on = c

\* Whoever is in a factory holds the lock of the container it resolves on.
LockInv ==
    /\ \A t \in Threads : Stacked(t) /\ (Held(t) > 0 => lock[Top(t).on] = t)
    /\ \A c \in Containers : Locked(c)

\* The calls in a stack of calls whose key is on the frames of c.
FramesOf(stack, c) ==
    {i \in DOMAIN stack : stack[i].on = c /\ stack[i].at \in {"lock", "factory", "pop"}}

Pushed(c) == UNION {{<<t, i>> : i \in FramesOf(calls[t], c)} : t \in Threads}

\* However the threads interleave and however their factories fail, the shared
\* resolve stack holds as many frames as there are calls that have pushed
\* theirs: no pop meets an empty stack, and no frame is left behind to make
\* later resolutions fail.
FramesBalanced == \A c \in Containers : Len(frames[c]) = Cardinality(Pushed(c))

\* The type invariant together with these two.
ContainerInv == TypeOK /\ LockInv /\ FramesBalanced

DepsOf(b) == {b.deps[i] : i \in 1..Len(b.deps)}

\* No binding of a key in D, of any container, depends on a key outside D.
Closed(D) ==
    \A c \in Containers : \A b \in providers[c] : b.key \in D => DepsOf(b) \subseteq D

\* b does not depend on its own key, directly or not.
OffCycle(b) ==
    \E D \in SUBSET Keys : b.key \notin D /\ DepsOf(b) \subseteq D /\ Closed(D)

\* An instance of a singleton, or of a scoped binding of the container's own, is
\* stored at most once through each container, whatever the threads do.  Between
\* containers that share the binding nothing is promised by this: see
\* SingletonsShared.  Nor if the binding depends on itself: other threads may pop
\* the frames its cycle is detected with, and a thread that comes back to it
\* enters its own lock again.
OncePerContainer ==
    \A b \in Bindings, c \in Containers : OffCycle(b) => stores[b][c] =< 1

\* Whichever binding of k is found, it is one of C.
OnlyIn(C, k) ==
    \A c \in Containers : \A b \in providers[c] : b.key = k => b \in C

\* The bindings of C wait for one another: each depends on a key that no
\* binding outside C can be found for.  A cycle is such a set, with all that
\* depends on it, and so is a binding that depends on a key nobody binds.
Hopeless(C) == \A b \in C : \E k \in DepsOf(b) : OnlyIn(C, k)

\* "Cyclic resolutions raise DependencyCycleError": no instance of a binding
\* on a cycle is ever stored, although other threads may pop the frames the
\* cycle is detected with.
CyclicNeverBuilt ==
    \A C \in SUBSET UNION {providers[c] : c \in Containers} :
        Hopeless(C) => \A b \in C, c \in Containers : stores[b][c] = 0

(***************************************************************************)
(* Liveness.                                                               *)
(***************************************************************************)

\* Every resolve() ends: errors give the lock back, and cycles are detected.
ResolveEnds == \A t \in Threads : ~Idle(t) ~> Idle(t)

(***************************************************************************)
(* What the documentation says and the code does not do.                   *)
(***************************************************************************)

\* "Per-thread re-entrancy tracker used to detect cycles": while no binding
\* depends, directly or not, on itself, no resolution reports a cycle.
NoSpuriousCycle ==
    (\A c \in Containers : \A b \in providers[c] : b.deps = <<>>)
    => \A t \in Threads : ~(In(t, "check") /\ InFrames(t))

\* dependency_injection/README.md:25, create_scope() "returns a child container
\* sharing singletons with the parent": one instance, stored through one of
\* them.  The code guards the instance by the lock of the container a call came
\* in through, so that a parent and its child may both find it not built yet.
SingletonsShared ==
    \A b \in Bindings : b.scope = "SINGLETON" /\ OffCycle(b) =>
        Cardinality({c \in Containers : stores[b][c] > 0}) =< 1

=============================================================================
