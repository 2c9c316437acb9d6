------------------------------ MODULE Registry ------------------------------
(***************************************************************************)
(* eaip.registry.registry.Registry: a table with observers, used by any    *)
(* number of threads.                                                      *)
(*                                                                         *)
(* A change is committed with the lock held and announced after the lock   *)
(* is given back: the list of observers is copied, and they are called one *)
(* after the other.  An observer may itself change the registry, and its   *)
(* change is then announced to all before the outer one goes on.  A        *)
(* register() or unregister() that is refused changes nothing and is left  *)
(* out, and so is an observer that raises, which is suppressed.            *)
(***************************************************************************)
EXTENDS Naturals, Sequences, SequencesExt

CONSTANTS
    Threads,    \* the threads that use the registry
    Keys,
    Values,
    Observers,  \* the callbacks that observe it, each at most once at a time
    NoValue,    \* a key that is not there
    MaxChanges, \* bound: how many changes are made
    MaxDepth    \* bound: how deep observers' changes nest

ASSUME RegistryAssumption ==
    /\ NoValue \notin Values
    /\ MaxChanges \in Nat
    /\ MaxDepth \in Nat

VARIABLES
    items,      \* self._items
    observers,  \* self._observers
    announcing, \* the announcements each thread is in, innermost last
    log,        \* history: the changes, in the order they were committed
    got,        \* history: the changes each observer was called with
    since       \* history: the first change that is due to each observer, 0
                \* while it does not observe

vars == <<items, observers, announcing, log, got, since>>

Events == {"registered", "replaced", "unregistered"}

\* clear() has an entry in the log as well, which nobody is told of.
Entries == [event : Events, key : Keys, value : Values, by : Threads, nested : BOOLEAN]
              \cup {[event |-> "cleared"]}

\* One announcement: the change, the observers still to be called with it, and
\* how far the thread has come.
Announcements == [id : Nat, todo : Seq(Observers), at : {"committed", "copied", "calling"}]

TypeOK ==
    /\ items \in [Keys -> Values \cup {NoValue}]
    /\ observers \in Seq(Observers) /\ IsInjective(observers)
    /\ log \in Seq(Entries)
    /\ announcing \in [Threads -> Seq(Announcements)]
    /\ \A t \in Threads : \A i \in DOMAIN announcing[t] :
          /\ announcing[t][i].id \in DOMAIN log
          /\ log[announcing[t][i].id].event \in Events
          /\ IsInjective(announcing[t][i].todo)
          /\ announcing[t][i].at = "committed" => announcing[t][i].todo = <<>>
    /\ got \in [Observers -> Seq(DOMAIN log)]
    /\ \A o \in Observers : \A i \in DOMAIN got[o] : log[got[o][i]].event \in Events
    /\ since \in [Observers -> 0..(Len(log) + 1)]
    /\ \A o \in Observers : since[o] > 0 <=> o \in ToSet(observers)

Init ==
    /\ items = [k \in Keys |-> NoValue]
    /\ observers = <<>>
    /\ announcing = [t \in Threads |-> <<>>]
    /\ log = <<>>
    /\ got = [o \in Observers |-> <<>>]
    /\ since = [o \in Observers |-> 0]

-----------------------------------------------------------------------------
Announcing(t) == announcing[t] # <<>>

\* The thread is inside an observer it calls.
InObserver(t) == Announcing(t) /\ Last(announcing[t]).at = "calling"

\* Mutant of MayCall: the announcement is left to be made later.
MayCallAlways(t) == Len(log) < MaxChanges /\ Len(announcing[t]) < MaxDepth

\* A thread calls the registry from outside or from an observer.
MayCall(t) ==
    /\ ~Announcing(t) \/ InObserver(t)
    /\ Len(log) < MaxChanges
    /\ Len(announcing[t]) < MaxDepth

\* The change is committed, and to be announced once the lock is given back.
Commit(t, event, k, v) ==
    /\ log' = Append(log, [event |-> event, key |-> k, value |-> v,
                           by |-> t, nested |-> InObserver(t)])
    /\ announcing' = [announcing EXCEPT ![t] =
                         Append(@, [id |-> Len(log) + 1, todo |-> <<>>,
                                    at |-> "committed"])]
    /\ UNCHANGED <<observers, got, since>>

\* Mutant of Register: whether the key was there is not looked at.
RegisterOnly(t) ==
    /\ MayCall(t)
    /\ \E k \in Keys, v \in Values :
          /\ items' = [items EXCEPT ![k] = v]
          /\ Commit(t, "registered", k, v)

\* register(): of a new key, or of any key with replace=True.
Register(t) ==
    /\ MayCall(t)
    /\ \E k \in Keys, v \in Values :
          /\ items' = [items EXCEPT ![k] = v]
          /\ Commit(t, IF items[k] = NoValue THEN "registered" ELSE "replaced", k, v)

\* unregister() of a key that is there; it announces the value it removed.
Unregister(t) ==
    /\ MayCall(t)
    /\ \E k \in Keys :
          /\ items[k] # NoValue
          /\ items' = [items EXCEPT ![k] = NoValue]
          /\ Commit(t, "unregistered", k, items[k])

\* clear(): nothing is announced.
Clear(t) ==
    /\ MayCall(t)
    /\ items' = [k \in Keys |-> NoValue]
    /\ log' = Append(log, [event |-> "cleared"])
    /\ UNCHANGED <<observers, announcing, got, since>>

\* observe().
Observe(o) ==
    /\ o \notin ToSet(observers)
    /\ observers' = Append(observers, o)
    /\ since' = [since EXCEPT ![o] = Len(log) + 1]
    /\ UNCHANGED <<items, announcing, log, got>>

\* Mutant of StopObserving: announcements walk the list itself, not a copy,
\* so that they pass over one observer when an earlier one is removed.
StopObservingLive(o) ==
    /\ o \in ToSet(observers)
    /\ observers' = RemoveFirst(observers, o)
    /\ since' = [since EXCEPT ![o] = 0]
    /\ announcing' =
          [t \in Threads |-> [i \in DOMAIN announcing[t] |->
              [announcing[t][i] EXCEPT !.todo =
                  IF @ # <<>> /\ o \notin ToSet(@) THEN Tail(@) ELSE RemoveFirst(@, o)]]]
    /\ UNCHANGED <<items, log, got>>

\* The function observe() returned is called.
StopObserving(o) ==
    /\ o \in ToSet(observers)
    /\ observers' = RemoveFirst(observers, o)
    /\ since' = [since EXCEPT ![o] = 0]
    /\ UNCHANGED <<items, announcing, log, got>>

\* The innermost announcement of t becomes a.
Becomes(t, a) == announcing' = [announcing EXCEPT ![t][Len(announcing[t])] = a]

\* "list(self._observers)", without the lock.
CopyObservers(t) ==
    /\ Announcing(t)
    /\ Last(announcing[t]).at = "committed"
    /\ Becomes(t, [Last(announcing[t]) EXCEPT !.todo = observers, !.at = "copied"])
    /\ UNCHANGED <<items, observers, log, got, since>>

\* The next observer is called with the change.
CallObserver(t) ==
    /\ Announcing(t)
    /\ Last(announcing[t]).todo # <<>>
    /\ LET a == Last(announcing[t])
           o == Head(a.todo)
       IN  /\ got' = [got EXCEPT ![o] = Append(@, a.id)]
           /\ Becomes(t, [a EXCEPT !.todo = Tail(@), !.at = "calling"])
    /\ UNCHANGED <<items, observers, log, since>>

\* The last observer has returned, and so does the call that made the change.
Announced(t) ==
    /\ Announcing(t)
    /\ Last(announcing[t]).at # "committed"
    /\ Last(announcing[t]).todo = <<>>
    /\ announcing' = [announcing EXCEPT ![t] = Front(@)]
    /\ UNCHANGED <<items, observers, log, got, since>>

Next ==
    \/ \E t \in Threads :
          \/ Register(t) \/ Unregister(t) \/ Clear(t)
          \/ CopyObservers(t) \/ CallObserver(t) \/ Announced(t)
    \/ \E o \in Observers : Observe(o) \/ StopObserving(o)

Spec == Init /\ [][Next]_vars

-----------------------------------------------------------------------------
(***************************************************************************)
(* Safety.                                                                 *)
(***************************************************************************)

\* The change id touches key k: it is a change of that key, or clear().
Touches(id, k) == log[id].event = "cleared" \/ log[id].key = k

\* What a change leaves of the keys it touches.
Leaves(id) == IF log[id].event \in {"registered", "replaced"} THEN log[id].value ELSE NoValue

\* Key k is v after the first n changes: v is what the last of them to touch k
\* has left.
IsAfter(n, k, v) ==
    \/ /\ v = NoValue
       /\ \A i \in 1..n : ~Touches(i, k)
    \/ \E i \in 1..n :
          /\ Touches(i, k)
          /\ v = Leaves(i)
          /\ \A j \in (i + 1)..n : ~Touches(j, k)

\* The change id says truly what it did to its key.
SaysTruly(id) ==
    \E was \in Values \cup {NoValue} :
        /\ IsAfter(id - 1, log[id].key, was)
        /\ \/ log[id].event = "registered" /\ was = NoValue
           \/ log[id].event = "replaced" /\ was # NoValue
           \/ log[id].event = "unregistered" /\ was = log[id].value

\* The changes, in the order they were committed, explain the items: with all
\* threads at work no change of a key is announced as what it was not, and an
\* observer that had them in that order would know the items, but for clear().
LogExplainsItems ==
    /\ \A k \in Keys : IsAfter(Len(log), k, items[k])
    /\ \A id \in DOMAIN log : log[id].event \in Events => SaysTruly(id)

\* The calls of observer o with the change id.
CallsWith(o, id) == {i \in DOMAIN got[o] : got[o][i] = id}

\* Whoever observes and does not stop is told of every change exactly once,
\* though others come, go and change the registry in the midst of it.
ExactlyOnce ==
    (\A t \in Threads : ~Announcing(t)) =>
        \A o \in ToSet(observers) : \A id \in since[o]..Len(log) :
            log[id].event \in Events => \E i \in DOMAIN got[o] : CallsWith(o, id) = {i}

\* Two changes that one thread makes one after the other, not from within an
\* observer, reach every observer in that order.
OrderPerThread ==
    \A o \in Observers : \A i, j \in DOMAIN got[o] :
        LET a == log[got[o][i]]
            b == log[got[o][j]]
        IN  i < j /\ a.by = b.by /\ ~a.nested /\ ~b.nested => got[o][i] =< got[o][j]

-----------------------------------------------------------------------------
(***************************************************************************)
(* What the two statements on announcements rest on.                       *)
(***************************************************************************)

\* No change is announced twice.
AnnouncedOnce ==
    \A t, u \in Threads : \A i \in DOMAIN announcing[t], j \in DOMAIN announcing[u] :
        announcing[t][i].id = announcing[u][j].id => t = u /\ i = j

\* Observer o is still to be called with the change id, unless it stops.
Due(o, id) ==
    \E t \in Threads : \E i \in DOMAIN announcing[t] :
        /\ announcing[t][i].id = id
        /\ announcing[t][i].at = "committed" \/ o \in ToSet(announcing[t][i].todo)

\* An observer has been called once with each change since it came, or is to be.
DueOrTold ==
    \A o \in ToSet(observers) : \A id \in since[o]..Len(log) :
        log[id].event \in Events =>
            IF Due(o, id) THEN CallsWith(o, id) = {}
                          ELSE \E i \in DOMAIN got[o] : CallsWith(o, id) = {i}

\* A thread announces its own changes, and the outermost one is the only one
\* not made from within an observer.
OwnChanges ==
    \A t \in Threads : \A i \in DOMAIN announcing[t] :
        LET c == log[announcing[t][i].id]
        IN  c.by = t /\ (c.nested <=> i > 1)

\* The outermost change a thread announces is the last such change of it.
OutermostIsLast ==
    \A t \in Threads : Announcing(t) =>
        \A id \in DOMAIN log :
            log[id].event \in Events /\ log[id].by = t /\ ~log[id].nested =>
                id =< announcing[t][1].id

RegistryInv ==
    /\ TypeOK
    /\ LogExplainsItems
    /\ AnnouncedOnce /\ DueOrTold
    /\ OwnChanges /\ OutermostIsLast

=============================================================================
