------------------------ MODULE CapabilityRegistry ------------------------
(***************************************************************************)
(* eaip.capabilities.registry.CapabilityRegistry: a Registry of frozen     *)
(* Capability records.  It offers neither observe() nor clear(), and sets  *)
(* the status of a capability in two steps: it reads the record, and then  *)
(* registers a changed copy with replace=True, without a lock around both. *)
(*                                                                         *)
(* The behaviours are those of a registry that is used directly and those  *)
(* of one that is wrapped, so that one run of TLC takes both.              *)
(***************************************************************************)
EXTENDS Registry

CONSTANTS
    Titles,     \* the descriptive part of a record
    Statuses,
    NoCall      \* of a thread that is not in set_status(), or wrote nothing so

\* set_status() between its two steps: what it has read, what it is to write,
\* and how many changes had been made when it read.
Calls == [key : Keys, was : Values, status : Statuses, seen : Nat]

ASSUME CapabilityAssumption ==
    /\ Values = [title : Titles, status : Statuses]
    /\ NoCall \notin Calls

VARIABLES
    wrapped,    \* whether the registry is the _inner of a CapabilityRegistry
    pending,    \* what each thread in set_status() has read and is to write
    basis       \* history: for each change the pending call it completed

capVars == <<vars, wrapped, pending, basis>>

CapInit ==
    /\ Init
    /\ wrapped \in BOOLEAN
    /\ pending = [t \in Threads |-> NoCall]
    /\ basis = <<>>

\* The changes of the registry, none of them made by set_status().
Change(t) ==
    /\ Register(t) \/ Unregister(t) \/ (~wrapped /\ Clear(t))
    /\ basis' = Append(basis, NoCall)

Announce(t) ==
    /\ CopyObservers(t) \/ CallObserver(t) \/ Announced(t)
    /\ UNCHANGED basis

\* Registry.get() finds the record; otherwise it raises NotFoundError.
Found(k) == items[k] # NoValue

\* set_status(), enable(), disable() and deprecate() read the record; an
\* unknown name raises and changes nothing.
SetStatusReads(t) ==
    /\ wrapped
    /\ MayCall(t)
    /\ \E k \in Keys, s \in Statuses :
          /\ Found(k)
          /\ pending' = [pending EXCEPT ![t] =
                [key |-> k, was |-> items[k], status |-> s, seen |-> Len(log)]]
    /\ UNCHANGED <<vars, basis>>

\* Mutant of Updated: the new record is built from the name and the status.
UpdatedAfresh(p) == [title |-> CHOOSE x \in Titles : x # p.was.title, status |-> p.status]

\* current.model_copy(update={"status": status})
Updated(p) == [p.was EXCEPT !.status = p.status]

\* The changed copy is registered.
SetStatusWrites(t) ==
    /\ pending[t] # NoCall
    /\ MayCall(t)
    /\ LET k == pending[t].key
       IN  /\ items' = [items EXCEPT ![k] = Updated(pending[t])]
           /\ Commit(t, IF items[k] = NoValue THEN "registered" ELSE "replaced",
                     k, Updated(pending[t]))
    /\ pending' = [pending EXCEPT ![t] = NoCall]
    /\ basis' = Append(basis, pending[t])

CapNext ==
    /\ \/ \E t \in Threads :
             \/ /\ pending[t] = NoCall
                /\ \/ Change(t) /\ UNCHANGED pending
                   \/ Announce(t) /\ UNCHANGED pending
                   \/ SetStatusReads(t)
             \/ SetStatusWrites(t)
       \/ /\ ~wrapped
          /\ \E o \in Observers : Observe(o) \/ StopObserving(o)
          /\ UNCHANGED <<pending, basis>>
    /\ UNCHANGED wrapped

CapSpec == CapInit /\ [][CapNext]_capVars

-----------------------------------------------------------------------------
(***************************************************************************)
(* Safety.                                                                 *)
(***************************************************************************)

CapTypeOK ==
    /\ wrapped \in BOOLEAN
    /\ pending \in [Threads -> Calls \cup {NoCall}]
    /\ \A t \in Threads : pending[t] # NoCall => wrapped /\ pending[t].seen =< Len(log)
    /\ basis \in Seq(Calls \cup {NoCall})
    /\ Len(basis) = Len(log)

\* What set_status() has read was in the registry when it read.
ReadsTruly ==
    \A t \in Threads : pending[t] # NoCall =>
        IsAfter(pending[t].seen, pending[t].key, pending[t].was)

\* The types, the changes explaining the items, what keeps the announcements
\* apart and in order, and what the calls of set_status() have read.
CapInv == RegistryInv /\ CapTypeOK /\ ReadsTruly

\* set_status() changes the status and nothing else, brings no capability back
\* and takes back no other change, except one that was committed to the same
\* capability between its reading the record and its writing it.
OnlyOverlapLoses ==
    \A id \in DOMAIN log : basis[id] # NoCall =>
        \/ /\ log[id].event = "replaced"
           /\ \E was \in Values :
                 /\ IsAfter(id - 1, log[id].key, was)
                 /\ log[id].value = [was EXCEPT !.status = basis[id].status]
        \/ \E j \in (basis[id].seen + 1)..(id - 1) : Touches(j, log[id].key)

=============================================================================
