----------------------------- MODULE SessionStore -----------------------------
(***************************************************************************)
(* server/src/session_store.cc: the table of sessions that makes the       *)
(* accelerator exclusive.  Every operation of the C interface is one       *)
(* critical section of store->mutex and is one action here.                *)
(*                                                                         *)
(* Time.  The code stores last_access and always subtracts it from now;    *)
(* the model stores that difference, idle, in ticks (TicksPerSecond of     *)
(* them to the second), and Tick is the steady clock advancing.  idle is   *)
(* capped at the timeout: the code does not distinguish larger values.     *)
(*                                                                         *)
(* Ids.  A new id is 128 bits of a Mersenne twister; the model keeps the   *)
(* ids drawn so far in random and never draws one twice.                   *)
(***************************************************************************)
EXTENDS Integers, FiniteSets, Functions

CONSTANTS SessionIds,     \* the ids the generator may draw
          Models,         \* the model names a session may be opened for
          MaxSessions,    \* session_store_config_t.max_sessions
          IdleTimeout,    \* session_store_config_t.idle_timeout_seconds
          TicksPerSecond  \* resolution of the clock in the model

\* session_store_create refuses a configuration with a zero in it.
ASSUME StoreAssumption == /\ MaxSessions \in Nat \ {0}
                          /\ IdleTimeout \in Nat \ {0}
                          /\ TicksPerSecond \in Nat \ {0}

VARIABLES sessions, \* a function from the ids in the table to their entries
          random    \* the ids the generator has drawn

vars == <<sessions, random>>

TimeoutTicks == IdleTimeout * TicksPerSecond

Entry == [model_name : Models, idle : 0 .. TimeoutTicks]

-------------------------------------------------------------------------------

\* duration_cast<seconds> truncates the idle time before it is compared.
Expired(entry) == entry.idle \div TicksPerSecond >= IdleTimeout

\* The sessions a client may still use; the table may hold expired ones too.
Live == {s \in DOMAIN sessions : ~ Expired(sessions[s])}

\* Mutated: prunes one second early.
PrunedEarly ==
    Restrict(sessions, {s \in DOMAIN sessions :
                          sessions[s].idle \div TicksPerSecond + 1 < IdleTimeout})

\* The table after session_store_prune_locked.
Pruned == Restrict(sessions, Live)

\* store->sessions[id] = entry
Stored(table, id, entry) ==
    [s \in DOMAIN table \cup {id} |-> IF s = id THEN entry ELSE table[s]]

NewEntry(model) == [model_name |-> model, idle |-> 0]

-------------------------------------------------------------------------------

Init == /\ sessions = [s \in {} |-> NewEntry(s)]
        /\ random = {}

\* Mutated: compares the size of the table with > instead of >=.
OpenOffByOne(id, model) ==
    /\ Cardinality(DOMAIN Pruned) <= MaxSessions
    /\ id \in SessionIds \ random
    /\ sessions' = Stored(Pruned, id, NewEntry(model))
    /\ random' = random \cup {id}

\* Mutated: the generator is seeded anew for each id.
OpenReseeding(id, model) ==
    /\ Cardinality(DOMAIN Pruned) < MaxSessions
    /\ id \in SessionIds \ DOMAIN Pruned
    /\ sessions' = Stored(Pruned, id, NewEntry(model))
    /\ UNCHANGED random

\* session_store_open returning 0
Open(id, model) ==
    /\ Cardinality(DOMAIN Pruned) < MaxSessions
    /\ id \in SessionIds \ random
    /\ id \notin DOMAIN Pruned
    /\ sessions' = Stored(Pruned, id, NewEntry(model))
    /\ random' = random \cup {id}

\* Mutated: refuses before it prunes.
OpenRefusedUnpruned ==
    /\ Cardinality(DOMAIN sessions) >= MaxSessions
    /\ UNCHANGED vars

\* session_store_open returning -2: the table is full of live sessions
OpenRefused ==
    /\ Cardinality(DOMAIN Pruned) >= MaxSessions
    /\ sessions' = Pruned
    /\ UNCHANGED random

\* Mutated: finds the session without pruning first.
ValidateUnpruned(id, model) ==
    /\ id \in DOMAIN sessions
    /\ model = sessions[id].model_name
    /\ sessions' = Stored(sessions, id, NewEntry(model))
    /\ UNCHANGED random

\* session_store_validate returning 0, with the model the session was opened for
Validate(id, model) ==
    /\ id \in DOMAIN Pruned
    /\ model = Pruned[id].model_name
    /\ sessions' = Stored(Pruned, id, NewEntry(model))
    /\ UNCHANGED random

\* session_store_validate returning -2
ValidateRefused(id) ==
    /\ id \notin DOMAIN Pruned
    /\ sessions' = Pruned
    /\ UNCHANGED random

\* Mutated: marks the entry as expired for the next prune to erase.
CloseMarking(id) ==
    /\ id \in DOMAIN sessions
    /\ sessions' = [sessions EXCEPT ![id].idle = TimeoutTicks]
    /\ UNCHANGED random

\* session_store_close returning 0: it erases without pruning first
Close(id) ==
    /\ id \in DOMAIN sessions
    /\ sessions' = Restrict(sessions, DOMAIN sessions \ {id})
    /\ UNCHANGED random

\* session_store_close returning -2
CloseRefused(id) ==
    /\ id \notin DOMAIN sessions
    /\ UNCHANGED vars

\* Mutated: counting refreshes last_access.
CountRefreshing(n) ==
    /\ n = Cardinality(DOMAIN Pruned)
    /\ sessions' = [s \in DOMAIN Pruned |-> NewEntry(Pruned[s].model_name)]
    /\ UNCHANGED random

\* session_store_count returning n
Count(n) ==
    /\ n = Cardinality(DOMAIN Pruned)
    /\ sessions' = Pruned
    /\ UNCHANGED random

\* The steady clock advances by one tick.
Tick ==
    /\ sessions' = [s \in DOMAIN sessions |->
                      [sessions[s] EXCEPT !.idle = IF @ < TimeoutTicks THEN @ + 1 ELSE @]]
    /\ UNCHANGED random

Operation == \/ \E id \in SessionIds, model \in Models : Open(id, model)
             \/ OpenRefused
             \/ \E id \in SessionIds, model \in Models : Validate(id, model)
             \/ \E id \in SessionIds : ValidateRefused(id)
             \/ \E id \in SessionIds : Close(id)
             \/ \E id \in SessionIds : CloseRefused(id)
             \/ \E n \in 0 .. MaxSessions : Count(n)

Next == Operation \/ Tick

Spec == Init /\ [][Next]_vars

\* Time passes whatever the clients do; they need not do anything.
FairSpec == Spec /\ WF_vars(Tick)

-------------------------------------------------------------------------------

TypeOK == /\ DOMAIN sessions \subseteq random
          /\ sessions \in [DOMAIN sessions -> Entry]
          /\ random \subseteq SessionIds

\* The table never holds more sessions than max_sessions: open compares the
\* size of the pruned table, and nothing else adds an entry.
CapacityRespected == Cardinality(DOMAIN sessions) <= MaxSessions

\* A session that has been closed or has expired stays dead, however long its
\* entry lingers in the table before an operation prunes it: no validate, open
\* or close of anyone brings it back.
NoResurrection == [][\A s \in random : s \in Live' => s \in Live]_vars

\* A live session is taken away only by its own close or by the clock: opening,
\* validating or counting on behalf of others never evicts it.
OnlyCloseOrTimeEnds ==
    [][\A s \in Live : s \in Live' \/ Close(s) \/ Tick]_vars

\* A session nobody uses any more is eventually dead, so that a client that
\* went away does not keep the accelerator; the counts that Health and the
\* discovery service take do not keep it alive.
IdleSessionReclaimed ==
    \A s \in SessionIds :
        \/ []<><<\E model \in Models : Validate(s, model)>>_vars
        \/ [](s \in Live => <>(s \notin Live))

\* The store implements the lease service; the entries that have expired but
\* are not yet pruned are no leases any more.
Lease == INSTANCE ExclusiveLease
           WITH Ids <- SessionIds, Capacity <- MaxSessions, Term <- TimeoutTicks,
                age <- [s \in Live |-> sessions[s].idle], granted <- random

ImplementsLease == Lease!Spec
===============================================================================
