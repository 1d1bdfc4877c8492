--------------------------- MODULE SessionStoreProofs ---------------------------
(***************************************************************************)
(* Proofs about SessionStore, for every set of ids and models and every    *)
(* capacity, timeout and clock resolution.                                 *)
(***************************************************************************)
EXTENDS SessionStore, FiniteSetTheorems, TLAPS

\* The inductive invariant: the table is well-typed, finite (Cardinality says
\* nothing of an infinite set) and within its capacity.
SafeStore == /\ TypeOK
             /\ IsFiniteSet(DOMAIN sessions)
             /\ CapacityRespected

-------------------------------------------------------------------------------

\* Truncating division against a bound: floor(a / b) >= c exactly when a >= c * b.
LEMMA TruncationAgainstBound ==
    ASSUME NEW a \in Nat, NEW b \in Nat \ {0}, NEW c \in Nat
    PROVE  a \div b >= c <=> a >= c * b
<1>1. PICK q \in Nat : q = a \div b
      OBVIOUS
<1>2. PICK r \in 0 .. b - 1 : a = b * q + r
      BY <1>1
<1>3. CASE q >= c
  <2>1. b * q >= c * b
        BY <1>3
  <2> QED BY <2>1, <1>1, <1>2, <1>3
<1>4. CASE q < c
  <2>1. b * (q + 1) <= c * b
        BY <1>4
  <2>2. b * (q + 1) = b * q + b
        OBVIOUS
  <2> QED BY <2>1, <2>2, <1>1, <1>2, <1>4
<1> QED BY <1>3, <1>4

\* Truncating the idle time to whole seconds does not delay expiry: an entry
\* expires exactly when idle reaches the timeout in ticks.
LEMMA ExpiredAtTimeout ==
    ASSUME NEW entry \in Entry
    PROVE  Expired(entry) <=> entry.idle >= TimeoutTicks
BY TruncationAgainstBound, StoreAssumption DEF Expired, Entry, TimeoutTicks

-------------------------------------------------------------------------------

\* The pruned table holds exactly the live sessions, with their entries.
LEMMA PrunedTable ==
    /\ DOMAIN Pruned = Live
    /\ Live \subseteq DOMAIN sessions
    /\ \A s \in Live : Pruned[s] = sessions[s]
BY DEF Pruned, Live, Restrict

LEMMA PrunedTyped == TypeOK => Pruned \in [Live -> Entry]
BY DEF Pruned, Live, Restrict, TypeOK

\* Storing an entry keeps a table well-typed.
LEMMA StoredTable ==
    ASSUME NEW table, table \in [DOMAIN table -> Entry], NEW id, NEW model \in Models
    PROVE  LET new == Stored(table, id, NewEntry(model))
           IN  /\ DOMAIN new = DOMAIN table \cup {id}
               /\ new \in [DOMAIN new -> Entry]
               /\ \A s \in DOMAIN table : s # id => new[s] = table[s]
               /\ new[id] = NewEntry(model)
<1>1. NewEntry(model) \in Entry
      BY StoreAssumption DEF NewEntry, Entry, TimeoutTicks
<1> QED BY <1>1 DEF Stored

LEMMA InitSafe == Init => SafeStore
<1> SUFFICES ASSUME Init PROVE SafeStore
    OBVIOUS
<1>1. DOMAIN sessions = {} /\ sessions \in [{} -> Entry]
      BY DEF Init
<1>2. IsFiniteSet(DOMAIN sessions) /\ Cardinality(DOMAIN sessions) = 0
      BY <1>1, FS_EmptySet
<1> QED BY <1>1, <1>2, StoreAssumption DEF Init, SafeStore, TypeOK, CapacityRespected

\* A step that only prunes, whatever it answers, keeps the table safe.
LEMMA PruneSafe ==
    ASSUME SafeStore, sessions' = Pruned, UNCHANGED random
    PROVE  SafeStore'
<1>1. TypeOK'
  <2>1. sessions' \in [Live -> Entry]
        BY PrunedTyped DEF SafeStore
  <2> QED BY <2>1, PrunedTable DEF SafeStore, TypeOK
<1>2. IsFiniteSet(DOMAIN sessions') /\ Cardinality(DOMAIN sessions') <= MaxSessions
  <2>1. /\ IsFiniteSet(Live)
        /\ Cardinality(Live) <= Cardinality(DOMAIN sessions)
        BY PrunedTable, FS_Subset DEF SafeStore
  <2>2. Cardinality(Live) \in Nat /\ Cardinality(DOMAIN sessions) \in Nat
        BY <2>1, FS_CardinalityType DEF SafeStore
  <2> QED BY <2>1, <2>2, PrunedTable, StoreAssumption DEF SafeStore, CapacityRespected
<1> QED BY <1>1, <1>2 DEF SafeStore, CapacityRespected

LEMMA NextSafe == SafeStore /\ [Next]_vars => SafeStore'
<1> SUFFICES ASSUME SafeStore, [Next]_vars PROVE SafeStore'
    OBVIOUS
<1>1. /\ IsFiniteSet(Live) /\ Cardinality(Live) \in Nat
      /\ Cardinality(DOMAIN sessions) \in Nat
      BY PrunedTable, FS_Subset, FS_CardinalityType DEF SafeStore
<1>2. ASSUME NEW id \in SessionIds, NEW model \in Models, Open(id, model)
      PROVE  SafeStore'
  <2>1. /\ DOMAIN sessions' = Live \cup {id}
        /\ sessions' \in [DOMAIN sessions' -> Entry]
    <3>1. Pruned \in [DOMAIN Pruned -> Entry]
          BY PrunedTyped, PrunedTable DEF SafeStore
    <3> QED BY <1>2, <3>1, PrunedTable, StoredTable DEF Open
  <2>2. TypeOK'
        BY <1>2, <2>1, PrunedTable DEF Open, SafeStore, TypeOK
  <2>3. /\ IsFiniteSet(DOMAIN sessions')
        /\ Cardinality(DOMAIN sessions') = Cardinality(Live) + 1
        BY <1>1, <1>2, <2>1, PrunedTable, FS_AddElement DEF Open
  <2>4. Cardinality(DOMAIN sessions') <= MaxSessions
        BY <1>1, <1>2, <2>3, PrunedTable, StoreAssumption DEF Open
  <2> QED BY <2>2, <2>3, <2>4 DEF SafeStore, CapacityRespected
<1>3. ASSUME NEW id \in SessionIds, NEW model \in Models, Validate(id, model)
      PROVE  SafeStore'
  <2>1. /\ DOMAIN sessions' = Live
        /\ sessions' \in [DOMAIN sessions' -> Entry]
    <3>1. Pruned \in [DOMAIN Pruned -> Entry]
          BY PrunedTyped, PrunedTable DEF SafeStore
    <3>2. id \in Live /\ Live \cup {id} = Live
          BY <1>3, PrunedTable DEF Validate
    <3>3. sessions' = Stored(Pruned, id, NewEntry(model))
          BY <1>3 DEF Validate
    <3> QED BY <3>1, <3>2, <3>3, PrunedTable, StoredTable
  <2>2. TypeOK'
        BY <1>3, <2>1, PrunedTable DEF Validate, SafeStore, TypeOK
  <2>3. Cardinality(Live) <= MaxSessions
        BY <1>1, PrunedTable, FS_Subset, StoreAssumption DEF SafeStore, CapacityRespected
  <2> QED BY <1>1, <2>1, <2>2, <2>3 DEF SafeStore, CapacityRespected
<1>4. ASSUME NEW id \in SessionIds, Close(id)
      PROVE  SafeStore'
  <2>1. /\ DOMAIN sessions' = DOMAIN sessions \ {id}
        /\ \A s \in DOMAIN sessions' : sessions'[s] = sessions[s]
        /\ sessions' = [s \in DOMAIN sessions \ {id} |-> sessions[s]]
        BY <1>4 DEF Close, Restrict
  <2>2. TypeOK'
        BY <1>4, <2>1 DEF Close, SafeStore, TypeOK
  <2>3. /\ IsFiniteSet(DOMAIN sessions')
        /\ Cardinality(DOMAIN sessions') <= Cardinality(DOMAIN sessions)
        BY <2>1, FS_Subset DEF SafeStore
  <2>4. Cardinality(DOMAIN sessions') \in Nat
        BY <2>3, FS_CardinalityType
  <2> QED BY <1>1, <2>2, <2>3, <2>4, StoreAssumption DEF SafeStore, CapacityRespected
<1>5. ASSUME Tick PROVE SafeStore'
  <2>1. DOMAIN sessions' = DOMAIN sessions /\ sessions' \in [DOMAIN sessions' -> Entry]
        BY <1>5, StoreAssumption DEF Tick, SafeStore, TypeOK, Entry, TimeoutTicks
  <2> QED BY <1>5, <2>1 DEF Tick, SafeStore, TypeOK, CapacityRespected
<1>6. CASE OpenRefused
      BY <1>6, PruneSafe DEF OpenRefused
<1>7. ASSUME NEW id \in SessionIds, ValidateRefused(id) PROVE SafeStore'
      BY <1>7, PruneSafe DEF ValidateRefused
<1>8. ASSUME NEW n, Count(n) PROVE SafeStore'
      BY <1>8, PruneSafe DEF Count
<1>9. CASE UNCHANGED vars
      BY <1>9 DEF vars, SafeStore, TypeOK, CapacityRespected
<1> QED BY <1>2, <1>3, <1>4, <1>5, <1>6, <1>7, <1>8, <1>9
        DEF Next, Operation, CloseRefused

\* The store is always well-typed and within its capacity.
THEOREM StoreSafe == Spec => []SafeStore
BY InitSafe, NextSafe, PTL DEF Spec

\* Every entry of the table belongs to an id that was drawn, and its idle time
\* stays within the timeout.
THEOREM StoreTyping == Spec => []TypeOK
BY StoreSafe, PTL DEF SafeStore

\* max_sessions bounds the table in every reachable state.
THEOREM StoreCapacity == Spec => []CapacityRespected
BY StoreSafe, PTL DEF SafeStore

-------------------------------------------------------------------------------

\* In a well-typed store the live sessions are those whose idle time is short
\* of the timeout.
LEMMA LiveIdle ==
    TypeOK => Live = {s \in DOMAIN sessions : sessions[s].idle < TimeoutTicks}
<1> SUFFICES ASSUME TypeOK
             PROVE  Live = {s \in DOMAIN sessions : sessions[s].idle < TimeoutTicks}
    OBVIOUS
<1>1. ASSUME NEW s \in DOMAIN sessions
      PROVE  Expired(sessions[s]) <=> ~ (sessions[s].idle < TimeoutTicks)
  <2>1. sessions[s] \in Entry
        BY DEF TypeOK
  <2>2. sessions[s].idle \in Int /\ TimeoutTicks \in Int
        BY <2>1, StoreAssumption DEF Entry, TimeoutTicks
  <2> QED BY <2>1, <2>2, ExpiredAtTimeout
<1> QED BY <1>1 DEF Live

LEMMA LiveIdleNext ==
    TypeOK' => Live' = {s \in DOMAIN sessions' : sessions'[s].idle < TimeoutTicks}
<1>1. (TypeOK => Live = {s \in DOMAIN sessions : sessions[s].idle < TimeoutTicks})'
      BY LiveIdle, PTL
<1> QED BY <1>1 DEF TimeoutTicks

LEMMA FreshEntryLives ==
    ASSUME NEW model PROVE NewEntry(model).idle = 0 /\ 0 < TimeoutTicks
BY StoreAssumption DEF NewEntry, TimeoutTicks

\* The live sessions, and how long they have been idle, after each operation.
LEMMA PruneLive ==
    ASSUME SafeStore, sessions' = Pruned, UNCHANGED random
    PROVE  /\ Live' = Live
           /\ \A s \in Live : sessions'[s] = sessions[s]
BY PrunedTable DEF Live

LEMMA OpenLive ==
    ASSUME SafeStore, SafeStore', NEW id \in SessionIds, NEW model \in Models,
           Open(id, model)
    PROVE  /\ Live' = Live \cup {id} /\ id \notin DOMAIN sessions
           /\ sessions'[id].idle = 0
           /\ \A s \in Live : sessions'[s] = sessions[s]
<1>1. id \notin random /\ id \notin DOMAIN sessions
      BY DEF Open, SafeStore, TypeOK
<1>2. Pruned \in [DOMAIN Pruned -> Entry] /\ sessions' = Stored(Pruned, id, NewEntry(model))
      BY PrunedTyped, PrunedTable DEF SafeStore, Open
<1>3. /\ DOMAIN sessions' = Live \cup {id}
      /\ sessions'[id].idle = 0
      /\ \A s \in Live : sessions'[s] = sessions[s]
  <2>1. /\ DOMAIN sessions' = DOMAIN Pruned \cup {id}
        /\ sessions'[id] = NewEntry(model)
        /\ \A s \in DOMAIN Pruned : s # id => sessions'[s] = Pruned[s]
        BY <1>2 DEF Stored
  <2> QED BY <1>1, <2>1, PrunedTable, FreshEntryLives
<1>4. /\ Live = {s \in DOMAIN sessions : sessions[s].idle < TimeoutTicks}
      /\ Live' = {s \in DOMAIN sessions' : sessions'[s].idle < TimeoutTicks}
      BY LiveIdle, LiveIdleNext DEF SafeStore
<1> QED BY <1>1, <1>3, <1>4, FreshEntryLives

LEMMA ValidateLive ==
    ASSUME SafeStore, SafeStore', NEW id \in SessionIds, NEW model \in Models,
           Validate(id, model)
    PROVE  /\ Live' = Live /\ id \in Live
           /\ sessions'[id].idle = 0
           /\ \A s \in Live \ {id} : sessions'[s] = sessions[s]
<1>1. id \in Live /\ Live \cup {id} = Live
      BY PrunedTable DEF Validate
<1>2. Pruned \in [DOMAIN Pruned -> Entry] /\ sessions' = Stored(Pruned, id, NewEntry(model))
      BY PrunedTyped, PrunedTable DEF SafeStore, Validate
<1>3. /\ DOMAIN sessions' = Live
      /\ sessions'[id].idle = 0
      /\ \A s \in Live \ {id} : sessions'[s] = sessions[s]
  <2>1. /\ DOMAIN sessions' = DOMAIN Pruned \cup {id}
        /\ sessions'[id] = NewEntry(model)
        /\ \A s \in DOMAIN Pruned : s # id => sessions'[s] = Pruned[s]
        BY <1>2 DEF Stored
  <2> QED BY <1>1, <2>1, PrunedTable, FreshEntryLives
<1>4. /\ Live = {s \in DOMAIN sessions : sessions[s].idle < TimeoutTicks}
      /\ Live' = {s \in DOMAIN sessions' : sessions'[s].idle < TimeoutTicks}
      BY LiveIdle, LiveIdleNext DEF SafeStore
<1> QED BY <1>1, <1>3, <1>4, FreshEntryLives

LEMMA CloseLive ==
    ASSUME NEW id \in SessionIds, Close(id)
    PROVE  /\ Live' = Live \ {id}
           /\ \A s \in Live \ {id} : sessions'[s] = sessions[s]
BY DEF Close, Restrict, Live, Expired

LEMMA TickLive ==
    ASSUME SafeStore, SafeStore', Tick
    PROVE  /\ Live' = {s \in Live : sessions[s].idle + 1 < TimeoutTicks}
           /\ \A s \in Live : sessions'[s].idle = sessions[s].idle + 1
<1>1. /\ Live = {s \in DOMAIN sessions : sessions[s].idle < TimeoutTicks}
      /\ Live' = {s \in DOMAIN sessions' : sessions'[s].idle < TimeoutTicks}
      BY LiveIdle, LiveIdleNext DEF SafeStore
<1>2. TimeoutTicks \in Nat /\ DOMAIN sessions' = DOMAIN sessions
      BY StoreAssumption DEF TimeoutTicks, Tick
<1>3. ASSUME NEW s \in DOMAIN sessions
      PROVE  /\ sessions[s].idle \in Nat
             /\ sessions'[s].idle = IF sessions[s].idle < TimeoutTicks
                                      THEN sessions[s].idle + 1 ELSE sessions[s].idle
  <2>1. sessions[s] \in Entry
        BY DEF SafeStore, TypeOK
  <2> QED BY <2>1 DEF Entry, Tick
<1> QED BY <1>1, <1>2, <1>3

-------------------------------------------------------------------------------

LEMMA StepNoResurrection ==
    SafeStore /\ SafeStore' /\ [Next]_vars
        => \A s \in random : s \in Live' => s \in Live
<1> SUFFICES ASSUME SafeStore, SafeStore', [Next]_vars, NEW s \in random, s \in Live'
             PROVE  s \in Live
    OBVIOUS
<1>1. ASSUME NEW id \in SessionIds, NEW model \in Models, Open(id, model)
      PROVE  s \in Live
      BY <1>1, OpenLive DEF Open
<1>2. ASSUME NEW id \in SessionIds, NEW model \in Models, Validate(id, model)
      PROVE  s \in Live
      BY <1>2, ValidateLive
<1>3. ASSUME NEW id \in SessionIds, Close(id) PROVE s \in Live
      BY <1>3, CloseLive
<1>4. CASE Tick
      BY <1>4, TickLive
<1>5. CASE OpenRefused
      BY <1>5, PruneLive DEF OpenRefused
<1>6. ASSUME NEW id \in SessionIds, ValidateRefused(id) PROVE s \in Live
      BY <1>6, PruneLive DEF ValidateRefused
<1>7. ASSUME NEW n, Count(n) PROVE s \in Live
      BY <1>7, PruneLive DEF Count
<1>8. CASE UNCHANGED vars
      BY <1>8 DEF vars, Live
<1> QED BY <1>1, <1>2, <1>3, <1>4, <1>5, <1>6, <1>7, <1>8
        DEF Next, Operation, CloseRefused

\* A closed or expired session never comes back, in every store: the statement
\* and the reason are those of NoResurrection in SessionStore.
THEOREM StoreNoResurrection == Spec => NoResurrection
<1>1. SafeStore /\ SafeStore' /\ [Next]_vars
          => [\A s \in random : s \in Live' => s \in Live]_vars
      BY StepNoResurrection
<1> QED BY <1>1, StoreSafe, PTL DEF Spec, NoResurrection

LEMMA StepKeepsLive ==
    SafeStore /\ SafeStore' /\ [Next]_vars
        => [\A s \in Live : s \in Live' \/ Close(s) \/ Tick]_vars
<1> SUFFICES ASSUME SafeStore, SafeStore', [Next]_vars, NEW s \in Live, ~ UNCHANGED vars
             PROVE  s \in Live' \/ Close(s) \/ Tick
    OBVIOUS
<1>1. ASSUME NEW id \in SessionIds, NEW model \in Models, Open(id, model)
      PROVE  s \in Live'
      BY <1>1, OpenLive
<1>2. ASSUME NEW id \in SessionIds, NEW model \in Models, Validate(id, model)
      PROVE  s \in Live'
      BY <1>2, ValidateLive
<1>3. ASSUME NEW id \in SessionIds, Close(id) PROVE s \in Live' \/ Close(s)
      BY <1>3, CloseLive
<1>4. CASE OpenRefused
      BY <1>4, PruneLive DEF OpenRefused
<1>5. ASSUME NEW id \in SessionIds, ValidateRefused(id) PROVE s \in Live'
      BY <1>5, PruneLive DEF ValidateRefused
<1>6. ASSUME NEW n, Count(n) PROVE s \in Live'
      BY <1>6, PruneLive DEF Count
<1> QED BY <1>1, <1>2, <1>3, <1>4, <1>5, <1>6
        DEF Next, Operation, CloseRefused

\* Nobody is evicted: opening, validating or counting on behalf of others takes a
\* live session away in no store.
THEOREM StoreOnlyCloseOrTimeEnds == Spec => OnlyCloseOrTimeEnds
<1>1. Spec => []SafeStore
      BY StoreSafe
<1> QED BY <1>1, StepKeepsLive, PTL DEF Spec, OnlyCloseOrTimeEnds

-------------------------------------------------------------------------------

\* What a step does to the idle time of a session that stays live: the clock adds a tick,
\* its own validate sets it back, and nothing else - a count, or the requests of others -
\* touches it.  Together with NoResurrection and OnlyCloseOrTimeEnds this leaves
\* IdleSessionReclaimed nothing to wait for but the clock.
IdleTold(s) ==
    sessions'[s].idle = IF Tick THEN sessions[s].idle + 1
                        ELSE IF \E model \in Models : Validate(s, model) THEN 0
                        ELSE sessions[s].idle

OnlyUseRenews == [][\A s \in Live : s \in Live' => IdleTold(s)]_vars

\* The steps that leave the idle time of s alone while s lives
Untouching(s) == \/ \E id \in SessionIds, model \in Models : Open(id, model)
                 \/ \E id \in SessionIds \ {s}, model \in Models : Validate(id, model)
                 \/ \E id \in SessionIds : Close(id)
                 \/ sessions' = Pruned /\ UNCHANGED random
                 \/ UNCHANGED vars

LEMMA IdleUntouched ==
    ASSUME SafeStore, SafeStore', NEW s \in Live, s \in Live', Untouching(s)
    PROVE  sessions'[s] = sessions[s]
<1>1. ASSUME NEW id \in SessionIds, NEW model \in Models, Open(id, model)
      PROVE  sessions'[s] = sessions[s]
      BY <1>1, OpenLive
<1>2. ASSUME NEW id \in SessionIds \ {s}, NEW model \in Models, Validate(id, model)
      PROVE  sessions'[s] = sessions[s]
      BY <1>2, ValidateLive
<1>3. ASSUME NEW id \in SessionIds, Close(id) PROVE sessions'[s] = sessions[s]
      BY <1>3, CloseLive
<1>4. ASSUME sessions' = Pruned, UNCHANGED random PROVE sessions'[s] = sessions[s]
      BY <1>4, PruneLive
<1> QED BY <1>1, <1>2, <1>3, <1>4 DEF Untouching, vars

LEMMA StepTellsIdle ==
    SafeStore /\ SafeStore' /\ [Next]_vars
        => [\A s \in Live : s \in Live' => IdleTold(s)]_vars
<1> SUFFICES ASSUME SafeStore, SafeStore', [Next]_vars, NEW s \in Live, s \in Live',
                    ~ UNCHANGED vars
             PROVE  IdleTold(s)
    OBVIOUS
<1>1. ASSUME NEW model \in Models, Validate(s, model) PROVE sessions'[s].idle = 0
  <2>1. s \in SessionIds
        BY PrunedTable DEF SafeStore, TypeOK
  <2> QED BY <1>1, <2>1, ValidateLive
<1>2. Tick => sessions'[s].idle = sessions[s].idle + 1
      BY TickLive
<1>3. ~ Tick /\ (~ \E model \in Models : Validate(s, model)) => Untouching(s)
      BY DEF Next, Operation, OpenRefused, ValidateRefused, CloseRefused, Count, Untouching
<1>4. Untouching(s) => sessions'[s] = sessions[s]
      BY IdleUntouched
<1> QED BY <1>1, <1>2, <1>3, <1>4 DEF IdleTold

\* A live session is kept alive by its own requests and by nothing else.
THEOREM StoreOnlyUseRenews == Spec => OnlyUseRenews
<1>1. Spec => []SafeStore
      BY StoreSafe
<1> QED BY <1>1, StepTellsIdle, PTL DEF Spec, OnlyUseRenews

-------------------------------------------------------------------------------

LEMMA LeaseInit == Init => Lease!Init
BY DEF Init, Live, Lease!Init

LEMMA LeaseStep == SafeStore /\ SafeStore' /\ [Next]_vars => [Lease!Next]_Lease!lease_vars
<1> SUFFICES ASSUME SafeStore, SafeStore', [Next]_vars
             PROVE  [Lease!Next]_Lease!lease_vars
    OBVIOUS
<1> DEFINE age == [s \in Live |-> sessions[s].idle]
<1>0. DOMAIN age = Live /\ Lease!Held = Live
      BY DEF Lease!Held
<1>1. ASSUME NEW id \in SessionIds, NEW model \in Models, Open(id, model)
      PROVE  Lease!Grant(id)
  <2>1. id \in SessionIds \ random /\ random' = random \cup {id}
        BY <1>1 DEF Open
  <2>2. Cardinality(Live) < MaxSessions
        BY <1>1, PrunedTable DEF Open
  <2>3. age' = [i \in Live \cup {id} |-> IF i = id THEN 0 ELSE age[i]]
        BY <1>1, OpenLive
  <2>4. Lease!Cardinality(Live) = Cardinality(Live)
        BY DEF Cardinality, Lease!Cardinality
  <2> QED BY <1>0, <2>1, <2>2, <2>3, <2>4 DEF Lease!Grant
<1>2. ASSUME NEW id \in SessionIds, NEW model \in Models, Validate(id, model)
      PROVE  Lease!Renew(id)
  <2>1. id \in Live /\ age' = [age EXCEPT ![id] = 0]
        BY <1>2, ValidateLive
  <2> QED BY <1>0, <1>2, <2>1 DEF Lease!Renew, Validate
<1>3. ASSUME NEW id \in SessionIds, Close(id)
      PROVE  [Lease!Next]_Lease!lease_vars
  <2>1. age' = [i \in Live \ {id} |-> age[i]] /\ UNCHANGED random
        BY <1>3, CloseLive DEF Close
  <2>2. CASE id \in Live
        BY <1>0, <2>1, <2>2 DEF Lease!Next, Lease!Release
  <2>3. CASE id \notin Live
    <3>1. Live \ {id} = Live
          BY <2>3
    <3> QED BY <2>1, <3>1 DEF Lease!lease_vars
  <2> QED BY <2>2, <2>3
<1>4. CASE Tick
  <2>1. age' = [i \in {h \in Live : age[h] + 1 < TimeoutTicks} |-> age[i] + 1]
        BY <1>4, TickLive
  <2> QED BY <1>0, <1>4, <2>1 DEF Lease!Next, Lease!Elapse, Tick
<1>5. ASSUME sessions' = Pruned, UNCHANGED random
      PROVE  UNCHANGED Lease!lease_vars
      BY <1>5, PruneLive DEF Lease!lease_vars
<1>6. CASE UNCHANGED vars
      BY <1>6 DEF vars, Live, Lease!lease_vars
<1> QED BY <1>1, <1>2, <1>3, <1>4, <1>5, <1>6
        DEF Next, Operation, OpenRefused, ValidateRefused, CloseRefused, Count, Lease!Next

\* The store implements the lease service, whatever its size and timeout:
\* lazy pruning, the truncated clock and expired entries are invisible.
THEOREM StoreImplementsLease == Spec => ImplementsLease
<1>1. Spec => [][Lease!Next]_Lease!lease_vars
      BY LeaseStep, StoreSafe, PTL DEF Spec
<1> QED BY <1>1, LeaseInit, PTL DEF Spec, ImplementsLease, Lease!Spec
===============================================================================
