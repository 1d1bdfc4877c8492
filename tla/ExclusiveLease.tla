---------------------------- MODULE ExclusiveLease ----------------------------
(***************************************************************************)
(* What the session store promises its clients, without the table, the     *)
(* lazy pruning or the truncated clock: a lease service that grants at     *)
(* most Capacity leases at a time, never grants the same id twice, and     *)
(* ends a lease the moment it has gone Term ticks without being renewed.   *)
(* SessionStore is shown to implement it.                                  *)
(***************************************************************************)
EXTENDS Naturals, FiniteSets

CONSTANTS Ids,      \* every id the service may ever grant
          Capacity, \* how many leases may be held at once
          Term      \* ticks without renewal after which a lease ends

VARIABLES age,      \* a function from the leases held to their age in ticks
          granted   \* the ids granted so far

lease_vars == <<age, granted>>

Held == DOMAIN age

Init == /\ age = [s \in {} |-> 0]
        /\ granted = {}

Grant(s) == /\ s \in Ids \ granted
            /\ Cardinality(Held) < Capacity
            /\ age' = [i \in Held \cup {s} |-> IF i = s THEN 0 ELSE age[i]]
            /\ granted' = granted \cup {s}

Renew(s) == /\ s \in Held
            /\ age' = [age EXCEPT ![s] = 0]
            /\ UNCHANGED granted

Release(s) == /\ s \in Held
              /\ age' = [i \in Held \ {s} |-> age[i]]
              /\ UNCHANGED granted

\* One tick passes; the leases that reach their term end with it.
Elapse == /\ age' = [i \in {h \in Held : age[h] + 1 < Term} |-> age[i] + 1]
          /\ UNCHANGED granted

Next == \/ Elapse
        \/ \E s \in Ids : Grant(s) \/ Renew(s) \/ Release(s)

Spec == Init /\ [][Next]_lease_vars
===============================================================================
