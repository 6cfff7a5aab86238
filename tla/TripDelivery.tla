----------------------------- MODULE TripDelivery -----------------------------
(***************************************************************************)
(* What the consumer group promises, without consumers: messages are       *)
(* appended to the partitions of a topic, trips that were published reach  *)
(* the table in any order and any number of times, and an offset is        *)
(* acknowledged only when everything before it is in the table.            *)
(***************************************************************************)
EXTENDS Naturals, Sequences

CONSTANTS Partitions, Trips, Junk

VARIABLES log, committed, stored

vars == <<log, committed, stored>>

Published == {t \in Trips : \E p \in Partitions : \E i \in DOMAIN log[p] : log[p][i] = t}

Init ==
  /\ log = [p \in Partitions |-> <<>>]
  /\ committed = [p \in Partitions |-> 0]
  /\ stored = {}

Publish ==
  /\ \E p \in Partitions, m \in Trips \cup {Junk} :
       log' = [log EXCEPT ![p] = Append(@, m)]
  /\ UNCHANGED <<committed, stored>>

Store ==
  /\ \E S \in SUBSET Published : stored' = stored \cup S
  /\ UNCHANGED <<log, committed>>

\* Offsets only move forward, and only over messages that are in the table
\* or that nobody can decode.
Acknowledge ==
  /\ committed' \in [Partitions -> Nat]
  /\ \A p \in Partitions :
       /\ committed[p] <= committed'[p]
       /\ committed'[p] <= Len(log[p])
       /\ \A i \in 1 .. committed'[p] : log[p][i] \in stored \cup {Junk}
  /\ UNCHANGED <<log, stored>>

Next == Publish \/ Store \/ Acknowledge

Spec == Init /\ [][Next]_vars
=============================================================================
