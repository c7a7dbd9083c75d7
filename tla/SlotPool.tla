------------------------------- MODULE SlotPool -------------------------------
(***************************************************************************)
(* What the connection limit of the WebSocket endpoint promises: a slot is *)
(* taken by one client at a time, by at most MaxConnections clients, and   *)
(* each client gives back the slot it took, once.                          *)
(***************************************************************************)
EXTENDS Naturals, FiniteSets

CONSTANTS Clients, MaxConnections

VARIABLE holders   \* the clients that hold a slot

Init == holders = {}

Acquire(c) ==
  /\ c \notin holders
  /\ Cardinality(holders) < MaxConnections
  /\ holders' = holders \cup {c}

Release(c) ==
  /\ c \in holders
  /\ holders' = holders \ {c}

Next == \E c \in Clients : Acquire(c) \/ Release(c)

Spec == Init /\ [][Next]_holders
===============================================================================
