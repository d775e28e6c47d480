---------------------------- MODULE FlightSlots ----------------------------
(***************************************************************************)
(* What the counting semaphore of the muse bridge promises                 *)
(* (internal/proxy/proxy.go, Handler.sem, a channel of capacity            *)
(* maxFlights): at any time at most MaxFlights requests are between their  *)
(* admission and the release of their slot, and nobody leaves twice.       *)
(***************************************************************************)
EXTENDS Integers, FiniteSets

CONSTANTS
  Requests,     \* the goroutines that serve requests
  MaxFlights    \* capacity of the channel

VARIABLE inside   \* the requests that hold a slot

Init == inside = {}

Enter(r) ==
  /\ r \notin inside
  /\ Cardinality(inside) < MaxFlights
  /\ inside' = inside \cup {r}

Leave(r) ==
  /\ r \in inside
  /\ inside' = inside \ {r}

Next == \E r \in Requests : Enter(r) \/ Leave(r)

Spec == Init /\ [][Next]_inside
=============================================================================
