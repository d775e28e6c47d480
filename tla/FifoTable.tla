----------------------------- MODULE FifoTable -----------------------------
(***************************************************************************)
(* The bounded tables of signature_cache.go: a Go map and the slice that   *)
(* remembers the order in which its keys came, so that the oldest key is   *)
(* dropped when a new one finds the table full.  toolOrder/records,        *)
(* textOrder/textSigs, msgOrder/msgSigs and contextOrder/contextSigs all   *)
(* follow this one scheme.                                                 *)
(***************************************************************************)
EXTENDS Integers, Sequences, Functions

CONSTANT MaxSize        \* SignatureCache.maxSize

ASSUME MaxSizeAssumption == MaxSize \in Nat \ {0}

(* t is a table over the keys K with values in V.                          *)
IsTable(t, K, V) ==
  /\ t = [val |-> t.val, order |-> t.order]
  /\ DOMAIN t.val \subseteq K
  /\ t.val \in [DOMAIN t.val -> V]
  /\ t.order \in Seq(K)

EmptyTable == [val |-> <<>>, order |-> <<>>]

(* The order after room was made for one more key.                         *)
Room(order) == IF Len(order) >= MaxSize THEN Tail(order) ELSE order

(* A known key keeps its place in the order, a new one goes last.          *)
Store(t, k, v) ==
  IF k \in DOMAIN t.val
  THEN [t EXCEPT !.val[k] = v]
  ELSE LET order == Append(Room(t.order), k)
       IN [val |-> [j \in Range(order) |-> IF j = k THEN v ELSE t.val[j]],
           order |-> order]

(* A table read from a file: Go's map iteration gives the keys in any      *)
(* order.  Listings enumerates the orders.                                 *)
Listings(S, n) == Bijection(1..n, S)

(* The slice lists exactly the keys of the map, each once, and stays       *)
(* within the bound.                                                       *)
WellKept(t) ==
  /\ Range(t.order) = DOMAIN t.val
  /\ \A i, j \in DOMAIN t.order : t.order[i] = t.order[j] => i = j
  /\ Len(t.order) <= MaxSize
=============================================================================
