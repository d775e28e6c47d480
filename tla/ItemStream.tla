----------------------------- MODULE ItemStream -----------------------------
(***************************************************************************)
(* What the events of a streamed response promise a client that assembles  *)
(* them (internal/protocols/responses.go): items are announced at the end  *)
(* of the list under ids of their own, filled while they are open,         *)
(* finished once and then left alone; a response only completes when all   *)
(* its items are finished.                                                 *)
(***************************************************************************)
EXTENDS SequencesExt

VARIABLES
  items,     \* [id, deltas, done]: done holds what finished the item
  status     \* of the response

Init == items = <<>> /\ status = "in_progress"

Evolves(old, new) ==
  /\ new.id = old.id
  /\ IsPrefix(old.deltas, new.deltas)
  /\ old.done # <<>> => new = old

Sound(s) ==
  /\ \A i, j \in DOMAIN s : s[i].id = s[j].id => i = j
  /\ \A i \in DOMAIN s : Len(s[i].done) <= 1

Advance ==
  /\ status = "in_progress"
  /\ Len(items') >= Len(items)
  /\ \A i \in DOMAIN items : Evolves(items[i], items'[i])
  /\ Sound(items')
  /\ status' \in {"in_progress", "failed", "completed", "incomplete"}
  /\ status' \in {"completed", "incomplete"} => \A i \in DOMAIN items' : items'[i].done # <<>>

Spec == Init /\ [][Advance]_<<items, status>>
=============================================================================
