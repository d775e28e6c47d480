---------------------------- MODULE SnapshotFile ----------------------------
(***************************************************************************)
(* What the file of the signature cache promises: it holds a state the     *)
(* cache of the running process was in, it only ever moves forward, and a  *)
(* restart resumes from it.  The cache is the set of the updates it took.  *)
(***************************************************************************)
CONSTANT Updates

VARIABLES
  mem,        \* the updates the running process knows
  file        \* the updates a restart would find

Init == mem = {} /\ file = {}

Learn == \E u \in Updates \ mem : mem' = mem \cup {u} /\ UNCHANGED file

Persist == file' \in {f \in SUBSET mem : file \subseteq f} /\ UNCHANGED mem

Restart == mem' = file /\ UNCHANGED file

Next == Learn \/ Persist \/ Restart

Spec == Init /\ [][Next]_<<mem, file>>
=============================================================================
