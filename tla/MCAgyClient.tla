---------------------------- MODULE MCAgyClient -----------------------------
(* Instance of AgyClient for TLC: see the .cfg files.                      *)
EXTENDS AgyClient, TLC

CONSTANTS r1, r2, t1, t2

MCRequests == {r1, r2}
MCTokens == {t1, t2}
MCOneRequest == {r1}

(* Tokens live equally long, t1 was issued first, and the CLI stored it    *)
(* with its refresh token: leaves the plainest way to lose a good token.   *)
Rank == [new |-> 0, good |-> 1, short |-> 2, expired |-> 3]
EqualLifetimes ==
  /\ Rank[life[t1]] >= Rank[life[t2]]
  /\ disk # NoCred => disk.refresh
=============================================================================
