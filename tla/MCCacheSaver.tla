---------------------------- MODULE MCCacheSaver ----------------------------
(* Instance of CacheSaver for TLC: two handlers, one unsigned record.      *)
EXTENDS CacheSaver, TLC

CONSTANTS w1, w2, u1, u2, u3, garbage

MCWriters == {w1, w2}
MCUpdates == {u1, u2, u3}
MCSigned == {u1, u2}
MCTorn == {garbage}
=============================================================================
