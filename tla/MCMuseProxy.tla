---------------------------- MODULE MCMuseProxy ----------------------------
(* Instance of MuseProxy for TLC: see the .cfg files for the constants.    *)
EXTENDS MuseProxy

CONSTANTS r1, r2, k1, k2, k3, d1

MCRequests == {r1, r2}
MCMintKeys == {k1, k2}
MCThreeKeys == {k1, k2, k3}
MCDirectKeys == {d1}
MCNoDirectKeys == {}
=============================================================================
