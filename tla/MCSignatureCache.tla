-------------------------- MODULE MCSignatureCache --------------------------
(* Instance of SignatureCache for TLC.                                     *)
EXTENDS SignatureCache, TLC

CONSTANTS x, y, i, t, u, s1, s2, c1, c2, c3, m1, m2, m3

MCIds == {x, y, i}
MCCalls == {t, u}
MCSigs == {s1, s2}
MCContexts == {c1, c2, c3}
MCMessages == {m1, m2, m3}

(* Saved by an earlier translator: a marker record with an alias next to a *)
(* native one.                                                             *)
OldFile(k, l, a) ==
  [records |-> [r \in {k, l} |-> [call |-> t, sig |-> IF r = k THEN Marker ELSE s1,
                                 legacy |-> FALSE]],
   aliases |-> [n \in {k, l, a} |-> IF n = a THEN k ELSE n],
   ambiguous |-> {}]

(* Signatures and names in separate maps, keyed by call and by item id.    *)
LegacyFile(k, l, a, sig) ==
  [sigs |-> [r \in {k, a} |-> IF r = k THEN sig ELSE s1], calls |-> [r \in {l} |-> t]]

Distinct == {p \in [1..3 -> MCIds] : \A m, n \in 1..3 : p[m] = p[n] => m = n}
MCOldFiles == {OldFile(p[1], p[2], p[3]) : p \in Distinct}
MCLegacyFiles ==
  {LegacyFile(p[1], p[1], p[2], s1) : p \in Distinct}
    \cup {LegacyFile(p[1], p[2], p[3], Marker) : p \in Distinct}

(* The tables of calls and of contexts share nothing but the set of        *)
(* ambiguous names, whose members are disjoint, and the reload; that of    *)
(* messages shares the reload only: each is filled while the others are    *)
(* empty.                                                                  *)
OneTable == Cardinality({table \in {records, contexts, msgs} : table # EmptyTable}) <= 1

(* A record's signature is only compared with none and with the marker, so *)
(* that one signature will do for records; contexts get two.               *)
OneSignature == \A id \in Live : records.val[id].sig # s2

(* The files above only tell t from u and s1 from s2.                      *)
Symmetry == Permutations(MCContexts) \cup Permutations(MCIds)
=============================================================================
