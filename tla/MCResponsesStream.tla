------------------------- MODULE MCResponsesStream -------------------------
(* Instance of ResponsesStream for TLC.                                    *)
EXTENDS ResponsesStream

CONSTANTS u, s1, s2

Shape(kind, id, body, sig) == [kind |-> kind, id |-> id, body |-> body, sig |-> sig]

Worded ==
  {Shape("thought", NoId, TRUE, NoSig),
   Shape("call", u, TRUE, NoSig), Shape("call", u, TRUE, s1), Shape("call", u, FALSE, s2),
   Shape("call", NoId, TRUE, NoSig),
   Shape("text", NoId, TRUE, NoSig), Shape("text", NoId, TRUE, s1),
   Shape("text", NoId, FALSE, s1), Shape("text", NoId, FALSE, s2),
   Shape("text", NoId, FALSE, NoSig)}

(* A thought part without words.                                           *)
Wordless == Worded \cup {Shape("thought", NoId, FALSE, NoSig)}
=============================================================================
