------------------------- MODULE MCResponsesReplay -------------------------
(* Instance of ResponsesReplay for TLC.                                    *)
EXTENDS ResponsesReplay

CONSTANTS u, v, s1, s2

Call(id, n, sig) == Part("call", id, <<n>>, sig)
Text(n, sig) == Part("text", NoId, <<n>>, sig)
Thought == Part("thought", NoId, <<3>>, NoSig)

MCAnswers ==
  {<<Call(u, 1, s1), Call(v, 2, NoSig)>>,                    \* a lead and its sibling
   <<Call(u, 1, s1), Thought, Call(NoId, 2, NoSig)>>,        \* with reasoning in between
   <<Call(u, 1, s1), Call(v, 2, s2)>>,                       \* both signed
   <<Call(u, 1, NoSig), Call(v, 2, s1)>>,                    \* the sibling goes first
   <<Thought, Text(1, s1), Call(u, 2, s2)>>,
   <<Text(1, s1), Thought, Text(1, s2)>>,                    \* one text, two signatures
   <<Call(u, 1, s1), Part("call", u, <<>>, s2), Call(NoId, 2, NoSig)>>,   \* a repetition
   <<Call(NoId, 1, NoSig)>>,                                 \* never signed
   <<Call(NoId, 1, s1), Call(v, 1, NoSig)>>,                 \* the same call twice, once without an id
   <<Text(2, NoSig)>>}

Bodies == {<<n>> : n \in 0..3}
MCContexts == {<<Prefix, b>> : b \in Bodies}

(* What a state can still lead to.  The file is read by a restart, which   *)
(* shuffles each table, and none comes once the client is back; the order  *)
(* of a table decides what the next put to it evicts; no action reads the  *)
(* histories of the cache, and no property here.                           *)
Unordered(t) == <<t.val, Len(t.order)>>

Storing == phase \in {"storing"}

RecordsLeft == IF Storing \/ others < MaxOthers THEN <<records>> ELSE Unordered(records)

TextsLeft == IF Storing THEN <<contexts, msgs>> ELSE <<Unordered(contexts), Unordered(msgs)>>

FileLeft ==
  IF phase \notin {"storing", "answered"} THEN <<>>
  ELSE <<Unordered(file.records), Unordered(file.contexts), Unordered(file.msgs),
         file.aliases, file.ambiguous, file.siblings>>

View ==
  <<RecordsLeft, aliases, ambiguous, TextsLeft, siblings, others, torn, FileLeft,
    phase, turn, todo, requestVars>>
=============================================================================
