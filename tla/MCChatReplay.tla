---------------------------- MODULE MCChatReplay ----------------------------
(* Instance of ChatReplay for TLC.                                         *)
EXTENDS ChatReplay

CONSTANTS u, v, s1, s2

CallPart(id, body, sig) == Part("call", id, body, sig)
Text(body, sig) == Part("text", NoId, body, sig)
Thought(sig) == Part("thought", NoId, <<3>>, sig)

MCAnswers ==
  {<<CallPart(u, <<1>>, s1), CallPart(v, <<2>>, NoSig)>>,          \* a lead and its sibling
   <<CallPart(NoId, <<1>>, s1), CallPart(u, <<2>>, s2)>>,          \* both signed
   <<CallPart(u, <<1>>, NoSig), CallPart(v, <<2>>, s1)>>,          \* the sibling goes first
   <<Thought(NoSig), Text(<<1>>, NoSig), Text(<<2>>, NoSig), Text(<<>>, s1)>>,   \* signed at last
   <<Text(<<1>>, s1), Thought(s2)>>,
   <<Text(<<1>>, s1), CallPart(u, <<2>>, s2)>>,
   <<CallPart(u, <<1>>, s1), CallPart(u, <<>>, NoSig), CallPart(v, <<2>>, NoSig)>>,
   <<CallPart(u, <<1>>, NoSig), CallPart(u, <<2>>, s1)>>,          \* repeated with others
   <<Text(<<1>>, NoSig), CallPart(NoId, <<1>>, NoSig)>>}           \* never signed

MCContexts == {ContextKey(w) : w \in {<<n>> : n \in 0..3} \cup {<<>>, <<1, 2>>}}

(* What a state can still lead to.  The file is read by a restart, which   *)
(* shuffles each table, and none comes once the client is back; the order  *)
(* of a table decides what the next put to it evicts; no action reads the  *)
(* histories of the cache, and no property here.                           *)
Unordered(t) == <<t.val, Len(t.order)>>

Storing == phase \in {"reading", "closing"}

RecordsLeft == IF Storing \/ others < MaxOthers THEN <<records>> ELSE Unordered(records)

TextsLeft == IF Storing THEN <<contexts, msgs>> ELSE <<Unordered(contexts), Unordered(msgs)>>

FileLeft ==
  IF phase \notin {"reading", "closing", "answered"} THEN <<>>
  ELSE <<Unordered(file.records), Unordered(file.contexts), Unordered(file.msgs),
         file.aliases, file.ambiguous, file.siblings>>

View ==
  <<RecordsLeft, aliases, ambiguous, TextsLeft, siblings, others, torn, FileLeft,
    phase, turnVars, requestVars>>
=============================================================================
