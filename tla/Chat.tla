-------------------------------- MODULE Chat --------------------------------
(***************************************************************************)
(* /v1/chat/completions of agy-bridge-go (internal/protocols/chat.go): a   *)
(* turn is answered, streamed or whole.  Unlike /v1/responses there is no  *)
(* authoritative turn and no reasoning item: every call is put into the    *)
(* cache as it arrives, under an id made for it, also when the stream      *)
(* breaks later; the siblings are recorded at the terminal event and the   *)
(* signature of the text after it.  ChatReplay has what follows.           *)
(***************************************************************************)
EXTENDS HandlerCache

CONSTANT Answers    \* upstream answers: sequences of parts

ASSUME AnswersAssumption == \A a \in Answers : IsAnswer(a)

VARIABLES
  phase,      \* "idle", "reading", "closing", "answered" or "refused"
  mode,       \* "stream" or "whole"
  answer,     \* the parts of the upstream
  rest,       \* those the handler has not seen yet
  ids,        \* toolCallBridgeIDs
  told,       \* the message for the client; ended once it has its end
  broken,     \* the stream ended early
  todo        \* puts still to make

turnVars == <<mode, answer, rest, ids, told, broken, todo>>

Completion == Message(0)     \* cmplID

(* ChatContextKey, with the messages before the turn as prefix.            *)
ContextKey(text) == <<"prefix", text>>

(* The words of an answer, whatever parts they are cut into.               *)
AllWords(parts) == FlattenSeq([i \in DOMAIN parts |-> IF parts[i].kind = "text" THEN parts[i].body ELSE <<>>])

ASSUME ContextsAssumption == \A a \in Answers : ContextKey(AllWords(a)) \in Contexts

ChatInit ==
  /\ CacheInit
  /\ phase = "idle" /\ mode = "whole" /\ answer = <<>> /\ rest = <<>> /\ ids = <<>>
  /\ told = [calls |-> <<>>, text |-> <<>>, sig |-> NoSig, ended |-> FALSE]
  /\ broken = FALSE /\ todo = <<>>

Answer ==
  /\ phase = "idle"
  /\ phase' = "reading"
  /\ mode' \in {"stream", "whole"}
  /\ answer' \in Answers
  /\ rest' = answer'
  /\ UNCHANGED <<cacheVars, ids, told, broken, todo>>

-----------------------------------------------------------------------------
(* The bridge's id of a call: the same for the same id of the upstream,    *)
(* else a new one.                                                         *)
BridgeId(part) ==
  LET same == {i \in DOMAIN ids : part.id # NoId /\ UpstreamID(ids[i]) = part.id}
  IN IF same # {} THEN ids[Min(same)] ELSE CallItem(Len(ids), part.id)

(* A streamed call keeps its index, a client appends the arguments of its  *)
(* chunks; a whole message lists every call part.                          *)
ToldCall(calls, call, part) ==
  LET same == {i \in DOMAIN calls : mode = "stream" /\ calls[i].call = call}
  IN IF same = {} THEN Append(calls, [call |-> call, chunks |-> <<part.body>>, sig |-> part.sig])
     ELSE [calls EXCEPT ![Min(same)].chunks = Append(@, part.body),
                        ![Min(same)].sig = IF part.sig = NoSig THEN @ ELSE part.sig]

HandleCall(part) ==
  LET call == BridgeId(part)
  IN /\ Apply(ToolPut(call, part.body, part.sig, {}))
     /\ ids' = Append(ids, call)
     /\ told' = [told EXCEPT !.calls = ToldCall(@, call, part)]

(* The last signature outside of calls is the message's; the stream also   *)
(* takes those of thoughts.                                                *)
SignatureOfText(part) ==
  part.sig # NoSig /\ (part.kind = "text" \/ mode = "stream")

HandleText(part) ==
  /\ told' = [told EXCEPT !.text = IF part.kind = "text" THEN @ \o part.body ELSE @,
                          !.sig = IF SignatureOfText(part) THEN part.sig ELSE @]
  /\ UNCHANGED <<cacheVars, ids>>

HandlePart ==
  /\ phase = "reading" /\ rest # <<>>
  /\ IF Head(rest).kind = "call" THEN HandleCall(Head(rest)) ELSE HandleText(Head(rest))
  /\ rest' = Tail(rest)
  /\ UNCHANGED <<phase, mode, answer, broken, todo>>

(* Faulty variant: two calls are taken for one.                            *)
SiblingPutsLate == IF Len(ids) > 2 THEN <<SiblingsPut(Head(ids), ToSet(Tail(ids)))>> ELSE <<>>

(* The terminal event makes the calls siblings.                            *)
SiblingPuts == IF Len(ids) > 1 THEN <<SiblingsPut(Head(ids), ToSet(Tail(ids)))>> ELSE <<>>

(* After the stream: the context of the text, the id of the message.       *)
TextPuts ==
  (IF told.text # <<>> /\ told.sig # NoSig THEN <<ContextPut(ContextKey(told.text), told.sig)>>
   ELSE <<>>)
    \o (IF told.sig # NoSig THEN <<MessagePut(Completion, told.sig)>> ELSE <<>>)

Terminal ==
  /\ phase = "reading" /\ rest = <<>>
  /\ phase' = "closing"
  /\ todo' = SiblingPuts \o TextPuts
  /\ told' = [told EXCEPT !.ended = TRUE]
  /\ UNCHANGED <<cacheVars, mode, answer, rest, ids, broken>>

StorePut ==
  /\ phase = "closing" /\ todo # <<>>
  /\ Apply(Head(todo))
  /\ todo' = Tail(todo)
  /\ UNCHANGED <<phase, mode, answer, rest, ids, told, broken>>

Done ==
  /\ phase = "closing" /\ todo = <<>>
  /\ phase' = "answered"
  /\ UNCHANGED <<cacheVars, turnVars>>

(* The stream of the upstream fails or ends early.  A streaming client has *)
(* what it was told, and calls have become siblings if the terminal event  *)
(* came before; a whole answer is read to its end first, so that nothing   *)
(* was put for it.                                                         *)
CanBreak ==
  \/ phase = "reading" /\ (mode = "whole" => rest = answer)
  \/ phase = "closing" /\ mode = "stream" /\ todo = TextPuts

(* Faulty variant: a broken stream is closed like any other.               *)
BreakClosing ==
  /\ CanBreak
  /\ phase' = "closing"
  /\ broken' = TRUE
  /\ todo' = TextPuts
  /\ UNCHANGED <<cacheVars, mode, answer, rest, ids, told>>

(* The signatures sent along with words; the others only come at the end.  *)
DeltaSig ==
  LET signed == {i \in 1..(Len(answer) - Len(rest)) :
                   answer[i].kind = "text" /\ answer[i].body # <<>> /\ answer[i].sig # NoSig}
  IN IF signed = {} THEN NoSig ELSE answer[Max(signed)].sig

Break ==
  /\ CanBreak
  /\ told' = IF told.ended THEN told ELSE [told EXCEPT !.sig = DeltaSig]
  /\ phase' = IF mode = "whole" THEN "refused" ELSE "answered"
  /\ broken' = TRUE
  /\ todo' = <<>>
  /\ UNCHANGED <<cacheVars, mode, answer, rest, ids>>

ChatNext == Answer \/ HandlePart \/ Terminal \/ StorePut \/ Done \/ Break
=============================================================================
