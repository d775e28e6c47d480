----------------------------- MODULE TurnRecord -----------------------------
(***************************************************************************)
(* The authoritative turn of agy-bridge-go (internal/protocols/            *)
(* turn_record.go): the accumulator that turns the parts of an upstream    *)
(* answer, in the order they arrive, into messages, tool calls and one     *)
(* reasoning item, each under the id the client will see.                  *)
(*                                                                         *)
(* A text is the sequence of the pieces it was put together from; the      *)
(* arguments of a call are such a sequence too, empty when the part has    *)
(* none.  CallID and OutputItemID of a call are two halves of one hash and *)
(* are one value here.  The name of a tool follows its arguments.          *)
(***************************************************************************)
EXTENDS SequencesExt

CONSTANTS
  UpstreamIds,   \* ids the upstream gives to function calls
  NoId,          \* Go's ""
  Sigs,          \* thought signatures
  NoSig          \* Go's ""

(* Output item ids.  A call's is a hash over the upstream id and the       *)
(* number of parts committed before it.                                    *)
Reasoning == <<"rs", 0, NoId>>
Message(n) == <<"msg", n, NoId>>
CallItem(n, id) == <<"fc", n, id>>

(* upstream.Part, as far as ProcessPart looks at it.  A text part with no  *)
(* body is the signature-only part; one without a signature either is      *)
(* empty.                                                                  *)
Part(kind, id, body, sig) == [kind |-> kind, id |-> id, body |-> body, sig |-> sig]

(* TurnPartRecord.                                                         *)
TurnPart(kind, item, id, body, sig) ==
  [kind |-> kind, item |-> item, id |-> id, body |-> body, sig |-> sig]

(* AuthoritativeTurnAccumulator, with the turn it builds.                  *)
NewAccumulator ==
  [parts |-> <<>>,          \* committed texts and calls
   order |-> <<>>,          \* OutputOrder
   thought |-> <<>>, hasThought |-> FALSE,
   text |-> <<>>, textSig |-> NoSig, textCount |-> 0,   \* the text under way
   calls |-> <<>>,          \* toolCallIDs
   bridge |-> <<>>,         \* upstream id -> call
   toolSigs |-> <<>>, textSigs |-> <<>>]

(* An id enters the output order once, when its first piece arrives.       *)
Recorded(order, item) == IF Contains(order, item) THEN order ELSE Append(order, item)

HasPendingText(acc) == acc.text # <<>> \/ acc.textSig # NoSig

CurrentTextID(acc) == Message(acc.textCount)

(* m[key] = value, in a Go map.                                            *)
Assigned(m, key, value) == [k \in DOMAIN m \cup {key} |-> IF k = key THEN value ELSE m[k]]

Noted(sigs, item, sig) == IF sig = NoSig THEN sigs ELSE Assigned(sigs, item, sig)

(* FlushPendingText: the text under way becomes a part of the turn.        *)
FlushPendingText(acc) ==
  IF ~HasPendingText(acc) THEN acc
  ELSE LET item == CurrentTextID(acc)
       IN [acc EXCEPT
             !.parts = Append(@, TurnPart("text", item, NoId, acc.text, acc.textSig)),
             !.textSigs = Noted(@, item, acc.textSig),
             !.text = <<>>, !.textSig = NoSig, !.textCount = @ + 1]

(* A thought ends the text under way.  Its own signature is not kept.      *)
ProcessThought(acc, part) ==
  [FlushPendingText(acc) EXCEPT
     !.hasThought = TRUE,
     !.order = Recorded(@, Reasoning),
     !.thought = @ \o part.body]

(* A call the upstream named before keeps its id; the others get a new one.*)
CallOf(acc, part) ==
  IF part.id \in DOMAIN acc.bridge THEN acc.bridge[part.id]
  ELSE CallItem(Len(acc.parts), part.id)

Bound(bridge, part, item) ==
  IF part.id = NoId \/ part.id \in DOMAIN bridge THEN bridge ELSE Assigned(bridge, part.id, item)

(* Faulty variant: a repetition replaces the arguments, even by none.      *)
UpdatedBlindly(p, part) ==
  [p EXCEPT !.body = part.body, !.sig = IF part.sig = NoSig THEN @ ELSE part.sig]

(* A repeated call updates its part in place: what the repetition leaves   *)
(* out stays.                                                              *)
Updated(p, part) ==
  [p EXCEPT !.body = IF part.body = <<>> THEN @ ELSE part.body,
            !.sig = IF part.sig = NoSig THEN @ ELSE part.sig]

ProcessCall(acc, part) ==
  LET a == FlushPendingText(acc)
      item == CallOf(a, part)
      known == Contains(a.calls, item)
  IN [a EXCEPT
        !.bridge = Bound(@, part, item),
        !.toolSigs = Noted(@, item, part.sig),
        !.parts = IF known
                  THEN [i \in DOMAIN @ |-> IF @[i].item = item THEN Updated(@[i], part) ELSE @[i]]
                  ELSE Append(@, TurnPart("call", item, part.id, part.body, part.sig)),
        !.order = Recorded(@, item),
        !.calls = IF known THEN @ ELSE Append(@, item)]

(* A signature on its own belongs to the text under way, else to the last  *)
(* text committed, even when calls came since; with no text it is lost.    *)
(* The faulty variant only looks at the last part.                         *)
SignatureTargetLast(parts) == {i \in DOMAIN parts : i = Len(parts) /\ parts[i].kind = "text"}

SignatureTarget(parts) ==
  {i \in DOMAIN parts :
     parts[i].kind = "text" /\ \A j \in DOMAIN parts : j > i => parts[j].kind # "text"}

ProcessSignature(acc, part) ==
  IF acc.text # <<>> THEN [acc EXCEPT !.textSig = part.sig]
  ELSE LET target == SignatureTarget(acc.parts)
       IN [acc EXCEPT
             !.parts = [i \in DOMAIN @ |-> IF i \in target THEN [@[i] EXCEPT !.sig = part.sig] ELSE @[i]],
             !.textSigs = [m \in DOMAIN @ \cup {acc.parts[i].item : i \in target} |->
                             IF \E i \in target : acc.parts[i].item = m THEN part.sig ELSE @[m]]]

(* A text with another signature than the text under way starts a new one. *)
ProcessText(acc, part) ==
  LET a == IF acc.text # <<>> /\ acc.textSig # part.sig THEN FlushPendingText(acc) ELSE acc
  IN [a EXCEPT
        !.order = Recorded(@, CurrentTextID(a)),
        !.text = @ \o part.body,
        !.textSig = IF part.sig = NoSig THEN @ ELSE part.sig]

ProcessPart(acc, part) ==
  CASE part.kind = "thought" -> ProcessThought(acc, part)
    [] part.kind = "call" -> ProcessCall(acc, part)
    [] part.kind = "text" /\ part.body # <<>> -> ProcessText(acc, part)
    [] part.kind = "text" /\ part.body = <<>> /\ part.sig # NoSig -> ProcessSignature(acc, part)
    [] OTHER -> acc

(* Finish: a turn with nothing in it becomes one empty message.            *)
Finish(acc) ==
  LET a == FlushPendingText(acc)
  IN IF a.parts = <<>> /\ ~a.hasThought
     THEN [a EXCEPT !.parts = <<TurnPart("text", Message(0), NoId, <<>>, NoSig)>>,
                    !.order = Recorded(@, Message(0))]
     ELSE a

(* TurnSiblings: the first call leads, the others are its siblings.        *)
TurnSiblings(turn) ==
  IF Len(turn.calls) > 1 THEN [lead \in {Head(turn.calls)} |-> ToSet(Tail(turn.calls))] ELSE <<>>

BuildAuthoritativeTurn(parts) == Finish(FoldLeft(ProcessPart, NewAccumulator, parts))

NeedsReasoningItem(turn) ==
  turn.thought # <<>> \/ DOMAIN turn.toolSigs # {} \/ DOMAIN turn.textSigs # {}

(* ToOutputItems: the items in recorded order; a reasoning item that was   *)
(* not recorded goes first when there were thoughts, else last.            *)
OutputItem(id, body, sig) == [id |-> id, body |-> body, sig |-> sig]

ItemIds(turn) ==
  {turn.parts[i].item : i \in DOMAIN turn.parts}
    \cup (IF NeedsReasoningItem(turn) THEN {Reasoning} ELSE {})

ItemNamed(turn, id) ==
  IF id = Reasoning THEN OutputItem(id, turn.thought, NoSig)
  ELSE LET i == CHOOSE j \in DOMAIN turn.parts : turn.parts[j].item = id
       IN OutputItem(id, turn.parts[i].body, turn.parts[i].sig)

(* The elements of s that are in S, in order.                              *)
Selected(s, S) == FlattenSeq([i \in DOMAIN s |-> IF s[i] \in S THEN <<s[i]>> ELSE <<>>])

ToOutputItems(turn) ==
  LET listed == Selected(turn.order, ItemIds(turn))
      unlisted == Selected([i \in DOMAIN turn.parts |-> turn.parts[i].item],
                           ItemIds(turn) \ ToSet(listed))
      ids == IF NeedsReasoningItem(turn) /\ ~Contains(listed, Reasoning)
             THEN IF turn.thought # <<>> THEN <<Reasoning>> \o listed
                  ELSE Append(listed, Reasoning)
             ELSE listed
  IN [i \in DOMAIN (ids \o unlisted) |-> ItemNamed(turn, (ids \o unlisted)[i])]
=============================================================================
