-------------------------- MODULE ResponsesStream --------------------------
(***************************************************************************)
(* POST /v1/responses of agy-bridge-go (internal/protocols/responses.go):  *)
(* the streaming handler turns upstream parts into events while the turn   *)
(* record grows, then sends the final response.  streamed is what a client *)
(* that follows the events has; an item's place in it is its output_index. *)
(* Every step handles one decoder event.                                   *)
(***************************************************************************)
EXTENDS TurnRecord, UpstreamDecoder, Integers

CONSTANTS
  Shapes,        \* upstream parts, with BOOLEAN for the body
  MaxParts,      \* bound on the parts of an answer
  MaxChunk       \* bound on the parts of a chunk

ASSUME BoundsAssumption == MaxParts \in Nat /\ MaxChunk \in Nat

ASSUME ShapesAssumption ==
  Shapes \subseteq [kind : {"thought", "call", "text"}, id : UpstreamIds \cup {NoId},
                    body : BOOLEAN, sig : Sigs \cup {NoSig}]

VARIABLES
  acc,               \* turnAcc
  msgIndex,          \* currentMsgIndex + 1, 0 unless currentMsgStarted
  reasoningIndex,    \* reasoningOutputIndex + 1, 0 unless reasoningStarted
  callIndexes,       \* fcOutputIndexes
  lastFinishReason,
  streamed,          \* [id, deltas, done] by output_index
  final,             \* the output of the final response
  status             \* of the response, as last told to the client

handlerVars == <<acc, msgIndex, reasoningIndex, callIndexes, lastFinishReason>>
clientVars == <<streamed, final, status>>
vars == <<decoderVars, handlerVars, clientVars>>

CallItems == {CallItem(n, id) : n \in 0..MaxParts, id \in UpstreamIds \cup {NoId}}

Items == {Reasoning} \cup {Message(n) : n \in 0..MaxParts} \cup CallItems

TypeOK ==
  /\ \A i \in DOMAIN acc.parts : acc.parts[i].item \in Items /\ acc.parts[i].sig \in Sigs \cup {NoSig}
  /\ ToSet(acc.order) \subseteq Items
  /\ msgIndex \in 0..Len(streamed) /\ reasoningIndex \in 0..Len(streamed)
  /\ \A c \in DOMAIN callIndexes : callIndexes[c] \in 1..Len(streamed)
  /\ \A i \in DOMAIN streamed : streamed[i].id \in Items
  /\ status \in {"in_progress", "failed", "completed", "incomplete"}

Init ==
  /\ DecoderInit
  /\ acc = NewAccumulator
  /\ msgIndex = 0 /\ reasoningIndex = 0 /\ callIndexes = <<>>
  /\ lastFinishReason = NoReason
  /\ streamed = <<>> /\ final = <<>> /\ status = "in_progress"

-----------------------------------------------------------------------------
(* The events, as they change what the client has.                         *)
Added(s, id) == Append(s, [id |-> id, deltas |-> <<>>, done |-> <<>>])

(* Faulty variant: every thought announces the item again.                 *)
AddedAlways(s, index, id) == Added(s, id)

(* output_item.added when the item has no place yet.                       *)
AddedOnce(s, index, id) == IF index = 0 THEN Added(s, id) ELSE s

Delta(s, index, id, body) ==
  IF s[index].id = id THEN [s EXCEPT ![index].deltas = @ \o body] ELSE s

ItemDone(s, index, item) == [s EXCEPT ![index].done = Append(@, item)]

(* Faulty variant: the message is left open.                               *)
MessageUnflushed(a, s) == s

(* flushCurrentMsg, the events: the open message is done with what the     *)
(* accumulator commits.                                                    *)
MessageFlushed(a, s) ==
  IF msgIndex = 0 \/ ~HasPendingText(a) THEN s
  ELSE ItemDone(s, msgIndex, OutputItem(CurrentTextID(a), a.text, a.textSig))

(* flushCurrentMsg, the accumulator, and whether a message stays open.     *)
Flushed(a) == IF msgIndex = 0 THEN a ELSE FlushPendingText(a)

StillOpen(a) == IF HasPendingText(a) THEN msgIndex ELSE 0

OnThought(part) ==
  LET s == AddedOnce(MessageFlushed(acc, streamed), reasoningIndex, Reasoning)
      index == IF reasoningIndex = 0 THEN Len(s) ELSE reasoningIndex
  IN /\ acc' = ProcessPart(Flushed(acc), part)
     /\ msgIndex' = 0
     /\ reasoningIndex' = index
     /\ streamed' = Delta(s, index, Reasoning, part.body)
     /\ UNCHANGED callIndexes

(* A call has its item announced the first time; its arguments are sent    *)
(* when the turn is over.                                                  *)
OnCall(part) ==
  LET a == Flushed(acc)
      call == CallOf(FlushPendingText(a), part)
      known == call \in DOMAIN callIndexes
      s == MessageFlushed(acc, streamed)
  IN /\ acc' = ProcessPart(a, part)
     /\ msgIndex' = 0
     /\ callIndexes' = IF known THEN callIndexes ELSE Assigned(callIndexes, call, Len(s) + 1)
     /\ streamed' = IF known THEN s ELSE Added(s, call)
     /\ UNCHANGED reasoningIndex

(* Faulty variant: the loop goes on without telling the accumulator.       *)
OnSignatureSkipped(part) ==
  UNCHANGED <<acc, msgIndex, reasoningIndex, callIndexes, streamed>>

OnSignature(part) ==
  /\ acc' = ProcessPart(acc, part)
  /\ UNCHANGED <<msgIndex, reasoningIndex, callIndexes, streamed>>

SplitsMessage(part) == msgIndex # 0 /\ acc.textSig # part.sig

OnText(part) ==
  LET a == IF SplitsMessage(part) THEN Flushed(acc) ELSE acc
      open == IF SplitsMessage(part) THEN StillOpen(a) ELSE msgIndex
      s == AddedOnce(IF SplitsMessage(part) THEN MessageFlushed(acc, streamed) ELSE streamed,
                     open, CurrentTextID(a))
      index == IF open = 0 THEN Len(s) ELSE open
  IN /\ acc' = ProcessPart(a, part)
     /\ msgIndex' = index
     /\ streamed' = Delta(s, index, CurrentTextID(a), part.body)
     /\ UNCHANGED <<reasoningIndex, callIndexes>>

(* The event loop, one event.                                              *)
HandlePart ==
  /\ status = "in_progress"
  /\ \E part \in ToSet(pendingParts) :
       /\ NextPart(part)
       /\ CASE part.kind = "thought" -> OnThought(part)
            [] part.kind = "call" -> OnCall(part)
            [] part.kind = "text" /\ part.body # <<>> -> OnText(part)
            [] OTHER -> OnSignature(part)
  /\ UNCHANGED <<lastFinishReason, final, status>>

HandleTerminal ==
  /\ status = "in_progress"
  /\ NextTerminal(pendingTerminal)
  /\ lastFinishReason' = pendingTerminal
  /\ UNCHANGED <<acc, msgIndex, reasoningIndex, callIndexes, clientVars>>

(* response.failed: nothing is finished, nothing is cached.                *)
Fail ==
  /\ status = "in_progress"
  /\ Broken
  /\ status' = "failed"
  /\ UNCHANGED <<handlerVars, streamed, final>>

-----------------------------------------------------------------------------
(* After the loop: calls, the open message, the reasoning item and, when   *)
(* nothing was announced, an empty message.                                *)
CallsDone(a, s) ==
  [i \in DOMAIN s |->
     IF i \in Range(callIndexes)
     THEN [s[i] EXCEPT !.done = Append(@, ItemNamed(a, s[i].id))]
     ELSE s[i]]

ReasoningDone(turn, s) ==
  IF ~NeedsReasoningItem(turn) THEN s
  ELSE LET t == AddedOnce(s, reasoningIndex, Reasoning)
       IN ItemDone(t, IF reasoningIndex = 0 THEN Len(t) ELSE reasoningIndex,
                   OutputItem(Reasoning, turn.thought, NoSig))

EmptyMessage(turn, s) ==
  IF s # <<>> THEN s
  ELSE ItemDone(Added(s, turn.parts[1].item), 1, OutputItem(turn.parts[1].item, <<>>, NoSig))

(* Faulty variant: the upstream's word for it is passed on.                *)
ResponseStatusRaw(reason) == reason

(* A turn cut short by the token limit is incomplete.                      *)
ResponseStatus(reason) == IF reason = "MAX_TOKENS" THEN "incomplete" ELSE "completed"

(* The end of the stream.  The carrier in the streamed reasoning item      *)
(* leaves out the model and the turn's id, which the final one has; the    *)
(* translation of a later request reads neither, and both are data here.   *)
Complete ==
  LET a == Flushed(acc)
      turn == Finish(a)
      s == MessageFlushed(acc, CallsDone(acc, streamed))
  IN /\ status = "in_progress"
     /\ CleanEnd
     /\ acc' = turn
     /\ msgIndex' = StillOpen(a)
     /\ streamed' = EmptyMessage(turn, ReasoningDone(turn, s))
     /\ final' = ToOutputItems(turn)
     /\ status' = ResponseStatus(lastFinishReason)
     /\ UNCHANGED <<reasoningIndex, callIndexes, lastFinishReason>>

(* The upstream sends a chunk.  Pieces are numbered as they arrive.        *)
Stamped(shape, n) ==
  Part(shape.kind, shape.id, IF shape.body THEN <<n>> ELSE <<>>, shape.sig)

Upstream ==
  /\ status = "in_progress"
  /\ \E n \in 0..MaxChunk, reason \in Reasons \cup {NoReason} :
       /\ Len(arrived) + n <= MaxParts
       /\ \E shapes \in [1..n -> Shapes] :
            ReadChunk([k \in 1..n |-> Stamped(shapes[k], Len(arrived) + k)], reason)
  /\ UNCHANGED <<handlerVars, clientVars>>

Next == Upstream \/ HandlePart \/ HandleTerminal \/ Fail \/ Complete

Spec == Init /\ [][Next]_vars

-----------------------------------------------------------------------------
Done == status \in {"completed", "incomplete"}

(* Every item announced in the stream is in the final response, at the     *)
(* output_index it was announced with (agy-bridge-go/README.md:27,         *)
(* "Deterministic Stream & Final Parity").  A thought part without words   *)
(* breaks this.                                                            *)
FinalAtSameIndex ==
  Done => \A i \in DOMAIN streamed :
            i \in DOMAIN final /\ final[i].id = streamed[i].id

(* The handler that does not stream builds the turn from all parts at      *)
(* once: both give the client the same output (responses.go:547).          *)
SameAsUnstreamed == Done => final = ToOutputItems(BuildAuthoritativeTurn(arrived))

-----------------------------------------------------------------------------
(* Reference definitions, from the parts alone.                            *)
Positions(P(_)) == {n \in DOMAIN arrived : P(arrived[n])}

Texts == Positions(LAMBDA p : p.kind = "text" /\ p.body # <<>>)
Bare == Positions(LAMBDA p : p.kind = "text" /\ p.body = <<>> /\ p.sig # NoSig)

Bodies(kinds) ==
  FlattenSeq([i \in DOMAIN final |-> IF final[i].id[1] \in kinds THEN final[i].body ELSE <<>>])

Ascending(s) == \A i, j \in DOMAIN s : i < j => s[i] < s[j]

(* The visible text reaches the client whole and in the order it came, and *)
(* so does the thinking, however calls, thoughts and signatures cut it     *)
(* up; a call ends with the arguments sent last (turn_record.go:175).      *)
NothingLost ==
  Done =>
    /\ Ascending(Bodies({"msg"})) /\ ToSet(Bodies({"msg"})) = Texts
    /\ Ascending(acc.thought)
    /\ ToSet(acc.thought) =
         Positions(LAMBDA p : p.kind = "thought" /\ p.body # <<>>)
    /\ \A i \in DOMAIN final :
         final[i].id[1] = "fc" /\ final[i].id[3] # NoId =>
           LET sent == Positions(LAMBDA p : p.kind = "call" /\ p.id = final[i].id[3] /\ p.body # <<>>)
           IN final[i].body = IF sent = {} THEN <<>> ELSE <<Max(sent)>>

(* The signatures that concern a message: those of its pieces, and those   *)
(* sent alone after one of its pieces and before another text.             *)
Concerning(item) ==
  {n \in Texts : n \in ToSet(item.body) /\ arrived[n].sig # NoSig}
    \cup {n \in Bare : \E m \in ToSet(item.body) : m < n /\ \A k \in Texts : k < n => k <= m}

(* What the events said of each item, one by one, is what the final        *)
(* response says: same items at the same places, each finished once, the   *)
(* deltas adding up to the text.  A signature that comes in a part of its  *)
(* own after its message was finished is only in the final response        *)
(* (turn_record.go:269), hence the last disjunct.                          *)
StreamedIsFinal ==
  Done =>
    /\ Len(streamed) = Len(final)
    /\ \A i \in DOMAIN final :
         LET item == streamed[i]
         IN /\ item.id = final[i].id
            /\ Len(item.done) = 1
            /\ item.done[1].body = final[i].body
            /\ item.id[1] # "fc" => item.deltas = final[i].body
            /\ \/ item.done[1].sig = final[i].sig
               \/ item.id[1] = "msg" /\ Concerning(final[i]) \cap Bare # {}

(* Each message carries the signature sent last for it, be it with a piece *)
(* or in a part of its own, with calls in between or not; each call the    *)
(* last of its own signatures (turn_record.go:264-278).                    *)
SignaturesLand ==
  Done =>
    \A i \in DOMAIN final :
      LET item == final[i]
          sigs == IF item.id[1] = "fc"
                  THEN Positions(LAMBDA p : p.kind = "call" /\ item.id[3] # NoId
                                            /\ p.id = item.id[3] /\ p.sig # NoSig)
                  ELSE Concerning(item)
      IN item.id[1] # "rs" /\ (item.id[1] = "fc" => item.id[3] # NoId) =>
           item.sig = IF sigs = {} THEN NoSig ELSE arrived[Max(sigs)].sig

-----------------------------------------------------------------------------
(* The inductive invariant behind SameAsUnstreamed and                     *)
(* ImplementsItemStream.  Parts are known and handed out in order.         *)
Handled == Len(arrived) - Len(pendingParts)

Parts == [kind : {"thought", "call", "text"}, id : UpstreamIds \cup {NoId},
          body : Seq(Nat), sig : Sigs \cup {NoSig}]

PartsInOrder ==
  /\ arrived \in Seq(Parts) /\ Len(arrived) <= MaxParts
  /\ pendingParts \in Seq(Parts) /\ Len(pendingParts) <= Len(arrived)
  /\ pendingParts = SubSeq(arrived, Handled + 1, Len(arrived))

(* The accumulator has the fields it started with, of these types, and no  *)
(* signature is pending without a text.  It took up to n parts.            *)
TurnParts == [kind : {"text", "call"}, item : Items, id : UpstreamIds \cup {NoId},
              body : Seq(Nat), sig : Sigs \cup {NoSig}]

Accumulator(a, n) ==
  /\ DOMAIN a = DOMAIN NewAccumulator
  /\ a.parts \in Seq(TurnParts)
  /\ a.order \in Seq(Items)
  /\ a.thought \in Seq(Nat)
  /\ a.text \in Seq(Nat) /\ a.textSig \in Sigs \cup {NoSig}
  /\ a.text = <<>> => a.textSig = NoSig
  /\ a.textCount \in Nat /\ a.textCount <= Len(a.parts)
  /\ \A id \in DOMAIN a.bridge : a.bridge[id] \in CallItems
  /\ Len(a.parts) <= n /\ (a.text # <<>> => Len(a.parts) < n)

(* The streamed items are records, each with an id of its own.             *)
ItemsKnown(s) ==
  /\ s \in Seq(Range(s))
  /\ \A i \in DOMAIN s :
       /\ s[i] = [id |-> s[i].id, deltas |-> s[i].deltas, done |-> s[i].done]
       /\ s[i].id \in Items /\ s[i].deltas \in Seq(Nat)
  /\ \A i, j \in DOMAIN s : s[i].id = s[j].id => i = j

(* An item is open where the handler's indexes say it is (r the reasoning  *)
(* item, m the message of the text under way, or a call), or a message     *)
(* that was flushed, and finished then.                                    *)
OpenOrFlushed(a, m, r, calls, s, i) ==
  \/ i = r /\ s[i].id = Reasoning /\ s[i].done = <<>>
  \/ i = m /\ s[i].id = CurrentTextID(a) /\ s[i].done = <<>>
  \/ s[i].id \in DOMAIN calls /\ calls[s[i].id] = i /\ s[i].done = <<>>
  \/ \E n \in 0..(a.textCount - 1) : s[i].id = Message(n) /\ Len(s[i].done) = 1

(* What each index stands for.                                             *)
IndexesRight(a, m, r, calls, s) ==
  /\ m # 0 <=> a.text # <<>>
  /\ m # 0 => m \in DOMAIN s /\ s[m].id = CurrentTextID(a)
  /\ r # 0 => r \in DOMAIN s /\ s[r].id = Reasoning
  /\ a.hasThought => r # 0
  /\ \A c \in DOMAIN calls : c \in CallItems /\ calls[c] \in DOMAIN s /\ s[calls[c]].id = c

Places(a, m, r, calls, s) ==
  /\ ItemsKnown(s)
  /\ \A i \in DOMAIN s : OpenOrFlushed(a, m, r, calls, s, i)
  /\ IndexesRight(a, m, r, calls, s)

StreamInv ==
  /\ PartsInOrder
  /\ status = "in_progress" =>
       /\ acc = FoldLeft(ProcessPart, NewAccumulator, SubSeq(arrived, 1, Handled))
       /\ Accumulator(acc, Handled)
       /\ Places(acc, msgIndex, reasoningIndex, callIndexes, streamed)

(* The upstream sends no thought without words: those are announced and    *)
(* never finished (FinalAtSameIndex).                                      *)
WordedThoughts == \A shape \in Shapes : shape.kind = "thought" => shape.body

ThoughtsAreKept ==
  /\ \A i \in DOMAIN arrived : arrived[i].kind = "thought" => arrived[i].body # <<>>
  /\ reasoningIndex # 0 => acc.thought # <<>>

(* The events keep the promise of ItemStream.                              *)
Client == INSTANCE ItemStream WITH items <- streamed

ImplementsItemStream == Client!Spec
=============================================================================
