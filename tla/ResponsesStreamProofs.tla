----------------------- MODULE ResponsesStreamProofs -----------------------
(***************************************************************************)
(* Proofs about the streaming handler of /v1/responses, for any shapes of  *)
(* parts, any number of them and any chunks.  StreamInv carries them all:  *)
(* the accumulator is what the handler that does not stream would have by  *)
(* now, and the indexes the handler keeps are the places of the items that *)
(* are open.  First the accumulator, then the client's items, the handlers *)
(* of the event loop, what follows the loop, and the theorems; then what   *)
(* the final response says of the parts alone; last, that the events said  *)
(* the same.                                                               *)
(***************************************************************************)
EXTENDS ResponsesStream, TurnRecordProofs

-----------------------------------------------------------------------------
(* The accumulator.                                                        *)

(* Ids of items of different kinds, or with other numbers, differ.         *)
LEMMA IdsDiffer ==
  /\ \A n : Message(n) # Reasoning
  /\ \A m, n : Message(m) = Message(n) => m = n
  /\ \A c \in CallItems : c # Reasoning /\ \A n : c # Message(n)
BY DEF Message, Reasoning, CallItems, CallItem

(* The fields of an accumulator.                                           *)
LEMMA KnownFields ==
  DOMAIN NewAccumulator = {"parts", "order", "thought", "hasThought", "text", "textSig",
                           "textCount", "calls", "bridge", "toolSigs", "textSigs"}
BY DEF NewAccumulator

(* A function on 1..n is a sequence.                                       *)
LEMMA FunctionSeq ==
  ASSUME NEW T, NEW n \in Nat, NEW f \in [1..n -> T]
  PROVE  f \in Seq(T) /\ Len(f) = n
<1>1. [i \in 1..n |-> f[i]] \in Seq(T)
  BY IsASeq
<1>2. f = [i \in 1..n |-> f[i]]
  OBVIOUS
<1> QED BY <1>1, <1>2

(* The output order only holds ids of items.                               *)
LEMMA RecordedKnown ==
  ASSUME NEW order \in Seq(Items), NEW item \in Items
  PROVE  Recorded(order, item) \in Seq(Items)
BY DEF Recorded

(* FlushPendingText commits the text under way, and nothing else.          *)
LEMMA FlushCommits ==
  ASSUME NEW a, NEW n \in 0..MaxParts, Accumulator(a, n)
  PROVE  /\ Accumulator(FlushPendingText(a), n)
         /\ FlushPendingText(a).text = <<>>
         /\ FlushPendingText(a).textSig = NoSig
         /\ FlushPendingText(a).thought = a.thought
         /\ FlushPendingText(a).hasThought = a.hasThought
         /\ a.text = <<>> => FlushPendingText(a) = a
         /\ a.text # <<>> => FlushPendingText(a).textCount = a.textCount + 1
<1>1. CASE a.text = <<>>
  BY <1>1 DEF FlushPendingText, HasPendingText, Accumulator
<1>2. CASE a.text # <<>>
  <2> DEFINE item == CurrentTextID(a)
             made == TurnPart("text", item, NoId, a.text, a.textSig)
             f == [a EXCEPT !.parts = Append(@, made),
                            !.textSigs = Noted(@, item, a.textSig),
                            !.text = <<>>, !.textSig = NoSig, !.textCount = @ + 1]
  <2>1. FlushPendingText(a) = f
    BY <1>2 DEF FlushPendingText, HasPendingText
  <2>2. item \in Items
    BY <1>2, BoundsAssumption DEF Accumulator, Items, CurrentTextID
  <2>3. made \in TurnParts
    BY <2>2 DEF made, TurnPart, TurnParts, Accumulator
  <2> HIDE DEF made, item
  <2>4. /\ DOMAIN f = DOMAIN a
        /\ f.parts = Append(a.parts, made) /\ f.text = <<>> /\ f.textSig = NoSig
        /\ f.textCount = a.textCount + 1
        /\ f.order = a.order /\ f.thought = a.thought /\ f.hasThought = a.hasThought
        /\ f.bridge = a.bridge
    BY KnownFields DEF Accumulator
  <2> HIDE DEF f
  <2>5. f.parts \in Seq(TurnParts) /\ Len(f.parts) = Len(a.parts) + 1
    BY <2>3, <2>4 DEF Accumulator
  <2>6. Accumulator(f, n)
    BY <1>2, <2>4, <2>5 DEF Accumulator
  <2> QED BY <1>2, <2>1, <2>4, <2>6
<1> QED BY <1>1, <1>2

(* A thought, when no text is under way.                                   *)
LEMMA ThoughtAdds ==
  ASSUME NEW a, NEW n \in 0..MaxParts, Accumulator(a, n), a.text = <<>>,
         NEW part \in Parts, part.kind = "thought"
  PROVE  LET b == ProcessPart(a, part)
         IN /\ Accumulator(b, n + 1)
            /\ b.text = <<>> /\ b.textCount = a.textCount
            /\ b.hasThought /\ b.thought = a.thought \o part.body
<1> DEFINE b == [a EXCEPT !.hasThought = TRUE, !.order = Recorded(@, Reasoning),
                          !.thought = @ \o part.body]
<1>1. ProcessPart(a, part) = b
  BY FlushCommits DEF ProcessPart, ProcessThought
<1>2. /\ DOMAIN b = DOMAIN a
      /\ b.hasThought = TRUE /\ b.order = Recorded(a.order, Reasoning)
      /\ b.thought = a.thought \o part.body
      /\ b.parts = a.parts /\ b.text = a.text /\ b.textSig = a.textSig
      /\ b.textCount = a.textCount /\ b.bridge = a.bridge
  BY KnownFields DEF Accumulator
<1> HIDE DEF b
<1>3. b.order \in Seq(Items)
  BY <1>2, RecordedKnown DEF Accumulator, Items
<1>4. b.thought \in Seq(Nat)
  BY <1>2 DEF Accumulator, Parts
<1>5. Accumulator(b, n + 1)
  BY <1>2, <1>3, <1>4 DEF Accumulator
<1> QED BY <1>1, <1>2, <1>5

(* A call is new or updates its part in place, under an id of a call.      *)
LEMMA CallAdds ==
  ASSUME NEW a, NEW n \in 0..(MaxParts - 1), Accumulator(a, n), a.text = <<>>,
         NEW part \in Parts, part.kind = "call"
  PROVE  LET b == ProcessPart(a, part)
         IN /\ CallOf(a, part) \in CallItems
            /\ Accumulator(b, n + 1)
            /\ b.text = <<>> /\ b.textCount = a.textCount
            /\ b.hasThought = a.hasThought /\ b.thought = a.thought
<1>0. n \in 0..MaxParts /\ n + 1 \in 0..MaxParts
  BY BoundsAssumption
<1>1. Len(a.parts) \in 0..MaxParts
  <2>1. Len(a.parts) \in Nat
    BY DEF Accumulator
  <2>2. Len(a.parts) <= n
    BY DEF Accumulator
  <2> QED BY <1>0, <2>1, <2>2, BoundsAssumption
<1>2. CallOf(a, part) \in CallItems
  BY <1>1 DEF CallOf, CallItems, Accumulator, Parts
<1> DEFINE item == CallOf(a, part)
           known == Contains(a.calls, item)
           more == IF known
                   THEN [i \in DOMAIN a.parts |->
                           IF a.parts[i].item = item THEN Updated(a.parts[i], part) ELSE a.parts[i]]
                   ELSE Append(a.parts, TurnPart("call", item, part.id, part.body, part.sig))
           b == [a EXCEPT !.bridge = Bound(@, part, item),
                          !.toolSigs = Noted(@, item, part.sig),
                          !.parts = more,
                          !.order = Recorded(@, item),
                          !.calls = IF known THEN @ ELSE Append(@, item)]
<1>3. ProcessPart(a, part) = b
  <2>1. FlushPendingText(a) = a
    BY FlushCommits, <1>0
  <2> QED BY <2>1 DEF ProcessPart, ProcessCall
<1>4. more \in Seq(TurnParts) /\ Len(more) <= Len(a.parts) + 1
  <2>1. \A p \in TurnParts : Updated(p, part) \in TurnParts
    BY DEF Updated, TurnParts, Parts
  <2>2. item \in Items
    BY <1>2 DEF Items
  <2>3. TurnPart("call", item, part.id, part.body, part.sig) \in TurnParts
    BY <2>2 DEF TurnPart, TurnParts, Parts
  <2> HIDE DEF item
  <2>4. a.parts \in Seq(TurnParts)
    BY DEF Accumulator
  <2>5. CASE known
    <3>1. \A i \in 1..Len(a.parts) : more[i] \in TurnParts
      BY <2>1, <2>4, <2>5
    <3>2. more = [i \in 1..Len(a.parts) |-> more[i]]
      BY <2>4, <2>5
    <3> HIDE DEF more
    <3>3. Len(a.parts) \in Nat /\ more \in [1..Len(a.parts) -> TurnParts]
      <4>1. Len(a.parts) \in Nat
        BY <2>4
      <4> QED BY <4>1, <3>1, <3>2
    <3> QED BY <3>3, FunctionSeq
  <2>6. CASE ~known
    BY <2>3, <2>4, <2>6
  <2> QED BY <2>5, <2>6
<1>5. \A id \in DOMAIN Bound(a.bridge, part, item) : Bound(a.bridge, part, item)[id] \in CallItems
  BY <1>2 DEF Bound, Assigned, Accumulator
<1>6. Recorded(a.order, item) \in Seq(Items)
  BY <1>2, RecordedKnown DEF Accumulator, Items
<1> HIDE DEF more, item, known
<1>7. /\ DOMAIN b = DOMAIN a
      /\ b.parts = more /\ b.order = Recorded(a.order, item)
      /\ b.bridge = Bound(a.bridge, part, item)
      /\ b.hasThought = a.hasThought /\ b.thought = a.thought
      /\ b.text = a.text /\ b.textSig = a.textSig /\ b.textCount = a.textCount
  BY KnownFields DEF Accumulator
<1> HIDE DEF b
<1>8. Len(a.parts) <= Len(more)
  <2>1. a.parts \in Seq(TurnParts)
    BY DEF Accumulator
  <2>2. CASE known
    <3>1. more = [i \in 1..Len(a.parts) |-> more[i]]
      BY <2>1, <2>2 DEF more
    <3> QED BY <2>1, <3>1
  <2>3. CASE ~known
    BY <2>1, <2>3 DEF more
  <2> QED BY <2>2, <2>3
<1>9. Accumulator(b, n + 1)
  BY <1>0, <1>4, <1>5, <1>6, <1>7, <1>8 DEF Accumulator
<1> QED BY <1>2, <1>3, <1>7, <1>9 DEF item

(* A signature on its own changes no text and no number of parts.          *)
LEMMA SignatureNotes ==
  ASSUME NEW a, NEW n \in 0..MaxParts, Accumulator(a, n),
         NEW part \in Parts, part.kind = "text", part.body = <<>>
  PROVE  LET b == ProcessPart(a, part)
         IN /\ Accumulator(b, n + 1)
            /\ b.text = a.text /\ b.textCount = a.textCount
            /\ b.hasThought = a.hasThought /\ b.thought = a.thought
<1>1. CASE part.sig = NoSig
  <2>1. ProcessPart(a, part) = a
    BY <1>1 DEF ProcessPart
  <2>2. Accumulator(a, n + 1)
    BY BoundsAssumption DEF Accumulator
  <2> QED BY <2>1, <2>2
<1>2. CASE part.sig # NoSig /\ a.text # <<>>
  <2> DEFINE b == [a EXCEPT !.textSig = part.sig]
  <2>1. ProcessPart(a, part) = b
    BY <1>2 DEF ProcessPart, ProcessSignature
  <2>2. /\ DOMAIN b = DOMAIN a /\ b.textSig = part.sig
        /\ b.parts = a.parts /\ b.order = a.order /\ b.bridge = a.bridge
        /\ b.hasThought = a.hasThought /\ b.thought = a.thought
        /\ b.text = a.text /\ b.textCount = a.textCount
    BY KnownFields DEF Accumulator
  <2> HIDE DEF b
  <2>3. Accumulator(b, n + 1)
    BY <1>2, <2>2 DEF Accumulator, Parts
  <2> QED BY <2>1, <2>2, <2>3
<1>3. CASE part.sig # NoSig /\ a.text = <<>>
  <2> DEFINE target == SignatureTarget(a.parts)
             more == [i \in DOMAIN a.parts |->
                        IF i \in target THEN [a.parts[i] EXCEPT !.sig = part.sig] ELSE a.parts[i]]
             sigs == [m \in DOMAIN a.textSigs \cup {a.parts[i].item : i \in target} |->
                        IF \E i \in target : a.parts[i].item = m THEN part.sig ELSE a.textSigs[m]]
             b == [a EXCEPT !.parts = more, !.textSigs = sigs]
  <2>1. ProcessPart(a, part) = b
    BY <1>3 DEF ProcessPart, ProcessSignature
  <2>2. more \in Seq(TurnParts) /\ Len(more) = Len(a.parts)
    <3>1. a.parts \in Seq(TurnParts)
      BY DEF Accumulator
    <3>2. \A p \in TurnParts : [p EXCEPT !.sig = part.sig] \in TurnParts
      BY DEF TurnParts, Parts
    <3> HIDE DEF target
    <3>3. \A i \in 1..Len(a.parts) : more[i] \in TurnParts
      BY <3>1, <3>2
    <3>4. more = [i \in 1..Len(a.parts) |-> more[i]]
      BY <3>1
    <3> HIDE DEF more
    <3>5. Len(a.parts) \in Nat /\ more \in [1..Len(a.parts) -> TurnParts]
      <4>1. Len(a.parts) \in Nat
        BY <3>1
      <4> QED BY <4>1, <3>3, <3>4
    <3> QED BY <3>5, FunctionSeq
  <2> HIDE DEF more, sigs
  <2>3. /\ DOMAIN b = DOMAIN a /\ b.parts = more
        /\ b.order = a.order /\ b.bridge = a.bridge
        /\ b.hasThought = a.hasThought /\ b.thought = a.thought
        /\ b.text = a.text /\ b.textSig = a.textSig /\ b.textCount = a.textCount
    BY KnownFields DEF Accumulator
  <2> HIDE DEF b
  <2>4. Accumulator(b, n + 1)
    BY <2>2, <2>3 DEF Accumulator
  <2> QED BY <2>1, <2>3, <2>4
<1> QED BY <1>1, <1>2, <1>3

(* A piece of text joins the text under way when it carries the same       *)
(* signature.                                                              *)
LEMMA TextAdds ==
  ASSUME NEW a, NEW n \in 0..(MaxParts - 1), Accumulator(a, n),
         NEW part \in Parts, part.kind = "text", part.body # <<>>,
         a.text # <<>> => a.textSig = part.sig
  PROVE  LET b == ProcessPart(a, part)
         IN /\ Accumulator(b, n + 1)
            /\ b.text # <<>> /\ b.textCount = a.textCount
            /\ b.hasThought = a.hasThought /\ b.thought = a.thought
            /\ CurrentTextID(a) \in Items
<1> DEFINE b == [a EXCEPT !.order = Recorded(@, CurrentTextID(a)),
                          !.text = @ \o part.body,
                          !.textSig = IF part.sig = NoSig THEN @ ELSE part.sig]
<1>1. ProcessPart(a, part) = b
  BY DEF ProcessPart, ProcessText
<1>2. CurrentTextID(a) \in Items
  <2>1. Len(a.parts) \in Nat /\ a.textCount \in Nat /\ a.textCount <= Len(a.parts)
    BY DEF Accumulator
  <2>2. Len(a.parts) <= n
    BY DEF Accumulator
  <2>3. a.textCount \in 0..MaxParts
    BY <2>1, <2>2, BoundsAssumption
  <2> QED BY <2>3 DEF Items, CurrentTextID
<1>3. /\ DOMAIN b = DOMAIN a /\ b.order = Recorded(a.order, CurrentTextID(a))
      /\ b.text = a.text \o part.body
      /\ b.textSig = IF part.sig = NoSig THEN a.textSig ELSE part.sig
      /\ b.parts = a.parts /\ b.bridge = a.bridge
      /\ b.hasThought = a.hasThought /\ b.thought = a.thought /\ b.textCount = a.textCount
  BY KnownFields DEF Accumulator
<1> HIDE DEF b
<1>4. b.text \in Seq(Nat) /\ b.text # <<>>
  <2>1. a.text \in Seq(Nat) /\ part.body \in Seq(Nat)
    BY DEF Accumulator, Parts
  <2>2. Len(part.body) # 0
    BY <2>1
  <2>3. Len(b.text) # 0 /\ b.text \in Seq(Nat)
    <3>1. /\ b.text \in Seq(Nat) /\ Len(b.text) = Len(a.text) + Len(part.body)
          /\ Len(a.text) \in Nat /\ Len(part.body) \in Nat
      BY <1>3, <2>1, ConcatProperties
    <3>2. \A x, y \in Nat : y # 0 => x + y # 0
      OBVIOUS
    <3> QED BY <2>2, <3>1, <3>2
  <2> QED BY <2>3
<1>5. b.order \in Seq(Items)
  BY <1>2, <1>3, RecordedKnown DEF Accumulator
<1>6. b.textSig \in Sigs \cup {NoSig}
  BY <1>3 DEF Accumulator, Parts
<1>7. Accumulator(b, n + 1)
  BY <1>3, <1>4, <1>5, <1>6 DEF Accumulator
<1> QED BY <1>1, <1>2, <1>3, <1>4, <1>7

-----------------------------------------------------------------------------
-----------------------------------------------------------------------------
(* The events, one by one, and the places of the items.                    *)

(* A sequence is one over its own elements.                                *)
LEMMA SeqOfItems ==
  ASSUME NEW T, NEW s \in Seq(T)
  PROVE  s \in Seq(Range(s)) /\ DOMAIN s = 1..Len(s) /\ Len(s) \in Nat
<1>1. Len(s) \in Nat /\ DOMAIN s = 1..Len(s) /\ s \in [1..Len(s) -> T]
  OBVIOUS
<1>2. s \in [1..Len(s) -> Range(s)]
  BY <1>1 DEF Range
<1> QED BY <1>1, <1>2, FunctionSeq

(* A new item goes to the end and leaves the others alone.                 *)
LEMMA AddedItem ==
  ASSUME NEW s, s \in Seq(Range(s)), NEW id
  PROVE  LET t == Added(s, id)
         IN /\ t \in Seq(Range(t)) /\ Len(s) \in Nat
            /\ DOMAIN s = 1..Len(s) /\ DOMAIN t = 1..(Len(s) + 1) /\ Len(t) = Len(s) + 1
            /\ t[Len(s) + 1] = [id |-> id, deltas |-> <<>>, done |-> <<>>]
            /\ \A i \in 1..Len(s) : t[i] = s[i]
<1> DEFINE item == [id |-> id, deltas |-> <<>>, done |-> <<>>]
           T == Range(s) \cup {item}
           t == Append(s, item)
<1>1. s \in Seq(T) /\ item \in T
  BY SeqMonotonic
<1> HIDE DEF T, item
<1>2. /\ t \in Seq(T) /\ Len(s) \in Nat
      /\ DOMAIN s = 1..Len(s) /\ Len(t) = Len(s) + 1
      /\ t[Len(s) + 1] = item
      /\ \A i \in 1..Len(s) : t[i] = s[i]
  BY <1>1
<1> HIDE DEF t
<1>3. t \in Seq(Range(t)) /\ DOMAIN t = 1..Len(t)
  BY <1>2, SeqOfItems
<1> QED BY <1>2, <1>3 DEF Added, item, t

(* An item changed in place leaves the others alone.                       *)
LEMMA ChangedItem ==
  ASSUME NEW s, s \in Seq(Range(s)), NEW n \in DOMAIN s, NEW item
  PROVE  LET t == [s EXCEPT ![n] = item]
         IN /\ t \in Seq(Range(t)) /\ Len(s) \in Nat
            /\ DOMAIN s = 1..Len(s) /\ DOMAIN t = DOMAIN s /\ Len(t) = Len(s)
            /\ t[n] = item
            /\ \A i \in DOMAIN s : i # n => t[i] = s[i]
<1> DEFINE T == Range(s) \cup {item}
           t == [s EXCEPT ![n] = item]
<1>1. s \in Seq(T) /\ item \in T
  BY SeqMonotonic
<1> HIDE DEF T
<1>2. Len(s) \in Nat /\ DOMAIN s = 1..Len(s)
  OBVIOUS
<1>3. t \in Seq(T) /\ Len(t) = Len(s)
  BY <1>1, <1>2, ExceptSeq
<1>4. /\ t[n] = item /\ DOMAIN t = DOMAIN s
      /\ \A i \in DOMAIN s : i # n => t[i] = s[i]
  OBVIOUS
<1> HIDE DEF t
<1>5. t \in Seq(Range(t))
  BY <1>3, SeqOfItems
<1> QED BY <1>2, <1>3, <1>4, <1>5 DEF t

(* A new item goes to the end, under an id no other item has.              *)
LEMMA FreshItem ==
  ASSUME NEW s, ItemsKnown(s), NEW id \in Items, \A i \in DOMAIN s : s[i].id # id
  PROVE  LET t == Added(s, id)
             new == Len(s) + 1
         IN /\ ItemsKnown(t)
            /\ DOMAIN t = DOMAIN s \cup {new} /\ new \notin DOMAIN s /\ new # 0
            /\ Len(s) \in Nat /\ Len(t) = new
            /\ t[new].id = id /\ t[new].deltas = <<>> /\ t[new].done = <<>>
            /\ \A i \in DOMAIN s : t[i] = s[i]
<1> DEFINE t == Added(s, id)
           new == Len(s) + 1
<1>0. s \in Seq(Range(s))
  BY DEF ItemsKnown
<1>1. /\ t \in Seq(Range(t)) /\ Len(s) \in Nat
      /\ DOMAIN s = 1..Len(s) /\ DOMAIN t = 1..new /\ Len(t) = new
      /\ t[new] = [id |-> id, deltas |-> <<>>, done |-> <<>>]
      /\ \A i \in 1..Len(s) : t[i] = s[i]
  BY <1>0, AddedItem
<1>2. DOMAIN t = DOMAIN s \cup {new} /\ new \notin DOMAIN s /\ new # 0
  BY <1>1
<1> HIDE DEF t, new
<1>3. t[new].id = id /\ t[new].deltas = <<>> /\ t[new].done = <<>>
  BY <1>1
<1>4. t[new] = [id |-> t[new].id, deltas |-> t[new].deltas, done |-> t[new].done]
  BY <1>1
<1>5. ASSUME NEW i \in DOMAIN t
      PROVE  /\ t[i] = [id |-> t[i].id, deltas |-> t[i].deltas, done |-> t[i].done]
             /\ t[i].id \in Items /\ t[i].deltas \in Seq(Nat)
  <2>1. CASE i = new
    <3>1. t[new].id \in Items /\ t[new].deltas \in Seq(Nat)
      BY <1>3
    <3> QED BY <1>4, <2>1, <3>1, Zenon
  <2>2. CASE i \in DOMAIN s
    BY <1>1, <2>2 DEF ItemsKnown
  <2> QED BY <1>2, <2>1, <2>2
<1>6. ASSUME NEW i \in DOMAIN t, NEW j \in DOMAIN t, t[i].id = t[j].id PROVE i = j
  BY <1>1, <1>2, <1>3, <1>6 DEF ItemsKnown
<1>7. ItemsKnown(t)
  BY <1>1, <1>5, <1>6 DEF ItemsKnown
<1> QED BY <1>1, <1>2, <1>3, <1>7 DEF t, new

(* The places depend on the accumulator only through the text under way    *)
(* and whether there was a thought.                                        *)
LEMMA SamePlaces ==
  ASSUME NEW a, NEW b, NEW m, NEW r, NEW calls, NEW s, Places(a, m, r, calls, s),
         b.text # <<>> <=> a.text # <<>>, b.textCount = a.textCount,
         b.hasThought => a.hasThought
  PROVE  Places(b, m, r, calls, s)
<1>1. \A i \in DOMAIN s : OpenOrFlushed(b, m, r, calls, s, i)
  BY DEF Places, OpenOrFlushed, CurrentTextID
<1>2. IndexesRight(b, m, r, calls, s)
  BY DEF Places, IndexesRight, CurrentTextID
<1> QED BY <1>1, <1>2 DEF Places

(* An item that did not change but for its deltas is where it was.         *)
LEMMA StaysPut ==
  ASSUME NEW a, NEW m, NEW r, NEW calls, NEW s, NEW t, NEW i,
         OpenOrFlushed(a, m, r, calls, s, i), t[i].id = s[i].id, t[i].done = s[i].done
  PROVE  OpenOrFlushed(a, m, r, calls, t, i)
BY DEF OpenOrFlushed

(* A delta extends an open item.                                           *)
LEMMA DeltaPlaces ==
  ASSUME NEW a, NEW m, NEW r, NEW calls, NEW s, Places(a, m, r, calls, s),
         NEW n \in DOMAIN s, s[n].done = <<>>, NEW id, NEW body \in Seq(Nat)
  PROVE  LET t == Delta(s, n, id, body)
         IN /\ Places(a, m, r, calls, t)
            /\ DOMAIN t = DOMAIN s /\ Len(t) = Len(s)
            /\ \A i \in DOMAIN s : i # n => t[i] = s[i]
            /\ t[n].id = s[n].id /\ t[n].done = <<>>
<1>1. CASE s[n].id # id
  BY <1>1 DEF Delta, Places, ItemsKnown
<1>2. CASE s[n].id = id
  <2> DEFINE more == s[n].deltas \o body
             item == [id |-> id, deltas |-> more, done |-> <<>>]
             t == [s EXCEPT ![n] = item]
  <2>1. s[n] = [id |-> id, deltas |-> s[n].deltas, done |-> <<>>] /\ s[n].deltas \in Seq(Nat)
    BY <1>2 DEF Places, ItemsKnown
  <2>2. Delta(s, n, id, body) = t
    <3>1. Delta(s, n, id, body) = [s EXCEPT ![n] = [s[n] EXCEPT !.deltas = more]]
      BY <1>2 DEF Delta
    <3> HIDE DEF more
    <3>2. \A x : x = [id |-> id, deltas |-> s[n].deltas, done |-> <<>>]
                 => [x EXCEPT !.deltas = more] = item
      OBVIOUS
    <3>3. [s[n] EXCEPT !.deltas = more] = item
      BY <2>1, <3>2
    <3> QED BY <3>1, <3>3
  <2>3. more \in Seq(Nat)
    BY <2>1, ConcatProperties
  <2> HIDE DEF more
  <2>4. item.id = s[n].id /\ item.deltas = more /\ item.done = s[n].done
    BY <1>2
  <2>5. item = [id |-> item.id, deltas |-> item.deltas, done |-> item.done]
    OBVIOUS
  <2> HIDE DEF item
  <2>6. /\ t \in Seq(Range(t)) /\ DOMAIN t = DOMAIN s /\ Len(t) = Len(s)
        /\ t[n] = item /\ \A i \in DOMAIN s : i # n => t[i] = s[i]
    <3>1. s \in Seq(Range(s))
      BY DEF Places, ItemsKnown
    <3> QED BY <3>1, ChangedItem
  <2> HIDE DEF t
  <2>7. \A i \in DOMAIN s : t[i].id = s[i].id /\ t[i].done = s[i].done
    BY <2>4, <2>6
  <2>8. \A i \in DOMAIN s : t[i].deltas \in Seq(Nat)
                            /\ t[i] = [id |-> t[i].id, deltas |-> t[i].deltas, done |-> t[i].done]
    BY <2>3, <2>4, <2>5, <2>6 DEF Places, ItemsKnown
  <2>9. ItemsKnown(t)
    BY <2>6, <2>7, <2>8 DEF Places, ItemsKnown
  <2>10. \A i \in DOMAIN t : OpenOrFlushed(a, m, r, calls, t, i)
    BY <2>6, <2>7, StaysPut DEF Places
  <2>11. IndexesRight(a, m, r, calls, t)
    BY <2>6, <2>7 DEF Places, IndexesRight
  <2>12. Places(a, m, r, calls, t)
    BY <2>9, <2>10, <2>11 DEF Places
  <2> QED BY <2>1, <2>2, <2>4, <2>6, <2>12 DEF more
<1> QED BY <1>1, <1>2

(* A delta is put behind what the item has, or is not for it.              *)
LEMMA DeltaExtends ==
  ASSUME NEW s, ItemsKnown(s), NEW n \in DOMAIN s, NEW id, NEW body
  PROVE  \/ Delta(s, n, id, body)[n].deltas = s[n].deltas
         \/ Delta(s, n, id, body)[n].deltas = s[n].deltas \o body
<1>1. CASE s[n].id # id
  BY <1>1 DEF Delta
<1>2. CASE s[n].id = id
  <2> DEFINE x == s[n]
             y == [x EXCEPT !.deltas = x.deltas \o body]
  <2>1. y.deltas = x.deltas \o body
    <3>1. x = [id |-> x.id, deltas |-> x.deltas, done |-> x.done]
      BY DEF ItemsKnown
    <3> HIDE DEF x
    <3> QED BY <3>1
  <2>2. Delta(s, n, id, body)[n] = y
    <3>1. Delta(s, n, id, body) = [s EXCEPT ![n] = y]
      BY <1>2 DEF Delta
    <3> HIDE DEF y
    <3> QED BY <3>1
  <2> QED BY <2>1, <2>2
<1> QED BY <1>1, <1>2

(* The reasoning item is announced at the end, once.                       *)
LEMMA ReasoningPlaces ==
  ASSUME NEW a, NEW m, NEW calls, NEW s, Places(a, m, 0, calls, s),
         NEW b, b.text # <<>> <=> a.text # <<>>, b.textCount = a.textCount
  PROVE  Places(b, m, Len(s) + 1, calls, Added(s, Reasoning))
<1> DEFINE t == Added(s, Reasoning)
           new == Len(s) + 1
<1>1. DOMAIN s = 1..Len(s) /\ Len(s) \in Nat /\ 0 \notin DOMAIN s
  BY SeqOfItems DEF Places, ItemsKnown
<1>2. ASSUME NEW i \in DOMAIN s PROVE s[i].id # Reasoning
  <2>1. OpenOrFlushed(a, m, 0, calls, s, i) /\ i # 0
    BY <1>1 DEF Places
  <2>2. \A c \in DOMAIN calls : c \in CallItems
    BY DEF Places, IndexesRight
  <2> QED BY <2>1, <2>2, IdsDiffer DEF OpenOrFlushed, CurrentTextID
<1>3. /\ ItemsKnown(t)
      /\ DOMAIN t = DOMAIN s \cup {new} /\ new \notin DOMAIN s /\ new # 0
      /\ t[new].id = Reasoning /\ t[new].done = <<>>
      /\ \A i \in DOMAIN s : t[i] = s[i]
  <2>1. Reasoning \in Items
    BY DEF Items
  <2> QED BY <1>2, <2>1, FreshItem DEF Places
<1> HIDE DEF t, new
<1>4. ASSUME NEW i \in DOMAIN t PROVE OpenOrFlushed(b, m, new, calls, t, i)
  <2>1. CASE i = new
    BY <1>3, <2>1 DEF OpenOrFlushed
  <2>2. CASE i \in DOMAIN s
    <3>1. OpenOrFlushed(a, m, 0, calls, s, i) /\ t[i] = s[i] /\ i # 0
      BY <1>1, <1>3, <2>2 DEF Places
    <3> QED BY <3>1 DEF OpenOrFlushed, CurrentTextID
  <2> QED BY <1>3, <2>1, <2>2
<1>5. IndexesRight(b, m, new, calls, t)
  BY <1>3 DEF Places, IndexesRight, CurrentTextID
<1>6. Places(b, m, new, calls, t)
  BY <1>3, <1>4, <1>5 DEF Places
<1> QED BY <1>6 DEF t, new

(* A call is announced at the end, when it is not known.                   *)
LEMMA CallPlaces ==
  ASSUME NEW a, NEW m, NEW r, NEW calls, NEW s, Places(a, m, r, calls, s),
         NEW c \in CallItems, c \notin DOMAIN calls
  PROVE  Places(a, m, r, Assigned(calls, c, Len(s) + 1), Added(s, c))
<1> DEFINE t == Added(s, c)
           new == Len(s) + 1
           more == Assigned(calls, c, new)
<1>1. /\ DOMAIN more = DOMAIN calls \cup {c} /\ more[c] = new
      /\ \A d \in DOMAIN calls : more[d] = calls[d]
  BY DEF Assigned
<1>2. ASSUME NEW i \in DOMAIN s PROVE s[i].id # c
  <2>1. OpenOrFlushed(a, m, r, calls, s, i)
    BY DEF Places
  <2> QED BY <2>1, IdsDiffer DEF OpenOrFlushed, CurrentTextID
<1>3. /\ ItemsKnown(t)
      /\ DOMAIN t = DOMAIN s \cup {new} /\ new \notin DOMAIN s /\ new # 0
      /\ t[new].id = c /\ t[new].done = <<>>
      /\ \A i \in DOMAIN s : t[i] = s[i]
  <2>1. c \in Items
    BY DEF Items
  <2> QED BY <1>2, <2>1, FreshItem DEF Places
<1> HIDE DEF t, new, more
<1>4. ASSUME NEW i \in DOMAIN t PROVE OpenOrFlushed(a, m, r, more, t, i)
  <2>1. CASE i = new
    BY <1>1, <1>3, <2>1 DEF OpenOrFlushed
  <2>2. CASE i \in DOMAIN s
    <3>1. OpenOrFlushed(a, m, r, calls, s, i) /\ t[i] = s[i]
      BY <1>3, <2>2 DEF Places
    <3> QED BY <1>1, <3>1 DEF OpenOrFlushed
  <2> QED BY <1>3, <2>1, <2>2
<1>5. IndexesRight(a, m, r, more, t)
  <2>1. IndexesRight(a, m, r, calls, s)
    BY DEF Places
  <2>2. ASSUME NEW d \in DOMAIN more
        PROVE  d \in CallItems /\ more[d] \in DOMAIN t /\ t[more[d]].id = d
    BY <1>1, <1>3, <2>1 DEF IndexesRight
  <2> QED BY <1>3, <2>1, <2>2 DEF IndexesRight
<1>6. Places(a, m, r, more, t)
  BY <1>3, <1>4, <1>5 DEF Places
<1> QED BY <1>6 DEF t, new, more

(* A message is announced at the end with its first piece.                 *)
LEMMA MessagePlaces ==
  ASSUME NEW a, NEW r, NEW calls, NEW s, Places(a, 0, r, calls, s),
         CurrentTextID(a) \in Items, a.textCount \in Nat,
         NEW b, b.text # <<>>, b.textCount = a.textCount, b.hasThought = a.hasThought
  PROVE  Places(b, Len(s) + 1, r, calls, Added(s, CurrentTextID(a)))
<1> DEFINE t == Added(s, CurrentTextID(a))
           new == Len(s) + 1
<1>1. DOMAIN s = 1..Len(s) /\ Len(s) \in Nat /\ 0 \notin DOMAIN s
  BY SeqOfItems DEF Places, ItemsKnown
<1>2. ASSUME NEW i \in DOMAIN s, s[i].id = CurrentTextID(a) PROVE FALSE
  <2>1. OpenOrFlushed(a, 0, r, calls, s, i) /\ i # 0
    BY <1>1 DEF Places
  <2>2. s[i].id # Reasoning /\ s[i].id \notin CallItems
    BY <1>2, IdsDiffer DEF CurrentTextID
  <2>3. \A c \in DOMAIN calls : c \in CallItems
    BY DEF Places, IndexesRight
  <2>4. PICK n \in 0..(a.textCount - 1) : s[i].id = Message(n)
    BY <2>1, <2>2, <2>3 DEF OpenOrFlushed
  <2>5. n = a.textCount
    BY <1>2, <2>4, IdsDiffer DEF CurrentTextID
  <2> QED BY <2>5
<1>3. /\ ItemsKnown(t)
      /\ DOMAIN t = DOMAIN s \cup {new} /\ new \notin DOMAIN s /\ new # 0
      /\ t[new].id = CurrentTextID(a) /\ t[new].done = <<>>
      /\ \A i \in DOMAIN s : t[i] = s[i]
  BY <1>2, FreshItem DEF Places
<1> HIDE DEF t, new
<1>4. CurrentTextID(b) = CurrentTextID(a)
  BY DEF CurrentTextID
<1>5. ASSUME NEW i \in DOMAIN t PROVE OpenOrFlushed(b, new, r, calls, t, i)
  <2>1. CASE i = new
    BY <1>3, <1>4, <2>1 DEF OpenOrFlushed
  <2>2. CASE i \in DOMAIN s
    <3>1. OpenOrFlushed(a, 0, r, calls, s, i) /\ t[i] = s[i] /\ i # 0
      BY <1>1, <1>3, <2>2 DEF Places
    <3> QED BY <3>1 DEF OpenOrFlushed
  <2> QED BY <1>3, <2>1, <2>2
<1>6. IndexesRight(b, new, r, calls, t)
  BY <1>3, <1>4 DEF Places, IndexesRight
<1>7. Places(b, new, r, calls, t)
  BY <1>3, <1>5, <1>6 DEF Places
<1> QED BY <1>7 DEF t, new

-----------------------------------------------------------------------------
(* The two halves of flushCurrentMsg commit the same text: the accumulator *)
(* takes it as a part, its message is finished, and no message is open.    *)
LEMMA FlushPlaces ==
  ASSUME NEW n \in 0..MaxParts, Accumulator(acc, n),
         NEW r, NEW calls, NEW s, Places(acc, msgIndex, r, calls, s)
  PROVE  LET t == MessageFlushed(acc, s)
         IN /\ Accumulator(Flushed(acc), n) /\ Flushed(acc).text = <<>>
            /\ Flushed(acc) = FlushPendingText(acc)
            /\ Flushed(acc).thought = acc.thought
            /\ Flushed(acc).hasThought = acc.hasThought
            /\ Places(Flushed(acc), 0, r, calls, t)
            /\ StillOpen(Flushed(acc)) = 0
            /\ DOMAIN t = DOMAIN s /\ Len(t) = Len(s)
            /\ \A i \in DOMAIN s :
                 \/ t[i] = s[i]
                 \/ s[i].done = <<>> /\ t[i].id = s[i].id /\ t[i].deltas = s[i].deltas
<1>1. msgIndex # 0 <=> acc.text # <<>>
  BY DEF Places, IndexesRight
<1> DEFINE f == FlushPendingText(acc)
<1>2. /\ Accumulator(f, n) /\ f.text = <<>> /\ f.textSig = NoSig
      /\ f.thought = acc.thought /\ f.hasThought = acc.hasThought
      /\ acc.text = <<>> => f = acc
      /\ acc.text # <<>> => f.textCount = acc.textCount + 1
  BY FlushCommits
<1>3. Flushed(acc) = f
  BY <1>1, <1>2 DEF Flushed
<1>4. StillOpen(Flushed(acc)) = 0
  BY <1>2, <1>3 DEF StillOpen, HasPendingText
<1>5. CASE msgIndex = 0
  <2>1. MessageFlushed(acc, s) = s /\ f = acc
    BY <1>1, <1>2, <1>5 DEF MessageFlushed
  <2> QED BY <1>2, <1>3, <1>4, <1>5, <2>1
<1>6. CASE msgIndex # 0
  <2> DEFINE output == OutputItem(CurrentTextID(acc), acc.text, acc.textSig)
             item == [s[msgIndex] EXCEPT !.done = Append(@, output)]
             t == [s EXCEPT ![msgIndex] = item]
  <2> HIDE DEF output
  <2>1. MessageFlushed(acc, s) = t
    BY <1>1, <1>6 DEF MessageFlushed, ItemDone, HasPendingText, output
  <2>2. /\ msgIndex \in DOMAIN s /\ s[msgIndex].id = CurrentTextID(acc)
        /\ \A i \in DOMAIN s : s[i].id = CurrentTextID(acc) => i = msgIndex
    BY <1>6 DEF Places, IndexesRight, ItemsKnown
  <2>3. s[msgIndex].done = <<>>
    <3>1. OpenOrFlushed(acc, msgIndex, r, calls, s, msgIndex)
      BY <2>2 DEF Places
    <3>2. acc.textCount \in Nat
      BY DEF Accumulator
    <3>3. \A k \in 0..(acc.textCount - 1) : s[msgIndex].id # Message(k)
      BY <2>2, <3>2, IdsDiffer DEF CurrentTextID
    <3> QED BY <3>1, <3>3 DEF OpenOrFlushed
  <2>4. s[msgIndex] = [id |-> s[msgIndex].id, deltas |-> s[msgIndex].deltas,
                       done |-> s[msgIndex].done]
    BY <2>2 DEF Places, ItemsKnown
  <2>5. /\ item.id = s[msgIndex].id /\ item.deltas = s[msgIndex].deltas
        /\ Len(item.done) = 1
        /\ item = [id |-> item.id, deltas |-> item.deltas, done |-> item.done]
    <3>1. Len(Append(<<>>, output)) = 1
      OBVIOUS
    <3> DEFINE x == s[msgIndex]
    <3>2. /\ item.id = x.id /\ item.deltas = x.deltas /\ item.done = Append(<<>>, output)
          /\ item = [id |-> x.id, deltas |-> x.deltas, done |-> Append(<<>>, output)]
      BY <2>3, <2>4
    <3> HIDE DEF item
    <3> QED BY <3>1, <3>2
  <2> HIDE DEF item
  <2>6. /\ t \in Seq(Range(t)) /\ DOMAIN t = DOMAIN s /\ Len(t) = Len(s)
        /\ t[msgIndex] = item /\ \A i \in DOMAIN s : i # msgIndex => t[i] = s[i]
    <3>1. s \in Seq(Range(s))
      BY DEF Places, ItemsKnown
    <3> QED BY <2>2, <3>1, ChangedItem
  <2> HIDE DEF t
  <2>7. \A i \in DOMAIN s : t[i].id = s[i].id /\ t[i].deltas = s[i].deltas
    BY <2>5, <2>6
  <2>8. ItemsKnown(t)
    <3>1. ASSUME NEW i \in DOMAIN s
          PROVE  t[i] = [id |-> t[i].id, deltas |-> t[i].deltas, done |-> t[i].done]
      BY <2>5, <2>6 DEF Places, ItemsKnown
    <3> QED BY <2>6, <2>7, <3>1 DEF Places, ItemsKnown
  <2>9. f.textCount = acc.textCount + 1 /\ acc.textCount \in Nat
    BY <1>1, <1>2, <1>6 DEF Accumulator
  <2>10. ASSUME NEW i \in DOMAIN t PROVE OpenOrFlushed(f, 0, r, calls, t, i)
    <3>1. CASE i = msgIndex
      <4>1. t[i].id = Message(acc.textCount) /\ Len(t[i].done) = 1
        BY <2>2, <2>5, <2>6, <3>1 DEF CurrentTextID
      <4>2. acc.textCount \in 0..(f.textCount - 1)
        BY <2>9
      <4> QED BY <4>1, <4>2 DEF OpenOrFlushed
    <3>2. CASE i # msgIndex
      <4>1. t[i] = s[i] /\ OpenOrFlushed(acc, msgIndex, r, calls, s, i)
        BY <2>6, <3>2 DEF Places
      <4>2. \A k \in 0..(acc.textCount - 1) : k \in 0..(f.textCount - 1)
        BY <2>9
      <4> QED BY <3>2, <4>1, <4>2 DEF OpenOrFlushed
    <3> QED BY <3>1, <3>2
  <2>11. IndexesRight(f, 0, r, calls, t)
    <3>1. IndexesRight(acc, msgIndex, r, calls, s)
      BY DEF Places
    <3> QED BY <1>2, <2>6, <2>7, <3>1 DEF IndexesRight
  <2>12. Places(f, 0, r, calls, t)
    BY <2>8, <2>10, <2>11, <2>6 DEF Places
  <2> QED BY <1>2, <1>3, <1>4, <2>1, <2>3, <2>6, <2>7, <2>12
<1> QED BY <1>5, <1>6

-----------------------------------------------------------------------------
(* Handing out the next part.                                              *)
LEMMA Splitting ==
  ASSUME NEW S, NEW s \in Seq(S), NEW k \in 0..Len(s), NEW p, p \in Seq(S),
         p = SubSeq(s, k + 1, Len(s)), p # <<>>
  PROVE  /\ k + 1 \in 0..Len(s) /\ Head(p) \in S
         /\ Tail(p) = SubSeq(s, k + 2, Len(s)) /\ Tail(p) \in Seq(S)
         /\ Len(p) = Len(s) - k /\ Len(Tail(p)) = Len(s) - (k + 1)
         /\ SubSeq(s, 1, k + 1) = Append(SubSeq(s, 1, k), Head(p))
         /\ SubSeq(s, 1, k) \in Seq(S)
<1>1. Len(s) \in Nat /\ k \in Nat /\ k <= Len(s)
  OBVIOUS
<1>2. k < Len(s)
  <2>1. k = Len(s) => p = <<>>
    BY <1>1
  <2> QED BY <1>1, <2>1
<1>3. Len(p) = Len(s) - k /\ \A i \in 1..Len(p) : p[i] = s[k + i]
  BY <1>1, <1>2
<1>4. Head(p) = s[k + 1] /\ Head(p) \in S
  BY <1>1, <1>2, <1>3
<1>5. Tail(p) \in Seq(S) /\ Len(Tail(p)) = Len(p) - 1
      /\ \A i \in 1..(Len(p) - 1) : Tail(p)[i] = p[i + 1]
  BY HeadTailProperties
<1> DEFINE q == SubSeq(s, k + 2, Len(s))
<1>6. /\ q \in Seq(S) /\ Len(q) = Len(s) - (k + 1)
      /\ \A i \in 1..(Len(s) - (k + 1)) : q[i] = s[k + 1 + i]
  BY <1>1, <1>2
<1> HIDE DEF q
<1>7. Tail(p) = q
  <2> DEFINE t == Tail(p)
             n == Len(s) - (k + 1)
  <2>1. t \in Seq(S) /\ Len(t) = Len(p) - 1 /\ \A i \in 1..(Len(p) - 1) : t[i] = p[i + 1]
    BY <1>5
  <2>2. Len(p) - 1 = n /\ n \in Nat
    BY <1>1, <1>2, <1>3
  <2> HIDE DEF t, n
  <2>3. Len(t) = n /\ Len(q) = n /\ q \in Seq(S)
    BY <1>6, <2>1, <2>2 DEF n
  <2>4. ASSUME NEW i \in 1..n
        PROVE  t[i] = q[i]
    <3>1. i + 1 \in 1..Len(p) /\ k + (i + 1) = k + 1 + i
      BY <1>1, <1>2, <1>3 DEF n
    <3>2. t[i] = p[i + 1]
      BY <2>1, <2>2
    <3>3. p[i + 1] = s[k + (i + 1)]
      BY <1>3, <3>1
    <3>4. q[i] = s[k + 1 + i]
      BY <1>6 DEF n
    <3> QED BY <3>1, <3>2, <3>3, <3>4
  <2> QED BY <2>1, <2>3, <2>4, SeqEqual DEF t
<1>8. SubSeq(s, 1, k) \in Seq(S) /\ Len(SubSeq(s, 1, k)) = k
      /\ \A i \in 1..k : SubSeq(s, 1, k)[i] = s[i]
  BY <1>1
<1>9. SubSeq(s, 1, k + 1) \in Seq(S) /\ Len(SubSeq(s, 1, k + 1)) = k + 1
      /\ \A i \in 1..(k + 1) : SubSeq(s, 1, k + 1)[i] = s[i]
  BY <1>1, <1>2
<1>10. SubSeq(s, 1, k + 1) = Append(SubSeq(s, 1, k), s[k + 1])
  <2> DEFINE r == SubSeq(s, 1, k)
             l == SubSeq(s, 1, k + 1)
             e == s[k + 1]
  <2>1. e \in S
    BY <1>1, <1>2
  <2> HIDE DEF r, l, e
  <2>2. Append(r, e) \in Seq(S) /\ Len(Append(r, e)) = k + 1 /\ Append(r, e)[k + 1] = e
        /\ \A i \in 1..k : Append(r, e)[i] = r[i]
    BY <1>1, <1>8, <2>1 DEF r
  <2>3. \A i \in 1..(k + 1) : l[i] = Append(r, e)[i]
    BY <1>1, <1>8, <1>9, <2>2 DEF r, l, e
  <2> QED BY <1>9, <2>2, <2>3, SeqEqual DEF r, l, e
<1>11. k + 1 \in 0..Len(s)
  BY <1>1, <1>2
<1>12. Len(Tail(p)) = Len(s) - (k + 1)
  BY <1>5, <1>6, <1>7
<1> QED BY <1>3, <1>4, <1>5, <1>7, <1>8, <1>10, <1>11, <1>12, Zenon DEF q

(* The decoder hands the parts out in the order they arrived.              *)
LEMMA NextInOrder ==
  ASSUME PartsInOrder, NEW part, NextPart(part)
  PROVE  /\ PartsInOrder' /\ part \in Parts
         /\ Handled \in 0..(MaxParts - 1) /\ Handled' = Handled + 1
         /\ SubSeq(arrived, 1, Handled) \in Seq(Parts)
         /\ SubSeq(arrived, 1, Handled)' = Append(SubSeq(arrived, 1, Handled), part)
<1>1. /\ arrived \in Seq(Parts) /\ pendingParts \in Seq(Parts) /\ pendingParts # <<>>
      /\ Len(arrived) \in Nat /\ Len(pendingParts) \in Nat
      /\ Len(pendingParts) <= Len(arrived) /\ Len(arrived) <= MaxParts
      /\ part = Head(pendingParts) /\ pendingParts' = Tail(pendingParts) /\ arrived' = arrived
  BY DEF PartsInOrder, NextPart
<1>2. Handled \in 0..Len(arrived) /\ pendingParts = SubSeq(arrived, Handled + 1, Len(arrived))
  BY <1>1 DEF PartsInOrder, Handled
<1>3. /\ Handled + 1 \in 0..Len(arrived) /\ part \in Parts
      /\ pendingParts' = SubSeq(arrived, Handled + 2, Len(arrived)) /\ pendingParts' \in Seq(Parts)
      /\ Len(pendingParts') = Len(arrived) - (Handled + 1)
      /\ SubSeq(arrived, 1, Handled + 1) = Append(SubSeq(arrived, 1, Handled), part)
      /\ SubSeq(arrived, 1, Handled) \in Seq(Parts)
  BY <1>1, <1>2, Splitting
<1>4. Handled' = Handled + 1 /\ Handled \in 0..(MaxParts - 1)
  <2>1. Handled' = Len(arrived) - Len(pendingParts')
    BY <1>1 DEF Handled
  <2> QED BY <1>1, <1>2, <1>3, <2>1, BoundsAssumption
<1>5. PartsInOrder'
  <2>1. Handled' + 1 = Handled + 2 /\ Len(pendingParts') <= Len(arrived)
    BY <1>1, <1>2, <1>3, <1>4
  <2> QED BY <1>1, <1>3, <2>1 DEF PartsInOrder
<1> QED BY <1>1, <1>3, <1>4, <1>5

-----------------------------------------------------------------------------
(* The handlers of the event loop.  Each takes the part into the           *)
(* accumulator as the unstreamed handler does, keeps the places, and only  *)
(* lets the client's items evolve.                                         *)
Grows(s, t) ==
  Len(t) >= Len(s) /\ \A i \in DOMAIN s : Client!Evolves(s[i], t[i])

(* What is put behind a sequence keeps it as a prefix.                     *)
LEMMA PrefixOfConcat ==
  ASSUME NEW s \in Seq(Nat), NEW body \in Seq(Nat)
  PROVE  Client!IsPrefix(s, s) /\ Client!IsPrefix(s, s \o body)
<1>1. Len(s) \in Nat /\ Len(body) \in Nat
  OBVIOUS
<1>2. s \o body \in Seq(Nat) /\ Len(s \o body) = Len(s) + Len(body)
      /\ \A i \in 1..Len(s) : (s \o body)[i] = s[i]
  BY <1>1, ConcatProperties
<1> DEFINE t == s \o body
<1> HIDE DEF t
<1>3. t \in Seq(Nat) /\ Len(t) \in Nat /\ Len(s) <= Len(t) /\ \A i \in 1..Len(s) : t[i] = s[i]
  BY <1>1, <1>2 DEF t
<1>4. SubSeq(s, 1, Len(s)) = SubSeq(t, 1, Len(s))
  BY <1>1, <1>3
<1> QED BY <1>1, <1>3, <1>4 DEF Client!IsPrefix, t

(* An item evolves when its deltas grow, or it is finished.                *)
LEMMA ItemEvolves ==
  ASSUME NEW old, NEW new, NEW body \in Seq(Nat), old.deltas \in Seq(Nat),
         new.id = old.id, old.done # <<>> => new = old,
         new.deltas = old.deltas \/ new.deltas = old.deltas \o body
  PROVE  Client!Evolves(old, new)
<1>1. Client!IsPrefix(old.deltas, new.deltas)
  BY PrefixOfConcat
<1> QED BY <1>1 DEF Client!Evolves

(* An item left alone evolves.                                             *)
LEMMA SameGrows ==
  ASSUME NEW s, ItemsKnown(s), NEW i \in DOMAIN s
  PROVE  Client!Evolves(s[i], s[i])
<1>1. s[i].deltas \in Seq(Nat)
  BY DEF ItemsKnown
<1>2. <<>> \in Seq(Nat)
  OBVIOUS
<1> QED BY <1>1, <1>2, ItemEvolves

(* A delta after a flush (s to t) and an announcement (t to u) keeps the   *)
(* places and lets the items evolve.                                       *)
LEMMA DeltaGrows ==
  ASSUME NEW s, ItemsKnown(s),
         NEW t, DOMAIN t = DOMAIN s, Len(t) = Len(s),
         \A i \in DOMAIN s :
           \/ t[i] = s[i]
           \/ s[i].done = <<>> /\ t[i].id = s[i].id /\ t[i].deltas = s[i].deltas,
         NEW a, NEW m, NEW r, NEW calls, NEW u, Places(a, m, r, calls, u),
         Len(u) >= Len(t), \A i \in DOMAIN t : i \in DOMAIN u /\ u[i] = t[i],
         NEW index \in DOMAIN u, u[index].done = <<>>,
         NEW id, NEW body \in Seq(Nat)
  PROVE  Places(a, m, r, calls, Delta(u, index, id, body)) /\ Grows(s, Delta(u, index, id, body))
<1> DEFINE v == Delta(u, index, id, body)
<1>1. /\ Places(a, m, r, calls, v)
      /\ DOMAIN v = DOMAIN u /\ Len(v) = Len(u)
      /\ v[index].id = u[index].id /\ v[index].done = <<>>
      /\ \A i \in DOMAIN u : i # index => v[i] = u[i]
  BY DeltaPlaces
<1>2. v[index].deltas = u[index].deltas \/ v[index].deltas = u[index].deltas \o body
  BY DeltaExtends DEF Places
<1> HIDE DEF v
<1>3. ASSUME NEW i \in DOMAIN s PROVE Client!Evolves(s[i], v[i])
  <2>1. u[i] = t[i] /\ i \in DOMAIN u /\ s[i].deltas \in Seq(Nat)
    BY DEF ItemsKnown
  <2>2. CASE i = index
    <3>1. /\ s[i].done = <<>> /\ v[i].id = s[i].id
          /\ v[i].deltas = s[i].deltas \/ v[i].deltas = s[i].deltas \o body
      BY <1>1, <1>2, <2>1, <2>2
    <3> QED BY <2>1, <3>1, ItemEvolves
  <2>3. CASE i # index
    <3>1. v[i] = t[i]
      BY <1>1, <2>1, <2>3
    <3>2. /\ v[i].deltas = s[i].deltas /\ v[i].id = s[i].id
          /\ s[i].done # <<>> => v[i] = s[i]
      BY <3>1
    <3> QED BY <2>1, <3>2, ItemEvolves
  <2> QED BY <2>2, <2>3
<1>4. Len(v) >= Len(s)
  BY <1>1
<1> QED BY <1>1, <1>3, <1>4 DEF Grows, v

(* responses.go, a thought: the open message is flushed, the reasoning     *)
(* item announced when it was not, and extended.                           *)
LEMMA ThoughtHandled ==
  ASSUME NEW n \in 0..(MaxParts - 1), Accumulator(acc, n),
         Places(acc, msgIndex, reasoningIndex, callIndexes, streamed),
         NEW part \in Parts, part.kind = "thought", OnThought(part)
  PROVE  /\ acc' = ProcessPart(acc, part) /\ Accumulator(acc', n + 1)
         /\ Places(acc', msgIndex', reasoningIndex', callIndexes', streamed')
         /\ Grows(streamed, streamed')
         /\ acc'.thought = acc.thought \o part.body
<1> DEFINE f == Flushed(acc)
           t == MessageFlushed(acc, streamed)
           u == AddedOnce(t, reasoningIndex, Reasoning)
           index == IF reasoningIndex = 0 THEN Len(u) ELSE reasoningIndex
<1>0. n \in 0..MaxParts
  BY BoundsAssumption
<1>1. /\ Accumulator(f, n) /\ f.text = <<>> /\ f = FlushPendingText(acc)
      /\ f.thought = acc.thought
      /\ Places(f, 0, reasoningIndex, callIndexes, t)
      /\ DOMAIN t = DOMAIN streamed /\ Len(t) = Len(streamed)
      /\ \A i \in DOMAIN streamed :
           \/ t[i] = streamed[i]
           \/ /\ streamed[i].done = <<>> /\ t[i].id = streamed[i].id
              /\ t[i].deltas = streamed[i].deltas
  BY <1>0, FlushPlaces
<1>2. FlushPendingText(f) = f
  BY <1>0, <1>1, FlushCommits
<1>3. /\ acc' = ProcessPart(f, part) /\ msgIndex' = 0 /\ reasoningIndex' = index
      /\ callIndexes' = callIndexes /\ streamed' = Delta(u, index, Reasoning, part.body)
  BY DEF OnThought
<1> HIDE DEF f, t
<1>4. acc' = ProcessPart(acc, part)
  BY <1>1, <1>2, <1>3 DEF ProcessPart, ProcessThought
<1>5. /\ Accumulator(acc', n + 1) /\ acc'.text = <<>> /\ acc'.textCount = f.textCount
      /\ acc'.thought = acc.thought \o part.body
  BY <1>0, <1>1, <1>3, ThoughtAdds
<1>6. /\ Places(acc', 0, index, callIndexes, u)
      /\ index \in DOMAIN u /\ index # 0 /\ u[index].done = <<>>
      /\ Len(u) >= Len(t) /\ \A i \in DOMAIN t : i \in DOMAIN u /\ u[i] = t[i]
  <2>0. Len(t) \in Nat /\ DOMAIN t = 1..Len(t)
    BY <1>1, SeqOfItems DEF Places, ItemsKnown
  <2>1. CASE reasoningIndex = 0
    <3>1. u = Added(t, Reasoning)
      BY <2>1 DEF AddedOnce
    <3>2. /\ Len(u) = Len(t) + 1 /\ DOMAIN u = 1..(Len(t) + 1)
          /\ u[Len(t) + 1].done = <<>> /\ \A i \in DOMAIN t : u[i] = t[i]
      <4>1. t \in Seq(Range(t))
        BY <1>1 DEF Places, ItemsKnown
      <4>2. LET v == Added(t, Reasoning)
            IN /\ Len(v) = Len(t) + 1 /\ DOMAIN v = 1..(Len(t) + 1)
               /\ v[Len(t) + 1] = [id |-> Reasoning, deltas |-> <<>>, done |-> <<>>]
               /\ \A i \in 1..Len(t) : v[i] = t[i]
        BY <4>1, AddedItem
      <4> HIDE DEF u
      <4> QED BY <2>0, <3>1, <4>2
    <3>3. index = Len(t) + 1
      BY <2>1, <3>2
    <3>4. Places(acc', 0, Len(t) + 1, callIndexes, Added(t, Reasoning))
      <4>1. acc'.text # <<>> <=> f.text # <<>>
        BY <1>1, <1>5
      <4>2. Places(f, 0, 0, callIndexes, t)
        BY <1>1, <2>1
      <4> QED BY <1>5, <4>1, <4>2, ReasoningPlaces
    <3> HIDE DEF u, index
    <3> QED BY <2>0, <3>1, <3>2, <3>3, <3>4
  <2>2. CASE reasoningIndex # 0
    <3>1. u = t /\ index = reasoningIndex
      BY <2>2 DEF AddedOnce
    <3>2. reasoningIndex \in DOMAIN t /\ t[reasoningIndex].id = Reasoning
      BY <1>1, <2>2 DEF Places, IndexesRight
    <3>3. t[reasoningIndex].done = <<>>
      <4>1. OpenOrFlushed(f, 0, reasoningIndex, callIndexes, t, reasoningIndex)
        BY <1>1, <3>2 DEF Places
      <4> QED BY <3>2, <4>1, IdsDiffer DEF OpenOrFlushed, CurrentTextID
    <3>4. Places(acc', 0, reasoningIndex, callIndexes, t)
      <4>1. ItemsKnown(t)
        BY <1>1 DEF Places
      <4>2. \A i \in DOMAIN t : OpenOrFlushed(acc', 0, reasoningIndex, callIndexes, t, i)
        BY <1>1, <1>5 DEF Places, OpenOrFlushed, CurrentTextID
      <4>3. IndexesRight(acc', 0, reasoningIndex, callIndexes, t)
        BY <1>1, <1>5, <2>2 DEF Places, IndexesRight
      <4> QED BY <4>1, <4>2, <4>3 DEF Places
    <3> HIDE DEF u, index
    <3> QED BY <2>0, <2>2, <3>1, <3>2, <3>3, <3>4
  <2> QED BY <2>1, <2>2
<1> HIDE DEF u, index
<1>7. part.body \in Seq(Nat)
  BY DEF Parts
<1>8. Places(acc', 0, index, callIndexes, streamed') /\ Grows(streamed, streamed')
  <2>1. ItemsKnown(streamed)
    BY DEF Places
  <2>2. /\ Places(acc', 0, index, callIndexes, Delta(u, index, Reasoning, part.body))
        /\ Grows(streamed, Delta(u, index, Reasoning, part.body))
    BY <1>1, <1>6, <1>7, <2>1, DeltaGrows
  <2> QED BY <1>3, <2>2
<1> QED BY <1>3, <1>4, <1>5, <1>8

(* Flushing lets the items evolve: a message is finished, or none.         *)
LEMMA FlushGrows ==
  ASSUME NEW s, ItemsKnown(s), NEW t, DOMAIN t = DOMAIN s,
         NEW i \in DOMAIN s,
         \/ t[i] = s[i]
         \/ s[i].done = <<>> /\ t[i].id = s[i].id /\ t[i].deltas = s[i].deltas
  PROVE  Client!Evolves(s[i], t[i])
<1>1. s[i].deltas \in Seq(Nat) /\ <<>> \in Seq(Nat)
  BY DEF ItemsKnown
<1> QED BY <1>1, ItemEvolves

(* A call: the open message is flushed, the call announced when it is new. *)
LEMMA CallHandled ==
  ASSUME NEW n \in 0..(MaxParts - 1), Accumulator(acc, n),
         Places(acc, msgIndex, reasoningIndex, callIndexes, streamed),
         NEW part \in Parts, part.kind = "call", OnCall(part)
  PROVE  /\ acc' = ProcessPart(acc, part) /\ Accumulator(acc', n + 1)
         /\ Places(acc', msgIndex', reasoningIndex', callIndexes', streamed')
         /\ Grows(streamed, streamed')
         /\ acc'.thought = acc.thought
<1> DEFINE f == Flushed(acc)
           t == MessageFlushed(acc, streamed)
           call == CallOf(FlushPendingText(f), part)
<1>0. n \in 0..MaxParts
  BY BoundsAssumption
<1>1. /\ Accumulator(f, n) /\ f.text = <<>> /\ f = FlushPendingText(acc)
      /\ f.thought = acc.thought
      /\ Places(f, 0, reasoningIndex, callIndexes, t)
      /\ DOMAIN t = DOMAIN streamed /\ Len(t) = Len(streamed)
      /\ \A i \in DOMAIN streamed :
           \/ t[i] = streamed[i]
           \/ /\ streamed[i].done = <<>> /\ t[i].id = streamed[i].id
              /\ t[i].deltas = streamed[i].deltas
  BY <1>0, FlushPlaces
<1>2. FlushPendingText(f) = f
  BY <1>0, <1>1, FlushCommits
<1>3. /\ acc' = ProcessPart(f, part) /\ msgIndex' = 0 /\ reasoningIndex' = reasoningIndex
      /\ callIndexes' = IF call \in DOMAIN callIndexes THEN callIndexes
                        ELSE Assigned(callIndexes, call, Len(t) + 1)
      /\ streamed' = IF call \in DOMAIN callIndexes THEN t ELSE Added(t, call)
  BY DEF OnCall
<1> HIDE DEF f, t
<1>4. acc' = ProcessPart(acc, part)
  BY <1>1, <1>2, <1>3 DEF ProcessPart, ProcessCall
<1>5. call \in CallItems
  BY <1>1, <1>2, CallAdds
<1> HIDE DEF call
<1>6. /\ Accumulator(acc', n + 1) /\ acc'.text = <<>> /\ acc'.textCount = f.textCount
      /\ acc'.hasThought = f.hasThought /\ acc'.thought = f.thought
  BY <1>1, <1>3, CallAdds
<1>7. Places(f, 0, reasoningIndex, callIndexes', streamed')
  <2>1. CASE call \in DOMAIN callIndexes
    BY <1>1, <1>3, <2>1
  <2>2. CASE call \notin DOMAIN callIndexes
    BY <1>1, <1>3, <1>5, <2>2, CallPlaces
  <2> QED BY <2>1, <2>2
<1>8. Places(acc', msgIndex', reasoningIndex', callIndexes', streamed')
  <2>1. Places(acc', 0, reasoningIndex, callIndexes', streamed')
    <3>1. acc'.text # <<>> <=> f.text # <<>>
      BY <1>1, <1>6
    <3>2. acc'.hasThought => f.hasThought
      BY <1>6
    <3> QED BY <1>6, <1>7, <3>1, <3>2, SamePlaces
  <2> QED BY <1>3, <2>1
<1>9. Grows(streamed, streamed')
  <2>1. Len(t) \in Nat /\ DOMAIN t = 1..Len(t) /\ t \in Seq(Range(t))
    BY <1>1, SeqOfItems DEF Places, ItemsKnown
  <2>2. Len(streamed') >= Len(t) /\ \A i \in DOMAIN t : streamed'[i] = t[i]
    <3>1. CASE call \in DOMAIN callIndexes
      BY <1>3, <2>1, <3>1
    <3>2. CASE call \notin DOMAIN callIndexes
      <4>1. streamed' = Added(t, call)
        BY <1>3, <3>2
      <4>2. LET v == Added(t, call)
            IN Len(v) = Len(t) + 1 /\ \A i \in 1..Len(t) : v[i] = t[i]
        BY <2>1, AddedItem
      <4> QED BY <2>1, <4>1, <4>2
    <3> QED BY <3>1, <3>2
  <2>3. ASSUME NEW i \in DOMAIN streamed PROVE Client!Evolves(streamed[i], streamed'[i])
    <3>1. ItemsKnown(streamed)
      BY DEF Places
    <3>2. Client!Evolves(streamed[i], t[i])
      BY <1>1, <3>1, FlushGrows
    <3>3. streamed'[i] = t[i]
      BY <1>1, <2>2
    <3> QED BY <3>2, <3>3
  <2> QED BY <1>1, <2>2, <2>3 DEF Grows
<1> QED BY <1>1, <1>4, <1>6, <1>8, <1>9

(* A text: it joins the open message, or flushes it and opens the next.    *)
LEMMA TextHandled ==
  ASSUME NEW n \in 0..(MaxParts - 1), Accumulator(acc, n),
         Places(acc, msgIndex, reasoningIndex, callIndexes, streamed),
         NEW part \in Parts, part.kind = "text", part.body # <<>>, OnText(part)
  PROVE  /\ acc' = ProcessPart(acc, part) /\ Accumulator(acc', n + 1)
         /\ Places(acc', msgIndex', reasoningIndex', callIndexes', streamed')
         /\ Grows(streamed, streamed')
         /\ acc'.thought = acc.thought
<1> DEFINE split == SplitsMessage(part)
           a == IF split THEN Flushed(acc) ELSE acc
           open == IF split THEN StillOpen(a) ELSE msgIndex
           t == IF split THEN MessageFlushed(acc, streamed) ELSE streamed
           id == CurrentTextID(a)
           u == AddedOnce(t, open, id)
           index == IF open = 0 THEN Len(u) ELSE open
<1>0. n \in 0..MaxParts
  BY BoundsAssumption
<1>1. /\ Accumulator(a, n) /\ a.thought = acc.thought /\ ProcessPart(a, part) = ProcessPart(acc, part)
      /\ a.text # <<>> => a.textSig = part.sig
      /\ Places(a, open, reasoningIndex, callIndexes, t)
      /\ DOMAIN t = DOMAIN streamed /\ Len(t) = Len(streamed)
      /\ \A i \in DOMAIN streamed :
           \/ t[i] = streamed[i]
           \/ /\ streamed[i].done = <<>> /\ t[i].id = streamed[i].id
              /\ t[i].deltas = streamed[i].deltas
  <2>1. msgIndex # 0 <=> acc.text # <<>>
    BY DEF Places, IndexesRight
  <2>2. CASE split
    <3>1. /\ Accumulator(a, n) /\ a.text = <<>> /\ a = FlushPendingText(acc)
          /\ a.thought = acc.thought /\ open = 0
          /\ Places(a, 0, reasoningIndex, callIndexes, t)
          /\ DOMAIN t = DOMAIN streamed /\ Len(t) = Len(streamed)
          /\ \A i \in DOMAIN streamed :
               \/ t[i] = streamed[i]
               \/ /\ streamed[i].done = <<>> /\ t[i].id = streamed[i].id
                  /\ t[i].deltas = streamed[i].deltas
      BY <1>0, <2>2, FlushPlaces
    <3>2. acc.text # <<>> /\ acc.textSig # part.sig
      BY <2>1, <2>2 DEF SplitsMessage
    <3> HIDE DEF a, t, open
    <3>3. ProcessText(a, part) = ProcessText(acc, part)
      BY <3>1, <3>2 DEF ProcessText
    <3>4. ProcessPart(a, part) = ProcessPart(acc, part)
      BY <3>3 DEF ProcessPart
    <3> QED BY <3>1, <3>4
  <2>3. CASE ~split
    <3>1. a = acc /\ t = streamed /\ open = msgIndex
      BY <2>3
    <3>2. acc.text # <<>> => acc.textSig = part.sig
      BY <2>1, <2>3 DEF SplitsMessage
    <3> HIDE DEF a, t, open
    <3> QED BY <3>1, <3>2
  <2> QED BY <2>2, <2>3
<1>2. /\ acc' = ProcessPart(a, part) /\ msgIndex' = index
      /\ reasoningIndex' = reasoningIndex /\ callIndexes' = callIndexes
      /\ streamed' = Delta(u, index, id, part.body)
  BY DEF OnText
<1> HIDE DEF a, open, t
<1>3. acc' = ProcessPart(acc, part)
  BY <1>1, <1>2
<1>4. /\ Accumulator(acc', n + 1) /\ acc'.text # <<>> /\ acc'.textCount = a.textCount
      /\ acc'.hasThought = a.hasThought /\ acc'.thought = a.thought /\ id \in Items
  BY <1>1, <1>2, TextAdds
<1>5. Len(t) \in Nat /\ DOMAIN t = 1..Len(t) /\ t \in Seq(Range(t)) /\ a.textCount \in Nat
  BY <1>1, SeqOfItems DEF Places, ItemsKnown, Accumulator
<1>6. /\ Places(acc', index, reasoningIndex, callIndexes, u)
      /\ index \in DOMAIN u /\ u[index].done = <<>>
      /\ Len(u) >= Len(t) /\ \A i \in DOMAIN t : i \in DOMAIN u /\ u[i] = t[i]
  <2>1. CASE open = 0
    <3>1. u = Added(t, id)
      BY <2>1 DEF AddedOnce
    <3>2. /\ Len(u) = Len(t) + 1 /\ DOMAIN u = 1..(Len(t) + 1)
          /\ u[Len(t) + 1].done = <<>> /\ \A i \in DOMAIN t : u[i] = t[i]
      <4>1. LET v == Added(t, id)
            IN /\ Len(v) = Len(t) + 1 /\ DOMAIN v = 1..(Len(t) + 1)
               /\ v[Len(t) + 1] = [id |-> id, deltas |-> <<>>, done |-> <<>>]
               /\ \A i \in 1..Len(t) : v[i] = t[i]
        <5> HIDE DEF id, u
        <5> QED BY <1>5, AddedItem
      <4> HIDE DEF u, id
      <4> QED BY <1>5, <3>1, <4>1
    <3>3. index = Len(t) + 1
      BY <2>1, <3>2
    <3>4. Places(acc', Len(t) + 1, reasoningIndex, callIndexes, Added(t, id))
      <4>1. Places(a, 0, reasoningIndex, callIndexes, t)
        BY <1>1, <2>1
      <4> QED BY <1>4, <1>5, <4>1, MessagePlaces
    <3> HIDE DEF u, index, id
    <3> QED BY <1>5, <3>1, <3>2, <3>3, <3>4
  <2>2. CASE open # 0
    <3>1. u = t /\ index = open
      BY <2>2 DEF AddedOnce
    <3>2. open \in DOMAIN t /\ t[open].id = id /\ a.text # <<>>
      BY <1>1, <2>2 DEF Places, IndexesRight
    <3>3. t[open].done = <<>>
      <4>1. OpenOrFlushed(a, open, reasoningIndex, callIndexes, t, open)
        BY <1>1, <3>2 DEF Places
      <4>2. \A k \in 0..(a.textCount - 1) : t[open].id # Message(k)
        BY <1>5, <3>2, IdsDiffer DEF CurrentTextID
      <4> QED BY <4>1, <4>2 DEF OpenOrFlushed
    <3>4. Places(acc', open, reasoningIndex, callIndexes, t)
      <4>1. acc'.text # <<>> <=> a.text # <<>>
        BY <1>4, <3>2
      <4>2. acc'.hasThought => a.hasThought
        BY <1>4
      <4> QED BY <1>1, <1>4, <4>1, <4>2, SamePlaces
    <3> HIDE DEF u, index, id
    <3> QED BY <1>5, <3>1, <3>2, <3>3, <3>4
  <2> QED BY <2>1, <2>2
<1> HIDE DEF u, index, id
<1>7. part.body \in Seq(Nat)
  BY DEF Parts
<1>8. Places(acc', index, reasoningIndex, callIndexes, streamed') /\ Grows(streamed, streamed')
  <2>1. ItemsKnown(streamed)
    BY DEF Places
  <2>2. /\ Places(acc', index, reasoningIndex, callIndexes, Delta(u, index, id, part.body))
        /\ Grows(streamed, Delta(u, index, id, part.body))
    BY <1>1, <1>6, <1>7, <2>1, DeltaGrows
  <2> QED BY <1>2, <2>2
<1> QED BY <1>1, <1>2, <1>3, <1>4, <1>8

(* A signature on its own, or an empty part, sends no event.               *)
LEMMA SignatureHandled ==
  ASSUME NEW n \in 0..(MaxParts - 1), Accumulator(acc, n),
         Places(acc, msgIndex, reasoningIndex, callIndexes, streamed),
         NEW part \in Parts, part.kind = "text", part.body = <<>>, OnSignature(part)
  PROVE  /\ acc' = ProcessPart(acc, part) /\ Accumulator(acc', n + 1)
         /\ Places(acc', msgIndex', reasoningIndex', callIndexes', streamed')
         /\ Grows(streamed, streamed')
         /\ acc'.thought = acc.thought
<1>0. n \in 0..MaxParts
  BY BoundsAssumption
<1>1. /\ acc' = ProcessPart(acc, part) /\ msgIndex' = msgIndex
      /\ reasoningIndex' = reasoningIndex /\ callIndexes' = callIndexes /\ streamed' = streamed
  BY DEF OnSignature
<1>2. /\ Accumulator(acc', n + 1) /\ acc'.text = acc.text /\ acc'.textCount = acc.textCount
      /\ acc'.hasThought = acc.hasThought /\ acc'.thought = acc.thought
  BY <1>0, <1>1, SignatureNotes
<1>3. Places(acc', msgIndex', reasoningIndex', callIndexes', streamed')
  <2>1. acc'.text # <<>> <=> acc.text # <<>>
    BY <1>2
  <2>2. acc'.hasThought => acc.hasThought
    BY <1>2
  <2>3. Places(acc', msgIndex, reasoningIndex, callIndexes, streamed)
    BY <1>2, <2>1, <2>2, SamePlaces
  <2> QED BY <1>1, <2>3
<1>4. ItemsKnown(streamed) /\ Len(streamed) \in Nat
  BY SeqOfItems DEF Places, ItemsKnown
<1>5. Grows(streamed, streamed')
  BY <1>1, <1>4, SameGrows DEF Grows
<1> QED BY <1>1, <1>2, <1>3, <1>5

-----------------------------------------------------------------------------
-----------------------------------------------------------------------------
(* The end of a response.                                                  *)

(* An open item is finished, in its place.                                 *)
LEMMA DoneItem ==
  ASSUME NEW s, ItemsKnown(s), NEW n \in DOMAIN s, s[n].done = <<>>, NEW output
  PROVE  LET t == ItemDone(s, n, output)
         IN /\ ItemsKnown(t) /\ DOMAIN t = DOMAIN s /\ Len(t) = Len(s)
            /\ t[n].id = s[n].id /\ t[n].deltas = s[n].deltas /\ Len(t[n].done) = 1
            /\ \A i \in DOMAIN s : i # n => t[i] = s[i]
<1> DEFINE item == [s[n] EXCEPT !.done = Append(@, output)]
           t == [s EXCEPT ![n] = item]
<1>1. ItemDone(s, n, output) = t
  BY DEF ItemDone
<1>2. s[n] = [id |-> s[n].id, deltas |-> s[n].deltas, done |-> s[n].done]
  BY DEF ItemsKnown
<1>3. /\ item.id = s[n].id /\ item.deltas = s[n].deltas /\ Len(item.done) = 1
      /\ item = [id |-> item.id, deltas |-> item.deltas, done |-> item.done]
  <2> DEFINE x == s[n]
  <2>1. Len(Append(<<>>, output)) = 1
    OBVIOUS
  <2>2. /\ item.id = x.id /\ item.deltas = x.deltas /\ item.done = Append(<<>>, output)
        /\ item = [id |-> x.id, deltas |-> x.deltas, done |-> Append(<<>>, output)]
    BY <1>2
  <2> HIDE DEF item
  <2> QED BY <2>1, <2>2
<1> HIDE DEF item
<1>4. /\ t \in Seq(Range(t)) /\ DOMAIN t = DOMAIN s /\ Len(t) = Len(s)
      /\ t[n] = item /\ \A i \in DOMAIN s : i # n => t[i] = s[i]
  <2>1. s \in Seq(Range(s))
    BY DEF ItemsKnown
  <2> QED BY <2>1, ChangedItem
<1> HIDE DEF t
<1>5. \A i \in DOMAIN s : t[i].id = s[i].id /\ t[i].deltas = s[i].deltas
  BY <1>3, <1>4
<1>6. ASSUME NEW i \in DOMAIN s
      PROVE  t[i] = [id |-> t[i].id, deltas |-> t[i].deltas, done |-> t[i].done]
  BY <1>3, <1>4 DEF ItemsKnown
<1>7. ItemsKnown(t)
  BY <1>4, <1>5, <1>6 DEF ItemsKnown
<1> QED BY <1>1, <1>3, <1>4, <1>7

(* The calls are finished, each in its place; nothing else changes.        *)
LEMMA CallsFinished ==
  ASSUME NEW s, ItemsKnown(s), NEW a,
         \A c \in DOMAIN callIndexes :
           callIndexes[c] \in DOMAIN s /\ s[callIndexes[c]].id = c /\ s[callIndexes[c]].done = <<>>
  PROVE  LET t == CallsDone(a, s)
         IN /\ ItemsKnown(t) /\ DOMAIN t = DOMAIN s /\ Len(t) = Len(s)
            /\ \A i \in DOMAIN s :
                 /\ t[i].id = s[i].id /\ t[i].deltas = s[i].deltas
                 /\ i \in Range(callIndexes) => s[i].done = <<>> /\ Len(t[i].done) = 1
                 /\ i \notin Range(callIndexes) => t[i] = s[i]
<1> DEFINE t == CallsDone(a, s)
<1>1. Len(s) \in Nat /\ DOMAIN s = 1..Len(s)
  BY SeqOfItems DEF ItemsKnown
<1>2. ASSUME NEW i \in DOMAIN s
      PROVE  /\ t[i].id = s[i].id /\ t[i].deltas = s[i].deltas
             /\ t[i] = [id |-> t[i].id, deltas |-> t[i].deltas, done |-> t[i].done]
             /\ i \in Range(callIndexes) => s[i].done = <<>> /\ Len(t[i].done) = 1
             /\ i \notin Range(callIndexes) => t[i] = s[i]
  <2>1. s[i] = [id |-> s[i].id, deltas |-> s[i].deltas, done |-> s[i].done]
    BY DEF ItemsKnown
  <2>2. CASE i \in Range(callIndexes)
    <3> DEFINE output == ItemNamed(a, s[i].id)
               item == [s[i] EXCEPT !.done = Append(@, output)]
    <3>1. t[i] = item
      BY <2>2 DEF CallsDone
    <3>2. s[i].done = <<>>
      BY <2>2 DEF Range
    <3> HIDE DEF output, t
    <3>3. Len(Append(<<>>, output)) = 1
      OBVIOUS
    <3> DEFINE x == s[i]
    <3>4. /\ item.id = x.id /\ item.deltas = x.deltas /\ item.done = Append(<<>>, output)
          /\ item = [id |-> x.id, deltas |-> x.deltas, done |-> Append(<<>>, output)]
      BY <2>1, <3>2
    <3> HIDE DEF item
    <3> QED BY <2>2, <3>1, <3>2, <3>3, <3>4
  <2>3. CASE i \notin Range(callIndexes)
    <3>1. t[i] = s[i]
      BY <2>3 DEF CallsDone
    <3> HIDE DEF t
    <3> QED BY <2>1, <2>3, <3>1
  <2> QED BY <2>2, <2>3
<1>3. DOMAIN t = 1..Len(s) /\ t = [i \in 1..Len(s) |-> t[i]]
  BY <1>1 DEF CallsDone
<1> HIDE DEF t
<1>4. t \in Seq(Range(t)) /\ Len(t) = Len(s)
  <2>1. t \in [1..Len(s) -> Range(t)]
    BY <1>3 DEF Range
  <2> QED BY <1>1, <2>1, FunctionSeq
<1>5. ItemsKnown(t)
  BY <1>1, <1>2, <1>3, <1>4 DEF ItemsKnown
<1> QED BY <1>1, <1>2, <1>3, <1>4, <1>5 DEF t

(* Then the open message: what is still open is the reasoning item.        *)
LEMMA LoopOver ==
  ASSUME NEW n \in 0..MaxParts, Accumulator(acc, n),
         Places(acc, msgIndex, reasoningIndex, callIndexes, streamed)
  PROVE  LET s == MessageFlushed(acc, CallsDone(acc, streamed))
         IN /\ ItemsKnown(s) /\ DOMAIN s = DOMAIN streamed /\ Len(s) = Len(streamed)
            /\ \A i \in DOMAIN streamed :
                 /\ s[i].id = streamed[i].id /\ s[i].deltas = streamed[i].deltas
                 /\ streamed[i].done # <<>> => s[i] = streamed[i]
                 /\ i = reasoningIndex => s[i].done = <<>>
                 /\ i # reasoningIndex => Len(s[i].done) = 1
<1> DEFINE t == CallsDone(acc, streamed)
           s == MessageFlushed(acc, t)
<1>1. /\ ItemsKnown(streamed)
      /\ \A i \in DOMAIN streamed :
           OpenOrFlushed(acc, msgIndex, reasoningIndex, callIndexes, streamed, i)
      /\ IndexesRight(acc, msgIndex, reasoningIndex, callIndexes, streamed)
  BY DEF Places
<1>2. Len(streamed) \in Nat /\ DOMAIN streamed = 1..Len(streamed) /\ acc.textCount \in Nat
  BY <1>1, SeqOfItems DEF ItemsKnown, Accumulator
<1>3. ASSUME NEW c \in DOMAIN callIndexes
      PROVE  /\ callIndexes[c] \in DOMAIN streamed /\ streamed[callIndexes[c]].id = c
             /\ streamed[callIndexes[c]].done = <<>> /\ c \in CallItems
  <2>1. callIndexes[c] \in DOMAIN streamed /\ streamed[callIndexes[c]].id = c /\ c \in CallItems
    BY <1>1 DEF IndexesRight
  <2>2. OpenOrFlushed(acc, msgIndex, reasoningIndex, callIndexes, streamed, callIndexes[c])
    BY <1>1, <2>1
  <2> QED BY <2>1, <2>2, IdsDiffer DEF OpenOrFlushed, CurrentTextID
<1>4. /\ ItemsKnown(t) /\ DOMAIN t = DOMAIN streamed /\ Len(t) = Len(streamed)
      /\ \A i \in DOMAIN streamed :
           /\ t[i].id = streamed[i].id /\ t[i].deltas = streamed[i].deltas
           /\ i \in Range(callIndexes) => streamed[i].done = <<>> /\ Len(t[i].done) = 1
           /\ i \notin Range(callIndexes) => t[i] = streamed[i]
  BY <1>1, <1>3, CallsFinished
<1> HIDE DEF t
<1>5. \A i \in Range(callIndexes) : i \in DOMAIN streamed /\ streamed[i].id \in CallItems
  BY <1>3 DEF Range
<1>6. reasoningIndex \notin Range(callIndexes) /\ reasoningIndex \in DOMAIN streamed
        => /\ streamed[reasoningIndex].id = Reasoning /\ streamed[reasoningIndex].done = <<>>
  <2> SUFFICES ASSUME reasoningIndex \in DOMAIN streamed
               PROVE  /\ streamed[reasoningIndex].id = Reasoning
                      /\ streamed[reasoningIndex].done = <<>>
    OBVIOUS
  <2>1. streamed[reasoningIndex].id = Reasoning
    BY <1>1, <1>2 DEF IndexesRight
  <2>2. OpenOrFlushed(acc, msgIndex, reasoningIndex, callIndexes, streamed, reasoningIndex)
    BY <1>1
  <2>3. \A c \in DOMAIN callIndexes : c # Reasoning
    BY <1>3, IdsDiffer
  <2> QED BY <2>1, <2>2, <2>3, IdsDiffer DEF OpenOrFlushed, CurrentTextID
<1>7. reasoningIndex \in DOMAIN streamed => reasoningIndex \notin Range(callIndexes)
  <2>1. reasoningIndex \in DOMAIN streamed => streamed[reasoningIndex].id = Reasoning
    BY <1>1, <1>2 DEF IndexesRight
  <2> QED BY <1>5, <2>1, IdsDiffer
<1>8. CASE msgIndex = 0
  <2>1. s = t
    BY <1>8 DEF MessageFlushed
  <2>2. ASSUME NEW i \in DOMAIN streamed
        PROVE  /\ t[i].id = streamed[i].id /\ t[i].deltas = streamed[i].deltas
               /\ streamed[i].done # <<>> => t[i] = streamed[i]
               /\ i = reasoningIndex => t[i].done = <<>>
               /\ i # reasoningIndex => Len(t[i].done) = 1
    <3>1. i = reasoningIndex => t[i].done = <<>>
      BY <1>4, <1>6, <1>7
    <3>2. ASSUME i # reasoningIndex, i \notin Range(callIndexes) PROVE Len(t[i].done) = 1
      <4>1. OpenOrFlushed(acc, msgIndex, reasoningIndex, callIndexes, streamed, i) /\ i # msgIndex
        BY <1>1, <1>2, <1>8
      <4>2. streamed[i].id \in DOMAIN callIndexes => callIndexes[streamed[i].id] # i
        BY <3>2 DEF Range
      <4> QED BY <1>4, <3>2, <4>1, <4>2 DEF OpenOrFlushed
    <3> QED BY <1>4, <3>1, <3>2
  <2> HIDE DEF s
  <2> QED BY <1>4, <2>1, <2>2 DEF s, t
<1>9. CASE msgIndex # 0
  <2> DEFINE output == OutputItem(CurrentTextID(acc), acc.text, acc.textSig)
  <2>1. /\ msgIndex \in DOMAIN streamed /\ streamed[msgIndex].id = CurrentTextID(acc)
        /\ acc.text # <<>>
    BY <1>1, <1>9 DEF IndexesRight
  <2>2. s = ItemDone(t, msgIndex, output)
    BY <1>9, <2>1 DEF MessageFlushed, HasPendingText
  <2> HIDE DEF output
  <2>3. msgIndex \notin Range(callIndexes) /\ msgIndex # reasoningIndex
    <3>1. streamed[msgIndex].id # Reasoning /\ streamed[msgIndex].id \notin CallItems
      BY <2>1, IdsDiffer DEF CurrentTextID
    <3> QED BY <1>1, <1>5, <1>9, <3>1 DEF IndexesRight
  <2>4. streamed[msgIndex].done = <<>>
    <3>1. OpenOrFlushed(acc, msgIndex, reasoningIndex, callIndexes, streamed, msgIndex)
      BY <1>1, <2>1
    <3>2. \A k \in 0..(acc.textCount - 1) : streamed[msgIndex].id # Message(k)
      BY <1>2, <2>1, IdsDiffer DEF CurrentTextID
    <3> QED BY <3>1, <3>2 DEF OpenOrFlushed
  <2>5. t[msgIndex] = streamed[msgIndex]
    BY <1>4, <2>1, <2>3
  <2>6. /\ ItemsKnown(s) /\ DOMAIN s = DOMAIN t /\ Len(s) = Len(t)
        /\ s[msgIndex].id = t[msgIndex].id /\ s[msgIndex].deltas = t[msgIndex].deltas
        /\ Len(s[msgIndex].done) = 1
        /\ \A i \in DOMAIN t : i # msgIndex => s[i] = t[i]
    <3>1. msgIndex \in DOMAIN t /\ t[msgIndex].done = <<>>
      BY <1>4, <2>1, <2>4, <2>5
    <3> HIDE DEF s
    <3> QED BY <1>4, <2>2, <3>1, DoneItem
  <2> HIDE DEF s
  <2>7. ASSUME NEW i \in DOMAIN streamed
        PROVE  /\ s[i].id = streamed[i].id /\ s[i].deltas = streamed[i].deltas
               /\ streamed[i].done # <<>> => s[i] = streamed[i]
               /\ i = reasoningIndex => s[i].done = <<>>
               /\ i # reasoningIndex => Len(s[i].done) = 1
    <3>1. CASE i = msgIndex
      BY <2>1, <2>3, <2>4, <2>5, <2>6, <1>4, <3>1
    <3>2. CASE i # msgIndex
      <4>1. s[i] = t[i]
        BY <1>4, <2>6, <3>2
      <4>2. i = reasoningIndex => t[i].done = <<>>
        BY <1>4, <1>6, <1>7
      <4>3. ASSUME i # reasoningIndex, i \notin Range(callIndexes) PROVE Len(t[i].done) = 1
        <5>1. OpenOrFlushed(acc, msgIndex, reasoningIndex, callIndexes, streamed, i)
          BY <1>1
        <5>2. streamed[i].id \in DOMAIN callIndexes => callIndexes[streamed[i].id] # i
          BY <4>3 DEF Range
        <5> QED BY <1>4, <3>2, <4>3, <5>1, <5>2 DEF OpenOrFlushed
      <4> QED BY <1>4, <4>1, <4>2, <4>3
    <3> QED BY <3>1, <3>2
  <2> QED BY <1>4, <2>6, <2>7 DEF s, t
<1> QED BY <1>8, <1>9

(* Finish, when no text is under way: only an empty turn changes.          *)
LEMMA TurnFinished ==
  ASSUME NEW f, NEW n \in 0..MaxParts, Accumulator(f, n), f.text = <<>>
  PROVE  LET turn == Finish(f)
         IN /\ turn.parts \in Seq(TurnParts) /\ turn.order \in Seq(Items)
            /\ turn.thought = f.thought
            /\ turn.parts = <<>> => f.hasThought
<1>1. FlushPendingText(f) = f
  BY FlushCommits
<1>2. CASE ~(f.parts = <<>> /\ ~f.hasThought)
  <2>1. Finish(f) = f
    BY <1>1, <1>2 DEF Finish
  <2> QED BY <1>2, <2>1 DEF Accumulator
<1>3. CASE f.parts = <<>> /\ ~f.hasThought
  <2> DEFINE part == TurnPart("text", Message(0), NoId, <<>>, NoSig)
             order == Recorded(f.order, Message(0))
             turn == [f EXCEPT !.parts = <<part>>, !.order = order]
  <2>1. Finish(f) = turn
    BY <1>1, <1>3 DEF Finish
  <2>2. Message(0) \in Items
    BY BoundsAssumption DEF Items
  <2>3. part \in TurnParts
    <3>1. <<>> \in Seq(Nat)
      OBVIOUS
    <3> QED BY <2>2, <3>1 DEF TurnPart, TurnParts
  <2>4. order \in Seq(Items)
    BY <2>2, RecordedKnown DEF Accumulator
  <2> HIDE DEF part, order
  <2>5. turn.parts = <<part>> /\ turn.order = order /\ turn.thought = f.thought
    BY KnownFields DEF Accumulator
  <2> HIDE DEF turn
  <2>6. <<part>> \in Seq(TurnParts) /\ <<part>> # <<>>
    BY <2>3
  <2> QED BY <2>1, <2>4, <2>5, <2>6
<1> QED BY <1>2, <1>3

(* After the loop only the reasoning item is still open, if there is one.  *)
OnlyReasoningOpen(s) ==
  /\ ItemsKnown(s)
  /\ reasoningIndex # 0 => reasoningIndex \in DOMAIN s
  /\ \A i \in DOMAIN s :
       /\ i = reasoningIndex <=> s[i].id = Reasoning
       /\ i = reasoningIndex => s[i].done = <<>>
       /\ i # reasoningIndex => Len(s[i].done) = 1

(* The reasoning item is finished where it was announced, or announced     *)
(* now.  It only stays open when the thoughts had no words.                *)
OnlyReasoningChanged(turn, s, t) ==
  /\ ItemsKnown(t) /\ Len(t) >= Len(s) /\ DOMAIN s \subseteq DOMAIN t
  /\ \A i \in DOMAIN s :
       /\ t[i].id = s[i].id /\ t[i].deltas = s[i].deltas
       /\ s[i].done # <<>> => t[i] = s[i]
  /\ \A i \in DOMAIN t : t[i].done = <<>> \/ Len(t[i].done) = 1
  /\ (reasoningIndex # 0 => turn.thought # <<>>) => \A i \in DOMAIN t : t[i].done # <<>>

(* What ReasoningDone changes.                                             *)
LEMMA ReasoningFinished ==
  ASSUME NEW s, OnlyReasoningOpen(s), NEW turn
  PROVE  OnlyReasoningChanged(turn, s, ReasoningDone(turn, s))
<1> DEFINE t == ReasoningDone(turn, s)
           output == OutputItem(Reasoning, turn.thought, NoSig)
<1>1. /\ ItemsKnown(s)
      /\ reasoningIndex # 0 => reasoningIndex \in DOMAIN s
      /\ \A i \in DOMAIN s :
           /\ i = reasoningIndex <=> s[i].id = Reasoning
           /\ i = reasoningIndex => s[i].done = <<>>
           /\ i # reasoningIndex => Len(s[i].done) = 1
  BY DEF OnlyReasoningOpen
<1> SUFFICES OnlyReasoningChanged(turn, s, t)
  OBVIOUS
<1>2. Len(s) \in Nat /\ DOMAIN s = 1..Len(s)
  BY <1>1, SeqOfItems DEF ItemsKnown
<1>3. CASE ~NeedsReasoningItem(turn)
  <2>1. t = s /\ turn.thought = <<>>
    BY <1>3 DEF ReasoningDone, NeedsReasoningItem
  <2> HIDE DEF t
  <2>2. (reasoningIndex # 0 => turn.thought # <<>>) => \A i \in DOMAIN s : s[i].done # <<>>
    <3>1. Len(<<>>) = 0
      OBVIOUS
    <3> QED BY <1>1, <1>2, <2>1, <3>1
  <2> QED BY <1>1, <1>2, <2>1, <2>2 DEF OnlyReasoningChanged
<1>4. CASE NeedsReasoningItem(turn) /\ reasoningIndex # 0
  <2>1. t = ItemDone(s, reasoningIndex, output)
    BY <1>4 DEF ReasoningDone, AddedOnce
  <2> HIDE DEF output
  <2>2. /\ ItemsKnown(t) /\ DOMAIN t = DOMAIN s /\ Len(t) = Len(s)
        /\ t[reasoningIndex].id = s[reasoningIndex].id
        /\ t[reasoningIndex].deltas = s[reasoningIndex].deltas
        /\ Len(t[reasoningIndex].done) = 1
        /\ \A i \in DOMAIN s : i # reasoningIndex => t[i] = s[i]
    <3>1. reasoningIndex \in DOMAIN s /\ s[reasoningIndex].done = <<>>
      BY <1>1, <1>4
    <3> HIDE DEF t
    <3> QED BY <1>1, <2>1, <3>1, DoneItem
  <2> HIDE DEF t
  <2>3. \A i \in DOMAIN t : Len(t[i].done) = 1
    BY <1>1, <2>2
  <2>4. \A i \in DOMAIN s :
          /\ t[i].id = s[i].id /\ t[i].deltas = s[i].deltas
          /\ s[i].done # <<>> => t[i] = s[i]
    BY <1>1, <2>2
  <2>5. \A i \in DOMAIN t : t[i].done # <<>>
    <3>1. Len(<<>>) = 0
      OBVIOUS
    <3> QED BY <2>3, <3>1
  <2>6. Len(t) >= Len(s) /\ DOMAIN s \subseteq DOMAIN t
    BY <1>2, <2>2
  <2> QED BY <2>2, <2>3, <2>4, <2>5, <2>6 DEF OnlyReasoningChanged
<1>5. CASE NeedsReasoningItem(turn) /\ reasoningIndex = 0
  <2> DEFINE u == Added(s, Reasoning)
             new == Len(s) + 1
  <2>1. /\ ItemsKnown(u)
        /\ DOMAIN u = DOMAIN s \cup {new} /\ new \notin DOMAIN s
        /\ Len(u) = new
        /\ u[new].id = Reasoning /\ u[new].done = <<>>
        /\ \A i \in DOMAIN s : u[i] = s[i]
    <3>1. Reasoning \in Items
      BY DEF Items
    <3>2. \A i \in DOMAIN s : s[i].id # Reasoning
      BY <1>1, <1>2, <1>5
    <3> QED BY <1>1, <3>1, <3>2, FreshItem
  <2>2. t = ItemDone(u, new, output)
    BY <1>5, <2>1 DEF ReasoningDone, AddedOnce
  <2> HIDE DEF output, u, t
  <2>3. /\ ItemsKnown(t) /\ DOMAIN t = DOMAIN u /\ Len(t) = Len(u)
        /\ Len(t[new].done) = 1
        /\ \A i \in DOMAIN u : i # new => t[i] = u[i]
    <3> HIDE DEF new
    <3> QED BY <2>1, <2>2, DoneItem
  <2>4. \A i \in DOMAIN s : t[i] = s[i]
    BY <2>1, <2>3
  <2>5. \A i \in DOMAIN t : Len(t[i].done) = 1
    <3>1. \A i \in DOMAIN s : i # reasoningIndex
      BY <1>1, <1>2, <1>5
    <3> QED BY <1>1, <2>1, <2>3, <2>4, <3>1
  <2>6. \A i \in DOMAIN t : t[i].done # <<>>
    <3>1. Len(<<>>) = 0
      OBVIOUS
    <3> QED BY <2>5, <3>1
  <2>7. Len(t) >= Len(s) /\ DOMAIN s \subseteq DOMAIN t
    <3> HIDE DEF new
    <3>1. new = Len(s) + 1
      BY DEF new
    <3> QED BY <1>2, <2>1, <2>3, <3>1
  <2> HIDE DEF new
  <2> QED BY <2>3, <2>4, <2>5, <2>6, <2>7 DEF OnlyReasoningChanged
<1> QED BY <1>3, <1>4, <1>5

(* An empty turn is told as an empty message; otherwise nothing is added.  *)
LEMMA EmptyFinished ==
  ASSUME NEW s, ItemsKnown(s), NEW turn,
         s = <<>> => turn.parts \in Seq(TurnParts) /\ turn.parts # <<>>
  PROVE  LET t == EmptyMessage(turn, s)
         IN /\ ItemsKnown(t)
            /\ s # <<>> => t = s
            /\ s = <<>> => DOMAIN s = {} /\ Len(s) = 0 /\ DOMAIN t = {1} /\ Len(t) = 1 /\ Len(t[1].done) = 1
<1> DEFINE t == EmptyMessage(turn, s)
<1>1. CASE s # <<>>
  BY <1>1 DEF EmptyMessage
<1>2. CASE s = <<>>
  <2> DEFINE item == turn.parts[1].item
             output == OutputItem(item, <<>>, NoSig)
             u == Added(s, item)
  <2>1. item \in Items
    <3>1. turn.parts[1] \in TurnParts
      BY <1>2
    <3> QED BY <3>1 DEF TurnParts
  <2>2. DOMAIN s = {} /\ Len(s) = 0
    BY <1>2
  <2>3. t = ItemDone(u, 1, output)
    BY <1>2 DEF EmptyMessage
  <2> HIDE DEF item, output, u, t
  <2>4. ItemsKnown(u) /\ DOMAIN u = {1} /\ Len(u) = 1 /\ u[1].done = <<>>
    <3>1. /\ ItemsKnown(Added(s, item))
          /\ DOMAIN Added(s, item) = DOMAIN s \cup {Len(s) + 1}
          /\ Len(Added(s, item)) = Len(s) + 1
          /\ Added(s, item)[Len(s) + 1].done = <<>>
      BY <2>1, <2>2, FreshItem
    <3>2. Len(s) + 1 = 1 /\ DOMAIN s \cup {1} = {1}
      BY <2>2
    <3> QED BY <3>1, <3>2 DEF u
  <2>5. ItemsKnown(t) /\ DOMAIN t = {1} /\ Len(t) = 1 /\ Len(t[1].done) = 1
    <3>1. 1 \in DOMAIN u
      BY <2>4
    <3> QED BY <2>3, <2>4, <3>1, DoneItem
  <2> QED BY <1>2, <2>2, <2>5 DEF t
<1> QED BY <1>1, <1>2

(* What Complete tells the client.                                         *)
LEMMA CompletionSound ==
  ASSUME NEW n \in 0..MaxParts, Accumulator(acc, n),
         Places(acc, msgIndex, reasoningIndex, callIndexes, streamed), Complete
  PROVE  /\ ItemsKnown(streamed') /\ Client!Sound(streamed') /\ Grows(streamed, streamed')
         /\ (reasoningIndex # 0 => acc.thought # <<>>)
              => \A i \in DOMAIN streamed' : streamed'[i].done # <<>>
         /\ acc'.parts \in Seq(TurnParts) /\ acc'.order \in Seq(Items)
         /\ acc' = Finish(FlushPendingText(acc))
         /\ msgIndex' = 0
<1> DEFINE f == Flushed(acc)
           turn == Finish(f)
           s == MessageFlushed(acc, CallsDone(acc, streamed))
           t == ReasoningDone(turn, s)
           u == EmptyMessage(turn, t)
<1>1. acc' = turn /\ streamed' = u /\ msgIndex' = StillOpen(f)
  BY DEF Complete
<1>2. /\ Accumulator(f, n) /\ f.text = <<>> /\ f = FlushPendingText(acc)
      /\ f.thought = acc.thought /\ f.hasThought = acc.hasThought /\ StillOpen(f) = 0
  BY FlushPlaces
<1>3. /\ turn.parts \in Seq(TurnParts) /\ turn.order \in Seq(Items)
      /\ turn.thought = f.thought /\ (turn.parts = <<>> => f.hasThought)
  <2> HIDE DEF f
  <2> QED BY <1>2, TurnFinished
<1>4. /\ ItemsKnown(s) /\ DOMAIN s = DOMAIN streamed /\ Len(s) = Len(streamed)
      /\ \A i \in DOMAIN streamed :
           /\ s[i].id = streamed[i].id /\ s[i].deltas = streamed[i].deltas
           /\ streamed[i].done # <<>> => s[i] = streamed[i]
           /\ i = reasoningIndex => s[i].done = <<>>
           /\ i # reasoningIndex => Len(s[i].done) = 1
  BY LoopOver
<1> HIDE DEF f, s
<1>5. ItemsKnown(streamed)
      /\ IndexesRight(acc, msgIndex, reasoningIndex, callIndexes, streamed)
  BY DEF Places
<1>6. /\ reasoningIndex # 0 => reasoningIndex \in DOMAIN s /\ s[reasoningIndex].id = Reasoning
      /\ acc.hasThought => reasoningIndex # 0
  BY <1>4, <1>5 DEF IndexesRight
<1>7. \A i \in DOMAIN s :
        /\ i = reasoningIndex <=> s[i].id = Reasoning
        /\ i = reasoningIndex => s[i].done = <<>>
        /\ i # reasoningIndex => Len(s[i].done) = 1
  <2>1. DOMAIN s = 1..Len(s) /\ Len(s) \in Nat
    BY <1>4, SeqOfItems DEF ItemsKnown
  <2>2. \A i \in DOMAIN s : i # 0
    BY <2>1
  <2>3. \A i \in DOMAIN s : i = reasoningIndex => s[i].id = Reasoning
    BY <1>6, <2>2
  <2>4. \A i \in DOMAIN streamed : streamed[i].id = Reasoning => i = reasoningIndex
    <3>1. \A c \in DOMAIN callIndexes : c # Reasoning
      BY <1>5, IdsDiffer DEF IndexesRight
    <3>2. CurrentTextID(acc) # Reasoning
      BY IdsDiffer DEF CurrentTextID
    <3>3. \A i \in DOMAIN streamed :
            OpenOrFlushed(acc, msgIndex, reasoningIndex, callIndexes, streamed, i)
      BY DEF Places
    <3> QED BY <3>1, <3>2, <3>3, IdsDiffer DEF OpenOrFlushed
  <2>5. \A i \in DOMAIN s : s[i].id = Reasoning => i = reasoningIndex
    BY <1>4, <2>4
  <2> QED BY <1>4, <2>3, <2>5
<1> HIDE DEF turn
<1>8. /\ ItemsKnown(t) /\ Len(t) >= Len(s) /\ DOMAIN s \subseteq DOMAIN t
      /\ \A i \in DOMAIN s :
           /\ t[i].id = s[i].id /\ t[i].deltas = s[i].deltas
           /\ s[i].done # <<>> => t[i] = s[i]
      /\ \A i \in DOMAIN t : t[i].done = <<>> \/ Len(t[i].done) = 1
      /\ (reasoningIndex # 0 => turn.thought # <<>>)
           => \A i \in DOMAIN t : t[i].done # <<>>
  <2>1. OnlyReasoningOpen(s)
    BY <1>4, <1>6, <1>7 DEF OnlyReasoningOpen
  <2>2. OnlyReasoningChanged(turn, s, t)
    BY <2>1, ReasoningFinished
  <2> HIDE DEF t
  <2> QED BY <2>2 DEF OnlyReasoningChanged
<1> HIDE DEF t
<1>9. t = <<>> => turn.parts # <<>>
  BY <1>2, <1>3, <1>6, <1>8
<1>10. /\ ItemsKnown(u)
       /\ t # <<>> => u = t
       /\ t = <<>> => DOMAIN t = {} /\ Len(t) = 0 /\ DOMAIN u = {1} /\ Len(u) = 1 /\ Len(u[1].done) = 1
  BY <1>3, <1>8, <1>9, EmptyFinished
<1> HIDE DEF u
<1>11. \A i \in DOMAIN u : u[i].done = <<>> \/ Len(u[i].done) = 1
  BY <1>8, <1>10
<1>12. Client!Sound(u)
  <2>1. Len(<<>>) = 0
    OBVIOUS
  <2>2. \A i, j \in DOMAIN u : u[i].id = u[j].id => i = j
    BY <1>10 DEF ItemsKnown
  <2>3. ASSUME NEW i \in DOMAIN u
        PROVE  Len(u[i].done) <= 1
    <3>1. CASE u[i].done = <<>>
      <4>1. Len(u[i].done) = 0
        BY <2>1, <3>1
      <4> QED BY <4>1
    <3>2. CASE Len(u[i].done) = 1
      BY <3>2
    <3> QED BY <1>11, <3>1, <3>2
  <2> QED BY <2>2, <2>3 DEF Client!Sound
<1>13. (reasoningIndex # 0 => acc.thought # <<>>) => \A i \in DOMAIN u : u[i].done # <<>>
  <2>1. Len(<<>>) = 0
    OBVIOUS
  <2> QED BY <1>2, <1>3, <1>8, <1>10, <2>1
<1>14. Len(u) >= Len(t) /\ DOMAIN t \subseteq DOMAIN u /\ \A i \in DOMAIN t : u[i] = t[i]
  <2>1. Len(t) \in Nat
    BY <1>8, SeqOfItems DEF ItemsKnown
  <2> QED BY <1>10, <2>1
<1>15. ASSUME NEW i \in DOMAIN streamed
       PROVE  Client!Evolves(streamed[i], u[i])
  <2>1. streamed[i].deltas \in Seq(Nat) /\ <<>> \in Seq(Nat)
    BY <1>5 DEF ItemsKnown
  <2>2. u[i] = t[i] /\ i \in DOMAIN s /\ i \in DOMAIN t
    BY <1>4, <1>8, <1>14
  <2>3. u[i].id = streamed[i].id /\ u[i].deltas = streamed[i].deltas
    BY <1>4, <1>8, <2>2
  <2>4. streamed[i].done # <<>> => u[i] = streamed[i]
    BY <1>4, <1>8, <2>2
  <2> QED BY <2>1, <2>3, <2>4, ItemEvolves
<1>16. Grows(streamed, u)
  <2>1. Len(u) \in Nat /\ Len(t) \in Nat /\ Len(s) \in Nat
    BY <1>4, <1>8, <1>10, SeqOfItems DEF ItemsKnown
  <2> QED BY <1>4, <1>8, <1>14, <1>15, <2>1 DEF Grows
<1> QED BY <1>1, <1>2, <1>3, <1>10, <1>12, <1>13, <1>16 DEF turn

-----------------------------------------------------------------------------
(* The steps of the specification.                                         *)
(* A step of the loop appends words of an arrived thought, or none.        *)
ThoughtsFollow ==
  \/ reasoningIndex' = reasoningIndex /\ acc'.thought = acc.thought
  \/ \E i \in DOMAIN arrived :
       /\ arrived[i].kind = "thought" /\ arrived[i].body \in Seq(Nat)
       /\ acc'.thought = acc.thought \o arrived[i].body

(* The next part is one of those that arrived.                             *)
LEMMA NextArrived ==
  ASSUME PartsInOrder, NEW part, NextPart(part)
  PROVE  \E i \in DOMAIN arrived : part = arrived[i]
<1>1. /\ arrived \in Seq(Parts) /\ pendingParts \in Seq(Parts) /\ pendingParts # <<>>
      /\ part = Head(pendingParts) /\ Len(pendingParts) <= Len(arrived)
      /\ pendingParts = SubSeq(arrived, Handled + 1, Len(arrived))
  BY DEF PartsInOrder, NextPart
<1>2. Len(arrived) \in Nat /\ Len(pendingParts) \in Nat /\ Handled \in Nat
      /\ Len(pendingParts) > 0
  BY <1>1 DEF Handled
<1>3. Handled + 1 \in 1..Len(arrived)
  BY <1>2 DEF Handled
<1>4. pendingParts[1] = arrived[Handled + 1]
  BY <1>1, <1>2, <1>3
<1> QED BY <1>1, <1>3, <1>4

(* The event loop keeps the invariant, and the client's items evolve.      *)
LEMMA PartHandled ==
  ASSUME StreamInv, HandlePart
  PROVE  StreamInv' /\ Grows(streamed, streamed') /\ ThoughtsFollow
<1>1. PICK part \in ToSet(pendingParts) :
        /\ NextPart(part)
        /\ CASE part.kind = "thought" -> OnThought(part)
             [] part.kind = "call" -> OnCall(part)
             [] part.kind = "text" /\ part.body # <<>> -> OnText(part)
             [] OTHER -> OnSignature(part)
  BY DEF HandlePart
<1>2. /\ PartsInOrder /\ status = "in_progress" /\ status' = "in_progress"
      /\ arrived' = arrived
  BY <1>1 DEF StreamInv, HandlePart, NextPart
<1>3. /\ acc = Accumulated(SubSeq(arrived, 1, Handled))
      /\ Accumulator(acc, Handled)
      /\ Places(acc, msgIndex, reasoningIndex, callIndexes, streamed)
  BY <1>2 DEF StreamInv, Accumulated
<1>4. /\ PartsInOrder' /\ part \in Parts
      /\ Handled \in 0..(MaxParts - 1) /\ Handled' = Handled + 1
      /\ SubSeq(arrived, 1, Handled) \in Seq(Parts)
      /\ SubSeq(arrived, 1, Handled)' = Append(SubSeq(arrived, 1, Handled), part)
  BY <1>1, <1>2, NextInOrder
<1>5. part.kind \in {"thought", "call", "text"} /\ part.body \in Seq(Nat)
  BY <1>4 DEF Parts
<1>6. PICK i \in DOMAIN arrived : part = arrived[i]
  BY <1>1, <1>2, NextArrived
<1> DEFINE n == Handled
<1> HIDE DEF n
<1>7. /\ acc' = ProcessPart(acc, part) /\ Accumulator(acc', n + 1)
      /\ Places(acc', msgIndex', reasoningIndex', callIndexes', streamed')
      /\ Grows(streamed, streamed') /\ ThoughtsFollow
  <2>1. n \in 0..(MaxParts - 1) /\ Accumulator(acc, n)
    BY <1>3, <1>4 DEF n
  <2>2. CASE part.kind = "thought"
    <3>1. OnThought(part)
      BY <1>1, <2>2
    <3> QED BY <1>3, <1>4, <1>5, <1>6, <2>1, <2>2, <3>1, ThoughtHandled DEF ThoughtsFollow
  <2>3. CASE part.kind = "call"
    <3>1. OnCall(part)
      BY <1>1, <2>3
    <3>2. reasoningIndex' = reasoningIndex
      BY <3>1 DEF OnCall
    <3> QED BY <1>3, <1>4, <2>1, <2>3, <3>1, <3>2, CallHandled DEF ThoughtsFollow
  <2>4. CASE part.kind = "text" /\ part.body # <<>>
    <3>1. OnText(part)
      BY <1>1, <2>4
    <3>2. reasoningIndex' = reasoningIndex
      BY <3>1 DEF OnText
    <3> QED BY <1>3, <1>4, <2>1, <2>4, <3>1, <3>2, TextHandled DEF ThoughtsFollow
  <2>5. CASE part.kind = "text" /\ part.body = <<>>
    <3>1. OnSignature(part)
      BY <1>1, <2>5
    <3>2. reasoningIndex' = reasoningIndex
      BY <3>1 DEF OnSignature
    <3> QED BY <1>3, <1>4, <2>1, <2>5, <3>1, <3>2, SignatureHandled DEF ThoughtsFollow
  <2> QED BY <1>5, <2>2, <2>3, <2>4, <2>5
<1>8. acc' = Accumulated(SubSeq(arrived, 1, Handled)')
  BY <1>3, <1>4, <1>7, AccumulatedAppend
<1>9. Accumulator(acc', Handled')
  BY <1>4, <1>7 DEF n
<1> QED BY <1>2, <1>4, <1>7, <1>8, <1>9 DEF StreamInv, Accumulated

(* A chunk is put behind what arrived when everything before is handled.   *)
LEMMA ChunkArrives ==
  ASSUME StreamInv, Upstream
  PROVE  /\ StreamInv' /\ UNCHANGED <<handlerVars, clientVars>>
         /\ WordedThoughts /\ (\A i \in DOMAIN arrived : arrived[i].kind = "thought" => arrived[i].body # <<>>)
              => \A i \in DOMAIN arrived' : arrived'[i].kind = "thought" => arrived'[i].body # <<>>
<1>1. PICK n \in 0..MaxChunk, reason \in Reasons \cup {NoReason} :
        /\ Len(arrived) + n <= MaxParts
        /\ \E shapes \in [1..n -> Shapes] :
             ReadChunk([k \in 1..n |-> Stamped(shapes[k], Len(arrived) + k)], reason)
  BY DEF Upstream
<1>2. PICK shapes \in [1..n -> Shapes] :
        ReadChunk([k \in 1..n |-> Stamped(shapes[k], Len(arrived) + k)], reason)
  BY <1>1
<1> DEFINE chunk == [k \in 1..n |-> Stamped(shapes[k], Len(arrived) + k)]
<1>3. /\ arrived \in Seq(Parts) /\ Len(arrived) \in Nat /\ n \in Nat
      /\ PartsInOrder
  BY BoundsAssumption DEF StreamInv, PartsInOrder
<1>4. ASSUME NEW k \in 1..n
      PROVE  /\ chunk[k] \in Parts
             /\ chunk[k].kind = shapes[k].kind
             /\ shapes[k].body => chunk[k].body # <<>>
  <2>1. /\ shapes[k].kind \in {"thought", "call", "text"} /\ shapes[k].id \in UpstreamIds \cup {NoId}
        /\ shapes[k].body \in BOOLEAN /\ shapes[k].sig \in Sigs \cup {NoSig}
    BY ShapesAssumption
  <2> DEFINE body == IF shapes[k].body THEN <<Len(arrived) + k>> ELSE <<>>
  <2>2. body \in Seq(Nat) /\ (shapes[k].body => body # <<>>)
    BY <1>3
  <2> HIDE DEF body
  <2>3. chunk[k] = [kind |-> shapes[k].kind, id |-> shapes[k].id, body |-> body, sig |-> shapes[k].sig]
    BY DEF Stamped, Part, body
  <2> QED BY <2>1, <2>2, <2>3 DEF Parts
<1>5. chunk \in Seq(Parts) /\ Len(chunk) = n /\ DOMAIN chunk = 1..n
  <2>1. chunk \in [1..n -> Parts]
    BY <1>4
  <2> QED BY <1>3, <2>1, FunctionSeq
<1>6. /\ pendingParts = <<>> /\ arrived' = arrived \o chunk /\ pendingParts' = chunk
      /\ UNCHANGED <<handlerVars, clientVars>>
  BY <1>2 DEF ReadChunk, Drained, Upstream
<1> HIDE DEF chunk
<1>7. /\ arrived' \in Seq(Parts) /\ Len(arrived') = Len(arrived) + n
      /\ \A i \in 1..Len(arrived) : arrived'[i] = arrived[i]
      /\ \A k \in 1..n : arrived'[Len(arrived) + k] = chunk[k]
  <2> DEFINE all == arrived \o chunk
  <2>1. all \in Seq(Parts) /\ Len(all) = Len(arrived) + n
    BY <1>3, <1>5
  <2>2. \A i \in 1..(Len(arrived) + n) :
          all[i] = IF i <= Len(arrived) THEN arrived[i] ELSE chunk[i - Len(arrived)]
    BY <1>3, <1>5, ConcatProperties
  <2> HIDE DEF all
  <2>3. \A i \in 1..Len(arrived) : all[i] = arrived[i]
    BY <1>3, <2>2
  <2>4. ASSUME NEW k \in 1..n
        PROVE  all[Len(arrived) + k] = chunk[k]
    <3>1. Len(arrived) + k \in 1..(Len(arrived) + n) /\ ~ (Len(arrived) + k <= Len(arrived))
          /\ (Len(arrived) + k) - Len(arrived) = k
      BY <1>3
    <3> QED BY <2>2, <3>1
  <2>5. arrived' = all
    BY <1>6 DEF all
  <2> QED BY <2>1, <2>3, <2>4, <2>5
<1>8. Handled = Len(arrived) /\ Handled' = Len(arrived)
  <2>1. Len(pendingParts) = 0
    BY <1>6
  <2>2. Handled' = Len(arrived') - Len(pendingParts')
    BY DEF Handled
  <2> QED BY <1>3, <1>5, <1>6, <1>7, <2>1, <2>2 DEF Handled
<1>9. PartsInOrder'
  <2>1. chunk = SubSeq(arrived', Len(arrived) + 1, Len(arrived'))
    BY <1>3, <1>5, <1>7
  <2>2. /\ arrived' \in Seq(Parts) /\ Len(arrived') <= MaxParts
        /\ pendingParts' \in Seq(Parts) /\ Len(pendingParts') <= Len(arrived')
    BY <1>1, <1>3, <1>5, <1>6, <1>7
  <2>3. pendingParts' = SubSeq(arrived', Handled' + 1, Len(arrived'))
    BY <1>6, <1>8, <2>1
  <2> QED BY <2>2, <2>3 DEF PartsInOrder
<1>10. SubSeq(arrived, 1, Handled)' = SubSeq(arrived, 1, Handled)
  <2>1. SubSeq(arrived', 1, Len(arrived)) = SubSeq(arrived, 1, Len(arrived))
    BY <1>3, <1>7
  <2> QED BY <1>8, <2>1
<1>11. StreamInv'
  <2>1. /\ acc' = acc /\ msgIndex' = msgIndex /\ reasoningIndex' = reasoningIndex
        /\ callIndexes' = callIndexes /\ streamed' = streamed /\ status' = status
        /\ Handled' = Handled
    BY <1>6, <1>8 DEF handlerVars, clientVars
  <2> QED BY <1>9, <1>10, <2>1 DEF StreamInv
<1>12. ASSUME WordedThoughts,
              \A i \in DOMAIN arrived : arrived[i].kind = "thought" => arrived[i].body # <<>>,
              NEW i \in DOMAIN arrived', arrived'[i].kind = "thought"
       PROVE  arrived'[i].body # <<>>
  <2>1. CASE i \in 1..Len(arrived)
    BY <1>3, <1>7, <1>12, <2>1
  <2>2. CASE i \notin 1..Len(arrived)
    <3>1. i - Len(arrived) \in 1..n /\ i = Len(arrived) + (i - Len(arrived))
      BY <1>3, <1>7, <2>2
    <3>2. PICK k \in 1..n : i = Len(arrived) + k
      BY <3>1
    <3>3. arrived'[i] = chunk[k] /\ shapes[k] \in Shapes
      BY <1>7, <3>2
    <3> QED BY <1>4, <1>12, <3>3 DEF WordedThoughts
  <2> QED BY <2>1, <2>2
<1> QED BY <1>6, <1>11, <1>12

-----------------------------------------------------------------------------
(* StreamInv is inductive: it holds at the start,                          *)
LEMMA StreamInit == Init => StreamInv
<1> SUFFICES ASSUME Init PROVE StreamInv
  OBVIOUS
<1>1. /\ arrived = <<>> /\ pendingParts = <<>> /\ acc = NewAccumulator
      /\ msgIndex = 0 /\ reasoningIndex = 0 /\ callIndexes = <<>> /\ streamed = <<>>
  BY DEF Init, DecoderInit
<1>2. Handled = 0
  BY <1>1 DEF Handled
<1>3. PartsInOrder
  BY <1>1, <1>2, BoundsAssumption DEF PartsInOrder
<1>4. acc = FoldLeft(ProcessPart, NewAccumulator, SubSeq(arrived, 1, Handled))
  <2>1. SubSeq(<<>>, 1, 0) = <<>>
    OBVIOUS
  <2> QED BY <1>1, <1>2, <2>1, AccumulatedNone DEF Accumulated
<1>5. Accumulator(acc, Handled)
  <2>1. /\ acc.parts = <<>> /\ acc.order = <<>> /\ acc.thought = <<>> /\ acc.text = <<>>
        /\ acc.textSig = NoSig /\ acc.textCount = 0 /\ acc.bridge = <<>>
    BY <1>1 DEF NewAccumulator
  <2>2. DOMAIN acc.bridge = {} /\ Len(acc.parts) = 0
    BY <2>1
  <2> QED BY <1>1, <1>2, <2>1, <2>2 DEF Accumulator
<1>6. Places(acc, msgIndex, reasoningIndex, callIndexes, streamed)
  <2>1. DOMAIN streamed = {} /\ DOMAIN callIndexes = {} /\ streamed \in Seq(Range(streamed))
    <3>1. <<>> \in Seq(Range(<<>>)) /\ DOMAIN <<>> = {}
      OBVIOUS
    <3> QED BY <1>1, <3>1
  <2>2. ItemsKnown(streamed)
    BY <2>1 DEF ItemsKnown
  <2>3. acc.text = <<>> /\ ~acc.hasThought
    BY <1>1 DEF NewAccumulator
  <2>4. IndexesRight(acc, msgIndex, reasoningIndex, callIndexes, streamed)
    BY <1>1, <2>1, <2>3 DEF IndexesRight
  <2> QED BY <2>1, <2>2, <2>4 DEF Places
<1> QED BY <1>3, <1>4, <1>5, <1>6 DEF StreamInv

(* and every step keeps it.                                                *)
LEMMA StreamStep == StreamInv /\ [Next]_vars => StreamInv'
<1> SUFFICES ASSUME StreamInv, [Next]_vars PROVE StreamInv'
  OBVIOUS
<1>1. CASE Upstream
  BY <1>1, ChunkArrives
<1>2. CASE HandlePart
  BY <1>2, PartHandled
<1>3. CASE HandleTerminal
  <2>1. /\ UNCHANGED <<arrived, pendingParts, acc, msgIndex, reasoningIndex, callIndexes, clientVars>>
    BY <1>3 DEF HandleTerminal, NextTerminal
  <2> QED BY <2>1 DEF StreamInv, PartsInOrder, Handled, clientVars
<1>4. CASE Fail \/ Complete
  <2>1. UNCHANGED <<arrived, pendingParts>> /\ status' # "in_progress"
    BY <1>4 DEF Fail, Complete, Broken, CleanEnd, decoderVars, ResponseStatus
  <2> QED BY <2>1 DEF StreamInv, PartsInOrder, Handled
<1>5. CASE UNCHANGED vars
  BY <1>5 DEF vars, decoderVars, handlerVars, clientVars, StreamInv, PartsInOrder, Handled
<1> QED BY <1>1, <1>2, <1>3, <1>4, <1>5 DEF Next

(* What is known of the variables while the response is in progress.       *)
LEMMA InProgress ==
  ASSUME StreamInv, status = "in_progress"
  PROVE  /\ Handled \in 0..MaxParts /\ Accumulator(acc, Handled)
         /\ acc = Accumulated(SubSeq(arrived, 1, Handled))
         /\ Places(acc, msgIndex, reasoningIndex, callIndexes, streamed)
<1>1. /\ arrived \in Seq(Parts) /\ pendingParts \in Seq(Parts)
      /\ Len(pendingParts) <= Len(arrived) /\ Len(arrived) <= MaxParts
  BY DEF StreamInv, PartsInOrder
<1>2. Handled \in 0..MaxParts
  BY <1>1, BoundsAssumption DEF Handled
<1> QED BY <1>2 DEF StreamInv, Accumulated

-----------------------------------------------------------------------------
(* Types.  The committed parts are items of this response.                 *)
LEMMA PartFields ==
  ASSUME NEW parts \in Seq(TurnParts)
  PROVE  \A i \in DOMAIN parts : parts[i].item \in Items /\ parts[i].sig \in Sigs \cup {NoSig}
<1>1. \A i \in DOMAIN parts : parts[i] \in TurnParts
  OBVIOUS
<1>2. \A p \in TurnParts : p.item \in Items /\ p.sig \in Sigs \cup {NoSig}
  BY DEF TurnParts
<1> QED BY <1>1, <1>2

(* While the response is in progress StreamInv has the types,              *)
LEMMA TypesInProgress == StreamInv /\ status = "in_progress" => TypeOK
<1> SUFFICES ASSUME StreamInv, status = "in_progress" PROVE TypeOK
  OBVIOUS
<1> DEFINE n == Handled
<1>0. Accumulator(acc, n) /\ Places(acc, msgIndex, reasoningIndex, callIndexes, streamed)
  BY InProgress
<1> HIDE DEF n
<1>1. /\ ItemsKnown(streamed)
      /\ IndexesRight(acc, msgIndex, reasoningIndex, callIndexes, streamed)
  BY <1>0 DEF Places
<1>2. Len(streamed) \in Nat /\ DOMAIN streamed = 1..Len(streamed)
  BY <1>1, SeqOfItems DEF ItemsKnown
<1>3. msgIndex \in 0..Len(streamed) /\ reasoningIndex \in 0..Len(streamed)
  BY <1>1, <1>2 DEF IndexesRight
<1>4. \A c \in DOMAIN callIndexes : callIndexes[c] \in 1..Len(streamed)
  BY <1>1, <1>2 DEF IndexesRight
<1>5. \A i \in DOMAIN streamed : streamed[i].id \in Items
  BY <1>1 DEF ItemsKnown
<1>6. \A i \in DOMAIN acc.parts : acc.parts[i].item \in Items /\ acc.parts[i].sig \in Sigs \cup {NoSig}
  <2>1. acc.parts \in Seq(TurnParts)
    BY <1>0 DEF Accumulator
  <2> QED BY <2>1, PartFields
<1>7. ToSet(acc.order) \subseteq Items
  BY <1>0 DEF Accumulator, ToSet
<1> QED BY <1>3, <1>4, <1>5, <1>6, <1>7 DEF TypeOK

(* and the steps that end it keep them.                                    *)
LEMMA TypesAtTheEnd ==
  ASSUME StreamInv, TypeOK, [Next]_vars, status' # "in_progress"
  PROVE  TypeOK'
<1>1. CASE UNCHANGED vars
  BY <1>1 DEF vars, handlerVars, clientVars, TypeOK
<1>2. CASE Fail
  BY <1>2 DEF Fail, handlerVars, TypeOK
<1>3. CASE Complete
  <2>1. status = "in_progress" /\ status' \in {"completed", "incomplete"}
        /\ UNCHANGED <<reasoningIndex, callIndexes>>
    BY <1>3 DEF Complete, ResponseStatus
  <2> DEFINE n == Handled
  <2>2. /\ n \in 0..MaxParts /\ Accumulator(acc, n)
        /\ Places(acc, msgIndex, reasoningIndex, callIndexes, streamed)
    BY <2>1, InProgress
  <2> HIDE DEF n
  <2>3. /\ ItemsKnown(streamed') /\ Grows(streamed, streamed') /\ msgIndex' = 0
        /\ acc'.parts \in Seq(TurnParts) /\ acc'.order \in Seq(Items)
    BY <1>3, <2>2, CompletionSound
  <2>4. Len(streamed) \in Nat /\ Len(streamed') \in Nat /\ Len(streamed') >= Len(streamed)
    BY <2>2, <2>3, SeqOfItems DEF Places, ItemsKnown, Grows
  <2>5. /\ msgIndex' \in 0..Len(streamed') /\ reasoningIndex' \in 0..Len(streamed')
        /\ \A c \in DOMAIN callIndexes' : callIndexes'[c] \in 1..Len(streamed')
    BY <2>1, <2>3, <2>4 DEF TypeOK
  <2>6. \A i \in DOMAIN acc'.parts : acc'.parts[i].item \in Items /\ acc'.parts[i].sig \in Sigs \cup {NoSig}
    BY <2>3, PartFields
  <2>7. ToSet(acc'.order) \subseteq Items
    BY <2>3 DEF ToSet
  <2>8. \A i \in DOMAIN streamed' : streamed'[i].id \in Items
    BY <2>3 DEF ItemsKnown
  <2> QED BY <2>1, <2>5, <2>6, <2>7, <2>8 DEF TypeOK
<1>4. CASE Upstream \/ HandlePart \/ HandleTerminal
  BY <1>4 DEF Upstream, HandlePart, HandleTerminal, clientVars
<1> QED BY <1>1, <1>2, <1>3, <1>4 DEF Next

(* Every index the streaming handler keeps is the place of an item it      *)
(* announced, and every item has an id of this response                    *)
(* (ResponsesStream.TypeOK).                                               *)
THEOREM StreamTypeCorrect == Spec => []TypeOK
<1>1. Init => StreamInv /\ status = "in_progress"
  BY StreamInit DEF Init
<1>2. StreamInv /\ [Next]_vars => StreamInv'
  BY StreamStep
<1>3. StreamInv /\ status = "in_progress" => TypeOK
  BY TypesInProgress
<1>4. StreamInv /\ TypeOK /\ [Next]_vars => TypeOK' \/ (status = "in_progress")'
  BY TypesAtTheEnd
<1> QED BY <1>1, <1>2, <1>3, <1>4, PTL DEF Spec

-----------------------------------------------------------------------------
(* Flushing before Finish, as the streaming handler does, changes nothing. *)
LEMMA FinishFlushes ==
  ASSUME NEW a, NEW n \in 0..MaxParts, Accumulator(a, n)
  PROVE  Finish(FlushPendingText(a)) = Finish(a)
<1> DEFINE f == FlushPendingText(a)
<1>1. Accumulator(f, n) /\ f.text = <<>>
  BY FlushCommits
<1> HIDE DEF f
<1>2. FlushPendingText(f) = f
  BY <1>1, FlushCommits
<1> QED BY <1>2 DEF Finish, f

(* When everything that arrived is handled, acc is the fold over it all.   *)
LEMMA CompletedSame ==
  ASSUME StreamInv, Complete
  PROVE  acc' = BuildAuthoritativeTurn(arrived') /\ final' = ToOutputItems(acc')
<1>1. /\ status = "in_progress" /\ pendingParts = <<>> /\ arrived' = arrived
      /\ acc' = Finish(Flushed(acc)) /\ final' = ToOutputItems(Finish(Flushed(acc)))
  BY DEF Complete, CleanEnd, Drained, decoderVars
<1>2. /\ Handled \in 0..MaxParts /\ Accumulator(acc, Handled)
      /\ acc = Accumulated(SubSeq(arrived, 1, Handled))
      /\ Places(acc, msgIndex, reasoningIndex, callIndexes, streamed)
  BY <1>1, InProgress
<1>3. SubSeq(arrived, 1, Handled) = arrived
  <2>1. arrived \in Seq(Parts) /\ Len(pendingParts) = 0
    BY <1>1 DEF StreamInv, PartsInOrder
  <2>2. Handled = Len(arrived) /\ Len(arrived) \in Nat
    BY <2>1 DEF Handled
  <2> QED BY <2>1, <2>2
<1> DEFINE n == Handled
<1>4. n \in 0..MaxParts /\ Accumulator(acc, n)
  BY <1>2
<1> HIDE DEF n
<1>5. Flushed(acc) = FlushPendingText(acc)
  BY <1>2, <1>4, FlushPlaces
<1>6. Finish(FlushPendingText(acc)) = Finish(acc)
  BY <1>4, FinishFlushes
<1> QED BY <1>1, <1>2, <1>3, <1>5, <1>6 DEF BuildAuthoritativeTurn, Accumulated

(* However the upstream cuts its answer into chunks, a completed stream    *)
(* ends with the output the handler that does not stream builds from all   *)
(* parts at once (ResponsesStream.SameAsUnstreamed; responses.go:547).     *)
THEOREM StreamEndsAsUnstreamed == Spec => []SameAsUnstreamed
<1>1. Init => StreamInv /\ SameAsUnstreamed
  BY StreamInit DEF Init, SameAsUnstreamed, Done
<1>2. StreamInv /\ SameAsUnstreamed /\ [Next]_vars => (StreamInv /\ SameAsUnstreamed)'
  <2> SUFFICES ASSUME StreamInv, SameAsUnstreamed, [Next]_vars
               PROVE  SameAsUnstreamed'
    BY StreamStep
  <2>1. CASE Complete
    BY <2>1, CompletedSame DEF SameAsUnstreamed
  <2>2. CASE Upstream \/ HandlePart \/ HandleTerminal \/ Fail
    <3>1. status' \in {"in_progress", "failed"}
      BY <2>2 DEF Upstream, HandlePart, HandleTerminal, Fail, clientVars
    <3> QED BY <3>1 DEF SameAsUnstreamed, Done
  <2>3. CASE UNCHANGED vars
    BY <2>3 DEF SameAsUnstreamed, Done, vars, decoderVars, clientVars
  <2> QED BY <2>1, <2>2, <2>3 DEF Next
<1> QED BY <1>1, <1>2, PTL DEF Spec

-----------------------------------------------------------------------------
(* A response in progress is one the client can assemble.                  *)
LEMMA PlacesSound ==
  ASSUME NEW a, NEW m, NEW r, NEW calls, NEW s, Places(a, m, r, calls, s)
  PROVE  Client!Sound(s) /\ \A i \in DOMAIN s : Client!Evolves(s[i], s[i])
<1>1. ItemsKnown(s) /\ \A i \in DOMAIN s : OpenOrFlushed(a, m, r, calls, s, i)
  BY DEF Places
<1>2. \A i, j \in DOMAIN s : s[i].id = s[j].id => i = j
  BY <1>1 DEF ItemsKnown
<1>3. \A i \in DOMAIN s : s[i].done = <<>> \/ Len(s[i].done) = 1
  BY <1>1 DEF OpenOrFlushed
<1>4. ASSUME NEW i \in DOMAIN s
      PROVE  Len(s[i].done) <= 1
  <2>1. Len(<<>>) = 0
    OBVIOUS
  <2>2. CASE s[i].done = <<>>
    <3>1. Len(s[i].done) = 0
      BY <2>1, <2>2
    <3> QED BY <3>1
  <2>3. CASE Len(s[i].done) = 1
    BY <2>3
  <2> QED BY <1>3, <2>2, <2>3
<1> QED BY <1>1, <1>2, <1>4, SameGrows DEF Client!Sound

(* Words of a thought that arrived stay in the turn.                       *)
LEMMA ThoughtsStep ==
  ASSUME WordedThoughts, StreamInv, ThoughtsAreKept, [Next]_vars
  PROVE  ThoughtsAreKept'
<1>1. CASE Upstream
  <2>1. UNCHANGED <<handlerVars, clientVars>>
    BY <1>1, ChunkArrives
  <2>2. \A i \in DOMAIN arrived' : arrived'[i].kind = "thought" => arrived'[i].body # <<>>
    BY <1>1, ChunkArrives DEF ThoughtsAreKept
  <2> QED BY <2>1, <2>2 DEF ThoughtsAreKept, handlerVars
<1>2. CASE HandlePart
  <2>1. ThoughtsFollow /\ status = "in_progress" /\ arrived' = arrived
    BY <1>2, PartHandled DEF HandlePart, NextPart
  <2>2. acc.thought \in Seq(Nat)
    BY <2>1 DEF StreamInv, Accumulator
  <2>3. acc'.thought = <<>> => acc.thought = <<>> /\ reasoningIndex' = reasoningIndex
    <3>1. CASE reasoningIndex' = reasoningIndex /\ acc'.thought = acc.thought
      BY <3>1
    <3>2. CASE \E i \in DOMAIN arrived :
                 /\ arrived[i].kind = "thought" /\ arrived[i].body \in Seq(Nat)
                 /\ acc'.thought = acc.thought \o arrived[i].body
      <4>1. PICK i \in DOMAIN arrived :
              /\ arrived[i].kind = "thought" /\ arrived[i].body \in Seq(Nat)
              /\ acc'.thought = acc.thought \o arrived[i].body
        BY <3>2
      <4>2. arrived[i].body # <<>>
        BY <4>1 DEF ThoughtsAreKept
      <4>3. \A body \in Seq(Nat) : body # <<>> => acc.thought \o body # <<>>
        BY <2>2
      <4> QED BY <4>1, <4>2, <4>3
    <3> QED BY <2>1, <3>1, <3>2 DEF ThoughtsFollow
  <2> QED BY <2>1, <2>3 DEF ThoughtsAreKept
<1>3. CASE HandleTerminal \/ Fail
  <2>1. UNCHANGED <<arrived, acc, reasoningIndex>>
    BY <1>3 DEF HandleTerminal, NextTerminal, Fail, Broken, decoderVars, handlerVars
  <2> QED BY <2>1 DEF ThoughtsAreKept
<1>4. CASE Complete
  <2>1. UNCHANGED <<arrived, reasoningIndex>> /\ acc'.thought = acc.thought
    <3> DEFINE n == Handled
               f == FlushPendingText(acc)
    <3>1. n \in 0..MaxParts /\ Accumulator(acc, n)
          /\ Places(acc, msgIndex, reasoningIndex, callIndexes, streamed)
      BY <1>4, InProgress DEF Complete
    <3> HIDE DEF n
    <3>2. Accumulator(f, n) /\ f.text = <<>> /\ f.thought = acc.thought
      BY <3>1, FlushCommits
    <3>3. acc' = Finish(f)
      BY <1>4, <3>1, CompletionSound
    <3> HIDE DEF f
    <3>4. Finish(f).thought = f.thought
      BY <3>1, <3>2, TurnFinished
    <3> QED BY <1>4, <3>2, <3>3, <3>4 DEF Complete, CleanEnd, decoderVars
  <2> QED BY <2>1 DEF ThoughtsAreKept
<1>5. CASE UNCHANGED vars
  BY <1>5 DEF vars, decoderVars, handlerVars, ThoughtsAreKept
<1> QED BY <1>1, <1>2, <1>3, <1>4, <1>5 DEF Next

(* Every step of the handler is a step the promise allows, or no step of   *)
(* the client's.                                                           *)
LEMMA StepAllowed ==
  ASSUME StreamInv, ThoughtsAreKept, [Next]_vars
  PROVE  [Client!Advance]_<<streamed, status>>
<1>1. CASE Upstream \/ HandleTerminal \/ UNCHANGED vars
  BY <1>1 DEF Upstream, HandleTerminal, vars, clientVars
<1>2. CASE HandlePart
  <2>1. StreamInv' /\ Grows(streamed, streamed') /\ status = "in_progress" /\ status' = "in_progress"
    BY <1>2, PartHandled DEF HandlePart
  <2>2. Places(acc', msgIndex', reasoningIndex', callIndexes', streamed')
    BY <2>1 DEF StreamInv
  <2>3. Client!Sound(streamed')
    BY <2>2, PlacesSound
  <2> QED BY <2>1, <2>3 DEF Client!Advance, Grows
<1>3. CASE Fail
  <2>1. status = "in_progress" /\ status' = "failed" /\ streamed' = streamed
    BY <1>3 DEF Fail
  <2>2. Places(acc, msgIndex, reasoningIndex, callIndexes, streamed)
    BY <2>1, InProgress
  <2>3. Client!Sound(streamed) /\ \A i \in DOMAIN streamed : Client!Evolves(streamed[i], streamed[i])
    BY <2>2, PlacesSound
  <2>4. Len(streamed) \in Nat
    BY <2>2, SeqOfItems DEF Places, ItemsKnown
  <2> QED BY <2>1, <2>3, <2>4 DEF Client!Advance
<1>4. CASE Complete
  <2> DEFINE n == Handled
  <2>1. status = "in_progress" /\ status' \in {"completed", "incomplete"}
    BY <1>4 DEF Complete, ResponseStatus
  <2>2. n \in 0..MaxParts /\ Accumulator(acc, n)
        /\ Places(acc, msgIndex, reasoningIndex, callIndexes, streamed)
    BY <2>1, InProgress
  <2> HIDE DEF n
  <2>3. /\ Client!Sound(streamed') /\ Grows(streamed, streamed')
        /\ (reasoningIndex # 0 => acc.thought # <<>>)
             => \A i \in DOMAIN streamed' : streamed'[i].done # <<>>
    BY <1>4, <2>2, CompletionSound
  <2> QED BY <2>1, <2>3 DEF Client!Advance, Grows, ThoughtsAreKept
<1> QED BY <1>1, <1>2, <1>3, <1>4 DEF Next

(* When no thought comes without words, the events keep the promise of     *)
(* ItemStream: items are announced at the end under ids of their own,      *)
(* filled while open, finished once and left alone, and all are finished   *)
(* when the response completes (ResponsesStream.ImplementsItemStream).     *)
THEOREM StreamKeepsItsPromise ==
  ASSUME WordedThoughts
  PROVE  Spec => ImplementsItemStream
<1>1. Init => StreamInv /\ ThoughtsAreKept /\ Client!Init
  BY StreamInit DEF Init, DecoderInit, ThoughtsAreKept, Client!Init
<1>2. StreamInv /\ ThoughtsAreKept /\ [Next]_vars => (StreamInv /\ ThoughtsAreKept)'
  BY StreamStep, ThoughtsStep
<1>3. StreamInv /\ ThoughtsAreKept /\ [Next]_vars => [Client!Advance]_<<streamed, status>>
  BY StepAllowed
<1> QED BY <1>1, <1>2, <1>3, PTL DEF Spec, ImplementsItemStream, Client!Spec

-----------------------------------------------------------------------------
(* What the final response says, of the parts alone.                       *)

(* The parts are numbered as they arrive.                                  *)
LEMMA ChunkNumbered ==
  ASSUME StreamInv, Numbered(arrived), Upstream
  PROVE  Numbered(arrived')
<1>1. PICK n \in 0..MaxChunk, reason \in Reasons \cup {NoReason} :
        /\ Len(arrived) + n <= MaxParts
        /\ \E shapes \in [1..n -> Shapes] :
             ReadChunk([k \in 1..n |-> Stamped(shapes[k], Len(arrived) + k)], reason)
  BY DEF Upstream
<1>2. PICK shapes \in [1..n -> Shapes] :
        ReadChunk([k \in 1..n |-> Stamped(shapes[k], Len(arrived) + k)], reason)
  BY <1>1
<1> DEFINE chunk == [k \in 1..n |-> Stamped(shapes[k], Len(arrived) + k)]
<1>3. PICK m \in Nat : m = Len(arrived) /\ n \in Nat /\ arrived \in Seq(Parts)
  BY BoundsAssumption DEF StreamInv, PartsInOrder
<1>4. \A k \in 1..n : chunk[k].body \in {<<>>, <<m + k>>}
  BY <1>3 DEF Stamped, Part
<1>5. DOMAIN chunk = 1..n /\ arrived' = arrived \o chunk
  BY <1>2 DEF ReadChunk
<1>6. chunk \in Seq(Range(chunk)) /\ Len(chunk) = n
  <2> HIDE DEF chunk
  <2>1. chunk \in [1..n -> Range(chunk)]
    <3>1. chunk = [k \in 1..n |-> chunk[k]]
      BY DEF chunk
    <3> QED BY <1>5, <3>1 DEF Range
  <2> QED BY <1>3, <2>1, FunctionSeq
<1> HIDE DEF chunk
<1> DEFINE T == Parts \cup Range(chunk)
           all == arrived \o chunk
<1>7. /\ Len(all) = m + n /\ DOMAIN all = 1..(m + n)
      /\ \A i \in 1..m : all[i] = arrived[i]
      /\ \A i \in (m + 1)..(m + n) : all[i] = chunk[i - m]
  <2>1. arrived \in Seq(T) /\ chunk \in Seq(T)
    BY <1>3, <1>6, SeqMonotonic
  <2> HIDE DEF T
  <2>2. all \in Seq(T) /\ Len(all) = m + n
    BY <1>3, <1>6, <2>1, ConcatProperties
  <2>3. \A i \in 1..(m + n) : all[i] = IF i <= m THEN arrived[i] ELSE chunk[i - m]
    BY <1>3, <1>6, <2>1, ConcatProperties
  <2> HIDE DEF all
  <2>4. \A i \in 1..m : i \in 1..(m + n) /\ i <= m
    BY <1>3
  <2>5. \A i \in (m + 1)..(m + n) : i \in 1..(m + n) /\ ~(i <= m)
    BY <1>3
  <2> QED BY <1>3, <2>2, <2>3, <2>4, <2>5
<1> HIDE DEF all
<1>8. \A i \in 1..m : arrived[i].body \in {<<>>, <<i>>}
  BY <1>3 DEF Numbered
<1>9. ASSUME NEW i \in 1..(m + n) PROVE all[i].body \in {<<>>, <<i>>}
  <2>1. CASE i \in 1..m
    BY <1>7, <1>8, <2>1
  <2>2. CASE i \notin 1..m
    <3>1. i \in (m + 1)..(m + n) /\ i - m \in 1..n /\ m + (i - m) = i
      BY <1>3, <2>2
    <3> QED BY <1>4, <1>7, <3>1
  <2> QED BY <2>1, <2>2
<1> QED BY <1>5, <1>7, <1>9 DEF Numbered, all

(* At the end the accumulator has taken every part, and its turn is the    *)
(* one the response gives.                                                 *)
Ending ==
  /\ StreamInv /\ Numbered(arrived)
  /\ Done => acc = BuildAuthoritativeTurn(arrived) /\ final = ToOutputItems(acc)

(* The parts are numbered, and the end is of all of them.                  *)
LEMMA EndingHolds == Spec => []Ending
<1>1. Init => Ending
  <2> SUFFICES ASSUME Init PROVE Ending
    OBVIOUS
  <2>1. arrived = <<>> /\ status = "in_progress"
    BY DEF Init, DecoderInit
  <2>2. Numbered(arrived)
    BY <2>1 DEF Numbered
  <2> QED BY <2>1, <2>2, StreamInit DEF Ending, Done
<1>2. Ending /\ [Next]_vars => Ending'
  <2> SUFFICES ASSUME Ending, [Next]_vars PROVE Ending'
    OBVIOUS
  <2>0. StreamInv /\ Numbered(arrived) /\ StreamInv'
    BY StreamStep DEF Ending
  <2>1. CASE Complete
    <3>1. acc' = BuildAuthoritativeTurn(arrived') /\ final' = ToOutputItems(acc')
      BY <2>0, <2>1, CompletedSame
    <3>2. arrived' = arrived
      BY <2>1 DEF Complete, CleanEnd, decoderVars
    <3> QED BY <2>0, <3>1, <3>2 DEF Ending, Numbered
  <2>2. CASE Upstream
    <3>1. Numbered(arrived)'
      BY <2>0, <2>2, ChunkNumbered DEF Numbered
    <3>2. ~Done'
      BY <2>2 DEF Upstream, clientVars, Done
    <3> QED BY <2>0, <3>1, <3>2 DEF Ending
  <2>3. CASE HandlePart \/ HandleTerminal \/ Fail
    <3>1. arrived' = arrived /\ ~Done'
      BY <2>3 DEF HandlePart, HandleTerminal, Fail, NextPart, NextTerminal, Broken, decoderVars, clientVars, Done
    <3> QED BY <2>0, <3>1 DEF Ending, Numbered
  <2>4. CASE UNCHANGED vars
    BY <2>0, <2>4 DEF Ending, Done, Numbered, vars, decoderVars, handlerVars, clientVars
  <2> QED BY <2>1, <2>2, <2>3, <2>4 DEF Next
<1> QED BY <1>1, <1>2, PTL DEF Spec

-----------------------------------------------------------------------------
(* Each part of a turn, by its kind, and what it has of the parts s.       *)
TextSays(p, s) ==
  p.kind = "text" /\ p.item[1] = "msg" /\ SignedLast(s, Signing(s, p.body), p.sig)

CallSays(p, s) ==
  p.kind = "call" /\ p.item[1] = "fc" /\ p.item[3] = p.id /\ (p.id # NoId => CallRight(p, s))

(* A turn with an accumulator's record says that of each part.             *)
LEMMA TurnSays ==
  ASSUME NEW s \in Seq(AnyPart), Numbered(s)
  PROVE  LET t == BuildAuthoritativeTurn(s)
         IN \A x \in DOMAIN t.parts : TextSays(t.parts[x], s) \/ CallSays(t.parts[x], s)
<1> DEFINE a == Accumulated(s)
           f == FlushPendingText(a)
           t == BuildAuthoritativeTurn(s)
           none == TurnPart("text", Message(0), NoId, <<>>, NoSig)
<1>1. Recording(f) /\ Named(f) /\ TextsRight(f.parts, s) /\ CallsRight(f, s)
  <2>1. RightAfter(s)
    BY AlwaysRight
  <2> QED BY <2>1, FlushView DEF RightAfter, Ordered, Right
<1>2. t.parts = f.parts \/ t.parts = <<none>>
  <2>1. t = Finish(a)
    BY DEF BuildAuthoritativeTurn, Accumulated
  <2>2. t = IF f.parts = <<>> /\ ~f.hasThought
            THEN [f EXCEPT !.parts = <<none>>, !.order = Recorded(@, Message(0))]
            ELSE f
    BY <2>1 DEF Finish
  <2> HIDE DEF t, none
  <2>3. "parts" \in DOMAIN f
    BY <1>1, RecordFields DEF Recording
  <2> HIDE DEF f
  <2> QED BY <2>2, <2>3
<1> HIDE DEF t
<1>3. CASE t.parts = <<none>>
  <2>1. /\ none.kind = "text" /\ none.item = Message(0) /\ none.body = <<>> /\ none.sig = NoSig
    BY DEF TurnPart
  <2> HIDE DEF none
  <2>2. none.item[1] = "msg"
    BY <2>1, NamesDiffer
  <2>3. ToSet(<<>>) = {}
    BY DEF ToSet
  <2>4. Signing(s, <<>>) = {}
    BY <2>3 DEF Signing
  <2>5. TextSays(none, s)
    BY <2>1, <2>2, <2>4 DEF TextSays, SignedLast
  <2>6. DOMAIN t.parts = {1} /\ t.parts[1] = none
    BY <1>3
  <2> QED BY <2>5, <2>6 DEF t
<1>4. CASE t.parts = f.parts
  <2> DEFINE q == f.parts
  <2>1. /\ \A x \in DOMAIN q : q[x] \in RecordPart
        /\ \A x \in DOMAIN q : IF q[x].kind = "call" THEN q[x].item = CallItem(x - 1, q[x].id)
                               ELSE \E k \in 0..(f.textCount - 1) : q[x].item = Message(k)
        /\ \A x \in DOMAIN q : q[x].kind = "text" => SignedLast(s, Signing(s, q[x].body), q[x].sig)
        /\ \A x \in DOMAIN q : q[x].kind = "call" /\ q[x].id # NoId => CallRight(q[x], s)
    BY <1>1, CallsRightAgain DEF Recording, Named, TextsRight
  <2> HIDE DEF q
  <2>2. ASSUME NEW x \in DOMAIN q PROVE TextSays(q[x], s) \/ CallSays(q[x], s)
    <3>1. q[x].kind \in {"text", "call"}
      BY <2>1 DEF RecordPart
    <3>2. CASE q[x].kind = "text"
      <4>1. PICK k : q[x].item = Message(k)
        BY <2>1, <3>2
      <4>2. q[x].item[1] = "msg"
        BY <4>1, NamesDiffer
      <4> QED BY <2>1, <3>2, <4>2 DEF TextSays
    <3>3. CASE q[x].kind = "call"
      <4>1. q[x].item = CallItem(x - 1, q[x].id)
        BY <2>1, <3>3
      <4>2. q[x].item[1] = "fc" /\ q[x].item[3] = q[x].id
        BY <4>1, NamesDiffer
      <4> QED BY <2>1, <3>3, <4>2 DEF CallSays
    <3> QED BY <3>1, <3>2, <3>3
  <2>3. t.parts = q
    BY <1>4 DEF q
  <2> QED BY <2>2, <2>3 DEF t
<1> QED BY <1>2, <1>3, <1>4

(* The signature sent last, by Max.                                        *)
LEMMA SentLastSig ==
  ASSUME NEW s \in Seq(AnyPart), NEW S, S \subseteq DOMAIN s, NEW sig, SignedLast(s, S, sig)
  PROVE  sig = IF S = {} THEN NoSig ELSE s[Max(S)].sig
<1>1. Len(s) \in Nat /\ DOMAIN s = 1..Len(s)
  OBVIOUS
<1>2. CASE S = {}
  BY <1>2 DEF SignedLast
<1>3. CASE S # {}
  <2>1. Max(S) \in S /\ \A k \in S : k <= Max(S)
    BY <1>1, <1>3, MaxOfPositions
  <2> HIDE <1>1
  <2>2. Latest(S, Max(S))
    BY <2>1 DEF Latest
  <2> QED BY <1>3, <2>1, <2>2 DEF SignedLast
<1> QED BY <1>2, <1>3

(* The reference definitions, about the parts that arrived.                *)
LEMMA PositionsAlike ==
  /\ Texts = TextPieces(arrived) /\ Bare = LoneSigs(arrived)
  /\ \A item : Concerning(item) = Signing(arrived, item.body)
<1>1. Texts = TextPieces(arrived) /\ Bare = LoneSigs(arrived)
  BY DEF Texts, Bare, Positions, TextPieces, LoneSigs
<1> QED BY <1>1 DEF Concerning, Signing

(* A part sent to the bridge is one its accumulator knows.                 *)
LEMMA ArrivedParts ==
  ASSUME StreamInv
  PROVE  arrived \in Seq(AnyPart)
<1>1. arrived \in Seq(Parts)
  BY DEF StreamInv, PartsInOrder
<1> QED BY <1>1 DEF Parts, AnyPart

(* The turn of a response that is done: what the accumulator has, or one   *)
(* empty message.                                                          *)
EmptyTurn(f, t) ==
  /\ f.parts = <<>> /\ ~f.hasThought
  /\ t.parts = <<TurnPart("text", Message(0), NoId, <<>>, NoSig)>>
  /\ t.order = Recorded(f.order, Message(0)) /\ t.thought = f.thought

(* The final turn says nothing else.                                       *)
LEMMA EndTurn ==
  ASSUME Ending, Done
  PROVE  LET f == FlushPendingText(Accumulated(arrived))
         IN /\ arrived \in Seq(AnyPart) /\ Numbered(arrived)
            /\ Recording(f) /\ Ordered(f) /\ Right(f, arrived)
            /\ acc = f \/ EmptyTurn(f, acc)
            /\ acc = BuildAuthoritativeTurn(arrived) /\ final = ToOutputItems(acc)
            /\ \E ids \in Seq(ItemIds(acc)) : final = [k \in DOMAIN ids |-> ItemNamed(acc, ids[k])]
<1> DEFINE a == Accumulated(arrived)
           f == FlushPendingText(a)
           none == TurnPart("text", Message(0), NoId, <<>>, NoSig)
           e == [f EXCEPT !.parts = <<none>>, !.order = Recorded(f.order, Message(0))]
<1>1. /\ arrived \in Seq(AnyPart) /\ Numbered(arrived)
      /\ acc = BuildAuthoritativeTurn(arrived) /\ final = ToOutputItems(acc)
  BY ArrivedParts DEF Ending
<1>2. Recording(f) /\ Ordered(f) /\ Right(f, arrived)
  <2>1. RightAfter(arrived)
    BY <1>1, AlwaysRight
  <2> QED BY <1>1, <2>1, FlushView DEF RightAfter
<1>3. acc = f \/ (f.parts = <<>> /\ ~f.hasThought /\ acc = e)
  BY <1>1 DEF BuildAuthoritativeTurn, Accumulated, Finish
<1>4. e.parts = <<none>> /\ e.order = Recorded(f.order, Message(0)) /\ e.thought = f.thought
  BY <1>2, RecordFields DEF Recording
<1>5. Message(0) \in TurnItems /\ <<none>> \in Seq({none})
  BY DEF TurnItems
<1>6. f.order \in Seq(TurnItems) /\ f.parts \in Seq(RecordPart)
  BY <1>2 DEF Recording
<1>7. e.order \in Seq(TurnItems)
  BY <1>4, <1>5, <1>6, RecordedItem
<1> HIDE DEF e, f, none
<1>8. \E S, T : acc.order \in Seq(S) /\ acc.parts \in Seq(T)
  <2>1. CASE acc = f
    BY <1>6, <2>1
  <2>2. CASE acc = e
    <3>1. e.parts \in Seq({none})
      BY <1>4, <1>5
    <3> QED BY <1>7, <2>2, <3>1
  <2> QED BY <1>3, <2>1, <2>2
<1>9. \E ids \in Seq(ItemIds(acc)) : final = [k \in DOMAIN ids |-> ItemNamed(acc, ids[k])]
  BY <1>1, <1>8, OutputIsNamed
<1>10. acc = f \/ EmptyTurn(f, acc)
  BY <1>3, <1>4 DEF EmptyTurn, none
<1> QED BY <1>1, <1>2, <1>9, <1>10 DEF f

(* What a final item says.                                                 *)
LEMMA ItemSays ==
  ASSUME Ending, Done, NEW i \in DOMAIN final
  PROVE  \/ final[i].id[1] = "rs"
         \/ \E x \in DOMAIN acc.parts :
              LET p == acc.parts[x]
              IN /\ final[i].id = p.item /\ final[i].body = p.body /\ final[i].sig = p.sig
                 /\ TextSays(p, arrived) \/ CallSays(p, arrived)
<1>1. /\ arrived \in Seq(AnyPart) /\ Numbered(arrived) /\ acc = BuildAuthoritativeTurn(arrived)
  BY EndTurn
<1>4. PICK ids \in Seq(ItemIds(acc)) : final = [k \in DOMAIN ids |-> ItemNamed(acc, ids[k])]
  BY EndTurn
<1> DEFINE id == ids[i]
<1>5. id \in ItemIds(acc) /\ final[i] = ItemNamed(acc, id)
  BY <1>4
<1> HIDE DEF id
<1>6. CASE id = Reasoning
  <2>1. final[i].id = Reasoning
    BY <1>5, <1>6 DEF ItemNamed, OutputItem
  <2> QED BY <2>1, NamesDiffer
<1>7. CASE id # Reasoning
  <2> DEFINE x == CHOOSE j \in DOMAIN acc.parts : acc.parts[j].item = id
             p == acc.parts[x]
  <2>1. \E j \in DOMAIN acc.parts : acc.parts[j].item = id
    BY <1>5, <1>7 DEF ItemIds
  <2>2. x \in DOMAIN acc.parts /\ p.item = id
    BY <2>1
  <2>3. final[i] = OutputItem(id, p.body, p.sig)
    BY <1>5, <1>7 DEF ItemNamed
  <2> HIDE DEF x
  <2>4. final[i].id = p.item /\ final[i].body = p.body /\ final[i].sig = p.sig
    BY <2>2, <2>3 DEF OutputItem
  <2>5. TextSays(p, arrived) \/ CallSays(p, arrived)
    BY <1>1, <2>2, TurnSays
  <2> QED BY <2>2, <2>4, <2>5
<1> QED BY <1>6, <1>7

(* Every signature reaches the item it is for: each message of the final   *)
(* response carries the signature sent last for its text, be it with a     *)
(* piece or in a part of its own (turn_record.go:264-278), each call the   *)
(* last of its own (turn_record.go:235-239).                               *)
THEOREM SignaturesReach == Spec => []SignaturesLand
<1>1. Ending => SignaturesLand
  <2> SUFFICES ASSUME Ending, Done, NEW i \in DOMAIN final, final[i].id[1] # "rs",
                      final[i].id[1] = "fc" => final[i].id[3] # NoId
               PROVE  LET item == final[i]
                          sigs == IF item.id[1] = "fc"
                                  THEN Positions(LAMBDA p : p.kind = "call" /\ item.id[3] # NoId
                                                            /\ p.id = item.id[3] /\ p.sig # NoSig)
                                  ELSE Concerning(item)
                      IN item.sig = IF sigs = {} THEN NoSig ELSE arrived[Max(sigs)].sig
    BY DEF SignaturesLand
  <2> DEFINE item == final[i]
             call == Positions(LAMBDA p : p.kind = "call" /\ item.id[3] # NoId
                                          /\ p.id = item.id[3] /\ p.sig # NoSig)
  <2>1. arrived \in Seq(AnyPart)
    BY ArrivedParts DEF Ending
  <2>2. PICK x \in DOMAIN acc.parts :
          /\ item.id = acc.parts[x].item /\ item.body = acc.parts[x].body /\ item.sig = acc.parts[x].sig
          /\ TextSays(acc.parts[x], arrived) \/ CallSays(acc.parts[x], arrived)
    BY ItemSays
  <2> DEFINE q == acc.parts[x]
  <2>3. item.id = q.item /\ item.body = q.body /\ item.sig = q.sig
    BY <2>2
  <2> HIDE DEF q, item
  <2>4. CASE TextSays(q, arrived)
    <3>1. item.id[1] # "fc"
      BY <2>3, <2>4 DEF TextSays
    <3>2. Concerning(item) = Signing(arrived, q.body) /\ Signing(arrived, q.body) \subseteq DOMAIN arrived
      <4>1. Concerning(item) = Signing(arrived, q.body)
        BY <2>3, PositionsAlike
      <4> QED BY <4>1 DEF Signing, TextPieces, LoneSigs
    <3>3. SignedLast(arrived, Signing(arrived, q.body), q.sig)
      BY <2>4 DEF TextSays
    <3> DEFINE S == Signing(arrived, q.body)
    <3> HIDE DEF S
    <3>4. q.sig = IF S = {} THEN NoSig ELSE arrived[Max(S)].sig
      BY <2>1, <3>2, <3>3, SentLastSig DEF S
    <3>5. Concerning(item) = S
      BY <3>2 DEF S
    <3> QED BY <2>3, <3>1, <3>4, <3>5 DEF item
  <2>5. CASE CallSays(q, arrived)
    <3>1. item.id[1] = "fc" /\ item.id[3] = q.id /\ q.id # NoId /\ CallRight(q, arrived)
      BY <2>3, <2>5 DEF CallSays, item
    <3> DEFINE S == SigsSent(arrived, q.id)
    <3>2. call = S
      BY <3>1 DEF SigsSent, CallsFor, Positions
    <3>3. S \subseteq DOMAIN arrived /\ SignedLast(arrived, S, q.sig)
      BY <3>1 DEF CallRight, SigsSent, CallsFor
    <3> HIDE DEF S
    <3>4. q.sig = IF S = {} THEN NoSig ELSE arrived[Max(S)].sig
      BY <2>1, <3>3, SentLastSig
    <3> HIDE DEF call
    <3>5. item.sig = IF call = {} THEN NoSig ELSE arrived[Max(call)].sig
      BY <2>3, <3>2, <3>4
    <3> QED BY <3>1, <3>5 DEF call, item
  <2> QED BY <2>2, <2>4, <2>5 DEF q
<1> QED BY <1>1, EndingHolds, PTL

(* The final items that are messages have the bodies of the texts, in the  *)
(* order of the texts.                                                     *)
BodiesRight(b) ==
  /\ b \in Seq(Seq(Nat)) /\ Stacked(b)
  /\ \A k : k \in TextPieces(arrived) <=> \E i \in DOMAIN b : k \in ToSet(b[i])

(* Their bodies, one behind the other, are all the text in its order.     *)
LEMMA BodiesInOrder ==
  ASSUME Ending, Done
  PROVE  BodiesRight([i \in DOMAIN final |-> IF final[i].id[1] \in {"msg"} THEN final[i].body ELSE <<>>])
<1> DEFINE b == [i \in DOMAIN final |-> IF final[i].id[1] \in {"msg"} THEN final[i].body ELSE <<>>]
           f == FlushPendingText(Accumulated(arrived))
<1>1. /\ arrived \in Seq(AnyPart)
      /\ Recording(f) /\ Ordered(f) /\ Right(f, arrived)
      /\ acc = f \/ EmptyTurn(f, acc)
      /\ final = ToOutputItems(acc)
  BY EndTurn
<1>2. PICK names \in Seq(ItemIds(acc)) : final = [k \in DOMAIN names |-> ItemNamed(acc, names[k])]
  BY EndTurn
<1>3. PICK n \in Nat : DOMAIN final = 1..n
  BY <1>2
<1>4. b = [i \in 1..n |-> b[i]]
  BY <1>3
<1>5. TextsRight(f.parts, arrived) /\ f.parts \in Seq(RecordPart)
  BY <1>1 DEF Right, Recording
<1> HIDE DEF f
<1>6. ToSet(<<>>) = {} /\ Rising(<<>>) /\ <<>> \in Seq(Nat)
  BY DEF ToSet, Rising
<1>7. CASE EmptyTurn(f, acc)
  <2> DEFINE none == TurnPart("text", Message(0), NoId, <<>>, NoSig)
  <2>1. acc.parts = <<none>> /\ none.body = <<>> /\ f.parts = <<>>
    BY <1>7 DEF EmptyTurn, TurnPart
  <2>2. DOMAIN acc.parts = {1} /\ acc.parts[1] = none
    BY <2>1
  <2> HIDE DEF none
  <2>3. \A i \in 1..n : b[i] = <<>>
    <3> TAKE i \in 1..n
    <3>1. final[i].id[1] = "rs" \/ final[i].body = <<>>
      BY <1>3, <2>1, <2>2, ItemSays
    <3> QED BY <1>3, <3>1
  <2> HIDE DEF b
  <2>4. b \in Seq(Seq(Nat))
    <3>1. \A i \in 1..n : b[i] \in Seq(Nat)
      BY <1>6, <2>3
    <3>2. [i \in 1..n |-> b[i]] \in Seq(Seq(Nat))
      BY <3>1, IsASeq
    <3> QED BY <1>4, <3>2
  <2>5. DOMAIN b = 1..n
    BY <1>4
  <2>6. Stacked(b)
    BY <1>6, <2>3, <2>5 DEF Stacked
  <2>7. TextPieces(arrived) = {}
    <3>1. DOMAIN f.parts = {}
      BY <2>1
    <3> QED BY <1>5, <3>1 DEF TextsRight
  <2>8. BodiesRight(b)
    BY <1>6, <2>3, <2>4, <2>5, <2>6, <2>7 DEF BodiesRight
  <2> QED BY <2>8 DEF b
<1>8. CASE acc = f
  <2> DEFINE p == f.parts
             X == DOMAIN p
  <2>1. PICK ids : OutputListed(f, ids)
    BY <1>1, OutputInOrder
  <2>2. /\ final = [i \in DOMAIN ids |-> ItemNamed(f, ids[i])]
        /\ Lists(ids, ItemsOf(p)) /\ DOMAIN ids = 1..n
    BY <1>1, <1>3, <1>8, <2>1 DEF OutputListed
  <2>3. /\ \A x \in X : p[x].item # Reasoning /\ \E i \in 1..n : ids[i] = p[x].item
        /\ \A x, y \in X : p[x].item = p[y].item => x = y
        /\ \A i \in 1..n : ids[i] = Reasoning \/ \E x \in X : ids[i] = p[x].item
        /\ \A i, j \in 1..n : \A x, y \in X : ids[i] = p[x].item /\ ids[j] = p[y].item /\ i < j => x < y
    <3>1. DOMAIN ItemsOf(p) = X /\ \A x \in X : ItemsOf(p)[x] = p[x].item
      BY DEF ItemsOf
    <3> HIDE DEF p, X
    <3> QED BY <2>2, <3>1 DEF Lists
  <2>4. /\ \A x \in X : p[x] \in RecordPart
        /\ \A x \in X : IF p[x].kind = "call" THEN p[x].item = CallItem(x - 1, p[x].id)
                        ELSE \E k \in 0..(f.textCount - 1) : p[x].item = Message(k)
        /\ \A x \in X : p[x].kind = "text" => Rising(p[x].body) /\ ToSet(p[x].body) \subseteq TextPieces(arrived)
        /\ \A k \in TextPieces(arrived) : \E x \in X : p[x].kind = "text" /\ k \in ToSet(p[x].body)
        /\ \A x, y \in X : p[x].kind = "text" /\ p[y].kind = "text" /\ x < y =>
             \A k \in ToSet(p[x].body), l \in ToSet(p[y].body) : k < l
    BY <1>1, <1>5 DEF Ordered, Named, TextsRight
  <2>5. X \subseteq Nat
    BY <1>5
  <2> HIDE DEF p, X
  <2>6. ASSUME NEW i \in 1..n
        PROVE  \/ ids[i] = Reasoning /\ b[i] = <<>>
               \/ \E x \in X : ids[i] = p[x].item /\ b[i] = IF p[x].kind = "text" THEN p[x].body ELSE <<>>
    <3>1. final[i] = ItemNamed(f, ids[i])
      BY <2>2
    <3>2. CASE ids[i] = Reasoning
      <4>1. final[i].id = Reasoning
        BY <3>1, <3>2 DEF ItemNamed, OutputItem
      <4>2. final[i].id[1] \notin {"msg"}
        BY <4>1, NamesDiffer
      <4> QED BY <1>3, <3>2, <4>2
    <3>3. CASE ids[i] # Reasoning
      <4> DEFINE x == CHOOSE j \in X : p[j].item = ids[i]
      <4>1. x \in X /\ p[x].item = ids[i]
        BY <2>3, <3>3
      <4>2. final[i] = OutputItem(ids[i], p[x].body, p[x].sig)
        BY <3>1, <3>3 DEF ItemNamed, p, X
      <4> HIDE DEF x
      <4>3. final[i].id = p[x].item /\ final[i].body = p[x].body
        BY <4>1, <4>2 DEF OutputItem
      <4>4. p[x].kind = "text" => p[x].item[1] = "msg"
        BY <2>4, <4>1, NamesDiffer
      <4>5. p[x].kind # "text" => p[x].item[1] # "msg"
        <5>1. p[x].kind \in {"text", "call"}
          BY <2>4, <4>1 DEF RecordPart
        <5> QED BY <2>4, <4>1, <5>1, NamesDiffer
      <4>6. b[i] = IF p[x].kind = "text" THEN p[x].body ELSE <<>>
        BY <1>3, <4>3, <4>4, <4>5
      <4> QED BY <4>1, <4>6
    <3> QED BY <3>2, <3>3
  <2> HIDE DEF b
  <2>7. \A x \in X : p[x].body \in Seq(Nat)
    BY <2>4 DEF RecordPart
  <2>8. ASSUME NEW i \in 1..n PROVE b[i] \in Seq(Nat) /\ Rising(b[i])
    BY <1>6, <2>4, <2>6, <2>7
  <2>9. b \in Seq(Seq(Nat)) /\ DOMAIN b = 1..n
    <3>1. [i \in 1..n |-> b[i]] \in Seq(Seq(Nat))
      BY <2>8, IsASeq
    <3> QED BY <1>4, <3>1
  <2>10. ASSUME NEW i \in 1..n, NEW k \in ToSet(b[i])
         PROVE  \E x \in X : ids[i] = p[x].item /\ p[x].kind = "text" /\ k \in ToSet(p[x].body)
    <3>1. b[i] # <<>>
      BY <1>6
    <3> QED BY <2>6, <3>1
  <2>11. ASSUME NEW i \in 1..n, NEW j \in 1..n, i < j, NEW k \in ToSet(b[i]), NEW l \in ToSet(b[j])
         PROVE  k < l
    <3>1. PICK x \in X : ids[i] = p[x].item /\ p[x].kind = "text" /\ k \in ToSet(p[x].body)
      BY <2>10
    <3>2. PICK y \in X : ids[j] = p[y].item /\ p[y].kind = "text" /\ l \in ToSet(p[y].body)
      BY <2>10
    <3>3. x < y
      BY <2>3, <2>11, <3>1, <3>2
    <3> QED BY <2>4, <3>1, <3>2, <3>3
  <2>12. Stacked(b)
    BY <2>8, <2>9, <2>11 DEF Stacked
  <2>13. ASSUME NEW k \in TextPieces(arrived) PROVE \E i \in 1..n : k \in ToSet(b[i])
    <3>1. PICK x \in X : p[x].kind = "text" /\ k \in ToSet(p[x].body)
      BY <2>4
    <3>2. PICK i \in 1..n : ids[i] = p[x].item
      BY <2>3
    <3>3. ids[i] # Reasoning
      BY <2>3, <3>2
    <3>4. PICK y \in X : ids[i] = p[y].item /\ b[i] = IF p[y].kind = "text" THEN p[y].body ELSE <<>>
      BY <2>6, <3>3
    <3>5. y = x
      BY <2>3, <3>2, <3>4
    <3> QED BY <3>1, <3>4, <3>5
  <2>14. \A k : k \in TextPieces(arrived) <=> \E i \in DOMAIN b : k \in ToSet(b[i])
    BY <2>4, <2>9, <2>10, <2>13
  <2>15. BodiesRight(b)
    BY <2>9, <2>12, <2>14 DEF BodiesRight
  <2> QED BY <2>15 DEF b
<1> QED BY <1>1, <1>7, <1>8

(* The arguments sent last, by Max.                                        *)
LEMMA SentLastBody ==
  ASSUME NEW s \in Seq(AnyPart), NEW S, S \subseteq DOMAIN s, NEW body, SentLast(s, S, body)
  PROVE  body = IF S = {} THEN <<>> ELSE <<Max(S)>>
<1>1. Len(s) \in Nat /\ DOMAIN s = 1..Len(s)
  OBVIOUS
<1>2. CASE S = {}
  BY <1>2 DEF SentLast
<1>3. CASE S # {}
  <2>1. Max(S) \in S /\ \A k \in S : k <= Max(S)
    BY <1>1, <1>3, MaxOfPositions
  <2> HIDE <1>1
  <2>2. Latest(S, Max(S))
    BY <2>1 DEF Latest
  <2> QED BY <1>3, <2>1, <2>2 DEF SentLast
<1> QED BY <1>2, <1>3

(* No text and no thinking is lost, doubled or out of order, whatever came *)
(* between its pieces, and a call ends with the arguments sent last        *)
(* (turn_record.go:179-294).                                               *)
THEOREM StreamLosesNothing == Spec => []NothingLost
<1>1. Ending => NothingLost
  <2> SUFFICES ASSUME Ending, Done
               PROVE  /\ Ascending(Bodies({"msg"})) /\ ToSet(Bodies({"msg"})) = Texts
                      /\ Ascending(acc.thought)
                      /\ ToSet(acc.thought) = Positions(LAMBDA p : p.kind = "thought" /\ p.body # <<>>)
                      /\ \A i \in DOMAIN final :
                           final[i].id[1] = "fc" /\ final[i].id[3] # NoId =>
                             LET sent == Positions(LAMBDA p : p.kind = "call" /\ p.id = final[i].id[3] /\ p.body # <<>>)
                             IN final[i].body = IF sent = {} THEN <<>> ELSE <<Max(sent)>>
    BY DEF NothingLost
  <2>1. Ascending(Bodies({"msg"})) /\ ToSet(Bodies({"msg"})) = Texts
    <3> DEFINE b == [i \in DOMAIN final |-> IF final[i].id[1] \in {"msg"} THEN final[i].body ELSE <<>>]
    <3>1. BodiesRight(b)
      BY BodiesInOrder
    <3>2. Bodies({"msg"}) = FlattenSeq(b)
      BY DEF Bodies
    <3> HIDE DEF b
    <3>3. Piled(b, FlattenSeq(b))
      BY <3>1, FlattenPiled DEF BodiesRight
    <3>4. \A k : k \in ToSet(FlattenSeq(b)) <=> k \in TextPieces(arrived)
      BY <3>1, <3>3 DEF Piled, BodiesRight
    <3>5. Ascending(FlattenSeq(b))
      BY <3>3 DEF Piled, Rising, Ascending
    <3> QED BY <3>2, <3>4, <3>5, PositionsAlike
  <2>2. Ascending(acc.thought) /\ ToSet(acc.thought) = Positions(LAMBDA p : p.kind = "thought" /\ p.body # <<>>)
    <3> DEFINE f == FlushPendingText(Accumulated(arrived))
    <3>1. ThoughtsRight(f.thought, arrived) /\ (acc = f \/ EmptyTurn(f, acc))
      BY EndTurn DEF Right
    <3> HIDE DEF f
    <3>2. ThoughtsRight(acc.thought, arrived)
      BY <3>1 DEF EmptyTurn
    <3> QED BY <3>2 DEF ThoughtsRight, Rising, Ascending, Positions
  <2>3. ASSUME NEW i \in DOMAIN final, final[i].id[1] = "fc", final[i].id[3] # NoId
        PROVE  LET sent == Positions(LAMBDA p : p.kind = "call" /\ p.id = final[i].id[3] /\ p.body # <<>>)
               IN final[i].body = IF sent = {} THEN <<>> ELSE <<Max(sent)>>
    <3> DEFINE item == final[i]
               sent == Positions(LAMBDA p : p.kind = "call" /\ p.id = item.id[3] /\ p.body # <<>>)
    <3>1. arrived \in Seq(AnyPart)
      BY ArrivedParts DEF Ending
    <3>2. PICK x \in DOMAIN acc.parts :
            /\ item.id = acc.parts[x].item /\ item.body = acc.parts[x].body
            /\ TextSays(acc.parts[x], arrived) \/ CallSays(acc.parts[x], arrived)
      BY <2>3, ItemSays
    <3> DEFINE q == acc.parts[x]
    <3>3. item.id = q.item /\ item.body = q.body /\ (TextSays(q, arrived) \/ CallSays(q, arrived))
      BY <3>2
    <3>4. item.id[1] = "fc" /\ item.id[3] # NoId
      BY <2>3
    <3> HIDE DEF q, item
    <3>5. CallSays(q, arrived)
      BY <3>3, <3>4 DEF TextSays
    <3>6. item.id[3] = q.id /\ CallRight(q, arrived)
      BY <3>3, <3>4, <3>5 DEF CallSays
    <3> DEFINE S == ArgsSent(arrived, q.id)
    <3>7. sent = S
      BY <3>6 DEF ArgsSent, CallsFor, Positions
    <3>8. S \subseteq DOMAIN arrived /\ SentLast(arrived, S, q.body)
      BY <3>6 DEF CallRight, ArgsSent, CallsFor
    <3> HIDE DEF S
    <3>9. q.body = IF S = {} THEN <<>> ELSE <<Max(S)>>
      BY <3>1, <3>8, SentLastBody
    <3> HIDE DEF sent
    <3>10. item.body = IF sent = {} THEN <<>> ELSE <<Max(sent)>>
      BY <3>3, <3>7, <3>9
    <3> QED BY <3>10 DEF sent, item
  <2> QED BY <2>1, <2>2, <2>3
<1> QED BY <1>1, EndingHolds, PTL

-----------------------------------------------------------------------------
(* What the client was sent, against what the accumulator holds: the items *)
(* in their order, the thinking so far, and of each message its text so    *)
(* far; a message that was finished had the text and the signature it      *)
(* still has, unless a signature on its own came for it.                   *)
SameIds(items, order) == Len(items) = Len(order) /\ \A i \in DOMAIN items : items[i].id = order[i]

TextStreamed(p, item, s) ==
  /\ item.deltas = p.body
  /\ item.done # <<>> =>
       /\ item.done[1].body = p.body
       /\ item.done[1].sig = p.sig \/ Signing(s, p.body) \cap LoneSigs(s) # {}

Streaming(t, items, s) ==
  /\ SameIds(items, t.order)
  /\ \A i \in DOMAIN items : items[i].id = Reasoning => items[i].deltas = t.thought
  /\ \A i \in DOMAIN items : \A x \in DOMAIN t.parts :
       t.parts[x].kind = "text" /\ t.parts[x].item = items[i].id => TextStreamed(t.parts[x], items[i], s)

(* It stays so with a part that changes nothing of the message.            *)
LEMMA TextStays ==
  ASSUME NEW s \in Seq(AnyPart), NEW part \in AnyPart, NEW p, ToSet(p.body) \subseteq TextPieces(s),
         NEW item, TextStreamed(p, item, s)
  PROVE  TextStreamed(p, item, Append(s, part))
<1> DEFINE t == Append(s, part)
<1>1. Signing(s, p.body) \subseteq Signing(t, p.body)
  BY SigningGrows DEF Adds
<1>2. LoneSigs(s) \subseteq LoneSigs(t)
  BY PositionsGrow DEF Adds
<1> HIDE DEF t
<1>3. TextStreamed(p, item, t)
  BY <1>1, <1>2 DEF TextStreamed
<1> QED BY <1>3 DEF t

(* An item is announced when it is recorded.                               *)
LEMMA RecordedIds ==
  ASSUME NEW items, items \in Seq(Range(items)), NEW order \in Seq(TurnItems), SameIds(items, order),
         NEW id \in TurnItems, NEW index, index = 0 <=> ~Contains(order, id)
  PROVE  LET t == AddedOnce(items, index, id)
         IN /\ t \in Seq(Range(t)) /\ SameIds(t, Recorded(order, id))
            /\ Len(items) \in Nat /\ DOMAIN items = 1..Len(items) /\ DOMAIN t = 1..Len(t)
            /\ \A i \in DOMAIN items : i \in DOMAIN t /\ t[i] = items[i]
            /\ index # 0 => t = items
            /\ index = 0 => /\ Len(t) = Len(items) + 1
                            /\ t[Len(t)] = [id |-> id, deltas |-> <<>>, done |-> <<>>]
<1> DEFINE t == AddedOnce(items, index, id)
<1>1. PICK n \in Nat : n = Len(items) /\ DOMAIN items = 1..n /\ n = Len(order) /\ DOMAIN order = 1..n
  BY DEF SameIds
<1>2. CASE index # 0
  <2>1. t = items /\ Recorded(order, id) = order
    BY <1>2 DEF AddedOnce, Recorded
  <2> HIDE DEF t
  <2>2. /\ t \in Seq(Range(t)) /\ SameIds(t, Recorded(order, id))
        /\ Len(items) \in Nat /\ DOMAIN items = 1..Len(items) /\ DOMAIN t = 1..Len(t)
        /\ \A i \in DOMAIN items : i \in DOMAIN t /\ t[i] = items[i]
    BY <1>1, <2>1
  <2> QED BY <1>2, <2>1, <2>2 DEF t
<1>3. CASE index = 0
  <2> DEFINE new == Append(order, id)
  <2>1. t = Added(items, id) /\ Recorded(order, id) = new
    BY <1>3 DEF AddedOnce, Recorded
  <2>2. /\ t \in Seq(Range(t)) /\ DOMAIN t = 1..(n + 1) /\ Len(t) = n + 1
        /\ t[n + 1] = [id |-> id, deltas |-> <<>>, done |-> <<>>]
        /\ \A i \in 1..n : t[i] = items[i]
    BY <1>1, <2>1, AddedItem
  <2>3. Len(new) = n + 1 /\ new[n + 1] = id /\ \A i \in 1..n : new[i] = order[i]
    BY <1>1
  <2> HIDE DEF t, new
  <2>4. t[n + 1].id = id
    BY <2>2
  <2>5. \A i \in 1..n : items[i].id = order[i]
    BY <1>1 DEF SameIds
  <2>6. \A i \in 1..(n + 1) : i \in 1..n \/ i = n + 1
    OBVIOUS
  <2>7. \A i \in 1..(n + 1) : t[i].id = new[i]
    BY <2>2, <2>3, <2>4, <2>5, <2>6
  <2>8. SameIds(t, new)
    BY <2>2, <2>3, <2>7 DEF SameIds
  <2>9. \A i \in 1..n : i \in 1..(n + 1)
    OBVIOUS
  <2> QED BY <1>1, <1>3, <2>1, <2>2, <2>8, <2>9 DEF t
<1> QED BY <1>2, <1>3

(* The reasoning item is announced when it is recorded, and so is a call.  *)
LEMMA ReasoningPlaced ==
  ASSUME NEW a, NEW m, NEW r, NEW calls, NEW s, Places(a, m, r, calls, s),
         NEW f, Ordered(f), f.hasThought = a.hasThought, f.order \in Seq(TurnItems), SameIds(s, f.order)
  PROVE  r = 0 <=> ~Contains(f.order, Reasoning)
<1>1. PICK n \in Nat : n = Len(f.order) /\ DOMAIN f.order = 1..n
  OBVIOUS
<1>2. DOMAIN s = 1..n
  BY <1>1, SeqOfItems DEF SameIds, Places, ItemsKnown
<1>3. ASSUME r # 0 PROVE Contains(f.order, Reasoning)
  <2>1. r \in 1..n /\ s[r].id = Reasoning
    BY <1>2, <1>3 DEF Places, IndexesRight
  <2>2. f.order[r] = Reasoning
    BY <1>2, <2>1 DEF SameIds
  <2> QED BY <1>1, <2>1, <2>2 DEF Contains
<1>4. Contains(f.order, Reasoning) => r # 0
  BY DEF Ordered, Places, IndexesRight
<1> QED BY <1>3, <1>4

LEMMA CallPlaced ==
  ASSUME NEW a, a.textCount \in Nat, NEW m, NEW r, NEW calls, NEW s, Places(a, m, r, calls, s),
         NEW order \in Seq(TurnItems), SameIds(s, order), NEW c \in CallItems
  PROVE  /\ c \in DOMAIN calls <=> Contains(order, c)
         /\ \A i \in DOMAIN s : s[i].id = c => c \in DOMAIN calls /\ calls[c] = i
<1>1. PICK n \in Nat : n = Len(order) /\ DOMAIN order = 1..n
  OBVIOUS
<1>2. DOMAIN s = 1..n
  BY <1>1, SeqOfItems DEF SameIds, Places, ItemsKnown
<1>3. \A i \in 1..n : s[i].id = order[i]
  BY <1>2 DEF SameIds
<1>4. ASSUME NEW i \in 1..n, s[i].id = c PROVE c \in DOMAIN calls /\ calls[c] = i
  <2>1. OpenOrFlushed(a, m, r, calls, s, i)
    BY <1>2 DEF Places
  <2> QED BY <1>4, <2>1, IdsDiffer DEF OpenOrFlushed, CurrentTextID
<1>5. ASSUME c \in DOMAIN calls PROVE Contains(order, c)
  <2>1. calls[c] \in 1..n /\ s[calls[c]].id = c
    BY <1>2, <1>5 DEF Places, IndexesRight
  <2> QED BY <1>1, <1>3, <2>1 DEF Contains
<1>6. ASSUME Contains(order, c) PROVE c \in DOMAIN calls
  <2>1. PICK i \in 1..n : order[i] = c
    BY <1>1, <1>6 DEF Contains
  <2> QED BY <1>3, <1>4, <2>1
<1> QED BY <1>2, <1>4, <1>5, <1>6

(* Each part of a record has an item of its own, a text that of a message. *)
LEMMA OwnItems ==
  ASSUME NEW f, Ordered(f), NEW x \in DOMAIN f.parts
  PROVE  /\ \A y \in DOMAIN f.parts : f.parts[x].item = f.parts[y].item => x = y
         /\ f.parts[x].item # Reasoning
         /\ f.parts[x].kind = "text" => \E k \in 0..(f.textCount - 1) : f.parts[x].item = Message(k)
<1>1. Lists(f.order, ItemsOf(f.parts)) /\ Named(f)
  BY DEF Ordered
<1>2. DOMAIN ItemsOf(f.parts) = DOMAIN f.parts /\ \A y \in DOMAIN f.parts : ItemsOf(f.parts)[y] = f.parts[y].item
  BY DEF ItemsOf
<1>3. \A y \in DOMAIN f.parts : ItemsOf(f.parts)[x] = ItemsOf(f.parts)[y] => x = y
  BY <1>1, <1>2 DEF Lists
<1>4. f.parts[x].item # Reasoning
  BY <1>1, <1>2 DEF Lists
<1>5. f.parts[x].kind = "text" => \E k \in 0..(f.textCount - 1) : f.parts[x].item = Message(k)
  BY <1>1 DEF Named
<1> QED BY <1>2, <1>3, <1>4, <1>5

(* The open message is the one of the text under way, and not finished.    *)
LEMMA OpenMessage ==
  ASSUME NEW a, a.textCount \in Nat, NEW m, m # 0, NEW r, NEW calls, NEW s, Places(a, m, r, calls, s)
  PROVE  m \in DOMAIN s /\ s[m].id = CurrentTextID(a) /\ s[m].done = <<>>
<1>1. m \in DOMAIN s /\ s[m].id = CurrentTextID(a)
  BY DEF Places, IndexesRight
<1>2. OpenOrFlushed(a, m, r, calls, s, m)
  BY <1>1 DEF Places
<1>3. \A k \in 0..(a.textCount - 1) : s[m].id # Message(k)
  BY <1>1, IdsDiffer DEF CurrentTextID
<1> QED BY <1>1, <1>2, <1>3 DEF OpenOrFlushed

(* A delta for the item at its place.                                      *)
LEMMA DeltaFor ==
  ASSUME NEW s, s \in Seq(Range(s)), NEW n \in DOMAIN s,
         s[n] = [id |-> s[n].id, deltas |-> s[n].deltas, done |-> s[n].done], NEW body
  PROVE  LET t == Delta(s, n, s[n].id, body)
         IN /\ DOMAIN t = DOMAIN s /\ Len(t) = Len(s)
            /\ \A i \in DOMAIN s : i # n => t[i] = s[i]
            /\ t[n].id = s[n].id /\ t[n].deltas = s[n].deltas \o body /\ t[n].done = s[n].done
<1> DEFINE item == [s[n] EXCEPT !.deltas = @ \o body]
           t == [s EXCEPT ![n] = item]
<1>1. Delta(s, n, s[n].id, body) = t
  BY DEF Delta
<1>2. item.id = s[n].id /\ item.deltas = s[n].deltas \o body /\ item.done = s[n].done
  OBVIOUS
<1> HIDE DEF item
<1>3. DOMAIN t = DOMAIN s /\ Len(t) = Len(s) /\ t[n] = item /\ \A i \in DOMAIN s : i # n => t[i] = s[i]
  BY ChangedItem
<1> QED BY <1>1, <1>2, <1>3

(* flushCurrentMsg finishes the open message with what it commits.         *)
LEMMA FlushStreamed ==
  ASSUME Recording(acc), Ordered(FlushPendingText(acc)), NEW items, ItemsKnown(items),
         msgIndex # 0 <=> acc.text # <<>>,
         msgIndex # 0 => /\ msgIndex \in DOMAIN items /\ items[msgIndex].id = CurrentTextID(acc)
                         /\ items[msgIndex].done = <<>>,
         NEW s, Streaming(FlushPendingText(acc), items, s)
  PROVE  Streaming(FlushPendingText(acc), MessageFlushed(acc, items), s)
<1> DEFINE f == FlushPendingText(acc)
           output == OutputItem(CurrentTextID(acc), acc.text, acc.textSig)
           item == [items[msgIndex] EXCEPT !.done = Append(@, output)]
           t == [items EXCEPT ![msgIndex] = item]
<1>1. CASE msgIndex = 0
  BY <1>1 DEF MessageFlushed
<1>2. CASE msgIndex # 0
  <2> HIDE DEF f
  <2>1. MessageFlushed(acc, items) = t
    BY <1>2 DEF MessageFlushed, ItemDone, HasPendingText
  <2>2. /\ items \in Seq(Range(items)) /\ msgIndex \in DOMAIN items /\ items[msgIndex].done = <<>>
        /\ items[msgIndex] = [id |-> items[msgIndex].id, deltas |-> items[msgIndex].deltas,
                              done |-> items[msgIndex].done]
    BY <1>2 DEF ItemsKnown
  <2>3. /\ item.id = items[msgIndex].id /\ item.deltas = items[msgIndex].deltas
        /\ item.done = Append(<<>>, output)
    <3> HIDE DEF output
    <3> QED BY <2>2
  <2>4. item.done # <<>> /\ item.done[1] = output
    <3> HIDE DEF item, output
    <3> QED BY <2>3
  <2>5. output.body = acc.text /\ output.sig = acc.textSig
    BY DEF OutputItem
  <2> HIDE DEF item, output
  <2>6. DOMAIN t = DOMAIN items /\ Len(t) = Len(items) /\ t[msgIndex] = item
        /\ \A i \in DOMAIN items : i # msgIndex => t[i] = items[i]
    BY <2>2, ChangedItem
  <2> HIDE DEF t
  <2>7. \A i \in DOMAIN items : t[i].id = items[i].id /\ t[i].deltas = items[i].deltas
    BY <2>3, <2>6
  <2>8. SameIds(t, f.order)
    BY <2>6, <2>7 DEF Streaming, SameIds, f
  <2>9. \A i \in DOMAIN t : t[i].id = Reasoning => t[i].deltas = f.thought
    BY <2>6, <2>7 DEF Streaming, f
  <2>10. /\ acc.parts \in Seq(RecordPart)
         /\ f.parts = Append(acc.parts, TurnPart("text", CurrentTextID(acc), NoId, acc.text, acc.textSig))
    BY <1>2, FlushView DEF f, CurrentTextID, Recording
  <2>11. LET p == f.parts[Len(acc.parts) + 1]
         IN /\ Len(acc.parts) + 1 \in DOMAIN f.parts
            /\ p.item = CurrentTextID(acc) /\ p.body = acc.text /\ p.sig = acc.textSig
    <3>1. f.parts[Len(acc.parts) + 1] = TurnPart("text", CurrentTextID(acc), NoId, acc.text, acc.textSig)
          /\ Len(acc.parts) + 1 \in DOMAIN f.parts
      BY <2>10
    <3> QED BY <3>1 DEF TurnPart
  <2>12. ASSUME NEW i \in DOMAIN t, NEW x \in DOMAIN f.parts, f.parts[x].kind = "text", f.parts[x].item = t[i].id
         PROVE  TextStreamed(f.parts[x], t[i], s)
    <3>0. TextStreamed(f.parts[x], items[i], s)
      BY <2>6, <2>7, <2>12 DEF Streaming, f
    <3>1. CASE i # msgIndex
      BY <2>6, <3>0, <3>1
    <3>2. CASE i = msgIndex
      <4>1. x = Len(acc.parts) + 1
        <5>1. f.parts[x].item = f.parts[Len(acc.parts) + 1].item
          BY <1>2, <2>7, <2>6, <2>11, <2>12, <3>2
        <5> QED BY <2>11, <5>1, OwnItems DEF f
      <4>2. f.parts[x].body = acc.text /\ f.parts[x].sig = acc.textSig
        BY <2>11, <4>1
      <4>3. t[i].deltas = f.parts[x].body
        BY <2>7, <2>6, <3>0 DEF TextStreamed
      <4> QED BY <2>4, <2>5, <2>6, <3>2, <4>2, <4>3 DEF TextStreamed
    <3> QED BY <3>1, <3>2
  <2> QED BY <2>1, <2>8, <2>9, <2>12 DEF Streaming, f
<1> QED BY <1>1, <1>2

(* While parts are taken: the handler of the events has s behind it.       *)
Following(n, s) ==
  /\ n \in 0..(MaxParts - 1) /\ Accumulator(acc, n)
  /\ Places(acc, msgIndex, reasoningIndex, callIndexes, streamed)
  /\ s \in Seq(AnyPart) /\ Recording(acc) /\ Ordered(FlushPendingText(acc))
  /\ TextsRight(FlushPendingText(acc).parts, s)
  /\ Streaming(FlushPendingText(acc), streamed, s)

(* What the client has when the open message was flushed.                  *)
LEMMA FollowingFlushed ==
  ASSUME NEW n, NEW s, Following(n, s)
  PROVE  LET f == FlushPendingText(acc)
             u == MessageFlushed(acc, streamed)
         IN /\ Flushed(acc) = f /\ FlushPendingText(f) = f /\ StillOpen(f) = 0
            /\ Accumulator(f, n) /\ Recording(f) /\ f.text = <<>>
            /\ Places(f, 0, reasoningIndex, callIndexes, u) /\ Streaming(f, u, s)
            /\ u \in Seq(Range(u)) /\ f.order \in Seq(TurnItems)
            /\ \A i \in DOMAIN u : u[i] = [id |-> u[i].id, deltas |-> u[i].deltas, done |-> u[i].done]
<1> DEFINE f == FlushPendingText(acc)
           u == MessageFlushed(acc, streamed)
<1>1. n \in 0..MaxParts
  BY BoundsAssumption DEF Following
<1>2. /\ Accumulator(f, n) /\ f.text = <<>> /\ Flushed(acc) = f
      /\ Places(f, 0, reasoningIndex, callIndexes, u) /\ StillOpen(f) = 0
  <2>1. /\ Accumulator(Flushed(acc), n) /\ Flushed(acc).text = <<>> /\ Flushed(acc) = f
        /\ Places(Flushed(acc), 0, reasoningIndex, callIndexes, u) /\ StillOpen(Flushed(acc)) = 0
    BY <1>1, FlushPlaces DEF Following
  <2> QED BY <2>1
<1>3. Recording(f)
  BY FlushView DEF Following
<1>4. FlushPendingText(f) = f
  BY <1>2, <1>3, FlushView
<1>5. acc.textCount \in Nat /\ (msgIndex # 0 <=> acc.text # <<>>) /\ ItemsKnown(streamed)
  BY DEF Following, Recording, Places, IndexesRight
<1>6. msgIndex # 0 => /\ msgIndex \in DOMAIN streamed /\ streamed[msgIndex].id = CurrentTextID(acc)
                      /\ streamed[msgIndex].done = <<>>
  BY <1>5, OpenMessage DEF Following
<1>7. Streaming(f, u, s)
  BY <1>5, <1>6, FlushStreamed DEF Following
<1>8. /\ u \in Seq(Range(u))
      /\ \A i \in DOMAIN u : u[i] = [id |-> u[i].id, deltas |-> u[i].deltas, done |-> u[i].done]
  BY <1>2 DEF Places, ItemsKnown
<1>9. f.order \in Seq(TurnItems)
  BY <1>3 DEF Recording
<1> HIDE DEF f, u
<1> QED BY <1>2, <1>3, <1>4, <1>7, <1>8, <1>9 DEF f, u

(* A thought.                                                              *)
LEMMA ThoughtStreamed ==
  ASSUME NEW n, NEW s, Following(n, s), NEW part \in AnyPart, part.kind = "thought", OnThought(part)
  PROVE  Streaming(FlushPendingText(acc'), streamed', Append(s, part))
<1> DEFINE f == FlushPendingText(acc)
           g == FlushPendingText(acc')
           u == MessageFlushed(acc, streamed)
           v == AddedOnce(u, reasoningIndex, Reasoning)
           index == IF reasoningIndex = 0 THEN Len(v) ELSE reasoningIndex
           t == Delta(v, index, Reasoning, part.body)
<1>1. /\ Flushed(acc) = f /\ Streaming(f, u, s) /\ u \in Seq(Range(u)) /\ f.order \in Seq(TurnItems)
      /\ Places(f, 0, reasoningIndex, callIndexes, u)
      /\ \A i \in DOMAIN u : u[i] = [id |-> u[i].id, deltas |-> u[i].deltas, done |-> u[i].done]
  BY FollowingFlushed
<1>2. streamed' = t /\ acc' = ProcessPart(acc, part)
  <2>1. part \in Parts
    BY DEF Parts, AnyPart
  <2>2. acc' = ProcessPart(acc, part)
    BY <2>1, ThoughtHandled DEF Following
  <2> QED BY <2>2 DEF OnThought
<1>3. ThoughtTaken(f, g, part)
  <2>1. Taken(f, FlushPendingText(ProcessPart(acc, part)), part)
    BY PartIsTaken DEF Following
  <2>2. Taken(f, g, part)
    BY <1>2, <2>1
  <2> HIDE DEF f, g
  <2> QED BY <2>2 DEF Taken
<1>4. Ordered(f) /\ part.body \in Seq(Nat) /\ f.thought \in Seq(Nat)
  <2>1. Recording(f)
    BY FollowingFlushed
  <2> HIDE DEF f
  <2> QED BY <2>1 DEF Following, AnyPart, Recording, f
<1> HIDE DEF f, g, u
<1>5. reasoningIndex = 0 <=> ~Contains(f.order, Reasoning)
  BY <1>1, <1>4, ReasoningPlaced DEF Streaming
<1>6. Reasoning \in TurnItems
  BY DEF TurnItems
<1>7. /\ v \in Seq(Range(v)) /\ SameIds(v, Recorded(f.order, Reasoning))
      /\ Len(u) \in Nat /\ DOMAIN u = 1..Len(u) /\ DOMAIN v = 1..Len(v)
      /\ \A i \in DOMAIN u : i \in DOMAIN v /\ v[i] = u[i]
      /\ reasoningIndex # 0 => v = u
      /\ reasoningIndex = 0 => Len(v) = Len(u) + 1
                               /\ v[Len(v)] = [id |-> Reasoning, deltas |-> <<>>, done |-> <<>>]
  BY <1>1, <1>5, <1>6, RecordedIds DEF Streaming
<1> HIDE DEF v
<1>8. /\ index \in DOMAIN v /\ v[index].id = Reasoning /\ v[index].deltas = f.thought
      /\ v[index] = [id |-> v[index].id, deltas |-> v[index].deltas, done |-> v[index].done]
  <2>1. CASE reasoningIndex # 0
    <3>1. reasoningIndex \in DOMAIN u /\ u[reasoningIndex].id = Reasoning
      BY <1>1, <2>1 DEF Places, IndexesRight
    <3> QED BY <1>1, <1>7, <2>1, <3>1 DEF Streaming
  <2>2. CASE reasoningIndex = 0
    <3>1. f.thought = <<>>
      BY <1>4, <1>5, <2>2 DEF Ordered
    <3> QED BY <1>7, <2>2, <3>1
  <2> QED BY <2>1, <2>2
<1>9. /\ DOMAIN t = DOMAIN v /\ Len(t) = Len(v) /\ \A i \in DOMAIN v : i # index => t[i] = v[i]
      /\ t[index].id = Reasoning /\ t[index].deltas = f.thought \o part.body
  <2> HIDE DEF index
  <2>1. t = Delta(v, index, v[index].id, part.body)
    BY <1>8
  <2> HIDE DEF t
  <2>2. /\ DOMAIN t = DOMAIN v /\ Len(t) = Len(v) /\ \A i \in DOMAIN v : i # index => t[i] = v[i]
        /\ t[index].id = v[index].id /\ t[index].deltas = v[index].deltas \o part.body
    <3>1. v \in Seq(Range(v)) /\ index \in DOMAIN v
          /\ v[index] = [id |-> v[index].id, deltas |-> v[index].deltas, done |-> v[index].done]
      BY <1>7, <1>8
    <3>2. LET w == Delta(v, index, v[index].id, part.body)
          IN /\ DOMAIN w = DOMAIN v /\ Len(w) = Len(v)
             /\ \A i \in DOMAIN v : i # index => w[i] = v[i]
             /\ w[index].id = v[index].id /\ w[index].deltas = v[index].deltas \o part.body
             /\ w[index].done = v[index].done
      BY <3>1, DeltaFor
    <3> QED BY <2>1, <3>2
  <2> QED BY <1>8, <2>2
<1> HIDE DEF t
<1>10. \A i \in DOMAIN v : t[i].id = v[i].id
  BY <1>8, <1>9
<1>11. g.order = Recorded(f.order, Reasoning) /\ g.parts = f.parts /\ g.thought = f.thought \o part.body
  BY <1>3 DEF ThoughtTaken
<1>12. SameIds(t, g.order)
  BY <1>7, <1>9, <1>10, <1>11 DEF SameIds
<1>13. \A i \in DOMAIN v : i # index => i \in DOMAIN u /\ t[i] = u[i] /\ u[i].id # Reasoning
  <2>1. TAKE i \in DOMAIN v
  <2>2. SUFFICES ASSUME i # index PROVE i \in DOMAIN u /\ t[i] = u[i] /\ u[i].id # Reasoning
    OBVIOUS
  <2>3. i \in DOMAIN u
    <3>1. CASE reasoningIndex = 0
      <4>1. index = Len(u) + 1 /\ i \in 1..(Len(u) + 1)
        BY <1>7, <3>1
      <4>2. i # Len(u) + 1 /\ Len(u) \in Nat
        BY <1>7, <2>2, <4>1
      <4>3. i \in 1..Len(u)
        BY <4>1, <4>2
      <4> QED BY <1>7, <4>3
    <3>2. CASE reasoningIndex # 0
      BY <1>7, <3>2
    <3> QED BY <3>1, <3>2
  <2>4. u[i].id # Reasoning
    <3>1. CASE reasoningIndex = 0
      <4>1. \A k \in DOMAIN f.order : f.order[k] # Reasoning
        BY <1>1, <1>5, <3>1 DEF Contains
      <4> QED BY <1>1, <1>7, <2>3, <4>1 DEF Streaming, SameIds
    <3>2. CASE reasoningIndex # 0
      <4>1. index \in DOMAIN u /\ u[index].id = Reasoning
        BY <1>7, <1>8, <3>2
      <4> QED BY <1>1, <2>2, <2>3, <4>1 DEF Places, ItemsKnown
    <3> QED BY <3>1, <3>2
  <2> QED BY <1>7, <1>9, <2>2, <2>3, <2>4
<1>14. \A i \in DOMAIN t : t[i].id = Reasoning => t[i].deltas = g.thought
  BY <1>9, <1>11, <1>13
<1>15. ASSUME NEW i \in DOMAIN t, NEW x \in DOMAIN g.parts, g.parts[x].kind = "text", g.parts[x].item = t[i].id
       PROVE  TextStreamed(g.parts[x], t[i], Append(s, part))
  <2>1. i # index
    BY <1>4, <1>9, <1>11, <1>15, OwnItems
  <2>2. i \in DOMAIN u /\ t[i] = u[i]
    BY <1>9, <1>13, <2>1
  <2>3. TextStreamed(f.parts[x], u[i], s)
    BY <1>1, <1>11, <1>15, <2>2 DEF Streaming
  <2>4. s \in Seq(AnyPart) /\ ToSet(f.parts[x].body) \subseteq TextPieces(s)
    BY <1>11, <1>15 DEF Following, TextsRight, f
  <2> QED BY <1>11, <2>2, <2>3, <2>4, TextStays
<1>16. Streaming(g, t, Append(s, part))
  BY <1>12, <1>14, <1>15 DEF Streaming
<1> QED BY <1>2, <1>16 DEF g

(* What a call changes in the record: no text.                             *)
LEMMA CallTaken ==
  ASSUME NEW f, Recording(f), Named(f), NEW g, NEW part \in AnyPart, part.kind = "call",
         CallAdded(f, g, part) \/ CallUpdated(f, g, part)
  PROVE  /\ g.order = Recorded(f.order, CallOf(f, part)) /\ g.thought = f.thought
         /\ \A x \in DOMAIN g.parts : g.parts[x].kind = "text" =>
              /\ x \in DOMAIN f.parts /\ f.parts[x].kind = "text" /\ g.parts[x].item = f.parts[x].item
              /\ g.parts[x].body = f.parts[x].body /\ g.parts[x].sig = f.parts[x].sig
<1>1. f.parts \in Seq(RecordPart) /\ DOMAIN f.parts = 1..Len(f.parts) /\ Len(f.parts) \in Nat
  BY DEF Recording
<1>2. CASE CallAdded(f, g, part)
  <2> DEFINE item == CallItem(Len(f.parts), part.id)
             made == TurnPart("call", item, part.id, part.body, part.sig)
  <2>1. g.parts = Append(f.parts, made) /\ made.kind = "call" /\ CallOf(f, part) = item
        /\ g.order = Recorded(f.order, item) /\ g.thought = f.thought
    BY <1>2 DEF CallAdded, CallOf, TurnPart, Unthought
  <2> HIDE DEF item, made
  <2>2. \A x \in DOMAIN g.parts : (x \in DOMAIN f.parts /\ g.parts[x] = f.parts[x]) \/ g.parts[x] = made
    BY <1>1, <2>1
  <2> QED BY <2>1, <2>2
<1>3. CASE CallUpdated(f, g, part)
  <2> DEFINE item == f.bridge[part.id]
             q(p) == IF p.item = item THEN Updated(p, part) ELSE p
  <2>1. /\ CallOf(f, part) = item /\ g.order = Recorded(f.order, item) /\ g.thought = f.thought
        /\ g.parts = [i \in DOMAIN f.parts |-> q(f.parts[i])]
    BY <1>3 DEF CallUpdated, CallOf, Unthought
  <2>2. \E y \in DOMAIN f.parts : f.parts[y].kind = "call" /\ f.parts[y].item = item
    BY <1>3 DEF Named, CallUpdated
  <2>3. SameTexts(f.parts, g.parts)
    BY <1>3, CallsAlike
  <2>4. \A x \in DOMAIN f.parts : q(f.parts[x]).item = f.parts[x].item
    <3>1. TAKE x \in DOMAIN f.parts
    <3>2. f.parts[x] \in RecordPart
      BY <1>1
    <3>3. Updated(f.parts[x], part).item = f.parts[x].item
      BY <3>2, PartChanges
    <3> QED BY <3>3
  <2> HIDE DEF q, item
  <2>5. \A x \in DOMAIN g.parts : x \in DOMAIN f.parts /\ g.parts[x].item = f.parts[x].item
    BY <2>1, <2>4
  <2> QED BY <2>1, <2>3, <2>5 DEF SameTexts
<1> QED BY <1>2, <1>3

(* A call.                                                                 *)
LEMMA CallStreamed ==
  ASSUME NEW n, NEW s, Following(n, s), NEW part \in AnyPart, part.kind = "call", OnCall(part)
  PROVE  Streaming(FlushPendingText(acc'), streamed', Append(s, part))
<1> DEFINE f == FlushPendingText(acc)
           g == FlushPendingText(acc')
           u == MessageFlushed(acc, streamed)
           call == CallOf(f, part)
           known == call \in DOMAIN callIndexes
           t == AddedOnce(u, IF known THEN 1 ELSE 0, call)
<1>1. /\ Flushed(acc) = f /\ FlushPendingText(f) = f
      /\ Streaming(f, u, s) /\ u \in Seq(Range(u)) /\ f.order \in Seq(TurnItems)
      /\ Places(f, 0, reasoningIndex, callIndexes, u) /\ Recording(f) /\ Accumulator(f, n) /\ f.text = <<>>
  BY FollowingFlushed
<1>2. acc' = ProcessPart(acc, part) /\ part \in Parts /\ n \in 0..(MaxParts - 1)
  <2>1. part \in Parts
    BY DEF Parts, AnyPart
  <2> QED BY <2>1, CallHandled DEF Following
<1>3. streamed' = t
  BY <1>1 DEF OnCall, AddedOnce
<1>4. CallAdded(f, g, part) \/ CallUpdated(f, g, part)
  <2>1. Taken(f, FlushPendingText(ProcessPart(acc, part)), part)
    BY PartIsTaken DEF Following
  <2>2. Taken(f, g, part)
    BY <1>2, <2>1
  <2> HIDE DEF f, g
  <2> QED BY <2>2 DEF Taken
<1>5. Ordered(f) /\ Named(f) /\ f.textCount \in Nat
  <2>1. Ordered(f)
    BY DEF Following
  <2> HIDE DEF f
  <2> QED BY <1>1, <2>1 DEF Ordered, Recording
<1>6. call \in CallItems
  <2> HIDE DEF f
  <2> QED BY <1>1, <1>2, CallAdds
<1> HIDE DEF f, g, u
<1>7. call \in TurnItems
  BY <1>6, BoundsAssumption DEF CallItems, TurnItems
<1> HIDE DEF call
<1>8. known <=> Contains(f.order, call)
  BY <1>1, <1>5, <1>6, CallPlaced DEF Streaming
<1>9. /\ SameIds(t, Recorded(f.order, call)) /\ DOMAIN u = 1..Len(u) /\ DOMAIN t = 1..Len(t) /\ Len(u) \in Nat
      /\ \A i \in DOMAIN u : t[i] = u[i]
      /\ \A i \in DOMAIN t : i \in DOMAIN u \/ t[i] = [id |-> call, deltas |-> <<>>, done |-> <<>>]
  <2> DEFINE index == IF known THEN 1 ELSE 0
  <2>1. index = 0 <=> ~Contains(f.order, call)
    BY <1>8
  <2>2. t = AddedOnce(u, index, call)
    OBVIOUS
  <2> HIDE DEF index, t
  <2>3. /\ SameIds(t, Recorded(f.order, call)) /\ DOMAIN u = 1..Len(u) /\ DOMAIN t = 1..Len(t) /\ Len(u) \in Nat
        /\ \A i \in DOMAIN u : i \in DOMAIN t /\ t[i] = u[i]
        /\ index # 0 => t = u
        /\ index = 0 => Len(t) = Len(u) + 1 /\ t[Len(t)] = [id |-> call, deltas |-> <<>>, done |-> <<>>]
    BY <1>1, <1>7, <2>1, <2>2, RecordedIds DEF Streaming
  <2>4. ASSUME NEW i \in DOMAIN t PROVE i \in DOMAIN u \/ t[i] = [id |-> call, deltas |-> <<>>, done |-> <<>>]
    <3>1. CASE index = 0
      <4>1. i \in 1..(Len(u) + 1)
        BY <2>3, <3>1
      <4>2. i \in 1..Len(u) \/ i = Len(u) + 1
        <5>1. Len(u) \in Nat
          BY <2>3
        <5> QED BY <4>1, <5>1
      <4> QED BY <2>3, <3>1, <4>2
    <3>2. CASE index # 0
      BY <2>3, <3>2
    <3> QED BY <3>1, <3>2
  <2> QED BY <2>3, <2>4
<1> HIDE DEF t
<1>10. /\ g.order = Recorded(f.order, call) /\ g.thought = f.thought
       /\ \A x \in DOMAIN g.parts : g.parts[x].kind = "text" =>
            /\ x \in DOMAIN f.parts /\ f.parts[x].kind = "text" /\ g.parts[x].item = f.parts[x].item
            /\ g.parts[x].body = f.parts[x].body /\ g.parts[x].sig = f.parts[x].sig
  BY <1>1, <1>4, <1>5, CallTaken DEF call
<1>11. SameIds(t, g.order)
  BY <1>9, <1>10
<1>12. call # Reasoning /\ \A k : call # Message(k)
  BY <1>6, IdsDiffer
<1>13. \A i \in DOMAIN t : t[i].id = Reasoning => t[i].deltas = g.thought
  <2>1. TAKE i \in DOMAIN t
  <2>2. SUFFICES ASSUME t[i].id = Reasoning PROVE t[i].deltas = g.thought
    OBVIOUS
  <2>3. i \in DOMAIN u
    BY <1>9, <1>12, <2>2
  <2> QED BY <1>1, <1>9, <1>10, <2>2, <2>3 DEF Streaming
<1>14. ASSUME NEW i \in DOMAIN t, NEW x \in DOMAIN g.parts, g.parts[x].kind = "text", g.parts[x].item = t[i].id
       PROVE  TextStreamed(g.parts[x], t[i], Append(s, part))
  <2>1. x \in DOMAIN f.parts /\ f.parts[x].kind = "text" /\ f.parts[x].item = t[i].id
        /\ g.parts[x].body = f.parts[x].body /\ g.parts[x].sig = f.parts[x].sig
    BY <1>10, <1>14
  <2>2. i \in DOMAIN u /\ t[i] = u[i]
    <3>1. \E k : f.parts[x].item = Message(k)
      BY <1>5, <2>1, OwnItems
    <3>2. t[i].id # call
      BY <1>12, <2>1, <3>1
    <3> QED BY <1>9, <3>2
  <2>3. TextStreamed(f.parts[x], u[i], s)
    BY <1>1, <2>1, <2>2 DEF Streaming
  <2>4. s \in Seq(AnyPart) /\ ToSet(f.parts[x].body) \subseteq TextPieces(s)
    BY <2>1 DEF Following, TextsRight, f
  <2>5. TextStreamed(f.parts[x], t[i], Append(s, part))
    BY <2>2, <2>3, <2>4, TextStays
  <2> QED BY <2>1, <2>5 DEF TextStreamed
<1> QED BY <1>3, <1>11, <1>13, <1>14 DEF Streaming, g

(* A signature on its own: no event tells of it.                           *)
LEMMA SignatureStreamed ==
  ASSUME NEW n, NEW s, Following(n, s), NEW part \in AnyPart, part.kind = "text", part.body = <<>>,
         OnSignature(part)
  PROVE  Streaming(FlushPendingText(acc'), streamed', Append(s, part))
<1> DEFINE f == FlushPendingText(acc)
           g == FlushPendingText(acc')
           after == Append(s, part)
<1>1. acc' = ProcessPart(acc, part) /\ streamed' = streamed
  BY DEF OnSignature
<1>2. \/ part.sig = NoSig /\ g = f
      \/ part.sig # NoSig /\ SignatureTaken(f, g, part)
  <2>1. Taken(f, FlushPendingText(ProcessPart(acc, part)), part)
    BY PartIsTaken DEF Following
  <2>2. Taken(f, g, part)
    BY <1>1, <2>1
  <2> HIDE DEF f, g
  <2> QED BY <2>2 DEF Taken
<1>3. /\ s \in Seq(AnyPart) /\ Streaming(f, streamed, s) /\ TextsRight(f.parts, s)
      /\ f.parts \in Seq(RecordPart)
  <2>1. Recording(f)
    BY FollowingFlushed
  <2> HIDE DEF f
  <2> QED BY <2>1 DEF Following, Recording, f
<1> HIDE DEF f, g
<1>4. \A x \in DOMAIN f.parts : f.parts[x].kind = "text" => ToSet(f.parts[x].body) \subseteq TextPieces(s)
  BY <1>3 DEF TextsRight
<1>5. ASSUME NEW i \in DOMAIN streamed, NEW x \in DOMAIN f.parts, f.parts[x].kind = "text",
             f.parts[x].item = streamed[i].id
      PROVE  TextStreamed(f.parts[x], streamed[i], s) /\ TextStreamed(f.parts[x], streamed[i], after)
  <2>1. TextStreamed(f.parts[x], streamed[i], s)
    BY <1>3, <1>5 DEF Streaming
  <2> HIDE DEF after
  <2>2. TextStreamed(f.parts[x], streamed[i], Append(s, part))
    BY <1>3, <1>4, <1>5, <2>1, TextStays
  <2> QED BY <2>1, <2>2 DEF after
<1>6. CASE g = f
  BY <1>1, <1>3, <1>5, <1>6 DEF Streaming, g
<1>7. CASE part.sig # NoSig /\ SignatureTaken(f, g, part)
  <2>1. /\ g.order = f.order /\ g.thought = f.thought
        /\ g.parts = [i \in DOMAIN f.parts |-> IF i \in SignatureTarget(f.parts)
                                              THEN [f.parts[i] EXCEPT !.sig = part.sig] ELSE f.parts[i]]
    BY <1>7 DEF SignatureTaken, Unnamed, Unthought
  <2>2. \A x \in DOMAIN f.parts :
          LET q == [f.parts[x] EXCEPT !.sig = part.sig]
          IN q.item = f.parts[x].item /\ q.kind = f.parts[x].kind /\ q.body = f.parts[x].body
    <3>1. TAKE x \in DOMAIN f.parts
    <3>2. f.parts[x] \in RecordPart
      BY <1>3
    <3> QED BY <3>2, PartChanges
  <2>3. \A x \in DOMAIN g.parts :
          /\ x \in DOMAIN f.parts
          /\ g.parts[x].item = f.parts[x].item /\ g.parts[x].kind = f.parts[x].kind
          /\ g.parts[x].body = f.parts[x].body
          /\ x \notin SignatureTarget(f.parts) => g.parts[x] = f.parts[x]
    BY <2>1, <2>2
  <2>4. ASSUME NEW i \in DOMAIN streamed, NEW x \in DOMAIN g.parts, g.parts[x].kind = "text",
               g.parts[x].item = streamed[i].id
        PROVE  TextStreamed(g.parts[x], streamed[i], after)
    <3>1. /\ x \in DOMAIN f.parts /\ f.parts[x].kind = "text" /\ f.parts[x].item = streamed[i].id
          /\ g.parts[x].body = f.parts[x].body
      BY <2>3, <2>4
    <3>2. TextStreamed(f.parts[x], streamed[i], after)
      BY <1>5, <3>1
    <3>3. CASE x \notin SignatureTarget(f.parts)
      BY <2>3, <3>2, <3>3
    <3>4. CASE x \in SignatureTarget(f.parts)
      <4>1. \E m \in ToSet(f.parts[x].body) : \A j \in TextPieces(s) : j <= m
        BY <1>3, <3>1, <3>4, LastWord
      <4>2. Len(s) + 1 \in Signing(after, f.parts[x].body)
        <5>1. Signing(Append(s, part), f.parts[x].body) = Signing(s, f.parts[x].body) \cup {Len(s) + 1}
          BY <1>3, <1>4, <1>7, <3>1, <4>1, SigningGrows DEF Adds
        <5> QED BY <5>1
      <4>3. Len(s) + 1 \in LoneSigs(after)
        <5>1. LoneSigs(Append(s, part)) = LoneSigs(s) \cup {Len(s) + 1}
          BY <1>3, <1>7, PositionsGrow DEF Adds
        <5> QED BY <5>1
      <4> HIDE DEF after
      <4>4. Signing(after, g.parts[x].body) \cap LoneSigs(after) # {}
        BY <3>1, <4>2, <4>3
      <4> QED BY <3>1, <3>2, <4>4 DEF TextStreamed
    <3> QED BY <3>3, <3>4
  <2> HIDE DEF after
  <2>5. Streaming(g, streamed, after)
    BY <1>3, <2>1, <2>4 DEF Streaming
  <2> QED BY <1>1, <2>5 DEF g, after
<1> QED BY <1>2, <1>6, <1>7

(* A text that starts a message: the message is announced, with its first  *)
(* piece.                                                                  *)
LEMMA TextStarted ==
  ASSUME NEW s \in Seq(AnyPart), NEW part \in AnyPart,
         NEW f, Recording(f), Ordered(f), TextsRight(f.parts, s), NEW g, TextAdded(f, g, part),
         NEW u, ItemsKnown(u), Streaming(f, u, s)
  PROVE  LET id == Message(f.textCount)
             v == Added(u, id)
         IN Streaming(g, Delta(v, Len(v), id, part.body), Append(s, part))
<1> DEFINE id == Message(f.textCount)
           v == Added(u, id)
           t == Delta(v, Len(v), id, part.body)
           made == TurnPart("text", id, NoId, part.body, part.sig)
<1>1. /\ f.order \in Seq(TurnItems) /\ f.parts \in Seq(RecordPart) /\ f.textCount \in Nat
      /\ part.body \in Seq(Nat)
  BY DEF Recording, AnyPart
<1>2. /\ g.parts = Append(f.parts, made) /\ g.order = Recorded(f.order, id) /\ g.thought = f.thought
  BY DEF TextAdded, Unnamed, Unthought
<1>3. id # Reasoning /\ \A x \in DOMAIN f.parts : f.parts[x].item # id
  <2>1. Named(f)
    BY DEF Ordered
  <2>2. \A k \in 0..(f.textCount - 1) : id # Message(k)
    <3>1. \A k \in 0..(f.textCount - 1) : k # f.textCount
      BY <1>1
    <3> QED BY <3>1, IdsDiffer
  <2>3. \A k, c : CallItem(k, c) # id
    BY NamesDiffer
  <2>4. id # Reasoning
    BY NamesDiffer
  <2> HIDE DEF id
  <2> QED BY <2>1, <2>2, <2>3, <2>4 DEF Named
<1> HIDE DEF id
<1>4. ~Contains(f.order, id)
  <2>1. Lists(f.order, ItemsOf(f.parts))
    BY DEF Ordered
  <2>2. \A k \in DOMAIN f.order : f.order[k] # id
    <3>1. \A k \in DOMAIN f.order : f.order[k] = Reasoning \/ \E x \in DOMAIN ItemsOf(f.parts) : f.order[k] = ItemsOf(f.parts)[x]
      BY <2>1 DEF Lists
    <3>2. \A x \in DOMAIN ItemsOf(f.parts) : x \in DOMAIN f.parts /\ ItemsOf(f.parts)[x] = f.parts[x].item
      BY DEF ItemsOf
    <3> QED BY <1>3, <3>1, <3>2
  <2> QED BY <1>1, <2>2 DEF Contains
<1>5. id \in TurnItems
  BY <1>1 DEF id, TurnItems
<1>6. /\ v \in Seq(Range(v)) /\ SameIds(v, g.order)
      /\ Len(u) \in Nat /\ DOMAIN u = 1..Len(u) /\ DOMAIN v = 1..Len(v) /\ Len(v) = Len(u) + 1
      /\ \A i \in DOMAIN u : v[i] = u[i]
      /\ v[Len(v)] = [id |-> id, deltas |-> <<>>, done |-> <<>>]
  <2>1. AddedOnce(u, 0, id) = v
    BY DEF AddedOnce
  <2>2. u \in Seq(Range(u)) /\ SameIds(u, f.order)
    BY DEF Streaming, ItemsKnown
  <2>3. LET w == AddedOnce(u, 0, id)
        IN /\ w \in Seq(Range(w)) /\ SameIds(w, Recorded(f.order, id))
           /\ Len(u) \in Nat /\ DOMAIN u = 1..Len(u) /\ DOMAIN w = 1..Len(w) /\ Len(w) = Len(u) + 1
           /\ \A i \in DOMAIN u : w[i] = u[i]
           /\ w[Len(w)] = [id |-> id, deltas |-> <<>>, done |-> <<>>]
    BY <1>1, <1>4, <1>5, <2>2, RecordedIds
  <2> HIDE DEF v
  <2> QED BY <1>2, <2>1, <2>3
<1> HIDE DEF v
<1>7. /\ DOMAIN t = DOMAIN v /\ Len(t) = Len(v) /\ \A i \in DOMAIN v : i # Len(v) => t[i] = v[i]
      /\ t[Len(v)].id = id /\ t[Len(v)].deltas = part.body /\ t[Len(v)].done = <<>>
      /\ Len(v) \in DOMAIN v
  <2> DEFINE last == Len(v)
  <2>1. last \in DOMAIN v
    BY <1>6
  <2> HIDE DEF last
  <2>2. v[last] = [id |-> id, deltas |-> <<>>, done |-> <<>>]
    BY <1>6 DEF last
  <2>3. v[last].id = id /\ v[last].deltas = <<>> /\ v[last].done = <<>>
    BY <2>2
  <2>4. v[last] = [id |-> v[last].id, deltas |-> v[last].deltas, done |-> v[last].done]
    BY <2>2, <2>3
  <2>5. t = Delta(v, last, v[last].id, part.body)
    BY <2>3 DEF last
  <2> HIDE DEF t
  <2>6. LET w == Delta(v, last, v[last].id, part.body)
        IN /\ DOMAIN w = DOMAIN v /\ Len(w) = Len(v)
           /\ \A i \in DOMAIN v : i # last => w[i] = v[i]
           /\ w[last].id = v[last].id /\ w[last].deltas = v[last].deltas \o part.body
           /\ w[last].done = v[last].done
    BY <1>6, <2>1, <2>4, DeltaFor
  <2>7. <<>> \o part.body = part.body
    BY <1>1
  <2> QED BY <2>1, <2>3, <2>5, <2>6, <2>7 DEF last
<1> HIDE DEF t
<1>8. \A i \in DOMAIN t : (i \in DOMAIN u /\ t[i] = u[i]) \/ i = Len(v)
  <2>1. TAKE i \in DOMAIN t
  <2>2. SUFFICES ASSUME i # Len(v) PROVE i \in DOMAIN u /\ t[i] = u[i]
    OBVIOUS
  <2>3. i \in 1..(Len(u) + 1) /\ i # Len(u) + 1 /\ Len(u) \in Nat
    BY <1>6, <1>7, <2>2
  <2>4. i \in 1..Len(u)
    BY <2>3
  <2> QED BY <1>6, <1>7, <2>2, <2>4
<1>9. SameIds(t, g.order)
  <2>1. \A i \in DOMAIN v : t[i].id = v[i].id
    <3>1. v[Len(v)].id = id
      BY <1>6
    <3> QED BY <1>7, <3>1
  <2> QED BY <1>6, <1>7, <2>1 DEF SameIds
<1>10. \A i \in DOMAIN t : t[i].id = Reasoning => t[i].deltas = g.thought
  BY <1>2, <1>3, <1>7, <1>8 DEF Streaming
<1>11. \A x \in DOMAIN g.parts : (x \in DOMAIN f.parts /\ g.parts[x] = f.parts[x]) \/ g.parts[x] = made
  <2> HIDE DEF made
  <2> QED BY <1>1, <1>2
<1>12. made.item = id /\ made.body = part.body
  BY DEF TurnPart
<1> HIDE DEF made
<1>13. ASSUME NEW i \in DOMAIN t, NEW x \in DOMAIN g.parts, g.parts[x].kind = "text", g.parts[x].item = t[i].id
       PROVE  TextStreamed(g.parts[x], t[i], Append(s, part))
  <2>1. CASE i = Len(v)
    <3>1. g.parts[x] = made
      BY <1>3, <1>7, <1>11, <1>13, <2>1
    <3> QED BY <1>7, <1>12, <2>1, <3>1 DEF TextStreamed
  <2>2. CASE i # Len(v)
    <3>1. i \in DOMAIN u /\ t[i] = u[i]
      BY <1>8, <2>2
    <3>2. i \in DOMAIN v /\ v[i].id = t[i].id
      BY <1>6, <1>7, <2>2
    <3>3. u[i].id # id
      <4>1. i \in DOMAIN f.order /\ u[i].id = f.order[i]
        BY <1>1, <1>6, <3>1 DEF Streaming, SameIds
      <4> QED BY <1>1, <1>4, <4>1 DEF Contains
    <3>4. x \in DOMAIN f.parts /\ g.parts[x] = f.parts[x]
      BY <1>11, <1>12, <1>13, <3>1, <3>3
    <3>5. TextStreamed(f.parts[x], u[i], s)
      BY <1>13, <3>1, <3>4 DEF Streaming
    <3>6. ToSet(f.parts[x].body) \subseteq TextPieces(s)
      BY <1>13, <3>4 DEF TextsRight
    <3>7. TextStreamed(f.parts[x], u[i], Append(s, part))
      BY <3>5, <3>6, TextStays
    <3> QED BY <3>1, <3>4, <3>7
  <2> QED BY <2>1, <2>2
<1>14. Streaming(g, t, Append(s, part))
  BY <1>9, <1>10, <1>13 DEF Streaming
<1> QED BY <1>14 DEF t, v, id

(* A text that joins the last one: its message is extended.                *)
LEMMA TextJoined ==
  ASSUME NEW s \in Seq(AnyPart), NEW part \in AnyPart,
         NEW f, Recording(f), Ordered(f), TextsRight(f.parts, s), NEW g, TextExtended(f, g, part),
         NEW u, ItemsKnown(u), Streaming(f, u, s),
         NEW m \in DOMAIN u, u[m].id = f.parts[Len(f.parts)].item, u[m].done = <<>>
  PROVE  Streaming(g, Delta(u, m, u[m].id, part.body), Append(s, part))
<1> DEFINE t == Delta(u, m, u[m].id, part.body)
           last == Len(f.parts)
<1>1. /\ f.order \in Seq(TurnItems) /\ f.parts \in Seq(RecordPart)
      /\ last \in DOMAIN f.parts /\ f.parts[last].kind = "text" /\ f.parts[last] \in RecordPart
  <2>1. f.order \in Seq(TurnItems) /\ f.parts \in Seq(RecordPart)
    BY DEF Recording
  <2>2. last > 0 /\ f.parts[last].kind = "text"
    BY DEF TextExtended
  <2> QED BY <2>1, <2>2
<1>2. /\ g.order = Recorded(f.order, f.parts[last].item) /\ g.thought = f.thought
      /\ g.parts = [i \in DOMAIN f.parts |->
                      IF i = last THEN [f.parts[i] EXCEPT !.body = @ \o part.body] ELSE f.parts[i]]
  BY DEF TextExtended, Unnamed, Unthought
<1>3. /\ DOMAIN g.parts = DOMAIN f.parts
      /\ \A x \in DOMAIN f.parts : x # last => g.parts[x] = f.parts[x]
      /\ g.parts[last].item = f.parts[last].item /\ g.parts[last].body = f.parts[last].body \o part.body
  <2> DEFINE q == [f.parts[last] EXCEPT !.body = f.parts[last].body \o part.body]
  <2>1. q.item = f.parts[last].item /\ q.body = f.parts[last].body \o part.body
    BY <1>1, PartChanges
  <2>2. g.parts[last] = q
    BY <1>1, <1>2
  <2>3. DOMAIN g.parts = DOMAIN f.parts /\ \A x \in DOMAIN f.parts : x # last => g.parts[x] = f.parts[x]
    BY <1>2
  <2> HIDE DEF q, last
  <2> QED BY <2>1, <2>2, <2>3
<1>4. g.order = f.order
  <2>1. Lists(f.order, ItemsOf(f.parts))
    BY DEF Ordered
  <2> HIDE DEF last
  <2> QED BY <1>1, <1>2, <2>1, RecordedListed
<1>5. /\ u \in Seq(Range(u))
      /\ u[m] = [id |-> u[m].id, deltas |-> u[m].deltas, done |-> u[m].done]
  BY DEF ItemsKnown
<1>6. /\ DOMAIN t = DOMAIN u /\ Len(t) = Len(u) /\ \A i \in DOMAIN u : i # m => t[i] = u[i]
      /\ t[m].id = u[m].id /\ t[m].deltas = u[m].deltas \o part.body /\ t[m].done = <<>>
  <2>1. LET w == Delta(u, m, u[m].id, part.body)
        IN /\ DOMAIN w = DOMAIN u /\ Len(w) = Len(u)
           /\ \A i \in DOMAIN u : i # m => w[i] = u[i]
           /\ w[m].id = u[m].id /\ w[m].deltas = u[m].deltas \o part.body
           /\ w[m].done = u[m].done
    BY <1>5, DeltaFor
  <2> QED BY <2>1
<1> HIDE DEF t
<1>7. SameIds(t, g.order)
  <2>1. \A i \in DOMAIN u : t[i].id = u[i].id
    BY <1>6
  <2> QED BY <1>4, <1>6, <2>1 DEF SameIds, Streaming
<1>8. u[m].id # Reasoning
  BY <1>1, OwnItems
<1>9. \A i \in DOMAIN t : t[i].id = Reasoning => t[i].deltas = g.thought
  BY <1>2, <1>6, <1>8 DEF Streaming
<1> HIDE DEF last
<1>10. u[m].id = f.parts[last].item
  BY DEF last
<1>11. ASSUME NEW i \in DOMAIN t, NEW x \in DOMAIN g.parts, g.parts[x].kind = "text", g.parts[x].item = t[i].id
       PROVE  TextStreamed(g.parts[x], t[i], Append(s, part))
  <2>1. i \in DOMAIN u /\ u[i].id = t[i].id /\ x \in DOMAIN f.parts /\ f.parts[x].item = u[i].id
    BY <1>3, <1>6, <1>11
  <2>2. CASE x = last
    <3>1. i = m
      BY <1>10, <2>1, <2>2 DEF ItemsKnown
    <3>2. TextStreamed(f.parts[last], u[m], s)
      BY <1>1, <1>10 DEF Streaming
    <3>3. t[m].deltas = g.parts[last].body
      BY <1>3, <1>6, <3>2 DEF TextStreamed
    <3> QED BY <1>6, <2>2, <3>1, <3>3 DEF TextStreamed
  <2>3. CASE x # last
    <3>1. i # m
      BY <1>1, <1>10, <2>1, <2>3, OwnItems
    <3>2. g.parts[x] = f.parts[x] /\ t[i] = u[i] /\ f.parts[x].kind = "text"
      BY <1>3, <1>6, <1>11, <2>1, <2>3, <3>1
    <3>3. TextStreamed(f.parts[x], u[i], s)
      BY <2>1, <3>2 DEF Streaming
    <3>4. ToSet(f.parts[x].body) \subseteq TextPieces(s)
      BY <2>1, <3>2 DEF TextsRight
    <3>5. TextStreamed(f.parts[x], u[i], Append(s, part))
      BY <3>3, <3>4, TextStays
    <3> QED BY <3>2, <3>5
  <2> QED BY <2>2, <2>3
<1>12. Streaming(g, t, Append(s, part))
  BY <1>7, <1>9, <1>11 DEF Streaming
<1> QED BY <1>12 DEF t

(* A piece of text, with the open message or in one of its own.            *)
LEMMA PieceStreamed ==
  ASSUME NEW n, NEW s, Following(n, s), NEW part \in AnyPart, part.kind = "text", part.body # <<>>,
         OnText(part)
  PROVE  Streaming(FlushPendingText(acc'), streamed', Append(s, part))
<1> DEFINE f == FlushPendingText(acc)
           g == FlushPendingText(acc')
           split == SplitsMessage(part)
           a == IF split THEN Flushed(acc) ELSE acc
           u == IF split THEN MessageFlushed(acc, streamed) ELSE streamed
           open == IF split THEN StillOpen(a) ELSE msgIndex
           id == CurrentTextID(a)
           v == AddedOnce(u, open, id)
           index == IF open = 0 THEN Len(v) ELSE open
<1>1. /\ Flushed(acc) = f /\ StillOpen(f) = 0 /\ FlushPendingText(f) = f
      /\ Accumulator(f, n) /\ Recording(f) /\ f.text = <<>>
      /\ Places(f, 0, reasoningIndex, callIndexes, MessageFlushed(acc, streamed))
      /\ Streaming(f, MessageFlushed(acc, streamed), s)
  BY FollowingFlushed
<1>2. /\ n \in 0..(MaxParts - 1) /\ Accumulator(acc, n) /\ Recording(acc) /\ Ordered(f)
      /\ Places(acc, msgIndex, reasoningIndex, callIndexes, streamed) /\ s \in Seq(AnyPart)
      /\ TextsRight(f.parts, s) /\ Streaming(f, streamed, s)
      /\ part \in Parts
  BY DEF Following, Parts, AnyPart
<1>3. acc' = ProcessPart(acc, part) /\ Accumulator(acc', n + 1)
  BY <1>2, TextHandled
<1>4. Recording(acc') /\ (TextExtended(f, g, part) \/ TextAdded(f, g, part))
  <2>1. Recording(ProcessPart(acc, part)) /\ Taken(f, FlushPendingText(ProcessPart(acc, part)), part)
    BY <1>2, PartIsTaken
  <2>2. Recording(acc') /\ Taken(f, g, part)
    BY <1>3, <2>1
  <2> HIDE DEF f, g
  <2> QED BY <2>2 DEF Taken
<1>5. streamed' = Delta(v, index, id, part.body) /\ acc' = ProcessPart(a, part)
  BY DEF OnText
<1> HIDE DEF f, g, split
<1>6. Accumulator(a, n) /\ (a.text # <<>> => a.textSig = part.sig)
  <2>1. msgIndex # 0 <=> acc.text # <<>>
    BY <1>2 DEF Places, IndexesRight
  <2> QED BY <1>1, <1>2, <2>1 DEF split, SplitsMessage
<1>7. acc'.textCount = a.textCount /\ acc'.text # <<>>
  <2> HIDE DEF a
  <2> QED BY <1>2, <1>5, <1>6, TextAdds
<1>8. g.textCount = a.textCount + 1 /\ a.textCount \in Nat /\ f.textCount \in Nat /\ acc.textCount \in Nat
  <2>1. FlushPendingText(acc').textCount = acc'.textCount + 1
    BY <1>4, <1>7, FlushView
  <2>2. a.textCount \in Nat
    BY <1>6 DEF Accumulator
  <2> QED BY <1>1, <1>2, <1>7, <2>1, <2>2 DEF g, Recording
<1>9. CASE open # 0
  <2>1. ~split /\ a = acc /\ u = streamed /\ open = msgIndex /\ v = streamed /\ index = msgIndex
    BY <1>1, <1>9 DEF AddedOnce
  <2>2. acc.text # <<>> /\ msgIndex # 0
    BY <1>2, <1>9, <2>1 DEF Places, IndexesRight
  <2>3. /\ f.parts = Append(acc.parts, TurnPart("text", Message(acc.textCount), NoId, acc.text, acc.textSig))
        /\ f.textCount = acc.textCount + 1 /\ acc.parts \in Seq(RecordPart)
    BY <1>2, <2>2, FlushView DEF f, Recording
  <2>4. TextExtended(f, g, part)
    BY <1>4, <1>8, <2>1, <2>3 DEF TextAdded
  <2>5. f.parts[Len(f.parts)].item = CurrentTextID(acc)
    <3> DEFINE made == TurnPart("text", Message(acc.textCount), NoId, acc.text, acc.textSig)
    <3>1. made.item = CurrentTextID(acc)
      BY DEF TurnPart, CurrentTextID
    <3> HIDE DEF made
    <3>2. f.parts[Len(f.parts)] = made
      BY <2>3 DEF made
    <3> QED BY <3>1, <3>2
  <2>6. msgIndex \in DOMAIN streamed /\ streamed[msgIndex].id = CurrentTextID(acc) /\ streamed[msgIndex].done = <<>>
    BY <1>2, <1>8, <2>2, OpenMessage
  <2>7. ItemsKnown(streamed)
    BY <1>2 DEF Places
  <2>8. streamed' = Delta(streamed, msgIndex, streamed[msgIndex].id, part.body)
    BY <1>5, <2>1, <2>6
  <2>9. Streaming(g, Delta(streamed, msgIndex, streamed[msgIndex].id, part.body), Append(s, part))
    BY <1>1, <1>2, <2>4, <2>5, <2>6, <2>7, TextJoined
  <2> QED BY <2>8, <2>9 DEF g
<1>10. CASE open = 0
  <2>1. a = f /\ ItemsKnown(u) /\ Streaming(f, u, s)
    <3>1. CASE split
      BY <1>1, <3>1 DEF Places
    <3>2. CASE ~split
      <4>1. acc.text = <<>>
        BY <1>2, <1>10, <3>2 DEF Places, IndexesRight
      <4>2. f = acc
        BY <1>2, <4>1, FlushView DEF f
      <4> QED BY <1>2, <3>2, <4>2 DEF Places
    <3> QED BY <3>1, <3>2
  <2> HIDE DEF u, a, open
  <2>2. id = Message(f.textCount) /\ v = Added(u, id) /\ index = Len(v)
    BY <1>10, <2>1 DEF CurrentTextID, AddedOnce
  <2>3. TextAdded(f, g, part)
    BY <1>4, <1>8, <2>1 DEF TextExtended
  <2>4. streamed' = Delta(Added(u, Message(f.textCount)), Len(Added(u, Message(f.textCount))), Message(f.textCount), part.body)
    BY <1>5, <2>2
  <2>5. Streaming(g, Delta(Added(u, Message(f.textCount)), Len(Added(u, Message(f.textCount))), Message(f.textCount), part.body),
                  Append(s, part))
    BY <1>1, <1>2, <2>1, <2>3, TextStarted
  <2> QED BY <2>4, <2>5 DEF g
<1> QED BY <1>9, <1>10

(* The item of a part is named after it.                                   *)
LEMMA NamedPart ==
  ASSUME NEW t, NEW x \in DOMAIN t.parts, t.parts[x].item # Reasoning,
         \A y \in DOMAIN t.parts : t.parts[y].item = t.parts[x].item => y = x
  PROVE  ItemNamed(t, t.parts[x].item) = OutputItem(t.parts[x].item, t.parts[x].body, t.parts[x].sig)
<1> DEFINE i == CHOOSE j \in DOMAIN t.parts : t.parts[j].item = t.parts[x].item
<1>1. i \in DOMAIN t.parts /\ t.parts[i].item = t.parts[x].item
  OBVIOUS
<1>2. ItemNamed(t, t.parts[x].item) = OutputItem(t.parts[x].item, t.parts[i].body, t.parts[i].sig)
  BY DEF ItemNamed
<1> HIDE DEF i
<1> QED BY <1>1, <1>2

(* A call, before the text under way is committed.                         *)
LEMMA NamedCall ==
  ASSUME NEW a, Recording(a), Ordered(FlushPendingText(a)),
         NEW x \in DOMAIN FlushPendingText(a).parts, FlushPendingText(a).parts[x].kind = "call"
  PROVE  LET p == FlushPendingText(a).parts[x]
         IN ItemNamed(a, p.item) = OutputItem(p.item, p.body, p.sig)
<1> DEFINE f == FlushPendingText(a)
           made == TurnPart("text", Message(a.textCount), NoId, a.text, a.textSig)
<1>1. f.parts = a.parts \/ f.parts = Append(a.parts, made)
  BY FlushView
<1>2. made.kind = "text"
  BY DEF TurnPart
<1>3. a.parts \in Seq(RecordPart)
  BY DEF Recording
<1> HIDE DEF f, made
<1>4. DOMAIN a.parts \subseteq DOMAIN f.parts /\ \A y \in DOMAIN a.parts : f.parts[y] = a.parts[y]
  BY <1>1, <1>3
<1>5. \A y \in DOMAIN f.parts : y \in DOMAIN a.parts \/ f.parts[y] = made
  BY <1>1, <1>3
<1>6. x \in DOMAIN a.parts /\ a.parts[x] = f.parts[x]
  BY <1>2, <1>4, <1>5 DEF f
<1>7. a.parts[x].item # Reasoning /\ \A y \in DOMAIN a.parts : a.parts[y].item = a.parts[x].item => y = x
  <2>1. x \in DOMAIN f.parts /\ Ordered(f)
    BY DEF f
  <2> QED BY <1>4, <1>6, <2>1, OwnItems
<1>8. ItemNamed(a, a.parts[x].item) = OutputItem(a.parts[x].item, a.parts[x].body, a.parts[x].sig)
  BY <1>6, <1>7, NamedPart
<1> QED BY <1>6, <1>8 DEF f

(* After the loop: each call is done with what the turn has of it.         *)
LEMMA LoopStreamed ==
  ASSUME NEW n \in 0..MaxParts, Accumulator(acc, n), Recording(acc), Ordered(FlushPendingText(acc)),
         Places(acc, msgIndex, reasoningIndex, callIndexes, streamed),
         NEW s, Streaming(FlushPendingText(acc), streamed, s)
  PROVE  LET f == FlushPendingText(acc)
             u == MessageFlushed(acc, CallsDone(acc, streamed))
         IN /\ Streaming(f, u, s)
            /\ \A i \in DOMAIN u : \A x \in DOMAIN f.parts :
                 f.parts[x].kind = "call" /\ f.parts[x].item = u[i].id =>
                   u[i].done = <<OutputItem(f.parts[x].item, f.parts[x].body, f.parts[x].sig)>>
<1> DEFINE f == FlushPendingText(acc)
           t == CallsDone(acc, streamed)
           u == MessageFlushed(acc, t)
<1>1. /\ ItemsKnown(streamed) /\ acc.textCount \in Nat
      /\ IndexesRight(acc, msgIndex, reasoningIndex, callIndexes, streamed)
      /\ f.order \in Seq(TurnItems) /\ SameIds(streamed, f.order)
  <2>1. Recording(f)
    BY FlushView
  <2> HIDE DEF f
  <2>2. Streaming(f, streamed, s)
    BY DEF f
  <2> QED BY <2>1, <2>2 DEF Places, Recording, Streaming
<1>2. ASSUME NEW c \in DOMAIN callIndexes
      PROVE  /\ callIndexes[c] \in DOMAIN streamed /\ streamed[callIndexes[c]].id = c
             /\ streamed[callIndexes[c]].done = <<>> /\ c \in CallItems
  <2>1. callIndexes[c] \in DOMAIN streamed /\ streamed[callIndexes[c]].id = c /\ c \in CallItems
    BY <1>1 DEF IndexesRight
  <2>2. OpenOrFlushed(acc, msgIndex, reasoningIndex, callIndexes, streamed, callIndexes[c])
    BY <2>1 DEF Places
  <2> QED BY <2>1, <2>2, IdsDiffer DEF OpenOrFlushed, CurrentTextID
<1>3. /\ ItemsKnown(t) /\ DOMAIN t = DOMAIN streamed /\ Len(t) = Len(streamed)
      /\ \A i \in DOMAIN streamed :
           /\ t[i].id = streamed[i].id /\ t[i].deltas = streamed[i].deltas
           /\ i \notin Range(callIndexes) => t[i] = streamed[i]
  BY <1>1, <1>2, CallsFinished
<1>4. ASSUME NEW i \in Range(callIndexes)
      PROVE  i \in DOMAIN streamed /\ streamed[i].id \in CallItems
             /\ t[i].done = <<ItemNamed(acc, streamed[i].id)>>
  <2>1. PICK c \in DOMAIN callIndexes : i = callIndexes[c]
    BY DEF Range
  <2>2. i \in DOMAIN streamed /\ streamed[i].id = c /\ streamed[i].done = <<>> /\ c \in CallItems
    BY <1>2, <2>1
  <2>3. streamed[i] = [id |-> streamed[i].id, deltas |-> streamed[i].deltas, done |-> streamed[i].done]
    BY <1>1, <2>2 DEF ItemsKnown
  <2> DEFINE output == ItemNamed(acc, streamed[i].id)
             item == [streamed[i] EXCEPT !.done = Append(@, output)]
  <2>4. t[i] = item
    BY <2>2 DEF CallsDone
  <2> HIDE DEF output, t
  <2>5. item.done = Append(<<>>, output)
    BY <2>2, <2>3
  <2> HIDE DEF item
  <2> QED BY <2>2, <2>4, <2>5 DEF output
<1> HIDE DEF t
<1>5. \A i \in DOMAIN streamed : streamed[i].id \notin CallItems => t[i] = streamed[i]
  BY <1>3, <1>4
<1>6. Streaming(f, t, s)
  <2> HIDE DEF f
  <2>0. Ordered(f) /\ Streaming(f, streamed, s)
    BY DEF f
  <2>1. SameIds(t, f.order)
    BY <1>1, <1>3 DEF SameIds
  <2>2. \A i \in DOMAIN t : t[i].id = Reasoning => t[i].deltas = f.thought
    BY <1>3, <2>0 DEF Streaming
  <2>3. ASSUME NEW i \in DOMAIN t, NEW x \in DOMAIN f.parts, f.parts[x].kind = "text", f.parts[x].item = t[i].id
        PROVE  TextStreamed(f.parts[x], t[i], s)
    <3>1. \E k : f.parts[x].item = Message(k)
      BY <2>0, <2>3, OwnItems
    <3>2. streamed[i].id = t[i].id /\ streamed[i].id \notin CallItems /\ i \in DOMAIN streamed
      BY <1>3, <2>3, <3>1, IdsDiffer
    <3>3. t[i] = streamed[i]
      BY <1>5, <3>2
    <3> QED BY <2>0, <2>3, <3>2, <3>3 DEF Streaming
  <2> QED BY <2>1, <2>2, <2>3 DEF Streaming
<1>7. msgIndex # 0 => /\ msgIndex \in DOMAIN t /\ t[msgIndex].id = CurrentTextID(acc)
                      /\ t[msgIndex].done = <<>>
  <2> SUFFICES ASSUME msgIndex # 0
               PROVE  msgIndex \in DOMAIN t /\ t[msgIndex].id = CurrentTextID(acc) /\ t[msgIndex].done = <<>>
    OBVIOUS
  <2>1. msgIndex \in DOMAIN streamed /\ streamed[msgIndex].id = CurrentTextID(acc) /\ streamed[msgIndex].done = <<>>
    BY <1>1, OpenMessage
  <2>2. t[msgIndex] = streamed[msgIndex]
    BY <1>5, <2>1, IdsDiffer DEF CurrentTextID
  <2> QED BY <1>3, <2>1, <2>2
<1>8. Streaming(f, u, s)
  <2>1. msgIndex # 0 <=> acc.text # <<>>
    BY <1>1 DEF IndexesRight
  <2> QED BY <1>3, <1>6, <1>7, <2>1, FlushStreamed
<1>9. DOMAIN u = DOMAIN streamed /\ \A i \in DOMAIN streamed : streamed[i].id \in CallItems => u[i] = t[i]
  <2>1. CASE u = t
    BY <1>3, <2>1
  <2>2. CASE u # t
    <3> DEFINE item == [t[msgIndex] EXCEPT !.done = Append(@, OutputItem(CurrentTextID(acc), acc.text, acc.textSig))]
    <3>1. msgIndex # 0 /\ u = [t EXCEPT ![msgIndex] = item]
      BY <2>2 DEF MessageFlushed, ItemDone
    <3>2. \A i \in DOMAIN streamed : streamed[i].id \in CallItems => i # msgIndex
      BY <1>3, <1>7, <3>1, IdsDiffer DEF CurrentTextID
    <3> HIDE DEF u, item
    <3> QED BY <1>3, <3>1, <3>2
  <2> QED BY <2>1, <2>2
<1> HIDE DEF u
<1>10. ASSUME NEW i \in DOMAIN u, NEW x \in DOMAIN f.parts, f.parts[x].kind = "call", f.parts[x].item = u[i].id
       PROVE  u[i].done = <<OutputItem(f.parts[x].item, f.parts[x].body, f.parts[x].sig)>>
  <2>1. i \in DOMAIN streamed /\ u[i].id = f.order[i] /\ streamed[i].id = f.order[i]
    BY <1>1, <1>8, <1>9 DEF Streaming, SameIds
  <2>2. f.parts[x].item \in CallItems
    <3>1. OpenOrFlushed(acc, msgIndex, reasoningIndex, callIndexes, streamed, i)
      BY <2>1 DEF Places
    <3>2. f.parts[x].item = CallItem(x - 1, f.parts[x].id)
      <4>1. Named(f)
        BY DEF Ordered
      <4> HIDE DEF f
      <4> QED BY <1>10, <4>1 DEF Named
    <3>3. streamed[i].id # Reasoning /\ \A k : streamed[i].id # Message(k)
      <4> HIDE DEF f
      <4> QED BY <1>10, <2>1, <3>2, NamesDiffer
    <3>4. streamed[i].id \in DOMAIN callIndexes
      BY <3>1, <3>3 DEF OpenOrFlushed, CurrentTextID
    <3> HIDE DEF f
    <3> QED BY <1>2, <1>10, <2>1, <3>4
  <2>3. i \in Range(callIndexes)
    <3>1. OpenOrFlushed(acc, msgIndex, reasoningIndex, callIndexes, streamed, i)
      BY <2>1 DEF Places
    <3>2. streamed[i].id \in CallItems
      BY <1>10, <2>1, <2>2
    <3> QED BY <3>1, <3>2, IdsDiffer DEF OpenOrFlushed, CurrentTextID, Range
  <2>4. ItemNamed(acc, f.parts[x].item) = OutputItem(f.parts[x].item, f.parts[x].body, f.parts[x].sig)
    BY <1>10, NamedCall
  <2> HIDE DEF f
  <2> QED BY <1>4, <1>9, <1>10, <2>1, <2>2, <2>3, <2>4
<1> QED BY <1>8, <1>10 DEF u, t

(* An open item is finished with this output.                              *)
LEMMA DoneWith ==
  ASSUME NEW s, s \in Seq(Range(s)), NEW n \in DOMAIN s, s[n].done = <<>>,
         s[n] = [id |-> s[n].id, deltas |-> s[n].deltas, done |-> s[n].done], NEW output
  PROVE  LET t == ItemDone(s, n, output)
         IN /\ DOMAIN t = DOMAIN s /\ Len(t) = Len(s)
            /\ t[n].id = s[n].id /\ t[n].deltas = s[n].deltas /\ t[n].done = <<output>>
            /\ \A i \in DOMAIN s : i # n => t[i] = s[i]
<1> DEFINE item == [s[n] EXCEPT !.done = Append(@, output)]
           t == [s EXCEPT ![n] = item]
<1>1. ItemDone(s, n, output) = t
  BY DEF ItemDone
<1>2. item.id = s[n].id /\ item.deltas = s[n].deltas /\ item.done = Append(<<>>, output)
  OBVIOUS
<1> HIDE DEF item
<1>3. item.done = <<output>>
  BY <1>2
<1>4. DOMAIN t = DOMAIN s /\ Len(t) = Len(s) /\ t[n] = item /\ \A i \in DOMAIN s : i # n => t[i] = s[i]
  BY ChangedItem
<1> QED BY <1>1, <1>2, <1>3, <1>4

(* The reasoning item is finished with the thinking, announced or not.     *)
LEMMA ReasoningStreamed ==
  ASSUME NEW u, OnlyReasoningOpen(u), NEW f, f.order \in Seq(TurnItems), SameIds(u, f.order),
         reasoningIndex = 0 <=> ~Contains(f.order, Reasoning),
         f.thought # <<>> => Contains(f.order, Reasoning),
         \A i \in DOMAIN u : u[i].id = Reasoning => u[i].deltas = f.thought,
         NeedsReasoningItem(f)
  PROVE  LET t == ReasoningDone(f, u)
         IN /\ SameIds(t, Recorded(f.order, Reasoning))
            /\ \A i \in DOMAIN t :
                 IF t[i].id = Reasoning
                 THEN t[i].deltas = f.thought /\ t[i].done = <<OutputItem(Reasoning, f.thought, NoSig)>>
                 ELSE i \in DOMAIN u /\ t[i] = u[i]
<1> DEFINE v == AddedOnce(u, reasoningIndex, Reasoning)
           index == IF reasoningIndex = 0 THEN Len(v) ELSE reasoningIndex
           output == OutputItem(Reasoning, f.thought, NoSig)
           t == ItemDone(v, index, output)
<1>1. ReasoningDone(f, u) = t
  BY DEF ReasoningDone
<1>2. /\ u \in Seq(Range(u)) /\ Reasoning \in TurnItems
      /\ \A i \in DOMAIN u : u[i] = [id |-> u[i].id, deltas |-> u[i].deltas, done |-> u[i].done]
      /\ \A i \in DOMAIN u : i = reasoningIndex <=> u[i].id = Reasoning
      /\ reasoningIndex # 0 => reasoningIndex \in DOMAIN u /\ u[reasoningIndex].done = <<>>
  BY DEF OnlyReasoningOpen, ItemsKnown, TurnItems
<1>3. /\ v \in Seq(Range(v)) /\ SameIds(v, Recorded(f.order, Reasoning))
      /\ Len(u) \in Nat /\ DOMAIN u = 1..Len(u) /\ DOMAIN v = 1..Len(v)
      /\ \A i \in DOMAIN u : i \in DOMAIN v /\ v[i] = u[i]
      /\ reasoningIndex # 0 => v = u
      /\ reasoningIndex = 0 => Len(v) = Len(u) + 1
                               /\ v[Len(v)] = [id |-> Reasoning, deltas |-> <<>>, done |-> <<>>]
  BY <1>2, RecordedIds
<1> HIDE DEF v, output
<1>4. /\ index \in DOMAIN v /\ v[index].id = Reasoning /\ v[index].deltas = f.thought /\ v[index].done = <<>>
      /\ v[index] = [id |-> v[index].id, deltas |-> v[index].deltas, done |-> v[index].done]
  <2>1. CASE reasoningIndex # 0
    BY <1>2, <1>3, <2>1
  <2>2. CASE reasoningIndex = 0
    <3>1. f.thought = <<>>
      BY <2>2
    <3> QED BY <1>3, <2>2, <3>1
  <2> QED BY <2>1, <2>2
<1>5. \A i \in DOMAIN v : i # index => i \in DOMAIN u /\ v[i] = u[i] /\ u[i].id # Reasoning
  <2>1. TAKE i \in DOMAIN v
  <2>2. SUFFICES ASSUME i # index PROVE i \in DOMAIN u /\ v[i] = u[i] /\ u[i].id # Reasoning
    OBVIOUS
  <2>3. CASE reasoningIndex = 0
    <3>1. i # Len(u) + 1 /\ Len(u) \in Nat /\ i \in 1..(Len(u) + 1)
      BY <1>3, <2>2, <2>3
    <3>2. i \in 1..Len(u) /\ i # 0
      BY <3>1
    <3> QED BY <1>2, <1>3, <2>3, <3>2
  <2>4. CASE reasoningIndex # 0
    BY <1>2, <1>3, <2>2, <2>4
  <2> QED BY <2>3, <2>4
<1> HIDE DEF index
<1>6. /\ DOMAIN t = DOMAIN v /\ Len(t) = Len(v)
      /\ t[index].id = Reasoning /\ t[index].deltas = f.thought /\ t[index].done = <<output>>
      /\ \A i \in DOMAIN v : i # index => t[i] = v[i]
  <2>1. LET w == ItemDone(v, index, output)
        IN /\ DOMAIN w = DOMAIN v /\ Len(w) = Len(v)
           /\ w[index].id = v[index].id /\ w[index].deltas = v[index].deltas /\ w[index].done = <<output>>
           /\ \A i \in DOMAIN v : i # index => w[i] = v[i]
    <3>1. /\ v \in Seq(Range(v)) /\ index \in DOMAIN v /\ v[index].done = <<>>
          /\ v[index] = [id |-> v[index].id, deltas |-> v[index].deltas, done |-> v[index].done]
      BY <1>3, <1>4
    <3> HIDE DEF t
    <3> QED BY <3>1, DoneWith
  <2> QED BY <1>4, <2>1
<1> HIDE DEF t
<1>7. SameIds(t, Recorded(f.order, Reasoning))
  <2>1. \A i \in DOMAIN v : t[i].id = v[i].id
    BY <1>4, <1>6
  <2> QED BY <1>3, <1>6, <2>1 DEF SameIds
<1>8. \A i \in DOMAIN t : IF t[i].id = Reasoning
                          THEN t[i].deltas = f.thought /\ t[i].done = <<output>>
                          ELSE i \in DOMAIN u /\ t[i] = u[i]
  BY <1>5, <1>6
<1> QED BY <1>1, <1>7, <1>8 DEF output

(* What the client has in the end, against the final response.             *)
ItemAsFinal(item, output, s) ==
  /\ item.id = output.id /\ Len(item.done) = 1 /\ item.done[1].body = output.body
  /\ item.id[1] # "fc" => item.deltas = output.body
  /\ \/ item.done[1].sig = output.sig
     \/ item.id[1] = "msg" /\ Signing(s, output.body) \cap LoneSigs(s) # {}

AsFinal(items, output, s) ==
  Len(items) = Len(output) /\ \A i \in DOMAIN output : ItemAsFinal(items[i], output[i], s)

(* A turn with something in it.                                            *)
LEMMA TurnAsFinal ==
  ASSUME NEW n \in 0..MaxParts, Accumulator(acc, n), Recording(acc), Ordered(FlushPendingText(acc)),
         Places(acc, msgIndex, reasoningIndex, callIndexes, streamed),
         NEW s, Streaming(FlushPendingText(acc), streamed, s),
         reasoningIndex # 0 => acc.thought # <<>>,
         FlushPendingText(acc).parts # <<>> \/ FlushPendingText(acc).hasThought
  PROVE  LET f == FlushPendingText(acc)
             u == MessageFlushed(acc, CallsDone(acc, streamed))
         IN AsFinal(EmptyMessage(f, ReasoningDone(f, u)), ToOutputItems(f), s)
<1> DEFINE f == FlushPendingText(acc)
           u == MessageFlushed(acc, CallsDone(acc, streamed))
           t == ReasoningDone(f, u)
<1>1. /\ Streaming(f, u, s)
      /\ \A i \in DOMAIN u : \A x \in DOMAIN f.parts :
           f.parts[x].kind = "call" /\ f.parts[x].item = u[i].id =>
             u[i].done = <<OutputItem(f.parts[x].item, f.parts[x].body, f.parts[x].sig)>>
  BY LoopStreamed
<1>2. /\ ItemsKnown(u) /\ DOMAIN u = DOMAIN streamed
      /\ \A i \in DOMAIN streamed :
           /\ u[i].id = streamed[i].id
           /\ i = reasoningIndex => u[i].done = <<>>
           /\ i # reasoningIndex => Len(u[i].done) = 1
  BY LoopOver
<1>3. /\ Recording(f) /\ Ordered(f) /\ f.thought = acc.thought /\ f.hasThought = acc.hasThought
      /\ f.parts # <<>> \/ f.hasThought
  BY FlushView DEF Unthought
<1> HIDE DEF f, u
<1>4. f.order \in Seq(TurnItems) /\ f.parts \in Seq(RecordPart) /\ SameIds(u, f.order) /\ SameIds(streamed, f.order)
  <2>1. SameIds(streamed, f.order)
    BY DEF Streaming, f
  <2> QED BY <1>1, <1>3, <2>1 DEF Recording, Streaming
<1>5. reasoningIndex = 0 <=> ~Contains(f.order, Reasoning)
  BY <1>3, <1>4, ReasoningPlaced
<1>6. OnlyReasoningOpen(u)
  <2>1. /\ ItemsKnown(streamed) /\ (reasoningIndex # 0 => reasoningIndex \in DOMAIN streamed
                                                       /\ streamed[reasoningIndex].id = Reasoning)
    BY DEF Places, IndexesRight
  <2>2. \A i \in DOMAIN streamed : streamed[i].id = Reasoning => reasoningIndex # 0
    <3>1. DOMAIN streamed = 1..Len(streamed) /\ DOMAIN f.order = 1..Len(f.order) /\ Len(streamed) = Len(f.order)
      BY <1>4, <2>1, SeqOfItems DEF SameIds, ItemsKnown
    <3>2. \A i \in DOMAIN streamed : i \in 1..Len(f.order) /\ streamed[i].id = f.order[i]
      BY <1>4, <3>1 DEF SameIds
    <3> QED BY <1>4, <1>5, <3>1, <3>2 DEF Contains
  <2>3. \A i \in DOMAIN streamed : i = reasoningIndex <=> streamed[i].id = Reasoning
    <3>1. 0 \notin DOMAIN streamed
      BY <2>1, SeqOfItems DEF ItemsKnown
    <3> QED BY <2>1, <2>2, <3>1 DEF ItemsKnown
  <2> QED BY <1>2, <2>1, <2>3 DEF OnlyReasoningOpen
<1>7. f.hasThought => NeedsReasoningItem(f)
  <2>1. acc.hasThought => reasoningIndex # 0
    BY DEF Places, IndexesRight
  <2> QED BY <1>3, <2>1 DEF NeedsReasoningItem
<1>8. PICK ids : OutputListed(f, ids)
  BY <1>3, OutputInOrder
<1>9. /\ ids \in Seq(TurnItems) /\ ToOutputItems(f) = [i \in DOMAIN ids |-> ItemNamed(f, ids[i])]
      /\ Lists(ids, ItemsOf(f.parts))
      /\ ids = IF NeedsReasoningItem(f) THEN Recorded(f.order, Reasoning) ELSE f.order
  BY <1>7, <1>8 DEF OutputListed
<1>10. Ordered(f) /\ (f.thought # <<>> => Contains(f.order, Reasoning)) /\ (f.hasThought <=> Contains(f.order, Reasoning))
  BY <1>3 DEF Ordered
<1>11. /\ SameIds(t, ids)
       /\ \A i \in DOMAIN t :
            IF t[i].id = Reasoning
            THEN t[i].deltas = f.thought /\ t[i].done = <<OutputItem(Reasoning, f.thought, NoSig)>>
            ELSE i \in DOMAIN u /\ t[i] = u[i]
  <2>1. CASE NeedsReasoningItem(f)
    <3>1. \A i \in DOMAIN u : u[i].id = Reasoning => u[i].deltas = f.thought
      BY <1>1 DEF Streaming
    <3> QED BY <1>4, <1>5, <1>6, <1>9, <1>10, <2>1, <3>1, ReasoningStreamed
  <2>2. CASE ~NeedsReasoningItem(f)
    <3>1. t = u /\ ids = f.order
      BY <1>9, <2>2 DEF ReasoningDone
    <3>2. reasoningIndex = 0
      BY <1>5, <1>7, <1>10, <2>2
    <3>3. \A i \in DOMAIN u : u[i].id # Reasoning
      <4>1. DOMAIN u = 1..Len(u)
        BY <1>2, SeqOfItems DEF ItemsKnown
      <4> QED BY <1>6, <3>2, <4>1 DEF OnlyReasoningOpen
    <3> QED BY <1>4, <3>1, <3>3
  <2> QED BY <2>1, <2>2
<1> HIDE DEF t
<1>12. PICK k \in Nat : k = Len(ids) /\ DOMAIN ids = 1..k /\ Len(t) = k
  BY <1>9, <1>11 DEF SameIds
<1>13. k # 0
  <2>1. CASE f.hasThought
    <3>1. Contains(ids, Reasoning)
      BY <1>4, <1>7, <1>9, <2>1, ReasoningListed DEF TurnItems
    <3> QED BY <1>12, <3>1 DEF Contains
  <2>2. CASE f.parts # <<>>
    <3>1. 1 \in DOMAIN f.parts
      BY <1>4, <2>2
    <3>2. 1 \in DOMAIN ItemsOf(f.parts)
      BY <3>1 DEF ItemsOf
    <3>3. \E i \in DOMAIN ids : ids[i] = ItemsOf(f.parts)[1]
      BY <1>9, <3>2 DEF Lists
    <3> QED BY <1>12, <3>3
  <2> QED BY <1>3, <2>1, <2>2
<1>14. EmptyMessage(f, t) = t
  <2>1. t # <<>>
    BY <1>12, <1>13
  <2> QED BY <2>1 DEF EmptyMessage
<1> DEFINE out == [i \in DOMAIN ids |-> ItemNamed(f, ids[i])]
<1>15. out = ToOutputItems(f) /\ DOMAIN out = 1..k /\ \A i \in 1..k : out[i] = ItemNamed(f, ids[i])
  BY <1>9, <1>12
<1> HIDE DEF out
<1>16. Len(out) = k
  BY <1>15
<1>17. ASSUME NEW i \in 1..k PROVE ItemAsFinal(t[i], out[i], s)
  <2>1. i \in DOMAIN t /\ t[i].id = ids[i]
    BY <1>11, <1>12 DEF SameIds
  <2>2. CASE ids[i] = Reasoning
    <3> DEFINE output == OutputItem(Reasoning, f.thought, NoSig)
    <3>1. output.id = Reasoning /\ output.body = f.thought
      BY DEF OutputItem
    <3>2. out[i] = output
      BY <1>15, <2>2 DEF ItemNamed
    <3>3. t[i].deltas = f.thought /\ t[i].done = <<output>>
      BY <1>11, <2>1, <2>2
    <3> HIDE DEF output
    <3>4. Len(t[i].done) = 1 /\ t[i].done[1] = output
      BY <3>3
    <3> QED BY <2>1, <2>2, <3>1, <3>2, <3>3, <3>4 DEF ItemAsFinal
  <2>3. CASE ids[i] # Reasoning
    <3>1. i \in DOMAIN u /\ t[i] = u[i] /\ u[i].id = ids[i]
      BY <1>11, <2>1, <2>3
    <3>2. Len(u[i].done) = 1
      <4>1. i # reasoningIndex
        BY <1>6, <2>3, <3>1 DEF OnlyReasoningOpen
      <4> QED BY <1>2, <3>1, <4>1
    <3>3. PICK x \in DOMAIN f.parts : ids[i] = f.parts[x].item
      <4>1. i \in DOMAIN ids
        BY <1>12
      <4>2. \E x \in DOMAIN ItemsOf(f.parts) : ids[i] = ItemsOf(f.parts)[x]
        BY <1>9, <2>3, <4>1 DEF Lists
      <4> QED BY <4>2 DEF ItemsOf
    <3> DEFINE p == f.parts[x]
               output == OutputItem(p.item, p.body, p.sig)
    <3>4. out[i] = output
      <4>1. \A y \in DOMAIN f.parts : f.parts[y].item = f.parts[x].item => y = x
        BY <1>10, OwnItems
      <4>2. ItemNamed(f, p.item) = output
        BY <2>3, <3>3, <4>1, NamedPart
      <4> QED BY <1>15, <3>3, <4>2
    <3>5. output.id = p.item /\ output.body = p.body /\ output.sig = p.sig
      BY DEF OutputItem
    <3>6. p.kind \in {"text", "call"}
      <4>1. p \in RecordPart
        BY <1>4
      <4> QED BY <4>1 DEF RecordPart
    <3>7. CASE p.kind = "text"
      <4>1. TextStreamed(p, u[i], s)
        BY <1>1, <3>1, <3>3, <3>7 DEF Streaming
      <4>2. u[i].id[1] = "msg"
        <5>1. PICK m : p.item = Message(m)
          BY <1>10, <3>7, OwnItems
        <5> QED BY <3>1, <3>3, <5>1, NamesDiffer
      <4> HIDE DEF output, p
      <4>3. u[i].done # <<>>
        BY <3>2
      <4> QED BY <3>1, <3>2, <3>3, <3>4, <3>5, <4>1, <4>2, <4>3 DEF ItemAsFinal, TextStreamed, p
    <3>8. CASE p.kind = "call"
      <4>1. u[i].done = <<output>>
        BY <1>1, <3>1, <3>3, <3>8
      <4>2. u[i].id[1] = "fc"
        <5>1. p.item = CallItem(x - 1, p.id)
          BY <1>10, <3>8 DEF Ordered, Named
        <5> QED BY <3>1, <3>3, <5>1, NamesDiffer
      <4> HIDE DEF output
      <4>3. u[i].done[1] = output
        BY <4>1
      <4> QED BY <3>1, <3>2, <3>3, <3>4, <3>5, <4>2, <4>3 DEF ItemAsFinal
    <3> QED BY <3>6, <3>7, <3>8
  <2> QED BY <2>2, <2>3
<1>18. AsFinal(t, out, s)
  BY <1>12, <1>15, <1>16, <1>17 DEF AsFinal
<1> QED BY <1>14, <1>15, <1>18 DEF f, u, t

(* A sequence without elements.                                            *)
LEMMA NoElements ==
  ASSUME NEW S, NEW s \in Seq(S), DOMAIN s = {}
  PROVE  s = <<>>
<1>1. PICK k \in Nat : DOMAIN s = 1..k /\ Len(s) = k
  OBVIOUS
<1>2. k = 0
  <2>1. k # 0 => 1 \in 1..k
    OBVIOUS
  <2> QED BY <1>1, <2>1
<1> QED BY <1>1, <1>2

(* The output of a turn with nothing in it: one empty message.             *)
LEMMA EmptyOutput ==
  ASSUME NEW t, t.parts = <<TurnPart("text", Message(0), NoId, <<>>, NoSig)>>, t.order = <<Message(0)>>,
         ~NeedsReasoningItem(t)
  PROVE  ToOutputItems(t) = <<OutputItem(Message(0), <<>>, NoSig)>>
<1> DEFINE m == Message(0)
           none == TurnPart("text", m, NoId, <<>>, NoSig)
           S == ItemIds(t)
           order == <<m>>
<1>1. none.item = m /\ none.body = <<>> /\ none.sig = NoSig
  BY DEF TurnPart
<1>2. m # Reasoning /\ m \in TurnItems
  BY NamesDiffer DEF TurnItems
<1> HIDE DEF none, m
<1>3. t.parts = <<none>> /\ t.order = order
  BY DEF none, m
<1>4. DOMAIN t.parts = {1} /\ t.parts[1] = none
  BY <1>3
<1>5. S = {m}
  BY <1>1, <1>4 DEF ItemIds
<1>6. order \in Seq(TurnItems) /\ DOMAIN order = {1} /\ order[1] = m
  BY <1>2
<1> DEFINE items == [i \in DOMAIN t.parts |-> t.parts[i].item]
<1>7. items = order
  <2>1. DOMAIN items = {1} /\ items[1] = m
    BY <1>1, <1>4
  <2>2. items = [i \in {1} |-> m]
    BY <1>1, <1>4
  <2>3. order = [i \in {1} |-> m]
    OBVIOUS
  <2> HIDE DEF order, items
  <2> QED BY <2>2, <2>3
<1>8. Lists(order, order)
  <2> HIDE DEF order
  <2> QED BY <1>2, <1>6 DEF Lists
<1>9. ToSet(order) = {m}
  <2> HIDE DEF order
  <2> QED BY <1>6 DEF ToSet
<1> HIDE DEF order, S, items
<1>10. \A x \in DOMAIN order : order[x] \in S
  BY <1>5, <1>6
<1>11. /\ Selected(order, S) = order
       /\ Selected(order, S \ ToSet(order)) = <<>>
  <2>1. LET r == Selected(order, S)
        IN /\ Selected(order, S \ ToSet(r)) = <<>>
           /\ ToSet(order) \subseteq S => r = order
    BY <1>6, <1>8, <1>10, SelectedLists
  <2>2. Selected(order, S) = order
    BY <1>5, <1>9, <2>1
  <2> QED BY <2>1, <2>2
<1> DEFINE ids == order \o <<>>
<1>12. ToOutputItems(t) = [i \in DOMAIN ids |-> ItemNamed(t, ids[i])]
  <2>1. Selected(t.order, ItemIds(t)) = order /\ items = order
    BY <1>3, <1>7, <1>11 DEF S
  <2>2. Selected([i \in DOMAIN t.parts |-> t.parts[i].item], ItemIds(t) \ ToSet(order)) = <<>>
    BY <1>7, <1>11 DEF S, items
  <2> HIDE DEF ids
  <2> QED BY <2>1, <2>2 DEF ToOutputItems, ids
<1>13. ids = order
  <2>1. \A q \in Seq(TurnItems) : q \o <<>> = q
    OBVIOUS
  <2> QED BY <1>6, <2>1
<1>14. ItemNamed(t, m) = OutputItem(m, <<>>, NoSig)
  <2>1. ItemNamed(t, t.parts[1].item) = OutputItem(t.parts[1].item, t.parts[1].body, t.parts[1].sig)
    <3>1. 1 \in DOMAIN t.parts /\ t.parts[1].item # Reasoning
          /\ \A y \in DOMAIN t.parts : t.parts[y].item = t.parts[1].item => y = 1
      BY <1>1, <1>2, <1>4
    <3> QED BY <3>1, NamedPart
  <2> QED BY <1>1, <1>4, <2>1
<1> DEFINE output == OutputItem(m, <<>>, NoSig)
<1>15. ToOutputItems(t) = [i \in {1} |-> output]
  <2>1. ToOutputItems(t) = [i \in DOMAIN order |-> ItemNamed(t, order[i])]
    BY <1>12, <1>13
  <2> HIDE DEF output
  <2> QED BY <1>6, <1>14, <2>1 DEF output
<1> HIDE DEF output
<1>16. <<output>> = [i \in {1} |-> output]
  OBVIOUS
<1> QED BY <1>15, <1>16 DEF output, m

(* A turn with nothing in it is told as one empty message.                 *)
LEMMA EmptyAsFinal ==
  ASSUME NEW n \in 0..MaxParts, Accumulator(acc, n), Recording(acc), Ordered(FlushPendingText(acc)),
         Places(acc, msgIndex, reasoningIndex, callIndexes, streamed),
         NEW s, Streaming(FlushPendingText(acc), streamed, s),
         FlushPendingText(acc).parts = <<>>, ~FlushPendingText(acc).hasThought,
         acc.parts = <<>> => DOMAIN acc.toolSigs = {} /\ DOMAIN acc.textSigs = {}
  PROVE  LET turn == Finish(FlushPendingText(acc))
             u == MessageFlushed(acc, CallsDone(acc, streamed))
         IN AsFinal(EmptyMessage(turn, ReasoningDone(turn, u)), ToOutputItems(turn), s)
<1> DEFINE f == FlushPendingText(acc)
           u == MessageFlushed(acc, CallsDone(acc, streamed))
           turn == Finish(f)
           m == Message(0)
           none == TurnPart("text", m, NoId, <<>>, NoSig)
           output == OutputItem(m, <<>>, NoSig)
<1>1. f = acc /\ f.parts = <<>> /\ Recording(f) /\ Ordered(f) /\ ~f.hasThought /\ f.text = <<>>
  <2>1. acc.text # <<>> => f.parts # <<>>
    <3> DEFINE made == TurnPart("text", Message(acc.textCount), NoId, acc.text, acc.textSig)
    <3> HIDE DEF made
    <3>1. acc.text # <<>> => f.parts = Append(acc.parts, made)
      BY FlushView DEF made
    <3>2. acc.parts \in Seq(RecordPart)
      BY DEF Recording
    <3>3. Append(acc.parts, made) # <<>>
      BY <3>2
    <3> QED BY <3>1, <3>3
  <2> QED BY <2>1, FlushView
<1>2. f.order = <<>> /\ f.thought = <<>>
  <2> HIDE DEF f
  <2>1. ~Contains(f.order, Reasoning) /\ f.thought = <<>> /\ Lists(f.order, ItemsOf(f.parts))
    BY <1>1 DEF Ordered
  <2>2. f.order \in Seq(TurnItems) /\ DOMAIN ItemsOf(f.parts) = {}
    BY <1>1 DEF Recording, ItemsOf
  <2>3. \A i \in DOMAIN f.order : f.order[i] = Reasoning
    BY <2>1, <2>2 DEF Lists
  <2>4. \A i \in DOMAIN f.order : f.order[i] # Reasoning
    BY <2>1, <2>2 DEF Contains
  <2>5. DOMAIN f.order = {}
    BY <2>3, <2>4
  <2>6. f.order = <<>>
    BY <2>2, <2>5, NoElements
  <2> QED BY <2>1, <2>6
<1>3. ItemsKnown(u) /\ DOMAIN u = DOMAIN streamed
  BY LoopOver
<1>4. u = <<>>
  <2>1. Len(streamed) = Len(f.order) /\ ItemsKnown(streamed)
    BY DEF Streaming, SameIds, Places
  <2> HIDE DEF f, u
  <2>2. DOMAIN streamed = 1..0
    BY <1>2, <2>1, SeqOfItems DEF ItemsKnown
  <2>3. u \in Seq(Range(u)) /\ DOMAIN u = {}
    BY <1>3, <2>2 DEF ItemsKnown
  <2> QED BY <2>3
<1>5. /\ turn = [f EXCEPT !.parts = <<none>>, !.order = Recorded(f.order, m)]
      /\ {"parts", "order", "thought", "toolSigs", "textSigs"} \subseteq DOMAIN f
  <2> HIDE DEF f, none
  <2>1. FlushPendingText(f) = f
    BY <1>1, FlushView
  <2>2. {"parts", "order", "thought", "toolSigs", "textSigs"} \subseteq DOMAIN f
    BY <1>1, RecordFields DEF Recording
  <2> QED BY <1>1, <2>1, <2>2 DEF Finish, none
<1>6. DOMAIN f.toolSigs = {} /\ DOMAIN f.textSigs = {}
  BY <1>1
<1> HIDE DEF f, u, turn, none
<1>7. Recorded(f.order, m) = <<m>>
  <2>1. ~Contains(<<>>, m)
    BY DEF Contains
  <2>2. Append(<<>>, m) = <<m>>
    OBVIOUS
  <2> HIDE DEF m
  <2> QED BY <1>2, <2>1, <2>2 DEF Recorded
<1> HIDE DEF m
<1>8. /\ turn.parts = <<none>> /\ turn.order = <<m>> /\ turn.thought = <<>>
      /\ turn.toolSigs = f.toolSigs /\ turn.textSigs = f.textSigs
  BY <1>2, <1>5, <1>7
<1>9. ~NeedsReasoningItem(turn)
  BY <1>6, <1>8 DEF NeedsReasoningItem
<1>10. ToOutputItems(turn) = <<output>>
  BY <1>8, <1>9, EmptyOutput DEF m, none
<1> DEFINE v == Added(<<>>, m)
           t == ItemDone(v, 1, output)
<1> HIDE DEF output
<1>11. turn.parts[1].item = m
  <2>1. none.item = m
    BY DEF none, TurnPart
  <2> QED BY <1>8, <2>1
<1>12. EmptyMessage(turn, ReasoningDone(turn, u)) = t
  BY <1>4, <1>9, <1>11 DEF EmptyMessage, ReasoningDone, output
<1>13. v \in Seq(Range(v)) /\ Len(v) = 1 /\ DOMAIN v = 1..1 /\ v[1] = [id |-> m, deltas |-> <<>>, done |-> <<>>]
  <2>1. <<>> \in Seq(Range(<<>>)) /\ Len(<<>>) = 0
    OBVIOUS
  <2>2. LET w == Added(<<>>, m)
        IN /\ w \in Seq(Range(w)) /\ DOMAIN w = 1..(0 + 1) /\ Len(w) = 0 + 1
           /\ w[0 + 1] = [id |-> m, deltas |-> <<>>, done |-> <<>>]
    BY <2>1, AddedItem
  <2> HIDE DEF v
  <2> QED BY <2>2 DEF v
<1> HIDE DEF v
<1>14. Len(t) = 1 /\ t[1].id = m /\ t[1].deltas = <<>> /\ t[1].done = <<output>>
  <2>1. /\ 1 \in DOMAIN v /\ v[1].done = <<>> /\ v[1].id = m /\ v[1].deltas = <<>>
        /\ v[1] = [id |-> v[1].id, deltas |-> v[1].deltas, done |-> v[1].done]
    BY <1>13
  <2> HIDE DEF t
  <2>2. LET w == ItemDone(v, 1, output)
        IN /\ Len(w) = Len(v) /\ w[1].id = v[1].id /\ w[1].deltas = v[1].deltas /\ w[1].done = <<output>>
    BY <1>13, <2>1, DoneWith
  <2> QED BY <1>13, <2>1, <2>2 DEF t
<1> HIDE DEF t
<1>15. output.id = m /\ output.body = <<>> /\ output.sig = NoSig
  BY DEF output, OutputItem
<1>16. ItemAsFinal(t[1], output, s)
  <2>1. Len(t[1].done) = 1 /\ t[1].done[1] = output
    BY <1>14
  <2> QED BY <1>14, <1>15, <2>1 DEF ItemAsFinal
<1>17. AsFinal(t, <<output>>, s)
  <2>1. Len(<<output>>) = 1 /\ \A i \in DOMAIN <<output>> : i = 1 /\ <<output>>[i] = output
    OBVIOUS
  <2> QED BY <1>14, <1>16, <2>1 DEF AsFinal
<1> QED BY <1>10, <1>12, <1>17 DEF turn, u, f

(* Signatures are only noted for the parts there are.                      *)
SigsOnParts(a) == a.parts = <<>> => DOMAIN a.toolSigs = {} /\ DOMAIN a.textSigs = {}

(* One part more.                                                          *)
LEMMA SigsStay ==
  ASSUME NEW a, Recording(a), Ordered(FlushPendingText(a)), SigsOnParts(a), NEW part \in AnyPart
  PROVE  SigsOnParts(ProcessPart(a, part))
<1> DEFINE f == FlushPendingText(a)
           b == ProcessPart(a, part)
           fields == {"parts", "toolSigs", "textSigs"}
<1>1. Recording(f) /\ Ordered(f) /\ fields \subseteq DOMAIN f /\ fields \subseteq DOMAIN a
  <2>1. Recording(f)
    BY FlushView
  <2> HIDE DEF f
  <2>2. fields \subseteq DOMAIN f /\ fields \subseteq DOMAIN a
    BY <2>1, RecordFields DEF Recording
  <2> QED BY <2>1, <2>2 DEF f
<1>2. a.parts \in Seq(RecordPart) /\ f.parts \in Seq(RecordPart) /\ f.calls \in Seq(TurnItems)
  <2> HIDE DEF f
  <2> QED BY <1>1 DEF Recording
<1>3. SigsOnParts(f)
  <2>1. CASE a.text = <<>>
    BY <2>1, FlushView
  <2>2. CASE a.text # <<>>
    <3> DEFINE made == TurnPart("text", Message(a.textCount), NoId, a.text, a.textSig)
    <3>1. f.parts = Append(a.parts, made)
      BY <2>2, FlushView
    <3> HIDE DEF made
    <3>2. Append(a.parts, made) # <<>>
      BY <1>2
    <3> QED BY <3>1, <3>2 DEF SigsOnParts
  <2> QED BY <2>1, <2>2
<1> HIDE DEF f
<1>4. CASE part.kind = "thought"
  <2>1. b = [f EXCEPT !.hasThought = TRUE, !.order = Recorded(f.order, Reasoning), !.thought = f.thought \o part.body]
    BY <1>4 DEF ProcessPart, ProcessThought, f
  <2>2. b.parts = f.parts /\ b.toolSigs = f.toolSigs /\ b.textSigs = f.textSigs
    BY <1>1, <2>1
  <2> QED BY <1>3, <2>2 DEF SigsOnParts
<1>5. CASE part.kind = "call"
  <2>1. PICK g : g = FlushPendingText(b)
    OBVIOUS
  <2>2. Recording(b) /\ (CallAdded(f, g, part) \/ CallUpdated(f, g, part))
    BY <1>1, <1>5, <2>1, CallIsTaken DEF f, Ordered
  <2>3. g.parts # <<>>
    <3>1. CASE CallAdded(f, g, part)
      <4> DEFINE made == TurnPart("call", CallItem(Len(f.parts), part.id), part.id, part.body, part.sig)
      <4>1. g.parts = Append(f.parts, made)
        BY <3>1 DEF CallAdded
      <4> HIDE DEF made
      <4>2. Append(f.parts, made) # <<>>
        BY <1>2
      <4> QED BY <4>1, <4>2
    <3>2. CASE CallUpdated(f, g, part)
      <4>1. \E y \in DOMAIN f.parts : TRUE
        BY <1>1, <3>2 DEF CallUpdated, Ordered, Named
      <4>2. DOMAIN g.parts = DOMAIN f.parts
        BY <3>2 DEF CallUpdated
      <4> QED BY <4>1, <4>2
    <3> QED BY <2>2, <3>1, <3>2
  <2>4. b.text = <<>>
    <3>1. f.text = <<>> /\ "text" \in DOMAIN f
      BY <1>1, FlushView, RecordFields DEF f, Recording
    <3>2. b.text = f.text
      BY <1>5, <3>1 DEF ProcessPart, ProcessCall, f
    <3> QED BY <3>1, <3>2
  <2>5. g = b
    BY <2>1, <2>2, <2>4, FlushView
  <2> QED BY <2>3, <2>5 DEF SigsOnParts
<1>6. CASE part.kind = "text" /\ part.body # <<>>
  <2> DEFINE c == IF a.text # <<>> /\ a.textSig # part.sig THEN f ELSE a
  <2>1. b = [c EXCEPT !.order = Recorded(c.order, CurrentTextID(c)), !.text = c.text \o part.body,
                      !.textSig = IF part.sig = NoSig THEN c.textSig ELSE part.sig]
    BY <1>6 DEF ProcessPart, ProcessText, f
  <2>2. fields \subseteq DOMAIN c /\ SigsOnParts(c)
    BY <1>1, <1>3
  <2> HIDE DEF c
  <2>3. b.parts = c.parts /\ b.toolSigs = c.toolSigs /\ b.textSigs = c.textSigs
    BY <2>1, <2>2
  <2> QED BY <2>2, <2>3 DEF SigsOnParts
<1>7. CASE part.kind = "text" /\ part.body = <<>> /\ part.sig # NoSig
  <2>1. CASE a.text # <<>>
    <3>1. b = [a EXCEPT !.textSig = part.sig]
      BY <1>7, <2>1 DEF ProcessPart, ProcessSignature
    <3>2. b.parts = a.parts /\ b.toolSigs = a.toolSigs /\ b.textSigs = a.textSigs
      BY <1>1, <3>1
    <3> QED BY <3>2 DEF SigsOnParts
  <2>2. CASE a.text = <<>>
    <3> DEFINE target == SignatureTarget(a.parts)
               parts == [i \in DOMAIN a.parts |-> IF i \in target THEN [a.parts[i] EXCEPT !.sig = part.sig]
                                                ELSE a.parts[i]]
               sigs == [m \in DOMAIN a.textSigs \cup {a.parts[i].item : i \in target} |->
                          IF \E i \in target : a.parts[i].item = m THEN part.sig ELSE a.textSigs[m]]
    <3>1. b = [a EXCEPT !.parts = parts, !.textSigs = sigs]
      BY <1>7, <2>2 DEF ProcessPart, ProcessSignature
    <3>2. DOMAIN parts = DOMAIN a.parts /\ DOMAIN sigs = DOMAIN a.textSigs \cup {a.parts[i].item : i \in target}
      OBVIOUS
    <3>3. target \subseteq DOMAIN a.parts
      BY DEF SignatureTarget
    <3> HIDE DEF parts, sigs, target
    <3>4. b.parts = parts /\ b.toolSigs = a.toolSigs /\ b.textSigs = sigs
      BY <1>1, <3>1
    <3>5. ASSUME parts = <<>> PROVE DOMAIN a.toolSigs = {} /\ DOMAIN sigs = {}
      <4>1. DOMAIN a.parts = {}
        <5>1. DOMAIN <<>> = {}
          OBVIOUS
        <5> QED BY <3>2, <3>5, <5>1
      <4>2. a.parts = <<>>
        BY <1>2, <4>1, NoElements
      <4>3. {a.parts[i].item : i \in target} = {}
        BY <3>3, <4>1
      <4> QED BY <3>2, <4>2, <4>3 DEF SigsOnParts
    <3> QED BY <3>4, <3>5 DEF SigsOnParts
  <2> QED BY <2>1, <2>2
<1>8. CASE part.kind = "text" /\ part.body = <<>> /\ part.sig = NoSig
  <2>1. b = a
    BY <1>8 DEF ProcessPart
  <2> QED BY <2>1
<1>9. part.kind \in {"thought", "call", "text"}
  BY DEF AnyPart
<1> HIDE DEF b
<1> QED BY <1>4, <1>5, <1>6, <1>7, <1>8, <1>9

-----------------------------------------------------------------------------
(* While the response is in progress the client has what the accumulator   *)
(* holds of the parts taken so far; when it is done, what it was sent last *)
(* as a whole.                                                             *)
StreamedRight ==
  status = "in_progress" =>
    SigsOnParts(acc) /\ Streaming(FlushPendingText(acc), streamed, SubSeq(arrived, 1, Handled))

EndsAsStreamed == Done => AsFinal(streamed, final, arrived)

(* The record of the parts taken so far.                                   *)
LEMMA TakenBefore ==
  ASSUME Ending, status = "in_progress"
  PROVE  LET s == SubSeq(arrived, 1, Handled)
             f == FlushPendingText(acc)
         IN s \in Seq(AnyPart) /\ Recording(acc) /\ Ordered(f) /\ TextsRight(f.parts, s)
<1> DEFINE s == SubSeq(arrived, 1, Handled)
<1>1. /\ StreamInv /\ Numbered(arrived) /\ arrived \in Seq(AnyPart)
      /\ acc = Accumulated(s)
  BY ArrivedParts, InProgress DEF Ending
<1>2. Handled \in 0..Len(arrived)
  BY <1>1 DEF StreamInv, PartsInOrder, Handled
<1>3. s \in Seq(AnyPart) /\ \A k \in DOMAIN s : k \in DOMAIN arrived /\ s[k] = arrived[k]
  BY <1>1, <1>2
<1>4. Numbered(s)
  BY <1>1, <1>3 DEF Numbered
<1> HIDE DEF s
<1>5. RightAfter(s)
  BY <1>3, AlwaysRight
<1> QED BY <1>1, <1>3, <1>4, <1>5 DEF RightAfter, Right, s

(* At first nothing was sent.                                              *)
LEMMA StreamedFirst == Init => StreamedRight /\ EndsAsStreamed
<1> SUFFICES ASSUME Init PROVE StreamedRight /\ EndsAsStreamed
  OBVIOUS
<1>1. /\ arrived = <<>> /\ acc = NewAccumulator /\ streamed = <<>> /\ status = "in_progress"
  BY DEF Init, DecoderInit
<1>2. /\ FlushPendingText(acc) = acc /\ acc.order = <<>> /\ acc.parts = <<>>
      /\ acc.toolSigs = <<>> /\ acc.textSigs = <<>>
  BY <1>1, NothingTaken DEF NewAccumulator
<1>3. DOMAIN <<>> = {} /\ Len(<<>>) = 0
  OBVIOUS
<1>4. \A s : Streaming(acc, streamed, s)
  BY <1>1, <1>2, <1>3 DEF Streaming, SameIds
<1>5. SigsOnParts(acc)
  BY <1>2, <1>3 DEF SigsOnParts
<1> QED BY <1>1, <1>2, <1>4, <1>5 DEF StreamedRight, EndsAsStreamed, Done

(* A part is handled.                                                      *)
LEMMA StreamedNext ==
  ASSUME Ending, StreamedRight, HandlePart
  PROVE  StreamedRight'
<1>1. PICK part \in ToSet(pendingParts) :
        /\ NextPart(part)
        /\ CASE part.kind = "thought" -> OnThought(part)
             [] part.kind = "call" -> OnCall(part)
             [] part.kind = "text" /\ part.body # <<>> -> OnText(part)
             [] OTHER -> OnSignature(part)
  BY DEF HandlePart
<1> DEFINE n == Handled
           s == SubSeq(arrived, 1, Handled)
<1>2. /\ StreamInv /\ status = "in_progress" /\ status' = "in_progress" /\ PartsInOrder
      /\ Accumulator(acc, n) /\ Places(acc, msgIndex, reasoningIndex, callIndexes, streamed)
      /\ SigsOnParts(acc) /\ Streaming(FlushPendingText(acc), streamed, s)
  BY InProgress DEF HandlePart, Ending, StreamInv, StreamedRight
<1>3. part \in Parts /\ n \in 0..(MaxParts - 1) /\ SubSeq(arrived, 1, Handled)' = Append(s, part)
  BY <1>1, <1>2, NextInOrder
<1>4. part \in AnyPart /\ part.kind \in {"thought", "call", "text"} /\ part.body \in Seq(Nat)
  BY <1>3 DEF Parts, AnyPart
<1>5. /\ s \in Seq(AnyPart) /\ Recording(acc) /\ Ordered(FlushPendingText(acc))
      /\ TextsRight(FlushPendingText(acc).parts, s)
  BY <1>2, TakenBefore
<1> HIDE DEF n, s
<1>6. Following(n, s)
  BY <1>2, <1>3, <1>5 DEF Following
<1>7. acc' = ProcessPart(acc, part) /\ Streaming(FlushPendingText(acc'), streamed', Append(s, part))
  <2>1. CASE part.kind = "thought"
    <3>1. OnThought(part)
      BY <1>1, <2>1
    <3> QED BY <1>2, <1>3, <1>4, <1>6, <2>1, <3>1, ThoughtHandled, ThoughtStreamed
  <2>2. CASE part.kind = "call"
    <3>1. OnCall(part)
      BY <1>1, <2>2
    <3> QED BY <1>2, <1>3, <1>4, <1>6, <2>2, <3>1, CallHandled, CallStreamed
  <2>3. CASE part.kind = "text" /\ part.body # <<>>
    <3>1. OnText(part)
      BY <1>1, <2>3
    <3> QED BY <1>2, <1>3, <1>4, <1>6, <2>3, <3>1, TextHandled, PieceStreamed
  <2>4. CASE part.kind = "text" /\ part.body = <<>>
    <3>1. OnSignature(part)
      BY <1>1, <2>4
    <3> QED BY <1>2, <1>3, <1>4, <1>6, <2>4, <3>1, SignatureHandled, SignatureStreamed
  <2> QED BY <1>4, <2>1, <2>2, <2>3, <2>4
<1>8. SigsOnParts(acc')
  BY <1>2, <1>4, <1>5, <1>7, SigsStay
<1>9. /\ FlushPendingText(acc') = FlushPendingText(acc)'
      /\ Streaming(FlushPendingText(acc)', streamed', SubSeq(arrived, 1, Handled)')
  BY <1>3, <1>7
<1> QED BY <1>8, <1>9 DEF StreamedRight

(* What arrives later is not taken yet.                                    *)
LEMMA TakenSame ==
  ASSUME StreamInv, Upstream
  PROVE  SubSeq(arrived, 1, Handled)' = SubSeq(arrived, 1, Handled)
<1>1. PICK chunk : /\ arrived' = arrived \o chunk /\ pendingParts' = chunk /\ pendingParts = <<>>
  BY DEF Upstream, ReadChunk, Drained
<1>2. StreamInv' /\ StreamInv
  BY ChunkArrives
<1>3. /\ arrived \in Seq(Parts) /\ arrived' \in Seq(Parts) /\ chunk \in Seq(Parts)
  BY <1>1, <1>2 DEF StreamInv, PartsInOrder
<1>4. Handled = Len(arrived) /\ Handled' = Len(arrived)
  <2>1. Handled' = Len(arrived') - Len(pendingParts')
    BY DEF Handled
  <2> QED BY <1>1, <1>3, <2>1 DEF Handled
<1>5. SubSeq(arrived', 1, Len(arrived)) = SubSeq(arrived, 1, Len(arrived))
  BY <1>1, <1>3
<1> QED BY <1>4, <1>5

(* The end, with everything taken.                                         *)
LEMMA StreamedLast ==
  ASSUME Ending, StreamedRight, ThoughtsAreKept, Complete
  PROVE  AsFinal(streamed', final', arrived')
<1> DEFINE n == Handled
           f == FlushPendingText(acc)
           turn == Finish(f)
           u == MessageFlushed(acc, CallsDone(acc, streamed))
<1>1. /\ StreamInv /\ status = "in_progress" /\ pendingParts = <<>> /\ arrived' = arrived
      /\ final' = ToOutputItems(Finish(Flushed(acc)))
      /\ streamed' = EmptyMessage(Finish(Flushed(acc)), ReasoningDone(Finish(Flushed(acc)), u))
  BY DEF Complete, CleanEnd, Drained, decoderVars, Ending
<1>2. /\ n \in 0..MaxParts /\ Accumulator(acc, n)
      /\ Places(acc, msgIndex, reasoningIndex, callIndexes, streamed)
  BY <1>1, InProgress
<1>3. SubSeq(arrived, 1, Handled) = arrived
  <2>1. arrived \in Seq(Parts) /\ Len(pendingParts) = 0
    BY <1>1 DEF StreamInv, PartsInOrder
  <2>2. Handled = Len(arrived) /\ Len(arrived) \in Nat
    BY <2>1 DEF Handled
  <2> QED BY <2>1, <2>2
<1>4. Recording(acc) /\ Ordered(f) /\ SigsOnParts(acc) /\ Streaming(f, streamed, arrived)
  BY <1>1, <1>3, TakenBefore DEF StreamedRight
<1>5. reasoningIndex # 0 => acc.thought # <<>>
  BY DEF ThoughtsAreKept
<1> HIDE DEF n
<1>6. Flushed(acc) = f
  BY <1>2, FlushPlaces
<1>7. FlushPendingText(f) = f
  <2>1. Accumulator(f, n) /\ f.text = <<>>
    BY <1>2, FlushCommits
  <2> HIDE DEF f
  <2> QED BY <1>2, <2>1, FlushCommits
<1>8. CASE f.parts # <<>> \/ f.hasThought
  <2>1. AsFinal(EmptyMessage(f, ReasoningDone(f, u)), ToOutputItems(f), arrived)
    BY <1>2, <1>4, <1>5, <1>8, TurnAsFinal
  <2>2. turn = f
    <3> HIDE DEF f
    <3> QED BY <1>7, <1>8 DEF Finish
  <2> HIDE DEF f, u, turn
  <2> QED BY <1>1, <1>6, <2>1, <2>2 DEF turn
<1>9. CASE f.parts = <<>> /\ ~f.hasThought
  <2>1. AsFinal(EmptyMessage(turn, ReasoningDone(turn, u)), ToOutputItems(turn), arrived)
    BY <1>2, <1>4, <1>9, EmptyAsFinal DEF SigsOnParts
  <2> HIDE DEF f, u
  <2> QED BY <1>1, <1>6, <2>1
<1> QED BY <1>8, <1>9

(* Every step.                                                             *)
LEMMA StreamedStep ==
  ASSUME Ending, StreamedRight, EndsAsStreamed, ThoughtsAreKept, [Next]_vars
  PROVE  StreamedRight' /\ EndsAsStreamed'
<1>1. CASE HandlePart
  <2>1. ~Done'
    BY <1>1 DEF HandlePart, Done
  <2> QED BY <1>1, <2>1, StreamedNext DEF EndsAsStreamed
<1>2. CASE Complete
  <2>1. status' # "in_progress"
    BY <1>2 DEF Complete, ResponseStatus
  <2>2. AsFinal(streamed', final', arrived')
    BY <1>2, StreamedLast
  <2> QED BY <2>1, <2>2 DEF StreamedRight, EndsAsStreamed
<1>3. CASE Upstream
  <2>1. acc' = acc /\ streamed' = streamed /\ status' = status /\ status = "in_progress"
    BY <1>3 DEF Upstream, handlerVars, clientVars
  <2>2. SubSeq(arrived, 1, Handled)' = SubSeq(arrived, 1, Handled)
    BY <1>3, TakenSame DEF Ending
  <2> QED BY <2>1, <2>2 DEF StreamedRight, EndsAsStreamed, Done
<1>4. CASE HandleTerminal
  <2>1. /\ acc' = acc /\ streamed' = streamed /\ status' = status /\ status = "in_progress"
        /\ arrived' = arrived /\ pendingParts' = pendingParts
    BY <1>4 DEF HandleTerminal, NextTerminal, clientVars
  <2> QED BY <2>1 DEF StreamedRight, EndsAsStreamed, Done, Handled
<1>5. CASE Fail
  BY <1>5 DEF Fail, StreamedRight, EndsAsStreamed, Done
<1>6. CASE UNCHANGED vars
  BY <1>6 DEF vars, decoderVars, handlerVars, clientVars, StreamedRight, EndsAsStreamed, Done, Handled
<1> QED BY <1>1, <1>2, <1>3, <1>4, <1>5, <1>6 DEF Next

(* When no thought comes without words, the events and the final response  *)
(* agree: the same items at the same places, each finished once, its       *)
(* deltas adding up to its text, its signature the one it was finished     *)
(* with unless another came for it on its own                              *)
(* (ResponsesStream.StreamedIsFinal; README.md:27 of agy-bridge-go).       *)
THEOREM StreamEndsAsFinal ==
  ASSUME WordedThoughts
  PROVE  Spec => []StreamedIsFinal
<1>1. Init => ThoughtsAreKept /\ StreamedRight /\ EndsAsStreamed
  BY StreamedFirst DEF Init, DecoderInit, ThoughtsAreKept
<1>2. /\ Ending /\ ThoughtsAreKept /\ StreamedRight /\ EndsAsStreamed /\ [Next]_vars
      => (ThoughtsAreKept /\ StreamedRight /\ EndsAsStreamed)'
  BY StreamedStep, ThoughtsStep DEF Ending
<1>3. EndsAsStreamed => StreamedIsFinal
  BY PositionsAlike DEF EndsAsStreamed, AsFinal, ItemAsFinal, StreamedIsFinal
<1> QED BY <1>1, <1>2, <1>3, EndingHolds, PTL DEF Spec
=============================================================================
