----------------------- MODULE ResponsesReplayProofs -----------------------
(***************************************************************************)
(* Proofs about stored turns and their replay on /v1/responses, for any    *)
(* answers, deviations of the client, capacity of the cache and number of  *)
(* calls other conversations store.  First the turn an answer becomes,     *)
(* then the cache, what the client makes of the turn, the inductive        *)
(* invariant, and the properties.                                          *)
(***************************************************************************)
EXTENDS ResponsesReplay, TurnRecordProofs, FiniteSetTheorems

-----------------------------------------------------------------------------
(* The turn of an answer.                                                  *)

(* Upstream ids lead to the calls they name.                               *)
Bridged(bridge, calls) ==
  \A x \in calls : UpstreamID(x) # NoId => UpstreamID(x) \in DOMAIN bridge /\ bridge[UpstreamID(x)] = x

(* The accumulator after n parts.                                          *)
AccKnown(a, n) ==
  /\ DOMAIN a = DOMAIN NewAccumulator
  /\ TurnSound(a)
  /\ a.text \in Seq(Nat) /\ a.textSig \in Sigs \cup {NoSig}
  /\ a.text = <<>> => a.textSig = NoSig
  /\ a.textCount \in Nat /\ a.textCount <= Len(a.parts)
  /\ \A id \in DOMAIN a.bridge : a.bridge[id] \in CallsOf(a.parts)
  /\ Bridged(a.bridge, CallsOf(a.parts))
  /\ Len(a.parts) <= n /\ (a.text # <<>> => Len(a.parts) < n)

(* The fields of an accumulator.                                           *)
LEMMA AccFields ==
  DOMAIN NewAccumulator = {"parts", "order", "thought", "hasThought", "text", "textSig",
                           "textCount", "calls", "bridge", "toolSigs", "textSigs"}
BY DEF NewAccumulator

(* Names of different kinds never coincide.                                *)
LEMMA NameShapes ==
  /\ \A n, id : /\ ItemName(CallItem(n, id)) = <<"item", n, id>>
                /\ BothNames(CallItem(n, id)) = <<"both", n, id>>
                /\ UpstreamID(CallItem(n, id)) = id
  /\ TurnCall \subseteq Names /\ Foreigners \subseteq Names /\ TurnText \subseteq Names
  /\ \A x \in TurnCall : ItemName(x) \in Names /\ BothNames(x) \in Names
  /\ TurnCall \cap Foreigners = {} /\ TurnCall \cap TurnText = {}
  /\ \A x \in TurnCall : x[1] = "fc" /\ ItemName(x)[1] = "item" /\ BothNames(x)[1] = "both"
  /\ \A x, y \in TurnCall : ItemName(x) = ItemName(y) => x = y
<1>1. \A n, id : /\ ItemName(CallItem(n, id)) = <<"item", n, id>>
                 /\ BothNames(CallItem(n, id)) = <<"both", n, id>>
                 /\ UpstreamID(CallItem(n, id)) = id
  BY DEF ItemName, BothNames, CallItem, UpstreamID
<1>2. TurnCall \subseteq Names /\ Foreigners \subseteq Names /\ TurnText \subseteq Names
  BY CacheAssumption DEF TurnCall, TurnText, Foreigners, Names, CallItem, OtherCall
<1>3. TurnCall \cap Foreigners = {} /\ TurnCall \cap TurnText = {}
  BY DEF TurnCall, Foreigners, TurnText, CallItem, OtherCall, Message
<1>4. ASSUME NEW x \in TurnCall
      PROVE  /\ ItemName(x) \in Names /\ BothNames(x) \in Names
             /\ x[1] = "fc" /\ ItemName(x)[1] = "item" /\ BothNames(x)[1] = "both"
  <2>1. PICK n \in 0..MaxIndex, id \in UpstreamIds \cup {NoId} : x = CallItem(n, id)
    BY DEF TurnCall
  <2> QED BY <1>1, <2>1 DEF Names, CallItem
<1>5. ASSUME NEW x \in TurnCall, NEW y \in TurnCall, ItemName(x) = ItemName(y) PROVE x = y
  <2>1. PICK n \in 0..MaxIndex, id \in UpstreamIds \cup {NoId} : x = CallItem(n, id)
    BY DEF TurnCall
  <2>2. PICK m \in 0..MaxIndex, up \in UpstreamIds \cup {NoId} : y = CallItem(m, up)
    BY DEF TurnCall
  <2>3. <<"item", n, id>> = <<"item", m, up>>
    BY <1>1, <1>5, <2>1, <2>2
  <2> QED BY <2>1, <2>2, <2>3
<1> QED BY <1>1, <1>2, <1>3, <1>4, <1>5

(* The elements of a sequence with one more.                               *)
LEMMA ElementsAppend ==
  ASSUME NEW S, NEW s \in Seq(S), NEW x \in S
  PROVE  ToSet(Append(s, x)) = ToSet(s) \cup {x}
<1> DEFINE r == Append(s, x)
<1>1. PICK n \in Nat : n = Len(s)
  OBVIOUS
<1>2. DOMAIN r = 1..(n + 1) /\ DOMAIN s = 1..n /\ r[n + 1] = x /\ \A i \in 1..n : r[i] = s[i]
  BY <1>1
<1> HIDE DEF r
<1>3. ToSet(r) = ToSet(s) \cup {x}
  BY <1>2 DEF ToSet
<1> QED BY <1>3 DEF r

(* One part more.                                                          *)
LEMMA PartAppended ==
  ASSUME NEW parts, PartsSound(parts), NEW p \in KnownPart,
         IF p.kind = "call" THEN p.item = CallItem(Len(parts), p.id) /\ p.body \in Contents \cup {<<>>}
                            ELSE p.item \in TurnText
  PROVE  /\ PartsSound(Append(parts, p))
         /\ Len(Append(parts, p)) = Len(parts) + 1 /\ Len(parts) \in Nat
         /\ CallsOf(Append(parts, p)) = CallsOf(parts) \cup (IF p.kind = "call" THEN {p.item} ELSE {})
<1> DEFINE more == Append(parts, p)
<1>1. PICK n \in Nat : n = Len(parts)
  BY DEF PartsSound
<1>2. /\ more \in Seq(KnownPart) /\ Len(more) = n + 1 /\ DOMAIN more = 1..(n + 1) /\ DOMAIN parts = 1..n
      /\ more[n + 1] = p /\ \A i \in 1..n : more[i] = parts[i]
  BY <1>1 DEF PartsSound
<1> HIDE DEF more
<1>3. PartsSound(more)
  <2> SUFFICES ASSUME NEW i \in 1..(n + 1)
               PROVE  IF more[i].kind = "call"
                      THEN more[i].item = CallItem(i - 1, more[i].id) /\ more[i].body \in Contents \cup {<<>>}
                      ELSE more[i].item \in TurnText
    BY <1>2 DEF PartsSound
  <2>1. CASE i = n + 1
    <3>1. i - 1 = Len(parts)
      BY <1>1, <2>1
    <3> QED BY <1>2, <2>1, <3>1
  <2>2. CASE i # n + 1
    <3>1. i \in 1..n
      BY <2>2
    <3> QED BY <1>2, <3>1 DEF PartsSound
  <2> QED BY <2>1, <2>2
<1>4. ToSet(more) = ToSet(parts) \cup {p}
  BY <1>2 DEF ToSet
<1> QED BY <1>1, <1>2, <1>3, <1>4 DEF CallsOf, more

(* Parts updated in place.                                                 *)
LEMMA PartsUpdated ==
  ASSUME NEW parts, PartsSound(parts), NEW more, more = [i \in DOMAIN parts |-> more[i]],
         \A i \in DOMAIN parts :
           /\ more[i] \in KnownPart
           /\ more[i].kind = parts[i].kind /\ more[i].item = parts[i].item /\ more[i].id = parts[i].id
           /\ more[i].kind = "call" => more[i].body \in Contents \cup {<<>>}
  PROVE  PartsSound(more) /\ Len(more) = Len(parts) /\ CallsOf(more) = CallsOf(parts)
<1>1. PICK n \in Nat : n = Len(parts) /\ DOMAIN parts = 1..n
  BY DEF PartsSound
<1>2. more \in [1..n -> KnownPart]
  BY <1>1
<1>3. more \in Seq(KnownPart) /\ Len(more) = n /\ DOMAIN more = 1..n
  <2>1. [i \in 1..n |-> more[i]] \in Seq(KnownPart)
    BY <1>2, IsASeq
  <2>2. more = [i \in 1..n |-> more[i]]
    BY <1>1
  <2> QED BY <2>1, <2>2
<1>4. PartsSound(more)
  BY <1>1, <1>3 DEF PartsSound
<1>5. CallsOf(more) = CallsOf(parts)
  <2>1. \A x : x \in CallsOf(more) <=> \E i \in 1..n : more[i].kind = "call" /\ x = more[i].item
    BY <1>3 DEF CallsOf, ToSet
  <2>2. \A x : x \in CallsOf(parts) <=> \E i \in 1..n : parts[i].kind = "call" /\ x = parts[i].item
    BY <1>1 DEF CallsOf, ToSet
  <2>3. \A i \in 1..n : more[i].kind = parts[i].kind /\ more[i].item = parts[i].item
    BY <1>1
  <2>4. \A x : x \in CallsOf(more) <=> x \in CallsOf(parts)
    <3> TAKE x
    <3>1. (\E i \in 1..n : more[i].kind = "call" /\ x = more[i].item)
            <=> (\E i \in 1..n : parts[i].kind = "call" /\ x = parts[i].item)
      BY <2>3
    <3> QED BY <2>1, <2>2, <3>1
  <2> QED BY <2>4
<1> QED BY <1>1, <1>3, <1>4, <1>5

(* FlushPendingText commits the text under way.                            *)
LEMMA FlushKnown ==
  ASSUME NEW a, NEW n \in 0..(MaxIndex + 1), AccKnown(a, n)
  PROVE  AccKnown(FlushPendingText(a), n) /\ FlushPendingText(a).text = <<>>
<1>1. CASE a.text = <<>>
  BY <1>1 DEF FlushPendingText, HasPendingText, AccKnown
<1>2. CASE a.text # <<>>
  <2> DEFINE item == CurrentTextID(a)
             made == TurnPart("text", item, NoId, a.text, a.textSig)
             f == [a EXCEPT !.parts = Append(@, made),
                            !.textSigs = Noted(@, item, a.textSig),
                            !.text = <<>>, !.textSig = NoSig, !.textCount = @ + 1]
  <2>1. FlushPendingText(a) = f
    BY <1>2 DEF FlushPendingText, HasPendingText
  <2>2. item \in TurnText
    <3>1. /\ a.textCount \in Nat /\ a.textCount <= Len(a.parts) /\ Len(a.parts) < n /\ Len(a.parts) \in Nat
      BY <1>2 DEF AccKnown, TurnSound, PartsSound
    <3>2. a.textCount \in 0..MaxIndex
      BY <3>1, CacheAssumption
    <3> QED BY <3>2 DEF TurnText, CurrentTextID
  <2>3. made \in KnownPart /\ made.kind = "text" /\ made.item \in TurnText
    BY <2>2 DEF TurnPart, KnownPart, AccKnown
  <2> HIDE DEF made, item
  <2>4. /\ DOMAIN f = DOMAIN a
        /\ f.parts = Append(a.parts, made) /\ f.text = <<>> /\ f.textSig = NoSig
        /\ f.textCount = a.textCount + 1
        /\ f.order = a.order /\ f.calls = a.calls /\ f.bridge = a.bridge
    BY AccFields DEF AccKnown
  <2> HIDE DEF f
  <2>5. /\ PartsSound(f.parts) /\ Len(f.parts) = Len(a.parts) + 1 /\ Len(a.parts) \in Nat
        /\ CallsOf(f.parts) = CallsOf(a.parts)
    <3>1. PartsSound(a.parts)
      BY DEF AccKnown, TurnSound
    <3> QED BY <2>3, <2>4, <3>1, PartAppended
  <2>6. TurnSound(f)
    BY <2>4, <2>5 DEF AccKnown, TurnSound
  <2>7. f.textCount \in Nat /\ f.textCount <= Len(f.parts) /\ Len(f.parts) <= n
    BY <1>2, <2>4, <2>5 DEF AccKnown
  <2>8. AccKnown(f, n)
    BY <2>4, <2>5, <2>6, <2>7 DEF AccKnown
  <2> QED BY <2>1, <2>4, <2>8
<1> QED BY <1>1, <1>2

OrderItems == TurnCall \cup TurnText \cup {Reasoning}

(* Recording an item leaves the order one of items of the turn.            *)
LEMMA OrderKnown ==
  ASSUME NEW order \in Seq(OrderItems), NEW item \in OrderItems
  PROVE  Recorded(order, item) \in Seq(OrderItems)
BY DEF Recorded

(* A thought.                                                              *)
LEMMA ThoughtKnown ==
  ASSUME NEW c, NEW n \in 0..MaxIndex, AccKnown(c, n), NEW part \in AnswerPart, part.kind = "thought"
  PROVE  AccKnown(ProcessPart(c, part), n + 1)
<1> DEFINE a == FlushPendingText(c)
           b == [a EXCEPT !.hasThought = TRUE, !.order = Recorded(@, Reasoning),
                          !.thought = @ \o part.body]
<1>1. ProcessPart(c, part) = b
  BY DEF ProcessPart, ProcessThought
<1>2. AccKnown(a, n)
  BY FlushKnown, CacheAssumption
<1> HIDE DEF a
<1>3. /\ DOMAIN b = DOMAIN a
      /\ b.order = Recorded(a.order, Reasoning)
      /\ b.parts = a.parts /\ b.text = a.text /\ b.textSig = a.textSig
      /\ b.textCount = a.textCount /\ b.bridge = a.bridge /\ b.calls = a.calls
  BY <1>2, AccFields DEF AccKnown
<1> HIDE DEF b
<1>4. TurnSound(b)
  BY <1>2, <1>3, OrderKnown DEF AccKnown, TurnSound, OrderItems
<1>5. Len(a.parts) \in Nat
  BY <1>2 DEF AccKnown, TurnSound, PartsSound
<1>6. AccKnown(b, n + 1)
  BY <1>2, <1>3, <1>4, <1>5 DEF AccKnown
<1> QED BY <1>1, <1>6

(* A call: a new one goes by the number of parts before it.                *)
LEMMA CallPartKnown ==
  ASSUME NEW c, NEW n \in 0..MaxIndex, AccKnown(c, n), NEW part \in AnswerPart, part.kind = "call",
         part.body \in Contents \cup {<<>>}
  PROVE  AccKnown(ProcessPart(c, part), n + 1)
<1> DEFINE a == FlushPendingText(c)
           item == CallOf(a, part)
           known == Contains(a.calls, item)
           made == TurnPart("call", item, part.id, part.body, part.sig)
           more == IF known
                   THEN [i \in DOMAIN a.parts |->
                           IF a.parts[i].item = item THEN Updated(a.parts[i], part) ELSE a.parts[i]]
                   ELSE Append(a.parts, made)
           calls == IF known THEN a.calls ELSE Append(a.calls, item)
           b == [a EXCEPT !.bridge = Bound(@, part, item),
                          !.toolSigs = Noted(@, item, part.sig),
                          !.parts = more,
                          !.order = Recorded(@, item),
                          !.calls = calls]
<1>1. ProcessPart(c, part) = b
  BY DEF ProcessPart, ProcessCall
<1>2. AccKnown(a, n) /\ a.text = <<>>
  BY FlushKnown, CacheAssumption
<1> HIDE DEF a
<1>3. /\ PartsSound(a.parts) /\ Len(a.parts) \in Nat /\ Len(a.parts) <= n
      /\ a.calls \in Seq(TurnCall) /\ ToSet(a.calls) = CallsOf(a.parts)
      /\ a.order \in Seq(OrderItems)
      /\ CallsOf(a.parts) \subseteq TurnCall
  <2>1. PartsSound(a.parts) /\ Len(a.parts) <= n /\ a.calls \in Seq(TurnCall) /\ ToSet(a.calls) = CallsOf(a.parts)
        /\ a.order \in Seq(OrderItems)
    BY <1>2 DEF AccKnown, TurnSound, OrderItems
  <2>2. ToSet(a.calls) \subseteq TurnCall
    BY <2>1 DEF ToSet
  <2> QED BY <2>1, <2>2 DEF PartsSound
<1>4. known <=> item \in CallsOf(a.parts)
  BY <1>3 DEF Contains, ToSet
<1>5. item \in TurnCall
  <2>1. CASE part.id \in DOMAIN a.bridge
    BY <1>2, <1>3, <2>1 DEF AccKnown, CallOf
  <2>2. CASE part.id \notin DOMAIN a.bridge
    <3>1. Len(a.parts) \in 0..MaxIndex
      BY <1>3, CacheAssumption
    <3> QED BY <2>2, <3>1 DEF CallOf, TurnCall, AnswerPart
  <2> QED BY <2>1, <2>2
<1>6. ~known => item = CallItem(Len(a.parts), part.id)
  BY <1>2, <1>4 DEF AccKnown, CallOf
<1>7. made \in KnownPart /\ made.kind = "call" /\ made.item = item /\ made.id = part.id /\ made.body = part.body
  BY <1>5 DEF TurnPart, KnownPart, AnswerPart
<1> HIDE DEF item, known, made
<1>8. /\ PartsSound(more) /\ Len(more) \in Nat /\ Len(more) <= n + 1 /\ Len(a.parts) <= Len(more)
      /\ CallsOf(more) = CallsOf(a.parts) \cup {item}
  <2>1. CASE known
    <3>1. more = [i \in DOMAIN a.parts |-> more[i]]
      BY <2>1
    <3>2. \A i \in DOMAIN a.parts :
            /\ more[i] \in KnownPart
            /\ more[i].kind = a.parts[i].kind /\ more[i].item = a.parts[i].item /\ more[i].id = a.parts[i].id
            /\ more[i].kind = "call" => more[i].body \in Contents \cup {<<>>}
      <4> TAKE i \in DOMAIN a.parts
      <4> DEFINE p == a.parts[i]
                 q == Updated(p, part)
      <4>1. p \in KnownPart /\ (p.kind = "call" => p.body \in Contents \cup {<<>>})
        BY <1>3 DEF PartsSound
      <4>2. more[i] = IF p.item = item THEN q ELSE p
        BY <2>1
      <4>3. q \in KnownPart /\ q.kind = p.kind /\ q.item = p.item /\ q.id = p.id
            /\ q.body \in {p.body, part.body}
        BY <4>1 DEF Updated, KnownPart, AnswerPart
      <4> HIDE DEF p, q, more
      <4>4. CASE p.item = item
        BY <4>1, <4>2, <4>3, <4>4 DEF p
      <4>5. CASE p.item # item
        BY <4>1, <4>2, <4>5 DEF p
      <4> QED BY <4>4, <4>5
    <3> HIDE DEF more
    <3>3. PartsSound(more) /\ Len(more) = Len(a.parts) /\ CallsOf(more) = CallsOf(a.parts)
      BY <1>3, <3>1, <3>2, PartsUpdated
    <3> QED BY <1>3, <1>4, <2>1, <3>3
  <2>2. CASE ~known
    <3>1. more = Append(a.parts, made)
      BY <2>2
    <3> HIDE DEF more
    <3>2. /\ PartsSound(Append(a.parts, made)) /\ Len(Append(a.parts, made)) = Len(a.parts) + 1
          /\ CallsOf(Append(a.parts, made)) = CallsOf(a.parts) \cup {made.item}
      BY <1>3, <1>6, <1>7, <2>2, PartAppended
    <3> QED BY <1>3, <1>7, <3>1, <3>2
  <2> QED BY <2>1, <2>2
<1> HIDE DEF more
<1>9. calls \in Seq(TurnCall) /\ ToSet(calls) = CallsOf(more)
  <2>1. CASE known
    BY <1>3, <1>4, <1>8, <2>1
  <2>2. CASE ~known
    <3>1. calls = Append(a.calls, item)
      BY <2>2
    <3>2. ToSet(Append(a.calls, item)) = ToSet(a.calls) \cup {item}
      BY <1>3, <1>5, ElementsAppend
    <3> QED BY <1>3, <1>5, <1>8, <3>1, <3>2
  <2> QED BY <2>1, <2>2
<1> HIDE DEF calls
<1>10. \A id \in DOMAIN Bound(a.bridge, part, item) : Bound(a.bridge, part, item)[id] \in CallsOf(more)
  BY <1>2, <1>8 DEF AccKnown, Bound, Assigned
<1>11. Recorded(a.order, item) \in Seq(OrderItems)
  BY <1>3, <1>5, OrderKnown DEF OrderItems
<1>16. Bridged(Bound(a.bridge, part, item), CallsOf(more))
  <2>1. Bridged(a.bridge, CallsOf(a.parts)) /\ \A id \in DOMAIN a.bridge : a.bridge[id] \in CallsOf(a.parts)
    BY <1>2 DEF AccKnown
  <2>2. item \notin CallsOf(a.parts) => UpstreamID(item) = part.id /\ part.id \notin DOMAIN a.bridge
    <3> HAVE item \notin CallsOf(a.parts)
    <3>1. item = CallItem(Len(a.parts), part.id)
      BY <1>4, <1>6
    <3>2. part.id \notin DOMAIN a.bridge
      BY <2>1 DEF item, CallOf
    <3> QED BY <3>1, <3>2, NameShapes
  <2> QED BY <1>8, <2>1, <2>2 DEF Bridged, Bound, Assigned
<1>12. /\ DOMAIN b = DOMAIN a
       /\ b.parts = more /\ b.order = Recorded(a.order, item) /\ b.calls = calls
       /\ b.bridge = Bound(a.bridge, part, item)
       /\ b.text = a.text /\ b.textSig = a.textSig /\ b.textCount = a.textCount
  BY <1>2, AccFields DEF AccKnown
<1> HIDE DEF b
<1>13. TurnSound(b)
  BY <1>8, <1>9, <1>11, <1>12 DEF TurnSound, OrderItems
<1>14. b.textCount \in Nat /\ b.textCount <= Len(b.parts) /\ Len(b.parts) <= n + 1
  BY <1>2, <1>3, <1>8, <1>12 DEF AccKnown
<1>15. AccKnown(b, n + 1)
  BY <1>2, <1>10, <1>12, <1>13, <1>14, <1>16 DEF AccKnown
<1> QED BY <1>1, <1>15

(* A signature on its own.                                                 *)
LEMMA SignatureKnown ==
  ASSUME NEW a, NEW n \in 0..MaxIndex, AccKnown(a, n),
         NEW part \in AnswerPart, part.kind = "text", part.body = <<>>
  PROVE  AccKnown(ProcessPart(a, part), n + 1)
<1>0. Len(a.parts) \in Nat /\ PartsSound(a.parts)
  BY DEF AccKnown, TurnSound, PartsSound
<1>1. CASE part.sig = NoSig
  <2>1. ProcessPart(a, part) = a
    BY <1>1 DEF ProcessPart
  <2> QED BY <1>0, <2>1 DEF AccKnown
<1>2. CASE part.sig # NoSig /\ a.text # <<>>
  <2> DEFINE b == [a EXCEPT !.textSig = part.sig]
  <2>1. ProcessPart(a, part) = b
    BY <1>2 DEF ProcessPart, ProcessSignature
  <2>2. /\ DOMAIN b = DOMAIN a /\ b.textSig = part.sig
        /\ b.parts = a.parts /\ b.order = a.order /\ b.bridge = a.bridge /\ b.calls = a.calls
        /\ b.text = a.text /\ b.textCount = a.textCount
    BY AccFields DEF AccKnown
  <2> HIDE DEF b
  <2>3. TurnSound(b)
    BY <2>2 DEF AccKnown, TurnSound
  <2>4. AccKnown(b, n + 1)
    BY <1>0, <1>2, <2>2, <2>3 DEF AccKnown, AnswerPart
  <2> QED BY <2>1, <2>4
<1>3. CASE part.sig # NoSig /\ a.text = <<>>
  <2> DEFINE target == SignatureTarget(a.parts)
             more == [i \in DOMAIN a.parts |->
                        IF i \in target THEN [a.parts[i] EXCEPT !.sig = part.sig] ELSE a.parts[i]]
             sigs == [m \in DOMAIN a.textSigs \cup {a.parts[i].item : i \in target} |->
                        IF \E i \in target : a.parts[i].item = m THEN part.sig ELSE a.textSigs[m]]
             b == [a EXCEPT !.parts = more, !.textSigs = sigs]
  <2>1. ProcessPart(a, part) = b
    BY <1>3 DEF ProcessPart, ProcessSignature
  <2> HIDE DEF target, sigs
  <2>2. \A i \in DOMAIN a.parts :
            /\ more[i] \in KnownPart
            /\ more[i].kind = a.parts[i].kind /\ more[i].item = a.parts[i].item /\ more[i].id = a.parts[i].id
            /\ more[i].kind = "call" => more[i].body \in Contents \cup {<<>>}
    <3> TAKE i \in DOMAIN a.parts
    <3> DEFINE p == a.parts[i]
    <3>1. p \in KnownPart /\ (p.kind = "call" => p.body \in Contents \cup {<<>>})
      BY <1>0 DEF PartsSound
    <3>2. more[i] = IF i \in target THEN [p EXCEPT !.sig = part.sig] ELSE p
      OBVIOUS
    <3> HIDE DEF p, more
    <3>3. /\ more[i] \in KnownPart /\ more[i].kind = p.kind /\ more[i].item = p.item /\ more[i].id = p.id
          /\ more[i].body = p.body
      BY <3>1, <3>2 DEF KnownPart, AnswerPart
    <3> QED BY <3>1, <3>3 DEF p
  <2>3. more = [i \in DOMAIN a.parts |-> more[i]]
    OBVIOUS
  <2> HIDE DEF more
  <2>4. PartsSound(more) /\ Len(more) = Len(a.parts) /\ CallsOf(more) = CallsOf(a.parts)
    BY <1>0, <2>2, <2>3, PartsUpdated
  <2>5. /\ DOMAIN b = DOMAIN a /\ b.parts = more
        /\ b.order = a.order /\ b.bridge = a.bridge /\ b.calls = a.calls
        /\ b.text = a.text /\ b.textSig = a.textSig /\ b.textCount = a.textCount
    BY AccFields DEF AccKnown
  <2> HIDE DEF b
  <2>6. TurnSound(b)
    BY <2>4, <2>5 DEF AccKnown, TurnSound
  <2>7. AccKnown(b, n + 1)
    BY <1>0, <2>4, <2>5, <2>6 DEF AccKnown
  <2> QED BY <2>1, <2>7
<1> QED BY <1>1, <1>2, <1>3

(* A piece of text.                                                        *)
LEMMA TextKnown ==
  ASSUME NEW c, NEW n \in 0..MaxIndex, AccKnown(c, n),
         NEW part \in AnswerPart, part.kind = "text", part.body # <<>>
  PROVE  AccKnown(ProcessPart(c, part), n + 1)
<1> DEFINE a == IF c.text # <<>> /\ c.textSig # part.sig THEN FlushPendingText(c) ELSE c
           b == [a EXCEPT !.order = Recorded(@, CurrentTextID(a)),
                          !.text = @ \o part.body,
                          !.textSig = IF part.sig = NoSig THEN @ ELSE part.sig]
<1>1. ProcessPart(c, part) = b
  BY DEF ProcessPart, ProcessText
<1>2. AccKnown(a, n)
  BY FlushKnown, CacheAssumption
<1> HIDE DEF a
<1>3. Len(a.parts) \in Nat /\ a.textCount \in Nat /\ a.textCount <= Len(a.parts) /\ Len(a.parts) <= n
  BY <1>2 DEF AccKnown, TurnSound, PartsSound
<1>4. CurrentTextID(a) \in OrderItems
  <2>1. a.textCount \in 0..MaxIndex
    BY <1>3, CacheAssumption
  <2> QED BY <2>1 DEF OrderItems, TurnText, CurrentTextID
<1>5. /\ DOMAIN b = DOMAIN a /\ b.order = Recorded(a.order, CurrentTextID(a))
      /\ b.text = a.text \o part.body
      /\ b.textSig = IF part.sig = NoSig THEN a.textSig ELSE part.sig
      /\ b.parts = a.parts /\ b.bridge = a.bridge /\ b.calls = a.calls /\ b.textCount = a.textCount
  BY <1>2, AccFields DEF AccKnown
<1> HIDE DEF b
<1>6. b.text \in Seq(Nat) /\ b.text # <<>>
  <2>1. a.text \in Seq(Nat) /\ part.body \in Seq(Nat)
    BY <1>2 DEF AccKnown, AnswerPart
  <2>2. Len(part.body) # 0
    BY <2>1
  <2>3. /\ b.text \in Seq(Nat) /\ Len(b.text) = Len(a.text) + Len(part.body)
        /\ Len(a.text) \in Nat /\ Len(part.body) \in Nat
    BY <1>5, <2>1, ConcatProperties
  <2>4. \A x, y \in Nat : y # 0 => x + y # 0
    OBVIOUS
  <2>5. Len(b.text) # 0
    BY <2>2, <2>3, <2>4
  <2>6. b.text \in Seq(Nat)
    BY <2>3
  <2> QED BY <2>5, <2>6
<1>7. TurnSound(b)
  <2>1. b.order \in Seq(OrderItems)
    BY <1>2, <1>4, <1>5, OrderKnown DEF AccKnown, TurnSound, OrderItems
  <2> QED BY <1>2, <1>5, <2>1 DEF AccKnown, TurnSound, OrderItems
<1>8. b.textSig \in Sigs \cup {NoSig}
  BY <1>2, <1>5 DEF AccKnown, AnswerPart
<1>9. AccKnown(b, n + 1)
  BY <1>2, <1>3, <1>5, <1>6, <1>7, <1>8 DEF AccKnown
<1> QED BY <1>1, <1>9

(* Any part of an answer.                                                  *)
LEMMA PartStep ==
  ASSUME NEW a, NEW n \in 0..MaxIndex, AccKnown(a, n), NEW part \in AnswerPart,
         part.kind = "call" => part.body \in Contents \cup {<<>>}
  PROVE  AccKnown(ProcessPart(a, part), n + 1)
<1>1. part.kind \in {"text", "thought", "call"}
  BY DEF AnswerPart
<1> QED BY <1>1, ThoughtKnown, CallPartKnown, SignatureKnown, TextKnown

(* Before the first part.                                                  *)
LEMMA NothingKnown == AccKnown(NewAccumulator, 0)
<1> DEFINE a == NewAccumulator
<1>1. /\ a.parts = <<>> /\ a.order = <<>> /\ a.text = <<>> /\ a.textSig = NoSig /\ a.textCount = 0
      /\ a.calls = <<>> /\ a.bridge = <<>>
  BY DEF NewAccumulator
<1> HIDE DEF a
<1>2. DOMAIN <<>> = {} /\ ToSet(<<>>) = {} /\ Len(<<>>) = 0 /\ \A S : <<>> \in Seq(S)
  BY DEF ToSet
<1>3. CallsOf(a.parts) = {}
  BY <1>1, <1>2 DEF CallsOf
<1>4. TurnSound(a)
  BY <1>1, <1>2, <1>3 DEF TurnSound, PartsSound
<1>5. AccKnown(a, 0)
  BY <1>1, <1>2, <1>3, <1>4 DEF AccKnown, Bridged, a
<1> QED BY <1>5 DEF a

(* All parts of an answer, from the least number of them that would fail.  *)
LEMMA AccumulatedKnown ==
  ASSUME NEW parts, IsAnswer(parts)
  PROVE  AccKnown(Accumulated(parts), Len(parts)) /\ Len(parts) \in 0..(MaxIndex + 1)
<1> DEFINE T == {n \in Nat : \E r : IsAnswer(r) /\ Len(r) = n /\ ~AccKnown(Accumulated(r), n)}
<1>1. T = {}
  <2> SUFFICES ASSUME T # {} PROVE FALSE
    OBVIOUS
  <2>1. PICK m \in T : \A n \in T : m <= n
    BY LeastElement
  <2>2. PICK r : IsAnswer(r) /\ Len(r) = m /\ ~AccKnown(Accumulated(r), m)
    BY <2>1
  <2>3. m \in Nat /\ m <= MaxIndex + 1
    BY <2>1, <2>2 DEF IsAnswer
  <2>4. m # 0
    <3> SUFFICES ASSUME m = 0 PROVE FALSE
      OBVIOUS
    <3>1. r = <<>>
      BY <2>2, EmptySeq DEF IsAnswer
    <3> QED BY <2>2, <3>1, AccumulatedNone, NothingKnown
  <2> DEFINE q == [i \in 1..(m - 1) |-> r[i]]
  <2>5. /\ q \in Seq(AnswerPart) /\ Len(q) = m - 1 /\ m - 1 \in Nat /\ m - 1 <= MaxIndex
        /\ r = Append(q, r[m]) /\ r[m] \in AnswerPart
        /\ \A i \in 1..(m - 1) : q[i] = r[i]
        /\ DOMAIN q = 1..(m - 1) /\ DOMAIN r = 1..m
    BY <2>2, <2>3, <2>4, CacheAssumption DEF IsAnswer
  <2> HIDE DEF q
  <2>6. IsAnswer(q)
    BY <2>2, <2>3, <2>5, CacheAssumption DEF IsAnswer
  <2>7. AccKnown(Accumulated(q), m - 1)
    <3>1. m - 1 \notin T
      <4>1. ~ (m <= m - 1)
        BY <2>3
      <4> HIDE DEF T
      <4> QED BY <2>1, <4>1
    <3> QED BY <2>5, <2>6, <3>1
  <2>8. Accumulated(r) = ProcessPart(Accumulated(q), r[m])
    BY <2>5, AccumulatedAppend
  <2>9. m \in 1..m
    BY <2>3, <2>4
  <2>10. r[m].kind = "call" => r[m].body \in Contents \cup {<<>>}
    BY <2>2, <2>5, <2>9 DEF IsAnswer
  <2>11. AccKnown(ProcessPart(Accumulated(q), r[m]), (m - 1) + 1)
    <3>1. m - 1 \in 0..MaxIndex
      BY <2>5, CacheAssumption
    <3> QED BY <2>5, <2>7, <2>10, <3>1, PartStep
  <2>12. (m - 1) + 1 = m
    BY <2>3
  <2> QED BY <2>2, <2>8, <2>11, <2>12
<1>2. Len(parts) \in 0..(MaxIndex + 1)
  BY CacheAssumption DEF IsAnswer
<1> QED BY <1>1, <1>2

(* The turn of an answer is sound, and no two calls of it have an upstream *)
(* id in common.                                                           *)
LEMMA TurnIsSound ==
  ASSUME NEW parts, IsAnswer(parts)
  PROVE  /\ TurnSound(BuildAuthoritativeTurn(parts))
         /\ Bridged(BuildAuthoritativeTurn(parts).bridge, CallsOf(BuildAuthoritativeTurn(parts).parts))
<1> DEFINE c == Accumulated(parts)
           n == Len(parts)
           a == FlushPendingText(c)
<1>1. BuildAuthoritativeTurn(parts) = Finish(c)
  BY DEF BuildAuthoritativeTurn, Accumulated
<1>2. AccKnown(c, n) /\ n \in 0..(MaxIndex + 1)
  BY AccumulatedKnown
<1> HIDE DEF c, n
<1>3. AccKnown(a, n)
  BY <1>2, FlushKnown
<1>4. Finish(c) = IF a.parts = <<>> /\ ~a.hasThought
                  THEN [a EXCEPT !.parts = <<TurnPart("text", Message(0), NoId, <<>>, NoSig)>>,
                                 !.order = Recorded(@, Message(0))]
                  ELSE a
  BY DEF Finish
<1> HIDE DEF a
<1>5. CASE a.parts = <<>> /\ ~a.hasThought
  <2> DEFINE p == TurnPart("text", Message(0), NoId, <<>>, NoSig)
             b == [a EXCEPT !.parts = <<p>>, !.order = Recorded(@, Message(0))]
  <2>1. Message(0) \in TurnText /\ Message(0) \in OrderItems
    BY CacheAssumption DEF TurnText, OrderItems
  <2>2. p \in KnownPart /\ p.kind = "text" /\ p.item \in TurnText
    BY <2>1 DEF KnownPart, TurnPart
  <2> HIDE DEF p
  <2>3. /\ b.parts = <<p>> /\ b.order = Recorded(a.order, Message(0)) /\ b.calls = a.calls
        /\ b.bridge = a.bridge
    BY <1>3, AccFields DEF AccKnown
  <2> HIDE DEF b
  <2>4. <<p>> = Append(a.parts, p)
    BY <1>5
  <2>5. PartsSound(b.parts) /\ CallsOf(b.parts) = CallsOf(a.parts)
    <3>1. PartsSound(a.parts) /\ a.parts \in Seq(KnownPart)
      BY <1>3 DEF AccKnown, TurnSound, PartsSound
    <3>2. IF p.kind = "call" THEN p.item = CallItem(Len(a.parts), p.id) /\ p.body \in Contents \cup {<<>>}
                             ELSE p.item \in TurnText
      BY <2>2
    <3>3. /\ PartsSound(Append(a.parts, p))
          /\ CallsOf(Append(a.parts, p)) = CallsOf(a.parts) \cup (IF p.kind = "call" THEN {p.item} ELSE {})
      BY <2>2, <3>1, <3>2, PartAppended
    <3>4. p.kind # "call"
      BY <2>2
    <3> QED BY <2>3, <2>4, <3>3, <3>4
  <2>6. b.order \in Seq(OrderItems)
    BY <1>3, <2>1, <2>3, OrderKnown DEF AccKnown, TurnSound, OrderItems
  <2>7. TurnSound(b) /\ Bridged(b.bridge, CallsOf(b.parts))
    BY <1>3, <2>3, <2>5, <2>6 DEF AccKnown, TurnSound, OrderItems
  <2> QED BY <1>1, <1>4, <1>5, <2>7 DEF b, p
<1>6. CASE ~(a.parts = <<>> /\ ~a.hasThought)
  BY <1>1, <1>3, <1>4, <1>6 DEF AccKnown
<1> QED BY <1>5, <1>6

-----------------------------------------------------------------------------
(* The cache.                                                              *)

(* A table that lists no more than it has keeps its type when a value is   *)
(* stored; what stays, stays as it is.                                     *)
LEMMA StoreProperties ==
  ASSUME NEW K, NEW V, NEW t, Cache!IsTable(t, K, V), ToSet(t.order) \subseteq DOMAIN t.val,
         NEW k \in K, NEW v \in V
  PROVE  /\ Cache!IsTable(Cache!Store(t, k, v), K, V)
         /\ ToSet(Cache!Store(t, k, v).order) \subseteq DOMAIN Cache!Store(t, k, v).val
         /\ k \in DOMAIN Cache!Store(t, k, v).val /\ Cache!Store(t, k, v).val[k] = v
         /\ DOMAIN Cache!Store(t, k, v).val \subseteq DOMAIN t.val \cup {k}
         /\ \A j \in DOMAIN Cache!Store(t, k, v).val \ {k} : Cache!Store(t, k, v).val[j] = t.val[j]
<1> DEFINE s == Cache!Store(t, k, v)
<1>1. CASE k \in DOMAIN t.val
  <2>1. s = [t EXCEPT !.val[k] = v]
    BY <1>1 DEF Cache!Store
  <2>2. s.order = t.order /\ s.val = [t.val EXCEPT ![k] = v] /\ s = [val |-> s.val, order |-> s.order]
    BY <2>1 DEF Cache!IsTable
  <2> HIDE DEF s
  <2>3. Cache!IsTable(s, K, V)
    BY <2>2 DEF Cache!IsTable
  <2> QED BY <1>1, <2>2, <2>3 DEF Cache!IsTable, s
<1>2. CASE k \notin DOMAIN t.val
  <2> DEFINE room == Cache!Room(t.order)
             o == Append(room, k)
  <2>1. room \in Seq(K) /\ ToSet(room) \subseteq ToSet(t.order)
    <3>1. CASE Len(t.order) >= MaxSize
      <4>1. Len(t.order) > 0 /\ room = Tail(t.order)
        BY <1>2, <3>1, CacheAssumption DEF Cache!Room, Cache!IsTable
      <4> QED BY <4>1 DEF ToSet, Cache!IsTable
    <3>2. CASE ~ Len(t.order) >= MaxSize
      BY <3>2 DEF Cache!Room, ToSet, Cache!IsTable
    <3> QED BY <3>1, <3>2
  <2>2. s = [val |-> [j \in Cache!Range(o) |-> IF j = k THEN v ELSE t.val[j]], order |-> o]
    BY <1>2 DEF Cache!Store
  <2> HIDE DEF room
  <2>3. o \in Seq(K) /\ Cache!Range(o) = ToSet(room) \cup {k} /\ ToSet(o) = Cache!Range(o)
    <3>1. /\ o \in Seq(K) /\ DOMAIN o = 1..(Len(room) + 1) /\ DOMAIN room = 1..Len(room)
          /\ \A i \in 1..Len(room) : o[i] = room[i]
          /\ o[Len(room) + 1] = k /\ Len(room) \in Nat
      BY <2>1
    <3> HIDE DEF o
    <3> QED BY <3>1 DEF ToSet, Cache!Range
  <2> HIDE DEF o, s
  <2>4. s.order = o /\ DOMAIN s.val = ToSet(room) \cup {k} /\ s = [val |-> s.val, order |-> s.order]
        /\ s.val = [j \in ToSet(room) \cup {k} |-> IF j = k THEN v ELSE t.val[j]]
    BY <2>2, <2>3
  <2>5. ToSet(room) \subseteq DOMAIN t.val
    BY <2>1
  <2>6. s.val \in [DOMAIN s.val -> V] /\ DOMAIN s.val \subseteq K
    BY <2>4, <2>5 DEF Cache!IsTable
  <2>7. Cache!IsTable(s, K, V)
    BY <2>3, <2>4, <2>6 DEF Cache!IsTable
  <2> QED BY <2>3, <2>4, <2>5, <2>7 DEF s
<1> QED BY <1>1, <1>2

(* A saved table comes back in any order.                                  *)
LEMMA ShuffledKeeps ==
  ASSUME NEW K, NEW V, NEW t, Cache!IsTable(t, K, V), ToSet(t.order) \subseteq DOMAIN t.val,
         NEW s \in Cache!Shuffled(t)
  PROVE  Cache!IsTable(s, K, V) /\ s.val = t.val /\ ToSet(s.order) \subseteq DOMAIN s.val
<1>1. PICK o \in Cache!Listings(DOMAIN t.val, Len(t.order)) : s = [t EXCEPT !.order = o]
  BY DEF Cache!Shuffled
<1>2. o \in [1..Len(t.order) -> DOMAIN t.val]
  BY <1>1 DEF Cache!Listings, Cache!Bijection, Cache!Injection, Cache!Surjection, Cache!IsInjective
<1>3. s = [val |-> t.val, order |-> o]
  BY <1>1 DEF Cache!IsTable
<1>4. Len(t.order) \in Nat /\ DOMAIN t.val \subseteq K
  BY DEF Cache!IsTable
<1>5. o \in Seq(K) /\ ToSet(o) \subseteq DOMAIN t.val
  BY <1>2, <1>4, SeqDef DEF ToSet
<1> QED BY <1>3, <1>5 DEF Cache!IsTable

(* A put of a call under its names.                                        *)
LEMMA PutCall ==
  ASSUME CacheKnown, UNCHANGED turn, others' \in 0..MaxOthers,
         NEW id \in CallsOf(turn.parts) \cup Foreigners, id \in Names,
         NEW names, names \subseteq Names, names \subseteq AliasesOf(id),
         NEW body \in Contents \cup {<<>>}, NEW sig \in Sigs \cup {NoSig},
         ApplyTool(ToolPut(id, body, sig, names))
  PROVE  /\ CacheKnown'
         /\ Cache!Live' \subseteq Cache!Live \cup {id}
         /\ \A x \in Cache!Live' \ {id} : records'.val[x] = records.val[x]
         /\ (id \in Cache!Live => records.val[id] = [call |-> body, sig |-> sig, legacy |-> FALSE]) =>
              (id \in Cache!Live' => records'.val[id] = [call |-> body, sig |-> sig, legacy |-> FALSE])
         /\ UNCHANGED <<contexts, msgs, since>>
<1> DEFINE new == [call |-> body, sig |-> sig, legacy |-> FALSE]
<1>1. new.sig # Marker /\ new.sig = sig /\ new.call = body /\ new \in Cache!Record
  BY SignaturesAssumption DEF Cache!Record
<1>2. /\ Cache!Accepted(id, new) => Cache!PutToolRecord(id, new, names)
      /\ ~ Cache!Accepted(id, new) => UNCHANGED tables
  BY DEF ApplyTool, ToolPut
<1>4. CASE ~ Cache!Accepted(id, new)
  <2>1. UNCHANGED <<records, aliases, ambiguous, contexts, msgs, claims, ignored, since>>
    BY <1>2, <1>4 DEF tables, histories
  <2> HIDE DEF new
  <2>2. CacheKnown'
    BY <2>1 DEF CacheKnown, Cache!Live
  <2> QED BY <2>1, <2>2 DEF Cache!Live, new
<1>5. CASE Cache!Accepted(id, new)
  <2>1. Cache!PutToolRecord(id, new, names)
    BY <1>2, <1>5
  <2> DEFINE merged == Cache!Merged(id, new)
             stored == Cache!Store(records, id, merged)
             gone == Cache!Live \ DOMAIN stored.val
             claimed == {a \in names : a \in DOMAIN stored.val => a = id}
             contested == {a \in claimed \ {id} : Cache!Contested(id, a, gone)}
             gained == ((claimed \ contested) \ ambiguous) \cup {id}
  <2>2. /\ merged \in Cache!Record
        /\ (id \in Cache!Live => records.val[id] = new) => merged = new
    BY <1>1 DEF Cache!Merged, CacheKnown, Cache!IsTable, Cache!Record, Cache!Live
  <2>3. /\ records' = stored
        /\ aliases' = [a \in (Cache!Outliving(gone) \ contested) \cup gained |->
                         IF a \in gained THEN id ELSE aliases[a]]
        /\ ambiguous' = ambiguous \cup contested
        /\ claims' = [a \in Names |-> (claims[a] \ gone) \cup (IF a \in names \cup {id} THEN {id} ELSE {})]
        /\ ignored' = [a \in Names |->
             IF a \in claimed \cup {id} THEN (ignored[a] \ gone) \ {id}
             ELSE (ignored[a] \ gone) \cup (IF a \in names THEN {id} \ claims[a] ELSE {})]
        /\ UNCHANGED <<contexts, msgs, since>>
    BY <2>1 DEF Cache!PutToolRecord
  <2> HIDE DEF merged, new
  <2>4. /\ Cache!IsTable(records', Names, Cache!Record) /\ ToSet(records'.order) \subseteq DOMAIN records'.val
        /\ id \in DOMAIN records'.val /\ records'.val[id] = merged
        /\ DOMAIN records'.val \subseteq DOMAIN records.val \cup {id}
        /\ \A x \in DOMAIN records'.val \ {id} : records'.val[x] = records.val[x]
    BY <2>2, <2>3, StoreProperties DEF CacheKnown, Cache!Live
  <2>5. gone = Cache!Live \ Cache!Live' /\ DOMAIN stored.val = Cache!Live'
    BY <2>3 DEF Cache!Live
  <2>6. /\ contested \subseteq names \ {id} /\ contested \cap Cache!Live' = {}
        /\ gained \subseteq names \cup {id} /\ id \in gained /\ gained \cap Cache!Live' = {id}
        /\ claimed \subseteq names
    BY <2>4, <2>5 DEF Cache!Live
  <2> HIDE DEF gone, contested, gained, stored, claimed
  <2>7. /\ DOMAIN aliases' = (Cache!Outliving(gone) \ contested) \cup gained
        /\ \A a \in DOMAIN aliases' : aliases'[a] = IF a \in gained THEN id ELSE aliases[a]
        /\ \A a \in DOMAIN aliases' \ gained : a \in DOMAIN aliases /\ aliases[a] \in Cache!Live'
    <3>1. DOMAIN aliases' = (Cache!Outliving(gone) \ contested) \cup gained
      BY <2>3
    <3>2. \A a \in DOMAIN aliases' : aliases'[a] = IF a \in gained THEN id ELSE aliases[a]
      BY <2>3
    <3>3. \A a \in DOMAIN aliases : aliases[a] \in Cache!Live
      BY DEF CacheKnown
    <3>4. \A a \in Cache!Outliving(gone) : a \in DOMAIN aliases /\ aliases[a] \in Cache!Live'
      BY <2>5, <3>3 DEF Cache!Outliving
    <3> QED BY <3>1, <3>2, <3>4
  <2>8. aliases' \in [DOMAIN aliases' -> Cache!Live']
    <3>1. \A a \in DOMAIN aliases' : aliases'[a] \in Cache!Live'
      BY <2>4, <2>7 DEF Cache!Live
    <3>2. aliases' = [a \in DOMAIN aliases' |-> aliases'[a]]
      BY <2>3
    <3> QED BY <3>1, <3>2
  <2>9. \A x \in Cache!Live' : x \in DOMAIN aliases' /\ aliases'[x] = x
    <3> TAKE x \in Cache!Live'
    <3>1. CASE x = id
      BY <2>6, <2>7, <3>1
    <3>2. CASE x # id
      <4>1. x \in Cache!Live /\ x \in DOMAIN aliases /\ aliases[x] = x
        BY <2>4, <3>2 DEF CacheKnown, Cache!Live
      <4>2. x \in Cache!Outliving(gone) /\ x \notin contested /\ x \notin gained
        BY <2>5, <2>6, <3>2, <4>1 DEF Cache!Outliving
      <4> QED BY <2>7, <4>1, <4>2
    <3> QED BY <3>1, <3>2
  <2>10. \A a \in DOMAIN aliases' : a \in AliasesOf(aliases'[a])
    <3> TAKE a \in DOMAIN aliases'
    <3>1. CASE a \in gained
      <4>1. a \in names \cup {id} /\ aliases'[a] = id
        BY <2>6, <2>7, <3>1
      <4> QED BY <4>1 DEF AliasesOf
    <3>2. CASE a \notin gained
      BY <2>7, <3>2 DEF CacheKnown
    <3> QED BY <3>1, <3>2
  <2>11. ambiguous' \subseteq Names \cup Contexts
    BY <2>3, <2>6 DEF CacheKnown
  <2>12. claims' \in [Names -> SUBSET Names] /\ ignored' \in [Names -> SUBSET Names]
    BY <2>3 DEF CacheKnown
  <2>13. CallsOf(turn.parts)' = CallsOf(turn.parts)
    OBVIOUS
  <2>14. CacheKnown'
    BY <2>3, <2>4, <2>8, <2>9, <2>10, <2>11, <2>12, <2>13 DEF CacheKnown, Cache!Live
  <2> QED BY <2>2, <2>3, <2>4, <2>14 DEF Cache!Live, new
<1> QED BY <1>4, <1>5

(* What other conversations do to the calls of a turn: some may go.        *)
LEMMA OtherPutShrinks ==
  ASSUME CacheKnown, TurnKnown, OtherPut, UNCHANGED turn
  PROVE  /\ CacheKnown'
         /\ \A x \in Cache!Live' \ Foreigners : x \in Cache!Live /\ records'.val[x] = records.val[x]
         /\ UNCHANGED <<contexts, msgs, since, siblings, disk>>
<1> DEFINE id == OtherCall(others + 1)
           sig == CHOOSE x \in Sigs : TRUE
<1>1. id \in Foreigners /\ id \in Names
  BY NameShapes, CacheAssumption DEF OtherPut, CacheKnown, Foreigners
<1>2. <<0>> \in Contents \cup {<<>>} /\ sig \in Sigs \cup {NoSig}
  BY CacheAssumption, SignaturesAssumption DEF Contents
<1>3. ApplyTool(ToolPut(id, <<0>>, sig, {})) /\ UNCHANGED <<siblings, disk>> /\ others' \in 0..MaxOthers
  BY CacheAssumption DEF OtherPut, CacheKnown
<1> HIDE DEF id, sig
<1>4. /\ CacheKnown'
      /\ Cache!Live' \subseteq Cache!Live \cup {id}
      /\ \A x \in Cache!Live' \ {id} : records'.val[x] = records.val[x]
      /\ UNCHANGED <<contexts, msgs, since>>
  BY <1>1, <1>2, <1>3, PutCall
<1> QED BY <1>1, <1>3, <1>4

(* What a save wrote is of this turn and of others, as the cache was.      *)
FileRecordsKnown(f) ==
  LET live == DOMAIN f.records.val
  IN /\ Cache!IsTable(f.records, Names, Cache!Record) /\ ToSet(f.records.order) \subseteq live
     /\ live \subseteq CallsOf(turn.parts) \cup Foreigners
     /\ f.aliases \in [DOMAIN f.aliases -> live]
     /\ \A x \in live : x \in DOMAIN f.aliases /\ f.aliases[x] = x
     /\ \A a \in DOMAIN f.aliases : a \in AliasesOf(f.aliases[a])
     /\ \A p \in TurnCalls : p.item \in live => f.records.val[p.item] = RecordOf(p)

FileTextsKnown(f) ==
  /\ Cache!IsTable(f.msgs, Names, Sigs) /\ ToSet(f.msgs.order) \subseteq DOMAIN f.msgs.val
  /\ Cache!IsTable(f.contexts, Contexts, Sigs \cup {NoSig})
  /\ ToSet(f.contexts.order) \subseteq DOMAIN f.contexts.val
  /\ \A c \in DOMAIN f.contexts.val :
       f.contexts.val[c] # NoSig => \E p \in TextsOf(c) : p.sig = f.contexts.val[c]

FileHistoriesKnown(f) ==
  /\ f.ambiguous \subseteq Names \cup Contexts
  /\ f.claims \in [Names -> SUBSET Names] /\ f.ignored \in [Names -> SUBSET Names]
  /\ f.since \in [Contexts -> SUBSET Sigs]

FileSiblingsKnown(f) ==
  \A n \in DOMAIN f.siblings :
    Len(turn.calls) > 1 /\ n = Head(turn.calls) /\ f.siblings[n] \subseteq ToSet(Tail(turn.calls))

FileSound(f) ==
  FileRecordsKnown(f) /\ FileTextsKnown(f) /\ FileHistoriesKnown(f) /\ FileSiblingsKnown(f)

FileKnown ==
  /\ FileSound(file)
  /\ phase = "idle" =>
       DOMAIN file.records.val = {} /\ DOMAIN file.contexts.val = {} /\ DOMAIN file.siblings = {}

(* What a save writes now is sound.                                        *)
LEMMA MemorySound ==
  ASSUME CacheKnown, RecordsKnown, ContextsKnown, SiblingsKnown, NEW f, f = Memory
  PROVE  /\ FileSound(f)
         /\ DOMAIN f.records.val = Cache!Live /\ f.contexts = contexts /\ f.siblings = siblings
<1>1. /\ f.records = records /\ f.aliases = aliases /\ f.ambiguous = ambiguous
      /\ f.contexts = contexts /\ f.msgs = msgs /\ f.siblings = siblings
      /\ f.claims = claims /\ f.ignored = ignored /\ f.since = since
  BY DEF Memory
<1>2. FileRecordsKnown(f)
  BY <1>1 DEF FileRecordsKnown, CacheKnown, RecordsKnown, Cache!Live
<1>3. FileTextsKnown(f) /\ FileHistoriesKnown(f)
  BY <1>1 DEF FileTextsKnown, FileHistoriesKnown, CacheKnown, ContextsKnown
<1>4. FileSiblingsKnown(f)
  BY <1>1 DEF FileSiblingsKnown, SiblingsKnown
<1> QED BY <1>1, <1>2, <1>3, <1>4 DEF FileSound, Cache!Live

LEMMA FileSame ==
  ASSUME NEW f, FileSound(f), UNCHANGED turn, file' = f
  PROVE  FileSound(file)'
<1>1. CallsOf(turn.parts)' = CallsOf(turn.parts) /\ TurnCalls' = TurnCalls /\ \A c : TextsOf(c)' = TextsOf(c)
  BY DEF TurnCalls, TextsOf
<1>2. FileRecordsKnown(file)'
  BY <1>1 DEF FileSound, FileRecordsKnown
<1>3. FileTextsKnown(file)' /\ FileHistoriesKnown(file)' /\ FileSiblingsKnown(file)'
  BY <1>1 DEF FileSound, FileTextsKnown, FileHistoriesKnown, FileSiblingsKnown
<1> QED BY <1>2, <1>3 DEF FileSound

(* After a restart the cache has what the file has.                        *)
LEMMA RestartLoads ==
  ASSUME CacheKnown, FileKnown, RestartSaved, UNCHANGED turn
  PROVE  /\ CacheKnown' /\ RecordsKnown' /\ ContextsKnown' /\ SiblingsKnown'
         /\ Cache!Live' = DOMAIN file.records.val
<1>1. /\ records' \in Cache!Shuffled(file.records) /\ contexts' \in Cache!Shuffled(file.contexts)
      /\ msgs' \in Cache!Shuffled(file.msgs)
      /\ aliases' = file.aliases /\ ambiguous' = file.ambiguous /\ siblings' = file.siblings
      /\ claims' = file.claims /\ ignored' = file.ignored /\ since' = file.since
      /\ UNCHANGED <<others, file>>
  BY DEF RestartSaved
<1>2. CallsOf(turn.parts)' = CallsOf(turn.parts) /\ TurnCalls' = TurnCalls /\ \A c : TextsOf(c)' = TextsOf(c)
  BY DEF TurnCalls, TextsOf
<1>3. FileRecordsKnown(file) /\ FileTextsKnown(file) /\ FileHistoriesKnown(file) /\ FileSiblingsKnown(file)
  BY DEF FileKnown, FileSound
<1>4. /\ Cache!IsTable(records', Names, Cache!Record) /\ records'.val = file.records.val
      /\ ToSet(records'.order) \subseteq DOMAIN records'.val
  BY <1>1, <1>3, ShuffledKeeps DEF FileRecordsKnown
<1>5. /\ Cache!IsTable(msgs', Names, Sigs) /\ ToSet(msgs'.order) \subseteq DOMAIN msgs'.val
  BY <1>1, <1>3, ShuffledKeeps DEF FileTextsKnown
<1>6. /\ Cache!IsTable(contexts', Contexts, Sigs \cup {NoSig}) /\ contexts'.val = file.contexts.val
      /\ ToSet(contexts'.order) \subseteq DOMAIN contexts'.val
  BY <1>1, <1>3, ShuffledKeeps DEF FileTextsKnown
<1>7. Cache!Live' = DOMAIN file.records.val
  BY <1>4 DEF Cache!Live
<1>8. CacheKnown'
  BY <1>1, <1>2, <1>3, <1>4, <1>5, <1>7 DEF CacheKnown, FileRecordsKnown, FileHistoriesKnown
<1>9. RecordsKnown'
  BY <1>2, <1>3, <1>4, <1>7 DEF RecordsKnown, FileRecordsKnown
<1>10. ContextsKnown'
  BY <1>2, <1>3, <1>6 DEF ContextsKnown, FileTextsKnown
<1>11. SiblingsKnown'
  BY <1>1, <1>3 DEF SiblingsKnown, FileSiblingsKnown
<1> QED BY <1>7, <1>8, <1>9, <1>10, <1>11

(* The calls of a turn have names of their own.                            *)
LEMMA TurnCallsKnown ==
  ASSUME TurnSound(turn)
  PROVE  /\ turn.parts \in Seq(KnownPart) /\ ToSet(turn.parts) \subseteq KnownPart
         /\ CallsOf(turn.parts) \subseteq TurnCall /\ CallsOf(turn.parts) = ToSet(turn.calls)
         /\ CallsOf(turn.parts) = {p.item : p \in TurnCalls}
         /\ \A p \in TurnCalls :
              /\ p \in KnownPart /\ p.item \in TurnCall /\ p.item[3] = p.id
              /\ p.body \in Contents \cup {<<>>}
         /\ \A p, q \in TurnCalls : p.item = q.item => p = q
         /\ \A p \in ToSet(turn.parts) : p.kind = "text" => p.item \in TurnText
<1>1. turn.parts \in Seq(KnownPart) /\ ToSet(turn.parts) \subseteq KnownPart
  BY DEF TurnSound, PartsSound, ToSet
<1>2. ToSet(turn.calls) \subseteq TurnCall /\ CallsOf(turn.parts) = ToSet(turn.calls)
  BY DEF TurnSound, ToSet
<1>3. CallsOf(turn.parts) = {p.item : p \in TurnCalls}
  BY DEF CallsOf, TurnCalls
<1>4. ASSUME NEW p \in TurnCalls
      PROVE  \E i \in DOMAIN turn.parts :
               /\ p = turn.parts[i] /\ p.item = CallItem(i - 1, p.id) /\ p.body \in Contents \cup {<<>>}
  BY DEF TurnCalls, ToSet, TurnSound, PartsSound
<1>5. ASSUME NEW p \in TurnCalls, NEW q \in TurnCalls, p.item = q.item PROVE p = q
  <2>1. PICK i \in DOMAIN turn.parts : p = turn.parts[i] /\ p.item = CallItem(i - 1, p.id)
    BY <1>4
  <2>2. PICK j \in DOMAIN turn.parts : q = turn.parts[j] /\ q.item = CallItem(j - 1, q.id)
    BY <1>4
  <2>3. i - 1 = j - 1 /\ i \in Nat /\ j \in Nat
    BY <1>1, <1>5, <2>1, <2>2 DEF CallItem
  <2>4. i = j
    BY <2>3
  <2> QED BY <2>1, <2>2, <2>4
<1>6. \A p \in TurnCalls : /\ p \in KnownPart /\ p.item \in TurnCall /\ p.item[3] = p.id
                           /\ p.body \in Contents \cup {<<>>}
  <2> TAKE p \in TurnCalls
  <2>1. p \in KnownPart /\ p.item \in TurnCall
    BY <1>1, <1>2, <1>3 DEF TurnCalls
  <2> QED BY <1>4, <2>1 DEF CallItem
<1>7. \A p \in ToSet(turn.parts) : p.kind = "text" => p.item \in TurnText
  BY DEF ToSet, TurnSound, PartsSound
<1> QED BY <1>1, <1>2, <1>3, <1>5, <1>6, <1>7

(* What the names of calls lead to.                                        *)
LEMMA FoundKnown ==
  ASSUME CacheKnown, TurnKnown
  PROVE  /\ \A a : Cache!Found(a) \subseteq Cache!Live
         /\ Cache!Live \subseteq TurnCall \cup Foreigners
         /\ \A x \in TurnCall : Cache!Found(x) = {x} \cap Cache!Live /\ Canonical(x) = x
         /\ \A x \in TurnCall : /\ Cache!Found(ItemName(x)) \subseteq {x} \cap Cache!Live
                                /\ Canonical(ItemName(x)) \in {x, ItemName(x)}
         /\ Cache!Found(NoName) = {} /\ Cache!Found(Injected) = {} /\ Canonical(Injected) = Injected
<1>1. Cache!Live \subseteq TurnCall \cup Foreigners
  BY TurnCallsKnown DEF CacheKnown, TurnKnown
<1>2. \A a \in DOMAIN aliases : aliases[a] \in Cache!Live /\ a \in AliasesOf(aliases[a])
  BY DEF CacheKnown
<1>3. \A a : Cache!Found(a) \subseteq Cache!Live
  BY DEF Cache!Found
<1>4. ASSUME NEW x \in TurnCall, x \in DOMAIN aliases PROVE aliases[x] = x
  <2>1. aliases[x] \in TurnCall \cup Foreigners /\ x \in AliasesOf(aliases[x])
    BY <1>1, <1>2, <1>4
  <2>2. \A y \in TurnCall : x # ItemName(y) /\ x # BothNames(y)
    BY NameShapes
  <2> QED BY <2>1, <2>2 DEF AliasesOf
<1>5. ASSUME NEW x \in TurnCall, ItemName(x) \in DOMAIN aliases PROVE aliases[ItemName(x)] = x
  <2> DEFINE y == aliases[ItemName(x)]
  <2>1. y \in TurnCall \cup Foreigners /\ ItemName(x) \in AliasesOf(y)
    BY <1>1, <1>2, <1>5
  <2>2. ItemName(x)[1] = "item" /\ \A z \in TurnCall : z[1] = "fc" /\ BothNames(z)[1] = "both"
    BY NameShapes
  <2>3. \A z \in Foreigners : z[1] = "other"
    BY DEF Foreigners, OtherCall
  <2> HIDE DEF y
  <2>4. y \in TurnCall /\ ItemName(x) = ItemName(y)
    BY <2>1, <2>2, <2>3 DEF AliasesOf
  <2>5. x = y
    BY <2>4, NameShapes
  <2> QED BY <2>5 DEF y
<1>6. \A x \in TurnCall : Cache!Found(x) = {x} \cap Cache!Live /\ Canonical(x) = x
  BY <1>4 DEF Cache!Found, Canonical
<1>7. \A x \in TurnCall : ItemName(x) \notin Cache!Live
  <2>1. \A z \in Foreigners : z[1] = "other"
    BY DEF Foreigners, OtherCall
  <2> QED BY <1>1, <2>1, NameShapes
<1>8. \A x \in TurnCall : /\ Cache!Found(ItemName(x)) \subseteq {x} \cap Cache!Live
                          /\ Canonical(ItemName(x)) \in {x, ItemName(x)}
  BY <1>5, <1>7 DEF Cache!Found, Canonical
<1>9. ASSUME NEW n \in {NoName, Injected}
      PROVE  n \notin Cache!Live /\ n \notin DOMAIN aliases
  <2>1. n[1] \in {"none", "injected"}
    BY DEF NoName, Injected
  <2>2. \A z \in Foreigners : z[1] = "other"
    BY DEF Foreigners, OtherCall
  <2>3. \A z \in TurnCall : z[1] = "fc" /\ ItemName(z)[1] = "item" /\ BothNames(z)[1] = "both"
    BY NameShapes
  <2>4. n \notin Cache!Live
    BY <1>1, <2>1, <2>2, <2>3
  <2>5. \A z \in TurnCall \cup Foreigners : n \notin AliasesOf(z)
    BY <2>1, <2>2, <2>3 DEF AliasesOf
  <2> QED BY <1>1, <1>2, <2>4, <2>5
<1>10. Cache!Found(NoName) = {} /\ Cache!Found(Injected) = {} /\ Canonical(Injected) = Injected
  BY <1>9 DEF Cache!Found, Canonical
<1> QED BY <1>1, <1>3, <1>6, <1>8, <1>10

-----------------------------------------------------------------------------
(* The inductive invariant, up to the request.                             *)

LEMMA InitInv == Init => ReplayInv /\ FileKnown
<1> SUFFICES ASSUME Init PROVE ReplayInv /\ FileKnown
  OBVIOUS
<1> DEFINE e == Cache!EmptyTable
<1>1. e.val = <<>> /\ e.order = <<>> /\ e = [val |-> e.val, order |-> e.order]
  BY DEF Cache!EmptyTable
<1> HIDE DEF e
<1>2. DOMAIN <<>> = {} /\ ToSet(<<>>) = {} /\ Len(<<>>) = 0 /\ \A S : <<>> \in [{} -> S] /\ <<>> \in Seq(S)
  BY DEF ToSet
<1>3. \A K, V : Cache!IsTable(e, K, V)
  BY <1>1, <1>2 DEF Cache!IsTable
<1>4. /\ records = e /\ aliases = <<>> /\ contexts = e /\ msgs = e /\ siblings = <<>> /\ others = 0
      /\ ambiguous = {} /\ claims = [a \in Names |-> {}] /\ ignored = [a \in Names |-> {}]
      /\ since = [c \in Contexts |-> {}] /\ file = Memory
  BY DEF Init, CacheInit, Cache!LoadNothing, e
<1>5. /\ phase = "idle" /\ turn = NewAccumulator /\ todo = <<>> /\ deviations = {} /\ input = <<>>
      /\ leads = <<>> /\ callees = <<>> /\ sent = <<>>
  BY DEF Init
<1>6. Cache!Live = {} /\ DOMAIN contexts.val = {} /\ DOMAIN siblings = {}
  BY <1>1, <1>2, <1>4 DEF Cache!Live
<1>7. TurnKnown
  BY <1>5, NothingKnown DEF AccKnown, TurnKnown
<1>8. CacheKnown /\ ContextsKnown
  BY <1>1, <1>2, <1>3, <1>4, <1>6, CacheAssumption DEF CacheKnown, ContextsKnown
<1>9. RecordsKnown /\ SiblingsKnown
  BY <1>6 DEF RecordsKnown, SiblingsKnown
<1>10. PhaseKnown /\ ScanKnown
  BY <1>2, <1>5, <1>6 DEF PhaseKnown, ScanKnown
<1>11. InputKnown /\ SentKnown
  BY <1>2, <1>5 DEF InputKnown, CallItems, OutputItems, SentKnown
<1>12. FileKnown
  BY <1>4, <1>6, <1>8, <1>9, MemorySound DEF FileKnown
<1> QED BY <1>7, <1>8, <1>9, <1>10, <1>11, <1>12 DEF ReplayInv

(* What holds of turn and request goes on to hold when calls of the turn   *)
(* are evicted.                                                            *)
LEMMA ShrinkInv ==
  ASSUME ReplayInv, CacheKnown', ContextsKnown', UNCHANGED <<phase, turn, todo, requestVars>>, phase # "idle",
         \A x \in Cache!Live' \ Foreigners : x \in Cache!Live /\ records'.val[x] = records.val[x],
         UNCHANGED siblings
  PROVE  ReplayInv'
<1>1. UNCHANGED <<phase, turn, todo, deviations, input, leads, callees, sent>>
  BY DEF requestVars
<1>2. /\ TurnKnown' /\ TurnKnown /\ TurnCalls' = TurnCalls /\ CallItems' = CallItems /\ OutputItems' = OutputItems
      /\ \A i : Group(i)' = Group(i)
  BY <1>1 DEF ReplayInv, TurnKnown, TurnCalls, CallItems, OutputItems, Group, Grouped
<1>3. \A p \in TurnCalls : p.item \notin Foreigners
  BY <1>2, NameShapes, TurnCallsKnown DEF TurnKnown
<1>4. RecordsKnown'
  BY <1>2, <1>3 DEF ReplayInv, RecordsKnown
<1>5. SiblingsKnown'
  BY <1>1 DEF ReplayInv, SiblingsKnown
<1>6. PhaseKnown' /\ SentKnown'
  BY <1>1, <1>2 DEF ReplayInv, PhaseKnown, SentKnown
<1>7. InputKnown'
  BY <1>1, <1>2 DEF ReplayInv, InputKnown, CallKnown, MixedUp, TurnCalls
<1>8. \A p \in TurnCalls : Known(p)' => Known(p)
  BY <1>1, <1>3 DEF Known, HasReasoning
<1>9. ScanKnown'
  <2>1. CASE phase \in {"translating", "sent", "rejected"}
    <3>1. leads' = leads /\ callees' = callees /\ CallsOf(turn.parts)' = CallsOf(turn.parts) /\ MixedUp' = MixedUp
          /\ phase' = phase /\ \A i : OriginalOf(input[i])' = OriginalOf(input[i])
      BY <1>1, <1>2 DEF MixedUp, OriginalOf
    <3>2. ScanKnown
      BY DEF ReplayInv
    <3>3. ASSUME NEW i \in CallItems, NEW p \in OriginalOf(input[i]), ~MixedUp, Known(p)', p.sig # NoSig,
                 p.body = input[i].body
          PROVE  leads[i] # NoName
      BY <1>8, <2>1, <3>2, <3>3 DEF ScanKnown, OriginalOf
    <3> QED BY <1>1, <1>2, <2>1, <3>1, <3>2, <3>3 DEF ScanKnown
  <2>2. CASE phase \notin {"translating", "sent", "rejected"}
    BY <1>1, <2>2 DEF ScanKnown
  <2> QED BY <2>1, <2>2
<1> QED BY <1>2, <1>4, <1>5, <1>6, <1>7, <1>9 DEF ReplayInv

LEMMA OthersInv == ReplayInv /\ Others => ReplayInv'
<1> SUFFICES ASSUME ReplayInv, Others PROVE ReplayInv'
  OBVIOUS
<1>1. /\ UNCHANGED <<phase, turn, todo, requestVars>> /\ UNCHANGED turn /\ OtherPut
      /\ phase # "idle"
  BY DEF Others
<1>2. CacheKnown /\ TurnKnown /\ ContextsKnown
  BY DEF ReplayInv
<1>3. /\ CacheKnown'
      /\ \A x \in Cache!Live' \ Foreigners : x \in Cache!Live /\ records'.val[x] = records.val[x]
      /\ UNCHANGED <<contexts, msgs, siblings>>
  BY <1>1, <1>2, OtherPutShrinks
<1>4. ContextsKnown'
  BY <1>1, <1>2, <1>3 DEF ContextsKnown, TextsOf
<1> QED BY <1>1, <1>3, <1>4, ShrinkInv

(* The request has not come yet when the daemon is restarted.              *)
LEMMA RestartInv == ReplayInv /\ FileKnown /\ Restart => ReplayInv'
<1> SUFFICES ASSUME ReplayInv, FileKnown, Restart PROVE ReplayInv'
  OBVIOUS
<1>1. /\ UNCHANGED <<phase, turn, todo, deviations, input, leads, callees, sent>> /\ UNCHANGED turn
      /\ phase = "answered" /\ RestartSaved
  BY DEF Restart, requestVars
<1>2. CacheKnown' /\ RecordsKnown' /\ ContextsKnown' /\ SiblingsKnown'
  BY <1>1, RestartLoads DEF ReplayInv
<1>3. TurnKnown' /\ TurnCalls' = TurnCalls /\ CallItems' = CallItems /\ OutputItems' = OutputItems
  BY <1>1 DEF ReplayInv, TurnKnown, TurnCalls, CallItems, OutputItems
<1>4. PhaseKnown' /\ SentKnown'
  BY <1>1, <1>3 DEF ReplayInv, PhaseKnown, SentKnown
<1>5. InputKnown'
  BY <1>1, <1>3 DEF ReplayInv, InputKnown, CallKnown, MixedUp, TurnCalls
<1>6. ScanKnown'
  BY <1>1 DEF ScanKnown
<1> QED BY <1>2, <1>3, <1>4, <1>5, <1>6 DEF ReplayInv

(* A save changes nothing that is known of cache, turn and request.        *)
LEMMA SaveInv == ReplayInv /\ SaveStep => ReplayInv'
<1> SUFFICES ASSUME ReplayInv, SaveStep PROVE ReplayInv'
  OBVIOUS
<1>1. /\ UNCHANGED <<phase, turn, todo, requestVars>> /\ phase # "idle"
      /\ UNCHANGED <<records, aliases, ambiguous, contexts, msgs, claims, ignored, since, siblings, others>>
  BY DEF SaveStep, Save, tables, histories
<1>2. CacheKnown'
  BY <1>1 DEF ReplayInv, CacheKnown, Cache!Live
<1>3. ContextsKnown'
  BY <1>1 DEF ReplayInv, ContextsKnown, TextsOf
<1>4. Cache!Live' = Cache!Live /\ records' = records /\ siblings' = siblings
  BY <1>1 DEF Cache!Live
<1> QED BY <1>1, <1>2, <1>3, <1>4, ShrinkInv

(* What PopulateCache puts for a turn.                                     *)
LEMMA PutKinds ==
  ASSUME NEW t, NEW put
  PROVE  put \in TurnPuts(t) <=>
           \/ \E p \in ToSet(t.parts) :
                p.kind = "call" /\ put = ToolPut(p.item, p.body, p.sig, {ItemName(p.item), BothNames(p.item)})
           \/ \E n \in Names, sig \in Sigs : put = MessagePut(n, sig)
           \/ \E p \in ToSet(t.parts) :
                p.kind = "text" /\ p.sig # NoSig /\ put = ContextPut(<<Prefix, p.body>>, p.sig)
           \/ Len(t.calls) \notin {0, 1} /\ put = SiblingsPut(Head(t.calls), ToSet(Tail(t.calls)))
<1> DEFINE calls == {p \in ToSet(t.parts) : p.kind = "call"}
           texts == {p \in ToSet(t.parts) : p.kind = "text" /\ p.sig # NoSig}
           A == {ToolPut(p.item, p.body, p.sig, {ItemName(p.item), BothNames(p.item)}) : p \in calls}
           B == {MessagePut(n, sig) : n \in Names, sig \in Sigs}
           C == {ContextPut(<<Prefix, p.body>>, p.sig) : p \in texts}
           D == {SiblingsPut(Head(t.calls), ToSet(Tail(t.calls))) : n \in {Len(t.calls)} \ {0, 1}}
<1>1. TurnPuts(t) = A \cup B \cup C \cup D
  BY DEF TurnPuts
<1>2. put \in A <=> \E p \in ToSet(t.parts) :
        p.kind = "call" /\ put = ToolPut(p.item, p.body, p.sig, {ItemName(p.item), BothNames(p.item)})
  OBVIOUS
<1>3. put \in B <=> \E n \in Names, sig \in Sigs : put = MessagePut(n, sig)
  OBVIOUS
<1>4. put \in C <=> \E p \in ToSet(t.parts) :
        p.kind = "text" /\ p.sig # NoSig /\ put = ContextPut(<<Prefix, p.body>>, p.sig)
  OBVIOUS
<1>5. put \in D <=> Len(t.calls) \notin {0, 1} /\ put = SiblingsPut(Head(t.calls), ToSet(Tail(t.calls)))
  OBVIOUS
<1> HIDE DEF A, B, C, D
<1> QED BY <1>1, <1>2, <1>3, <1>4, <1>5

LEMMA PartPuts ==
  ASSUME NEW t, TurnSound(t), NEW p \in ToSet(t.parts)
  PROVE  PutsOf(p) \in Seq(TurnPuts(t))
<1>1. p \in KnownPart
  BY DEF TurnSound, PartsSound, ToSet
<1>2. \A n \in Names, s \in Sigs : MessagePut(n, s) \in TurnPuts(t)
  BY PutKinds
<1>3. p.item \in Names /\ (p.kind = "call" => ItemName(p.item) \in Names)
  <2>1. p.item \in Names
    BY <1>1, NameShapes DEF KnownPart
  <2>2. p.kind = "call" => p.item \in CallsOf(t.parts)
    BY DEF CallsOf
  <2>3. CallsOf(t.parts) \subseteq TurnCall
    BY DEF TurnSound, ToSet
  <2> QED BY <2>1, <2>2, <2>3, NameShapes
<1>4. p.sig # NoSig => p.sig \in Sigs
  BY <1>1 DEF KnownPart
<1> DEFINE tool == ToolPut(p.item, p.body, p.sig, {ItemName(p.item), BothNames(p.item)})
           own == MessagePut(p.item, p.sig)
           item == MessagePut(ItemName(p.item), p.sig)
           context == ContextPut(<<Prefix, p.body>>, p.sig)
<1>5. p.kind = "call" => tool \in TurnPuts(t)
  BY PutKinds
<1>6. p.kind = "text" /\ p.sig # NoSig => context \in TurnPuts(t)
  BY PutKinds
<1>7. p.sig # NoSig => own \in TurnPuts(t) /\ (p.kind = "call" => item \in TurnPuts(t))
  BY <1>2, <1>3, <1>4
<1>8. PutsOf(p) = IF p.kind = "call" THEN <<tool>> \o (IF p.sig # NoSig THEN <<own, item>> ELSE <<>>)
                  ELSE IF p.sig # NoSig THEN <<own, context>> ELSE <<>>
  BY DEF PutsOf
<1>9. p.kind \in {"text", "call"}
  BY <1>1 DEF KnownPart
<1> HIDE DEF tool, own, item, context
<1>10. CASE p.kind = "call"
  <2>1. <<tool>> \in Seq(TurnPuts(t))
    BY <1>5, <1>10
  <2>2. p.sig # NoSig => <<own, item>> \in Seq(TurnPuts(t))
    BY <1>7, <1>10
  <2>3. <<>> \in Seq(TurnPuts(t))
    OBVIOUS
  <2> QED BY <1>8, <1>10, <2>1, <2>2, <2>3, ConcatProperties
<1>11. CASE p.kind = "text"
  <2>1. p.sig # NoSig => <<own, context>> \in Seq(TurnPuts(t))
    BY <1>6, <1>7, <1>11
  <2>2. <<>> \in Seq(TurnPuts(t))
    OBVIOUS
  <2> QED BY <1>8, <1>11, <2>1, <2>2
<1> QED BY <1>9, <1>10, <1>11

LEMMA PopulateKnown ==
  ASSUME NEW t, TurnSound(t)
  PROVE  /\ PopulateCache(t) \in Seq(TurnPuts(t))
         /\ Len(t.calls) > 1 =>
              PopulateCache(t) # <<>> /\ Last(PopulateCache(t)) = SiblingsPut(Head(t.calls), ToSet(Tail(t.calls)))
<1> DEFINE puts == [i \in DOMAIN t.parts |-> PutsOf(t.parts[i])]
<1>1. DOMAIN t.parts = 1..Len(t.parts) /\ Len(t.parts) \in Nat
  BY DEF TurnSound, PartsSound
<1>2. \A i \in 1..Len(t.parts) : puts[i] \in Seq(TurnPuts(t))
  BY <1>1, PartPuts DEF ToSet
<1>3. puts = [i \in 1..Len(t.parts) |-> puts[i]]
  BY <1>1
<1> HIDE DEF puts
<1>4. puts \in Seq(Seq(TurnPuts(t)))
  <2>1. [i \in 1..Len(t.parts) |-> puts[i]] \in Seq(Seq(TurnPuts(t)))
    BY <1>1, <1>2, IsASeq
  <2> QED BY <1>3, <2>1
<1>5. FlattenSeq(puts) \in Seq(TurnPuts(t))
  BY <1>4, FlattenElements
<1> DEFINE put == SiblingsPut(Head(t.calls), ToSet(Tail(t.calls)))
           last == IF DOMAIN TurnSiblings(t) = {} THEN <<>> ELSE <<put>>
<1>6. last \in Seq(TurnPuts(t))
  <2>1. CASE Len(t.calls) > 1
    <3>1. put \in TurnPuts(t)
      <4>1. Len(t.calls) \notin {0, 1}
        <5>1. Len(t.calls) \in Nat
          BY DEF TurnSound
        <5>2. \A m \in Nat : m > 1 => m \notin {0, 1}
          OBVIOUS
        <5> QED BY <2>1, <5>1, <5>2
      <4> QED BY <4>1, PutKinds
    <3> HIDE DEF put
    <3>2. <<put>> \in Seq(TurnPuts(t)) /\ <<>> \in Seq(TurnPuts(t))
      BY <3>1
    <3> QED BY <3>2
  <2>2. CASE ~(Len(t.calls) > 1)
    <3>1. DOMAIN TurnSiblings(t) = {}
      BY <2>2 DEF TurnSiblings
    <3> QED BY <3>1
  <2> QED BY <2>1, <2>2
<1>7. PopulateCache(t) = FlattenSeq(puts) \o last
  BY DEF PopulateCache, puts
<1>8. Len(t.calls) > 1 => last = <<put>>
  BY DEF TurnSiblings
<1> HIDE DEF last, put
<1>9. PopulateCache(t) \in Seq(TurnPuts(t))
  BY <1>5, <1>6, <1>7, ConcatProperties
<1>10. Len(t.calls) > 1 => PopulateCache(t) # <<>> /\ Last(PopulateCache(t)) = put
  <2> HAVE Len(t.calls) > 1
  <2>1. put \in TurnPuts(t) /\ <<put>> \in Seq(TurnPuts(t)) /\ PopulateCache(t) = FlattenSeq(puts) \o <<put>>
    <3>1. <<put>> \in Seq(TurnPuts(t)) /\ PopulateCache(t) = FlattenSeq(puts) \o <<put>>
      BY <1>6, <1>7, <1>8
    <3>2. Len(<<put>>) = 1 /\ <<put>>[1] = put
      OBVIOUS
    <3> HIDE DEF puts
    <3>3. \A s \in Seq(TurnPuts(t)) : Len(s) = 1 => s[1] \in TurnPuts(t)
      OBVIOUS
    <3> QED BY <3>1, <3>2, <3>3
  <2>2. PopulateCache(t) = Append(FlattenSeq(puts), put)
    BY <1>5, <2>1, AppendIsConcat
  <2> QED BY <1>5, <2>1, <2>2 DEF Last
<1> QED BY <1>9, <1>10 DEF put

(* The request and what is known of it do not change before the replay.    *)
LEMMA RequestWaits ==
  ASSUME ReplayInv, UNCHANGED requestVars, phase \in {"idle", "storing"}, phase' \in {"storing", "answered"}
  PROVE  /\ InputKnown' /\ ScanKnown' /\ SentKnown'
         /\ input' = <<>> /\ deviations' = {} /\ leads' = <<>> /\ callees' = <<>> /\ sent' = <<>>
<1>1. /\ UNCHANGED <<deviations, input, leads, callees, sent>>
      /\ input = <<>> /\ deviations = {} /\ leads = <<>> /\ callees = <<>> /\ sent = <<>>
  BY DEF requestVars, ReplayInv, PhaseKnown
<1>2. DOMAIN <<>> = {} /\ \A S : <<>> \in Seq(S)
  OBVIOUS
<1>3. InputKnown' /\ SentKnown'
  BY <1>1, <1>2 DEF InputKnown, SentKnown, CallItems, OutputItems
<1>4. ScanKnown'
  BY DEF ScanKnown
<1> QED BY <1>1, <1>3, <1>4

LEMMA AnswerInv == ReplayInv /\ Answer => ReplayInv'
<1> SUFFICES ASSUME ReplayInv, Answer PROVE ReplayInv'
  OBVIOUS
<1>1. /\ phase = "idle" /\ phase' = "storing" /\ UNCHANGED requestVars
      /\ UNCHANGED <<records, aliases, ambiguous, contexts, msgs, claims, ignored, since, siblings, others>>
  BY DEF Answer, cacheVars, tables, histories
<1>2. PICK parts \in Answers : turn' = BuildAuthoritativeTurn(parts) /\ todo' = PopulateCache(turn')
  BY DEF Answer
<1>3. TurnSound(turn')
  BY <1>2, TurnIsSound, AnswersAssumption
<1>4. TurnKnown'
  BY <1>2, <1>3 DEF TurnKnown
<1>5. Cache!Live = {} /\ DOMAIN contexts.val = {} /\ DOMAIN siblings = {}
  BY <1>1 DEF ReplayInv, PhaseKnown
<1>6. CacheKnown'
  BY <1>1, <1>5 DEF ReplayInv, CacheKnown, Cache!Live
<1>7. RecordsKnown' /\ SiblingsKnown' /\ ContextsKnown'
  BY <1>1, <1>5 DEF ReplayInv, RecordsKnown, SiblingsKnown, ContextsKnown, Cache!Live
<1>8. /\ InputKnown' /\ ScanKnown' /\ SentKnown'
      /\ input' = <<>> /\ deviations' = {} /\ leads' = <<>> /\ callees' = <<>> /\ sent' = <<>>
  BY <1>1, RequestWaits
<1>9. todo' \in Seq(TurnPuts(turn'))
  BY <1>2, <1>3, PopulateKnown
<1>10. PhaseKnown'
  BY <1>1, <1>8, <1>9 DEF PhaseKnown
<1> QED BY <1>4, <1>6, <1>7, <1>8, <1>10 DEF ReplayInv

(* One put of the turn.                                                    *)
LEMMA PutKnown ==
  ASSUME ReplayInv, phase = "storing", UNCHANGED turn, NEW put \in TurnPuts(turn), Apply(put)
  PROVE  CacheKnown' /\ RecordsKnown' /\ ContextsKnown' /\ SiblingsKnown'
<1>1. /\ TurnKnown /\ CacheKnown /\ RecordsKnown /\ ContextsKnown /\ SiblingsKnown /\ TurnSound(turn)
      /\ TurnCalls' = TurnCalls /\ CallsOf(turn.parts)' = CallsOf(turn.parts) /\ \A c : TextsOf(c)' = TextsOf(c)
  BY DEF ReplayInv, TurnKnown, TurnCalls, TextsOf
<1>2. CASE \E p \in ToSet(turn.parts) :
             p.kind = "call" /\ put = ToolPut(p.item, p.body, p.sig, {ItemName(p.item), BothNames(p.item)})
  <2>1. PICK p \in TurnCalls : put = ToolPut(p.item, p.body, p.sig, {ItemName(p.item), BothNames(p.item)})
    BY <1>2 DEF TurnCalls
  <2> DEFINE names == {ItemName(p.item), BothNames(p.item)}
  <2>2. /\ p.item \in CallsOf(turn.parts) /\ p.item \in TurnCall /\ p.item \in Names
        /\ p.body \in Contents \cup {<<>>} /\ p.sig \in Sigs \cup {NoSig}
        /\ names \subseteq Names /\ names \subseteq AliasesOf(p.item)
    <3>1. p.item \in CallsOf(turn.parts) /\ p.item \in TurnCall /\ p \in KnownPart /\ p.body \in Contents \cup {<<>>}
      BY <1>1, TurnCallsKnown
    <3> QED BY <3>1, NameShapes DEF AliasesOf, KnownPart
  <2>3. put.op = "tool"
    BY <2>1 DEF ToolPut
  <2> HIDE DEF names
  <2>4. ApplyTool(ToolPut(p.item, p.body, p.sig, names)) /\ UNCHANGED <<siblings, others>>
    BY <2>1, <2>3 DEF Apply, names
  <2>5. others' \in 0..MaxOthers
    BY <1>1, <2>4 DEF CacheKnown
  <2>6. p.item \in Cache!Live => records.val[p.item] = [call |-> p.body, sig |-> p.sig, legacy |-> FALSE]
    BY <1>1 DEF RecordsKnown, RecordOf
  <2>7. /\ CacheKnown'
        /\ Cache!Live' \subseteq Cache!Live \cup {p.item}
        /\ \A x \in Cache!Live' \ {p.item} : records'.val[x] = records.val[x]
        /\ p.item \in Cache!Live' => records'.val[p.item] = [call |-> p.body, sig |-> p.sig, legacy |-> FALSE]
        /\ UNCHANGED <<contexts, msgs, since>>
    BY <1>1, <2>2, <2>4, <2>5, <2>6, PutCall
  <2>8. RecordsKnown'
    <3> SUFFICES ASSUME NEW q \in TurnCalls, q.item \in Cache!Live'
                 PROVE  records'.val[q.item] = RecordOf(q)
      BY <1>1 DEF RecordsKnown
    <3>1. CASE q.item = p.item
      <4>1. q = p
        BY <1>1, <3>1, TurnCallsKnown
      <4> QED BY <2>7, <4>1 DEF RecordOf
    <3>2. CASE q.item # p.item
      BY <1>1, <2>7, <3>2 DEF RecordsKnown
    <3> QED BY <3>1, <3>2
  <2>9. ContextsKnown' /\ SiblingsKnown'
    BY <1>1, <2>4, <2>7 DEF ContextsKnown, SiblingsKnown
  <2> QED BY <2>7, <2>8, <2>9
<1>3. CASE \E n \in Names, sig \in Sigs : put = MessagePut(n, sig)
  <2>1. PICK n \in Names, sig \in Sigs : put = MessagePut(n, sig)
    BY <1>3
  <2>2. put.op = "message" /\ put.name = n /\ put.sig = sig
    BY <2>1 DEF MessagePut
  <2>3. /\ msgs' = Cache!Store(msgs, n, sig)
        /\ UNCHANGED <<records, aliases, ambiguous, contexts, claims, ignored, since, siblings, others>>
    BY <2>2 DEF Apply, Cache!PutMessageSignature, histories, Cache!histories
  <2>4. Cache!IsTable(msgs', Names, Sigs) /\ ToSet(msgs'.order) \subseteq DOMAIN msgs'.val
    BY <1>1, <2>3, StoreProperties DEF CacheKnown
  <2>5. CacheKnown'
    BY <1>1, <2>3, <2>4 DEF CacheKnown, Cache!Live
  <2> QED BY <1>1, <2>3, <2>5 DEF RecordsKnown, ContextsKnown, SiblingsKnown, Cache!Live
<1>4. CASE \E p \in ToSet(turn.parts) :
             p.kind = "text" /\ p.sig # NoSig /\ put = ContextPut(<<Prefix, p.body>>, p.sig)
  <2>1. PICK p \in ToSet(turn.parts) :
               p.kind = "text" /\ p.sig # NoSig /\ put = ContextPut(<<Prefix, p.body>>, p.sig)
    BY <1>4
  <2> DEFINE c == <<Prefix, p.body>>
             sig == p.sig
  <2>2. p \in TextsOf(c) /\ sig \in Sigs /\ c \in Contexts
    <3>1. p \in KnownPart
      BY <1>1, TurnCallsKnown
    <3>2. c \in Contexts
      <4>1. PICK parts \in Answers : turn = BuildAuthoritativeTurn(parts)
        BY <1>1 DEF TurnKnown
      <4> QED BY <2>1, <4>1, ContextsAssumption DEF Prefix
    <3> QED BY <2>1, <3>1, <3>2 DEF TextsOf, KnownPart
  <2>3. put.op = "context" /\ put.name = c /\ put.sig = sig
    BY <2>1 DEF ContextPut
  <2>4. p.sig = sig
    OBVIOUS
  <2> HIDE DEF c, sig
  <2>5. /\ contexts' = IF Cache!Clash(c, sig) THEN Cache!Store(contexts, c, NoSig)
                       ELSE IF c \in ambiguous THEN contexts ELSE Cache!Store(contexts, c, sig)
        /\ ambiguous' = IF Cache!Clash(c, sig) THEN ambiguous \cup {c} ELSE ambiguous
        /\ since' = [since EXCEPT ![c] = (IF c \in DOMAIN contexts.val \/ Cache!Met(c) THEN @ ELSE {}) \cup {sig}]
        /\ UNCHANGED <<records, aliases, msgs, claims, ignored, siblings, others>>
    BY <2>3 DEF Apply, Cache!PutContextSignature
  <2>6. CacheKnown'
    <3>1. ambiguous' \subseteq Names \cup Contexts
      BY <1>1, <2>2, <2>5 DEF CacheKnown
    <3>2. since' \in [Contexts -> SUBSET Sigs]
      BY <1>1, <2>2, <2>5 DEF CacheKnown
    <3> QED BY <1>1, <2>5, <3>1, <3>2 DEF CacheKnown, Cache!Live
  <2>7. ContextsKnown'
    <3> DEFINE new == IF Cache!Clash(c, sig) THEN NoSig ELSE sig
    <3>1. CASE contexts' = contexts
      BY <1>1, <3>1 DEF ContextsKnown
    <3>2. CASE contexts' = Cache!Store(contexts, c, new)
      <4>1. new \in Sigs \cup {NoSig} /\ (new # NoSig => new = sig)
        BY <2>2
      <4> HIDE DEF new
      <4>2. /\ Cache!IsTable(contexts', Contexts, Sigs \cup {NoSig})
            /\ ToSet(contexts'.order) \subseteq DOMAIN contexts'.val
            /\ c \in DOMAIN contexts'.val /\ contexts'.val[c] = new
            /\ DOMAIN contexts'.val \subseteq DOMAIN contexts.val \cup {c}
            /\ \A j \in DOMAIN contexts'.val \ {c} : contexts'.val[j] = contexts.val[j]
        BY <1>1, <2>2, <3>2, <4>1, StoreProperties DEF ContextsKnown
      <4>3. \A d \in DOMAIN contexts'.val :
              contexts'.val[d] # NoSig => \E q \in TextsOf(d) : q.sig = contexts'.val[d]
        <5> TAKE d \in DOMAIN contexts'.val
        <5>1. CASE d = c
          BY <2>2, <2>4, <4>1, <4>2, <5>1
        <5>2. CASE d # c
          BY <1>1, <4>2, <5>2 DEF ContextsKnown
        <5> QED BY <5>1, <5>2
      <4> QED BY <1>1, <4>2, <4>3 DEF ContextsKnown
    <3> QED BY <2>5, <3>1, <3>2
  <2> QED BY <1>1, <2>5, <2>6, <2>7 DEF RecordsKnown, SiblingsKnown, Cache!Live
<1>5. CASE Len(turn.calls) \notin {0, 1} /\ put = SiblingsPut(Head(turn.calls), ToSet(Tail(turn.calls)))
  <2> DEFINE lead == Head(turn.calls)
             calls == ToSet(Tail(turn.calls))
             canon == Canonical(lead)
             more == SiblingsOf(canon) \cup ({Canonical(c) : c \in calls} \ {canon})
  <2>1. /\ put.op = "siblings" /\ put.name = lead /\ put.names = calls
    BY <1>5 DEF SiblingsPut
  <2>2. turn.calls \in Seq(TurnCall) /\ Len(turn.calls) \in Nat /\ Len(turn.calls) > 1
    <3>1. turn.calls \in Seq(TurnCall)
      BY <1>1 DEF TurnSound
    <3>2. \A n \in Nat : n \notin {0, 1} => n > 1
      OBVIOUS
    <3>3. Len(turn.calls) \in Nat
      BY <3>1
    <3> QED BY <1>5, <3>1, <3>2, <3>3
  <2>3. lead \in TurnCall /\ calls \subseteq TurnCall
    BY <2>2 DEF ToSet
  <2>4. canon = lead /\ \A c \in calls : Canonical(c) = c
    BY <1>1, <2>3, FoundKnown
  <2>5. siblings' = Assigned(siblings, canon, more) /\ UNCHANGED <<tables, others>>
    BY <2>1 DEF Apply, RecordTurnSiblings
  <2>6. more \subseteq calls
    BY <1>1, <2>4 DEF SiblingsOf, SiblingsKnown
  <2> HIDE DEF more, canon
  <2>7. SiblingsKnown'
    <3>1. \A n \in DOMAIN siblings' : IF n = lead THEN siblings'[n] = more
                                      ELSE n \in DOMAIN siblings /\ siblings'[n] = siblings[n]
      BY <2>4, <2>5 DEF Assigned
    <3> QED BY <1>1, <2>2, <2>6, <3>1 DEF SiblingsKnown
  <2>8. UNCHANGED <<records, aliases, ambiguous, contexts, msgs, claims, ignored, since>>
    BY <2>5 DEF tables, histories
  <2> QED BY <1>1, <2>5, <2>7, <2>8 DEF CacheKnown, RecordsKnown, ContextsKnown, Cache!Live
<1> QED BY <1>2, <1>3, <1>4, <1>5, PutKinds

LEMMA StorePutInv == ReplayInv /\ StorePut => ReplayInv'
<1> SUFFICES ASSUME ReplayInv, StorePut PROVE ReplayInv'
  OBVIOUS
<1>1. /\ phase = "storing" /\ todo # <<>> /\ Apply(Head(todo)) /\ todo' = Tail(todo)
      /\ phase' = IF Len(todo) = 1 THEN "answered" ELSE "storing"
      /\ UNCHANGED turn /\ UNCHANGED requestVars
  BY DEF StorePut
<1>2. todo \in Seq(TurnPuts(turn))
  BY DEF ReplayInv, PhaseKnown
<1>3. Head(todo) \in TurnPuts(turn) /\ todo' \in Seq(TurnPuts(turn)) /\ (Len(todo) = 1 => todo' = <<>>)
  BY <1>1, <1>2
<1>4. CacheKnown' /\ RecordsKnown' /\ ContextsKnown' /\ SiblingsKnown'
  BY <1>1, <1>3, PutKnown
<1>5. /\ InputKnown' /\ ScanKnown' /\ SentKnown'
      /\ input' = <<>> /\ deviations' = {} /\ leads' = <<>> /\ callees' = <<>> /\ sent' = <<>>
  BY <1>1, RequestWaits
<1>6. TurnKnown'
  BY <1>1 DEF ReplayInv, TurnKnown
<1>7. PhaseKnown'
  BY <1>1, <1>3, <1>5 DEF PhaseKnown
<1> QED BY <1>4, <1>5, <1>6, <1>7 DEF ReplayInv

LEMMA NothingToStoreInv == ReplayInv /\ NothingToStore => ReplayInv'
<1> SUFFICES ASSUME ReplayInv, NothingToStore PROVE ReplayInv'
  OBVIOUS
<1>1. /\ phase = "storing" /\ phase' = "answered" /\ todo = <<>> /\ UNCHANGED <<turn, todo>> /\ UNCHANGED requestVars
      /\ UNCHANGED <<records, aliases, ambiguous, contexts, msgs, claims, ignored, since, siblings, others>>
  BY DEF NothingToStore, cacheVars, tables, histories
<1>2. /\ InputKnown' /\ ScanKnown' /\ SentKnown'
      /\ input' = <<>> /\ deviations' = {} /\ leads' = <<>> /\ callees' = <<>> /\ sent' = <<>>
  BY <1>1, RequestWaits
<1>3. TurnKnown' /\ CacheKnown' /\ SiblingsKnown'
  BY <1>1 DEF ReplayInv, TurnKnown, CacheKnown, SiblingsKnown, Cache!Live
<1>4. RecordsKnown' /\ ContextsKnown'
  BY <1>1 DEF ReplayInv, RecordsKnown, ContextsKnown, TurnCalls, TextsOf, Cache!Live
<1>5. PhaseKnown'
  BY <1>1, <1>2 DEF ReplayInv, PhaseKnown
<1> QED BY <1>2, <1>3, <1>4, <1>5 DEF ReplayInv

-----------------------------------------------------------------------------
(* The client's request.                                                   *)

(* The items of the output are those of the turn.                          *)
LEMMA OutputKnown ==
  ASSUME TurnSound(turn)
  PROVE  \E ids \in Seq(ItemIds(turn)) :
           ToOutputItems(turn) = [i \in DOMAIN ids |-> ItemNamed(turn, ids[i])]
BY OutputIsNamed DEF TurnSound, PartsSound

(* What stands in a client's history.                                      *)
CallMadeOf(it, mixed) ==
  \/ it.call = Injected /\ it.sig = NoSig /\ it.id = NoName
  \/ /\ \E p \in TurnCalls : p.item = it.call /\ it.sig \in {NoSig, p.sig}
     /\ \/ it.id \in {NoName, ItemName(it.call)}
        \/ it.call = Head(turn.calls) /\ it.id = ItemName(Last(turn.calls)) /\ mixed

HistoryItem(mixed) ==
  {it \in KnownItem : /\ it.type = "call" => CallMadeOf(it, mixed)
                      /\ it.type = "output" => it.call \in RequestNames}

(* The history itself, and the results that follow it.                     *)
TurnItem(mixed) == {it \in HistoryItem(mixed) : it.type # "output"}
ResultItem(mixed) == {it \in HistoryItem(mixed) : it.type = "output"}

LEMMA ItemTyped ==
  ASSUME NEW type \in {"reasoning", "message", "call", "output"}, NEW call \in RequestNames \cup {NoName},
         NEW id \in Names \cup {NoName, Reasoning}, NEW body \in Seq(Nat), NEW sig \in Sigs \cup {NoSig}
  PROVE  Item(type, call, id, body, sig) \in KnownItem
BY DEF Item, KnownItem

(* The calls of the turn, as the client sends them.                        *)
LEMMA ClientCallKnown ==
  ASSUME TurnSound(turn), NEW p \in TurnCalls, NEW body \in Seq(Nat), NEW sig \in {NoSig, p.sig}, NEW mixed,
         NEW id, \/ id \in {NoName, ItemName(p.item)}
                 \/ p.item = Head(turn.calls) /\ id = ItemName(Last(turn.calls)) /\ mixed
  PROVE  Item("call", p.item, id, body, sig) \in TurnItem(mixed)
<1> DEFINE it == Item("call", p.item, id, body, sig)
<1>1. /\ p.item \in TurnCall /\ p.sig \in Sigs \cup {NoSig} /\ p.item \in ToSet(turn.calls)
      /\ turn.calls \in Seq(TurnCall)
  BY TurnCallsKnown DEF KnownPart, TurnSound
<1>2. Last(turn.calls) \in TurnCall
  <2>1. Len(turn.calls) \in Nat /\ Len(turn.calls) # 0
    BY <1>1 DEF ToSet
  <2> QED BY <1>1, <2>1 DEF Last
<1>3. id \in Names \cup {NoName, Reasoning}
  BY <1>1, <1>2, NameShapes
<1>4. it.type = "call" /\ it.call = p.item /\ it.id = id /\ it.sig = sig
  BY DEF Item
<1>5. it \in KnownItem
  <2>1. p.item \in RequestNames \cup {NoName} /\ sig \in Sigs \cup {NoSig}
    BY <1>1 DEF RequestNames
  <2> QED BY <1>3, <2>1, ItemTyped
<1> HIDE DEF it
<1>6. CallMadeOf(it, mixed)
  BY <1>4 DEF CallMadeOf
<1> QED BY <1>4, <1>5, <1>6 DEF TurnItem, HistoryItem, it

LEMMA InjectedKnown ==
  ASSUME NEW mixed
  PROVE  InjectedItem \in TurnItem(mixed) /\ InjectedItem.call = Injected
<1> DEFINE it == Item("call", Injected, NoName, Altered, NoSig)
<1>1. Altered \in Seq(Nat) /\ Injected \in RequestNames
  <2> DEFINE n == 0
  <2>1. n \in Nat
    OBVIOUS
  <2> HIDE DEF n
  <2>2. <<n>> \in Seq(Nat)
    BY <2>1
  <2> QED BY <2>2 DEF Altered, RequestNames, n
<1>2. it.type = "call" /\ it.call = Injected /\ it.id = NoName /\ it.sig = NoSig
  BY DEF Item
<1>3. it \in KnownItem
  BY <1>1, ItemTyped
<1> HIDE DEF it
<1> DEFINE foreign == Does("foreign")
           j == [it EXCEPT !.foreign = foreign]
<1>4. InjectedItem = j /\ foreign \in BOOLEAN
  BY DEF InjectedItem, Does, it
<1> HIDE DEF foreign
<1>5. j \in KnownItem /\ j.type = "call" /\ j.call = Injected /\ j.id = NoName /\ j.sig = NoSig
  BY <1>2, <1>3, <1>4 DEF KnownItem
<1> HIDE DEF j
<1>6. j \in TurnItem(mixed)
  BY <1>5 DEF TurnItem, HistoryItem, CallMadeOf
<1> QED BY <1>4, <1>5, <1>6

LEMMA ClientItemsKnown ==
  ASSUME TurnSound(turn), NEW name \in ItemIds(turn)
  PROVE  ClientItems(ItemNamed(turn, name)) \in Seq(TurnItem(Does("ids mixed up")))
<1> DEFINE o == ItemNamed(turn, name)
           mixed == Does("ids mixed up")
           S == TurnItem(mixed)
<1>0. <<>> \in Seq(S) /\ \A x \in S : <<x>> \in Seq(S)
  <2> HIDE DEF S
  <2> QED OBVIOUS
<1>1. CASE name = Reasoning
  <2> DEFINE r == Item("reasoning", NoName, Reasoning, <<>>, NoSig)
  <2>1. o.id = Reasoning
    BY <1>1 DEF ItemNamed, OutputItem
  <2>2. r \in S
    <3>1. r \in KnownItem
      <4>1. <<>> \in Seq(Nat)
        OBVIOUS
      <4> QED BY <4>1, ItemTyped
    <3>2. r.type = "reasoning"
      BY DEF Item
    <3> HIDE DEF r, mixed
    <3> QED BY <3>1, <3>2 DEF TurnItem, HistoryItem
  <2> HIDE DEF o
  <2>3. ClientItems(o) = IF Does("no reasoning") THEN <<>> ELSE <<r>>
    <3>1. o.id[1] = "rs"
      BY <2>1 DEF Reasoning
    <3> QED BY <2>1, <3>1 DEF ClientItems
  <2> HIDE DEF r, S
  <2> QED BY <1>0, <2>2, <2>3 DEF o, S
<1>2. CASE name # Reasoning
  <2> DEFINE j == CHOOSE i \in DOMAIN turn.parts : turn.parts[i].item = name
             p == turn.parts[j]
  <2>1. j \in DOMAIN turn.parts /\ p.item = name
    BY <1>2 DEF ItemIds
  <2>2. o.id = name /\ o.body = p.body /\ o.sig = p.sig
    BY <1>2 DEF ItemNamed, OutputItem
  <2>3. p \in ToSet(turn.parts) /\ p \in KnownPart /\ (p.kind # "call" => p.item \in TurnText)
    <3>1. p \in ToSet(turn.parts)
      BY <2>1 DEF ToSet
    <3>2. turn.parts \in Seq(KnownPart) /\ \A i \in DOMAIN turn.parts : turn.parts[i].kind # "call" => turn.parts[i].item \in TurnText
      BY DEF TurnSound, PartsSound
    <3> HIDE DEF j
    <3> QED BY <2>1, <3>1, <3>2
  <2> HIDE DEF j, p, o
  <2>4. /\ p.sig \in Sigs \cup {NoSig} /\ p.body \in Seq(Nat) /\ p.kind \in {"text", "call"}
        /\ ClientSig(o) \in {NoSig, p.sig}
    BY <2>2, <2>3 DEF ClientSig, KnownPart
  <2> DEFINE body == ClientBody(o)
  <2>5. body \in Seq(Nat)
    <3>1. body \in {Altered, p.body}
      BY <2>2 DEF ClientBody
    <3>2. Altered \in Seq(Nat)
      <4> DEFINE n == 0
      <4>1. n \in Nat
        OBVIOUS
      <4> HIDE DEF n
      <4>2. <<n>> \in Seq(Nat)
        BY <4>1
      <4> QED BY <4>2 DEF Altered, n
    <3> QED BY <2>4, <3>1, <3>2
  <2> HIDE DEF body
  <2>6. CASE p.kind = "text"
    <3> DEFINE sig == ClientSig(o)
               id == ClientId(o.id)
               m == Item("message", NoName, id, body, sig)
    <3>1. o.id \in TurnText /\ o.id # Reasoning /\ o.id[1] = "msg" /\ o.id \in Names
      <4>1. o.id \in TurnText
        BY <2>1, <2>2, <2>3, <2>6
      <4> QED BY <1>2, <2>2, <4>1, NameShapes DEF TurnText, Message
    <3>2. m \in S
      <4>1. id \in Names \cup {NoName, Reasoning} /\ sig \in Sigs \cup {NoSig}
        BY <2>4, <3>1 DEF ClientId
      <4> HIDE DEF id, sig
      <4>2. m \in KnownItem
        BY <2>5, <4>1, ItemTyped
      <4>3. m.type = "message"
        BY DEF Item
      <4> HIDE DEF m, mixed
      <4> QED BY <4>2, <4>3 DEF TurnItem, HistoryItem
    <3>3. ClientItems(o) = <<m>>
      BY <3>1 DEF ClientItems, body
    <3> HIDE DEF m, S
    <3> QED BY <1>0, <3>2, <3>3 DEF o, S
  <2>7. CASE p.kind = "call"
    <3> DEFINE sig == ClientSig(o)
               id == ClientId(ClientItem(o.id))
               c == Item("call", o.id, id, body, sig)
               again == Item("call", o.id, NoName, o.body, NoSig)
               injected == InjectedItem
               one == IF o.id = turn.calls[1] /\ deviations' \cap {"injected", "foreign"} # {}
                      THEN <<injected>> ELSE <<>>
               two == IF o.id = turn.calls[1] /\ Does("repeated") THEN <<again>> ELSE <<>>
    <3>1. p \in TurnCalls /\ p.item \in TurnCall
      <4>1. p \in TurnCalls
        BY <2>3, <2>7 DEF TurnCalls
      <4> QED BY <4>1, TurnCallsKnown
    <3>2. o.id[1] = "fc" /\ o.id # Reasoning /\ o.id = p.item
      <4>1. o.id = p.item
        BY <2>1, <2>2
      <4> QED BY <1>2, <2>2, <3>1, <4>1 DEF TurnCall, CallItem
    <3>3. c \in S
      <4>1. \/ id \in {NoName, ItemName(p.item)}
            \/ p.item = Head(turn.calls) /\ id = ItemName(Last(turn.calls)) /\ mixed
        <5>1. turn.calls[1] = Head(turn.calls)
          BY DEF TurnSound
        <5>2. id = ClientItem(o.id) \/ id = NoName
          BY DEF ClientId
        <5> HIDE DEF id
        <5> QED BY <3>2, <5>1, <5>2 DEF ClientItem
      <4>2. sig \in {NoSig, p.sig}
        BY <2>4
      <4> HIDE DEF id, sig, mixed
      <4> QED BY <2>5, <3>1, <3>2, <4>1, <4>2, ClientCallKnown
    <3>4. again \in S
      <4>1. NoName \in {NoName, ItemName(p.item)} /\ NoSig \in {NoSig, p.sig} /\ o.body \in Seq(Nat)
        BY <2>2, <2>4
      <4> HIDE DEF mixed
      <4> QED BY <3>1, <3>2, <4>1, ClientCallKnown
    <3>5. injected \in S
      <4> HIDE DEF mixed
      <4> QED BY InjectedKnown
    <3>6. ClientItems(o) = <<c>> \o one \o two
      <4>1. o.id[1] # "msg"
        BY <3>2
      <4> QED BY <3>2, <4>1 DEF ClientItems, body
    <3> HIDE DEF c, again, injected, S
    <3>7. <<c>> \in Seq(S) /\ one \in Seq(S) /\ two \in Seq(S)
      BY <1>0, <3>3, <3>4, <3>5
    <3> HIDE DEF one, two
    <3>8. <<c>> \o one \in Seq(S)
      BY <3>7, ConcatProperties
    <3> QED BY <3>6, <3>7, <3>8, ConcatProperties DEF o, S
  <2> QED BY <2>4, <2>6, <2>7
<1> QED BY <1>1, <1>2

(* The results, each under a name of its call.                             *)
LEMMA ResultsKnown ==
  ASSUME TurnSound(turn), NEW mixed, NEW items \in Seq(TurnItem(mixed))
  PROVE  Results(items) \in Seq(ResultItem(mixed))
<1> DEFINE S == {it \in TurnItem(mixed) : it.type = "call"}
           all == {it \in ToSet(items) : it.type = "call"}
           calls == Selected(items, all)
           answered == IF Does("last unanswered") /\ calls # <<>> THEN Front(calls) ELSE calls
<1>1. calls \in Seq(S)
  <2>1. calls \in Seq(all)
    <3> HIDE DEF all
    <3> QED BY SelectedElements
  <2>2. all \subseteq S
    <3>1. \A i \in 1..Len(items) : items[i] \in TurnItem(mixed)
      OBVIOUS
    <3>2. DOMAIN items = 1..Len(items)
      OBVIOUS
    <3> QED BY <3>1, <3>2 DEF ToSet
  <2> HIDE DEF calls, all, S
  <2> QED BY <2>1, <2>2
<1> HIDE DEF calls, all, S
<1>2. answered \in Seq(S)
  <2>1. calls # <<>> => Front(calls) \in Seq(S)
    <3> HAVE calls # <<>>
    <3>1. Len(calls) \in Nat /\ Len(calls) >= 1 /\ \A i \in 1..Len(calls) : calls[i] \in S
      BY <1>1
    <3>2. Front(calls) = [i \in 1..(Len(calls) - 1) |-> calls[i]]
      BY <3>1 DEF Front
    <3> QED BY <3>1, <3>2
  <2> QED BY <1>1, <2>1
<1>3. Results(items) = [i \in DOMAIN answered |-> Item("output", ResultName(answered[i].call), NoName, <<>>, NoSig)]
  BY DEF Results, calls, all
<1>4. ASSUME NEW x \in S
      PROVE  Item("output", ResultName(x.call), NoName, <<>>, NoSig) \in ResultItem(mixed)
  <2>1. x.call = Injected \/ x.call \in TurnCall
    <3>1. CallMadeOf(x, mixed)
      BY <1>4 DEF S, TurnItem, HistoryItem
    <3> QED BY <3>1, TurnCallsKnown DEF CallMadeOf
  <2> DEFINE name == ResultName(x.call)
             r == Item("output", name, NoName, <<>>, NoSig)
  <2>2. name \in RequestNames
    <3>1. CASE x.call = Injected
      BY <3>1 DEF ResultName, RequestNames
    <3>2. CASE x.call \in TurnCall
      <4>1. UpstreamID(x.call) \in UpstreamIds \cup {NoId}
        BY <3>2, NameShapes DEF TurnCall
      <4>2. Outbound(UpstreamID(x.call), x.call) \in RequestNames
        BY <3>2, <4>1 DEF Outbound, RequestNames, UpstreamNames
      <4> QED BY <2>1, <3>2, <4>2 DEF ResultName, RequestNames
    <3> QED BY <2>1, <3>1, <3>2
  <2> HIDE DEF name
  <2>3. r \in KnownItem
    <3>1. <<>> \in Seq(Nat)
      OBVIOUS
    <3> QED BY <2>2, <3>1, ItemTyped
  <2>4. r.type = "output" /\ r.call = name
    BY DEF Item
  <2> HIDE DEF r
  <2> QED BY <2>2, <2>3, <2>4 DEF ResultItem, HistoryItem, r, name
<1> HIDE DEF answered
<1>5. DOMAIN answered = 1..Len(answered) /\ Len(answered) \in Nat /\ \A i \in 1..Len(answered) : answered[i] \in S
  BY <1>2
<1> DEFINE r == [i \in 1..Len(answered) |-> Item("output", ResultName(answered[i].call), NoName, <<>>, NoSig)]
<1>6. \A i \in 1..Len(answered) : r[i] \in ResultItem(mixed)
  BY <1>4, <1>5
<1>7. Results(items) = r
  BY <1>3, <1>5
<1> HIDE DEF r
<1>8. r = [i \in 1..Len(answered) |-> r[i]]
  BY DEF r
<1>9. [i \in 1..Len(answered) |-> r[i]] \in Seq(ResultItem(mixed))
  BY <1>5, <1>6, IsASeq
<1> QED BY <1>7, <1>8, <1>9

(* The request: what the client made of the turn, then the results.        *)
LEMMA RequestMade ==
  ASSUME TurnSound(turn), Replay
  PROVE  \E items \in Seq(TurnItem(Does("ids mixed up"))) : \E results \in Seq(ResultItem(Does("ids mixed up"))) :
           input' = items \o results
<1> DEFINE mixed == Does("ids mixed up")
           S == TurnItem(mixed)
           output == ToOutputItems(turn)
           parts == [i \in DOMAIN output |-> ClientItems(output[i])]
           items == FlattenSeq(parts)
<1>1. input' = items \o Results(items)
  BY DEF Replay
<1>2. items \in Seq(S)
  <2>1. PICK ids \in Seq(ItemIds(turn)) : output = [i \in DOMAIN ids |-> ItemNamed(turn, ids[i])]
    BY OutputKnown
  <2>2. \A i \in DOMAIN ids : ids[i] \in ItemIds(turn)
    BY <2>1
  <2>3. ASSUME NEW i \in DOMAIN ids PROVE ClientItems(output[i]) \in Seq(S)
    <3>1. output[i] = ItemNamed(turn, ids[i])
      BY <2>1
    <3> HIDE DEF output
    <3> QED BY <2>2, <3>1, ClientItemsKnown
  <2>4. DOMAIN output = 1..Len(ids) /\ Len(ids) \in Nat /\ DOMAIN ids = 1..Len(ids)
    BY <2>1
  <2> HIDE DEF output, S
  <2>5. \A i \in 1..Len(ids) : parts[i] \in Seq(S)
    BY <2>3, <2>4
  <2>6. parts = [i \in 1..Len(ids) |-> parts[i]]
    BY <2>4
  <2> HIDE DEF parts
  <2>7. parts \in Seq(Seq(S))
    BY <2>4, <2>5, <2>6, IsASeq
  <2> QED BY <2>7, FlattenElements
<1> HIDE DEF items, parts, S
<1>3. Results(items) \in Seq(ResultItem(mixed))
  <2> HIDE DEF mixed
  <2> QED BY <1>2, ResultsKnown DEF S
<1> QED BY <1>1, <1>2, <1>3 DEF S

LEMMA ReplayStep == ReplayInv /\ Replay => ReplayInv'
<1> SUFFICES ASSUME ReplayInv, Replay PROVE ReplayInv'
  OBVIOUS
<1> DEFINE mixed == Does("ids mixed up")
           S == HistoryItem(mixed)
<1>1. /\ phase = "answered" /\ phase' = "scanning" /\ deviations' \subseteq Deviations
      /\ UNCHANGED <<turn, todo, leads, callees, sent>>
      /\ UNCHANGED <<records, aliases, ambiguous, contexts, msgs, claims, ignored, since, siblings, others>>
  BY DEF Replay, cacheVars, tables, histories
<1>2. TurnSound(turn) /\ TurnKnown
  BY DEF ReplayInv, TurnKnown
<1>3. PICK items \in Seq(TurnItem(mixed)), results \in Seq(ResultItem(mixed)) : input' = items \o results
  BY <1>2, RequestMade
<1>4. input' \in Seq(S)
  <2>1. TurnItem(mixed) \subseteq S /\ ResultItem(mixed) \subseteq S
    BY DEF TurnItem, ResultItem
  <2> HIDE DEF S, mixed
  <2>2. items \in Seq(S) /\ results \in Seq(S)
    BY <2>1
  <2> QED BY <1>3, <2>2, ConcatProperties
<1> HIDE DEF mixed
<1>5. input' \in Seq(KnownItem) /\ \A i \in DOMAIN input' : input'[i] \in HistoryItem(mixed)
  <2>1. S \subseteq KnownItem
    BY DEF HistoryItem
  <2> HIDE DEF S
  <2>2. input' \in Seq(KnownItem) /\ \A i \in DOMAIN input' : input'[i] \in S
    BY <1>4, <2>1
  <2> QED BY <2>2 DEF S
<1>6. \A x : CallMadeOf(x, mixed) => CallKnown(x)'
  <2> SUFFICES ASSUME NEW x, CallMadeOf(x, mixed) PROVE CallKnown(x)'
    OBVIOUS
  <2>1. TurnCalls' = TurnCalls /\ mixed = MixedUp'
    BY <1>1 DEF TurnCalls, MixedUp, mixed, Does
  <2> QED BY <1>1, <2>1 DEF CallKnown, CallMadeOf
<1>7. InputKnown'
  <2>1. \A i \in CallItems' : CallMadeOf(input'[i], mixed)
    BY <1>5 DEF CallItems, HistoryItem
  <2>2. \A i \in CallItems' : CallKnown(input[i])'
    BY <1>6, <2>1
  <2>3. \A i \in OutputItems' : input'[i].call \in RequestNames
    BY <1>5 DEF OutputItems, HistoryItem
  <2> QED BY <1>1, <1>5, <2>2, <2>3 DEF InputKnown
<1>8. TurnKnown' /\ CacheKnown' /\ SiblingsKnown'
  BY <1>1 DEF ReplayInv, TurnKnown, CacheKnown, SiblingsKnown, Cache!Live
<1>9. RecordsKnown' /\ ContextsKnown'
  BY <1>1 DEF ReplayInv, RecordsKnown, ContextsKnown, TurnCalls, TextsOf, Cache!Live
<1>10. PhaseKnown' /\ ScanKnown'
  BY <1>1 DEF ReplayInv, PhaseKnown, ScanKnown
<1>11. SentKnown'
  <2>1. sent = <<>> /\ DOMAIN <<>> = {} /\ <<>> \in Seq(SentPart)
    BY <1>1 DEF ReplayInv, PhaseKnown
  <2> QED BY <1>1, <2>1 DEF SentKnown
<1> QED BY <1>7, <1>8, <1>9, <1>10, <1>11 DEF ReplayInv
-----------------------------------------------------------------------------
(* What a translation knows of the calls.                                  *)

(* The reasoning item has every call of the turn under names of its own.   *)
LEMMA CarriedKnown ==
  ASSUME TurnSound(turn)
  PROVE  /\ \A name : Carried(name) \subseteq TurnCalls
         /\ \A p \in TurnCalls : Carried(p.item) = IF HasReasoning THEN {p} ELSE {}
         /\ \A p \in TurnCalls : Carried(ItemName(p.item)) = IF HasReasoning THEN {p} ELSE {}
         /\ Carried(Injected) = {} /\ Carried(NoName) = {}
<1>1. \A name : Carried(name) = IF ~HasReasoning THEN {}
                               ELSE {p \in TurnCalls : name \in {p.item, ItemName(p.item), Outbound(p.id, p.item)}}
  BY DEF Carried, TurnCalls
<1>2. ASSUME NEW p \in TurnCalls
      PROVE  /\ p.item[1] = "fc" /\ ItemName(p.item)[1] = "item"
             /\ Outbound(p.id, p.item) = p.item \/ Outbound(p.id, p.item)[1] = "upstream"
  BY NameShapes, TurnCallsKnown DEF Outbound
<1>3. Injected[1] = "injected" /\ NoName[1] = "none"
  BY DEF Injected, NoName
<1>4. ASSUME NEW p \in TurnCalls, NEW q \in TurnCalls, NEW name \in {p.item, ItemName(p.item)}
      PROVE  name \in {q.item, ItemName(q.item), Outbound(q.id, q.item)} <=> p = q
  <2>1. p.item = q.item => p = q
    BY TurnCallsKnown
  <2>2. p.item \in TurnCall /\ q.item \in TurnCall /\ (ItemName(p.item) = ItemName(q.item) => p = q)
    BY <2>1, TurnCallsKnown, NameShapes
  <2> QED BY <1>2, <2>1, <2>2
<1>5. \A p \in TurnCalls : \A name \in {p.item, ItemName(p.item)} : Carried(name) = IF HasReasoning THEN {p} ELSE {}
  BY <1>1, <1>4
<1>6. Carried(Injected) = {} /\ Carried(NoName) = {}
  BY <1>1, <1>2, <1>3
<1> QED BY <1>1, <1>5, <1>6

(* An item of the request that is a call of the turn.                      *)
LEMMA OriginalKnown ==
  ASSUME ReplayInv, NEW i \in CallItems, NEW p \in OriginalOf(input[i])
  PROVE  /\ p \in TurnCalls /\ input[i].call = p.item /\ p.item \in TurnCall /\ p.item \in CallsOf(turn.parts)
         /\ input[i].sig \in {NoSig, p.sig} /\ p.sig \in Sigs \cup {NoSig}
         /\ \/ input[i].id \in {NoName, ItemName(p.item)}
            \/ p.item = Head(turn.calls) /\ input[i].id = ItemName(Last(turn.calls)) /\ MixedUp
         /\ Cache!Found(p.item) = {p.item} \cap Cache!Live
         /\ p.item \in Cache!Live => records.val[p.item] = RecordOf(p)
         /\ Carried(p.item) = IF HasReasoning THEN {p} ELSE {}
<1>1. TurnSound(turn) /\ TurnKnown /\ CacheKnown /\ RecordsKnown /\ InputKnown
  BY DEF ReplayInv, TurnKnown
<1>2. p \in TurnCalls /\ input[i].call = p.item /\ p.item \in TurnCall /\ p.item \in CallsOf(turn.parts)
      /\ p.sig \in Sigs \cup {NoSig}
  BY <1>1, TurnCallsKnown DEF OriginalOf, KnownPart
<1>3. p.item # Injected
  BY <1>2, NameShapes DEF Injected
<1>4. PICK q \in TurnCalls :
        /\ q.item = p.item /\ input[i].sig \in {NoSig, q.sig}
        /\ \/ input[i].id \in {NoName, ItemName(p.item)}
           \/ p.item = Head(turn.calls) /\ input[i].id = ItemName(Last(turn.calls)) /\ MixedUp
  BY <1>1, <1>2, <1>3 DEF InputKnown, CallKnown
<1>5. p = q
  BY <1>1, <1>2, <1>4, TurnCallsKnown
<1> QED BY <1>1, <1>2, <1>4, <1>5, FoundKnown, CarriedKnown DEF RecordsKnown

(* Every call of the request is one of the turn, or an injected one, which *)
(* nobody knows.                                                           *)
LEMMA ForeignKnown ==
  ASSUME ReplayInv, NEW i \in CallItems
  PROVE  /\ input[i] \in KnownItem /\ input[i].type = "call" /\ i \in DOMAIN input
         /\ input[i].call = Injected => /\ input[i].sig = NoSig /\ input[i].id = NoName
                                        /\ Cache!Found(Injected) = {} /\ Cache!Found(NoName) = {}
                                        /\ Carried(Injected) = {} /\ OriginalOf(input[i]) = {}
         /\ input[i].call # Injected => \E p \in OriginalOf(input[i]) : TRUE
<1>1. TurnSound(turn) /\ TurnKnown /\ CacheKnown /\ InputKnown
  BY DEF ReplayInv, TurnKnown
<1>2. input[i] \in KnownItem /\ input[i].type = "call" /\ i \in DOMAIN input /\ CallKnown(input[i])
  BY <1>1 DEF InputKnown, CallItems
<1>3. \A p \in TurnCalls : p.item # Injected
  BY <1>1, TurnCallsKnown, NameShapes DEF Injected
<1> QED BY <1>1, <1>2, <1>3, FoundKnown, CarriedKnown DEF CallKnown, OriginalOf

(* Positions in one run of calls are in one run with the same positions.   *)
LEMMA GroupsAlike ==
  ASSUME input \in Seq(KnownItem), NEW i \in CallItems
  PROVE  /\ i \in Group(i) /\ Group(i) \subseteq CallItems
         /\ \A j \in Group(i) : i \in Group(j) /\ Group(j) = Group(i)
<1>1. CallItems \subseteq Nat
  BY DEF CallItems
<1>2. Grouped(i, i)
  BY <1>1 DEF Grouped, CallItems
<1>3. ASSUME NEW a \in CallItems, NEW b \in CallItems, NEW c \in CallItems, Grouped(a, b), Grouped(b, c)
      PROVE  Grouped(a, c)
  <2> SUFFICES ASSUME NEW k \in a..c PROVE input[k].type \in {"call", "reasoning"}
    BY DEF Grouped
  <2>1. k \in a..b \/ k \in b..c
    BY <1>1
  <2> QED BY <1>3, <2>1 DEF Grouped
<1>4. ASSUME NEW a \in CallItems, NEW b \in Group(a)
      PROVE  a \in Group(b) /\ b \in CallItems /\ \A c \in Group(a) : c \in Group(b)
  <2>1. b \in CallItems /\ Grouped(a, b) /\ Grouped(b, a)
    BY DEF Group
  <2>2. ASSUME NEW c \in Group(a) PROVE c \in Group(b)
    <3>1. c \in CallItems /\ Grouped(a, c) /\ Grouped(c, a)
      BY DEF Group
    <3>2. Grouped(b, c) /\ Grouped(c, b)
      BY <1>3, <2>1, <3>1
    <3> QED BY <3>1, <3>2 DEF Group
  <2> QED BY <2>1, <2>2 DEF Group
<1>5. \A j \in Group(i) : i \in Group(j) /\ Group(j) = Group(i)
  BY <1>4
<1> QED BY <1>2, <1>5 DEF Group

LEMMA MinOfPositions ==
  ASSUME NEW S, S \subseteq Nat, S # {}
  PROVE  Min(S) \in S /\ \A x \in S : Min(S) <= x
<1>1. PICK m \in S : \A x \in S : m <= x
  BY LeastElement
<1>2. \E x \in S : \A y \in S : x <= y
  BY <1>1
<1> QED BY <1>2 DEF Min

(* A call whose record or carrier vouches for what the client sent is      *)
(* taken for signed; an injected one is not.                               *)
LEMMA SeemsSignedKnown ==
  ASSUME ReplayInv, NEW i \in CallItems
  PROVE  /\ SeemsSigned(input[i]) => input[i].call \in CallsOf(turn.parts)
         /\ \A p \in OriginalOf(input[i]) :
              ~MixedUp /\ Known(p) /\ p.sig # NoSig /\ p.body = input[i].body => SeemsSigned(input[i])
<1> DEFINE it == input[i]
<1>1. SeemsSigned(it) => it.call \in CallsOf(turn.parts)
  <2>1. CASE it.call = Injected
    <3>1. FirstFound(it.call, it.id) = {} /\ Cache!Found(it.call) \cup Cache!Found(it.id) = {} /\ it.sig = NoSig
      BY <2>1, ForeignKnown DEF FirstFound
    <3>2. CarrierSig(it) = NoSig
      BY <2>1, ForeignKnown DEF CarrierSig, FirstCarried
    <3> QED BY <3>1, <3>2 DEF SeemsSigned
  <2>2. CASE it.call # Injected
    BY <2>2, ForeignKnown, OriginalKnown
  <2> QED BY <2>1, <2>2
<1>2. ASSUME NEW p \in OriginalOf(it), ~MixedUp, Known(p), p.sig # NoSig, p.body = it.body
      PROVE  SeemsSigned(it)
  <2>1. /\ it.call = p.item /\ it.id \in {NoName, ItemName(p.item)} /\ p.item \in TurnCall /\ p \in TurnCalls
        /\ Cache!Found(p.item) = {p.item} \cap Cache!Live
        /\ p.item \in Cache!Live => records.val[p.item] = RecordOf(p)
        /\ Carried(p.item) = IF HasReasoning THEN {p} ELSE {}
    BY <1>2, OriginalKnown
  <2>2. CacheKnown /\ TurnKnown /\ TurnSound(turn)
    BY DEF ReplayInv, TurnKnown
  <2>3. FirstFound(it.call, it.id) = {p.item} \cap Cache!Live
    BY <2>1, <2>2, FoundKnown DEF FirstFound
  <2>4. FirstCarried(it) = IF HasReasoning THEN {p} ELSE {}
    BY <2>1, <2>2, CarriedKnown DEF FirstCarried
  <2> HIDE DEF it
  <2>5. ~Mismatched(it)
    BY <1>2, <2>1, <2>3, <2>4 DEF Mismatched, CacheDisagrees, CarrierDisagrees, RecordOf
  <2>6. CASE p.item \in Cache!Live
    <3>1. p.item \in Cache!Found(it.call) /\ records.val[p.item].sig # NoSig
      BY <1>2, <2>1, <2>6 DEF RecordOf
    <3> QED BY <2>5, <3>1 DEF SeemsSigned
  <2>7. CASE p.item \notin Cache!Live
    <3>1. FirstFound(it.call, it.id) = {} /\ FirstCarried(it) = {p}
      BY <1>2, <2>3, <2>4, <2>7 DEF Known
    <3>2. CarrierSig(it) # NoSig
      BY <1>2, <3>1 DEF CarrierSig
    <3> QED BY <2>5, <3>1, <3>2 DEF SeemsSigned
  <2> QED BY <2>6, <2>7
<1> QED BY <1>1, <1>2

LEMMA ScanInv == ReplayInv /\ Scan => ReplayInv'
<1> SUFFICES ASSUME ReplayInv, Scan PROVE ReplayInv'
  OBVIOUS
<1>1. /\ phase = "scanning" /\ phase' \in {"translating", "rejected"}
      /\ leads' = [i \in CallItems |-> SignedLead(i)]
      /\ callees' = [i \in OutputItems |-> ResultOf(input[i].call)]
      /\ UNCHANGED <<turn, todo, deviations, input, sent>>
      /\ UNCHANGED <<records, aliases, ambiguous, contexts, msgs, claims, ignored, since, siblings, others>>
  BY DEF Scan, cacheVars, tables, histories
<1>2. /\ TurnSound(turn) /\ InputKnown /\ input \in Seq(KnownItem) /\ CallItems \subseteq Nat
  <2>1. TurnSound(turn) /\ InputKnown /\ input \in Seq(KnownItem)
    BY DEF ReplayInv, TurnKnown, InputKnown
  <2> QED BY <2>1 DEF CallItems
<1>3. ASSUME NEW i \in CallItems
      PROVE  LET signed == {j \in Group(i) : SeemsSigned(input[j])}
             IN /\ SignedLead(i) \in CallsOf(turn.parts) \cup {NoName}
                /\ signed # {} => SignedLead(i) \in CallsOf(turn.parts)
  <2> DEFINE signed == {j \in Group(i) : SeemsSigned(input[j])}
  <2>1. SignedLead(i) = IF signed = {} THEN NoName ELSE input[Min(signed)].call
    BY DEF SignedLead
  <2>2. signed \subseteq Nat /\ signed \subseteq CallItems
    BY <1>2, GroupsAlike
  <2>3. \A j \in signed : SeemsSigned(input[j])
    OBVIOUS
  <2> HIDE DEF signed
  <2>4. signed # {} => SignedLead(i) \in CallsOf(turn.parts)
    <3> HAVE signed # {}
    <3>1. Min(signed) \in signed
      BY <2>2, MinOfPositions
    <3> QED BY <2>1, <2>2, <2>3, <3>1, SeemsSignedKnown
  <2>5. signed = {} => SignedLead(i) = NoName
    BY <2>1
  <2> QED BY <2>4, <2>5 DEF signed
<1>4. ASSUME NEW i \in CallItems, NEW j \in Group(i) PROVE SignedLead(i) = SignedLead(j)
  BY <1>2, <1>4, GroupsAlike DEF SignedLead
<1>5. ASSUME NEW i \in CallItems, NEW p \in OriginalOf(input[i]),
             ~MixedUp, Known(p), p.sig # NoSig, p.body = input[i].body
      PROVE  SignedLead(i) # NoName
  <2>1. i \in {j \in Group(i) : SeemsSigned(input[j])}
    BY <1>2, <1>5, GroupsAlike, SeemsSignedKnown
  <2>2. SignedLead(i) \in CallsOf(turn.parts)
    BY <1>3, <2>1
  <2>3. SignedLead(i) \in TurnCall
    BY <1>2, <2>2, TurnCallsKnown
  <2> QED BY <2>3, NameShapes DEF NoName
<1>6. \A i \in CallItems : input[i].call \in RequestNames
  BY <1>2, ForeignKnown, OriginalKnown DEF RequestNames
<1>7. ASSUME NEW name \in RequestNames PROVE ResultOf(name) \in RequestNames
  <2>1. \A S : S \subseteq CallItems /\ S # {} => input[Min(S)].call \in RequestNames
    <3> SUFFICES ASSUME NEW S, S \subseteq CallItems, S # {} PROVE input[Min(S)].call \in RequestNames
      OBVIOUS
    <3>1. Min(S) \in CallItems
      BY <1>2, MinOfPositions
    <3> QED BY <1>6, <3>1
  <2> DEFINE binds == [i \in CallItems |-> Own(i)]
             bound == {i \in CallItems : name \in binds[i]}
             carried == {i \in CallItems : \E p \in Carried(name) :
                           name = Outbound(p.id, p.item) /\ p.item = input[i].call}
             cached == {i \in CallItems : input[i].call \in Cache!Found(name)}
  <2>2. ResultOf(name) = IF bound # {} THEN input[Min(bound)].call
                         ELSE IF carried # {} THEN input[Min(carried)].call
                         ELSE IF cached # {} THEN input[Min(cached)].call
                         ELSE name
    BY DEF ResultOf, Callee
  <2>3. bound \subseteq CallItems /\ carried \subseteq CallItems /\ cached \subseteq CallItems
    OBVIOUS
  <2> HIDE DEF bound, carried, cached
  <2> QED BY <2>1, <2>2, <2>3
<1>8. /\ CallItems' = CallItems /\ OutputItems' = OutputItems /\ CallsOf(turn.parts)' = CallsOf(turn.parts)
      /\ \A i : Group(i)' = Group(i) /\ OriginalOf(input[i])' = OriginalOf(input[i])
      /\ MixedUp' = MixedUp /\ TurnCalls' = TurnCalls /\ \A p : Known(p)' = Known(p)
  BY <1>1 DEF CallItems, OutputItems, Group, Grouped, OriginalOf, TurnCalls, MixedUp, Known, HasReasoning, Cache!Live
<1>9. ScanKnown'
  <2>1. leads' \in [CallItems -> CallsOf(turn.parts) \cup {NoName}]
    BY <1>1, <1>3
  <2>2. callees' \in [OutputItems -> RequestNames]
    BY <1>1, <1>2, <1>7 DEF InputKnown
  <2>3. \A i \in CallItems : \A j \in Group(i) : leads'[i] = leads'[j]
    <3>1. \A i \in CallItems : Group(i) \subseteq CallItems
      BY DEF Group
    <3> QED BY <1>1, <1>4, <3>1
  <2>4. \A i \in CallItems : \A p \in OriginalOf(input[i]) :
          ~MixedUp /\ Known(p) /\ p.sig # NoSig /\ p.body = input[i].body => leads'[i] # NoName
    BY <1>1, <1>5
  <2> QED BY <1>1, <1>8, <2>1, <2>2, <2>3, <2>4 DEF ScanKnown
<1>10. TurnKnown' /\ CacheKnown' /\ SiblingsKnown'
  BY <1>1 DEF ReplayInv, TurnKnown, CacheKnown, SiblingsKnown, Cache!Live
<1>11. RecordsKnown' /\ ContextsKnown'
  BY <1>1 DEF ReplayInv, RecordsKnown, ContextsKnown, TurnCalls, TextsOf, Cache!Live
<1>12. PhaseKnown'
  BY <1>1 DEF ReplayInv, PhaseKnown
<1>13. InputKnown' /\ SentKnown'
  BY <1>1, <1>8 DEF ReplayInv, InputKnown, SentKnown, CallKnown
<1> QED BY <1>9, <1>10, <1>11, <1>12, <1>13 DEF ReplayInv

(* The signatures and ids a translation finds.                             *)
LEMMA FoundSigs ==
  ASSUME ReplayInv
  PROVE  /\ \A name : \A x \in Cache!Found(name) :
              records.val[x].sig \in Sigs \cup {NoSig} /\ UpstreamID(x) \in UpstreamIds \cup {NoId}
         /\ \A name : \A p \in Carried(name) : p.sig \in Sigs \cup {NoSig} /\ p.id \in UpstreamIds \cup {NoId}
         /\ \A it : CarrierSig(it) \in Sigs \cup {NoSig} /\ CacheSig(it) \in Sigs \cup {NoSig}
         /\ \A lead : LeadSig(lead) \in Sigs \cup {NoSig}
<1>1. TurnSound(turn) /\ TurnKnown /\ CacheKnown
  BY DEF ReplayInv, TurnKnown
<1>2. ASSUME NEW x \in Cache!Live
      PROVE  records.val[x].sig \in Sigs \cup {NoSig} /\ UpstreamID(x) \in UpstreamIds \cup {NoId}
  <2>1. records.val[x] \in Cache!Record
    BY <1>1 DEF CacheKnown, Cache!IsTable, Cache!Live
  <2>2. x \in TurnCall \cup Foreigners
    BY <1>1, FoundKnown
  <2>3. \A y \in TurnCall : UpstreamID(y) \in UpstreamIds \cup {NoId}
    BY NameShapes DEF TurnCall
  <2>4. \A y \in Foreigners : UpstreamID(y) = NoId
    BY DEF Foreigners, OtherCall, UpstreamID
  <2> QED BY <2>1, <2>2, <2>3, <2>4 DEF Cache!Record
<1>3. \A name : \A x \in Cache!Found(name) : x \in Cache!Live
  BY <1>1, FoundKnown
<1>4. \A name : \A p \in Carried(name) : p.sig \in Sigs \cup {NoSig} /\ p.id \in UpstreamIds \cup {NoId}
  BY <1>1, CarriedKnown, TurnCallsKnown DEF KnownPart
<1>5. ASSUME NEW it PROVE CarrierSig(it) \in Sigs \cup {NoSig} /\ CacheSig(it) \in Sigs \cup {NoSig}
  <2>1. FirstCarried(it) = Carried(it.call) \/ FirstCarried(it) = Carried(it.id)
    BY DEF FirstCarried
  <2>2. FirstFound(it.call, it.id) \subseteq Cache!Live
    BY <1>3 DEF FirstFound
  <2> QED BY <1>2, <1>4, <2>1, <2>2 DEF CarrierSig, CacheSig
<1>6. ASSUME NEW lead PROVE LeadSig(lead) \in Sigs \cup {NoSig}
  BY <1>2, <1>3, <1>4 DEF LeadSig
<1> QED BY <1>2, <1>3, <1>4, <1>5, <1>6

(* The policy as one choice.                                               *)
LEMMA Resolved ==
  ASSUME NEW ev
  PROVE  P!ResolveToolSignature(ev)
           = IF P!ClassifyToolCall(ev) = "mismatched" \/ ~ev.hasOutput THEN NoSig
             ELSE IF P!ClassifyToolCall(ev) = "native" THEN P!NativeSignature(ev)
             ELSE Marker
<1> DEFINE origin == P!ClassifyToolCall(ev)
<1>1. origin \in {"mismatched", "native", "foreign", "unknown"}
  BY DEF P!ClassifyToolCall
<1>2. P!ResolveToolSignature(ev)
        = CASE origin = "mismatched" \/ ~ev.hasOutput -> NoSig
            [] origin = "native" /\ ev.hasOutput -> P!NativeSignature(ev)
            [] origin \in {"foreign", "unknown"} /\ ev.hasOutput -> Marker
  BY DEF P!ResolveToolSignature
<1> HIDE DEF origin
<1>3. CASE origin = "mismatched" \/ ~ev.hasOutput
  BY <1>1, <1>2, <1>3 DEF origin
<1>4. CASE origin = "native" /\ ev.hasOutput
  BY <1>1, <1>2, <1>4 DEF origin
<1>5. CASE origin \in {"foreign", "unknown"} /\ ev.hasOutput
  BY <1>1, <1>2, <1>5 DEF origin
<1> QED BY <1>1, <1>3, <1>4, <1>5

(* The parts of the evidence about a call that the policy looks at.        *)
Disagrees(it) == CarrierDisagrees(it) \/ CacheDisagrees(it)
Given(it) == ~Disagrees(it) /\ it.sig # NoSig
Follows(i) == ~Disagrees(input[i]) /\ leads[i] \notin {NoName, input[i].call}
Sibling(i) == Follows(i) /\ RecordedSibling(input[i], leads[i])

LEMMA EvidenceKnown ==
  ASSUME NEW i
  PROVE  LET it == input[i]
             ev == Evidence(i)
         IN /\ ev.hasCarrier = (Given(it) \/ FirstCarried(it) # {})
            /\ ev.carrierSig = IF Given(it) THEN it.sig ELSE CarrierSig(it)
            /\ ev.carrierMismatch = CarrierDisagrees(it) /\ ev.cacheMismatch = CacheDisagrees(it)
            /\ ev.hasCache = (FirstFound(it.call, it.id) # {}) /\ ev.cacheSig = CacheSig(it)
            /\ ev.recordedSib = Sibling(i)
            /\ ev.leadSig = IF Sibling(i) THEN LeadSig(leads[i]) ELSE NoSig
            /\ ev.foreign = it.foreign
            /\ ev.unverified = (Follows(i) /\ ~Sibling(i) /\ Unverified(it, leads[i], ev.hasCarrier))
            /\ ev.hasOutput = (\E j \in DOMAIN callees : callees[j] = it.call)
BY Zenon DEF Evidence, Given, Follows, Sibling, Disagrees

LEMMA ResolvedKnown ==
  ASSUME ReplayInv, NEW i \in CallItems
  PROVE  P!ResolveToolSignature(Evidence(i)) \in Sigs \cup {NoSig, Marker}
<1> DEFINE ev == Evidence(i)
<1>1. input[i].sig \in Sigs \cup {NoSig}
  BY ForeignKnown DEF KnownItem
<1>2. /\ ev.carrierSig = IF Given(input[i]) THEN input[i].sig ELSE CarrierSig(input[i])
      /\ ev.cacheSig = CacheSig(input[i])
      /\ ev.leadSig = IF Sibling(i) THEN LeadSig(leads[i]) ELSE NoSig
  BY EvidenceKnown
<1> HIDE DEF ev
<1>3. ev.carrierSig \in Sigs \cup {NoSig} /\ ev.cacheSig \in Sigs \cup {NoSig} /\ ev.leadSig \in Sigs \cup {NoSig}
  BY <1>1, <1>2, FoundSigs
<1>4. P!NativeSignature(ev) \in Sigs \cup {NoSig}
  BY <1>3 DEF P!NativeSignature
<1> QED BY <1>4, Resolved DEF ev

LEMMA OutboundKnown ==
  ASSUME ReplayInv, NEW found, found = {} \/ (\E name : found = Cache!Found(name)),
         NEW name \in RequestNames, NEW carried, carried = {} \/ (\E n : carried = Carried(n))
  PROVE  Outbound(OutboundId(found, carried, name), name) \in RequestNames
<1>1. OutboundId(found, carried, name) \in UpstreamIds \cup {NoId}
  <2> DEFINE known == {p.id : p \in carried} \ {NoId}
             cached == {UpstreamID(x) : x \in found} \ {NoId}
  <2>1. OutboundId(found, carried, name) = IF known # {} THEN CHOOSE id \in known : TRUE
                                           ELSE IF cached # {} THEN CHOOSE id \in cached : TRUE
                                           ELSE NoId
    BY DEF OutboundId
  <2>2. known \subseteq UpstreamIds /\ cached \subseteq UpstreamIds
    BY FoundSigs
  <2> HIDE DEF known, cached
  <2> QED BY <2>1, <2>2
<1> QED BY <1>1 DEF Outbound, RequestNames, UpstreamNames

LEMMA TextSigKnown ==
  ASSUME ReplayInv, NEW it, it.sig \in Sigs \cup {NoSig}, NEW first
  PROVE  TextSig(it, first) \in Sigs \cup {NoSig}
<1>1. \A p \in CarriedText(it) : p.sig \in Sigs \cup {NoSig}
  BY TurnCallsKnown DEF ReplayInv, TurnKnown, CarriedText, KnownPart
<1>2. \A c : Cache!ContextSignature(c) \in Sigs \cup {NoSig}
  BY DEF ReplayInv, ContextsKnown, Cache!IsTable, Cache!ContextSignature
<1> QED BY <1>1, <1>2 DEF TextSig

(* A step that adds at most one part to what is sent.                      *)
LEMMA TranslatedInv ==
  ASSUME ReplayInv, phase = "translating", phase' \in {"translating", "sent", "rejected"},
         UNCHANGED <<cacheVars, turn, todo, deviations, input, leads, callees>>,
         \/ sent' = sent
         \/ \E part \in SentPart :
              /\ sent' = Append(sent, part) /\ part.item \in DOMAIN input
              /\ part.type = "call" => part.item \in CallItems
              /\ part.type # "message" => part.id # NoName
  PROVE  ReplayInv'
<1>1. /\ UNCHANGED <<turn, todo, deviations, input, leads, callees>>
      /\ UNCHANGED <<records, aliases, ambiguous, contexts, msgs, claims, ignored, since, siblings, others>>
  BY DEF cacheVars, tables, histories
<1>2. /\ CallItems' = CallItems /\ OutputItems' = OutputItems /\ CallsOf(turn.parts)' = CallsOf(turn.parts)
      /\ \A i : Group(i)' = Group(i) /\ OriginalOf(input[i])' = OriginalOf(input[i])
      /\ MixedUp' = MixedUp /\ TurnCalls' = TurnCalls /\ \A p : Known(p)' = Known(p)
  BY <1>1 DEF CallItems, OutputItems, Group, Grouped, OriginalOf, TurnCalls, MixedUp, Known, HasReasoning, Cache!Live
<1>3. TurnKnown' /\ CacheKnown' /\ SiblingsKnown'
  BY <1>1 DEF ReplayInv, TurnKnown, CacheKnown, SiblingsKnown, Cache!Live
<1>4. RecordsKnown' /\ ContextsKnown'
  BY <1>1 DEF ReplayInv, RecordsKnown, ContextsKnown, TurnCalls, TextsOf, Cache!Live
<1>5. PhaseKnown'
  BY <1>1 DEF ReplayInv, PhaseKnown
<1>6. InputKnown'
  BY <1>1, <1>2 DEF ReplayInv, InputKnown, CallKnown
<1>7. ScanKnown'
  BY <1>1, <1>2 DEF ReplayInv, ScanKnown
<1>8. SentKnown'
  <2>1. sent \in Seq(SentPart) /\ SentKnown
    BY DEF ReplayInv, SentKnown
  <2>2. CASE sent' = sent
    BY <1>1, <1>2, <2>1, <2>2 DEF SentKnown
  <2>3. ASSUME NEW part \in SentPart, sent' = Append(sent, part), part.item \in DOMAIN input,
               part.type = "call" => part.item \in CallItems, part.type # "message" => part.id # NoName
        PROVE  SentKnown'
    <3>1. /\ sent' \in Seq(SentPart)
          /\ \A k \in DOMAIN sent' : sent'[k] = part \/ (k \in DOMAIN sent /\ sent'[k] = sent[k])
      BY <2>1, <2>3
    <3> QED BY <1>1, <1>2, <2>1, <2>3, <3>1 DEF SentKnown
  <2> QED BY <2>2, <2>3
<1> QED BY <1>3, <1>4, <1>5, <1>6, <1>7, <1>8 DEF ReplayInv

(* What a translated item adds.                                            *)
CallName(i) ==
  LET it == input[i]
  IN Outbound(OutboundId(FirstFound(it.call, it.id), FirstCarried(it), it.call), it.call)

ResponseName(i) ==
  LET name == input[i].call
      canonical == callees[i]
      found == IF Cache!Found(canonical) # {} THEN Cache!Found(canonical) ELSE Cache!Found(name)
      carried == IF Carried(canonical) # {} THEN Carried(canonical) ELSE Carried(name)
  IN Outbound(OutboundId(found, carried, canonical), canonical)

LEMMA CallTranslated ==
  ASSUME ReplayInv, NEW i \in CallItems, TranslateCall(i)
  PROVE  \/ phase' = "rejected" /\ UNCHANGED sent
         \/ /\ phase' = phase /\ ~IdentityConflict(input[i])
            /\ P!ResolveToolSignature(Evidence(i)) # NoSig
            /\ CallName(i) \in RequestNames
            /\ sent' = Append(sent, Sent("call", i, CallName(i), P!ResolveToolSignature(Evidence(i))))
<1> DEFINE it == input[i]
           found == FirstFound(it.call, it.id)
           carried == FirstCarried(it)
           id == Outbound(OutboundId(found, carried, it.call), it.call)
           sig == P!ResolveToolSignature(Evidence(i))
<1>1. IF IdentityConflict(it) \/ sig = NoSig
      THEN phase' = "rejected" /\ UNCHANGED sent
      ELSE phase' = phase /\ sent' = Append(sent, Sent("call", i, id, sig))
  BY DEF TranslateCall
<1>2. id \in RequestNames
  <2>1. it.call \in RequestNames
    BY ForeignKnown, OriginalKnown DEF RequestNames
  <2>2. found = {} \/ (\E name : found = Cache!Found(name))
    BY DEF FirstFound
  <2>3. carried = {} \/ (\E n : carried = Carried(n))
    BY DEF FirstCarried
  <2> HIDE DEF found, carried, it
  <2> QED BY <2>1, <2>2, <2>3, OutboundKnown
<1> HIDE DEF sig
<1> QED BY <1>1, <1>2 DEF sig, CallName

LEMMA OutputTranslated ==
  ASSUME ReplayInv, phase = "translating", NEW i \in OutputItems, TranslateOutput(i)
  PROVE  /\ phase' = phase /\ ResponseName(i) \in RequestNames
         /\ sent' = Append(sent, Sent("response", i, ResponseName(i), NoSig))
<1> DEFINE name == input[i].call
           canonical == callees[i]
           found == IF Cache!Found(canonical) # {} THEN Cache!Found(canonical) ELSE Cache!Found(name)
           carried == IF Carried(canonical) # {} THEN Carried(canonical) ELSE Carried(name)
           id == Outbound(OutboundId(found, carried, canonical), canonical)
<1>1. phase' = phase /\ sent' = Append(sent, Sent("response", i, id, NoSig))
  BY DEF TranslateOutput
<1>2. canonical \in RequestNames
  BY DEF ReplayInv, ScanKnown
<1>3. (\E n : found = Cache!Found(n)) /\ (\E n : carried = Carried(n))
  OBVIOUS
<1>4. id \in RequestNames
  <2> HIDE DEF found, carried, canonical
  <2> QED BY <1>2, <1>3, OutboundKnown
<1> QED BY <1>1, <1>4 DEF ResponseName

LEMMA MessageTranslated ==
  ASSUME ReplayInv, NEW i \in DOMAIN input, TranslateMessage(i)
  PROVE  /\ phase' = phase
         /\ \/ sent' = sent
            \/ \E sig \in Sigs \cup {NoSig} :
                 sig = TextSig(input[i], i = 1) /\ sent' = Append(sent, Sent("message", i, NoName, sig))
<1> DEFINE sig == TextSig(input[i], i = 1)
<1>1. phase' = phase /\ (sent' = sent \/ sent' = Append(sent, Sent("message", i, NoName, sig)))
  BY DEF TranslateMessage
<1>2. input[i].sig \in Sigs \cup {NoSig}
  <2>1. input[i] \in KnownItem
    BY DEF ReplayInv, InputKnown
  <2> QED BY <2>1 DEF KnownItem
<1>3. sig \in Sigs \cup {NoSig}
  BY <1>2, TextSigKnown
<1> QED BY <1>1, <1>3

LEMMA SentTyped ==
  ASSUME NEW type \in {"call", "response", "message"}, NEW item \in Nat, NEW id \in RequestNames \cup {NoName},
         NEW sig \in Sigs \cup {NoSig, Marker}
  PROVE  /\ Sent(type, item, id, sig) \in SentPart
         /\ Sent(type, item, id, sig).type = type /\ Sent(type, item, id, sig).item = item
         /\ Sent(type, item, id, sig).id = id /\ Sent(type, item, id, sig).sig = sig
BY DEF Sent, SentPart

LEMMA NoNameUsed == NoName \notin RequestNames
<1>1. NoName[1] = "none" /\ Injected[1] = "injected"
  BY DEF NoName, Injected
<1>2. \A x \in UpstreamNames : x[1] = "upstream"
  BY DEF UpstreamNames
<1> QED BY <1>1, <1>2, NameShapes DEF RequestNames

LEMMA TranslateInv == ReplayInv /\ Translate => ReplayInv'
<1> SUFFICES ASSUME ReplayInv, Translate PROVE ReplayInv'
  OBVIOUS
<1>1. /\ phase = "translating" /\ UNCHANGED <<cacheVars, turn, todo, deviations, input, leads, callees>>
      /\ input \in Seq(KnownItem)
  BY DEF Translate, ReplayInv, InputKnown
<1>2. PICK i \in DOMAIN input :
        /\ NextItem(i)
        /\ CASE input[i].type = "call" -> TranslateCall(i)
             [] input[i].type = "output" -> TranslateOutput(i)
             [] input[i].type = "message" -> TranslateMessage(i)
  BY DEF Translate
<1>3. i \in Nat /\ input[i].type \in {"call", "output", "message"}
  <2>1. input[i].type \in {"reasoning", "message", "call", "output"}
    <3>1. input[i] \in KnownItem
      BY <1>1, <1>2
    <3> QED BY <3>1 DEF KnownItem
  <2> QED BY <1>1, <1>2, <2>1 DEF NextItem
<1>4. CASE input[i].type = "call"
  <2>1. i \in CallItems /\ TranslateCall(i)
    BY <1>2, <1>4 DEF CallItems
  <2> DEFINE sig == P!ResolveToolSignature(Evidence(i))
  <2>2. sig \in Sigs \cup {NoSig, Marker}
    BY <2>1, ResolvedKnown
  <2>3. \/ phase' = "rejected" /\ UNCHANGED sent
        \/ phase' = phase /\ \E id \in RequestNames : sent' = Append(sent, Sent("call", i, id, sig))
    BY <2>1, CallTranslated
  <2> HIDE DEF sig
  <2>4. CASE phase' = "rejected" /\ UNCHANGED sent
    BY <1>1, <2>4, TranslatedInv
  <2>5. ASSUME phase' = phase, NEW id \in RequestNames, sent' = Append(sent, Sent("call", i, id, sig)) PROVE ReplayInv'
    <3>1. /\ Sent("call", i, id, sig) \in SentPart /\ Sent("call", i, id, sig).item = i
          /\ Sent("call", i, id, sig).id # NoName
      BY <1>3, <2>2, SentTyped, NoNameUsed
    <3> QED BY <1>1, <1>2, <2>1, <2>5, <3>1, TranslatedInv
  <2> QED BY <2>3, <2>4, <2>5
<1>5. CASE input[i].type = "output"
  <2>1. i \in OutputItems /\ TranslateOutput(i)
    BY <1>2, <1>5 DEF OutputItems
  <2>2. PICK id \in RequestNames : phase' = phase /\ sent' = Append(sent, Sent("response", i, id, NoSig))
    BY <1>1, <2>1, OutputTranslated
  <2>3. /\ Sent("response", i, id, NoSig) \in SentPart /\ Sent("response", i, id, NoSig).item = i
        /\ Sent("response", i, id, NoSig).id # NoName /\ Sent("response", i, id, NoSig).type = "response"
    BY <1>3, <2>2, SentTyped, NoNameUsed
  <2> QED BY <1>1, <1>2, <2>2, <2>3, TranslatedInv
<1>6. CASE input[i].type = "message"
  <2>1. TranslateMessage(i)
    BY <1>2, <1>6
  <2>2. phase' = phase /\ (sent' = sent \/ \E sig \in Sigs \cup {NoSig} : sent' = Append(sent, Sent("message", i, NoName, sig)))
    BY <1>2, <2>1, MessageTranslated
  <2>3. CASE sent' = sent
    BY <1>1, <2>2, <2>3, TranslatedInv
  <2>4. ASSUME NEW sig \in Sigs \cup {NoSig}, sent' = Append(sent, Sent("message", i, NoName, sig)) PROVE ReplayInv'
    <3>1. /\ Sent("message", i, NoName, sig) \in SentPart /\ Sent("message", i, NoName, sig).item = i
          /\ Sent("message", i, NoName, sig).type = "message"
      BY <1>3, SentTyped
    <3> QED BY <1>1, <1>2, <2>2, <2>4, <3>1, TranslatedInv
  <2> QED BY <2>2, <2>3, <2>4
<1> QED BY <1>3, <1>4, <1>5, <1>6

LEMMA SendInv == ReplayInv /\ Send => ReplayInv'
<1> SUFFICES ASSUME ReplayInv, Send PROVE ReplayInv'
  OBVIOUS
<1>1. phase = "translating" /\ phase' = "sent" /\ UNCHANGED <<cacheVars, turn, todo, deviations, input, leads, callees>>
      /\ sent' = sent
  BY DEF Send, requestVars
<1> QED BY <1>1, TranslatedInv

LEMMA StutterInv == ReplayInv /\ UNCHANGED vars => ReplayInv'
<1> SUFFICES ASSUME ReplayInv, UNCHANGED vars PROVE ReplayInv'
  OBVIOUS
<1>1. /\ UNCHANGED <<phase, turn, todo, deviations, input, leads, callees, sent>>
      /\ UNCHANGED <<records, aliases, ambiguous, contexts, msgs, claims, ignored, since, siblings, others>>
  BY DEF vars, cacheVars, tables, histories
<1>2. /\ CallItems' = CallItems /\ OutputItems' = OutputItems /\ CallsOf(turn.parts)' = CallsOf(turn.parts)
      /\ \A i : Group(i)' = Group(i) /\ OriginalOf(input[i])' = OriginalOf(input[i])
      /\ MixedUp' = MixedUp /\ TurnCalls' = TurnCalls /\ \A p : Known(p)' = Known(p)
  BY <1>1 DEF CallItems, OutputItems, Group, Grouped, OriginalOf, TurnCalls, MixedUp, Known, HasReasoning, Cache!Live
<1>3. TurnKnown' /\ CacheKnown' /\ SiblingsKnown'
  BY <1>1 DEF ReplayInv, TurnKnown, CacheKnown, SiblingsKnown, Cache!Live
<1>4. RecordsKnown' /\ ContextsKnown'
  BY <1>1 DEF ReplayInv, RecordsKnown, ContextsKnown, TurnCalls, TextsOf, Cache!Live
<1>5. PhaseKnown'
  BY <1>1 DEF ReplayInv, PhaseKnown, Cache!Live
<1>6. InputKnown'
  BY <1>1, <1>2 DEF ReplayInv, InputKnown, CallKnown
<1>7. ScanKnown' /\ SentKnown'
  <2>1. ScanKnown /\ SentKnown
    BY DEF ReplayInv
  <2>2. ScanKnown'
    BY <1>1, <1>2, <2>1 DEF ScanKnown
  <2>3. SentKnown'
    BY <1>1, <1>2, <2>1 DEF SentKnown
  <2> QED BY <2>2, <2>3
<1> QED BY <1>3, <1>4, <1>5, <1>6, <1>7 DEF ReplayInv

LEMMA InvStep == ReplayInv /\ FileKnown /\ [Next]_vars => ReplayInv'
BY AnswerInv, StorePutInv, NothingToStoreInv, ReplayStep, ScanInv, TranslateInv, SendInv, OthersInv, SaveInv, RestartInv,
   StutterInv
   DEF Next

(* The translation goes on or the request is rejected.                     *)
LEMMA TranslatePhase ==
  ASSUME ReplayInv, Translate
  PROVE  phase = "translating" /\ phase' \in {"translating", "rejected"}
<1>1. PICK i \in DOMAIN input :
        /\ NextItem(i)
        /\ CASE input[i].type = "call" -> TranslateCall(i)
             [] input[i].type = "output" -> TranslateOutput(i)
             [] input[i].type = "message" -> TranslateMessage(i)
  BY DEF Translate
<1>2. input[i].type \in {"call", "output", "message"}
  <2>1. input[i] \in KnownItem
    BY <1>1 DEF ReplayInv, InputKnown
  <2> QED BY <1>1, <2>1 DEF NextItem, KnownItem
<1>3. /\ TranslateCall(i) => phase' \in {phase, "rejected"}
      /\ TranslateOutput(i) \/ TranslateMessage(i) => phase' = phase
  BY DEF TranslateCall, TranslateOutput, TranslateMessage
<1>4. phase = "translating"
  BY DEF Translate
<1> QED BY <1>1, <1>2, <1>3, <1>4

(* Only a save writes the file.                                            *)
LEMMA FileUnchanged ==
  ASSUME ReplayInv, [Next]_vars, ~Answer, ~SaveStep
  PROVE  UNCHANGED <<turn, file>> /\ (phase' = "idle" => phase = "idle")
<1>1. CASE StorePut
  <2>1. /\ phase = "storing" /\ todo # <<>> /\ Apply(Head(todo)) /\ UNCHANGED turn
        /\ phase' \in {"answered", "storing"}
    BY <1>1 DEF StorePut
  <2>2. Head(todo) \in TurnPuts(turn)
    BY <2>1 DEF ReplayInv, PhaseKnown
  <2>3. Head(todo).op \in {"tool", "message", "context", "siblings"}
    BY <2>2, PutKinds DEF ToolPut, MessagePut, ContextPut, SiblingsPut
  <2>4. UNCHANGED disk
    BY <2>1, <2>3 DEF Apply, RecordTurnSiblings
  <2> QED BY <2>1, <2>4 DEF disk
<1>2. CASE NothingToStore \/ Replay \/ Scan \/ Send
  BY <1>2 DEF NothingToStore, Replay, Scan, Send, cacheVars, disk
<1>3. CASE Translate
  <2>1. UNCHANGED <<turn, file>>
    BY <1>3 DEF Translate, cacheVars, disk
  <2> QED BY <1>3, <2>1, TranslatePhase
<1>4. CASE Others
  BY <1>4 DEF Others, OtherPut, disk
<1>5. CASE Restart
  BY <1>5 DEF Restart, RestartSaved
<1>6. CASE UNCHANGED vars
  BY <1>6 DEF vars, cacheVars, disk
<1> QED BY <1>1, <1>2, <1>3, <1>4, <1>5, <1>6 DEF Next

(* The file stays that of the turn.                                        *)
LEMMA FileStep ==
  ASSUME ReplayInv, FileKnown, [Next]_vars
  PROVE  FileKnown'
<1>1. CASE Answer
  <2>1. phase = "idle" /\ phase' = "storing" /\ UNCHANGED file
    BY <1>1 DEF Answer, cacheVars, disk
  <2>2. DOMAIN file.records.val = {} /\ DOMAIN file.contexts.val = {} /\ DOMAIN file.siblings = {} /\ FileSound(file)
    BY <2>1 DEF FileKnown
  <2>3. FileRecordsKnown(file)'
    BY <2>1, <2>2 DEF FileSound, FileRecordsKnown
  <2>4. FileTextsKnown(file)' /\ FileHistoriesKnown(file)' /\ FileSiblingsKnown(file)'
    BY <2>1, <2>2 DEF FileSound, FileTextsKnown, FileHistoriesKnown, FileSiblingsKnown
  <2> QED BY <2>1, <2>3, <2>4 DEF FileKnown, FileSound
<1>2. CASE SaveStep
  <2>1. UNCHANGED turn /\ phase' = phase /\ phase # "idle" /\ file' = Memory
    BY <1>2 DEF SaveStep, Save
  <2>2. PICK m : m = Memory
    OBVIOUS
  <2>3. FileSound(m)
    BY <2>2, MemorySound DEF ReplayInv
  <2>4. FileSound(file)'
    BY <2>1, <2>2, <2>3, FileSame
  <2> QED BY <2>1, <2>4 DEF FileKnown
<1>3. CASE ~Answer /\ ~SaveStep
  <2>1. UNCHANGED <<turn, file>> /\ (phase' = "idle" => phase = "idle")
    BY <1>3, FileUnchanged
  <2> QED BY <2>1, FileSame DEF FileKnown
<1> QED BY <1>1, <1>2, <1>3

(* Cache, turn and request belong together throughout: ReplayInv, which    *)
(* all that follows rests on, holds of every run.                          *)
LEMMA FileHolds == Spec => [](ReplayInv /\ FileKnown)
BY InitInv, InvStep, FileStep, PTL DEF Spec

THEOREM InvHolds == Spec => []ReplayInv
BY FileHolds, PTL

-----------------------------------------------------------------------------
(* What a step adds to the parts that are sent.                            *)
MessageSent(i) == input[i].type = "message" /\ sent' = Append(sent, Sent("message", i, NoName, TextSig(input[i], i = 1)))
ResponseSent(i) == i \in OutputItems /\ sent' = Append(sent, Sent("response", i, ResponseName(i), NoSig))
CallSent(i) ==
  /\ i \in CallItems /\ ~IdentityConflict(input[i]) /\ P!ResolveToolSignature(Evidence(i)) # NoSig
  /\ sent' = Append(sent, Sent("call", i, CallName(i), P!ResolveToolSignature(Evidence(i))))

Shrunk ==
  \A x \in Cache!Live' \ Foreigners : x \in Cache!Live /\ records'.val[x] = records.val[x]

LEMMA SentStep ==
  ASSUME ReplayInv, [Next]_vars
  PROVE  \/ sent' = <<>> /\ phase' # "sent"
         \/ /\ UNCHANGED <<turn, deviations, input, leads, callees, sent>> /\ Shrunk
            /\ phase' = "sent" => phase = "sent" \/ ~\E i \in DOMAIN input : NextItem(i)
         \/ /\ UNCHANGED <<cacheVars, turn, deviations, input, leads, callees>>
            /\ phase = "translating" /\ phase' = "translating"
            /\ \E i \in DOMAIN input : NextItem(i) /\ (MessageSent(i) \/ ResponseSent(i) \/ CallSent(i))
<1>1. phase \in {"idle", "storing", "answered", "scanning"} => sent = <<>>
  BY DEF ReplayInv, PhaseKnown
<1>2. UNCHANGED cacheVars => Shrunk
  BY DEF Shrunk, cacheVars, tables, Cache!Live
<1>3. CASE Answer \/ StorePut \/ NothingToStore \/ Replay \/ Scan \/ SaveStep \/ Restart
  <2>1. phase \in {"idle", "storing", "answered", "scanning"} /\ sent' = sent /\ phase' # "sent"
    BY <1>3 DEF Answer, StorePut, NothingToStore, Replay, Scan, SaveStep, Restart, requestVars
  <2> QED BY <1>1, <2>1
<1>4. CASE Translate
  <2>1. /\ phase = "translating" /\ UNCHANGED <<cacheVars, turn, todo, deviations, input, leads, callees>>
    BY <1>4 DEF Translate
  <2>2. PICK i \in DOMAIN input :
          /\ NextItem(i)
          /\ CASE input[i].type = "call" -> TranslateCall(i)
               [] input[i].type = "output" -> TranslateOutput(i)
               [] input[i].type = "message" -> TranslateMessage(i)
    BY <1>4 DEF Translate
  <2>3. input[i].type \in {"call", "output", "message"}
    <3>1. input[i] \in KnownItem
      BY <2>2 DEF ReplayInv, InputKnown
    <3> QED BY <2>2, <3>1 DEF NextItem, KnownItem
  <2>4. CASE input[i].type = "call"
    <3>1. i \in CallItems /\ TranslateCall(i)
      BY <2>2, <2>4 DEF CallItems
    <3>2. \/ UNCHANGED sent /\ phase' = "rejected"
          \/ CallSent(i) /\ phase' = phase
      BY <3>1, CallTranslated DEF CallSent
    <3> QED BY <1>2, <2>1, <2>2, <3>2
  <2>5. CASE input[i].type = "output"
    <3>1. i \in OutputItems /\ TranslateOutput(i)
      BY <2>2, <2>5 DEF OutputItems
    <3>2. ResponseSent(i) /\ phase' = phase
      BY <2>1, <3>1, OutputTranslated DEF ResponseSent
    <3> QED BY <2>1, <2>2, <3>2
  <2>6. CASE input[i].type = "message"
    <3>1. TranslateMessage(i)
      BY <2>2, <2>6
    <3>2. phase' = phase /\ (sent' = sent \/ MessageSent(i))
      BY <2>2, <2>6, <3>1, MessageTranslated DEF MessageSent
    <3> QED BY <1>2, <2>1, <2>2, <3>2
  <2> QED BY <2>3, <2>4, <2>5, <2>6
<1>5. CASE Send
  BY <1>2, <1>5 DEF Send, requestVars
<1>6. CASE Others
  <2>1. OtherPut /\ UNCHANGED turn /\ UNCHANGED <<deviations, input, leads, callees, sent>> /\ phase' = phase
    BY <1>6 DEF Others, requestVars
  <2>2. CacheKnown /\ TurnKnown
    BY DEF ReplayInv
  <2>3. Shrunk
    BY <2>1, <2>2, OtherPutShrinks DEF Shrunk
  <2> QED BY <2>1, <2>3
<1>7. CASE UNCHANGED vars
  BY <1>2, <1>7 DEF vars, cacheVars
<1> QED BY <1>3, <1>4, <1>5, <1>6, <1>7 DEF Next

(* The parts sent before a step, and the one it adds.                      *)
LEMMA SentAppended ==
  ASSUME ReplayInv, NEW part, sent' = Append(sent, part)
  PROVE  \A k \in DOMAIN sent' : sent'[k] = part \/ (k \in DOMAIN sent /\ sent'[k] = sent[k])
<1>1. sent \in Seq(SentPart)
  BY DEF ReplayInv, SentKnown
<1> QED BY <1>1

(* A call that was evicted is not known again.                             *)
LEMMA KnownShrinks ==
  ASSUME ReplayInv, UNCHANGED <<turn, input>>, Shrunk
  PROVE  /\ TurnCalls' = TurnCalls /\ \A it : OriginalOf(it)' = OriginalOf(it)
         /\ \A it : \A p \in OriginalOf(it) : Known(p)' => Known(p)
         /\ \A p \in TurnCalls : Known(p)' => Known(p)
         /\ CallItems' = CallItems
<1>1. TurnCalls' = TurnCalls /\ \A it : OriginalOf(it)' = OriginalOf(it)
  BY DEF TurnCalls, OriginalOf
<1>2. TurnSound(turn)
  BY DEF ReplayInv, TurnKnown
<1>3. \A p \in TurnCalls : p.item \notin Foreigners
  BY <1>2, TurnCallsKnown, NameShapes
<1>4. \A p \in TurnCalls : Known(p)' => Known(p)
  BY <1>3 DEF Known, HasReasoning, Shrunk
<1> QED BY <1>1, <1>4 DEF OriginalOf, CallItems

(* A call that was sent is still what it was, or it is being sent now.     *)
LEMMA SentCallStep ==
  ASSUME ReplayInv, [Next]_vars, NEW k \in SentCalls'
  PROVE  /\ UNCHANGED <<turn, deviations, input, leads, callees>> /\ TurnCalls' = TurnCalls
         /\ \A it : OriginalOf(it)' = OriginalOf(it)
         /\ \A it : \A p \in OriginalOf(it) : Known(p)' => Known(p)
         /\ \/ k \in SentCalls /\ sent'[k] = sent[k]
            \/ \E i \in CallItems : /\ ~IdentityConflict(input[i]) /\ phase = "translating"
                                    /\ sent'[k].item = i /\ sent'[k].sig = P!ResolveToolSignature(Evidence(i))
                                    /\ sent'[k].sig # NoSig /\ sent'[k].id = CallName(i)
<1>1. k \in DOMAIN sent' /\ sent'[k].type = "call"
  BY DEF SentCalls
<1>2. CASE sent' = <<>>
  BY <1>1, <1>2
<1>3. CASE UNCHANGED <<turn, deviations, input, leads, callees, sent>> /\ Shrunk
  <2>1. k \in SentCalls /\ sent'[k] = sent[k]
    BY <1>1, <1>3 DEF SentCalls
  <2> QED BY <1>3, <2>1, KnownShrinks
<1>4. ASSUME UNCHANGED <<cacheVars, turn, deviations, input, leads, callees>>, phase = "translating",
             NEW i \in DOMAIN input, MessageSent(i) \/ ResponseSent(i) \/ CallSent(i)
      PROVE  /\ UNCHANGED <<turn, deviations, input, leads, callees>> /\ TurnCalls' = TurnCalls
             /\ \A it : OriginalOf(it)' = OriginalOf(it)
             /\ \A it : \A p \in OriginalOf(it) : Known(p)' => Known(p)
             /\ \/ k \in SentCalls /\ sent'[k] = sent[k]
                \/ \E j \in CallItems : /\ ~IdentityConflict(input[j]) /\ phase = "translating"
                                        /\ sent'[k].item = j /\ sent'[k].sig = P!ResolveToolSignature(Evidence(j))
                                        /\ sent'[k].sig # NoSig /\ sent'[k].id = CallName(j)
  <2>1. Shrunk
    BY <1>4 DEF Shrunk, cacheVars, tables, Cache!Live
  <2>2. CASE k \in DOMAIN sent /\ sent'[k] = sent[k]
    <3>1. k \in SentCalls
      BY <1>1, <2>2 DEF SentCalls
    <3> QED BY <1>4, <2>1, <2>2, <3>1, KnownShrinks
  <2>3. CASE ~(k \in DOMAIN sent /\ sent'[k] = sent[k])
    <3>1. ASSUME NEW part, sent' = Append(sent, part) PROVE part.type = "call" /\ sent'[k] = part
      <4>1. sent'[k] = part
        BY <1>1, <2>3, <3>1, SentAppended
      <4> QED BY <1>1, <4>1
    <3>2. CallSent(i)
      <4>1. ~MessageSent(i)
        <5> DEFINE sig == TextSig(input[i], i = 1)
        <5>1. Sent("message", i, NoName, sig).type = "message"
          BY DEF Sent
        <5> QED BY <3>1, <5>1 DEF MessageSent
      <4>2. ~ResponseSent(i)
        <5>1. \A id : Sent("response", i, id, NoSig).type = "response"
          BY DEF Sent
        <5> QED BY <3>1, <5>1 DEF ResponseSent
      <4> QED BY <1>4, <4>1, <4>2
    <3> DEFINE sig == P!ResolveToolSignature(Evidence(i))
               id == CallName(i)
    <3>3. i \in CallItems /\ ~IdentityConflict(input[i]) /\ sig # NoSig /\ sent' = Append(sent, Sent("call", i, id, sig))
      BY <3>2 DEF CallSent
    <3> HIDE DEF sig, id
    <3>4. sent'[k].item = i /\ sent'[k].sig = sig /\ sent'[k].id = id
      <4>1. sent'[k] = Sent("call", i, id, sig)
        BY <3>1, <3>3
      <4> QED BY <4>1 DEF Sent
    <3> QED BY <1>4, <2>1, <3>3, <3>4, KnownShrinks DEF sig, id
  <2> QED BY <2>2, <2>3
<1> QED BY <1>2, <1>3, <1>4, SentStep

-----------------------------------------------------------------------------
(* The properties.                                                         *)

(* A known call that is not rejected is what the upstream gave.            *)
LEMMA KnownCall ==
  ASSUME ReplayInv, NEW i \in CallItems, NEW p \in OriginalOf(input[i]), Known(p),
         P!ResolveToolSignature(Evidence(i)) # NoSig
  PROVE  /\ ~Disagrees(input[i]) /\ p.body = input[i].body
         /\ P!ResolveToolSignature(Evidence(i)) = P!NativeSignature(Evidence(i))
         /\ ~P!Contradictory(Evidence(i))
<1> DEFINE it == input[i]
           ev == Evidence(i)
<1>1. P!ClassifyToolCall(ev) # "mismatched"
  <2> HIDE DEF ev
  <2> QED BY Resolved DEF ev
<1>2. /\ ev.carrierMismatch = CarrierDisagrees(it) /\ ev.cacheMismatch = CacheDisagrees(it)
      /\ ev.hasCarrier = (Given(it) \/ FirstCarried(it) # {})
      /\ ev.hasCache = (FirstFound(it.call, it.id) # {})
  BY EvidenceKnown
<1>3. /\ it.call = p.item /\ Cache!Found(p.item) = {p.item} \cap Cache!Live
      /\ p.item \in Cache!Live => records.val[p.item] = RecordOf(p)
      /\ Carried(p.item) = IF HasReasoning THEN {p} ELSE {}
  BY OriginalKnown
<1> HIDE DEF ev, it
<1>4. ~CarrierDisagrees(it) /\ ~CacheDisagrees(it) /\ ~P!Contradictory(ev)
  BY <1>1, <1>2 DEF P!ClassifyToolCall
<1>5. p.body = it.body /\ (FirstCarried(it) # {} \/ FirstFound(it.call, it.id) # {})
  <2>1. CASE p.item \in Cache!Live
    <3>1. FirstFound(it.call, it.id) = {p.item} /\ records.val[p.item].call = p.body
      BY <1>3, <2>1 DEF FirstFound, RecordOf
    <3> QED BY <1>4, <3>1 DEF CacheDisagrees
  <2>2. CASE p.item \notin Cache!Live
    <3>1. FirstCarried(it) = {p}
      BY <1>3, <2>2 DEF FirstCarried, Known
    <3> QED BY <1>4, <3>1 DEF CarrierDisagrees
  <2> QED BY <2>1, <2>2
<1>6. ev.hasCarrier \/ ev.hasCache
  BY <1>2, <1>5
<1>7. P!ClassifyToolCall(ev) = "native"
  BY <1>1, <1>6 DEF P!ClassifyToolCall
<1>8. P!ResolveToolSignature(ev) = P!NativeSignature(ev)
  <2>1. P!ResolveToolSignature(ev) # NoSig
    BY DEF ev
  <2> QED BY <1>7, <2>1, Resolved
<1> QED BY <1>4, <1>5, <1>8 DEF Disagrees, ev, it

(* What is sent upstream is, for every call the bridge knows, what the     *)
(* upstream gave (checkToolContent, ClassifyToolCall).                     *)
THEOREM AlteredIsNeverSent == Spec => []AlteredNeverSent
<1>1. Init => AlteredNeverSent
  BY DEF Init, AlteredNeverSent, SentCalls
<1>2. ReplayInv /\ AlteredNeverSent /\ [Next]_vars => AlteredNeverSent'
  <2> SUFFICES ASSUME ReplayInv, AlteredNeverSent, [Next]_vars,
                      NEW k \in SentCalls', NEW p \in OriginalOf(ItemSent(k))', Known(p)'
               PROVE  ItemSent(k)'.body = p.body
    BY DEF AlteredNeverSent
  <2>1. /\ input' = input /\ \A it : OriginalOf(it)' = OriginalOf(it)
        /\ \A it : \A q \in OriginalOf(it) : Known(q)' => Known(q)
    BY SentCallStep
  <2>2. CASE k \in SentCalls /\ sent'[k] = sent[k]
    <3>1. ItemSent(k)' = ItemSent(k)
      BY <2>1, <2>2 DEF ItemSent
    <3>2. p \in OriginalOf(ItemSent(k)) /\ Known(p)
      BY <2>1, <3>1
    <3> QED BY <2>2, <3>1, <3>2 DEF AlteredNeverSent
  <2>3. ASSUME NEW i \in CallItems, sent'[k].item = i, P!ResolveToolSignature(Evidence(i)) # NoSig
        PROVE  ItemSent(k)'.body = p.body
    <3>1. ItemSent(k)' = input[i]
      BY <2>1, <2>3 DEF ItemSent
    <3>2. p \in OriginalOf(input[i]) /\ Known(p)
      BY <2>1, <3>1
    <3> QED BY <2>3, <3>1, <3>2, KnownCall
  <2> QED BY <2>2, <2>3, SentCallStep
<1> QED BY <1>1, <1>2, InvHolds, PTL DEF Spec

(* The signed call of a group is one of the turn.                          *)
LEMMA LeadKnown ==
  ASSUME ReplayInv, phase = "translating", NEW i \in CallItems
  PROVE  leads[i] # NoName => \E q \in TurnCalls : q.item = leads[i]
<1>1. TurnSound(turn) /\ leads[i] \in CallsOf(turn.parts) \cup {NoName}
  BY DEF ReplayInv, TurnKnown, ScanKnown
<1> QED BY <1>1, TurnCallsKnown

(* Whoever is recorded as a sibling is the first call or follows it.       *)
LEMMA SiblingsOfTurn ==
  ASSUME ReplayInv, phase = "translating", NEW x, NEW y, y \in SiblingsOf(x)
  PROVE  x = Head(turn.calls) /\ y \in ToSet(Tail(turn.calls)) /\ y \in TurnCall
<1>1. x = Head(turn.calls) /\ y \in ToSet(Tail(turn.calls)) /\ Len(turn.calls) > 1
  BY DEF ReplayInv, SiblingsKnown, SiblingsOf
<1>2. turn.calls \in Seq(TurnCall) /\ turn.calls # <<>>
  BY <1>1 DEF ReplayInv, TurnKnown, TurnSound
<1>3. Tail(turn.calls) \in Seq(TurnCall)
  BY <1>2
<1>4. \A s \in Seq(TurnCall) : ToSet(s) \subseteq TurnCall
  BY DEF ToSet
<1> QED BY <1>1, <1>3, <1>4

(* A lead only vouches for calls it is related to, one of them the first.  *)
LEMMA SiblingRelated ==
  ASSUME ReplayInv, phase = "translating", NEW i \in CallItems, NEW p \in OriginalOf(input[i]), Sibling(i)
  PROVE  \E q \in Related(p) : q.item = leads[i]
<1>1. /\ p \in TurnCalls /\ input[i].call = p.item /\ p.item \in TurnCall
      /\ \/ input[i].id \in {NoName, ItemName(p.item)}
         \/ p.item = Head(turn.calls) /\ input[i].id = ItemName(Last(turn.calls))
  BY OriginalKnown
<1>2. leads[i] \notin {NoName, p.item} /\ RecordedSibling(input[i], leads[i])
  BY <1>1 DEF Sibling, Follows
<1>3. PICK q \in TurnCalls : q.item = leads[i]
  BY <1>2, LeadKnown
<1>4. TurnSound(turn) /\ TurnKnown /\ CacheKnown /\ q.item \in TurnCall
  BY <1>3, TurnCallsKnown DEF ReplayInv, TurnKnown
<1>5. turn.calls \in Seq(TurnCall) /\ turn.calls[1] = Head(turn.calls)
  BY <1>4 DEF TurnSound
<1>6. Head(turn.calls) \in {p.item, q.item}
  <2>1. CASE p.item \in CarriedSiblings(q.item)
    <3>1. q.item \in DOMAIN TurnSiblings(turn)
      BY <2>1 DEF CarriedSiblings
    <3>2. DOMAIN <<>> = {}
      OBVIOUS
    <3>3. TurnSiblings(turn) = IF Len(turn.calls) > 1 THEN [lead \in {Head(turn.calls)} |-> ToSet(Tail(turn.calls))] ELSE <<>>
      BY DEF TurnSiblings
    <3> QED BY <3>1, <3>2, <3>3
  <2>2. Canonical(p.item) = p.item /\ Canonical(q.item) = q.item
        /\ \A y \in TurnCall : Canonical(ItemName(y)) \in {y, ItemName(y)}
    BY <1>1, <1>4, FoundKnown
  <2>3. CASE IsVerifiedSibling(q.item, p.item)
    BY <2>2, <2>3, SiblingsOfTurn DEF IsVerifiedSibling
  <2>4. CASE input[i].id # NoName /\ IsVerifiedSibling(q.item, input[i].id) /\ p.item # Head(turn.calls)
    <3>1. input[i].id = ItemName(p.item)
      BY <1>1, <2>4
    <3>2. PICK y \in {p.item, ItemName(p.item)} : Canonical(input[i].id) = y
      BY <1>1, <2>2, <3>1
    <3>3. y \in SiblingsOf(q.item) \/ q.item \in SiblingsOf(y)
      BY <2>2, <2>4, <3>2 DEF IsVerifiedSibling
    <3>4. CASE y \in SiblingsOf(q.item)
      BY <3>4, SiblingsOfTurn
    <3>5. CASE q.item \in SiblingsOf(y)
      <4>1. y = Head(turn.calls) /\ Len(turn.calls) > 1
        BY <3>5, SiblingsOfTurn DEF ReplayInv, SiblingsKnown, SiblingsOf
      <4>2. y \in TurnCall
        BY <1>5, <4>1
      <4>3. \A z \in TurnCall : z[1] = "fc" /\ ItemName(z)[1] = "item"
        BY NameShapes
      <4>4. y = p.item
        BY <1>1, <4>2, <4>3
      <4> QED BY <4>1, <4>4
    <3> QED BY <3>3, <3>4, <3>5
  <2>5. p.item \in CarriedSiblings(q.item) \/ IsVerifiedSibling(q.item, p.item)
        \/ (input[i].id # NoName /\ IsVerifiedSibling(q.item, input[i].id))
    BY <1>1, <1>2, <1>3 DEF RecordedSibling
  <2> QED BY <2>1, <2>3, <2>4, <2>5
<1>7. p # q
  BY <1>2, <1>3
<1> QED BY <1>3, <1>5, <1>6, <1>7 DEF Related

(* The signature of a lead is the one the upstream gave it.                *)
LEMMA LeadSigKnown ==
  ASSUME ReplayInv, NEW q \in TurnCalls
  PROVE  LeadSig(q.item) \in {NoSig, q.sig} /\ (Known(q) => LeadSig(q.item) = q.sig)
<1>1. TurnSound(turn) /\ TurnKnown /\ CacheKnown /\ RecordsKnown
  BY DEF ReplayInv, TurnKnown
<1>2. /\ q.item \in TurnCall /\ Carried(q.item) = (IF HasReasoning THEN {q} ELSE {})
      /\ Cache!Found(q.item) = {q.item} \cap Cache!Live
  BY <1>1, TurnCallsKnown, CarriedKnown, FoundKnown
<1> DEFINE carried == {p \in Carried(q.item) : p.sig # NoSig}
<1>3. LeadSig(q.item) = IF carried # {} THEN (CHOOSE p \in carried : TRUE).sig
                        ELSE IF Cache!Found(q.item) = {} THEN NoSig
                        ELSE records.val[CHOOSE x \in Cache!Found(q.item) : TRUE].sig
  BY DEF LeadSig
<1>4. CASE carried # {}
  <2>1. carried \subseteq {q}
    BY <1>2
  <2> HIDE DEF carried
  <2>2. (CHOOSE p \in carried : TRUE) = q
    BY <1>4, <2>1
  <2> QED BY <1>3, <1>4, <2>2
<1>5. CASE carried = {} /\ q.item \in Cache!Live
  <2>1. (CHOOSE x \in Cache!Found(q.item) : TRUE) = q.item
    <3>1. Cache!Found(q.item) = {q.item}
      BY <1>2, <1>5
    <3> QED BY <3>1
  <2>2. records.val[q.item] = RecordOf(q)
    BY <1>1, <1>5 DEF RecordsKnown
  <2> HIDE DEF carried
  <2> QED BY <1>2, <1>3, <1>5, <2>1, <2>2 DEF RecordOf
<1>6. CASE carried = {} /\ q.item \notin Cache!Live
  <2>1. LeadSig(q.item) = NoSig
    BY <1>2, <1>3, <1>6
  <2>2. Known(q) => q.sig = NoSig
    BY <1>2, <1>6 DEF Known
  <2> QED BY <2>1, <2>2
<1> QED BY <1>4, <1>5, <1>6

(* The evidence about a known call: what the cache and what the carrier    *)
(* have of it is its own signature or, when the client gave the first call *)
(* the id of the last, that of the last.                                   *)
LEMMA KnownEvidence ==
  ASSUME ReplayInv, NEW i \in CallItems, NEW p \in OriginalOf(input[i]), Known(p)
  PROVE  LET ev == Evidence(i)
         IN /\ ev.hasCache => \/ p.item \in Cache!Live /\ ev.cacheSig = p.sig
                              \/ /\ p.item \notin Cache!Live
                                 /\ MixedUp /\ \E q \in Related(p) : ev.cacheSig = q.sig
            /\ ~ev.hasCache => ev.cacheSig = NoSig
            /\ p.item \in Cache!Live => ev.hasCache
            /\ p.item \notin Cache!Live => ev.hasCarrier /\ ev.carrierSig = p.sig
            /\ ev.carrierSig \in {NoSig, p.sig}
<1> DEFINE it == input[i]
           ev == Evidence(i)
<1>1. /\ ev.hasCarrier = (Given(it) \/ FirstCarried(it) # {})
      /\ ev.carrierSig = IF Given(it) THEN it.sig ELSE CarrierSig(it)
      /\ ev.hasCache = (FirstFound(it.call, it.id) # {}) /\ ev.cacheSig = CacheSig(it)
  BY EvidenceKnown
<1>2. /\ p \in TurnCalls /\ it.call = p.item /\ p.item \in TurnCall /\ it.sig \in {NoSig, p.sig}
      /\ \/ it.id \in {NoName, ItemName(p.item)}
         \/ p.item = Head(turn.calls) /\ it.id = ItemName(Last(turn.calls)) /\ MixedUp
      /\ Cache!Found(p.item) = {p.item} \cap Cache!Live
      /\ p.item \in Cache!Live => records.val[p.item] = RecordOf(p)
      /\ Carried(p.item) = IF HasReasoning THEN {p} ELSE {}
  BY OriginalKnown
<1>3. TurnSound(turn) /\ TurnKnown /\ CacheKnown /\ RecordsKnown
  BY DEF ReplayInv, TurnKnown
<1> HIDE DEF it, ev
<1>4. FirstCarried(it) = IF HasReasoning THEN {p} ELSE {}
  BY <1>2 DEF FirstCarried, Carried
<1>5. CarrierSig(it) \in {NoSig, p.sig} /\ (HasReasoning => CarrierSig(it) = p.sig)
  BY <1>4 DEF CarrierSig
<1>6. Given(it) => it.sig = p.sig
  BY <1>2 DEF Given
<1>7. CASE p.item \in Cache!Live
  <2>1. FirstFound(it.call, it.id) = {p.item}
    BY <1>2, <1>7 DEF FirstFound
  <2>2. CacheSig(it) = p.sig
    BY <1>2, <1>7, <2>1 DEF CacheSig, RecordOf
  <2> QED BY <1>1, <1>2, <1>5, <1>7, <2>1, <2>2 DEF ev
<1>8. CASE p.item \notin Cache!Live
  <2>1. HasReasoning
    BY <1>8 DEF Known
  <2>2. ev.hasCarrier /\ ev.carrierSig = p.sig
    BY <1>1, <1>4, <1>5, <1>6, <2>1
  <2>3. ~ev.hasCache => ev.cacheSig = NoSig
    BY <1>1 DEF CacheSig
  <2>4. ASSUME ev.hasCache PROVE MixedUp /\ \E q \in Related(p) : ev.cacheSig = q.sig
    <3> DEFINE y == Last(turn.calls)
    <3>1. FirstFound(it.call, it.id) = Cache!Found(it.id) /\ Cache!Found(it.id) # {}
      BY <1>1, <1>2, <1>8, <2>4 DEF FirstFound
    <3>2. it.id \notin {NoName, ItemName(p.item)}
      BY <1>2, <1>3, <1>8, <3>1, FoundKnown
    <3>3. p.item = Head(turn.calls) /\ it.id = ItemName(y) /\ MixedUp
      BY <1>2, <3>2
    <3>4. turn.calls \in Seq(TurnCall) /\ turn.calls # <<>> /\ ToSet(turn.calls) = {q.item : q \in TurnCalls}
      <4>1. turn.calls \in Seq(TurnCall) /\ ToSet(turn.calls) = {q.item : q \in TurnCalls}
        BY <1>3, TurnCallsKnown DEF TurnSound
      <4>2. turn.calls # <<>>
        <5>1. p.item \in ToSet(turn.calls)
          BY <1>2, <4>1
        <5>2. \E n \in DOMAIN turn.calls : TRUE
          BY <5>1 DEF ToSet
        <5> QED BY <5>2
      <4> QED BY <4>1, <4>2
    <3>5. y \in TurnCall /\ y \in ToSet(turn.calls) /\ turn.calls[1] = Head(turn.calls)
      <4>1. Len(turn.calls) \in Nat /\ Len(turn.calls) >= 1 /\ DOMAIN turn.calls = 1..Len(turn.calls)
        BY <3>4
      <4>2. y = turn.calls[Len(turn.calls)]
        BY DEF Last
      <4> HIDE DEF y
      <4> QED BY <3>4, <4>1, <4>2 DEF ToSet
    <3> HIDE DEF y
    <3>6. PICK q \in TurnCalls : q.item = y
      BY <3>4, <3>5
    <3>7. Cache!Found(it.id) = {y} /\ y \in Cache!Live
      BY <1>3, <3>1, <3>3, <3>5, FoundKnown
    <3>8. CacheSig(it) = q.sig
      <4>1. (CHOOSE x \in FirstFound(it.call, it.id) : TRUE) = y /\ FirstFound(it.call, it.id) # {}
        BY <3>1, <3>7
      <4>2. records.val[y] = RecordOf(q)
        BY <1>3, <3>6, <3>7 DEF RecordsKnown
      <4>3. CacheSig(it) = records.val[y].sig
        BY <4>1 DEF CacheSig
      <4> QED BY <4>2, <4>3 DEF RecordOf
    <3>9. q \in Related(p)
      <4>1. p # q
        BY <1>8, <3>6, <3>7
      <4> QED BY <3>3, <3>5, <3>6, <4>1 DEF Related
    <3> QED BY <1>1, <3>3, <3>8, <3>9
  <2> QED BY <1>8, <2>2, <2>3, <2>4 DEF ev
<1> QED BY <1>7, <1>8

(* A known call is sent with its own signature or, without one, with that  *)
(* of a related call.                                                      *)
LEMMA KnownSig ==
  ASSUME ReplayInv, phase = "translating", NEW i \in CallItems, NEW p \in OriginalOf(input[i]), Known(p),
         P!ResolveToolSignature(Evidence(i)) # NoSig
  PROVE  LET sig == P!ResolveToolSignature(Evidence(i))
         IN /\ IF p.sig # NoSig THEN sig = p.sig
               ELSE sig \in {q.sig : q \in Related(p)} \ {NoSig}
            /\ p.sig = NoSig /\ ~MixedUp => leads[i] # NoName
<1> DEFINE ev == Evidence(i)
           sig == P!ResolveToolSignature(Evidence(i))
<1>1. sig = P!NativeSignature(ev) /\ ~P!Contradictory(ev) /\ sig # NoSig
  BY KnownCall
<1>2. /\ ev.hasCache => \/ p.item \in Cache!Live /\ ev.cacheSig = p.sig
                        \/ /\ p.item \notin Cache!Live
                           /\ MixedUp /\ \E q \in Related(p) : ev.cacheSig = q.sig
      /\ ~ev.hasCache => ev.cacheSig = NoSig
      /\ p.item \in Cache!Live => ev.hasCache
      /\ p.item \notin Cache!Live => ev.hasCarrier /\ ev.carrierSig = p.sig
      /\ ev.carrierSig \in {NoSig, p.sig}
  BY KnownEvidence
<1>3. /\ ev.recordedSib = Sibling(i)
      /\ ev.leadSig = IF Sibling(i) THEN LeadSig(leads[i]) ELSE NoSig
  BY EvidenceKnown
<1> HIDE DEF ev, sig
<1>4. CASE p.sig # NoSig
  <2>1. CASE p.item \in Cache!Live
    <3>1. ev.hasCache /\ ev.cacheSig = p.sig
      BY <1>2, <2>1
    <3>2. sig = p.sig
      BY <1>1, <1>4, <3>1 DEF P!NativeSignature
    <3> QED BY <1>4, <3>2 DEF sig
  <2>2. CASE p.item \notin Cache!Live
    <3>1. ev.hasCarrier /\ ev.carrierSig = p.sig
      BY <1>2, <2>2
    <3>2. sig = p.sig
      BY <1>1, <1>4, <3>1 DEF P!NativeSignature, P!Contradictory
    <3> QED BY <1>4, <3>2 DEF sig
  <2> QED BY <2>1, <2>2
<1>5. CASE p.sig = NoSig
  <2>1. ev.carrierSig = NoSig
    BY <1>2, <1>5
  <2>2. CASE ev.hasCache /\ ev.cacheSig # NoSig
    <3>1. PICK q \in Related(p) : ev.cacheSig = q.sig /\ MixedUp
      BY <1>2, <1>5, <2>2
    <3>2. sig = q.sig
      BY <1>1, <2>2, <3>1 DEF P!NativeSignature
    <3> QED BY <1>1, <1>5, <3>1, <3>2 DEF sig
  <2>3. CASE ~(ev.hasCache /\ ev.cacheSig # NoSig)
    <3>1. ev.recordedSib /\ sig = ev.leadSig
      BY <1>1, <2>1, <2>3 DEF P!NativeSignature
    <3>2. Sibling(i) /\ sig = LeadSig(leads[i])
      BY <1>3, <3>1
    <3>3. PICK q \in Related(p) : q.item = leads[i]
      BY <3>2, SiblingRelated
    <3>4. sig = q.sig
      <4>1. q \in TurnCalls
        BY <3>3 DEF Related
      <4> QED BY <1>1, <3>2, <3>3, <4>1, LeadSigKnown
    <3>5. leads[i] # NoName
      BY <3>2 DEF Sibling, Follows
    <3> QED BY <1>1, <1>5, <3>3, <3>4, <3>5 DEF sig
  <2> QED BY <2>2, <2>3
<1> QED BY <1>4, <1>5

(* The group of a call that is sent has a signed call to lead it, unless   *)
(* the call is injected; an injected one goes as foreign or alone.         *)
LEMMA InjectedSig ==
  ASSUME ReplayInv, phase = "translating", NEW i \in CallItems, input[i].call = Injected,
         P!ResolveToolSignature(Evidence(i)) # NoSig
  PROVE  /\ P!ResolveToolSignature(Evidence(i)) = Marker
         /\ input[i].foreign \/ leads[i] = NoName
<1> DEFINE it == input[i]
           ev == Evidence(i)
<1>1. /\ it.sig = NoSig /\ it.id = NoName /\ it.call = Injected /\ it.foreign \in BOOLEAN
      /\ Cache!Found(Injected) = {} /\ Carried(Injected) = {}
  BY ForeignKnown DEF KnownItem
<1>2. /\ ev.hasCarrier = (Given(it) \/ FirstCarried(it) # {})
      /\ ev.hasCache = (FirstFound(it.call, it.id) # {}) /\ ev.foreign = it.foreign
      /\ ev.unverified = (Follows(i) /\ ~Sibling(i) /\ Unverified(it, leads[i], ev.hasCarrier))
  BY EvidenceKnown
<1>3. ~Sibling(i)
  <2> SUFFICES ASSUME Sibling(i) PROVE FALSE
    OBVIOUS
  <2>1. RecordedSibling(it, leads[i]) /\ leads[i] # NoName
    BY DEF Sibling, Follows
  <2>2. PICK q \in TurnCalls : q.item = leads[i]
    BY <2>1, LeadKnown
  <2>3. TurnSound(turn) /\ TurnKnown /\ CacheKnown /\ q.item \in TurnCall
    BY <2>2, TurnCallsKnown DEF ReplayInv, TurnKnown
  <2>4. turn.calls \in Seq(TurnCall) /\ Canonical(q.item) = q.item /\ Canonical(Injected) = Injected
    BY <2>3, FoundKnown DEF TurnSound
  <2>5. Injected \notin TurnCall
    BY NameShapes DEF Injected
  <2> HIDE DEF it
  <2>6. CASE Injected \in CarriedSiblings(q.item)
    <3>1. DOMAIN <<>> = {}
      OBVIOUS
    <3>2. TurnSiblings(turn) = IF Len(turn.calls) > 1 THEN [lead \in {Head(turn.calls)} |-> ToSet(Tail(turn.calls))] ELSE <<>>
      BY DEF TurnSiblings
    <3>3. Injected \in ToSet(Tail(turn.calls)) /\ Len(turn.calls) > 1
      BY <2>6, <3>1, <3>2 DEF CarriedSiblings
    <3>4. Tail(turn.calls) \in Seq(TurnCall)
      BY <2>4, <3>3
    <3> QED BY <2>5, <3>3, <3>4 DEF ToSet
  <2>7. CASE IsVerifiedSibling(q.item, Injected)
    <3>1. Injected \in SiblingsOf(q.item) \/ q.item \in SiblingsOf(Injected)
      BY <2>4, <2>7 DEF IsVerifiedSibling
    <3>2. CASE Injected \in SiblingsOf(q.item)
      BY <2>5, <3>2, SiblingsOfTurn
    <3>3. CASE q.item \in SiblingsOf(Injected)
      <4>1. Injected = Head(turn.calls) /\ Len(turn.calls) > 1
        BY <3>3, SiblingsOfTurn DEF ReplayInv, SiblingsKnown, SiblingsOf
      <4> QED BY <2>4, <2>5, <4>1
    <3> QED BY <3>1, <3>2, <3>3
  <2> QED BY <1>1, <2>1, <2>2, <2>6, <2>7 DEF RecordedSibling
<1> HIDE DEF it, ev
<1>4. FirstFound(it.call, it.id) = {} /\ FirstCarried(it) = {}
  BY <1>1 DEF FirstFound, FirstCarried
<1>5. /\ CacheSig(it) = NoSig /\ ~ev.hasCarrier /\ ~ev.hasCache /\ ~Disagrees(it)
  BY <1>1, <1>2, <1>4 DEF CacheSig, Given, Disagrees, CacheDisagrees, CarrierDisagrees
<1>6. P!ClassifyToolCall(ev) # "mismatched"
  BY Resolved DEF ev
<1>7. P!ResolveToolSignature(ev) = Marker
  <2>1. P!ClassifyToolCall(ev) # "native"
    BY <1>5, <1>6 DEF P!ClassifyToolCall
  <2>2. P!ResolveToolSignature(ev) # NoSig
    BY DEF ev
  <2> QED BY <1>6, <2>1, <2>2, Resolved
<1>8. ev.foreign \/ ~ev.unverified
  BY <1>5, <1>6 DEF P!ClassifyToolCall
<1>9. it.foreign \/ leads[i] = NoName
  <2> SUFFICES ASSUME ~it.foreign, leads[i] # NoName PROVE FALSE
    OBVIOUS
  <2>1. PICK q \in TurnCalls : q.item = leads[i]
    BY LeadKnown
  <2>2. q.item # Injected
    <3>1. TurnSound(turn)
      BY DEF ReplayInv, TurnKnown
    <3>2. q.item[1] = "fc"
      BY <3>1, TurnCallsKnown, NameShapes
    <3> QED BY <3>2 DEF Injected
  <2>3. Follows(i)
    BY <1>1, <1>5, <2>1, <2>2 DEF Follows, it
  <2>4. Unverified(it, leads[i], ev.hasCarrier)
    BY <1>5 DEF Unverified
  <2> QED BY <1>2, <1>3, <1>8, <2>3, <2>4
<1> QED BY <1>7, <1>9 DEF it, ev

(* A known call goes with its own signature or that of a related call.     *)
THEOREM OwnSignatureSent == Spec => []OwnSignature
<1>1. Init => OwnSignature
  BY DEF Init, OwnSignature, SentCalls
<1>2. ReplayInv /\ OwnSignature /\ [Next]_vars => OwnSignature'
  <2> SUFFICES ASSUME ReplayInv, OwnSignature, [Next]_vars,
                      NEW k \in SentCalls', NEW p \in OriginalOf(ItemSent(k))', Known(p)'
               PROVE  IF p.sig # NoSig THEN sent'[k].sig = p.sig
                      ELSE sent'[k].sig \in {q.sig : q \in Related(p)'} \ {NoSig}
    BY DEF OwnSignature
  <2>1. /\ UNCHANGED <<turn, input>> /\ \A it : OriginalOf(it)' = OriginalOf(it)
        /\ \A it : \A q \in OriginalOf(it) : Known(q)' => Known(q)
        /\ TurnCalls' = TurnCalls
    BY SentCallStep
  <2>2. \A q : Related(q)' = Related(q)
    BY <2>1 DEF Related
  <2>3. CASE k \in SentCalls /\ sent'[k] = sent[k]
    <3>1. ItemSent(k)' = ItemSent(k)
      BY <2>1, <2>3 DEF ItemSent
    <3>2. p \in OriginalOf(ItemSent(k)) /\ Known(p)
      BY <2>1, <3>1
    <3> QED BY <2>2, <2>3, <3>2 DEF OwnSignature
  <2>4. ASSUME NEW i \in CallItems, sent'[k].item = i, sent'[k].sig = P!ResolveToolSignature(Evidence(i)),
               sent'[k].sig # NoSig, phase = "translating"
        PROVE  IF p.sig # NoSig THEN sent'[k].sig = p.sig
               ELSE sent'[k].sig \in {q.sig : q \in Related(p)'} \ {NoSig}
    <3>1. ItemSent(k)' = input[i]
      BY <2>1, <2>4 DEF ItemSent
    <3>2. p \in OriginalOf(input[i]) /\ Known(p)
      BY <2>1, <3>1
    <3> QED BY <2>2, <2>4, <3>2, KnownSig
  <2> QED BY <2>3, <2>4, SentCallStep
<1> QED BY <1>1, <1>2, InvHolds, PTL DEF Spec

(* An injected call only stands in groups nobody leads, unless it is       *)
(* declared foreign; every known call that is sent stands in one with a    *)
(* lead.                                                                   *)
LEMMA LeadsHold == Spec => []LeadsKnown
<1>1. Init => LeadsKnown
  BY DEF Init, LeadsKnown, SentCalls
<1>2. ReplayInv /\ LeadsKnown /\ [Next]_vars => LeadsKnown'
  <2> SUFFICES ASSUME ReplayInv, LeadsKnown, [Next]_vars, NEW k \in SentCalls'
               PROVE  IF ItemSent(k)'.call = Injected
                      THEN sent'[k].sig = Marker /\ (ItemSent(k)'.foreign \/ leads'[sent'[k].item] = NoName)
                      ELSE ~MixedUp' /\ (\A p \in OriginalOf(ItemSent(k))' : Known(p)')
                             => leads'[sent'[k].item] # NoName
    BY DEF LeadsKnown
  <2>1. /\ UNCHANGED <<turn, input, deviations, leads>> /\ \A it : OriginalOf(it)' = OriginalOf(it)
        /\ \A it : \A q \in OriginalOf(it) : Known(q)' => Known(q)
        /\ MixedUp' = MixedUp
    BY SentCallStep DEF MixedUp
  <2>2. CASE k \in SentCalls /\ sent'[k] = sent[k]
    <3>1. ItemSent(k)' = ItemSent(k)
      BY <2>1, <2>2 DEF ItemSent
    <3>2. (\A p \in OriginalOf(ItemSent(k))' : Known(p)') => \A p \in OriginalOf(ItemSent(k)) : Known(p)
      BY <2>1, <3>1
    <3> QED BY <2>1, <2>2, <3>1, <3>2 DEF LeadsKnown
  <2>3. ASSUME NEW i \in CallItems, sent'[k].item = i, sent'[k].sig = P!ResolveToolSignature(Evidence(i)),
               sent'[k].sig # NoSig, phase = "translating"
        PROVE  IF ItemSent(k)'.call = Injected
               THEN sent'[k].sig = Marker /\ (ItemSent(k)'.foreign \/ leads'[sent'[k].item] = NoName)
               ELSE ~MixedUp' /\ (\A p \in OriginalOf(ItemSent(k))' : Known(p)')
                      => leads'[sent'[k].item] # NoName
    <3>1. ItemSent(k)' = input[i]
      BY <2>1, <2>3 DEF ItemSent
    <3>2. CASE input[i].call = Injected
      BY <2>1, <2>3, <3>1, <3>2, InjectedSig
    <3>3. ASSUME input[i].call # Injected, ~MixedUp, \A p \in OriginalOf(ItemSent(k))' : Known(p)'
          PROVE  leads[i] # NoName
      <4>1. PICK p \in OriginalOf(input[i]) : TRUE
        BY <3>3, ForeignKnown
      <4>2. Known(p)
        BY <2>1, <3>1, <3>3
      <4>3. CASE p.sig = NoSig
        BY <2>3, <3>3, <4>2, <4>3, KnownSig
      <4>4. CASE p.sig # NoSig
        <5>1. p.body = input[i].body
          BY <2>3, <4>2, KnownCall
        <5> QED BY <2>3, <3>3, <4>2, <4>4, <5>1 DEF ReplayInv, ScanKnown
      <4> QED BY <4>3, <4>4
    <3> QED BY <2>1, <2>3, <3>1, <3>2, <3>3
  <2> QED BY <2>2, <2>3, SentCallStep
<1> QED BY <1>1, <1>2, InvHolds, PTL DEF Spec

(* A call a client puts next to native ones never passes for native, and   *)
(* is never sent next to a call with a real signature that the bridge      *)
(* knows.                                                                  *)
THEOREM InjectedSentAlone == Spec => []InjectedNeverBorrows
<1>1. ReplayInv /\ LeadsKnown => InjectedNeverBorrows
  <2> SUFFICES ASSUME ReplayInv, LeadsKnown, NEW k \in SentCalls, ItemSent(k).call = Injected,
                      ~ItemSent(k).foreign, ~MixedUp,
                      NEW l \in SentCalls, sent[l].item \in Group(sent[k].item),
                      \A p \in OriginalOf(ItemSent(l)) : Known(p)
               PROVE  sent[l].sig = Marker
    BY DEF InjectedNeverBorrows, LeadsKnown, MixedUp
  <2>1. phase \in {"translating", "sent", "rejected"}
    <3>1. sent # <<>>
      BY DEF SentCalls
    <3> QED BY <3>1 DEF ReplayInv, PhaseKnown
  <2>2. sent[k].item \in CallItems
    BY DEF ReplayInv, SentKnown, SentCalls
  <2>3. leads[sent[k].item] = leads[sent[l].item]
    BY <2>1, <2>2 DEF ReplayInv, ScanKnown
  <2> QED BY <2>3 DEF LeadsKnown
<1> QED BY <1>1, InvHolds, LeadsHold, PTL

(* A message only gets a signature that was given for its text.            *)
THEOREM TextSignatureIsOwn == Spec => []TextSignatureOwn
<1>1. Init => TextSignatureOwn
  BY DEF Init, TextSignatureOwn
<1>2. ASSUME ReplayInv, NEW it, NEW first, TextSig(it, first) # NoSig, it.sig = NoSig
      PROVE  \E p \in ToSet(turn.parts) : p.kind = "text" /\ p.body = it.body /\ p.sig = TextSig(it, first)
  <2>1. CASE CarriedText(it) # {}
    <3>1. PICK p \in CarriedText(it) : p.sig = TextSig(it, first)
      BY <1>2, <2>1 DEF TextSig
    <3> QED BY <3>1 DEF CarriedText
  <2>2. CASE CarriedText(it) = {}
    <3> DEFINE c == <<Prefix, it.body>>
    <3>1. TextSig(it, first) = Cache!ContextSignature(c)
      BY <1>2, <2>2 DEF TextSig
    <3> HIDE DEF c
    <3>2. c \in DOMAIN contexts.val /\ contexts.val[c] # NoSig /\ TextSig(it, first) = contexts.val[c]
      BY <1>2, <3>1 DEF Cache!ContextSignature
    <3>3. PICK p \in TextsOf(c) : p.sig = contexts.val[c]
      BY <1>2, <3>2 DEF ReplayInv, ContextsKnown
    <3>4. p \in ToSet(turn.parts) /\ p.kind = "text" /\ <<Prefix, p.body>> = <<Prefix, it.body>>
      BY <3>3 DEF TextsOf, c
    <3> QED BY <3>2, <3>3, <3>4
  <2> QED BY <2>1, <2>2
<1>3. ReplayInv /\ TextSignatureOwn /\ [Next]_vars => TextSignatureOwn'
  <2> SUFFICES ASSUME ReplayInv, TextSignatureOwn, [Next]_vars,
                      NEW k \in DOMAIN sent', sent'[k].type = "message", sent'[k].sig # NoSig, ItemSent(k)'.sig = NoSig
               PROVE  \E p \in ToSet(turn'.parts) : /\ p.kind = "text" /\ p.body = ItemSent(k)'.body
                                                    /\ p.sig = sent'[k].sig
    BY DEF TextSignatureOwn
  <2>1. CASE sent' = <<>>
    BY <2>1
  <2>2. CASE UNCHANGED <<turn, input>> /\ k \in DOMAIN sent /\ sent'[k] = sent[k]
    BY <2>2 DEF TextSignatureOwn, ItemSent
  <2>3. ASSUME UNCHANGED <<turn, input>>, ~(k \in DOMAIN sent /\ sent'[k] = sent[k]),
               NEW i \in DOMAIN input, MessageSent(i) \/ ResponseSent(i) \/ CallSent(i)
        PROVE  \E p \in ToSet(turn'.parts) : /\ p.kind = "text" /\ p.body = ItemSent(k)'.body
                                             /\ p.sig = sent'[k].sig
    <3>1. ASSUME NEW part, sent' = Append(sent, part) PROVE part.type = "message" /\ sent'[k] = part
      <4>1. sent'[k] = part
        BY <2>3, <3>1, SentAppended
      <4> QED BY <4>1
    <3> DEFINE sig == TextSig(input[i], i = 1)
    <3>2. sent' = Append(sent, Sent("message", i, NoName, sig))
      <4>1. ~ResponseSent(i)
        <5>1. \A id : Sent("response", i, id, NoSig).type = "response"
          BY DEF Sent
        <5> QED BY <3>1, <5>1 DEF ResponseSent
      <4>2. ~CallSent(i)
        <5>1. \A id, s : Sent("call", i, id, s).type = "call"
          BY DEF Sent
        <5> QED BY <3>1, <5>1 DEF CallSent
      <4> QED BY <2>3, <4>1, <4>2 DEF MessageSent
    <3> HIDE DEF sig
    <3>3. sent'[k].item = i /\ sent'[k].sig = sig
      <4>1. sent'[k] = Sent("message", i, NoName, sig)
        BY <3>1, <3>2
      <4> QED BY <4>1 DEF Sent
    <3>4. ItemSent(k)' = input[i]
      BY <2>3, <3>3 DEF ItemSent
    <3> QED BY <1>2, <2>3, <3>3, <3>4 DEF sig
  <2> QED BY <2>1, <2>2, <2>3, SentStep
<1> QED BY <1>1, <1>3, InvHolds, PTL DEF Spec

-----------------------------------------------------------------------------
(* Calls and results.                                                      *)

(* What makes an accepted request well paired.  Results follow the calls;  *)
(* an accepted history has each call once and no more results than calls;  *)
(* a result names its call by a name of that call.                         *)
CallsFirst == \A i \in CallItems, j \in OutputItems : i < j

Exchanged ==
  phase \in {"translating", "sent"} =>
    /\ \A i, j \in CallItems : i # j => input[i].call # input[j].call
    /\ Cardinality(OutputItems) <= Cardinality(CallItems)

OutName(x) == Outbound(UpstreamID(x), x)

NamesOf(x) ==
  AliasesOf(x) \cup {OutName(x)} \cup {input[j].id : j \in {k \in CallItems : input[k].call = x}}

CalleesTraced ==
  phase \in {"translating", "sent"} => \A i \in OutputItems : input[i].call \in NamesOf(callees[i])

(* Items are sent in their order, and none is left out.                    *)
SentInOrder ==
  /\ \A k, l \in DOMAIN sent : k < l => sent[k].item < sent[l].item
  /\ \A k \in DOMAIN sent : sent[k].type = "response" => sent[k].item \in OutputItems

SentAs(i, type) == \E k \in DOMAIN sent : sent[k].item = i /\ sent[k].type = type

AllSent ==
  /\ \A i \in CallItems : phase = "sent" \/ i <= Translated => SentAs(i, "call")
  /\ \A i \in OutputItems : phase = "sent" \/ i <= Translated => SentAs(i, "response")

(* A call that is sent has a result; both go by one of the names of the    *)
(* call, by the one the upstream gave it as long as the bridge knows it.   *)
AllKnown == \A p \in TurnCalls : Known(p)
NoneMisnamed == \A j \in CallItems : ~Misnamed(input[j])

Knows(x) == HasReasoning \/ x \in Cache!Live

GoesBy(id, x) == id \in {x, OutName(x)} /\ (Knows(x) => id = OutName(x))

CallNamed(k) ==
  /\ \E j \in OutputItems : callees[j] = ItemSent(k).call
  /\ NoneMisnamed => GoesBy(sent[k].id, ItemSent(k).call)

ResponseNamed(k) ==
  NoneMisnamed /\ (\E j \in CallItems : callees[sent[k].item] = input[j].call)
    => GoesBy(sent[k].id, callees[sent[k].item])

SentNamed ==
  \A k \in DOMAIN sent : /\ sent[k].type = "call" => CallNamed(k)
                         /\ sent[k].type = "response" => ResponseNamed(k)

PairedInv ==
  CallsFirst /\ Exchanged /\ CalleesTraced /\ SentInOrder /\ AllSent /\ SentNamed

(* Calls of the turn, and injected ones, have ids of their own.            *)
LEMMA OutNamesDiffer ==
  ASSUME ReplayInv, phase # "idle", NEW x \in CallsOf(turn.parts) \cup {Injected},
         NEW y \in CallsOf(turn.parts) \cup {Injected}, OutName(x) = OutName(y)
  PROVE  x = y
<1>1. PICK parts \in Answers : turn = BuildAuthoritativeTurn(parts)
  BY DEF ReplayInv, TurnKnown
<1>2. Bridged(turn.bridge, CallsOf(turn.parts)) /\ CallsOf(turn.parts) \subseteq TurnCall
  BY <1>1, AnswersAssumption, TurnIsSound, TurnCallsKnown DEF ReplayInv, TurnKnown
<1>3. Injected[1] = "injected" /\ OutName(Injected) = Injected
  BY DEF Injected, OutName, Outbound, UpstreamID
<1>4. ASSUME NEW z \in CallsOf(turn.parts)
      PROVE  /\ z[1] = "fc"
             /\ OutName(z) = IF UpstreamID(z) = NoId THEN z ELSE <<"upstream", 0, UpstreamID(z)>>
  BY <1>2, NameShapes DEF OutName, Outbound
<1> DEFINE up(z) == <<"upstream", 0, UpstreamID(z)>>
<1>5. \A z : up(z)[1] = "upstream" /\ up(z)[3] = UpstreamID(z)
  OBVIOUS
<1> HIDE DEF up
<1>6. \A z \in CallsOf(turn.parts) : OutName(z) = IF UpstreamID(z) = NoId THEN z ELSE up(z)
  BY <1>4 DEF up
<1>7. CASE x = Injected \/ y = Injected
  BY <1>3, <1>4, <1>5, <1>6, <1>7
<1>8. CASE x \in CallsOf(turn.parts) /\ y \in CallsOf(turn.parts)
  <2>1. CASE UpstreamID(x) = NoId \/ UpstreamID(y) = NoId
    BY <1>4, <1>5, <1>6, <1>8, <2>1
  <2>2. CASE UpstreamID(x) # NoId /\ UpstreamID(y) # NoId
    <3>1. UpstreamID(x) = UpstreamID(y)
      BY <1>5, <1>6, <1>8, <2>2
    <3> QED BY <1>2, <1>8, <2>2, <3>1 DEF Bridged
  <2> QED BY <2>1, <2>2
<1> QED BY <1>7, <1>8

(* The id the upstream gave the call, when carrier and record agree on it. *)
AgreeOn(id, found, carried) ==
  /\ \A p \in carried : p.id = id
  /\ carried = {} \/ id = NoId => \A x \in found : UpstreamID(x) = id
  /\ carried # {} \/ found # {} \/ id = NoId

LEMMA OutboundIdIs ==
  ASSUME NEW found, NEW carried, NEW name, NEW id, AgreeOn(id, found, carried)
  PROVE  OutboundId(found, carried, name) = id
<1> DEFINE known == {p.id : p \in carried} \ {NoId}
           cached == {UpstreamID(x) : x \in found} \ {NoId}
<1>1. OutboundId(found, carried, name) = IF known # {} THEN CHOOSE n \in known : TRUE
                                         ELSE IF cached # {} THEN CHOOSE n \in cached : TRUE
                                         ELSE NoId
  BY DEF OutboundId
<1>2. known \subseteq {id} /\ (known = {} => carried = {} \/ id = NoId)
  BY DEF AgreeOn
<1>3. known = {} => cached \subseteq {id} /\ (cached = {} => id = NoId)
  BY DEF AgreeOn
<1> HIDE DEF known, cached
<1>4. CASE known # {}
  BY <1>1, <1>2, <1>4
<1>5. CASE known = {} /\ cached # {}
  BY <1>1, <1>3, <1>5
<1>6. CASE known = {} /\ cached = {}
  BY <1>1, <1>3, <1>6
<1> QED BY <1>4, <1>5, <1>6

(* What is known of the calls of a request.                                *)
LEMMA CallsOfRequest ==
  ASSUME ReplayInv, NEW i \in CallItems
  PROVE  /\ input[i].call \in CallsOf(turn.parts) \cup {Injected}
         /\ input[i].call # Injected =>
              \E p \in OriginalOf(input[i]) : p.item = input[i].call /\ UpstreamID(p.item) = p.id
<1>1. \A p \in OriginalOf(input[i]) : p.item \in CallsOf(turn.parts) /\ p.item = input[i].call /\ UpstreamID(p.item) = p.id
  BY OriginalKnown, TurnCallsKnown DEF ReplayInv, TurnKnown, UpstreamID
<1> QED BY <1>1, ForeignKnown

(* A call the bridge does not know is not known of.                        *)
LEMMA UnknownCall ==
  ASSUME ReplayInv, NEW i \in CallItems, ~Misnamed(input[i]), input[i].call # Injected, ~Knows(input[i].call)
  PROVE  /\ ~HasReasoning /\ input[i].id \in {NoName, ItemName(input[i].call)}
         /\ Cache!Found(input[i].call) = {} /\ Cache!Found(ItemName(input[i].call)) = {}
         /\ Cache!Found(NoName) = {} /\ input[i].call \in TurnCall
<1>1. PICK p \in OriginalOf(input[i]) : p.item = input[i].call
  BY CallsOfRequest
<1>2. /\ input[i].call \in TurnCall /\ Cache!Found(input[i].call) = {input[i].call} \cap Cache!Live
      /\ TurnKnown /\ CacheKnown
  BY <1>1, OriginalKnown DEF ReplayInv
<1>3. ~Known(p)
  BY <1>1 DEF Known, Knows
<1>4. Cache!Found(ItemName(input[i].call)) \subseteq {input[i].call} \cap Cache!Live /\ Cache!Found(NoName) = {}
  BY <1>2, FoundKnown
<1> QED BY <1>1, <1>2, <1>3, <1>4 DEF Knows, Misnamed

(* A known call goes by the id the upstream gave it, any other by its own. *)
LEMMA CallNameIs ==
  ASSUME ReplayInv, NEW i \in CallItems, ~Misnamed(input[i])
  PROVE  GoesBy(CallName(i), input[i].call)
<1> DEFINE it == input[i]
           x == it.call
           found == FirstFound(x, it.id)
           carried == FirstCarried(it)
<1>1. CallName(i) = Outbound(OutboundId(found, carried, x), x)
  BY DEF CallName
<1>2. TurnSound(turn) /\ TurnKnown /\ CacheKnown
  BY DEF ReplayInv, TurnKnown
<1>3. CASE x = Injected
  <2>1. found = {} /\ carried = {} /\ UpstreamID(x) = NoId
    BY <1>3, ForeignKnown DEF FirstFound, FirstCarried, Injected, UpstreamID
  <2> HIDE DEF found, carried, it
  <2>2. OutboundId(found, carried, x) = NoId
    <3>1. AgreeOn(NoId, found, carried)
      BY <2>1 DEF AgreeOn
    <3> QED BY <3>1, OutboundIdIs
  <2> QED BY <1>1, <2>1, <2>2 DEF OutName, GoesBy, it
<1>5. CASE x # Injected /\ ~Knows(x)
  <2>1. found = {} /\ carried = {}
    BY <1>5, UnknownCall DEF FirstFound, FirstCarried, Carried
  <2> HIDE DEF found, carried
  <2>2. OutboundId(found, carried, x) = NoId
    <3>1. AgreeOn(NoId, found, carried)
      BY <2>1 DEF AgreeOn
    <3> QED BY <3>1, OutboundIdIs
  <2>3. CallName(i) = x
    BY <1>1, <2>2 DEF Outbound
  <2> QED BY <1>5, <2>3 DEF GoesBy
<1>4. CASE x # Injected /\ Knows(x)
  <2>1. PICK p \in OriginalOf(it) : p.item = x /\ UpstreamID(x) = p.id
    BY <1>4, CallsOfRequest
  <2>2. /\ p \in TurnCalls /\ x \in TurnCall
        /\ Cache!Found(x) = {x} \cap Cache!Live
        /\ Carried(x) = IF HasReasoning THEN {p} ELSE {}
    BY <2>1, OriginalKnown
  <2>3. HasReasoning \/ x \in Cache!Live
    BY <1>4 DEF Knows
  <2>4. CASE HasReasoning
    <3>1. carried = {p}
      BY <2>2, <2>4 DEF FirstCarried
    <3>2. p.id = NoId => found \subseteq {x}
      <4> HAVE p.id = NoId
      <4>1. it.id \in {NoName, ItemName(x)}
        BY <2>1 DEF Misnamed
      <4> QED BY <1>2, <2>2, <4>1, FoundKnown DEF FirstFound
    <3> HIDE DEF found, carried, it
    <3>3. OutboundId(found, carried, x) = p.id
      <4>1. AgreeOn(p.id, found, carried)
        BY <2>1, <3>1, <3>2 DEF AgreeOn
      <4> QED BY <4>1, OutboundIdIs
    <3> QED BY <1>1, <2>1, <3>3 DEF OutName, GoesBy, it
  <2>5. CASE ~HasReasoning
    <3>1. carried = {} /\ found = {x}
      BY <2>2, <2>3, <2>5 DEF FirstCarried, Carried, FirstFound
    <3> HIDE DEF found, carried, it
    <3>2. OutboundId(found, carried, x) = p.id
      <4>1. AgreeOn(p.id, found, carried)
        BY <2>1, <3>1 DEF AgreeOn
      <4> QED BY <4>1, OutboundIdIs
    <3> QED BY <1>1, <2>1, <3>2 DEF OutName, GoesBy, it
  <2> QED BY <2>3, <2>4, <2>5
<1> QED BY <1>3, <1>4, <1>5

(* So does its result.                                                     *)
LEMMA ResponseNameIs ==
  ASSUME ReplayInv, NEW i \in OutputItems, NEW j \in CallItems, callees[i] = input[j].call,
         input[i].call \in NamesOf(callees[i]), NoneMisnamed
  PROVE  GoesBy(ResponseName(i), callees[i])
<1> DEFINE name == input[i].call
           x == callees[i]
           found == IF Cache!Found(x) # {} THEN Cache!Found(x) ELSE Cache!Found(name)
           carried == IF Carried(x) # {} THEN Carried(x) ELSE Carried(name)
<1>1. ResponseName(i) = Outbound(OutboundId(found, carried, x), x)
  BY DEF ResponseName
<1>2. TurnSound(turn) /\ TurnKnown /\ CacheKnown /\ name \in RequestNames /\ name # NoName
  BY NoNameUsed DEF ReplayInv, TurnKnown, InputKnown
<1>3. CASE x = Injected
  <2>1. name = Injected
    <3>1. Injected \notin TurnCall /\ OutName(Injected) = Injected
      BY NameShapes DEF Injected, OutName, Outbound, UpstreamID
    <3>2. \A k \in CallItems : input[k].call = Injected => input[k].id = NoName
      BY ForeignKnown
    <3> QED BY <1>2, <1>3, <3>1, <3>2 DEF NamesOf, AliasesOf
  <2>2. found = {} /\ carried = {} /\ UpstreamID(x) = NoId
    <3>1. Cache!Found(Injected) = {} /\ Carried(Injected) = {}
      BY <1>3, ForeignKnown
    <3> QED BY <1>3, <2>1, <3>1 DEF Injected, UpstreamID
  <2> HIDE DEF found, carried, x
  <2>3. OutboundId(found, carried, x) = NoId
    <3>1. AgreeOn(NoId, found, carried)
      BY <2>2 DEF AgreeOn
    <3> QED BY <3>1, OutboundIdIs
  <2> QED BY <1>1, <2>2, <2>3 DEF OutName, GoesBy, x
<1>5. CASE x # Injected /\ ~Knows(x)
  <2>1. /\ ~HasReasoning /\ Cache!Found(x) = {} /\ Cache!Found(ItemName(x)) = {} /\ x \in TurnCall
        /\ \A k \in CallItems : input[k].call = x => input[k].id \in {NoName, ItemName(x)}
    BY <1>5, UnknownCall DEF NoneMisnamed
  <2>2. \A z \in TurnCall : z[1] = "fc" /\ ItemName(z)[1] = "item" /\ BothNames(z)[1] = "both"
    BY NameShapes
  <2>3. name # BothNames(x)
    <3>1. Injected[1] = "injected" /\ \A z \in UpstreamNames : z[1] = "upstream"
      BY DEF Injected, UpstreamNames
    <3> QED BY <1>2, <2>1, <2>2, <3>1 DEF RequestNames
  <2>4. name \in {x, ItemName(x), OutName(x)}
    BY <1>2, <2>1, <2>3 DEF NamesOf, AliasesOf
  <2>5. Cache!Found(OutName(x)) = {}
    <3>1. OutName(x) = x \/ OutName(x)[1] = "upstream"
      BY DEF OutName, Outbound
    <3>2. CASE OutName(x) = x
      BY <2>1, <3>2
    <3>3. CASE OutName(x)[1] = "upstream"
      <4> DEFINE a == OutName(x)
      <4>1. \A z \in Foreigners : z[1] = "other"
        BY DEF Foreigners, OtherCall
      <4>2. Cache!Live \subseteq TurnCall \cup Foreigners
        BY <1>2, FoundKnown
      <4> HIDE DEF a
      <4>3. \A z \in TurnCall \cup Foreigners : a[1] = "upstream" => a \notin AliasesOf(z)
        BY <2>2, <4>1 DEF AliasesOf
      <4>4. a[1] = "upstream" => a \notin Cache!Live /\ a \notin DOMAIN aliases
        BY <1>2, <2>2, <4>1, <4>2, <4>3 DEF CacheKnown
      <4>5. Cache!Found(a) = {}
        BY <3>3, <4>4 DEF Cache!Found, a
      <4> QED BY <4>5 DEF a
    <3> QED BY <3>1, <3>2, <3>3
  <2>6. found = {} /\ carried = {}
    BY <2>1, <2>4, <2>5 DEF Carried
  <2> HIDE DEF found, carried, x
  <2>7. OutboundId(found, carried, x) = NoId
    <3>1. AgreeOn(NoId, found, carried)
      BY <2>6 DEF AgreeOn
    <3> QED BY <3>1, OutboundIdIs
  <2>8. ResponseName(i) = x
    BY <1>1, <2>7 DEF Outbound
  <2> QED BY <1>5, <2>8 DEF GoesBy, x
<1>4. CASE x # Injected /\ Knows(x)
  <2>1. PICK p \in OriginalOf(input[j]) : p.item = x /\ UpstreamID(x) = p.id
    BY <1>4, CallsOfRequest
  <2>2. /\ p \in TurnCalls /\ x \in TurnCall
        /\ Cache!Found(x) = {x} \cap Cache!Live
        /\ Carried(x) = IF HasReasoning THEN {p} ELSE {}
    BY <2>1, OriginalKnown
  <2>3. HasReasoning \/ x \in Cache!Live
    BY <1>4 DEF Knows
  <2>4. CASE HasReasoning
    <3>1. carried = {p}
      BY <2>2, <2>4
    <3>2. p.id = NoId => found \subseteq {x}
      <4> HAVE p.id = NoId
      <4>1. OutName(x) = x
        BY <2>1 DEF OutName, Outbound
      <4>2. \A k \in CallItems : input[k].call = x => input[k].id \in {NoName, ItemName(x)}
        BY <2>1 DEF NoneMisnamed, Misnamed
      <4>3. name # BothNames(x)
        <5>1. \A z \in TurnCall : z[1] = "fc" /\ ItemName(z)[1] = "item" /\ BothNames(z)[1] = "both"
          BY NameShapes
        <5>2. Injected[1] = "injected" /\ \A z \in UpstreamNames : z[1] = "upstream"
          BY DEF Injected, UpstreamNames
        <5> QED BY <1>2, <2>2, <5>1, <5>2 DEF RequestNames
      <4>4. name \in {x, ItemName(x)}
        BY <1>2, <4>1, <4>2, <4>3 DEF NamesOf, AliasesOf
      <4> QED BY <1>2, <2>2, <4>4, FoundKnown
    <3> HIDE DEF found, carried, x
    <3>3. OutboundId(found, carried, x) = p.id
      <4>1. AgreeOn(p.id, found, carried)
        BY <2>1, <3>1, <3>2 DEF AgreeOn
      <4> QED BY <4>1, OutboundIdIs
    <3> QED BY <1>1, <2>1, <3>3 DEF OutName, GoesBy, x
  <2>5. CASE ~HasReasoning
    <3>1. carried = {} /\ found = {x}
      BY <2>2, <2>3, <2>5 DEF Carried
    <3> HIDE DEF found, carried, x
    <3>2. OutboundId(found, carried, x) = p.id
      <4>1. AgreeOn(p.id, found, carried)
        BY <2>1, <3>1 DEF AgreeOn
      <4> QED BY <4>1, OutboundIdIs
    <3> QED BY <1>1, <2>1, <3>2 DEF OutName, GoesBy, x
  <2> QED BY <2>3, <2>4, <2>5
<1> QED BY <1>3, <1>4, <1>5

(* A result names the call it is found to belong to.                       *)
LEMMA ResultTraced ==
  ASSUME ReplayInv, NEW name
  PROVE  name \in NamesOf(ResultOf(name))
<1> DEFINE binds == [i \in CallItems |-> Own(i)]
           bound == {i \in CallItems : name \in binds[i]}
           carried == {i \in CallItems : \E p \in Carried(name) :
                         name = Outbound(p.id, p.item) /\ p.item = input[i].call}
           cached == {i \in CallItems : input[i].call \in Cache!Found(name)}
<1>1. ResultOf(name) = IF bound # {} THEN input[Min(bound)].call
                       ELSE IF carried # {} THEN input[Min(carried)].call
                       ELSE IF cached # {} THEN input[Min(cached)].call
                       ELSE name
  BY DEF ResultOf, Callee
<1>2. CallItems \subseteq Nat
  BY DEF ReplayInv, InputKnown, CallItems
<1>3. ASSUME NEW m \in bound PROVE name \in NamesOf(input[m].call)
  BY DEF Own, NamesOf, AliasesOf
<1>4. ASSUME NEW m \in carried PROVE name \in NamesOf(input[m].call)
  <2>1. PICK p \in Carried(name) : name = Outbound(p.id, p.item) /\ p.item = input[m].call
    OBVIOUS
  <2>2. UpstreamID(p.item) = p.id
    BY CarriedKnown, TurnCallsKnown DEF ReplayInv, TurnKnown, UpstreamID
  <2> QED BY <2>1, <2>2 DEF NamesOf, OutName
<1>5. ASSUME NEW m \in cached PROVE name \in NamesOf(input[m].call)
  <2>1. input[m].call \in Cache!Found(name)
    OBVIOUS
  <2>2. name = input[m].call \/ (name \in DOMAIN aliases /\ input[m].call = aliases[name])
    BY <2>1 DEF Cache!Found
  <2>3. name \in AliasesOf(input[m].call)
    BY <2>2 DEF ReplayInv, CacheKnown, AliasesOf
  <2> QED BY <2>3 DEF NamesOf
<1>6. name \in NamesOf(name)
  BY DEF NamesOf, AliasesOf
<1>7. bound \subseteq CallItems /\ carried \subseteq CallItems /\ cached \subseteq CallItems
  OBVIOUS
<1> HIDE DEF bound, carried, cached
<1>8. \A S : S \subseteq CallItems /\ S # {} => Min(S) \in S
  BY <1>2, MinOfPositions
<1> QED BY <1>1, <1>3, <1>4, <1>5, <1>6, <1>7, <1>8

(* The calls and results of a request are finitely many.                   *)
LEMMA ItemsFinite ==
  ASSUME ReplayInv
  PROVE  /\ IsFiniteSet(CallItems) /\ IsFiniteSet(OutputItems) /\ IsFiniteSet(DOMAIN input)
         /\ DOMAIN input = 1..Len(input) /\ Len(input) \in Nat
         /\ CallItems \subseteq Nat /\ OutputItems \subseteq Nat /\ CallItems \cap OutputItems = {}
<1>1. input \in Seq(KnownItem)
  BY DEF ReplayInv, InputKnown
<1>2. DOMAIN input = 1..Len(input) /\ Len(input) \in Nat
  BY <1>1
<1>3. IsFiniteSet(DOMAIN input)
  BY <1>2, FS_Interval
<1>4. CallItems \subseteq DOMAIN input /\ OutputItems \subseteq DOMAIN input /\ CallItems \cap OutputItems = {}
  BY DEF CallItems, OutputItems
<1> QED BY <1>2, <1>3, <1>4, FS_Subset

(* An accepted history has no more results than calls.                     *)
LEMMA ExchangeKnown ==
  ASSUME ReplayInv, ValidExchange
  PROVE  /\ \A i, j \in CallItems : i # j => input[i].call # input[j].call
         /\ Cardinality(OutputItems) <= Cardinality(CallItems)
<1> DEFINE to(i) == ValidatedResultOf(input[i].call)
           g == [i \in OutputItems |-> CHOOSE j \in CallItems : input[j].call = to(i)]
<1>1. CallItems \subseteq Nat /\ OutputItems \subseteq Nat /\ IsFiniteSet(CallItems)
  BY ItemsFinite
<1>2. \A i, j \in CallItems : i # j => input[i].call # input[j].call
  <2>1. \A i, j \in CallItems : i < j => input[i].call # input[j].call
    BY DEF ValidExchange
  <2> QED BY <1>1, <2>1
<1>3. \A i \in OutputItems : \E j \in CallItems : input[j].call = to(i)
  BY DEF ValidExchange
<1>4. \A i, j \in OutputItems : to(i) = to(j) => i = j
  <2>1. \A i, j \in OutputItems : j < i => to(j) # to(i)
    BY DEF ValidExchange
  <2> HIDE DEF to
  <2> QED BY <1>1, <2>1
<1> HIDE DEF to
<1>5. \A i \in OutputItems : g[i] \in CallItems /\ input[g[i]].call = to(i)
  BY <1>3
<1>6. g \in [OutputItems -> CallItems]
  BY <1>5
<1>7. \A i, j \in OutputItems : g[i] = g[j] => i = j
  BY <1>4, <1>5
<1> HIDE DEF g
<1>8. g \in Injection(OutputItems, CallItems)
  BY <1>6, <1>7 DEF Injection, IsInjective
<1>9. Cardinality(OutputItems) <= Cardinality(CallItems)
  BY <1>1, <1>8, FS_Injection
<1> QED BY <1>2, <1>9

(* With nothing left to translate, everything is.                          *)
LEMMA TranslatedPosition ==
  ASSUME ReplayInv
  PROVE  Translated \in Nat /\ (sent # <<>> => Len(sent) \in DOMAIN sent /\ Translated = sent[Len(sent)].item)
<1>1. sent \in Seq(SentPart) /\ \A k \in DOMAIN sent : sent[k].item \in DOMAIN input
  BY DEF ReplayInv, SentKnown
<1>2. DOMAIN input \subseteq Nat
  BY ItemsFinite
<1>3. sent # <<>> => Len(sent) \in DOMAIN sent
  BY <1>1
<1> QED BY <1>1, <1>2, <1>3 DEF Translated

LEMMA NothingLeft ==
  ASSUME ReplayInv, ~\E i \in DOMAIN input : NextItem(i), NEW i \in CallItems \cup OutputItems
  PROVE  i <= Translated
<1> DEFINE left(j) == /\ j > Translated
                      /\ input[j].type # "reasoning" /\ (input[j].type = "message" => input[j].body # <<>>)
           T == {j \in DOMAIN input : left(j)}
<1>1. Translated \in Nat /\ DOMAIN input = 1..Len(input) /\ Len(input) \in Nat
  BY TranslatedPosition, ItemsFinite
<1>2. i \in DOMAIN input /\ i \in Nat /\ input[i].type \in {"call", "output"}
  BY <1>1 DEF CallItems, OutputItems
<1> SUFFICES ASSUME i > Translated PROVE FALSE
  BY <1>1, <1>2
<1>3. T \subseteq Nat /\ T # {}
  BY <1>1, <1>2
<1>4. Min(T) \in T /\ \A j \in T : Min(T) <= j
  <2> HIDE DEF T
  <2> QED BY <1>3, MinOfPositions
<1> DEFINE m == Min(T)
<1>5. m \in DOMAIN input /\ left(m) /\ m \in Nat /\ \A j \in T : m <= j
  BY <1>1, <1>4
<1> HIDE DEF m
<1>6. ASSUME NEW j \in (Translated + 1)..(m - 1) PROVE ~left(j) /\ j > Translated
  <2>1. j \in DOMAIN input /\ j < m /\ j \in Nat /\ j > Translated
    BY <1>1, <1>5
  <2>2. j \notin T
    <3> HIDE DEF T
    <3> QED BY <1>5, <2>1
  <2> QED BY <2>1, <2>2
<1>7. NextItem(m)
  BY <1>5, <1>6 DEF NextItem
<1> QED BY <1>5, <1>7

(* Requests and their first passes.                                        *)
LEMMA RequestPaired ==
  ASSUME ReplayInv, CallsFirst, Exchanged, CalleesTraced, [Next]_vars
  PROVE  CallsFirst' /\ Exchanged' /\ CalleesTraced'
<1>1. CASE Replay
  <2> DEFINE S == TurnItem(Does("ids mixed up"))
             R == ResultItem(Does("ids mixed up"))
  <2>0. (\A x \in S : x.type # "output") /\ (\A x \in R : x.type = "output")
    BY DEF TurnItem, ResultItem
  <2>1. PICK items \in Seq(S), results \in Seq(R) : input' = items \o results
    BY <1>1, RequestMade DEF ReplayInv, TurnKnown
  <2> HIDE DEF S, R
  <2>2. /\ \A i \in 1..Len(items) : items[i].type # "output"
        /\ \A i \in 1..Len(results) : results[i].type = "output"
    BY <2>0, <2>1
  <2>3. /\ Len(items) \in Nat /\ Len(results) \in Nat
        /\ DOMAIN input' = 1..(Len(items) + Len(results))
        /\ \A i \in 1..(Len(items) + Len(results)) :
             input'[i] = IF i <= Len(items) THEN items[i] ELSE results[i - Len(items)]
    <3>1. Len(items) \in Nat /\ Len(results) \in Nat
      BY <2>1
    <3> DEFINE all == items \o results
    <3>2. items \in Seq(S \cup R) /\ results \in Seq(S \cup R)
      BY <2>1
    <3>3. /\ all \in Seq(S \cup R) /\ Len(all) = Len(items) + Len(results)
          /\ \A i \in 1..(Len(items) + Len(results)) :
               all[i] = IF i <= Len(items) THEN items[i] ELSE results[i - Len(items)]
      BY <3>2, ConcatProperties
    <3> HIDE DEF all
    <3>4. DOMAIN all = 1..(Len(items) + Len(results))
      BY <3>3
    <3> QED BY <2>1, <3>1, <3>3, <3>4 DEF all
  <2>4. ASSUME NEW i \in DOMAIN input', NEW j \in DOMAIN input', input'[i].type = "call", input'[j].type = "output"
        PROVE  i < j
    <3>1. i <= Len(items)
      <4> SUFFICES ASSUME ~(i <= Len(items)) PROVE FALSE
        OBVIOUS
      <4>1. i - Len(items) \in 1..Len(results) /\ input'[i] = results[i - Len(items)]
        BY <2>3
      <4> QED BY <2>2, <2>4, <4>1
    <3>2. ~(j <= Len(items))
      <4> SUFFICES ASSUME j <= Len(items) PROVE FALSE
        OBVIOUS
      <4>1. j \in 1..Len(items) /\ input'[j] = items[j]
        BY <2>3
      <4> QED BY <2>2, <2>4, <4>1
    <3> QED BY <2>3, <3>1, <3>2
  <2>5. CallsFirst'
    BY <2>4 DEF CallsFirst, CallItems, OutputItems
  <2>6. phase' = "scanning"
    BY <1>1 DEF Replay
  <2> QED BY <2>5, <2>6 DEF Exchanged, CalleesTraced
<1>2. CASE Scan
  <2>1. /\ input' = input /\ (phase' = "translating" => ValidExchange) /\ phase' # "sent"
        /\ callees' = [i \in OutputItems |-> ResultOf(input[i].call)]
    BY <1>2 DEF Scan
  <2>2. CallItems' = CallItems /\ OutputItems' = OutputItems /\ \A x : NamesOf(x)' = NamesOf(x)
    BY <2>1 DEF CallItems, OutputItems, NamesOf, OutName
  <2>3. Exchanged'
    BY <2>1, <2>2, ExchangeKnown DEF Exchanged
  <2>4. \A i \in OutputItems : input[i].call \in NamesOf(callees'[i])
    BY <2>1, ResultTraced
  <2>5. CalleesTraced'
    BY <2>1, <2>2, <2>4 DEF CalleesTraced
  <2> QED BY <2>1, <2>2, <2>3, <2>5 DEF CallsFirst
<1>3. CASE ~Replay /\ ~Scan
  <2>1. /\ input' = input /\ callees' = callees
        /\ phase' \in {"translating", "sent"} => phase \in {"translating", "sent"}
    <3>1. CASE Translate
      BY <3>1 DEF Translate
    <3> QED BY <1>3, <3>1 DEF Next, Answer, StorePut, NothingToStore, Send, Others, SaveStep, Restart, vars, requestVars
  <2>2. CallItems' = CallItems /\ OutputItems' = OutputItems /\ \A x : NamesOf(x)' = NamesOf(x)
    BY <2>1 DEF CallItems, OutputItems, NamesOf, OutName
  <2> QED BY <2>1, <2>2 DEF CallsFirst, Exchanged, CalleesTraced
<1> QED BY <1>1, <1>2, <1>3

(* The part a translated item becomes comes last.                          *)
LEMMA AppendedLast ==
  ASSUME ReplayInv, NEW part, sent' = Append(sent, part)
  PROVE  /\ Len(sent) \in Nat /\ DOMAIN sent = 1..Len(sent) /\ DOMAIN sent' = 1..(Len(sent) + 1)
         /\ sent'[Len(sent) + 1] = part /\ Translated' = part.item
         /\ \A k \in DOMAIN sent : k \in DOMAIN sent' /\ sent'[k] = sent[k] /\ k < Len(sent) + 1
         /\ \A k \in DOMAIN sent' : k \in DOMAIN sent \/ k = Len(sent) + 1
<1>1. sent \in Seq(SentPart)
  BY DEF ReplayInv, SentKnown
<1>2. /\ Len(sent) \in Nat /\ DOMAIN sent = 1..Len(sent) /\ DOMAIN sent' = 1..(Len(sent) + 1)
      /\ sent'[Len(sent) + 1] = part /\ Len(sent') = Len(sent) + 1 /\ sent' # <<>>
      /\ \A k \in DOMAIN sent : sent'[k] = sent[k]
  BY <1>1
<1> QED BY <1>2 DEF Translated

LEMMA OrderStep ==
  ASSUME ReplayInv, SentInOrder, [Next]_vars
  PROVE  SentInOrder'
<1>1. CASE sent' = <<>>
  BY <1>1 DEF SentInOrder
<1>2. CASE UNCHANGED <<input, sent>>
  BY <1>2 DEF SentInOrder, OutputItems
<1>3. ASSUME UNCHANGED input, NEW i \in DOMAIN input, NextItem(i), MessageSent(i) \/ ResponseSent(i) \/ CallSent(i)
      PROVE  SentInOrder'
  <2>1. PICK part : /\ sent' = Append(sent, part) /\ part.item = i
                    /\ part.type = "response" => i \in OutputItems
    <3>1. CASE MessageSent(i)
      BY <3>1 DEF MessageSent, Sent
    <3>2. CASE ResponseSent(i)
      BY <3>2 DEF ResponseSent, Sent
    <3>3. CASE CallSent(i)
      BY <3>3 DEF CallSent, Sent
    <3> QED BY <1>3, <3>1, <3>2, <3>3
  <2> DEFINE n == Len(sent)
  <2>2. /\ n \in Nat /\ DOMAIN sent = 1..n /\ DOMAIN sent' = 1..(n + 1) /\ sent'[n + 1] = part
        /\ \A k \in DOMAIN sent : sent'[k] = sent[k]
    BY <2>1, AppendedLast
  <2>3. \A k \in DOMAIN sent : sent[k].item < i
    <3>1. i > Translated /\ Translated \in Nat /\ i \in Nat
      BY <1>3, TranslatedPosition, ItemsFinite DEF NextItem
    <3>2. \A k \in DOMAIN sent : sent[k].item <= Translated /\ sent[k].item \in Nat
      <4> TAKE k \in DOMAIN sent
      <4>1. n \in DOMAIN sent /\ Translated = sent[n].item
        BY TranslatedPosition, <2>2
      <4>2. sent[k].item \in Nat
        BY ItemsFinite DEF ReplayInv, SentKnown
      <4>3. k = n \/ k < n
        BY <2>2
      <4> QED BY <3>1, <4>1, <4>2, <4>3 DEF SentInOrder
    <3> QED BY <3>1, <3>2
  <2> HIDE DEF n
  <2>4. ASSUME NEW k \in DOMAIN sent', NEW l \in DOMAIN sent', k < l PROVE sent'[k].item < sent'[l].item
    <3>1. k \in DOMAIN sent
      BY <2>2, <2>4
    <3>2. CASE l \in DOMAIN sent
      BY <2>2, <2>4, <3>1, <3>2 DEF SentInOrder
    <3>3. CASE l = n + 1
      BY <2>1, <2>2, <2>3, <3>1, <3>3
    <3> QED BY <2>2, <3>2, <3>3
  <2>5. \A k \in DOMAIN sent' : sent'[k].type = "response" => sent'[k].item \in OutputItems'
    <3>1. OutputItems' = OutputItems
      BY <1>3 DEF OutputItems
    <3> QED BY <2>1, <2>2, <3>1 DEF SentInOrder
  <2> QED BY <2>4, <2>5 DEF SentInOrder
<1> QED BY <1>1, <1>2, <1>3, SentStep

LEMMA AllSentStep ==
  ASSUME ReplayInv, ReplayInv', AllSent, [Next]_vars
  PROVE  AllSent'
<1>1. CASE sent' = <<>> /\ phase' # "sent"
  <2>1. Translated' = 0
    BY <1>1 DEF Translated
  <2>2. DOMAIN input' = 1..Len(input') /\ Len(input') \in Nat
    BY DEF ReplayInv, InputKnown
  <2>3. \A i \in DOMAIN input' : ~(i <= Translated')
    BY <2>1, <2>2
  <2> QED BY <1>1, <2>3 DEF AllSent, CallItems, OutputItems
<1>2. CASE UNCHANGED <<input, sent>> /\ (phase' = "sent" => phase = "sent" \/ ~\E i \in DOMAIN input : NextItem(i))
  <2>1. /\ CallItems' = CallItems /\ OutputItems' = OutputItems /\ Translated' = Translated
        /\ \A i, type : SentAs(i, type)' = SentAs(i, type)
    BY <1>2 DEF CallItems, OutputItems, Translated, SentAs
  <2>2. \A i \in CallItems \cup OutputItems : phase' = "sent" => phase = "sent" \/ i <= Translated
    BY <1>2, NothingLeft
  <2> QED BY <2>1, <2>2 DEF AllSent
<1>3. ASSUME UNCHANGED input, phase' = "translating", NEW i \in DOMAIN input, NextItem(i),
             MessageSent(i) \/ ResponseSent(i) \/ CallSent(i)
      PROVE  AllSent'
  <2>1. PICK part : /\ sent' = Append(sent, part) /\ part.item = i
                    /\ i \in CallItems => part.type = "call"
                    /\ i \in OutputItems => part.type = "response"
    <3>1. CASE MessageSent(i)
      BY <3>1 DEF MessageSent, Sent, CallItems, OutputItems
    <3>2. CASE ResponseSent(i)
      BY <3>2 DEF ResponseSent, Sent, CallItems, OutputItems
    <3>3. CASE CallSent(i)
      BY <3>3 DEF CallSent, Sent, CallItems, OutputItems
    <3> QED BY <1>3, <3>1, <3>2, <3>3
  <2>2. /\ Translated' = i /\ Translated \in Nat /\ i \in Nat /\ CallItems' = CallItems /\ OutputItems' = OutputItems
        /\ CallItems \subseteq Nat /\ OutputItems \subseteq Nat
    BY <1>3, <2>1, AppendedLast, TranslatedPosition, ItemsFinite DEF CallItems, OutputItems
  <2>3. \A j, type : SentAs(j, type) => SentAs(j, type)'
    BY <2>1, AppendedLast DEF SentAs
  <2>4. \A type : part.type = type => SentAs(i, type)'
    <3>1. Len(sent) + 1 \in DOMAIN sent' /\ sent'[Len(sent) + 1] = part
      BY <2>1, AppendedLast
    <3> QED BY <2>1, <3>1 DEF SentAs
  <2>5. ASSUME NEW j \in CallItems \cup OutputItems, j <= i PROVE j <= Translated \/ j = i
    <3> SUFFICES ASSUME ~(j <= Translated), j # i PROVE FALSE
      OBVIOUS
    <3>1. j \in (Translated + 1)..(i - 1)
      BY <2>2, <2>5
    <3>2. input[j].type \in {"reasoning", "message"}
      BY <1>3, <3>1 DEF NextItem
    <3> QED BY <3>2 DEF CallItems, OutputItems
  <2>6. \A j \in CallItems : j <= i => SentAs(j, "call")'
    BY <2>1, <2>3, <2>4, <2>5 DEF AllSent
  <2>7. \A j \in OutputItems : j <= i => SentAs(j, "response")'
    BY <2>1, <2>3, <2>4, <2>5 DEF AllSent
  <2> QED BY <1>3, <2>2, <2>6, <2>7 DEF AllSent
<1> QED BY <1>1, <1>2, <1>3, SentStep

(* What was sent keeps its name.                                           *)
LEMMA NameKept ==
  ASSUME ReplayInv, UNCHANGED <<turn, input, callees>>, Shrunk, NEW k \in DOMAIN sent, sent'[k] = sent[k],
         /\ sent[k].type = "call" => CallNamed(k)
         /\ sent[k].type = "response" => ResponseNamed(k)
  PROVE  /\ sent'[k].type = "call" => CallNamed(k)'
         /\ sent'[k].type = "response" => ResponseNamed(k)'
<1>1. /\ CallItems' = CallItems /\ OutputItems' = OutputItems /\ HasReasoning' = HasReasoning
      /\ ItemSent(k)' = ItemSent(k) /\ \A i : input'[i] = input[i]
  BY DEF CallItems, OutputItems, HasReasoning, ItemSent
<1>2. NoneMisnamed' => NoneMisnamed
  <2>1. \A it : Misnamed(it) => Misnamed(it)'
    BY KnownShrinks DEF Misnamed
  <2> QED BY <1>1, <2>1 DEF NoneMisnamed
<1>3. \A i \in CallItems : Knows(input[i].call)' => Knows(input[i].call)
  <2>1. \A x \in CallsOf(turn.parts) \cup {Injected} : x \notin Foreigners
    <3>1. CallsOf(turn.parts) \subseteq TurnCall
      BY TurnCallsKnown DEF ReplayInv, TurnKnown
    <3>2. Injected \notin Foreigners
      BY DEF Injected, Foreigners, OtherCall
    <3> QED BY <3>1, <3>2, NameShapes
  <2> QED BY <1>1, <2>1, CallsOfRequest DEF Knows, Shrunk
<1>4. \A id : \A i \in CallItems : GoesBy(id, input[i].call) => GoesBy(id, input[i].call)'
  BY <1>1, <1>3 DEF GoesBy, OutName
<1>5. sent'[k].type = "call" => CallNamed(k)'
  <2> SUFFICES ASSUME sent[k].type = "call" PROVE CallNamed(k)'
    OBVIOUS
  <2>1. sent[k].item \in CallItems /\ ItemSent(k) = input[sent[k].item]
    BY DEF ReplayInv, SentKnown, ItemSent
  <2> QED BY <1>1, <1>2, <1>4, <2>1 DEF CallNamed
<1>6. sent'[k].type = "response" => ResponseNamed(k)'
  <2> SUFFICES ASSUME sent[k].type = "response", NoneMisnamed, NEW j \in CallItems,
                      callees[sent[k].item] = input[j].call
               PROVE  GoesBy(sent[k].id, callees[sent[k].item])'
    BY <1>1, <1>2 DEF ResponseNamed
  <2>1. GoesBy(sent[k].id, input[j].call)
    BY DEF ResponseNamed
  <2>2. GoesBy(sent[k].id, input[j].call)'
    BY <1>4, <2>1
  <2> QED BY <1>1, <2>2
<1> QED BY <1>5, <1>6

LEMMA NamedStep ==
  ASSUME ReplayInv, CalleesTraced, SentNamed, [Next]_vars
  PROVE  SentNamed'
<1>1. CASE sent' = <<>>
  BY <1>1 DEF SentNamed
<1>2. CASE UNCHANGED <<turn, input, callees, sent>> /\ Shrunk
  <2> SUFFICES ASSUME NEW k \in DOMAIN sent
               PROVE  /\ sent'[k].type = "call" => CallNamed(k)'
                      /\ sent'[k].type = "response" => ResponseNamed(k)'
    BY <1>2 DEF SentNamed
  <2> QED BY <1>2, NameKept DEF SentNamed
<1>3. ASSUME UNCHANGED <<cacheVars, turn, input, callees>>, phase = "translating",
             NEW i \in DOMAIN input, NextItem(i), MessageSent(i) \/ ResponseSent(i) \/ CallSent(i)
      PROVE  SentNamed'
  <2>1. /\ NoneMisnamed' = NoneMisnamed /\ Shrunk /\ \A id, x : GoesBy(id, x)' <=> GoesBy(id, x)
        /\ CallItems' = CallItems /\ OutputItems' = OutputItems
    <3>1. Cache!Live' = Cache!Live /\ records' = records
      BY <1>3 DEF Cache!Live, cacheVars, tables
    <3>2. CallItems' = CallItems /\ OutputItems' = OutputItems /\ HasReasoning' = HasReasoning
          /\ \A it : OriginalOf(it)' = OriginalOf(it)
      BY <1>3 DEF CallItems, OutputItems, HasReasoning, OriginalOf, TurnCalls
    <3>3. \A p : Known(p)' <=> Known(p)
      BY <3>1, <3>2 DEF Known
    <3>4. \A it : Misnamed(it)' <=> Misnamed(it)
      BY <3>2, <3>3 DEF Misnamed
    <3>5. \A id, x : GoesBy(id, x)' <=> GoesBy(id, x)
      BY <3>1, <3>2 DEF GoesBy, Knows, OutName
    <3>6. NoneMisnamed' = NoneMisnamed
      BY <1>3, <3>2, <3>4 DEF NoneMisnamed
    <3> QED BY <3>1, <3>2, <3>5, <3>6 DEF Shrunk
  <2>2. PICK part : sent' = Append(sent, part)
    BY <1>3 DEF MessageSent, ResponseSent, CallSent
  <2>6. PICK n : n = Len(sent) + 1
    OBVIOUS
  <2>3. ASSUME NEW k \in DOMAIN sent
        PROVE  /\ sent'[k].type = "call" => CallNamed(k)'
               /\ sent'[k].type = "response" => ResponseNamed(k)'
    <3>1. sent'[k] = sent[k]
      BY <2>2, AppendedLast
    <3> QED BY <1>3, <2>1, <3>1, NameKept DEF SentNamed
  <2>4. (\A k \in DOMAIN sent' : k \in DOMAIN sent \/ k = n) /\ sent'[n] = part
    BY <2>2, <2>6, AppendedLast
  <2>5. /\ sent'[n].type = "call" => CallNamed(n)'
        /\ sent'[n].type = "response" => ResponseNamed(n)'
    <3>1. CASE MessageSent(i)
      <4>1. sent'[n].type = "message"
        BY <2>6, <3>1, AppendedLast DEF MessageSent, Sent
      <4> QED BY <4>1
    <3>2. CASE ResponseSent(i)
      <4> DEFINE id == ResponseName(i)
      <4>1. i \in OutputItems /\ sent' = Append(sent, Sent("response", i, id, NoSig))
        BY <3>2 DEF ResponseSent
      <4> HIDE DEF id
      <4>2. sent'[n] = Sent("response", i, id, NoSig)
        BY <2>6, <4>1, AppendedLast
      <4>3. sent'[n].type = "response" /\ sent'[n].item = i /\ sent'[n].id = id
        BY <4>2 DEF Sent
      <4>4. NoneMisnamed /\ (\E j \in CallItems : callees[i] = input[j].call) => GoesBy(id, callees[i])
        BY <1>3, <4>1, ResponseNameIs DEF CalleesTraced, id
      <4>5. ResponseNamed(n)'
        BY <1>3, <2>1, <4>3, <4>4 DEF ResponseNamed
      <4> QED BY <4>3, <4>5
    <3>3. CASE CallSent(i)
      <4> DEFINE id == CallName(i)
                 sig == P!ResolveToolSignature(Evidence(i))
      <4>1. i \in CallItems /\ sig # NoSig /\ sent' = Append(sent, Sent("call", i, id, sig))
        BY <3>3 DEF CallSent
      <4>2. \E j \in OutputItems : callees[j] = input[i].call
        <5> DEFINE ev == Evidence(i)
        <5>1. ev.hasOutput = (\E j \in DOMAIN callees : callees[j] = input[i].call)
          BY EvidenceKnown
        <5>2. DOMAIN callees = OutputItems
          BY <1>3 DEF ReplayInv, ScanKnown
        <5> HIDE DEF ev
        <5>3. ev.hasOutput
          BY <4>1, Resolved DEF ev
        <5> QED BY <5>1, <5>2, <5>3
      <4> HIDE DEF id, sig
      <4>3. sent'[n] = Sent("call", i, id, sig)
        BY <2>6, <4>1, AppendedLast
      <4>4. sent'[n].type = "call" /\ sent'[n].item = i /\ sent'[n].id = id
        BY <4>3 DEF Sent
      <4>5. NoneMisnamed => GoesBy(id, input[i].call)
        BY <4>1, CallNameIs DEF NoneMisnamed, id
      <4>6. CallNamed(n)'
        BY <1>3, <2>1, <4>2, <4>4, <4>5 DEF CallNamed, ItemSent
      <4> QED BY <4>4, <4>6
    <3> QED BY <1>3, <3>1, <3>2, <3>3
  <2> QED BY <2>3, <2>4, <2>5 DEF SentNamed
<1> QED BY <1>1, <1>2, <1>3, SentStep

LEMMA PairedHolds == Spec => []PairedInv
<1>1. Init => PairedInv
  <2> SUFFICES ASSUME Init PROVE PairedInv
    OBVIOUS
  <2>1. phase = "idle" /\ input = <<>> /\ sent = <<>>
    BY DEF Init
  <2> QED BY <2>1 DEF PairedInv, CallsFirst, Exchanged, CalleesTraced, SentInOrder, AllSent, SentNamed, CallItems, OutputItems
<1>2. ReplayInv /\ ReplayInv' /\ PairedInv /\ [Next]_vars => PairedInv'
  BY RequestPaired, OrderStep, AllSentStep, NamedStep DEF PairedInv
<1> QED BY <1>1, <1>2, InvHolds, PTL DEF Spec

(* When as many results as there are calls name every call, each names one.*)
LEMMA OneEach ==
  ASSUME ReplayInv, PairedInv, phase = "sent"
  PROVE  /\ \A i \in CallItems : \E j \in OutputItems : callees[j] = input[i].call
         /\ \A j \in OutputItems : \E i \in CallItems : callees[j] = input[i].call
         /\ \A j, l \in OutputItems : callees[j] = callees[l] => j = l
<1> DEFINE a == [i \in CallItems |-> CHOOSE j \in OutputItems : callees[j] = input[i].call]
<1>1. \A i \in CallItems : \E j \in OutputItems : callees[j] = input[i].call
  <2> SUFFICES ASSUME NEW i \in CallItems PROVE \E j \in OutputItems : callees[j] = input[i].call
    OBVIOUS
  <2>1. PICK k \in DOMAIN sent : sent[k].item = i /\ sent[k].type = "call"
    BY DEF PairedInv, AllSent, SentAs
  <2> QED BY <2>1 DEF PairedInv, SentNamed, CallNamed, ItemSent
<1>2. \A i \in CallItems : a[i] \in OutputItems /\ callees[a[i]] = input[i].call
  BY <1>1
<1>3. a \in [CallItems -> OutputItems]
  BY <1>2
<1> HIDE DEF a
<1>4. \A i, j \in CallItems : input[i].call = input[j].call => i = j
  BY DEF PairedInv, Exchanged
<1>5. a \in Injection(CallItems, OutputItems)
  BY <1>2, <1>3, <1>4 DEF Injection, IsInjective
<1>6. Cardinality(CallItems) = Cardinality(OutputItems)
  <2>1. Cardinality(CallItems) <= Cardinality(OutputItems)
    BY <1>5, FS_Injection, ItemsFinite
  <2>2. Cardinality(OutputItems) <= Cardinality(CallItems)
    BY DEF PairedInv, Exchanged
  <2>3. Cardinality(CallItems) \in Nat /\ Cardinality(OutputItems) \in Nat
    BY ItemsFinite, FS_CardinalityType
  <2> QED BY <2>1, <2>2, <2>3
<1>7. a \in Surjection(CallItems, OutputItems)
  BY <1>5, <1>6, FS_Injection, ItemsFinite
<1>8. \A j \in OutputItems : \E i \in CallItems : a[i] = j
  BY <1>7 DEF Surjection
<1>9. \A j, l \in OutputItems : callees[j] = callees[l] => j = l
  BY <1>2, <1>4, <1>8
<1> QED BY <1>1, <1>2, <1>8, <1>9

(* No name is that of two calls of a request.                              *)
LEMMA OwnNamesApart ==
  ASSUME ReplayInv, phase # "idle", NEW x \in CallsOf(turn.parts) \cup {Injected},
         NEW y \in CallsOf(turn.parts) \cup {Injected}, {x, OutName(x)} \cap {y, OutName(y)} # {}
  PROVE  x = y
<1>1. CallsOf(turn.parts) \subseteq TurnCall
  BY TurnCallsKnown DEF ReplayInv, TurnKnown
<1>2. ASSUME NEW z \in CallsOf(turn.parts) \cup {Injected}
      PROVE  /\ z[1] \in {"fc", "injected"}
             /\ OutName(z) = z \/ OutName(z)[1] = "upstream"
  <2>1. z[1] \in {"fc", "injected"}
    BY <1>1, NameShapes DEF Injected
  <2>2. OutName(z) = z \/ OutName(z)[1] = "upstream"
    BY DEF OutName, Outbound
  <2> QED BY <2>1, <2>2
<1>3. x = y \/ OutName(x) = OutName(y)
  <2>1. /\ x[1] \in {"fc", "injected"} /\ (OutName(x) = x \/ OutName(x)[1] = "upstream")
        /\ y[1] \in {"fc", "injected"} /\ (OutName(y) = y \/ OutName(y)[1] = "upstream")
    BY <1>2
  <2> QED BY <2>1
<1> QED BY <1>3, OutNamesDiffer

(* In an accepted request every call is followed by exactly one response   *)
(* under a name of its own, every response answers a call, and both go by  *)
(* the id the upstream gave the call as long as the bridge knows it.       *)
THEOREM AcceptedPaired == Spec => []AcceptedIsPaired
<1>1. ASSUME ReplayInv, PairedInv, phase = "sent", \A k \in SentCalls : ~Misnamed(ItemSent(k))
      PROVE  /\ \A k \in SentCalls :
                  /\ Cardinality(ResponsesTo(k)) = 1 /\ sent[k].id \in OwnNames(ItemSent(k))
                  /\ \A p \in OriginalOf(ItemSent(k)) : Known(p) =>
                       \A l \in ResponsesTo(k) \cup {k} : sent[l].id = Outbound(p.id, p.item)
             /\ \A l \in SentResponses : \E k \in SentCalls : k < l /\ l \in ResponsesTo(k)
  <2>1. NoneMisnamed
    <3>1. ASSUME NEW j \in CallItems PROVE ~Misnamed(input[j])
      <4>1. PICK k \in DOMAIN sent : sent[k].item = j /\ sent[k].type = "call"
        BY <1>1 DEF PairedInv, AllSent, SentAs
      <4> QED BY <1>1, <4>1 DEF SentCalls, ItemSent
    <3> QED BY <3>1 DEF NoneMisnamed
  <2>2. ASSUME NEW k \in SentCalls
        PROVE  /\ sent[k].item \in CallItems /\ GoesBy(sent[k].id, ItemSent(k).call)
               /\ ItemSent(k).call \in CallsOf(turn.parts) \cup {Injected}
               /\ OwnNames(ItemSent(k)) = {ItemSent(k).call, OutName(ItemSent(k).call)}
    <3>1. sent[k].item \in CallItems
      BY <1>1 DEF SentCalls, ReplayInv, SentKnown
    <3>2. CallNamed(k)
      BY <1>1 DEF PairedInv, SentNamed, SentCalls
    <3> QED BY <1>1, <2>1, <3>1, <3>2, CallsOfRequest DEF CallNamed, ItemSent, OwnNames, OutName
  <2>3. ASSUME NEW l \in SentResponses
        PROVE  \E k \in SentCalls : /\ k < l /\ callees[sent[l].item] = ItemSent(k).call
                                    /\ GoesBy(sent[l].id, ItemSent(k).call) /\ sent[l].item \in OutputItems
    <3>0. l \in DOMAIN sent /\ sent[l].type = "response"
      BY DEF SentResponses
    <3>1. sent[l].item \in OutputItems
      BY <1>1, <3>0 DEF PairedInv, SentInOrder
    <3>2. PICK i \in CallItems : callees[sent[l].item] = input[i].call
      BY <1>1, <3>1, OneEach
    <3>3. PICK k \in DOMAIN sent : sent[k].item = i /\ sent[k].type = "call"
      BY <1>1 DEF PairedInv, AllSent, SentAs
    <3>4. GoesBy(sent[l].id, input[i].call)
      BY <1>1, <2>1, <3>0, <3>2 DEF PairedInv, SentNamed, ResponseNamed
    <3>5. k \in SentCalls /\ ItemSent(k).call = input[i].call
      BY <3>3 DEF SentCalls, ItemSent
    <3>6. k < l
      <4>1. i < sent[l].item /\ i \in Nat /\ sent[l].item \in Nat
        BY <1>1, <3>1, ItemsFinite DEF PairedInv, CallsFirst
      <4>2. DOMAIN sent \subseteq Nat
        BY <1>1 DEF ReplayInv, SentKnown
      <4>3. k \in Nat /\ l \in Nat /\ (l < k => sent[l].item < i) /\ k # l
        BY <1>1, <3>0, <3>3, <4>2 DEF PairedInv, SentInOrder
      <4> QED BY <4>1, <4>3
    <3> QED BY <3>1, <3>2, <3>4, <3>5, <3>6
  <2>4. ASSUME NEW k \in SentCalls, NEW m \in ResponsesTo(k)
        PROVE  /\ callees[sent[m].item] = ItemSent(k).call /\ sent[m].item \in OutputItems
               /\ GoesBy(sent[m].id, ItemSent(k).call)
    <3>0. m \in SentResponses /\ sent[m].id \in OwnNames(ItemSent(k))
      BY DEF ResponsesTo
    <3>1. PICK h \in SentCalls : /\ callees[sent[m].item] = ItemSent(h).call /\ sent[m].item \in OutputItems
                                 /\ GoesBy(sent[m].id, ItemSent(h).call)
      BY <2>3, <3>0
    <3>2. ItemSent(h).call = ItemSent(k).call
      <4>1. phase # "idle"
        BY <1>1
      <4>2. /\ sent[m].id \in {ItemSent(h).call, OutName(ItemSent(h).call)}
            /\ sent[m].id \in {ItemSent(k).call, OutName(ItemSent(k).call)}
        BY <2>2, <3>0, <3>1 DEF GoesBy
      <4> QED BY <1>1, <2>2, <4>1, <4>2, OwnNamesApart
    <3> QED BY <3>1, <3>2
  <2>5. ASSUME NEW k \in SentCalls PROVE Cardinality(ResponsesTo(k)) = 1
    <3>1. PICK j \in OutputItems : callees[j] = ItemSent(k).call
      BY <1>1, <2>2, OneEach DEF ItemSent
    <3>2. PICK l \in DOMAIN sent : sent[l].item = j /\ sent[l].type = "response"
      BY <1>1 DEF PairedInv, AllSent, SentAs
    <3>3. l \in ResponsesTo(k)
      <4>1. l \in SentResponses
        BY <3>2 DEF SentResponses
      <4>2. PICK h \in SentCalls : callees[j] = ItemSent(h).call /\ GoesBy(sent[l].id, ItemSent(h).call)
        BY <2>3, <3>2, <4>1
      <4> QED BY <2>2, <3>1, <4>1, <4>2 DEF GoesBy, ResponsesTo
    <3>4. ASSUME NEW m \in ResponsesTo(k) PROVE m = l
      <4>1. callees[sent[m].item] = ItemSent(k).call /\ sent[m].item \in OutputItems
        BY <2>4
      <4>2. sent[m].item = j
        BY <1>1, <3>1, <4>1, OneEach
      <4>3. m \in DOMAIN sent /\ l \in DOMAIN sent /\ DOMAIN sent \subseteq Nat
        BY <1>1, <3>2 DEF ReplayInv, SentKnown, ResponsesTo, SentResponses
      <4>4. ~(m < l) /\ ~(l < m)
        <5>1. j \in Nat
          BY <1>1, ItemsFinite
        <5> QED BY <1>1, <3>2, <4>2, <4>3, <5>1 DEF PairedInv, SentInOrder
      <4> QED BY <4>3, <4>4
    <3>5. ResponsesTo(k) = {l}
      BY <3>3, <3>4
    <3> QED BY <3>5, FS_Singleton
  <2>6. ASSUME NEW k \in SentCalls, NEW p \in OriginalOf(ItemSent(k)), Known(p), NEW l \in ResponsesTo(k) \cup {k}
        PROVE  sent[l].id = Outbound(p.id, p.item)
    <3>1. p.item = ItemSent(k).call /\ UpstreamID(p.item) = p.id
      BY <1>1, <2>2, <2>6, TurnCallsKnown DEF ReplayInv, TurnKnown, OriginalOf, UpstreamID
    <3>2. GoesBy(sent[l].id, ItemSent(k).call)
      BY <2>2, <2>4
    <3>3. Knows(ItemSent(k).call)
      BY <2>6, <3>1 DEF Known, Knows
    <3> QED BY <3>1, <3>2, <3>3 DEF OutName, GoesBy
  <2>7. ASSUME NEW l \in SentResponses PROVE \E k \in SentCalls : k < l /\ l \in ResponsesTo(k)
    BY <2>2, <2>3 DEF GoesBy, ResponsesTo
  <2>8. \A k \in SentCalls : sent[k].id \in OwnNames(ItemSent(k))
    BY <2>2 DEF GoesBy
  <2> QED BY <2>5, <2>6, <2>7, <2>8
<1>2. ReplayInv /\ PairedInv => AcceptedIsPaired
  BY <1>1 DEF AcceptedIsPaired
<1> QED BY <1>2, InvHolds, PairedHolds, PTL

-----------------------------------------------------------------------------
(* A faithful client is understood.                                        *)

(* What a client may leave out of its history; it changes nothing.         *)
Leaves == {"no reasoning", "no signatures", "no item ids", "result by item"}

(* The request has been made; its first pass is over.                      *)
Requested == phase \in {"scanning", "translating", "sent", "rejected"}
Scanned == phase \in {"translating", "sent", "rejected"}

(* What such a client sends for a part of the turn.                        *)
CallCopy(it, p, left) ==
  /\ p.kind = "call" /\ it.call = p.item /\ it.body = p.body /\ it.sig \in {NoSig, p.sig}
  /\ it.id = IF "no item ids" \in left THEN NoName ELSE ItemName(p.item)

ItemCopy(it, p, left) ==
  IF it.type = "call" THEN CallCopy(it, p, left) ELSE p.kind = "text"

(* The calls and messages of a history are the parts of the turn, in their *)
(* order.                                                                  *)
TurnCopies(s) == {k \in DOMAIN s : s[k].type \in {"call", "message"}}

Copied(s, from, left) ==
  /\ from \in [TurnCopies(s) -> DOMAIN turn.parts]
  /\ \A k, l \in TurnCopies(s) : k < l => from[k] < from[l]
  /\ \A k \in TurnCopies(s) : ItemCopy(s[k], turn.parts[from[k]], left)
  /\ \A x \in DOMAIN turn.parts : \E k \in TurnCopies(s) : from[k] = x

(* Every call has one result, under a name of its own.                     *)
AnsweredBy(to) ==
  /\ to \in [OutputItems -> CallItems]
  /\ \A i, j \in OutputItems : to[i] = to[j] => i = j
  /\ \A i \in CallItems : \E j \in OutputItems : to[j] = i
  /\ \A j \in OutputItems :
       input[j].call = IF "result by item" \in deviations THEN ItemName(input[to[j]].call) ELSE input[to[j]].call

(* A request without any other deviation is a copy with its results.       *)
RequestFaithful ==
  Requested /\ deviations \subseteq Leaves =>
    (\E from : Copied(input, from, deviations)) /\ (\E to : AnsweredBy(to))

(* A call the cache has is found under the name of its item too, and so is *)
(* one the file has.                                                       *)
NamesKept ==
  /\ \A x \in TurnCall : ItemName(x) \notin ambiguous
  /\ \A x \in Cache!Live \cap CallsOf(turn.parts) : ItemName(x) \in DOMAIN aliases /\ aliases[ItemName(x)] = x

FileNamesKept ==
  /\ \A x \in TurnCall : ItemName(x) \notin file.ambiguous
  /\ \A x \in DOMAIN file.records.val \cap CallsOf(turn.parts) :
       ItemName(x) \in DOMAIN file.aliases /\ file.aliases[ItemName(x)] = x

(* The siblings of the turn are stored after everything else, and stay     *)
(* unless a restart loses them.                                            *)
SiblingsLast == todo # <<>> /\ Last(todo) = SiblingsPut(Head(turn.calls), ToSet(Tail(turn.calls)))

Followers == ToSet(Tail(turn.calls)) \ {Head(turn.calls)}

SiblingsThere ==
  Len(turn.calls) > 1 =>
    /\ phase = "storing" => SiblingsLast
    /\ phase \notin {"idle", "storing"} /\ ~torn =>
         Head(turn.calls) \in DOMAIN siblings /\ Followers \subseteq siblings[Head(turn.calls)]

(* The first pass has found the results of the calls, and the first call   *)
(* of the turn leads the calls around it.                                  *)
Remembered == {"no item ids", "result by item"} \subseteq deviations => \A p \in TurnCalls : p.item \in Cache!Live

AnswersFound ==
  Scanned /\ deviations \subseteq Leaves /\ Remembered =>
    \A i \in CallItems : \E j \in DOMAIN callees : callees[j] = input[i].call

FirstLeads ==
  Scanned /\ deviations \subseteq Leaves =>
    \A i \in CallItems : \A p \in OriginalOf(input[i]) :
      p.item = Head(turn.calls) /\ p.sig # NoSig /\ Known(p) => leads[i] = p.item

FaithfulInv ==
  RequestFaithful /\ NamesKept /\ FileNamesKept /\ SiblingsThere /\ AnswersFound /\ FirstLeads /\ FaithfulReplayAccepted

-----------------------------------------------------------------------------
(* Sequences of at most one element, put together: where each element is   *)
(* from.                                                                   *)
AtMostOne(ss) == \A i \in DOMAIN ss : ss[i] = <<>> \/ \E e : ss[i] = <<e>>

(* The element k of r is the one of ss[at[k]].                             *)
Threaded(ss, r, at) ==
  /\ at \in [DOMAIN r -> DOMAIN ss]
  /\ \A k, l \in DOMAIN r : k < l => at[k] < at[l]
  /\ \A k \in DOMAIN r : ss[at[k]] = <<r[k]>>
  /\ \A i \in DOMAIN ss : ss[i] # <<>> => \E k \in DOMAIN r : at[k] = i

(* A sequence more.                                                        *)
LEMMA ThreadedAppend ==
  ASSUME NEW S, NEW ss \in Seq(Seq(S)), NEW x \in Seq(S), x = <<>> \/ \E e : x = <<e>>,
         NEW r \in Seq(S), NEW at, Threaded(ss, r, at)
  PROVE  \E b : Threaded(Append(ss, x), r \o x, b)
<1> DEFINE tt == Append(ss, x)
<1>1. PICK n \in Nat : n = Len(ss)
  OBVIOUS
<1>2. /\ DOMAIN ss = 1..n /\ DOMAIN tt = 1..(n + 1) /\ tt[n + 1] = x /\ \A i \in 1..n : tt[i] = ss[i]
  BY <1>1
<1> HIDE DEF tt
<1>3. /\ \A i \in 1..n : i \in 1..(n + 1) /\ i # n + 1 /\ i < n + 1
      /\ \A i \in 1..(n + 1) : i \in 1..n \/ i = n + 1
      /\ n + 1 \in 1..(n + 1)
  OBVIOUS
<1>4. PICK m \in Nat : m = Len(r) /\ DOMAIN r = 1..m
  OBVIOUS
<1>5. /\ at \in [1..m -> 1..n]
      /\ \A k, l \in 1..m : k < l => at[k] < at[l]
      /\ \A k \in 1..m : ss[at[k]] = <<r[k]>>
      /\ \A i \in 1..n : ss[i] # <<>> => \E k \in 1..m : at[k] = i
  BY <1>2, <1>4 DEF Threaded
<1>6. CASE x = <<>>
  <2>1. r \o x = r
    BY <1>6, ConcatEmptySeq
  <2>2. Threaded(tt, r, at)
    <3>1. at \in [1..m -> 1..(n + 1)]
      BY <1>3, <1>5
    <3>2. \A k \in 1..m : tt[at[k]] = <<r[k]>>
      BY <1>2, <1>5
    <3>3. \A i \in 1..(n + 1) : tt[i] # <<>> => \E k \in 1..m : at[k] = i
      BY <1>2, <1>3, <1>5, <1>6
    <3> QED BY <1>2, <1>4, <1>5, <3>1, <3>2, <3>3 DEF Threaded
  <2> QED BY <2>1, <2>2 DEF tt
<1>7. CASE \E e : x = <<e>>
  <2>1. PICK e : x = <<e>>
    BY <1>7
  <2>2. e \in S /\ x # <<>>
    <3>1. x[1] \in S /\ x[1] = e
      BY <2>1
    <3> QED BY <2>1, <3>1
  <2> DEFINE q == Append(r, e)
             b == [k \in 1..(m + 1) |-> IF k = m + 1 THEN n + 1 ELSE at[k]]
  <2>3. r \o x = q
    BY <2>1, <2>2, AppendIsConcat
  <2>4. DOMAIN q = 1..(m + 1) /\ q[m + 1] = e /\ \A k \in 1..m : q[k] = r[k]
    BY <1>4, <2>2
  <2> HIDE DEF q
  <2>5. /\ \A k \in 1..m : k \in 1..(m + 1) /\ k # m + 1 /\ ~(m + 1 < k)
        /\ \A k \in 1..(m + 1) : k \in 1..m \/ k = m + 1
        /\ m + 1 \in 1..(m + 1) /\ ~(m + 1 < m + 1)
    OBVIOUS
  <2>6. DOMAIN b = 1..(m + 1) /\ b[m + 1] = n + 1 /\ \A k \in 1..m : b[k] = at[k] /\ b[k] \in 1..n
    BY <1>5, <2>5
  <2>7. b \in [1..(m + 1) -> 1..(n + 1)]
    <3>1. \A k \in 1..(m + 1) : b[k] \in 1..(n + 1)
      BY <1>3, <2>5, <2>6
    <3> QED BY <3>1
  <2> HIDE DEF b
  <2>8. \A k, l \in 1..(m + 1) : k < l => b[k] < b[l]
    <3> TAKE k, l \in 1..(m + 1)
    <3> HAVE k < l
    <3>1. k \in 1..m
      BY <2>5
    <3>2. CASE l \in 1..m
      BY <1>5, <2>6, <3>1, <3>2
    <3>3. CASE l = m + 1
      BY <1>3, <2>6, <3>1, <3>3
    <3> QED BY <2>5, <3>2, <3>3
  <2>9. \A k \in 1..(m + 1) : tt[b[k]] = <<q[k]>>
    <3> TAKE k \in 1..(m + 1)
    <3>1. CASE k \in 1..m
      BY <1>2, <1>5, <2>4, <2>6, <3>1
    <3>2. CASE k = m + 1
      BY <1>2, <2>1, <2>4, <2>6, <3>2
    <3> QED BY <2>5, <3>1, <3>2
  <2>10. \A i \in 1..(n + 1) : tt[i] # <<>> => \E k \in 1..(m + 1) : b[k] = i
    <3> TAKE i \in 1..(n + 1)
    <3> HAVE tt[i] # <<>>
    <3>1. CASE i \in 1..n
      <4>1. PICK k \in 1..m : at[k] = i
        BY <1>2, <1>5, <3>1
      <4> QED BY <2>5, <2>6, <4>1
    <3>2. CASE i = n + 1
      BY <2>5, <2>6, <3>2
    <3> QED BY <1>3, <3>1, <3>2
  <2>11. Threaded(tt, q, b)
    BY <1>2, <2>4, <2>7, <2>8, <2>9, <2>10 DEF Threaded
  <2> QED BY <2>3, <2>11 DEF tt
<1> QED BY <1>6, <1>7

(* Of the sequences it is not so for, there is no shortest.                *)
LEMMA FlattenThreaded ==
  ASSUME NEW S, NEW ss \in Seq(Seq(S)), AtMostOne(ss)
  PROVE  FlattenSeq(ss) \in Seq(S) /\ \E at : Threaded(ss, FlattenSeq(ss), at)
<1> DEFINE U == {n \in Nat : \E r \in Seq(Seq(S)) : /\ Len(r) = n /\ AtMostOne(r)
                                                   /\ ~ \E at : Threaded(r, FlattenSeq(r), at)}
<1>1. U = {}
  <2> SUFFICES ASSUME U # {} PROVE FALSE
    OBVIOUS
  <2>1. PICK m \in U : \A n \in U : m <= n
    BY LeastElement
  <2>2. PICK r \in Seq(Seq(S)) : Len(r) = m /\ AtMostOne(r) /\ ~ \E at : Threaded(r, FlattenSeq(r), at)
    BY <2>1
  <2>3. m \in Nat
    BY <2>1
  <2>4. m # 0
    <3> SUFFICES ASSUME m = 0 PROVE FALSE
      OBVIOUS
    <3>1. r = <<>>
      BY <2>2, EmptySeq
    <3>2. DOMAIN <<>> = {} /\ <<>> \in [{} -> {}]
      OBVIOUS
    <3>3. Threaded(<<>>, <<>>, <<>>)
      BY <3>2 DEF Threaded
    <3> QED BY <2>2, <3>1, <3>3, FlattenNone
  <2> DEFINE q == [i \in 1..(m - 1) |-> r[i]]
  <2>5. /\ q \in Seq(Seq(S)) /\ Len(q) = m - 1 /\ m - 1 \in Nat
        /\ r = Append(q, r[m]) /\ r[m] \in Seq(S)
        /\ \A i \in 1..(m - 1) : q[i] = r[i] /\ i \in 1..m
        /\ DOMAIN q = 1..(m - 1) /\ DOMAIN r = 1..m /\ m \in 1..m
    BY <2>2, <2>3, <2>4
  <2> HIDE DEF q
  <2>6. AtMostOne(q) /\ (r[m] = <<>> \/ \E e : r[m] = <<e>>)
    BY <2>2, <2>5 DEF AtMostOne
  <2>7. PICK at : Threaded(q, FlattenSeq(q), at)
    <3>1. m - 1 \notin U
      <4>1. ~ (m <= m - 1)
        BY <2>3
      <4> HIDE DEF U
      <4> QED BY <2>1, <4>1
    <3> QED BY <2>5, <2>6, <3>1
  <2> DEFINE x == r[m]
  <2>8. r = Append(q, x) /\ x \in Seq(S) /\ (x = <<>> \/ \E e : x = <<e>>)
    BY <2>5, <2>6
  <2> HIDE DEF x
  <2>9. FlattenSeq(q) \in Seq(S) /\ FlattenSeq(r) = FlattenSeq(q) \o x
    BY <2>5, <2>8, FlattenElements, FlattenAppend
  <2>10. \E b : Threaded(Append(q, x), FlattenSeq(q) \o x, b)
    BY <2>5, <2>7, <2>8, <2>9, ThreadedAppend
  <2> QED BY <2>2, <2>8, <2>9, <2>10
<1>2. FlattenSeq(ss) \in Seq(S)
  BY FlattenElements
<1>3. PICK n \in Nat : n = Len(ss)
  OBVIOUS
<1> QED BY <1>1, <1>2, <1>3

-----------------------------------------------------------------------------
(* What the output of an answer lists: the items of its turn.              *)
TurnListing(t, ids) ==
  /\ ids \in Seq(TurnItems)
  /\ ToOutputItems(t) = [i \in DOMAIN ids |-> ItemNamed(t, ids[i])]
  /\ Lists(ids, ItemsOf(t.parts))

(* A sequence without a position is empty.                                 *)
LEMMA NothingIn ==
  ASSUME NEW S, NEW s \in Seq(S), DOMAIN s = {}
  PROVE  s = <<>>
<1>1. PICK k \in Nat : DOMAIN s = 1..k /\ Len(s) = k
  OBVIOUS
<1>2. k = 0
  <2>1. k # 0 => 1 \in 1..k
    OBVIOUS
  <2> QED BY <1>1, <2>1
<1> QED BY <1>1, <1>2

(* The items of a recorded answer are listed once each, in their order.    *)
LEMMA AnswerListed ==
  ASSUME NEW parts \in Seq(AnyPart)
  PROVE  LET t == BuildAuthoritativeTurn(parts)
         IN FirstCallLeads(t) /\ \E ids : TurnListing(t, ids)
<1> DEFINE a == Accumulated(parts)
           f == FlushPendingText(a)
<1>1. BuildAuthoritativeTurn(parts) = Finish(a)
  BY DEF BuildAuthoritativeTurn, Accumulated
<1>2. Recording(a) /\ Ordered(f)
  BY AlwaysRight DEF RightAfter
<1>3. Recording(f)
  <2> HIDE DEF a
  <2> QED BY <1>2, FlushView
<1> HIDE DEF a
<1>4. Finish(a) = IF f.parts = <<>> /\ ~f.hasThought
                  THEN [f EXCEPT !.parts = <<TurnPart("text", Message(0), NoId, <<>>, NoSig)>>,
                                 !.order = Recorded(@, Message(0))]
                  ELSE f
  BY DEF Finish
<1> HIDE DEF f
<1>5. CASE ~(f.parts = <<>> /\ ~f.hasThought)
  <2>1. \E ids : OutputListed(f, ids)
    BY <1>2, <1>3, OutputInOrder
  <2> QED BY <1>1, <1>2, <1>4, <1>5, <2>1 DEF Ordered, OutputListed, TurnListing
<1>6. CASE f.parts = <<>> /\ ~f.hasThought
  <2> DEFINE m == Message(0)
             none == TurnPart("text", m, NoId, <<>>, NoSig)
             u == [f EXCEPT !.parts = <<none>>, !.order = Recorded(@, m)]
             v == [u EXCEPT !.textCount = 1]
  <2>1. m # Reasoning /\ m \in TurnItems
    BY NamesDiffer DEF TurnItems
  <2>2. none \in RecordPart /\ none.kind = "text" /\ none.item = m
    <3> HIDE DEF m
    <3>1. <<>> \in Seq(Nat)
      OBVIOUS
    <3> QED BY <2>1, <3>1 DEF RecordPart, TurnPart
  <2>3. f.order = <<>> /\ f.calls = <<>> /\ DOMAIN f.bridge = {} /\ f.thought = <<>>
    <3>1. DOMAIN f.parts = {} /\ DOMAIN ItemsOf(f.parts) = {}
      BY <1>6 DEF ItemsOf
    <3>2. ~Contains(f.order, Reasoning) /\ f.thought = <<>> /\ Named(f) /\ Lists(f.order, ItemsOf(f.parts))
      BY <1>2, <1>6 DEF Ordered
    <3>3. f.order \in Seq(TurnItems) /\ f.calls \in Seq(TurnItems)
      BY <1>3 DEF Recording
    <3>4. DOMAIN f.order = {}
      BY <3>1, <3>2, <3>3 DEF Lists, Contains
    <3>5. DOMAIN f.calls = {} /\ DOMAIN f.bridge = {}
      BY <3>1, <3>2 DEF Named
    <3> QED BY <3>2, <3>3, <3>4, <3>5, NothingIn
  <2>4. Recorded(f.order, m) = <<m>>
    <3>1. ~Contains(<<>>, m)
      BY DEF Contains
    <3> QED BY <2>3, <3>1 DEF Recorded
  <2> HIDE DEF none, m
  <2>5. /\ DOMAIN u = DOMAIN f /\ u.parts = <<none>> /\ u.order = <<m>> /\ u.calls = f.calls /\ u.bridge = f.bridge
        /\ u.thought = f.thought /\ u.hasThought = f.hasThought /\ u.text = f.text /\ u.textSig = f.textSig
    BY <1>3, <2>4, RecordFields DEF Recording
  <2> HIDE DEF u
  <2>6. /\ DOMAIN v = DOMAIN f /\ v.parts = <<none>> /\ v.order = <<m>> /\ v.calls = f.calls /\ v.bridge = f.bridge
        /\ v.thought = f.thought /\ v.hasThought = f.hasThought /\ v.text = f.text /\ v.textSig = f.textSig
        /\ v.textCount = 1 /\ v.toolSigs = u.toolSigs /\ v.textSigs = u.textSigs
    BY <1>3, <2>5, RecordFields DEF Recording
  <2> HIDE DEF v
  <2>7. ToOutputItems(v) = ToOutputItems(u)
    <3>1. ItemIds(v) = ItemIds(u) /\ (NeedsReasoningItem(v) <=> NeedsReasoningItem(u))
      BY <2>5, <2>6 DEF ItemIds, NeedsReasoningItem
    <3>2. \A id : ItemNamed(v, id) = ItemNamed(u, id)
      BY <2>5, <2>6 DEF ItemNamed
    <3> QED BY <2>5, <2>6, <3>1, <3>2 DEF ToOutputItems
  <2>8. Recording(v)
    <3>1. <<none>> \in Seq(RecordPart) /\ <<m>> \in Seq(TurnItems) /\ 1 \in Nat
      BY <2>1, <2>2 DEF m
    <3> QED BY <1>3, <2>6, <3>1 DEF Recording
  <2>9. DOMAIN v.parts = {1} /\ v.parts[1] = none /\ DOMAIN v.order = {1} /\ v.order[1] = m
    BY <2>6
  <2>10. Lists(v.order, ItemsOf(v.parts))
    <3>1. DOMAIN ItemsOf(v.parts) = {1} /\ ItemsOf(v.parts)[1] = m
      BY <2>2, <2>9 DEF ItemsOf
    <3> QED BY <2>1, <2>9, <3>1 DEF Lists, m
  <2>11. Named(v) /\ FirstCallLeads(v) /\ FirstCallLeads(u)
    <3>1. 0 \in 0..(v.textCount - 1)
      BY <2>6
    <3>2. DOMAIN v.calls = {} /\ DOMAIN v.bridge = {}
      BY <2>3, <2>6
    <3>3. \A x \in DOMAIN v.parts : v.parts[x].kind = "text" /\ v.parts[x].item = Message(0)
      BY <2>2, <2>9 DEF m
    <3>4. Named(v)
      BY <3>1, <3>2, <3>3 DEF Named
    <3>5. u.parts = v.parts
      BY <2>5, <2>6
    <3> QED BY <3>3, <3>4, <3>5 DEF FirstCallLeads
  <2>12. ~Contains(v.order, Reasoning)
    BY <2>1, <2>9 DEF Contains, m
  <2>13. Ordered(v)
    BY <1>6, <2>3, <2>6, <2>10, <2>11, <2>12 DEF Ordered
  <2>14. PICK ids : OutputListed(v, ids)
    BY <2>8, <2>13, OutputInOrder
  <2>15. TurnListing(u, ids)
    <3>1. \A id : ItemNamed(v, id) = ItemNamed(u, id)
      BY <2>5, <2>6 DEF ItemNamed
    <3>2. u.parts = v.parts
      BY <2>5, <2>6
    <3> QED BY <2>7, <2>14, <3>1, <3>2 DEF TurnListing, OutputListed
  <2> QED BY <1>1, <1>4, <1>6, <2>11, <2>15 DEF u, none, m
<1> QED BY <1>5, <1>6

(* So are those of the turn that comes back.                               *)
LEMMA TurnListed ==
  ASSUME ReplayInv, phase # "idle"
  PROVE  FirstCallLeads(turn) /\ \E ids : TurnListing(turn, ids)
<1>1. PICK parts \in Answers : turn = BuildAuthoritativeTurn(parts)
  BY DEF ReplayInv, TurnKnown
<1>2. parts \in Seq(AnswerPart)
  BY AnswersAssumption DEF IsAnswer
<1>3. AnswerPart = AnyPart
  BY DEF AnswerPart, AnyPart
<1> QED BY <1>1, <1>2, <1>3, AnswerListed

(* The item of a part.                                                     *)
LEMMA PartNamed ==
  ASSUME NEW t, NEW x \in DOMAIN t.parts, t.parts[x].item # Reasoning,
         \A y \in DOMAIN t.parts : t.parts[y].item = t.parts[x].item => y = x
  PROVE  ItemNamed(t, t.parts[x].item) = OutputItem(t.parts[x].item, t.parts[x].body, t.parts[x].sig)
<1> DEFINE i == CHOOSE j \in DOMAIN t.parts : t.parts[j].item = t.parts[x].item
<1>1. i \in DOMAIN t.parts /\ t.parts[i].item = t.parts[x].item
  OBVIOUS
<1>2. ItemNamed(t, t.parts[x].item) = OutputItem(t.parts[x].item, t.parts[i].body, t.parts[i].sig)
  BY DEF ItemNamed
<1> HIDE DEF i
<1> QED BY <1>1, <1>2

-----------------------------------------------------------------------------
(* What a faithful client makes of an item.                                *)
PartsApart ==
  \A x, y \in DOMAIN turn.parts : turn.parts[x].item = turn.parts[y].item => x = y

(* The reasoning item is left out or sent as one.                          *)
LEMMA ReasoningSent ==
  \/ ClientItems(ItemNamed(turn, Reasoning)) = <<>>
  \/ \E e : ClientItems(ItemNamed(turn, Reasoning)) = <<e>> /\ e.type = "reasoning"
<1> DEFINE o == ItemNamed(turn, Reasoning)
           e == Item("reasoning", NoName, Reasoning, <<>>, NoSig)
<1>1. o.id = Reasoning
  BY DEF ItemNamed, OutputItem
<1>2. e.type = "reasoning"
  BY DEF Item
<1> HIDE DEF o
<1>3. ClientItems(o) = IF Does("no reasoning") THEN <<>> ELSE <<e>>
  <2>1. o.id[1] = "rs"
    BY <1>1 DEF Reasoning
  <2> QED BY <1>1, <2>1 DEF ClientItems
<1> QED BY <1>2, <1>3 DEF o

(* The item of any other part is sent as a copy of it.                     *)
LEMMA PartSent ==
  ASSUME TurnSound(turn), PartsApart, deviations' \subseteq Leaves, NEW x \in DOMAIN turn.parts
  PROVE  \E e : /\ ClientItems(ItemNamed(turn, turn.parts[x].item)) = <<e>>
                /\ e.type \in {"call", "message"} /\ ItemCopy(e, turn.parts[x], deviations')
<1> DEFINE p == turn.parts[x]
           o == ItemNamed(turn, p.item)
<1>1. p \in KnownPart /\ (IF p.kind = "call" THEN p \in TurnCalls /\ p.item \in TurnCall ELSE p.item \in TurnText)
  <2>1. turn.parts \in Seq(KnownPart) /\ (p.kind # "call" => p.item \in TurnText)
    BY DEF TurnSound, PartsSound
  <2>2. p \in KnownPart /\ p \in ToSet(turn.parts)
    BY <2>1 DEF ToSet
  <2>3. p.kind = "call" => p \in TurnCalls
    BY <2>2 DEF TurnCalls
  <2> HIDE DEF p
  <2> QED BY <2>1, <2>2, <2>3, TurnCallsKnown
<1>2. p.item # Reasoning
  BY <1>1 DEF TurnCall, TurnText, CallItem, Message, Reasoning
<1>3. o.id = p.item /\ o.body = p.body /\ o.sig = p.sig
  <2>1. o = OutputItem(p.item, p.body, p.sig)
    BY <1>2, PartNamed DEF PartsApart
  <2> HIDE DEF o, p
  <2> QED BY <2>1 DEF OutputItem
<1>4. /\ ~Does("text altered") /\ ~Does("first altered") /\ ~Does("last altered") /\ ~Does("ids mixed up")
      /\ ~Does("repeated") /\ deviations' \cap {"injected", "foreign"} = {}
  BY DEF Does, Leaves
<1> HIDE DEF o, p
<1>5. ClientBody(o) = p.body /\ ClientSig(o) \in {NoSig, p.sig}
  BY <1>3, <1>4 DEF ClientBody, ClientSig
<1>6. p.kind \in {"text", "call"}
  BY <1>1 DEF KnownPart
<1>7. CASE p.kind = "text"
  <2> DEFINE e == Item("message", NoName, ClientId(o.id), ClientBody(o), ClientSig(o))
  <2>1. o.id # Reasoning /\ o.id[1] = "msg"
    BY <1>1, <1>2, <1>3, <1>7 DEF TurnText, Message
  <2>2. ClientItems(o) = <<e>>
    BY <2>1 DEF ClientItems
  <2>3. e.type = "message"
    BY DEF Item
  <2> HIDE DEF e
  <2>4. e.type \in {"call", "message"} /\ ItemCopy(e, p, deviations')
    BY <1>7, <2>3 DEF ItemCopy
  <2> QED BY <2>2, <2>4 DEF o, p
<1>8. CASE p.kind = "call"
  <2> DEFINE e == Item("call", o.id, ClientId(ClientItem(o.id)), ClientBody(o), ClientSig(o))
             one == IF o.id = turn.calls[1] /\ deviations' \cap {"injected", "foreign"} # {}
                    THEN <<InjectedItem>> ELSE <<>>
             two == IF o.id = turn.calls[1] /\ Does("repeated")
                    THEN <<Item("call", o.id, NoName, o.body, NoSig)>> ELSE <<>>
  <2>1. o.id # Reasoning /\ o.id[1] # "msg" /\ o.id[1] = "fc"
    BY <1>1, <1>2, <1>3, <1>8, NameShapes
  <2>2. ClientItems(o) = <<e>> \o one \o two
    BY <2>1 DEF ClientItems
  <2>3. one = <<>> /\ two = <<>>
    BY <1>4
  <2> HIDE DEF e, one, two
  <2>4. ClientItems(o) = <<e>>
    <3>1. <<e>> \o <<>> \o <<>> = <<e>>
      OBVIOUS
    <3> QED BY <2>2, <2>3, <3>1
  <2>5. /\ e.type = "call" /\ e.call = o.id /\ e.id = ClientId(ClientItem(o.id)) /\ e.body = ClientBody(o)
        /\ e.sig = ClientSig(o)
    BY DEF e, Item
  <2>6. e.id = IF "no item ids" \in deviations' THEN NoName ELSE ItemName(p.item)
    BY <1>3, <1>4, <2>5 DEF ClientId, ClientItem, Does
  <2>7. e.type \in {"call", "message"} /\ ItemCopy(e, p, deviations')
    BY <1>3, <1>5, <1>8, <2>5, <2>6 DEF ItemCopy, CallCopy
  <2> QED BY <2>4, <2>7 DEF o, p
<1> QED BY <1>6, <1>7, <1>8

(* The history, without the results: every part is in it, in its order.    *)
Output == ToOutputItems(turn)
Pieces == [i \in DOMAIN Output |-> ClientItems(Output[i])]
History == FlattenSeq(Pieces)

(* The history is a copy of the turn.                                      *)
LEMMA HistoryCopied ==
  ASSUME ReplayInv, phase # "idle", deviations' \subseteq Leaves
  PROVE  History \in Seq(TurnItem(Does("ids mixed up"))) /\ \E from : Copied(History, from, deviations')
<1> DEFINE S == TurnItem(Does("ids mixed up"))
           items == ItemsOf(turn.parts)
<1>1. TurnSound(turn)
  BY DEF ReplayInv, TurnKnown
<1>2. PICK ids : TurnListing(turn, ids)
  BY TurnListed
<1>3. PICK n \in Nat : n = Len(ids) /\ DOMAIN ids = 1..n
  BY <1>2 DEF TurnListing
<1>4. DOMAIN Pieces = 1..n /\ \A i \in 1..n : Pieces[i] = ClientItems(ItemNamed(turn, ids[i]))
  <2>1. Output = [i \in 1..n |-> ItemNamed(turn, ids[i])]
    BY <1>2, <1>3 DEF TurnListing, Output
  <2> QED BY <2>1 DEF Pieces
<1>5. PartsApart /\ DOMAIN items = DOMAIN turn.parts /\ \A x \in DOMAIN turn.parts : items[x] = turn.parts[x].item
  BY <1>2 DEF TurnListing, Lists, ItemsOf, PartsApart
<1>6. ASSUME NEW i \in 1..n, NEW x \in DOMAIN turn.parts, ids[i] = turn.parts[x].item
      PROVE  \E e : Pieces[i] = <<e>> /\ e.type \in {"call", "message"} /\ ItemCopy(e, turn.parts[x], deviations')
  BY <1>1, <1>4, <1>5, <1>6, PartSent
<1>7. ASSUME NEW i \in 1..n, ids[i] = Reasoning
      PROVE  Pieces[i] = <<>> \/ \E e : Pieces[i] = <<e>> /\ e.type = "reasoning"
  BY <1>4, <1>7, ReasoningSent
<1>8. \A i \in 1..n : ids[i] = Reasoning \/ \E x \in DOMAIN turn.parts : ids[i] = turn.parts[x].item
  BY <1>2, <1>3, <1>5 DEF TurnListing, Lists
<1>9. Pieces \in Seq(Seq(S)) /\ AtMostOne(Pieces)
  <2>1. ASSUME NEW i \in 1..n PROVE Pieces[i] \in Seq(S)
    <3>1. CASE Pieces[i] = <<>>
      BY <3>1
    <3>2. CASE Pieces[i] # <<>>
      <4>1. ids[i] \in ItemIds(turn) \/ ids[i] = Reasoning
        BY <1>8 DEF ItemIds
      <4>2. CASE ids[i] \in ItemIds(turn)
        BY <1>1, <1>4, <4>2, ClientItemsKnown
      <4>3. CASE ids[i] = Reasoning
        <5> DEFINE o == ItemNamed(turn, Reasoning)
                   e == Item("reasoning", NoName, Reasoning, <<>>, NoSig)
        <5>1. o.id = Reasoning
          BY DEF ItemNamed, OutputItem
        <5>2. e.type = "reasoning" /\ e \in KnownItem
          <6>1. <<>> \in Seq(Nat)
            OBVIOUS
          <6> QED BY <6>1, ItemTyped DEF Item
        <5> HIDE DEF o, e
        <5>3. ClientItems(o) = IF Does("no reasoning") THEN <<>> ELSE <<e>>
          <6>1. o.id[1] = "rs"
            BY <5>1 DEF Reasoning
          <6> QED BY <5>1, <6>1 DEF ClientItems, e
        <5>4. e \in S
          BY <5>2 DEF TurnItem, HistoryItem
        <5> HIDE DEF S
        <5>5. Pieces[i] = <<e>>
          BY <1>4, <3>2, <4>3, <5>3 DEF o
        <5>6. <<e>> \in Seq(S)
          BY <5>4
        <5> QED BY <5>5, <5>6
      <4> QED BY <4>1, <4>2, <4>3
    <3> QED BY <3>1, <3>2
  <2>2. Pieces = [i \in 1..n |-> Pieces[i]]
    BY <1>4 DEF Pieces
  <2> HIDE DEF S
  <2>3. Pieces \in Seq(Seq(S))
    BY <2>1, <2>2, IsASeq
  <2> QED BY <1>4, <1>6, <1>7, <1>8, <2>3 DEF AtMostOne
<1> HIDE DEF S
<1>10. History \in Seq(S)
  BY <1>9, FlattenThreaded DEF History
<1>11. PICK at : Threaded(Pieces, History, at)
  BY <1>9, FlattenThreaded DEF History
<1> DEFINE D == DOMAIN History
           C == TurnCopies(History)
<1>12. /\ \A k \in D : at[k] \in 1..n /\ Pieces[at[k]] = <<History[k]>>
       /\ \A k, l \in D : k < l => at[k] < at[l]
       /\ \A i \in 1..n : Pieces[i] # <<>> => \E k \in D : at[k] = i
  BY <1>4, <1>11 DEF Threaded
<1>13. \A a, b : <<a>> = <<b>> => a = b
  OBVIOUS
<1>14. ASSUME NEW k \in D, NEW x \in DOMAIN turn.parts, ids[at[k]] = turn.parts[x].item
       PROVE  k \in C /\ ItemCopy(History[k], turn.parts[x], deviations')
  <2>1. PICK e : Pieces[at[k]] = <<e>> /\ e.type \in {"call", "message"} /\ ItemCopy(e, turn.parts[x], deviations')
    BY <1>6, <1>12, <1>14
  <2>2. e = History[k]
    BY <1>12, <1>13, <2>1
  <2> QED BY <2>1, <2>2 DEF TurnCopies
<1>15. ASSUME NEW k \in C PROVE \E x \in DOMAIN turn.parts : ids[at[k]] = turn.parts[x].item
  <2>1. k \in D /\ History[k].type \in {"call", "message"}
    BY DEF TurnCopies
  <2>2. ids[at[k]] # Reasoning
    <3> SUFFICES ASSUME ids[at[k]] = Reasoning PROVE FALSE
      OBVIOUS
    <3>1. Pieces[at[k]] = <<>> \/ \E e : Pieces[at[k]] = <<e>> /\ e.type = "reasoning"
      BY <1>7, <1>12, <2>1
    <3>2. <<History[k]>> # <<>>
      OBVIOUS
    <3> QED BY <1>12, <1>13, <2>1, <3>1, <3>2
  <2> QED BY <1>8, <1>12, <2>1, <2>2
<1> DEFINE from == [k \in C |-> CHOOSE x \in DOMAIN turn.parts : ids[at[k]] = turn.parts[x].item]
<1>16. \A k \in C : from[k] \in DOMAIN turn.parts /\ ids[at[k]] = turn.parts[from[k]].item
  BY <1>15
<1>17. from \in [C -> DOMAIN turn.parts]
  BY <1>16
<1> HIDE DEF from, C
<1>18. \A k \in C : k \in D
  BY DEF C, TurnCopies
<1>19. \A k, l \in C : k < l => from[k] < from[l]
  <2> TAKE k, l \in C
  <2> HAVE k < l
  <2>1. at[k] \in 1..n /\ at[l] \in 1..n /\ at[k] < at[l]
    BY <1>12, <1>18
  <2>2. from[k] \in DOMAIN items /\ from[l] \in DOMAIN items
        /\ ids[at[k]] = items[from[k]] /\ ids[at[l]] = items[from[l]]
    BY <1>5, <1>16
  <2> QED BY <1>2, <1>3, <2>1, <2>2 DEF TurnListing, Lists
<1>20. \A k \in C : ItemCopy(History[k], turn.parts[from[k]], deviations')
  BY <1>14, <1>16, <1>18
<1>21. \A x \in DOMAIN turn.parts : \E k \in C : from[k] = x
  <2> TAKE x \in DOMAIN turn.parts
  <2>1. PICK i \in 1..n : ids[i] = turn.parts[x].item
    BY <1>2, <1>3, <1>5 DEF TurnListing, Lists
  <2>2. Pieces[i] # <<>>
    <3>1. \A e : <<e>> # <<>>
      OBVIOUS
    <3> QED BY <1>6, <2>1, <3>1
  <2>3. PICK k \in D : at[k] = i
    BY <1>12, <2>2
  <2>4. k \in C
    BY <1>14, <2>1, <2>3 DEF C
  <2>5. turn.parts[from[k]].item = turn.parts[x].item /\ from[k] \in DOMAIN turn.parts
    BY <1>16, <2>1, <2>3, <2>4
  <2>6. from[k] = x
    BY <1>5, <2>5 DEF PartsApart
  <2> QED BY <2>4, <2>6
<1>22. Copied(History, from, deviations')
  BY <1>17, <1>19, <1>20, <1>21 DEF Copied, C
<1> QED BY <1>10, <1>22 DEF S

(* The results of a faithful client: one for each call.                    *)
CallsIn(s) == {k \in DOMAIN s : s[k].type = "call"}

NameFor(call, left) == IF "result by item" \in left THEN ItemName(call) ELSE call

ResultsOf(r, s, c) ==
  /\ \E m \in Nat : DOMAIN r = 1..m
  /\ \E T : r \in Seq(T)
  /\ c \in [DOMAIN r -> CallsIn(s)]
  /\ \A i, j \in DOMAIN r : c[i] = c[j] => i = j
  /\ \A k \in CallsIn(s) : \E j \in DOMAIN r : c[j] = k
  /\ \A j \in DOMAIN r : r[j].type = "output" /\ r[j].call = NameFor(s[c[j]].call, deviations')

(* The results of a history name its calls, each once.                     *)
LEMMA ResultsNamed ==
  ASSUME NEW S, NEW s \in Seq(S), deviations' \subseteq Leaves, \A k \in CallsIn(s) : s[k].call # Injected
  PROVE  \E c : ResultsOf(Results(s), s, c)
<1> DEFINE all == {it \in ToSet(s) : it.type = "call"}
           cc == [i \in DOMAIN s |-> IF s[i] \in all THEN <<s[i]>> ELSE <<>>]
           calls == FlattenSeq(cc)
           R == Results(s)
           D == CallsIn(s)
<1>1. PICK n \in Nat : n = Len(s) /\ DOMAIN s = 1..n
  OBVIOUS
<1>2. DOMAIN cc = 1..n /\ \A i \in 1..n : cc[i] = IF i \in D THEN <<s[i]>> ELSE <<>>
  BY <1>1 DEF ToSet, CallsIn
<1>3. R = [j \in DOMAIN calls |-> Item("output", ResultName(calls[j].call), NoName, <<>>, NoSig)]
  BY DEF Results, Selected, Does, Leaves
<1>4. cc \in Seq(Seq(S)) /\ AtMostOne(cc)
  <2>1. \A i \in 1..n : cc[i] \in Seq(S)
    BY <1>1
  <2>2. cc = [i \in 1..n |-> cc[i]]
    BY <1>1
  <2>3. AtMostOne(cc)
    BY DEF AtMostOne
  <2> HIDE DEF cc
  <2>4. [i \in 1..n |-> cc[i]] \in Seq(Seq(S))
    BY <2>1, IsASeq
  <2> QED BY <2>2, <2>3, <2>4
<1> HIDE DEF cc, D
<1>5. calls \in Seq(S) /\ \E c : Threaded(cc, calls, c)
  BY <1>4, FlattenThreaded
<1>6. PICK c : Threaded(cc, calls, c)
  BY <1>5
<1> HIDE DEF calls
<1>7. PICK m \in Nat : m = Len(calls) /\ DOMAIN calls = 1..m
  BY <1>5
<1>8. /\ c \in [1..m -> 1..n]
      /\ \A k, l \in 1..m : k < l => c[k] < c[l]
      /\ \A k \in 1..m : cc[c[k]] = <<calls[k]>>
      /\ \A i \in 1..n : cc[i] # <<>> => \E k \in 1..m : c[k] = i
  BY <1>2, <1>6, <1>7 DEF Threaded
<1>9. (\A a, b : <<a>> = <<b>> => a = b) /\ \A a : <<a>> # <<>>
  OBVIOUS
<1>10. ASSUME NEW k \in 1..m PROVE c[k] \in D /\ calls[k] = s[c[k]]
  <2>1. c[k] \in 1..n /\ cc[c[k]] = <<calls[k]>>
    BY <1>8
  <2>2. cc[c[k]] = IF c[k] \in D THEN <<s[c[k]]>> ELSE <<>>
    BY <1>2, <2>1
  <2>3. c[k] \in D
    BY <1>9, <2>1, <2>2
  <2>4. <<s[c[k]]>> = <<calls[k]>>
    BY <2>1, <2>2, <2>3
  <2> QED BY <1>9, <2>3, <2>4
<1>11. \A k \in D : \E j \in 1..m : c[j] = k
  <2>1. \A k \in D : k \in 1..n
    BY <1>1 DEF D, CallsIn
  <2> QED BY <1>2, <1>8, <1>9, <2>1
<1>12. \A i, j \in 1..m : c[i] = c[j] => i = j
  <2> TAKE i, j \in 1..m
  <2> HAVE c[i] = c[j]
  <2>1. c[i] \in 1..n
    BY <1>8
  <2>2. i < j \/ j < i \/ i = j
    OBVIOUS
  <2>3. \A a \in 1..n : ~(a < a)
    OBVIOUS
  <2>4. ~(i < j) /\ ~(j < i)
    <3>1. i < j => c[i] < c[j]
      BY <1>8
    <3>2. j < i => c[j] < c[i]
      BY <1>8
    <3>3. ~(c[i] < c[i])
      BY <2>1, <2>3
    <3> QED BY <3>1, <3>2, <3>3
  <2> QED BY <2>2, <2>4
<1>13. DOMAIN R = 1..m /\ \A j \in 1..m : R[j] = Item("output", ResultName(calls[j].call), NoName, <<>>, NoSig)
  BY <1>3, <1>7
<1>14. ASSUME NEW j \in 1..m PROVE R[j].type = "output" /\ R[j].call = NameFor(s[c[j]].call, deviations')
  <2>1. R[j].type = "output" /\ R[j].call = ResultName(s[c[j]].call)
    BY <1>10, <1>13 DEF Item
  <2>2. s[c[j]].call # Injected
    BY <1>10 DEF D
  <2> HIDE DEF R
  <2> QED BY <2>1, <2>2 DEF ResultName, NameFor, Does, Leaves
<1>15. \E T : R \in Seq(T)
  <2> DEFINE T == {R[j] : j \in 1..m}
  <2>1. R = [j \in 1..m |-> R[j]]
    BY <1>3, <1>7
  <2> HIDE DEF R
  <2>2. \A j \in 1..m : R[j] \in T
    OBVIOUS
  <2> HIDE DEF T
  <2>3. [j \in 1..m |-> R[j]] \in Seq(T)
    BY <2>2, IsASeq
  <2> QED BY <2>1, <2>3
<1>16. c \in [DOMAIN R -> D]
  BY <1>8, <1>10, <1>13
<1> HIDE DEF R
<1>17. ResultsOf(R, s, c)
  BY <1>11, <1>12, <1>13, <1>14, <1>15, <1>16 DEF ResultsOf, D
<1> QED BY <1>17 DEF R

(* Together they are a faithful request.                                   *)
LEMMA RequestCopied ==
  ASSUME ReplayInv, Replay, deviations' \subseteq Leaves
  PROVE  (\E from : Copied(input, from, deviations))' /\ (\E to : AnsweredBy(to))'
<1>1. phase # "idle" /\ UNCHANGED turn /\ input' = History \o Results(History)
  BY DEF Replay, History, Pieces, Output
<1> DEFINE S == TurnItem(Does("ids mixed up"))
<1>2. History \in Seq(S) /\ \E from : Copied(History, from, deviations')
  BY <1>1, HistoryCopied
<1>3. \A it \in S : it.type # "output"
  BY DEF TurnItem
<1> HIDE DEF S
<1> DEFINE s == History
           r == Results(s)
<1>4. PICK from : Copied(s, from, deviations')
  BY <1>2
<1>5. \A k \in CallsIn(s) : s[k].call # Injected /\ k \in TurnCopies(s)
  <2> SUFFICES ASSUME NEW k \in CallsIn(s) PROVE s[k].call # Injected /\ k \in TurnCopies(s)
    OBVIOUS
  <2> HIDE DEF s
  <2>1. k \in TurnCopies(s) /\ s[k].type = "call"
    BY DEF CallsIn, TurnCopies
  <2> DEFINE p == turn.parts[from[k]]
  <2>2. from[k] \in DOMAIN turn.parts /\ s[k].call = p.item /\ p.kind = "call"
    BY <1>4, <2>1 DEF Copied, ItemCopy, CallCopy
  <2>3. TurnSound(turn)
    BY DEF ReplayInv, TurnKnown
  <2>4. p \in TurnCalls
    <3>1. p \in ToSet(turn.parts)
      BY <2>2 DEF ToSet
    <3> QED BY <2>2, <3>1 DEF TurnCalls
  <2>5. p.item \in TurnCall
    BY <2>3, <2>4, TurnCallsKnown
  <2> HIDE DEF p
  <2> QED BY <2>1, <2>2, <2>5, NameShapes DEF Injected
<1> HIDE DEF s
<1>6. PICK c : ResultsOf(r, s, c)
  BY <1>2, <1>5, ResultsNamed DEF s
<1>7. s \in Seq(S) /\ input' = s \o r
  BY <1>1, <1>2 DEF s
<1> HIDE DEF r
<1>8. PICK n \in Nat : n = Len(s) /\ DOMAIN s = 1..n
  BY <1>7
<1>9. PICK m \in Nat : DOMAIN r = 1..m
  BY <1>6 DEF ResultsOf
<1>10. PICK T : r \in Seq(T)
  BY <1>6 DEF ResultsOf
<1>11. Len(r) = m
  BY <1>9, <1>10
<1>12. /\ DOMAIN input' = 1..(n + m)
       /\ \A i \in 1..(n + m) : input'[i] = IF i <= n THEN s[i] ELSE r[i - n]
  <2> DEFINE all == s \o r
  <2>1. s \in Seq(S \cup T) /\ r \in Seq(S \cup T)
    BY <1>7, <1>10
  <2>2. /\ all \in Seq(S \cup T) /\ Len(all) = n + m
        /\ \A i \in 1..(n + m) : all[i] = IF i <= n THEN s[i] ELSE r[i - n]
    BY <1>8, <1>11, <2>1, ConcatProperties
  <2> HIDE DEF all
  <2>3. DOMAIN all = 1..(n + m)
    BY <2>2
  <2> QED BY <1>7, <2>2, <2>3 DEF all
<1>13. /\ \A i \in 1..n : i \in 1..(n + m) /\ i <= n
       /\ \A i \in 1..(n + m) : i \in 1..n \/ (i - n \in 1..m /\ ~(i <= n))
       /\ \A j \in 1..m : j + n \in 1..(n + m) /\ ~(j + n <= n) /\ (j + n) - n = j
       /\ \A i, j \in 1..(n + m) : i - n = j - n => i = j
  OBVIOUS
<1> DEFINE u == input'
<1>14. DOMAIN u = 1..(n + m)
       /\ (\A i \in 1..n : u[i] = s[i]) /\ \A i \in 1..(n + m) : i \notin 1..n => u[i] = r[i - n]
  BY <1>12, <1>13
<1>15. \A j \in 1..m : r[j].type = "output" /\ r[j].call = NameFor(s[c[j]].call, deviations')
  BY <1>6, <1>9 DEF ResultsOf
<1> HIDE DEF u
<1>16. TurnCopies(u) = TurnCopies(s) /\ \A k \in TurnCopies(s) : u[k] = s[k]
  BY <1>8, <1>13, <1>14, <1>15 DEF TurnCopies
<1>17. Copied(u, from, deviations')
  BY <1>4, <1>16 DEF Copied
<1>18. CallItems' = CallsIn(s) /\ OutputItems' = {i \in 1..(n + m) : i \notin 1..n}
       /\ \A k \in CallsIn(s) : u[k] = s[k]
  <2>1. CallItems' = {i \in DOMAIN u : u[i].type = "call"} /\ OutputItems' = {i \in DOMAIN u : u[i].type = "output"}
    BY DEF CallItems, OutputItems, u
  <2>2. \A i \in 1..n : s[i].type # "output"
    BY <1>7, <1>8, <1>3
  <2> QED BY <1>8, <1>13, <1>14, <1>15, <2>1, <2>2 DEF CallsIn
<1>19. PICK to : to = [i \in OutputItems' |-> c[i - n]]
  OBVIOUS
<1>20. /\ c \in [1..m -> CallsIn(s)]
       /\ \A i, j \in 1..m : c[i] = c[j] => i = j
       /\ \A k \in CallsIn(s) : \E j \in 1..m : c[j] = k
  BY <1>6, <1>9 DEF ResultsOf
<1>21. \A i \in OutputItems' : i \in 1..(n + m) /\ i - n \in 1..m /\ to[i] = c[i - n] /\ u[i] = r[i - n]
  BY <1>13, <1>14, <1>18, <1>19
<1>22. to \in [OutputItems' -> CallItems']
  BY <1>18, <1>20, <1>21, <1>19
<1>23. \A i, j \in OutputItems' : to[i] = to[j] => i = j
  BY <1>13, <1>20, <1>21
<1>24. \A k \in CallItems' : \E i \in OutputItems' : to[i] = k
  <2> TAKE k \in CallItems'
  <2>1. PICK j \in 1..m : c[j] = k
    BY <1>18, <1>20
  <2>2. j + n \in OutputItems' /\ (j + n) - n = j
    BY <1>13, <1>18
  <2> QED BY <1>21, <2>1, <2>2
<1>25. \A i \in OutputItems' : u[i].call = NameFor(u[to[i]].call, deviations')
  BY <1>15, <1>18, <1>20, <1>21
<1>26. AnsweredBy(to)'
  <2>1. \A i \in OutputItems' :
          u[i].call = IF "result by item" \in deviations' THEN ItemName(u[to[i]].call) ELSE u[to[i]].call
    BY <1>25 DEF NameFor
  <2> QED BY <1>22, <1>23, <1>24, <2>1 DEF AnsweredBy, u
<1>27. Copied(input, from, deviations)'
  BY <1>1, <1>17 DEF Copied, TurnCopies, ItemCopy, CallCopy, u
<1> QED BY <1>26, <1>27

(* The request stays what the client sent.                                 *)
LEMMA RequestFaithfulStep ==
  ASSUME ReplayInv, RequestFaithful, [Next]_vars
  PROVE  RequestFaithful'
<1>1. CASE Replay
  <2> SUFFICES ASSUME deviations' \subseteq Leaves
               PROVE  (\E from : Copied(input, from, deviations))' /\ (\E to : AnsweredBy(to))'
    BY DEF RequestFaithful
  <2> QED BY <1>1, RequestCopied
<1>2. CASE Answer \/ StorePut \/ NothingToStore \/ SaveStep \/ Restart
  <2>1. ~Requested'
    BY <1>2 DEF Answer, StorePut, NothingToStore, SaveStep, Restart, Requested
  <2> QED BY <2>1 DEF RequestFaithful
<1>3. CASE ~Replay /\ ~(Answer \/ StorePut \/ NothingToStore \/ SaveStep \/ Restart)
  <2>1. UNCHANGED <<turn, deviations, input>> /\ (Requested' => Requested)
    <3>1. CASE Translate
      BY <3>1 DEF Translate, Requested
    <3> QED BY <1>3, <3>1 DEF Next, Scan, Send, Others, vars, requestVars, Requested
  <2>2. ASSUME NEW from, Copied(input, from, deviations) PROVE Copied(input, from, deviations)'
    BY <2>1, <2>2 DEF Copied, TurnCopies, ItemCopy, CallCopy
  <2>3. ASSUME NEW to, AnsweredBy(to) PROVE AnsweredBy(to)'
    BY <2>1, <2>3 DEF AnsweredBy, CallItems, OutputItems
  <2>4. deviations' \subseteq Leaves /\ Requested' => deviations \subseteq Leaves /\ Requested
    BY <2>1
  <2> SUFFICES ASSUME Requested', deviations' \subseteq Leaves
               PROVE  (\E from : Copied(input, from, deviations)') /\ (\E to : AnsweredBy(to)')
    BY DEF RequestFaithful
  <2>5. PICK from : Copied(input, from, deviations)
    BY <2>4 DEF RequestFaithful
  <2>6. PICK to : AnsweredBy(to)
    BY <2>4 DEF RequestFaithful
  <2> QED BY <2>2, <2>3, <2>5, <2>6
<1> QED BY <1>1, <1>2, <1>3

-----------------------------------------------------------------------------
(* No put takes the name of an item away from its call.                    *)
LEMMA NamesPut ==
  ASSUME CacheKnown, TurnKnown, NamesKept, UNCHANGED turn,
         NEW id, NEW names, NEW body, NEW sig, body \in Contents \cup {<<>>}, sig \in Sigs \cup {NoSig},
         \/ id \in CallsOf(turn.parts) /\ names = {ItemName(id), BothNames(id)}
         \/ id \in Foreigners /\ names = {},
         ApplyTool(ToolPut(id, body, sig, names))
  PROVE  NamesKept'
<1> DEFINE new == [call |-> body, sig |-> sig, legacy |-> FALSE]
<1>1. /\ Cache!Accepted(id, new) => Cache!PutToolRecord(id, new, names)
      /\ ~ Cache!Accepted(id, new) => UNCHANGED tables
  BY DEF ApplyTool, ToolPut
<1>2. new.sig # Marker /\ new.sig = sig /\ new.call = body /\ new \in Cache!Record
  BY SignaturesAssumption DEF Cache!Record
<1>3. /\ CallsOf(turn.parts) \subseteq TurnCall /\ Cache!Live \subseteq TurnCall \cup Foreigners
      /\ CallsOf(turn.parts)' = CallsOf(turn.parts)
  BY TurnCallsKnown, FoundKnown DEF TurnKnown
<1>4. CASE ~ Cache!Accepted(id, new)
  <2>1. UNCHANGED <<records, aliases, ambiguous>>
    BY <1>1, <1>4 DEF tables
  <2> QED BY <2>1 DEF NamesKept, Cache!Live
<1>5. CASE Cache!Accepted(id, new)
  <2>1. Cache!PutToolRecord(id, new, names)
    BY <1>1, <1>5
  <2> DEFINE merged == Cache!Merged(id, new)
             stored == Cache!Store(records, id, merged)
             gone == Cache!Live \ DOMAIN stored.val
             claimed == {a \in names : a \in DOMAIN stored.val => a = id}
             contested == {a \in claimed \ {id} : Cache!Contested(id, a, gone)}
             gained == ((claimed \ contested) \ ambiguous) \cup {id}
  <2>2. merged \in Cache!Record
    BY <1>2 DEF Cache!Merged, CacheKnown, Cache!IsTable, Cache!Record, Cache!Live
  <2>3. /\ records' = stored
        /\ aliases' = [a \in (Cache!Outliving(gone) \ contested) \cup gained |->
                         IF a \in gained THEN id ELSE aliases[a]]
        /\ ambiguous' = ambiguous \cup contested
    BY <2>1 DEF Cache!PutToolRecord
  <2> HIDE DEF merged, new
  <2>4. id \in Names
    BY <1>3, NameShapes
  <2>5. DOMAIN records'.val \subseteq DOMAIN records.val \cup {id}
    BY <2>2, <2>3, <2>4, StoreProperties DEF CacheKnown, Cache!Live
  <2>6. DOMAIN stored.val = Cache!Live' /\ gone = Cache!Live \ Cache!Live' /\ Cache!Live' \subseteq Cache!Live \cup {id}
    BY <2>3, <2>5 DEF Cache!Live
  <2>7. /\ \A x \in TurnCall : ItemName(x)[1] = "item" /\ BothNames(x)[1] = "both" /\ x[1] = "fc"
        /\ \A x \in Foreigners : x[1] = "other"
        /\ \A x, y \in TurnCall : ItemName(x) = ItemName(y) => x = y
    BY NameShapes DEF Foreigners, OtherCall
  <2>8. ASSUME NEW x \in TurnCall, ItemName(x) \in DOMAIN aliases PROVE aliases[ItemName(x)] = x
    <3>1. PICK y : y = aliases[ItemName(x)]
      OBVIOUS
    <3>2. y \in TurnCall \cup Foreigners /\ ItemName(x) \in AliasesOf(y)
      BY <1>3, <2>8, <3>1 DEF CacheKnown
    <3>3. y \in TurnCall /\ ItemName(x) = ItemName(y)
      BY <2>7, <3>2 DEF AliasesOf
    <3> QED BY <2>7, <3>1, <3>3
  <2>9. \A x \in TurnCall : ItemName(x) \notin contested
    <3> SUFFICES ASSUME NEW x \in TurnCall, ItemName(x) \in contested PROVE FALSE
      OBVIOUS
    <3>1. ItemName(x) \in names /\ Cache!Contested(id, ItemName(x), gone)
      OBVIOUS
    <3> HIDE DEF gone, contested, gained, stored, claimed
    <3>2. id \in TurnCall /\ ItemName(x) = ItemName(id)
      BY <1>3, <2>7, <3>1
    <3> QED BY <2>7, <2>8, <3>1, <3>2 DEF Cache!Contested
  <2>10. /\ gained \subseteq names \cup {id}
         /\ id \in CallsOf(turn.parts) => ItemName(id) \in gained
    <3>1. id \in CallsOf(turn.parts) => ItemName(id) \in names
      BY <1>3, <2>7
    <3>2. id \in CallsOf(turn.parts) => ItemName(id) \notin Cache!Live'
      BY <1>3, <2>6, <2>7
    <3>3. id \in CallsOf(turn.parts) => ItemName(id) \notin ambiguous /\ ItemName(id) \notin contested
      BY <1>3, <2>9 DEF NamesKept
    <3>4. id \in CallsOf(turn.parts) => ItemName(id) \in claimed
      BY <2>6, <3>1, <3>2
    <3> QED BY <3>3, <3>4
  <2> HIDE DEF gone, contested, gained, stored, claimed
  <2>11. ASSUME NEW x \in Cache!Live' \cap CallsOf(turn.parts)
         PROVE  ItemName(x) \in DOMAIN aliases' /\ aliases'[ItemName(x)] = x
    <3>1. x \in TurnCall
      BY <1>3
    <3>2. CASE x = id
      BY <2>3, <2>10, <3>2
    <3>3. CASE x # id
      <4>1. x \in Cache!Live /\ ItemName(x) \in DOMAIN aliases /\ aliases[ItemName(x)] = x
        BY <2>6, <3>3 DEF NamesKept
      <4>2. ItemName(x) \in Cache!Outliving(gone)
        BY <2>6, <4>1 DEF Cache!Outliving
      <4>3. ItemName(x) \notin gained
        BY <1>3, <2>7, <2>10, <3>1, <3>3
      <4> QED BY <2>3, <2>9, <3>1, <4>1, <4>2, <4>3
    <3> QED BY <3>2, <3>3
  <2>12. \A x \in TurnCall : ItemName(x) \notin ambiguous'
    BY <2>3, <2>9 DEF NamesKept
  <2> QED BY <1>3, <2>11, <2>12 DEF NamesKept
<1> QED BY <1>4, <1>5

(* A put of the turn keeps the names of its calls.                         *)
LEMMA NamesStored ==
  ASSUME ReplayInv, phase = "storing", NamesKept, UNCHANGED turn, NEW put \in TurnPuts(turn), Apply(put)
  PROVE  NamesKept'
<1>1. /\ TurnKnown /\ CacheKnown /\ TurnSound(turn)
      /\ CallsOf(turn.parts)' = CallsOf(turn.parts)
  BY DEF ReplayInv, TurnKnown
<1>2. CASE \E p \in ToSet(turn.parts) :
             p.kind = "call" /\ put = ToolPut(p.item, p.body, p.sig, {ItemName(p.item), BothNames(p.item)})
  <2>1. PICK p \in TurnCalls : put = ToolPut(p.item, p.body, p.sig, {ItemName(p.item), BothNames(p.item)})
    BY <1>2 DEF TurnCalls
  <2> DEFINE names == {ItemName(p.item), BothNames(p.item)}
  <2>2. p.item \in CallsOf(turn.parts) /\ p.body \in Contents \cup {<<>>} /\ p.sig \in Sigs \cup {NoSig}
    BY <1>1, TurnCallsKnown DEF KnownPart
  <2>3. put.op = "tool"
    BY <2>1 DEF ToolPut
  <2>4. ApplyTool(ToolPut(p.item, p.body, p.sig, names))
    BY <2>1, <2>3 DEF Apply
  <2> HIDE DEF names
  <2>5. p.item \in CallsOf(turn.parts) /\ names = {ItemName(p.item), BothNames(p.item)}
    BY <2>2 DEF names
  <2> QED BY <1>1, <2>2, <2>4, <2>5, NamesPut
<1>3. CASE \E n \in Names, sig \in Sigs : put = MessagePut(n, sig)
  <2>1. PICK n \in Names, sig \in Sigs : put = MessagePut(n, sig)
    BY <1>3
  <2>2. put.op = "message" /\ put.name = n /\ put.sig = sig
    BY <2>1 DEF MessagePut
  <2>3. UNCHANGED <<records, aliases, ambiguous>>
    BY <2>2 DEF Apply, Cache!PutMessageSignature
  <2> QED BY <1>1, <2>3 DEF NamesKept, Cache!Live
<1>4. CASE \E p \in ToSet(turn.parts) :
             p.kind = "text" /\ p.sig # NoSig /\ put = ContextPut(<<Prefix, p.body>>, p.sig)
  <2>1. PICK c, sig : put = ContextPut(c, sig) /\ \E b : c = <<Prefix, b>>
    BY <1>4
  <2>2. put.op = "context" /\ put.name = c /\ put.sig = sig
    BY <2>1 DEF ContextPut
  <2>3. ambiguous' \subseteq ambiguous \cup {c} /\ UNCHANGED <<records, aliases>>
    BY <2>2 DEF Apply, Cache!PutContextSignature
  <2>4. \A x \in TurnCall : ItemName(x) # c
    <3>1. c[1] = "prefix"
      BY <2>1 DEF Prefix
    <3> QED BY <3>1, NameShapes
  <2> QED BY <1>1, <2>3, <2>4 DEF NamesKept, Cache!Live
<1>5. CASE Len(turn.calls) \notin {0, 1} /\ put = SiblingsPut(Head(turn.calls), ToSet(Tail(turn.calls)))
  <2>1. put.op = "siblings"
    BY <1>5 DEF SiblingsPut
  <2>2. UNCHANGED tables
    BY <2>1 DEF Apply, RecordTurnSiblings
  <2> QED BY <1>1, <2>2 DEF NamesKept, Cache!Live, tables
<1> QED BY <1>2, <1>3, <1>4, <1>5, PutKinds

(* So does every step; and the file has the names the cache had.           *)
LEMMA FileNamesStep ==
  ASSUME ReplayInv, FileKnown, NamesKept, FileNamesKept, [Next]_vars
  PROVE  FileNamesKept'
<1>1. CASE SaveStep
  <2>1. UNCHANGED turn /\ file' = Memory
    BY <1>1 DEF SaveStep, Save
  <2>2. file'.aliases = aliases /\ file'.ambiguous = ambiguous /\ file'.records = records
    BY <2>1 DEF Memory
  <2> QED BY <2>1, <2>2 DEF NamesKept, FileNamesKept, Cache!Live
<1>2. CASE Answer
  <2>1. phase = "idle" /\ UNCHANGED file
    BY <1>2 DEF Answer, cacheVars, disk
  <2>2. DOMAIN file.records.val = {}
    BY <2>1 DEF FileKnown
  <2> QED BY <2>1, <2>2 DEF FileNamesKept
<1>3. CASE ~SaveStep /\ ~Answer
  <2>1. UNCHANGED <<turn, file>>
    BY <1>3, FileUnchanged
  <2> QED BY <2>1 DEF FileNamesKept
<1> QED BY <1>1, <1>2, <1>3

LEMMA NamesKeptStep ==
  ASSUME ReplayInv, FileKnown, NamesKept, FileNamesKept, [Next]_vars
  PROVE  NamesKept'
<1>1. TurnKnown /\ CacheKnown /\ TurnSound(turn)
  BY DEF ReplayInv, TurnKnown
<1>2. CASE Answer
  <2>1. UNCHANGED cacheVars /\ phase = "idle"
    BY <1>2 DEF Answer
  <2>2. Cache!Live = {} /\ UNCHANGED <<records, aliases, ambiguous>>
    BY <2>1 DEF ReplayInv, PhaseKnown, cacheVars, tables
  <2>3. Cache!Live' = {}
    BY <2>2 DEF Cache!Live
  <2> QED BY <2>2, <2>3 DEF NamesKept
<1>3. CASE StorePut
  <2>1. phase = "storing" /\ todo # <<>> /\ Apply(Head(todo)) /\ UNCHANGED turn
    BY <1>3 DEF StorePut
  <2>2. todo \in Seq(TurnPuts(turn))
    BY DEF ReplayInv, PhaseKnown
  <2>3. Head(todo) \in TurnPuts(turn)
    BY <2>1, <2>2
  <2> QED BY <2>1, <2>3, NamesStored
<1>4. CASE Others
  <2>1. OtherPut /\ UNCHANGED turn
    BY <1>4 DEF Others
  <2> DEFINE id == OtherCall(others + 1)
             sig == CHOOSE s \in Sigs : TRUE
  <2>2. id \in Foreigners /\ sig \in Sigs \cup {NoSig} /\ <<0>> \in Contents \cup {<<>>}
    <3>1. others + 1 \in 1..MaxOthers
      BY <1>1, <2>1, CacheAssumption DEF OtherPut, CacheKnown
    <3>2. sig \in Sigs
      BY SignaturesAssumption
    <3>3. <<0>> \in Contents
      BY CacheAssumption DEF Contents
    <3> QED BY <3>1, <3>2, <3>3 DEF Foreigners
  <2>3. ApplyTool(ToolPut(id, <<0>>, sig, {}))
    BY <2>1 DEF OtherPut
  <2> HIDE DEF id, sig
  <2> QED BY <1>1, <2>1, <2>2, <2>3, NamesPut
<1>5. CASE Restart
  <2>1. UNCHANGED turn /\ RestartSaved
    BY <1>5 DEF Restart
  <2>2. aliases' = file.aliases /\ ambiguous' = file.ambiguous /\ Cache!Live' = DOMAIN file.records.val
    BY <1>1, <2>1, RestartLoads DEF RestartSaved
  <2> QED BY <2>1, <2>2 DEF NamesKept, FileNamesKept
<1>6. CASE NothingToStore \/ Replay \/ Scan \/ Translate \/ Send \/ SaveStep \/ UNCHANGED vars
  <2>1. UNCHANGED <<turn, records, aliases, ambiguous>>
    BY <1>6 DEF NothingToStore, Replay, Scan, Translate, Send, SaveStep, Save, vars, cacheVars, tables
  <2> QED BY <2>1 DEF NamesKept, Cache!Live
<1> QED BY <1>2, <1>3, <1>4, <1>5, <1>6 DEF Next

(* The siblings are put last, and go with the calls.                       *)
LEMMA SiblingsPutKnown ==
  ASSUME ReplayInv, phase = "storing", UNCHANGED turn, Len(turn.calls) > 1,
         Apply(SiblingsPut(Head(turn.calls), ToSet(Tail(turn.calls))))
  PROVE  Head(turn.calls) \in DOMAIN siblings' /\ Followers \subseteq siblings'[Head(turn.calls)]
<1> DEFINE lead == Head(turn.calls)
           calls == ToSet(Tail(turn.calls))
           canon == Canonical(lead)
           more == SiblingsOf(canon) \cup ({Canonical(c) : c \in calls} \ {canon})
           put == SiblingsPut(lead, calls)
<1>1. put.op = "siblings" /\ put.name = lead /\ put.names = calls
  BY DEF SiblingsPut
<1>2. siblings' = Assigned(siblings, canon, more)
  BY <1>1 DEF Apply, RecordTurnSiblings
<1>3. turn.calls \in Seq(TurnCall) /\ TurnKnown /\ CacheKnown
  BY DEF ReplayInv, TurnKnown, TurnSound
<1>4. lead \in TurnCall /\ calls \subseteq TurnCall
  BY <1>3 DEF ToSet
<1>5. canon = lead /\ \A c \in calls : Canonical(c) = c
  BY <1>3, <1>4, FoundKnown
<1>6. Followers \subseteq more
  BY <1>5 DEF Followers
<1> HIDE DEF more, canon
<1> QED BY <1>2, <1>5, <1>6 DEF Assigned

(* The siblings stay, unless a restart loses them.                         *)
LEMMA SiblingsThereStep ==
  ASSUME ReplayInv, SiblingsThere, [Next]_vars
  PROVE  SiblingsThere'
<1>1. TurnKnown /\ CacheKnown /\ TurnSound(turn)
  BY DEF ReplayInv, TurnKnown
<1>2. CASE Answer
  <2>1. PICK parts \in Answers : turn' = BuildAuthoritativeTurn(parts) /\ todo' = PopulateCache(turn') /\ phase' = "storing"
    BY <1>2 DEF Answer
  <2>2. TurnSound(turn')
    BY <2>1, TurnIsSound, AnswersAssumption
  <2>3. Len(turn'.calls) > 1 =>
          todo' # <<>> /\ Last(todo') = SiblingsPut(Head(turn'.calls), ToSet(Tail(turn'.calls)))
    BY <2>1, <2>2, PopulateKnown
  <2> QED BY <2>1, <2>3 DEF SiblingsThere, SiblingsLast
<1>3. CASE StorePut
  <2> SUFFICES ASSUME Len(turn.calls) > 1
               PROVE  /\ phase' = "storing" => SiblingsLast'
                      /\ phase' = "answered" =>
                           Head(turn.calls) \in DOMAIN siblings' /\ Followers \subseteq siblings'[Head(turn.calls)]
    BY <1>3 DEF SiblingsThere, StorePut, Followers
  <2>1. /\ phase = "storing" /\ todo # <<>> /\ Apply(Head(todo)) /\ todo' = Tail(todo) /\ UNCHANGED turn
        /\ phase' = IF Len(todo) = 1 THEN "answered" ELSE "storing"
    BY <1>3 DEF StorePut
  <2>2. todo \in Seq(TurnPuts(turn)) /\ Len(todo) \in Nat
    BY DEF ReplayInv, PhaseKnown
  <2>3. todo[Len(todo)] = SiblingsPut(Head(turn.calls), ToSet(Tail(turn.calls)))
    BY <2>1 DEF SiblingsThere, SiblingsLast, Last
  <2>4. CASE Len(todo) = 1
    <3>1. Head(todo) = todo[Len(todo)]
      BY <2>1, <2>2, <2>4
    <3> QED BY <2>1, <2>3, <2>4, <3>1, SiblingsPutKnown
  <2>5. CASE Len(todo) # 1
    <3>1. Tail(todo) # <<>> /\ Last(Tail(todo)) = todo[Len(todo)]
      <4>1. ASSUME NEW S, NEW s \in Seq(S), s # <<>>, Len(s) # 1
            PROVE  Tail(s) # <<>> /\ Len(Tail(s)) = Len(s) - 1 /\ Tail(s)[Len(s) - 1] = s[Len(s)]
        <5>1. Len(s) \in Nat /\ Len(s) # 0
          BY <4>1
        <5>2. Tail(s) \in Seq(S) /\ Len(Tail(s)) = Len(s) - 1
          BY <4>1
        <5>3. Len(s) - 1 \in 1..Len(Tail(s)) /\ (Len(s) - 1) + 1 = Len(s)
          BY <4>1, <5>1, <5>2
        <5>4. Tail(s)[Len(s) - 1] = s[Len(s)]
          BY <4>1, <5>1, <5>3
        <5>5. Tail(s) # <<>>
          <6>1. Len(Tail(s)) # 0
            BY <4>1, <5>1, <5>2
          <6>2. Len(<<>>) = 0
            OBVIOUS
          <6> QED BY <6>1, <6>2, Zenon
        <5> QED BY <5>2, <5>4, <5>5
      <4> QED BY <2>1, <2>2, <2>5, <4>1 DEF Last
    <3> QED BY <2>1, <2>3, <2>5, <3>1 DEF SiblingsLast
  <2> QED BY <2>4, <2>5
<1>4. CASE NothingToStore
  <2>1. phase = "storing" /\ todo = <<>> /\ UNCHANGED turn
    BY <1>4 DEF NothingToStore
  <2> QED BY <2>1 DEF SiblingsThere, SiblingsLast
<1>5. ASSUME UNCHANGED <<phase, turn, todo, siblings, torn>> PROVE SiblingsThere'
  BY <1>5 DEF SiblingsThere, SiblingsLast, Followers
<1>6. CASE Others \/ SaveStep
  <2>1. UNCHANGED <<phase, turn, todo, siblings, torn>>
    BY <1>6 DEF Others, OtherPut, SaveStep, Save, disk
  <2> QED BY <1>5, <2>1
<1>7. CASE Restart
  <2> SUFFICES ASSUME Len(turn.calls) > 1, ~torn'
               PROVE  Head(turn.calls) \in DOMAIN siblings' /\ Followers \subseteq siblings'[Head(turn.calls)]
    BY <1>7 DEF Restart, SiblingsThere, Followers
  <2>1. phase = "answered" /\ siblings' = file.siblings /\ ~torn /\ ~SiblingsLost
    BY <1>7 DEF Restart, RestartSaved
  <2>2. Head(turn.calls) \in DOMAIN siblings /\ Followers \subseteq siblings[Head(turn.calls)]
    BY <2>1 DEF SiblingsThere
  <2>3. Head(turn.calls) \in DOMAIN file.siblings
        /\ siblings[Head(turn.calls)] \subseteq file.siblings[Head(turn.calls)]
    BY <2>1, <2>2 DEF SiblingsLost
  <2> QED BY <2>1, <2>2, <2>3
<1>8. CASE Replay \/ Scan \/ Translate \/ Send
  <2>1. /\ UNCHANGED <<turn, siblings, torn>>
        /\ phase \notin {"idle", "storing"} /\ phase' \notin {"idle", "storing"}
    <3>1. CASE Translate
      <4>1. phase = "translating" /\ phase' \in {"translating", "rejected"}
        BY <3>1, TranslatePhase
      <4> QED BY <3>1, <4>1 DEF Translate, cacheVars, disk
    <3> QED BY <1>8, <3>1 DEF Replay, Scan, Send, cacheVars, disk
  <2> QED BY <2>1 DEF SiblingsThere, Followers
<1>9. CASE UNCHANGED vars
  BY <1>5, <1>9 DEF vars, cacheVars, disk
<1> QED BY <1>2, <1>3, <1>4, <1>6, <1>7, <1>8, <1>9 DEF Next

-----------------------------------------------------------------------------
(* The calls of a faithful request are those of the turn, once each.       *)
LEMMA CallsCopied ==
  ASSUME ReplayInv, Requested, deviations \subseteq Leaves, NEW from, Copied(input, from, deviations)
  PROVE  /\ ~MixedUp
         /\ \A i \in CallItems :
              /\ i \in TurnCopies(input) /\ from[i] \in DOMAIN turn.parts
              /\ turn.parts[from[i]] \in OriginalOf(input[i]) /\ CallCopy(input[i], turn.parts[from[i]], deviations)
              /\ input[i].call \in TurnCall /\ input[i].id \in {NoName, ItemName(input[i].call)}
         /\ \A i, j \in CallItems : input[i].call = input[j].call => i = j
<1>1. ~MixedUp
  BY DEF MixedUp, Leaves
<1>2. phase # "idle" /\ TurnSound(turn)
  BY DEF Requested, ReplayInv, TurnKnown
<1>3. PartsApart
  <2>1. PICK ids : TurnListing(turn, ids)
    BY <1>2, TurnListed
  <2> QED BY <2>1 DEF TurnListing, Lists, ItemsOf, PartsApart
<1>4. ASSUME NEW i \in CallItems
      PROVE  /\ i \in TurnCopies(input) /\ from[i] \in DOMAIN turn.parts
             /\ turn.parts[from[i]] \in OriginalOf(input[i]) /\ CallCopy(input[i], turn.parts[from[i]], deviations)
             /\ input[i].call \in TurnCall /\ input[i].id \in {NoName, ItemName(input[i].call)}
             /\ input[i].call = turn.parts[from[i]].item
  <2>1. i \in TurnCopies(input) /\ input[i].type = "call"
    BY DEF CallItems, TurnCopies
  <2>2. from[i] \in DOMAIN turn.parts /\ ItemCopy(input[i], turn.parts[from[i]], deviations)
    BY <2>1 DEF Copied
  <2> DEFINE p == turn.parts[from[i]]
  <2>3. p \in ToSet(turn.parts)
    BY <2>2 DEF ToSet
  <2> HIDE DEF p
  <2>4. CallCopy(input[i], p, deviations)
    BY <2>1, <2>2 DEF ItemCopy, p
  <2>5. p \in TurnCalls /\ input[i].call = p.item
    BY <2>3, <2>4 DEF CallCopy, TurnCalls
  <2>6. p.item \in TurnCall
    BY <1>2, <2>5, TurnCallsKnown
  <2>7. input[i].id \in {NoName, ItemName(input[i].call)}
    BY <2>4 DEF CallCopy
  <2> QED BY <2>1, <2>2, <2>4, <2>5, <2>6, <2>7 DEF p, OriginalOf
<1>5. ASSUME NEW i \in CallItems, NEW j \in CallItems, input[i].call = input[j].call PROVE i = j
  <2>1. from[i] = from[j]
    BY <1>3, <1>4, <1>5 DEF PartsApart
  <2>2. i \in Nat /\ j \in Nat
    BY ItemsFinite
  <2>3. ~(i < j) /\ ~(j < i)
    <3>1. from[i] \in Nat
      <4>1. turn.parts \in Seq(KnownPart)
        BY <1>2, TurnCallsKnown
      <4> QED BY <1>4, <4>1
    <3> QED BY <1>4, <2>1, <3>1 DEF Copied
  <2> QED BY <2>2, <2>3
<1> QED BY <1>1, <1>4, <1>5

(* What a call may bind in a faithful request names no other call.         *)
BoundTo(x) == {x, ItemName(x), OutName(x)}

(* The names of two calls differ.                                          *)
LEMMA NamesApart ==
  ASSUME NEW x \in TurnCall, NEW y \in TurnCall, NEW name \in {x, ItemName(x)}, name \in BoundTo(y)
  PROVE  x = y
<1>1. /\ ItemName(x)[1] = "item" /\ x[1] = "fc" /\ ItemName(y)[1] = "item" /\ y[1] = "fc"
      /\ ItemName(x) = ItemName(y) => x = y
  BY NameShapes
<1>2. OutName(y) = y \/ OutName(y)[1] = "upstream"
  BY DEF OutName, Outbound
<1> QED BY <1>1, <1>2 DEF BoundTo

(* What a call of the turn binds, and that it binds its item once known.   *)
LEMMA BoundKnown ==
  ASSUME ReplayInv, NEW i \in CallItems, input[i].call \in TurnCall,
         input[i].id \in {NoName, ItemName(input[i].call)}
  PROVE  /\ Own(i) = {input[i].call} \cup (IF input[i].id = NoName THEN {} ELSE {ItemName(input[i].call)})
         /\ Own(i) \subseteq BoundTo(input[i].call) /\ BoundIds(i) \subseteq BoundTo(input[i].call)
         /\ Own(i) \subseteq BoundIds(i)
         /\ input[i].call \in Cache!Live => ItemName(input[i].call) \in BoundIds(i)
<1> DEFINE c == input[i].call
<1>1. /\ Cache!Found(c) = {c} \cap Cache!Live /\ Cache!Found(ItemName(c)) \subseteq {c} \cap Cache!Live
  BY FoundKnown DEF ReplayInv
<1>2. Own(i) = {c} \cup (IF input[i].id = NoName THEN {} ELSE {ItemName(c)})
  BY DEF Own
<1> HIDE DEF c
<1>3. UNION {Cache!Found(id) : id \in Own(i)} = {c} \cap Cache!Live
  BY <1>1, <1>2
<1>4. RecordIds(i) = UNION {{ItemName(x)} \cup (IF UpstreamID(x) = NoId THEN {} ELSE {OutName(x)}) :
                              x \in {c} \cap Cache!Live}
  BY <1>3 DEF RecordIds, OutName
<1>5. RecordIds(i) \subseteq {ItemName(c), OutName(c)} /\ (c \in Cache!Live => ItemName(c) \in RecordIds(i))
  BY <1>4
<1> QED BY <1>2, <1>5 DEF c, BoundIds, BoundTo

(* A name bound by a call leads to that call.                              *)
LEMMA CalleeBound ==
  ASSUME ReplayInv, Requested, deviations \subseteq Leaves, NEW from, Copied(input, from, deviations),
         NEW binds, \A i \in CallItems : binds[i] \subseteq BoundTo(input[i].call),
         NEW k \in CallItems, NEW name \in {input[k].call, ItemName(input[k].call)}, name \in binds[k]
  PROVE  Callee(name, binds) = input[k].call
<1> DEFINE bound == {i \in CallItems : name \in binds[i]}
<1>1. \A i \in bound : i = k
  <2> TAKE i \in bound
  <2>1. i \in CallItems /\ name \in BoundTo(input[i].call)
    OBVIOUS
  <2>2. input[k].call = input[i].call
    BY <2>1, CallsCopied, NamesApart
  <2> QED BY <2>1, <2>2, CallsCopied
<1>2. bound = {k}
  BY <1>1
<1>3. Min(bound) = k
  <2>1. bound \subseteq Nat
    BY ItemsFinite
  <2>2. Min(bound) \in bound
    BY <1>2, <2>1, MinOfPositions
  <2> QED BY <1>2, <2>2
<1>4. bound # {} => Callee(name, binds) = input[Min(bound)].call
  BY DEF Callee
<1> QED BY <1>2, <1>3, <1>4

(* So every result is taken for that of its call.                          *)
LEMMA ResultTaken ==
  ASSUME ReplayInv, Requested, deviations \subseteq Leaves, Remembered, NamesKept,
         NEW from, Copied(input, from, deviations), NEW to, AnsweredBy(to), NEW j \in OutputItems
  PROVE  /\ to[j] \in CallItems
         /\ ValidatedResultOf(input[j].call) = input[to[j]].call
         /\ ResultOf(input[j].call) = input[to[j]].call
<1> DEFINE k == to[j]
           c == input[k].call
           name == input[j].call
           owned == [i \in CallItems |-> Own(i)]
           binds == [i \in CallItems |-> BoundIds(i)]
<1>1. k \in CallItems
  BY DEF AnsweredBy
<1>2. name = IF "result by item" \in deviations THEN ItemName(c) ELSE c
  BY DEF AnsweredBy
<1>3. \A i \in CallItems : input[i].call \in TurnCall /\ input[i].id \in {NoName, ItemName(input[i].call)}
  BY CallsCopied
<1>4. \A i \in CallItems : owned[i] = Own(i) /\ binds[i] = BoundIds(i)
  OBVIOUS
<1> HIDE DEF owned, binds, k
<1>5. \A i \in CallItems : owned[i] \subseteq BoundTo(input[i].call) /\ binds[i] \subseteq BoundTo(input[i].call)
  BY <1>3, <1>4, BoundKnown
<1>6. /\ Own(k) = {c} \cup (IF input[k].id = NoName THEN {} ELSE {ItemName(c)})
      /\ Own(k) \subseteq BoundIds(k) /\ (c \in Cache!Live => ItemName(c) \in BoundIds(k))
  BY <1>1, <1>3, BoundKnown
<1>7. ValidatedResultOf(name) = Callee(name, binds) /\ ResultOf(name) = Callee(name, owned)
  BY DEF ValidatedResultOf, ResultOf, binds, owned
<1>8. name \in {c, ItemName(c)}
  BY <1>2
<1>9. CASE name \in Own(k)
  <2>1. name \in binds[k] /\ name \in owned[k]
    BY <1>1, <1>4, <1>6, <1>9
  <2> HIDE DEF name, c
  <2>2. Callee(name, binds) = c /\ Callee(name, owned) = c
    BY <1>1, <1>5, <1>8, <2>1, CalleeBound DEF c
  <2> QED BY <1>1, <1>7, <2>2 DEF name, c, k
<1>10. CASE name \notin Own(k)
  <2>1. name = ItemName(c) /\ input[k].id = NoName /\ "result by item" \in deviations
    BY <1>2, <1>6, <1>10
  <2>2. "no item ids" \in deviations
    <3>1. CallCopy(input[k], turn.parts[from[k]], deviations) /\ input[k].call = turn.parts[from[k]].item
      BY <1>1, CallsCopied DEF CallCopy
    <3>2. ItemName(c) # NoName
      <4>1. ItemName(c)[1] = "item"
        BY <1>1, <1>3, NameShapes
      <4> QED BY <4>1 DEF NoName
    <3> QED BY <2>1, <3>1, <3>2 DEF CallCopy
  <2>3. c \in Cache!Live /\ c \in CallsOf(turn.parts)
    <3>1. turn.parts[from[k]] \in OriginalOf(input[k])
      BY <1>1, CallsCopied
    <3>2. turn.parts[from[k]] \in TurnCalls /\ turn.parts[from[k]].item = c
      BY <3>1 DEF OriginalOf
    <3> QED BY <2>1, <2>2, <3>2, TurnCallsKnown DEF Remembered, ReplayInv, TurnKnown
  <2>4. name \in binds[k]
    BY <1>1, <1>4, <1>6, <2>1, <2>3
  <2>5. Callee(name, binds) = c
    <3> HIDE DEF name, c
    <3> QED BY <1>1, <1>5, <1>8, <2>4, CalleeBound DEF c
  <2>6. Cache!Found(name) = {c}
    <3>1. c \in TurnCall /\ TurnKnown /\ CacheKnown
      BY <1>1, <1>3 DEF ReplayInv
    <3>2. ItemName(c) \in DOMAIN aliases /\ aliases[ItemName(c)] = c /\ ItemName(c) \notin ambiguous
      BY <2>3, <3>1 DEF NamesKept
    <3>3. ItemName(c) \notin Cache!Live
      <4>1. \A z \in Foreigners : z[1] = "other"
        BY DEF Foreigners, OtherCall
      <4> QED BY <3>1, <4>1, FoundKnown, NameShapes
    <3> QED BY <2>1, <2>3, <3>2, <3>3 DEF Cache!Found
  <2>7. {i \in CallItems : name \in owned[i]} = {}
    <3> SUFFICES ASSUME NEW i \in CallItems, name \in owned[i] PROVE FALSE
      OBVIOUS
    <3>1. c = input[i].call
      BY <1>1, <1>3, <1>5, <1>8, NamesApart
    <3>2. i = k
      BY <1>1, <3>1, CallsCopied
    <3> QED BY <1>1, <1>4, <1>10, <3>2
  <2>8. {i \in CallItems : \E p \in Carried(name) : name = Outbound(p.id, p.item) /\ p.item = input[i].call} = {}
    <3> SUFFICES ASSUME NEW p \in Carried(name), name = Outbound(p.id, p.item) PROVE FALSE
      OBVIOUS
    <3>1. p \in TurnCalls /\ TurnSound(turn)
      BY CarriedKnown DEF ReplayInv, TurnKnown
    <3>2. p.item[1] = "fc" /\ name[1] = "item"
      BY <1>1, <1>3, <2>1, <3>1, TurnCallsKnown, NameShapes
    <3> QED BY <3>2 DEF Outbound
  <2> DEFINE cached == {i \in CallItems : input[i].call \in Cache!Found(name)}
  <2>9. cached = {k}
    <3> HIDE DEF name
    <3> QED BY <1>1, <2>6, CallsCopied
  <2>10. Min(cached) = k
    <3>1. cached \subseteq Nat
      BY ItemsFinite
    <3>2. Min(cached) \in cached
      BY <2>9, <3>1, MinOfPositions
    <3> QED BY <2>9, <3>2
  <2>11. Callee(name, owned) = c
    <3> HIDE DEF name, c
    <3>1. Callee(name, owned) = input[Min(cached)].call
      BY <2>7, <2>8, <2>9 DEF Callee
    <3> QED BY <2>10, <3>1 DEF c
  <2> QED BY <1>1, <1>7, <2>5, <2>11 DEF k
<1> QED BY <1>9, <1>10

(* The exchange is valid.                                                  *)
LEMMA ExchangeValid ==
  ASSUME ReplayInv, CallsFirst, Requested, deviations \subseteq Leaves, Remembered, NamesKept,
         NEW from, Copied(input, from, deviations), NEW to, AnsweredBy(to)
  PROVE  ValidExchange
<1>1. \A i, j \in CallItems : input[i].call = input[j].call => i = j
  BY CallsCopied
<1>2. \A j \in OutputItems : to[j] \in CallItems /\ ValidatedResultOf(input[j].call) = input[to[j]].call
  BY ResultTaken
<1>3. \A i \in CallItems : /\ input[i].call \in TurnCall
                           /\ Own(i) \subseteq {input[i].call, ItemName(input[i].call)}
                           /\ BoundIds(i) \subseteq BoundTo(input[i].call)
  <2> TAKE i \in CallItems
  <2>1. input[i].call \in TurnCall /\ input[i].id \in {NoName, ItemName(input[i].call)}
    BY CallsCopied
  <2> QED BY <2>1, BoundKnown
<1>4. CallItems \subseteq Nat /\ OutputItems \subseteq Nat
  BY ItemsFinite
<1>5. ASSUME NEW i \in CallItems, NEW j \in CallItems, i < j
      PROVE  input[i].call # input[j].call /\ BoundIds(i) \cap Own(j) = {}
  <2>1. i # j
    BY <1>4, <1>5
  <2>2. input[i].call # input[j].call
    BY <1>1, <2>1
  <2>3. ASSUME NEW n \in BoundIds(i) \cap Own(j) PROVE FALSE
    <3>1. n \in BoundTo(input[i].call) /\ n \in {input[j].call, ItemName(input[j].call)}
      BY <1>3
    <3> QED BY <1>3, <2>2, <3>1, NamesApart
  <2> QED BY <2>2, <2>3
<1>6. ASSUME NEW i \in OutputItems
      PROVE  \E j \in CallItems : j < i /\ input[j].call = ValidatedResultOf(input[i].call)
  BY <1>2 DEF CallsFirst
<1>7. ASSUME NEW i \in OutputItems, NEW j \in OutputItems, j < i
      PROVE  ValidatedResultOf(input[j].call) # ValidatedResultOf(input[i].call)
  <2>1. to[i] # to[j]
    <3>1. i # j
      BY <1>4, <1>7
    <3> QED BY <3>1 DEF AnsweredBy
  <2> QED BY <1>1, <1>2, <2>1
<1> QED BY <1>5, <1>6, <1>7 DEF ValidExchange

(* The first call of the turn is the first signed one of its group.        *)
LEMMA FirstLed ==
  ASSUME ReplayInv, Requested, deviations \subseteq Leaves, NEW from, Copied(input, from, deviations),
         NEW i \in CallItems, NEW p \in OriginalOf(input[i]), p.item = Head(turn.calls), p.sig # NoSig, Known(p)
  PROVE  SignedLead(i) = p.item
<1> DEFINE signed == {j \in Group(i) : SeemsSigned(input[j])}
<1>1. phase # "idle" /\ TurnSound(turn) /\ input \in Seq(KnownItem)
  BY DEF Requested, ReplayInv, TurnKnown, InputKnown
<1>2. FirstCallLeads(turn)
  BY <1>1, TurnListed
<1>3. PartsApart
  <2>1. PICK ids : TurnListing(turn, ids)
    BY <1>1, TurnListed
  <2> QED BY <2>1 DEF TurnListing, Lists, ItemsOf, PartsApart
<1>4. input[i].call = p.item /\ p \in TurnCalls
  BY OriginalKnown
<1>5. p.body = input[i].body
  <2>1. /\ turn.parts[from[i]] \in OriginalOf(input[i])
        /\ input[i].body = turn.parts[from[i]].body
    BY CallsCopied DEF CallCopy
  <2>2. turn.parts[from[i]] = p
    BY <1>1, <2>1, TurnCallsKnown DEF OriginalOf
  <2> QED BY <2>1, <2>2
<1>6. SeemsSigned(input[i])
  BY <1>5, SeemsSignedKnown, CallsCopied
<1>7. i \in signed /\ signed \subseteq CallItems
  BY <1>1, <1>6, GroupsAlike
<1>8. \A j \in CallItems : i <= j
  <2> TAKE j \in CallItems
  <2>1. from[i] \in DOMAIN turn.parts /\ turn.parts[from[i]].item = Head(turn.calls) /\ i \in TurnCopies(input)
    BY <1>4, CallsCopied DEF OriginalOf
  <2>2. from[j] \in DOMAIN turn.parts /\ turn.parts[from[j]].kind = "call" /\ j \in TurnCopies(input)
    BY CallsCopied DEF CallCopy
  <2>3. PICK y \in DOMAIN turn.parts : y <= from[j] /\ turn.parts[y].item = Head(turn.calls)
    BY <1>2, <2>2 DEF FirstCallLeads
  <2>4. y = from[i]
    BY <1>3, <2>1, <2>3 DEF PartsApart
  <2>5. i \in Nat /\ j \in Nat
    BY ItemsFinite
  <2>6. from[i] \in Nat /\ from[j] \in Nat
    <3>1. turn.parts \in Seq(KnownPart)
      BY <1>1, TurnCallsKnown
    <3> QED BY <2>1, <2>2, <3>1
  <2>7. ~(j < i)
    <3> SUFFICES ASSUME j < i PROVE FALSE
      OBVIOUS
    <3>1. from[j] < from[i]
      BY <2>1, <2>2 DEF Copied
    <3> QED BY <2>3, <2>4, <2>6, <3>1
  <2> QED BY <2>5, <2>7
<1>9. SignedLead(i) = IF signed = {} THEN NoName ELSE input[Min(signed)].call
  BY DEF SignedLead
<1> HIDE DEF signed
<1>10. Min(signed) = i
  <2>1. CallItems \subseteq Nat
    BY ItemsFinite
  <2>2. Min(signed) \in signed /\ Min(signed) <= i
    BY <1>7, <2>1, MinOfPositions
  <2>3. i <= Min(signed) /\ Min(signed) \in Nat /\ i \in Nat
    BY <1>7, <1>8, <2>1, <2>2
  <2> QED BY <2>2, <2>3
<1> QED BY <1>4, <1>7, <1>9, <1>10

(* The first pass over the history of a faithful client.                   *)
LEMMA ScanFaithful ==
  ASSUME ReplayInv, CallsFirst, RequestFaithful, NamesKept, Scan
  PROVE  AnswersFound' /\ FirstLeads' /\ FaithfulReplayAccepted'
<1>1. /\ phase = "scanning" /\ phase' = IF ValidExchange THEN "translating" ELSE "rejected"
      /\ leads' = [i \in CallItems |-> SignedLead(i)]
      /\ callees' = [i \in OutputItems |-> ResultOf(input[i].call)]
      /\ UNCHANGED <<turn, deviations, input, records>>
  BY DEF Scan, cacheVars, tables
<1>2. Requested
  BY <1>1 DEF Requested
<1>3. /\ CallItems' = CallItems /\ OutputItems' = OutputItems /\ TurnCalls' = TurnCalls
      /\ \A it : OriginalOf(it)' = OriginalOf(it) /\ \A p : Known(p)' = Known(p)
      /\ Remembered' = Remembered /\ Cache!Live' = Cache!Live /\ Faithful' = Faithful
  BY <1>1 DEF CallItems, OutputItems, TurnCalls, OriginalOf, Known, HasReasoning, Remembered, Cache!Live, Faithful
<1>4. AnswersFound'
  <2> SUFFICES ASSUME deviations \subseteq Leaves, Remembered, NEW i \in CallItems
               PROVE  \E j \in DOMAIN callees' : callees'[j] = input[i].call
    BY <1>1, <1>3 DEF AnswersFound
  <2>1. PICK from, to : Copied(input, from, deviations) /\ AnsweredBy(to)
    BY <1>2 DEF RequestFaithful
  <2>2. PICK j \in OutputItems : to[j] = i
    BY <2>1 DEF AnsweredBy
  <2>3. ResultOf(input[j].call) = input[i].call
    BY <1>2, <2>1, <2>2, ResultTaken
  <2> QED BY <1>1, <2>3
<1>5. FirstLeads'
  <2> SUFFICES ASSUME deviations \subseteq Leaves, NEW i \in CallItems, NEW p \in OriginalOf(input[i]),
                      p.item = Head(turn.calls), p.sig # NoSig, Known(p)
               PROVE  leads'[i] = p.item
    BY <1>1, <1>3 DEF FirstLeads
  <2>1. PICK from : Copied(input, from, deviations)
    BY <1>2 DEF RequestFaithful
  <2>2. SignedLead(i) = p.item
    BY <1>2, <2>1, FirstLed
  <2> QED BY <1>1, <2>2
<1>6. FaithfulReplayAccepted'
  <2> SUFFICES ASSUME Faithful PROVE ValidExchange
    BY <1>1, <1>3 DEF FaithfulReplayAccepted
  <2>1. deviations \subseteq Leaves /\ Remembered
    BY DEF Faithful, Leaves, Remembered
  <2>2. PICK from, to : Copied(input, from, deviations) /\ AnsweredBy(to)
    BY <1>2, <2>1 DEF RequestFaithful
  <2> QED BY <1>2, <2>1, <2>2, ExchangeValid
<1> QED BY <1>4, <1>5, <1>6

(* An unsigned call of a faithful request is led by the call it followed   *)
(* in the turn.                                                            *)
LEMMA LedInTurn ==
  ASSUME ReplayInv, CallsFirst, FirstLeads, phase = "translating", deviations \subseteq Leaves, AllKnown, SignedTurn,
         NEW from, Copied(input, from, deviations),
         NEW i \in CallItems, NEW p \in OriginalOf(input[i]), p.sig = NoSig
  PROVE  \E q \in TurnCalls : /\ q.item = Head(turn.calls) /\ q.sig # NoSig /\ Known(q)
                              /\ leads[i] = q.item /\ q.item # p.item
<1>1. TurnSound(turn) /\ input \in Seq(KnownItem) /\ Requested /\ p \in TurnCalls
  BY OriginalKnown DEF ReplayInv, TurnKnown, InputKnown, Requested
<1>2. turn.parts \in Seq(KnownPart) /\ turn.calls \in Seq(TurnCall)
  BY <1>1, TurnCallsKnown DEF TurnSound
<1>3. i \in TurnCopies(input) /\ from[i] \in DOMAIN turn.parts /\ turn.parts[from[i]] = p /\ p.kind = "call"
  <2>1. /\ i \in TurnCopies(input) /\ from[i] \in DOMAIN turn.parts /\ turn.parts[from[i]] \in OriginalOf(input[i])
        /\ turn.parts[from[i]].kind = "call"
    BY <1>1, CallsCopied DEF CallCopy
  <2>2. turn.parts[from[i]] = p
    BY <1>1, <2>1, TurnCallsKnown DEF OriginalOf
  <2> QED BY <2>1, <2>2
<1>4. PICK y \in 1..(from[i] - 1) :
        /\ turn.parts[y].item = turn.calls[1] /\ turn.parts[y].sig # NoSig
        /\ \A z \in y..from[i] : turn.parts[z].kind = "call"
  BY <1>3 DEF SignedTurn
<1>5. y \in DOMAIN turn.parts /\ y \in Nat /\ from[i] \in Nat /\ y < from[i] /\ turn.parts[y].kind = "call"
  <2>1. \A n \in Nat : \A x \in 1..n : \A z \in 1..(x - 1) :
          z \in 1..n /\ z \in Nat /\ x \in Nat /\ z < x /\ z \in z..x
    OBVIOUS
  <2>2. \E n \in Nat : DOMAIN turn.parts = 1..n
    BY <1>2
  <2> QED BY <1>3, <1>4, <2>1, <2>2
<1>6. PICK q : q = turn.parts[y]
  OBVIOUS
<1>7. q \in TurnCalls /\ q.sig # NoSig /\ Known(q)
  <2>1. q \in ToSet(turn.parts)
    BY <1>5, <1>6 DEF ToSet
  <2> QED BY <1>4, <1>5, <1>6, <2>1 DEF TurnCalls, AllKnown
<1>8. q.item = Head(turn.calls)
  <2>1. turn.calls # <<>>
    <3>1. q.item \in ToSet(turn.calls)
      BY <1>1, <1>7, TurnCallsKnown
    <3>2. \E n \in DOMAIN turn.calls : TRUE
      BY <3>1 DEF ToSet
    <3> QED BY <3>2
  <2> QED BY <1>2, <1>4, <1>6, <2>1
<1>9. PICK k \in TurnCopies(input) : from[k] = y
  BY <1>5 DEF Copied
<1>10. k \in CallItems /\ q \in OriginalOf(input[k])
  <2>1. ItemCopy(input[k], q, deviations)
    BY <1>6, <1>9 DEF Copied
  <2>2. k \in CallItems
    BY <1>5, <1>6, <2>1 DEF ItemCopy, TurnCopies, CallItems
  <2>3. input[k].call = q.item
    BY <2>1, <2>2 DEF ItemCopy, CallCopy, CallItems
  <2> QED BY <1>7, <2>2, <2>3 DEF OriginalOf
<1>11. leads[k] = q.item
  BY <1>7, <1>8, <1>10 DEF FirstLeads, Scanned
<1>12. DOMAIN input \subseteq Nat /\ CallItems \subseteq DOMAIN input /\ i \in Nat /\ k \in Nat
  BY <1>10, ItemsFinite DEF CallItems
<1>13. k < i
  <2>1. ~(i < k)
    BY <1>3, <1>5, <1>9 DEF Copied
  <2>2. i # k
    BY <1>5, <1>9
  <2> QED BY <1>12, <2>1, <2>2
<1>14. Grouped(k, i)
  <2> SUFFICES ASSUME NEW l \in k..i PROVE input[l].type \in {"call", "reasoning"}
    BY DEF Grouped
  <2>1. l \in DOMAIN input
    <3>1. \E n \in Nat : DOMAIN input = 1..n
      BY <1>1
    <3>2. i \in DOMAIN input /\ k \in DOMAIN input
      BY <1>10, <1>12
    <3> QED BY <1>12, <3>1, <3>2
  <2>2. l \in Nat /\ k <= l /\ l <= i
    BY <1>12
  <2>3. input[l].type \in {"reasoning", "message", "call", "output"}
    <3>1. input[l] \in KnownItem
      BY <1>1, <2>1
    <3> QED BY <3>1 DEF KnownItem
  <2>4. input[l].type # "output"
    <3> SUFFICES ASSUME l \in OutputItems PROVE FALSE
      BY <2>1 DEF OutputItems
    <3>1. i < l
      BY DEF CallsFirst
    <3> QED BY <1>12, <2>2, <3>1
  <2>5. input[l].type # "message"
    <3> SUFFICES ASSUME input[l].type = "message" PROVE FALSE
      OBVIOUS
    <3>1. l \in TurnCopies(input)
      BY <2>1 DEF TurnCopies
    <3>2. from[l] \in DOMAIN turn.parts /\ turn.parts[from[l]].kind = "text"
      BY <3>1 DEF Copied, ItemCopy
    <3>3. input[i].type = "call" /\ input[k].type = "call"
      BY <1>10 DEF CallItems
    <3>4. k < l /\ l < i
      BY <1>12, <2>2, <3>3
    <3>5. y < from[l] /\ from[l] < from[i]
      BY <1>3, <1>9, <3>1, <3>4 DEF Copied
    <3>6. from[l] \in Nat
      BY <1>2, <3>2
    <3>7. from[l] \in y..from[i]
      BY <1>5, <3>5, <3>6
    <3> QED BY <1>4, <3>2, <3>7
  <2> QED BY <2>3, <2>4, <2>5
<1>15. Grouped(i, k)
  <2>1. i..k = {}
    BY <1>12, <1>13
  <2> QED BY <2>1 DEF Grouped
<1>16. k \in Group(i)
  BY <1>10, <1>14, <1>15 DEF Group
<1>17. leads[i] = leads[k]
  BY <1>16 DEF ReplayInv, ScanKnown
<1>18. q.item # p.item
  BY <1>1, <1>7, TurnCallsKnown
<1> QED BY <1>7, <1>8, <1>11, <1>17, <1>18

(* And that call vouches for it.                                           *)
LEMMA VouchedFor ==
  ASSUME ReplayInv, SiblingsThere, phase = "translating", NEW i \in CallItems, NEW p \in OriginalOf(input[i]),
         NEW q \in TurnCalls, q.item = Head(turn.calls), leads[i] = q.item, q.item # p.item,
         torn => HasReasoning, ~Disagrees(input[i])
  PROVE  Sibling(i)
<1>1. TurnSound(turn) /\ TurnKnown /\ CacheKnown
  BY DEF ReplayInv, TurnKnown
<1>2. /\ p \in TurnCalls /\ input[i].call = p.item /\ p.item \in TurnCall /\ q.item \in TurnCall
      /\ Canonical(p.item) = p.item /\ Canonical(q.item) = q.item
  BY <1>1, OriginalKnown, TurnCallsKnown, FoundKnown
<1>3. Len(turn.calls) > 1 /\ p.item \in Followers
  <2>1. turn.calls \in Seq(TurnCall) /\ p.item \in ToSet(turn.calls)
    BY <1>1, <1>2, TurnCallsKnown DEF TurnSound
  <2>2. PICK n \in DOMAIN turn.calls : turn.calls[n] = p.item
    BY <2>1 DEF ToSet
  <2>3. n \in 1..Len(turn.calls) /\ Len(turn.calls) \in Nat /\ turn.calls # <<>>
    BY <2>1, <2>2
  <2>4. n # 1
    BY <2>1, <2>2, <2>3
  <2>5. Len(turn.calls) > 1 /\ n - 1 \in 1..(Len(turn.calls) - 1) /\ (n - 1) + 1 = n
    BY <2>3, <2>4
  <2>6. Len(Tail(turn.calls)) = Len(turn.calls) - 1 /\ Tail(turn.calls) \in Seq(TurnCall)
    BY <2>1, <2>3
  <2>7. Tail(turn.calls)[n - 1] = p.item /\ n - 1 \in DOMAIN Tail(turn.calls)
    BY <2>1, <2>2, <2>3, <2>5, <2>6
  <2>8. p.item \in ToSet(Tail(turn.calls))
    BY <2>7 DEF ToSet
  <2> QED BY <2>5, <2>8 DEF Followers
<1>4. Follows(i)
  <2>1. q.item # NoName
    BY <1>2, NameShapes DEF NoName
  <2> QED BY <1>2, <2>1 DEF Follows
<1>5. RecordedSibling(input[i], leads[i])
  <2>1. CASE HasReasoning
    <3>1. TurnSiblings(turn) = [lead \in {Head(turn.calls)} |-> ToSet(Tail(turn.calls))]
      BY <1>3 DEF TurnSiblings
    <3>2. CarriedSiblings(q.item) = ToSet(Tail(turn.calls))
      BY <2>1, <3>1 DEF CarriedSiblings
    <3> QED BY <1>2, <1>3, <3>2 DEF RecordedSibling, Followers
  <2>2. CASE ~HasReasoning
    <3>2. Head(turn.calls) \in DOMAIN siblings /\ p.item \in siblings[Head(turn.calls)]
      BY <1>3, <2>2 DEF SiblingsThere
    <3>3. IsVerifiedSibling(q.item, p.item)
      BY <1>2, <3>2 DEF IsVerifiedSibling, SiblingsOf
    <3> QED BY <1>2, <3>3 DEF RecordedSibling
  <2> QED BY <2>1, <2>2
<1> QED BY <1>4, <1>5 DEF Sibling

(* Every call of a faithful request has its signature.                     *)
LEMMA FaithfulCallSigned ==
  ASSUME ReplayInv, CallsFirst, RequestFaithful, SiblingsThere, AnswersFound, FirstLeads,
         phase = "translating", Faithful, SignedTurn, torn => HasReasoning \/ AllSigned, NEW i \in CallItems
  PROVE  ~IdentityConflict(input[i]) /\ P!ResolveToolSignature(Evidence(i)) # NoSig
<1> DEFINE it == input[i]
           ev == Evidence(i)
<1>1. Requested /\ Scanned /\ deviations \subseteq Leaves /\ Remembered /\ AllKnown
  BY DEF Requested, Scanned, Faithful, Leaves, Remembered, AllKnown
<1>2. PICK from : Copied(input, from, deviations)
  BY <1>1 DEF RequestFaithful
<1>3. PICK p : p = turn.parts[from[i]]
  OBVIOUS
<1>4. /\ ~MixedUp /\ p \in OriginalOf(it) /\ it.body = p.body /\ it.id \in {NoName, ItemName(it.call)}
  BY <1>1, <1>2, <1>3, CallsCopied DEF CallCopy
<1>5. /\ p \in TurnCalls /\ it.call = p.item /\ p.item \in TurnCall /\ p.sig \in Sigs \cup {NoSig}
      /\ Cache!Found(p.item) = {p.item} \cap Cache!Live
      /\ p.item \in Cache!Live => records.val[p.item] = RecordOf(p)
      /\ Carried(p.item) = IF HasReasoning THEN {p} ELSE {}
  BY <1>4, OriginalKnown
<1>6. Known(p) /\ TurnKnown /\ CacheKnown /\ TurnSound(turn)
  BY <1>1, <1>5 DEF AllKnown, ReplayInv, TurnKnown
<1>7. Cache!Found(it.id) \subseteq {p.item}
  BY <1>4, <1>5, <1>6, FoundKnown
<1> HIDE DEF it
<1>8. ~IdentityConflict(it)
  BY <1>5, <1>7 DEF IdentityConflict
<1>9. FirstFound(it.call, it.id) \subseteq {p.item} \cap Cache!Live
  BY <1>4, <1>5, <1>6, FoundKnown DEF FirstFound
<1>10. FirstCarried(it) = IF HasReasoning THEN {p} ELSE {}
  BY <1>4, <1>5, <1>6, CarriedKnown DEF FirstCarried
<1>11. ~Disagrees(it) /\ ~CarrierDisagrees(it) /\ ~CacheDisagrees(it)
  BY <1>4, <1>5, <1>9, <1>10 DEF Disagrees, CarrierDisagrees, CacheDisagrees, RecordOf
<1>12. /\ ev.hasCarrier = (Given(it) \/ FirstCarried(it) # {})
       /\ ev.carrierMismatch = CarrierDisagrees(it) /\ ev.cacheMismatch = CacheDisagrees(it)
       /\ ev.hasCache = (FirstFound(it.call, it.id) # {})
       /\ ev.recordedSib = Sibling(i)
       /\ ev.leadSig = IF Sibling(i) THEN LeadSig(leads[i]) ELSE NoSig
       /\ ev.hasOutput = (\E j \in DOMAIN callees : callees[j] = it.call)
  BY EvidenceKnown DEF it
<1>13. /\ ev.hasCache => p.item \in Cache!Live /\ ev.cacheSig = p.sig
       /\ ~ev.hasCache => ev.cacheSig = NoSig
       /\ p.item \in Cache!Live => ev.hasCache
       /\ p.item \notin Cache!Live => ev.hasCarrier /\ ev.carrierSig = p.sig
       /\ ev.carrierSig \in {NoSig, p.sig}
  <2>1. LET e == Evidence(i)
        IN /\ e.hasCache => \/ p.item \in Cache!Live /\ e.cacheSig = p.sig
                            \/ /\ p.item \notin Cache!Live
                               /\ MixedUp /\ \E q \in Related(p) : e.cacheSig = q.sig
           /\ ~e.hasCache => e.cacheSig = NoSig
           /\ p.item \in Cache!Live => e.hasCache
           /\ p.item \notin Cache!Live => e.hasCarrier /\ e.carrierSig = p.sig
           /\ e.carrierSig \in {NoSig, p.sig}
    BY <1>4, <1>6, KnownEvidence DEF it
  <2> QED BY <1>4, <2>1
<1>14. \E j \in DOMAIN callees : callees[j] = it.call
  BY <1>1 DEF AnswersFound, it
<1> HIDE DEF ev
<1>15. P!ClassifyToolCall(ev) = "native" /\ ev.hasOutput
  BY <1>11, <1>12, <1>13, <1>14 DEF P!ClassifyToolCall, P!Contradictory
<1>16. P!ResolveToolSignature(ev) = P!NativeSignature(ev)
  BY <1>15, Resolved
<1>17. P!NativeSignature(ev) # NoSig
  <2>1. CASE p.sig # NoSig
    BY <1>13, <2>1 DEF P!NativeSignature
  <2>2. CASE p.sig = NoSig
    <3>1. PICK q \in TurnCalls : /\ q.item = Head(turn.calls) /\ q.sig # NoSig /\ Known(q)
                                 /\ leads[i] = q.item /\ q.item # p.item
      BY <1>1, <1>2, <1>4, <2>2, LedInTurn DEF it
    <3>2. Sibling(i)
      <4>1. torn => HasReasoning
        BY <1>5, <2>2 DEF AllSigned
      <4> QED BY <1>4, <1>11, <3>1, <4>1, VouchedFor DEF it
    <3>3. LeadSig(leads[i]) = q.sig
      BY <3>1, LeadSigKnown
    <3> QED BY <1>12, <1>13, <2>2, <3>1, <3>2, <3>3 DEF P!NativeSignature
  <2> QED BY <2>1, <2>2
<1> QED BY <1>8, <1>16, <1>17 DEF it, ev

-----------------------------------------------------------------------------
(* A faithful request is not rejected while it is translated.              *)
LEMMA FaithfulTranslated ==
  ASSUME ReplayInv, CallsFirst, RequestFaithful, SiblingsThere, AnswersFound, FirstLeads, Translate
  PROVE  FaithfulReplayAccepted'
<1>1. phase = "translating" /\ UNCHANGED <<cacheVars, turn, deviations, input>>
  BY DEF Translate
<1>2. /\ Faithful' = Faithful /\ SignedTurn' = SignedTurn
      /\ torn' = torn /\ HasReasoning' = HasReasoning /\ AllSigned' = AllSigned
  BY <1>1 DEF Faithful, SignedTurn, AllSigned, TurnCalls, Known, HasReasoning, Cache!Live, cacheVars, tables, disk
<1> SUFFICES ASSUME Faithful, SignedTurn, torn => HasReasoning \/ AllSigned PROVE phase' # "rejected"
  BY <1>2 DEF FaithfulReplayAccepted
<1>3. PICK i \in DOMAIN input :
        /\ NextItem(i)
        /\ CASE input[i].type = "call" -> TranslateCall(i)
             [] input[i].type = "output" -> TranslateOutput(i)
             [] input[i].type = "message" -> TranslateMessage(i)
  BY DEF Translate
<1>4. input[i].type \in {"call", "output", "message"}
  <2>1. input[i] \in KnownItem
    BY <1>3 DEF ReplayInv, InputKnown
  <2> QED BY <1>3, <2>1 DEF NextItem, KnownItem
<1>5. TranslateOutput(i) \/ TranslateMessage(i) => phase' = phase
  BY DEF TranslateOutput, TranslateMessage
<1>6. CASE input[i].type = "call"
  <2>1. i \in CallItems /\ TranslateCall(i)
    BY <1>3, <1>6 DEF CallItems
  <2>2. ~IdentityConflict(input[i]) /\ P!ResolveToolSignature(Evidence(i)) # NoSig
    BY <1>1, <2>1, FaithfulCallSigned
  <2> QED BY <1>1, <2>1, <2>2 DEF TranslateCall
<1>7. CASE input[i].type # "call"
  BY <1>1, <1>3, <1>4, <1>5, <1>7
<1> QED BY <1>6, <1>7

(* What the first pass found stays so.                                     *)
LEMMA ScannedKept ==
  ASSUME ReplayInv, AnswersFound, FirstLeads, FaithfulReplayAccepted, [Next]_vars, ~Scan
  PROVE  AnswersFound' /\ FirstLeads' /\ (Translate \/ FaithfulReplayAccepted')
<1>1. CASE ~Scanned'
  <2>1. phase' # "rejected"
    BY <1>1 DEF Scanned
  <2> QED BY <1>1, <2>1 DEF AnswersFound, FirstLeads, FaithfulReplayAccepted
<1>2. CASE Scanned'
  <2>1. /\ Scanned /\ UNCHANGED <<turn, deviations, input, leads, callees>> /\ Shrunk
        /\ Translate \/ (phase' = "rejected" => UNCHANGED vars)
    <3>1. UNCHANGED cacheVars => Shrunk
      BY DEF Shrunk, cacheVars, tables, Cache!Live
    <3>2. CASE Answer \/ StorePut \/ NothingToStore \/ Replay \/ SaveStep \/ Restart
      BY <1>2, <3>2 DEF Answer, StorePut, NothingToStore, Replay, SaveStep, Restart, Scanned
    <3>3. CASE Translate
      BY <3>1, <3>3 DEF Translate, Scanned
    <3>4. CASE Send
      BY <3>1, <3>4 DEF Send, requestVars, Scanned
    <3>5. CASE Others
      <4>1. OtherPut /\ UNCHANGED <<phase, turn>> /\ UNCHANGED requestVars /\ phase # "rejected"
        BY <3>5 DEF Others
      <4>2. Shrunk
        BY <4>1, OtherPutShrinks DEF ReplayInv, Shrunk
      <4> QED BY <1>2, <4>1, <4>2 DEF Scanned, requestVars
    <3>6. CASE UNCHANGED vars
      BY <1>2, <3>1, <3>6 DEF vars, Scanned
    <3> QED BY <3>2, <3>3, <3>4, <3>5, <3>6 DEF Next
  <2>2. /\ TurnCalls' = TurnCalls /\ CallItems' = CallItems /\ \A it : OriginalOf(it)' = OriginalOf(it)
        /\ \A p \in TurnCalls : Known(p)' => Known(p)
    BY <2>1, KnownShrinks
  <2>3. Remembered' => Remembered
    <3>1. \A p \in TurnCalls : p.item \notin Foreigners
      BY TurnCallsKnown, NameShapes DEF ReplayInv, TurnKnown
    <3> QED BY <2>1, <2>2, <3>1 DEF Remembered, Shrunk
  <2>4. AnswersFound'
    BY <2>1, <2>2, <2>3 DEF AnswersFound
  <2>5. FirstLeads'
    <3> SUFFICES ASSUME deviations \subseteq Leaves, NEW i \in CallItems, NEW p \in OriginalOf(input[i]),
                        p.item = Head(turn.calls), p.sig # NoSig, Known(p)'
                 PROVE  leads[i] = p.item
      BY <2>1, <2>2 DEF FirstLeads
    <3>1. Known(p)
      BY <2>2 DEF OriginalOf
    <3> QED BY <2>1, <3>1 DEF FirstLeads
  <2>6. Translate \/ FaithfulReplayAccepted'
    <3> SUFFICES ASSUME ~Translate, phase' = "rejected" PROVE FaithfulReplayAccepted'
      BY DEF FaithfulReplayAccepted
    <3>1. UNCHANGED <<phase, turn, deviations, input, records, torn>>
      BY <2>1 DEF vars, cacheVars, tables, disk
    <3>2. HasReasoning' = HasReasoning /\ SignedTurn' = SignedTurn /\ Cache!Live' = Cache!Live
      BY <3>1 DEF HasReasoning, SignedTurn, Cache!Live
    <3>3. Faithful' = Faithful /\ AllSigned' = AllSigned
      BY <2>2, <3>1, <3>2 DEF Faithful, AllSigned, Known
    <3> QED BY <3>1, <3>2, <3>3 DEF FaithfulReplayAccepted
  <2> QED BY <2>4, <2>5, <2>6
<1> QED BY <1>1, <1>2

(* The invariant is inductive.                                             *)
LEMMA FaithfulStep ==
  ASSUME ReplayInv, FileKnown, PairedInv, FaithfulInv, [Next]_vars
  PROVE  FaithfulInv'
<1>1. CallsFirst /\ RequestFaithful /\ NamesKept /\ FileNamesKept /\ SiblingsThere /\ AnswersFound /\ FirstLeads /\ FaithfulReplayAccepted
  BY DEF PairedInv, FaithfulInv
<1>2. RequestFaithful' /\ NamesKept' /\ FileNamesKept' /\ SiblingsThere'
  BY <1>1, RequestFaithfulStep, NamesKeptStep, FileNamesStep, SiblingsThereStep
<1>3. AnswersFound' /\ FirstLeads' /\ FaithfulReplayAccepted'
  <2>1. CASE Scan
    BY <1>1, <2>1, ScanFaithful
  <2>2. CASE ~Scan
    BY <1>1, <2>2, ScannedKept, FaithfulTranslated
  <2> QED BY <2>1, <2>2
<1> QED BY <1>2, <1>3 DEF FaithfulInv

(* A client that sends a signed turn back with its results, and leaves out *)
(* no more than the cache and its own reasoning item make up for, is never *)
(* rejected: neither by the validation of the exchange nor for want of a   *)
(* signature, whatever is evicted in between and whatever file the daemon  *)
(* restarts from.  The exception is a restart that loses the siblings of a *)
(* turn with unsigned calls, when the client sends no reasoning item.      *)
THEOREM FaithfulIsAccepted == Spec => []FaithfulReplayAccepted
<1>1. Init => FaithfulInv
  <2> SUFFICES ASSUME Init PROVE FaithfulInv
    OBVIOUS
  <2>1. phase = "idle" /\ turn = NewAccumulator /\ CacheInit
    BY DEF Init
  <2>2. Cache!Live = {} /\ ambiguous = {} /\ file.ambiguous = ambiguous /\ DOMAIN file.records.val = Cache!Live
    BY <2>1 DEF CacheInit, Cache!LoadNothing, Cache!Live, Cache!EmptyTable, Memory
  <2>3. SiblingsThere
    BY <2>1 DEF SiblingsThere
  <2> QED BY <2>1, <2>2, <2>3 DEF FaithfulInv, RequestFaithful, Requested, NamesKept, FileNamesKept, AnswersFound, FirstLeads, Scanned,
                                  FaithfulReplayAccepted
<1>2. ReplayInv /\ FileKnown /\ PairedInv /\ FaithfulInv /\ [Next]_vars => FaithfulInv'
  BY FaithfulStep
<1>3. FaithfulInv => FaithfulReplayAccepted
  BY DEF FaithfulInv
<1> QED BY <1>1, <1>2, <1>3, FileHolds, PairedHolds, PTL DEF Spec

-----------------------------------------------------------------------------
(* The cache, the leads, the callees and what is sent have their types.    *)
THEOREM TypeCorrect == Spec => []TypeOK
<1>1. ReplayInv => TypeOK
  <2> SUFFICES ASSUME ReplayInv PROVE TypeOK
    OBVIOUS
  <2>1. TurnSound(turn) /\ TurnKnown /\ CacheKnown /\ SiblingsKnown /\ PhaseKnown /\ ScanKnown /\ SentKnown /\ InputKnown
        /\ ContextsKnown
    BY DEF ReplayInv, TurnKnown
  <2>2. Cache!Live \subseteq Names
    BY <2>1 DEF CacheKnown, Cache!IsTable, Cache!Live
  <2>3. DOMAIN aliases \subseteq Names /\ aliases \in [DOMAIN aliases -> Names]
    <3>1. aliases \in [DOMAIN aliases -> Cache!Live] /\ \A a \in DOMAIN aliases : a \in AliasesOf(aliases[a])
      BY <2>1 DEF CacheKnown
    <3>2. \A x \in Cache!Live : AliasesOf(x) \subseteq Names
      BY <2>2, NameShapes DEF AliasesOf
    <3> QED BY <2>2, <3>1, <3>2
  <2>4. Cache!TypeOK
    BY <2>1, <2>3 DEF Cache!TypeOK, CacheKnown, ContextsKnown
  <2>5. DOMAIN siblings \subseteq Names /\ \A n \in DOMAIN siblings : siblings[n] \subseteq Names
    <3> SUFFICES ASSUME NEW n \in DOMAIN siblings PROVE n \in Names /\ siblings[n] \subseteq Names
      OBVIOUS
    <3>1. Len(turn.calls) > 1 /\ n = Head(turn.calls) /\ siblings[n] \subseteq ToSet(Tail(turn.calls))
      BY <2>1 DEF SiblingsKnown
    <3>2. turn.calls \in Seq(TurnCall)
      BY <2>1 DEF TurnSound
    <3>3. Head(turn.calls) \in TurnCall /\ Tail(turn.calls) \in Seq(TurnCall)
      BY <3>1, <3>2
    <3>4. \A s \in Seq(TurnCall) : ToSet(s) \subseteq TurnCall
      BY DEF ToSet
    <3>5. siblings[n] \subseteq TurnCall
      BY <3>1, <3>3, <3>4
    <3> QED BY <3>1, <3>3, <3>5, NameShapes
  <2>6. \A i \in DOMAIN leads : leads[i] \in Names \cup {NoName, Injected}
    <3>1. CASE leads = <<>>
      BY <3>1
    <3>2. CASE leads \in [CallItems -> CallsOf(turn.parts) \cup {NoName}]
      <4>1. CallsOf(turn.parts) \subseteq Names
        BY <2>1, TurnCallsKnown, NameShapes
      <4> QED BY <3>2, <4>1
    <3> QED BY <2>1, <3>1, <3>2 DEF PhaseKnown, ScanKnown
  <2>7. RequestNames \subseteq Names \cup {Injected} \cup {<<"upstream", 0, id>> : id \in UpstreamIds \ {NoId}}
    BY NameShapes DEF RequestNames, UpstreamNames
  <2>8. \A i \in DOMAIN callees : callees[i] \in Names \cup {Injected} \cup {Outbound(id, NoName) : id \in UpstreamIds}
    <3>1. CASE callees = <<>>
      BY <3>1
    <3>2. CASE callees \in [OutputItems -> RequestNames]
      BY <2>7, <3>2 DEF Outbound
    <3> QED BY <2>1, <3>1, <3>2 DEF PhaseKnown, ScanKnown
  <2>9. \A k \in DOMAIN sent :
          /\ sent[k].item \in DOMAIN input
          /\ sent[k].type # "message" =>
               sent[k].id \in Names \cup {Injected} \cup {<<"upstream", 0, id>> : id \in UpstreamIds}
          /\ sent[k].sig \in Sigs \cup {Marker, NoSig}
    <3> SUFFICES ASSUME NEW k \in DOMAIN sent
                 PROVE  /\ sent[k].item \in DOMAIN input
                        /\ sent[k].type # "message" =>
                             sent[k].id \in Names \cup {Injected} \cup {<<"upstream", 0, id>> : id \in UpstreamIds}
                        /\ sent[k].sig \in Sigs \cup {Marker, NoSig}
      OBVIOUS
    <3>1. sent[k] \in SentPart /\ sent[k].item \in DOMAIN input /\ (sent[k].type # "message" => sent[k].id # NoName)
      BY <2>1 DEF SentKnown
    <3>2. sent[k].id \in RequestNames \cup {NoName} /\ sent[k].sig \in Sigs \cup {NoSig, Marker}
      BY <3>1 DEF SentPart
    <3> QED BY <2>7, <3>1, <3>2
  <2>10. phase \in {"idle", "storing", "answered", "scanning", "translating", "sent", "rejected"}
         /\ others \in 0..MaxOthers /\ deviations \subseteq Deviations
    BY <2>1 DEF PhaseKnown, CacheKnown, InputKnown
  <2> QED BY <2>4, <2>5, <2>6, <2>8, <2>9, <2>10 DEF TypeOK
<1> QED BY <1>1, InvHolds, PTL
=============================================================================
