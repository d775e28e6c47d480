-------------------------- MODULE ResponsesReplay --------------------------
(***************************************************************************)
(* A turn comes back: /v1/responses stored it in the cache and gave it to  *)
(* the client (PopulateCache, turn_record.go), the client sends it again   *)
(* as history with the results of its calls, and the translation           *)
(* (ConvertResponsesToPrediction, translate.go) has to find the signature  *)
(* of every call again or reject the request.  The client may have dropped *)
(* the reasoning item, signatures or item ids, altered a call or added     *)
(* one; in the meantime other conversations evict records and the daemon   *)
(* restarts.  The cache is read once per item, so the evictions may also   *)
(* come in the middle of a translation.                                    *)
(*                                                                         *)
(* Ids of different kinds never coincide (they are hashes); version 0/1    *)
(* records are left to SignatureCache.                                     *)
(***************************************************************************)
EXTENDS HandlerCache

CONSTANTS
  Answers,       \* upstream answers: sequences of parts
  Deviations,    \* what a client may do to the history
  MaxDeviations

ASSUME AnswersAssumption == \A a \in Answers : IsAnswer(a)

(* The texts of every answer have a context key.                           *)
ASSUME ContextsAssumption ==
  \A a \in Answers : \A p \in ToSet(BuildAuthoritativeTurn(a).parts) :
    p.kind = "text" => <<"prefix", p.body>> \in Contexts

VARIABLES
  phase,      \* "idle", "storing", "answered", "scanning", "translating", ...
  turn,       \* the authoritative turn
  todo,       \* puts still to make for it
  deviations, \* how the client's history differs from the output
  input,      \* the items of its request
  leads,      \* groupInfo: the signed call of the group of each item
  callees,    \* callAlias: the call each result names
  sent        \* the translated parts

vars == <<cacheVars, phase, turn, todo, deviations, input, leads, callees, sent>>
requestVars == <<deviations, input, leads, callees, sent>>

P == INSTANCE Provenance

Prefix == "prefix"
NoName == <<"none", 0, NoId>>
Injected == <<"injected", 0, NoId>>
Altered == <<0>>

-----------------------------------------------------------------------------
(* PopulateCache: what a turn puts, in order.                              *)
PutsOf(p) ==
  LET signed == p.sig # NoSig
  IN IF p.kind = "call"
     THEN <<ToolPut(p.item, p.body, p.sig, {ItemName(p.item), BothNames(p.item)})>>
            \o (IF signed THEN <<MessagePut(p.item, p.sig), MessagePut(ItemName(p.item), p.sig)>>
                ELSE <<>>)
     ELSE IF signed THEN <<MessagePut(p.item, p.sig), ContextPut(<<Prefix, p.body>>, p.sig)>>
     ELSE <<>>

PopulateCache(t) ==
  FlattenSeq([i \in DOMAIN t.parts |-> PutsOf(t.parts[i])])
    \o (IF DOMAIN TurnSiblings(t) = {} THEN <<>>
        ELSE <<SiblingsPut(Head(t.calls), ToSet(Tail(t.calls)))>>)

Init ==
  /\ CacheInit
  /\ phase = "idle" /\ turn = NewAccumulator /\ todo = <<>>
  /\ deviations = {} /\ input = <<>> /\ leads = <<>> /\ callees = <<>> /\ sent = <<>>

Answer ==
  /\ phase = "idle"
  /\ \E parts \in Answers :
       /\ turn' = BuildAuthoritativeTurn(parts)
       /\ todo' = PopulateCache(turn')
  /\ phase' = "storing"
  /\ UNCHANGED <<cacheVars, requestVars>>

(* The response goes out when everything is put.                           *)
StorePut ==
  /\ phase = "storing" /\ todo # <<>>
  /\ Apply(Head(todo))
  /\ todo' = Tail(todo)
  /\ phase' = IF Len(todo) = 1 THEN "answered" ELSE "storing"
  /\ UNCHANGED <<turn, requestVars>>

NothingToStore ==
  /\ phase = "storing" /\ todo = <<>>
  /\ phase' = "answered"
  /\ UNCHANGED <<cacheVars, turn, todo, requestVars>>

-----------------------------------------------------------------------------
(* The client's history.  A reasoning item carries the turn.               *)
Item(type, call, id, body, sig) ==
  [type |-> type, call |-> call, id |-> id, body |-> body, sig |-> sig, foreign |-> FALSE]

Does(d) == d \in deviations'

ClientSig(o) == IF Does("no signatures") THEN NoSig ELSE o.sig
ClientId(name) == IF Does("no item ids") THEN NoName ELSE name
ClientBody(o) ==
  IF \/ o.id[1] = "msg" /\ Does("text altered")
     \/ turn.calls # <<>> /\ o.id = turn.calls[1] /\ Does("first altered")
     \/ turn.calls # <<>> /\ o.id = Last(turn.calls) /\ Does("last altered")
  THEN Altered ELSE o.body

(* The first call with the item id of the last, which goes without.        *)
ClientItem(call) ==
  IF ~Does("ids mixed up") THEN ItemName(call)
  ELSE IF call = turn.calls[1] THEN ItemName(Last(turn.calls))
  ELSE NoName

InjectedItem ==
  [Item("call", Injected, NoName, Altered, NoSig) EXCEPT !.foreign = Does("foreign")]

ClientItems(o) ==
  CASE o.id = Reasoning ->
         IF Does("no reasoning") THEN <<>>
         ELSE <<Item("reasoning", NoName, Reasoning, <<>>, NoSig)>>
    [] o.id[1] = "msg" ->
         <<Item("message", NoName, ClientId(o.id), ClientBody(o), ClientSig(o))>>
    [] o.id[1] = "fc" ->
         <<Item("call", o.id, ClientId(ClientItem(o.id)), ClientBody(o), ClientSig(o))>>
           \o (IF o.id = turn.calls[1] /\ deviations' \cap {"injected", "foreign"} # {}
               THEN <<InjectedItem>> ELSE <<>>)
           \o (IF o.id = turn.calls[1] /\ Does("repeated")
               THEN <<Item("call", o.id, NoName, o.body, NoSig)>> ELSE <<>>)

(* Faulty variant: an empty id of the upstream replaces the client's.      *)
OutboundUnguarded(id, name) == <<"upstream", 0, id>>

(* An id of the upstream stays, any other call goes by the client's.       *)
Outbound(id, name) == IF id = NoId THEN name ELSE <<"upstream", 0, id>>

(* How a result names its call.                                            *)
ResultName(call) ==
  IF call = Injected THEN call
  ELSE IF Does("result by item") THEN ItemName(call)
  ELSE IF Does("result by upstream id") THEN Outbound(UpstreamID(call), call)
  ELSE call

Results(items) ==
  LET calls == Selected(items, {it \in ToSet(items) : it.type = "call"})
      answered == IF Does("last unanswered") /\ calls # <<>> THEN Front(calls) ELSE calls
  IN [i \in DOMAIN answered |->
        Item("output", ResultName(answered[i].call), NoName, <<>>, NoSig)]

Replay ==
  /\ phase = "answered"
  /\ deviations' \in {d \in SUBSET Deviations : Cardinality(d) <= MaxDeviations}
  /\ LET items == FlattenSeq([i \in DOMAIN ToOutputItems(turn) |-> ClientItems(ToOutputItems(turn)[i])])
     IN input' = items \o Results(items)
  /\ phase' = "scanning"
  /\ UNCHANGED <<cacheVars, turn, todo, leads, callees, sent>>

-----------------------------------------------------------------------------
(* What a translation knows of a call: the record the cache has under one  *)
(* of its names, and the part in the reasoning item.  Sets of at most one. *)
CallItems == {i \in DOMAIN input : input[i].type = "call"}
OutputItems == {i \in DOMAIN input : input[i].type = "output"}

FirstFound(name, id) ==
  IF Cache!Found(name) # {} THEN Cache!Found(name)
  ELSE IF id = NoName THEN {}
  ELSE Cache!Found(id)

HasReasoning == \E i \in DOMAIN input : input[i].type = "reasoning"

Carried(name) ==
  IF ~HasReasoning THEN {}
  ELSE {p \in ToSet(turn.parts) : p.kind = "call" /\ name \in {p.item, ItemName(p.item), Outbound(p.id, p.item)}}

FirstCarried(it) ==
  IF Carried(it.call) # {} \/ it.id = NoName THEN Carried(it.call) ELSE Carried(it.id)

(* Faulty variant: the cache is only asked for signatures.                 *)
CacheDisagreesNever(it) == FALSE

CacheDisagrees(it) == \E x \in FirstFound(it.call, it.id) : records.val[x].call # it.body

CarrierDisagrees(it) == \E p \in FirstCarried(it) : p.body # it.body

CacheSig(it) ==
  IF FirstFound(it.call, it.id) = {} THEN NoSig
  ELSE records.val[CHOOSE x \in FirstFound(it.call, it.id) : TRUE].sig

CarrierSig(it) ==
  IF FirstCarried(it) = {} THEN NoSig ELSE (CHOOSE p \in FirstCarried(it) : TRUE).sig

(* checkToolContent: the cache first, then the carrier; then the signature *)
(* the client sent along.                                                  *)
Mismatched(it) ==
  CacheDisagrees(it) \/ (FirstFound(it.call, it.id) = {} /\ CarrierDisagrees(it))

SeemsSigned(it) ==
  /\ ~Mismatched(it)
  /\ \/ it.sig # NoSig
     \/ \E x \in Cache!Found(it.call) \cup Cache!Found(it.id) : records.val[x].sig # NoSig
     \/ FirstFound(it.call, it.id) = {} /\ CarrierSig(it) # NoSig

(* Faulty variant: a reasoning item between two calls parts them.          *)
GroupedAdjacent(i, j) == \A k \in i..j : input[k].type = "call"

(* Two calls are of one group unless something else than reasoning comes   *)
(* in between.                                                             *)
Grouped(i, j) == \A k \in i..j : input[k].type \in {"call", "reasoning"}

Group(i) == {j \in CallItems : Grouped(i, j) /\ Grouped(j, i)}

SignedLead(i) ==
  LET signed == {j \in Group(i) : SeemsSigned(input[j])}
  IN IF signed = {} THEN NoName ELSE input[Min(signed)].call

(* The ids a call item binds: its own two, and those of the record.        *)
Own(i) == {input[i].call} \cup ({input[i].id} \ {NoName})

RecordIds(i) ==
  UNION {{ItemName(x)} \cup (IF UpstreamID(x) = NoId THEN {} ELSE {Outbound(UpstreamID(x), x)}) :
           x \in UNION {Cache!Found(id) : id \in Own(i)}}

(* callAlias: the call that a name leads to, from the ids the calls bind,  *)
(* the reasoning item (for upstream ids only) and the cache, in that order.*)
Callee(name, binds) ==
  LET bound == {i \in CallItems : name \in binds[i]}
      carried == {i \in CallItems : \E p \in Carried(name) :
                    name = Outbound(p.id, p.item) /\ p.item = input[i].call}
      cached == {i \in CallItems : input[i].call \in Cache!Found(name)}
  IN IF bound # {} THEN input[Min(bound)].call
     ELSE IF carried # {} THEN input[Min(carried)].call
     ELSE IF cached # {} THEN input[Min(cached)].call
     ELSE name

BoundIds(i) == Own(i) \cup RecordIds(i)

(* What the translation makes of a name; validation binds more of them.    *)
ResultOf(name) == Callee(name, [i \in CallItems |-> Own(i)])
ValidatedResultOf(name) == Callee(name, [i \in CallItems |-> BoundIds(i)])

(* validateResponsesToolExchange: no call and no result twice, every       *)
(* result after its call, no id bound to two calls.                        *)
ValidExchange ==
  /\ \A i, j \in CallItems : i < j =>
       input[i].call # input[j].call /\ BoundIds(i) \cap Own(j) = {}
  /\ \A i \in OutputItems :
       /\ \E j \in CallItems : j < i /\ input[j].call = ValidatedResultOf(input[i].call)
       /\ \A j \in OutputItems : j < i =>
            ValidatedResultOf(input[j].call) # ValidatedResultOf(input[i].call)

(* The passes over the whole history that come before the translation of   *)
(* its items.                                                              *)
Scan ==
  /\ phase = "scanning"
  /\ phase' = IF ValidExchange THEN "translating" ELSE "rejected"
  /\ leads' = [i \in CallItems |-> SignedLead(i)]
  /\ callees' = [i \in OutputItems |-> ResultOf(input[i].call)]
  /\ UNCHANGED <<cacheVars, turn, todo, deviations, input, sent>>

-----------------------------------------------------------------------------
(* call_id and id must not lead to different records.                      *)
IdentityConflict(it) ==
  /\ it.id # NoName
  /\ \E x \in Cache!Found(it.call), y \in Cache!Found(it.id) : x # y

CarriedSiblings(lead) ==
  IF HasReasoning /\ lead \in DOMAIN TurnSiblings(turn) THEN TurnSiblings(turn)[lead] ELSE {}

RecordedSibling(it, lead) ==
  \/ it.call \in CarriedSiblings(lead)
  \/ IsVerifiedSibling(lead, it.call)
  \/ it.id # NoName /\ IsVerifiedSibling(lead, it.id)

LeadSig(lead) ==
  LET carried == {p \in Carried(lead) : p.sig # NoSig}
  IN IF carried # {} THEN (CHOOSE p \in carried : TRUE).sig
     ELSE IF Cache!Found(lead) = {} THEN NoSig
     ELSE records.val[CHOOSE x \in Cache!Found(lead) : TRUE].sig

(* Faulty variant: whoever stands next to a signed call is taken on trust. *)
UnverifiedNever(it, lead, hasCarrier) == FALSE

(* A call nobody knows in a group that has a signed call.                  *)
Unverified(it, lead, hasCarrier) ==
  ~it.foreign /\ ~hasCarrier /\ CacheSig(it) = NoSig

Evidence(i) ==
  LET it == input[i]
      disagrees == CarrierDisagrees(it) \/ CacheDisagrees(it)
      given == ~disagrees /\ it.sig # NoSig
      hasCarrier == given \/ FirstCarried(it) # {}
      follows == ~disagrees /\ leads[i] \notin {NoName, it.call}
      sibling == follows /\ RecordedSibling(it, leads[i])
  IN [hasCarrier |-> hasCarrier,
      carrierSig |-> IF given THEN it.sig ELSE CarrierSig(it),
      carrierMismatch |-> CarrierDisagrees(it),
      hasCache |-> FirstFound(it.call, it.id) # {},
      cacheSig |-> CacheSig(it),
      cacheMismatch |-> CacheDisagrees(it),
      recordedSib |-> sibling,
      leadSig |-> IF sibling THEN LeadSig(leads[i]) ELSE NoSig,
      hasOutput |-> \E j \in DOMAIN callees : callees[j] = it.call,
      foreign |-> it.foreign,
      unverified |-> follows /\ ~sibling /\ Unverified(it, leads[i], hasCarrier)]

(* Faulty variant: only the cache knows the upstream's id.                 *)
OutboundIdCached(found, carried, name) ==
  IF found # {} THEN UpstreamID(CHOOSE x \in found : TRUE) ELSE NoId

(* The id the upstream gave the call, from the carrier or the cache.       *)
OutboundId(found, carried, name) ==
  LET known == {p.id : p \in carried} \ {NoId}
      cached == {UpstreamID(x) : x \in found} \ {NoId}
  IN IF known # {} THEN CHOOSE id \in known : TRUE
     ELSE IF cached # {} THEN CHOOSE id \in cached : TRUE
     ELSE NoId

Sent(type, item, id, sig) == [type |-> type, item |-> item, id |-> id, sig |-> sig]

TranslateCall(i) ==
  LET it == input[i]
      sig == P!ResolveToolSignature(Evidence(i))
      id == OutboundId(FirstFound(it.call, it.id), FirstCarried(it), it.call)
  IN IF IdentityConflict(it) \/ sig = NoSig
     THEN phase' = "rejected" /\ UNCHANGED sent
     ELSE phase' = phase /\ sent' = Append(sent, Sent("call", i, Outbound(id, it.call), sig))

TranslateOutput(i) ==
  LET name == input[i].call
      canonical == callees[i]
      found == IF Cache!Found(canonical) # {} THEN Cache!Found(canonical) ELSE Cache!Found(name)
      carried == IF Carried(canonical) # {} THEN Carried(canonical) ELSE Carried(name)
      id == OutboundId(found, carried, canonical)
  IN /\ phase' = phase
     /\ sent' = Append(sent, Sent("response", i, Outbound(id, canonical), NoSig))

(* Faulty variant: the carrier vouches for any text under the id.          *)
CarriedTextAny(it) ==
  {p \in ToSet(turn.parts) : HasReasoning /\ p.kind = "text" /\ p.item = it.id /\ p.sig # NoSig}

CarriedText(it) ==
  {p \in ToSet(turn.parts) : /\ HasReasoning /\ p.kind = "text" /\ p.sig # NoSig
                             /\ p.item = it.id /\ p.body = it.body}

(* The signature of a message: the client's, the carrier's, or the one of  *)
(* the context, provided its id is known.  The context is everything       *)
(* before the item, so it can only match for the first item of the turn.   *)
TextSig(it, first) ==
  IF it.sig # NoSig THEN it.sig
  ELSE IF CarriedText(it) # {} THEN (CHOOSE p \in CarriedText(it) : TRUE).sig
  ELSE IF first /\ it.id \in DOMAIN msgs.val THEN Cache!ContextSignature(<<Prefix, it.body>>)
  ELSE NoSig

TranslateMessage(i) ==
  /\ phase' = phase
  /\ sent' = IF input[i].body = <<>> THEN sent
             ELSE Append(sent, Sent("message", i, NoName, TextSig(input[i], i = 1)))

Translated == IF sent = <<>> THEN 0 ELSE sent[Len(sent)].item

(* One item after the other; reasoning items and empty messages are passed *)
(* over.                                                                   *)
NextItem(i) ==
  /\ i > Translated
  /\ input[i].type # "reasoning" /\ (input[i].type = "message" => input[i].body # <<>>)
  /\ \A j \in (Translated + 1)..(i - 1) :
       input[j].type = "reasoning" \/ (input[j].type = "message" /\ input[j].body = <<>>)

Translate ==
  /\ phase = "translating"
  /\ \E i \in DOMAIN input :
       /\ NextItem(i)
       /\ CASE input[i].type = "call" -> TranslateCall(i)
            [] input[i].type = "output" -> TranslateOutput(i)
            [] input[i].type = "message" -> TranslateMessage(i)
  /\ UNCHANGED <<cacheVars, turn, todo, deviations, input, leads, callees>>

Send ==
  /\ phase = "translating"
  /\ ~\E i \in DOMAIN input : NextItem(i)
  /\ phase' = "sent"
  /\ UNCHANGED <<cacheVars, turn, todo, requestVars>>

-----------------------------------------------------------------------------
Others ==
  /\ phase \in {"storing", "answered", "scanning", "translating"}
  /\ OtherPut
  /\ UNCHANGED <<phase, turn, todo, requestVars>>

(* Until the client comes back, saves may come between any two puts; what  *)
(* is saved later is read by no restart of this behaviour.                 *)
SaveStep ==
  /\ phase \in {"storing", "answered"}
  /\ Save
  /\ UNCHANGED <<phase, turn, todo, requestVars>>

Restart ==
  /\ phase = "answered"
  /\ RestartSaved
  /\ UNCHANGED <<phase, turn, todo, requestVars>>

Next ==
  \/ Answer \/ StorePut \/ NothingToStore \/ Replay \/ Scan \/ Translate \/ Send
  \/ Others \/ SaveStep \/ Restart

Spec == Init /\ [][Next]_vars

-----------------------------------------------------------------------------
(* What the properties speak of.                                           *)
TurnCalls == {p \in ToSet(turn.parts) : p.kind = "call"}
OriginalOf(it) == {p \in TurnCalls : p.item = it.call}

(* The bridge knows the call all along: from the client's reasoning item,  *)
(* or because its record is still there (records only go).                 *)
Known(p) == HasReasoning \/ p.item \in Cache!Live

SentCalls == {k \in DOMAIN sent : sent[k].type = "call"}
ItemSent(k) == input[sent[k].item]

TypeOK ==
  /\ Cache!TypeOK
  /\ DOMAIN siblings \subseteq Names /\ \A n \in DOMAIN siblings : siblings[n] \subseteq Names
  /\ phase \in {"idle", "storing", "answered", "scanning", "translating", "sent", "rejected"}
  /\ others \in 0..MaxOthers
  /\ deviations \subseteq Deviations
  /\ \A i \in DOMAIN leads : leads[i] \in Names \cup {NoName, Injected}
  /\ \A i \in DOMAIN callees : callees[i] \in Names \cup {Injected} \cup {Outbound(id, NoName) : id \in UpstreamIds}
  /\ \A k \in DOMAIN sent :
       /\ sent[k].item \in DOMAIN input
       /\ sent[k].type # "message" =>
            sent[k].id \in Names \cup {Injected} \cup {<<"upstream", 0, id>> : id \in UpstreamIds}
       /\ sent[k].sig \in Sigs \cup {Marker, NoSig}

(* The calls of the turn the upstream would take: all signed, or in one    *)
(* run that a signed call leads.                                           *)
SignedTurn ==
  \A i \in DOMAIN turn.parts :
    turn.parts[i].kind = "call" =>
      \/ turn.parts[i].sig # NoSig
      \/ \E j \in 1..(i - 1) :
           /\ turn.parts[j].item = turn.calls[1] /\ turn.parts[j].sig # NoSig
           /\ \A k \in j..i : turn.parts[k].kind = "call"

(* No call needs the siblings to find a signature.                         *)
AllSigned == \A p \in TurnCalls : p.sig # NoSig

(* The client only left out what it may, and somebody remembers.           *)
Faithful ==
  /\ deviations \subseteq {"no reasoning", "no signatures", "no item ids", "result by item"}
  /\ {"no item ids", "result by item"} \subseteq deviations => \A p \in TurnCalls : p.item \in Cache!Live
  /\ \A p \in TurnCalls : Known(p)

(* A client that replays a signed turn and its results, without altering   *)
(* the calls, is never rejected as long as the cache or its own reasoning  *)
(* item knows the turn: dropped items, ids and signatures, a restart from  *)
(* a file of any age and evictions in the middle of the translation do not *)
(* matter.  One thing does: the file is saved between the puts of the      *)
(* calls and of their siblings, the daemon restarts from it, and the       *)
(* client sent no reasoning item.  Then an unsigned call is rejected.      *)
FaithfulReplayAccepted ==
  phase = "rejected" => ~(Faithful /\ SignedTurn /\ (torn => HasReasoning \/ AllSigned))

(* A call the bridge knows is never sent upstream with other arguments     *)
(* than the upstream gave it, and so never under a signature of another    *)
(* content (checkToolContent, ClassifyToolCall).                           *)
AlteredNeverSent ==
  \A k \in SentCalls : \A p \in OriginalOf(ItemSent(k)) : Known(p) => ItemSent(k).body = p.body

(* A call a client puts next to native ones never passes for native: when  *)
(* it is sent it carries the marker, and, unless it is declared foreign,   *)
(* no call of its group that the bridge knows carries a real signature.    *)
(* (A call that is evicted in between may, when the first pass took it for *)
(* altered: so does, with item ids mixed up, one next to the evicted one.) *)
InjectedNeverBorrows ==
  \A k \in SentCalls : ItemSent(k).call = Injected =>
    /\ sent[k].sig = Marker
    /\ ItemSent(k).foreign \/ "ids mixed up" \in deviations \/
       \A l \in SentCalls :
         sent[l].item \in Group(sent[k].item) /\ (\A p \in OriginalOf(ItemSent(l)) : Known(p)) =>
           sent[l].sig = Marker

(* A call the bridge knows is sent with the signature the upstream gave    *)
(* it, an unsigned one with that of the signed call its turn relates it    *)
(* to; the marker is never put in the place of a known signature.          *)
Related(p) == {q \in TurnCalls : p # q /\ turn.calls[1] \in {p.item, q.item}}

OwnSignature ==
  \A k \in SentCalls : \A p \in OriginalOf(ItemSent(k)) : Known(p) =>
    IF p.sig # NoSig THEN sent[k].sig = p.sig
    ELSE sent[k].sig \in {q.sig : q \in Related(p)} \ {NoSig}

(* In an accepted request every call is followed by exactly one response,  *)
(* and every response answers a call, whatever is evicted between the two: *)
(* both go by one of the call's own two names, that of the client and that *)
(* of the upstream, and by the latter as long as the bridge knows this     *)
(* call, although call and response look it up on their own.  (A call that *)
(* comes back under the item id of another one goes by the name of that    *)
(* one when the bridge no longer knows its own upstream id, or it has      *)
(* none.)  When the record is evicted between the two, and there is no     *)
(* reasoning item, one may go by each name: the code sends such a pair.    *)
Misnamed(it) ==
  /\ it.id \notin {NoName, ItemName(it.call)}
  /\ UpstreamID(it.call) = NoId \/ \E p \in OriginalOf(it) : ~Known(p)

OwnNames(it) == {it.call, Outbound(UpstreamID(it.call), it.call)}

SentResponses == {l \in DOMAIN sent : sent[l].type = "response"}
ResponsesTo(k) == {l \in SentResponses : sent[l].id \in OwnNames(ItemSent(k))}

AcceptedIsPaired ==
  phase = "sent" /\ (\A k \in SentCalls : ~Misnamed(ItemSent(k))) =>
    /\ \A k \in SentCalls :
         /\ Cardinality(ResponsesTo(k)) = 1 /\ sent[k].id \in OwnNames(ItemSent(k))
         /\ \A p \in OriginalOf(ItemSent(k)) : Known(p) =>
              \A l \in ResponsesTo(k) \cup {k} : sent[l].id = Outbound(p.id, p.item)
    /\ \A l \in SentResponses : \E k \in SentCalls : k < l /\ l \in ResponsesTo(k)

(* A message whose signature the client does not send itself only gets one *)
(* when its text is the one that signature was given for.                  *)
TextSignatureOwn ==
  \A k \in DOMAIN sent : sent[k].type = "message" /\ sent[k].sig # NoSig =>
    \/ ItemSent(k).sig # NoSig
    \/ \E p \in ToSet(turn.parts) : p.kind = "text" /\ p.body = ItemSent(k).body /\ p.sig = sent[k].sig

-----------------------------------------------------------------------------
(* The strengthening that makes the properties above inductive.  A turn    *)
(* has its texts and calls in the order they were committed, a call is     *)
(* named by the number of parts before it, and the calls are listed.       *)
TurnCall == {CallItem(n, id) : n \in 0..MaxIndex, id \in UpstreamIds \cup {NoId}}
TurnText == {Message(n) : n \in 0..MaxIndex}
Foreigners == {OtherCall(n) : n \in 1..MaxOthers}

CallsOf(parts) == {p.item : p \in {q \in ToSet(parts) : q.kind = "call"}}

KnownPart ==
  [kind : {"text", "call"}, item : TurnCall \cup TurnText, id : UpstreamIds \cup {NoId},
   body : Seq(Nat), sig : Sigs \cup {NoSig}]

PartsSound(parts) ==
  /\ parts \in Seq(KnownPart)
  /\ \A i \in DOMAIN parts :
       IF parts[i].kind = "call"
       THEN parts[i].item = CallItem(i - 1, parts[i].id) /\ parts[i].body \in Contents \cup {<<>>}
       ELSE parts[i].item \in TurnText

TurnSound(t) ==
  /\ PartsSound(t.parts)
  /\ t.calls \in Seq(TurnCall) /\ ToSet(t.calls) = CallsOf(t.parts)
  /\ t.order \in Seq(TurnCall \cup TurnText \cup {Reasoning})

TurnKnown ==
  /\ TurnSound(turn)
  /\ phase # "idle" => \E parts \in Answers : turn = BuildAuthoritativeTurn(parts)

(* The cache has calls of this turn and of others, under their own ids and *)
(* those of their items, as the turn gave them.                            *)
AliasesOf(x) == {x} \cup (IF x \in TurnCall THEN {ItemName(x), BothNames(x)} ELSE {})

CacheKnown ==
  /\ Cache!IsTable(records, Names, Cache!Record) /\ ToSet(records.order) \subseteq Cache!Live
  /\ Cache!Live \subseteq CallsOf(turn.parts) \cup Foreigners
  /\ aliases \in [DOMAIN aliases -> Cache!Live]
  /\ \A x \in Cache!Live : x \in DOMAIN aliases /\ aliases[x] = x
  /\ \A a \in DOMAIN aliases : a \in AliasesOf(aliases[a])
  /\ Cache!IsTable(msgs, Names, Sigs) /\ ToSet(msgs.order) \subseteq DOMAIN msgs.val
  /\ ambiguous \subseteq Names \cup Contexts
  /\ claims \in [Names -> SUBSET Names] /\ ignored \in [Names -> SUBSET Names]
  /\ since \in [Contexts -> SUBSET Sigs]
  /\ others \in 0..MaxOthers

RecordOf(p) == [call |-> p.body, sig |-> p.sig, legacy |-> FALSE]

RecordsKnown == \A p \in TurnCalls : p.item \in Cache!Live => records.val[p.item] = RecordOf(p)

TextsOf(c) == {p \in ToSet(turn.parts) : p.kind = "text" /\ c = <<Prefix, p.body>>}

ContextsKnown ==
  /\ Cache!IsTable(contexts, Contexts, Sigs \cup {NoSig}) /\ ToSet(contexts.order) \subseteq DOMAIN contexts.val
  /\ \A c \in DOMAIN contexts.val :
       contexts.val[c] # NoSig => \E p \in TextsOf(c) : p.sig = contexts.val[c]

SiblingsKnown ==
  \A n \in DOMAIN siblings :
    Len(turn.calls) > 1 /\ n = Head(turn.calls) /\ siblings[n] \subseteq ToSet(Tail(turn.calls))

TurnPuts(t) ==
  LET calls == {p \in ToSet(t.parts) : p.kind = "call"}
      texts == {p \in ToSet(t.parts) : p.kind = "text" /\ p.sig # NoSig}
  IN {ToolPut(p.item, p.body, p.sig, {ItemName(p.item), BothNames(p.item)}) : p \in calls}
       \cup {MessagePut(n, sig) : n \in Names, sig \in Sigs}
       \cup {ContextPut(<<Prefix, p.body>>, p.sig) : p \in texts}
       \cup {SiblingsPut(Head(t.calls), ToSet(Tail(t.calls))) : n \in {Len(t.calls)} \ {0, 1}}

PhaseKnown ==
  /\ phase \in {"idle", "storing", "answered", "scanning", "translating", "sent", "rejected"}
  /\ phase = "idle" => Cache!Live = {} /\ DOMAIN contexts.val = {} /\ DOMAIN siblings = {}
  /\ todo \in Seq(TurnPuts(turn))
  /\ phase # "storing" => todo = <<>>
  /\ phase \in {"idle", "storing", "answered"} => input = <<>> /\ deviations = {}
  /\ phase \in {"idle", "storing", "answered", "scanning"} => leads = <<>> /\ callees = <<>> /\ sent = <<>>

(* What a client may have made of the calls of the turn.                   *)
MixedUp == "ids mixed up" \in deviations

CallKnown(it) ==
  \/ it.call = Injected /\ it.sig = NoSig /\ it.id = NoName
  \/ /\ \E p \in TurnCalls : p.item = it.call /\ it.sig \in {NoSig, p.sig}
     /\ \/ it.id \in {NoName, ItemName(it.call)}
        \/ it.call = Head(turn.calls) /\ it.id = ItemName(Last(turn.calls)) /\ MixedUp

UpstreamNames == {<<"upstream", 0, id>> : id \in UpstreamIds \ {NoId}}
RequestNames == TurnCall \cup {ItemName(x) : x \in TurnCall} \cup UpstreamNames \cup {Injected}

KnownItem ==
  [type : {"reasoning", "message", "call", "output"}, call : RequestNames \cup {NoName},
   id : Names \cup {NoName, Reasoning}, body : Seq(Nat), sig : Sigs \cup {NoSig}, foreign : BOOLEAN]

InputKnown ==
  /\ input \in Seq(KnownItem) /\ deviations \subseteq Deviations
  /\ \A i \in CallItems : CallKnown(input[i])
  /\ \A i \in OutputItems : input[i].call \in RequestNames

(* The passes over the history: no injected call leads, and the group of a *)
(* signed call has a lead.                                                 *)
ScanKnown ==
  phase \in {"translating", "sent", "rejected"} =>
    /\ leads \in [CallItems -> CallsOf(turn.parts) \cup {NoName}]
    /\ callees \in [OutputItems -> RequestNames]
    /\ \A i \in CallItems : \A j \in Group(i) : leads[i] = leads[j]
    /\ \A i \in CallItems : \A p \in OriginalOf(input[i]) :
         ~MixedUp /\ Known(p) /\ p.sig # NoSig /\ p.body = input[i].body => leads[i] # NoName

SentPart ==
  [type : {"call", "response", "message"}, item : Nat, id : RequestNames \cup {NoName},
   sig : Sigs \cup {NoSig, Marker}]

SentKnown ==
  /\ sent \in Seq(SentPart)
  /\ \A k \in DOMAIN sent :
       /\ sent[k].item \in DOMAIN input
       /\ sent[k].type = "call" => sent[k].item \in CallItems
       /\ sent[k].type # "message" => sent[k].id # NoName

(* An injected call that is sent stands in a group without a lead, any     *)
(* other call with a signature in a group with one.                        *)
LeadsKnown ==
  \A k \in SentCalls :
    IF ItemSent(k).call = Injected
    THEN sent[k].sig = Marker /\ (ItemSent(k).foreign \/ leads[sent[k].item] = NoName)
    ELSE ~MixedUp /\ (\A p \in OriginalOf(ItemSent(k)) : Known(p)) => leads[sent[k].item] # NoName

ReplayInv ==
  /\ TurnKnown /\ CacheKnown /\ RecordsKnown /\ ContextsKnown /\ SiblingsKnown
  /\ PhaseKnown /\ InputKnown /\ ScanKnown /\ SentKnown
=============================================================================
