----------------------------- MODULE ChatReplay -----------------------------
(***************************************************************************)
(* A chat turn comes back: an assistant message with the results of its    *)
(* calls, in which the translation (ConvertChatToPrediction, translate.go) *)
(* has to find the signatures again, or reject the request.  What a client *)
(* keeps of the signatures differs: those of the calls and of the text,    *)
(* the reasoning details, the id of the message.  The cache is read once   *)
(* per item, so that other conversations may evict records in the middle.  *)
(***************************************************************************)
EXTENDS Chat

CONSTANTS
  Deviations,    \* what a client may do to the message
  MaxDeviations

VARIABLES
  keeps,      \* what the client keeps besides text and calls
  deviations, \* how its message differs otherwise
  input,      \* the items of its request: text, calls, results
  matched,    \* hasMatchingOutputChat
  sent        \* the translated items

requestVars == <<keeps, deviations, input, matched, sent>>
vars == <<cacheVars, phase, turnVars, requestVars>>

P == INSTANCE Provenance

Injected == <<"injected", 0, NoId>>
Altered == <<0>>

Init ==
  /\ ChatInit
  /\ keeps = {} /\ deviations = {} /\ input = <<>> /\ matched = {} /\ sent = <<>>

-----------------------------------------------------------------------------
(* The client's message.  Arguments put together from more than one chunk  *)
(* are no JSON any more and parse to none.                                 *)
Item(type, call, body, sig) == [type |-> type, call |-> call, body |-> body, sig |-> sig, foreign |-> FALSE]

Does(d) == d \in deviations'
Keeps(what, sig) == IF what \in keeps' THEN sig ELSE NoSig

Arguments(c) == IF Len(c.chunks) = 1 THEN Head(c.chunks) ELSE <<>>

ClientCall(i) ==
  LET c == told.calls[i]
      altered == \/ i = 1 /\ Does("first altered")
                 \/ i = Len(told.calls) /\ Does("last altered")
  IN Item("call", c.call, IF altered THEN Altered ELSE Arguments(c), Keeps("signatures", c.sig))

InjectedItem == [Item("call", Injected, Altered, NoSig) EXCEPT !.foreign = Does("foreign")]

ClientCalls ==
  LET own == [i \in DOMAIN told.calls |-> ClientCall(i)]
      extra == IF own = <<>> THEN <<>>
               ELSE (IF {"injected", "foreign"} \cap deviations' # {} THEN <<InjectedItem>> ELSE <<>>)
                      \o (IF Does("repeated") THEN <<Head(own)>> ELSE <<>>)
  IN own \o extra

ClientText ==
  IF told.text = <<>> THEN <<>>
  ELSE <<Item("text", Completion, IF Does("text altered") THEN Altered ELSE told.text,
              Keeps("signatures", told.sig))>>

(* An id of the upstream stays, any other call goes by the bridge's.  The  *)
(* faulty variant does without the guard.                                  *)
OutboundUnguarded(id, name) == <<"upstream", 0, id>>

Outbound(id, name) == IF id = NoId THEN name ELSE <<"upstream", 0, id>>

ClientResults(calls) ==
  LET answered == IF Does("last unanswered") /\ calls # <<>> THEN Front(calls) ELSE calls
      Name(call) == IF Does("result by upstream id") THEN Outbound(UpstreamID(call), call) ELSE call
  IN [i \in DOMAIN answered |-> Item("output", Name(answered[i].call), <<>>, NoSig)]

Replay ==
  /\ phase = "answered"
  /\ keeps' \in SUBSET {"signatures", "details", "id"}
  /\ deviations' \in {d \in SUBSET Deviations : Cardinality(d) <= MaxDeviations}
  /\ input' = ClientText \o ClientCalls \o ClientResults(ClientCalls)
  /\ phase' = "scanning"
  /\ UNCHANGED <<cacheVars, turnVars, matched, sent>>

-----------------------------------------------------------------------------
CallItems == {i \in DOMAIN input : input[i].type = "call"}
OutputItems == {i \in DOMAIN input : input[i].type = "output"}

(* callAlias and callAliasChat: a call is named by its id and, as long as  *)
(* its record is there, by the id of the upstream.                         *)
NamesOf(call) == {call} \cup {Outbound(UpstreamID(x), x) : x \in Cache!Found(call)}

Callee(name) ==
  LET named == {i \in CallItems : name \in NamesOf(input[i].call)}
  IN IF named # {} THEN input[Max(named)].call
     ELSE IF Cache!Found(name) # {} THEN CHOOSE x \in Cache!Found(name) : TRUE
     ELSE name

(* validateChatToolExchange: no call twice, every result after its call    *)
(* and once.                                                               *)
ValidExchange ==
  /\ \A i, j \in CallItems : i < j => input[i].call # input[j].call
  /\ \A i \in OutputItems :
       /\ \E j \in CallItems : j < i /\ input[j].call = Callee(input[i].call)
       /\ \A j \in OutputItems : j < i => Callee(input[j].call) # Callee(input[i].call)

Scan ==
  /\ phase = "scanning"
  /\ phase' = IF ValidExchange THEN "translating" ELSE "rejected"
  /\ matched' = {Callee(input[i].call) : i \in OutputItems} \cup {input[i].call : i \in OutputItems}
  /\ UNCHANGED <<cacheVars, turnVars, keeps, deviations, input, sent>>

-----------------------------------------------------------------------------
(* extractReasoningDetailsSignature: of the message's id, else the data.   *)
(* The details come with the end of the message.                           *)
DetailsSig ==
  IF "details" \notin keeps \/ ~told.ended \/ told.sig = NoSig THEN NoSig
  ELSE IF Completion \in DOMAIN msgs.val THEN msgs.val[Completion]
  ELSE told.sig

CacheSig(call) ==
  IF Cache!Found(call) = {} THEN NoSig ELSE records.val[CHOOSE x \in Cache!Found(call) : TRUE].sig

(* Faulty variant: the cache is only asked for signatures.                 *)
CacheDisagreesNever(it) == FALSE

CacheDisagrees(it) == \E x \in Cache!Found(it.call) : records.val[x].call # it.body

CarrierSig(it) ==
  IF it.sig = NoSig /\ Cardinality(CallItems) = 1 THEN DetailsSig ELSE it.sig

(* The other calls of the message that have a signature.                   *)
OtherSig(it) == IF it.sig # NoSig THEN it.sig ELSE CacheSig(it.call)

(* Faulty variant: whoever stands next to a signed call is taken on trust. *)
SignedOthersNever(it) == {}

SignedOthers(it) == {j \in CallItems : input[j].call # it.call /\ OtherSig(input[j]) # NoSig}

(* A call nobody has a signature of inherits the one of a sibling, and is  *)
(* unverified when it stands next to signed calls without being one.       *)
Evidence(it) ==
  LET orphan == ~CacheDisagrees(it) /\ CarrierSig(it) = NoSig /\ CacheSig(it.call) = NoSig
      signed == IF orphan THEN SignedOthers(it) ELSE {}
      kin == {j \in signed : IsVerifiedSibling(input[j].call, it.call)}
      lead == IF kin = {} THEN it ELSE input[Min(kin)]
  IN [hasCarrier |-> CarrierSig(it) # NoSig,
      carrierSig |-> CarrierSig(it),
      carrierMismatch |-> FALSE,
      hasCache |-> Cache!Found(it.call) # {},
      cacheSig |-> CacheSig(it.call),
      cacheMismatch |-> CacheDisagrees(it),
      recordedSib |-> kin # {},
      leadSig |-> IF CacheSig(lead.call) # NoSig THEN CacheSig(lead.call) ELSE OtherSig(lead),
      hasOutput |-> it.call \in matched,
      foreign |-> it.foreign,
      unverified |-> signed # {} /\ kin = {} /\ ~it.foreign]

(* The id of a call and of its result: the upstream's, by the cache.       *)
OutboundId(name) ==
  IF Cache!Found(name) = {} THEN name
  ELSE Outbound(UpstreamID(CHOOSE x \in Cache!Found(name) : TRUE), name)

(* The signature of the text: the client's, that of the details, of the    *)
(* message's id, of the context.                                           *)
TextSig(it) ==
  IF it.sig # NoSig THEN it.sig
  ELSE IF DetailsSig # NoSig THEN DetailsSig
  ELSE IF "id" \in keeps /\ Completion \in DOMAIN msgs.val THEN msgs.val[Completion]
  ELSE Cache!ContextSignature(ContextKey(it.body))

Sent(type, i, id, sig) == [type |-> type, item |-> i, id |-> id, sig |-> sig]

NextItem == Len(sent) + 1

TranslateText ==
  /\ phase = "translating"
  /\ NextItem \in DOMAIN input /\ input[NextItem].type = "text"
  /\ sent' = Append(sent, Sent("text", NextItem, Completion, TextSig(input[NextItem])))
  /\ UNCHANGED <<cacheVars, turnVars, phase, keeps, deviations, input, matched>>

TranslateCall ==
  /\ phase = "translating"
  /\ NextItem \in CallItems
  /\ LET it == input[NextItem]
         sig == P!ResolveToolSignature(Evidence(it))
     IN IF sig = NoSig
        THEN phase' = "rejected" /\ UNCHANGED sent
        ELSE /\ sent' = Append(sent, Sent("call", NextItem, OutboundId(it.call), sig))
             /\ UNCHANGED phase
  /\ UNCHANGED <<cacheVars, turnVars, keeps, deviations, input, matched>>

TranslateOutput ==
  /\ phase = "translating"
  /\ NextItem \in OutputItems
  /\ sent' = Append(sent, Sent("response", NextItem, OutboundId(input[NextItem].call), NoSig))
  /\ UNCHANGED <<cacheVars, turnVars, phase, keeps, deviations, input, matched>>

Send ==
  /\ phase = "translating"
  /\ NextItem \notin DOMAIN input
  /\ phase' = "sent"
  /\ UNCHANGED <<cacheVars, turnVars, requestVars>>

-----------------------------------------------------------------------------
Others ==
  /\ phase \in {"reading", "closing", "answered", "scanning", "translating"}
  /\ OtherPut
  /\ UNCHANGED <<phase, turnVars, requestVars>>

(* Until the client comes back, saves may come between any two puts; what  *)
(* is saved later is read by no restart of this behaviour.                 *)
SaveStep ==
  /\ phase \in {"reading", "closing", "answered"}
  /\ Save
  /\ UNCHANGED <<phase, turnVars, requestVars>>

Restart ==
  /\ phase = "answered"
  /\ RestartSaved
  /\ UNCHANGED <<phase, turnVars, requestVars>>

Next ==
  \/ ChatNext /\ UNCHANGED requestVars
  \/ Replay \/ Scan \/ TranslateText \/ TranslateCall \/ TranslateOutput \/ Send
  \/ Others \/ SaveStep \/ Restart

Spec == Init /\ [][Next]_vars

-----------------------------------------------------------------------------
Replaying == {"answered", "scanning", "translating", "sent", "rejected"}

SentCalls == {k \in DOMAIN sent : sent[k].type = "call"}
ItemSent(k) == input[sent[k].item]

TypeOK ==
  /\ Cache!TypeOK
  /\ phase \in {"idle", "reading", "closing", "refused"} \cup Replaying
  /\ ToSet(ids) \subseteq Names
  /\ told.sig \in Sigs \cup {NoSig}
  /\ \A k \in DOMAIN sent :
       /\ sent[k].item = k
       /\ sent[k].id \in Names \cup {Injected} \cup {<<"upstream", 0, id>> : id \in UpstreamIds}
       /\ sent[k].sig \in Sigs \cup {Marker, NoSig}

(* The answer as a whole, whatever it was cut into: its words, and its     *)
(* last signature outside of calls.                                        *)
Words == AllWords(answer)

TextSigs ==
  {i \in DOMAIN answer :
     answer[i].kind # "call" /\ answer[i].sig # NoSig /\ (answer[i].kind = "text" \/ mode = "stream")}

LastSig == IF TextSigs = {} THEN NoSig ELSE answer[Max(TextSigs)].sig

(* A signature of a text is only stored when the answer is complete, and   *)
(* then it is the last one of the answer, under the context of all its     *)
(* words; calls are only made siblings when all of the answer's calls were *)
(* handled; and the client of a complete answer was told the same text and *)
(* signature (chat.go:285-335).                                            *)
StoredTextIsWhole ==
  /\ DOMAIN msgs.val \cup DOMAIN contexts.val # {} => ~broken
  /\ DOMAIN siblings # {} => rest = <<>>
  /\ \A m \in DOMAIN msgs.val : msgs.val[m] = LastSig
  /\ \A c \in DOMAIN contexts.val : c = ContextKey(Words) /\ contexts.val[c] = LastSig
  /\ phase \in Replaying /\ ~broken => told.text = Words /\ told.sig = LastSig

(* The answers the upstream means by its calls: named once, all signed or  *)
(* led by a signed one.                                                    *)
CallParts == {i \in DOMAIN answer : answer[i].kind = "call"}

NamedOnce == \A i, j \in DOMAIN ids : i < j => ids[i] # ids[j]

SignedTurn ==
  \/ \A i \in CallParts : answer[i].sig # NoSig
  \/ \E i \in CallParts : answer[i].sig # NoSig /\ \A j \in CallParts : i <= j

(* The client altered nothing and the cache still has every call.          *)
Faithful == ~broken /\ deviations = {} /\ ToSet(ids) \subseteq Cache!Live

(* A single call whose signature the client dropped is compared with the   *)
(* signature of the text, when it keeps the reasoning details.             *)
DetailsMislead ==
  /\ "details" \in keeps /\ "signatures" \notin keeps
  /\ Cardinality(CallItems) = 1 /\ told.sig \notin {NoSig, told.calls[1].sig}

(* No call needs the siblings to find a signature.                         *)
AllSigned == \A i \in CallParts : answer[i].sig # NoSig

(* A client that sends a complete, signed turn back unaltered is never     *)
(* rejected as long as the cache has its calls, whatever of signatures,    *)
(* details and ids it keeps, whatever is evicted meanwhile and however old *)
(* the file is that the daemon restarted from; except when the details     *)
(* mislead, and when the file had the calls but not yet their siblings and *)
(* not every call is signed itself.                                        *)
FaithfulChatAccepted ==
  phase = "rejected" =>
    ~(Faithful /\ NamedOnce /\ SignedTurn /\ ~DetailsMislead /\ (torn => AllSigned))

(* The same without the first exception, as agy-bridge-go/README.md:41 has *)
(* it: a matching native record with sufficient state is replayed.         *)
MatchingRecordReplayed ==
  phase = "rejected" => ~(Faithful /\ NamedOnce /\ SignedTurn /\ (torn => AllSigned))

(* A call the cache knows is sent with the arguments and the signature it  *)
(* was stored with, and never with the marker; those stored without a      *)
(* signature get a real one.                                               *)
KnownSentAsKnown ==
  \A k \in SentCalls : \A x \in Cache!Found(ItemSent(k).call) :
    /\ ItemSent(k).body = records.val[x].call
    /\ sent[k].sig # Marker
    /\ records.val[x].sig # NoSig => sent[k].sig = records.val[x].sig

(* A call a client puts into a native turn never passes for native: it is  *)
(* sent with the marker, and, unless it is declared foreign, only when no  *)
(* other call of the message has a signature the bridge can still find.    *)
InjectedNeverBorrows ==
  \A k \in SentCalls : ItemSent(k).call = Injected =>
    /\ sent[k].sig = Marker
    /\ ItemSent(k).foreign \/ \A j \in CallItems : input[j].call # Injected => OtherSig(input[j]) = NoSig

-----------------------------------------------------------------------------
(* The strengthening that makes the properties above inductive.  The cache *)
(* only has calls of this turn and of others, each reachable under its own *)
(* id and no other, since a chat client names no items.                    *)
TurnCall == {CallItem(n, id) : n \in 0..MaxIndex, id \in UpstreamIds \cup {NoId}}
Foreigners == {OtherCall(n) : n \in 1..MaxOthers}

CacheKnown ==
  /\ Cache!IsTable(records, Names, Cache!Record) /\ ToSet(records.order) \subseteq Cache!Live
  /\ aliases = [x \in Cache!Live |-> x]
  /\ Cache!Live \subseteq ToSet(ids) \cup Foreigners
  /\ Cache!IsTable(msgs, Names, Sigs) /\ ToSet(msgs.order) \subseteq DOMAIN msgs.val
  /\ DOMAIN siblings \subseteq Names /\ \A n \in DOMAIN siblings : siblings[n] \subseteq Names
  /\ others \in 0..MaxOthers

ContextsKnown ==
  /\ Cache!IsTable(contexts, Contexts, Sigs \cup {NoSig})
  /\ ToSet(contexts.order) \subseteq DOMAIN contexts.val
  /\ ambiguous \subseteq Names \cup Contexts
  /\ claims \in [Names -> SUBSET Names] /\ ignored \in [Names -> SUBSET Names]
  /\ since \in [Contexts -> SUBSET Sigs]

TextHasContext == phase = "closing" => ContextKey(told.text) \in Contexts

(* What was read of the answer, and what is left to read.                  *)
Handled == Len(answer) - Len(rest)

TurnKnown ==
  /\ answer \in Seq(AnswerPart) /\ Len(answer) <= MaxIndex + 1
  /\ \A i \in CallParts : answer[i].body \in Contents \cup {<<>>}
  /\ rest \in Seq(AnswerPart) /\ Len(rest) <= Len(answer)
  /\ \A i \in DOMAIN rest : rest[i] = answer[Handled + i]
  /\ ids \in Seq(TurnCall) /\ Len(ids) <= Handled

(* The signature of the text is only stored once it is final.              *)
ToldKnown ==
  /\ told \in [calls : Seq([call : TurnCall, chunks : Seq(Seq(Nat)), sig : Sigs \cup {NoSig}]),
                text : Seq(Nat), sig : Sigs \cup {NoSig}, ended : BOOLEAN]
  /\ \A m \in DOMAIN msgs.val : told.ended /\ msgs.val[m] = told.sig

ClosingPuts ==
  (IF Len(ids) > 1 THEN {SiblingsPut(Head(ids), ToSet(Tail(ids)))} ELSE {})
    \cup (IF told.sig # NoSig
          THEN {ContextPut(ContextKey(told.text), told.sig), MessagePut(Completion, told.sig)}
          ELSE {})

PhaseKnown ==
  /\ phase \in {"idle", "reading", "closing", "refused"} \cup Replaying
  /\ phase = "idle" => ids = <<>> /\ told.calls = <<>>
  /\ phase \in {"idle", "reading"} => ~told.ended /\ ~broken
  /\ phase = "closing" => told.ended /\ ~broken
  /\ phase # "closing" => todo = <<>>
  /\ todo \in Seq(ClosingPuts)
  /\ phase \notin {"scanning", "translating", "sent", "rejected"} => input = <<>>
  /\ phase \notin {"translating", "sent", "rejected"} => sent = <<>>

(* An answer that names no call twice: the client and the cache are told   *)
(* the calls alike, and both learn of the signatures that are needed.      *)
CallTold(i) ==
  /\ told.calls[i].call = ids[i]
  /\ Len(told.calls[i].chunks) = 1
  /\ \E j \in CallParts : j <= Handled /\ told.calls[i].sig = answer[j].sig
  /\ ids[i] \in Cache!Live =>
       records.val[ids[i]] = [call |-> Head(told.calls[i].chunks), sig |-> told.calls[i].sig, legacy |-> FALSE]

FirstTold ==
  \A i \in CallParts : i <= Handled /\ (\A j \in CallParts : i <= j) =>
    Len(told.calls) > 0 /\ told.calls[1].sig = answer[i].sig

CallsTold ==
  NamedOnce =>
    /\ Len(told.calls) = Len(ids)
    /\ \A i \in DOMAIN ids : CallTold(i)
    /\ FirstTold

(* A turn that came to its end made its calls siblings.                    *)
SiblingsStored ==
  Len(ids) > 1 =>
    Head(ids) \in DOMAIN siblings /\ ToSet(Tail(ids)) \ {Head(ids)} \subseteq siblings[Head(ids)]

SiblingsKnown ==
  /\ phase = "closing" =>
       SiblingsStored \/ (todo # <<>> /\ Head(todo) = SiblingsPut(Head(ids), ToSet(Tail(ids))))
  /\ phase \in Replaying /\ ~broken => SiblingsStored \/ torn

(* The items of the request, and those of a client that alters nothing.    *)
ItemNames == TurnCall \cup {Injected, Completion} \cup {<<"upstream", 0, id>> : id \in UpstreamIds}

RequestItem ==
  [type : {"text", "call", "output"}, call : ItemNames, body : Seq(Nat),
   sig : Sigs \cup {NoSig}, foreign : BOOLEAN]

InputKnown ==
  /\ input \in Seq(RequestItem)
  /\ \A i \in DOMAIN input : input[i].type = "text" => input[i].call = Completion
  /\ \A i \in CallItems : input[i].call \in TurnCall \cup {Injected}
  /\ \A i \in CallItems : input[i].call = Injected =>
       input[i].sig = NoSig /\ \E j \in CallItems : input[j].call # Injected

TextItems == IF told.text = <<>> THEN 0 ELSE 1

UnalteredInput ==
  LET n == Len(told.calls)
  IN /\ Len(input) = TextItems + n + n
     /\ \A i \in 1..TextItems : input[i].type = "text"
     /\ \A i \in 1..n :
          /\ input[TextItems + i] =
               Item("call", told.calls[i].call, Arguments(told.calls[i]),
                    IF "signatures" \in keeps THEN told.calls[i].sig ELSE NoSig)
          /\ input[TextItems + n + i] = Item("output", told.calls[i].call, <<>>, NoSig)

RequestKnown ==
  phase \in {"scanning", "translating", "sent", "rejected"} /\ deviations = {} => UnalteredInput

MatchedKnown ==
  phase \in {"translating", "sent", "rejected"} => \A i \in OutputItems : input[i].call \in matched

SentKnown ==
  /\ sent \in Seq(ToSet(sent)) /\ Len(sent) <= Len(input)
  /\ \A k \in DOMAIN sent :
       /\ sent[k].item = k
       /\ sent[k].type = "call" => input[k].type = "call"
       /\ sent[k].id \in Names \cup {Injected} \cup {<<"upstream", 0, id>> : id \in UpstreamIds}

ChatInv ==
  /\ CacheKnown /\ TurnKnown /\ ToldKnown /\ PhaseKnown
  /\ CallsTold /\ SiblingsKnown
  /\ InputKnown /\ RequestKnown /\ MatchedKnown /\ SentKnown

(* The text told so far is that of the parts read so far, with their last  *)
(* signature; a context is only stored once that is all of the answer, and *)
(* nothing is when the stream breaks.                                      *)
WordsUpTo(n) == FlattenSeq([i \in 1..n |-> IF answer[i].kind = "text" THEN answer[i].body ELSE <<>>])

SigUpTo(n) ==
  LET signed == {i \in TextSigs : i <= n} IN IF signed = {} THEN NoSig ELSE answer[Max(signed)].sig

NothingStored == DOMAIN msgs.val = {} /\ DOMAIN contexts.val = {}

ContextStored ==
  /\ Cache!IsTable(contexts, {ContextKey(told.text)}, {told.sig})
  /\ ToSet(contexts.order) \subseteq DOMAIN contexts.val
  /\ DOMAIN contexts.val # {} => told.ended

TextKnown ==
  /\ phase # "idle" => answer \in Answers
  /\ ~broken => told.text = WordsUpTo(Handled) /\ told.sig = SigUpTo(Handled)
  /\ broken => NothingStored
  /\ told.ended \/ (phase \in Replaying /\ ~broken) \/ DOMAIN siblings # {} => rest = <<>>
  /\ phase = "idle" => told.text = <<>> /\ told.sig = NoSig
  /\ phase \in {"idle", "reading"} => DOMAIN siblings = {}
  /\ phase = "closing" =>
       \/ NothingStored /\ todo \in {SiblingPuts \o TextPuts, TextPuts}
       \/ Len(todo) < Len(TextPuts)
  /\ ContextStored
=============================================================================
