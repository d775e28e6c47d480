-------------------------- MODULE ChatReplayProofs --------------------------
(***************************************************************************)
(* Proofs about chat turns and their replay, for any answers, any capacity *)
(* of the cache and any number of calls other conversations store.         *)
(***************************************************************************)
EXTENDS ChatReplay, TurnRecordProofs, FiniteSetTheorems

-----------------------------------------------------------------------------
(* The cache as chat handlers use it.                                      *)

(* A table that lists no more than it has keeps its type when a value is   *)
(* stored; what stays, stays as it is.                                     *)
LEMMA StoreProperties ==
  ASSUME NEW K, NEW V, NEW t, Cache!IsTable(t, K, V), ToSet(t.order) \subseteq DOMAIN t.val,
         NEW k \in K, NEW v \in V
  PROVE  /\ Cache!IsTable(Cache!Store(t, k, v), K, V)
         /\ ToSet(Cache!Store(t, k, v).order) \subseteq DOMAIN Cache!Store(t, k, v).val
         /\ k \in DOMAIN Cache!Store(t, k, v).val /\ Cache!Store(t, k, v).val[k] = v
         /\ DOMAIN Cache!Store(t, k, v).val \subseteq DOMAIN t.val \cup {k}
         /\ \A j \in DOMAIN Cache!Store(t, k, v).val \ {k} : Cache!Store(t, k, v).val[j] = t.val[j]
<1> DEFINE s == Cache!Store(t, k, v)
<1>1. CASE k \in DOMAIN t.val
  <2>1. s = [t EXCEPT !.val[k] = v]
    BY <1>1 DEF Cache!Store
  <2>2. s.order = t.order /\ s.val = [t.val EXCEPT ![k] = v] /\ s = [val |-> s.val, order |-> s.order]
    BY <2>1 DEF Cache!IsTable
  <2> HIDE DEF s
  <2>3. Cache!IsTable(s, K, V)
    BY <2>2 DEF Cache!IsTable
  <2> QED BY <1>1, <2>2, <2>3 DEF Cache!IsTable, s
<1>2. CASE k \notin DOMAIN t.val
  <2> DEFINE room == Cache!Room(t.order)
             o == Append(room, k)
  <2>1. room \in Seq(K) /\ ToSet(room) \subseteq ToSet(t.order)
    <3>1. CASE Len(t.order) >= MaxSize
      <4>1. Len(t.order) > 0 /\ room = Tail(t.order)
        BY <1>2, <3>1, CacheAssumption DEF Cache!Room, Cache!IsTable
      <4> QED BY <4>1 DEF ToSet, Cache!IsTable
    <3>2. CASE ~ Len(t.order) >= MaxSize
      BY <3>2 DEF Cache!Room, ToSet, Cache!IsTable
    <3> QED BY <3>1, <3>2
  <2>2. s = [val |-> [j \in Cache!Range(o) |-> IF j = k THEN v ELSE t.val[j]], order |-> o]
    BY <1>2 DEF Cache!Store
  <2> HIDE DEF room
  <2>3. o \in Seq(K) /\ Cache!Range(o) = ToSet(room) \cup {k} /\ ToSet(o) = Cache!Range(o)
    <3>1. /\ o \in Seq(K) /\ DOMAIN o = 1..(Len(room) + 1) /\ DOMAIN room = 1..Len(room)
          /\ \A i \in 1..Len(room) : o[i] = room[i]
          /\ o[Len(room) + 1] = k /\ Len(room) \in Nat
      BY <2>1
    <3> HIDE DEF o
    <3> QED BY <3>1 DEF ToSet, Cache!Range
  <2> HIDE DEF o, s
  <2>4. s.order = o /\ DOMAIN s.val = ToSet(room) \cup {k} /\ s = [val |-> s.val, order |-> s.order]
        /\ s.val = [j \in ToSet(room) \cup {k} |-> IF j = k THEN v ELSE t.val[j]]
    BY <2>2, <2>3
  <2>5. ToSet(room) \subseteq DOMAIN t.val
    BY <2>1
  <2>6. s.val \in [DOMAIN s.val -> V] /\ DOMAIN s.val \subseteq K
    BY <2>4, <2>5 DEF Cache!IsTable
  <2>7. Cache!IsTable(s, K, V)
    BY <2>3, <2>4, <2>6 DEF Cache!IsTable
  <2> QED BY <2>3, <2>4, <2>5, <2>7 DEF s
<1> QED BY <1>1, <1>2

(* A chat client's name finds the record of that id, or nothing.           *)
LEMMA FoundIsLive ==
  ASSUME CacheKnown, NEW a
  PROVE  Cache!Found(a) = {a} \cap Cache!Live
BY DEF CacheKnown, Cache!Found, Cache!Live

LEMMA CanonicalIsName ==
  ASSUME CacheKnown, NEW a
  PROVE  Canonical(a) = a
BY DEF CacheKnown, Canonical, Cache!Live

ChatRecord == [call : Contents \cup {<<>>}, sig : Sigs \cup {NoSig}, legacy : {FALSE}]

(* A put of a call that names no aliases.                                  *)
LEMMA PutCall ==
  ASSUME CacheKnown, NEW id \in Names, NEW body \in Contents \cup {<<>>}, NEW sig \in Sigs \cup {NoSig},
         ApplyTool(ToolPut(id, body, sig, {}))
  PROVE  /\ Cache!IsTable(records', Names, Cache!Record) /\ ToSet(records'.order) \subseteq Cache!Live'
         /\ aliases' = [x \in Cache!Live' |-> x]
         /\ Cache!Live' \subseteq Cache!Live \cup {id}
         /\ \A x \in Cache!Live' \ {id} : records'.val[x] = records.val[x]
         /\ id \notin Cache!Live =>
              id \in Cache!Live' /\ records'.val[id] = [call |-> body, sig |-> sig, legacy |-> FALSE]
         /\ UNCHANGED <<contexts, msgs, since>>
         /\ ContextsKnown => ContextsKnown'
<1> DEFINE new == [call |-> body, sig |-> sig, legacy |-> FALSE]
<1>1. new.sig # Marker /\ new.sig = sig /\ new \in Cache!Record
  BY SignaturesAssumption DEF Cache!Record
<1>2. /\ Cache!Accepted(id, new) => Cache!PutToolRecord(id, new, {})
      /\ ~ Cache!Accepted(id, new) => UNCHANGED tables
  BY DEF ApplyTool, ToolPut
<1>3. id \notin Cache!Live => Cache!Accepted(id, new)
  BY <1>1 DEF Cache!Accepted, CacheKnown
<1>4. CASE ~ Cache!Accepted(id, new)
  <2>1. UNCHANGED <<records, aliases, ambiguous, contexts, msgs, claims, ignored, since>>
    BY <1>2, <1>4 DEF tables, histories
  <2> QED BY <1>3, <1>4, <2>1 DEF CacheKnown, ContextsKnown, Cache!Live
<1>5. CASE Cache!Accepted(id, new)
  <2>1. Cache!PutToolRecord(id, new, {})
    BY <1>2, <1>5
  <2> DEFINE merged == Cache!Merged(id, new)
             gone == Cache!Live \ DOMAIN Cache!Store(records, id, merged).val
  <2>2. merged \in Cache!Record /\ (id \notin Cache!Live => merged = new)
    BY <1>1 DEF Cache!Merged, CacheKnown, Cache!IsTable, Cache!Record, Cache!Live
  <2> HIDE DEF new
  <2>3. /\ records' = Cache!Store(records, id, merged)
        /\ aliases' = [a \in Cache!Outliving(gone) \cup {id} |-> IF a = id THEN id ELSE aliases[a]]
        /\ ambiguous' = ambiguous
        /\ claims' = [a \in Names |-> (claims[a] \ gone) \cup (IF a = id THEN {id} ELSE {})]
        /\ ignored' = [a \in Names |-> IF a = id THEN (ignored[a] \ gone) \ {id} ELSE ignored[a] \ gone]
        /\ UNCHANGED <<contexts, msgs, since>>
    BY <2>1 DEF Cache!PutToolRecord
  <2> HIDE DEF merged
  <2>4. /\ Cache!IsTable(records', Names, Cache!Record) /\ ToSet(records'.order) \subseteq DOMAIN records'.val
        /\ id \in DOMAIN records'.val /\ records'.val[id] = merged
        /\ DOMAIN records'.val \subseteq DOMAIN records.val \cup {id}
        /\ \A x \in DOMAIN records'.val \ {id} : records'.val[x] = records.val[x]
    BY <2>2, <2>3, StoreProperties DEF CacheKnown, Cache!Live
  <2>5. gone = Cache!Live \ Cache!Live'
    BY <2>3 DEF Cache!Live
  <2> HIDE DEF gone
  <2>6. Cache!Outliving(gone) \cup {id} = Cache!Live'
    BY <2>4, <2>5 DEF Cache!Outliving, CacheKnown, Cache!Live
  <2>7. aliases' = [x \in Cache!Live' |-> x]
    BY <2>3, <2>5, <2>6 DEF Cache!Outliving, CacheKnown, Cache!Live
  <2>8. ContextsKnown => ContextsKnown'
    BY <2>3 DEF ContextsKnown
  <2> QED BY <2>2, <2>3, <2>4, <2>7, <2>8 DEF Cache!Live, new
<1> QED BY <1>4, <1>5

(* Ids of different kinds never coincide.                                  *)
LEMMA NamesDistinct ==
  /\ TurnCall \subseteq Names /\ Foreigners \subseteq Names /\ Completion \in Names
  /\ TurnCall \cap Foreigners = {}
  /\ Completion \notin TurnCall /\ Injected \notin Names /\ Injected # Completion
  /\ \A id : <<"upstream", 0, id>> \notin Names \cup {Injected}
BY CacheAssumption DEF TurnCall, Foreigners, Completion, Injected, Names, CallItem, OtherCall, Message

(* What other conversations do to the calls of a turn: some may go.        *)
LEMMA OtherPutShrinks ==
  ASSUME CacheKnown, ids \in Seq(TurnCall), OtherPut, UNCHANGED ids
  PROVE  /\ CacheKnown'
         /\ \A x \in Cache!Live' \ Foreigners : x \in Cache!Live /\ records'.val[x] = records.val[x]
         /\ UNCHANGED <<contexts, msgs, since, siblings, disk>>
         /\ ContextsKnown => ContextsKnown'
<1> DEFINE id == OtherCall(others + 1)
           sig == CHOOSE x \in Sigs : TRUE
<1>1. id \in Foreigners /\ id \in Names
  BY NamesDistinct, CacheAssumption DEF OtherPut, CacheKnown, Foreigners
<1>2. <<0>> \in Contents \cup {<<>>} /\ sig \in Sigs \cup {NoSig}
  BY CacheAssumption, SignaturesAssumption DEF Contents
<1>3. ApplyTool(ToolPut(id, <<0>>, sig, {})) /\ UNCHANGED <<siblings, disk>> /\ others' \in 0..MaxOthers
  BY CacheAssumption DEF OtherPut, CacheKnown
<1> HIDE DEF id, sig
<1>4. /\ Cache!IsTable(records', Names, Cache!Record) /\ ToSet(records'.order) \subseteq Cache!Live'
      /\ aliases' = [x \in Cache!Live' |-> x]
      /\ Cache!Live' \subseteq Cache!Live \cup {id}
      /\ \A x \in Cache!Live' \ {id} : records'.val[x] = records.val[x]
      /\ UNCHANGED <<contexts, msgs, since>>
      /\ ContextsKnown => ContextsKnown'
  BY <1>1, <1>2, <1>3, PutCall
<1> QED BY <1>1, <1>3, <1>4 DEF CacheKnown

(* A saved table comes back in any order.                                  *)
LEMMA ShuffledKeeps ==
  ASSUME NEW K, NEW V, NEW t, Cache!IsTable(t, K, V), ToSet(t.order) \subseteq DOMAIN t.val,
         NEW s \in Cache!Shuffled(t)
  PROVE  Cache!IsTable(s, K, V) /\ s.val = t.val /\ ToSet(s.order) \subseteq DOMAIN s.val
<1>1. PICK o \in Cache!Listings(DOMAIN t.val, Len(t.order)) : s = [t EXCEPT !.order = o]
  BY DEF Cache!Shuffled
<1>2. o \in [1..Len(t.order) -> DOMAIN t.val]
  BY <1>1 DEF Cache!Listings, Cache!Bijection, Cache!Injection, Cache!Surjection, Cache!IsInjective
<1>3. s = [val |-> t.val, order |-> o]
  BY <1>1 DEF Cache!IsTable
<1>4. Len(t.order) \in Nat /\ DOMAIN t.val \subseteq K
  BY DEF Cache!IsTable
<1>5. o \in Seq(K) /\ ToSet(o) \subseteq DOMAIN t.val
  BY <1>2, <1>4, SeqDef DEF ToSet
<1> QED BY <1>3, <1>5 DEF Cache!IsTable

(* What is known of a file: it has calls of this turn and of others, each  *)
(* under its own id, and the calls of a turn that names none twice, and    *)
(* the signature of its message, as the turn has them.                     *)
FileCacheKnown(f) ==
  /\ Cache!IsTable(f.records, Names, Cache!Record) /\ ToSet(f.records.order) \subseteq DOMAIN f.records.val
  /\ f.aliases = [x \in DOMAIN f.records.val |-> x]
  /\ DOMAIN f.records.val \subseteq ToSet(ids) \cup Foreigners
  /\ Cache!IsTable(f.msgs, Names, Sigs) /\ ToSet(f.msgs.order) \subseteq DOMAIN f.msgs.val
  /\ DOMAIN f.siblings \subseteq Names /\ \A n \in DOMAIN f.siblings : f.siblings[n] \subseteq Names

ToldRecord(i) == [call |-> Head(told.calls[i].chunks), sig |-> told.calls[i].sig, legacy |-> FALSE]

FileToldKnown(f) ==
  /\ \A m \in DOMAIN f.msgs.val : told.ended /\ f.msgs.val[m] = told.sig
  /\ NamedOnce =>
       \A i \in DOMAIN ids : ids[i] \in DOMAIN f.records.val => f.records.val[ids[i]] = ToldRecord(i)

FileKnown == FileCacheKnown(file) /\ FileToldKnown(file)

FileContextsKnown(f) ==
  /\ Cache!IsTable(f.contexts, Contexts, Sigs \cup {NoSig})
  /\ ToSet(f.contexts.order) \subseteq DOMAIN f.contexts.val
  /\ f.ambiguous \subseteq Names \cup Contexts
  /\ f.claims \in [Names -> SUBSET Names] /\ f.ignored \in [Names -> SUBSET Names]
  /\ f.since \in [Contexts -> SUBSET Sigs]

(* The parts of what is saved.                                             *)
LEMMA MemoryParts ==
  /\ Memory.records = records /\ Memory.aliases = aliases /\ Memory.ambiguous = ambiguous
  /\ Memory.contexts = contexts /\ Memory.msgs = msgs /\ Memory.siblings = siblings
  /\ Memory.claims = claims /\ Memory.ignored = ignored /\ Memory.since = since
BY DEF Memory

LEMMA MemoryKnown ==
  /\ CacheKnown => FileCacheKnown(Memory)
  /\ CallsTold /\ ToldKnown => FileToldKnown(Memory)
  /\ ContextsKnown => FileContextsKnown(Memory)
<1> DEFINE m == Memory
<1>1. /\ m.records = records /\ m.aliases = aliases /\ m.ambiguous = ambiguous
      /\ m.contexts = contexts /\ m.msgs = msgs /\ m.siblings = siblings
      /\ m.claims = claims /\ m.ignored = ignored /\ m.since = since
  BY MemoryParts
<1> HIDE DEF m
<1>2. CacheKnown => FileCacheKnown(m)
  BY <1>1 DEF CacheKnown, FileCacheKnown, Cache!Live
<1>3. CallsTold /\ ToldKnown => FileToldKnown(m)
  BY <1>1 DEF CallsTold, CallTold, ToldKnown, FileToldKnown, ToldRecord, Cache!Live
<1>4. ContextsKnown => FileContextsKnown(m)
  BY <1>1 DEF ContextsKnown, FileContextsKnown
<1> QED BY <1>2, <1>3, <1>4 DEF m

(* After a restart the cache has what was saved.                           *)
LEMMA RestartLoads ==
  ASSUME CacheKnown, FileKnown, RestartSaved, UNCHANGED ids
  PROVE  /\ CacheKnown'
         /\ records'.val = file.records.val /\ msgs'.val = file.msgs.val /\ siblings' = file.siblings
         /\ contexts' \in Cache!Shuffled(file.contexts)
         /\ FileContextsKnown(file) => ContextsKnown'
<1>1. /\ records' \in Cache!Shuffled(file.records) /\ contexts' \in Cache!Shuffled(file.contexts)
      /\ msgs' \in Cache!Shuffled(file.msgs)
      /\ aliases' = file.aliases /\ ambiguous' = file.ambiguous /\ siblings' = file.siblings
      /\ claims' = file.claims /\ ignored' = file.ignored /\ since' = file.since
      /\ UNCHANGED others
  BY DEF RestartSaved
<1>2. FileCacheKnown(file)
  BY DEF FileKnown
<1>3. /\ Cache!IsTable(records', Names, Cache!Record) /\ records'.val = file.records.val
      /\ ToSet(records'.order) \subseteq DOMAIN records'.val
  BY <1>1, <1>2, ShuffledKeeps DEF FileCacheKnown
<1>4. /\ Cache!IsTable(msgs', Names, Sigs) /\ msgs'.val = file.msgs.val
      /\ ToSet(msgs'.order) \subseteq DOMAIN msgs'.val
  BY <1>1, <1>2, ShuffledKeeps DEF FileCacheKnown
<1>5. FileContextsKnown(file) => ContextsKnown'
  <2> HAVE FileContextsKnown(file)
  <2>1. /\ Cache!IsTable(contexts', Contexts, Sigs \cup {NoSig})
        /\ ToSet(contexts'.order) \subseteq DOMAIN contexts'.val
    BY <1>1, ShuffledKeeps DEF FileContextsKnown
  <2> QED BY <1>1, <2>1 DEF ContextsKnown, FileContextsKnown
<1> QED BY <1>1, <1>2, <1>3, <1>4, <1>5 DEF CacheKnown, FileCacheKnown, Cache!Live

-----------------------------------------------------------------------------
(* The inductive invariant.                                                *)

LEMMA InitInv == Init => ChatInv /\ ContextsKnown /\ FileKnown /\ FileContextsKnown(file)
<1> SUFFICES ASSUME Init PROVE ChatInv /\ ContextsKnown /\ FileKnown /\ FileContextsKnown(file)
  OBVIOUS
<1> DEFINE e == Cache!EmptyTable
<1>1. e.val = <<>> /\ e.order = <<>> /\ e = [val |-> e.val, order |-> e.order]
  BY DEF Cache!EmptyTable
<1> HIDE DEF e
<1>2. DOMAIN <<>> = {} /\ ToSet(<<>>) = {} /\ Len(<<>>) = 0 /\ \A S : <<>> \in [{} -> S] /\ <<>> \in Seq(S)
  BY DEF ToSet
<1>3. \A K, V : Cache!IsTable(e, K, V)
  BY <1>1, <1>2 DEF Cache!IsTable
<1>4. /\ records = e /\ aliases = <<>> /\ contexts = e /\ msgs = e /\ siblings = <<>> /\ others = 0
      /\ ambiguous = {} /\ claims = [a \in Names |-> {}]
      /\ ignored = [a \in Names |-> {}] /\ since = [c \in Contexts |-> {}]
      /\ file = Memory
  BY DEF Init, ChatInit, CacheInit, Cache!LoadNothing, e
<1>5. /\ phase = "idle" /\ answer = <<>> /\ rest = <<>> /\ ids = <<>> /\ broken = FALSE /\ todo = <<>>
      /\ told = [calls |-> <<>>, text |-> <<>>, sig |-> NoSig, ended |-> FALSE]
      /\ input = <<>> /\ sent = <<>>
  BY DEF Init, ChatInit
<1>6. CacheKnown /\ ContextsKnown
  BY <1>1, <1>2, <1>3, <1>4, CacheAssumption DEF CacheKnown, ContextsKnown, Cache!Live
<1>7. TurnKnown
  BY <1>2, <1>5, CacheAssumption DEF TurnKnown, CallParts, Handled
<1>8. ToldKnown
  BY <1>1, <1>2, <1>4, <1>5 DEF ToldKnown
<1>9. PhaseKnown
  BY <1>2, <1>5 DEF PhaseKnown
<1>10. CallsTold /\ SiblingsKnown
  BY <1>2, <1>5 DEF CallsTold, FirstTold, SiblingsKnown, CallParts, Replaying
<1>11. InputKnown /\ RequestKnown /\ MatchedKnown /\ SentKnown
  BY <1>2, <1>5 DEF InputKnown, CallItems, RequestKnown, MatchedKnown, SentKnown
<1>12. FileKnown /\ FileContextsKnown(file)
  BY <1>4, <1>6, <1>8, <1>10, MemoryKnown DEF FileKnown
<1> QED BY <1>6, <1>7, <1>8, <1>9, <1>10, <1>11, <1>12 DEF ChatInv

(* What holds of turn and request goes on to hold whichever of the calls   *)
(* of the turn the cache has, as long as it has them as they were told.    *)
LEMMA TurnStays ==
  ASSUME ChatInv, CacheKnown', UNCHANGED <<phase, turnVars, requestVars>>,
         NamedOnce => \A i \in DOMAIN ids : ids[i] \in Cache!Live' => records'.val[ids[i]] = ToldRecord(i),
         \A m \in DOMAIN msgs'.val : told.ended /\ msgs'.val[m] = told.sig,
         \/ UNCHANGED <<siblings, torn>>
         \/ /\ phase = "answered"
            /\ torn' \/ /\ ~torn
                        /\ \A n \in DOMAIN siblings : n \in DOMAIN siblings' /\ siblings[n] \subseteq siblings'[n]
  PROVE  ChatInv'
<1>1. /\ UNCHANGED <<phase, mode, answer, rest, ids, told, broken, todo>>
      /\ UNCHANGED <<keeps, deviations, input, matched, sent>>
  BY DEF turnVars, requestVars
<1>2. TurnKnown' /\ PhaseKnown'
  BY <1>1 DEF ChatInv, TurnKnown, PhaseKnown, CallParts, Handled, ClosingPuts
<1>3. ToldKnown'
  BY <1>1 DEF ChatInv, ToldKnown
<1>5. CallsTold'
  <2> SUFFICES ASSUME NamedOnce PROVE \A i \in DOMAIN ids : CallTold(i)'
    BY <1>1 DEF ChatInv, CallsTold, NamedOnce, FirstTold, CallParts, Handled
  <2> TAKE i \in DOMAIN ids
  <2>1. CallTold(i)
    BY DEF ChatInv, CallsTold
  <2> QED BY <1>1, <2>1 DEF CallTold, ToldRecord, CallParts, Handled
<1>6. SiblingsKnown'
  <2>1. CASE UNCHANGED <<siblings, torn>>
    BY <1>1, <2>1 DEF ChatInv, SiblingsKnown, SiblingsStored, Replaying
  <2>2. CASE phase = "answered" /\ torn'
    BY <1>1, <2>2 DEF SiblingsKnown
  <2>3. CASE /\ phase = "answered" /\ ~torn
             /\ \A n \in DOMAIN siblings : n \in DOMAIN siblings' /\ siblings[n] \subseteq siblings'[n]
    BY <1>1, <2>3 DEF ChatInv, SiblingsKnown, SiblingsStored, Replaying
  <2> QED BY <2>1, <2>2, <2>3
<1>7. InputKnown' /\ RequestKnown' /\ MatchedKnown' /\ SentKnown'
  <2>1. InputKnown' /\ SentKnown'
    BY <1>1 DEF ChatInv, InputKnown, CallItems, SentKnown
  <2>2. RequestKnown'
    BY <1>1 DEF ChatInv, RequestKnown, UnalteredInput, TextItems, Arguments
  <2>3. MatchedKnown'
    BY <1>1 DEF ChatInv, MatchedKnown, OutputItems
  <2> QED BY <2>1, <2>2, <2>3
<1> QED BY <1>2, <1>3, <1>5, <1>6, <1>7 DEF ChatInv

(* So it does when calls of the turn are evicted.                          *)
LEMMA ShrinkInv ==
  ASSUME ChatInv, CacheKnown', UNCHANGED <<phase, turnVars, requestVars>>,
         \A x \in Cache!Live' \ Foreigners : x \in Cache!Live /\ records'.val[x] = records.val[x],
         UNCHANGED <<msgs, siblings, torn>>
  PROVE  ChatInv'
<1>1. ToSet(ids) \subseteq TurnCall
  BY DEF ChatInv, TurnKnown, ToSet
<1>2. ASSUME NamedOnce, NEW i \in DOMAIN ids, ids[i] \in Cache!Live' PROVE records'.val[ids[i]] = ToldRecord(i)
  <2>1. CallTold(i) /\ ids[i] \notin Foreigners
    BY <1>1, <1>2, NamesDistinct DEF ChatInv, CallsTold, ToSet
  <2> QED BY <1>2, <2>1 DEF CallTold, ToldRecord
<1>3. \A m \in DOMAIN msgs'.val : told.ended /\ msgs'.val[m] = told.sig
  BY DEF ChatInv, ToldKnown
<1> QED BY <1>2, <1>3, TurnStays

LEMMA OthersInv == ChatInv /\ Others => ChatInv' /\ (ContextsKnown => ContextsKnown')
<1> SUFFICES ASSUME ChatInv, Others PROVE ChatInv' /\ (ContextsKnown => ContextsKnown')
  OBVIOUS
<1>1. UNCHANGED <<phase, turnVars, requestVars>> /\ UNCHANGED ids /\ OtherPut
  BY DEF Others, turnVars
<1>2. CacheKnown /\ ids \in Seq(TurnCall)
  BY DEF ChatInv, TurnKnown
<1>3. /\ CacheKnown'
      /\ \A x \in Cache!Live' \ Foreigners : x \in Cache!Live /\ records'.val[x] = records.val[x]
      /\ UNCHANGED <<msgs, siblings, disk>>
      /\ ContextsKnown => ContextsKnown'
  BY <1>1, <1>2, OtherPutShrinks
<1>4. UNCHANGED <<msgs, siblings, torn>>
  BY <1>3 DEF disk
<1> QED BY <1>1, <1>3, <1>4, ShrinkInv

LEMMA SaveInv == ChatInv /\ SaveStep => ChatInv' /\ (ContextsKnown => ContextsKnown')
<1> SUFFICES ASSUME ChatInv, SaveStep PROVE ChatInv' /\ (ContextsKnown => ContextsKnown')
  OBVIOUS
<1>1. /\ UNCHANGED <<phase, turnVars, requestVars>> /\ UNCHANGED ids
      /\ UNCHANGED <<records, aliases, ambiguous, contexts, msgs, claims, ignored, since, siblings, others, torn>>
  BY DEF SaveStep, Save, turnVars, tables, histories
<1>2. CacheKnown' /\ (ContextsKnown => ContextsKnown')
  BY <1>1 DEF ChatInv, CacheKnown, ContextsKnown, Cache!Live
<1> QED BY <1>1, <1>2, ShrinkInv DEF Cache!Live

LEMMA RestartInv ==
  ASSUME ChatInv, FileKnown, Restart
  PROVE  ChatInv' /\ (FileContextsKnown(file) => ContextsKnown')
<1>1. UNCHANGED <<phase, turnVars, requestVars>> /\ UNCHANGED ids /\ phase = "answered" /\ RestartSaved
  BY DEF Restart, turnVars
<1>2. CacheKnown
  BY DEF ChatInv
<1>3. /\ CacheKnown'
      /\ records'.val = file.records.val /\ msgs'.val = file.msgs.val /\ siblings' = file.siblings
      /\ FileContextsKnown(file) => ContextsKnown'
  BY <1>1, <1>2, RestartLoads
<1>4. /\ NamedOnce => \A i \in DOMAIN ids : ids[i] \in Cache!Live' => records'.val[ids[i]] = ToldRecord(i)
      /\ \A m \in DOMAIN msgs'.val : told.ended /\ msgs'.val[m] = told.sig
  BY <1>3 DEF FileKnown, FileToldKnown, Cache!Live
<1>5. torn' \/ /\ ~torn
               /\ \A n \in DOMAIN siblings : n \in DOMAIN siblings' /\ siblings[n] \subseteq siblings'[n]
  BY <1>1, <1>3 DEF RestartSaved, SiblingsLost
<1> QED BY <1>1, <1>3, <1>4, <1>5, TurnStays

LEMMA MinOfPositions ==
  ASSUME NEW S, S \subseteq Nat, S # {}
  PROVE  Min(S) \in S /\ \A x \in S : Min(S) <= x
BY LeastElement DEF Min

(* The request and what is known of it do not change before the replay.    *)
LEMMA RequestWaits ==
  ASSUME ChatInv, UNCHANGED requestVars, phase \in {"idle", "reading", "closing"},
         phase' \in {"reading", "closing", "answered", "refused"}
  PROVE  /\ InputKnown' /\ RequestKnown' /\ MatchedKnown' /\ SentKnown'
         /\ input' = <<>> /\ sent' = <<>>
<1>1. UNCHANGED <<keeps, deviations, input, matched, sent>> /\ input = <<>> /\ sent = <<>>
  BY DEF requestVars, ChatInv, PhaseKnown
<1> QED BY <1>1 DEF ChatInv, InputKnown, CallItems, RequestKnown, MatchedKnown, SentKnown

LEMMA AnswerInv == ChatInv /\ Answer /\ UNCHANGED requestVars => ChatInv' /\ (ContextsKnown => ContextsKnown')
<1> SUFFICES ASSUME ChatInv, Answer, UNCHANGED requestVars PROVE ChatInv' /\ (ContextsKnown => ContextsKnown')
  OBVIOUS
<1>1. /\ phase = "idle" /\ phase' = "reading" /\ answer' \in Answers /\ rest' = answer'
      /\ UNCHANGED cacheVars /\ UNCHANGED <<ids, told, broken, todo>>
  BY DEF Answer
<1>2. UNCHANGED <<records, aliases, ambiguous, contexts, msgs, histories, siblings, others, disk>>
  BY <1>1 DEF cacheVars, tables
<1>3. CacheKnown' /\ (ContextsKnown => ContextsKnown')
  BY <1>1, <1>2 DEF ChatInv, CacheKnown, ContextsKnown, Cache!Live, histories
<1>4. ids = <<>> /\ told.calls = <<>> /\ ~told.ended /\ ~broken /\ todo = <<>>
  BY <1>1 DEF ChatInv, PhaseKnown
<1>5. /\ answer' \in Seq(AnswerPart) /\ Len(answer') \in Nat /\ Len(answer') <= MaxIndex + 1
      /\ \A i \in DOMAIN answer' : answer'[i].kind = "call" => answer'[i].body \in Contents \cup {<<>>}
      /\ DOMAIN answer' = 1..Len(answer')
  BY <1>1, AnswersAssumption DEF IsAnswer
<1>6. Handled' = 0
  BY <1>1, <1>5 DEF Handled
<1>7. TurnKnown'
  BY <1>1, <1>4, <1>5, <1>6, CacheAssumption DEF TurnKnown, CallParts
<1>8. ToldKnown'
  BY <1>1, <1>2 DEF ChatInv, ToldKnown
<1>9. RequestKnown' /\ InputKnown' /\ MatchedKnown' /\ SentKnown' /\ input' = <<>> /\ sent' = <<>>
  BY <1>1, RequestWaits
<1>10. PhaseKnown'
  BY <1>1, <1>4, <1>9 DEF PhaseKnown
<1>11. CallsTold'
  BY <1>1, <1>4, <1>5, <1>6 DEF CallsTold, FirstTold, CallParts
<1>12. SiblingsKnown'
  BY <1>1 DEF SiblingsKnown, Replaying
<1> QED BY <1>3, <1>7, <1>8, <1>9, <1>10, <1>11, <1>12 DEF ChatInv

(* One part of the answer is read.                                         *)
LEMMA PartRead ==
  ASSUME ChatInv, rest # <<>>, rest' = Tail(rest), UNCHANGED answer,
         ids' = ids \/ \E c \in TurnCall : ids' = Append(ids, c)
  PROVE  /\ TurnKnown'
         /\ Handled \in Nat /\ Handled' = Handled + 1 /\ Handled + 1 \in DOMAIN answer /\ Handled <= MaxIndex
         /\ Head(rest) = answer[Handled + 1] /\ Head(rest) \in AnswerPart
<1>1. TurnKnown
  BY DEF ChatInv
<1>2. /\ Len(answer) \in Nat /\ Len(rest) \in Nat /\ Len(rest) > 0 /\ DOMAIN answer = 1..Len(answer)
      /\ DOMAIN rest = 1..Len(rest) /\ Len(rest) <= Len(answer) /\ Len(answer) <= MaxIndex + 1
      /\ Head(rest) = rest[1] /\ rest' \in Seq(AnswerPart) /\ Len(rest') = Len(rest) - 1
      /\ DOMAIN rest' = 1..(Len(rest) - 1)
      /\ \A i \in 1..(Len(rest) - 1) : rest'[i] = rest[i + 1]
      /\ rest[1] \in AnswerPart
  BY <1>1 DEF TurnKnown
<1>3. /\ Handled \in Nat /\ Handled' = Handled + 1 /\ Handled + 1 \in DOMAIN answer /\ Handled <= MaxIndex
      /\ Head(rest) = answer[Handled + 1]
  <2>1. Handled = Len(answer) - Len(rest) /\ Handled' = Len(answer) - (Len(rest) - 1) /\ MaxIndex \in Nat
    BY <1>2, CacheAssumption DEF Handled
  <2>2. rest[1] = answer[Handled + 1]
    BY <1>1, <1>2 DEF TurnKnown
  <2> QED BY <1>2, <2>1, <2>2
<1>4. \A i \in DOMAIN rest' : rest'[i] = answer[Handled' + i]
  <2> TAKE i \in DOMAIN rest'
  <2>1. i \in 1..(Len(rest) - 1) /\ i + 1 \in DOMAIN rest
    BY <1>2
  <2>2. rest[i + 1] = answer[Handled + (i + 1)] /\ rest'[i] = rest[i + 1]
    BY <1>1, <1>2, <2>1 DEF TurnKnown
  <2>3. Handled + (i + 1) = Handled' + i
    BY <1>3, <2>1
  <2> QED BY <2>2, <2>3
<1>5. ids' \in Seq(TurnCall) /\ Len(ids') <= Handled'
  <2>1. ids \in Seq(TurnCall) /\ Len(ids) <= Handled /\ Len(ids) \in Nat
    BY <1>1 DEF TurnKnown
  <2>2. CASE ids' = ids
    BY <1>3, <2>1, <2>2
  <2>3. CASE \E c \in TurnCall : ids' = Append(ids, c)
    <3>1. PICK c \in TurnCall : ids' = Append(ids, c)
      BY <2>3
    <3>2. ids' \in Seq(TurnCall) /\ Len(ids') = Len(ids) + 1
      BY <2>1, <3>1
    <3> QED BY <1>3, <2>1, <3>2
  <2> QED BY <2>2, <2>3
<1> QED BY <1>1, <1>2, <1>3, <1>4, <1>5 DEF TurnKnown, CallParts

LEMMA HandleTextInv ==
  ASSUME ChatInv, HandlePart, UNCHANGED requestVars, Head(rest).kind # "call"
  PROVE  ChatInv' /\ (ContextsKnown => ContextsKnown')
<1> DEFINE part == Head(rest)
<1>1. /\ phase = "reading" /\ rest # <<>> /\ rest' = Tail(rest) /\ HandleText(part)
      /\ UNCHANGED <<phase, mode, answer, broken, todo>>
  BY DEF HandlePart
<1>2. /\ UNCHANGED <<records, aliases, ambiguous, contexts, msgs, histories, siblings, others, disk>>
      /\ ids' = ids
      /\ told' = [told EXCEPT !.text = IF part.kind = "text" THEN @ \o part.body ELSE @,
                              !.sig = IF SignatureOfText(part) THEN part.sig ELSE @]
  BY <1>1 DEF HandleText, cacheVars, tables
<1>3. /\ TurnKnown'
      /\ Handled \in Nat /\ Handled' = Handled + 1
      /\ part = answer[Handled + 1] /\ part \in AnswerPart
  BY <1>1, <1>2, PartRead
<1>4. CacheKnown' /\ (ContextsKnown => ContextsKnown')
  BY <1>2 DEF ChatInv, CacheKnown, ContextsKnown, Cache!Live, histories
<1>5. part.body \in Seq(Nat) /\ part.sig \in Sigs \cup {NoSig}
  BY <1>3 DEF AnswerPart
<1> HIDE DEF part
<1>6. /\ told.calls \in Seq([call : TurnCall, chunks : Seq(Seq(Nat)), sig : Sigs \cup {NoSig}])
      /\ told.text \in Seq(Nat) /\ told.sig \in Sigs \cup {NoSig} /\ told.ended \in BOOLEAN
      /\ told = [calls |-> told.calls, text |-> told.text, sig |-> told.sig, ended |-> told.ended]
      /\ ~told.ended /\ DOMAIN msgs.val = {}
  BY <1>1 DEF ChatInv, ToldKnown, PhaseKnown
<1>7. /\ told'.calls = told.calls /\ told'.ended = told.ended
      /\ told'.text \in Seq(Nat) /\ told'.sig \in Sigs \cup {NoSig}
      /\ told' = [calls |-> told'.calls, text |-> told'.text, sig |-> told'.sig, ended |-> told'.ended]
  <2> DEFINE text == IF part.kind = "text" THEN told.text \o part.body ELSE told.text
             sig == IF SignatureOfText(part) THEN part.sig ELSE told.sig
  <2>1. told' = [told EXCEPT !.text = text, !.sig = sig]
    BY <1>2
  <2>2. text \in Seq(Nat) /\ sig \in Sigs \cup {NoSig}
    BY <1>5, <1>6
  <2> HIDE DEF text, sig
  <2> QED BY <1>6, <2>1, <2>2
<1>8. ToldKnown'
  BY <1>2, <1>6, <1>7 DEF ToldKnown
<1>9. RequestKnown' /\ InputKnown' /\ MatchedKnown' /\ SentKnown' /\ input' = <<>> /\ sent' = <<>>
  BY <1>1, RequestWaits
<1>10. PhaseKnown'
  BY <1>1, <1>6, <1>7, <1>9 DEF PhaseKnown, ChatInv
<1>11. CallsTold'
  <2>1. CallParts' = CallParts /\ CallParts \subseteq Nat /\ \A i \in CallParts : i <= Handled' => i <= Handled
    <3>1. CallParts' = CallParts /\ CallParts \subseteq Nat
      BY <1>1 DEF CallParts, ChatInv, TurnKnown
    <3>2. Handled + 1 \notin CallParts
      BY <1>3 DEF CallParts, part
    <3> QED BY <1>3, <3>1, <3>2
  <2>2. FirstTold => FirstTold'
    <3> SUFFICES ASSUME FirstTold, NEW i \in CallParts, i <= Handled', \A j \in CallParts : i <= j
                 PROVE  Len(told'.calls) > 0 /\ told'.calls[1].sig = answer'[i].sig
      BY <2>1 DEF FirstTold
    <3> QED BY <1>1, <1>7, <2>1 DEF FirstTold
  <2>3. \A i \in DOMAIN ids : CallTold(i) => CallTold(i)'
    <3> SUFFICES ASSUME NEW i \in DOMAIN ids, CallTold(i) PROVE CallTold(i)'
      OBVIOUS
    <3>1. PICK j \in CallParts : j <= Handled /\ told.calls[i].sig = answer[j].sig
      BY DEF CallTold
    <3>2. j \in CallParts' /\ j <= Handled' /\ told'.calls[i].sig = answer'[j].sig
      BY <1>1, <1>3, <1>7, <2>1, <3>1
    <3> QED BY <1>2, <1>7, <3>2 DEF CallTold, Cache!Live
  <2> QED BY <1>2, <1>7, <2>2, <2>3 DEF ChatInv, CallsTold, NamedOnce
<1>12. SiblingsKnown'
  BY <1>1 DEF SiblingsKnown, Replaying
<1> QED BY <1>3, <1>4, <1>8, <1>9, <1>10, <1>11, <1>12 DEF ChatInv

ToldCallRecord == [call : TurnCall, chunks : Seq(Seq(Nat)), sig : Sigs \cup {NoSig}]

LEMMA BridgeIdKnown ==
  ASSUME ChatInv, Len(ids) <= MaxIndex, NEW part \in AnswerPart
  PROVE  BridgeId(part) \in TurnCall
<1> DEFINE same == {i \in DOMAIN ids : part.id # NoId /\ UpstreamID(ids[i]) = part.id}
<1>1. ids \in Seq(TurnCall) /\ Len(ids) \in 0..MaxIndex
  BY CacheAssumption DEF ChatInv, TurnKnown
<1>2. CASE same # {}
  <2>1. same \subseteq Nat
    BY <1>1
  <2>2. Min(same) \in DOMAIN ids
    BY <1>2, <2>1, MinOfPositions
  <2> QED BY <1>1, <1>2, <2>2 DEF BridgeId
<1>3. CASE same = {}
  <2>1. BridgeId(part) = CallItem(Len(ids), part.id)
    BY <1>3 DEF BridgeId
  <2> QED BY <1>1, <2>1 DEF TurnCall, AnswerPart
<1> QED BY <1>2, <1>3

(* What the client is told of a call.                                      *)
LEMMA ToldCallKnown ==
  ASSUME NEW calls \in Seq(ToldCallRecord), NEW call \in TurnCall, NEW part \in AnswerPart
  PROVE  /\ ToldCall(calls, call, part) \in Seq(ToldCallRecord)
         /\ (\A i \in DOMAIN calls : calls[i].call # call) =>
              ToldCall(calls, call, part)
                = Append(calls, [call |-> call, chunks |-> <<part.body>>, sig |-> part.sig])
<1> DEFINE same == {i \in DOMAIN calls : mode = "stream" /\ calls[i].call = call}
           new == [call |-> call, chunks |-> <<part.body>>, sig |-> part.sig]
<1>1. part.body \in Seq(Nat) /\ part.sig \in Sigs \cup {NoSig} /\ new \in ToldCallRecord
  BY DEF AnswerPart, ToldCallRecord
<1>2. (\A i \in DOMAIN calls : calls[i].call # call) => same = {}
  OBVIOUS
<1>3. CASE same = {}
  BY <1>1, <1>3 DEF ToldCall
<1>4. CASE same # {}
  <2> DEFINE m == Min(same)
             sig == IF part.sig = NoSig THEN calls[m].sig ELSE part.sig
             chunks == Append(calls[m].chunks, part.body)
  <2>1. m \in DOMAIN calls /\ m \in Nat
    <3>1. same \subseteq Nat
      OBVIOUS
    <3> QED BY <1>4, <3>1, MinOfPositions
  <2>2. ToldCall(calls, call, part)
          = [calls EXCEPT ![m].chunks = Append(@, part.body),
                          ![m].sig = IF part.sig = NoSig THEN @ ELSE part.sig]
    BY <1>4 DEF ToldCall
  <2> HIDE DEF m
  <2>3. calls[m] \in ToldCallRecord
    BY <2>1
  <2>4. chunks \in Seq(Seq(Nat)) /\ sig \in Sigs \cup {NoSig}
    BY <1>1, <2>3 DEF ToldCallRecord
  <2>5. ToldCall(calls, call, part)
          = [calls EXCEPT ![m] = [call |-> calls[m].call, chunks |-> chunks, sig |-> sig]]
    BY <2>1, <2>2, <2>3 DEF ToldCallRecord
  <2> HIDE DEF chunks, sig
  <2>6. [call |-> calls[m].call, chunks |-> chunks, sig |-> sig] \in ToldCallRecord
    BY <2>3, <2>4 DEF ToldCallRecord
  <2> QED BY <1>2, <1>4, <2>1, <2>5, <2>6
<1> QED BY <1>2, <1>3, <1>4

LEMMA HandleCallInv ==
  ASSUME ChatInv, HandlePart, UNCHANGED requestVars, Head(rest).kind = "call"
  PROVE  /\ ChatInv' /\ (ContextsKnown => ContextsKnown')
         /\ \E c \in TurnCall : ids' = Append(ids, c)
         /\ NamedOnce' => \A i \in DOMAIN ids : told'.calls[i] = told.calls[i]
<1> DEFINE part == Head(rest)
           call == BridgeId(part)
           entry == [call |-> call, chunks |-> <<part.body>>, sig |-> part.sig]
<1>1. /\ phase = "reading" /\ rest # <<>> /\ rest' = Tail(rest) /\ HandleCall(part)
      /\ UNCHANGED <<phase, mode, answer, broken, todo>>
  BY DEF HandlePart
<1>2. /\ Apply(ToolPut(call, part.body, part.sig, {}))
      /\ ids' = Append(ids, call)
      /\ told' = [told EXCEPT !.calls = ToldCall(@, call, part)]
  BY <1>1 DEF HandleCall
<1>3. rest[1] \in AnswerPart /\ part = rest[1] /\ Len(rest) \in Nat /\ Len(rest) > 0
  BY <1>1 DEF ChatInv, TurnKnown
<1>4. Len(ids) <= MaxIndex
  BY <1>3, CacheAssumption DEF ChatInv, TurnKnown, Handled
<1>5. call \in TurnCall
  BY <1>3, <1>4, BridgeIdKnown
<1>6. /\ TurnKnown'
      /\ Handled \in Nat /\ Handled' = Handled + 1 /\ Handled + 1 \in DOMAIN answer
      /\ part = answer[Handled + 1] /\ part \in AnswerPart
  BY <1>1, <1>2, <1>5, PartRead
<1>7. part.body \in Contents \cup {<<>>} /\ part.sig \in Sigs \cup {NoSig}
  BY <1>6 DEF ChatInv, TurnKnown, CallParts, AnswerPart
<1> HIDE DEF call, part
<1>8. ApplyTool(ToolPut(call, part.body, part.sig, {})) /\ UNCHANGED <<siblings, others>>
  BY <1>2 DEF Apply, ToolPut
<1>9. ids \in Seq(TurnCall) /\ ids' \in Seq(TurnCall) /\ CacheKnown /\ call \in Names
  BY <1>2, <1>5, NamesDistinct DEF ChatInv, TurnKnown
<1>10. /\ Cache!IsTable(records', Names, Cache!Record) /\ ToSet(records'.order) \subseteq Cache!Live'
       /\ aliases' = [x \in Cache!Live' |-> x]
       /\ Cache!Live' \subseteq Cache!Live \cup {call}
       /\ \A x \in Cache!Live' \ {call} : records'.val[x] = records.val[x]
       /\ call \notin Cache!Live =>
            records'.val[call] = [call |-> part.body, sig |-> part.sig, legacy |-> FALSE]
       /\ UNCHANGED <<contexts, msgs, since>>
       /\ ContextsKnown => ContextsKnown'
  BY <1>7, <1>8, <1>9, PutCall
<1>11. ToSet(ids') = ToSet(ids) \cup {call}
  <2>1. /\ Len(ids) \in Nat /\ DOMAIN ids = 1..Len(ids) /\ DOMAIN ids' = 1..(Len(ids) + 1)
        /\ \A i \in 1..Len(ids) : ids'[i] = ids[i]
        /\ ids'[Len(ids) + 1] = call
    BY <1>2, <1>9
  <2> QED BY <2>1 DEF ToSet
<1>12. CacheKnown'
  BY <1>8, <1>9, <1>10, <1>11 DEF CacheKnown
<1>13. /\ told.calls \in Seq(ToldCallRecord)
       /\ told.text \in Seq(Nat) /\ told.sig \in Sigs \cup {NoSig} /\ told.ended \in BOOLEAN
       /\ told = [calls |-> told.calls, text |-> told.text, sig |-> told.sig, ended |-> told.ended]
       /\ ~told.ended /\ DOMAIN msgs.val = {}
  BY <1>1 DEF ChatInv, ToldKnown, PhaseKnown, ToldCallRecord
<1>14. /\ told'.calls = ToldCall(told.calls, call, part) /\ told'.calls \in Seq(ToldCallRecord)
       /\ told' = [calls |-> told'.calls, text |-> told.text, sig |-> told.sig, ended |-> told.ended]
  <2> DEFINE calls == ToldCall(told.calls, call, part)
  <2>1. calls \in Seq(ToldCallRecord) /\ told' = [told EXCEPT !.calls = calls]
    BY <1>2, <1>5, <1>6, <1>13, ToldCallKnown
  <2> HIDE DEF calls
  <2>2. told' = [calls |-> calls, text |-> told.text, sig |-> told.sig, ended |-> told.ended]
    BY <1>13, <2>1
  <2> QED BY <2>1, <2>2 DEF calls
<1>15. ToldKnown'
  BY <1>10, <1>13, <1>14 DEF ToldKnown, ToldCallRecord
<1>16. RequestKnown' /\ InputKnown' /\ MatchedKnown' /\ SentKnown' /\ input' = <<>> /\ sent' = <<>>
  BY <1>1, RequestWaits
<1>17. PhaseKnown'
  <2>1. todo' = <<>> /\ todo' \in Seq(ClosingPuts')
    BY <1>1 DEF ChatInv, PhaseKnown
  <2> QED BY <1>1, <1>13, <1>14, <1>16, <2>1 DEF PhaseKnown, ChatInv
<1>18. CallsTold' /\ (NamedOnce' => \A i \in DOMAIN ids : told'.calls[i] = told.calls[i])
  <2> SUFFICES ASSUME NamedOnce'
               PROVE  /\ Len(told'.calls) = Len(ids') /\ FirstTold'
                      /\ \A i \in DOMAIN ids' : CallTold(i)'
                      /\ \A i \in DOMAIN ids : told'.calls[i] = told.calls[i]
    BY DEF CallsTold
  <2>0. PICK n \in Nat : n = Len(ids)
    BY <1>9
  <2>1. /\ n \in Nat /\ DOMAIN ids = 1..n /\ Len(ids') = n + 1 /\ DOMAIN ids' = 1..(n + 1)
        /\ \A i \in 1..n : ids'[i] = ids[i]
        /\ ids'[n + 1] = call
    BY <1>2, <1>9, <2>0
  <2>2. NamedOnce /\ \A i \in 1..n : ids[i] # call
    BY <2>1 DEF NamedOnce
  <2>3. Len(told.calls) = n /\ FirstTold /\ \A i \in 1..n : CallTold(i)
    BY <2>1, <2>2 DEF ChatInv, CallsTold
  <2>4. \A i \in DOMAIN told.calls : told.calls[i].call # call
    <3>1. DOMAIN told.calls = 1..n
      BY <1>13, <2>1, <2>3
    <3>2. \A i \in 1..n : told.calls[i].call = ids[i]
      BY <2>3 DEF CallTold
    <3> QED BY <2>2, <3>1, <3>2
  <2>5. told'.calls = Append(told.calls, entry)
    BY <1>5, <1>6, <1>13, <1>14, <2>4, ToldCallKnown
  <2> HIDE DEF entry
  <2>6. Len(told'.calls) = n + 1 /\ told'.calls[n + 1] = entry /\ \A i \in 1..n : told'.calls[i] = told.calls[i]
    BY <1>13, <2>1, <2>3, <2>5
  <2>7. CallParts' = CallParts /\ CallParts \subseteq Nat /\ Handled' \in CallParts /\ answer'[Handled'] = part
    <3>1. answer' = answer /\ DOMAIN answer \subseteq Nat
      BY <1>1 DEF ChatInv, TurnKnown
    <3>2. part.kind = "call"
      BY DEF part
    <3> QED BY <1>6, <3>1, <3>2 DEF CallParts
  <2>8. call \notin Cache!Live
    <3>1. call \notin ToSet(ids)
      BY <2>1, <2>2 DEF ToSet
    <3> QED BY <1>5, <3>1, NamesDistinct DEF CacheKnown, ChatInv
  <2>9. CallTold(n + 1)'
    <3>1. /\ entry.call = call /\ Len(entry.chunks) = 1 /\ Head(entry.chunks) = part.body
          /\ entry.sig = part.sig
      BY DEF entry
    <3>2. /\ told'.calls[n + 1].call = ids'[n + 1] /\ Len(told'.calls[n + 1].chunks) = 1
          /\ told'.calls[n + 1].sig = answer'[Handled'].sig
      BY <2>1, <2>6, <2>7, <3>1
    <3>3. \E j \in CallParts' : j <= Handled' /\ told'.calls[n + 1].sig = answer'[j].sig
      BY <1>6, <2>7, <3>2
    <3>4. records'.val[ids'[n + 1]]
            = [call |-> Head(told'.calls[n + 1].chunks), sig |-> told'.calls[n + 1].sig, legacy |-> FALSE]
      BY <1>10, <2>1, <2>6, <2>8, <3>1
    <3> QED BY <3>2, <3>3, <3>4 DEF CallTold
  <2>10. ASSUME NEW i \in 1..n PROVE CallTold(i)'
    <3>1. PICK j \in CallParts : j <= Handled /\ told.calls[i].sig = answer[j].sig
      BY <2>3 DEF CallTold
    <3>2. j \in CallParts' /\ j <= Handled' /\ told'.calls[i].sig = answer'[j].sig
      <4>1. j \in Nat /\ Handled' = Handled + 1 /\ Handled \in Nat /\ answer' = answer
        BY <1>1, <1>6, <2>7
      <4>2. told'.calls[i].sig = told.calls[i].sig
        BY <2>6
      <4> QED BY <2>7, <3>1, <4>1, <4>2
    <3>3. ids[i] \in Cache!Live' => ids[i] \in Cache!Live /\ records'.val[ids[i]] = records.val[ids[i]]
      BY <1>10, <2>2
    <3> QED BY <2>1, <2>3, <2>6, <3>2, <3>3 DEF CallTold
  <2>11. FirstTold'
    <3> SUFFICES ASSUME NEW i \in CallParts, i <= Handled', \A j \in CallParts : i <= j
                 PROVE  Len(told'.calls) > 0 /\ told'.calls[1].sig = answer[i].sig
      BY <1>1, <2>7 DEF FirstTold
    <3>1. CASE i <= Handled
      <4>1. Len(told.calls) > 0 /\ told.calls[1].sig = answer[i].sig
        BY <2>3, <3>1 DEF FirstTold
      <4> QED BY <2>1, <2>3, <2>6, <4>1
    <3>2. CASE i = Handled'
      <4>1. n = 0
        <5> SUFFICES ASSUME n # 0 PROVE FALSE
          OBVIOUS
        <5>1. CallTold(1)
          BY <2>1, <2>3
        <5>2. PICK j \in CallParts : j <= Handled
          BY <5>1 DEF CallTold
        <5> QED BY <1>6, <2>7, <3>2, <5>2
      <4> QED BY <1>1, <1>6, <2>6, <2>7, <3>2, <4>1 DEF entry
    <3> QED BY <1>6, <2>7, <3>1, <3>2
  <2>12. ASSUME NEW i \in DOMAIN ids' PROVE CallTold(i)'
    <3>1. i \in 1..n \/ i = n + 1
      BY <2>1, <2>12
    <3> QED BY <2>9, <2>10, <3>1
  <2> QED BY <2>1, <2>6, <2>11, <2>12
<1>19. SiblingsKnown'
  BY <1>1 DEF SiblingsKnown, Replaying
<1> QED BY <1>2, <1>5, <1>6, <1>10, <1>12, <1>15, <1>16, <1>17, <1>18, <1>19 DEF ChatInv

(* The puts that close a turn.                                             *)
LEMMA PutsKnown == SiblingPuts \in Seq(ClosingPuts) /\ TextPuts \in Seq(ClosingPuts)
<1>1. SiblingPuts \in Seq(ClosingPuts)
  <2> DEFINE put == SiblingsPut(Head(ids), ToSet(Tail(ids)))
  <2>1. Len(ids) > 1 => put \in ClosingPuts
    BY DEF ClosingPuts
  <2>2. SiblingPuts = IF Len(ids) > 1 THEN <<put>> ELSE <<>>
    BY DEF SiblingPuts
  <2> HIDE DEF put
  <2> QED BY <2>1, <2>2
<1> DEFINE context == IF told.text # <<>> /\ told.sig # NoSig
                      THEN <<ContextPut(ContextKey(told.text), told.sig)>> ELSE <<>>
           message == IF told.sig # NoSig THEN <<MessagePut(Completion, told.sig)>> ELSE <<>>
<1>2. context \in Seq(ClosingPuts) /\ message \in Seq(ClosingPuts)
  <2> DEFINE c == ContextPut(ContextKey(told.text), told.sig)
             m == MessagePut(Completion, told.sig)
  <2>1. told.sig # NoSig => c \in ClosingPuts /\ m \in ClosingPuts
    BY DEF ClosingPuts
  <2> HIDE DEF c, m
  <2>2. /\ context = IF told.text # <<>> /\ told.sig # NoSig THEN <<c>> ELSE <<>>
        /\ message = IF told.sig # NoSig THEN <<m>> ELSE <<>>
    BY DEF c, m
  <2> HIDE DEF context, message
  <2> QED BY <2>1, <2>2
<1>3. TextPuts = context \o message
  BY DEF TextPuts
<1> HIDE DEF context, message
<1> QED BY <1>1, <1>2, <1>3

LEMMA TerminalInv == ChatInv /\ Terminal /\ UNCHANGED requestVars => ChatInv' /\ (ContextsKnown => ContextsKnown')
<1> SUFFICES ASSUME ChatInv, Terminal, UNCHANGED requestVars PROVE ChatInv' /\ (ContextsKnown => ContextsKnown')
  OBVIOUS
<1>1. /\ phase = "reading" /\ rest = <<>> /\ phase' = "closing"
      /\ todo' = SiblingPuts \o TextPuts
      /\ told' = [told EXCEPT !.ended = TRUE]
      /\ UNCHANGED <<mode, answer, rest, ids, broken>> /\ UNCHANGED cacheVars
  BY DEF Terminal
<1>2. UNCHANGED <<records, aliases, ambiguous, contexts, msgs, histories, siblings, others, disk>>
  BY <1>1 DEF cacheVars, tables
<1>3. /\ told.calls \in Seq(ToldCallRecord)
      /\ told.text \in Seq(Nat) /\ told.sig \in Sigs \cup {NoSig}
      /\ told' = [calls |-> told.calls, text |-> told.text, sig |-> told.sig, ended |-> TRUE]
      /\ DOMAIN msgs.val = {} /\ ~broken
  BY <1>1 DEF ChatInv, ToldKnown, PhaseKnown, ToldCallRecord
<1>4. told'.calls = told.calls /\ told'.text = told.text /\ told'.sig = told.sig /\ told'.ended = TRUE
  BY <1>3
<1>5. CacheKnown' /\ (ContextsKnown => ContextsKnown')
  BY <1>1, <1>2 DEF ChatInv, CacheKnown, ContextsKnown, Cache!Live, histories
<1>6. TurnKnown'
  BY <1>1 DEF ChatInv, TurnKnown, CallParts, Handled
<1>7. ToldKnown'
  BY <1>2, <1>3, <1>4 DEF ToldKnown, ToldCallRecord
<1>8. RequestKnown' /\ InputKnown' /\ MatchedKnown' /\ SentKnown' /\ input' = <<>> /\ sent' = <<>>
  BY <1>1, RequestWaits
<1>9. SiblingPuts \in Seq(ClosingPuts) /\ TextPuts \in Seq(ClosingPuts)
  BY PutsKnown
<1>10. PhaseKnown'
  <2>1. ClosingPuts' = ClosingPuts
    BY <1>1, <1>4 DEF ClosingPuts
  <2>2. todo' \in Seq(ClosingPuts')
    BY <1>1, <1>9, <2>1
  <2> QED BY <1>1, <1>3, <1>4, <1>8, <2>2 DEF PhaseKnown
<1>11. CallsTold'
  BY <1>1, <1>2, <1>4 DEF ChatInv, CallsTold, NamedOnce, CallTold, FirstTold, CallParts, Handled, Cache!Live
<1>12. SiblingsKnown'
  <2>1. CASE Len(ids) > 1
    <3>1. SiblingPuts = <<SiblingsPut(Head(ids), ToSet(Tail(ids)))>>
      BY <2>1 DEF SiblingPuts
    <3>2. todo' # <<>> /\ Head(todo') = SiblingsPut(Head(ids), ToSet(Tail(ids)))
      BY <1>1, <1>9, <3>1
    <3> QED BY <1>1, <3>2 DEF SiblingsKnown, Replaying
  <2>2. CASE ~ Len(ids) > 1
    BY <1>1, <2>2 DEF SiblingsKnown, SiblingsStored, Replaying
  <2> QED BY <2>1, <2>2
<1> QED BY <1>5, <1>6, <1>7, <1>8, <1>10, <1>11, <1>12 DEF ChatInv

(* What a closing put leaves alone.                                        *)
LEMMA StorePutKeeps ==
  ASSUME ChatInv, StorePut, UNCHANGED requestVars,
         UNCHANGED <<records, aliases, others>>, CacheKnown', ToldKnown', SiblingsKnown'
  PROVE  ChatInv'
<1>1. /\ phase = "closing" /\ todo # <<>> /\ todo' = Tail(todo)
      /\ UNCHANGED <<phase, mode, answer, rest, ids, told, broken>>
  BY DEF StorePut
<1>2. TurnKnown'
  BY <1>1 DEF ChatInv, TurnKnown, CallParts, Handled
<1>3. RequestKnown' /\ InputKnown' /\ MatchedKnown' /\ SentKnown' /\ input' = <<>> /\ sent' = <<>>
  BY <1>1, RequestWaits
<1>4. PhaseKnown'
  <2>1. ClosingPuts' = ClosingPuts /\ todo' \in Seq(ClosingPuts)
    BY <1>1 DEF ClosingPuts, ChatInv, PhaseKnown
  <2> QED BY <1>1, <1>3, <2>1 DEF PhaseKnown, ChatInv
<1>5. CallsTold'
  BY <1>1 DEF ChatInv, CallsTold, NamedOnce, CallTold, FirstTold, CallParts, Handled, Cache!Live
<1> QED BY <1>2, <1>3, <1>4, <1>5 DEF ChatInv

LEMMA StorePutInv ==
  ASSUME ChatInv, StorePut, UNCHANGED requestVars
  PROVE  ChatInv' /\ (ContextsKnown /\ TextHasContext => ContextsKnown')
<1>1. /\ phase = "closing" /\ todo # <<>> /\ todo' = Tail(todo) /\ Apply(Head(todo))
      /\ UNCHANGED <<phase, mode, answer, rest, ids, told, broken>>
  BY DEF StorePut
<1>2. Head(todo) \in ClosingPuts
  BY <1>1 DEF ChatInv, PhaseKnown
<1>3. told.ended /\ told.sig \in Sigs \cup {NoSig} /\ told.text \in Seq(Nat) /\ CacheKnown /\ ToldKnown
  BY <1>1 DEF ChatInv, PhaseKnown, ToldKnown
<1>4. SiblingsStored \/ Head(todo) = SiblingsPut(Head(ids), ToSet(Tail(ids)))
  BY <1>1 DEF ChatInv, SiblingsKnown
<1>5. CASE Len(ids) > 1 /\ Head(todo) = SiblingsPut(Head(ids), ToSet(Tail(ids)))
  <2> DEFINE lead == Head(ids)
             kin == SiblingsOf(lead) \cup (ToSet(Tail(ids)) \ {lead})
  <2>1. RecordTurnSiblings(lead, ToSet(Tail(ids)))
    <3>1. Apply(SiblingsPut(lead, ToSet(Tail(ids))))
      BY <1>1, <1>5
    <3> HIDE DEF lead
    <3> QED BY <3>1 DEF Apply, SiblingsPut
  <2>2. \A a : Canonical(a) = a
    BY <1>3, CanonicalIsName
  <2>3. siblings' = Assigned(siblings, lead, kin) /\ UNCHANGED tables /\ UNCHANGED others
    <3>1. siblings' = Assigned(siblings, Canonical(lead), SiblingsOf(Canonical(lead))
                         \cup ({Canonical(c) : c \in ToSet(Tail(ids))} \ {Canonical(lead)}))
          /\ UNCHANGED tables /\ UNCHANGED others
      BY <2>1 DEF RecordTurnSiblings
    <3>2. {Canonical(c) : c \in ToSet(Tail(ids))} = ToSet(Tail(ids))
      BY <2>2
    <3> QED BY <2>2, <3>1, <3>2
  <2>4. lead \in TurnCall /\ ToSet(Tail(ids)) \subseteq TurnCall
    BY <1>5 DEF ChatInv, TurnKnown, ToSet
  <2>5. kin \subseteq Names /\ lead \in Names
    BY <1>3, <2>4, NamesDistinct DEF SiblingsOf, CacheKnown
  <2> HIDE DEF lead, kin
  <2>6. DOMAIN siblings' = DOMAIN siblings \cup {lead} /\ siblings'[lead] = kin
        /\ \A n \in DOMAIN siblings \ {lead} : siblings'[n] = siblings[n]
    BY <2>3 DEF Assigned
  <2>7. UNCHANGED <<records, aliases, ambiguous, contexts, msgs, claims, ignored, since>>
    BY <2>3 DEF tables, histories
  <2>8. CacheKnown' /\ (ContextsKnown => ContextsKnown')
    BY <1>1, <1>3, <2>3, <2>5, <2>6, <2>7 DEF CacheKnown, ContextsKnown, Cache!Live
  <2>9. ToldKnown'
    BY <1>1, <1>3, <2>7 DEF ToldKnown
  <2>10. SiblingsKnown'
    <3>1. SiblingsStored'
      BY <1>1, <2>6 DEF SiblingsStored, lead, kin
    <3> QED BY <3>1 DEF SiblingsKnown
  <2> QED BY <2>3, <2>7, <2>8, <2>9, <2>10, StorePutKeeps
<1>6. CASE told.sig # NoSig /\ Head(todo) = ContextPut(ContextKey(told.text), told.sig)
  <2> DEFINE c == ContextKey(told.text)
  <2>1. Cache!PutContextSignature(c, told.sig) /\ UNCHANGED <<siblings, others>>
    <3>1. Apply(ContextPut(c, told.sig))
      BY <1>1, <1>6
    <3> HIDE DEF c
    <3> QED BY <3>1 DEF Apply, ContextPut
  <2>2. UNCHANGED <<records, aliases, msgs, claims, ignored>>
    BY <2>1 DEF Cache!PutContextSignature
  <2>3. SiblingsStored
    BY <1>4, <1>6 DEF ContextPut, SiblingsPut
  <2>4. CacheKnown' /\ ToldKnown'
    BY <1>1, <1>3, <2>1, <2>2 DEF CacheKnown, ToldKnown, Cache!Live
  <2>5. SiblingsKnown'
    BY <1>1, <2>1, <2>3 DEF SiblingsKnown, SiblingsStored
  <2>6. ContextsKnown /\ TextHasContext => ContextsKnown'
    <3> HAVE ContextsKnown /\ TextHasContext
    <3>1. c \in Contexts /\ told.sig \in Sigs
      BY <1>1, <1>3, <1>6 DEF TextHasContext
    <3> HIDE DEF c
    <3>2. /\ contexts' = contexts \/ \E v \in Sigs \cup {NoSig} : contexts' = Cache!Store(contexts, c, v)
          /\ ambiguous' \subseteq ambiguous \cup {c}
          /\ since' = [since EXCEPT ![c] =
               (IF c \in DOMAIN contexts.val \/ Cache!Met(c) THEN @ ELSE {}) \cup {told.sig}]
      BY <2>1, <3>1 DEF Cache!PutContextSignature
    <3>3. /\ Cache!IsTable(contexts', Contexts, Sigs \cup {NoSig})
          /\ ToSet(contexts'.order) \subseteq DOMAIN contexts'.val
      BY <3>1, <3>2, StoreProperties DEF ContextsKnown
    <3>4. since' \in [Contexts -> SUBSET Sigs]
      BY <3>1, <3>2 DEF ContextsKnown
    <3> QED BY <2>2, <3>1, <3>2, <3>3, <3>4 DEF ContextsKnown
  <2> QED BY <2>1, <2>2, <2>4, <2>5, <2>6, StorePutKeeps
<1>7. CASE told.sig # NoSig /\ Head(todo) = MessagePut(Completion, told.sig)
  <2>1. Cache!PutMessageSignature(Completion, told.sig) /\ UNCHANGED <<siblings, others>>
    <3>1. Apply(MessagePut(Completion, told.sig))
      BY <1>1, <1>7
    <3> QED BY <3>1 DEF Apply, MessagePut
  <2>2. /\ UNCHANGED <<records, aliases, ambiguous, contexts, claims, ignored, since>>
        /\ msgs' = Cache!Store(msgs, Completion, told.sig)
    BY <2>1 DEF Cache!PutMessageSignature, Cache!histories
  <2>3. SiblingsStored
    BY <1>4, <1>7 DEF MessagePut, SiblingsPut
  <2>4. /\ Cache!IsTable(msgs', Names, Sigs) /\ ToSet(msgs'.order) \subseteq DOMAIN msgs'.val
        /\ msgs'.val[Completion] = told.sig
        /\ DOMAIN msgs'.val \subseteq DOMAIN msgs.val \cup {Completion}
        /\ \A m \in DOMAIN msgs'.val \ {Completion} : msgs'.val[m] = msgs.val[m]
    BY <1>3, <1>7, <2>2, StoreProperties, NamesDistinct DEF CacheKnown
  <2>5. CacheKnown' /\ ToldKnown'
    BY <1>1, <1>3, <2>1, <2>2, <2>4 DEF CacheKnown, ToldKnown, Cache!Live
  <2>6. SiblingsKnown'
    BY <1>1, <2>1, <2>3 DEF SiblingsKnown, SiblingsStored
  <2>7. ContextsKnown => ContextsKnown'
    BY <2>2 DEF ContextsKnown
  <2> QED BY <2>1, <2>2, <2>5, <2>6, <2>7, StorePutKeeps
<1> QED BY <1>2, <1>5, <1>6, <1>7 DEF ClosingPuts

LEMMA DoneInv == ChatInv /\ Done /\ UNCHANGED requestVars => ChatInv' /\ (ContextsKnown => ContextsKnown')
<1> SUFFICES ASSUME ChatInv, Done, UNCHANGED requestVars PROVE ChatInv' /\ (ContextsKnown => ContextsKnown')
  OBVIOUS
<1>1. /\ phase = "closing" /\ todo = <<>> /\ phase' = "answered"
      /\ UNCHANGED <<mode, answer, rest, ids, told, broken, todo>>
      /\ UNCHANGED <<records, aliases, ambiguous, contexts, msgs, histories, siblings, others, disk>>
  BY DEF Done, cacheVars, tables, turnVars
<1>2. CacheKnown' /\ ToldKnown' /\ (ContextsKnown => ContextsKnown')
  BY <1>1 DEF ChatInv, CacheKnown, ToldKnown, ContextsKnown, Cache!Live, histories
<1>3. TurnKnown'
  BY <1>1 DEF ChatInv, TurnKnown, CallParts, Handled
<1>4. RequestKnown' /\ InputKnown' /\ MatchedKnown' /\ SentKnown' /\ input' = <<>> /\ sent' = <<>>
  BY <1>1, RequestWaits
<1>5. PhaseKnown'
  BY <1>1, <1>4 DEF PhaseKnown, Replaying, ChatInv, ClosingPuts
<1>6. CallsTold'
  BY <1>1 DEF ChatInv, CallsTold, NamedOnce, CallTold, FirstTold, CallParts, Handled, Cache!Live
<1>7. SiblingsKnown'
  BY <1>1 DEF ChatInv, SiblingsKnown, SiblingsStored, Replaying, disk
<1> QED BY <1>2, <1>3, <1>4, <1>5, <1>6, <1>7 DEF ChatInv

LEMMA BreakInv == ChatInv /\ Break /\ UNCHANGED requestVars => ChatInv' /\ (ContextsKnown => ContextsKnown')
<1> SUFFICES ASSUME ChatInv, Break, UNCHANGED requestVars PROVE ChatInv' /\ (ContextsKnown => ContextsKnown')
  OBVIOUS
<1>1. /\ phase \in {"reading", "closing"} /\ phase' \in {"refused", "answered"} /\ broken' = TRUE /\ todo' = <<>>
      /\ told' = IF told.ended THEN told ELSE [told EXCEPT !.sig = DeltaSig]
      /\ UNCHANGED <<mode, answer, rest, ids>>
      /\ UNCHANGED <<records, aliases, ambiguous, contexts, msgs, histories, siblings, others, disk>>
  BY DEF Break, CanBreak, cacheVars, tables
<1>2. /\ answer \in Seq(AnswerPart) /\ Handled \in 0..Len(answer) /\ Len(answer) \in Nat
      /\ DOMAIN answer = 1..Len(answer)
  BY DEF ChatInv, TurnKnown, Handled
<1>3. DeltaSig \in Sigs \cup {NoSig}
  <2> DEFINE signed == {i \in 1..Handled :
                          answer[i].kind = "text" /\ answer[i].body # <<>> /\ answer[i].sig # NoSig}
  <2>1. DeltaSig = IF signed = {} THEN NoSig ELSE answer[Max(signed)].sig
    BY DEF DeltaSig, Handled
  <2>2. CASE signed # {}
    <3>1. Max(signed) \in signed
      BY <1>2, <2>2, MaxOfPositions
    <3>2. answer[Max(signed)] \in AnswerPart
      BY <1>2, <3>1
    <3> QED BY <2>1, <2>2, <3>2 DEF AnswerPart
  <2> QED BY <2>1, <2>2
<1>4. /\ told.calls \in Seq(ToldCallRecord)
      /\ told.text \in Seq(Nat) /\ told.sig \in Sigs \cup {NoSig} /\ told.ended \in BOOLEAN
      /\ told = [calls |-> told.calls, text |-> told.text, sig |-> told.sig, ended |-> told.ended]
      /\ \A m \in DOMAIN msgs.val : told.ended /\ msgs.val[m] = told.sig
  BY DEF ChatInv, ToldKnown, ToldCallRecord
<1>5. /\ told'.calls = told.calls /\ told'.text = told.text /\ told'.ended = told.ended
      /\ told'.sig \in Sigs \cup {NoSig} /\ (told.ended => told'.sig = told.sig)
      /\ told' = [calls |-> told'.calls, text |-> told'.text, sig |-> told'.sig, ended |-> told'.ended]
  BY <1>1, <1>3, <1>4
<1>6. ToldKnown'
  BY <1>1, <1>4, <1>5 DEF ToldKnown, ToldCallRecord
<1>7. CacheKnown' /\ (ContextsKnown => ContextsKnown')
  BY <1>1 DEF ChatInv, CacheKnown, ContextsKnown, Cache!Live, histories
<1>8. TurnKnown'
  BY <1>1 DEF ChatInv, TurnKnown, CallParts, Handled
<1>9. RequestKnown' /\ InputKnown' /\ MatchedKnown' /\ SentKnown' /\ input' = <<>> /\ sent' = <<>>
  BY <1>1, RequestWaits
<1>10. PhaseKnown'
  BY <1>1, <1>9 DEF PhaseKnown, Replaying
<1>11. CallsTold'
  BY <1>1, <1>5 DEF ChatInv, CallsTold, NamedOnce, CallTold, FirstTold, CallParts, Handled, Cache!Live
<1>12. SiblingsKnown'
  BY <1>1 DEF SiblingsKnown
<1> QED BY <1>6, <1>7, <1>8, <1>9, <1>10, <1>11, <1>12 DEF ChatInv

(* The turn stays as it is while it is replayed.                           *)
LEMMA TurnKept ==
  ASSUME ChatInv, UNCHANGED <<cacheVars, turnVars>>,
         phase \in Replaying, phase' \in Replaying
  PROVE  /\ CacheKnown' /\ TurnKnown' /\ ToldKnown' /\ CallsTold' /\ SiblingsKnown'
         /\ todo' = <<>> /\ todo' \in Seq(ClosingPuts')
         /\ ContextsKnown => ContextsKnown'
<1>1. /\ UNCHANGED <<mode, answer, rest, ids, told, broken, todo>>
      /\ UNCHANGED <<records, aliases, ambiguous, contexts, msgs, histories, siblings, others, disk>>
  BY DEF cacheVars, tables, turnVars
<1>2. CacheKnown' /\ ToldKnown' /\ (ContextsKnown => ContextsKnown')
  BY <1>1 DEF ChatInv, CacheKnown, ToldKnown, ContextsKnown, Cache!Live, histories
<1>3. TurnKnown'
  BY <1>1 DEF ChatInv, TurnKnown, CallParts, Handled
<1>4. CallsTold'
  BY <1>1 DEF ChatInv, CallsTold, NamedOnce, CallTold, FirstTold, CallParts, Handled, Cache!Live
<1>5. SiblingsKnown'
  BY <1>1 DEF ChatInv, SiblingsKnown, SiblingsStored, Replaying, disk
<1>6. todo = <<>>
  BY DEF ChatInv, PhaseKnown, Replaying
<1> QED BY <1>1, <1>2, <1>3, <1>4, <1>5, <1>6

(* The calls in the message of a client.                                   *)
LEMMA ClientCallKnown ==
  ASSUME ToldKnown, NEW i \in DOMAIN told.calls
  PROVE  /\ ClientCall(i) \in RequestItem
         /\ ClientCall(i).type = "call" /\ ClientCall(i).call = told.calls[i].call
         /\ told.calls[i].call \in TurnCall
         /\ deviations' = {} =>
              ClientCall(i) = Item("call", told.calls[i].call, Arguments(told.calls[i]),
                                   IF "signatures" \in keeps' THEN told.calls[i].sig ELSE NoSig)
<1> DEFINE c == told.calls[i]
           altered == \/ i = 1 /\ Does("first altered")
                      \/ i = Len(told.calls) /\ Does("last altered")
           body == IF altered THEN Altered ELSE Arguments(c)
           sig == Keeps("signatures", c.sig)
<1>1. c \in ToldCallRecord
  <2>1. told.calls \in Seq(ToldCallRecord)
    BY DEF ToldKnown, ToldCallRecord
  <2> QED BY <2>1
<1>2. c.call \in TurnCall /\ c.chunks \in Seq(Seq(Nat)) /\ c.sig \in Sigs \cup {NoSig}
  BY <1>1 DEF ToldCallRecord
<1>3. Arguments(c) \in Seq(Nat)
  BY <1>2 DEF Arguments
<1>4. body \in Seq(Nat) /\ sig \in Sigs \cup {NoSig}
  <2>1. Altered \in Seq(Nat)
    BY DEF Altered
  <2>2. sig \in Sigs \cup {NoSig}
    BY <1>2 DEF Keeps
  <2> HIDE DEF c
  <2> QED BY <1>3, <2>1, <2>2
<1>5. ClientCall(i) = Item("call", c.call, body, sig)
  BY DEF ClientCall
<1>6. deviations' = {} => body = Arguments(c)
  BY DEF Does
<1> HIDE DEF body
<1>7. sig = IF "signatures" \in keeps' THEN c.sig ELSE NoSig
  BY DEF Keeps
<1> HIDE DEF sig, c
<1>8. Item("call", c.call, body, sig) \in RequestItem
  BY <1>2, <1>4 DEF Item, RequestItem, ItemNames
<1>9. ClientCall(i).type = "call" /\ ClientCall(i).call = c.call
  BY <1>5 DEF Item
<1> QED BY <1>2, <1>5, <1>6, <1>7, <1>8, <1>9 DEF c

(* Its calls with what it adds to them.                                    *)
ClientCallItem ==
  {x \in RequestItem : /\ x.type = "call" /\ x.call \in TurnCall \cup {Injected}
                       /\ x.call = Injected => x.sig = NoSig}

LEMMA ClientCallsKnown ==
  ASSUME ToldKnown
  PROVE  /\ ClientCalls \in Seq(ClientCallItem)
         /\ ClientCalls # <<>> => ClientCalls[1].call \in TurnCall
         /\ deviations' = {} => ClientCalls = [i \in DOMAIN told.calls |-> ClientCall(i)]
<1> DEFINE own == [i \in DOMAIN told.calls |-> ClientCall(i)]
           added == IF {"injected", "foreign"} \cap deviations' # {} THEN <<InjectedItem>> ELSE <<>>
           again == IF Does("repeated") THEN <<Head(own)>> ELSE <<>>
           extra == IF own = <<>> THEN <<>> ELSE added \o again
<1>1. /\ Len(told.calls) \in Nat /\ DOMAIN told.calls = 1..Len(told.calls)
  BY DEF ToldKnown
<1>2. \A i \in DOMAIN told.calls : ClientCall(i) \in ClientCallItem /\ ClientCall(i).call \in TurnCall
  BY ClientCallKnown, NamesDistinct DEF ClientCallItem
<1>3. own \in Seq(ClientCallItem) /\ DOMAIN own = DOMAIN told.calls /\ Len(own) = Len(told.calls)
  BY <1>1, <1>2
<1>4. InjectedItem \in ClientCallItem
  <2>1. Item("call", Injected, Altered, NoSig)
          = [type |-> "call", call |-> Injected, body |-> Altered, sig |-> NoSig, foreign |-> FALSE]
    BY DEF Item
  <2>2. InjectedItem
          = [type |-> "call", call |-> Injected, body |-> Altered, sig |-> NoSig, foreign |-> Does("foreign")]
    BY <2>1 DEF InjectedItem
  <2>3. Does("foreign") \in BOOLEAN /\ Altered \in Seq(Nat)
    BY DEF Does, Altered
  <2> QED BY <2>2, <2>3 DEF ClientCallItem, RequestItem, ItemNames
<1>5. own # <<>> => Head(own) \in ClientCallItem /\ own[1].call \in TurnCall
  BY <1>1, <1>2, <1>3
<1>6. ClientCalls = own \o extra
  BY DEF ClientCalls
<1> HIDE DEF own
<1>7. added \in Seq(ClientCallItem) /\ (own # <<>> => again \in Seq(ClientCallItem))
  BY <1>4, <1>5
<1>8. deviations' = {} => added = <<>> /\ again = <<>>
  BY DEF Does
<1> HIDE DEF added, again
<1>9. extra \in Seq(ClientCallItem) /\ (deviations' = {} => extra = <<>>) /\ (own = <<>> => extra = <<>>)
  BY <1>7, <1>8
<1> HIDE DEF extra
<1>10. own # <<>> => (own \o extra)[1] = own[1]
  BY <1>3, <1>9
<1>11. own = <<>> => own \o extra = <<>>
  BY <1>9
<1>12. deviations' = {} => own \o extra = own
  BY <1>3, <1>9
<1> QED BY <1>3, <1>5, <1>6, <1>9, <1>10, <1>11, <1>12 DEF own

(* The results, each under a name of its call.                             *)
LEMMA ClientResultsKnown ==
  ASSUME NEW calls \in Seq(ClientCallItem)
  PROVE  /\ ClientResults(calls) \in Seq(RequestItem)
         /\ \A i \in DOMAIN ClientResults(calls) : ClientResults(calls)[i].type = "output"
         /\ deviations' = {} =>
              ClientResults(calls) = [i \in DOMAIN calls |-> Item("output", calls[i].call, <<>>, NoSig)]
<1> DEFINE answered == IF Does("last unanswered") /\ calls # <<>> THEN Front(calls) ELSE calls
           Name(call) == IF Does("result by upstream id") THEN Outbound(UpstreamID(call), call) ELSE call
<1>1. ClientResults(calls) = [i \in DOMAIN answered |-> Item("output", Name(answered[i].call), <<>>, NoSig)]
  BY DEF ClientResults
<1>2. answered \in Seq(ClientCallItem)
  <2>1. calls # <<>> => Front(calls) \in Seq(ClientCallItem)
    <3> HAVE calls # <<>>
    <3>1. Len(calls) \in Nat /\ Len(calls) >= 1 /\ \A i \in 1..Len(calls) : calls[i] \in ClientCallItem
      OBVIOUS
    <3>2. Front(calls) = [i \in 1..(Len(calls) - 1) |-> calls[i]]
      BY <3>1 DEF Front
    <3> QED BY <3>1, <3>2
  <2> QED BY <2>1
<1>3. deviations' = {} => answered = calls /\ \A call : Name(call) = call
  BY DEF Does
<1>4. ASSUME NEW call \in TurnCall \cup {Injected} PROVE Name(call) \in ItemNames
  <2>1. call[3] \in UpstreamIds \cup {NoId}
    BY <1>4 DEF TurnCall, CallItem, Injected
  <2> QED BY <1>4, <2>1 DEF Outbound, UpstreamID, ItemNames
<1> HIDE DEF answered, Name
<1>5. /\ Len(answered) \in Nat /\ DOMAIN answered = 1..Len(answered)
      /\ \A i \in DOMAIN answered : answered[i].call \in TurnCall \cup {Injected}
  BY <1>2 DEF ClientCallItem
<1>6. \A i \in DOMAIN answered :
        LET x == Item("output", Name(answered[i].call), <<>>, NoSig)
        IN x \in RequestItem /\ x.type = "output"
  BY <1>4, <1>5 DEF Item, RequestItem
<1>7. ClientResults(calls) \in Seq(RequestItem)
  BY <1>1, <1>5, <1>6
<1> QED BY <1>1, <1>3, <1>6, <1>7

LEMMA ClientTextKnown ==
  ASSUME ToldKnown
  PROVE  /\ ClientText \in Seq(RequestItem) /\ Len(ClientText) = TextItems
         /\ \A i \in DOMAIN ClientText : ClientText[i].type = "text" /\ ClientText[i].call = Completion
<1> DEFINE x == Item("text", Completion, IF Does("text altered") THEN Altered ELSE told.text,
                     Keeps("signatures", told.sig))
<1>1. told.text \in Seq(Nat) /\ told.sig \in Sigs \cup {NoSig}
  BY DEF ToldKnown
<1>2. x \in RequestItem /\ x.type = "text" /\ x.call = Completion
  <2> DEFINE body == IF Does("text altered") THEN Altered ELSE told.text
             sig == Keeps("signatures", told.sig)
  <2>1. Altered \in Seq(Nat)
    BY DEF Altered
  <2>2. body \in Seq(Nat) /\ sig \in Sigs \cup {NoSig}
    BY <1>1, <2>1 DEF Keeps
  <2>3. x = [type |-> "text", call |-> Completion, body |-> body, sig |-> sig, foreign |-> FALSE]
    BY DEF Item
  <2> HIDE DEF body, sig, x
  <2> QED BY <2>2, <2>3 DEF RequestItem, ItemNames
<1>3. ClientText = IF told.text = <<>> THEN <<>> ELSE <<x>>
  BY DEF ClientText
<1> HIDE DEF x
<1> QED BY <1>2, <1>3 DEF TextItems


(* The items of a sequence put together from two, and from three.          *)
LEMMA TwoParts ==
  ASSUME NEW S, NEW a \in Seq(S), NEW b \in Seq(S)
  PROVE  /\ (a \o b) \in Seq(S) /\ Len(a \o b) = Len(a) + Len(b)
         /\ \A i \in DOMAIN a : (a \o b)[i] = a[i]
         /\ \A i \in DOMAIN b : (a \o b)[Len(a) + i] = b[i]
OBVIOUS

LEMMA ThreeParts ==
  ASSUME NEW S, NEW a \in Seq(S), NEW b \in Seq(S), NEW c \in Seq(S)
  PROVE  /\ (a \o b \o c) \in Seq(S) /\ Len(a \o b \o c) = Len(a) + Len(b) + Len(c)
         /\ \A i \in DOMAIN a : (a \o b \o c)[i] = a[i]
         /\ \A i \in DOMAIN b : (a \o b \o c)[Len(a) + i] = b[i]
         /\ \A i \in DOMAIN c : (a \o b \o c)[Len(a) + Len(b) + i] = c[i]
         /\ \A k \in DOMAIN (a \o b \o c) :
              \/ k \in DOMAIN a
              \/ \E i \in DOMAIN b : k = Len(a) + i
              \/ \E i \in DOMAIN c : k = Len(a) + Len(b) + i
<1> DEFINE ab == a \o b
<1>1. /\ ab \in Seq(S) /\ Len(ab) = Len(a) + Len(b)
      /\ \A i \in DOMAIN a : ab[i] = a[i]
      /\ \A i \in DOMAIN b : ab[Len(a) + i] = b[i]
  BY TwoParts
<1>2. /\ Len(a) \in Nat /\ Len(b) \in Nat /\ Len(c) \in Nat
      /\ DOMAIN a = 1..Len(a) /\ DOMAIN b = 1..Len(b) /\ DOMAIN c = 1..Len(c)
  OBVIOUS
<1> HIDE DEF ab
<1> DEFINE s == ab \o c
<1>3. /\ s \in Seq(S) /\ Len(s) = Len(a) + Len(b) + Len(c)
      /\ \A i \in 1..Len(ab) : s[i] = ab[i]
      /\ \A i \in DOMAIN c : s[Len(a) + Len(b) + i] = c[i]
  <2>0. ab \in Seq(S) /\ DOMAIN ab = 1..Len(ab)
    BY <1>1
  <2>1. /\ s \in Seq(S) /\ Len(s) = Len(ab) + Len(c)
        /\ \A i \in DOMAIN ab : s[i] = ab[i]
        /\ \A i \in DOMAIN c : s[Len(ab) + i] = c[i]
    BY <2>0, TwoParts
  <2> HIDE DEF s
  <2> QED BY <1>1, <2>0, <2>1
<1> HIDE DEF s
<1>4. DOMAIN s = 1..(Len(a) + Len(b) + Len(c))
  BY <1>3
<1>5. \A k \in DOMAIN s :
        \/ k \in DOMAIN a
        \/ \E i \in DOMAIN b : k = Len(a) + i
        \/ \E i \in DOMAIN c : k = Len(a) + Len(b) + i
  <2> TAKE k \in DOMAIN s
  <2>1. k \in DOMAIN a \/ (k > Len(a) /\ k - Len(a) \in DOMAIN b) \/ k - (Len(a) + Len(b)) \in DOMAIN c
    BY <1>2, <1>4
  <2>2. k \in Nat /\ k = Len(a) + (k - Len(a)) /\ k = Len(a) + Len(b) + (k - (Len(a) + Len(b)))
    BY <1>2, <1>4
  <2> QED BY <2>1, <2>2
<1>6. \A i \in DOMAIN a : s[i] = a[i]
  BY <1>1, <1>2, <1>3
<1>7. \A i \in DOMAIN b : s[Len(a) + i] = b[i]
  <2> TAKE i \in DOMAIN b
  <2>1. Len(a) + i \in 1..Len(ab)
    BY <1>1, <1>2
  <2> QED BY <1>1, <1>3, <2>1
<1> QED BY <1>1, <1>3, <1>5, <1>6, <1>7 DEF s, ab

LEMMA ReplayInv == ChatInv /\ Replay => ChatInv' /\ (ContextsKnown => ContextsKnown')
<1> SUFFICES ASSUME ChatInv, Replay PROVE ChatInv' /\ (ContextsKnown => ContextsKnown')
  OBVIOUS
<1>1. /\ phase = "answered" /\ phase' = "scanning"
      /\ input' = ClientText \o ClientCalls \o ClientResults(ClientCalls)
      /\ UNCHANGED <<cacheVars, turnVars>> /\ UNCHANGED <<matched, sent>>
      /\ UNCHANGED <<told, broken, ids>>
  BY DEF Replay, turnVars
<1>2. /\ CacheKnown' /\ TurnKnown' /\ ToldKnown' /\ CallsTold' /\ SiblingsKnown'
      /\ todo' = <<>> /\ todo' \in Seq(ClosingPuts')
      /\ ContextsKnown => ContextsKnown'
  BY <1>1, TurnKept DEF Replaying
<1> DEFINE results == ClientResults(ClientCalls)
           t == Len(ClientText)
           n == Len(ClientCalls)
<1>3. ToldKnown
  BY DEF ChatInv
<1>4. /\ ClientText \in Seq(RequestItem) /\ t = TextItems
      /\ \A i \in DOMAIN ClientText : ClientText[i].type = "text" /\ ClientText[i].call = Completion
  BY <1>3, ClientTextKnown
<1>5. /\ ClientCalls \in Seq(ClientCallItem) /\ ClientCalls \in Seq(RequestItem)
      /\ ClientCalls # <<>> => ClientCalls[1].call \in TurnCall
      /\ deviations' = {} => ClientCalls = [i \in DOMAIN told.calls |-> ClientCall(i)]
  <2>1. ClientCalls \in Seq(ClientCallItem)
    BY <1>3, ClientCallsKnown
  <2>2. ClientCallItem \subseteq RequestItem
    BY DEF ClientCallItem
  <2>3. ClientCalls \in Seq(RequestItem)
    BY <2>1, <2>2
  <2> QED BY <1>3, <2>1, <2>3, ClientCallsKnown
<1>6. /\ results \in Seq(RequestItem)
      /\ \A i \in DOMAIN results : results[i].type = "output"
      /\ deviations' = {} =>
           results = [i \in DOMAIN ClientCalls |-> Item("output", ClientCalls[i].call, <<>>, NoSig)]
  BY <1>5, ClientResultsKnown
<1> HIDE DEF results
<1>7. /\ input' \in Seq(RequestItem) /\ Len(input') = t + n + Len(results)
      /\ \A i \in DOMAIN ClientText : input'[i] = ClientText[i]
      /\ \A i \in DOMAIN ClientCalls : input'[t + i] = ClientCalls[i]
      /\ \A i \in DOMAIN results : input'[t + n + i] = results[i]
      /\ \A k \in DOMAIN input' :
           \/ k \in DOMAIN ClientText
           \/ \E i \in DOMAIN ClientCalls : k = t + i
           \/ \E i \in DOMAIN results : k = t + n + i
  <2>1. input' = ClientText \o ClientCalls \o results
    BY <1>1 DEF results
  <2>2. ClientText \in Seq(RequestItem) /\ ClientCalls \in Seq(RequestItem) /\ results \in Seq(RequestItem)
    BY <1>4, <1>5, <1>6
  <2> DEFINE s == ClientText \o ClientCalls \o results
  <2>3. /\ s \in Seq(RequestItem) /\ Len(s) = t + n + Len(results)
        /\ \A i \in DOMAIN ClientText : s[i] = ClientText[i]
        /\ \A i \in DOMAIN ClientCalls : s[t + i] = ClientCalls[i]
        /\ \A i \in DOMAIN results : s[t + n + i] = results[i]
        /\ \A k \in DOMAIN s :
             \/ k \in DOMAIN ClientText
             \/ \E i \in DOMAIN ClientCalls : k = t + i
             \/ \E i \in DOMAIN results : k = t + n + i
    <3>1. ASSUME NEW a \in Seq(RequestItem), NEW b \in Seq(RequestItem), NEW c \in Seq(RequestItem)
          PROVE  /\ (a \o b \o c) \in Seq(RequestItem) /\ Len(a \o b \o c) = Len(a) + Len(b) + Len(c)
                 /\ \A i \in DOMAIN a : (a \o b \o c)[i] = a[i]
                 /\ \A i \in DOMAIN b : (a \o b \o c)[Len(a) + i] = b[i]
                 /\ \A i \in DOMAIN c : (a \o b \o c)[Len(a) + Len(b) + i] = c[i]
                 /\ \A k \in DOMAIN (a \o b \o c) :
                      \/ k \in DOMAIN a
                      \/ \E i \in DOMAIN b : k = Len(a) + i
                      \/ \E i \in DOMAIN c : k = Len(a) + Len(b) + i
      BY ThreeParts
    <3> QED BY <2>2, <3>1, Zenon
  <2> HIDE DEF s, t, n
  <2>4. input' = s
    BY <2>1 DEF s
  <2> QED BY <2>3, <2>4
<1>8. t \in Nat /\ n \in Nat /\ DOMAIN ClientCalls = 1..n /\ DOMAIN ClientText = 1..t
      /\ DOMAIN input' = 1..Len(input') /\ Len(results) \in Nat
  BY <1>4, <1>5, <1>6, <1>7
<1>9. \A i \in DOMAIN ClientCalls :
        /\ ClientCalls[i].type = "call"
        /\ ClientCalls[i].call \in TurnCall \cup {Injected}
        /\ ClientCalls[i].call = Injected => ClientCalls[i].sig = NoSig
  BY <1>5 DEF ClientCallItem
<1> HIDE DEF t, n
<1>10. \A k \in DOMAIN input' : input'[k].type = "text" => input'[k].call = Completion
  <2> SUFFICES ASSUME NEW k \in DOMAIN input', input'[k].type = "text" PROVE input'[k].call = Completion
    OBVIOUS
  <2>1. ASSUME NEW i \in DOMAIN results, k = t + n + i PROVE FALSE
    BY <1>6, <1>7, <2>1
  <2>2. ASSUME NEW i \in DOMAIN ClientCalls, k = t + i PROVE FALSE
    BY <1>7, <1>9, <2>2
  <2> QED BY <1>4, <1>7, <2>1, <2>2
<1>11. \A k \in DOMAIN input' : input'[k].type = "call" => \E i \in DOMAIN ClientCalls : k = t + i
  <2> SUFFICES ASSUME NEW k \in DOMAIN input', input'[k].type = "call"
               PROVE  \E i \in DOMAIN ClientCalls : k = t + i
    OBVIOUS
  <2>1. k \notin DOMAIN ClientText
    BY <1>4, <1>7
  <2>2. ASSUME NEW i \in DOMAIN results, k = t + n + i PROVE FALSE
    BY <1>6, <1>7, <2>2
  <2> QED BY <1>7, <2>1, <2>2
<1>12. CallItems' = {k \in DOMAIN input' : input'[k].type = "call"}
  BY DEF CallItems
<1>13. InputKnown'
  <2>1. \A k \in CallItems' : input'[k].call \in TurnCall \cup {Injected}
    <3> SUFFICES ASSUME NEW k \in CallItems' PROVE input'[k].call \in TurnCall \cup {Injected}
      OBVIOUS
    <3>1. PICK i \in DOMAIN ClientCalls : k = t + i
      BY <1>11, <1>12
    <3>2. input'[k] = ClientCalls[i]
      BY <1>7, <3>1
    <3> QED BY <1>9, <3>2
  <2>2. ASSUME NEW k \in CallItems', input'[k].call = Injected
        PROVE  input'[k].sig = NoSig /\ \E j \in CallItems' : input'[j].call # Injected
    <3>1. PICK i \in DOMAIN ClientCalls : k = t + i
      BY <1>11, <1>12, <2>2
    <3>2. input'[k].sig = NoSig
      <4>1. input'[k] = ClientCalls[i]
        BY <1>7, <3>1
      <4> QED BY <1>9, <2>2, <4>1
    <3>3. 1 \in DOMAIN ClientCalls /\ ClientCalls # <<>>
      BY <1>8, <3>1
    <3>4. input'[t + 1].call \in TurnCall /\ input'[t + 1].type = "call"
      <4>1. input'[t + 1] = ClientCalls[1]
        BY <1>7, <3>3
      <4> QED BY <1>5, <1>9, <3>3, <4>1
    <3>5. t + 1 \in DOMAIN input'
      BY <1>7, <1>8, <3>3
    <3>6. Injected \notin TurnCall
      BY NamesDistinct
    <3> QED BY <1>12, <3>2, <3>4, <3>5, <3>6
  <2> QED BY <1>7, <1>10, <2>1, <2>2 DEF InputKnown
<1>14. RequestKnown'
  <2> SUFFICES ASSUME deviations' = {} PROVE UnalteredInput'
    BY DEF RequestKnown
  <2>1. /\ ClientCalls = [i \in DOMAIN told.calls |-> ClientCall(i)]
        /\ results = [i \in DOMAIN ClientCalls |-> Item("output", ClientCalls[i].call, <<>>, NoSig)]
    BY <1>5, <1>6
  <2>2. told.calls \in Seq(ToldCallRecord) /\ Len(told.calls) \in Nat /\ DOMAIN told.calls = 1..Len(told.calls)
    <3>1. told.calls \in Seq(ToldCallRecord)
      BY <1>3 DEF ToldKnown, ToldCallRecord
    <3> QED BY <3>1
  <2>3. DOMAIN ClientCalls = 1..Len(told.calls) /\ n = Len(told.calls)
        /\ DOMAIN results = 1..n /\ Len(results) = n
    BY <1>5, <1>6, <1>8, <2>1, <2>2 DEF n
  <2>4. \A i \in 1..n :
          /\ ClientCalls[i] = Item("call", told.calls[i].call, Arguments(told.calls[i]),
                                   IF "signatures" \in keeps' THEN told.calls[i].sig ELSE NoSig)
          /\ ClientCalls[i].call = told.calls[i].call
          /\ results[i] = Item("output", told.calls[i].call, <<>>, NoSig)
    <3> TAKE i \in 1..n
    <3>1. i \in DOMAIN told.calls /\ ClientCalls[i] = ClientCall(i)
      BY <2>1, <2>2, <2>3
    <3>2. /\ ClientCall(i).call = told.calls[i].call
          /\ ClientCall(i) = Item("call", told.calls[i].call, Arguments(told.calls[i]),
                                  IF "signatures" \in keeps' THEN told.calls[i].sig ELSE NoSig)
      BY <1>3, <3>1, ClientCallKnown
    <3>3. results[i] = Item("output", ClientCalls[i].call, <<>>, NoSig)
      BY <2>1, <2>3
    <3> QED BY <3>1, <3>2, <3>3
  <2>5. TextItems' = t
    BY <1>1, <1>4 DEF TextItems
  <2>6. Len(input') = t + n + n /\ \A i \in 1..t : input'[i].type = "text"
    BY <1>4, <1>7, <1>8, <2>3
  <2>7. \A i \in 1..n : input'[t + i] = ClientCalls[i] /\ input'[t + n + i] = results[i]
    BY <1>7, <2>3
  <2>8. told' = told
    BY <1>1
  <2> QED BY <2>3, <2>4, <2>5, <2>6, <2>7, <2>8 DEF UnalteredInput, Arguments
<1>15. sent' = <<>>
  BY <1>1 DEF ChatInv, PhaseKnown
<1>16. MatchedKnown' /\ SentKnown'
  BY <1>1, <1>8, <1>15 DEF MatchedKnown, SentKnown
<1>17. PhaseKnown'
  BY <1>1, <1>2, <1>15 DEF PhaseKnown, Replaying
<1> QED BY <1>2, <1>13, <1>14, <1>16, <1>17 DEF ChatInv


LEMMA ScanInv == ChatInv /\ Scan => ChatInv' /\ (ContextsKnown => ContextsKnown')
<1> SUFFICES ASSUME ChatInv, Scan PROVE ChatInv' /\ (ContextsKnown => ContextsKnown')
  OBVIOUS
<1>1. /\ phase = "scanning" /\ phase' \in {"translating", "rejected"}
      /\ matched' = {Callee(input[i].call) : i \in OutputItems} \cup {input[i].call : i \in OutputItems}
      /\ UNCHANGED <<cacheVars, turnVars>> /\ UNCHANGED <<keeps, deviations, input, sent, told>>
  BY DEF Scan, turnVars
<1>2. /\ CacheKnown' /\ TurnKnown' /\ ToldKnown' /\ CallsTold' /\ SiblingsKnown'
      /\ todo' = <<>> /\ todo' \in Seq(ClosingPuts')
      /\ ContextsKnown => ContextsKnown'
  BY <1>1, TurnKept DEF Replaying
<1>3. InputKnown' /\ RequestKnown' /\ SentKnown'
  BY <1>1 DEF ChatInv, InputKnown, CallItems, RequestKnown, UnalteredInput, TextItems, SentKnown, Arguments
<1>4. MatchedKnown'
  BY <1>1 DEF MatchedKnown, OutputItems
<1>5. PhaseKnown'
  BY <1>1, <1>2 DEF PhaseKnown, Replaying
<1> QED BY <1>2, <1>3, <1>4, <1>5 DEF ChatInv

LEMMA SendInv == ChatInv /\ Send => ChatInv' /\ (ContextsKnown => ContextsKnown')
<1> SUFFICES ASSUME ChatInv, Send PROVE ChatInv' /\ (ContextsKnown => ContextsKnown')
  OBVIOUS
<1>1. /\ phase = "translating" /\ phase' = "sent"
      /\ UNCHANGED <<cacheVars, turnVars>> /\ UNCHANGED <<keeps, deviations, input, matched, sent, told>>
  BY DEF Send, turnVars, requestVars
<1>2. /\ CacheKnown' /\ TurnKnown' /\ ToldKnown' /\ CallsTold' /\ SiblingsKnown'
      /\ todo' = <<>> /\ todo' \in Seq(ClosingPuts')
      /\ ContextsKnown => ContextsKnown'
  BY <1>1, TurnKept DEF Replaying
<1>3. InputKnown' /\ RequestKnown' /\ SentKnown' /\ MatchedKnown'
  BY <1>1 DEF ChatInv, InputKnown, CallItems, RequestKnown, UnalteredInput, TextItems, SentKnown, Arguments,
              MatchedKnown, OutputItems
<1>4. PhaseKnown'
  BY <1>1, <1>2 DEF PhaseKnown, Replaying
<1> QED BY <1>2, <1>3, <1>4 DEF ChatInv

SentIds == Names \cup {Injected} \cup {<<"upstream", 0, id>> : id \in UpstreamIds}

(* The id of a call or a result that goes to the upstream.                 *)
LEMMA OutboundIdKnown ==
  ASSUME CacheKnown, NEW name \in ItemNames
  PROVE  OutboundId(name) \in SentIds
<1>1. name \in SentIds
  BY NamesDistinct DEF ItemNames, SentIds
<1>2. ASSUME name \in Cache!Live PROVE OutboundId(name) \in SentIds
  <2>1. Cache!Found(name) = {name}
    BY <1>2, FoundIsLive
  <2>2. (CHOOSE x \in Cache!Found(name) : TRUE) = name
    BY <2>1
  <2>3. OutboundId(name) = Outbound(UpstreamID(name), name)
    BY <2>1, <2>2 DEF OutboundId
  <2>4. name \in Names
    BY <1>2 DEF CacheKnown, Cache!IsTable, Cache!Live
  <2>5. UpstreamID(name) \in UpstreamIds \cup {NoId}
    BY <2>4 DEF Names, UpstreamID, OtherCall, Message
  <2> QED BY <1>1, <2>3, <2>5 DEF Outbound, SentIds
<1>3. ASSUME name \notin Cache!Live PROVE OutboundId(name) \in SentIds
  <2>1. Cache!Found(name) = {}
    BY <1>3, FoundIsLive
  <2> QED BY <1>1, <2>1 DEF OutboundId
<1> QED BY <1>2, <1>3

(* One item more is translated.                                            *)
LEMMA TranslatedInv ==
  ASSUME ChatInv, phase = "translating", NextItem \in DOMAIN input,
         NEW type, NEW id \in SentIds, NEW sig,
         type = "call" => input[NextItem].type = "call",
         sent' = Append(sent, Sent(type, NextItem, id, sig)),
         UNCHANGED <<cacheVars, turnVars, phase, keeps, deviations, input, matched>>
  PROVE  ChatInv' /\ (ContextsKnown => ContextsKnown')
<1>1. UNCHANGED <<cacheVars, turnVars>> /\ UNCHANGED <<phase, keeps, deviations, input, matched, told>>
  BY DEF turnVars
<1>2. /\ CacheKnown' /\ TurnKnown' /\ ToldKnown' /\ CallsTold' /\ SiblingsKnown'
      /\ todo' = <<>> /\ todo' \in Seq(ClosingPuts')
      /\ ContextsKnown => ContextsKnown'
  BY <1>1, TurnKept DEF Replaying
<1>3. InputKnown' /\ RequestKnown' /\ MatchedKnown'
  BY <1>1 DEF ChatInv, InputKnown, CallItems, RequestKnown, UnalteredInput, TextItems, Arguments,
              MatchedKnown, OutputItems
<1>4. SentKnown'
  <2> DEFINE it == Sent(type, NextItem, id, sig)
  <2>1. it.item = NextItem /\ it.type = type /\ it.id = id
    BY DEF Sent
  <2>2. sent' = Append(sent, it)
    OBVIOUS
  <2> HIDE DEF it
  <2>3. /\ sent \in Seq(ToSet(sent)) /\ Len(sent) <= Len(input) /\ input \in Seq(RequestItem)
        /\ \A k \in DOMAIN sent : /\ sent[k].item = k /\ sent[k].id \in SentIds
                                  /\ sent[k].type = "call" => input[k].type = "call"
    BY DEF ChatInv, SentKnown, InputKnown, SentIds
  <2>4. NextItem = Len(sent) + 1 /\ Len(sent) \in Nat /\ Len(input) \in Nat /\ NextItem <= Len(input)
        /\ DOMAIN sent = 1..Len(sent)
    BY <2>3 DEF NextItem
  <2>5. /\ DOMAIN sent' = 1..NextItem /\ Len(sent') = NextItem /\ sent'[NextItem] = it
        /\ \A k \in DOMAIN sent : sent'[k] = sent[k]
    BY <2>2, <2>3, <2>4
  <2>6. sent' \in Seq(ToSet(sent'))
    <3>1. \A k \in 1..NextItem : sent'[k] \in ToSet(sent')
      BY <2>5 DEF ToSet
    <3>2. sent' \in Seq(ToSet(sent) \cup {it})
      BY <2>2, <2>3
    <3> QED BY <2>4, <2>5, <3>1, <3>2
  <2>7. ASSUME NEW k \in DOMAIN sent'
        PROVE  /\ sent'[k].item = k /\ sent'[k].id \in SentIds
               /\ sent'[k].type = "call" => input[k].type = "call"
    <3>1. CASE k = NextItem
      BY <2>1, <2>5, <3>1
    <3>2. CASE k # NextItem
      <4>1. k \in DOMAIN sent
        BY <2>4, <2>5, <2>7, <3>2
      <4> QED BY <2>3, <2>5, <4>1
    <3> QED BY <3>1, <3>2
  <2> QED BY <1>1, <2>4, <2>5, <2>6, <2>7 DEF SentKnown, SentIds
<1>5. PhaseKnown'
  BY <1>1, <1>2 DEF PhaseKnown, Replaying
<1> QED BY <1>2, <1>3, <1>4, <1>5 DEF ChatInv

LEMMA TranslateTextInv == ChatInv /\ TranslateText => ChatInv' /\ (ContextsKnown => ContextsKnown')
<1> SUFFICES ASSUME ChatInv, TranslateText PROVE ChatInv' /\ (ContextsKnown => ContextsKnown')
  OBVIOUS
<1>1. Completion \in SentIds
  BY NamesDistinct DEF SentIds
<1> QED BY <1>1, TranslatedInv DEF TranslateText

LEMMA TranslateOutputInv == ChatInv /\ TranslateOutput => ChatInv' /\ (ContextsKnown => ContextsKnown')
<1> SUFFICES ASSUME ChatInv, TranslateOutput PROVE ChatInv' /\ (ContextsKnown => ContextsKnown')
  OBVIOUS
<1>1. NextItem \in DOMAIN input
  BY DEF TranslateOutput, OutputItems
<1>2. OutboundId(input[NextItem].call) \in SentIds
  <2>1. input[NextItem] \in RequestItem
    BY <1>1 DEF ChatInv, InputKnown
  <2>2. input[NextItem].call \in ItemNames
    BY <2>1 DEF RequestItem
  <2> QED BY <2>2, OutboundIdKnown DEF ChatInv
<1> QED BY <1>1, <1>2, TranslatedInv DEF TranslateOutput

LEMMA TranslateCallInv == ChatInv /\ TranslateCall => ChatInv' /\ (ContextsKnown => ContextsKnown')
<1> SUFFICES ASSUME ChatInv, TranslateCall PROVE ChatInv' /\ (ContextsKnown => ContextsKnown')
  OBVIOUS
<1>1. /\ NextItem \in DOMAIN input /\ input[NextItem].type = "call" /\ phase = "translating"
      /\ UNCHANGED <<cacheVars, turnVars, keeps, deviations, input, matched>>
  BY DEF TranslateCall, CallItems
<1>2. CASE phase' = "rejected" /\ sent' = sent
  <2>1. UNCHANGED <<cacheVars, turnVars>> /\ UNCHANGED <<keeps, deviations, input, matched, sent, told>>
    BY <1>1, <1>2 DEF turnVars
  <2>2. /\ CacheKnown' /\ TurnKnown' /\ ToldKnown' /\ CallsTold' /\ SiblingsKnown'
        /\ todo' = <<>> /\ todo' \in Seq(ClosingPuts')
        /\ ContextsKnown => ContextsKnown'
    BY <1>1, <1>2, <2>1, TurnKept DEF Replaying
  <2>3. InputKnown' /\ RequestKnown' /\ SentKnown' /\ MatchedKnown'
    <3>1. InputKnown' /\ SentKnown'
      BY <2>1 DEF ChatInv, InputKnown, CallItems, SentKnown
    <3>2. RequestKnown'
      BY <1>1, <2>1 DEF ChatInv, RequestKnown, UnalteredInput, TextItems, Arguments
    <3>3. MatchedKnown'
      BY <1>1, <2>1 DEF ChatInv, MatchedKnown, OutputItems
    <3> QED BY <3>1, <3>2, <3>3
  <2>4. PhaseKnown'
    BY <1>2, <2>2 DEF PhaseKnown, Replaying
  <2> QED BY <2>2, <2>3, <2>4 DEF ChatInv
<1>3. CASE \E sig : /\ sent' = Append(sent, Sent("call", NextItem, OutboundId(input[NextItem].call), sig))
                    /\ UNCHANGED phase
  <2>1. OutboundId(input[NextItem].call) \in SentIds
    <3>1. input[NextItem] \in RequestItem
      BY <1>1 DEF ChatInv, InputKnown
    <3>2. input[NextItem].call \in ItemNames
      BY <3>1 DEF RequestItem
    <3> QED BY <3>2, OutboundIdKnown DEF ChatInv
  <2> QED BY <1>1, <1>3, <2>1, TranslatedInv
<1> QED BY <1>2, <1>3 DEF TranslateCall

(* ChatInv is inductive.                                                   *)
LEMMA InvStep ==
  ASSUME ChatInv, FileKnown, [Next]_vars
  PROVE  ChatInv' /\ (ContextsKnown /\ FileContextsKnown(file) /\ TextHasContext => ContextsKnown')
<1>1. CASE ChatNext /\ UNCHANGED requestVars
  <2>1. CASE HandlePart
    BY <1>1, <2>1, HandleCallInv, HandleTextInv
  <2> QED BY <1>1, <2>1, AnswerInv, TerminalInv, StorePutInv, DoneInv, BreakInv DEF ChatNext
<1>2. CASE UNCHANGED vars
  <2>1. /\ UNCHANGED <<phase, turnVars, requestVars>> /\ UNCHANGED torn
        /\ UNCHANGED <<records, aliases, ambiguous, contexts, msgs, histories, siblings, others>>
    BY <1>2 DEF vars, cacheVars, tables, disk
  <2>2. UNCHANGED ids
    BY <2>1 DEF turnVars
  <2>3. CacheKnown' /\ (ContextsKnown => ContextsKnown')
    BY <2>1, <2>2 DEF ChatInv, CacheKnown, ContextsKnown, Cache!Live, histories
  <2> QED BY <2>1, <2>3, ShrinkInv DEF Cache!Live
<1> QED BY <1>1, <1>2, ReplayInv, ScanInv, TranslateTextInv, TranslateCallInv, TranslateOutputInv, SendInv,
           OthersInv, SaveInv, RestartInv DEF Next

(* Only a save writes the file.                                            *)
LEMMA FileUnchanged ==
  ASSUME ChatInv, [Next]_vars, ~SaveStep
  PROVE  file' = file
<1>1. CASE UNCHANGED vars
  BY <1>1 DEF vars, cacheVars, disk
<1>2. CASE HandlePart
  BY <1>2, Zenon DEF HandlePart, HandleCall, HandleText, cacheVars, disk, Apply, ToolPut
<1>3. CASE StorePut
  <2>1. todo # <<>> /\ Apply(Head(todo)) /\ Head(todo) \in ClosingPuts
    BY <1>3 DEF StorePut, ChatInv, PhaseKnown
  <2>2. Head(todo).op \in {"siblings", "context", "message"}
    BY <2>1 DEF ClosingPuts, SiblingsPut, ContextPut, MessagePut
  <2> QED BY <2>1, <2>2 DEF Apply, RecordTurnSiblings, disk
<1>4. CASE Answer \/ Terminal \/ Done \/ Break
  BY <1>4 DEF Answer, Terminal, Done, Break, cacheVars, disk
<1>5. CASE Replay \/ Scan \/ TranslateText \/ TranslateCall \/ TranslateOutput \/ Send
  BY <1>5, Zenon DEF Replay, Scan, TranslateText, TranslateCall, TranslateOutput, Send, cacheVars, disk
<1>6. CASE Others \/ Restart
  BY <1>6 DEF Others, OtherPut, Restart, RestartSaved, disk
<1> QED BY <1>1, <1>2, <1>3, <1>4, <1>5, <1>6 DEF Next, ChatNext

(* What a step does to the turn as far as the file is concerned.           *)
LEMMA TurnMoves ==
  ASSUME ChatInv, [Next]_vars
  PROVE  \/ /\ ids' = ids /\ told'.calls = told.calls
            /\ told.ended => told'.ended /\ told'.sig = told.sig /\ told'.text = told.text
         \/ /\ ~told.ended
            /\ \E c \in TurnCall : ids' = Append(ids, c)
            /\ NamedOnce' => \A i \in DOMAIN ids : told'.calls[i] = told.calls[i]
<1>1. told = [calls |-> told.calls, text |-> told.text, sig |-> told.sig, ended |-> told.ended]
  BY DEF ChatInv, ToldKnown
<1>2. CASE HandlePart /\ UNCHANGED requestVars
  <2>1. ~told.ended
    BY <1>2 DEF HandlePart, ChatInv, PhaseKnown
  <2>2. CASE Head(rest).kind = "call"
    BY <1>2, <2>1, <2>2, HandleCallInv
  <2>3. CASE Head(rest).kind # "call"
    <3> DEFINE text == IF Head(rest).kind = "text" THEN told.text \o Head(rest).body ELSE told.text
               sig == IF SignatureOfText(Head(rest)) THEN Head(rest).sig ELSE told.sig
    <3>1. ids' = ids /\ told' = [told EXCEPT !.text = text, !.sig = sig]
      BY <1>2, <2>3 DEF HandlePart, HandleText
    <3> HIDE DEF text, sig
    <3> QED BY <1>1, <2>1, <3>1
  <2> QED BY <2>2, <2>3
<1>3. CASE Terminal
  <2>1. ids' = ids /\ told' = [told EXCEPT !.ended = TRUE]
    BY <1>3 DEF Terminal
  <2> QED BY <1>1, <2>1
<1>4. CASE Break
  <2>1. ids' = ids /\ told' = IF told.ended THEN told ELSE [told EXCEPT !.sig = DeltaSig]
    BY <1>4 DEF Break
  <2> QED BY <1>1, <2>1
<1>5. CASE UNCHANGED <<ids, told>>
  BY <1>5
<1>6. Answer \/ StorePut \/ Done => UNCHANGED <<ids, told>>
  BY DEF Answer, StorePut, Done, turnVars
<1>7. Replay \/ Scan \/ TranslateText \/ TranslateCall \/ TranslateOutput \/ Send => UNCHANGED <<ids, told>>
  BY Zenon DEF Replay, Scan, TranslateText, TranslateCall, TranslateOutput, Send, turnVars
<1>8. Others \/ SaveStep \/ Restart \/ UNCHANGED vars => UNCHANGED <<ids, told>>
  BY DEF Others, SaveStep, Restart, vars, turnVars
<1> QED BY <1>2, <1>3, <1>4, <1>5, <1>6, <1>7, <1>8 DEF Next, ChatNext

LEMMA FileStep ==
  ASSUME ChatInv, FileKnown, [Next]_vars
  PROVE  FileKnown'
<1>1. CASE SaveStep
  <2>1. file' = Memory /\ UNCHANGED <<ids, told>>
    BY <1>1 DEF SaveStep, Save, turnVars
  <2> DEFINE m == Memory
  <2>2. FileCacheKnown(m) /\ FileToldKnown(m)
    BY MemoryKnown DEF ChatInv
  <2> HIDE DEF m
  <2>3. file' = m
    BY <2>1 DEF m
  <2>4. FileCacheKnown(file)'
    BY <2>1, <2>2, <2>3 DEF FileCacheKnown
  <2>5. FileToldKnown(file)'
    BY <2>1, <2>2, <2>3 DEF FileToldKnown, ToldRecord, NamedOnce
  <2> QED BY <2>4, <2>5 DEF FileKnown
<1>2. CASE ~SaveStep
  <2>1. file' = file /\ FileCacheKnown(file) /\ FileToldKnown(file)
    BY <1>2, FileUnchanged DEF FileKnown
  <2>2. CASE /\ ids' = ids /\ told'.calls = told.calls
             /\ told.ended => told'.ended /\ told'.sig = told.sig /\ told'.text = told.text
    <3>1. FileCacheKnown(file)'
      BY <2>1, <2>2 DEF FileCacheKnown
    <3>2. FileToldKnown(file)'
      BY <2>1, <2>2 DEF FileToldKnown, ToldRecord, NamedOnce
    <3> QED BY <3>1, <3>2 DEF FileKnown
  <2>3. CASE /\ ~told.ended
             /\ \E c \in TurnCall : ids' = Append(ids, c)
             /\ NamedOnce' => \A i \in DOMAIN ids : told'.calls[i] = told.calls[i]
    <3>1. PICK c \in TurnCall : ids' = Append(ids, c)
      BY <2>3
    <3>2. PICK n \in Nat : n = Len(ids) /\ ids \in Seq(TurnCall)
      BY DEF ChatInv, TurnKnown
    <3>3. /\ DOMAIN ids = 1..n /\ DOMAIN ids' = 1..(n + 1)
          /\ \A i \in 1..n : ids'[i] = ids[i]
          /\ ids'[n + 1] = c
      BY <3>1, <3>2
    <3>4. ToSet(ids) \subseteq ToSet(ids')
      BY <3>3 DEF ToSet
    <3>5. FileCacheKnown(file)'
      BY <2>1, <3>4 DEF FileCacheKnown
    <3>6. ASSUME NamedOnce', NEW i \in DOMAIN ids', ids'[i] \in DOMAIN file.records.val
          PROVE  file.records.val[ids'[i]] = ToldRecord(i)'
      <4>1. NamedOnce
        BY <3>3, <3>6 DEF NamedOnce
      <4>2. CASE i \in 1..n
        BY <2>1, <2>3, <3>3, <3>6, <4>1, <4>2 DEF FileToldKnown, ToldRecord
      <4>3. CASE i = n + 1
        <5>1. \A j \in 1..n : ids[j] # c
          BY <3>3, <3>6 DEF NamedOnce
        <5>2. c \notin ToSet(ids) /\ c \notin Foreigners
          BY <3>3, <5>1, NamesDistinct DEF ToSet
        <5> QED BY <2>1, <3>3, <3>6, <4>3, <5>2 DEF FileCacheKnown
      <4> QED BY <3>3, <4>2, <4>3
    <3>7. DOMAIN file.msgs.val = {}
      BY <2>1, <2>3 DEF FileToldKnown
    <3>8. FileToldKnown(file)'
      BY <2>1, <3>6, <3>7 DEF FileToldKnown
    <3> QED BY <3>5, <3>8 DEF FileKnown
  <2> QED BY <2>2, <2>3, TurnMoves
<1> QED BY <1>1, <1>2

LEMMA FileHolds == Spec => [](ChatInv /\ FileKnown)
BY InitInv, InvStep, FileStep, PTL DEF Spec

(* Cache, turn and request belong together throughout: ChatInv, which all  *)
(* that follows rests on, holds of every run of the handler.               *)
THEOREM InvHolds == Spec => []ChatInv
BY FileHolds, PTL


-----------------------------------------------------------------------------
(* The evidence about a call.                                              *)

(* The policy as one choice.                                               *)
LEMMA Resolved ==
  ASSUME NEW ev
  PROVE  P!ResolveToolSignature(ev)
           = IF P!ClassifyToolCall(ev) = "mismatched" \/ ~ev.hasOutput THEN NoSig
             ELSE IF P!ClassifyToolCall(ev) = "native" THEN P!NativeSignature(ev)
             ELSE Marker
<1> DEFINE origin == P!ClassifyToolCall(ev)
<1>1. origin \in {"mismatched", "native", "foreign", "unknown"}
  BY DEF P!ClassifyToolCall
<1>2. P!ResolveToolSignature(ev)
        = CASE origin = "mismatched" \/ ~ev.hasOutput -> NoSig
            [] origin = "native" /\ ev.hasOutput -> P!NativeSignature(ev)
            [] origin \in {"foreign", "unknown"} /\ ev.hasOutput -> Marker
  BY DEF P!ResolveToolSignature
<1> HIDE DEF origin
<1>3. CASE origin = "mismatched" \/ ~ev.hasOutput
  BY <1>1, <1>2, <1>3 DEF origin
<1>4. CASE origin = "native" /\ ev.hasOutput
  BY <1>1, <1>2, <1>4 DEF origin
<1>5. CASE origin \in {"foreign", "unknown"} /\ ev.hasOutput
  BY <1>1, <1>2, <1>5 DEF origin
<1> QED BY <1>1, <1>3, <1>4, <1>5

(* What the cache has of a name.                                           *)
LEMMA CacheSigOf ==
  ASSUME CacheKnown, NEW call
  PROVE  /\ call \in Cache!Live => CacheSig(call) = records.val[call].sig
         /\ call \notin Cache!Live => CacheSig(call) = NoSig
         /\ CacheSig(call) \in Sigs \cup {NoSig}
<1>1. CASE call \in Cache!Live
  <2>1. Cache!Found(call) = {call}
    BY <1>1, FoundIsLive
  <2>2. CacheSig(call) = records.val[call].sig
    BY <2>1 DEF CacheSig
  <2>3. records.val[call] \in Cache!Record
    BY <1>1 DEF CacheKnown, Cache!IsTable, Cache!Live
  <2> QED BY <1>1, <2>2, <2>3 DEF Cache!Record
<1>2. CASE call \notin Cache!Live
  <2>1. Cache!Found(call) = {}
    BY <1>2, FoundIsLive
  <2> QED BY <1>2, <2>1 DEF CacheSig
<1> QED BY <1>1, <1>2

(* A client only has signatures of the upstream.                           *)
LEMMA ItemKnown ==
  ASSUME ChatInv, NEW k \in CallItems
  PROVE  /\ input[k].call \in TurnCall \cup {Injected}
         /\ input[k].sig \in Sigs \cup {NoSig}
         /\ input[k].call \notin Foreigners
         /\ input[k].call = Injected => input[k].call \notin Cache!Live /\ input[k].call \notin Names
         /\ OtherSig(input[k]) \in Sigs \cup {NoSig}
         /\ k \in DOMAIN input
<1>1. k \in DOMAIN input /\ input[k] \in RequestItem
  BY DEF CallItems, ChatInv, InputKnown
<1>2. input[k].call \in TurnCall \cup {Injected}
  BY DEF ChatInv, InputKnown
<1>3. input[k].sig \in Sigs \cup {NoSig}
  BY <1>1 DEF RequestItem
<1>4. Cache!Live \subseteq Names /\ Foreigners \subseteq Names /\ CacheKnown
  BY NamesDistinct DEF ChatInv, CacheKnown, Cache!IsTable, Cache!Live
<1>5. OtherSig(input[k]) \in Sigs \cup {NoSig}
  BY <1>3, <1>4, CacheSigOf DEF OtherSig
<1> QED BY <1>1, <1>2, <1>3, <1>4, <1>5, NamesDistinct

(* The signature of the details is the text's.                             *)
LEMMA DetailsSigKnown ==
  ASSUME ChatInv
  PROVE  DetailsSig # NoSig => "details" \in keeps /\ told.sig # NoSig /\ DetailsSig = told.sig
BY DEF ChatInv, ToldKnown, DetailsSig

LEMMA CarrierSigKnown ==
  ASSUME ChatInv, NEW k \in CallItems
  PROVE  /\ CarrierSig(input[k]) \in Sigs \cup {NoSig}
         /\ Cardinality(CallItems) # 1 => CarrierSig(input[k]) = input[k].sig
<1>1. told.sig \in Sigs \cup {NoSig}
  BY DEF ChatInv, ToldKnown
<1> QED BY <1>1, ItemKnown, DetailsSigKnown DEF CarrierSig

(* The call is the only one if they are counted as one.                    *)
LEMMA OnlyCall ==
  ASSUME input \in Seq(RequestItem), Cardinality(CallItems) = 1
  PROVE  \A j, k \in CallItems : j = k
<1>1. IsFiniteSet(CallItems)
  <2>1. CallItems \subseteq 1..Len(input) /\ Len(input) \in Nat
    BY DEF CallItems
  <2>2. IsFiniteSet(1..Len(input))
    <3>1. 1 \in Int /\ Len(input) \in Int
      BY <2>1
    <3> QED BY <3>1, FS_Interval
  <2>3. CallItems \in SUBSET (1..Len(input))
    BY <2>1
  <2> QED BY <2>2, <2>3, FS_Subset
<1> QED BY <1>1, FS_Singleton

(* The lead a call without a signature is given the one of.                *)
Kin(it) == {j \in SignedOthers(it) : IsVerifiedSibling(input[j].call, it.call)}

Orphan(it) == ~CacheDisagrees(it) /\ CarrierSig(it) = NoSig /\ CacheSig(it.call) = NoSig

LEMMA EvidenceKnown ==
  ASSUME ChatInv, NEW k \in CallItems
  PROVE  LET it == input[k]
             ev == Evidence(it)
         IN /\ ev.hasCarrier = (CarrierSig(it) # NoSig) /\ ev.carrierSig = CarrierSig(it)
            /\ ev.carrierMismatch = FALSE /\ ev.cacheMismatch = CacheDisagrees(it)
            /\ ev.hasCache = (it.call \in Cache!Live) /\ ev.cacheSig = CacheSig(it.call)
            /\ ev.hasOutput = (it.call \in matched) /\ ev.foreign = it.foreign
            /\ ev.recordedSib = (Orphan(it) /\ Kin(it) # {})
            /\ ev.unverified = (Orphan(it) /\ SignedOthers(it) # {} /\ Kin(it) = {} /\ ~it.foreign)
            /\ ev.leadSig \in Sigs \cup {NoSig}
            /\ ev.recordedSib => ev.leadSig # NoSig
<1> DEFINE it == input[k]
           signed == IF Orphan(it) THEN SignedOthers(it) ELSE {}
           kin == {j \in signed : IsVerifiedSibling(input[j].call, it.call)}
           lead == IF kin = {} THEN it ELSE input[Min(kin)]
           leadSig == IF CacheSig(lead.call) # NoSig THEN CacheSig(lead.call) ELSE OtherSig(lead)
<1>1. Evidence(it) =
        [hasCarrier |-> CarrierSig(it) # NoSig,
         carrierSig |-> CarrierSig(it),
         carrierMismatch |-> FALSE,
         hasCache |-> Cache!Found(it.call) # {},
         cacheSig |-> CacheSig(it.call),
         cacheMismatch |-> CacheDisagrees(it),
         recordedSib |-> kin # {},
         leadSig |-> leadSig,
         hasOutput |-> it.call \in matched,
         foreign |-> it.foreign,
         unverified |-> signed # {} /\ kin = {} /\ ~it.foreign]
  BY DEF Evidence, Orphan
<1>2. CacheKnown /\ input \in Seq(RequestItem)
  BY DEF ChatInv, InputKnown
<1>3. (Cache!Found(it.call) # {}) = (it.call \in Cache!Live)
  BY <1>2, FoundIsLive
<1>4. (kin # {}) = (Orphan(it) /\ Kin(it) # {})
  BY DEF Kin
<1>5. (signed # {} /\ kin = {} /\ ~it.foreign) = (Orphan(it) /\ SignedOthers(it) # {} /\ Kin(it) = {} /\ ~it.foreign)
  BY DEF Kin
<1>6. leadSig \in Sigs \cup {NoSig} /\ (kin # {} => leadSig # NoSig)
  <2>1. CASE kin = {}
    <3>1. lead = it
      BY <2>1
    <3> HIDE DEF kin, lead
    <3> QED BY <1>2, <2>1, <3>1, ItemKnown, CacheSigOf
  <2>2. CASE kin # {}
    <3>1. kin \subseteq SignedOthers(it) /\ SignedOthers(it) \subseteq CallItems /\ CallItems \subseteq Nat
      BY <1>2 DEF SignedOthers, CallItems
    <3>2. Min(kin) \in kin
      <4> HIDE DEF kin
      <4>1. kin \subseteq Nat
        BY <3>1
      <4> QED BY <2>2, <4>1, MinOfPositions
    <3>3. Min(kin) \in CallItems /\ OtherSig(input[Min(kin)]) # NoSig /\ lead = input[Min(kin)]
      BY <2>2, <3>1, <3>2 DEF SignedOthers
    <3> HIDE DEF kin, lead
    <3>4. OtherSig(lead) \in Sigs \cup {NoSig} /\ OtherSig(lead) # NoSig
      BY <3>3, ItemKnown
    <3> QED BY <1>2, <3>4, CacheSigOf
  <2> QED BY <2>1, <2>2
<1> DEFINE ev == Evidence(it)
           hasCarrier == CarrierSig(it) # NoSig
           hasCache == Cache!Found(it.call) # {}
           mismatch == CacheDisagrees(it)
           recorded == kin # {}
           hasOutput == it.call \in matched
           unverified == signed # {} /\ kin = {} /\ ~it.foreign
<1>7. ev = [hasCarrier |-> hasCarrier, carrierSig |-> CarrierSig(it), carrierMismatch |-> FALSE,
            hasCache |-> hasCache, cacheSig |-> CacheSig(it.call), cacheMismatch |-> mismatch,
            recordedSib |-> recorded, leadSig |-> leadSig, hasOutput |-> hasOutput, foreign |-> it.foreign,
            unverified |-> unverified]
  BY <1>1
<1> HIDE DEF ev, hasCarrier, hasCache, mismatch, recorded, leadSig, hasOutput, unverified
<1>8. /\ ev.hasCarrier = hasCarrier /\ ev.carrierSig = CarrierSig(it)
      /\ ev.carrierMismatch = FALSE /\ ev.cacheMismatch = mismatch
      /\ ev.hasCache = hasCache /\ ev.cacheSig = CacheSig(it.call)
      /\ ev.hasOutput = hasOutput /\ ev.foreign = it.foreign
      /\ ev.recordedSib = recorded /\ ev.unverified = unverified /\ ev.leadSig = leadSig
  BY <1>7
<1>9. /\ recorded = (Orphan(it) /\ Kin(it) # {})
      /\ unverified = (Orphan(it) /\ SignedOthers(it) # {} /\ Kin(it) = {} /\ ~it.foreign)
      /\ hasCache = (it.call \in Cache!Live)
      /\ leadSig \in Sigs \cup {NoSig}
  BY <1>3, <1>4, <1>5, <1>6 DEF recorded, unverified, hasCache
<1>10. ev.recordedSib => ev.leadSig # NoSig
  <2>1. recorded => leadSig # NoSig
    BY <1>6 DEF recorded
  <2> QED BY <1>8, <2>1
<1>11. ev.leadSig \in Sigs \cup {NoSig}
  BY <1>8, <1>9
<1>12. /\ ev.hasCarrier = (CarrierSig(it) # NoSig) /\ ev.cacheMismatch = CacheDisagrees(it)
       /\ ev.hasOutput = (it.call \in matched)
  BY <1>8 DEF hasCarrier, mismatch, hasOutput
<1>13. /\ ev.hasCache = (it.call \in Cache!Live)
       /\ ev.recordedSib = (Orphan(it) /\ Kin(it) # {})
       /\ ev.unverified = (Orphan(it) /\ SignedOthers(it) # {} /\ Kin(it) = {} /\ ~it.foreign)
  BY <1>8, <1>9, Zenon
<1> QED BY <1>8, <1>10, <1>11, <1>12, <1>13, Zenon DEF ev

(* The signature a call is sent with.                                      *)
LEMMA ResolvedKnown ==
  ASSUME ChatInv, NEW k \in CallItems
  PROVE  P!ResolveToolSignature(Evidence(input[k])) \in Sigs \cup {Marker, NoSig}
<1> DEFINE ev == Evidence(input[k])
<1>1. ev.carrierSig \in Sigs \cup {NoSig} /\ ev.cacheSig \in Sigs \cup {NoSig} /\ ev.leadSig \in Sigs \cup {NoSig}
  BY EvidenceKnown, CarrierSigKnown, CacheSigOf DEF ChatInv
<1> HIDE DEF ev
<1>2. P!NativeSignature(ev) \in Sigs \cup {NoSig}
  BY <1>1 DEF P!NativeSignature
<1>3. P!ResolveToolSignature(ev) \in Sigs \cup {Marker, NoSig}
  BY <1>2, Resolved
<1> QED BY <1>3 DEF ev


-----------------------------------------------------------------------------
(* What is sent.                                                           *)

(* Calls of the turn go but do not change.                                 *)
Shrunk == \A x \in Cache!Live' \ Foreigners : x \in Cache!Live /\ records'.val[x] = records.val[x]

(* A step either sends nothing or translates the next item; a request in   *)
(* the making only sees other conversations besides.                       *)
LEMMA SentStep ==
  ASSUME ChatInv, [Next]_vars
  PROVE  \/ sent' = <<>>
         \/ UNCHANGED <<sent, input>> /\ Shrunk
         \/ /\ NextItem \in DOMAIN input /\ UNCHANGED input /\ UNCHANGED cacheVars
            /\ \/ sent' = Append(sent, Sent("text", NextItem, Completion, TextSig(input[NextItem])))
               \/ sent' = Append(sent, Sent("response", NextItem, OutboundId(input[NextItem].call), NoSig))
               \/ LET sig == P!ResolveToolSignature(Evidence(input[NextItem]))
                  IN /\ NextItem \in CallItems /\ sig # NoSig
                     /\ sent' = Append(sent, Sent("call", NextItem, OutboundId(input[NextItem].call), sig))
<1>1. phase \notin {"translating", "sent", "rejected"} => sent = <<>>
  BY DEF ChatInv, PhaseKnown
<1>2. UNCHANGED cacheVars => Shrunk
  BY DEF Shrunk, cacheVars, tables, Cache!Live
<1>3. CASE ChatNext /\ UNCHANGED requestVars
  <2>1. phase \in {"idle", "reading", "closing"} /\ sent' = sent
    BY <1>3 DEF ChatNext, requestVars, Answer, HandlePart, Terminal, StorePut, Done, Break, CanBreak
  <2> QED BY <1>1, <2>1
<1>4. CASE Replay \/ Scan \/ SaveStep \/ Restart
  BY <1>1, <1>4 DEF Replay, Scan, SaveStep, Restart, requestVars
<1>5. CASE TranslateText
  BY <1>5 DEF TranslateText
<1>6. CASE TranslateOutput
  BY <1>6 DEF TranslateOutput, OutputItems
<1>7. CASE TranslateCall
  <2> DEFINE sig == P!ResolveToolSignature(Evidence(input[NextItem]))
  <2>1. /\ NextItem \in CallItems /\ UNCHANGED input /\ UNCHANGED cacheVars
        /\ IF sig = NoSig
           THEN phase' = "rejected" /\ UNCHANGED sent
           ELSE sent' = Append(sent, Sent("call", NextItem, OutboundId(input[NextItem].call), sig))
    BY <1>7 DEF TranslateCall
  <2>2. NextItem \in DOMAIN input
    BY <2>1 DEF CallItems
  <2> HIDE DEF sig
  <2>3. CASE sig = NoSig
    BY <1>2, <2>1, <2>3
  <2>4. CASE sig # NoSig
    BY <2>1, <2>2, <2>4 DEF sig
  <2> QED BY <2>3, <2>4
<1>8. CASE Send \/ UNCHANGED vars
  BY <1>2, <1>8 DEF Send, requestVars, vars
<1>9. CASE Others
  <2>1. OtherPut /\ UNCHANGED ids /\ UNCHANGED <<sent, input>>
    BY <1>9 DEF Others, turnVars, requestVars
  <2>2. CacheKnown /\ ids \in Seq(TurnCall)
    BY DEF ChatInv, TurnKnown
  <2> QED BY <2>1, <2>2, OtherPutShrinks DEF Shrunk
<1> QED BY <1>3, <1>4, <1>5, <1>6, <1>7, <1>8, <1>9 DEF Next

(* The items sent before a step, and the one it adds.                      *)
LEMMA SentAppended ==
  ASSUME ChatInv, NEW it, sent' = Append(sent, it)
  PROVE  /\ NextItem \in Nat /\ sent'[NextItem] = it
         /\ \A k \in DOMAIN sent' : k = NextItem \/ (k \in DOMAIN sent /\ sent'[k] = sent[k])
<1>1. sent \in Seq(ToSet(sent))
  BY DEF ChatInv, SentKnown
<1>2. NextItem = Len(sent) + 1 /\ Len(sent) \in Nat /\ DOMAIN sent = 1..Len(sent)
  BY <1>1 DEF NextItem
<1>3. DOMAIN sent' = 1..NextItem /\ sent'[NextItem] = it /\ \A k \in DOMAIN sent : sent'[k] = sent[k]
  BY <1>1, <1>2
<1> QED BY <1>2, <1>3

(* The calls sent before a step, and the one it adds.                      *)
LEMMA CallSent ==
  ASSUME ChatInv, [Next]_vars, NEW k \in SentCalls'
  PROVE  \/ /\ k \in SentCalls /\ sent'[k] = sent[k] /\ input' = input
            /\ ItemSent(k) = input[k] /\ ItemSent(k)' = input[k] /\ k \in CallItems
            /\ Shrunk
         \/ /\ k \in CallItems /\ input' = input /\ UNCHANGED cacheVars
            /\ ItemSent(k)' = input[k]
            /\ sent'[k].sig = P!ResolveToolSignature(Evidence(input[k])) /\ sent'[k].sig # NoSig
<1>1. k \in DOMAIN sent' /\ sent'[k].type = "call"
  BY DEF SentCalls
<1>2. ASSUME k \in DOMAIN sent, sent'[k] = sent[k], input' = input
      PROVE  k \in SentCalls /\ ItemSent(k) = input[k] /\ ItemSent(k)' = input[k] /\ k \in CallItems
  <2>1. sent[k].item = k /\ input[k].type = "call" /\ Len(sent) <= Len(input)
        /\ sent \in Seq(ToSet(sent)) /\ input \in Seq(RequestItem)
    BY <1>1, <1>2 DEF ChatInv, SentKnown, InputKnown
  <2>2. k \in DOMAIN input
    BY <1>2, <2>1
  <2> QED BY <1>1, <1>2, <2>1, <2>2 DEF SentCalls, ItemSent, CallItems
<1>3. CASE sent' = <<>>
  BY <1>1, <1>3
<1>4. CASE UNCHANGED <<sent, input>> /\ Shrunk
  BY <1>1, <1>2, <1>4
<1>5. ASSUME NEW type, NEW id, NEW sig, UNCHANGED input, UNCHANGED cacheVars,
             sent' = Append(sent, Sent(type, NextItem, id, sig)),
             type = "call" => /\ NextItem \in CallItems /\ sig # NoSig
                              /\ sig = P!ResolveToolSignature(Evidence(input[NextItem]))
      PROVE  \/ /\ k \in SentCalls /\ sent'[k] = sent[k] /\ input' = input
                /\ ItemSent(k) = input[k] /\ ItemSent(k)' = input[k] /\ k \in CallItems
                /\ Shrunk
             \/ /\ k \in CallItems /\ input' = input /\ UNCHANGED cacheVars
                /\ ItemSent(k)' = input[k]
                /\ sent'[k].sig = P!ResolveToolSignature(Evidence(input[k])) /\ sent'[k].sig # NoSig
  <2> DEFINE it == Sent(type, NextItem, id, sig)
  <2>1. it.type = type /\ it.item = NextItem /\ it.sig = sig
    BY DEF Sent
  <2>2. sent' = Append(sent, it)
    BY <1>5
  <2> HIDE DEF it
  <2>3. /\ NextItem \in Nat /\ sent'[NextItem] = it
        /\ k = NextItem \/ (k \in DOMAIN sent /\ sent'[k] = sent[k])
    BY <1>1, <2>2, SentAppended
  <2>4. CASE k = NextItem
    <3>1. sent'[k] = it /\ type = "call"
      BY <1>1, <2>1, <2>3, <2>4
    <3>2. ItemSent(k)' = input[k]
      BY <1>5, <2>1, <2>4, <3>1 DEF ItemSent
    <3> QED BY <1>5, <2>1, <2>4, <3>1, <3>2
  <2>5. CASE k \in DOMAIN sent /\ sent'[k] = sent[k]
    BY <1>2, <1>5, <2>5 DEF Shrunk, cacheVars, tables, Cache!Live
  <2> QED BY <2>3, <2>4, <2>5
<1>6. CASE /\ UNCHANGED input /\ UNCHANGED cacheVars
           /\ \/ sent' = Append(sent, Sent("text", NextItem, Completion, TextSig(input[NextItem])))
              \/ sent' = Append(sent, Sent("response", NextItem, OutboundId(input[NextItem].call), NoSig))
  <2>1. \E type \in {"text", "response"} : \E id, sig : sent' = Append(sent, Sent(type, NextItem, id, sig))
    BY <1>6, Zenon
  <2>2. PICK type \in {"text", "response"} : \E id, sig : sent' = Append(sent, Sent(type, NextItem, id, sig))
    BY <2>1
  <2>3. PICK id, sig : sent' = Append(sent, Sent(type, NextItem, id, sig))
    BY <2>2
  <2> QED BY <1>5, <1>6, <2>2, <2>3
<1>7. CASE /\ UNCHANGED input /\ UNCHANGED cacheVars
           /\ LET sig == P!ResolveToolSignature(Evidence(input[NextItem]))
              IN /\ NextItem \in CallItems /\ sig # NoSig
                 /\ sent' = Append(sent, Sent("call", NextItem, OutboundId(input[NextItem].call), sig))
  BY <1>5, <1>7
<1> QED BY <1>3, <1>4, <1>6, <1>7, SentStep

(* A call the cache knows is sent with the arguments and the signature it  *)
(* was stored with, and never with the marker (provenance.go).             *)
THEOREM KnownSent == Spec => []KnownSentAsKnown
<1>1. Init => KnownSentAsKnown
  BY DEF Init, KnownSentAsKnown, SentCalls
<1>2. ChatInv /\ FileKnown /\ KnownSentAsKnown /\ [Next]_vars => KnownSentAsKnown'
  <2> SUFFICES ASSUME ChatInv, FileKnown, KnownSentAsKnown, [Next]_vars, NEW k \in SentCalls',
                      NEW x \in Cache!Found(ItemSent(k).call)'
               PROVE  /\ ItemSent(k)'.body = records'.val[x].call
                      /\ sent'[k].sig # Marker
                      /\ records'.val[x].sig # NoSig => sent'[k].sig = records'.val[x].sig
    BY DEF KnownSentAsKnown
  <2>1. CacheKnown /\ CacheKnown'
    BY InvStep DEF ChatInv
  <2>2. x = ItemSent(k)'.call /\ x \in Cache!Live'
    <3>1. Cache!Found(ItemSent(k).call)' = {ItemSent(k)'.call} \cap Cache!Live'
      BY <2>1 DEF CacheKnown, Cache!Found, Cache!Live
    <3> QED BY <3>1
  <2>3. CASE /\ k \in SentCalls /\ sent'[k] = sent[k] /\ input' = input
             /\ ItemSent(k) = input[k] /\ ItemSent(k)' = input[k] /\ k \in CallItems
             /\ Shrunk
    <3>1. x = input[k].call /\ x \notin Foreigners
      BY <2>2, <2>3, ItemKnown
    <3>2. x \in Cache!Live /\ records'.val[x] = records.val[x]
      BY <2>2, <2>3, <3>1 DEF Shrunk
    <3>3. x \in Cache!Found(ItemSent(k).call)
      BY <2>1, <2>3, <3>1, <3>2, FoundIsLive
    <3> QED BY <2>3, <3>2, <3>3 DEF KnownSentAsKnown
  <2>4. CASE /\ k \in CallItems /\ input' = input /\ UNCHANGED cacheVars
             /\ ItemSent(k)' = input[k]
             /\ sent'[k].sig = P!ResolveToolSignature(Evidence(input[k])) /\ sent'[k].sig # NoSig
    <3> DEFINE it == input[k]
               ev == Evidence(it)
    <3>1. records' = records /\ x = it.call /\ x \in Cache!Live
      BY <2>2, <2>4 DEF cacheVars, tables, Cache!Live
    <3>2. Cache!Found(it.call) = {x}
      BY <2>1, <3>1, FoundIsLive
    <3>3. /\ ev.cacheMismatch = CacheDisagrees(it) /\ ev.hasCache = TRUE
          /\ ev.cacheSig = records.val[x].sig /\ ev.cacheSig \in Sigs \cup {NoSig}
          /\ ev.carrierSig \in Sigs \cup {NoSig} /\ ev.leadSig \in Sigs \cup {NoSig}
      <4>1. CacheSig(x) = records.val[x].sig /\ CacheSig(x) \in Sigs \cup {NoSig}
        BY <2>1, <3>1, CacheSigOf
      <4> QED BY <2>4, <3>1, <4>1, EvidenceKnown, CarrierSigKnown
    <3>4. CacheDisagrees(it) = (records.val[x].call # it.body)
      BY <3>2 DEF CacheDisagrees
    <3> HIDE DEF ev
    <3>5. P!ClassifyToolCall(ev) # "mismatched" /\ sent'[k].sig = P!ResolveToolSignature(ev)
      BY <2>4, Resolved DEF ev
    <3>6. ~ev.cacheMismatch /\ P!ClassifyToolCall(ev) = "native"
      BY <3>3, <3>5 DEF P!ClassifyToolCall
    <3>7. sent'[k].sig = P!NativeSignature(ev)
      BY <2>4, <3>5, <3>6, Resolved
    <3>8. P!NativeSignature(ev) # Marker /\ (ev.cacheSig # NoSig => P!NativeSignature(ev) = ev.cacheSig)
      BY <3>3, SignaturesAssumption DEF P!NativeSignature
    <3>9. it.body = records.val[x].call
      BY <3>3, <3>4, <3>6
    <3> QED BY <2>4, <3>1, <3>3, <3>7, <3>8, <3>9
  <2> QED BY <2>3, <2>4, CallSent
<1> QED BY <1>1, <1>2, FileHolds, PTL DEF Spec

(* A call a client puts into a turn is sent with the marker, and, unless   *)
(* it is declared foreign, only when no other call has a signature the     *)
(* bridge can still find (provenance.go, translate.go).                    *)
THEOREM InjectedSentAsForeign == Spec => []InjectedNeverBorrows
<1>1. Init => InjectedNeverBorrows
  BY DEF Init, InjectedNeverBorrows, SentCalls
<1>2. ChatInv /\ FileKnown /\ InjectedNeverBorrows /\ [Next]_vars => InjectedNeverBorrows'
  <2> SUFFICES ASSUME ChatInv, FileKnown, InjectedNeverBorrows, [Next]_vars, NEW k \in SentCalls',
                      ItemSent(k)'.call = Injected
               PROVE  /\ sent'[k].sig = Marker
                      /\ \/ ItemSent(k)'.foreign
                         \/ \A j \in CallItems' : input'[j].call # Injected => OtherSig(input[j])' = NoSig
    BY DEF InjectedNeverBorrows
  <2>1. CacheKnown /\ CacheKnown'
    BY InvStep DEF ChatInv
  <2>2. CASE /\ k \in SentCalls /\ sent'[k] = sent[k] /\ input' = input
             /\ ItemSent(k) = input[k] /\ ItemSent(k)' = input[k] /\ k \in CallItems
             /\ Shrunk
    <3>1. /\ sent[k].sig = Marker
          /\ input[k].foreign \/ \A j \in CallItems : input[j].call # Injected => OtherSig(input[j]) = NoSig
      BY <2>2 DEF InjectedNeverBorrows
    <3>2. ASSUME NEW j \in CallItems, OtherSig(input[j]) = NoSig PROVE OtherSig(input[j])' = NoSig
      <4>1. input[j].sig = NoSig /\ CacheSig(input[j].call) = NoSig
        BY <3>2 DEF OtherSig
      <4>2. CacheSig(input[j].call)' = NoSig
        <5>1. CASE input[j].call \in Cache!Live'
          <6>1. input[j].call \in Cache!Live /\ records'.val[input[j].call] = records.val[input[j].call]
            BY <2>2, <5>1, ItemKnown DEF Shrunk
          <6>2. records.val[input[j].call].sig = NoSig
            BY <2>1, <4>1, <6>1, CacheSigOf
          <6>3. Cache!Found(input[j].call)' = {input[j].call}
            BY <2>1, <2>2, <5>1 DEF CacheKnown, Cache!Found, Cache!Live
          <6> QED BY <2>2, <6>1, <6>2, <6>3 DEF CacheSig
        <5>2. CASE input[j].call \notin Cache!Live'
          <6>1. Cache!Found(input[j].call)' = {}
            BY <2>1, <2>2, <5>2 DEF CacheKnown, Cache!Found, Cache!Live
          <6> QED BY <6>1 DEF CacheSig
        <5> QED BY <5>1, <5>2
      <4> QED BY <2>2, <4>1, <4>2 DEF OtherSig
    <3>3. CallItems' = CallItems
      BY <2>2 DEF CallItems
    <3> QED BY <2>2, <3>1, <3>2, <3>3
  <2>3. CASE /\ k \in CallItems /\ input' = input /\ UNCHANGED cacheVars
             /\ ItemSent(k)' = input[k]
             /\ sent'[k].sig = P!ResolveToolSignature(Evidence(input[k])) /\ sent'[k].sig # NoSig
    <3> DEFINE it == input[k]
               ev == Evidence(it)
    <3>1. it.call = Injected /\ it.call \notin Cache!Live /\ it.call \notin Names
      BY <2>3, ItemKnown
    <3>2. CarrierSig(it) = NoSig
      <4>1. it.sig = NoSig /\ \E j \in CallItems : input[j].call # Injected
        BY <2>3, <3>1 DEF ChatInv, InputKnown
      <4>2. input \in Seq(RequestItem)
        BY DEF ChatInv, InputKnown
      <4>3. Cardinality(CallItems) # 1
        BY <2>3, <3>1, <4>1, <4>2, OnlyCall
      <4> QED BY <4>1, <4>3 DEF CarrierSig
    <3>3. CacheSig(it.call) = NoSig /\ ~CacheDisagrees(it)
      <4>1. Cache!Found(it.call) = {}
        BY <2>1, <3>1, FoundIsLive
      <4> QED BY <4>1 DEF CacheSig, CacheDisagrees
    <3>4. Kin(it) = {}
      <4> SUFFICES ASSUME NEW j \in SignedOthers(it), IsVerifiedSibling(input[j].call, Injected) PROVE FALSE
        BY <3>1 DEF Kin
      <4>1. Injected \in SiblingsOf(input[j].call) \/ input[j].call \in SiblingsOf(Injected)
        BY <2>1, CanonicalIsName DEF IsVerifiedSibling
      <4>2. Injected \notin Names
        BY NamesDistinct
      <4> QED BY <2>1, <4>1, <4>2 DEF SiblingsOf, CacheKnown
    <3>5. /\ ev.hasCarrier = FALSE /\ ev.hasCache = FALSE
          /\ ev.foreign = it.foreign /\ ev.unverified = (SignedOthers(it) # {} /\ ~it.foreign)
      <4>1. /\ ev.hasCarrier = (CarrierSig(it) # NoSig) /\ ev.hasCache = (it.call \in Cache!Live)
            /\ ev.foreign = it.foreign
            /\ ev.unverified = (Orphan(it) /\ SignedOthers(it) # {} /\ Kin(it) = {} /\ ~it.foreign)
        BY <2>3, EvidenceKnown
      <4>2. Orphan(it)
        BY <3>2, <3>3 DEF Orphan
      <4> HIDE DEF ev, it
      <4>3. ev.hasCarrier = FALSE
        BY <3>2, <4>1
      <4>4. ev.hasCache = FALSE
        <5>1. (it.call \in Cache!Live) = FALSE
          BY <3>1
        <5> QED BY <4>1, <5>1, Zenon
      <4>5. ev.unverified = (SignedOthers(it) # {} /\ ~it.foreign)
        <5>1. (Orphan(it) /\ SignedOthers(it) # {} /\ Kin(it) = {} /\ ~it.foreign)
                = (SignedOthers(it) # {} /\ ~it.foreign)
          BY <3>4, <4>2
        <5> QED BY <4>1, <5>1
      <4> QED BY <4>1, <4>3, <4>4, <4>5
    <3> HIDE DEF ev
    <3>6. P!ClassifyToolCall(ev) # "mismatched" /\ sent'[k].sig = P!ResolveToolSignature(ev)
      BY <2>3, Resolved DEF ev
    <3>7. P!ClassifyToolCall(ev) # "native"
      BY <3>5 DEF P!ClassifyToolCall
    <3>8. sent'[k].sig = Marker
      BY <2>3, <3>6, <3>7, Resolved
    <3>9. it.foreign \/ ~ev.unverified
      BY <3>5, <3>6 DEF P!ClassifyToolCall
    <3>10. it.foreign \/ SignedOthers(it) = {}
      BY <3>5, <3>9
    <3>11. CallItems' = CallItems /\ \A j \in CallItems : OtherSig(input[j])' = OtherSig(input[j])
      BY <2>3 DEF CallItems, OtherSig, CacheSig, Cache!Found, Cache!Live, cacheVars, tables
    <3>12. SignedOthers(it) = {} => \A j \in CallItems : input[j].call # Injected => OtherSig(input[j]) = NoSig
      BY <3>1 DEF SignedOthers
    <3> QED BY <2>3, <3>8, <3>10, <3>11, <3>12
  <2> QED BY <2>2, <2>3, CallSent
<1> QED BY <1>1, <1>2, FileHolds, PTL DEF Spec

-----------------------------------------------------------------------------
(* A faithful client is never rejected.                                    *)

(* The items of a request that alters nothing, by number.                  *)
LEMMA FaithfulItems ==
  ASSUME ChatInv, phase \in {"scanning", "translating"}, Faithful, NamedOnce
  PROVE  \E t \in {0, 1}, n \in Nat :
           /\ DOMAIN ids = 1..n /\ Len(told.calls) = n
           /\ CallItems = (t + 1)..(t + n) /\ OutputItems = (t + n + 1)..(t + n + n)
           /\ \A i \in 1..n :
                /\ input[t + i].call = ids[i] /\ input[t + n + i].call = ids[i]
                /\ input[t + i].body = Arguments(told.calls[i])
                /\ input[t + i].sig = IF "signatures" \in keeps THEN told.calls[i].sig ELSE NoSig
<1>1. UnalteredInput /\ ids \in Seq(TurnCall) /\ CallsTold /\ input \in Seq(RequestItem)
  BY DEF ChatInv, RequestKnown, Faithful, TurnKnown, InputKnown
<1>2. PICK n \in Nat : n = Len(ids)
  BY <1>1
<1>3. PICK t \in {0, 1} : t = TextItems
  BY DEF TextItems
<1>4. /\ DOMAIN ids = 1..n /\ Len(told.calls) = n /\ \A i \in 1..n : told.calls[i].call = ids[i]
  <2>1. DOMAIN ids = 1..n
    BY <1>1, <1>2
  <2>2. Len(told.calls) = Len(ids) /\ \A i \in DOMAIN ids : CallTold(i)
    BY <1>1 DEF CallsTold
  <2>3. \A i \in DOMAIN ids : told.calls[i].call = ids[i]
    BY <2>2 DEF CallTold
  <2> QED BY <1>2, <2>1, <2>2, <2>3
<1>5. /\ Len(input) = t + n + n
      /\ \A i \in 1..t : input[i].type = "text"
      /\ \A i \in 1..n :
           /\ input[t + i] = Item("call", told.calls[i].call, Arguments(told.calls[i]),
                                  IF "signatures" \in keeps THEN told.calls[i].sig ELSE NoSig)
           /\ input[t + n + i] = Item("output", told.calls[i].call, <<>>, NoSig)
  BY <1>1, <1>3, <1>4 DEF UnalteredInput
<1>6. \A i \in 1..n :
        /\ input[t + i].type = "call" /\ input[t + n + i].type = "output"
        /\ input[t + i].call = ids[i] /\ input[t + n + i].call = ids[i]
        /\ input[t + i].body = Arguments(told.calls[i])
        /\ input[t + i].sig = IF "signatures" \in keeps THEN told.calls[i].sig ELSE NoSig
  <2> TAKE i \in 1..n
  <2> DEFINE sig == IF "signatures" \in keeps THEN told.calls[i].sig ELSE NoSig
  <2>1. /\ input[t + i] = Item("call", told.calls[i].call, Arguments(told.calls[i]), sig)
        /\ input[t + n + i] = Item("output", told.calls[i].call, <<>>, NoSig)
        /\ told.calls[i].call = ids[i]
    BY <1>4, <1>5
  <2> HIDE DEF sig
  <2>2. /\ input[t + i].type = "call" /\ input[t + n + i].type = "output"
        /\ input[t + i].call = ids[i] /\ input[t + n + i].call = ids[i]
        /\ input[t + i].body = Arguments(told.calls[i])
        /\ input[t + i].sig = sig
    BY <2>1 DEF Item
  <2> QED BY <2>2 DEF sig
<1>7. DOMAIN input = 1..(t + n + n)
  BY <1>1, <1>5
<1>8. ASSUME NEW k \in DOMAIN input
      PROVE  /\ k \in 1..t \/ k \in (t + 1)..(t + n) \/ k \in (t + n + 1)..(t + n + n)
             /\ k \in 1..t => input[k].type = "text"
             /\ k \in (t + 1)..(t + n) => input[k].type = "call"
             /\ k \in (t + n + 1)..(t + n + n) => input[k].type = "output"
  <2>1. k \in (t + 1)..(t + n) => k - t \in 1..n /\ k = t + (k - t)
    BY <1>7
  <2>2. k \in (t + n + 1)..(t + n + n) => k - (t + n) \in 1..n /\ k = t + n + (k - (t + n))
    BY <1>7
  <2>3. k \in (t + 1)..(t + n) => input[k].type = "call"
    BY <1>6, <2>1
  <2>4. k \in (t + n + 1)..(t + n + n) => input[k].type = "output"
    BY <1>6, <2>2
  <2> QED BY <1>5, <1>7, <2>3, <2>4
<1>9. CallItems = (t + 1)..(t + n)
  <2>1. \A k \in (t + 1)..(t + n) : k \in DOMAIN input
    BY <1>7
  <2>2. \A k \in CallItems : k \in DOMAIN input /\ input[k].type = "call"
    BY DEF CallItems
  <2>3. \A k \in (t + 1)..(t + n) : k \in CallItems
    BY <1>8, <2>1 DEF CallItems
  <2> QED BY <1>8, <2>2, <2>3
<1>10. OutputItems = (t + n + 1)..(t + n + n)
  <2>1. \A k \in (t + n + 1)..(t + n + n) : k \in DOMAIN input
    BY <1>7
  <2>2. \A k \in OutputItems : k \in DOMAIN input /\ input[k].type = "output"
    BY DEF OutputItems
  <2>3. \A k \in (t + n + 1)..(t + n + n) : k \in OutputItems
    BY <1>8, <2>1 DEF OutputItems
  <2> QED BY <1>8, <2>2, <2>3
<1> WITNESS t \in {0, 1}, n \in Nat
<1> QED BY <1>4, <1>6, <1>9, <1>10, Zenon

(* Its results find their calls.                                           *)
LEMMA FaithfulExchange ==
  ASSUME ChatInv, phase \in {"scanning", "translating"}, Faithful, NamedOnce
  PROVE  ValidExchange
<1>1. PICK t \in {0, 1}, n \in Nat :
        /\ DOMAIN ids = 1..n
        /\ CallItems = (t + 1)..(t + n) /\ OutputItems = (t + n + 1)..(t + n + n)
        /\ \A i \in 1..n : input[t + i].call = ids[i] /\ input[t + n + i].call = ids[i]
  BY FaithfulItems
<1>2. CacheKnown /\ \A i \in 1..n : ids[i] \in Names
  BY <1>1, NamesDistinct DEF ChatInv, TurnKnown
<1>3. \A i, j \in 1..n : ids[i] = ids[j] => i = j
  BY <1>1 DEF NamedOnce
<1>4. \A k \in CallItems : k - t \in 1..n /\ k = t + (k - t)
  BY <1>1
<1>5. \A k \in OutputItems : k - (t + n) \in 1..n /\ k = t + n + (k - (t + n))
  BY <1>1
<1>6. ASSUME NEW i \in 1..n PROVE Callee(ids[i]) = ids[i]
  <2> DEFINE named == {k \in CallItems : ids[i] \in NamesOf(input[k].call)}
  <2>1. ASSUME NEW c PROVE ids[i] \in NamesOf(c) <=> c = ids[i]
    <3>1. Cache!Found(c) \subseteq {c}
      BY <1>2, FoundIsLive
    <3>2. \A x : Outbound(UpstreamID(x), x) = x \/ Outbound(UpstreamID(x), x) \notin Names
      BY NamesDistinct DEF Outbound
    <3> QED BY <1>2, <3>1, <3>2 DEF NamesOf
  <2>2. named = {t + i}
    <3>1. t + i \in CallItems /\ input[t + i].call = ids[i]
      BY <1>1
    <3>2. ASSUME NEW k \in CallItems, input[k].call = ids[i] PROVE k = t + i
      <4>1. PICK m \in 1..n : k = t + m
        BY <1>4
      <4>2. input[k].call = ids[m]
        BY <1>1, <4>1
      <4> QED BY <1>3, <3>2, <4>1, <4>2
    <3> QED BY <2>1, <3>1, <3>2
  <2>3. Max(named) = t + i
    <3> HIDE DEF named
    <3>1. named \subseteq 1..(t + i) /\ named # {} /\ t + i \in Nat
      BY <2>2
    <3>2. Max(named) \in named
      BY <3>1, MaxOfPositions
    <3> QED BY <2>2, <3>2
  <2>4. Callee(ids[i]) = input[Max(named)].call
    <3>1. named # {}
      BY <2>2
    <3> QED BY <3>1 DEF Callee
  <2> QED BY <1>1, <2>3, <2>4
<1>7. \A i, j \in CallItems : i < j => input[i].call # input[j].call
  <2> SUFFICES ASSUME NEW i \in CallItems, NEW j \in CallItems, input[i].call = input[j].call PROVE i = j
    BY <1>1
  <2>1. PICK m \in 1..n : i = t + m
    BY <1>4
  <2>2. PICK l \in 1..n : j = t + l
    BY <1>4
  <2>3. ids[m] = ids[l]
    BY <1>1, <2>1, <2>2
  <2> QED BY <1>3, <2>1, <2>2, <2>3
<1>8. ASSUME NEW i \in OutputItems
      PROVE  /\ \E j \in CallItems : j < i /\ input[j].call = Callee(input[i].call)
             /\ \A j \in OutputItems : j < i => Callee(input[j].call) # Callee(input[i].call)
  <2>1. PICK m \in 1..n : i = t + n + m
    BY <1>5
  <2>2. Callee(input[i].call) = ids[m]
    BY <1>1, <1>6, <2>1
  <2>3. t + m \in CallItems /\ t + m < i /\ input[t + m].call = ids[m]
    BY <1>1, <2>1
  <2>4. ASSUME NEW j \in OutputItems, j < i PROVE Callee(input[j].call) # ids[m]
    <3>1. PICK l \in 1..n : j = t + n + l
      BY <1>5
    <3>2. Callee(input[j].call) = ids[l] /\ l # m
      BY <1>1, <1>6, <2>1, <2>4, <3>1
    <3> QED BY <1>3, <3>2
  <2> QED BY <2>2, <2>3, <2>4
<1> QED BY <1>7, <1>8 DEF ValidExchange


(* Its calls are native, and a signature is found for each.                *)
LEMMA FaithfulCall ==
  ASSUME ChatInv, phase = "translating", Faithful, NamedOnce, SignedTurn, ~DetailsMislead,
         torn => AllSigned, NEW k \in CallItems
  PROVE  P!ResolveToolSignature(Evidence(input[k])) # NoSig
<1> DEFINE it == input[k]
           ev == Evidence(it)
<1>1. PICK t \in {0, 1}, n \in Nat :
        /\ DOMAIN ids = 1..n /\ Len(told.calls) = n
        /\ CallItems = (t + 1)..(t + n) /\ OutputItems = (t + n + 1)..(t + n + n)
        /\ \A i \in 1..n :
             /\ input[t + i].call = ids[i] /\ input[t + n + i].call = ids[i]
             /\ input[t + i].body = Arguments(told.calls[i])
             /\ input[t + i].sig = IF "signatures" \in keeps THEN told.calls[i].sig ELSE NoSig
  BY FaithfulItems
<1>2. PICK i \in 1..n : k = t + i
  <2>1. k - t \in 1..n /\ k = t + (k - t)
    BY <1>1
  <2> QED BY <2>1
<1>3. /\ it.call = ids[i] /\ it.body = Arguments(told.calls[i])
      /\ it.sig = IF "signatures" \in keeps THEN told.calls[i].sig ELSE NoSig
  BY <1>1, <1>2
<1>4. /\ CacheKnown /\ CallsTold /\ ids \in Seq(TurnCall) /\ answer \in Seq(AnswerPart)
      /\ SiblingsStored \/ AllSigned
  BY DEF ChatInv, SiblingsKnown, Replaying, Faithful, TurnKnown
<1>5. \A j \in 1..n : ids[j] \in Cache!Live /\ CallTold(j)
  BY <1>1, <1>4 DEF Faithful, ToSet, CallsTold
<1>6. FirstTold
  BY <1>4 DEF CallsTold
<1>7. \A j \in 1..n : CacheSig(ids[j]) = told.calls[j].sig
  <2> TAKE j \in 1..n
  <2>1. records.val[ids[j]]
          = [call |-> Head(told.calls[j].chunks), sig |-> told.calls[j].sig, legacy |-> FALSE]
    BY <1>5 DEF CallTold
  <2> QED BY <1>4, <1>5, <2>1, CacheSigOf
<1>8. ~CacheDisagrees(it)
  <2>1. Cache!Found(it.call) = {ids[i]}
    BY <1>2, <1>3, <1>4, <1>5, FoundIsLive
  <2>2. records.val[ids[i]].call = Head(told.calls[i].chunks) /\ Len(told.calls[i].chunks) = 1
    <3>1. /\ records.val[ids[i]]
               = [call |-> Head(told.calls[i].chunks), sig |-> told.calls[i].sig, legacy |-> FALSE]
          /\ Len(told.calls[i].chunks) = 1
      BY <1>2, <1>5 DEF CallTold
    <3> QED BY <3>1
  <2> QED BY <1>3, <2>1, <2>2 DEF CacheDisagrees, Arguments
<1>9. it.call \in matched
  <2>1. t + n + i \in OutputItems
    BY <1>1, <1>2
  <2> QED BY <1>1, <1>2, <1>3, <2>1 DEF ChatInv, MatchedKnown
<1>10. CarrierSig(it) # NoSig /\ CacheSig(it.call) # NoSig => CarrierSig(it) = CacheSig(it.call)
  <2> SUFFICES ASSUME CarrierSig(it) # NoSig, CacheSig(it.call) # NoSig PROVE CarrierSig(it) = told.calls[i].sig
    BY <1>2, <1>3, <1>7
  <2>1. CASE it.sig # NoSig
    BY <1>3, <2>1 DEF CarrierSig
  <2>2. CASE it.sig = NoSig
    <3>1. CarrierSig(it) = DetailsSig /\ Cardinality(CallItems) = 1 /\ DetailsSig # NoSig
      BY <2>2 DEF CarrierSig
    <3>2. "details" \in keeps /\ told.sig # NoSig /\ DetailsSig = told.sig
      BY <3>1, DetailsSigKnown
    <3>3. "signatures" \notin keeps
      BY <1>2, <1>3, <1>7, <2>2
    <3>4. told.sig = told.calls[1].sig
      BY <3>1, <3>2, <3>3 DEF DetailsMislead
    <3>5. i = 1
      <4>1. t + 1 \in CallItems /\ input \in Seq(RequestItem)
        BY <1>1, <1>2 DEF ChatInv, InputKnown
      <4>2. t + 1 = k
        BY <3>1, <4>1, OnlyCall
      <4> QED BY <1>2, <4>2
    <3> QED BY <3>1, <3>2, <3>4, <3>5
  <2> QED BY <2>1, <2>2
<1>11. CarrierSig(it) = NoSig /\ CacheSig(it.call) = NoSig => Orphan(it) /\ Kin(it) # {}
  <2> SUFFICES ASSUME CarrierSig(it) = NoSig, CacheSig(it.call) = NoSig PROVE Kin(it) # {}
    BY <1>8 DEF Orphan
  <2>1. told.calls[i].sig = NoSig
    BY <1>2, <1>3, <1>7
  <2>2. PICK j \in CallParts : j <= Handled /\ answer[j].sig = NoSig
    <3>1. \E j \in CallParts : j <= Handled /\ told.calls[i].sig = answer[j].sig
      BY <1>2, <1>5 DEF CallTold
    <3> QED BY <2>1, <3>1
  <2>3. PICK f \in CallParts : answer[f].sig # NoSig /\ \A l \in CallParts : f <= l
    BY <2>2 DEF SignedTurn
  <2>4. f <= Handled
    <3>1. f \in Nat /\ j \in Nat /\ f <= j /\ Handled \in Int
      BY <1>4, <2>2, <2>3 DEF CallParts, Handled, ChatInv, TurnKnown
    <3> QED BY <2>2, <3>1
  <2>5. told.calls[1].sig # NoSig
    BY <1>6, <2>3, <2>4 DEF FirstTold
  <2>6. i # 1 /\ 1 \in 1..n /\ n > 1
    BY <1>1, <1>2, <2>1, <2>5
  <2>7. ids[1] # ids[i]
    <3>1. 1 \in DOMAIN ids /\ i \in DOMAIN ids /\ 1 < i
      BY <1>1, <1>2, <2>6
    <3> QED BY <3>1 DEF NamedOnce
  <2>8. t + 1 \in CallItems /\ input[t + 1].call = ids[1]
    BY <1>1, <2>6
  <2>9. OtherSig(input[t + 1]) # NoSig
    <3>1. CacheSig(ids[1]) # NoSig
      BY <1>7, <2>5, <2>6
    <3> QED BY <2>8, <3>1 DEF OtherSig
  <2>10. IsVerifiedSibling(ids[1], ids[i])
    <3>1. Len(ids) = n /\ Head(ids) = ids[1]
      BY <1>1, <1>4, <2>6
    <3>2. ids[i] \in ToSet(Tail(ids))
      <4>1. Len(Tail(ids)) = n - 1 /\ DOMAIN Tail(ids) = 1..(n - 1) /\ Tail(ids)[i - 1] = ids[i]
        BY <1>2, <1>4, <2>6, <3>1
      <4>2. i - 1 \in 1..(n - 1)
        BY <1>2, <2>6
      <4> QED BY <4>1, <4>2 DEF ToSet
    <3>3. ids[1] \in DOMAIN siblings /\ ids[i] \in siblings[ids[1]]
      <4>1. SiblingsStored
        BY <1>4, <2>2 DEF AllSigned
      <4> QED BY <4>1, <2>6, <2>7, <3>1, <3>2 DEF SiblingsStored
    <3>4. Canonical(ids[1]) = ids[1] /\ Canonical(ids[i]) = ids[i]
      BY <1>4, CanonicalIsName
    <3> QED BY <2>7, <3>3, <3>4 DEF IsVerifiedSibling, SiblingsOf
  <2> QED BY <1>3, <2>7, <2>8, <2>9, <2>10 DEF Kin, SignedOthers
<1>12. /\ ev.hasCarrier = (CarrierSig(it) # NoSig) /\ ev.carrierSig = CarrierSig(it)
       /\ ev.carrierMismatch = FALSE /\ ev.cacheMismatch = FALSE
       /\ ev.hasCache = TRUE /\ ev.cacheSig = CacheSig(it.call)
       /\ ev.hasOutput = TRUE
       /\ ev.recordedSib = (Orphan(it) /\ Kin(it) # {})
       /\ ev.recordedSib => ev.leadSig # NoSig
  <2>1. it.call \in Cache!Live
    BY <1>2, <1>3, <1>5
  <2>2. (it.call \in Cache!Live) = TRUE /\ CacheDisagrees(it) = FALSE /\ (it.call \in matched) = TRUE
    BY <1>8, <1>9, <2>1 DEF CacheDisagrees
  <2>3. /\ ev.hasCarrier = (CarrierSig(it) # NoSig) /\ ev.carrierSig = CarrierSig(it)
        /\ ev.carrierMismatch = FALSE /\ ev.cacheMismatch = CacheDisagrees(it)
        /\ ev.hasCache = (it.call \in Cache!Live) /\ ev.cacheSig = CacheSig(it.call)
        /\ ev.hasOutput = (it.call \in matched)
        /\ ev.recordedSib = (Orphan(it) /\ Kin(it) # {})
        /\ ev.recordedSib => ev.leadSig # NoSig
    BY EvidenceKnown
  <2> HIDE DEF ev, it
  <2> QED BY <2>2, <2>3, Zenon
<1> HIDE DEF ev
<1>13. ~P!Contradictory(ev)
  BY <1>10, <1>12 DEF P!Contradictory
<1>14. P!ClassifyToolCall(ev) = "native"
  BY <1>12, <1>13 DEF P!ClassifyToolCall
<1>15. P!NativeSignature(ev) # NoSig
  <2>1. CASE CacheSig(it.call) # NoSig
    BY <1>12, <2>1 DEF P!NativeSignature
  <2>2. CASE CacheSig(it.call) = NoSig /\ CarrierSig(it) # NoSig
    BY <1>12, <2>2 DEF P!NativeSignature
  <2>3. CASE CacheSig(it.call) = NoSig /\ CarrierSig(it) = NoSig
    <3>1. ev.recordedSib
      BY <1>11, <1>12, <2>3
    <3> QED BY <1>12, <2>3, <3>1 DEF P!NativeSignature
  <2> QED BY <2>1, <2>2, <2>3
<1>16. P!ResolveToolSignature(ev) = P!NativeSignature(ev)
  BY <1>12, <1>14, Resolved
<1> QED BY <1>15, <1>16 DEF ev

(* A client that sends a complete, signed turn back unaltered is never     *)
(* rejected while the cache has its calls, whatever it keeps of ids and    *)
(* signatures, whatever is evicted meanwhile and however old the file was  *)
(* that the daemon restarted from; unless the reasoning details mislead,   *)
(* or that file lacked siblings an unsigned call of the turn needs         *)
(* (translate.go, chat.go, signature_cache.go:120-135).                    *)
THEOREM FaithfulChatIsAccepted == Spec => []FaithfulChatAccepted
<1>1. Init => FaithfulChatAccepted
  BY DEF Init, ChatInit, FaithfulChatAccepted
<1>2. ChatInv /\ FaithfulChatAccepted /\ [Next]_vars => FaithfulChatAccepted'
  <2> SUFFICES ASSUME ChatInv, FaithfulChatAccepted, [Next]_vars, phase' = "rejected"
               PROVE  ~(Faithful /\ NamedOnce /\ SignedTurn /\ ~DetailsMislead /\ (torn => AllSigned))'
    BY DEF FaithfulChatAccepted
  <2>1. ASSUME UNCHANGED <<cacheVars, turnVars, keeps, deviations, input>>,
               ~(Faithful /\ NamedOnce /\ SignedTurn /\ ~DetailsMislead /\ (torn => AllSigned))
        PROVE  ~(Faithful /\ NamedOnce /\ SignedTurn /\ ~DetailsMislead /\ (torn => AllSigned))'
    <3>1. UNCHANGED <<records, torn, ids, told, broken, answer, keeps, deviations, input>>
      BY <2>1 DEF cacheVars, tables, disk, turnVars
    <3> QED BY <2>1, <3>1 DEF Faithful, NamedOnce, SignedTurn, AllSigned, DetailsMislead, CallItems, CallParts, Cache!Live
  <2>2. CASE Scan
    <3>1. phase = "scanning" /\ ~ValidExchange /\ UNCHANGED <<cacheVars, turnVars, keeps, deviations, input>>
      BY <2>2 DEF Scan
    <3>2. ~(Faithful /\ NamedOnce)
      BY <3>1, FaithfulExchange
    <3> QED BY <2>1, <3>1, <3>2
  <2>3. CASE TranslateCall
    <3>1. /\ phase = "translating" /\ NextItem \in CallItems
          /\ P!ResolveToolSignature(Evidence(input[NextItem])) = NoSig
          /\ UNCHANGED <<cacheVars, turnVars, keeps, deviations, input>>
      BY <2>3 DEF TranslateCall
    <3>2. ~(Faithful /\ NamedOnce /\ SignedTurn /\ ~DetailsMislead /\ (torn => AllSigned))
      BY <3>1, FaithfulCall
    <3> QED BY <2>1, <3>1, <3>2
  <2>4. CASE UNCHANGED vars
    <3>1. phase = "rejected" /\ UNCHANGED <<cacheVars, turnVars, keeps, deviations, input>>
      BY <2>4 DEF vars, requestVars
    <3> QED BY <2>1, <3>1 DEF FaithfulChatAccepted
  <2>5. ASSUME ~Scan, ~TranslateCall, ~UNCHANGED vars PROVE FALSE
    <3>1. Next
      BY <2>5
    <3>2. ~ChatNext
      BY DEF ChatNext, Answer, HandlePart, Terminal, StorePut, Done, Break
    <3>3. ~Replay /\ ~TranslateText /\ ~TranslateOutput /\ ~Send /\ ~Others /\ ~SaveStep /\ ~Restart
      BY DEF Replay, TranslateText, TranslateOutput, Send, Others, SaveStep, Restart
    <3> QED BY <2>5, <3>1, <3>2, <3>3 DEF Next
  <2> QED BY <2>2, <2>3, <2>4, <2>5
<1> QED BY <1>1, <1>2, InvHolds, PTL DEF Spec


-----------------------------------------------------------------------------
(* The words and the last signature of one part more.                      *)
WordsOf(i) == IF answer[i].kind = "text" THEN answer[i].body ELSE <<>>

LEMMA WordsStep ==
  ASSUME answer \in Seq(AnswerPart), NEW n \in Nat, n + 1 \in DOMAIN answer
  PROVE  WordsUpTo(n + 1) = WordsUpTo(n) \o WordsOf(n + 1)
<1>1. \A i \in 1..(n + 1) : WordsOf(i) \in Seq(Nat)
  <2> TAKE i \in 1..(n + 1)
  <2>1. answer[i] \in AnswerPart
    OBVIOUS
  <2> QED BY <2>1 DEF WordsOf, AnswerPart
<1> DEFINE s == [i \in 1..n |-> WordsOf(i)]
           r == [i \in 1..(n + 1) |-> WordsOf(i)]
<1>2. WordsUpTo(n) = FlattenSeq(s) /\ WordsUpTo(n + 1) = FlattenSeq(r)
  BY DEF WordsUpTo, WordsOf
<1>3. s \in Seq(Seq(Nat)) /\ r = Append(s, WordsOf(n + 1)) /\ WordsOf(n + 1) \in Seq(Nat)
  BY <1>1
<1> HIDE DEF s, r
<1> QED BY <1>2, <1>3, FlattenAppend

LEMMA SigStep ==
  ASSUME answer \in Seq(AnswerPart), NEW n \in Nat, n + 1 \in DOMAIN answer
  PROVE  SigUpTo(n + 1) = IF n + 1 \in TextSigs THEN answer[n + 1].sig ELSE SigUpTo(n)
<1> DEFINE before == {i \in TextSigs : i <= n}
           signed == {i \in TextSigs : i <= n + 1}
<1>1. TextSigs \subseteq 1..Len(answer) /\ Len(answer) \in Nat
  BY DEF TextSigs
<1>2. CASE n + 1 \in TextSigs
  <2>1. signed \subseteq 1..Len(answer) /\ n + 1 \in signed /\ \A i \in signed : i <= n + 1 /\ i \in Nat
    <3>1. n + 1 <= n + 1 /\ \A i \in TextSigs : i \in Nat
      BY <1>1
    <3> QED BY <1>1, <1>2, <3>1
  <2> HIDE DEF signed
  <2>2. Max(signed) \in signed /\ n + 1 <= Max(signed)
    BY <1>1, <2>1, MaxOfPositions
  <2>3. Max(signed) = n + 1
    <3>1. Max(signed) \in Nat /\ Max(signed) <= n + 1
      BY <2>1, <2>2
    <3> QED BY <2>2, <3>1
  <2> QED BY <1>2, <2>1, <2>3 DEF SigUpTo, signed
<1>3. CASE n + 1 \notin TextSigs
  <2>1. signed = before
    <3>1. \A i \in TextSigs : i \in Nat /\ (i <= n + 1 => i <= n)
      BY <1>1, <1>3
    <3>2. \A i \in TextSigs : i <= n => i <= n + 1
      BY <1>1
    <3> QED BY <3>1, <3>2
  <2> QED BY <1>3, <2>1 DEF SigUpTo
<1> QED BY <1>2, <1>3

-----------------------------------------------------------------------------
(* What is stored of the text of an answer.                                *)

(* A table over one key is over any other when it is empty.                *)
LEMMA EmptyContexts ==
  ASSUME ContextStored, DOMAIN contexts.val = {}, UNCHANGED contexts
  PROVE  ContextStored'
<1>0. contexts.order \in Seq({ContextKey(told.text)}) /\ ToSet(contexts.order) = {}
  BY DEF ContextStored, Cache!IsTable
<1>1. contexts.order = <<>> /\ contexts.val \in [DOMAIN contexts.val -> {told'.sig}]
  <2>1. contexts.order # <<>> => contexts.order[1] \in ToSet(contexts.order)
    BY <1>0 DEF ToSet
  <2> QED BY <1>0, <2>1 DEF ContextStored, Cache!IsTable
<1>2. Cache!IsTable(contexts, {ContextKey(told.text)}', {told.sig}')
  BY <1>1 DEF ContextStored, Cache!IsTable
<1> QED BY <1>2 DEF ContextStored

(* The text is kept while the request is made.                             *)
LEMMA TextKept ==
  ASSUME TextKnown, UNCHANGED turnVars, phase' = phase \/ (phase \in Replaying /\ phase' \in Replaying),
         DOMAIN msgs'.val \subseteq DOMAIN msgs.val, DOMAIN siblings' \subseteq DOMAIN siblings,
         DOMAIN contexts'.val \subseteq DOMAIN contexts.val, ContextStored'
  PROVE  TextKnown'
<1>1. UNCHANGED <<mode, answer, rest, ids, told, broken, todo>>
  BY DEF turnVars
<1>2. \A n : WordsUpTo(n)' = WordsUpTo(n) /\ SigUpTo(n)' = SigUpTo(n)
  BY <1>1 DEF WordsUpTo, SigUpTo, TextSigs
<1>3. Handled' = Handled /\ SiblingPuts' = SiblingPuts /\ TextPuts' = TextPuts
  BY <1>1 DEF Handled, SiblingPuts, TextPuts
<1>4. NothingStored => NothingStored'
  BY DEF NothingStored
<1>5. ~broken' => told'.text = WordsUpTo(Handled)' /\ told'.sig = SigUpTo(Handled)'
  <2>1. WordsUpTo(Handled)' = WordsUpTo(Handled) /\ SigUpTo(Handled)' = SigUpTo(Handled)
    BY <1>1, <1>3 DEF WordsUpTo, SigUpTo, TextSigs
  <2> QED BY <1>1, <2>1 DEF TextKnown
<1>6. phase' = "closing" => \/ NothingStored' /\ todo' \in {SiblingPuts' \o TextPuts', TextPuts'}
                            \/ Len(todo') < Len(TextPuts')
  BY <1>1, <1>3, <1>4 DEF TextKnown, Replaying
<1> QED BY <1>1, <1>4, <1>5, <1>6 DEF TextKnown, Replaying

LEMMA AnswerText == ChatInv /\ TextKnown /\ Answer => TextKnown'
<1> SUFFICES ASSUME ChatInv, TextKnown, Answer PROVE TextKnown'
  OBVIOUS
<1>1. /\ phase = "idle" /\ phase' = "reading" /\ answer' \in Answers /\ rest' = answer'
      /\ UNCHANGED cacheVars /\ UNCHANGED <<ids, told, broken, todo>>
  BY DEF Answer
<1>2. UNCHANGED <<contexts, msgs, siblings>>
  BY <1>1 DEF cacheVars, tables
<1>3. told.text = <<>> /\ told.sig = NoSig /\ ~told.ended /\ ~broken /\ DOMAIN siblings = {}
  BY <1>1 DEF ChatInv, PhaseKnown, TextKnown
<1>4. Handled' = 0
  <2>1. Len(answer') \in Nat
    BY <1>1, AnswersAssumption DEF IsAnswer
  <2> QED BY <1>1, <2>1 DEF Handled
<1>5. WordsUpTo(Handled)' = <<>> /\ SigUpTo(Handled)' = NoSig
  <2>1. WordsUpTo(Handled)' = FlattenSeq(<<>>)
    BY <1>4 DEF WordsUpTo
  <2>2. {i \in TextSigs' : i <= Handled'} = {}
    <3>1. TextSigs' \subseteq 1..Len(answer')
      BY <1>1, AnswersAssumption DEF TextSigs, IsAnswer
    <3>2. \A i \in TextSigs' : i \in Nat /\ i >= 1
      <4>1. Len(answer') \in Nat
        BY <1>1, AnswersAssumption DEF IsAnswer
      <4> QED BY <3>1, <4>1
    <3>3. \A i \in TextSigs' : ~(i <= 0)
      BY <3>2
    <3> QED BY <1>4, <3>3
  <2>3. SigUpTo(Handled)' = NoSig
    BY <2>2 DEF SigUpTo
  <2> QED BY <2>1, <2>3, FlattenNone
<1>6. ContextStored'
  BY <1>1, <1>2 DEF TextKnown, ContextStored
<1> QED BY <1>1, <1>2, <1>3, <1>5, <1>6 DEF TextKnown, Replaying

LEMMA PartText == ChatInv /\ TextKnown /\ HandlePart => TextKnown'
<1> SUFFICES ASSUME ChatInv, TextKnown, HandlePart PROVE TextKnown'
  OBVIOUS
<1> DEFINE part == Head(rest)
<1>1. /\ phase = "reading" /\ rest # <<>> /\ rest' = Tail(rest)
      /\ UNCHANGED <<phase, mode, answer, broken, todo>>
      /\ part.kind = "call" => HandleCall(part)
      /\ part.kind # "call" => HandleText(part)
  BY DEF HandlePart
<1>2. /\ answer \in Seq(AnswerPart) /\ Len(answer) \in Nat /\ Len(rest) \in Nat /\ Len(rest) > 0
      /\ Len(rest) <= Len(answer) /\ Len(rest') = Len(rest) - 1 /\ part = rest[1]
      /\ rest[1] = answer[Handled + 1] /\ DOMAIN answer = 1..Len(answer) /\ Handled = Len(answer) - Len(rest)
  BY <1>1 DEF ChatInv, TurnKnown, Handled
<1>3. /\ Handled \in Nat /\ Handled + 1 \in DOMAIN answer /\ part = answer[Handled + 1]
      /\ Handled' = Handled + 1
  <2>1. Handled' = Len(answer) - (Len(rest) - 1)
    BY <1>1, <1>2 DEF Handled
  <2> QED BY <1>2, <2>1
<1>4. part \in AnswerPart
  BY <1>2, <1>3
<1>5. /\ told.text = WordsUpTo(Handled) /\ told.sig = SigUpTo(Handled) /\ ~broken /\ ~told.ended
      /\ DOMAIN siblings = {} /\ DOMAIN contexts.val = {} /\ ContextStored
  BY <1>1 DEF TextKnown, ChatInv, PhaseKnown, ContextStored
<1>6. /\ told.calls \in Seq(ToldCallRecord) /\ told.text \in Seq(Nat)
      /\ told = [calls |-> told.calls, text |-> told.text, sig |-> told.sig, ended |-> told.ended]
  BY DEF ChatInv, ToldKnown, ToldCallRecord
<1>7. part.body \in Seq(Nat)
  BY <1>4 DEF AnswerPart
<1> HIDE DEF part
<1>8. /\ WordsUpTo(Handled') = told.text \o (IF part.kind = "text" THEN part.body ELSE <<>>)
      /\ SigUpTo(Handled') = IF Handled + 1 \in TextSigs THEN part.sig ELSE told.sig
  BY <1>2, <1>3, <1>5, WordsStep, SigStep DEF WordsOf
<1>9. Handled + 1 \in TextSigs <=> part.kind # "call" /\ SignatureOfText(part)
  BY <1>3 DEF TextSigs, SignatureOfText
<1>10. told.text \o <<>> = told.text
  BY <1>6
<1>11. /\ told'.text = WordsUpTo(Handled') /\ told'.sig = SigUpTo(Handled') /\ told'.ended = told.ended
       /\ UNCHANGED <<contexts, siblings>>
  <2>1. CASE part.kind = "call"
    <3>1. /\ Apply(ToolPut(BridgeId(part), part.body, part.sig, {}))
          /\ told' = [told EXCEPT !.calls = ToldCall(@, BridgeId(part), part)]
      BY <1>1, <2>1 DEF HandleCall
    <3>2. ApplyTool(ToolPut(BridgeId(part), part.body, part.sig, {})) /\ UNCHANGED siblings
      BY <3>1 DEF Apply, ToolPut
    <3>3. UNCHANGED contexts
      BY <3>2 DEF ApplyTool, Cache!PutToolRecord, tables
    <3>4. told'.text = told.text /\ told'.sig = told.sig /\ told'.ended = told.ended
      BY <1>6, <3>1
    <3> QED BY <1>8, <1>9, <1>10, <2>1, <3>2, <3>3, <3>4
  <2>2. CASE part.kind # "call"
    <3>1. /\ UNCHANGED cacheVars
          /\ told' = [told EXCEPT !.text = IF part.kind = "text" THEN @ \o part.body ELSE @,
                                  !.sig = IF SignatureOfText(part) THEN part.sig ELSE @]
      BY <1>1, <2>2 DEF HandleText
    <3>2. /\ told'.text = IF part.kind = "text" THEN told.text \o part.body ELSE told.text
          /\ told'.sig = IF SignatureOfText(part) THEN part.sig ELSE told.sig
          /\ told'.ended = told.ended
      BY <1>6, <3>1
    <3>3. UNCHANGED <<contexts, siblings>>
      BY <3>1 DEF cacheVars, tables
    <3> QED BY <1>8, <1>9, <1>10, <2>2, <3>2, <3>3
  <2> QED BY <2>1, <2>2
<1>12. WordsUpTo(Handled)' = WordsUpTo(Handled') /\ SigUpTo(Handled)' = SigUpTo(Handled')
  BY <1>1 DEF WordsUpTo, SigUpTo, TextSigs
<1>13. ContextStored'
  BY <1>5, <1>11, EmptyContexts
<1> QED BY <1>1, <1>5, <1>11, <1>12, <1>13 DEF TextKnown, Replaying


LEMMA TerminalText == ChatInv /\ TextKnown /\ Terminal => TextKnown'
<1> SUFFICES ASSUME ChatInv, TextKnown, Terminal PROVE TextKnown'
  OBVIOUS
<1>1. /\ phase = "reading" /\ rest = <<>> /\ phase' = "closing"
      /\ todo' = SiblingPuts \o TextPuts
      /\ told' = [told EXCEPT !.ended = TRUE]
      /\ UNCHANGED <<mode, answer, rest, ids, broken>> /\ UNCHANGED <<contexts, msgs, siblings>>
  BY DEF Terminal, cacheVars, tables
<1>2. ~broken /\ ~told.ended /\ DOMAIN msgs.val = {} /\ DOMAIN contexts.val = {}
  BY <1>1 DEF ChatInv, ToldKnown, PhaseKnown, TextKnown, ContextStored
<1>3. told = [calls |-> told.calls, text |-> told.text, sig |-> told.sig, ended |-> told.ended]
  BY DEF ChatInv, ToldKnown
<1>4. told'.text = told.text /\ told'.sig = told.sig /\ told'.ended = TRUE
  BY <1>1, <1>3
<1>5. WordsUpTo(Handled)' = WordsUpTo(Handled) /\ SigUpTo(Handled)' = SigUpTo(Handled)
  BY <1>1 DEF WordsUpTo, SigUpTo, TextSigs, Handled
<1>6. SiblingPuts' = SiblingPuts /\ TextPuts' = TextPuts
  BY <1>1, <1>4 DEF SiblingPuts, TextPuts
<1>7. NothingStored'
  BY <1>1, <1>2 DEF NothingStored
<1>8. ContextStored'
  BY <1>1, <1>4 DEF TextKnown, ContextStored
<1> QED BY <1>1, <1>2, <1>4, <1>5, <1>6, <1>7, <1>8 DEF TextKnown, Replaying

(* A closing put stores the context of the text at most.                   *)
LEMMA PutStored ==
  ASSUME ChatInv, TextKnown, StorePut
  PROVE  /\ ContextStored'
         /\ Head(todo) = SiblingsPut(Head(ids), ToSet(Tail(ids))) => UNCHANGED <<contexts, msgs>>
<1>1. todo # <<>> /\ Apply(Head(todo)) /\ UNCHANGED told /\ told.ended
  BY DEF StorePut, ChatInv, PhaseKnown
<1>2. Head(todo) \in ClosingPuts
  BY <1>1 DEF ChatInv, PhaseKnown
<1>3. /\ Cache!IsTable(contexts, {ContextKey(told.text)}, {told.sig})
      /\ ToSet(contexts.order) \subseteq DOMAIN contexts.val
  BY DEF TextKnown, ContextStored
<1>4. ASSUME UNCHANGED contexts PROVE ContextStored'
  BY <1>1, <1>3, <1>4 DEF ContextStored
<1>5. CASE Head(todo) = SiblingsPut(Head(ids), ToSet(Tail(ids)))
  <2>1. Apply(SiblingsPut(Head(ids), ToSet(Tail(ids))))
    BY <1>1, <1>5
  <2>2. UNCHANGED tables
    BY <2>1 DEF Apply, SiblingsPut, RecordTurnSiblings
  <2> QED BY <1>4, <2>2 DEF tables
<1>6. CASE told.sig # NoSig /\ Head(todo) = ContextPut(ContextKey(told.text), told.sig)
  <2> DEFINE c == ContextKey(told.text)
  <2>1. Cache!PutContextSignature(c, told.sig)
    <3>1. Apply(ContextPut(c, told.sig))
      BY <1>1, <1>6
    <3> HIDE DEF c
    <3> QED BY <3>1 DEF Apply, ContextPut
  <2> HIDE DEF c
  <2>2. Cache!IsTable(contexts, {c}, {told.sig})
    BY <1>3 DEF c
  <2>3. ~ Cache!Clash(c, told.sig)
    BY <2>2 DEF Cache!Clash, Cache!IsTable
  <2>4. contexts' = contexts \/ contexts' = Cache!Store(contexts, c, told.sig)
    BY <2>1, <2>3 DEF Cache!PutContextSignature
  <2>5. /\ Cache!IsTable(contexts', {c}, {told.sig})
        /\ ToSet(contexts'.order) \subseteq DOMAIN contexts'.val
    BY <1>3, <2>2, <2>4, StoreProperties
  <2>6. ContextStored'
    BY <1>1, <2>5 DEF ContextStored, c
  <2> QED BY <1>6, <2>6 DEF ContextPut, SiblingsPut
<1>7. CASE told.sig # NoSig /\ Head(todo) = MessagePut(Completion, told.sig)
  <2>1. Apply(MessagePut(Completion, told.sig))
    BY <1>1, <1>7
  <2>2. UNCHANGED contexts
    BY <2>1 DEF Apply, MessagePut, Cache!PutMessageSignature
  <2> QED BY <1>4, <1>7, <2>2 DEF MessagePut, SiblingsPut
<1> QED BY <1>2, <1>5, <1>6, <1>7 DEF ClosingPuts

LEMMA StorePutText == ChatInv /\ TextKnown /\ StorePut => TextKnown'
<1> SUFFICES ASSUME ChatInv, TextKnown, StorePut PROVE TextKnown'
  OBVIOUS
<1>1. /\ phase = "closing" /\ todo # <<>> /\ todo' = Tail(todo)
      /\ UNCHANGED <<phase, mode, answer, rest, ids, told, broken>>
  BY DEF StorePut
<1>2. told.ended /\ ~broken /\ rest = <<>> /\ todo \in Seq(ClosingPuts)
  BY <1>1 DEF ChatInv, PhaseKnown, TextKnown
<1>3. WordsUpTo(Handled)' = WordsUpTo(Handled) /\ SigUpTo(Handled)' = SigUpTo(Handled)
  BY <1>1 DEF WordsUpTo, SigUpTo, TextSigs, Handled
<1>4. SiblingPuts' = SiblingPuts /\ TextPuts' = TextPuts
  BY <1>1 DEF SiblingPuts, TextPuts
<1>5. SiblingPuts \in Seq(ClosingPuts) /\ TextPuts \in Seq(ClosingPuts)
  BY PutsKnown
<1>6. /\ ContextStored'
      /\ Head(todo) = SiblingsPut(Head(ids), ToSet(Tail(ids))) => UNCHANGED <<contexts, msgs>>
  BY PutStored
<1>7. \/ NothingStored' /\ todo' \in {SiblingPuts' \o TextPuts', TextPuts'}
      \/ Len(todo') < Len(TextPuts')
  <2>1. CASE NothingStored /\ todo = SiblingPuts \o TextPuts /\ Len(ids) > 1
    <3> DEFINE put == SiblingsPut(Head(ids), ToSet(Tail(ids)))
    <3>1. SiblingPuts = <<put>>
      BY <2>1 DEF SiblingPuts
    <3> HIDE DEF put
    <3>2. Head(todo) = put /\ Tail(todo) = TextPuts
      BY <1>5, <2>1, <3>1
    <3>3. NothingStored'
      BY <1>6, <2>1, <3>2 DEF NothingStored, put
    <3> QED BY <1>1, <1>4, <3>2, <3>3
  <2>2. CASE todo = TextPuts \/ Len(todo) < Len(TextPuts) \/ ~(Len(ids) > 1)
    <3>1. Len(todo) <= Len(TextPuts)
      <4>1. ~(Len(ids) > 1) => SiblingPuts \o TextPuts = TextPuts
        BY <1>5 DEF SiblingPuts
      <4>2. todo = SiblingPuts \o TextPuts \/ todo = TextPuts \/ Len(todo) < Len(TextPuts)
        BY <1>1 DEF TextKnown
      <4> QED BY <1>2, <1>5, <2>2, <4>1, <4>2
    <3>2. Len(todo') < Len(todo) /\ Len(todo') \in Nat /\ Len(todo) \in Nat /\ Len(TextPuts) \in Nat
      BY <1>1, <1>2, <1>5
    <3> QED BY <1>4, <3>1, <3>2
  <2> QED BY <1>1, <2>1, <2>2 DEF TextKnown
<1> QED BY <1>1, <1>2, <1>3, <1>6, <1>7 DEF TextKnown, Replaying

LEMMA DoneText == ChatInv /\ TextKnown /\ Done => TextKnown'
<1> SUFFICES ASSUME ChatInv, TextKnown, Done PROVE TextKnown'
  OBVIOUS
<1>1. /\ phase = "closing" /\ phase' = "answered"
      /\ UNCHANGED <<mode, answer, rest, ids, told, broken, todo>> /\ UNCHANGED <<contexts, msgs, siblings>>
  BY DEF Done, cacheVars, tables, turnVars
<1>2. told.ended /\ ~broken /\ rest = <<>>
  BY <1>1 DEF ChatInv, PhaseKnown, TextKnown
<1>3. WordsUpTo(Handled)' = WordsUpTo(Handled) /\ SigUpTo(Handled)' = SigUpTo(Handled)
  BY <1>1 DEF WordsUpTo, SigUpTo, TextSigs, Handled
<1>4. ContextStored'
  BY <1>1 DEF TextKnown, ContextStored
<1> QED BY <1>1, <1>2, <1>3, <1>4 DEF TextKnown

LEMMA BreakText == ChatInv /\ TextKnown /\ Break => TextKnown'
<1> SUFFICES ASSUME ChatInv, TextKnown, Break PROVE TextKnown'
  OBVIOUS
<1>1. /\ phase = "reading" \/ (phase = "closing" /\ todo = TextPuts)
      /\ phase' \in {"refused", "answered"} /\ broken' = TRUE
      /\ told' = IF told.ended THEN told ELSE [told EXCEPT !.sig = DeltaSig]
      /\ UNCHANGED <<answer, rest, contexts, msgs, siblings>>
  BY DEF Break, CanBreak, cacheVars, tables
<1>2. told = [calls |-> told.calls, text |-> told.text, sig |-> told.sig, ended |-> told.ended]
  BY DEF ChatInv, ToldKnown
<1>3. told'.ended = told.ended
  BY <1>1, <1>2
<1>4. NothingStored
  <2>1. CASE phase = "reading"
    BY <2>1 DEF ChatInv, PhaseKnown, ToldKnown, TextKnown, ContextStored, NothingStored
  <2>2. CASE phase = "closing" /\ todo = TextPuts
    <3>1. TextPuts \in Seq(ClosingPuts)
      BY PutsKnown
    <3>2. Len(TextPuts) \in Nat
      BY <3>1
    <3>3. ~(Len(todo) < Len(TextPuts))
      BY <2>2, <3>2
    <3> QED BY <2>2, <3>3 DEF TextKnown
  <2> QED BY <1>1, <2>1, <2>2
<1>5. NothingStored'
  BY <1>1, <1>4 DEF NothingStored
<1>6. ContextStored'
  BY <1>1, <1>4, EmptyContexts DEF TextKnown, NothingStored
<1> QED BY <1>1, <1>3, <1>5, <1>6 DEF TextKnown


(* While the request is made the cache only forgets.                       *)
LEMMA ReplayText ==
  ASSUME ChatInv, TextKnown,
         Replay \/ Scan \/ TranslateText \/ TranslateCall \/ TranslateOutput \/ Send
  PROVE  TextKnown'
<1>1. UNCHANGED cacheVars /\ UNCHANGED turnVars /\ phase \in Replaying /\ phase' \in Replaying
  <2>1. CASE Replay
    BY <2>1, Zenon DEF Replay, Replaying
  <2>2. CASE Scan
    BY <2>2, Zenon DEF Scan, Replaying
  <2>3. CASE TranslateText
    BY <2>3, Zenon DEF TranslateText, Replaying
  <2>4. CASE TranslateCall
    BY <2>4, Zenon DEF TranslateCall, Replaying
  <2>5. CASE TranslateOutput
    BY <2>5, Zenon DEF TranslateOutput, Replaying
  <2>6. CASE Send
    BY <2>6, Zenon DEF Send, Replaying
  <2> QED BY <2>1, <2>2, <2>3, <2>4, <2>5, <2>6
<1>2. UNCHANGED <<contexts, msgs, siblings, told>>
  BY <1>1 DEF cacheVars, tables, turnVars
<1>3. ContextStored'
  BY <1>2 DEF TextKnown, ContextStored
<1> QED BY <1>1, <1>2, <1>3, TextKept

LEMMA OthersText == ChatInv /\ TextKnown /\ Others => TextKnown'
<1> SUFFICES ASSUME ChatInv, TextKnown, Others PROVE TextKnown'
  OBVIOUS
<1>1. UNCHANGED phase /\ UNCHANGED turnVars /\ UNCHANGED <<ids, told>> /\ OtherPut
  BY DEF Others, turnVars
<1>2. CacheKnown /\ ids \in Seq(TurnCall)
  BY DEF ChatInv, TurnKnown
<1>3. UNCHANGED <<contexts, msgs, siblings>>
  BY <1>1, <1>2, OtherPutShrinks
<1>4. ContextStored'
  BY <1>1, <1>3 DEF TextKnown, ContextStored
<1> QED BY <1>1, <1>3, <1>4, TextKept

LEMMA SaveText == ChatInv /\ TextKnown /\ SaveStep => TextKnown'
<1> SUFFICES ASSUME ChatInv, TextKnown, SaveStep PROVE TextKnown'
  OBVIOUS
<1>1. UNCHANGED phase /\ UNCHANGED turnVars /\ UNCHANGED <<contexts, msgs, siblings, told>>
  BY DEF SaveStep, Save, tables, turnVars
<1>2. ContextStored'
  BY <1>1 DEF TextKnown, ContextStored
<1> QED BY <1>1, <1>2, TextKept

(* The same of the texts in the file: they are those of a whole answer.    *)
FileNothing == DOMAIN file.msgs.val = {} /\ DOMAIN file.contexts.val = {}

FileContextStored ==
  /\ Cache!IsTable(file.contexts, {ContextKey(told.text)}, {told.sig})
  /\ ToSet(file.contexts.order) \subseteq DOMAIN file.contexts.val
  /\ DOMAIN file.contexts.val # {} => told.ended

FileTextKnown ==
  /\ broken => FileNothing
  /\ DOMAIN file.siblings # {} => rest = <<>> /\ phase \notin {"idle", "reading"}
  /\ phase = "closing" => FileNothing \/ Len(todo) < Len(TextPuts)
  /\ FileContextStored

LEMMA RestartText == ChatInv /\ FileKnown /\ TextKnown /\ FileTextKnown /\ Restart => TextKnown'
<1> SUFFICES ASSUME ChatInv, FileKnown, TextKnown, FileTextKnown, Restart PROVE TextKnown'
  OBVIOUS
<1>1. /\ phase = "answered" /\ UNCHANGED <<phase, mode, answer, rest, ids, told, broken, todo>> /\ RestartSaved
  BY DEF Restart, turnVars
<1>2. /\ msgs'.val = file.msgs.val /\ siblings' = file.siblings
      /\ contexts' \in Cache!Shuffled(file.contexts)
  BY <1>1, RestartLoads DEF ChatInv
<1>3. /\ Cache!IsTable(contexts', {ContextKey(told.text)}, {told.sig}) /\ contexts'.val = file.contexts.val
      /\ ToSet(contexts'.order) \subseteq DOMAIN contexts'.val
  BY <1>2, ShuffledKeeps DEF FileTextKnown, FileContextStored
<1>4. ContextStored'
  BY <1>1, <1>3 DEF ContextStored, FileTextKnown, FileContextStored
<1>5. broken' => NothingStored'
  BY <1>1, <1>2, <1>3 DEF NothingStored, FileTextKnown, FileNothing
<1>6. ~broken' => told'.text = WordsUpTo(Handled)' /\ told'.sig = SigUpTo(Handled)'
  <2>1. WordsUpTo(Handled)' = WordsUpTo(Handled) /\ SigUpTo(Handled)' = SigUpTo(Handled)
    BY <1>1 DEF WordsUpTo, SigUpTo, TextSigs, Handled
  <2> QED BY <1>1, <2>1 DEF TextKnown
<1>7. told'.ended \/ (phase' \in Replaying /\ ~broken') \/ DOMAIN siblings' # {} => rest' = <<>>
  BY <1>1, <1>2 DEF TextKnown, FileTextKnown
<1> QED BY <1>1, <1>4, <1>5, <1>6, <1>7 DEF TextKnown

(* A file without contexts has none of any text.                           *)
LEMMA FileContextKept ==
  ASSUME FileContextStored, file' = file, told.ended => UNCHANGED <<told.text, told.sig, told.ended>>
  PROVE  FileContextStored'
<1>1. CASE told.ended
  BY <1>1 DEF FileContextStored
<1>2. CASE ~told.ended
  <2> DEFINE c == file.contexts
  <2>1. /\ c.order \in Seq({ContextKey(told.text)}) /\ ToSet(c.order) = {} /\ DOMAIN c.val = {}
        /\ c.val \in [DOMAIN c.val -> {told.sig}] /\ c = [val |-> c.val, order |-> c.order]
    BY <1>2 DEF FileContextStored, Cache!IsTable
  <2> HIDE DEF c
  <2>2. c.order = <<>> /\ c.val \in [DOMAIN c.val -> {told'.sig}]
    <3>1. c.order # <<>> => c.order[1] \in ToSet(c.order)
      BY <2>1 DEF ToSet
    <3> QED BY <2>1, <3>1
  <2>3. Cache!IsTable(c, {ContextKey(told'.text)}, {told'.sig})
    BY <1>2, <2>1, <2>2 DEF FileContextStored, Cache!IsTable, c
  <2> QED BY <2>1, <2>3 DEF FileContextStored, c
<1> QED BY <1>1, <1>2

LEMMA FileTextStep ==
  ASSUME ChatInv, FileKnown, TextKnown, FileTextKnown, [Next]_vars
  PROVE  FileTextKnown'
<1>1. CASE SaveStep
  <2>1. /\ file' = Memory /\ UNCHANGED <<phase, mode, answer, rest, ids, told, broken, todo>>
        /\ phase # "idle"
    BY <1>1 DEF SaveStep, Save, turnVars
  <2>2. file'.msgs = msgs /\ file'.contexts = contexts /\ file'.siblings = siblings
    BY <2>1, MemoryParts
  <2>3. FileContextStored'
    BY <2>1, <2>2 DEF FileContextStored, ContextStored, TextKnown
  <2>4. TextPuts' = TextPuts /\ (NothingStored => FileNothing')
    BY <2>1, <2>2 DEF TextPuts, NothingStored, FileNothing
  <2> QED BY <2>1, <2>2, <2>3, <2>4 DEF TextKnown, FileTextKnown
<1>2. CASE ~SaveStep
  <2>1. file' = file
    BY <1>2, FileUnchanged
  <2>2. told.ended => UNCHANGED <<told.text, told.sig, told.ended>>
    BY TurnMoves DEF ChatInv, ToldKnown
  <2>3. FileContextStored'
    BY <2>1, <2>2, FileContextKept DEF FileTextKnown
  <2>4. (FileNothing => FileNothing') /\ (~told.ended => FileNothing)
    BY <2>1 DEF FileNothing, FileTextKnown, FileContextStored, FileKnown, FileToldKnown
  <2>5. CASE Answer \/ HandlePart
    BY <2>1, <2>3, <2>4, <2>5 DEF Answer, HandlePart, FileTextKnown, ChatInv, PhaseKnown
  <2>6. CASE Terminal
    <3>1. phase = "reading" /\ rest = <<>> /\ rest' = rest /\ phase' = "closing" /\ broken' = broken
      BY <2>6 DEF Terminal
    <3> QED BY <2>1, <2>3, <2>4, <3>1 DEF FileTextKnown, ChatInv, PhaseKnown
  <2>7. CASE StorePut
    <3>1. /\ phase = "closing" /\ todo # <<>> /\ todo' = Tail(todo) /\ todo \in Seq(ClosingPuts)
          /\ UNCHANGED <<phase, rest, told, broken>>
      BY <2>7 DEF StorePut, ChatInv, PhaseKnown
    <3>2. TextPuts' = TextPuts /\ TextPuts \in Seq(ClosingPuts)
      BY <3>1, PutsKnown DEF TextPuts
    <3>3. Len(todo') < Len(todo) /\ Len(todo') \in Nat /\ Len(todo) \in Nat /\ Len(TextPuts) \in Nat
      BY <3>1, <3>2
    <3> QED BY <2>1, <2>3, <2>4, <3>1, <3>2, <3>3 DEF FileTextKnown
  <2>8. CASE Break
    <3>1. /\ phase = "reading" \/ (phase = "closing" /\ todo = TextPuts)
          /\ phase' \in {"refused", "answered"} /\ rest' = rest
      BY <2>8 DEF Break, CanBreak
    <3>2. FileNothing
      <4>1. CASE phase = "reading"
        BY <2>4, <4>1 DEF ChatInv, PhaseKnown
      <4>2. CASE phase = "closing" /\ todo = TextPuts
        <5>1. Len(TextPuts) \in Nat
          BY PutsKnown
        <5> QED BY <4>2, <5>1 DEF FileTextKnown
      <4> QED BY <3>1, <4>1, <4>2
    <3> QED BY <2>1, <2>3, <2>4, <3>1, <3>2 DEF FileTextKnown
  <2>9. ASSUME UNCHANGED <<rest, told, broken>>,
               UNCHANGED <<phase, todo>> \/ phase' \in Replaying
        PROVE  FileTextKnown'
    <3>1. TextPuts' = TextPuts
      BY <2>9 DEF TextPuts
    <3> QED BY <2>1, <2>3, <2>4, <2>9, <3>1 DEF FileTextKnown, Replaying
  <2>10. Done => UNCHANGED <<rest, told, broken>> /\ phase' \in Replaying
    BY DEF Done, turnVars, Replaying
  <2>11. Replay \/ Scan \/ TranslateText \/ TranslateCall \/ TranslateOutput \/ Send =>
           UNCHANGED <<rest, told, broken>> /\ (UNCHANGED <<phase, todo>> \/ phase' \in Replaying)
    BY Zenon DEF Replay, Scan, TranslateText, TranslateCall, TranslateOutput, Send, turnVars, Replaying
  <2>12. Others \/ Restart \/ UNCHANGED vars => UNCHANGED <<rest, told, broken>> /\ UNCHANGED <<phase, todo>>
    BY DEF Others, Restart, vars, turnVars
  <2> QED BY <1>2, <2>5, <2>6, <2>7, <2>8, <2>9, <2>10, <2>11, <2>12 DEF Next, ChatNext
<1> QED BY <1>1, <1>2

LEMMA InitText == Init => TextKnown /\ FileTextKnown
<1> SUFFICES ASSUME Init PROVE TextKnown /\ FileTextKnown
  OBVIOUS
<1>1. DOMAIN <<>> = {} /\ ToSet(<<>>) = {} /\ Len(<<>>) = 0 /\ \A S : <<>> \in [{} -> S] /\ <<>> \in Seq(S)
  BY DEF ToSet
<1>2. /\ contexts = [val |-> <<>>, order |-> <<>>] /\ msgs = [val |-> <<>>, order |-> <<>>]
      /\ siblings = <<>> /\ file = Memory
  BY DEF Init, ChatInit, CacheInit, Cache!EmptyTable, Cache!LoadNothing
<1>3. /\ phase = "idle" /\ answer = <<>> /\ rest = <<>> /\ broken = FALSE
      /\ told = [calls |-> <<>>, text |-> <<>>, sig |-> NoSig, ended |-> FALSE]
  BY DEF Init, ChatInit
<1>4. Handled = 0
  BY <1>1, <1>3 DEF Handled
<1>5. WordsUpTo(Handled) = <<>> /\ SigUpTo(Handled) = NoSig
  <2>1. WordsUpTo(Handled) = FlattenSeq(<<>>)
    BY <1>4 DEF WordsUpTo
  <2>2. TextSigs = {}
    BY <1>1, <1>3 DEF TextSigs
  <2>3. SigUpTo(Handled) = NoSig
    BY <2>2 DEF SigUpTo
  <2> QED BY <2>1, <2>3, FlattenNone
<1>6. ContextStored
  <2>1. contexts.val = <<>> /\ contexts.order = <<>>
    BY <1>2
  <2>2. Cache!IsTable(contexts, {ContextKey(told.text)}, {told.sig})
    BY <1>1, <1>2, <2>1 DEF Cache!IsTable
  <2> QED BY <1>1, <2>1, <2>2 DEF ContextStored
<1>7. DOMAIN siblings = {} /\ told.text = <<>> /\ told.sig = NoSig /\ told.ended = FALSE
  BY <1>1, <1>2, <1>3
<1>8. TextKnown
  BY <1>3, <1>5, <1>6, <1>7 DEF TextKnown, Replaying
<1>9. file.msgs = msgs /\ file.contexts = contexts /\ file.siblings = siblings
  BY <1>2, MemoryParts
<1>10. FileTextKnown
  BY <1>3, <1>6, <1>7, <1>9 DEF FileTextKnown, FileContextStored, ContextStored
<1> QED BY <1>8, <1>10

LEMMA TextStep ==
  ASSUME ChatInv, FileKnown, TextKnown, FileTextKnown, [Next]_vars
  PROVE  TextKnown'
<1>1. CASE ChatNext
  BY <1>1, AnswerText, PartText, TerminalText, StorePutText, DoneText, BreakText DEF ChatNext
<1>2. CASE Replay \/ Scan \/ TranslateText \/ TranslateCall \/ TranslateOutput \/ Send
  BY <1>2, ReplayText
<1>3. CASE Others
  BY <1>3, OthersText
<1>4. CASE Restart \/ SaveStep
  BY <1>4, RestartText, SaveText
<1>5. CASE UNCHANGED vars
  <2>1. UNCHANGED turnVars /\ UNCHANGED <<phase, contexts, msgs, siblings, told>>
    BY <1>5 DEF vars, cacheVars, tables, turnVars
  <2>2. ContextStored'
    BY <2>1 DEF TextKnown, ContextStored
  <2> QED BY <2>1, <2>2, TextKept
<1> QED BY <1>1, <1>2, <1>3, <1>4, <1>5 DEF Next

(* When all was read the words so far are all there are.                   *)
LEMMA WholeWords ==
  ASSUME ChatInv, rest = <<>>
  PROVE  AllWords(answer) = WordsUpTo(Handled) /\ Handled = Len(answer)
<1>1. Len(answer) \in Nat /\ DOMAIN answer = 1..Len(answer)
  BY DEF ChatInv, TurnKnown
<1>2. Handled = Len(answer)
  BY <1>1 DEF Handled
<1> QED BY <1>1, <1>2 DEF AllWords, WordsUpTo

LEMMA TextHolds == Spec => [](TextKnown /\ FileTextKnown)
BY InitText, TextStep, FileTextStep, FileHolds, PTL DEF Spec

(* What is stored of the text is what the whole answer says.               *)
LEMMA WholeText == ChatInv /\ TextKnown => StoredTextIsWhole
<1> SUFFICES ASSUME ChatInv, TextKnown PROVE StoredTextIsWhole
  OBVIOUS
<1>1. answer \in Seq(AnswerPart) /\ Len(answer) \in Nat /\ DOMAIN answer = 1..Len(answer)
  BY DEF ChatInv, TurnKnown
<1>2. ASSUME rest = <<>> PROVE Words = WordsUpTo(Handled) /\ LastSig = SigUpTo(Handled)
  <2>1. Handled = Len(answer) /\ Words = WordsUpTo(Handled)
    BY <1>2, WholeWords DEF Words
  <2>2. \A i \in TextSigs : i <= Len(answer)
    BY <1>1 DEF TextSigs
  <2>3. {i \in TextSigs : i <= Len(answer)} = TextSigs
    BY <2>2
  <2>4. LastSig = SigUpTo(Len(answer))
    BY <2>3 DEF LastSig, SigUpTo
  <2> QED BY <2>1, <2>4
<1>3. ASSUME ~broken, told.ended \/ phase \in Replaying PROVE told.text = Words /\ told.sig = LastSig
  BY <1>2, <1>3 DEF TextKnown
<1>4. \A m \in DOMAIN msgs.val : told.ended /\ msgs.val[m] = told.sig
  BY DEF ChatInv, ToldKnown
<1>5. \A c \in DOMAIN contexts.val : told.ended /\ c = ContextKey(told.text) /\ contexts.val[c] = told.sig
  <2>1. Cache!IsTable(contexts, {ContextKey(told.text)}, {told.sig})
    BY DEF TextKnown, ContextStored
  <2>2. /\ DOMAIN contexts.val \subseteq {ContextKey(told.text)}
        /\ contexts.val \in [DOMAIN contexts.val -> {told.sig}]
    BY <2>1 DEF Cache!IsTable
  <2>3. DOMAIN contexts.val # {} => told.ended
    BY DEF TextKnown, ContextStored
  <2> QED BY <2>2, <2>3
<1>6. DOMAIN msgs.val \cup DOMAIN contexts.val # {} => ~broken
  BY DEF TextKnown, NothingStored
<1>7. DOMAIN siblings # {} => rest = <<>>
  BY DEF TextKnown
<1>8. \A m \in DOMAIN msgs.val : msgs.val[m] = LastSig
  BY <1>3, <1>4, <1>6
<1>9. \A c \in DOMAIN contexts.val : c = ContextKey(Words) /\ contexts.val[c] = LastSig
  BY <1>3, <1>5, <1>6
<1> QED BY <1>3, <1>6, <1>7, <1>8, <1>9 DEF StoredTextIsWhole

(* Whatever the answer is cut into and whoever else uses the cache, the    *)
(* context and the message of a turn only ever have the last signature of  *)
(* the whole answer, the context that of all its words, and a broken       *)
(* stream leaves neither (chat.go:285-335).                                *)
THEOREM StoredTextWhole == Spec => []StoredTextIsWhole
BY InvHolds, TextHolds, WholeText, PTL

-----------------------------------------------------------------------------
(* The types of the cache, of the turn and of what is sent.                *)

(* The text that is stored is that of the answer, which has its context.   *)
LEMMA TextContext == ChatInv /\ TextKnown => TextHasContext
<1> SUFFICES ASSUME ChatInv, TextKnown, phase = "closing" PROVE ContextKey(told.text) \in Contexts
  BY DEF TextHasContext
<1>1. ~broken /\ told.ended /\ rest = <<>> /\ answer \in Answers
  BY DEF ChatInv, PhaseKnown, TextKnown
<1>2. told.text = AllWords(answer)
  BY <1>1, WholeWords DEF TextKnown
<1> QED BY <1>1, <1>2, ContextsAssumption

LEMMA ContextsHold == Spec => []ContextsKnown
<1> DEFINE Saved == FileContextsKnown(file)
<1>1. ChatInv /\ FileKnown /\ TextKnown /\ ContextsKnown /\ Saved /\ [Next]_vars => ContextsKnown'
  BY InvStep, TextContext
<1>2. ChatInv /\ ContextsKnown /\ Saved /\ [Next]_vars => Saved'
  <2> SUFFICES ASSUME ChatInv, ContextsKnown, Saved, [Next]_vars PROVE Saved'
    OBVIOUS
  <2>1. CASE SaveStep
    <3>1. file' = Memory
      BY <2>1 DEF SaveStep, Save
    <3>2. FileContextsKnown(Memory)
      BY MemoryKnown
    <3> QED BY <3>1, <3>2 DEF FileContextsKnown
  <2>2. CASE ~SaveStep
    BY <2>2, FileUnchanged DEF FileContextsKnown
  <2> QED BY <2>1, <2>2
<1>3. Init => ContextsKnown /\ Saved
  BY InitInv
<1> HIDE DEF Saved
<1> QED BY <1>1, <1>2, <1>3, TextHolds, FileHolds, PTL DEF Spec

SentTyped == \A k \in DOMAIN sent : sent[k].sig \in Sigs \cup {Marker, NoSig}

LEMMA TextSigKnown ==
  ASSUME ChatInv, ContextsKnown, NEW k \in DOMAIN input
  PROVE  TextSig(input[k]) \in Sigs \cup {NoSig}
<1>1. input[k].sig \in Sigs \cup {NoSig}
  <2>1. input[k] \in RequestItem
    BY DEF ChatInv, InputKnown
  <2> QED BY <2>1 DEF RequestItem
<1>2. told.sig \in Sigs \cup {NoSig}
  BY DEF ChatInv, ToldKnown
<1>3. DetailsSig \in Sigs \cup {NoSig}
  BY <1>2, DetailsSigKnown
<1>4. Completion \in DOMAIN msgs.val => msgs.val[Completion] \in Sigs \cup {NoSig}
  BY <1>2 DEF ChatInv, ToldKnown
<1>5. \A c : Cache!ContextSignature(c) \in Sigs \cup {NoSig}
  BY DEF ContextsKnown, Cache!IsTable, Cache!ContextSignature
<1> QED BY <1>1, <1>3, <1>4, <1>5 DEF TextSig

(* The cache holds what its tables are for, whoever stores and evicts, and *)
(* what is sent has names and signatures of its kinds (translate.go).      *)
THEOREM TypeCorrect == Spec => []TypeOK
<1>1. Init => SentTyped
  BY DEF Init, SentTyped
<1>2. ChatInv /\ ContextsKnown /\ SentTyped /\ [Next]_vars => SentTyped'
  <2> SUFFICES ASSUME ChatInv, ContextsKnown, SentTyped, [Next]_vars, NEW k \in DOMAIN sent'
               PROVE  sent'[k].sig \in Sigs \cup {Marker, NoSig}
    BY DEF SentTyped
  <2>1. ASSUME NEW type, NEW id, NEW sig \in Sigs \cup {Marker, NoSig},
               sent' = Append(sent, Sent(type, NextItem, id, sig))
        PROVE  sent'[k].sig \in Sigs \cup {Marker, NoSig}
    <3> DEFINE it == Sent(type, NextItem, id, sig)
    <3>1. it.sig = sig
      BY DEF Sent
    <3>2. sent' = Append(sent, it)
      BY <2>1
    <3> HIDE DEF it
    <3>3. sent'[NextItem] = it /\ (k = NextItem \/ (k \in DOMAIN sent /\ sent'[k] = sent[k]))
      BY <3>2, SentAppended
    <3> QED BY <3>1, <3>3 DEF SentTyped
  <2>2. CASE sent' = <<>>
    BY <2>2
  <2>3. CASE UNCHANGED sent
    BY <2>3 DEF SentTyped
  <2>4. CASE /\ NextItem \in DOMAIN input
             /\ sent' = Append(sent, Sent("text", NextItem, Completion, TextSig(input[NextItem])))
    <3>1. TextSig(input[NextItem]) \in Sigs \cup {Marker, NoSig}
      BY <2>4, TextSigKnown
    <3> QED BY <2>1, <2>4, <3>1
  <2>5. CASE sent' = Append(sent, Sent("response", NextItem, OutboundId(input[NextItem].call), NoSig))
    BY <2>1, <2>5
  <2>6. CASE LET sig == P!ResolveToolSignature(Evidence(input[NextItem]))
             IN /\ NextItem \in CallItems /\ sig # NoSig
                /\ sent' = Append(sent, Sent("call", NextItem, OutboundId(input[NextItem].call), sig))
    <3>1. P!ResolveToolSignature(Evidence(input[NextItem])) \in Sigs \cup {Marker, NoSig}
      BY <2>6, ResolvedKnown
    <3> QED BY <2>1, <2>6, <3>1
  <2> QED BY <2>2, <2>3, <2>4, <2>5, <2>6, SentStep
<1>3. ChatInv /\ ContextsKnown /\ SentTyped => TypeOK
  <2> SUFFICES ASSUME ChatInv, ContextsKnown, SentTyped PROVE TypeOK
    OBVIOUS
  <2>1. CacheKnown
    BY DEF ChatInv
  <2>2. DOMAIN aliases \subseteq Names /\ aliases \in [DOMAIN aliases -> Names]
    BY <2>1 DEF CacheKnown, Cache!IsTable, Cache!Live
  <2>3. Cache!TypeOK
    BY <2>1, <2>2 DEF CacheKnown, ContextsKnown, Cache!TypeOK
  <2>4. ToSet(ids) \subseteq Names
    BY NamesDistinct DEF ChatInv, TurnKnown, ToSet
  <2>5. told.sig \in Sigs \cup {NoSig}
    BY DEF ChatInv, ToldKnown
  <2>6. phase \in {"idle", "reading", "closing", "refused"} \cup Replaying
    BY DEF ChatInv, PhaseKnown
  <2> QED BY <2>3, <2>4, <2>5, <2>6 DEF TypeOK, ChatInv, SentKnown, SentTyped
<1>4. Spec => []ContextsKnown
  BY ContextsHold
<1> QED BY <1>1, <1>2, <1>3, <1>4, InvHolds, PTL DEF Spec
=============================================================================
