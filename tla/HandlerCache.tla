---------------------------- MODULE HandlerCache ----------------------------
(***************************************************************************)
(* The signature cache as the protocol handlers of agy-bridge-go use it:   *)
(* SignatureCache with the turn siblings (internal/upstream/               *)
(* signature_cache.go:340), the puts a handler has to make for a turn, one *)
(* locked operation at a time, while other handlers make theirs, and the   *)
(* file a restarted daemon reads: a snapshot of some earlier moment.       *)
(***************************************************************************)
EXTENDS TurnRecord, Integers

CONSTANTS
  Marker,       \* migrationRecoverySignature
  MaxIndex,     \* bound on the parts of a turn
  Contexts,     \* context keys
  MaxSize,      \* SignatureCache.maxSize
  MaxOthers     \* bound on the calls other conversations store

ASSUME CacheAssumption == MaxSize \in Nat \ {0} /\ MaxIndex \in Nat /\ MaxOthers \in Nat

(* The marker is a fixed word, no signature of the upstream and not empty. *)
ASSUME SignaturesAssumption == Sigs # {} /\ NoSig \notin Sigs /\ Marker \notin Sigs \cup {NoSig}

VARIABLES
  records, aliases, ambiguous, contexts, msgs,   \* as in SignatureCache
  claims, ignored, since,
  siblings,     \* SignatureCache.turnSiblings
  others,       \* the number of calls other conversations stored
  file,         \* what the last save wrote
  torn          \* history: a restart lost siblings of the turn

histories == <<claims, ignored, since>>
tables == <<records, aliases, ambiguous, contexts, msgs, histories>>
disk == <<file, torn>>
cacheVars == <<tables, siblings, others, disk>>

(* The names of a call: its id, its item's id, and both in one.            *)
ItemName(call) == [call EXCEPT ![1] = "item"]
BothNames(call) == [call EXCEPT ![1] = "both"]
OtherCall(n) == <<"other", n, NoId>>

(* NativeToolRecord.UpstreamID, which the id of a call is made from.       *)
UpstreamID(call) == call[3]

Names ==
  {<<k, n, id>> : k \in {"fc", "item", "both"}, n \in 0..MaxIndex, id \in UpstreamIds \cup {NoId}}
    \cup {OtherCall(n) : n \in 1..MaxOthers} \cup {Message(n) : n \in 0..MaxIndex}

(* The content of a call is its arguments; a record without any conflicts  *)
(* with none.                                                              *)
Contents == {<<n>> : n \in 0..MaxIndex}

(* What the upstream answers, as far as the handlers look at it.           *)
AnswerPart ==
  [kind : {"text", "thought", "call"}, id : UpstreamIds \cup {NoId},
   body : Seq(Nat), sig : Sigs \cup {NoSig}]

IsAnswer(parts) ==
  /\ parts \in Seq(AnswerPart) /\ Len(parts) <= MaxIndex + 1
  /\ \A i \in DOMAIN parts : parts[i].kind = "call" => parts[i].body \in Contents \cup {<<>>}

Cache == INSTANCE SignatureCache WITH
           Ids <- Names, Calls <- Contents, NoCall <- <<>>, Messages <- Names, OldFiles <- {}, LegacyFiles <- {}

(* What SaveToFile writes, with the histories of what it writes.           *)
Memory ==
  [records |-> records, aliases |-> aliases, ambiguous |-> ambiguous, contexts |-> contexts,
   msgs |-> msgs, siblings |-> siblings,
   claims |-> claims, ignored |-> ignored, since |-> since]

CacheInit ==
  /\ Cache!LoadNothing
  /\ contexts = Cache!EmptyTable /\ msgs = Cache!EmptyTable
  /\ ignored = [a \in Names |-> {}]
  /\ since = [c \in Contexts |-> {}]
  /\ siblings = <<>>
  /\ others = 0
  /\ file = Memory /\ torn = FALSE

(* resolveCanonicalIDLocked.                                               *)
Canonical(name) == IF name \in DOMAIN aliases THEN aliases[name] ELSE name

SiblingsOf(lead) == IF lead \in DOMAIN siblings THEN siblings[lead] ELSE {}

RecordTurnSiblings(lead, calls) ==
  LET canon == Canonical(lead)
  IN /\ siblings' = Assigned(siblings, canon,
                             SiblingsOf(canon) \cup ({Canonical(c) : c \in calls} \ {canon}))
     /\ UNCHANGED <<tables, others, disk>>

(* IsVerifiedSibling: in either direction.                                 *)
IsVerifiedSibling(lead, name) ==
  /\ Canonical(lead) # Canonical(name)
  /\ \/ Canonical(name) \in SiblingsOf(Canonical(lead))
     \/ Canonical(lead) \in SiblingsOf(Canonical(name))

(* The puts.  A tool record the cache refuses changes nothing.             *)
ToolPut(call, body, sig, names) ==
  [op |-> "tool", name |-> call, sig |-> sig, names |-> names,
   rec |-> [call |-> body, sig |-> sig, legacy |-> FALSE]]
MessagePut(name, sig) == [op |-> "message", name |-> name, sig |-> sig]
ContextPut(key, sig) == [op |-> "context", name |-> key, sig |-> sig]
SiblingsPut(lead, calls) == [op |-> "siblings", name |-> lead, names |-> calls]

ApplyTool(p) ==
  IF Cache!Accepted(p.name, p.rec)
  THEN Cache!PutToolRecord(p.name, p.rec, p.names)
  ELSE UNCHANGED tables

Apply(p) ==
  CASE p.op = "tool" -> ApplyTool(p) /\ UNCHANGED <<siblings, others, disk>>
    [] p.op = "message" -> Cache!PutMessageSignature(p.name, p.sig) /\ UNCHANGED <<siblings, others, disk>>
    [] p.op = "context" -> Cache!PutContextSignature(p.name, p.sig) /\ UNCHANGED <<siblings, others, disk>>
    [] p.op = "siblings" -> RecordTurnSiblings(p.name, p.names)

(* A handler of another conversation stores a call, which may evict ours.  *)
OtherPut ==
  /\ others < MaxOthers
  /\ others' = others + 1
  /\ ApplyTool(ToolPut(OtherCall(others + 1), <<0>>, CHOOSE sig \in Sigs : TRUE, {}))
  /\ UNCHANGED <<siblings, disk>>

(* A save reads the cache as a whole under its lock, at some moment within *)
(* the 200 ms after a put asked for it: whatever handlers put by then is   *)
(* in the file, the rest of their puts is not.  CacheSaver has the saver   *)
(* itself, and why the file is always one whole snapshot.                  *)
Save ==
  /\ file' = Memory
  /\ UNCHANGED <<tables, siblings, others, torn>>

(* The daemon is restarted and loads the file, which it may never have     *)
(* written (the file then is that of CacheInit); the order of each table   *)
(* is lost.                                                                *)
SiblingsLost ==
  \E n \in DOMAIN siblings : n \notin DOMAIN file.siblings \/ ~(siblings[n] \subseteq file.siblings[n])

RestartSaved ==
  /\ records' \in Cache!Shuffled(file.records)
  /\ contexts' \in Cache!Shuffled(file.contexts)
  /\ msgs' \in Cache!Shuffled(file.msgs)
  /\ aliases' = file.aliases /\ ambiguous' = file.ambiguous /\ siblings' = file.siblings
  /\ claims' = file.claims /\ ignored' = file.ignored
  /\ since' = file.since
  /\ torn' = (torn \/ SiblingsLost)
  /\ UNCHANGED <<others, file>>
=============================================================================
