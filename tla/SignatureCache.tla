--------------------------- MODULE SignatureCache ---------------------------
(***************************************************************************)
(* The in-memory signature cache of agy-bridge-go                          *)
(* (internal/upstream/signature_cache.go): which thought signature, name   *)
(* and arguments belong to the tool call a client names, and which         *)
(* signature belongs to a conversation context.                            *)
(*                                                                         *)
(* A native tool record is stored under its BridgeCallID and reachable     *)
(* under aliases (the item id, "call_item").  A name claimed by two        *)
(* records must not resolve to either.  Every operation runs under         *)
(* SignatureCache.mu and is one action; a call the code rejects changes    *)
(* nothing and has no action.  CacheSaver models how the contents reach    *)
(* the disk; here a restart is Reload.                                     *)
(***************************************************************************)
EXTENDS FifoTable, FiniteSets

CONSTANTS
  Ids,          \* call ids, item ids and composites: BridgeCallIDs and aliases
  Calls,        \* a tool name with its arguments
  NoCall,       \* a record that only carries a signature (ToolName "")
  Sigs,         \* thought signatures issued by the upstream
  NoSig,        \* Go's ""
  Marker,       \* migrationRecoverySignature
  Contexts,     \* context keys: prefix hash and visible text
  Messages,     \* message and output item ids
  OldFiles,     \* version 2 files an earlier translator may have left
  LegacyFiles   \* version 0/1 files

VARIABLES
  records,      \* table of BridgeCallID -> record
  aliases,      \* alias -> BridgeCallID
  ambiguous,    \* aliases and context keys seen with two meanings
  contexts,     \* table of context key -> signature
  msgs,         \* table of message id -> signature
  claims,       \* history: the living records put under each name
  ignored,      \* history: those of them whose claim the code passed over
  since         \* history: the signatures put for a context since it last came in

histories == <<claims, ignored, since>>
vars == <<records, aliases, ambiguous, contexts, msgs, histories>>

ASSUME SigsAssumption == NoSig \notin Sigs

Record == [call : Calls \cup {NoCall}, sig : Sigs \cup {NoSig}, legacy : BOOLEAN]

Live == DOMAIN records.val

TypeOK ==
  /\ IsTable(records, Ids, Record)
  /\ DOMAIN aliases \subseteq Ids /\ aliases \in [DOMAIN aliases -> Ids]
  /\ ambiguous \subseteq Ids \cup Contexts
  /\ IsTable(contexts, Contexts, Sigs \cup {NoSig})
  /\ IsTable(msgs, Messages, Sigs)
  /\ claims \in [Ids -> SUBSET Ids] /\ ignored \in [Ids -> SUBSET Ids]
  /\ since \in [Contexts -> SUBSET Sigs]

-----------------------------------------------------------------------------
(* The files.  An earlier translator saved what it had: records that are   *)
(* reachable under their own ids, aliases that lead to records, and no     *)
(* more than a table holds (a load cuts nothing off).                      *)
FileRecord == [call : Calls \cup {NoCall}, sig : Sigs \cup {NoSig, Marker}, legacy : BOOLEAN]

OldFileSound(f) ==
  /\ DOMAIN f.records \subseteq Ids /\ f.records \in [DOMAIN f.records -> FileRecord]
  /\ DOMAIN f.aliases \subseteq Ids /\ f.aliases \in [DOMAIN f.aliases -> DOMAIN f.records]
  /\ \A k \in DOMAIN f.records : k \in DOMAIN f.aliases /\ f.aliases[k] = k
  /\ f.ambiguous \subseteq Ids \cup Contexts
  /\ IsFiniteSet(DOMAIN f.records) /\ Cardinality(DOMAIN f.records) <= MaxSize

(* A version 0/1 file holds one map per attribute; every key but the       *)
(* markers becomes a legacy record of its own, whatever attributes it has. *)
LegacyKeys(f) ==
  {k \in DOMAIN f.sigs \cup DOMAIN f.calls : k \in DOMAIN f.sigs => f.sigs[k] # Marker}

LegacyFileSound(f) ==
  /\ DOMAIN f.sigs \subseteq Ids /\ f.sigs \in [DOMAIN f.sigs -> Sigs \cup {NoSig, Marker}]
  /\ DOMAIN f.calls \subseteq Ids /\ f.calls \in [DOMAIN f.calls -> Calls]
  /\ IsFiniteSet(LegacyKeys(f)) /\ Cardinality(LegacyKeys(f)) <= MaxSize

ASSUME FilesAssumption ==
  /\ \A f \in OldFiles : OldFileSound(f)
  /\ \A f \in LegacyFiles : LegacyFileSound(f)

(* LoadFromFile.  Records that carry the migration marker are dropped with *)
(* the aliases that lead to them, everything else is taken as it is.  The  *)
(* first operator is a faulty variant that takes markers for signatures.   *)
NativeAll(f) == DOMAIN f.records

Native(f) == {k \in DOMAIN f.records : f.records[k].sig # Marker}

LoadedAliases(f) ==
  {a \in DOMAIN f.aliases :
     ~ (f.aliases[a] \in DOMAIN f.records /\ f.aliases[a] \notin Native(f))}

LoadOldFile(f) ==
  /\ \E o \in Listings(Native(f), Cardinality(Native(f))) :
       records = [val |-> Restrict(f.records, Native(f)), order |-> o]
  /\ aliases = Restrict(f.aliases, LoadedAliases(f))
  /\ ambiguous = f.ambiguous
  /\ claims = [a \in Ids |-> IF a \in LoadedAliases(f) THEN {f.aliases[a]} ELSE {}]

LegacyRecord(f, k) ==
  [call |-> IF k \in DOMAIN f.calls THEN f.calls[k] ELSE NoCall,
   sig |-> IF k \in DOMAIN f.sigs THEN f.sigs[k] ELSE NoSig,
   legacy |-> TRUE]

LoadLegacyFile(f) ==
  /\ \E o \in Listings(LegacyKeys(f), Cardinality(LegacyKeys(f))) :
       records = [val |-> [k \in LegacyKeys(f) |-> LegacyRecord(f, k)], order |-> o]
  /\ aliases = [k \in LegacyKeys(f) |-> k]
  /\ ambiguous = {}
  /\ claims = [a \in Ids |-> {a} \cap LegacyKeys(f)]

LoadNothing ==
  /\ records = EmptyTable
  /\ aliases = <<>>
  /\ ambiguous = {}
  /\ claims = [a \in Ids |-> {}]

Init ==
  /\ \/ LoadNothing
     \/ \E f \in OldFiles : LoadOldFile(f)
     \/ \E f \in LegacyFiles : LoadLegacyFile(f)
  /\ contexts = EmptyTable
  /\ msgs = EmptyTable
  /\ ignored = [a \in Ids |-> {}]
  /\ since = [c \in Contexts |-> {}]

-----------------------------------------------------------------------------
(* PutToolRecord.  Two calls conflict when both name a tool and differ.    *)
Conflicting(old, new) ==
  /\ ~old.legacy
  /\ old.call # NoCall /\ new.call # NoCall
  /\ old.call # new.call

(* Faulty variant: a name bound to another record may start a record.      *)
AcceptedUnbound(id, new) ==
  /\ new.sig # Marker
  /\ id \in Live => ~Conflicting(records.val[id], new)

Accepted(id, new) ==
  /\ new.sig # Marker
  /\ id \in DOMAIN aliases => aliases[id] = id
  /\ id \in Live => ~Conflicting(records.val[id], new)

(* Faulty variant: the new signature wins, even when it is empty.          *)
MergedBlindly(id, new) == new

(* A record put again without its signature keeps the one it had.          *)
Merged(id, new) ==
  IF id \in Live /\ new.sig = NoSig
  THEN [new EXCEPT !.sig = records.val[id].sig]
  ELSE new

(* Faulty variant: the last record to claim an alias gets it.              *)
ContestedNever(id, a, gone) == FALSE

(* Alias a leads to a record other than id that stays in the table.        *)
Contested(id, a, gone) ==
  a \in DOMAIN aliases /\ aliases[a] \notin gone \cup {id}

(* Faulty variant: eviction forgets the aliases of the record.             *)
OutlivingAll(gone) == DOMAIN aliases

(* The aliases that outlive the records gone.                              *)
Outliving(gone) == {a \in DOMAIN aliases : aliases[a] \notin gone}

(* The oldest record makes room for a new one and takes its aliases along; *)
(* then each name is bound, unless it is a BridgeCallID itself (it is left *)
(* alone, and the claim forgotten) or was claimed by two records (it is    *)
(* bound to neither, ever).                                                *)
PutToolRecord(id, new, names) ==
  LET stored == Store(records, id, Merged(id, new))
      gone == Live \ DOMAIN stored.val
      claimed == {a \in names : a \in DOMAIN stored.val => a = id}
      contested == {a \in claimed \ {id} : Contested(id, a, gone)}
      gained == ((claimed \ contested) \ ambiguous) \cup {id}
  IN /\ Accepted(id, new)
     /\ records' = stored
     /\ aliases' = [a \in (Outliving(gone) \ contested) \cup gained |->
                      IF a \in gained THEN id ELSE aliases[a]]
     /\ ambiguous' = ambiguous \cup contested
     /\ claims' = [a \in Ids |-> (claims[a] \ gone)
                                  \cup (IF a \in names \cup {id} THEN {id} ELSE {})]
     /\ ignored' = [a \in Ids |->
          IF a \in claimed \cup {id} THEN (ignored[a] \ gone) \ {id}
          ELSE (ignored[a] \ gone) \cup (IF a \in names THEN {id} \ claims[a] ELSE {})]
     /\ UNCHANGED <<contexts, msgs, since>>

(* Faulty variant: the last signature wins.                                *)
ClashNever(c, sig) == FALSE

(* Another signature is known for the context.                             *)
Clash(c, sig) ==
  c \in DOMAIN contexts.val /\ contexts.val[c] \notin {sig, NoSig}

(* Two signatures met: that is never forgotten.                            *)
Met(c) == \E s, t \in since[c] : s # t

(* PutContextSignature.  Two signatures for one context make it ambiguous  *)
(* for good; its entry stays, with no signature.  An evicted entry takes   *)
(* the signature it had along.                                             *)
PutContextSignature(c, sig) ==
  /\ contexts' = IF Clash(c, sig) THEN Store(contexts, c, NoSig)
                 ELSE IF c \in ambiguous THEN contexts
                 ELSE Store(contexts, c, sig)
  /\ ambiguous' = IF Clash(c, sig) THEN ambiguous \cup {c} ELSE ambiguous
  /\ since' = [since EXCEPT ![c] =
       (IF c \in DOMAIN contexts.val \/ Met(c) THEN @ ELSE {}) \cup {sig}]
  /\ UNCHANGED <<records, aliases, msgs, claims, ignored>>

(* PutMessageSignature: the last signature wins.                           *)
PutMessageSignature(m, sig) ==
  /\ msgs' = Store(msgs, m, sig)
  /\ UNCHANGED <<records, aliases, ambiguous, contexts, histories>>

(* A save, a restart and the load of what was saved: the contents come     *)
(* back, the order of each table does not.                                 *)
Shuffled(t) ==
  {[t EXCEPT !.order = o] : o \in Listings(DOMAIN t.val, Len(t.order))}

Reload ==
  /\ records' \in Shuffled(records)
  /\ contexts' \in Shuffled(contexts)
  /\ msgs' \in Shuffled(msgs)
  /\ UNCHANGED <<aliases, ambiguous, histories>>

-----------------------------------------------------------------------------
NewRecord == [call : Calls \cup {NoCall}, sig : Sigs \cup {NoSig, Marker}, legacy : {FALSE}]

Next ==
  \/ \E id \in Ids, new \in NewRecord, names \in SUBSET Ids : PutToolRecord(id, new, names)
  \/ \E c \in Contexts, sig \in Sigs : PutContextSignature(c, sig)
  \/ \E m \in Messages, sig \in Sigs : PutMessageSignature(m, sig)
  \/ Reload

Spec == Init /\ [][Next]_vars

-----------------------------------------------------------------------------
(* GetToolRecord: the record a name resolves to, if any.  A BridgeCallID   *)
(* always names its own record.                                            *)
Found(a) ==
  IF a \in Live THEN {a}
  ELSE IF a \in DOMAIN aliases /\ a \notin ambiguous THEN {aliases[a]} \cap Live
  ELSE {}

ContextSignature(c) ==
  IF c \in DOMAIN contexts.val /\ c \notin ambiguous THEN contexts.val[c] ELSE NoSig

(* Records, their order and the aliases stay in step through eviction,     *)
(* rejection, contest and restart: every table is within its bound, every  *)
(* record is reachable under its own id and no alias outlives its record.  *)
TablesAgree ==
  /\ WellKept(records) /\ WellKept(contexts) /\ WellKept(msgs)
  /\ \A a \in DOMAIN aliases : aliases[a] \in Live
  /\ \A id \in Live : id \in DOMAIN aliases /\ aliases[id] = id

(* A name that is no BridgeCallID resolves to one of the living records    *)
(* put under it, and to none when there is another, in whatever order the  *)
(* claims, the evictions and the restarts came (signature_cache.go:227-    *)
(* 244): the cache does not guess which of two calls the client means.     *)
(* Not counted is a record that was only put under the name while that was *)
(* another record's BridgeCallID: the code passes such a claim over and    *)
(* has forgotten it when the other record is evicted.                      *)
LookupNamesClaimant ==
  \A a \in Ids : \A x \in Found(a) : x # a => claims[a] \ ignored[a] = {x}

(* A context only has a signature when every generation since it last came *)
(* into the table carried that one; and when two signatures met once, it   *)
(* never has one again, also not after its eviction and return             *)
(* (signature_cache.go:445-457).  What an evicted entry carried is gone    *)
(* and not compared with what comes later, although the code's own words   *)
(* are of any two generations (431-433).                                   *)
ContextAgreed ==
  \A c \in Contexts : ContextSignature(c) # NoSig => since[c] = {ContextSignature(c)}

(* The strengthening that makes the properties above inductive: a name     *)
(* that was never contested has been claimed by exactly the record it      *)
(* leads to; a context that was never contested has seen no two signatures *)
(* meet, and while it is in the table exactly the one it has.              *)
ClaimsKnown ==
  \A a \in Ids \ ambiguous :
    claims[a] \ ignored[a] = IF a \in DOMAIN aliases THEN {aliases[a]} ELSE {}

SeenKnown ==
  \A c \in Contexts \ ambiguous :
    /\ ~Met(c)
    /\ c \in DOMAIN contexts.val => since[c] = {contexts.val[c]}

CacheInv == TypeOK /\ TablesAgree /\ ClaimsKnown /\ SeenKnown

(* As long as a record lives, a name that resolves to it keeps doing so or *)
(* stops resolving: the replayed signature never silently becomes that of  *)
(* another call.                                                           *)
LookupsNeverRetargeted ==
  [][\A a \in Ids : \A x \in Found(a) : x \in Live' => Found(a)' \subseteq {x}]_vars

(* A living record never loses the signature it has, although the same     *)
(* call is put once per streamed part, often without it.                   *)
KnownSignatureKept ==
  [][\A x \in Live \cap Live' :
       records.val[x].sig # NoSig => records'.val[x].sig # NoSig]_vars
=============================================================================
