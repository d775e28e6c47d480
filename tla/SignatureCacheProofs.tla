------------------------ MODULE SignatureCacheProofs ------------------------
(***************************************************************************)
(* Proofs about the bounded tables and the signature cache, for any        *)
(* capacity, any ids, calls, signatures and contexts, and any well-formed  *)
(* files of earlier translators.                                           *)
(***************************************************************************)
EXTENDS SignatureCache, SequenceTheorems, FiniteSetTheorems, TLAPS

-----------------------------------------------------------------------------
(* The tables (FifoTable).                                                 *)

(* The slice of a table lists distinct keys of K within the bound.         *)
KeyList(o, K) ==
  /\ o \in Seq(K)
  /\ \A i, j \in DOMAIN o : o[i] = o[j] => i = j
  /\ Len(o) <= MaxSize

(* Making room keeps the order of the keys that stay.                      *)
LEMMA RoomProperties ==
  ASSUME NEW K, NEW o, KeyList(o, K)
  PROVE  KeyList(Room(o), K) /\ Len(Room(o)) < MaxSize /\ Range(Room(o)) \subseteq Range(o)
<1> USE MaxSizeAssumption DEF KeyList
<1>1. Len(o) \in Nat /\ DOMAIN o = 1..Len(o)
  BY LenProperties
<1>2. CASE Len(o) >= MaxSize
  <2>1. o # <<>>
    BY <1>1, <1>2, EmptySeq
  <2>2. /\ Tail(o) \in Seq(K)
        /\ Len(Tail(o)) = Len(o) - 1
        /\ \A i \in 1..Len(Tail(o)) : Tail(o)[i] = o[i + 1]
    BY <2>1, HeadTailProperties
  <2>3. DOMAIN Tail(o) = 1..(Len(o) - 1)
    BY <2>2, LenProperties
  <2>4. \A i, j \in DOMAIN Tail(o) : Tail(o)[i] = Tail(o)[j] => i = j
    BY <1>1, <2>2, <2>3
  <2>5. Range(Tail(o)) \subseteq Range(o)
    BY <1>1, <2>2, <2>3 DEF Range
  <2>6. QED
    BY <1>1, <1>2, <2>2, <2>4, <2>5 DEF Room
<1>3. CASE ~(Len(o) >= MaxSize)
  BY <1>1, <1>3 DEF Room
<1>4. QED
  BY <1>2, <1>3

LEMMA AppendKey ==
  ASSUME NEW K, NEW o, KeyList(o, K), Len(o) < MaxSize, NEW k \in K, k \notin Range(o)
  PROVE  KeyList(Append(o, k), K) /\ Range(Append(o, k)) = Range(o) \cup {k}
<1> USE MaxSizeAssumption DEF KeyList
<1> DEFINE n == Len(o)  p == Append(o, k)
<1>1. n \in Nat /\ DOMAIN o = 1..n
  BY LenProperties
<1>2. /\ p \in Seq(K) /\ Len(p) = n + 1
      /\ \A i \in 1..n : p[i] = o[i]
      /\ p[n + 1] = k
  BY AppendProperties
<1>3. DOMAIN p = 1..(n + 1)
  BY <1>2, LenProperties
<1>4. \A i \in 1..n : o[i] # k
  BY <1>1 DEF Range
<1>5. \A i, j \in DOMAIN p : p[i] = p[j] => i = j
  <2> SUFFICES ASSUME NEW i \in 1..(n + 1), NEW j \in 1..(n + 1), p[i] = p[j] PROVE i = j
    BY <1>3
  <2>1. CASE i \in 1..n /\ j \in 1..n
    BY <1>1, <1>2, <2>1
  <2>2. CASE i = n + 1 \/ j = n + 1
    BY <1>1, <1>2, <1>4, <2>2
  <2>3. QED
    BY <1>1, <2>1, <2>2
<1>6. Range(p) = Range(o) \cup {k}
  <2>1. Range(p) = {p[i] : i \in 1..(n + 1)}
    BY <1>3 DEF Range
  <2>2. Range(o) = {o[i] : i \in 1..n}
    BY <1>1 DEF Range
  <2>3. \A i \in 1..(n + 1) : i \in 1..n \/ i = n + 1
    BY <1>1
  <2>4. \A i \in 1..n : i \in 1..(n + 1)
    BY <1>1
  <2>5. n + 1 \in 1..(n + 1)
    BY <1>1
  <2>6. QED
    BY <1>2, <2>1, <2>2, <2>3, <2>4, <2>5
<1>7. QED
  BY <1>1, <1>2, <1>5, <1>6

(* Storing a key keeps a table well kept; only the key itself changes or   *)
(* comes in, all the others stay as they are or go.                        *)
LEMMA StoreProperties ==
  ASSUME NEW K, NEW V, NEW t, IsTable(t, K, V), WellKept(t), NEW k \in K, NEW v \in V
  PROVE  /\ IsTable(Store(t, k, v), K, V)
         /\ WellKept(Store(t, k, v))
         /\ k \in DOMAIN Store(t, k, v).val /\ Store(t, k, v).val[k] = v
         /\ DOMAIN Store(t, k, v).val \subseteq DOMAIN t.val \cup {k}
         /\ \A j \in DOMAIN Store(t, k, v).val \ {k} : Store(t, k, v).val[j] = t.val[j]
<1> DEFINE s == Store(t, k, v)
<1>1. CASE k \in DOMAIN t.val
  <2>1. s = [val |-> [t.val EXCEPT ![k] = v], order |-> t.order]
    BY <1>1 DEF Store, IsTable
  <2>2. DOMAIN s.val = DOMAIN t.val /\ s.order = t.order
    BY <2>1
  <2>3. QED
    BY <1>1, <2>1, <2>2 DEF IsTable, WellKept
<1>2. CASE k \notin DOMAIN t.val
  <2> DEFINE o == Append(Room(t.order), k)
  <2>1. s = [val |-> [j \in Range(o) |-> IF j = k THEN v ELSE t.val[j]], order |-> o]
    BY <1>2 DEF Store
  <2>2. KeyList(t.order, K)
    BY DEF KeyList, IsTable, WellKept
  <2>3. /\ KeyList(Room(t.order), K) /\ Len(Room(t.order)) < MaxSize
        /\ Range(Room(t.order)) \subseteq DOMAIN t.val
    BY <2>2, RoomProperties DEF WellKept
  <2>4. KeyList(o, K) /\ Range(o) = Range(Room(t.order)) \cup {k}
    BY <1>2, <2>3, AppendKey
  <2> HIDE DEF o
  <2>5. DOMAIN s.val = Range(o) /\ s.order = o
    BY <2>1
  <2>6. \A j \in Range(o) : s.val[j] = IF j = k THEN v ELSE t.val[j]
    BY <2>1
  <2>7. Range(o) \subseteq DOMAIN t.val \cup {k}
    BY <2>3, <2>4
  <2>8. s.val \in [DOMAIN s.val -> V]
    BY <2>1, <2>7 DEF IsTable
  <2>9. DOMAIN s.val \subseteq K
    BY <2>5, <2>7 DEF IsTable
  <2>10. IsTable(s, K, V)
    BY <2>1, <2>4, <2>5, <2>8, <2>9 DEF IsTable, KeyList
  <2>11. WellKept(s)
    BY <2>4, <2>5 DEF WellKept, KeyList
  <2>12. QED
    BY <2>4, <2>5, <2>6, <2>7, <2>10, <2>11
<1>3. QED
  BY <1>1, <1>2

(* A listing of a finite set is a well-kept slice.                         *)
LEMMA ListingProperties ==
  ASSUME NEW K, NEW S \in SUBSET K, NEW n \in Nat, n <= MaxSize, NEW o \in Listings(S, n)
  PROVE  KeyList(o, K) /\ Range(o) = S /\ Len(o) = n
<1>1. /\ o \in [1..n -> S]
      /\ \A i, j \in 1..n : o[i] = o[j] => i = j
      /\ \A s \in S : \E i \in 1..n : o[i] = s
  BY DEF Listings, Bijection, Injection, Surjection, IsInjective
<1>2. o \in Seq(K)
  BY <1>1, SeqDef
<1>3. Len(o) = n
  BY <1>1, <1>2, LenProperties
<1>4. Range(o) = S
  BY <1>1 DEF Range
<1>5. QED
  BY <1>1, <1>2, <1>3, <1>4 DEF KeyList

LEMMA ShuffledProperties ==
  ASSUME NEW K, NEW V, NEW t, IsTable(t, K, V), WellKept(t), NEW s \in Shuffled(t)
  PROVE  IsTable(s, K, V) /\ WellKept(s) /\ s.val = t.val
<1>1. PICK o \in Listings(DOMAIN t.val, Len(t.order)) : s = [t EXCEPT !.order = o]
  BY DEF Shuffled
<1>2. s = [val |-> t.val, order |-> o]
  BY <1>1 DEF IsTable
<1>3. Len(t.order) \in Nat
  BY LenProperties DEF IsTable
<1>4. KeyList(o, K) /\ Range(o) = DOMAIN t.val /\ Len(o) = Len(t.order)
  BY <1>3, ListingProperties DEF IsTable, WellKept
<1>5. QED
  BY <1>2, <1>4 DEF IsTable, WellKept, KeyList
-----------------------------------------------------------------------------
(* PutToolRecord.                                                          *)

LEMMA MergedType ==
  ASSUME TypeOK, NEW id \in Ids, NEW new \in NewRecord, Accepted(id, new)
  PROVE  Merged(id, new) \in Record
<1>1. new \in Record
  BY DEF NewRecord, Record, Accepted
<1>2. CASE id \in Live /\ new.sig = NoSig
  <2>1. records.val[id] \in Record
    BY <1>2 DEF TypeOK, IsTable, Live
  <2>2. QED
    BY <1>1, <1>2, <2>1 DEF Merged, Record
<1>3. CASE ~(id \in Live /\ new.sig = NoSig)
  BY <1>1, <1>3 DEF Merged
<1>4. QED
  BY <1>2, <1>3

(* The table of records after a put.                                       *)
LEMMA PutRecords ==
  ASSUME CacheInv, NEW id \in Ids, NEW new \in NewRecord, NEW names,
         PutToolRecord(id, new, names)
  PROVE  /\ records' = Store(records, id, Merged(id, new))
         /\ IsTable(records', Ids, Record) /\ WellKept(records')
         /\ id \in Live' /\ records'.val[id] = Merged(id, new)
         /\ Live' \subseteq Live \cup {id}
         /\ \A x \in Live' \ {id} : records'.val[x] = records.val[x]
<1>1. records' = Store(records, id, Merged(id, new)) /\ Accepted(id, new)
  BY DEF PutToolRecord
<1>2. Merged(id, new) \in Record
  BY <1>1, MergedType DEF CacheInv
<1>3. IsTable(records, Ids, Record) /\ WellKept(records)
  BY DEF CacheInv, TypeOK, TablesAgree
<1>4. QED
  BY <1>1, <1>2, <1>3, StoreProperties DEF Live

(* The names after a put: the names the record gained, and those that      *)
(* outlive the evicted record and were not contested.                      *)
LEMMA PutNames ==
  ASSUME CacheInv, NEW id \in Ids, NEW new \in NewRecord, NEW names \in SUBSET Ids,
         PutToolRecord(id, new, names)
  PROVE  /\ id \in DOMAIN aliases' /\ aliases'[id] = id
         /\ DOMAIN aliases' \subseteq Ids
         /\ \A a \in DOMAIN aliases' :
              \/ aliases'[a] = id
              \/ a \in DOMAIN aliases /\ aliases'[a] = aliases[a] /\ aliases[a] \in Live'
         /\ \A x \in Live' : x \in DOMAIN aliases' /\ aliases'[x] = x
<1> DEFINE gone == Live \ DOMAIN Store(records, id, Merged(id, new)).val
           claimed == {a \in names : a \in DOMAIN Store(records, id, Merged(id, new)).val => a = id}
           contested == {a \in claimed \ {id} : Contested(id, a, gone)}
           gained == ((claimed \ contested) \ ambiguous) \cup {id}
           kept == (Outliving(gone) \ contested) \cup gained
<1>1. aliases' = [a \in kept |-> IF a \in gained THEN id ELSE aliases[a]]
  BY DEF PutToolRecord
<1>2. DOMAIN aliases' = kept /\ \A a \in kept : aliases'[a] = IF a \in gained THEN id ELSE aliases[a]
  BY <1>1
<1>3. Live' = DOMAIN Store(records, id, Merged(id, new)).val
  BY PutRecords DEF Live
<1>4. gone = Live \ Live'
  BY <1>3
<1>5. \A a \in Outliving(gone) : a \in DOMAIN aliases /\ aliases[a] \in Live'
  BY <1>4 DEF Outliving, CacheInv, TablesAgree
<1>6. id \in gained /\ gained \subseteq Ids
  OBVIOUS
<1>7. \A x \in Live' \ {id} : x \in Outliving(gone) \ contested /\ x \notin gained /\ aliases[x] = x
  <2> SUFFICES ASSUME NEW x \in Live' \ {id}
               PROVE  x \in Outliving(gone) \ contested /\ x \notin gained /\ aliases[x] = x
    OBVIOUS
  <2>1. x \notin claimed
    BY <1>3
  <2>2. x \in Live /\ x \in DOMAIN aliases /\ aliases[x] = x
    BY PutRecords DEF CacheInv, TablesAgree
  <2>3. QED
    BY <1>4, <2>1, <2>2 DEF Outliving
<1>8. DOMAIN aliases \subseteq Ids
  BY DEF CacheInv, TypeOK
<1> HIDE DEF gone, claimed, contested, gained
<1>9. QED
  BY <1>2, <1>5, <1>6, <1>7, <1>8

(* The claims that count: a put under a name it may have adds the record,  *)
(* no put takes away that of a record that stays.                          *)
Counted(a) == claims[a] \ ignored[a]

LEMMA PutCounted ==
  ASSUME CacheInv, NEW id \in Ids, NEW new \in NewRecord, NEW names \in SUBSET Ids,
         PutToolRecord(id, new, names), NEW a \in Ids
  PROVE  LET stored == DOMAIN Store(records, id, Merged(id, new)).val
             claimed == {n \in names : n \in stored => n = id}
         IN Counted(a)' = (Counted(a) \ (Live \ stored))
                            \cup (IF a \in claimed \cup {id} THEN {id} ELSE {})
<1> DEFINE gone == Live \ DOMAIN Store(records, id, Merged(id, new)).val
           claimed == {n \in names : n \in DOMAIN Store(records, id, Merged(id, new)).val => n = id}
<1>1. claims'[a] = (claims[a] \ gone) \cup (IF a \in names \cup {id} THEN {id} ELSE {})
  BY DEF PutToolRecord
<1>2. ignored'[a] =
        IF a \in claimed \cup {id} THEN (ignored[a] \ gone) \ {id}
        ELSE (ignored[a] \ gone) \cup (IF a \in names THEN {id} \ claims[a] ELSE {})
  BY DEF PutToolRecord
<1>3. id \notin gone /\ claimed \subseteq names
  BY PutRecords DEF Live
<1> HIDE DEF gone, claimed
<1>4. Counted(a)' = (Counted(a) \ gone) \cup (IF a \in claimed \cup {id} THEN {id} ELSE {})
  <2>1. CASE a \in claimed \cup {id}
    BY <1>1, <1>2, <1>3, <2>1 DEF Counted
  <2>2. CASE a \notin claimed \cup {id}
    BY <1>1, <1>2, <1>3, <2>2 DEF Counted
  <2>3. QED
    BY <2>1, <2>2
<1>5. QED
  BY <1>4 DEF gone, claimed

(* No name is taken from a record that stays: a name that was never        *)
(* contested is still claimed by the one record it leads to.               *)
LEMMA PutClaims ==
  ASSUME CacheInv, NEW id \in Ids, NEW new \in NewRecord, NEW names \in SUBSET Ids,
         PutToolRecord(id, new, names)
  PROVE  ClaimsKnown'
<1> DEFINE gone == Live \ DOMAIN Store(records, id, Merged(id, new)).val
           claimed == {a \in names : a \in DOMAIN Store(records, id, Merged(id, new)).val => a = id}
           contested == {a \in claimed \ {id} : Contested(id, a, gone)}
           gained == ((claimed \ contested) \ ambiguous) \cup {id}
           kept == (Outliving(gone) \ contested) \cup gained
<1>1. /\ aliases' = [a \in kept |-> IF a \in gained THEN id ELSE aliases[a]]
      /\ ambiguous' = ambiguous \cup contested
  BY DEF PutToolRecord
<1>2. Accepted(id, new)
  BY DEF PutToolRecord
<1>3. id \in Live' /\ id \notin gone
  BY PutRecords DEF Live
<1>4. gone \subseteq Live
  OBVIOUS
<1> SUFFICES ASSUME NEW a \in Ids, a \notin ambiguous, a \notin contested
             PROVE  Counted(a)' = IF a \in DOMAIN aliases' THEN {aliases'[a]} ELSE {}
  BY <1>1 DEF ClaimsKnown, Counted
<1>5. Counted(a) = IF a \in DOMAIN aliases THEN {aliases[a]} ELSE {}
  BY DEF CacheInv, ClaimsKnown, Counted
<1>6. Counted(a)' = (Counted(a) \ gone) \cup (IF a \in claimed \cup {id} THEN {id} ELSE {})
  BY PutCounted
<1>7. CASE a \in claimed \cup {id}
  <2>1. a \in gained
    BY <1>7
  <2>2. a \in DOMAIN aliases' /\ aliases'[a] = id
    BY <1>1, <2>1
  <2>3. a \in DOMAIN aliases => aliases[a] \in gone \cup {id}
    BY <1>2, <1>7 DEF Contested, Accepted
  <2>4. QED
    BY <1>3, <1>5, <1>6, <1>7, <2>2, <2>3
<1>8. CASE a \notin claimed \cup {id}
  <2>1. a \notin gained
    BY <1>8
  <2>2. a \in DOMAIN aliases' <=> a \in Outliving(gone)
    BY <1>1, <2>1
  <2>3. a \in DOMAIN aliases' => aliases'[a] = aliases[a]
    BY <1>1, <2>1
  <2>4. a \in Outliving(gone) <=> a \in DOMAIN aliases /\ aliases[a] \notin gone
    BY DEF Outliving
  <2>5. QED
    BY <1>5, <1>6, <1>8, <2>2, <2>3, <2>4
<1>9. QED
  BY <1>7, <1>8

LEMMA PutToolRecordInv ==
  ASSUME CacheInv, NEW id \in Ids, NEW new \in NewRecord, NEW names \in SUBSET Ids,
         PutToolRecord(id, new, names)
  PROVE  CacheInv'
<1>1. UNCHANGED <<contexts, msgs, since>> /\ ambiguous \subseteq ambiguous'
  BY DEF PutToolRecord
<1>2. TypeOK'
  <2>1. ambiguous' \subseteq Ids \cup Contexts
    BY DEF PutToolRecord, CacheInv, TypeOK
  <2>2. claims' \in [Ids -> SUBSET Ids] /\ ignored' \in [Ids -> SUBSET Ids]
    BY DEF PutToolRecord, CacheInv, TypeOK
  <2>3. aliases' = [a \in DOMAIN aliases' |-> aliases'[a]]
    BY DEF PutToolRecord
  <2>4. \A a \in DOMAIN aliases' : aliases'[a] \in Ids
    BY PutNames DEF CacheInv, TypeOK
  <2>5. aliases' \in [DOMAIN aliases' -> Ids]
    BY <2>3, <2>4
  <2>6. QED
    BY <1>1, <2>1, <2>2, <2>5, PutRecords, PutNames DEF CacheInv, TypeOK
<1>3. TablesAgree'
  <2>1. \A a \in DOMAIN aliases' : aliases'[a] \in Live'
    BY PutNames, PutRecords
  <2>2. QED
    BY <1>1, <2>1, PutRecords, PutNames DEF CacheInv, TablesAgree
<1>4. SeenKnown'
  BY <1>1 DEF CacheInv, SeenKnown, Met
<1>5. QED
  BY <1>2, <1>3, <1>4, PutClaims DEF CacheInv

-----------------------------------------------------------------------------
(* PutContextSignature and PutMessageSignature.                            *)

LEMMA PutContextInv ==
  ASSUME CacheInv, NEW c \in Contexts, NEW sig \in Sigs, PutContextSignature(c, sig)
  PROVE  CacheInv'
<1> USE DEF CacheInv
<1>1. IsTable(contexts, Contexts, Sigs \cup {NoSig}) /\ WellKept(contexts)
  BY DEF TypeOK, TablesAgree
<1>2. UNCHANGED <<records, aliases, msgs, claims, ignored>> /\ ambiguous \subseteq ambiguous'
  BY DEF PutContextSignature
<1>3. \A v \in Sigs \cup {NoSig} :
        /\ IsTable(Store(contexts, c, v), Contexts, Sigs \cup {NoSig}) /\ WellKept(Store(contexts, c, v))
        /\ c \in DOMAIN Store(contexts, c, v).val /\ Store(contexts, c, v).val[c] = v
        /\ DOMAIN Store(contexts, c, v).val \subseteq DOMAIN contexts.val \cup {c}
        /\ \A j \in DOMAIN Store(contexts, c, v).val \ {c} :
              Store(contexts, c, v).val[j] = contexts.val[j]
  BY <1>1, StoreProperties
<1>4. IsTable(contexts', Contexts, Sigs \cup {NoSig}) /\ WellKept(contexts')
  BY <1>1, <1>3 DEF PutContextSignature
<1>5. TypeOK'
  <2>1. ambiguous' \subseteq Ids \cup Contexts
    BY DEF PutContextSignature, TypeOK
  <2>2. since' \in [Contexts -> SUBSET Sigs]
    BY DEF PutContextSignature, TypeOK
  <2>3. QED
    BY <1>2, <1>4, <2>1, <2>2 DEF TypeOK
<1>6. TablesAgree' /\ ClaimsKnown'
  BY <1>2, <1>4 DEF TablesAgree, ClaimsKnown, Live
<1>7. SeenKnown'
  <2> SUFFICES ASSUME NEW d \in Contexts, d \notin ambiguous'
               PROVE  ~Met(d)' /\ (d \in DOMAIN contexts'.val => since'[d] = {contexts'.val[d]})
    BY DEF SeenKnown
  <2>1. ~Met(d) /\ (d \in DOMAIN contexts.val => since[d] = {contexts.val[d]})
    BY <1>2 DEF SeenKnown
  <2>2. CASE d # c
    <3>1. d \in DOMAIN contexts'.val => d \in DOMAIN contexts.val /\ contexts'.val[d] = contexts.val[d]
      BY <1>3, <2>2 DEF PutContextSignature
    <3>2. since'[d] = since[d]
      BY <2>2 DEF PutContextSignature, TypeOK
    <3>3. QED
      BY <2>1, <3>1, <3>2 DEF Met
  <2>3. CASE d = c
    <3>1. ~Clash(c, sig) /\ c \notin ambiguous
      BY <2>3 DEF PutContextSignature
    <3>2. contexts'.val[c] = sig
      BY <1>3, <3>1 DEF PutContextSignature
    <3>3. since'[c] = (IF c \in DOMAIN contexts.val THEN since[c] ELSE {}) \cup {sig}
      BY <2>1, <2>3 DEF PutContextSignature, TypeOK
    <3>4. c \in DOMAIN contexts.val => since[c] = {sig}
      <4> SUFFICES ASSUME c \in DOMAIN contexts.val PROVE since[c] = {sig}
        OBVIOUS
      <4>1. since[c] = {contexts.val[c]} /\ since[c] \subseteq Sigs
        BY <2>1, <2>3 DEF TypeOK
      <4>2. contexts.val[c] \in {sig, NoSig}
        BY <3>1 DEF Clash
      <4>3. QED
        BY <4>1, <4>2, SigsAssumption
    <3>5. since'[c] = {sig}
      BY <3>3, <3>4
    <3>6. QED
      BY <2>3, <3>2, <3>5 DEF Met
  <2>4. QED
    BY <2>2, <2>3
<1>8. QED
  BY <1>5, <1>6, <1>7

LEMMA PutMessageInv ==
  ASSUME CacheInv, NEW m \in Messages, NEW sig \in Sigs, PutMessageSignature(m, sig)
  PROVE  CacheInv'
<1>1. IsTable(msgs', Messages, Sigs) /\ WellKept(msgs')
  BY StoreProperties DEF PutMessageSignature, CacheInv, TypeOK, TablesAgree
<1>2. QED
  BY <1>1 DEF PutMessageSignature, histories, CacheInv, TypeOK, TablesAgree, ClaimsKnown,
                  SeenKnown, Met, Live

LEMMA ReloadInv ==
  ASSUME CacheInv, Reload
  PROVE  CacheInv' /\ records'.val = records.val
<1>1. IsTable(records', Ids, Record) /\ WellKept(records') /\ records'.val = records.val
  BY ShuffledProperties DEF Reload, CacheInv, TypeOK, TablesAgree
<1>2. /\ IsTable(contexts', Contexts, Sigs \cup {NoSig}) /\ WellKept(contexts')
      /\ contexts'.val = contexts.val
  BY ShuffledProperties DEF Reload, CacheInv, TypeOK, TablesAgree
<1>3. IsTable(msgs', Messages, Sigs) /\ WellKept(msgs')
  BY ShuffledProperties DEF Reload, CacheInv, TypeOK, TablesAgree
<1>4. QED
  BY <1>1, <1>2, <1>3 DEF Reload, histories, CacheInv, TypeOK, TablesAgree, ClaimsKnown,
                              SeenKnown, Met, Live

-----------------------------------------------------------------------------
(* The load of a file.                                                     *)

LEMMA EmptyTableProperties ==
  ASSUME NEW K, NEW V
  PROVE  IsTable(EmptyTable, K, V) /\ WellKept(EmptyTable) /\ DOMAIN EmptyTable.val = {}
<1>1. DOMAIN <<>> = {} /\ <<>> \in Seq(K) /\ Len(<<>>) = 0
  BY EmptySeq, LenProperties
<1>2. QED
  BY <1>1, MaxSizeAssumption DEF EmptyTable, IsTable, WellKept, Range

(* A table read from a file, its keys in any order.                        *)
LEMMA ListedTable ==
  ASSUME NEW K, NEW V, NEW S \in SUBSET K, IsFiniteSet(S), Cardinality(S) <= MaxSize,
         NEW f \in [S -> V], NEW o \in Listings(S, Cardinality(S))
  PROVE  /\ IsTable([val |-> f, order |-> o], K, V)
         /\ WellKept([val |-> f, order |-> o])
<1>1. Cardinality(S) \in Nat
  BY FS_CardinalityType
<1>2. KeyList(o, K) /\ Range(o) = S
  BY <1>1, ListingProperties
<1>3. QED
  BY <1>2 DEF IsTable, WellKept, KeyList

LEMMA LoadOldFileInv ==
  ASSUME NEW f \in OldFiles, LoadOldFile(f), ignored = [a \in Ids |-> {}]
  PROVE  /\ IsTable(records, Ids, Record) /\ WellKept(records)
         /\ DOMAIN aliases \subseteq Ids /\ aliases \in [DOMAIN aliases -> Ids]
         /\ ambiguous \subseteq Ids \cup Contexts /\ claims \in [Ids -> SUBSET Ids]
         /\ \A a \in DOMAIN aliases : aliases[a] \in Live
         /\ \A id \in Live : id \in DOMAIN aliases /\ aliases[id] = id
         /\ ClaimsKnown
<1> DEFINE S == Native(f)  F == Restrict(f.records, S)
<1>1. OldFileSound(f)
  BY FilesAssumption
<1>2. S \in SUBSET Ids /\ S \subseteq DOMAIN f.records
  BY <1>1 DEF OldFileSound, Native
<1>3. IsFiniteSet(S) /\ Cardinality(S) <= MaxSize
  <2>1. IsFiniteSet(S) /\ Cardinality(S) <= Cardinality(DOMAIN f.records)
    BY <1>1, <1>2, FS_Subset DEF OldFileSound
  <2>2. Cardinality(S) \in Nat /\ Cardinality(DOMAIN f.records) \in Nat
    BY <1>1, <2>1, FS_CardinalityType DEF OldFileSound
  <2>3. QED
    BY <1>1, <2>1, <2>2, MaxSizeAssumption DEF OldFileSound
<1>4. F \in [S -> Record]
  <2>1. \A k \in S : f.records[k] \in FileRecord /\ f.records[k].sig # Marker
    BY <1>1, <1>2 DEF OldFileSound, Native
  <2>2. \A k \in S : f.records[k] \in Record
    BY <2>1 DEF FileRecord, Record
  <2>3. QED
    BY <2>2 DEF Restrict
<1>5. PICK o \in Listings(S, Cardinality(S)) : records = [val |-> F, order |-> o]
  BY DEF LoadOldFile
<1> HIDE DEF S, F
<1>6. IsTable(records, Ids, Record) /\ WellKept(records)
  BY <1>2, <1>3, <1>4, <1>5, ListedTable
<1>7. Live = S
  BY <1>4, <1>5 DEF Live
<1>8. aliases = [a \in LoadedAliases(f) |-> f.aliases[a]]
  BY DEF LoadOldFile, Restrict
<1>9. \A a \in LoadedAliases(f) : a \in Ids /\ f.aliases[a] \in S
  BY <1>1 DEF OldFileSound, LoadedAliases, S
<1>10. \A id \in S : id \in LoadedAliases(f) /\ f.aliases[id] = id
  BY <1>1, <1>2 DEF OldFileSound, LoadedAliases, S
<1>11. claims = [a \in Ids |-> IF a \in LoadedAliases(f) THEN {f.aliases[a]} ELSE {}]
  BY DEF LoadOldFile
<1>12. ClaimsKnown
  BY <1>8, <1>11 DEF ClaimsKnown
<1>13. claims \in [Ids -> SUBSET Ids]
  BY <1>2, <1>9, <1>11
<1>14. ambiguous \subseteq Ids \cup Contexts
  BY <1>1 DEF LoadOldFile, OldFileSound
<1>15. QED
  BY <1>2, <1>6, <1>7, <1>8, <1>9, <1>10, <1>12, <1>13, <1>14

LEMMA LoadLegacyFileInv ==
  ASSUME NEW f \in LegacyFiles, LoadLegacyFile(f), ignored = [a \in Ids |-> {}]
  PROVE  /\ IsTable(records, Ids, Record) /\ WellKept(records)
         /\ DOMAIN aliases \subseteq Ids /\ aliases \in [DOMAIN aliases -> Ids]
         /\ ambiguous \subseteq Ids \cup Contexts /\ claims \in [Ids -> SUBSET Ids]
         /\ \A a \in DOMAIN aliases : aliases[a] \in Live
         /\ \A id \in Live : id \in DOMAIN aliases /\ aliases[id] = id
         /\ ClaimsKnown
<1> DEFINE S == LegacyKeys(f)  F == [k \in S |-> LegacyRecord(f, k)]
<1>1. LegacyFileSound(f)
  BY FilesAssumption
<1>2. S \in SUBSET Ids
  BY <1>1 DEF LegacyFileSound, LegacyKeys
<1>3. IsFiniteSet(S) /\ Cardinality(S) <= MaxSize
  BY <1>1 DEF LegacyFileSound
<1>4. F \in [S -> Record]
  <2> SUFFICES ASSUME NEW k \in S PROVE LegacyRecord(f, k) \in Record
    OBVIOUS
  <2>1. k \in DOMAIN f.sigs => f.sigs[k] \in Sigs \cup {NoSig}
    BY <1>1 DEF LegacyFileSound, LegacyKeys
  <2>2. k \in DOMAIN f.calls => f.calls[k] \in Calls
    BY <1>1 DEF LegacyFileSound
  <2>3. QED
    BY <2>1, <2>2 DEF LegacyRecord, Record
<1>5. PICK o \in Listings(S, Cardinality(S)) : records = [val |-> F, order |-> o]
  BY DEF LoadLegacyFile
<1>6. aliases = [k \in S |-> k] /\ ambiguous = {} /\ claims = [a \in Ids |-> {a} \cap S]
  BY DEF LoadLegacyFile
<1> HIDE DEF S, F
<1>7. IsTable(records, Ids, Record) /\ WellKept(records)
  BY <1>2, <1>3, <1>4, <1>5, ListedTable
<1>8. Live = S
  BY <1>4, <1>5 DEF Live
<1>9. ClaimsKnown
  BY <1>2, <1>6 DEF ClaimsKnown
<1>10. QED
  BY <1>2, <1>6, <1>7, <1>8, <1>9

LEMMA InitInv == Init => CacheInv
<1> SUFFICES ASSUME Init PROVE CacheInv
  OBVIOUS
<1>1. /\ IsTable(records, Ids, Record) /\ WellKept(records)
      /\ DOMAIN aliases \subseteq Ids /\ aliases \in [DOMAIN aliases -> Ids]
      /\ ambiguous \subseteq Ids \cup Contexts /\ claims \in [Ids -> SUBSET Ids]
      /\ \A a \in DOMAIN aliases : aliases[a] \in Live
      /\ \A id \in Live : id \in DOMAIN aliases /\ aliases[id] = id
      /\ ClaimsKnown
  <2>1. CASE LoadNothing
    <3>1. DOMAIN aliases = {} /\ aliases \in [{} -> Ids]
      BY <2>1 DEF LoadNothing
    <3>2. Live = {}
      BY <2>1, EmptyTableProperties DEF LoadNothing, Live
    <3>3. QED
      BY <2>1, <3>1, <3>2, EmptyTableProperties DEF LoadNothing, ClaimsKnown
  <2>2. QED
    BY <2>1, LoadOldFileInv, LoadLegacyFileInv DEF Init
<1>2. /\ IsTable(contexts, Contexts, Sigs \cup {NoSig}) /\ WellKept(contexts)
      /\ IsTable(msgs, Messages, Sigs) /\ WellKept(msgs) /\ DOMAIN contexts.val = {}
  BY EmptyTableProperties DEF Init
<1>3. /\ since \in [Contexts -> SUBSET Sigs]
      /\ ignored \in [Ids -> SUBSET Ids] /\ SeenKnown
  BY <1>2 DEF Init, SeenKnown, Met
<1>4. QED
  BY <1>1, <1>2, <1>3 DEF CacheInv, TypeOK, TablesAgree

-----------------------------------------------------------------------------
(* The theorems.                                                           *)

LEMMA InvStep == CacheInv /\ [Next]_vars => CacheInv'
<1> SUFFICES ASSUME CacheInv, [Next]_vars PROVE CacheInv'
  OBVIOUS
<1>1. CASE UNCHANGED vars
  BY <1>1 DEF vars, histories, CacheInv, TypeOK, TablesAgree, ClaimsKnown, SeenKnown, Met,
                 Live
<1>2. QED
  BY <1>1, PutToolRecordInv, PutContextInv, PutMessageInv, ReloadInv DEF Next

LEMMA InvHolds == Spec => []CacheInv
  BY InitInv, InvStep, PTL DEF Spec

(* Every table of the cache keeps its type.                                *)
THEOREM CacheTypeCorrect == Spec => []TypeOK
<1>1. CacheInv => TypeOK
  BY DEF CacheInv
<1>2. QED
  BY <1>1, InvHolds, PTL

(* signature_cache.go:170-256: records, their order and the aliases stay   *)
(* in step and within the bound, on every path of a put.                   *)
THEOREM CacheTablesAgree == Spec => []TablesAgree
<1>1. CacheInv => TablesAgree
  BY DEF CacheInv
<1>2. QED
  BY <1>1, InvHolds, PTL

(* signature_cache.go:227-244: a name under which two living records were  *)
(* put resolves to neither, unless all but one of them were put while it   *)
(* was another record's BridgeCallID (SignatureCache.LookupNamesClaimant). *)
THEOREM CacheLookupNamesClaimant == Spec => []LookupNamesClaimant
<1>1. CacheInv => LookupNamesClaimant
  BY DEF CacheInv, ClaimsKnown, TablesAgree, LookupNamesClaimant, Found
<1>2. QED
  BY <1>1, InvHolds, PTL

(* signature_cache.go:445-457: a context only yields a signature when      *)
(* every generation since its entry came in carried that one, and never    *)
(* again once two signatures met (SignatureCache.ContextAgreed).           *)
THEOREM CacheContextAgreed == Spec => []ContextAgreed
<1>1. CacheInv => ContextAgreed
  BY DEF CacheInv, SeenKnown, ContextAgreed, ContextSignature
<1>2. QED
  BY <1>1, InvHolds, PTL

(* signature_cache.go:259-290: no put ever moves a name from one living    *)
(* record to another.                                                      *)
LEMMA PutRetargetsNothing ==
  ASSUME CacheInv, NEW id \in Ids, NEW new \in NewRecord, NEW names \in SUBSET Ids,
         PutToolRecord(id, new, names), NEW a \in Ids, NEW x \in Found(a), x \in Live'
  PROVE  Found(a)' \subseteq {x}
<1>1. CASE a \in Live
  BY <1>1 DEF Found
<1>2. CASE a \notin Live
  <2>1. a \in DOMAIN aliases /\ a \notin ambiguous /\ x = aliases[a] /\ x \in Live
    BY <1>2 DEF Found
  <2>2. a # id
    BY <1>2, <2>1 DEF PutToolRecord, Accepted
  <2>3. a \notin Live'
    BY <1>2, <2>2, PutRecords
  <2>4. a \notin ambiguous' /\ a \in DOMAIN aliases' => aliases'[a] = x
    <3> SUFFICES ASSUME a \notin ambiguous', a \in DOMAIN aliases' PROVE aliases'[a] = x
      OBVIOUS
    <3>1. Counted(a) = {x} /\ Counted(a)' = {aliases'[a]}
      BY <2>1, PutClaims DEF CacheInv, ClaimsKnown, Counted
    <3>2. x \notin Live \ DOMAIN Store(records, id, Merged(id, new)).val
      BY PutRecords DEF Live
    <3>3. x \in Counted(a)'
      BY <3>1, <3>2, PutCounted
    <3>4. QED
      BY <3>1, <3>3
  <2>5. QED
    BY <2>3, <2>4 DEF Found
<1>3. QED
  BY <1>1, <1>2

(* As long as a record lives, no operation makes a name that resolves to   *)
(* it resolve to another (SignatureCache.LookupsNeverRetargeted).          *)
THEOREM CacheLookupsNeverRetargeted == Spec => LookupsNeverRetargeted
<1>1. CacheInv /\ [Next]_vars =>
        [\A a \in Ids : \A x \in Found(a) : x \in Live' => Found(a)' \subseteq {x}]_vars
  <2> SUFFICES ASSUME CacheInv, Next, NEW a \in Ids, NEW x \in Found(a), x \in Live'
               PROVE  Found(a)' \subseteq {x}
    OBVIOUS
  <2>1. ASSUME records'.val = records.val, UNCHANGED aliases, ambiguous \subseteq ambiguous'
        PROVE  Found(a)' \subseteq {x}
    BY <2>1 DEF Found, Live
  <2>2. CASE Reload
    BY <2>1, <2>2, ReloadInv DEF Reload
  <2>3. ASSUME NEW c \in Contexts, NEW sig \in Sigs, PutContextSignature(c, sig)
        PROVE  Found(a)' \subseteq {x}
    BY <2>1, <2>3 DEF PutContextSignature
  <2>4. ASSUME NEW m \in Messages, NEW sig \in Sigs, PutMessageSignature(m, sig)
        PROVE  Found(a)' \subseteq {x}
    BY <2>1, <2>4 DEF PutMessageSignature
  <2>5. QED
    BY <2>2, <2>3, <2>4, PutRetargetsNothing DEF Next
<1>2. QED
  BY <1>1, InvHolds, PTL DEF Spec, LookupsNeverRetargeted

(* signature_cache.go:196-199: a put without a signature takes none away.  *)
THEOREM CacheKnownSignatureKept == Spec => KnownSignatureKept
<1>1. CacheInv /\ [Next]_vars =>
        [\A x \in Live \cap Live' :
           records.val[x].sig # NoSig => records'.val[x].sig # NoSig]_vars
  <2> SUFFICES ASSUME CacheInv, Next, NEW x \in Live, x \in Live', records.val[x].sig # NoSig
               PROVE  records'.val[x].sig # NoSig
    OBVIOUS
  <2>1. ASSUME NEW id \in Ids, NEW new \in NewRecord, NEW names \in SUBSET Ids,
               PutToolRecord(id, new, names)
        PROVE  records'.val[x].sig # NoSig
    <3>1. CASE x = id
      <4>1. records'.val[x] = Merged(id, new)
        BY <2>1, <3>1, PutRecords
      <4>2. Merged(id, new).sig # NoSig
        BY <3>1 DEF Merged, NewRecord
      <4>3. QED
        BY <4>1, <4>2
    <3>2. CASE x # id
      BY <2>1, <3>2, PutRecords
    <3>3. QED
      BY <3>1, <3>2
  <2>2. CASE Reload
    BY <2>2, ReloadInv
  <2>3. QED
    BY <2>1, <2>2 DEF Next, PutContextSignature, PutMessageSignature
<1>2. QED
  BY <1>1, InvHolds, PTL DEF Spec, KnownSignatureKept
=============================================================================
