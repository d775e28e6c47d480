--------------------------- MODULE MuseProxyProofs --------------------------
(***************************************************************************)
(* Proofs about the key store and the muse bridge's request handler, for   *)
(* any number of requests, keys and slots.                                 *)
(***************************************************************************)
EXTENDS MuseProxy, FiniteSetTheorems, TLAPS

-----------------------------------------------------------------------------
(* The key store on its own.                                               *)

(* One step of the store keeps its inductive invariant.                    *)
LEMMA StoreStep == StoreInv /\ [StoreNext]_storeVars => StoreInv'
<1> SUFFICES ASSUME StoreInv, [StoreNext]_storeVars
             PROVE  StoreInv'
  OBVIOUS
<1> USE KeyAssumption DEF StoreInv, StoreTypeOK, NoNeedlessMint, CachedKeyKnown,
       ResolvingMeansStale, CachedFresh, Keys
<1>1. CASE Hit \/ UNCHANGED storeVars
  BY <1>1 DEF Hit, storeVars
<1>2. ASSUME NEW c \in Requests, BeginResolve(c) PROVE StoreInv'
  BY <1>2 DEF BeginResolve
<1>3. ASSUME NEW c \in Requests, NEW k \in MintKeys, Mint(c, k) PROVE StoreInv'
  <2>1. key \in MintKeys => key \in aged
    BY <1>3 DEF Mint, MintAPIKey
  <2>2. StoreTypeOK'
    BY <1>3 DEF Mint, MintAPIKey
  <2>3. NoNeedlessMint'
    BY <1>3, <2>1 DEF Mint, MintAPIKey
  <2>4. CachedKeyKnown' /\ ResolvingMeansStale'
    BY <1>3 DEF Mint, MintAPIKey
  <2>5. QED
    BY <2>2, <2>3, <2>4
<1>4. ASSUME NEW c \in Requests, NEW k \in DirectKeys, UseDirect(c, k) PROVE StoreInv'
  BY <1>4 DEF UseDirect, LoadDirectKeys
<1>5. ASSUME NEW c \in Requests, ResolveFails(c) PROVE StoreInv'
  BY <1>5 DEF ResolveFails
<1>6. ASSUME NEW k \in revoked, Invalidate(k) PROVE StoreInv'
  BY <1>6 DEF Invalidate
<1>7. CASE KeyAges
  BY <1>7 DEF KeyAges
<1>8. ASSUME NEW k \in Keys, Revoke(k) PROVE StoreInv'
  BY <1>8 DEF Revoke
<1> HIDE DEF StoreInv
<1>9. QED
  BY <1>1, <1>2, <1>3, <1>4, <1>5, <1>6, <1>7, <1>8 DEF StoreNext, CallerStep

(* keys.go: whatever the callers do with it, the store never asks for a    *)
(* key while it has one that is neither refused nor too old.               *)
THEOREM StoreMintsOnlyWhenNeeded == StoreSpec => []NoNeedlessMint
<1>1. StoreInit => StoreInv
  BY KeyAssumption DEF StoreInit, StoreInv, StoreTypeOK, NoNeedlessMint,
     CachedKeyKnown, ResolvingMeansStale, CachedFresh, Keys
<1>2. StoreInv => NoNeedlessMint
  BY DEF StoreInv
<1>3. QED
  BY <1>1, <1>2, StoreStep, PTL DEF StoreSpec

-----------------------------------------------------------------------------
(* The handlers use the store as StoreSpec allows.                         *)

LEMMA StepIsStoreStep == ProxyInv /\ [Next]_vars => [StoreNext]_storeVars
<1> SUFFICES ASSUME ProxyInv, Next PROVE [StoreNext]_storeVars
  BY DEF vars, storeVars
<1> USE DEF StoreNext, CallerStep
<1>1. ASSUME NEW r \in Requests, Arrive(r) \/ RejectBody(r) \/ StreamEnds(r)
      PROVE  UNCHANGED storeVars
  BY <1>1 DEF Arrive, RejectBody, StreamEnds
<1>2. ASSUME NEW r \in Requests, Handler(r) PROVE [StoreNext]_storeVars
  <2>1. CASE KeyHit(r) \/ KeyMiss(r) \/ KeyUnresolved(r)
    BY <2>1 DEF KeyHit, KeyMiss, KeyUnresolved
  <2>2. CASE KeyResolved(r)
    BY <2>2 DEF KeyResolved, Mint, MintAPIKey, UseDirect, LoadDirectKeys
  <2>3. CASE Retry(r)
    <3>1. rkey[r] \in revoked
      BY <2>3 DEF Retry, ProxyInv, CallState
    <3>2. QED
      BY <2>3, <3>1 DEF Retry
  <2>4. CASE TakeSlot(r) \/ SlotTimeout(r) \/ ClientGone(r) \/ Judge(r) \/ ReadError(r)
           \/ Finish(r)
    BY <2>4 DEF TakeSlot, SlotTimeout, ClientGone, Judge, ReadError, Finish, ForwardError,
                CallFails, BeginStream
  <2>5. QED
    BY <1>2, <2>1, <2>2, <2>3, <2>4 DEF Handler
<1>3. CASE Environment
  BY <1>3 DEF Environment
<1>4. QED
  BY <1>1, <1>2, <1>3 DEF Next

-----------------------------------------------------------------------------
(* The slots.                                                              *)

LEMMA HoldersFinite == IsFiniteSet(Holders) /\ Cardinality(Holders) \in Nat
  BY FlightAssumption, FS_Subset, FS_CardinalityType DEF Holders

(* A return gives back the slot the request holds, if it holds one.        *)
LEMMA ReturnSlots ==
  ASSUME TypeOK, SlotsConserved, NEW r \in Requests, NEW a, Return(r, a)
  PROVE  SlotsConserved' /\ sem' \in Nat /\ Holders' = Holders \ {r}
<1>1. Holders' = Holders \ {r}
  BY DEF Return, Goto, Holders, Inside, TypeOK
<1>2. Cardinality(Holders') = IF Inside(r) THEN Cardinality(Holders) - 1
                              ELSE Cardinality(Holders)
  BY <1>1, HoldersFinite, FS_RemoveElement DEF Holders
<1>3. Cardinality(Holders') \in Nat
  BY <1>1, HoldersFinite, FS_RemoveElement, FS_CardinalityType
<1>4. QED
  BY <1>1, <1>2, <1>3, FlightAssumption DEF Return, SlotsConserved, TypeOK

(* Taking a slot adds the request to the holders.                          *)
LEMMA TakeSlotSlots ==
  ASSUME ProxyInv, NEW r \in Requests, TakeSlot(r)
  PROVE  SlotsConserved' /\ sem' \in Nat /\ Holders' = Holders \cup {r} /\ r \notin Holders
<1>1. r \notin Holders
  BY DEF TakeSlot, Holders, Inside
<1>2. Holders' = Holders \cup {r}
  BY DEF TakeSlot, Goto, Holders, Inside, ProxyInv, TypeOK
<1>3. Cardinality(Holders') = Cardinality(Holders) + 1
  BY <1>1, <1>2, HoldersFinite, FS_AddElement
<1>4. QED
  BY <1>1, <1>2, <1>3, FlightAssumption DEF TakeSlot, SlotsConserved, TypeOK, ProxyInv

-----------------------------------------------------------------------------
(* The inductive invariant of the handlers.                                *)

RequestInv(q) == CallState(q) /\ FirstAttempt(q) /\ SecondAttempt(q)

(* Type correctness of a step.                                             *)
LEMMA TypeStep == ProxyInv /\ StoreInv' /\ [Next]_vars => TypeOK'
<1> SUFFICES ASSUME ProxyInv, StoreInv', [Next]_vars PROVE TypeOK'
  OBVIOUS
<1>1. StoreTypeOK'
  BY DEF StoreInv
<1>2. CASE UNCHANGED vars
  BY <1>2 DEF vars, reqVars, storeVars, ProxyInv, TypeOK, StoreTypeOK, Keys
<1>3. CASE Environment
  BY <1>1, <1>3 DEF Environment, reqVars, ProxyInv, TypeOK, Keys
<1>4. ASSUME NEW r \in Requests, NEW a \in Answers, Return(r, a) PROVE TypeOK'
  BY <1>1, <1>4, ReturnSlots DEF Return, Goto, ProxyInv, TypeOK, Locations, Responses, Keys
<1>5. ASSUME NEW r \in Requests, Arrive(r) \/ RejectBody(r) PROVE TypeOK'
  BY <1>1, <1>5 DEF Arrive, RejectBody, Goto, ProxyInv, TypeOK, Locations, Answers, Keys
<1>6. ASSUME NEW r \in Requests, StreamEnds(r) PROVE TypeOK'
  BY <1>4, <1>6 DEF StreamEnds, Answers
<1>7. ASSUME NEW r \in Requests, Handler(r) PROVE TypeOK'
  <2>1. ASSUME NEW k \in Keys, HaveKey(r, k) PROVE TypeOK'
    BY <1>1, <2>1 DEF HaveKey, Goto, ProxyInv, TypeOK, Locations, Keys
  <2>2. CASE KeyHit(r)
    BY <2>1, <2>2 DEF KeyHit, Hit, CachedFresh, ProxyInv, TypeOK, StoreTypeOK
  <2>3. CASE KeyMiss(r)
    BY <1>1, <2>3 DEF KeyMiss, Goto, ProxyInv, TypeOK, Locations, Keys
  <2>4. CASE KeyResolved(r)
    BY <2>1, <2>4 DEF KeyResolved
  <2>5. CASE TakeSlot(r)
    BY <1>1, <2>5, TakeSlotSlots DEF TakeSlot, Goto, ProxyInv, TypeOK, Locations, Keys
  <2>6. CASE Judge(r)
    BY <1>1, <2>6 DEF Judge, Goto, ProxyInv, TypeOK, StoreTypeOK, CallState, Locations,
                      Responses, Keys
  <2>7. CASE Retry(r)
    BY <1>1, <2>7 DEF Retry, Goto, ProxyInv, TypeOK, Locations, Responses, Keys
  <2>8. CASE ReadError(r) \/ BeginStream(r)
    BY <1>1, <2>8 DEF ReadError, BeginStream, Goto, ProxyInv, TypeOK, Locations, Keys
  <2>9. CASE KeyUnresolved(r) \/ SlotTimeout(r) \/ ClientGone(r) \/ ForwardError(r) \/ CallFails(r)
    BY <1>4, <2>9 DEF KeyUnresolved, SlotTimeout, ClientGone, ForwardError, CallFails, Answers
  <2>10. QED
    BY <1>7, <2>2, <2>3, <2>4, <2>5, <2>6, <2>7, <2>8, <2>9 DEF Handler, Finish
<1>8. QED
  BY <1>2, <1>3, <1>5, <1>6, <1>7 DEF Next

(* The slots over a step: the count stays right, and the set of holders    *)
(* changes as the abstract semaphore allows.                               *)
SlotsAfter == SlotsConserved' /\ [Slots!Next]_Holders

LEMMA SlotStep == ProxyInv /\ [Next]_vars => SlotsAfter
<1> SUFFICES ASSUME ProxyInv, [Next]_vars PROVE SlotsAfter
  OBVIOUS
<1> USE DEF ProxyInv
<1>1. ASSUME UNCHANGED sem, Holders' = Holders PROVE SlotsAfter
  BY <1>1 DEF SlotsConserved, SlotsAfter
<1>2. CASE UNCHANGED vars \/ Environment
  BY <1>1, <1>2 DEF vars, reqVars, Environment, Holders, Inside
<1>3. ASSUME NEW r \in Requests, NEW a, Return(r, a) PROVE SlotsAfter
  BY <1>3, ReturnSlots DEF SlotsAfter, Slots!Next, Slots!Leave
<1>4. ASSUME NEW r \in Requests, Arrive(r) \/ RejectBody(r) \/ StreamEnds(r)
      PROVE  SlotsAfter
  <2>1. CASE Arrive(r)
    BY <1>1, <2>1 DEF Arrive, Goto, Holders, Inside, TypeOK, CallState
  <2>2. CASE RejectBody(r)
    BY <1>1, <2>2 DEF RejectBody, Holders, Inside
  <2>3. CASE StreamEnds(r)
    BY <1>3, <2>3 DEF StreamEnds
  <2>4. QED
    BY <1>4, <2>1, <2>2, <2>3
<1>5. ASSUME NEW r \in Requests, Handler(r) PROVE SlotsAfter
  <2>1. ASSUME NEW k, HaveKey(r, k), pc[r] \in {"key", "resolve"} PROVE SlotsAfter
    <3>1. Holders' = Holders
      BY <2>1 DEF HaveKey, Goto, Holders, Inside, TypeOK
    <3>2. QED
      BY <1>1, <2>1, <3>1 DEF HaveKey
  <2>2. CASE KeyHit(r) \/ KeyResolved(r)
    BY <2>1, <2>2 DEF KeyHit, KeyResolved
  <2>3. CASE KeyMiss(r)
    BY <1>1, <2>3 DEF KeyMiss, Goto, Holders, Inside, TypeOK
  <2>4. CASE TakeSlot(r)
    <3>1. Cardinality(Holders) < MaxFlights
      BY <2>4 DEF TakeSlot, SlotsConserved
    <3>2. SlotsConserved' /\ Holders' = Holders \cup {r} /\ r \notin Holders
      BY <2>4, TakeSlotSlots
    <3>3. Slots!Cardinality(Holders) < MaxFlights
      BY <3>1 DEF Slots!Cardinality, Cardinality
    <3>4. Slots!Enter(r)
      BY <3>2, <3>3 DEF Slots!Enter
    <3>5. QED
      BY <3>2, <3>4 DEF SlotsAfter, Slots!Next
  <2>5. CASE Judge(r)
    BY <1>1, <2>5 DEF Judge, Goto, Holders, Inside, TypeOK
  <2>6. CASE Retry(r)
    BY <1>1, <2>6 DEF Retry, Goto, Holders, Inside, TypeOK
  <2>7. CASE ReadError(r) \/ BeginStream(r)
    BY <1>1, <2>7 DEF ReadError, BeginStream, Goto, Holders, Inside, TypeOK
  <2>8. CASE KeyUnresolved(r) \/ SlotTimeout(r) \/ ClientGone(r) \/ ForwardError(r) \/ CallFails(r)
    BY <1>3, <2>8 DEF KeyUnresolved, SlotTimeout, ClientGone, ForwardError, CallFails
  <2>9. QED
    BY <1>5, <2>2, <2>3, <2>4, <2>5, <2>6, <2>7, <2>8 DEF Handler, Finish
<1>6. QED
  BY <1>2, <1>4, <1>5 DEF Next

(* Who holds the lock, over a step.                                        *)
LEMMA LockStep == ProxyInv /\ [Next]_vars => LockHolder'
<1> SUFFICES ASSUME ProxyInv, [Next]_vars PROVE LockHolder'
  OBVIOUS
<1> USE KeyAssumption DEF ProxyInv, LockHolder, TypeOK, StoreTypeOK
<1>1. ASSUME UNCHANGED mu, NEW r \in Requests, NEW l \in Locations \ {"resolve"},
             Goto(r, l), pc[r] # "resolve"
      PROVE  LockHolder'
  BY <1>1 DEF Goto
<1>2. CASE UNCHANGED vars \/ Environment
  BY <1>2 DEF vars, reqVars, storeVars, Environment, KeyAges, Revoke
<1>3. ASSUME NEW r \in Requests, NEW a, Return(r, a), UNCHANGED storeVars, pc[r] # "resolve"
      PROVE  LockHolder'
  BY <1>1, <1>3 DEF Return, storeVars, Locations
<1>4. ASSUME NEW r \in Requests, Arrive(r) \/ RejectBody(r) \/ StreamEnds(r)
      PROVE  LockHolder'
  BY <1>1, <1>3, <1>4 DEF Arrive, RejectBody, StreamEnds, storeVars, Locations
<1>5. ASSUME NEW r \in Requests, Handler(r) PROVE LockHolder'
  <2>1. CASE KeyHit(r)
    BY <2>1 DEF KeyHit, Hit, storeVars, HaveKey, Goto
  <2>2. CASE KeyMiss(r)
    BY <2>2 DEF KeyMiss, BeginResolve, Goto
  <2>3. CASE KeyResolved(r)
    <3>1. mu = r /\ mu' = Nobody
      BY <2>3 DEF KeyResolved, Mint, MintAPIKey, UseDirect, LoadDirectKeys
    <3>2. pc' = [pc EXCEPT ![r] = IF attempt[r] = 0 THEN "slot" ELSE "flight"]
      BY <2>3 DEF KeyResolved, HaveKey, Goto
    <3>3. QED
      BY <3>1, <3>2
  <2>4. CASE KeyUnresolved(r)
    BY <2>4 DEF KeyUnresolved, ResolveFails, Return, Goto
  <2>5. CASE TakeSlot(r) \/ Judge(r) \/ ReadError(r) \/ BeginStream(r)
    BY <1>1, <2>5 DEF TakeSlot, Judge, ReadError, BeginStream, storeVars, Locations
  <2>6. CASE Retry(r)
    BY <1>1, <2>6 DEF Retry, Invalidate, Locations
  <2>7. CASE SlotTimeout(r) \/ ClientGone(r) \/ ForwardError(r) \/ CallFails(r)
    BY <1>3, <2>7 DEF SlotTimeout, ClientGone, ForwardError, CallFails
  <2>8. QED
    BY <1>5, <2>1, <2>2, <2>3, <2>4, <2>5, <2>6, <2>7 DEF Handler, Finish
<1>6. QED
  BY <1>2, <1>4, <1>5 DEF Next

(* What another request, the upstream or the clock can do to the state of  *)
(* request q: its locals stay, the cached key may change to one that is    *)
(* not refused, and keys may be revoked.                                   *)
LocalsKept(q) ==
  /\ pc'[q] = pc[q] /\ rkey'[q] = rkey[q] /\ attempt'[q] = attempt[q]
  /\ resp'[q] = resp[q] /\ refused'[q] = refused[q]

LEMMA OthersKeepRequest ==
  ASSUME ProxyInv, NEW q \in Requests, LocalsKept(q), [StoreNext]_storeVars
  PROVE  RequestInv(q)'
<1>1. revoked \subseteq revoked' /\ (key' = key \/ key' \notin revoked \cap MintKeys)
  BY KeyAssumption DEF StoreNext, CallerStep, Hit, BeginResolve, Mint, MintAPIKey, UseDirect, LoadDirectKeys, ResolveFails,
     Invalidate, KeyAges, Revoke, storeVars, ProxyInv, TypeOK, StoreTypeOK, Keys
<1>2. RequestInv(q)
  BY DEF ProxyInv, RequestInv
<1>3. CallState(q)' /\ FirstAttempt(q)'
  BY <1>1, <1>2 DEF LocalsKept, RequestInv, CallState, FirstAttempt
<1>4. SecondAttempt(q)'
  BY <1>1, <1>2 DEF LocalsKept, RequestInv, CallState, SecondAttempt, TwoRefused
<1>5. QED
  BY <1>3, <1>4 DEF RequestInv

(* The request's own steps.                                                *)
LEMMA OwnStepKeepsRequest ==
  ASSUME ProxyInv, NEW r \in Requests, [StoreNext]_storeVars,
         Arrive(r) \/ RejectBody(r) \/ StreamEnds(r) \/ Handler(r)
  PROVE  RequestInv(r)'
<1> USE DEF ProxyInv, TypeOK, StoreTypeOK
<1>1. ASSUME NEW a, Return(r, a), revoked' = revoked PROVE RequestInv(r)'
  BY <1>1 DEF Return, Goto, RequestInv, CallState, FirstAttempt, SecondAttempt
<1>2. CASE Arrive(r)
  BY <1>2 DEF Arrive, Goto, RequestInv, CallState, FirstAttempt, SecondAttempt
<1>3. CASE RejectBody(r)
  BY <1>3 DEF RejectBody, RequestInv, CallState, FirstAttempt, SecondAttempt
<1>4. CASE KeyHit(r)
  <2>1. key \in Keys /\ UNCHANGED <<key, revoked>>
    BY <1>4 DEF KeyHit, Hit, CachedFresh, storeVars
  <2>2. QED
    BY <1>4, <2>1 DEF KeyHit, HaveKey, Goto, RequestInv, CallState, FirstAttempt, SecondAttempt
<1>5. CASE KeyMiss(r)
  BY <1>5 DEF KeyMiss, BeginResolve, Goto, RequestInv, CallState, FirstAttempt, SecondAttempt,
              TwoRefused
<1>6. CASE KeyResolved(r)
  <2>1. PICK k \in Keys : /\ Mint(r, k) \/ UseDirect(r, k)
                          /\ HaveKey(r, k)
    BY <1>6 DEF KeyResolved
  <2>2. k \notin refused[r] \cap MintKeys /\ revoked' = revoked
    BY <2>1, KeyAssumption DEF Mint, MintAPIKey, UseDirect, LoadDirectKeys, CallState
  <2>3. QED
    BY <1>6, <2>1, <2>2 DEF KeyResolved, HaveKey, Goto, RequestInv, CallState, FirstAttempt,
                          SecondAttempt
<1>7. CASE KeyUnresolved(r)
  BY <1>1, <1>7 DEF KeyUnresolved, ResolveFails
<1>8. CASE TakeSlot(r)
  BY <1>8 DEF TakeSlot, Goto, RequestInv, CallState, FirstAttempt, SecondAttempt, storeVars
<1>9. CASE Judge(r)
  <2>1. PICK s \in Responses \ {"none"} :
          /\ s = "401" => rkey[r] \in revoked
          /\ resp' = [resp EXCEPT ![r] = s]
          /\ refused' = [refused EXCEPT ![r] = IF s = "401" THEN refused[r] \cup {rkey[r]}
                                               ELSE refused[r]]
    BY <1>9 DEF Judge
  <2>2. /\ pc[r] = "flight" /\ resp'[r] = s
        /\ pc'[r] = IF s \in {"401", "status"} THEN "error" ELSE "reply"
        /\ UNCHANGED <<rkey, attempt, revoked>>
    BY <1>9, <2>1 DEF Judge, Goto, storeVars
  <2>3. refused'[r] = IF s = "401" THEN refused[r] \cup {rkey[r]} ELSE refused[r]
    BY <2>1
  <2>4. CallState(r)' /\ FirstAttempt(r)'
    BY <2>1, <2>2, <2>3 DEF CallState, FirstAttempt
  <2>5. ASSUME attempt[r] = 1, s = "401" PROVE TwoRefused(r)'
    <3>1. rkey[r] \in DirectKeys \/ rkey[r] \notin refused[r]
      BY <2>2, <2>5 DEF SecondAttempt, CallState, Keys
    <3>2. refused[r] # {}
      BY <2>5 DEF SecondAttempt
    <3>3. QED
      BY <2>3, <2>5, <3>1, <3>2 DEF TwoRefused
  <2>6. SecondAttempt(r)'
    BY <2>2, <2>3, <2>5 DEF SecondAttempt
  <2>7. QED
    BY <2>4, <2>6 DEF RequestInv
<1>10. CASE Retry(r)
  <2>1. /\ pc[r] = "reply" /\ pc'[r] = "key" /\ attempt[r] = 0 /\ attempt'[r] = 1
        /\ resp[r] = "401" /\ resp'[r] = "none"
        /\ UNCHANGED <<rkey, refused, revoked>>
        /\ key' = IF key = rkey[r] THEN NoKey ELSE key
    BY <1>10 DEF Retry, Goto, Invalidate
  <2>2. refused[r] = {rkey[r]}
    BY <2>1 DEF CallState, FirstAttempt
  <2>3. key' \notin refused[r] \cap MintKeys
    BY <2>1, <2>2, KeyAssumption
  <2>4. QED
    BY <2>1, <2>2, <2>3 DEF RequestInv, CallState, FirstAttempt, SecondAttempt
<1>11. CASE ReadError(r) \/ BeginStream(r)
  <2>1. CASE ReadError(r)
    BY <2>1 DEF ReadError, Goto, RequestInv, CallState, FirstAttempt, SecondAttempt, TwoRefused,
                storeVars
  <2>2. CASE BeginStream(r)
    BY <2>2 DEF BeginStream, Goto, RequestInv, CallState, FirstAttempt, SecondAttempt, storeVars
  <2>3. QED
    BY <1>11, <2>1, <2>2
<1>12. CASE StreamEnds(r) \/ SlotTimeout(r) \/ ClientGone(r) \/ ForwardError(r) \/ CallFails(r)
  BY <1>1, <1>12 DEF StreamEnds, SlotTimeout, ClientGone, ForwardError, CallFails, storeVars
<1>13. QED
  BY <1>2, <1>3, <1>4, <1>5, <1>6, <1>7, <1>8, <1>9, <1>10, <1>11, <1>12 DEF Handler, Finish

(* A step of one request leaves the locals of the others alone.            *)
LEMMA StepIsLocal ==
  ASSUME ProxyInv, NEW r \in Requests, NEW q \in Requests \ {r},
         Arrive(r) \/ RejectBody(r) \/ StreamEnds(r) \/ Handler(r)
  PROVE  LocalsKept(q) /\ answer'[q] = answer[q]
<1> USE DEF ProxyInv, TypeOK, LocalsKept, Goto
<1>1. ASSUME NEW a, Return(r, a) PROVE LocalsKept(q) /\ answer'[q] = answer[q]
  BY <1>1 DEF Return
<1>2. CASE Arrive(r) \/ RejectBody(r)
  BY <1>2 DEF Arrive, RejectBody
<1>3. CASE KeyHit(r) \/ KeyMiss(r) \/ KeyResolved(r)
  BY <1>3 DEF KeyHit, KeyMiss, KeyResolved, HaveKey
<1>4. CASE TakeSlot(r) \/ Judge(r) \/ ReadError(r) \/ Retry(r) \/ BeginStream(r)
  BY <1>4 DEF TakeSlot, Judge, ReadError, Retry, BeginStream
<1>5. CASE \/ StreamEnds(r) \/ KeyUnresolved(r) \/ SlotTimeout(r) \/ ClientGone(r)
           \/ ForwardError(r) \/ CallFails(r)
  BY <1>1, <1>5 DEF StreamEnds, KeyUnresolved, SlotTimeout, ClientGone, ForwardError, CallFails
<1>6. QED
  BY <1>2, <1>3, <1>4, <1>5 DEF Handler, Finish

LEMMA RequestStep ==
  ProxyInv /\ [Next]_vars => \A q \in Requests : RequestInv(q)'
<1> SUFFICES ASSUME ProxyInv, [Next]_vars, NEW q \in Requests
             PROVE  RequestInv(q)'
  OBVIOUS
<1>1. [StoreNext]_storeVars
  BY StepIsStoreStep
<1>2. CASE UNCHANGED vars \/ Environment
  BY <1>1, <1>2, OthersKeepRequest DEF vars, reqVars, Environment, LocalsKept
<1>3. ASSUME NEW r \in Requests, Arrive(r) \/ RejectBody(r) \/ StreamEnds(r) \/ Handler(r)
      PROVE  RequestInv(q)'
  <2>1. CASE q = r
    BY <1>1, <1>3, <2>1, OwnStepKeepsRequest
  <2>2. CASE q # r
    BY <1>1, <1>3, <2>2, OthersKeepRequest, StepIsLocal
  <2>3. QED
    BY <2>1, <2>2
<1>4. QED
  BY <1>2, <1>3 DEF Next

LEMMA AnswerStep == ProxyInv /\ [Next]_vars => UnauthorizedOnlyTwice'
<1> SUFFICES ASSUME ProxyInv, [Next]_vars, NEW q \in Requests, answer'[q] = "401"
             PROVE  TwoRefused(q)'
  BY DEF UnauthorizedOnlyTwice
<1> USE DEF ProxyInv, UnauthorizedOnlyTwice
<1>1. ASSUME answer[q] = "401", refused'[q] = refused[q] PROVE TwoRefused(q)'
  BY <1>1 DEF TwoRefused
<1>2. CASE UNCHANGED vars \/ Environment
  BY <1>1, <1>2 DEF vars, reqVars, Environment
<1>3. ASSUME NEW r \in Requests, Arrive(r) \/ RejectBody(r) \/ StreamEnds(r) \/ Handler(r)
      PROVE  TwoRefused(q)'
  <2>1. CASE q # r
    BY <1>1, <1>3, <2>1, StepIsLocal DEF LocalsKept
  <2>2. CASE q = r /\ ForwardError(r)
    <3>1. resp[r] = "401" /\ attempt[r] = 1 /\ refused' = refused
      BY <2>2 DEF ForwardError, Return, TypeOK
    <3>2. QED
      BY <2>2, <3>1 DEF SecondAttempt, TwoRefused
  <2>3. CASE q = r /\ ~ForwardError(r)
    <3>1. ASSUME NEW a, a # "401", Return(r, a) PROVE FALSE
      BY <2>3, <3>1 DEF Return, TypeOK
    <3>2. ~(StreamEnds(r) \/ KeyUnresolved(r) \/ SlotTimeout(r) \/ ClientGone(r) \/ CallFails(r))
      BY <3>1 DEF StreamEnds, KeyUnresolved, SlotTimeout, ClientGone, CallFails
    <3>3. ~(Arrive(r) \/ RejectBody(r))
      BY <2>3 DEF Arrive, RejectBody, TypeOK
    <3>4. CASE Judge(r)
      BY <2>3, <3>4 DEF Judge, TwoRefused, TypeOK
    <3>5. CASE \/ KeyHit(r) \/ KeyMiss(r) \/ KeyResolved(r) \/ TakeSlot(r)
               \/ ReadError(r) \/ Retry(r) \/ BeginStream(r)
      BY <1>1, <2>3, <3>5 DEF KeyHit, KeyMiss, KeyResolved, HaveKey, TakeSlot, ReadError, Retry,
                              BeginStream
    <3>6. QED
      BY <1>3, <2>3, <3>2, <3>3, <3>4, <3>5 DEF Handler, Finish
  <2>4. QED
    BY <2>1, <2>2, <2>3
<1>4. QED
  BY <1>2, <1>3 DEF Next

-----------------------------------------------------------------------------
(* The theorems.                                                           *)

LEMMA InitInv == Init => ProxyInv /\ StoreInv
<1> SUFFICES ASSUME Init PROVE ProxyInv /\ StoreInv
  OBVIOUS
<1>1. StoreInv
  BY KeyAssumption DEF Init, StoreInit, StoreInv, StoreTypeOK, NoNeedlessMint,
     CachedKeyKnown, ResolvingMeansStale, CachedFresh, Keys
<1>2. TypeOK
  BY <1>1 DEF Init, TypeOK, StoreInv, Locations, Responses, Answers, Keys
<1>3. Holders = {}
  BY DEF Init, Holders, Inside
<1>4. SlotsConserved
  BY <1>3, FS_EmptySet, FlightAssumption DEF Init, SlotsConserved
<1>5. LockHolder /\ UnauthorizedOnlyTwice
  BY KeyAssumption DEF Init, StoreInit, LockHolder, UnauthorizedOnlyTwice
<1>6. ASSUME NEW r \in Requests PROVE CallState(r) /\ FirstAttempt(r) /\ SecondAttempt(r)
  BY DEF Init, StoreInit, CallState, FirstAttempt, SecondAttempt
<1>7. QED
  BY <1>1, <1>2, <1>4, <1>5, <1>6 DEF ProxyInv

LEMMA InvStep == ProxyInv /\ StoreInv /\ [Next]_vars => ProxyInv' /\ StoreInv'
<1> SUFFICES ASSUME ProxyInv, StoreInv, [Next]_vars PROVE ProxyInv' /\ StoreInv'
  OBVIOUS
<1>1. StoreInv'
  BY StepIsStoreStep, StoreStep
<1>2. QED
  BY <1>1, TypeStep, SlotStep, LockStep, RequestStep, AnswerStep
     DEF ProxyInv, RequestInv, SlotsAfter

LEMMA InvHolds == Spec => [](ProxyInv /\ StoreInv)
  BY InitInv, InvStep, PTL DEF Spec

(* Every variable keeps its type.                                          *)
THEOREM MuseTypeCorrect == Spec => []TypeOK
<1>1. ProxyInv => TypeOK
  BY DEF ProxyInv
<1>2. QED
  BY <1>1, InvHolds, PTL

(* proxy.go:128-140: tokens and admitted requests agree, on every path.    *)
THEOREM MuseSlotsConserved == Spec => []SlotsConserved
<1>1. ProxyInv => SlotsConserved
  BY DEF ProxyInv
<1>2. QED
  BY <1>1, InvHolds, PTL

(* proxy.go:152-160: one early revocation is never visible to the client.  *)
THEOREM MuseUnauthorizedOnlyTwice == Spec => []UnauthorizedOnlyTwice
<1>1. ProxyInv => UnauthorizedOnlyTwice
  BY DEF ProxyInv
<1>2. QED
  BY <1>1, InvHolds, PTL

(* proxy.go:152-160: the retry does not repeat a refused minted key.       *)
THEOREM MuseRetryWithAnotherKey == Spec => []RetryWithAnotherKey
<1>1. ProxyInv => RetryWithAnotherKey
  BY DEF ProxyInv, RetryWithAnotherKey, FirstAttempt, SecondAttempt, TypeOK
<1>2. QED
  BY <1>1, InvHolds, PTL

(* The counter implements the bounded set of admitted requests.            *)
THEOREM MuseImplementsSlots == Spec => ImplementsSlots
<1>1. Init => Slots!Init
  BY DEF Init, Slots!Init, Holders, Inside
<1>2. ProxyInv /\ [Next]_vars => [Slots!Next]_Holders
  BY SlotStep DEF SlotsAfter
<1>3. QED
  BY <1>1, <1>2, InvHolds, PTL DEF Spec, Slots!Spec, ImplementsSlots

(* The handlers implement the store: StoreSpec is what they make of it.    *)
THEOREM MuseImplementsStore == Spec => ImplementsStore
<1>1. Init => StoreInit
  BY DEF Init
<1>2. ProxyInv /\ [Next]_vars => [StoreNext]_storeVars
  BY StepIsStoreStep
<1>3. QED
  BY <1>1, <1>2, InvHolds, PTL DEF Spec, StoreSpec, ImplementsStore

(* So the bridge inherits what was proved of the store alone.              *)
THEOREM MuseMintsOnlyWhenNeeded == Spec => []NoNeedlessMint
  BY MuseImplementsStore, StoreMintsOnlyWhenNeeded DEF ImplementsStore
=============================================================================
