------------------------------ MODULE MuseProxy -----------------------------
(***************************************************************************)
(* The request handler of muse-bridge-go (internal/proxy/proxy.go,         *)
(* serveProxy) composed with its key store (KeyStore) and its semaphore:   *)
(* one process per request, which reads the body, obtains a key, waits for *)
(* a slot, calls the upstream at most twice and answers the client.        *)
(*                                                                         *)
(* A process that has answered serves another request (Arrive), so a       *)
(* behaviour may be infinite.  The client going away is the choice of the  *)
(* actions that notice it (ClientGone, CallFails, StreamEnds).             *)
(***************************************************************************)
EXTENDS Integers, FiniteSets, KeyStore

CONSTANT MaxFlights     \* capacity of the semaphore channel

ASSUME FlightAssumption ==
  /\ IsFiniteSet(Requests)
  /\ MaxFlights \in Nat \ {0}

VARIABLES
  sem,        \* number of tokens in the channel Handler.sem
  pc,         \* where the handler of each request is
  rkey,       \* its local variable key
  attempt,    \* its loop variable attempt
  resp,       \* the upstream's answer to the call in progress
  answer,     \* what the client was told
  refused     \* history: the keys the upstream refused to this request

reqVars == <<pc, rkey, attempt, resp, answer, refused>>
vars == <<storeVars, sem, reqVars>>

Locations == {"key", "resolve", "slot", "flight", "error", "reply", "stream", "done"}
Responses == {"none", "ok", "401", "status", "failed"}
Answers == {"none", "ok", "401", "status", "rejected", "no_credential", "busy",
            "gone", "unreachable"}

(* The requests whose deferred "<-h.sem" has not run yet.                  *)
Inside(r) ==
  \/ pc[r] \in {"flight", "error", "reply", "stream"}
  \/ pc[r] \in {"key", "resolve"} /\ attempt[r] = 1
Holders == {r \in Requests : Inside(r)}

Slots == INSTANCE FlightSlots WITH inside <- Holders

TypeOK ==
  /\ StoreTypeOK
  /\ sem \in Nat
  /\ pc \in [Requests -> Locations]
  /\ rkey \in [Requests -> Keys \cup {NoKey}]
  /\ attempt \in [Requests -> {0, 1}]
  /\ resp \in [Requests -> Responses]
  /\ answer \in [Requests -> Answers]
  /\ refused \in [Requests -> SUBSET Keys]

Init ==
  /\ StoreInit
  /\ sem = 0
  /\ pc = [r \in Requests |-> "done"]
  /\ rkey = [r \in Requests |-> NoKey]
  /\ attempt = [r \in Requests |-> 0]
  /\ resp = [r \in Requests |-> "none"]
  /\ answer = [r \in Requests |-> "none"]
  /\ refused = [r \in Requests |-> {}]

-----------------------------------------------------------------------------
Goto(r, l) == pc' = [pc EXCEPT ![r] = l]

(* Faulty variant: only a finished stream gives its slot back.             *)
ReturnLeaking(r, a) ==
  /\ Goto(r, "done")
  /\ answer' = [answer EXCEPT ![r] = a]
  /\ sem' = IF pc[r] = "stream" THEN sem - 1 ELSE sem
  /\ rkey' = [rkey EXCEPT ![r] = NoKey]
  /\ attempt' = [attempt EXCEPT ![r] = 0]
  /\ resp' = [resp EXCEPT ![r] = "none"]
  /\ UNCHANGED refused

(* Faulty variant: every return releases a slot, taken or not.             *)
ReturnReleasing(r, a) ==
  /\ Goto(r, "done")
  /\ answer' = [answer EXCEPT ![r] = a]
  /\ sem' = sem - 1
  /\ rkey' = [rkey EXCEPT ![r] = NoKey]
  /\ attempt' = [attempt EXCEPT ![r] = 0]
  /\ resp' = [resp EXCEPT ![r] = "none"]
  /\ UNCHANGED refused

(* The handler returns: its locals are gone, and a deferred receive gives  *)
(* the slot back when the request holds one.                               *)
Return(r, a) ==
  /\ Goto(r, "done")
  /\ answer' = [answer EXCEPT ![r] = a]
  /\ sem' = IF Inside(r) THEN sem - 1 ELSE sem
  /\ rkey' = [rkey EXCEPT ![r] = NoKey]
  /\ attempt' = [attempt EXCEPT ![r] = 0]
  /\ resp' = [resp EXCEPT ![r] = "none"]
  /\ UNCHANGED refused

(* A request arrives on an idle goroutine; its body is read, its path      *)
(* normalised and its payload rewritten, all of it local to the handler.   *)
Arrive(r) ==
  /\ pc[r] = "done"
  /\ Goto(r, "key")
  /\ answer' = [answer EXCEPT ![r] = "none"]
  /\ refused' = [refused EXCEPT ![r] = {}]
  /\ UNCHANGED <<rkey, attempt, resp, sem, storeVars>>

(* It gets no further when the body cannot be read (502) or is over the    *)
(* limit (413), or when it is the JSON value null: the rewrite then writes *)
(* to a nil map, and net/http turns the panic into a closed connection.    *)
RejectBody(r) ==
  /\ pc[r] = "done"
  /\ answer' = [answer EXCEPT ![r] = "rejected"]
  /\ refused' = [refused EXCEPT ![r] = {}]
  /\ UNCHANGED <<pc, rkey, attempt, resp, sem, storeVars>>

(* CurrentKey returned k: the first call leads to the semaphore, the call  *)
(* after a 401 to the second attempt.                                      *)
HaveKey(r, k) ==
  /\ rkey' = [rkey EXCEPT ![r] = k]
  /\ Goto(r, IF attempt[r] = 0 THEN "slot" ELSE "flight")
  /\ UNCHANGED <<attempt, resp, answer, refused, sem>>

KeyHit(r) ==
  /\ pc[r] = "key"
  /\ Hit
  /\ HaveKey(r, key)

KeyMiss(r) ==
  /\ pc[r] = "key"
  /\ BeginResolve(r)
  /\ Goto(r, "resolve")
  /\ UNCHANGED <<rkey, attempt, resp, answer, refused, sem>>

KeyResolved(r) ==
  /\ pc[r] = "resolve"
  /\ \E k \in Keys :
       /\ Mint(r, k) \/ UseDirect(r, k)
       /\ HaveKey(r, k)

KeyUnresolved(r) ==
  /\ pc[r] = "resolve"
  /\ ResolveFails(r)
  /\ Return(r, "no_credential")

-----------------------------------------------------------------------------
(* Faulty variant: the capacity is checked one off.                        *)
TakeSlotLate(r) ==
  /\ pc[r] = "slot"
  /\ sem <= MaxFlights
  /\ sem' = sem + 1
  /\ Goto(r, "flight")
  /\ UNCHANGED <<rkey, attempt, resp, answer, refused, storeVars>>

(* The select on the semaphore, the 60 s timer and the client's context.   *)
TakeSlot(r) ==
  /\ pc[r] = "slot"
  /\ sem < MaxFlights
  /\ sem' = sem + 1
  /\ Goto(r, "flight")
  /\ UNCHANGED <<rkey, attempt, resp, answer, refused, storeVars>>

SlotTimeout(r) ==
  /\ pc[r] = "slot"
  /\ Return(r, "busy")
  /\ UNCHANGED storeVars

ClientGone(r) ==
  /\ pc[r] = "slot"
  /\ Return(r, "gone")
  /\ UNCHANGED storeVars

(* roundTrip: the request leaves with the key read earlier.  The upstream  *)
(* judges the key when the call reaches it; the head of its answer, or a   *)
(* transport failure (the client going away included), comes back later.   *)
Judge(r) ==
  /\ pc[r] = "flight"
  /\ \E s \in Responses \ {"none"} :
       /\ s = "401" => rkey[r] \in revoked
       /\ s = "ok" => rkey[r] \notin revoked
       /\ resp' = [resp EXCEPT ![r] = s]
       /\ refused' = [refused EXCEPT ![r] = IF s = "401" THEN @ \cup {rkey[r]} ELSE @]
  /\ Goto(r, IF resp'[r] \in {"401", "status"} THEN "error" ELSE "reply")
  /\ UNCHANGED <<rkey, attempt, answer, sem, storeVars>>

(* The body of an error is read before anything is done about it.  No      *)
(* timer bounds that: it ends with the body, when the connection breaks    *)
(* or when the client leaves; what was read until then is used.            *)
ReadError(r) ==
  /\ pc[r] = "error"
  /\ Goto(r, "reply")
  /\ UNCHANGED <<rkey, attempt, resp, answer, refused, sem, storeVars>>

(* Faulty variant: drops the key now cached instead of the key it used.    *)
RetryDroppingCurrent(r) ==
  /\ pc[r] = "reply"
  /\ resp[r] = "401" /\ attempt[r] = 0
  /\ Invalidate(key)
  /\ attempt' = [attempt EXCEPT ![r] = 1]
  /\ resp' = [resp EXCEPT ![r] = "none"]
  /\ Goto(r, "key")
  /\ UNCHANGED <<rkey, answer, refused, sem>>

(* Faulty variant: asks for a key again without Invalidate.                *)
RetryKeeping(r) ==
  /\ pc[r] = "reply"
  /\ resp[r] = "401" /\ attempt[r] = 0
  /\ attempt' = [attempt EXCEPT ![r] = 1]
  /\ resp' = [resp EXCEPT ![r] = "none"]
  /\ Goto(r, "key")
  /\ UNCHANGED <<rkey, answer, refused, sem, storeVars>>

(* The first 401: Invalidate, then CurrentKey again.                       *)
Retry(r) ==
  /\ pc[r] = "reply"
  /\ resp[r] = "401" /\ attempt[r] = 0
  /\ Invalidate(rkey[r])
  /\ attempt' = [attempt EXCEPT ![r] = 1]
  /\ resp' = [resp EXCEPT ![r] = "none"]
  /\ Goto(r, "key")
  /\ UNCHANGED <<rkey, answer, refused, sem>>

(* Faulty variant: the first 401 may reach the client.                     *)
ForwardAnyError(r) ==
  /\ pc[r] = "reply"
  /\ resp[r] \in {"status", "401"}
  /\ Return(r, resp[r])
  /\ UNCHANGED storeVars

(* Any other error status, and the second 401, go to the client.           *)
ForwardError(r) ==
  /\ pc[r] = "reply"
  /\ \/ resp[r] = "status"
     \/ resp[r] = "401" /\ attempt[r] = 1
  /\ Return(r, resp[r])
  /\ UNCHANGED storeVars

CallFails(r) ==
  /\ pc[r] = "reply"
  /\ resp[r] = "failed"
  /\ Return(r, "unreachable")
  /\ UNCHANGED storeVars

BeginStream(r) ==
  /\ pc[r] = "reply"
  /\ resp[r] = "ok"
  /\ Goto(r, "stream")
  /\ UNCHANGED <<rkey, attempt, resp, answer, refused, sem, storeVars>>

(* The body ended, broke off, or the client stopped reading.               *)
StreamEnds(r) ==
  /\ pc[r] = "stream"
  /\ Return(r, "ok")
  /\ UNCHANGED storeVars

-----------------------------------------------------------------------------
Environment ==
  /\ KeyAges \/ \E k \in Keys : Revoke(k)
  /\ UNCHANGED <<sem, reqVars>>

Finish(r) ==
  \/ ForwardError(r) \/ CallFails(r) \/ BeginStream(r)

Handler(r) ==
  \/ KeyHit(r) \/ KeyMiss(r) \/ KeyResolved(r) \/ KeyUnresolved(r)
  \/ TakeSlot(r) \/ SlotTimeout(r) \/ ClientGone(r)
  \/ Judge(r) \/ ReadError(r) \/ Retry(r) \/ Finish(r)

Next ==
  \/ \E r \in Requests : Arrive(r) \/ RejectBody(r) \/ Handler(r) \/ StreamEnds(r)
  \/ Environment

(* Handlers run; the mint (AuthTimeout), the wait for a slot               *)
(* (SemaphoreWait) and the wait for response headers                       *)
(* (UpstreamHeaderTimeout) are bounded by timers, and Go's mutex hands     *)
(* itself to a waiter that has been starved, hence strong fairness on the  *)
(* three steps that lock it.  Nothing bounds the body of a reply, be it    *)
(* streamed or the body of an error, nor are clients obliged to send       *)
(* requests: StreamEnds, ReadError and Arrive are not fair.                *)
Fairness ==
  \A r \in Requests :
    /\ WF_vars(KeyResolved(r) \/ KeyUnresolved(r))
    /\ WF_vars(SlotTimeout(r))
    /\ WF_vars(Judge(r)) /\ WF_vars(Finish(r))
    /\ SF_vars(KeyHit(r) \/ KeyMiss(r))
    /\ SF_vars(Retry(r))

Spec == Init /\ [][Next]_vars
FairSpec == Spec /\ Fairness

-----------------------------------------------------------------------------
(* Every token in the semaphore channel belongs to exactly one request     *)
(* that is between its admission and its return, whatever way it returns:  *)
(* no slot is leaked and none is given back twice (proxy.go:128-140).      *)
SlotsConserved ==
  /\ sem = Cardinality(Holders)
  /\ sem <= MaxFlights

TwoRefused(r) ==
  \/ \E k, l \in refused[r] : k # l
  \/ refused[r] \cap DirectKeys # {}

(* The client is only told 401 when the upstream refused the keys of both  *)
(* attempts, and minted keys never repeat between them (proxy.go:152-160): *)
(* one early revocation is never visible to the client.                    *)
UnauthorizedOnlyTwice ==
  \A r \in Requests :
    answer[r] = "401" => TwoRefused(r)

(* The second call of a request never carries a minted key the upstream    *)
(* already refused to it, however the other requests interleave with its   *)
(* Invalidate and its CurrentKey.                                          *)
RetryWithAnotherKey ==
  \A r \in Requests :
    pc[r] = "flight" /\ rkey[r] \in MintKeys => rkey[r] \notin refused[r]

(* The strengthening that makes the properties above inductive: who holds  *)
(* the store's lock, and what is known of a request at each location.      *)
LockHolder ==
  \A r \in Requests : pc[r] = "resolve" <=> mu = r

CallState(r) ==
  /\ resp[r] # "none" => pc[r] \in {"error", "reply", "stream"}
  /\ resp[r] = "401" => rkey[r] \in refused[r]
  /\ pc[r] \in {"slot", "flight", "error", "reply", "stream"} => rkey[r] \in Keys
  /\ pc[r] \in {"slot", "done"} => attempt[r] = 0
  /\ refused[r] \subseteq revoked

FirstAttempt(r) ==
  attempt[r] = 0 =>
    /\ pc[r] \in {"key", "resolve", "slot", "flight"} => refused[r] = {}
    /\ pc[r] \in {"error", "reply"} => refused[r] \subseteq {rkey[r]}

SecondAttempt(r) ==
  attempt[r] = 1 =>
    /\ refused[r] # {}
    /\ pc[r] \in {"key", "resolve"} => key \notin refused[r] \cap MintKeys
    /\ pc[r] = "flight" => rkey[r] \notin refused[r] \cap MintKeys
    /\ resp[r] = "401" => TwoRefused(r)

ProxyInv ==
  /\ TypeOK
  /\ SlotsConserved
  /\ LockHolder
  /\ \A r \in Requests : CallState(r) /\ FirstAttempt(r) /\ SecondAttempt(r)
  /\ UnauthorizedOnlyTwice

(* Between the request and the bodies the upstream sends, nothing waits    *)
(* forever, however slow the mint, full the semaphore or contended the     *)
(* lock: a request that was read is answered, is streaming or has an error *)
(* body to read, and once that body is read it gets on again, through the  *)
(* lock, the mint and the second call where it was a 401.  A body that     *)
(* never ends holds the handler and its slot; config.go:37-40 means it so. *)
EveryRequestProgresses ==
  \A r \in Requests :
    pc[r] \in {"key", "reply"} ~> pc[r] \in {"error", "stream", "done"}

(* The handlers implement the abstract store: whatever they interleave,    *)
(* they lock it as StoreSpec says and only report keys the upstream        *)
(* refused, although the 401 may be about a key rotated long ago.          *)
ImplementsStore == StoreSpec

(* The handlers implement the bounded set of slots.                        *)
ImplementsSlots == Slots!Spec

(* README.md:297 promises that on a 401 "the bridge drops it and mints a   *)
(* new one on the next request".  The code drops the key of the first 401  *)
(* only: the one refused at the retry stays cached.                        *)
RefusedKeyIsDropped ==
  \A r \in Requests : answer[r] = "401" => key \notin refused[r] \cap MintKeys
=============================================================================
