----------------------------- MODULE AgyClient ------------------------------
(***************************************************************************)
(* The upstream client of agy-bridge-go (internal/upstream/client.go,      *)
(* StreamGenerateContent) composed with its TokenStore: a request asks for *)
(* a token, calls the prediction service with it and, on a first 401,      *)
(* reports the token and tries once more.                                  *)
(***************************************************************************)
EXTENDS TokenStore, Integers

VARIABLES
  pc,         \* where each request is
  tok,        \* its local variable token
  attempt,    \* its loop variable attempt
  resp,       \* the answer to the call in progress
  outcome,    \* what StreamGenerateContent returned
  refused,    \* history: the tokens this request got a 401 for
  spare,      \* history: the token cached when its CurrentToken took the lock
  reported    \* history: the tokens passed to Invalidate

reqVars == <<pc, tok, attempt, resp, outcome, refused, spare, reported>>
vars == <<storeVars, reqVars>>

TypeOK ==
  /\ StoreTypeOK
  /\ pc \in [Requests -> {"idle", "token", "store", "call", "reply"}]
  /\ tok \in [Requests -> Tokens \cup {NoToken}]
  /\ attempt \in [Requests -> {1, 2}]
  /\ resp \in [Requests -> {"none", "ok", "401", "status", "failed"}]
  /\ outcome \in [Requests -> {"none", "ok", "401", "status", "failed", "no_credentials", "refresh_failed"}]
  /\ refused \in [Requests -> SUBSET Tokens]
  /\ spare \in [Requests -> Tokens \cup {NoToken}]
  /\ reported \subseteq Tokens

Init ==
  /\ StoreInit
  /\ pc = [r \in Requests |-> "idle"]
  /\ tok = [r \in Requests |-> NoToken]
  /\ attempt = [r \in Requests |-> 1]
  /\ resp = [r \in Requests |-> "none"]
  /\ outcome = [r \in Requests |-> "none"]
  /\ refused = [r \in Requests |-> {}]
  /\ spare = [r \in Requests |-> NoToken]
  /\ reported = {}

-----------------------------------------------------------------------------
Goto(r, l) == pc' = [pc EXCEPT ![r] = l]

Return(r, o) ==
  /\ Goto(r, "idle")
  /\ outcome' = [outcome EXCEPT ![r] = o]
  /\ tok' = [tok EXCEPT ![r] = NoToken]
  /\ attempt' = [attempt EXCEPT ![r] = 1]
  /\ resp' = [resp EXCEPT ![r] = "none"]
  /\ refused' = [refused EXCEPT ![r] = IF o = "401" THEN @ ELSE {}]
  /\ UNCHANGED <<spare, reported>>

Begin(r) ==
  /\ pc[r] = "idle"
  /\ Goto(r, "token")
  /\ outcome' = [outcome EXCEPT ![r] = "none"]
  /\ refused' = [refused EXCEPT ![r] = {}]
  /\ spare' = [spare EXCEPT ![r] = NoToken]
  /\ UNCHANGED <<tok, attempt, resp, reported, storeVars>>

(* CurrentToken returned t: the request leaves with it.                    *)
Send(r, t) ==
  /\ Goto(r, "call")
  /\ tok' = [tok EXCEPT ![r] = t]
  /\ spare' = [spare EXCEPT ![r] = NoToken]
  /\ UNCHANGED <<attempt, resp, outcome, refused, reported>>

TokenHit(r) ==
  /\ pc[r] = "token"
  /\ Hit
  /\ Send(r, cred.tok)

TokenMiss(r) ==
  /\ pc[r] = "token"
  /\ Acquire(r)
  /\ Goto(r, "store")
  /\ spare' = [spare EXCEPT ![r] = IF cred = NoCred THEN NoToken ELSE cred.tok]
  /\ UNCHANGED <<tok, attempt, resp, outcome, refused, reported>>

TokenLoading(r) ==
  /\ pc[r] = "store"
  /\ LoadNeedsRefresh(r)
  /\ UNCHANGED reqVars

TokenReady(r) ==
  /\ pc[r] = "store"
  /\ \/ LoadAnswers(r)
     \/ \E t \in Tokens : Refreshed(r, t)
     \/ RefreshFallsBack(r)
  /\ Send(r, cred'.tok)

TokenMissing(r) ==
  /\ pc[r] = "store"
  /\ \/ LoadFails(r) /\ Return(r, "no_credentials")
     \/ RefreshFails(r) /\ Return(r, "refresh_failed")

-----------------------------------------------------------------------------
(* The service looks at the token when the call reaches it.                *)
Judge(r) ==
  /\ pc[r] = "call"
  /\ \E s \in {"ok", "401", "status", "failed"} :
       /\ s = "401" => tok[r] \in revoked \/ life[tok[r]] = "expired"
       /\ s = "ok" => tok[r] \notin revoked
       /\ resp' = [resp EXCEPT ![r] = s]
       /\ refused' = [refused EXCEPT ![r] = IF s = "401" THEN @ \cup {tok[r]} ELSE @]
  /\ Goto(r, "reply")
  /\ UNCHANGED <<tok, attempt, outcome, spare, reported, storeVars>>

(* Faulty variant: every 401 is retried.                                   *)
RetryUnbounded(r) ==
  /\ pc[r] = "reply"
  /\ resp[r] = "401"
  /\ Invalidate(tok[r])
  /\ reported' = reported \cup {tok[r]}
  /\ attempt' = [attempt EXCEPT ![r] = @ + 1]
  /\ resp' = [resp EXCEPT ![r] = "none"]
  /\ Goto(r, "token")
  /\ UNCHANGED <<tok, outcome, refused, spare>>

Retry(r) ==
  /\ pc[r] = "reply"
  /\ resp[r] = "401" /\ attempt[r] = 1
  /\ Invalidate(tok[r])
  /\ reported' = reported \cup {tok[r]}
  /\ attempt' = [attempt EXCEPT ![r] = 2]
  /\ resp' = [resp EXCEPT ![r] = "none"]
  /\ Goto(r, "token")
  /\ UNCHANGED <<tok, outcome, refused, spare>>

(* Faulty variant: the first 401 may be returned.                          *)
FinishEarly(r) ==
  /\ pc[r] = "reply"
  /\ Return(r, resp[r])
  /\ UNCHANGED storeVars

(* Anything else ends the loop: the stream is handed over or an error goes *)
(* to the protocol handler.                                                *)
Finish(r) ==
  /\ pc[r] = "reply"
  /\ resp[r] = "401" => attempt[r] = 2
  /\ Return(r, resp[r])
  /\ UNCHANGED storeVars

-----------------------------------------------------------------------------
Client(r) ==
  \/ TokenHit(r) \/ TokenMiss(r) \/ TokenLoading(r) \/ TokenReady(r) \/ TokenMissing(r)
  \/ Judge(r) \/ Retry(r) \/ Finish(r)

Next ==
  \/ \E r \in Requests : Begin(r) \/ Client(r)
  \/ Environment /\ UNCHANGED reqVars

(* Handlers run, the refresh is bounded by the 15 s timeout of its client, *)
(* and the mutex hands itself to a starved waiter.  Nothing bounds the     *)
(* call to the service (Client.httpClient has no timeout), so Judge is not *)
(* fair.  That the keychain subprocess ends is assumed: nothing bounds it  *)
(* either.                                                                 *)
Fairness ==
  \A r \in Requests :
    /\ WF_vars(TokenLoading(r) \/ TokenReady(r) \/ TokenMissing(r))
    /\ WF_vars(Finish(r))
    /\ SF_vars(TokenHit(r) \/ TokenMiss(r))
    /\ SF_vars(Retry(r))

Spec == Init /\ [][Next]_vars
FairSpec == Spec /\ Fairness

-----------------------------------------------------------------------------
(* A call never leaves with a token that some request had reported before  *)
(* CurrentToken answered, although the keychain may still hold it, saves   *)
(* land late and in any order, and the reports interleave with loads.      *)
ReportedNeverSent ==
  [][\A r \in Requests :
       pc[r] # "call" /\ pc'[r] = "call" => tok'[r] \notin reported]_vars

TwoRefused(r) == \E t, u \in refused[r] : t # u

(* The caller only sees a 401 after two different tokens were refused.     *)
UnauthorizedOnlyTwice == \A r \in Requests : outcome[r] = "401" => TwoRefused(r)

(* The lock is held by exactly the request that is loading or refreshing,  *)
(* and the credential it works on is what the phases after the load assume.*)
LockDiscipline ==
  /\ \A r \in Requests : pc[r] = "store" <=> mu = r
  /\ mu = Nobody <=> phase = "free"
  /\ phase = "refresh" => cred # NoCred /\ cred.refresh
  /\ \A r \in Requests : pc[r] \in {"call", "reply"} => tok[r] \in Tokens

(* The strengthening that makes the properties above inductive: a token is *)
(* never issued anew, so one that was sent or reported cannot come back as *)
(* a refreshed one; and at a second attempt some reported token was        *)
(* refused to the request that is not the one it is sending.               *)
ReportsKnown ==
  /\ rejected = reported
  /\ \A t \in rejected : life[t] # "new"

CallState(r) ==
  /\ pc[r] = "idle" => attempt[r] = 1
  /\ outcome[r] # "none" => pc[r] = "idle"
  /\ resp[r] # "none" => pc[r] = "reply"
  /\ resp[r] = "401" => tok[r] \in refused[r]
  /\ pc[r] \in {"call", "reply"} => life[tok[r]] # "new"

SecondAttempt(r) ==
  attempt[r] = 2 =>
    \E t \in refused[r] \cap rejected : pc[r] \in {"call", "reply"} => tok[r] # t

ClientInv ==
  /\ TypeOK
  /\ LockDiscipline
  /\ ReportsKnown
  /\ \A r \in Requests : CallState(r) /\ SecondAttempt(r)
  /\ UnauthorizedOnlyTwice

(* A request that needs a token, at first or after a 401, gets it or an    *)
(* error, whatever the keychain, the CLI and the other requests do to the  *)
(* store meanwhile: a service that does not answer one of them holds up no *)
(* other.                                                                  *)
EveryRequestProgresses ==
  \A r \in Requests : pc[r] \in {"token", "reply"} ~> pc[r] \in {"call", "idle"}

(* "If refresh fails but we still have an unexpired, non-rejected access   *)
(* token, log and use it as fallback" (auth.go:107): a token that was in   *)
(* the cache when the call began and still has life should be used.        *)
UnexpiredTokenIsFallback ==
  \A r \in Requests : outcome[r] = "refresh_failed" =>
      spare[r] = NoToken \/ spare[r] \in rejected \/ life[spare[r]] = "expired"
=============================================================================
