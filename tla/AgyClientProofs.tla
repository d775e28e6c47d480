-------------------------- MODULE AgyClientProofs ---------------------------
(***************************************************************************)
(* Proofs about the token store and the upstream client of                 *)
(* agy-bridge-go, for any number of requests and tokens and whatever the   *)
(* agy CLI, the clock and the upstream do meanwhile.                       *)
(***************************************************************************)
EXTENDS AgyClient, TLAPS

-----------------------------------------------------------------------------
(* The store.                                                              *)

(* A token that can be used is one, was not rejected and was issued.       *)
LEMMA UsableIsToken ==
  ASSUME StoreTypeOK, NEW c \in Creds \cup {NoCred}, NEW lives \in SUBSET {"good", "short"},
         Usable(c, lives)
  PROVE  c \in Creds /\ c.tok \in Tokens /\ c.tok \notin rejected /\ life[c.tok] # "new"
  BY DEF Usable, Creds, StoreTypeOK

LEMMA LoadedType ==
  ASSUME StoreTypeOK
  PROVE  Loaded \in Creds \cup {NoCred}
  BY DEF Loaded, LoadCredential, StoreTypeOK, Creds

(* What each step does to the store: types are kept, no token becomes new  *)
(* again and no report is forgotten.                                       *)
StoreEvolves ==
  /\ StoreTypeOK'
  /\ \A t \in Tokens : life[t] # "new" => life'[t] # "new"
  /\ rejected \subseteq rejected'

LEMMA StoreStep ==
  ASSUME StoreTypeOK, TokenAssumption,
         \/ Hit \/ UNCHANGED storeVars
         \/ \E r \in Requests : Acquire(r) \/ LoadNeedsRefresh(r)
         \/ \E r \in Requests : LoadAnswers(r) \/ LoadFails(r)
         \/ \E r \in Requests : \E t \in Tokens : Refreshed(r, t)
         \/ \E r \in Requests : RefreshFallsBack(r) \/ RefreshFails(r)
         \/ \E t \in Tokens : Invalidate(t)
         \/ Environment
  PROVE  StoreEvolves
<1> USE DEF StoreEvolves, StoreTypeOK
<1>1. CASE Hit \/ UNCHANGED storeVars
  BY <1>1 DEF Hit, storeVars
<1>2. ASSUME NEW r \in Requests, Acquire(r) PROVE StoreEvolves
  BY <1>2 DEF Acquire
<1>3. ASSUME NEW r \in Requests, LoadNeedsRefresh(r) \/ LoadAnswers(r) \/ LoadFails(r)
      PROVE  StoreEvolves
  BY <1>3, LoadedType DEF LoadNeedsRefresh, LoadAnswers, LoadFails, Release
<1>4. ASSUME NEW r \in Requests, NEW t \in Tokens, Refreshed(r, t) PROVE StoreEvolves
  <2>1. cred' \in Creds
    BY <1>4 DEF Refreshed, RefreshToken, Creds
  <2>2. QED
    BY <1>4, <2>1 DEF Refreshed, Release
<1>5. ASSUME NEW r \in Requests, RefreshFallsBack(r) \/ RefreshFails(r) PROVE StoreEvolves
  BY <1>5 DEF RefreshFallsBack, RefreshFails, Release
<1>6. ASSUME NEW t \in Tokens, Invalidate(t) PROVE StoreEvolves
  BY <1>6 DEF Invalidate, Creds
<1>7. CASE Environment
  <2>1. ASSUME NEW c \in saves, SaveLands(c) \/ SaveLost(c) PROVE StoreEvolves
    BY <2>1 DEF SaveLands, SaveLost
  <2>2. ASSUME NEW t \in Tokens, CliLogin(t) PROVE StoreEvolves
    BY <2>2 DEF CliLogin, Creds
  <2>3. ASSUME NEW t \in Tokens, Age(t) \/ Revoke(t) PROVE StoreEvolves
    BY <2>3 DEF Age, Revoke
  <2>4. QED
    BY <1>7, <2>1, <2>2, <2>3 DEF Environment
<1>8. QED
  BY <1>1, <1>2, <1>3, <1>4, <1>5, <1>6, <1>7

LEMMA StoreAlways == ClientInv /\ [Next]_vars => StoreEvolves
<1> SUFFICES ASSUME ClientInv, [Next]_vars PROVE StoreEvolves
  OBVIOUS
<1> USE TokenAssumption DEF ClientInv, TypeOK
<1>1. CASE UNCHANGED vars \/ Environment
  BY <1>1, StoreStep DEF vars
<1>2. ASSUME NEW r \in Requests, Begin(r) \/ Judge(r) \/ Finish(r) PROVE StoreEvolves
  BY <1>2, StoreStep DEF Begin, Judge, Finish
<1>3. ASSUME NEW r \in Requests, TokenHit(r) \/ TokenMiss(r) \/ TokenLoading(r) PROVE StoreEvolves
  BY <1>3, StoreStep DEF TokenHit, TokenMiss, TokenLoading
<1>4. ASSUME NEW r \in Requests, TokenReady(r) \/ TokenMissing(r) PROVE StoreEvolves
  BY <1>4, StoreStep DEF TokenReady, TokenMissing
<1>5. ASSUME NEW r \in Requests, Retry(r) PROVE StoreEvolves
  <2>1. tok[r] \in Tokens
    BY <1>5 DEF Retry, LockDiscipline
  <2>2. QED
    BY <1>5, <2>1, StoreStep DEF Retry
<1>6. QED
  BY <1>1, <1>2, <1>3, <1>4, <1>5 DEF Next, Client

-----------------------------------------------------------------------------
(* The requests.                                                           *)

(* CurrentToken only ever answers a token no request has reported.         *)
LEMMA AnswerIsFresh ==
  ASSUME ClientInv, NEW r \in Requests
  PROVE  /\ TokenHit(r) => cred.tok \in Tokens \ reported /\ life'[cred.tok] # "new"
         /\ TokenReady(r) => cred'.tok \in Tokens \ reported /\ life'[cred'.tok] # "new"
<1> USE DEF ClientInv, TypeOK, ReportsKnown
<1>1. ASSUME TokenHit(r) PROVE cred.tok \in Tokens \ reported /\ life'[cred.tok] # "new"
  BY <1>1, UsableIsToken DEF TokenHit, Hit, StoreTypeOK, storeVars
<1>2. ASSUME LoadAnswers(r) PROVE cred'.tok \in Tokens \ reported /\ life'[cred'.tok] # "new"
  BY <1>2, UsableIsToken, LoadedType DEF LoadAnswers
<1>3. ASSUME NEW t \in Tokens, Refreshed(r, t)
      PROVE  cred'.tok \in Tokens \ reported /\ life'[cred'.tok] # "new"
  BY <1>3 DEF Refreshed, RefreshToken, StoreTypeOK
<1>4. ASSUME RefreshFallsBack(r) PROVE cred'.tok \in Tokens \ reported /\ life'[cred'.tok] # "new"
  BY <1>4, UsableIsToken DEF RefreshFallsBack, StoreTypeOK
<1>5. QED
  BY <1>1, <1>2, <1>3, <1>4 DEF TokenReady

LEMMA TypeStep == ClientInv /\ [Next]_vars => TypeOK'
<1> SUFFICES ASSUME ClientInv, [Next]_vars PROVE TypeOK'
  OBVIOUS
<1>1. StoreTypeOK'
  BY StoreAlways DEF StoreEvolves
<1> USE <1>1 DEF ClientInv, TypeOK
<1>2. CASE UNCHANGED reqVars
  BY <1>2 DEF reqVars
<1>3. ASSUME NEW r \in Requests, Begin(r) PROVE TypeOK'
  BY <1>3 DEF Begin, Goto
<1>4. ASSUME NEW r \in Requests, NEW t \in Tokens, Send(r, t) PROVE TypeOK'
  BY <1>4 DEF Send, Goto
<1>5. ASSUME NEW r \in Requests, TokenHit(r) \/ TokenReady(r) PROVE TypeOK'
  BY <1>4, <1>5, AnswerIsFresh DEF TokenHit, TokenReady
<1>6. ASSUME NEW r \in Requests, TokenMiss(r) PROVE TypeOK'
  BY <1>6 DEF TokenMiss, Goto, StoreTypeOK, Creds
<1>7. ASSUME NEW r \in Requests, TokenLoading(r) PROVE TypeOK'
  BY <1>7 DEF TokenLoading, reqVars
<1>8. ASSUME NEW r \in Requests,
             NEW o \in {"none", "ok", "401", "status", "failed", "no_credentials", "refresh_failed"},
             Return(r, o)
      PROVE  TypeOK'
  BY <1>8 DEF Return, Goto
<1>9. ASSUME NEW r \in Requests, TokenMissing(r) \/ Finish(r) PROVE TypeOK'
  BY <1>8, <1>9 DEF TokenMissing, Finish
<1>10. ASSUME NEW r \in Requests, Judge(r) PROVE TypeOK'
  <2>1. tok[r] \in Tokens
    BY <1>10 DEF Judge, LockDiscipline
  <2>2. QED
    BY <1>10, <2>1 DEF Judge, Goto
<1>11. ASSUME NEW r \in Requests, Retry(r) PROVE TypeOK'
  <2>1. tok[r] \in Tokens
    BY <1>11 DEF Retry, LockDiscipline
  <2>2. QED
    BY <1>11, <2>1 DEF Retry, Goto
<1>12. QED
  BY <1>2, <1>3, <1>5, <1>6, <1>7, <1>9, <1>10, <1>11 DEF Next, Client, vars

LEMMA ReportsStep == ClientInv /\ [Next]_vars => ReportsKnown'
<1> SUFFICES ASSUME ClientInv, [Next]_vars PROVE ReportsKnown'
  OBVIOUS
<1>1. \A t \in Tokens : life[t] # "new" => life'[t] # "new"
  BY StoreAlways DEF StoreEvolves
<1> USE DEF ClientInv, ReportsKnown
<1>2. ASSUME UNCHANGED <<rejected, reported>> PROVE ReportsKnown'
  BY <1>1, <1>2 DEF TypeOK, StoreTypeOK
<1>3. CASE UNCHANGED vars \/ (Environment /\ UNCHANGED reqVars)
  BY <1>2, <1>3 DEF vars, reqVars, storeVars, Environment, SaveLands, SaveLost, CliLogin,
     Age, Revoke
<1>4. ASSUME NEW r \in Requests, Retry(r) PROVE ReportsKnown'
  <2>1. tok[r] \in Tokens /\ life[tok[r]] # "new"
    BY <1>4 DEF Retry, LockDiscipline, CallState
  <2>2. QED
    BY <1>1, <1>4, <2>1 DEF Retry, Invalidate, TypeOK, StoreTypeOK
<1>5. ASSUME NEW r \in Requests, Begin(r) \/ TokenHit(r) \/ TokenMiss(r) \/ TokenLoading(r)
      PROVE  ReportsKnown'
  BY <1>2, <1>5 DEF Begin, TokenHit, Hit, Send, TokenMiss, Acquire, TokenLoading,
     LoadNeedsRefresh, storeVars, reqVars
<1>6. ASSUME NEW r \in Requests, TokenReady(r) PROVE ReportsKnown'
  BY <1>2, <1>6 DEF TokenReady, LoadAnswers, Refreshed, RefreshFallsBack, Send
<1>7. ASSUME NEW r \in Requests, TokenMissing(r) \/ Judge(r) \/ Finish(r) PROVE ReportsKnown'
  BY <1>2, <1>7 DEF TokenMissing, LoadFails, RefreshFails, Return, Judge, Finish, storeVars
<1>8. QED
  BY <1>3, <1>4, <1>5, <1>6, <1>7 DEF Next, Client
-----------------------------------------------------------------------------
(* The lock.  A step that neither takes nor gives it back moves no request *)
(* into or out of CurrentToken's critical section.                         *)
LEMMA LockKept ==
  ASSUME TypeOK, LockDiscipline, UNCHANGED <<mu, phase>>,
         phase = "refresh" => UNCHANGED cred,
         \A q \in Requests : pc'[q] = "store" <=> pc[q] = "store",
         \A q \in Requests : pc'[q] \in {"call", "reply"} => tok'[q] \in Tokens
  PROVE  LockDiscipline'
  BY DEF LockDiscipline

LEMMA LockReleased ==
  ASSUME TypeOK, LockDiscipline, TokenAssumption, NEW r \in Requests, mu = r, Release,
         pc'[r] # "store",
         \A q \in Requests \ {r} : pc'[q] = pc[q] /\ tok'[q] = tok[q],
         pc'[r] \in {"call", "reply"} => tok'[r] \in Tokens
  PROVE  LockDiscipline'
  BY DEF LockDiscipline, Release

LEMMA LockStep == ClientInv /\ [Next]_vars => LockDiscipline'
<1> SUFFICES ASSUME ClientInv, [Next]_vars PROVE LockDiscipline'
  OBVIOUS
<1> USE TokenAssumption DEF ClientInv
<1>1. CASE UNCHANGED vars \/ (Environment /\ UNCHANGED reqVars)
  BY <1>1, LockKept DEF vars, reqVars, storeVars, Environment, SaveLands, SaveLost, CliLogin,
     Age, Revoke, LockDiscipline
<1>2. ASSUME NEW r \in Requests, Begin(r) \/ Judge(r) \/ Finish(r) PROVE LockDiscipline'
  BY <1>2, LockKept DEF Begin, Judge, Finish, Return, Goto, storeVars, TypeOK, LockDiscipline
<1>3. ASSUME NEW r \in Requests, TokenHit(r) PROVE LockDiscipline'
  BY <1>3, LockKept, AnswerIsFresh DEF TokenHit, Hit, Send, Goto, storeVars, TypeOK, LockDiscipline
<1>4. ASSUME NEW r \in Requests, Retry(r) PROVE LockDiscipline'
  BY <1>4, LockKept DEF Retry, Invalidate, Goto, TypeOK, LockDiscipline
<1>5. ASSUME NEW r \in Requests, TokenMiss(r) PROVE LockDiscipline'
  BY <1>5 DEF TokenMiss, Acquire, Goto, TypeOK, LockDiscipline
<1>6. ASSUME NEW r \in Requests, TokenLoading(r) PROVE LockDiscipline'
  BY <1>6 DEF TokenLoading, LoadNeedsRefresh, reqVars, TypeOK, LockDiscipline
<1>7. ASSUME NEW r \in Requests, TokenReady(r) PROVE LockDiscipline'
  <2>1. mu = r /\ Release
    BY <1>7 DEF TokenReady, LoadAnswers, Refreshed, RefreshFallsBack
  <2>2. QED
    BY <1>7, <2>1, AnswerIsFresh, LockReleased DEF TokenReady, Send, Goto, TypeOK
<1>8. ASSUME NEW r \in Requests, TokenMissing(r) PROVE LockDiscipline'
  <2>1. mu = r /\ Release
    BY <1>8 DEF TokenMissing, LoadFails, RefreshFails
  <2>2. QED
    BY <1>8, <2>1, LockReleased DEF TokenMissing, Return, Goto, TypeOK
<1>9. QED
  BY <1>1, <1>2, <1>3, <1>4, <1>5, <1>6, <1>7, <1>8 DEF Next, Client

-----------------------------------------------------------------------------
(* The state of one request.                                               *)
RequestInv(q) == CallState(q) /\ SecondAttempt(q) /\ (outcome[q] = "401" => TwoRefused(q))

LocalsKept(q) ==
  /\ pc'[q] = pc[q] /\ tok'[q] = tok[q] /\ attempt'[q] = attempt[q]
  /\ resp'[q] = resp[q] /\ outcome'[q] = outcome[q] /\ refused'[q] = refused[q]

(* Whatever the others do to the store, what is known of a request that    *)
(* makes no step stays true.                                               *)
LEMMA OthersKeepRequest ==
  ASSUME ClientInv, StoreEvolves, NEW q \in Requests, LocalsKept(q)
  PROVE  RequestInv(q)'
<1> USE DEF ClientInv, LocalsKept, StoreEvolves
<1>1. CallState(q)'
  BY DEF CallState, LockDiscipline
<1>2. SecondAttempt(q)'
  BY DEF SecondAttempt
<1>3. outcome'[q] = "401" => TwoRefused(q)'
  <2> SUFFICES ASSUME outcome[q] = "401" PROVE TwoRefused(q)'
    OBVIOUS
  <2>1. TwoRefused(q) /\ refused'[q] = refused[q]
    BY DEF UnauthorizedOnlyTwice
  <2>2. QED
    BY <2>1 DEF TwoRefused
<1>4. QED
  BY <1>1, <1>2, <1>3 DEF RequestInv

LEMMA StepIsLocal ==
  ASSUME TypeOK, NEW r \in Requests, Begin(r) \/ Client(r), NEW q \in Requests \ {r}
  PROVE  LocalsKept(q)
<1> USE DEF LocalsKept, TypeOK, Goto
<1>1. ASSUME NEW o, Return(r, o) PROVE LocalsKept(q)
  BY <1>1 DEF Return
<1>2. ASSUME NEW t, Send(r, t) PROVE LocalsKept(q)
  BY <1>2 DEF Send
<1>3. CASE TokenHit(r) \/ TokenReady(r)
  BY <1>2, <1>3 DEF TokenHit, TokenReady
<1>4. CASE TokenMissing(r) \/ Finish(r)
  BY <1>1, <1>4 DEF TokenMissing, Finish
<1>5. CASE Begin(r) \/ TokenMiss(r) \/ TokenLoading(r) \/ Judge(r) \/ Retry(r)
  BY <1>5 DEF Begin, TokenMiss, TokenLoading, Judge, Retry, reqVars
<1>6. QED
  BY <1>3, <1>4, <1>5 DEF Client

(* A request that returns with an answer it had no 401 for, or that had    *)
(* its second one.                                                         *)
LEMMA ReturnKeepsRequest ==
  ASSUME ClientInv, NEW r \in Requests, NEW o, Return(r, o),
         o = "401" => resp[r] = "401" /\ attempt[r] = 2
  PROVE  RequestInv(r)'
<1> USE DEF ClientInv, TypeOK
<1>1. CallState(r)'
  BY DEF Return, Goto, CallState
<1>2. SecondAttempt(r)'
  BY DEF Return, Goto, SecondAttempt
<1>3. ASSUME outcome'[r] = "401" PROVE TwoRefused(r)'
  <2>1. o = "401" /\ refused'[r] = refused[r] /\ pc[r] = "reply"
    BY <1>3 DEF Return, CallState
  <2>2. tok[r] \in refused[r] /\ \E t \in refused[r] : tok[r] # t
    BY <2>1 DEF CallState, SecondAttempt
  <2>3. QED
    BY <2>1, <2>2 DEF TwoRefused
<1>4. QED
  BY <1>1, <1>2, <1>3 DEF RequestInv

(* A request that leaves with an answer of CurrentToken.                   *)
LEMMA SendKeepsRequest ==
  ASSUME ClientInv, StoreEvolves, NEW r \in Requests, NEW t \in Tokens \ reported, Send(r, t),
         life'[t] # "new", pc[r] \in {"token", "store"}
  PROVE  RequestInv(r)'
<1> USE DEF ClientInv, TypeOK, Send, Goto
<1>1. CallState(r)'
  BY DEF CallState
<1>2. SecondAttempt(r)'
  BY DEF SecondAttempt, ReportsKnown, StoreEvolves
<1>3. outcome'[r] # "401"
  BY DEF CallState
<1>4. QED
  BY <1>1, <1>2, <1>3 DEF RequestInv

LEMMA OwnStepKeepsRequest ==
  ASSUME ClientInv, StoreEvolves, NEW r \in Requests, Begin(r) \/ Client(r)
  PROVE  RequestInv(r)'
<1> USE DEF ClientInv, TypeOK, RequestInv
<1>1. CASE Begin(r)
  <2>1. attempt'[r] = 1
    BY <1>1 DEF Begin, CallState
  <2>2. QED
    BY <1>1, <2>1 DEF Begin, Goto, CallState, SecondAttempt
<1>2. CASE TokenHit(r)
  BY <1>2, AnswerIsFresh, SendKeepsRequest DEF TokenHit
<1>3. CASE TokenReady(r)
  BY <1>3, AnswerIsFresh, SendKeepsRequest DEF TokenReady
<1>4. CASE TokenMissing(r)
  BY <1>4, ReturnKeepsRequest DEF TokenMissing
<1>5. CASE Finish(r)
  BY <1>5, ReturnKeepsRequest DEF Finish
<1>6. CASE TokenMiss(r)
  BY <1>6 DEF TokenMiss, Acquire, Goto, CallState, SecondAttempt
<1>7. CASE TokenLoading(r)
  BY <1>7, OthersKeepRequest DEF TokenLoading, reqVars, LocalsKept
<1>8. CASE Judge(r)
  BY <1>8 DEF Judge, Goto, storeVars, CallState, SecondAttempt
<1>9. CASE Retry(r)
  BY <1>9 DEF Retry, Invalidate, Goto, CallState, SecondAttempt
<1>10. QED
  BY <1>1, <1>2, <1>3, <1>4, <1>5, <1>6, <1>7, <1>8, <1>9 DEF Client

LEMMA RequestStep == ClientInv /\ [Next]_vars => \A q \in Requests : RequestInv(q)'
<1> SUFFICES ASSUME ClientInv, [Next]_vars, NEW q \in Requests PROVE RequestInv(q)'
  OBVIOUS
<1>1. StoreEvolves
  BY StoreAlways
<1>2. CASE UNCHANGED reqVars
  BY <1>1, <1>2, OthersKeepRequest DEF reqVars, LocalsKept
<1>3. ASSUME NEW r \in Requests, Begin(r) \/ Client(r) PROVE RequestInv(q)'
  BY <1>1, <1>3, StepIsLocal, OthersKeepRequest, OwnStepKeepsRequest DEF ClientInv
<1>4. QED
  BY <1>2, <1>3 DEF Next, vars

-----------------------------------------------------------------------------
(* The theorems.                                                           *)

LEMMA InitInv == Init => ClientInv
<1> SUFFICES ASSUME Init PROVE ClientInv
  OBVIOUS
<1>1. StoreTypeOK
  BY DEF Init, StoreInit, StoreTypeOK, Creds
<1>2. TypeOK
  BY <1>1 DEF Init, TypeOK
<1>3. LockDiscipline /\ ReportsKnown /\ UnauthorizedOnlyTwice
  BY TokenAssumption DEF Init, StoreInit, LockDiscipline, ReportsKnown, UnauthorizedOnlyTwice
<1>4. ASSUME NEW r \in Requests PROVE CallState(r) /\ SecondAttempt(r)
  BY DEF Init, CallState, SecondAttempt
<1>5. QED
  BY <1>2, <1>3, <1>4 DEF ClientInv

LEMMA InvStep == ClientInv /\ [Next]_vars => ClientInv'
<1> SUFFICES ASSUME ClientInv, [Next]_vars PROVE ClientInv'
  OBVIOUS
<1>1. \A q \in Requests : RequestInv(q)'
  BY RequestStep
<1>2. UnauthorizedOnlyTwice'
  BY <1>1 DEF RequestInv, UnauthorizedOnlyTwice, TwoRefused
<1>3. QED
  BY <1>1, <1>2, TypeStep, LockStep, ReportsStep DEF ClientInv, RequestInv

LEMMA InvHolds == Spec => []ClientInv
  BY InitInv, InvStep, PTL DEF Spec

(* Every variable of the client and of the store keeps its type.           *)
THEOREM AgyTypeCorrect == Spec => []TypeOK
<1>1. ClientInv => TypeOK
  BY DEF ClientInv
<1>2. QED
  BY <1>1, InvHolds, PTL

(* auth.go:55-130: the mutex has one holder, every return gives it back,   *)
(* and what the refresh needs of the credential holds when it is reached.  *)
THEOREM AgyLockDiscipline == Spec => []LockDiscipline
<1>1. ClientInv => LockDiscipline
  BY DEF ClientInv
<1>2. QED
  BY <1>1, InvHolds, PTL

(* client.go, StreamGenerateContent: one refused token is never the        *)
(* caller's problem, a 401 is only returned after two different ones.      *)
THEOREM AgyUnauthorizedOnlyTwice == Spec => []UnauthorizedOnlyTwice
<1>1. ClientInv => UnauthorizedOnlyTwice
  BY DEF ClientInv
<1>2. QED
  BY <1>1, InvHolds, PTL

(* auth.go:132-143: a token that was reported is never sent again, although*)
(* the keychain may keep it and late saves may put it back.                *)
THEOREM AgyReportedNeverSent == Spec => ReportedNeverSent
<1>1. ClientInv /\ [Next]_vars =>
        [\A r \in Requests : pc[r] # "call" /\ pc'[r] = "call" => tok'[r] \notin reported]_vars
  <2> SUFFICES ASSUME ClientInv, Next, NEW r \in Requests, pc[r] # "call", pc'[r] = "call"
               PROVE  tok'[r] \notin reported
    OBVIOUS
  <2> USE DEF ClientInv, TypeOK
  <2>1. PICK q \in Requests : Begin(q) \/ Client(q)
    BY DEF Next, reqVars
  <2>2. q = r
    BY <2>1, StepIsLocal DEF LocalsKept
  <2>3. ~(Begin(r) \/ TokenMiss(r) \/ TokenLoading(r) \/ Judge(r) \/ Retry(r))
    BY DEF Begin, TokenMiss, TokenLoading, Judge, Retry, Goto, reqVars
  <2>4. ~(TokenMissing(r) \/ Finish(r))
    BY DEF TokenMissing, Finish, Return, Goto
  <2>5. TokenHit(r) \/ TokenReady(r)
    BY <2>1, <2>2, <2>3, <2>4 DEF Client
  <2>6. QED
    BY <2>5, AnswerIsFresh DEF TokenHit, TokenReady, Send
<1>2. QED
  BY <1>1, InvHolds, PTL DEF Spec, ReportedNeverSent
=============================================================================
