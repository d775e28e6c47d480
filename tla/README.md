# muse-bridge: a TLA+ verification project

The repository holds local bridges between coding tools and two hosted model
services. Each bridge is a daemon on 127.0.0.1 that swaps in real credentials,
translates requests, streams the answers back and keeps what the next turn needs.
This directory models what is hard to test in them: locks held over network
calls, credentials refused while others rotate them, a bounded cache whose names
may collide, a file written behind the back of the handlers, answers that are
told twice (as events and as a whole) and have to agree, and histories that come
back altered, shortened, or after the cache forgot them.

Modules are checked with TLC on small instances; the theorems in `*Proofs.tla`
are checked with TLAPS for every value of the constants. `PROJECT.json` lists the
runs, the faulty variants that each property catches, the source lines of every
definition, the hazards and the theorems.

## Inventory

Paths are relative to `src/`.

| Part | State | Operations | Interacts with | Hard because | Correct when |
|---|---|---|---|---|---|
| Muse key store, `muse-bridge-go/internal/keys` | mutex, key, time of resolve | CurrentKey, Invalidate | mint endpoint, identity file, every handler | the lock is held over the mint; a 401 may be about a key rotated since | no mint while a key is usable; the lock always comes back |
| Muse proxy, `muse-bridge-go/internal/proxy` | semaphore channel; locals of each handler | serveProxy, roundTrip, stream | key store, upstream, client's context | ten ways out of the handler, one retry, wait for a slot against timeout and disconnect | slots conserved, a 401 only after two refusals, no request stuck on the lock or for a slot |
| Muse credentials and login, `.../internal/auth` | identity file | LoadIdentity, LoadDirectKeys, MintAPIKey, DoLogin | key store, device endpoint | polling, partial answers | a login ends in a stored identity or an error |
| Muse rewrite, `.../internal/rewrite` | none | Responses | proxy | data, not control | fields defaulted, invalid JSON untouched |
| Rotating log, `*/internal/logfile` | handle, size, backup files | Open, Write, rotate, Close | every goroutine | rotation can fail half way | a write is never lost; the cap holds |
| Python bridge, `muse-bridge-py/bridge.py` | key, idle connections, semaphore | current_key, invalidate_key, _exchange, _forward | upstream, threads | dead pooled connections, nested retries | as the Go proxy, and no connection used twice |
| Signature cache, `agy-bridge-go/internal/upstream/signature_cache.go` | records, aliases, four order slices, ambiguous set, turn siblings | Put*/Get*, RecordTurnSiblings, IsVerifiedSibling, Load/SaveToFile | protocol handlers, disk | names claimed twice, eviction, two generations of file format | a name never resolves to the wrong record |
| Cache persistence, same file | saving flag, saver goroutine, tmp file, file | triggerSave, SaveToFile, LoadFromFile | handlers, main | update during a save, crash, failed write | the file is a whole state and moves forward |
| Agy token store, `agy-bridge-go/internal/auth` | mutex, credential, rejected set | CurrentToken, Invalidate, Load/SaveCredential, RefreshToken | keychain and file shared with the agy CLI, OAuth endpoint | reload overwrites memory, saves in any order | a reported token is never used again |
| Agy client, `.../upstream/client.go` | locals of each request | StreamGenerateContent | token store, prediction service | 401 races | two refusals before an error, no request waits for a token because another waits for the service |
| Turn record, `.../protocols/turn_record.go` | accumulator: committed parts, text under way, order of items, ids of calls | ProcessPart, FlushPendingText, Finish, ToOutputItems, PopulateCache | handlers, cache | calls and thoughts cut texts, signatures come late and alone, calls are repeated | no word lost, each signature on the part it was sent for |
| Responses handler, `.../responses.go`, `upstream_decoder.go` | pending parts; open message, reasoning index, call indexes | stream loop, final response | turn record, client | any order of parts, the stream breaks anywhere | every item announced and finished once; events, final and unstreamed response agree |
| Chat handler, `.../chat.go` | ids, text and last signature so far | stream loop, whole answer | cache, client | calls are cached as they come, texts at the end; the stream breaks in between | only whole texts leave a signature |
| Translation and provenance, `translate.go`, `provenance.go` | none (reads the cache) | request translation for both protocols | cache | the client dropped, altered or added things; records go between two reads | faithful histories accepted, altered or injected calls never sent as native |
| Schemas, `schema.go` | none | schema rewriting | — | — | — |
| Models, front proxy, mains, config | static tables; server | routing, serve, shutdown | all | shutdown against streams | drain or time out |
| Pi extension, `pi-agy-headless` | tokens, event stream | login, resolveAuthCredentials, createStreamSimple | Pi host, service | callbacks and awaits | each event delivered once, in order |
| Scripts and packaging | none | install, package | — | — | — |

## Modules and the code they model

**Muse bridge.** `KeyStore` is `keys.go`. CurrentKey blocks while it resolves, so
it is two steps: `BeginResolve` takes the lock, and `Mint`, `UseDirect` or
`ResolveFails` gives it back; a cache hit and `Invalidate` are one step each. The
TTL is the Boolean `fresh`, cleared by `KeyAges`. `revoked` is the set of keys the
upstream answers 401 to. `KeyStore` has a specification of its own, `StoreSpec`:
any caller, any order, reporting only refused keys.
`FlightSlots` is the abstract semaphore: a set of at most `MaxFlights` requests.
`MuseProxy` is `serveProxy`, one process per request with a location (`pc`) and the
handler's locals; it EXTENDS `KeyStore`, and its `Return` is every `return` of the
handler together with the deferred receive from the channel. The handler's steps
on the store are the store's own actions, so the composition is literal. Several
things in the code have no action because they touch nothing shared: path
normalisation, body rewriting, header forwarding. The body of an error reply is read
(`ReadError`) before the key is dropped or the error forwarded, for as long as the
upstream takes. The line after the loop
(`upstream retry exhausted`) cannot be reached: the second pass always returns.

**Agy signature cache.** `FifoTable` is the scheme of the four bounded tables (map
plus order slice). `SignatureCache` has the operations that change the cache, each
atomic because each runs under the cache's lock; `Init` also covers a file written
by an earlier translator (with migration markers) or in the version 0/1 format, and
`Reload` is a save and a restart: contents survive, order does not. A tool name and
its arguments are one value (`Calls`); the code compares them together. A call that
is put with a name but no arguments is not told apart. Puts the code rejects are
not actions; lookups are the operators `Found` and `ContextSignature`. Three
histories say what the cache was told: `claims`, who was put under a name, and
`ignored`, whose claim the code passed over because the name was then another record's
call id; and `since`, the signatures put for a context since its entry last came in
(`Met`: two that differ are never forgotten). Text
signatures follow the same code as message signatures, no handler uses them, and
they are not repeated.

**Cache persistence.** `CacheSaver` is the path to the disk with every step a crash
or another handler can come between: put, trigger, sleep, snapshot, truncate,
write, rename, clear the flag. The cache is the set of the updates it took: what
each update does is `SignatureCache`'s business. `SnapshotFile` is the promise.

**Agy token store and client.** `TokenStore` splits CurrentToken at its blocking
calls (the keychain, the refresh) and lets the agy CLI, ageing tokens, revocation and
late, lost or reordered saves interleave. Keychain and file are one place `disk`,
which is what a load finds; in the code it is the first of the two with a credential,
so that an unreadable keychain yields the file's, which a save and the CLI write as well.
The environment override `AGY_BRIDGE_TOKEN` (a constant credential without refresh)
is covered by a `disk` without a refresh token, except that a save cannot overwrite
it. `AgyClient` is StreamGenerateContent on top.

**Agy turns.** `TurnRecord` is `turn_record.go` as functions: `ProcessPart` maps an
accumulator and a part to the next accumulator, one operator per kind of part, and
`BuildAuthoritativeTurn` folds it over an answer. A text is the sequence of the numbered
pieces it was put together from, so that loss, doubling and reordering show. A call's
two ids are halves of one hash over the upstream's id and its position, and one value
here. `UpstreamDecoder` hands out what a chunk holds, parts before the finish reason.
`ResponsesStream` composes both into `handleStreamingResponses`: one action per decoder
event, `Complete` for what follows the loop, `Fail` for a stream that breaks off.
`streamed` is what a client that follows the events has assembled, `final` is the last
event's output. The carrier inside a reasoning item is data: the streamed one lacks the
model and the turn's id (`responses.go:429-436`) that the final one has
(`turn_record.go:354-362`), and the translation reads neither. `ItemStream` is the
promise of such a stream to any client: items are announced under ids of their own,
filled while open, finished once and then left alone. That the handler which does not
stream gives the same output is `SameAsUnstreamed`.

**Agy replay.** `HandlerCache` is `SignatureCache` with the turn siblings and the
puts a handler makes, one locked operation at a time, next to other conversations
that store calls of their own (`OtherPut`). `Save` takes a snapshot of the cache
(`Memory`) between any two puts, as the saver does 200 ms after it was asked to;
`RestartSaved` loads the last one, which may be old, empty (never written), or have a
turn's calls without the siblings put after them: then `torn` is set. How the snapshot
gets to the disk is `CacheSaver`'s business, which shows that the file is always one.
`Provenance` is the policy of `provenance.go`, from evidence to a signature or a
rejection. `ResponsesReplay` follows one turn of `/v1/responses`: the handler stores
it (`PopulateCache`, put by put), the client sends it back with results
(`Replay`: what it may leave out, alter or add is the constant `Deviations`), the
validation and the passes over the whole history are `Scan`, then `Translate` takes
one item after the other and `Send` ends it. `Chat` and `ChatReplay` are the same for
`/v1/chat/completions`, where there is no authoritative turn: calls are cached as they
arrive (also when the stream breaks later), siblings with the terminal event, the
signature of the text after the stream, and a client may keep signatures, reasoning
details or the message id.

Abstractions of the replay modules. The code reads the cache several times while it
translates one item; here an item is one action, and records may go between items.
`Scan` is one action too. Contents and arguments are small sequences, and an altered
one is `Altered`. Ids of different kinds never coincide: they are hashes. Records of
version 0/1 stay with `SignatureCache`, which covers what a load makes of them; the
branches of the translation for them are left out. A conversation is one turn: the
prefix of its context is one value. The order of roles, tool declarations, system
messages and schemas are data and left out.

`MC*` modules only give constants their values.

## Runs, bounds and what they show

| Run | Instance | Shows |
|---|---|---|
| `muse` | 2 requests, 2 minted keys, 1 direct key, 1 slot | `NoNeedlessMint`, `SlotsConserved`, `UnauthorizedOnlyTwice`, `RetryWithAnotherKey` and the type invariant; `EveryRequestProgresses` under fairness; the proxy implements `StoreSpec` and `FlightSlots` |
| `muse_refused_key_kept` | 2 requests, 3 keys | violated: the key of a second 401 stays cached |
| `cache` | 3 names, 2 calls, 3 contexts (2 signatures) and messages, tables of 2, old and legacy files | `TablesAgree`, `LookupNamesClaimant`, `LookupsNeverRetargeted`, `KnownSignatureKept`, `ContextAgreed` |
| `saver` | 2 writers, 3 updates (one unsigned), 2 mishaps | `SaverInv`, the file implements `SnapshotFile`, `AskedInTimeIsSaved` under fairness |
| `saver_lost_update` | the same, no mishap | violated: an update during the tail of a save is not saved |
| `agy_client` | 2 requests, 2 tokens | `LockDiscipline`, `UnauthorizedOnlyTwice`, `ReportedNeverSent`, `EveryRequestProgresses` |
| `agy_fallback_lost` | 1 request, 2 tokens | violated: an unexpired token in memory is lost to the reload |
| `responses_stream` | every answer of up to 4 parts out of 10 shapes, chunks of up to 2 | `StreamedIsFinal`, `SameAsUnstreamed`, `NothingLost`, `SignaturesLand`; the events implement `ItemStream` |
| `responses_wordless` | up to 3 parts, with a wordless thought | violated: an item is announced, never finished, and not in the final output |
| `responses_replay` | the answers of `MCAnswers`, up to 2 deviations, tables of 2, 2 other calls, saves and restarts at any time | `FaithfulReplayAccepted`, `AlteredNeverSent`, `InjectedNeverBorrows`, `OwnSignature`, `AcceptedIsPaired`, `TextSignatureOwn` |
| `chat_replay` | 9 answers, streamed or whole, complete or broken, each set of kept metadata, up to 2 deviations, saves and restarts at any time | `StoredTextIsWhole`, `FaithfulChatAccepted`, `KnownSentAsKnown`, `InjectedNeverBorrows` |
| `chat_details` | as `chat_replay` | violated: the details of the text make the bridge reject a native call |

Why the bounds are enough. Two requests are needed for every race on a key or token, and
one slot between them makes the semaphore both full and contended. The safety properties
of the muse proxy are theorems for any number of requests, keys and slots (below), so
the run only has to be large enough for every action. Two minted keys allow a rotation
under a request that still holds the first, and a direct key the fallback. A table of
two with three names makes every put an eviction candidate and leaves room for a name
claimed by both records; a third record is reached by evicting the first. The constraint
`OneTable` lets a behaviour use either tool records or contexts or messages: no
operation reads or writes two of them, and they share only the set of ambiguous names,
whose members are of different kinds, and the reload. A record's signature is only
compared with none and with the marker, so one will do for records (`OneSignature`);
contexts get two. Two mishaps give a crash during the save that follows a failed or torn
write. Two tokens give an old and a refreshed one, each of which the CLI may also have
stored. Counters are all bounded by the code (attempts, semaphore) except `MaxMishaps`.
Four parts hold each case of the turn record: a text, what cuts it, the text after it
and a late signature, or a call repeated with something in between. A turn of two calls
has a lead and a sibling and fills a table of two; two calls of other conversations then
evict them, one at a time and in the middle of a translation. Two deviations are enough
for one to hide the other (`MaxDeviations`), which is how they would pass. The
constraint `EqualLifetimes` of `agy_fallback_lost` narrows a counterexample to the plain
case and hides no pass. The replay runs have a `VIEW`: states are told apart by what the
future can still depend on. It leaves out the histories of the cache, which nothing
there reads, the order of a table once no put can evict from it, the order of the file's
tables (a restart shuffles them) and the file itself once no restart can follow.

`CHECK_DEADLOCK FALSE` is said of `CacheSaver` (once every update of the instance is
put and saved, the system has nothing to do) and of the turn and replay runs, which
follow one answer or one request to its end.

Fairness. Handlers run (weak fairness on what a goroutine can do by itself). The
mint, the wait for a slot and the wait for response headers have timers in the code,
so their outcome is weakly fair; the refresh of the agy token has the 15 s of its HTTP
client, while its call to the service has no bound and is not fair. The body of an error
reply is read without a timer (`proxy.go:150`; `UpstreamHeaderTimeout` ends with the
headers, `config.go:37-39`), so `ReadError` is not fair: an upstream that leaves it open
holds the handler, its slot included, and `EveryRequestProgresses` only promises that a
request with a reply gets as far as reading it. A
mutex is only intermittently free, and Go's mutex hands itself to a waiter starved
for a millisecond, hence strong fairness on the steps that lock. Nothing bounds a
stream or obliges a client to send or a handler to put, so these are not fair. The
keychain subprocess is assumed to end: the code has no timeout there (hazards).

## Proofs

`MuseProxyProofs` proves for every set of requests and keys and every capacity:

- `StoreMintsOnlyWhenNeeded`: `StoreSpec => []NoNeedlessMint`. The invariant is not
  inductive by itself: `StoreInv` adds that a cached minted key is known to the
  history and fresh or aged (`CachedKeyKnown`), and that nobody resolves while the
  cached key is fresh (`ResolvingMeansStale`), which is what looking at the key
  under the lock buys.
- `MuseImplementsStore`: each step of the proxy is a step of the store or leaves it
  alone. The one hard case is Retry: the key it reports must be one the upstream
  refused (`CallState`: refused keys are revoked and a 401 is about `rkey`).
  `MuseMintsOnlyWhenNeeded` follows by refinement.
- `MuseSlotsConserved`, `MuseImplementsSlots`: `sem` is the cardinality of the set
  of handlers inside, which `Return` and `TakeSlot` change by exactly one.
- `MuseUnauthorizedOnlyTwice`, `MuseRetryWithAnotherKey`, `MuseTypeCorrect` from the
  inductive invariant `ProxyInv`: who holds the lock (`LockHolder`) and what is
  known of a request at each location on its first and second attempt. The key fact
  is that the cached key is never one of the minted keys refused to a request that
  is asking for its second: Invalidate dropped it and the mint does not hand out a
  revoked key. `StepIsLocal` and `OthersKeepRequest` carry it over other requests'
  steps, `OwnStepKeepsRequest` over its own.

Assumptions: `KeyAssumption` (keys are distinct from "", minted and direct keys do
not overlap, no request is "nobody") and `FlightAssumption` (finitely many requests,
a positive capacity: `New` replaces others by the default).

`CacheSaverProofs` proves `SaverInvariant` and `SaverImplementsSnapshot` for any
writers, updates and number of mishaps. `SaverInv` says that the flag is up exactly
while one goroutine runs (`OneSaver`), and that its snapshot lies between the file
and the cache and is what the temporary file holds from the write to the rename
(`SnapshotBetween`); without the first the second is not preserved, since two savers
share one temporary path. Assumption: `SaverAssumption`.

`AgyClientProofs` proves every safety invariant of the Antigravity client, for any
requests and token ids: `AgyTypeCorrect`, `AgyLockDiscipline`,
`AgyUnauthorizedOnlyTwice` and `AgyReportedNeverSent`. `ClientInv` adds to the checked
invariants what is known of a request at each location on its first attempt
(`CallState`) and on its second (`SecondAttempt`). That one is the heart of it: a
token is never issued anew, so at a second attempt some reported token was refused
that is not the one being sent, and a 401 for the second attempt is about another
token. Assumption: `TokenAssumption` (token ids are positive numbers, no request is
"nobody").

`SignatureCacheProofs` proves the safety of the cache for any signatures, ids and
capacity, over evictions, restarts and the files of older releases:
`CacheTypeCorrect`, `CacheTablesAgree`, `CacheLookupNamesClaimant`,
`CacheContextAgreed`, and the two action properties `CacheLookupsNeverRetargeted` and
`CacheKnownSignatureKept`. A name that is no call id resolves to a record only while no
other living one was put under it, save for claims passed over; a
context has a signature only while every generation since its entry came in carried it,
and none after two have met. `CacheInv` adds that
a name never contested leads to the one record that counts as its claimant
(`ClaimsKnown`) and that for a context never contested no two signatures met and the
table has the one since (`SeenKnown`): a lookup consults an alias and a record that are
evicted separately, and without the first the agreement of the tables is lost when
one goes. Assumptions: `SigsAssumption` (no signature is the empty one),
`MaxSizeAssumption`, and `FilesAssumption`: an older translator left the records
reachable under their own ids, no alias that leads nowhere, and no more records than
its table held.

`TurnRecordProofs` holds what the stream proofs need of the accumulator: folding
`Accumulate` over an answer with one more part is one more `Accumulate`
(`AccumulatedAppend`). The general law is induction over data with an operator
parameter, out of reach; for this one fold it is derived from the least
counterexample (`LeastElement`, `FoldIsChosen`). The same argument gives the laws of
the library's `FlattenSeq` the replay proofs need: one sequence more
(`FlattenAppend`), what is flattened or selected comes from what it was made of
(`FlattenElements`, `SelectedElements`), keeps its order (`SelectedKept`) and, of
ascending pieces one above the other, ascends (`FlattenPiled`).

Its main result is `AlwaysRight`: what the accumulator has recorded after any parts.
`Recording` and `Ordered` say that the items are named apart, each once in `OutputOrder`,
in the order of their parts; `Right`, for parts numbered as they come, that the texts
hold all text parts in their order, each signed by the last signature for it, with a
piece or on its own (`TextsRight`), that a call has the arguments and the signature sent
last for it (`CallsRight`), and that the summary is the thoughts in their order
(`ThoughtsRight`). A part does one of five things to the record, the text under way
counted as committed (`PartIsTaken`), and none of them makes it wrong (`RightTaken`):
there is no shortest sequence of parts after which it is. `OutputInOrder` then places
every item in the output of the turn.

`ResponsesStreamProofs` proves for every answer, cut into any parts and broken off
anywhere: `StreamTypeCorrect`; `StreamEndsAsUnstreamed`, that what a streamed turn
leaves behind is what the same answer leaves unstreamed; and `StreamKeepsItsPromise`,
that the events implement `ItemStream` (an item is added, filled and done once, and
nothing is said of it afterwards). `StreamInv` says that the parts handled and the
parts to come are the answer in order, that the accumulator is the fold over those
handled, and where each item stands: open, waiting for the flush, or flushed
(`Places`), with indexes that never collide. Assumptions: `BoundsAssumption` and
`ShapesAssumption` (the parts the decoder delivers). The refinement is stated under
`WordedThoughts`, because without it it is false: the run `responses_wordless`
shows the thought without words whose item is announced, never finished, and missing
from the final response. `ThoughtsAreKept` carries that hypothesis from the answers to the states.

What the final response says of the parts alone follows from `AlwaysRight`: `Ending`
has the parts numbered as they arrive and the accumulator at the end that of the whole
answer, with one empty message when there was nothing else (`EndTurn`). So every signature
reaches the item it is for (`SignaturesReach`), and no text, thought or argument is lost,
doubled or out of order (`StreamLosesNothing`). Both hold for every answer, thoughts
without words included.

The events say what the final response says (`StreamEndsAsFinal`, under `WordedThoughts`
as above). Its invariant, `StreamedRight`, compares the client with the accumulator
while parts are still coming, the text under way counted as committed: the items
announced are those of `order`, one by one; the deltas of the reasoning item and of every
message are its text so far; and a message that was finished has the body it was finished
with, and the signature, unless a later one came for it on its own. Each
kind of part keeps it (`ThoughtStreamed`, `CallStreamed`, `PieceStreamed`,
`SignatureStreamed`), which needs the places of `StreamInv` to know that a delta goes to the
item that is open. When the loop is over, the calls, the open message and the reasoning
item are finished with what the turn has of them (`LoopStreamed`, `ReasoningStreamed`,
`TurnAsFinal`), or nothing was announced and the empty message is (`EmptyAsFinal`).
TLC checked `StreamedRight` on the instance of `responses_stream`.

`ChatReplayProofs` proves every safety property of a chat turn that comes back, for
any answers (repeated calls, signatures anywhere), any deviation of the client, any
capacity of the cache and any number of calls that others store and evict meanwhile:
`TypeCorrect`, `StoredTextWhole`, `FaithfulChatIsAccepted`, `KnownSent` and
`InjectedSentAsForeign`. None is inductive. `ChatInv` (`InvHolds`) relates the four
places a call leaves traces in: an id of `ids` is at the same index in the message told
to the client, its record, while the cache has one, carries the arguments and the
signature the client was told (`CallsTold`), the siblings are those of the whole turn
unless a restart lost them (`SiblingsKnown`), and an unaltered request has
exactly the calls told, with a result each (`RequestKnown`). Its core is that, once a
turn is answered, what other conversations do only makes the cache find less of it
(`ShrinkInv`, `OtherPutShrinks`), and that what a restart loads is known (`RestartInv`).
`TextKnown` adds that the text and the signature
told are those of the parts read so far, which `FlattenAppend` and `SigStep` carry
from part to part. The file is a cache the daemon had: every invariant of the tables is
also proved of the file (`FileKnown`, `FileTextKnown`, stated in the proof module), kept by
saves, which copy the memory, and by puts, which leave the file alone while the turn only
gains parts; so that a restart from any of its ages finds what `ChatInv` asks for.
TLC checked them all on the instance of `chat_replay`.
Assumptions: `CacheAssumption`, `SignaturesAssumption` (some signature exists, and the
marker is neither one nor empty), `AnswersAssumption` (parts as the decoder delivers
them, at most `MaxIndex + 1`, arguments among `Contents`) and `ContextsAssumption` (the
words of every answer have a context key). `FaithfulChatAccepted` keeps two exceptions:
`DetailsMislead`, which disagreement 5 shows to be necessary, and a turn with unsigned
calls whose siblings the file lacked (`torn`).

`ResponsesReplayProofs` proves what the bridge sends upstream for a turn that comes
back on `/v1/responses`, for any answers, any set of deviations of the client, any
capacity of the cache and any evictions in the middle: `TypeCorrect`,
`AlteredIsNeverSent`, `OwnSignatureSent`, `InjectedSentAlone`, `TextSignatureIsOwn`,
`AcceptedPaired` and `FaithfulIsAccepted`. They rest on the inductive `ReplayInv`
(`InvHolds`), one part for each place a call leaves traces in:

- `TurnKnown`: the turn is that of an answer, a call is named by the number of parts
  before it, and the calls listed are those of the parts (`TurnIsSound`, carried over
  the accumulator by `PartStep`). Names of different calls never coincide, which is why
  an alias leads to one call only.
- `CacheKnown`, `RecordsKnown`, `ContextsKnown`, `SiblingsKnown`: whatever the cache
  still finds under the name of a call of the turn is that call's own record, a context
  has the signature of a text with these words, and siblings are recorded for the first
  call only. A put of the turn establishes it (`PutKnown`), evictions only take away
  (`ShrinkInv`), and a restart loads a file of which the same is known (`FileKnown`,
  `RestartInv`), whatever its age.
- `InputKnown`: every call of the request is injected, or a call of the turn with its
  own signature or none; the first call may bear the item id of the last.
- `ScanKnown`: the first pass has given a run of calls one lead, never an injected one,
  and a run with a signed call that is known has a lead.
- `SentKnown`: what has been sent is about items of the request.

A second invariant, `LeadsKnown`, says of every call sent whether its run has a lead;
it is not implied by the first because a call may be evicted between the first pass and
its translation, and it rests on that calls only go (`KnownShrinks`).
`KnownEvidence` and `KnownSig` then follow the policy of `provenance.go` through its
branches.

`AcceptedPaired` needs a third invariant, `PairedInv`, because pairing is about the
whole request and not about the call at hand: each call sent has exactly one result,
later, under one of the call's own two names (`OwnNames`), whether or not the bridge
knows the calls; and while it knows a call, that name is the one the upstream gave. When
it does not, call and result may be sent under different ones of the two. It says what
an input that passed the validation keeps until it is sent: results come after the calls
(`CallsFirst`), the calls are different ones and there are no more results than calls
(`Exchanged`), and a result names its call by a name of that call (`CalleesTraced`); and
what has been sent so far is the calls and results passed, in their order
(`SentInOrder`, `AllSent`), every call has a result, and each goes under one of the
call's own names, which while the bridge knows the call is the id the upstream gave it,
or the call's own if it gave none (`SentNamed`). Call and result each look that id up
when they are translated, and the record may go in between; what is found is always the
id the upstream gave (`CacheKnown`, `Bridged`), and the id of a turn's call is told from
that of any other (`OutNamesDiffer`). At the end, as many results as calls, each call
with at least one, leave exactly one each (`OneEach`). The exception `Misnamed` is
listed below.

`FaithfulIsAccepted` is the converse of the others: not what the bridge refuses to send,
but that it sends what it should. Its invariant, `FaithfulInv`, has one part for each
reason a rejection could have:

- `RequestFaithful`: as long as a client only leaves things out (`Leaves`), its history
  is a copy of the turn, part by part in their order (`Copied`), with one result for
  each call (`AnsweredBy`). This follows the turn through `ToOutputItems` and the
  client's way of sending it back; that both list at most one element per item
  (`FlattenThreaded`) is what relates the positions.
- `NamesKept`: the item name of a call of the turn is never contested, so it finds the
  call while the record is there. The same holds in the file (`FileNamesKept`), so that a
  restart brings back names as good as those it loses.
- `SiblingsThere`: the siblings of the first call are stored last (`SiblingsLast`), and
  from then on they are known unless a restart loses them (`torn`).
- `AnswersFound` and `FirstLeads`: the first pass has matched every call with a result,
  and the first call, when signed and known, leads the run it stands in. They are stated
  of the request and the tables of the first pass, so a later eviction does not touch
  them.

The exchange is then valid (`ExchangeValid`), and every call is signed by itself or by
the first call, which vouches for it (`VouchedFor`, `FaithfulCallSigned`), so no
translation rejects it. The precondition `SignedTurn` is used where an unsigned call
needs the first one in its run, and the exception `torn` where it needs the siblings
because the client sent no reasoning item.

TLC checked `ReplayInv`, `LeadsKnown`, `PairedInv`, the parts of `FaithfulInv` about the
cache and the first pass, and what is said of the file on the instance of
`responses_replay`. Assumptions: `CacheAssumption`, `SignaturesAssumption`,
`AnswersAssumption` and `ContextsAssumption`, as for chat.

Only model-checked: all liveness (under fairness, beyond the prover). Every safety
invariant the passing runs check is also a theorem.

## Disagreements found

1. `proxy.go:152` drops the key of a request's first 401 only. `README.md:297` tells
   the operator that after a 401 "the bridge drops it and mints a new one on the next
   request", and the Python bridge drops the key on every 401 (`bridge.py:423`). Run
   `muse_refused_key_kept`: the key of the second 401 stays in the cache, and the
   next request pays one more refused call for it.
2. `signature_cache.go:127` skips a save while another runs, even past that one's
   snapshot, and nothing asks again at its end. Run `saver_lost_update`.
3. `auth.go:91` replaces the credential in memory by the stored one even when it is
   older. Run `agy_fallback_lost`: the fallback promised at `auth.go:107` is lost.
4. `responses.go:285` announces a reasoning item for a thought part without words;
   when the turn has neither thought text nor a signature, that item is never finished
   and absent from the final output, whose indexes shift. `agy-bridge-go/README.md:27`
   promises that events and final output have the same items and indexes. Run
   `responses_wordless`.
5. `translate.go:262` takes the signature in the reasoning details, which is that of
   the text, for the signature of a single call. With the call's own signature cached
   and another one on the text, the two contradict and the unaltered call is rejected;
   `agy-bridge-go/README.md:41` has matching native records replayed. Run
   `chat_details`.

Met while modelling, and stated as preconditions or exceptions of the properties
rather than runs of their own:

- A name that is another living record's call id is passed over when it is put as an
  alias (`signature_cache.go:227`), and no trace of the claim is kept: once that record
  is evicted, the next record put under the name gets it, although a living one was put
  under it before (`ignored` in `LookupNamesClaimant`).
- `signature_cache.go:445` compares a signature with the one in the table. That of a
  generation whose entry was evicted (463) is forgotten, and a later one is returned as
  if it were the only one, while the comment (431-433) speaks of any two generations
  (`since` in `ContextAgreed`).
- The save that a turn's first call asks for is taken 200 ms later
  (`signature_cache.go:132`), which may be before the turn's siblings are told
  (`chat.go:288`, `turn_record.go:491`). A daemon restarted from that file knows every
  call and rejects an unsigned one of the unaltered turn as unverified, unless the
  client sends the reasoning item (`torn` in `FaithfulChatAccepted` and
  `FaithfulReplayAccepted`).
- `translate.go:943` and `translate.go:967` look the upstream's id up for the call and
  again for its result. When the record is evicted in between and the client sent no
  reasoning item, the two go out under different ids (`OwnNames` in `AcceptedIsPaired`).
- Siblings are recorded between the first call and the others only. A turn whose
  signed call is neither, or whose calls are parted by a text, is rejected when it is
  replayed (`SignedTurn`).
- A single sibling that the cache has evicted and the client's reasoning item does not
  carry is an unknown call; if no signed call stands next to it, it goes out with the
  marker (`Known`).
- Without the reasoning item, a result named by the upstream's id passes the
  validation through the cache but is not matched by the translation (`Faithful`).
- A call the upstream gave no id, returned under the item id of another call with the same
  name and arguments, is accepted: `translate.go:751` compares the two identities only
  while both are known. Once its own record is gone, `translate.go:943` sends it under the
  other's upstream id and `translate.go:966` its result under its own (`Misnamed`, met in
  the proof of `AcceptedPaired`; the instance now has such an answer).
- An eviction between the first pass and the translation lets a call through that the
  first pass took for altered, so that an injected call may stand next to it, and, with
  item ids mixed up, next to other native calls too. Hence `InjectedNeverBorrows` speaks
  of the calls the bridge still knows and excludes mixed-up ids; for chat it is worded
  with the signatures still found.
- A call part repeated without arguments replaces those of its record by none
  (`signature_cache.go:191`, 201). `KnownSentAsKnown` compares what is sent with the record
  and does not see it.
- A streamed chat call that the upstream repeats is sent in two chunks; a client that
  concatenates their arguments has none the bridge accepts (`NamedOnce`). In whole
  answers the call is listed twice, which the validation refuses.
- The chat stream takes the signature of a thought part for the text's, the whole
  answer does not (`SignatureOfText`). The signature of a chat text found by message id
  or details is not compared with the text.
- A signature that comes alone after its message was finished is only in the final
  response, not in the events (last disjunct of `StreamedIsFinal`).

## Plan

What is left, in order of weight:

1. Two turns in one conversation, so that contexts with a real prefix compete.
2. `RotatingLog` (`logfile.go`): the claim of lines 67-69 about the previous handle.
3. The Python pool and its nested retries; the Pi event stream.

## Not modelled

Formatting and schema conversion (`schema.go`, tool declarations and role merging in
`translate.go`), static model tables, flags, installers: they keep no state between
requests. Device login and the drain at shutdown are short sequences with one actor.
The rotating log is a writer under one lock whose failures only cost log lines. The
Python bridge repeats the Go one's rules in another language; its connection pool and
the Pi extension's event stream are real concurrency left for later. Branches of the
translation for version 0/1 records are reached only by files of old releases.
