# A TLA+ model of walletd-go

walletd-go is the Go SDK for the WalletD wallet API.  It is small, but what it
promises is not: a POST that moves money is retried over an unreliable network
and moves it once; an error tells the caller what may be concluded from it; a
listing with no end marker is walked to its end without dropping a row; a
webhook is verified and takes effect once; and a caller who strings such calls
together is left with what it asked for.  This directory models those promises,
checks them with TLC on small instances, and proves the safety properties among
them for every instance with TLAPS.

Paths such as `client.go:266` are relative to the repository.

## 1. Inventory

| Component | Source | State | Operations |
|---|---|---|---|
| Retry loop | `client.go:185-388` | per call: attempt, payload, key, the response in hand, the wait, the caller's result value | `doKeyed`, `do`, `retryable`, `backoff`, `wait` |
| Delays | `client.go:69-93, 339-410` | none (`RetryPolicy` is a value) | `backoff`, `parseRetryAfter`, `retryable` |
| Idempotency keys | `idempotency.go` | none; the key belongs to the caller and survives its restart | `validate`, `NewIdempotencyKey` |
| Problems | `errors.go` | none; one `Problem` for each error response | `decodeProblem`, `Unwrap`, `statusSentinel` |
| Iterator | `pagination.go:29-157` | limit, cursor, page, pos, done, err, started | `PageSize`, `Next`, `Item`, `Err`, `All`, `Collect` |
| PageIterator | `pagination.go:159-254` | the same fields | the same operations |
| Client construction | `client.go:95-183` | base URL, HTTP client, credential, policy | `New`, the options |
| Endpoint wrappers | `money.go`, `users.go`, `commerce.go`, `webhooks_api.go` | none | one method for each API call: method, path, keyed or not |
| Webhook verification | `webhook.go` | none | `VerifySignature`, `ParseEvent`, `Event.Into` |
| Receiver fixture | `acceptance/receiver.py` | SQLite tables inbox and effects; handler threads; the worker and its transaction | `do_POST`, `worker` |
| Acceptance journey | `acceptance/journey_test.go` | what a caller knows of the calls it made | the calls of an order process, in sequence |
| Generated types | `types.gen.go`, `api/openapi.yaml`, `generate.go` | none | none |

How they interact.  Every wrapper is one call of `do`, a money-moving one
through `doKeyed`; `do` asks `retryable`, `backoff` and `parseRetryAfter` what to
do next and `decodeProblem` for the error to return; the iterators' `fetch`
callbacks are wrappers.  Calls share nothing in the client (`Client` is immutable
after `New`) but meet at the service, where two calls with one idempotency key
are one operation, and where successive calls act on one payment, subscription
or limit.  The webhook functions and the receiver are the other direction: the
service calls the integrator, who may ask for a redelivery.

What is hard.

* A request outlives the attempt that sent it: the service may execute it after
  the client timed out, retried, gave up or died, and net/http may itself send a
  replay-safe request twice.  A 5xx may be said after the money moved.
* One operation may have several calls: concurrent callers, or a caller and its
  successor after a crash, with the same parameters or, by mistake, with others.
* Cancellation races every step: the answer, the reading of its body, the wait.
* The delay arithmetic is machine arithmetic: `BaseDelay << (attempt-1)` and
  `seconds * time.Second` wrap.
* The end of a listing is inferred from a count; rows arrive while it is walked,
  a transaction may be several rows, the service may fail to advance the cursor.
* An error body may be anything, and what it claims may contradict the wire.
* A call without a key that got no answer may act after the caller went on.
* Deliveries repeat, overtake each other and arrive late; two handler threads and
  the worker share a database; the process stops between any two commits, and
  the worker thread may die alone.

What makes each component correct.

* Retry loop: an operation moves money at most once; success shows that movement;
  an error that says "refused" is final; no partial answer is visible; every
  money request carries its caller's key; every call returns.
* Delays: within `MaxDelay`; the exact capped doubling in spite of wrap-around; a
  time named by the server is waited out in full or not at all.
* Problems: the class a caller branches on is the wire's; no code from a body that
  did not decode; what was worth retrying is recognisable.
* Iterators: everything is delivered once, in order, or the walk says it failed;
  no request is wasted.
* Idempotency keys: what `validate` accepts arrives as it was written.
* Endpoint wrappers and the journey: every step of a script moves money at most
  once, a keyed and answered one exactly once; a final status stands.
* Webhooks: exactly what was signed within the window verifies; an event that was
  accepted is durable and takes effect once.

`PROJECT.json` lists the hazards one by one, at their lines, with the properties
that cover them.

## 2. Modules

| Module | What it is |
|---|---|
| `RetryDelay` | delays and retry decisions as operators, in signed arithmetic of a given width (`HalfWord` is 2^(w-1)) |
| `Construction` | `New` and the options; extends `RetryDelay` |
| `RetrySchedule` | the waits of one call that never succeeds; `MCRetrySchedule` instantiates it with the policies of `Construction` |
| `Endpoints` | the exported methods: which write, which carry a key |
| `Idempotency` | keys as sequences of characters: what `validate` accepts, what arrives |
| `Client` | calls in flight, their requests on the wire, the service; `MCClient` instantiates it with the keys of `Idempotency` |
| `WalletOperation` | the abstract specification `Client` implements |
| `Problem` | error responses over the attempts of a call; `MCProblem` |
| `Walk` | the abstract specification both iterators implement |
| `Paging` | the fields and the branches of `Next` that the iterators share |
| `Iterator`, `PageIterator` | the two iterators with the service they read from; `MCIterator`, `MCPageIterator` |
| `Journey` | scripts of calls on one payment, top-up, subscription and user; `MCJourney` |
| `Webhook` | `VerifySignature` and `ParseEvent` as operators |
| `Receiver` | the receiver's threads, worker and tables, and the wallet that sends; `MCReceiver` |
| `Delivery` | the abstract specification `Receiver` implements |
| `RetryDelayProofs` | lemmas about the delay operators |
| `RetryScheduleProofs` | theorems about `RetrySchedule` and `Construction`, and the lemmas about powers of two they need |
| `ClientProofs` | theorems about `Client` and `Idempotency`, and the refinement of `WalletOperation` |
| `IteratorProofs`, `PageIteratorProofs` | theorems about the iterators, and their refinement of `Walk` |
| `ProblemProofs`, `JourneyProofs` | theorems about `Problem` and `Journey` |
| `ReceiverProofs` | theorems about `Receiver`, and the refinement of `Delivery` |

`Client` and `Journey` read one table of `Endpoints`; `Receiver` is built on
`Webhook`.  `Journey` takes of a call what `Client` shows of it: a keyed write is
sent up to `MaxAttempts` times and deduplicated, another is sent once, and either
may reach the service late.

Definitions commented "Faulty variant" are no part of a specification.  Each is
what a plausible mistake would make of the definition after it, and putting it in
that place makes a run fail: `PROJECT.json` (`mutants`) pairs every property with
one, as evidence that the property depends on the code.

### Client

`pc[c]` is the place of call c in `do`: idle, build (head of the loop), sent
(inside `http.Client.Do`, or with its response in hand), reading (`io.ReadAll`
and the decoding), waiting (`wait`), done, crashed.  `attempt` is the loop
variable, `out` the value behind the caller's pointer, `result` the returned
error by its kind.  `inflight` holds requests on the way to the service and
`effects` the requests that moved money.  A request records its call and attempt,
so that a late answer reaches nobody.

| Code | Actions |
|---|---|
| `doKeyed`, validation, `json.Marshal` | `Start`, `RefuseLocally` (guard `Sendable`) |
| building the request, `cred.Token` | `FailLocally` |
| `c.http.Do` | `Send`, `SendCancelled`, `TransportFail`; `Answer` puts a response in the attempt's hands |
| 4xx/5xx branch | `RetryProblem`, `ReturnProblem` |
| stray status | `ReturnUnexpected` |
| reading and decoding | `BeginRead`, then `ReadBody`, `ReadTruncated` or `ReadIncompatible` |
| `wait` | `WaitElapsed`, `WaitCancelled` |
| context, process | `Cancel`, `Crash` |

`NoCompleteAnswer` is the code `do` has twice (262-273 and 316-330): the context is
asked first, then a replay-safe call with attempts left backs off.  In `wait` a
zero delay only looks at the context and a positive one races the timer with it,
so both `WaitElapsed` and `WaitCancelled` are possible once a call is cancelled.

The service is external and is modelled as the client relies on it.  It executes a
write whose key it has not stored and may then fail with a 5xx
(`ServiceExecutes`), replays the stored answer to the same key and payload
(`ServiceReplays`), answers reads, or declines without doing anything
(`ServiceDeclines`: 4xx, a gateway's 5xx, a redirect, the conflict of a reused
key).  A request may stay in flight for ever, an answer may be lost, and a
replay-safe request may be received again.

That a 4xx means nothing was done is what README.md's retry table says of 429 and
what lets `do` retry a 429 without a key; it is the one thing assumed of the
service besides deduplication.

A header is absent, a number of seconds, or a date given as the time left.  A key
is usable or not; `Carried` is what arrives of it, which `MCClient` takes from
`Idempotency`.

### Iterators

A row is its age rank.  `LastRow` says where each transaction's rows end, so a
transaction may have several rows with one key, as in a user's history.  One call
of `Next` is one action: the service evaluates the request at one moment of it,
and an iterator is not shared between goroutines.  `Grow` posts a transaction at
the head of the listing at any time.  The service fills its page with `limit`
transactions, at most its ceiling, as long as there are so many; or it answers
once more with the page that ended with the cursor.  `ShortPages` lets it stop a
page earlier although more follow, the case of section 4.  `delivered` is what `Collect` collects, and `Status` what the caller
of `Next` and `Err` knows.  A walk that was stopped early is a prefix of one that
was not: the caller simply makes no further step.

`PageIterator` reads a filtered listing.  The service goes through `Records` records,
of whose first s the filter lets `Passed[s]` through.  It may cut them into
stretches of any length with at most `limit` matching items, and may answer with
the cursor it was sent.  `EmptyPages` lets it answer with a page without items that names a next
cursor, the case of section 4.

### Problem

The three kinds of body are a whole envelope, one with a field of the wrong type
(which `encoding/json` decodes in part before it reports the failure) and no JSON.
A code sentinel is written as its code, except the two codes whose sentinel is a
class.

### Journey

The caller works through a script.  `Call` starts the call of a step, or makes it
again when the last one ended without an answer; `NoAnswer` is an attempt that
got no complete answer or a 5xx (another attempt for a keyed call, nothing known
for the others); `ReadBack` is what money.go:85-88 tells the caller of an unkeyed
call to do, read the object and decide.  Answers come from `Replay`, `Execute`,
`Refuse` and `Throttle`, each of which may also act on a request whose attempt is
over.  `HoldExpires` is the expiry of an authorization.

`world` is one object of each kind.  What an endpoint does to it is the service's
and is taken from what the repository says at the wrapper: the captured part and
the released rest, "voiding twice is the same void", the lifecycle actions that
repeat to the same state, a settled top-up returned unchanged.  `moved` counts,
for each step, how often money was moved, held or released.  `Course` is the
sequence of worlds a script leads through when each step is carried out once.
A script creates one payment at most, and its amounts are positive, as
`api/openapi.yaml` demands (`minimum: 1`); only a capture's may be absent.

### Construction

`New` applies the options in the order given to a client that starts from the
defaults, as a function of the number of options applied.  `DefaultsAssumption`
says that a duration holds the five seconds of `DefaultRetryPolicy`.

### Webhook and Receiver

Time is counted in ticks, of which a signature's timestamp shows whole seconds,
and a tolerance is a machine word of ticks whose most negative value is its own
negation.  The digest is ideal: equal only for equal secret, timestamp and body.

| Code | Actions |
|---|---|
| `do_POST` up to the inbox | `Receive`: 503 without a configuration or with `reject`, 401 unless verified, parsed and of the tenant |
| `INSERT ... ON CONFLICT DO NOTHING` and its commit | `Store`, or `StoreFails` (503) |
| the attempt row and the answer | `Answer`, or `GoUnanswered` |
| `worker`: `BEGIN IMMEDIATE` and the row | `Begin` |
| the effect, the injected failure, the marker and the commit | `Apply`, then `RollBack` or `Commit` |
| an exception other than `RuntimeError` | `WorkerDies` |
| the process | `Restart` |

From `Begin` to `Commit` the worker holds the write lock, so `Store` and `Answer`
wait for it (`Locked`) or fail.  The wallet sends an event until it is answered
with 200 (`Send`), or again when asked (`Redeliver`), signing each attempt when
it is made; anything sent may arrive at any later time, any number of times.
`Forged` and `Misaddressed` are deliveries that are not the endpoint's: other
secrets, bodies or timestamps changed after signing, other tenants, bodies that
are no event.  Each arrives with an unsigned event-id header of any value.

The fixture checks a signature in its own words (receiver.py:48-52); `Receiver`
uses `VerifySignature`, which the handler of README.md uses and whose window,
tenant check and inbox are the same.

## 3. What is checked

| Run | Instance | Shows |
|---|---|---|
| `retry_schedule` | the 86 policies `New` builds from small options, every header form, durations of six bits | waits stay within the cap, equal the exact doubling, honour a named time |
| `client_keyed` | a call and one other with its key, of the same payload or of a different one, two attempts each | at most one movement; success shows the call's own; refinement of `WalletOperation` |
| `client_unkeyed` | a write without a key, a read and a call with an unusable key, two attempts each, a Retry-After of none, now and past the cap, fairness | the write has effect once; a refusal is final; a failed read leaves the value alone; every call returns; refinement; the inductive invariant |
| `iterator` | up to five transactions of one to three rows, sizes -1 to 4, ceiling 3, every page full but the last | refinement of `Walk`; no wasted request |
| `page_iterator` | seven records of which five match, all cuts | refinement of `Walk` |
| `problem` | seven statuses, 90 bodies, two attempts | classes follow the wire, codes come from whole bodies |
| `journey` | ten scripts of two to four steps, two calls a step, two attempts a call | each step moves money at most once, a keyed and answered one exactly once; an answered script leaves nothing behind; final statuses stand |
| `receiver` | two events, two threads, the worker, eight strays, a restart or failure, fairness of the worker | exactly what was signed in time verifies; effects are those of marked rows; refinement of `Delivery`; accepted events are processed |
| `retry_after_wide`, `iterator_short_page`, `page_iterator_empty_page`, `client_padded_key` | | the disagreements of section 4 |

Properties worth a second look:

* `AtMostOnce`, `AnswerIsTheMovement`, `RefusalIsFinal` relate what a caller was
  told to what the service did, over every interleaving of attempts, late
  deliveries, repeated deliveries, cancellations and crashes.
* `WalletSpec` (`Client`) is a refinement.  An operation's ledger is the set of
  effects with its key; a call is pending while it runs and "unknown" after any
  error that leaves open what happened.  The abstract `Refuse` demands an empty
  ledger unless another call asks for the operation too.
* `WalkSpec` says at once that nothing is skipped, repeated or reordered, that an
  end is the end, and that an ended or failed walk stays so.  As every `Next`
  delivers a new item or ends the walk, it also bounds the walk.
* `DeliverySpec` (`Receiver`) says at once that nothing is accepted that did not
  happen, that a 200 is said of a durable row, and that an event takes effect at
  most once, over every interleaving of handlers, worker and restarts.
  `EventuallyProcessed` adds that it does take effect, unless the worker died and
  was never started again.
* `VerifiesWhatWasSigned` quantifies over every tolerance at every moment, and over
  strays whose timestamp was moved into the window.
* `AnsweredInOrder` (`Journey`): as long as every call was answered, the service is
  where the steps lead one after the other, so no answered call leaves a request
  behind that acts later.  `FinalStands` covers the unanswered ones.
* `RetryAfterHonoured` and `BackoffIsCappedDoubling` compare machine arithmetic with
  unbounded integers.

### Bounds

* Two attempts show a retry and the end of retries.  The attempts differ in their
  number only, and the theorems of section 5 hold for any number of attempts and
  calls; `retry_schedule` goes to eight attempts for the waits.
* Two calls with one key (`TwoCallers` leaves either the repetition or the call with
  other parameters idle): a property that relates calls relates two of them.
* Six bits for a duration: 31 units are enough for steps that stay below the cap,
  reach it, wrap negative, wrap to zero and wrap to a positive value again.
  `Fits` names the policies for which the last cannot pass for a valid step; the
  default policy is one of them.  A second is five units in the two retry runs,
  so that the default policy has a base delay of one, and one unit in `Client`.
* `retry_schedule` explores the waits alone.  The policy of the `Client` runs has
  several possible jitter values, and `client_unkeyed` headers of zero and above
  the cap: what matters to `do` is a wait that only looks at the context, one that
  races it, and none.
* Ceiling 3 with five transactions gives a full page followed by a short one, a
  listing that ends exactly at a page's end, a page with more rows than the limit,
  and an empty listing; sizes below 1 and above the ceiling exercise the clamping.
* Seven records of which two do not match give stretches without items, short
  pages with a successor, and a full last page.
* `MaxTransactions` bounds the growth of the listing.
* `receiver`: a second is two ticks and the clock shows 0 to 2, so that a timestamp
  is on, inside and outside both edges of the tolerances -3 to 2; `MaxSends` of two
  gives one event twice or both events once; `MaxFaults` of one is a restart or an
  injected failure at any point, and the theorems hold for any number.
* `journey`: `MaxCalls` of two is a call and its repetition, `MaxAttempts` of two its
  retry.  The scripts are those in which one call can collide with the next.
* Keys have at most three characters, of which two are allowed
  (`maxIdempotencyKeyLen`): one usable, one too long, one with a control character,
  two with blanks at the end.
* Every other variable is bounded by the code.

### Fairness

`FairSpec` of `Client` is weak fairness of each call's own steps: a runnable
goroutine runs, a timer fires, and `http.Client.Do` returns because the default
client has a 30-second timeout (`client.go:168`).  A caller who supplies a client
without a timeout gives this up, unless its context ends.  Nothing is assumed of
the service, which may never answer: `Terminates` holds through `TransportFail`.
`FairSpec` of `Receiver` is weak fairness of the worker's steps and of `MendWorker`:
the worker is a loop over a local database, and an injected failure is taken away
again.  Nothing is assumed of the handlers, which owe nobody an answer, or of the
wallet, which may never send again.  Weak fairness of the worker does not stop it
from dying, and `EventuallyProcessed` excepts a worker that is dead for good:
nothing in the code notices one (see section 4).  One that is started again must
take up what it left.

The runs that stop when every call has returned say `CHECK_DEADLOCK FALSE`; the
others check deadlock.

## 4. Disagreements between the code and what is said of it

Four are runs in which TLC finds a stated property violated.

* `retry_after_wide`: `Retry-After: 9999999999` wraps in `seconds * time.Second`
  (`client.go:400`), is not above `MaxDelay`, and the call is retried at once;
  `client.go:82-84` says such a problem is returned.  `RetryAfterHonoured` holds for
  the numbers whose product fits a duration.
* `iterator_short_page`: a page with fewer transactions than the limit ends the walk
  without an error (`pagination.go:110-112`), also when more follow, while
  `pagination.go:37-38` says that "a short page can still have a successor" and
  `README.md:231` that "fewer rows than I asked for means the end" is false.  Fewer
  rows than the limit are fewer distinct keys, so the code ends on just such a
  page.  What it relies on is said at `users.go:84-88`: the service fills every page
  but the last, and that is what run `iterator` and the theorems assume.
* `page_iterator_empty_page`: a page without items that names a next cursor ends
  the walk without an error (`pagination.go:218-221`), while
  `pagination_test.go:245-246` and `pagination.go:159-160` say that only the
  envelope ends it.
* `client_padded_key`: `validate` accepts blanks anywhere (`idempotency.go:54`), also
  at the ends, where net/http does not transmit them, while `idempotency.go:52` says
  "The header must survive an HTTP round trip unmangled".  Two keys that differ in
  an outer blank are one at the service, and a key of blanks is none.  The other
  `Client` runs, and the theorems that need it, assume `KeysSurvive`.

Others were met while modelling and have no run.

* A `next_cursor` of the zero UUID is exempt from the stall test
  (`pagination.go:212`) and is the first page's cursor, so a service that names it
  starts the walk over; `README.md:234-235` promises `ErrPaginationStalled`.
* A status such as 405 has no class (`errors.go:243`), while `errors.go:107` speaks of
  exactly one for each problem; and a 503 whose code is `rate_limited` has two,
  `ErrServer` by its status and `ErrRateLimited` by its code (`errors.go:42-55`).
* `money.go:58` names a mode "capture"; the generated enumeration has `authorize` and
  `instant`.
* The fixture's worker survives `RuntimeError` only (`receiver.py:25`): a locked or
  full database ends the thread, while deliveries go on being accepted.

And there are limits of what the code promises, which the properties respect:

* The late request of an unanswered `PauseSubscription` undoes a later
  `ResumeSubscription`, and that of `SetUserCreditLimit` a later limit:
  repeating to the same state (`money.go:179-181`) is not commuting.
  `AnsweredInOrder` therefore speaks of scripts in which every call was answered.
* A keyed call that is refused on a later attempt, with a 429 for instance, may have
  been executed on an earlier one or may yet be: the refusal speaks of one request.
* `CreateUser` after a lost answer meets the user it created; the webhook calls
  repeated after a lost answer happen twice, which `Receiver` tolerates for
  `RedeliverWebhookEvent`.

## 5. What is proved

All theorems hold for every value of the constants that satisfies the modules'
assumptions: any word width, policy, set of calls, keys, statuses, headers, codes,
listings, filters, page sizes, scripts, events and threads, and any bound.

| Theorem | Statement |
|---|---|
| `RetryScheduleProofs!ScheduleWithinCap`, `TypeCorrect` | no wait exceeds `MaxDelay`; `TypeOK` |
| `RetryScheduleProofs!NamedTimeIsKept` | the action property `RetryAfterHonoured`, if `NoHeaderWraps` |
| `RetryScheduleProofs!BackoffDoubles` | the action property `BackoffIsCappedDoubling`, if `WordOfBits` |
| `RetryScheduleProofs!NewIsUsable` | every client `New` builds has a policy in `RetryPolicies` and refuses redirects |
| `ClientProofs!Invariance` | `IInv` holds always |
| `ClientProofs!TypeCorrect`, `MovedAtMostOnce`, `SuccessShowsMovement`, `RefusedMovesNothing`, `MoneyCarriesKey`, `NoPartialAnswer` | `TypeOK`, `AtMostOnce`, `AnswerIsTheMovement`, `RefusalIsFinal`, `KeyedOnTheWire`, `OutOnlyOnSuccess` |
| `ClientProofs!ImplementsWallet` | `Spec => WalletSpec`: the retry loop implements `WalletOperation` |
| `ClientProofs!UnpaddedKeysSurvive` | `KeysSurvive` holds exactly if no usable key begins or ends with a blank |
| `IteratorProofs!Invariance`, `TypeCorrect`, `FetchesNeeded` | `IInv`, `TypeOK`, `NoWastedFetch` |
| `IteratorProofs!NoneSkippedNorRepeated` | what was delivered is a beginning of the listing |
| `IteratorProofs!EndsWhole`, `ImplementsWalk` | `EndsWithEverything` and `Spec => WalkSpec` (`Iterator` implements `Walk`), if every page but the last is full |
| `PageIteratorProofs!Invariance`, `TypeCorrect`, `NoneSkippedNorRepeated` | `IInv`, `TypeOK`; what was delivered is a beginning of the listing |
| `PageIteratorProofs!EndsWhole`, `ImplementsWalk` | `EndsWithEverything` and `Spec => WalkSpec`, if no page before the end is empty |
| `ProblemProofs!TypeCorrect`, `CodeOfAWholeBody`, `ClassFollowsTheWire`, `RetryableHasClass` | `TypeOK`, `CodeIsFromAWholeBody`, `ClassIsTheWires`, `RetryableIsRecognised` |
| `JourneyProofs!Invariance`, `TypeCorrect`, `EachMovedOnce`, `ConclusionsStand`, `AnswersInOrder` | `JInv`, `TypeOK`, `MovedOnce`, `FinalStands`, `AnsweredInOrder` |
| `ReceiverProofs!ReceiverInvariance`, `TypeCorrect` | `RInv`, `TypeOK` |
| `ReceiverProofs!EffectsAreMarked`, `OnlySignedInTimeVerifies` | `EffectIffMarker`, `VerifiesWhatWasSigned` |
| `ReceiverProofs!DeliveryImplemented` | `Spec => DeliverySpec`: the receiver implements `Delivery` |

So every invariant, action property and refinement that a passing run checks is
also a theorem.

### Assumptions

Of the constants: `CallsAssumption` (a keyed call is a POST and only a keyed call
has a key, which is how the wrappers of money.go call `do`), `PolicyAssumption` (at
least one attempt, which `WithRetryPolicy` enforces: `NewIsUsable` proves it of
every client there is), `ServiceAssumption`, `WordAssumption`, `DefaultsAssumption`,
`CharactersAssumption`, `ScheduleAssumption`, `PagingAssumption`, `ListingAssumption` (each transaction
has a row), `RecordsAssumption` (a record passes the filter or does not),
`ProblemAssumption` and `CodesAreNotClasses`, `JourneyAssumption` and
`ScriptsAssumption`, `WebhookAssumption` and `ReceiverAssumption` (no forged delivery
is what `Sign` would produce, no misaddressed one is an event's body).

Five theorems or groups of them have a hypothesis of their own.  Without it four
of them are false, by the runs of section 4, and the hypothesis says where exactly
the code stops being right:

* `KeysSurvive`, for `Client`'s `Invariance`, `MovedAtMostOnce`,
  `SuccessShowsMovement`, `MoneyCarriesKey` and `ImplementsWallet`.  The others rest
  on `BaseInv`, the part of `IInv` that needs no such hypothesis.
  `UnpaddedKeysSurvive` says of keys as texts what it comes to: no usable key has
  a blank at an end, as none of `NewIdempotencyKey` has (run `client_padded_key`).
* `NoHeaderWraps`: the seconds of a header fit a duration, that is, are fewer than
  292 years (run `retry_after_wide`).
* `~ ShortPages`, for `EndsWhole` and `ImplementsWalk` of `Iterator` (run
  `iterator_short_page`), and `~ EmptyPages`, for those of `PageIterator` (run
  `page_iterator_empty_page`).  That nothing is skipped or repeated needs neither.
* `WordOfBits`: half a word is a power of two, which it is.

### Arguments

The argument for `Client`.  `AtMostOnce` is not inductive: for a keyed operation it
needs that every effect carries its call's key, and for an unkeyed one that a
second request is never sent while the first may still be executed.  `IInv` adds
what makes it so:

* `ControlInv` ties response, result and attempt to the place in `do`;
* `RequestInv` says every request on the wire or in the ledger is its call's key and
  payload, unchanged;
* `EffectInv` is the service's half, one effect for each key;
* `UnkeyedInv` is the heart: a write without a key has one request at most, and none
  once an answer has come that is neither a success nor a 5xx.  Only then may `do`
  retry it or report a refusal;
* `AnswerInv` says that a success travelling to a caller shows a recorded movement.

`ClientProofs` proves each part for each action that can disturb it, from lemmas
about the operators: a draw of `backoff` and a wait after a problem are durations
within the cap (`RetryDelayProofs`).

That `Client` implements `WalletOperation` then goes step by step.  A call is idle,
pending, unknown, refused or done there, and an operation's ledger the effects
under its key; `CallStepImplements` and its lemmas show that every step of one
call begins, succeeds, refuses, gives up or stutters and leaves the other calls
alone, `ExecutionMoves` that an execution adds to one ledger, which was empty, and
`CrashGivesUp` that the calls of a crash give up at once.  `RefusalIsFinal` is
what the abstract `Refuse` asks for, `AtMostOnce` what makes a success show the one
movement.

The argument for `RetrySchedule`.  `TypeOK` is inductive, and the cap holds because
`cappedStep` compares after the shift.  `BackoffDoubles` is arithmetic: a product
that wrapped differs from the exact one by whole words (`WrapByWords`).  A shift
by n multiplies by 2^n, which divides half a word or is divided by a word
(`PowersDivide`): in the second case a wrapped product is zero; in the first it is a
multiple of 2^n, and if positive, base times it is at least a word, while base
times cap is below half a word (`WrapPastCap`).  What is needed of powers of two is
counted rather than computed, from the library's theorem on the number of subsets
(`TwoToNext`).

The argument for `Problem`: at every moment the problem is exactly what
`decodeProblem` makes of the latest response, so nothing of an earlier attempt
survives; the rest is a property of the decoding and the sentinels.

The argument for `Iterator`.  `WalkSpec` says that what was delivered is a beginning
of the listing as it was at the first page.  For a step to preserve that, `IInv`
says where in that listing the walk is:

* `NothingYet`: before the first page with an item nothing is delivered and one page
  at most was asked for;
* `Continues`: what was delivered, followed by what is buffered, are the rows of the
  first page's moment down to the cursor's transaction, by their number and one
  by one;
* `FullPages`: while the walk goes on, each fetch has brought `limit` transactions,
  which is why no fetch is wasted; and when it is over, the oldest transaction has
  been reached, unless a page was short before the end;
* `EndsWhenDone`: `Next` says that the walk is over only when it is.

The heart is `AdvancesContinues`: the page behind the cursor is cut between
transactions (`PageEnds`), so that counting the keys of a page counts its
transactions, also when a transaction has several rows (`KeysOfPage`); the cursor
is the key of the last row, which no later transaction has, so rows that arrive
at the head move nothing below it; and a page sent once more ends with the same
cursor, which the stall test notices before a row of it is delivered
(`RepeatedPageStalls`).

The argument for `PageIterator` is the same with less in it, as the service names
the cursor: `InOrder` and `UpToCursor` say that the delivered and the buffered items
are the first `Passed[cursor]`, until a page without items ends the walk early.

The argument for `Journey`.  `MovedOnce` is not inductive: that a step moves money
once rests on the key for a keyed step, and on the status for another.  `JInv` says
which:

* `CallerInv` places the caller;
* `PaymentInv`: money is held exactly while the payment requires its capture, and
  there is a payment only when its step was carried out;
* `MovedInv`: a keyed step has moved money exactly if its key is stored, and an
  unkeyed one only by bringing a payment to "voided" or a top-up to "succeeded",
  which happens once;
* `ConcludedInv`: what a caller has concluded was carried out or read back.

`FinalStands` then needs that no step leaves a final status (`FinalStays`), for which
there must be one payment.  `AnsweredInOrder` needs to know what may still be under
way.  `OrderInv` says it for a script whose calls were all answered: what is left
on the wire of an earlier step is keyed and stored, and will be replayed; of the
step at hand there are the attempts of its one call, one only if it has no key
(`OnWire`); and the world is where the steps lead up to the one that was carried
out last (`Reached`).

The argument for `Receiver`.  That effects and markers agree is inductive only if
the row the worker holds is still pending when it commits; that the receiver
implements `Delivery` needs that a thread about to store an event, or to
acknowledge one, has a right to.  `RInv` says so:

* `InboxInv`: `EffectIffMarker`, and only events that happened are in the inbox;
* `WorkerInv`: the row in the worker's transaction is pending;
* `WireInv`: what was sent is an event that happened;
* `ThreadInv`: a storing thread has an event that happened, a thread that will
  answer 200 an accepted one, and what is acknowledged is accepted.

`VerifiedHappened` is where the signature enters: what passes the checks of
`Receive` is neither forged nor misaddressed and so was sent.  The refinement then
maps `Store` to `Accept` or a stutter, `Answer` to `Acknowledge` or a stutter,
`Commit` to `Apply`, and every other step to a stutter.  `SignedInv`, by itself,
says that what was sent is signed; `OnlySignedInTimeVerifies` adds the arithmetic of
the window, for every width of a duration.

### Only model-checked

`Terminates` (run `client_unkeyed`) and `EventuallyProcessed` (run `receiver`) are
liveness under fairness, which the prover does not reach, as it does not reach
ENABLED.

Induction over data is out of its reach in the form of the library's induction
theorems, whose parameter is an operator.  Where it is needed, for powers of two,
for the course of a script (`CourseDef`) and for the list of options
(`NewIsUsable`), it is a proof by the least counterexample, from the theorem that <
is well-founded on the natural numbers; what is recursive is a function, and no
module with a theorem declares a RECURSIVE operator.

## 6. What is not modelled

* The parsing of URLs, transport sizes, query encoding, `Detail`, log text: no state
  that a property here tells apart.  Credentials appear by their failure
  (`FailLocally`).  `CheckRedirect` is modelled by its effect, a redirect is a stray
  status.
* The branch of `do` for a nil `out` (`client.go:304-307`): no exported method
  passes one.
* HEAD, which `do` treats as a read: no method sends one.
* What the wallet does with an operation (ledger, limits, tiers): it is the
  service's; the client sees it as a movement.
* Deletion of rows while a listing is walked: the ledger listings are append-only;
  whether the others delete is not said in the repository.
* A service that ignores the cursor while rows arrive: its second page ends
  elsewhere, so the stall guard of `Iterator` cannot see it.
* `Event.Into`: it unmarshals into the caller's value; what stays of an earlier
  content is encoding/json's.
* The fixture's counters (`attempts`, `worker_failures`, the GET that reads them), its
  400 for an empty or oversized body, and a configuration read while half written
  (which answers 401 and stores nothing).
* In `Journey`: insufficient funds, `past_due`, failures at a gateway, and a top-up
  that is confirmed without a refresh; they change what the service refuses, not
  what a caller may conclude.
* `journey_test.go` itself, a linear script over a live service, and the types of
  `types.gen.go` other than the statuses and modes `Journey` uses.
* The fetch callbacks' filters: a walk's filter is fixed when the walk is made.

## 7. Plan

Done: the modules of section 2 and the proofs of section 5.  All components that
keep state are modelled, and every safety property of the runs is proved.  What is
left:

1. A walk whose page requests are retried: `Iterator` composed with the retries of
   one fetch, and the proof that it still implements `Walk`.
2. Theorems that compose: what `MaxDelay` and `MaxAttempts` bound together, the time
   a call may spend waiting; that an operation which is read back and repeated in
   `Journey` is one operation of `WalletOperation`.
3. The webhook operators by themselves: `VerifySignature` agrees with its
   description for every header, also where no receiver sends it.
