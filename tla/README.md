# BondExchange: specifications, model checking and proofs

BondExchange is a stateless Go service over PostgreSQL 18. Any number of server
processes run the same code; they share nothing but the database. Everything
that makes the exchange correct (one buyer per offer, one effect per nonce, one
offer per quote, a request quota, no event lost or recorded twice) is therefore
a statement about interleaved SQL transactions and statements, cancelled and
repeated by timeouts, retries and crashes. Unit tests run one interleaving of
them; this project checks all of them on small instances and proves the safety
properties, and the refinement of an abstract marketplace, for any number of
requests, workers and calls.

Paths below are relative to the repository (`src/`); Go packages are under
`application/internal`.

## The system

| Part | State | Operations | Hard behaviour |
|---|---|---|---|
| Market mutations (`exchange`, `offerintake`, `postgres/store.go`, `postgres/offer_intake.go`) | append-only tables: offers with canonical terms and submissions, quotes, purchases, claims, results, event references | Buy, CreateSaleOffer, QuoteSaleOffer | racing servers, client retries under one nonce, waits on uncommitted unique keys, 40001 and its retries, crash between commit and answer |
| Authorization (`effective_principal_permissions`) | grants, revocations, suspensions, reinstatements, all insertions | administrators' SQL; `authorize` in every transaction | access changes while an operation waits or retries |
| Rate limit (`postgres/rate_limit.go`) | one row per principal: window, count | `AdmitRequest`, one statement | a statement is stamped before it gets the row |
| Event delivery (`eventing`, `postgres/events.go`) | a delivery row per destination and event: lease, next attempt, delivered | immediate attempt after a mutation or its replay; `PublishPendingEvents` sweep | leases that lapse while the holder publishes, overlapping sweeps, lost acknowledgements |
| Exchange rates (`exchangerates`, `postgres/exchange_rates.go`, `sie`) | observations, imports, fetch coordination rows, provider block | Latest, Range, RevalidateRange | fetch leases, staleness read in separate queries, late completions |
| Request pipeline (`rpcapi`, `authn`, `httpapi`) | calls in progress | authenticate, admit, call, record the outcome, answer | one pool for all calls, streams that wait for their client with a transaction open, panics |
| Runtime (`serverruntime`, `cmd/server`) | listeners, pool, telemetry | start, drain, stop | two transports drain under one deadline while calls run |
| Telemetry (`telemetry`) | one completion flag per operation | complete, complete on panic | an outcome counted twice or not at all |
| Generated API, demo issuer, load generator | none that matters | | |

The request pipeline calls the rate limit, then a mutation; `eventing.Application`
wraps the mutations and publishes after a success; a quote asks the rate service
before its transaction; authorization is a query inside each transaction. The
database is the only meeting point.

## Modules

| Module | What it is |
|---|---|
| `Rbac` | authorization facts, the effective-permission view, the administrator's insertions |
| `MarketFacts` | the market tables as sets of rows, requests, the queries and the rows an operation inserts |
| `MutationStore` | the three mutations as interleaved transactions; properties, inductive invariant, refinement |
| `Marketplace` | the abstract specification: each authorized request looks once and applies its whole outcome in one step |
| `MCMutationStore` | the situations that the configurations pick |
| `MutationStoreProofs` | proofs about `MutationStore`: types, keys, the committed tables |
| `MutationOutcomesProofs` | on top of it: answers, facts and events, permission, conflicts, the refinement of `Marketplace` |
| `RateLimit`, `MCRateLimit`, `RateLimitProofs` | admission, its instance, its proofs |
| `EventDelivery`, `MCEventDelivery`, `EventDeliveryProofs` | leases, attempts and sweeps, their instances, their proofs |
| `Backoff` | `retryDelay` as an algorithm, with its proofs |
| `SieClient` | what the SIE adapter sends, accepts and refuses; pure operators |
| `RateService`, `MCRateService` | Latest, Range and RevalidateRange over shared coordination rows; composes `SieClient` with the store |
| `RateServiceProofs` | proofs about `RateService`: revisions and the order of responses |
| `RateAnswersProofs` | on top of it: types, leases, what `Range` and `Latest` answers rest on |
| `Assertions` | which operation assertions are accepted; pure operators |
| `ServerProcess`, `MCServerProcess` | one process from start to exit with its calls, its pool and both transports; composes `Assertions` with the runtime, the RPC server, the HTTP gateway and telemetry |
| `ServerProcessProofs` | proofs about `ServerProcess` and `Assertions` |

Definitions named "Mutant of ..." are deliberate errors that stand before the
definition they replace. They are used only to make sure that a property can
fail; no specification refers to them.

### MutationStore

A request is a process. `pc` follows the code: `lookup` and `rating` are the
early replay and the rate of `QuoteSaleOffer`; `begin` is
`beginAuthorizedMutation`; `authorized` precedes `claimOperation`; `claimed` and
`priced` precede the statement that inserts the fact; `prepared` precedes
`tx.Commit`; `committed` is the moment between the commit and the answer;
`replay` is `replayResource` after a rollback. A client's retry is another request
with the same principal, operation and nonce. `client_id` is folded into the
nonce, and the body stands for its digest.

A transaction has a snapshot and a write set. An insertion into a unique index
waits while another open transaction holds the key, finds the key if it is in
the snapshot, and otherwise fails with 40001 if it is committed (for the quote's
key the plain unique violation, which is not retried, is possible too). With
`SpuriousAborts` PostgreSQL may cancel any transaction at any statement. This
allows every behaviour of SERIALIZABLE and more: write skew is not excluded, so
nothing that is checked or proved rests on predicate locks, only on snapshots
and unique keys. `Interrupt` is every other way to fail: a storage error, a
cancelled context, the end of the process.

The fact and its result are two statements of one transaction and one step of the
model: nobody sees the first without the second, and an error between them is
`Interrupt` or `SerializationFailure` at the state before. What is left to check
is that no path commits the one without the other.

A row that one statement spreads over `sale_offers`,
`sale_offer_canonical_terms` and `sale_offer_submissions` is one fact. A price
is a value, and the converted price is the pair of submitted price and rate
revision that determines it. The event of a purchase is named by its offer.
`LegacyOffers` are offers older than canonical terms: the migration that added the
terms wrote them for the offers in MXN (`canonical` true), and the others cannot be
bought.

Abstracted: validation of the request's fields (it precedes every state change
and has no effect), response layout, telemetry, the length of the back-off.
`ErrExchangeRateUnavailable` of `CreateConversionQuote` cannot occur, because an
observation is committed before its revision is returned and never deleted.

### Marketplace

The promise without transactions: `Look` fixes what the request sees and that
it is permitted; `Apply` adds claim, fact, result and event in one step, if the
nonce is new, the offer unsold and the quote unused *at that moment*; `Answer`
gives the stored outcome or an error. `MutationStore` implements it with the
snapshot as the view and `Commit` as `Apply`; claims, waits, retries and
rollbacks stutter. Two things the abstraction leaves as the code has them: a
buyer may be refused, or a bond missing, according to the snapshot, and a quote
need only be unexpired when it was looked at.

### RateLimit

One principal's row. `Send` stamps the statement, `Admit` and `Refuse` act when
it holds the row, `Fail` is an error before or after the effect. Ticks subdivide
seconds because the query rounds up to seconds. History: what each minute has
counted, and whether a statement acted after the row left its minute.

### EventDelivery

A worker is an immediate attempt (with its event) or a sweep. Its `pc` follows
`PublishPending` and `publishOne`; `full`, `after` and `claimedAny` are the loop's
own variables. Any live lease may lapse at any moment and any delayed event may
come due, which is all that lease and delay lengths decide. A statement may fail
before or after its effect, a publisher may report an error for what was
accepted, and a server may stop anywhere. A worker visits a reference once, so
its name serves as the nonce of its lease.

The shipped `cmd/server` configures no destination; the model takes any number and
the instances have one. In `ServerProcess` too, an attempt to publish visits the
pool, as it does with a destination.

### RateService and SieClient

A call is one of `Latest`, `Range`, `RevalidateRange`, made by any server. Its
`pc` follows the code: `baseline` (first `States` of `resolveForced`), `states`,
`claim`, `check` (`ProviderBlockedUntil`), `fetch`, `block`, `fail`, `insert` and
`commit` (the two halves of `Complete`), `fallback` and `flags` (the stored data
`Latest` falls back to, and its staleness), `read`. `States`,
`LatestObservations` and `Fail` run one statement per unit, so each unit is a
step; `Claim` holds row locks and is one step; `Complete` inserts under advisory
locks and takes effect at its commit.

A coordination row keeps the comparisons that SQL makes, not timestamps: `live`
is `lease_until > now`, `due` is `next_attempt_at <= now`, `fresh` is
`fresh_until` against now, with `null` for NULL, which makes both `Ready` and
the claim's condition false as in SQL. `done` counts completions (for
`CompletedAt.After`). A lease lapses, a back-off, a freshness or a block ends by
a step of its own, and only while some call is at a statement that compares
with it; an earlier step would be seen by nobody. A call serves as the nonce of
its leases, because it never holds the leases of two claims at once.

Series, units and batches are sequences in the code's order. `Ascending` is the
sorted list of a set of numbers; `Picked` keeps the elements of a list at some of
its indices, as `pendingUnits` and the loop of `Claim` do (`ClaimedUnits`), and
`MakeBatches` cuts the claimed list at the indices where a batch opens. They say
which elements a list has and in what order, and not how it is built step by
step, so what it contains can be proved. A request names finitely many series,
and a range starts on a day (days are numbered from 1).

The provider answers with what is published at that moment, after at most
`MaxChanges` publications or corrections, or with one of the faults that
`Classify` and `AcceptBody` tell apart. `stamp` is history: the order of the
provider's answers. `Interrupt` is a crash, a cancelled context or an error of
the store.

### ServerProcess and Assertions

`phase` and `open` follow `run`, `Listen` and `ShutdownServers`: telemetry, pool,
REST listener, gRPC listener, serving, REST drained, gRPC drained or stopped,
pool closed, telemetry flushed, gone. A call runs the `Steps` of its operation;
a step is a visit to the pool. Two kinds of visit keep the connection: a
mutation, and the stream of offers, which waits for its client between records.
What a step does to the tables is in the other modules, and the repeated
attempts of a mutation are in `MutationStore`; here it succeeds, is rejected or
fails. `moments` is history: the active offers and the permission, as they
changed. A call that has ended keeps only what its client and telemetry were
told.

`GracefulStop` returns when every handler has returned, also after `Stop`
cancelled their contexts (grpc-go, external). `http.Server.Shutdown` gives up at
the deadline and leaves its calls running. `Stop` comes only after the deadline.

## Runs

Bounds. Mutations: two to five requests, one or two bonds, offers, quotes and revisions;
attempts 8 as in the code where conflicts alone cause them, 2 or 3 where
transactions are also cancelled at will; a limit of 2 with 4 requests around one
change of minute of 2 seconds of 2 ticks; batches of one instead of 100, so that
a full batch and a second scan occur with two events. Conflicts over a key are
pairwise, so two contenders and one retry meet every case; the theorems cover
any number. Requests that differ only in their identifier, and offers and
revisions that nobody names in advance, are symmetric.

Rates: two calls, the first of two series or of a range, the second of any kind
over one; batches of one (`MaxSeriesPerRequest`), so that a second batch follows
a failed one; months of two days and three days in all (`FirstDay`, `LastDay`), so
that a boundary moves within a month and a month closes between two calls or
under one;
one correction (`MaxChanges`), one interruption (`MaxInterrupts`), freshness
ending before the first fetch only (`MaxRefreshes`). A unit is contended by
pairs, and two calls meet every pair of places.

Server: two calls and one connection (`PoolSize`), the smallest pool in which
holding one and waiting for another can block; five pairs of operations over the
two transports, `Buy` being `CreateSaleOffer` here; three changes of market or
permission (`MaxMoments`); assertions for either call, each operation and nonce,
presented in time or too late.

`CHECK_DEADLOCK FALSE` where a finite set of requests, workers or a process ends;
`RateService` says so with a step of its own and is checked for deadlock.

| Run | Shows |
|---|---|
| `buy_race` | alice publishes; bob, bob's retry and carol race, and bob reuses his nonce for a legacy offer. One purchase and one winner; one answer per nonce; claims pair with results; exactly one event per success; no settled answer without its commit; nobody is refused because of a rival that then rolls back; conflicts on keys use at most three of the eight attempts. `KeysInvariant`, which also says that every purchase is of an offer with canonical terms and of another seller |
| `buy_aborts` | two buyers and one buyer's retry while transactions are cancelled anywhere. The nonce and the offer are contended at once, so the retry may wait for a claim whose holder waits for the other buyer's purchase. Types; exactly one operation per fact; refinement of `Marketplace`; no requests wait for one another in a circle; and every request ends under weak fairness of each server's own steps |
| `quotes` | a quote for a bond that is provisioned meanwhile, its retry, and two submissions of it under two nonces while it expires and the rate moves: it prices at most one offer, and every answer is one `Marketplace` allows |
| `access` | revocation, suspension, reinstatement and new grants against a trader who publishes and tries to buy, and against repeated attempts: no effect without the permission that its attempt saw |
| `rate_limit` | the limit while no statement is overtaken, no refusal with quota left, Retry-After at both ends of the minute |
| `delivery` | an immediate attempt meets a sweep over two batches: acknowledged only if accepted, final once acknowledged, duplicates only after a lapse or a misreported acceptance, live leases respected, honest summary, each event attempted at most once by a sweep, and an end |
| `rates` | two calls share fetches across the end of a month: a late response is never recorded over a later one of its unit; consecutive revisions differ; a refused or answered call leaves no lease behind; `Latest` answers all series or none; a month that `Range` answers was asked of the provider up to the call's boundary, one that `RevalidateRange` answers was asked once more than when it began; nobody polls for ever, except a `Range` call that straddles the end of its month (below) |
| `server` | a completed list is the whole list at one moment at which the caller was permitted; every operation is counted once and as answered; shutdown disturbs nobody before its deadline, never cuts an open transaction, cuts only REST calls and leaves nothing open; with one connection nobody waits for ever, unless a gRPC client stops reading or the call's own REST client leaves a long answer unread, and even then a shutdown ends |

Fairness. `FairSpec` of `MutationStore` is weak fairness of `Serve(r)`: a server
goes on with a request it accepted, and PostgreSQL answers a statement whose
locks are free. `FairSpec` of `EventDelivery` is weak fairness of `Work(w)`: loading
and publishing an event are bounded by a timeout; the scan, the claim and the
marks have none (FRICTIONS F-027), and that PostgreSQL answers them is an
assumption about the environment. Nothing is assumed of clients,
administrators, time, failures, or of leases lapsing.

`FairSpec` of `RateService` is weak fairness of each call's own steps, and
strong fairness of `WaitsEnd`: leases, back-offs and blocks have an end in time.
It is strong because these steps are enabled only while a polling call is at the
statement that looks; a poller comes back to it again and again, and the clock
has moved meanwhile. FRICTIONS F-026 describes the poll of a cold cache, without
a deadline of its own: "for the whole backoff window", and also that it "ends
only when the client disconnects". `CallsEnd` agrees with the first and shows an
end besides the client's: once the back-off is over, one of the pollers claims
the unit and returns with its own answer or error. How long and how often they
poll until then is not what it says. `FairSpec` of `ServerProcess` is weak
fairness of the start, of the shutdown, of its deadline and of each call's work:
PostgreSQL answers, the write of a record of a REST stream succeeds or meets its
30-second deadline (`httpapi/handler.go:247`), and a call whose context is
cancelled or whose pool is closed notices. A gRPC `Send` has no deadline, so
nothing is assumed of it, nor of a unary REST answer that may exceed the
buffers, the list of series (`Unread`; F-006, F-027): such a call may wait for
its reader, but holds no connection.

Three things come out without contradicting a document. A `Range` call
that computed its units on the last day of a month and waits while another call
completes that month the next day polls until its context ends, because
`fresh_until` is then NULL in both queries (`postgres/exchange_rates.go:30` and
`:110`). And a REST stream is not cancelled at the shutdown deadline: `pool.Close`
waits for it, while the comment on `ShutdownServers` speaks of gRPC only. The third
came out of an attempt to prove `RangeAnswersWereAsked` in a stronger form:
`resolveForced` is satisfied by any completion after its baseline, also by one of a
call that computed its boundary the day before, so a `RevalidateRange` may succeed
without the last day that it could expect having been asked for. `Range` compares
`covered_until` and fetches again. The property says what holds for each, and the
instance has a day on which they differ.

### Disagreements with the documentation

Four runs are expected to fail; each checks one sentence of the docs.

* `rejected_quote_retry`: `ReplayConversionQuote` looks for succeeded results
  only (`postgres/offer_intake.go:36`). The exact retry of a rejected quote asks
  the rate service again and may be told that the rate is unavailable; G-008
  (`docs/guarantees.md:268`) promises the original rejection verbatim.
* `rate_limit_late`: a statement stamped before a minute ends and executed after
  another one opened the next window sets the row back
  (`postgres/rate_limit.go:28` compares with `<>`), and the next window is counted
  anew. G-011 (`docs/guarantees.md:341`) promises at most 100 per minute. The run
  `rate_limit` and theorem `LimitHolds` say that this reordering is the only way.
* `sweep_cut_short`: a sweep whose whole batch was claimed by another one between
  scan and visit ends the destination (`eventing/dispatcher.go:109`) and returns
  without error, with free events behind the batch not attempted. ADR 0011 says
  the operation attempts every visible pending event. `Remaining` still counts
  them, and another sweep finds them.
* `stale_presented_fresh`: after a contended or failed `resolve`, `Latest` reads
  the observations (`exchangerates/service.go:99`) before the states (`:101`). A
  refresh between the two makes the state ready, and the superseded observation
  is returned unflagged; ADR 0014 (lines 86-87) says that stale data is explicit
  rather than silently presented as fresh. `QuoteSaleOffer` consumes the answer;
  it still refuses observations that are too old by their date.

## Proofs

Checked with tlapm 1.4.5 (Z3, Zenon, LS4), for every value of the constants that
meets the named assumptions (`RbacAssumption`, `FactsAssumption`,
`StoreAssumption`, `RateLimitAssumption`, `AssertionAssumption`,
`DeliveryAssumption`, `BatchAssumption`, `RateAssumption`, `ServerAssumption`), with
no bound on requests, workers, calls, attempts, tables or minutes. The
assumptions say what the constants are: sets of which kind, positive limits,
nobody among the workers. `DeliveryAssumption` also says that events and
destinations are finitely many, because the summaries count them, and
`RateAssumption` that a request names finitely many series, because they are
sorted and the answer is counted against them. Each theorem
states a property of a run under its name, unless noted.

### MutationStoreProofs

* `TypeCorrect`: `Spec => []TypeOK`, attempts within `MaxAttempts` included.
* `KeysNeverInDoubt`: `Spec => []KeysInvariant`. That offers are sold once, or
  claims pair with results, is not inductive: it says nothing of what is about to
  be committed. `KeysInvariant` adds it, per request: what a write set contains at
  each `pc` (`WriteSetOK`), that its keys are not committed (`KeysFree`), that it is
  lawful against the committed tables (`WritesLawful`), and for pairs of open
  transactions that their keys differ (`KeysApart`). A step that inserts a key
  establishes these from the index check; `Commit` turns them into the committed
  invariants; every other step leaves a write set alone or empties it, which one
  lemma (`EmptyHandedStep`) treats for all of them.
* `PurchasedAtMostOnce`, `NoNonceIsPoisoned`, `NobodyBuysTheirOwn` (G-002, G-003),
  `QuotesAreUsedOnce`: the four conjuncts about committed tables. Runs check the
  first and the third as parts of `KeysInvariant`.
* `NobodyWaitsInACircle`: `WriteSetOK` says what is held where. A purchase or a
  quote is held only at `prepared`, which waits for nobody; a claim only from
  `claimed` on, which waits only for those. Among any requests, one that stands
  furthest waits for none of them.

### MutationOutcomesProofs

What a client is told. `KeysInvariant` knows which keys a transaction writes, not
whether the answer its server holds is the one a replay would give. The inductive
invariant of `OutcomesAgree`, `OutcomesInvariant`, adds:

* `SnapshotOK`: a snapshot is an earlier state of tables that only grow, and is
  empty outside a transaction;
* `TermsOK`, `PreparedOK`: a prepared write set is one of four shapes (rejection,
  purchase, offer, quote), each with its reason in the snapshot and with the
  reply that belongs to it;
* `AnswerOK`: after the commit the held answer equals `StoredAnswer` on the
  committed tables;
* `IdsFree`, `IdsApart`: generated identifiers are nobody else's, so that what is
  read back for a resource never changes (`FreshRowsKeepContents`);
* `FactsInvariant`: facts and events correspond to operations.

`Commit` is the only step at which anything is at stake: the four shapes become
committed rows (`RejectionCommits` to `QuoteCommits`), and the answers of all other
requests are kept by `AnswerKept`. From it follow `SettledIsDurable`,
`SettledIsSettled`, `OnlyTheBuyerIsTold`, `NobodyLosesForNothing`,
`EveryFactHasItsOperation` and `EverySuccessHasItsEvent`.

* `NothingUnauthorized` rests on `GrantsInvariant`: who got past the authorization
  query saw a grant, and who has not asked yet has seen the grant in force.
* `ConflictsSettle` assumes `~SpuriousAborts`, that PostgreSQL cancels only for
  conflicts on unique keys, as the run does. `ConflictsInvariant`: after one
  failed attempt a key is lost for good and the next snapshot shows it; after
  two, the claim is.
* `MarketplaceImplemented`: `Spec => ImplementsMarketplace`. The initial state maps to
  the initial state; `BeginAuthorizedMutation` maps to `Look` with the snapshot as
  the view, `Commit` to `Apply`, the last step of a request to `Answer`, arrivals,
  provisioning, expiry and administration to themselves; claims, waits, retries
  and rollbacks stutter or give up the view. That `Commit` may be `Apply` needs
  `KeysFree` (nonce, offer and quote are still free *now*) and `PreparedOK` (the
  rows and the reason are the ones the abstract request would choose from its
  view). That an answer is one `Answer` allows needs `AnswerOK`.

### RateLimitProofs

`CountsKept` is the inductive invariant: the row's count equals what its minute
counted as long as nothing was overtaken, and never exceeds it otherwise
(`CountsAreKept` is a conjunct of it and is left to the proof). `LimitHolds` and
`RefusedAtLimit` follow, for every limit. `LimitTypeCorrect` and
`RetryReachesNextWindow` need what a refusal's wait is computed from
(`WaitInvariant`) and that the rounding up of the query reaches the end of the
minute and not a second more (`RetryIsEnough`), for every resolution and length of
a minute.

### EventDeliveryProofs

* `DeliveryTypeCorrect`, with `WorkOK`: a worker that visits has something to visit.
* `DeliveryIsFinal` and `LeasesAreRespected`, action properties: a row with a
  delivery has no lease, and every statement that changes a row compares the
  lease with its own.
* `AcknowledgedWasAccepted` and `DuplicatesAreFaults` rest on `AcceptanceInvariant`.
  That an event is accepted once is not inductive; `Undisturbed` says of every row
  on which no lease lapsed and nothing was misreported that whoever is at it
  holds its lease, and that a free, undelivered row was not accepted.
* `AttemptsAreOnce` counts what a sweep has behind it (`Passed`: finished
  destinations, and the events of the present one up to `after`). A batch lies
  beyond `after`, and moving past an event adds at least that one.
* `SummariesAreOwn`: the count grows only in the statement that writes `by`, and
  that never changes again (`DeliveryIsFinal`).

### ServerProcessProofs

`ServerInvariant` is inductive: `ServerTypeCorrect`, `ShutdownOrderly`, what `run` has
open at each phase and that a call which is still active when nobody waits for it
has outlived the deadline (`ProcessOK`), and for each call, independent of all
others (`CallOK`), that nothing is recorded before the handler answers (`LogOK`)
and that the snapshot of a stream is the list of a moment since its call began at
which the caller was permitted (`ListOK`). One lemma (`CallStep`) reduces every step
of a call to its own record. `CountedOnce` and `ListsAreOfOneMoment` follow.

### RateServiceProofs

`RateInvariant` leaves the data of a call open: its calls and rows are records with
certain fields. Two arguments are in it. `StampsOK`: a call that is recording
fetched its response after the one of every row whose lease it still holds, since
nobody completes a row that another call holds; hence `ResponsesRecordedInOrder`.
`InsertsOK` and `LocksOK`: what a transaction is about to commit still differs from
the current revision, because the days of its series are locked; hence
`NoRepeatedRevision`.

### RateAnswersProofs

What a call holds and answers. Four theorems, on three layers of invariants
above `RateInvariant`. Every action is first reduced to the fields of the one
call it moves (`Moves`, and one lemma per action), so that no later argument
opens an action or a whole record again.

* `RateTypesCorrect`. `TypeOK` is not inductive: that a cursor is on a unit depends
  on what the list of units is. `TypeInvariant` says it for each call (`CallOK`):
  the units are those of its series or its months, month by month with one period
  each (`AskedOK`, `InPeriods`); the batches are non-empty, of one period, and made
  of its units (`BatchesOf`); at each `pc` the cursor is on something (`PlaceOK`);
  and a response to record answers the batch it was asked for, with no day
  outside its month once `Complete` has looked (`ReplyOK`). The last is what keeps
  `covered` within the month of its row (`RowOK`).
* `LeasesAreGivenBack`. `LeasesOK` names the units: a live lease is that of a unit
  in the holder's remaining batches or, while the holder fails them one by one,
  of a unit at or after its cursor (`Leaves`). `Claim` establishes it because
  `MakeBatches` loses no unit; `FailUnit` keeps it because the cursor passes a
  unit only by giving back its row; `Commit` because it gives back the whole
  first batch.
* `RangesRestOnResponses`. `AskInvariant`: every response is recorded once, under a
  stamp nobody else has or will record (`ImportsOK`), hence a month has at least
  as many responses as its row has completions, and one that reaches as far as
  `covered` (`ResponsesOK`); and what a call found ready stays so, because `done` and
  `covered` only grow (`ReadyOK`). A call reads only when everything was ready.
* `LatestIsComplete`. `AnswerInvariant`: a series whose latest value was completed
  has an observation (`LatestKnown`), for which a transaction about to commit has
  to hold what its response contains, unless it is stored already (`RecordedOK`);
  and what a call has read is at most one observation of each series before its
  cursor, exactly one if it fetched, and after the fallback counted them exactly
  one of all (`GotOK`).

The lemmas about lists are proved once: `AscendingLists` (the list of a finite
set exists, is increasing and meets every element), `PickedLists`, `FlattenKeeps`
(`FlattenSeq` has exactly the elements of its parts) and `MakesBatches`. Where a fact needs
induction over a list, it is a minimal counterexample: the least index at which it
fails, which `LeastNumber` takes from the well-foundedness of the naturals.

### Assertions and Backoff

`OneAssertionOneCall` (in `ServerProcessProofs`; G-007, not the property of a run).
An assertion is not remembered and may be accepted twice, but only for the
operation, body and nonce it was signed for, and within `MaximumAge + 2 * ClockSkew`: the expiry is at most
one lifetime after the issue, which may lie one tolerance ahead of the first
acceptance, and the second may come one tolerance after the expiry.

`RetryDelayBounds` and `RetryDelayGrows` (not properties of a run), for every attempt
counter and every hash. The lemma `BaseGrows` gives the range and the monotonicity
of the doubled base; the jitter is a fixed share of it for one event.

### Only model-checked

Liveness (`RequestsEnd`, `WorkersEnd`, `CallsEnd`, `NothingHangs`) is out of the
provers' reach. Every invariant and action property that a passing run checks
is also a theorem.

## Not modelled, and the plan

Left out for good: exporters, instruments and set-up of telemetry, header and
JSON translation, generated code, signature verification (a library), the
reading of configuration, migrations as steps, the demo issuer and the load
generator, the unreached `Store.CreateSaleOffer`.

Not modelled: decimals. A price is a value and a converted price the pair that
determines it, so parsing, scale and half-even rounding are not checked, nor
what `scanConversionQuote` does with a revision of too many decimals.

What could come next: price parsing, scale and rounding against reference
definitions, which would also reach that read.
