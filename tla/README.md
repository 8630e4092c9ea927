# A TLA+ model of the FX engine

`fx-engine` is a FastAPI service on one SQLite file.  It quotes currency
conversions from cached exchange rates, executes each quote at most once against
a customer's balances, credits deposits, and refreshes the rates in the
background.  This directory holds TLA+ modules of what it does with shared
state, TLC configurations that check them on small instances, and proofs that
TLAPS checks for every value of the constants.

The endpoints are synchronous functions, so every request runs in a thread of a
pool with a database session of its own, and the scheduler runs its refreshes
in a worker thread too.  What the threads share is the SQLite file and one counter in
memory.  The difficult part of the program is therefore what happens between two
statements of a handler.  Beside the service the repository keeps a second, smaller
engine for a review exercise (`planted_bugs`), a threaded Flask application with a file of
its own; it is modelled too.

## 1. Inventory

| Component | State | Operations | What makes it correct |
|---|---|---|---|
| Database and transactions (`app/db`) | the committed image, one write lock, the image of the writer | `BEGIN IMMEDIATE`, COMMIT, ROLLBACK; a busy timeout of 5 s; recovery from the WAL | what is not committed is nowhere; only one thread writes |
| Quote execution (`execute_service.py`) | balances, quote status, `transactions`, `idempotency_log`, failure counter | POST `/quotes/{id}/execute` with an `Idempotency-Key` | settled at most once, whole or not at all; a repeat is given the same answer; an expired quote stays dead |
| Deposits (`customer_service.credit_balance`) | balances | POST `/customers/{id}/balances/credit` | nothing is lost, nothing goes below zero |
| Rate cache (`rate_service.py`) | `exchange_rates`, `fetched_at` | `refresh_rates`, by the loop and by POST `/rates/refresh` | rows are what a provider answered, of one age, the newest |
| Scheduler (`rate_scheduler.py`) | none of its own | refresh, sleep, for ever | nothing stops it |
| Providers (`rate_providers.py`) | none | two HTTP clients, asked in order | any failure is an exception |
| Quote generation (`quote_service.py`) | `quotes` | POST `/quotes` | amounts add up, no old rate is used undeclared |
| Routing (`routing_service.py`) | none | direct, via USD, via EUR | a hub only when there is no direct pair |
| Spreads (`corridor_spreads`) | buy and sell spread of a pair | seeding, PUT `/rates/spreads/..` | every pair has one, restarts change none, its two sides belong together |
| Registration (`customer_service.py`) | `customers`, four zero balances | POST `/customers`, the list of customers, GET `.../balances` | customer and balances together; one per e-mail; reads of two statements show no half |
| Rates report (`app/api/rates.py`) | none | GET `/rates` | the rates of one answer are of one refresh |
| Health and metrics | failure counter in memory | reads | report what is in the file; `/healthz` tells whether quotes can be had |
| Errors, logging, middlewares | none | exceptions to codes, trace identifiers | — |
| Migrations (`alembic`) | the schema | run before the service | — |
| Exercise engine (`planted_bugs`) | a file of its own, `_execute_lock` | POST `/quotes`, POST `/quotes/{id}/execute` | flag, transaction and reply together; one transaction per key; every call ends |

**How they interact.**  Executions, deposits, new quotes and refreshes meet in the
write lock.  Executions and deposits share the balance rows; refreshes and
quotes share the rate rows; a quote is the contract between generation and
execution.  Registrations and changes of spreads take the same lock, with their first
INSERT or UPDATE; a registration is what deposits and executions find their balance
rows by.  A handler that only reads takes no lock and sees the last commit
(WAL), statement by statement, because pysqlite does not open a transaction for a
SELECT.

**Hard behaviours.**  Threads between two statements; two requests for one
quote or with one key; repeats after an answer that was lost; an exception at any
statement, including after the commit; the death of the process; the busy
timeout; time passing between a check and its use; two refreshes that overlap;
an ORM that writes only the columns which differ from what it has loaded.
`PROJECT.json` lists these hazards with their lines and the properties for them.

## 2. Modules

| Module | Models |
|---|---|
| `Database` | the file, the lock, transactions |
| `ExecuteQuote` (extends it) | executing quotes; the promise `ImplementsSettlement` |
| `Settlement` | the abstract promise: offer, settle at most once |
| `CreditBalance` (extends `Database`) | deposits |
| `Exchange` (extends both) | executions and deposits on one database, dying together |
| `Books` (extends `Database`) | what the transactions say that an account has lost and gained |
| `Pricing` | rounding, rates, amounts, in integers |
| `RateCache` (extends it) | refreshing the cache |
| `RateReport` (extends it) | GET `/rates` beside the refreshes |
| `Quoting` (extends `RateCache`) | routing and pricing against the cache; what `/healthz` says of it |
| `WriteLock` | SQLite's lock as seen by handlers that begin with a read or an INSERT |
| `Registration` (extends it) | customers and their balances: the insertion, the list, the balances |
| `Spreads` (extends it) | seeding and changing spreads |
| `BackOffice` (extends both) | registrations and spreads under one lock, in one process |
| `ExerciseEngine` | the engine of `planted_bugs` |
| `MCExecuteQuote`, `MCExchange`, `MCRateCache`, `MCQuoting`, `MCBackOffice`, `MCExerciseEngine` | small instances, and the history some properties need |
| `ExecuteQuote_proofs`, `ExecuteQuote_promise`, `Exchange_proofs`, `RateCache_proofs`, `RateReport_proofs`, `Quoting_proofs`, `BackOffice_proofs`, `ExerciseEngine_proofs` | theorems |

### Correspondence

*Database.*  `db` is the committed file, `tx` what the lock holder sees, `lock` its
thread.  A row of `transactions` is its quote and key, since its amounts are
those of the quote; its position stands for its id.  An entry of
`idempotency_log` is its quote and transaction, which is what its body repeats.

*ExecuteQuote.*  `pc[r]` names the next statement of `execute_quote` in thread `r`:
`preflight` is the first look-up of the key, `begin` waits in `BEGIN IMMEDIATE`,
`replay` is the second look-up, then `quote`, `debit`, `credit`, `record`,
`log`, `commit`, `respond`, and `conflict` is the handler of IntegrityError, which looks
the key up again without the lock (`LookAgain`).  One action per place.  `Refuse` is an `AppError` inside the
transaction (rolled back and counted), `Fault` any other exception (rolled
back, a 500, not counted), `BeginTimeout` the busy timeout.  A thread is one client
call and its repeats: `Send` from `done` repeats it with the same quote and key,
even while others run.  `OfferQuote` is what execution sees of POST `/quotes`.
Writes that the ORM holds back until a flush are writes to `tx` at once: nobody
but the writer can see the difference.  Amounts may be negative, since nothing in the
service bounds a spread and one beyond 100 % turns the sign of a rate: then the test of the
debit says nothing, and `ck_balance_non_negative`, the constraint of the table, is what keeps
the credited account from going below zero.  It is the only way into `conflict`
(`InsertionsNeverCollide`).  Two branches of the code are left out because no state enters
them: an entry of the log without its transaction (execute_service.py:127-130; `LogAgrees`)
and a customer without a row for a currency (72-75; `CustomersAreWhole`).

*CreditBalance.*  `seen` is `previous_amount`; `ReadBalance` takes no lock,
`UpdateBalance` is the UPDATE that the flush in `commit()` issues, with the sum
as an absolute value.

*RateCache.*  A refresh goes `fetch`, `load` (one SELECT per pair), `store` (flush and
commit).  `StoredRow` is the UPDATE the ORM issues: columns whose value differs
from the loaded one.  `broken` says that a flush has failed and nobody has rolled
back.  After a SELECT that raises (`LoadFails`) the session is usable but not empty
(`KeepSession`): a row that was changed keeps what was loaded of it first, and one that was
added is added once more for the next answer (`Leftover`), so that their flush collides.
`clock` orders the ends of fetches, and no two share an instant: they are
stamped in microseconds.

*Quoting.*  `stage` goes `validate`, `route` (one leg of one candidate), `read`
(`get_rate` of one leg), `price`.  Rates and amounts are integers in the units
of `Pricing`, of either sign, as spreads are any integers; a rate of zero divides by zero
where an amount to receive is asked for (`DividesByZero`).  `NotANumber` stands for an amount
that is no decimal, which the validator of the body answers with an exception that nothing
turns into a 422.  A look-up reads a pair and its inverse in one step, which
finds the same as the code's two SELECTs because rows come all together and never
go.  `ClassifyRates` is the status of `/healthz`, from the age of the youngest row, tested in
the order of `classify_rates`: an empty cache first, whatever the time.

*RateReport.*  One request goes `list` (all rows), `age` (the latest `fetched_at`),
`price` (one row at a time).  `get_rate` selects a row again, but the session still
holds the object of the first SELECT and the ORM does not overwrite what it has
loaded, so `Selected` is the listed row, not the committed one; the property rests on it.

*Registration.*  `book` is what is committed, `draft` what the lock holder sees, as in
`Database` but for other tables.  `desk[p]` is the next statement: `insert` is the
flush that meets the unique index, then `balances` (in the code `db.add`, whose INSERTs go
with the flush of the commit), `commit`, `refresh`; `count` and
`page` are the two statements of the list, `find` and `read` those of the balances.  Of
a page only the number of its rows is kept.

*Spreads.*  `seen` is the row that was read, `sent` the request; `UpdatedRow` is the
UPDATE the ORM issues, with the columns in which they differ.  `SeedAndServe` is the
start of the process; nothing is served before it.

*ExerciseEngine.*  `file` is the committed file and `work` the one the holder of the write
lock sees; `executeLock` is `_execute_lock`.  `at[p]` goes `quote`, `commit quote` for a
quote and `look up`, `check`, `enter`, `flag`, `record`, `reply`, `commit` for an execution.
`stamp` is the `datetime.now()` of the check, which is what the transaction is dated with.
`Record` leaves the `with` block, so `_execute_lock` is given back while the write lock is
still held, until `get_db` commits.  `Fail` is an exception at any statement, `KeyTaken` the
IntegrityError of the last INSERT, `LockTimeout` the five seconds of `sqlite3.connect`.

Definitions named in a comment as "a slip" are not part of the model: each is a
plausible mistake in the definition after it, and shows which property would
notice.

## 3. Runs

| Run (cfg) | Checks | Shows |
|---|---|---|
| `ExecuteRace` | `TypeOK`, `IInv`, `AllOrNothing`, `AnsweredTruthfully`, `OneCreation`, `RefusedForAnotherKey`, `NoUniqueViolation`, `BooksBalance`, `ExpiredStaysUnsettled`, `ImplementsSettlement` | executing is safe under races, repeats, faults, a crash, expiry, and amounts of either sign |
| `ExchangeRace` | `ExchangeTypeOK`, `OnlyStaleDepositsLoseUpdates`, `ExecutionsLoseNothing`, `EverybodyIsAnswered` | which of the two loses updates, that nothing is overdrawn, and that neither kind of thread leaves the other waiting for ever; as the type invariant ties the lock to the places of the threads, the lock comes free too |
| `RateRefresh` | `CacheTypeOK`, `OneGeneration`, `GenuineUnlessOverlapped`, `ReportIsOneGeneration`, `SchedulerGoesOn` | what overlapping refreshes can and cannot do to the cache and to a report of it, and that the loop survives everything |
| `QuoteRefresh` | `QuotingTypeOK`, `AsFreshAsDeclared`, `PricedAsAsked`, `OnlyUnreachableAmountsAreRefused`, `FilledCacheIsDirect`, `HealthTellsQuotability` | quotes are sound while refreshes run, whatever the spreads, and `/healthz` says of the rates what a quote would find |
| `ExerciseRace` | `ExerciseTypeOK`, `FlagMeansSettled`, `OneTransactionPerKey`, `AnswersAreKept`, `DatedInTime`, `AgainOnlyIfOverlapping`, `EveryCallEnds` | what the second engine does keep, although its check is outside its lock: it settles a quote again only for an execution that overlapped |
| `OfficeRace` | `OfficeTypeOK`, `CustomersAreWhole`, `OneCustomerPerEmail`, `DuplicatesAreReal`, `PageCoversTotal`, `SidesBelongTogether`, `OnlyUpdatesChangeSpreads`, `OfficeAnswers` | customers are whole and unique, spreads survive restarts and failed updates, every call ends |

Six runs end in a violation.  Each checks one sentence of the documents that
the code does not keep:

| Run | Document | What the code does |
|---|---|---|
| `ExecuteBusy` | SPEC.md:201, designs/05-execute.md:246: the others receive 409, not 500 | after 5 s in `BEGIN IMMEDIATE`: 500 |
| `ExchangeLost` | SPEC.md:224: `BEGIN IMMEDIATE` prevents lost updates | deposits read before they lock |
| `RateMixed` | designs/03-rates.md:106: all rows upserted | an unchanged column is left out; a row mixes two refreshes |
| `RateFallback` | designs/03-rates.md:105: on failure, try the fallback | after a failed flush its answer cannot be stored |
| `QuoteDestination` | SPEC.md:126: you receive this much | amounts that the rounded amount to pay does not multiply back to are refused; over a rate well above one, most |
| `ExerciseTwice` | ASSIGNMENT.md:56-57: of N parallel executions exactly one succeeds | the executed flag is tested before the lock and not again under it |

Smaller ones are in the models and have no run.  An execution that the first look-up
refuses is not counted as failed (`Preflight`).  An age of exactly ten minutes, which
SPEC.md:98-99 gives to the stale rates, is served without the flag (`Stale`).  Of two
refreshes that overlap the last to store wins, though its answer may be the older one
(designs/03-rates.md:23 wants the latest; `Store`).  An empty cache is answered with 422,
no route, where SPEC.md:101 says 503 (`DropCandidate`).  Two updates of one spread that overlap
can leave one side of each (`UpdatedRow`).  The exercise engine repeats the reply of a key
for whatever quote it comes with (`Replay`).

### Bounds

* `Execute*`: two threads, three quotes, two keys.  Every race in the handler is
  between the lock holder and one other thread, and a third adds another waiter.
  Two quotes from one account of 4, costing 3 and 2, make either affordable and
  both not.  The other account starts empty; the first quote brings it 5.  The second quote
  credits -4 and the third debits -4 (spreads beyond 100 %), so the second fails the
  constraint of the table until another has paid in, and two can be settled, in some
  orders, and a key can meet a second quote that would succeed.  Of the answers of `LookAgain` two
  threads reach an unused key and a key of another quote; that a third has meanwhile settled the same quote
  takes three, and is left to the proofs, which have any number.  Two
  attempts per call give every repeat of an answered, refused or lost call; one crash, at
  any point.  Time runs to 3 with a lifetime of 2 and two ticks to a second, so quotes are
  offered at truncated and exact times, expire, and are tried afterwards.  Threads and keys
  are interchangeable (symmetry), as nothing orders them; the runs with liveness properties
  use no symmetry.
* `Exchange*`: one execution that can be afforded only after a deposit, so that
  deposits come before, during and after it; two depositing threads, or one that
  deposits twice.  A deposit of 0 stands for the ones that are refused.
  `ExchangeRace` lets no time pass: expiry is one more way to be answered.
* `Rate*`: USD and one currency (two pairs), two prices so that a new answer may equal the old,
  and a zero; two providers, two refreshers, three fetches: one to fill the
  cache, two to overlap.  One viewer, as viewers do not meet.
* `Quote*`: three currencies, so that both hubs are candidates; one refresher and
  one asker, which are the two actors of every race here.  Spreads of half a percent, and
  over three of the pairs such that the rate is negative and beyond one in size, negative
  and within it, and zero.  Six ticks of time at
  two to the second, with the warning age at 0 and the blocking age at 1, let
  the first leg be blocked and the second be fresh again.
* `Exercise*`: two threads, three quotes (one over USD, one by its
  inverse pair, one that cannot be quoted), one key beside "no key", so that two executions may share it, and
  three executions: two that race and one that comes after, or a repeat.  A lifetime of 0
  and one tick of time let a quote expire between the check and the commit; one crash.
  `ExerciseTwice` needs two executions and no crash.
* `OfficeRace`: two clerks with two addresses, two managers with two values for each side
  of one pair (and an unknown pair), three calls in all with at most two of them updates,
  so that two overlap and a third comes after; a page of one row that skips one; one
  crash, at any point.

`CHECK_DEADLOCK FALSE` is set where clients may simply stop calling; the rate and
quote runs, where they may always call again, check deadlock.

### Fairness

`ThreadsKeepRunning`, `RefreshersKeepRunning`, `WorkersKeepRunning` and
`OfficeKeepsRunning` assume only weak fairness of what a started thread, or the process
that was started again, does by itself: statements return, waiting for the lock
ends with the lock or the busy timeout (5 s), HTTP calls time out (10 s), and the
loop sleeps a finite time.  Nothing is assumed of clients, faults, crashes, or of
any particular thread getting the lock.

## 4. Proofs

All theorems hold for any finite or infinite set of threads, quotes, keys,
accounts, currencies, and any amounts and bounds, under the named assumptions of the modules: a
quote's accounts differ (`create_quote` refuses equal currencies), the amounts of a quote are
integers of minor units and spreads are integers, of either sign, as the code enforces
nothing else; a balance starts at zero or above; the amount a client asks for is a natural
number or no number (what is not above zero is refused alike); there is at
least one e-mail address, the "no" values are not members of the sets they are absent from.
Every safety and action property of the passing runs is proved.

Each component has an inductive invariant of its own, named below.  Where a property speaks
of history, which only an `MC` module records, the theorem is about the `MCSpec` of that module,
again for every value of the constants.

**Executing.**  None of the properties is inductive by itself: that a settlement is
whole says nothing of a thread that is about to commit half of one.  `IInv` adds
what the code relies on silently.  `WriterInv`: the lock holder is the thread
between `BEGIN` and COMMIT.  `ImageInv`: its image is the committed one with
exactly the writes it has come to.  `CheckedInv`: what it has checked (the key is
unused, the quote pending, the balance enough, on both sides) still holds in the file, because
nobody else can write.  Then a commit appends one transaction to a ledger that had
none for this quote and key.  `Invariance` is proved action by action;
`TypeCorrect`, `Atomicity`, `Truthfulness`, `SingleCreation`, `NoSelfRefusal` and
`InsertionsNeverCollide` follow.  The type invariant is where "no balance is negative" lives; with
amounts of either sign it needs the test of the debit and the constraint of the table (`Covered`).
`IInv` rests on `RequestsTypeOK`, which leaves open whose the lock is: executing relies on
nobody else but never on there being nobody else, and so the same invariant serves where
deposits take the lock too.  That executing touches the file only with the lock, or to take
it while nobody has it, is the lemma `LockIsOurs`.

**Executions and deposits.**  `ExchangeInv` is `IInv` with `DepositInv`: what a teller that
holds the lock has written is the committed image with one balance replaced
(`DepositedBy`).  A deposit cannot disturb `IInv`, because what a settling thread has
checked it has checked with the lock in hand; it may undo an earlier deposit, from a balance
it has read without the lock, but never into a balance below zero.  `ExchangeTypeCorrect`,
`ExchangeKeepsPromises` (the four promises above beside deposits) and
`NoDepositIsLostToExecutions` follow.

**The promise.**  `Refinement`: `FileChanges` sorts the steps by what they do to the
file (nothing, a commit, an offer), and a commit with `IInv` is a `Settle` of
`Settlement`.  `Expiry`: only a thread past the check can settle a dead quote
(`EntersBySettling`), and none can come to be past it (`DeadStaysDead`).

**The books.**  `BooksAreKept` and `OnlyStaleDepositsHarm` compare a balance with a sum over
the transactions (`SumFunctionOnSet` of the community modules).  The provers cannot use an
induction theorem that takes a predicate, so the induction is stated with sets:
`SubsetsByInduction` and `NaturalsByInduction` say that a set with the hereditary property
holds everything, because there would be a least subset not in it.  From these: the recursive
equation behind a sum has a solution over a finite set (`SumsExist`), any member may be the
last that is added (`AnyLast`), and so a sum grows by what is added to its set
(`SumOfMore`).  Then `TurnoverGrows` speaks of the rows, and `FlowsFollow` shows that a
commit changes the flows of an account as it changes the balance.  Beside deposits
`HistoryInv` adds that, unless the account is marked as overwritten, a teller about to
commit has read what the file still says: that is exactly what `credit_balance` does not
check, and with it the books balance.

**The cache.**  `OneAge`: `CacheInv` says that stamps are handed out once (`StampInv`) and
that a refresh under way has shown its stamp to nobody (`UnpublishedInv`), whatever its
session has kept of answers that were given up, so the
UPDATE never leaves out `fetched_at`, and each store gives every row one time.

**The report.**  `OneReportOneAge` needs the ORM's identity map: `ReportInv` says that what a
report has listed is of one time, by `OneAge` at the moment of the list, and that every row
it prices later is the listed one.  `GenuineRates` is about the history of the
refreshes: `PublishedInv` follows an answer from the provider to the cache.  Without an overlap what a
refresh has loaded is what the cache still holds, so the columns it leaves out are
equal to its own, and the row is whole.

**Quoting.**  `QuotingInv` adds to `CacheInv` that a row that is there has been stamped
(`DatedInv`) and, per call, `CallInv`, what the call has come to at its stage (the request
was accepted, each leg of its path has a rate, so many of them are read), and `AnswerInv`,
what its answer rests on.  `FreshQuotes`,
`FaithfulPrices` and `JustRefusals` follow; the last two rest on the rounding below, `JustRefusals`
on `BackAndForth` in particular.  `HealthIsTruthful` needs `OneAge`: the
youngest row speaks for all of them only because all are of one age.  Its proof showed that
`ClassifyRates` had been written as cases that overlap for an empty cache at an early time,
so that TLA+ left the status open where the code does not; they are in the code's order now.
`DirectOnceFilled` is about calls that come after the first refresh (`FilledInv`).

**The back office.**  `OfficeInv` joins the invariants of registrations and spreads, which meet in
the lock only.  `DraftInv`: the draft is the book with at most the one
customer that the lock holder adds, whose address the book does not have; so a commit
brings a whole customer.  `ReadersInv`: what the first statement of a read has found stays
true to the second, because the book only grows (`BookGrows`).  `PendingInv` says the same as `DraftInv` of
spreads.  `SidesAskedTogether`, about the history of the updates, needs that a row which no other update has
overlapped is still the one that was read (`HistoryInv`).

**Rounding.**  `BackAndForth`: over a direct rate other than zero and of at most one in
size, an amount to receive survives the division and the multiplication, whatever the scales;
the refusals of `QuoteDestination` need a rate beyond one.  `Nearest` and
`NearestIsUnique` say what `ROUND_HALF_UP` returns, and `SignOfDivisor` that half-way goes
away from zero on both sides of it, by which negative rates come down to positive ones.

**The exercise engine.**  `ExerciseInv` adds to the five properties what they rest on.
`LockInv`: which place holds which of the two locks.  `WorkInv`: the writer's file is the
committed one with exactly the statements its thread has come to.  `CheckedInv`: what
a thread has checked and nobody can undo (the quote exists, its stamp is in time, the key
is still unused once the INSERT of the reply went through); that the quote is still open is
missing from it, and cannot be added: `ExerciseTwice` shows why.  `AloneInv`: a new
quote's identifier is nobody else's.  `FileStep` leaves two steps that write the file, the
commits, described by `QuoteCommitted` and `ExecutionCommitted`; `FlagStep`, `KeyStep`,
`DateStep` and `AnswerStep` treat one property each.  `ExerciseTypes`, `FlagsAreSettled`,
`KeysSettleOnce`, `AnswersStay` and `SettledInTime` follow from `ExerciseInvariance`.
`SettledAgainOnlyByRaces` says how much is lost by testing the flag outside the lock:
`OverlapInv` remembers that a thread past its check has seen its quote open, so by
`FlagMeansSettled` none of the transactions of that moment settles it.

Only model-checked: liveness under fairness, which these provers cannot reach
(`EverybodyIsAnswered`, `SchedulerGoesOn`, `OfficeAnswers`, `EveryCallEnds`).

## 5. What is left out

HTTP, JSON, logging and trace identifiers; the aggregates of `/metrics`, which are counts that
nothing else reads; which rows a page of customers shows; the wording of errors; an
amount's digits beyond what rounding sees (`Decimal` keeps 28 digits between
roundings, which differs from exact arithmetic on no quotient of these sizes);
SQLite itself, modelled from how the service uses it; errors of the disk.
Numbers that are not finite: Python's `Decimal` reads `NaN` and `Infinity`.  As an amount
either raises in quoting, which `QuoteFault` stands for; as a spread either fails at the
next statement that stores or rounds it, which `SpreadFault` and `QuoteFault` stand for.  A
PUT whose spread is no decimal at all raises in the validator and changes nothing.
Providers are modelled by their answers.  In the pricing of a quote a spread is a
constant, and in `RateReport` too, though `Spreads` shows that it may change between two
reads.  Of the exercise engine the values of rates and amounts (products of floats) and the
two endpoints of its constant rate table are left out; a rate is only listed or not.
Migrations are assumed to be done before the service starts.

## 6. Plan

Done: execution with its promise and proofs; deposits and their composition; the
refreshing of rates, and the report of them; pricing and quoting, with the
status of the rates; registration and spreads with their composition; the exercise
engine; the proofs of all of these.  In this order next:

1. A promise for deposits: what `CreditBalance` does to one account as an abstract
   register that may lose updates, and a proof that it implements it.
2. Spreads in `Quoting` as a variable: `update_spread` between the legs and between mid and
   spread.
3. `Service`: quoting and executing composed over one file, the promise that what is
   settled is what was quoted, at a rate that was in the cache.
