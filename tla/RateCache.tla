----------------------------- MODULE RateCache -----------------------------
(***************************************************************************)
(* The cache of mid rates and the threads that refresh it: the background  *)
(* loop (rate_scheduler.py) and POST /api/v1/rates/refresh, which run the  *)
(* same refresh_rates on sessions of their own.                            *)
(*                                                                         *)
(* A refresh asks the providers in turn.  With the first complete answer it *)
(* builds the rates of all pairs, reads the rows that exist one by one, and *)
(* writes everything in one transaction: rows that it found missing it     *)
(* inserts, and of the others it updates the columns in which its value    *)
(* differs from the one it read.                                           *)
(***************************************************************************)
EXTENDS Pricing, FiniteSets

CONSTANTS
  Usd,         \* the currency the providers quote against
  NonUsd,      \* USD_QUOTE_CURRENCIES
  Feeds,       \* what a provider may answer: a number per currency
  Providers,   \* how many there are, asked in order
  Refreshers,  \* the threads that refresh
  Scheduler,   \* the background loop, one of them
  MaxTime      \* bound on the clock, and so on the fetches

ASSUME FeedsAssumption ==
  /\ Usd \notin NonUsd
  /\ Feeds \subseteq [NonUsd -> Nat]
  /\ Providers \in Nat \ {0}
  /\ Scheduler \in Refreshers
  /\ MaxTime \in Nat

Currencies == NonUsd \cup {Usd}

\* DIRECT_PAIRS: every ordered pair.
Pairs == {pair \in Currencies \X Currencies : pair[1] # pair[2]}

NoRow == [mid |-> 0, fetched |-> 0]

CacheRows == [mid : Nat, fetched : Nat]

VARIABLES
  cache,     \* the committed rows of "exchange_rates"
  clock,     \* no two fetches end at the same instant
  at,        \* where each refresh is
  provider,  \* which provider it asks
  broken,    \* its session waits for a rollback that never comes
  pairRates, \* what it has built from the answer
  stamp,     \* fetched_at: when the answer came
  loaded,    \* the rows it has read
  outcome    \* how its last refresh ended

refreshVars == <<at, provider, broken, pairRates, stamp, loaded, outcome>>

cacheVars == <<cache, clock, refreshVars>>

Unread == [mid |-> 0, fetched |-> MaxTime + 1]

\* No row either, and an insertion waits in the session that an earlier answer made.
Leftover == [mid |-> 0, fetched |-> MaxTime + 2]

CacheInit ==
  /\ cache = [pair \in Pairs |-> NoRow]
  /\ clock = 0
  /\ at = [p \in Refreshers |-> "idle"]
  /\ provider = [p \in Refreshers |-> 1]
  /\ broken = [p \in Refreshers |-> FALSE]
  /\ pairRates = [p \in Refreshers |-> [pair \in Pairs |-> 0]]
  /\ stamp = [p \in Refreshers |-> 0]
  /\ loaded = [p \in Refreshers |-> [pair \in Pairs |-> Unread]]
  /\ outcome = [p \in Refreshers |-> "NONE"]

-----------------------------------------------------------------------------
\* build_pair_rates; Feeds[c] is how many c one USD buys.
BuildPairRates(feed) ==
  [pair \in Pairs |->
     IF pair[1] = Usd THEN feed[pair[2]]
     ELSE IF pair[2] = Usd THEN Inverted(feed[pair[1]])
     ELSE Crossed(feed[pair[1]], feed[pair[2]])]

\* A zero in the answer is a division by zero in build_pair_rates.
Usable(feed) == \A c \in NonUsd : feed[c] > 0

DropAnswer(p) ==
  /\ pairRates' = [pairRates EXCEPT ![p] = [pair \in Pairs |-> 0]]
  /\ stamp' = [stamp EXCEPT ![p] = 0]

CloseSession(p) == loaded' = [loaded EXCEPT ![p] = [pair \in Pairs |-> Unread]]

\* Without a rollback the session keeps what an answer has left in it: the rows to be
\* inserted, and those it has changed, which no later SELECT reads anew.
KeepSession(p) ==
  loaded' = [loaded EXCEPT ![p] =
    [pair \in Pairs |-> IF @[pair] = NoRow THEN Leftover ELSE @[pair]]]

\* The scheduler wakes up, or a client calls.
StartRefresh(p) ==
  /\ at[p] = "idle"
  /\ at' = [at EXCEPT ![p] = "fetch"]
  /\ provider' = [provider EXCEPT ![p] = 1]
  /\ broken' = [broken EXCEPT ![p] = FALSE]
  /\ outcome' = [outcome EXCEPT ![p] = "NONE"]
  /\ UNCHANGED <<cache, clock, pairRates, stamp, loaded>>

\* A slip: a provider too many.
NextProviderBeyondLast(p) ==
  /\ IF provider[p] <= Providers
       THEN /\ provider' = [provider EXCEPT ![p] = @ + 1]
            /\ at' = [at EXCEPT ![p] = "fetch"]
            /\ KeepSession(p)
            /\ UNCHANGED outcome
       ELSE /\ at' = [at EXCEPT ![p] = "idle"]
            /\ outcome' = [outcome EXCEPT ![p] = "FAILED"]
            /\ CloseSession(p)
            /\ UNCHANGED provider
  /\ DropAnswer(p)

\* A slip: the last exception is raised again, and ends the thread.
NextProviderRaises(p) ==
  /\ IF provider[p] < Providers
       THEN /\ provider' = [provider EXCEPT ![p] = @ + 1]
            /\ at' = [at EXCEPT ![p] = "fetch"]
            /\ KeepSession(p)
            /\ UNCHANGED outcome
       ELSE /\ at' = [at EXCEPT ![p] = "dead"]
            /\ outcome' = [outcome EXCEPT ![p] = "FAILED"]
            /\ CloseSession(p)
            /\ UNCHANGED provider
  /\ DropAnswer(p)

\* Any exception is caught, and the next provider is asked; after the last one
\* the refresh gives up, and says so only to the log.
NextProvider(p) ==
  /\ IF provider[p] < Providers
       THEN /\ provider' = [provider EXCEPT ![p] = @ + 1]
            /\ at' = [at EXCEPT ![p] = "fetch"]
            /\ KeepSession(p)
            /\ UNCHANGED outcome
       ELSE /\ at' = [at EXCEPT ![p] = "idle"]
            /\ outcome' = [outcome EXCEPT ![p] = "FAILED"]
            /\ CloseSession(p)
            /\ UNCHANGED provider
  /\ DropAnswer(p)

FetchFails(p) ==
  /\ at[p] = "fetch"
  /\ NextProvider(p)
  /\ UNCHANGED <<cache, clock, broken>>

\* With a session that has not been rolled back the first SELECT raises, however
\* good the answer is.
Fetch(p) ==
  /\ at[p] = "fetch"
  /\ clock < MaxTime
  /\ clock' = clock + 1
  /\ \E feed \in Feeds :
       /\ Usable(feed)
       /\ IF broken[p]
            THEN NextProvider(p)
            ELSE /\ pairRates' = [pairRates EXCEPT ![p] = BuildPairRates(feed)]
                 /\ stamp' = [stamp EXCEPT ![p] = clock + 1]
                 /\ at' = [at EXCEPT ![p] = "load"]
                 /\ UNCHANGED <<provider, loaded, outcome>>
  /\ UNCHANGED <<cache, broken>>

Missing(p) == {pair \in Pairs : loaded[p][pair] = Unread}

\* One SELECT.  Every refresh goes through the pairs in the same order.
LoadPair(p) ==
  LET pair == CHOOSE q \in Missing(p) : TRUE
  IN  /\ at[p] = "load"
      /\ loaded' = [loaded EXCEPT ![p][pair] = cache[pair]]
      /\ at' = [at EXCEPT ![p] = IF Missing(p) = {pair} THEN "store" ELSE "load"]
      /\ UNCHANGED <<cache, clock, provider, broken, pairRates, stamp, outcome>>

\* A SELECT raises midway.  The flush has not failed, and the session stays usable.
LoadFails(p) ==
  /\ at[p] = "load"
  /\ NextProvider(p)
  /\ UNCHANGED <<cache, clock, broken>>

\* uq_rate_pair: somebody has inserted a row since it was found missing, or the row
\* is inserted twice, for this answer and for one that was given up.
Collides(p) ==
  \E pair \in Pairs :
    \/ loaded[p][pair] = NoRow /\ cache[pair] # NoRow
    \/ loaded[p][pair] = Leftover

\* A slip: a price that did not move keeps its old time.
StoredIfMoved(p, pair) ==
  LET old == loaded[p][pair]
      new == [mid |-> pairRates[p][pair], fetched |-> stamp[p]]
  IN  IF old.mid = new.mid THEN cache[pair] ELSE new

\* A slip: of a row that exists, only the time is updated.
StoredTimeOnly(p, pair) ==
  LET old == loaded[p][pair]
  IN  [ mid     |-> IF old = NoRow THEN pairRates[p][pair] ELSE old.mid,
        fetched |-> stamp[p] ]

\* An UPDATE names the columns that differ from what was loaded, and no others.
StoredRow(p, pair) ==
  LET old == loaded[p][pair]
      new == [mid |-> pairRates[p][pair], fetched |-> stamp[p]]
      now == cache[pair]
  IN  IF old = NoRow
        THEN new
        ELSE [mid     |-> IF new.mid = old.mid THEN now.mid ELSE new.mid,
              fetched |-> IF new.fetched = old.fetched THEN now.fetched ELSE new.fetched]

\* The flush and the commit: one transaction on the write lock.
Store(p) ==
  /\ at[p] = "store"
  /\ ~ Collides(p)
  /\ cache' = [pair \in Pairs |-> StoredRow(p, pair)]
  /\ at' = [at EXCEPT ![p] = "idle"]
  /\ outcome' = [outcome EXCEPT ![p] = "REFRESHED"]
  /\ DropAnswer(p)
  /\ CloseSession(p)
  /\ UNCHANGED <<clock, provider, broken>>

\* A collision, or a database that stays locked: the flush fails, and leaves the
\* session unusable for the providers that are still to be asked.
StoreFails(p) ==
  /\ at[p] = "store"
  /\ broken' = [broken EXCEPT ![p] = TRUE]
  /\ NextProvider(p)
  /\ UNCHANGED <<cache, clock>>

RefreshStep(p) ==
  FetchFails(p) \/ Fetch(p) \/ LoadPair(p) \/ LoadFails(p) \/ Store(p) \/ StoreFails(p)

\* The process dies; the file keeps what was committed.
Restart ==
  /\ at' = [p \in Refreshers |-> "idle"]
  /\ outcome' = [p \in Refreshers |-> "NONE"]
  /\ pairRates' = [p \in Refreshers |-> [pair \in Pairs |-> 0]]
  /\ stamp' = [p \in Refreshers |-> 0]
  /\ loaded' = [p \in Refreshers |-> [pair \in Pairs |-> Unread]]
  /\ UNCHANGED <<cache, clock, provider, broken>>

CacheNext ==
  \/ \E p \in Refreshers : StartRefresh(p) \/ RefreshStep(p)
  \/ Restart

CacheSpec == CacheInit /\ [][CacheNext]_cacheVars

\* The loop goes round, and every statement of a refresh returns: HTTP calls time
\* out after ten seconds, the database after five.
RefreshersKeepRunning ==
  /\ WF_cacheVars(StartRefresh(Scheduler))
  /\ \A p \in Refreshers : WF_cacheVars(RefreshStep(p))

-----------------------------------------------------------------------------
(* Properties *)

\* The type invariant.
CacheTypeOK ==
  /\ cache \in [Pairs -> CacheRows]
  /\ clock \in 0..MaxTime
  /\ at \in [Refreshers -> {"idle", "fetch", "load", "store"}]
  /\ provider \in [Refreshers -> 1..Providers]
  /\ broken \in [Refreshers -> BOOLEAN]
  /\ pairRates \in [Refreshers -> [Pairs -> Nat]]
  /\ stamp \in [Refreshers -> 0..MaxTime]
  /\ loaded \in [Refreshers -> [Pairs -> CacheRows]]
  /\ outcome \in [Refreshers -> {"NONE", "REFRESHED", "FAILED"}]

\* All rows of the cache have been written by one refresh: either there are none,
\* or they have one age.  /healthz and GET /rates report the youngest row as the
\* age of the cache (get_rates_age_seconds), which is the truth only because of
\* this.
OneGeneration ==
  \A a, b \in Pairs : cache[a].fetched = cache[b].fetched

\* Providers that fail, a busy database or a collision with another refresh never
\* stop the background loop.
SchedulerGoesOn ==
  /\ []<>(at[Scheduler] = "idle")
  /\ []<>(at[Scheduler] = "fetch")

-----------------------------------------------------------------------------
(* What the design says of a refresh, and the code does otherwise *)

\* "On success: upsert all applicable ExchangeRate rows, set fetched_at = now()"
\* (designs/03-rates.md:106): a refresh that succeeds leaves the rates it has
\* fetched under the time at which it has fetched them.
SuccessUpsertsAll ==
  [][\A p \in Refreshers :
       at[p] = "store" /\ outcome'[p] = "REFRESHED" =>
         \A pair \in Pairs :
           cache'[pair] = [mid |-> pairRates[p][pair], fetched |-> stamp[p]]]_cacheVars

\* "Try primary provider; on failure, try fallback" (designs/03-rates.md:105): a
\* provider that is asked and answers well is listened to.
AnswersAreUsed ==
  [][\A p \in Refreshers :
       at[p] = "fetch" /\ clock' # clock /\ at'[p] # "fetch" => at'[p] = "load"]_cacheVars
=============================================================================
