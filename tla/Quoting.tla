------------------------------ MODULE Quoting ------------------------------
(***************************************************************************)
(* POST /api/v1/quotes (quote_service.py, routing_service.py, and get_rate *)
(* of rate_service.py) against the cache that refreshes are writing.       *)
(*                                                                         *)
(* The handler looks for a path whose legs are all cached, then reads the  *)
(* legs again one by one for their rates and ages, then prices and stores. *)
(* Nothing is locked, so refreshes commit in between, and time passes.     *)
(***************************************************************************)
EXTENDS RateCache, Sequences

CONSTANTS
  Eur,             \* the second hub
  Askers,          \* the threads that serve these calls
  Calls,           \* what clients ask for
  NotANumber,      \* an amount that is no decimal
  BuySpread, SellSpread,  \* "corridor_spreads", in units of 1 / SpreadScale
  TicksPerSecond,
  StaleWarn,       \* STALE_WARN_SECONDS
  StaleBlock       \* STALE_BLOCK_SECONDS

ASSUME QuotingAssumption ==
  /\ Eur \in NonUsd
  /\ \A c \in Calls :
       /\ DOMAIN c = {"customer", "from", "to", "side", "amount"}
       /\ c.customer \in BOOLEAN   \* whether the customer exists
       /\ c.side \in {"source", "destination"}
       /\ c.amount \in Nat \cup {NotANumber}   \* what is not positive stands for 0
  /\ NotANumber \notin Nat
  \* PUT /rates/spreads takes any decimal: below zero, or beyond the whole rate.
  /\ BuySpread \in [Pairs -> Int] /\ SellSpread \in [Pairs -> Int]
  /\ TicksPerSecond \in Nat \ {0}
  /\ StaleWarn \in Nat /\ StaleBlock \in Nat /\ StaleWarn <= StaleBlock

VARIABLES
  stage,   \* where each call is
  call,    \* what it asks for
  path,    \* the candidate path it examines, and then follows
  hop,     \* the leg of that path it comes to next
  legs,    \* the legs it has read: rate, and age in seconds at that moment
  answer   \* its last answer

askVars == <<stage, call, path, hop, legs, answer>>

quotingVars == <<cacheVars, askVars>>

NoAnswer == [code |-> "NONE"]

Refused(code) == [code |-> code]

QuotingInit ==
  /\ CacheInit
  /\ stage = [a \in Askers |-> "idle"]
  /\ call \in [Askers -> Calls]
  /\ path = [a \in Askers |-> 1]
  /\ hop = [a \in Askers |-> 1]
  /\ legs = [a \in Askers |-> <<>>]
  /\ answer = [a \in Askers |-> NoAnswer]

-----------------------------------------------------------------------------
(* Routing *)

\* A slip: the hub is tried before the direct pair.
HubFirst(from, to) == << <<from, Usd, to>>, <<from, to>>, <<from, Eur, to>> >>

\* _candidate_paths; a candidate may name a currency twice, and then has a leg
\* that no row can serve.
CandidatePaths(from, to) == << <<from, to>>, <<from, Usd, to>>, <<from, Eur, to>> >>

PathOf(a) == CandidatePaths(call[a].from, call[a].to)[path[a]]

Hops(a) == Len(PathOf(a)) - 1

LegOf(a) == <<PathOf(a)[hop[a]], PathOf(a)[hop[a] + 1]>>

Inverse(pair) == <<pair[2], pair[1]>>

HasRow(pair) == pair \in Pairs /\ cache[pair] # NoRow

\* Two SELECTs.  Rows are inserted all together and never deleted, so looking
\* at both at the time of the second finds the same.
HasCachedRate(pair) == HasRow(pair) \/ HasRow(Inverse(pair))

\* _get_exchange_rate_row: the row, or one made up from its inverse.
RateRow(pair) ==
  IF HasRow(pair)
    THEN cache[pair]
    ELSE [cache[Inverse(pair)] EXCEPT !.mid = Inverted(@)]

AgeInSeconds(row) == (clock - row.fetched) \div TicksPerSecond

\* _classify_age
Stale(age) == age > StaleWarn

Blocked(age) == age > StaleBlock

\* get_rates_age_seconds: the age of the youngest row.
CacheAge ==
  CHOOSE age \in {AgeInSeconds(cache[pair]) : pair \in Pairs} :
    \A pair \in Pairs : age <= AgeInSeconds(cache[pair])

\* A slip: an hour to the second is too old.
ClassifyRatesEarly ==
  IF \A pair \in Pairs : cache[pair] = NoRow THEN "unavailable"
  ELSE IF CacheAge < StaleWarn THEN "fresh"
  ELSE IF CacheAge < StaleBlock THEN "stale"
  ELSE "unavailable"

\* rates_status of GET /healthz (classify_rates).
ClassifyRates ==
  IF \A pair \in Pairs : cache[pair] = NoRow THEN "unavailable"
  ELSE IF CacheAge < StaleWarn THEN "fresh"
  ELSE IF CacheAge <= StaleBlock THEN "stale"
  ELSE "unavailable"

\* _leg_rate: only the last leg of several is bought.
LegRate(a, row) ==
  IF Hops(a) > 1 /\ hop[a] = Hops(a)
    THEN BuyRate(row.mid, BuySpread[LegOf(a)])
    ELSE SellRate(row.mid, SellSpread[LegOf(a)])

-----------------------------------------------------------------------------
(* Pricing *)

EffectiveRate(route) ==
  IF Len(route) = 1 THEN route[1].rate ELSE Compounded(route[1].rate, route[2].rate)

\* _calculate_amounts
SourceAmount(c, route) ==
  LET asked == QuantizeAmount(c.amount)
  IN  IF c.side = "source" THEN asked
      ELSE IF Len(route) = 1 THEN BackSolved(asked, route[1].rate)
      ELSE BackSolvedTwice(asked, route[1].rate, route[2].rate)

\* A slip: converted before the amount to pay is rounded.
DestinationOfUnrounded(c, route) ==
  IF c.side = "destination" THEN QuantizeAmount(c.amount)
  ELSE IF Len(route) = 1
    THEN RoundHalfUp(c.amount * route[1].rate, AmountScale * RateScale)
  ELSE RoundHalfUp(c.amount * route[1].rate * route[2].rate,
                   AmountScale * RateScale * RateScale)

DestinationAmount(c, route) ==
  LET asked == QuantizeAmount(c.amount)
  IN  IF c.side = "destination" THEN asked
      ELSE IF Len(route) = 1 THEN Converted(asked, route[1].rate)
      ELSE ConvertedTwice(asked, route[1].rate, route[2].rate)

DividesByZero(c, route) ==
  c.side = "destination" /\ \E i \in DOMAIN route : route[i].rate = 0

\* What is stored and answered.  The expiry is that of another component.
Priced(c, way, route) ==
  [ code        |-> "CREATED",
    path        |-> way,
    source      |-> SourceAmount(c, route),
    destination |-> DestinationAmount(c, route),
    rate        |-> EffectiveRate(route),
    stale       |-> \E i \in DOMAIN route : Stale(route[i].age) ]

\* A slip: nothing is verified.
NothingFails(quote) == FALSE

\* Only direct pairs are verified.
InvariantFails(quote) ==
  /\ Len(quote.path) = 2
  /\ ~ DirectPairHolds(quote.source, quote.rate, quote.destination)

-----------------------------------------------------------------------------
(* Steps of a call *)

AnswerCall(a, what) ==
  /\ stage' = [stage EXCEPT ![a] = "idle"]
  /\ answer' = [answer EXCEPT ![a] = what]
  /\ UNCHANGED <<call, path, hop, legs>>

CallQuote(a) ==
  /\ stage[a] = "idle"
  /\ call' \in {[call EXCEPT ![a] = c] : c \in Calls}
  /\ stage' = [stage EXCEPT ![a] = "validate"]
  /\ path' = [path EXCEPT ![a] = 1]
  /\ hop' = [hop EXCEPT ![a] = 1]
  /\ legs' = [legs EXCEPT ![a] = <<>>]
  /\ answer' = [answer EXCEPT ![a] = NoAnswer]

\* The first objection to a call, in the order of the checks.  What is no decimal
\* makes the validator of the body raise what the framework does not expect of it.
Objection(c) ==
  IF c.amount = NotANumber THEN "INTERNAL_ERROR"
  ELSE IF ~ c.customer THEN "CUSTOMER_NOT_FOUND"
  ELSE IF ~ {c.from, c.to} \subseteq Currencies THEN "UNSUPPORTED_CURRENCY"
  ELSE IF c.from = c.to THEN "INVALID_CURRENCY_PAIR"
  ELSE IF c.amount = 0 THEN "INVALID_AMOUNT"
  ELSE "NONE"

Validate(a) ==
  /\ stage[a] = "validate"
  /\ IF Objection(call[a]) = "NONE"
       THEN /\ stage' = [stage EXCEPT ![a] = "route"]
            /\ UNCHANGED <<call, path, hop, legs, answer>>
       ELSE AnswerCall(a, Refused(Objection(call[a])))

\* _resolve_path, one leg of one candidate.
FollowCandidate(a) ==
  /\ stage[a] = "route"
  /\ HasCachedRate(LegOf(a))
  /\ IF hop[a] < Hops(a)
       THEN /\ hop' = [hop EXCEPT ![a] = @ + 1]
            /\ UNCHANGED stage
       ELSE /\ hop' = [hop EXCEPT ![a] = 1]
            /\ stage' = [stage EXCEPT ![a] = "read"]
  /\ UNCHANGED <<call, path, legs, answer>>

\* A slip: a candidate too many.
DropCandidateBeyondLast(a) ==
  /\ stage[a] = "route"
  /\ ~ HasCachedRate(LegOf(a))
  /\ path[a] <= 3
  /\ path' = [path EXCEPT ![a] = @ + 1]
  /\ hop' = [hop EXCEPT ![a] = 1]
  /\ UNCHANGED <<stage, call, legs, answer>>

DropCandidate(a) ==
  /\ stage[a] = "route"
  /\ ~ HasCachedRate(LegOf(a))
  /\ \/ /\ path[a] < 3
        /\ path' = [path EXCEPT ![a] = @ + 1]
        /\ hop' = [hop EXCEPT ![a] = 1]
        /\ UNCHANGED <<stage, call, legs, answer>>
     \/ /\ path[a] = 3
        /\ AnswerCall(a, Refused("ROUTE_UNAVAILABLE"))

\* get_rate for the next leg.
ReadLeg(a) ==
  /\ stage[a] = "read"
  /\ LET row == RateRow(LegOf(a))
     IN  legs' = [legs EXCEPT ![a] =
                    Append(@, [rate |-> LegRate(a, row), age |-> AgeInSeconds(row)])]
  /\ IF hop[a] < Hops(a)
       THEN /\ hop' = [hop EXCEPT ![a] = @ + 1]
            /\ UNCHANGED stage
       ELSE /\ stage' = [stage EXCEPT ![a] = "price"]
            /\ UNCHANGED hop
  /\ UNCHANGED <<call, path, answer>>

\* A slip: each leg overwrites what the legs before it said.
LastLegBlocked(route) == Blocked(route[Len(route)].age)

AnyLegBlocked(route) == \E i \in DOMAIN route : Blocked(route[i].age)

\* The checks on the price, and the INSERT and its commit.
Price(a) ==
  LET quote == Priced(call[a], PathOf(a), legs[a])
  IN  /\ stage[a] = "price"
      /\ \/ /\ AnyLegBlocked(legs[a])
            /\ AnswerCall(a, Refused("RATES_STALE"))
         \/ /\ ~ AnyLegBlocked(legs[a])
            /\ ~ DividesByZero(call[a], legs[a])
            /\ InvariantFails(quote)
            /\ AnswerCall(a, Refused("INVALID_AMOUNT"))
         \/ /\ ~ AnyLegBlocked(legs[a])
            /\ ~ DividesByZero(call[a], legs[a])
            /\ ~ InvariantFails(quote)
            /\ AnswerCall(a, quote)

\* Any other exception: a division by zero, an amount that is a NaN or an infinity, a
\* database that stays locked.
QuoteFault(a) ==
  /\ stage[a] # "idle"
  /\ AnswerCall(a, Refused("INTERNAL_ERROR"))

AskStep(a) ==
  \/ CallQuote(a) \/ Validate(a) \/ FollowCandidate(a) \/ DropCandidate(a)
  \/ ReadLeg(a) \/ Price(a) \/ QuoteFault(a)

-----------------------------------------------------------------------------
TimePasses ==
  /\ clock < MaxTime
  /\ clock' = clock + 1
  /\ UNCHANGED <<cache, refreshVars, askVars>>

\* The process dies under the calls in flight.
QuotingRestart ==
  /\ Restart
  /\ stage' = [a \in Askers |-> "idle"]
  /\ UNCHANGED <<call, path, hop, legs, answer>>

QuotingNext ==
  \/ /\ \E p \in Refreshers : StartRefresh(p) \/ RefreshStep(p)
     /\ UNCHANGED askVars
  \/ /\ \E a \in Askers : AskStep(a)
     /\ UNCHANGED cacheVars
  \/ TimePasses
  \/ QuotingRestart

QuotingSpec == QuotingInit /\ [][QuotingNext]_quotingVars

-----------------------------------------------------------------------------
(* Properties *)

Codes ==
  {"NONE", "CREATED", "CUSTOMER_NOT_FOUND", "UNSUPPORTED_CURRENCY",
   "INVALID_CURRENCY_PAIR", "INVALID_AMOUNT", "ROUTE_UNAVAILABLE", "RATES_STALE",
   "INTERNAL_ERROR"}

\* The type invariant.
QuotingTypeOK ==
  /\ CacheTypeOK
  /\ stage \in [Askers -> {"idle", "validate", "route", "read", "price"}]
  /\ call \in [Askers -> Calls]
  /\ path \in [Askers -> 1..3]
  /\ \A a \in Askers :
       /\ hop[a] \in 1..2
       /\ Len(legs[a]) <= Hops(a)
       /\ \A i \in DOMAIN legs[a] : legs[a][i] \in [rate : Int, age : Nat]
       /\ answer[a].code \in Codes

Quoted(a) == answer[a].code = "CREATED"

\* No quote rests on a rate that was older than an hour when it was read, and none
\* on one older than ten minutes without saying so.  With several legs that takes
\* all of them: a refresh may make the second one fresh after the first was read.
AsFreshAsDeclared ==
  \A a \in Askers : Quoted(a) =>
    \A i \in DOMAIN legs[a] :
      /\ legs[a][i].age <= StaleBlock
      /\ ~ answer[a].stale => legs[a][i].age <= StaleWarn

\* What the client fixed is what it gets, to the minor unit, and over a direct pair
\* the other side is what the stored rate makes of it (SPEC.md:153): whoever
\* recomputes the quote from its row finds the same amounts.
PricedAsAsked ==
  \A a \in Askers : Quoted(a) =>
    LET asked == QuantizeAmount(call[a].amount)
    IN  /\ IF call[a].side = "source" THEN answer[a].source = asked
                                     ELSE answer[a].destination = asked
        /\ Len(answer[a].path) = 2 =>
             answer[a].destination = Converted(answer[a].source, answer[a].rate)

\* An amount is refused only because it is not positive, or because it is an amount
\* to receive over a rate of more than one in size, which no amount to pay may hit.
\* An amount to pay is never refused, whatever the spreads make of the rate: the check
\* of the direct pair cannot fail for it.
OnlyUnreachableAmountsAreRefused ==
  \A a \in Askers : answer[a].code = "INVALID_AMOUNT" /\ call[a].amount > 0 =>
    /\ call[a].side = "destination"
    /\ legs[a][1].rate \notin -RateScale..RateScale

\* /healthz calls the rates unavailable exactly when no pair can be quoted, though it
\* knows only the youngest row and compares ages by a code of its own.
HealthTellsQuotability ==
  ClassifyRates = "unavailable" <=>
    \A pair \in Pairs : cache[pair] = NoRow \/ Blocked(AgeInSeconds(cache[pair]))

-----------------------------------------------------------------------------
(* What the documents say of the answers, and the code does otherwise *)

\* "destination (you want to receive this much)" (SPEC.md:126): a positive amount
\* to receive is not an invalid amount.
DestinationIsHonoured ==
  \A a \in Askers :
    answer[a].code = "INVALID_AMOUNT" => call[a].amount = 0
=============================================================================
