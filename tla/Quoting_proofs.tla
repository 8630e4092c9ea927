---------------------------- MODULE Quoting_proofs ----------------------------
(***************************************************************************)
(* Proofs about Quoting and MCQuoting: whatever refreshes, restarts and    *)
(* time do between the statements of a call, its quote is as fresh as it   *)
(* says, priced as it was asked for, and refused only for the reasons it   *)
(* gives; and /healthz tells whether there is anything to quote.           *)
(*                                                                         *)
(* The argument is that rows come all together and never go, so what a     *)
(* call has found when it looked for a route is still there when it reads. *)
(***************************************************************************)
EXTENDS MCQuoting, RateCache_proofs

\* A row is there if a refresh has written it, and then it bears the time of one.
DatedInv == \A pair \in Pairs : cache[pair] = NoRow \/ cache[pair].fetched >= 1

Legs == [rate : Int, age : Nat]

LegAt(a, i) == <<PathOf(a)[i], PathOf(a)[i + 1]>>

AskTypes ==
  /\ stage \in [Askers -> {"idle", "validate", "route", "read", "price"}]
  /\ call \in [Askers -> Calls]
  /\ path \in [Askers -> 1..3]
  /\ hop \in [Askers -> 1..2]
  /\ legs \in [Askers -> Seq(Legs)]
  /\ answer = [a \in Askers |-> answer[a]]

\* Where a call is, and what it has come to there.
CallInv(a) ==
  /\ hop[a] <= Hops(a) /\ Len(legs[a]) <= Hops(a)
  /\ stage[a] \in {"validate", "route"} => legs[a] = <<>>
  /\ stage[a] = "validate" => path[a] = 1 /\ hop[a] = 1
  /\ stage[a] \in {"route", "read", "price"} => Objection(call[a]) = "NONE"
  /\ stage[a] = "route" => \A i \in 1..(hop[a] - 1) : HasCachedRate(LegAt(a, i))
  /\ stage[a] = "read" =>
       /\ Len(legs[a]) = hop[a] - 1
       /\ \A i \in 1..Hops(a) : HasCachedRate(LegAt(a, i))
  /\ stage[a] = "price" => Len(legs[a]) = Hops(a)
  /\ stage[a] # "idle" => answer[a] = NoAnswer

\* What a call was answered, beside the legs it has read and the request.
AnswerInv(a) ==
  /\ answer[a].code \in Codes
  /\ Quoted(a) => \A i \in DOMAIN legs[a] :
       legs[a][i].age <= StaleBlock /\ (~ answer[a].stale => legs[a][i].age <= StaleWarn)
  /\ Quoted(a) =>
       /\ IF call[a].side = "source"
            THEN answer[a].source = QuantizeAmount(call[a].amount)
            ELSE answer[a].destination = QuantizeAmount(call[a].amount)
       /\ Len(answer[a].path) = 2 =>
            answer[a].destination = Converted(answer[a].source, answer[a].rate)
  /\ answer[a].code = "INVALID_AMOUNT" /\ call[a].amount > 0 =>
       call[a].side = "destination" /\ legs[a][1].rate \notin -RateScale..RateScale

AskInv == AskTypes /\ \A a \in Askers : CallInv(a) /\ AnswerInv(a)

QuotingInv == CacheInv /\ DatedInv /\ AskInv
-----------------------------------------------------------------------------
(* The cache under the calls *)

LEMMA OnlyStoresWrite ==
  ASSUME [CacheNext]_cacheVars
  PROVE  cache' = cache \/ \E p \in Refreshers : Store(p)
<1>1. ASSUME NEW p \in Refreshers, StartRefresh(p) \/ RefreshStep(p)
      PROVE  cache' = cache \/ Store(p)
  BY <1>1 DEF StartRefresh, RefreshStep, FetchFails, Fetch, LoadPair, LoadFails, StoreFails
<1>2. QED
  BY <1>1 DEF CacheNext, Restart, cacheVars

\* What a refresh stores is a row in each place, and has a time.
LEMMA StoresRows ==
  ASSUME CacheInv, NEW p \in Refreshers, Store(p), NEW pair \in Pairs
  PROVE  cache'[pair] # NoRow /\ cache'[pair].fetched >= 1
<1>1. at[p] = "store" /\ cache'[pair] = StoredRow(p, pair)
  BY DEF Store
<1>2. StoredRow(p, pair) \in CacheRows /\ StoredRow(p, pair).fetched = stamp[p]
  BY <1>1, StoredTimes
<1>3. stamp[p] \in 1..clock /\ clock \in Nat
  BY <1>1 DEF CacheInv, StampInv, Refreshing, CacheTypeOK
<1>4. QED
  BY <1>1, <1>2, <1>3 DEF NoRow

LEMMA RowsStay ==
  ASSUME CacheInv, [CacheNext]_cacheVars, NEW pair \in Pairs, cache[pair] # NoRow
  PROVE  cache'[pair] # NoRow
BY OnlyStoresWrite, StoresRows

LEMMA Dated_Inv ==
  ASSUME CacheInv, DatedInv, [CacheNext]_cacheVars
  PROVE  DatedInv'
<1>1. CASE cache' = cache
  BY <1>1 DEF DatedInv
<1>2. ASSUME NEW p \in Refreshers, Store(p)
      PROVE  DatedInv'
  BY <1>2, StoresRows DEF DatedInv
<1>3. QED
  BY <1>1, <1>2, OnlyStoresWrite

LEMMA Time_Inv ==
  ASSUME CacheInv, TimePasses
  PROVE  CacheInv'
<1>1. /\ clock \in 0..MaxTime /\ MaxTime \in Nat /\ clock < MaxTime /\ clock' = clock + 1
      /\ UNCHANGED <<cache, at, provider, broken, pairRates, stamp, loaded, outcome>>
  BY FeedsAssumption DEF CacheInv, CacheTypeOK, TimePasses, refreshVars
<1>2. clock' \in 0..MaxTime
  BY <1>1
<1>3. CacheTypeOK'
  BY <1>1, <1>2 DEF CacheInv, CacheTypeOK
<1>4. StampInv'
  BY <1>1 DEF CacheInv, StampInv, Refreshing
<1>5. \A pair \in Pairs : cache[pair].fetched \in Nat
  BY DEF CacheInv, CacheTypeOK, CacheRows
<1>6. \A pair \in Pairs : cache'[pair].fetched <= clock'
  BY <1>1, <1>5 DEF CacheInv, UnpublishedInv
<1>7. UnpublishedInv'
  <2>1. \A p \in Refreshers, pair \in Pairs : Past(loaded[p][pair])'
    <3>1. \A p \in Refreshers, pair \in Pairs :
            Past(loaded[p][pair]) /\ loaded[p][pair].fetched \in Nat
      BY DEF CacheInv, CacheTypeOK, UnpublishedInv, CacheRows
    <3>2. QED
      BY <1>1, <3>1 DEF Past
  <2>2. QED
    BY <1>1, <1>6, <2>1 DEF CacheInv, UnpublishedInv, Refreshing
<1>8. OneGeneration'
  BY <1>1 DEF CacheInv, OneGeneration
<1>9. QED
  BY <1>3, <1>4, <1>7, <1>8 DEF CacheInv

\* Rows are there all together, or not at all.
LEMMA AllOrNoRows ==
  ASSUME CacheInv, DatedInv, NEW a \in Pairs, NEW b \in Pairs, cache[a] # NoRow
  PROVE  cache[b] # NoRow
BY DEF CacheInv, OneGeneration, DatedInv, NoRow

\* So whatever has a rate has a row of its own: none is ever made up from the inverse.
LEMMA OwnRow ==
  ASSUME CacheInv, DatedInv, NEW x, NEW y, HasCachedRate(<<x, y>>)
  PROVE  /\ <<x, y>> \in Pairs /\ cache[<<x, y>>] # NoRow
         /\ RateRow(<<x, y>>) = cache[<<x, y>>]
<1>1. Inverse(<<x, y>>) = <<y, x>>
  BY DEF Inverse
<1>2. <<y, x>> \in Pairs => <<x, y>> \in Pairs
  BY DEF Pairs
<1>3. <<x, y>> \in Pairs
  BY <1>1, <1>2 DEF HasCachedRate, HasRow
<1>4. cache[<<x, y>>] # NoRow
  BY <1>1, <1>3, AllOrNoRows DEF HasCachedRate, HasRow
<1>5. QED
  BY <1>3, <1>4 DEF RateRow, HasRow

\* What has a rate keeps one.
LEMMA RatesStay ==
  ASSUME CacheInv, [CacheNext]_cacheVars, NEW pair, HasCachedRate(pair)
  PROVE  HasCachedRate(pair)'
BY RowsStay DEF HasCachedRate, HasRow

-----------------------------------------------------------------------------
(* Paths and legs *)

LEMMA PathLengths ==
  ASSUME NEW x, NEW y, NEW n \in 1..3
  PROVE  Len(CandidatePaths(x, y)[n]) = (IF n = 1 THEN 2 ELSE 3)
<1>1. /\ CandidatePaths(x, y)[1] = <<x, y>>
      /\ CandidatePaths(x, y)[2] = <<x, Usd, y>>
      /\ CandidatePaths(x, y)[3] = <<x, Eur, y>>
  BY DEF CandidatePaths
<1>2. CASE n = 1
  BY <1>1, <1>2
<1>3. CASE n = 2
  BY <1>1, <1>3
<1>4. CASE n = 3
  BY <1>1, <1>4
<1>5. QED
  BY <1>2, <1>3, <1>4

LEMMA HopsOfPaths ==
  ASSUME AskTypes, NEW a \in Askers
  PROVE  Hops(a) = (IF path[a] = 1 THEN 1 ELSE 2)
<1>1. path[a] \in 1..3
  BY DEF AskTypes
<1>2. Len(CandidatePaths(call[a].from, call[a].to)[path[a]]) = (IF path[a] = 1 THEN 2 ELSE 3)
  BY <1>1, PathLengths
<1>3. QED
  BY <1>2 DEF Hops, PathOf

\* A call that nothing is done for stays as it is, if the cache loses no rate.
LEMMA SameCall ==
  ASSUME NEW a \in Askers, CallInv(a),
         stage'[a] = stage[a], call'[a] = call[a], path'[a] = path[a], hop'[a] = hop[a],
         legs'[a] = legs[a], answer'[a] = answer[a],
         \A pair : HasCachedRate(pair) => HasCachedRate(pair)'
  PROVE  CallInv(a)'
<1>1. Hops(a)' = Hops(a) /\ PathOf(a)' = PathOf(a)
  BY DEF Hops, PathOf
<1>2. \A i : LegAt(a, i)' = LegAt(a, i)
  BY <1>1 DEF LegAt
<1>3. \A i : HasCachedRate(LegAt(a, i)) => HasCachedRate(LegAt(a, i))'
  BY <1>2 DEF HasCachedRate, HasRow, Inverse
<1>4. QED
  BY <1>1, <1>3 DEF CallInv

LEMMA SameAnswer ==
  ASSUME NEW a \in Askers, AnswerInv(a), call'[a] = call[a], legs'[a] = legs[a],
         answer'[a] = answer[a]
  PROVE  AnswerInv(a)'
BY DEF AnswerInv, Quoted

\* A call without an answer has no wrong one.
LEMMA NotYetAnswered ==
  ASSUME NEW a \in Askers, answer'[a].code \in Codes \ {"CREATED", "INVALID_AMOUNT"}
  PROVE  AnswerInv(a)'
BY DEF AnswerInv, Quoted
-----------------------------------------------------------------------------
(* Steps of a call *)

LEMMA OtherAskers ==
  ASSUME AskTypes, NEW a \in Askers, AskStep(a), NEW b \in Askers, b # a
  PROVE  /\ stage'[b] = stage[b] /\ call'[b] = call[b] /\ path'[b] = path[b]
         /\ hop'[b] = hop[b] /\ legs'[b] = legs[b] /\ answer'[b] = answer[b]
<1> DEFINE Goal == /\ stage'[b] = stage[b] /\ call'[b] = call[b] /\ path'[b] = path[b]
                   /\ hop'[b] = hop[b] /\ legs'[b] = legs[b] /\ answer'[b] = answer[b]
<1> SUFFICES Goal
  OBVIOUS
<1>1. ASSUME NEW what, AnswerCall(a, what)
      PROVE  Goal
  BY <1>1 DEF AnswerCall, AskTypes
<1>2. CASE CallQuote(a)
  BY <1>2 DEF CallQuote, AskTypes
<1>3. CASE Validate(a)
  BY <1>1, <1>3 DEF Validate, AskTypes
<1>4. CASE FollowCandidate(a)
  BY <1>4 DEF FollowCandidate, AskTypes
<1>5. CASE DropCandidate(a)
  BY <1>1, <1>5 DEF DropCandidate, AskTypes
<1>6. CASE ReadLeg(a)
  BY <1>6 DEF ReadLeg, AskTypes
<1>7. CASE Price(a) \/ QuoteFault(a)
  BY <1>1, <1>7 DEF Price, QuoteFault
<1>8. QED
  BY <1>2, <1>3, <1>4, <1>5, <1>6, <1>7 DEF AskStep

\* A call that is answered keeps all but its stage.
LEMMA Answered ==
  ASSUME AskTypes, NEW a \in Askers, NEW what, AnswerCall(a, what)
  PROVE  /\ AskTypes'
         /\ stage'[a] = "idle" /\ answer'[a] = what
         /\ UNCHANGED <<call, path, hop, legs>>
BY DEF AnswerCall, AskTypes

LEMMA AnsweredCall ==
  ASSUME AskTypes, NEW a \in Askers, CallInv(a), NEW what, AnswerCall(a, what)
  PROVE  CallInv(a)'
<1>1. stage'[a] = "idle" /\ UNCHANGED <<call, path, hop, legs>>
  BY Answered
<1>2. Hops(a)' = Hops(a)
  BY <1>1 DEF Hops, PathOf
<1>3. QED
  BY <1>1, <1>2 DEF CallInv

LEMMA CallQuote_Inv ==
  ASSUME AskInv, NEW a \in Askers, CallQuote(a)
  PROVE  AskTypes' /\ CallInv(a)' /\ AnswerInv(a)'
<1>1. PICK c \in Calls : call' = [call EXCEPT ![a] = c]
  BY DEF CallQuote
<1>2. AskTypes
  BY DEF AskInv
<1>3. AskTypes'
  <2>1. /\ stage' \in [Askers -> {"idle", "validate", "route", "read", "price"}]
        /\ call' \in [Askers -> Calls]
    BY <1>1, <1>2 DEF CallQuote, AskTypes
  <2>2. path' \in [Askers -> 1..3] /\ hop' \in [Askers -> 1..2]
    BY <1>2 DEF CallQuote, AskTypes
  <2>3. <<>> \in Seq(Legs)
    OBVIOUS
  <2>4. legs' \in [Askers -> Seq(Legs)] /\ answer' = [b \in Askers |-> answer'[b]]
    BY <1>2, <2>3 DEF CallQuote, AskTypes
  <2>5. QED
    BY <2>1, <2>2, <2>4 DEF AskTypes
<1>4. /\ stage'[a] = "validate" /\ path'[a] = 1 /\ hop'[a] = 1 /\ legs'[a] = <<>>
      /\ answer'[a] = NoAnswer
  BY <1>2 DEF CallQuote, AskTypes
<1>5. Len(CandidatePaths(call'[a].from, call'[a].to)[1]) = 2
  BY PathLengths
<1>6. Hops(a)' = 1
  BY <1>4, <1>5 DEF Hops, PathOf
<1>7. CallInv(a)'
  BY <1>4, <1>6 DEF CallInv
<1>8. AnswerInv(a)'
  BY <1>4, NotYetAnswered DEF NoAnswer, Codes
<1>9. QED
  BY <1>3, <1>7, <1>8

LEMMA Validate_Inv ==
  ASSUME AskInv, NEW a \in Askers, Validate(a), UNCHANGED cacheVars
  PROVE  AskTypes' /\ CallInv(a)' /\ AnswerInv(a)'
<1>1. AskTypes /\ CallInv(a) /\ stage[a] = "validate"
  BY DEF AskInv, Validate
<1>2. CASE Objection(call[a]) = "NONE"
  <2>1. /\ stage' = [stage EXCEPT ![a] = "route"]
        /\ UNCHANGED <<call, path, hop, legs, answer>>
    BY <1>2 DEF Validate
  <2>2. AskTypes' /\ stage'[a] = "route"
    BY <1>1, <2>1 DEF AskTypes
  <2>3. Hops(a)' = Hops(a) /\ hop[a] = 1
    BY <1>1, <2>1 DEF Hops, PathOf, CallInv
  <2>4. CallInv(a)'
    BY <1>1, <1>2, <2>1, <2>2, <2>3 DEF CallInv
  <2>5. AnswerInv(a)'
    BY <1>1, <2>1, NotYetAnswered DEF CallInv, NoAnswer, Codes
  <2>6. QED
    BY <2>2, <2>4, <2>5
<1>3. CASE Objection(call[a]) # "NONE"
  <2>1. AnswerCall(a, Refused(Objection(call[a])))
    BY <1>3 DEF Validate
  <2>2. AskTypes' /\ CallInv(a)' /\ call' = call /\ answer'[a] = Refused(Objection(call[a]))
    BY <1>1, <2>1, Answered, AnsweredCall
  <2>3. /\ answer'[a].code \in Codes \ {"CREATED"}
        /\ answer'[a].code = "INVALID_AMOUNT" => call'[a].amount = 0
    BY <1>3, <2>2 DEF Refused, Objection, Codes
  <2>4. AnswerInv(a)'
    BY <2>3 DEF AnswerInv, Quoted
  <2>5. QED
    BY <2>2, <2>4
<1>4. QED
  BY <1>2, <1>3

LEMMA FollowCandidate_Inv ==
  ASSUME AskInv, NEW a \in Askers, FollowCandidate(a), UNCHANGED cacheVars
  PROVE  AskTypes' /\ CallInv(a)' /\ AnswerInv(a)'
<1>1. AskTypes /\ CallInv(a) /\ stage[a] = "route" /\ HasCachedRate(LegOf(a))
  BY DEF AskInv, FollowCandidate
<1>2. UNCHANGED <<call, path, legs, answer, cache>>
  BY DEF FollowCandidate, cacheVars
<1>3. Hops(a) \in 1..2 /\ hop[a] \in 1..2 /\ hop[a] <= Hops(a)
  BY <1>1, HopsOfPaths DEF CallInv, AskTypes
<1>4. Hops(a)' = Hops(a) /\ \A i : HasCachedRate(LegAt(a, i))' <=> HasCachedRate(LegAt(a, i))
  BY <1>2 DEF Hops, PathOf, LegAt, HasCachedRate, HasRow, Inverse
<1>5. \A i \in 1..hop[a] : HasCachedRate(LegAt(a, i))
  <2>1. LegAt(a, hop[a]) = LegOf(a)
    BY DEF LegAt, LegOf
  <2>2. QED
    BY <1>1, <1>3, <2>1 DEF CallInv
<1>6. AnswerInv(a)'
  BY <1>1, <1>2, NotYetAnswered DEF CallInv, NoAnswer, Codes
<1>7. CASE hop[a] < Hops(a)
  <2>1. hop' = [hop EXCEPT ![a] = @ + 1] /\ stage' = stage
    BY <1>7 DEF FollowCandidate
  <2>2. hop'[a] = hop[a] + 1 /\ hop[a] + 1 \in 1..2
    BY <1>1, <1>3, <1>7, <2>1 DEF AskTypes
  <2>3. AskTypes'
    BY <1>1, <1>2, <2>1, <2>2 DEF AskTypes
  <2>4. \A i \in 1..(hop'[a] - 1) : HasCachedRate(LegAt(a, i))'
    BY <1>3, <1>4, <1>5, <2>2
  <2>5. CallInv(a)'
    BY <1>1, <1>2, <1>3, <1>4, <1>7, <2>1, <2>2, <2>4 DEF CallInv
  <2>6. QED
    BY <1>6, <2>3, <2>5
<1>8. CASE ~ (hop[a] < Hops(a))
  <2>1. hop' = [hop EXCEPT ![a] = 1] /\ stage' = [stage EXCEPT ![a] = "read"]
    BY <1>8 DEF FollowCandidate
  <2>2. hop'[a] = 1 /\ stage'[a] = "read" /\ hop[a] = Hops(a)
    BY <1>1, <1>3, <1>8, <2>1 DEF AskTypes
  <2>3. AskTypes'
    BY <1>1, <1>2, <2>1 DEF AskTypes
  <2>4. \A i \in 1..Hops(a) : HasCachedRate(LegAt(a, i))'
    BY <1>4, <1>5, <2>2
  <2>5. Len(legs'[a]) = 0
    BY <1>1, <1>2 DEF CallInv
  <2>6. CallInv(a)'
    BY <1>1, <1>2, <1>3, <1>4, <2>2, <2>4, <2>5 DEF CallInv
  <2>7. QED
    BY <1>6, <2>3, <2>6
<1>9. QED
  BY <1>7, <1>8

LEMMA DropCandidate_Inv ==
  ASSUME AskInv, NEW a \in Askers, DropCandidate(a)
  PROVE  AskTypes' /\ CallInv(a)' /\ AnswerInv(a)'
<1>1. AskTypes /\ CallInv(a) /\ stage[a] = "route"
  BY DEF AskInv, DropCandidate
<1>2. CASE AnswerCall(a, Refused("ROUTE_UNAVAILABLE"))
  <2>1. AskTypes' /\ CallInv(a)' /\ answer'[a] = Refused("ROUTE_UNAVAILABLE")
    BY <1>1, <1>2, Answered, AnsweredCall
  <2>2. QED
    BY <2>1, NotYetAnswered DEF Refused, Codes
<1>3. CASE /\ path[a] < 3 /\ path' = [path EXCEPT ![a] = @ + 1]
           /\ hop' = [hop EXCEPT ![a] = 1] /\ UNCHANGED <<stage, call, legs, answer>>
  <2>1. path'[a] = path[a] + 1 /\ path[a] + 1 \in 1..3 /\ hop'[a] = 1
    <3>1. path[a] \in 1..3 /\ path \in [Askers -> 1..3] /\ hop \in [Askers -> 1..2]
      BY <1>1 DEF AskTypes
    <3>2. path[a] + 1 \in 1..3
      BY <1>3, <3>1
    <3>3. QED
      BY <1>3, <3>1, <3>2
  <2>2. AskTypes'
    BY <1>1, <1>3, <2>1 DEF AskTypes
  <2>3. Len(CandidatePaths(call'[a].from, call'[a].to)[path'[a]]) \in 2..3
    BY <2>1, PathLengths
  <2>4. Hops(a)' \in 1..2
    BY <2>3 DEF Hops, PathOf
  <2>5. legs'[a] = <<>> /\ Len(legs'[a]) = 0
    BY <1>1, <1>3 DEF CallInv
  <2>6. CallInv(a)'
    <3>1. /\ hop'[a] <= Hops(a)' /\ Len(legs'[a]) <= Hops(a)' /\ 1..(hop'[a] - 1) = {}
      BY <2>1, <2>4, <2>5
    <3>2. stage'[a] = "route" /\ Objection(call'[a]) = "NONE" /\ answer'[a] = NoAnswer
      BY <1>1, <1>3 DEF CallInv
    <3>3. QED
      BY <2>5, <3>1, <3>2 DEF CallInv
  <2>7. AnswerInv(a)'
    BY <1>1, <1>3, NotYetAnswered DEF CallInv, NoAnswer, Codes
  <2>8. QED
    BY <2>2, <2>6, <2>7
<1>4. QED
  BY <1>2, <1>3 DEF DropCandidate

\* A leg that is read has a rate and an age.
LEMMA LegIsTyped ==
  ASSUME CacheInv, DatedInv, NEW a \in Askers, HasCachedRate(LegOf(a))
  PROVE  [ rate |-> LegRate(a, RateRow(LegOf(a))),
           age  |-> AgeInSeconds(RateRow(LegOf(a))) ] \in Legs
<1> DEFINE pair == LegOf(a)
           row == RateRow(pair)
<1>1. pair \in Pairs /\ row = cache[pair]
  BY OwnRow DEF LegOf
<1> HIDE DEF pair, row
<1>2. row.mid \in Nat /\ row.fetched \in Nat /\ clock \in Nat /\ row.fetched <= clock
  BY <1>1 DEF CacheInv, CacheTypeOK, UnpublishedInv, CacheRows
<1>3. AgeInSeconds(row) \in Nat
  <2>1. clock - row.fetched \in Nat /\ TicksPerSecond \in Nat \ {0}
    BY <1>2, QuotingAssumption
  <2>2. QED
    BY <2>1 DEF AgeInSeconds
<1>4. SpreadScale \in Nat \ {0} /\ BuySpread[pair] \in Int /\ SellSpread[pair] \in Int
  BY <1>1, ScalesAssumption, QuotingAssumption
<1>5. SpreadScale + BuySpread[pair] \in Int /\ SpreadScale - SellSpread[pair] \in Int
  BY <1>4
<1>6. /\ row.mid * (SpreadScale + BuySpread[pair]) \in Int
      /\ row.mid * (SpreadScale - SellSpread[pair]) \in Int
  BY <1>2, <1>5
<1>7. BuyRate(row.mid, BuySpread[pair]) \in Int /\ SellRate(row.mid, SellSpread[pair]) \in Int
  BY <1>4, <1>6, RoundedIsInt DEF BuyRate, SellRate
<1>8. LegRate(a, row) \in Int
  BY <1>7 DEF LegRate, pair
<1>9. QED
  BY <1>3, <1>8 DEF Legs, row, pair

LEMMA ReadLeg_Inv ==
  ASSUME CacheInv, DatedInv, AskInv, NEW a \in Askers, ReadLeg(a), UNCHANGED cacheVars
  PROVE  AskTypes' /\ CallInv(a)' /\ AnswerInv(a)'
<1> DEFINE leg == [ rate |-> LegRate(a, RateRow(LegOf(a))),
                    age  |-> AgeInSeconds(RateRow(LegOf(a))) ]
<1>1. AskTypes /\ CallInv(a) /\ stage[a] = "read"
  BY DEF AskInv, ReadLeg
<1>2. /\ legs' = [legs EXCEPT ![a] = Append(@, leg)]
      /\ UNCHANGED <<call, path, answer, cache>>
  BY DEF ReadLeg, cacheVars
<1>3. Hops(a) \in 1..2 /\ hop[a] \in 1..2 /\ hop[a] <= Hops(a) /\ Len(legs[a]) = hop[a] - 1
  BY <1>1, HopsOfPaths DEF CallInv, AskTypes
<1>4. Hops(a)' = Hops(a) /\ \A i : HasCachedRate(LegAt(a, i))' <=> HasCachedRate(LegAt(a, i))
  BY <1>2 DEF Hops, PathOf, LegAt, HasCachedRate, HasRow, Inverse
<1>5. leg \in Legs
  <2>1. HasCachedRate(LegAt(a, hop[a]))
    BY <1>1, <1>3 DEF CallInv
  <2>2. LegAt(a, hop[a]) = LegOf(a)
    BY DEF LegAt, LegOf
  <2>3. QED
    BY <2>1, <2>2, LegIsTyped
<1> HIDE DEF leg
<1>6. legs[a] \in Seq(Legs) /\ legs' \in [Askers -> Seq(Legs)]
  BY <1>1, <1>2, <1>5 DEF AskTypes
<1>7. legs'[a] = Append(legs[a], leg)
  BY <1>1, <1>2 DEF AskTypes
<1>8. Len(legs'[a]) = hop[a]
  BY <1>3, <1>5, <1>6, <1>7
<1>9. AnswerInv(a)'
  BY <1>1, <1>2, NotYetAnswered DEF CallInv, NoAnswer, Codes
<1>10. \A i \in 1..Hops(a) : HasCachedRate(LegAt(a, i))'
  BY <1>1, <1>4 DEF CallInv
<1>11. Objection(call'[a]) = "NONE" /\ answer'[a] = NoAnswer
  BY <1>1, <1>2 DEF CallInv
<1>12. CASE hop[a] < Hops(a)
  <2>1. hop' = [hop EXCEPT ![a] = @ + 1] /\ stage' = stage
    BY <1>12 DEF ReadLeg
  <2>2. hop[a] + 1 \in 1..2
    BY <1>3, <1>12
  <2>3. hop'[a] = hop[a] + 1
    BY <1>1, <2>1 DEF AskTypes
  <2>4. AskTypes'
    BY <1>1, <1>2, <1>6, <2>1, <2>2 DEF AskTypes
  <2>5. hop'[a] <= Hops(a)' /\ Len(legs'[a]) <= Hops(a)' /\ Len(legs'[a]) = hop'[a] - 1
    BY <1>3, <1>4, <1>8, <1>12, <2>3
  <2>6. CallInv(a)'
    BY <1>1, <1>4, <1>10, <1>11, <2>1, <2>5 DEF CallInv
  <2>7. QED
    BY <1>9, <2>4, <2>6
<1>13. CASE ~ (hop[a] < Hops(a))
  <2>1. hop' = hop /\ stage' = [stage EXCEPT ![a] = "price"]
    BY <1>13 DEF ReadLeg
  <2>2. stage'[a] = "price" /\ AskTypes'
    BY <1>1, <1>2, <1>6, <2>1 DEF AskTypes
  <2>3. hop'[a] <= Hops(a)' /\ Len(legs'[a]) = Hops(a)' /\ Len(legs'[a]) <= Hops(a)'
    BY <1>3, <1>4, <1>8, <1>13, <2>1
  <2>4. CallInv(a)'
    BY <1>11, <2>2, <2>3 DEF CallInv
  <2>5. QED
    BY <1>9, <2>2, <2>4
<1>14. QED
  BY <1>12, <1>13

LEMMA LegsRead ==
  ASSUME AskTypes, NEW a \in Askers, NEW i \in DOMAIN legs[a]
  PROVE  legs[a][i] \in Legs /\ legs[a][i].rate \in Int /\ legs[a][i].age \in Nat
<1>1. legs[a] \in Seq(Legs)
  BY DEF AskTypes
<1>2. legs[a][i] \in Legs
  BY <1>1
<1>3. QED
  BY <1>2 DEF Legs

\* What the amounts of a quote are when its check passes, and why it may fail.
LEMMA CheckedAmounts ==
  ASSUME AskTypes, NEW a \in Askers, CallInv(a), stage[a] = "price",
         ~ DividesByZero(call[a], legs[a])
  PROVE  LET quote == Priced(call[a], PathOf(a), legs[a])
         IN  /\ IF call[a].side = "source"
                  THEN quote.source = QuantizeAmount(call[a].amount)
                  ELSE quote.destination = QuantizeAmount(call[a].amount)
             /\ ~ InvariantFails(quote) /\ Len(quote.path) = 2 =>
                  quote.destination = Converted(quote.source, quote.rate)
             /\ InvariantFails(quote) =>
                  call[a].side = "destination" /\ legs[a][1].rate \notin -RateScale..RateScale
<1> DEFINE c == call[a]
           route == legs[a]
           quote == Priced(c, PathOf(a), route)
           asked == QuantizeAmount(c.amount)
           rate == route[1].rate
<1>1. /\ quote.source = SourceAmount(c, route) /\ quote.destination = DestinationAmount(c, route)
      /\ quote.rate = EffectiveRate(route) /\ quote.path = PathOf(a)
  BY DEF Priced
<1>2. IF c.side = "source" THEN quote.source = asked ELSE quote.destination = asked
  <2>1. c.side \in {"source", "destination"}
    BY QuotingAssumption DEF AskTypes
  <2>2. QED
    BY <1>1, <2>1 DEF SourceAmount, DestinationAmount
<1>3. ~ InvariantFails(quote) /\ Len(quote.path) = 2 =>
        quote.destination = Converted(quote.source, quote.rate)
  BY DEF InvariantFails, DirectPairHolds
<1>4. ASSUME InvariantFails(quote)
      PROVE  c.side = "destination" /\ rate \notin -RateScale..RateScale
  <2>1. Len(PathOf(a)) = 2 /\ ~ DirectPairHolds(quote.source, quote.rate, quote.destination)
    BY <1>1, <1>4 DEF InvariantFails
  <2>2. Len(route) = 1
    BY <2>1 DEF CallInv, Hops
  <2>3. 1 \in DOMAIN route /\ rate \in Int /\ RateScale \in Nat
    <3>1. route \in Seq(Legs)
      BY DEF AskTypes
    <3>2. 1 \in DOMAIN route
      BY <2>2, <3>1
    <3>3. QED
      BY <3>2, LegsRead, ScalesAssumption
  <2>4. quote.rate = rate
    BY <1>1, <2>2 DEF EffectiveRate
  <2>5. c.side = "destination"
    <3>1. CASE c.side = "source"
      <4>1. quote.source = asked /\ quote.destination = Converted(asked, rate)
        BY <1>1, <2>2, <3>1 DEF SourceAmount, DestinationAmount
      <4>2. QED
        BY <2>1, <2>4, <4>1 DEF DirectPairHolds
    <3>2. QED
      BY <3>1, QuotingAssumption DEF AskTypes
  <2>6. quote.source = BackSolved(asked, rate) /\ quote.destination = asked
    BY <1>1, <2>2, <2>5 DEF SourceAmount, DestinationAmount
  <2>7. rate # 0
    BY <2>3, <2>5 DEF DividesByZero
  <2>8. asked \in Nat
    <3>1. c \in Calls
      BY DEF AskTypes
    <3>2. c.amount \in Nat /\ AmountScale \in Nat \ {0}
      <4>1. c.amount # NotANumber
        BY DEF CallInv, Objection
      <4>2. QED
        BY <3>1, <4>1, ScalesAssumption, QuotingAssumption
    <3>3. QED
      BY <3>2, RoundedIsNat DEF QuantizeAmount
  <2>9. ~ (rate \in -RateScale..RateScale)
    BY <2>1, <2>3, <2>4, <2>6, <2>7, <2>8, BackAndForth
  <2>10. QED
    BY <2>3, <2>5, <2>9
<1>5. QED
  BY <1>2, <1>3, <1>4

LEMMA Price_Inv ==
  ASSUME AskInv, NEW a \in Askers, Price(a)
  PROVE  AskTypes' /\ CallInv(a)' /\ AnswerInv(a)'
<1> DEFINE quote == Priced(call[a], PathOf(a), legs[a])
<1>1. AskTypes /\ CallInv(a) /\ stage[a] = "price"
  BY DEF AskInv, Price
<1>2. CASE AnswerCall(a, Refused("RATES_STALE"))
  <2>1. AskTypes' /\ CallInv(a)' /\ answer'[a] = Refused("RATES_STALE")
    BY <1>1, <1>2, Answered, AnsweredCall
  <2>2. QED
    BY <2>1, NotYetAnswered DEF Refused, Codes
<1>3. CASE /\ ~ DividesByZero(call[a], legs[a]) /\ InvariantFails(quote)
           /\ AnswerCall(a, Refused("INVALID_AMOUNT"))
  <2>1. AskTypes' /\ CallInv(a)' /\ answer'[a] = Refused("INVALID_AMOUNT")
        /\ call' = call /\ legs' = legs
    BY <1>1, <1>3, Answered, AnsweredCall
  <2>2. call[a].side = "destination" /\ legs[a][1].rate \notin -RateScale..RateScale
    BY <1>1, <1>3, CheckedAmounts
  <2>3. QED
    BY <2>1, <2>2 DEF AnswerInv, Quoted, Refused, Codes
<1>4. CASE /\ ~ AnyLegBlocked(legs[a]) /\ ~ DividesByZero(call[a], legs[a])
           /\ ~ InvariantFails(quote) /\ AnswerCall(a, quote)
  <2>1. AskTypes' /\ CallInv(a)' /\ answer'[a] = quote /\ call' = call /\ legs' = legs
    BY <1>1, <1>4, Answered, AnsweredCall
  <2>2. /\ quote.code = "CREATED"
        /\ quote.stale = \E i \in DOMAIN legs[a] : Stale(legs[a][i].age)
    BY DEF Priced
  <2>3. \A i \in DOMAIN legs[a] :
          legs[a][i].age <= StaleBlock /\ (~ quote.stale => legs[a][i].age <= StaleWarn)
    <3>1. ASSUME NEW i \in DOMAIN legs[a]
          PROVE  legs[a][i].age <= StaleBlock /\ (~ quote.stale => legs[a][i].age <= StaleWarn)
      <4>1. legs[a][i].age \in Nat
        BY <1>1, <3>1, LegsRead
      <4>2. ~ Blocked(legs[a][i].age) /\ (~ quote.stale => ~ Stale(legs[a][i].age))
        BY <1>4, <2>2, <3>1 DEF AnyLegBlocked
      <4>3. QED
        BY <4>1, <4>2, QuotingAssumption DEF Blocked, Stale
    <3>2. QED
      BY <3>1
  <2>4. /\ IF call[a].side = "source"
             THEN quote.source = QuantizeAmount(call[a].amount)
             ELSE quote.destination = QuantizeAmount(call[a].amount)
        /\ Len(quote.path) = 2 => quote.destination = Converted(quote.source, quote.rate)
    BY <1>1, <1>4, CheckedAmounts
  <2> HIDE DEF quote
  <2>5. AnswerInv(a)'
    BY <2>1, <2>2, <2>3, <2>4 DEF AnswerInv, Quoted, Codes
  <2>6. QED
    BY <2>1, <2>5
<1>5. QED
  BY <1>2, <1>3, <1>4 DEF Price

LEMMA AskStep_Inv ==
  ASSUME QuotingInv, NEW a \in Askers, AskStep(a), UNCHANGED cacheVars
  PROVE  AskInv'
<1>1. CacheInv /\ DatedInv /\ AskInv /\ AskTypes /\ \A b \in Askers : CallInv(b) /\ AnswerInv(b)
  BY DEF QuotingInv, AskInv
<1>2. AskTypes' /\ CallInv(a)' /\ AnswerInv(a)'
  <2>1. CASE QuoteFault(a)
    <3>1. AskTypes' /\ CallInv(a)' /\ answer'[a] = Refused("INTERNAL_ERROR")
      BY <1>1, <2>1, Answered, AnsweredCall DEF QuoteFault
    <3>2. QED
      BY <3>1, NotYetAnswered DEF Refused, Codes
  <2>2. QED
    BY <1>1, <2>1, CallQuote_Inv, Validate_Inv, FollowCandidate_Inv, DropCandidate_Inv,
       ReadLeg_Inv, Price_Inv DEF AskStep
<1>3. ASSUME NEW b \in Askers, b # a
      PROVE  CallInv(b)' /\ AnswerInv(b)'
  <2>1. \A pair : HasCachedRate(pair) => HasCachedRate(pair)'
    BY DEF HasCachedRate, HasRow, Inverse, cacheVars
  <2>2. /\ stage'[b] = stage[b] /\ call'[b] = call[b] /\ path'[b] = path[b]
        /\ hop'[b] = hop[b] /\ legs'[b] = legs[b] /\ answer'[b] = answer[b]
    BY <1>1, <1>3, OtherAskers
  <2>3. QED
    BY <1>1, <2>1, <2>2, SameCall, SameAnswer
<1>4. QED
  BY <1>2, <1>3 DEF AskInv

\* Nothing that refreshes and time do is seen by a call, but that there are more rates.
LEMMA UnderTheCalls ==
  ASSUME AskInv, UNCHANGED askVars, \A pair : HasCachedRate(pair) => HasCachedRate(pair)'
  PROVE  AskInv'
<1>1. AskTypes'
  BY DEF AskInv, AskTypes, askVars
<1>2. ASSUME NEW a \in Askers
      PROVE  CallInv(a)' /\ AnswerInv(a)'
  BY <1>2, SameCall, SameAnswer DEF AskInv, askVars
<1>3. QED
  BY <1>1, <1>2 DEF AskInv

LEMMA QuotingRestart_Inv ==
  ASSUME AskInv, QuotingRestart
  PROVE  AskInv'
<1>1. /\ stage' = [a \in Askers |-> "idle"]
      /\ UNCHANGED <<call, path, hop, legs, answer>>
  BY DEF QuotingRestart
<1>2. AskTypes'
  BY <1>1 DEF AskInv, AskTypes
<1>3. ASSUME NEW a \in Askers
      PROVE  CallInv(a)' /\ AnswerInv(a)'
  <2>1. Hops(a)' = Hops(a) /\ stage'[a] = "idle"
    BY <1>1 DEF Hops, PathOf
  <2>2. CallInv(a)'
    BY <1>1, <1>3, <2>1 DEF AskInv, CallInv
  <2>3. QED
    BY <1>1, <1>3, <2>2, SameAnswer DEF AskInv
<1>4. QED
  BY <1>2, <1>3 DEF AskInv

LEMMA QuotingNext_Inv ==
  ASSUME QuotingInv, [QuotingNext]_quotingVars
  PROVE  QuotingInv'
<1>1. CacheInv /\ DatedInv /\ AskInv
  BY DEF QuotingInv
<1>2. ASSUME [CacheNext]_cacheVars
      PROVE  CacheInv' /\ DatedInv' /\ \A pair : HasCachedRate(pair) => HasCachedRate(pair)'
  BY <1>1, <1>2, CacheNext_Inv, Dated_Inv, RatesStay
<1>3. CASE (\E p \in Refreshers : StartRefresh(p) \/ RefreshStep(p)) /\ UNCHANGED askVars
  BY <1>1, <1>2, <1>3, UnderTheCalls DEF QuotingInv, CacheNext
<1>4. CASE (\E a \in Askers : AskStep(a)) /\ UNCHANGED cacheVars
  BY <1>1, <1>2, <1>4, AskStep_Inv DEF QuotingInv
<1>5. CASE TimePasses
  <2>1. CacheInv' /\ cache' = cache /\ UNCHANGED askVars
    BY <1>1, <1>5, Time_Inv DEF TimePasses
  <2>2. DatedInv' /\ \A pair : HasCachedRate(pair) => HasCachedRate(pair)'
    BY <1>1, <2>1 DEF DatedInv, HasCachedRate, HasRow, Inverse
  <2>3. QED
    BY <1>1, <2>1, <2>2, UnderTheCalls DEF QuotingInv
<1>6. CASE QuotingRestart
  <2>1. CacheInv' /\ DatedInv'
    BY <1>2, <1>6 DEF QuotingRestart, CacheNext
  <2>2. QED
    BY <1>1, <1>6, <2>1, QuotingRestart_Inv DEF QuotingInv
<1>7. CASE UNCHANGED quotingVars
  BY <1>1, <1>2, <1>7, UnderTheCalls DEF QuotingInv, quotingVars
<1>8. QED
  BY <1>3, <1>4, <1>5, <1>6, <1>7 DEF QuotingNext

LEMMA QuotingInit_Inv ==
  ASSUME QuotingInit
  PROVE  QuotingInv
<1>1. CacheInv
  BY CacheInit_Inv DEF QuotingInit
<1>2. DatedInv
  BY DEF QuotingInit, CacheInit, DatedInv
<1>3. AskTypes
  <2>1. <<>> \in Seq(Legs)
    OBVIOUS
  <2>2. QED
    BY <2>1 DEF QuotingInit, AskTypes
<1>4. ASSUME NEW a \in Askers
      PROVE  CallInv(a) /\ AnswerInv(a)
  <2>1. /\ stage[a] = "idle" /\ hop[a] = 1 /\ Len(legs[a]) = 0 /\ answer[a].code = "NONE"
    BY <1>4 DEF QuotingInit, NoAnswer
  <2>2. Hops(a) \in 1..2
    BY <1>3, <1>4, HopsOfPaths
  <2>3. CallInv(a)
    BY <2>1, <2>2 DEF CallInv
  <2>4. AnswerInv(a)
    BY <2>1 DEF AnswerInv, Quoted, Codes
  <2>5. QED
    BY <2>3, <2>4
<1>5. QED
  BY <1>1, <1>2, <1>3, <1>4 DEF QuotingInv, AskInv

\* Whatever refreshes, restarts and other calls do meanwhile, a call follows a path
\* that keeps its rates, and its answer fits what it has read.
THEOREM QuotingInvariance == QuotingSpec => []QuotingInv
<1>1. QuotingInit => QuotingInv
  BY QuotingInit_Inv
<1>2. QuotingInv /\ [QuotingNext]_quotingVars => QuotingInv'
  BY QuotingNext_Inv
<1>. QED
  BY <1>1, <1>2, PTL DEF QuotingSpec

-----------------------------------------------------------------------------
(* What the invariant says of the answers *)

\* The type invariant: among others, no path beyond the third, no leg beyond the last.
THEOREM QuotingTypeCorrect == QuotingSpec => []QuotingTypeOK
<1>1. ASSUME QuotingInv
      PROVE  QuotingTypeOK
  <2>1. CacheTypeOK /\ AskTypes /\ \A a \in Askers : CallInv(a) /\ AnswerInv(a)
    BY <1>1 DEF QuotingInv, AskInv, CacheInv
  <2>2. ASSUME NEW a \in Askers
        PROVE  /\ hop[a] \in 1..2
               /\ Len(legs[a]) <= Hops(a)
               /\ \A i \in DOMAIN legs[a] : legs[a][i] \in [rate : Int, age : Nat]
               /\ answer[a].code \in Codes
    <3>1. \A i \in DOMAIN legs[a] : legs[a][i] \in [rate : Int, age : Nat]
      BY <2>1, LegsRead DEF Legs
    <3>2. QED
      BY <2>1, <3>1 DEF CallInv, AnswerInv, AskTypes
  <2>3. QED
    BY <2>1, <2>2 DEF QuotingTypeOK, AskTypes
<1>. QED
  BY <1>1, QuotingInvariance, PTL

\* No leg of a quote was too old when it was read, and none was old without the quote
\* saying so, though refreshes commit between the legs and time passes.
THEOREM FreshQuotes == QuotingSpec => []AsFreshAsDeclared
<1>1. QuotingInv => AsFreshAsDeclared
  BY DEF QuotingInv, AskInv, AnswerInv, AsFreshAsDeclared
<1>. QED
  BY <1>1, QuotingInvariance, PTL

\* The amount that was fixed is kept, and the other one is what the stored rate makes
\* of it, over a direct pair.
THEOREM FaithfulPrices == QuotingSpec => []PricedAsAsked
<1>1. QuotingInv => PricedAsAsked
  BY DEF QuotingInv, AskInv, AnswerInv, PricedAsAsked
<1>. QED
  BY <1>1, QuotingInvariance, PTL

\* Whatever the spreads, an amount to pay always passes the check of the direct pair,
\* and so does an amount to receive over a rate of at most one in size, since that one
\* can always be hit (BackAndForth).
THEOREM JustRefusals == QuotingSpec => []OnlyUnreachableAmountsAreRefused
<1>1. QuotingInv => OnlyUnreachableAmountsAreRefused
  BY DEF QuotingInv, AskInv, AnswerInv, OnlyUnreachableAmountsAreRefused
<1>. QED
  BY <1>1, QuotingInvariance, PTL

\* The youngest row tells the age of every row, so that /healthz agrees with what is
\* asked of each leg of a quote.
LEMMA AgeOfAll ==
  ASSUME CacheInv, NEW pair \in Pairs
  PROVE  CacheAge = AgeInSeconds(cache[pair]) /\ CacheAge \in Nat
<1> DEFINE ages == {AgeInSeconds(cache[other]) : other \in Pairs}
           age == AgeInSeconds(cache[pair])
<1>1. \A other \in Pairs : AgeInSeconds(cache[other]) = age
  BY DEF CacheInv, OneGeneration, AgeInSeconds
<1>2. age \in Nat
  <2>1. cache[pair].fetched \in Nat /\ clock \in Nat /\ cache[pair].fetched <= clock
    BY DEF CacheInv, CacheTypeOK, UnpublishedInv, CacheRows
  <2>2. clock - cache[pair].fetched \in Nat /\ TicksPerSecond \in Nat \ {0}
    BY <2>1, QuotingAssumption
  <2>3. QED
    BY <2>2 DEF AgeInSeconds
<1> HIDE DEF age
<1>3. ages = {age}
  BY <1>1
<1>4. age <= age
  BY <1>2
<1>5. age \in ages /\ \A other \in Pairs : age <= AgeInSeconds(cache[other])
  BY <1>1, <1>3, <1>4
<1>6. CacheAge = age
  <2>1. CacheAge \in ages
    BY <1>5 DEF CacheAge
  <2>2. QED
    BY <1>3, <2>1
<1>7. QED
  BY <1>2, <1>6 DEF age

\* /healthz calls the rates unavailable exactly when nothing can be quoted.
THEOREM HealthIsTruthful == QuotingSpec => []HealthTellsQuotability
<1>1. ASSUME QuotingInv
      PROVE  HealthTellsQuotability
  <2>1. CacheInv /\ DatedInv
    BY <1>1 DEF QuotingInv
  <2>2. <<Usd, Eur>> \in Pairs
    BY FeedsAssumption, QuotingAssumption DEF Pairs, Currencies
  <2>3. CASE \A pair \in Pairs : cache[pair] = NoRow
    BY <2>3 DEF HealthTellsQuotability, ClassifyRates
  <2>4. CASE \E pair \in Pairs : cache[pair] # NoRow
    <3>1. \A pair \in Pairs : cache[pair] # NoRow
      BY <2>1, <2>4, AllOrNoRows
    <3>2. CacheAge \in Nat /\ \A pair \in Pairs : CacheAge = AgeInSeconds(cache[pair])
      BY <2>1, <2>2, AgeOfAll
    <3>3. ClassifyRates = "unavailable" <=> CacheAge > StaleBlock
      <4>1. StaleWarn \in Nat /\ StaleBlock \in Nat /\ StaleWarn <= StaleBlock
        BY QuotingAssumption
      <4>2. ~ (CacheAge < StaleWarn /\ CacheAge > StaleBlock)
            /\ (CacheAge <= StaleBlock <=> ~ (CacheAge > StaleBlock))
        BY <3>2, <4>1
      <4>3. QED
        BY <2>4, <4>2 DEF ClassifyRates
    <3>4. QED
      BY <2>2, <3>1, <3>2, <3>3 DEF HealthTellsQuotability, Blocked
  <2>5. QED
    BY <2>3, <2>4
<1>. QED
  BY <1>1, QuotingInvariance, PTL

-----------------------------------------------------------------------------
(* A cache that is filled *)

\* What a call that has found the cache filled may count on.
RoutedDirectly(a) ==
  /\ \A pair \in Pairs : cache[pair] # NoRow
  /\ stage[a] # "idle" => path[a] = 1
  /\ answer[a].code # "ROUTE_UNAVAILABLE"
  /\ Quoted(a) => Len(answer[a].path) = 2

LEMMA QuotingRowsStay ==
  ASSUME QuotingInv, [QuotingNext]_quotingVars, \A pair \in Pairs : cache[pair] # NoRow
  PROVE  \A pair \in Pairs : cache'[pair] # NoRow
<1>1. [CacheNext]_cacheVars \/ cache' = cache
  BY DEF QuotingNext, QuotingRestart, TimePasses, CacheNext, quotingVars, cacheVars
<1>2. QED
  BY <1>1, RowsStay DEF QuotingInv

\* The direct pair of a call without objection is there.
LEMMA NeverDropped ==
  ASSUME QuotingInv, NEW a \in Askers, RoutedDirectly(a), DropCandidate(a)
  PROVE  FALSE
<1>1. AskTypes /\ CallInv(a) /\ stage[a] = "route" /\ ~ HasCachedRate(LegOf(a))
  BY DEF QuotingInv, AskInv, DropCandidate
<1>2. path[a] = 1 /\ Objection(call[a]) = "NONE" /\ hop[a] <= Hops(a) /\ hop[a] \in 1..2
  BY <1>1 DEF RoutedDirectly, CallInv, AskTypes
<1>3. hop[a] = 1
  BY <1>1, <1>2, HopsOfPaths
<1>4. PathOf(a) = <<call[a].from, call[a].to>>
  BY <1>2 DEF PathOf, CandidatePaths
<1>5. LegOf(a) = <<call[a].from, call[a].to>>
  BY <1>3, <1>4 DEF LegOf
<1>6. call[a].from \in Currencies /\ call[a].to \in Currencies /\ call[a].from # call[a].to
  BY <1>2 DEF Objection
<1>7. LegOf(a) \in Pairs
  BY <1>5, <1>6 DEF Pairs
<1>8. QED
  BY <1>1, <1>7 DEF RoutedDirectly, HasCachedRate, HasRow

LEMMA FilledStep ==
  ASSUME QuotingInv, NEW a \in Askers, RoutedDirectly(a), AskStep(a), ~ CallQuote(a),
         UNCHANGED cacheVars
  PROVE  RoutedDirectly(a)'
<1>1. AskTypes /\ path[a] = 1
  BY DEF QuotingInv, AskInv, RoutedDirectly, AskStep, Validate, FollowCandidate, DropCandidate, ReadLeg,
         Price, QuoteFault
<1>2. \A pair \in Pairs : cache'[pair] # NoRow
  BY DEF RoutedDirectly, cacheVars
<1>3. ASSUME UNCHANGED <<path, answer>>
      PROVE  RoutedDirectly(a)'
  BY <1>1, <1>2, <1>3 DEF RoutedDirectly, Quoted
<1>4. ASSUME NEW what, AnswerCall(a, what), what.code # "ROUTE_UNAVAILABLE",
             what.code = "CREATED" => Len(what.path) = 2
      PROVE  RoutedDirectly(a)'
  <2>1. stage'[a] = "idle" /\ answer'[a] = what
    BY <1>1, <1>4, Answered
  <2>2. QED
    BY <1>2, <1>4, <2>1 DEF RoutedDirectly, Quoted
<1>5. ASSUME NEW code, AnswerCall(a, Refused(code)), code \notin {"CREATED", "ROUTE_UNAVAILABLE"}
      PROVE  RoutedDirectly(a)'
  BY <1>4, <1>5 DEF Refused
<1>6. CASE Validate(a)
  <2>1. Objection(call[a]) \notin {"CREATED", "ROUTE_UNAVAILABLE"}
    BY DEF Objection
  <2>2. QED
    BY <1>3, <1>5, <1>6, <2>1 DEF Validate
<1>7. CASE FollowCandidate(a) \/ ReadLeg(a)
  BY <1>3, <1>7 DEF FollowCandidate, ReadLeg
<1>8. CASE Price(a)
  <2>1. Len(PathOf(a)) = 2
    BY <1>1 DEF PathOf, CandidatePaths
  <2>2. Priced(call[a], PathOf(a), legs[a]).path = PathOf(a)
    BY DEF Priced
  <2>3. Priced(call[a], PathOf(a), legs[a]).code = "CREATED"
    BY DEF Priced
  <2>4. QED
    BY <1>4, <1>5, <1>8, <2>1, <2>2, <2>3 DEF Price
<1>9. CASE QuoteFault(a)
  BY <1>5, <1>9 DEF QuoteFault
<1>10. QED
  BY <1>6, <1>7, <1>8, <1>9, NeverDropped DEF AskStep

LEMMA FilledStays ==
  ASSUME QuotingInv, NEW a \in Askers, RoutedDirectly(a), [QuotingNext]_quotingVars, ~ CallQuote(a)
  PROVE  RoutedDirectly(a)'
<1>1. AskTypes /\ \A pair \in Pairs : cache'[pair] # NoRow
  BY QuotingRowsStay DEF RoutedDirectly, QuotingInv, AskInv
<1>2. ASSUME path'[a] = path[a], answer'[a] = answer[a], stage'[a] = stage[a] \/ stage'[a] = "idle"
      PROVE  RoutedDirectly(a)'
  BY <1>1, <1>2 DEF RoutedDirectly, Quoted
<1>3. ASSUME NEW b \in Askers, AskStep(b), UNCHANGED cacheVars
      PROVE  RoutedDirectly(a)'
  <2>1. CASE b = a
    BY <1>3, <2>1, FilledStep
  <2>2. CASE b # a
    BY <1>1, <1>2, <1>3, <2>2, OtherAskers
  <2>3. QED
    BY <2>1, <2>2
<1>4. CASE UNCHANGED askVars
  BY <1>2, <1>4 DEF askVars
<1>5. CASE QuotingRestart
  BY <1>2, <1>5 DEF QuotingRestart
<1>6. QED
  BY <1>3, <1>4, <1>5 DEF QuotingNext, TimePasses, quotingVars

\* The direct paths of the calls that found the cache filled.
FilledInv ==
  /\ filled \in [Askers -> BOOLEAN]
  /\ \A a \in Askers : filled[a] => RoutedDirectly(a)

LEMMA FilledNext_Inv ==
  ASSUME QuotingInv, FilledInv, [MCNext]_<<quotingVars, filled>>
  PROVE  FilledInv'
<1>1. [QuotingNext]_quotingVars
  BY DEF MCNext
<1>2. filled' \in [Askers -> BOOLEAN]
  BY DEF FilledInv, MCNext
<1>3. ASSUME NEW a \in Askers, filled'[a]
      PROVE  RoutedDirectly(a)'
  <2>1. CASE CallQuote(a)
    <3>1. AskTypes /\ stage[a] = "idle"
      BY <2>1 DEF QuotingInv, AskInv, CallQuote
    <3>2. /\ stage'[a] = "validate" /\ path'[a] = 1 /\ answer'[a] = NoAnswer
      BY <2>1, <3>1 DEF CallQuote, AskTypes
    <3>3. filled'[a] = \A pair \in Pairs : cache[pair] # NoRow
      BY <1>3, <3>1, <3>2 DEF MCNext, quotingVars, askVars
    <3>4. \A pair \in Pairs : cache'[pair] # NoRow
      BY <1>1, <1>3, <3>3, QuotingRowsStay
    <3>5. QED
      BY <3>2, <3>4 DEF RoutedDirectly, Quoted, NoAnswer
  <2>2. CASE ~ CallQuote(a)
    <3>1. ~ (stage[a] = "idle" /\ stage'[a] = "validate")
      <4>1. AskTypes
        BY DEF QuotingInv, AskInv
      <4>2. ASSUME NEW b \in Askers, AskStep(b), b # a, stage[a] = "idle"
            PROVE  stage'[a] = "idle"
        BY <4>1, <4>2, OtherAskers
      <4>3. ASSUME AskStep(a), stage[a] = "idle"
            PROVE  FALSE
        BY <2>2, <4>3 DEF AskStep, Validate, FollowCandidate, DropCandidate, ReadLeg, Price,
           QuoteFault
      <4>4. CASE UNCHANGED askVars
        BY <4>4 DEF askVars
      <4>5. CASE QuotingRestart
        BY <4>5 DEF QuotingRestart
      <4>6. QED
        BY <1>1, <4>2, <4>3, <4>4, <4>5 DEF QuotingNext, TimePasses, quotingVars
    <3>2. filled'[a] = filled[a]
      BY <3>1 DEF MCNext
    <3>3. QED
      BY <1>1, <1>3, <2>2, <3>2, FilledStays DEF FilledInv
  <2>3. QED
    BY <2>1, <2>2
<1>4. QED
  BY <1>2, <1>3 DEF FilledInv

\* A call that comes when the cache has been filled is routed directly, and never
\* told that there is no route.
THEOREM DirectOnceFilled == MCSpec => []FilledCacheIsDirect
<1>1. MCInit => QuotingInv
  BY QuotingInit_Inv DEF MCInit
<1>2. MCInit => FilledInv
  BY DEF MCInit, FilledInv
<1>3. QuotingInv /\ [MCNext]_<<quotingVars, filled>> => QuotingInv'
  BY QuotingNext_Inv DEF MCNext
<1>4. QuotingInv /\ FilledInv /\ [MCNext]_<<quotingVars, filled>> => FilledInv'
  BY FilledNext_Inv
<1>5. FilledInv => FilledCacheIsDirect
  BY DEF FilledInv, RoutedDirectly, FilledCacheIsDirect
<1>. QED
  BY <1>1, <1>2, <1>3, <1>4, <1>5, PTL DEF MCSpec

=============================================================================
