-------------------------- MODULE RateCache_proofs --------------------------
(***************************************************************************)
(* However many threads refresh the cache, and however their steps fall,   *)
(* all its rows are of one refresh.  The argument: a refresh writes every  *)
(* row, and its time differs from whatever it has read, because no two     *)
(* fetches share a time and a row bears a time only after its fetch; so    *)
(* the column fetched_at is never the one that an UPDATE leaves out.       *)
(*                                                                         *)
(* Before it, what the rounding of rates and amounts does, for every       *)
(* amount, rate and scale.                                                 *)
(***************************************************************************)
EXTENDS RateCache, TLAPS

-----------------------------------------------------------------------------
(* Rounding *)

\* Of what is not negative, rounding is to the nearest integer, and up from half-way.
LEMMA Nearest ==
  ASSUME NEW n \in Nat, NEW d \in Nat \ {0}
  PROVE  /\ RoundHalfUp(n, d) \in Nat
         /\ 2 * (RoundHalfUp(n, d) * d) <= 2 * n + d
         /\ 2 * n + d < 2 * (RoundHalfUp(n, d) * d) + 2 * d
<1> DEFINE s == RoundHalfUp(n, d)
           a == 2 * n + d
           b == 2 * d
<1>1. a \in Nat /\ b \in Nat /\ b > 0
  OBVIOUS
<1>2. s = a \div b
  <2>1. ~ (n < 0) /\ ~ (d < 0)
    OBVIOUS
  <2>. QED
    BY <2>1 DEF RoundHalfUp, Magnitude
<1> HIDE DEF s, a, b
<1>3. /\ a \div b \in Nat
      /\ b * (a \div b) <= a
      /\ a < b * (a \div b) + b
  BY <1>1, SMT
<1>4. b * s = 2 * (s * d)
  <2>1. s \in Nat
    BY <1>2, <1>3
  <2>. QED
    BY <2>1 DEF b
<1>. QED
  BY <1>2, <1>3, <1>4 DEF s, a, b

\* And it is the only such integer.
LEMMA NearestIsUnique ==
  ASSUME NEW n \in Nat, NEW d \in Nat \ {0}, NEW m \in Nat,
         2 * (m * d) <= 2 * n + d,
         2 * n + d < 2 * (m * d) + 2 * d
  PROVE  RoundHalfUp(n, d) = m
<1> DEFINE s == RoundHalfUp(n, d)
<1>1. /\ s \in Nat
      /\ 2 * (s * d) <= 2 * n + d
      /\ 2 * n + d < 2 * (s * d) + 2 * d
  BY Nearest
<1> HIDE DEF s
<1>2. s * d < m * d + d /\ m * d < s * d + d
  <2>1. s * d \in Nat /\ m * d \in Nat
    BY <1>1
  <2>. QED
    BY <1>1, <2>1
<1>3. ~ (s >= m + 1)
  <2> SUFFICES ASSUME s >= m + 1
               PROVE  FALSE
    OBVIOUS
  <2>1. s * d >= (m + 1) * d
    BY <1>1
  <2>2. (m + 1) * d = m * d + d
    OBVIOUS
  <2>. QED
    BY <1>1, <1>2, <2>1, <2>2
<1>4. ~ (m >= s + 1)
  <2> SUFFICES ASSUME m >= s + 1
               PROVE  FALSE
    OBVIOUS
  <2>1. m * d >= (s + 1) * d
    BY <1>1
  <2>2. (s + 1) * d = s * d + d
    BY <1>1
  <2>. QED
    BY <1>1, <1>2, <2>1, <2>2
<1>. QED
  BY <1>1, <1>3, <1>4 DEF s

\* What is rounded is an integer, whatever the signs.
LEMMA RoundedIsInt ==
  ASSUME NEW n \in Int, NEW d \in Int \ {0}
  PROVE  RoundHalfUp(n, d) \in Int
<1> DEFINE a == 2 * Magnitude(n) + Magnitude(d)
           b == 2 * Magnitude(d)
<1>1. Magnitude(n) \in Nat /\ Magnitude(d) \in Nat \ {0}
  BY DEF Magnitude
<1>2. a \in Int /\ b \in Int /\ b > 0
  BY <1>1
<1> HIDE DEF a, b
<1>3. a \div b \in Int
  BY <1>2
<1>4. RoundHalfUp(n, d) = a \div b \/ RoundHalfUp(n, d) = -(a \div b)
  BY DEF RoundHalfUp, a, b
<1>. QED
  BY <1>3, <1>4

\* The sign of the divisor is that of the rounded quotient: half-way goes away from
\* zero on both sides of it.
LEMMA SignOfDivisor ==
  ASSUME NEW n \in Int, NEW d \in Nat \ {0}
  PROVE  RoundHalfUp(n, -d) = -RoundHalfUp(n, d)
<1> DEFINE a == (2 * Magnitude(n) + Magnitude(d)) \div (2 * Magnitude(d))
<1>1. Magnitude(-d) = Magnitude(d) /\ -d < 0 /\ ~ (d < 0)
  BY DEF Magnitude
<1>2. RoundHalfUp(n, d) = (IF n < 0 THEN -a ELSE a)
  BY <1>1 DEF RoundHalfUp
<1>3. RoundHalfUp(n, -d) = (IF n < 0 THEN a ELSE -a)
  BY <1>1 DEF RoundHalfUp
<1>4. a \in Int
  <2>1. Magnitude(n) \in Nat /\ Magnitude(d) \in Nat \ {0}
    BY DEF Magnitude
  <2>. QED
    BY <2>1
<1> HIDE DEF a
<1>. QED
  BY <1>2, <1>3, <1>4

\* Over a rate between zero and one, both included but zero, an amount to receive
\* survives the way back to the amount to pay, and forth again.
LEMMA BackAndForthOverPositive ==
  ASSUME NEW destination \in Nat, NEW rate \in Nat \ {0}, rate <= RateScale
  PROVE  /\ BackSolved(destination, rate) \in Nat
         /\ DirectPairHolds(BackSolved(destination, rate), rate, destination)
<1> DEFINE source == BackSolved(destination, rate)
           there == source * rate
           wanted == destination * RateScale
<1>1. RateScale \in Nat \ {0} /\ wanted \in Nat
  BY ScalesAssumption
<1>2. source = RoundHalfUp(wanted, rate)
  BY DEF BackSolved
<1>3. /\ source \in Nat
      /\ 2 * there <= 2 * wanted + rate
      /\ 2 * wanted + rate < 2 * there + 2 * rate
  BY <1>1, <1>2, Nearest
<1>4. there \in Nat
  BY <1>3
<1>5. rate = RateScale => there = wanted
  <2> SUFFICES ASSUME rate = RateScale
               PROVE  there = wanted
    OBVIOUS
  <2>1. source = destination
    <3>1. /\ 2 * (destination * rate) <= 2 * wanted + rate
          /\ 2 * wanted + rate < 2 * (destination * rate) + 2 * rate
      BY <1>1
    <3>. QED
      BY <1>1, <1>2, <3>1, NearestIsUnique
  <2>. QED
    BY <2>1
<1> HIDE DEF source, there, wanted
<1>6. /\ 2 * wanted <= 2 * there + RateScale
      /\ 2 * there + RateScale < 2 * wanted + 2 * RateScale
  <2>1. CASE rate = RateScale
    BY <1>1, <1>4, <1>5, <2>1
  <2>2. CASE rate < RateScale
    BY <1>1, <1>3, <1>4, <2>2
  <2>. QED
    BY <1>1, <2>1, <2>2
<1>7. RoundHalfUp(there, RateScale) = destination
  BY <1>1, <1>4, <1>6, NearestIsUnique DEF wanted
<1>. QED
  BY <1>3, <1>7 DEF DirectPairHolds, Converted, there, source

\* An amount to receive survives the way back to the amount to pay, and forth again, if
\* the rate is at most one in size: such a quote always passes the check of
\* _verify_direct_pair_invariant.  Spreads beyond 100 % make the rate negative, and
\* then both roundings turn their sign.
THEOREM BackAndForth ==
  ASSUME NEW destination \in Nat, NEW rate \in (-RateScale..RateScale) \ {0}
  PROVE  DirectPairHolds(BackSolved(destination, rate), rate, destination)
<1>1. RateScale \in Nat \ {0} /\ rate \in Int
  BY ScalesAssumption
<1>2. CASE rate > 0
  BY <1>1, <1>2, BackAndForthOverPositive
<1>3. CASE rate < 0
  <2> DEFINE opposite == -rate
             source == BackSolved(destination, opposite)
  <2>1. opposite \in Nat \ {0} /\ opposite <= RateScale /\ rate = -opposite
    BY <1>1, <1>3
  <2> HIDE DEF opposite
  <2>2. /\ source \in Nat
        /\ RoundHalfUp(source * opposite, RateScale) = destination
    BY <2>1, BackAndForthOverPositive DEF DirectPairHolds, Converted
  <2>3. BackSolved(destination, rate) = -source
    <3>1. destination * RateScale \in Int
      BY <1>1
    <3>2. RoundHalfUp(destination * RateScale, -opposite)
            = -RoundHalfUp(destination * RateScale, opposite)
      BY <2>1, <3>1, SignOfDivisor
    <3>. QED
      BY <2>1, <3>2 DEF BackSolved
  <2> HIDE DEF source
  <2>4. (-source) * rate = source * opposite
    BY <2>1, <2>2
  <2>. QED
    BY <2>2, <2>3, <2>4 DEF DirectPairHolds, Converted
<1>. QED
  BY <1>1, <1>2, <1>3

-----------------------------------------------------------------------------
(* The invariant of the cache *)

Refreshing(p) == at[p] \in {"load", "store"}

\* Times are given out once, by the clock...
StampInv ==
  /\ \A p \in Refreshers : Refreshing(p) => stamp[p] \in 1..clock
  /\ \A p, q \in Refreshers :
       Refreshing(p) /\ Refreshing(q) /\ stamp[p] = stamp[q] => p = q

\* A time that no refresh will be given any more: it is over, or never comes.
Past(row) == row.fetched <= clock \/ row.fetched > MaxTime

\* ...and a refresh that is not over has shown its own to nobody.
UnpublishedInv ==
  /\ \A pair \in Pairs : cache[pair].fetched <= clock
  /\ \A p \in Refreshers, pair \in Pairs :
       /\ Past(loaded[p][pair])
       /\ Refreshing(p) =>
            cache[pair].fetched # stamp[p] /\ loaded[p][pair].fetched # stamp[p]

CacheInv == CacheTypeOK /\ StampInv /\ UnpublishedInv /\ OneGeneration

-----------------------------------------------------------------------------
LEMMA RoundedIsNat ==
  ASSUME NEW n \in Nat, NEW d \in Nat \ {0}
  PROVE  RoundHalfUp(n, d) \in Nat
BY Nearest

\* The rates built from a usable answer are numbers.
LEMMA BuiltRates ==
  ASSUME NEW feed \in Feeds, Usable(feed)
  PROVE  BuildPairRates(feed) \in [Pairs -> Nat]
<1> SUFFICES ASSUME NEW pair \in Pairs
             PROVE  (IF pair[1] = Usd THEN feed[pair[2]]
                     ELSE IF pair[2] = Usd THEN Inverted(feed[pair[1]])
                     ELSE Crossed(feed[pair[1]], feed[pair[2]])) \in Nat
  BY DEF BuildPairRates
<1>1. feed \in [NonUsd -> Nat] /\ \A c \in NonUsd : feed[c] \in Nat \ {0}
  BY FeedsAssumption DEF Usable
<1>2. /\ pair[1] \in Currencies /\ pair[2] \in Currencies
      /\ pair[1] # pair[2]
  BY DEF Pairs
<1>3. \A c \in Currencies : c # Usd => feed[c] \in Nat \ {0}
  BY <1>1 DEF Currencies
<1>4. RateScale \in Nat \ {0}
  BY ScalesAssumption
<1>5. CASE pair[1] = Usd
  BY <1>2, <1>3, <1>5
<1>6. CASE pair[1] # Usd /\ pair[2] = Usd
  <2>1. feed[pair[1]] \in Nat \ {0}
    BY <1>2, <1>3, <1>6
  <2>2. RateScale * RateScale \in Nat
    BY <1>4
  <2>3. Inverted(feed[pair[1]]) \in Nat
    BY <2>1, <2>2, RoundedIsNat DEF Inverted
  <2>. QED
    BY <1>6, <2>3
<1>7. CASE pair[1] # Usd /\ pair[2] # Usd
  <2>1. feed[pair[1]] \in Nat \ {0} /\ feed[pair[2]] \in Nat \ {0}
    BY <1>2, <1>3, <1>7
  <2>2. feed[pair[2]] * RateScale \in Nat
    BY <1>4, <2>1
  <2>3. Crossed(feed[pair[1]], feed[pair[2]]) \in Nat
    BY <2>1, <2>2, RoundedIsNat DEF Crossed
  <2>. QED
    BY <1>7, <2>3
<1>. QED
  BY <1>5, <1>6, <1>7

\* What a refresh writes bears its own time, in every row.
LEMMA StoredTimes ==
  ASSUME CacheInv, NEW p \in Refreshers, at[p] = "store", NEW pair \in Pairs
  PROVE  StoredRow(p, pair) \in CacheRows /\ StoredRow(p, pair).fetched = stamp[p]
<1>1. /\ loaded[p][pair] \in CacheRows /\ cache[pair] \in CacheRows
      /\ pairRates[p][pair] \in Nat /\ stamp[p] \in Nat
  BY DEF CacheInv, CacheTypeOK
<1>2. loaded[p][pair].fetched # stamp[p]
  BY DEF CacheInv, UnpublishedInv, Refreshing
<1>. QED
  BY <1>1, <1>2 DEF StoredRow, CacheRows, NoRow

LEMMA CacheInit_Inv ==
  ASSUME CacheInit
  PROVE  CacheInv
BY FeedsAssumption
DEF CacheInit, CacheInv, CacheTypeOK, StampInv, UnpublishedInv, OneGeneration,
    Refreshing, Past, NoRow, Unread, CacheRows

-----------------------------------------------------------------------------
(* Each step keeps the invariant *)

\* A refresh that starts over, asks on or gives up holds no time.
LEMMA AskingOn ==
  ASSUME CacheInv, NEW p \in Refreshers,
         at' \in [Refreshers -> {"idle", "fetch", "load", "store"}],
         \A q \in Refreshers : q # p => at'[q] = at[q],
         at'[p] \in {"idle", "fetch"},
         clock' \in 0..MaxTime, clock' >= clock,
         cache' = cache,
         \A q \in Refreshers : q # p => stamp'[q] = stamp[q] /\ loaded'[q] = loaded[q],
         loaded' \in [Refreshers -> [Pairs -> CacheRows]],
         \A pair \in Pairs : Past(loaded'[p][pair])
  PROVE  (StampInv /\ UnpublishedInv /\ OneGeneration)'
<1>1. /\ clock \in Nat /\ clock' \in Nat
      /\ cache \in [Pairs -> CacheRows]
  BY FeedsAssumption DEF CacheInv, CacheTypeOK
<1>2. \A q \in Refreshers :
        /\ Refreshing(q)' => q # p
        /\ q # p => (Refreshing(q)' <=> Refreshing(q))
  BY DEF Refreshing
<1>3. StampInv'
  BY <1>1, <1>2 DEF CacheInv, StampInv
<1>4. UnpublishedInv'
  <2>1. \A pair \in Pairs : cache'[pair].fetched <= clock'
    BY <1>1 DEF CacheInv, UnpublishedInv, CacheRows
  <2>2. ASSUME NEW q \in Refreshers, NEW pair \in Pairs
        PROVE  /\ Past(loaded[q][pair])'
               /\ Refreshing(q)' =>
                    cache'[pair].fetched # stamp'[q] /\ loaded'[q][pair].fetched # stamp'[q]
    <3>1. Refreshing(q)' =>
            cache'[pair].fetched # stamp'[q] /\ loaded'[q][pair].fetched # stamp'[q]
      BY <1>2 DEF CacheInv, UnpublishedInv
    <3>2. Past(loaded'[q][pair])
      BY DEF CacheInv, UnpublishedInv
    <3>3. loaded'[q][pair].fetched \in Nat
      BY DEF CacheRows
    <3>. QED
      BY <1>1, <3>1, <3>2, <3>3, FeedsAssumption DEF Past
  <2>. QED
    BY <2>1, <2>2 DEF UnpublishedInv, Refreshing, Past
<1>5. OneGeneration'
  BY DEF CacheInv, OneGeneration
<1>. QED
  BY <1>3, <1>4, <1>5

\* What an answer leaves behind: nothing of it, and of the session what has no time
\* or was read.
LEMMA Forgotten ==
  ASSUME CacheTypeOK, NEW p \in Refreshers, DropAnswer(p), KeepSession(p) \/ CloseSession(p)
  PROVE  /\ pairRates' \in [Refreshers -> [Pairs -> Nat]]
         /\ stamp' \in [Refreshers -> 0..MaxTime]
         /\ loaded' \in [Refreshers -> [Pairs -> CacheRows]]
         /\ \A q \in Refreshers : q # p => stamp'[q] = stamp[q] /\ loaded'[q] = loaded[q]
         /\ \A pair \in Pairs : loaded'[p][pair] \in {loaded[p][pair], Leftover, Unread}
<1>1. /\ Leftover \in CacheRows /\ Unread \in CacheRows
      /\ loaded \in [Refreshers -> [Pairs -> CacheRows]]
  BY FeedsAssumption DEF Leftover, Unread, CacheRows, CacheTypeOK
<1>2. /\ pairRates' \in [Refreshers -> [Pairs -> Nat]]
      /\ stamp' \in [Refreshers -> 0..MaxTime]
      /\ \A q \in Refreshers : q # p => stamp'[q] = stamp[q]
  BY FeedsAssumption DEF DropAnswer, CacheTypeOK
<1>3. \E rows \in [Pairs -> CacheRows] :
        /\ loaded' = [loaded EXCEPT ![p] = rows]
        /\ \A pair \in Pairs : rows[pair] \in {loaded[p][pair], Leftover, Unread}
  <2>1. CASE KeepSession(p)
    <3> DEFINE rows == [pair \in Pairs |->
                          IF loaded[p][pair] = NoRow THEN Leftover ELSE loaded[p][pair]]
    <3>1. rows \in [Pairs -> CacheRows]
      BY <1>1
    <3>2. loaded' = [loaded EXCEPT ![p] = rows]
      BY <2>1 DEF KeepSession
    <3>3. \A pair \in Pairs : rows[pair] \in {loaded[p][pair], Leftover, Unread}
      OBVIOUS
    <3> HIDE DEF rows
    <3>. QED
      BY <3>1, <3>2, <3>3
  <2>2. CASE CloseSession(p)
    <3> DEFINE rows == [pair \in Pairs |-> Unread]
    <3>1. rows \in [Pairs -> CacheRows]
      BY <1>1
    <3>2. loaded' = [loaded EXCEPT ![p] = rows]
      BY <2>2 DEF CloseSession
    <3>3. \A pair \in Pairs : rows[pair] \in {loaded[p][pair], Leftover, Unread}
      OBVIOUS
    <3> HIDE DEF rows
    <3>. QED
      BY <3>1, <3>2, <3>3
  <2>. QED
    BY <2>1, <2>2
<1>. QED
  BY <1>1, <1>2, <1>3

\* And so none of it has a time that is still to come.
LEMMA LeftBehind ==
  ASSUME CacheInv, NEW p \in Refreshers, NEW pair \in Pairs,
         NEW left \in {loaded[p][pair], Leftover, Unread}
  PROVE  Past(left)
<1>1. Past(loaded[p][pair])
  BY DEF CacheInv, UnpublishedInv
<1>2. Past(Leftover) /\ Past(Unread)
  BY FeedsAssumption DEF Past, Leftover, Unread
<1>. QED
  BY <1>1, <1>2

LEMMA NextProviderAsked ==
  ASSUME CacheTypeOK, NEW p \in Refreshers, NextProvider(p)
  PROVE  /\ at' \in [Refreshers -> {"idle", "fetch", "load", "store"}]
         /\ \A q \in Refreshers : q # p => at'[q] = at[q]
         /\ at'[p] \in {"idle", "fetch"}
         /\ provider' \in [Refreshers -> 1..Providers]
         /\ outcome' \in [Refreshers -> {"NONE", "REFRESHED", "FAILED"}]
         /\ DropAnswer(p) /\ (KeepSession(p) \/ CloseSession(p))
<1>1. Providers \in Nat /\ provider[p] \in 1..Providers
  BY FeedsAssumption DEF CacheTypeOK
<1>2. DropAnswer(p) /\ (KeepSession(p) \/ CloseSession(p))
  BY DEF NextProvider
<1>3. CASE provider[p] < Providers
  <2>1. /\ provider' = [provider EXCEPT ![p] = @ + 1]
        /\ at' = [at EXCEPT ![p] = "fetch"]
        /\ outcome' = outcome
    BY <1>3 DEF NextProvider
  <2>2. provider[p] + 1 \in 1..Providers
    BY <1>1, <1>3
  <2>. QED
    BY <1>2, <2>1, <2>2 DEF CacheTypeOK
<1>4. CASE ~ (provider[p] < Providers)
  <2>1. /\ at' = [at EXCEPT ![p] = "idle"]
        /\ outcome' = [outcome EXCEPT ![p] = "FAILED"]
        /\ provider' = provider
    BY <1>4 DEF NextProvider
  <2>. QED
    BY <1>2, <2>1 DEF CacheTypeOK
<1>. QED
  BY <1>3, <1>4

LEMMA StartRefresh_Inv ==
  ASSUME CacheInv, NEW p \in Refreshers, StartRefresh(p)
  PROVE  CacheInv'
<1>1. CacheTypeOK'
  BY FeedsAssumption DEF CacheInv, CacheTypeOK, StartRefresh
<1>2. /\ at' \in [Refreshers -> {"idle", "fetch", "load", "store"}]
      /\ \A q \in Refreshers : q # p => at'[q] = at[q]
      /\ at'[p] \in {"idle", "fetch"}
      /\ clock' \in 0..MaxTime /\ clock' >= clock
  BY FeedsAssumption DEF CacheInv, CacheTypeOK, StartRefresh
<1>3. /\ loaded' \in [Refreshers -> [Pairs -> CacheRows]]
      /\ \A pair \in Pairs : Past(loaded'[p][pair])
  BY DEF CacheInv, CacheTypeOK, UnpublishedInv, StartRefresh
<1>4. (StampInv /\ UnpublishedInv /\ OneGeneration)'
  BY <1>2, <1>3, AskingOn DEF StartRefresh
<1>. QED
  BY <1>1, <1>4 DEF CacheInv

LEMMA GivingUp_Inv ==
  ASSUME CacheInv, NEW p \in Refreshers, NextProvider(p), cache' = cache,
         clock' \in 0..MaxTime, clock' >= clock,
         broken' \in [Refreshers -> BOOLEAN]
  PROVE  CacheInv'
<1>1. CacheTypeOK
  BY DEF CacheInv
<1>2. CacheTypeOK'
  BY <1>1, NextProviderAsked, Forgotten DEF CacheTypeOK
<1>3. \A pair \in Pairs : Past(loaded'[p][pair])
  BY <1>1, NextProviderAsked, Forgotten, LeftBehind
<1>4. (StampInv /\ UnpublishedInv /\ OneGeneration)'
  BY <1>1, <1>3, NextProviderAsked, Forgotten, AskingOn
<1>. QED
  BY <1>2, <1>4 DEF CacheInv

LEMMA Fetch_Inv ==
  ASSUME CacheInv, NEW p \in Refreshers, Fetch(p)
  PROVE  CacheInv'
<1>1. PICK feed \in Feeds :
        /\ Usable(feed)
        /\ IF broken[p]
             THEN NextProvider(p)
             ELSE /\ pairRates' = [pairRates EXCEPT ![p] = BuildPairRates(feed)]
                  /\ stamp' = [stamp EXCEPT ![p] = clock + 1]
                  /\ at' = [at EXCEPT ![p] = "load"]
                  /\ UNCHANGED <<provider, loaded, outcome>>
  BY DEF Fetch
<1>2. /\ clock \in 0..MaxTime /\ MaxTime \in Nat /\ clock < MaxTime
      /\ clock' = clock + 1 /\ cache' = cache /\ broken' = broken
      /\ at[p] = "fetch"
  BY FeedsAssumption DEF Fetch, CacheInv, CacheTypeOK
<1>3. CASE broken[p]
  <2>1. /\ NextProvider(p)
        /\ clock' \in 0..MaxTime /\ clock' >= clock
        /\ broken' \in [Refreshers -> BOOLEAN]
    BY <1>1, <1>2, <1>3 DEF CacheInv, CacheTypeOK
  <2>. QED
    BY <1>2, <2>1, GivingUp_Inv
<1>4. CASE ~ broken[p]
  <2>1. /\ pairRates' = [pairRates EXCEPT ![p] = BuildPairRates(feed)]
        /\ stamp' = [stamp EXCEPT ![p] = clock + 1]
        /\ at' = [at EXCEPT ![p] = "load"]
        /\ UNCHANGED <<provider, loaded, outcome>>
    BY <1>1, <1>4
  <2>2. BuildPairRates(feed) \in [Pairs -> Nat]
    BY <1>1, BuiltRates
  <2>3. CacheTypeOK'
    BY <1>2, <2>1, <2>2 DEF CacheInv, CacheTypeOK
  <2>4. \A q \in Refreshers :
          /\ Refreshing(q)' <=> (q = p \/ Refreshing(q))
          /\ q # p => stamp'[q] = stamp[q]
    BY <2>1 DEF Refreshing, CacheInv, CacheTypeOK
  <2>5. stamp'[p] = clock + 1
    BY <2>1 DEF CacheInv, CacheTypeOK
  <2>6. StampInv'
    BY <1>2, <2>4, <2>5 DEF CacheInv, StampInv
  <2>7. /\ \A pair \in Pairs : cache[pair].fetched \in Nat
        /\ \A pair \in Pairs : loaded[p][pair].fetched # clock + 1
    <3>1. \A pair \in Pairs : Past(loaded[p][pair])
      BY DEF CacheInv, UnpublishedInv
    <3>2. \A pair \in Pairs : loaded[p][pair] \in CacheRows /\ cache[pair] \in CacheRows
      BY DEF CacheInv, CacheTypeOK
    <3>. QED
      BY <1>2, <3>1, <3>2 DEF Past, CacheRows
  <2>8. UnpublishedInv'
    <3>1. ASSUME NEW q \in Refreshers, NEW pair \in Pairs
          PROVE  /\ Past(loaded[q][pair])'
                 /\ Refreshing(q)' =>
                      cache'[pair].fetched # stamp'[q] /\ loaded'[q][pair].fetched # stamp'[q]
      <4>1. Past(loaded[q][pair])'
        <5>1. Past(loaded[q][pair]) /\ loaded[q][pair].fetched \in Nat
          BY DEF CacheInv, CacheTypeOK, UnpublishedInv, CacheRows
        <5>. QED
          BY <1>2, <2>1, <5>1 DEF Past
      <4>2. CASE q = p
        <5>1. cache[pair].fetched # clock + 1
          BY <1>2, <2>7 DEF CacheInv, UnpublishedInv
        <5>. QED
          BY <1>2, <2>1, <2>5, <2>7, <4>1, <4>2, <5>1
      <4>3. CASE q # p
        BY <1>2, <2>1, <2>4, <4>1, <4>3 DEF CacheInv, UnpublishedInv
      <4>. QED
        BY <4>2, <4>3
    <3>2. \A pair \in Pairs : cache'[pair].fetched <= clock'
      BY <1>2, <2>7 DEF CacheInv, UnpublishedInv
    <3>. QED
      BY <3>1, <3>2 DEF UnpublishedInv, Refreshing, Past
  <2>9. OneGeneration'
    BY <1>2 DEF CacheInv, OneGeneration
  <2>. QED
    BY <2>3, <2>6, <2>8, <2>9 DEF CacheInv
<1>. QED
  BY <1>3, <1>4

LEMMA LoadPair_Inv ==
  ASSUME CacheInv, NEW p \in Refreshers, LoadPair(p)
  PROVE  CacheInv'
<1> DEFINE pair == CHOOSE q \in Missing(p) : TRUE
<1>1. /\ at[p] = "load"
      /\ loaded' = [loaded EXCEPT ![p][pair] = cache[pair]]
      /\ at' = [at EXCEPT ![p] = IF Missing(p) = {pair} THEN "store" ELSE "load"]
      /\ UNCHANGED <<cache, clock, provider, broken, pairRates, stamp, outcome>>
  BY DEF LoadPair
<1> HIDE DEF pair
<1>2. /\ loaded \in [Refreshers -> [Pairs -> CacheRows]]
      /\ cache \in [Pairs -> CacheRows]
  BY DEF CacheInv, CacheTypeOK
<1>3. \A q \in Refreshers, other \in Pairs :
        loaded'[q][other] = IF q = p /\ other = pair THEN cache[other] ELSE loaded[q][other]
  BY <1>1, <1>2
<1>4. loaded' \in [Refreshers -> [Pairs -> CacheRows]]
  BY <1>1, <1>2
<1>5. \A q \in Refreshers : Refreshing(q)' <=> Refreshing(q)
  BY <1>1 DEF Refreshing, CacheInv, CacheTypeOK
<1>6. Refreshing(p)
  BY <1>1 DEF Refreshing
<1>7. CacheTypeOK'
  BY <1>1, <1>4 DEF CacheInv, CacheTypeOK
<1>8. StampInv'
  BY <1>1, <1>5 DEF CacheInv, StampInv
<1>9. UnpublishedInv'
  <2>1. ASSUME NEW q \in Refreshers, NEW other \in Pairs
        PROVE  /\ Past(loaded[q][other])'
               /\ Refreshing(q)' =>
                    cache'[other].fetched # stamp'[q] /\ loaded'[q][other].fetched # stamp'[q]
    BY <1>1, <1>3, <1>5, <1>6 DEF CacheInv, UnpublishedInv, Past
  <2>2. \A other \in Pairs : cache'[other].fetched <= clock'
    BY <1>1 DEF CacheInv, UnpublishedInv
  <2>. QED
    BY <2>1, <2>2 DEF UnpublishedInv, Refreshing, Past
<1>10. OneGeneration'
  BY <1>1 DEF CacheInv, OneGeneration
<1>. QED
  BY <1>7, <1>8, <1>9, <1>10 DEF CacheInv

\* The step that matters: every row gets the time of this refresh.
LEMMA Store_Inv ==
  ASSUME CacheInv, NEW p \in Refreshers, Store(p)
  PROVE  CacheInv'
<1>1. /\ at[p] = "store"
      /\ cache' = [pair \in Pairs |-> StoredRow(p, pair)]
      /\ at' = [at EXCEPT ![p] = "idle"]
      /\ outcome' = [outcome EXCEPT ![p] = "REFRESHED"]
      /\ DropAnswer(p) /\ CloseSession(p)
      /\ UNCHANGED <<clock, provider, broken>>
  BY DEF Store
<1>2. /\ cache' \in [Pairs -> CacheRows]
      /\ \A pair \in Pairs : cache'[pair].fetched = stamp[p]
  BY <1>1, StoredTimes
<1>3. CacheTypeOK
  BY DEF CacheInv
<1>4. CacheTypeOK'
  BY <1>1, <1>2, <1>3, Forgotten DEF CacheTypeOK
<1>5. Refreshing(p) /\ stamp[p] \in 1..clock
  BY <1>1 DEF Refreshing, CacheInv, StampInv
<1>6. \A q \in Refreshers :
        /\ Refreshing(q)' <=> q # p /\ Refreshing(q)
        /\ q # p => stamp'[q] = stamp[q] /\ loaded'[q] = loaded[q]
  BY <1>1, <1>3, Forgotten DEF Refreshing, CacheTypeOK
<1>7. StampInv'
  BY <1>1, <1>6 DEF CacheInv, StampInv
<1>8. UnpublishedInv'
  <2>1. ASSUME NEW q \in Refreshers, NEW pair \in Pairs
        PROVE  /\ Past(loaded[q][pair])'
               /\ Refreshing(q)' =>
                    cache'[pair].fetched # stamp'[q] /\ loaded'[q][pair].fetched # stamp'[q]
    <3>1. CASE q = p
      <4>1. Past(loaded'[p][pair])
        BY <1>1, <1>3, Forgotten, LeftBehind
      <4>. QED
        BY <1>1, <1>6, <3>1, <4>1 DEF Past
    <3>2. CASE q # p
      BY <1>1, <1>2, <1>5, <1>6, <3>2 DEF CacheInv, UnpublishedInv, StampInv, Past
    <3>. QED
      BY <3>1, <3>2
  <2>2. \A pair \in Pairs : cache'[pair].fetched <= clock'
    BY <1>1, <1>2, <1>5
  <2>. QED
    BY <2>1, <2>2 DEF UnpublishedInv, Refreshing, Past
<1>9. OneGeneration'
  BY <1>2 DEF OneGeneration
<1>. QED
  BY <1>4, <1>7, <1>8, <1>9 DEF CacheInv

LEMMA Restart_Inv ==
  ASSUME CacheInv, Restart
  PROVE  CacheInv'
<1>1. CacheTypeOK'
  BY FeedsAssumption DEF CacheInv, CacheTypeOK, Restart, Unread, CacheRows
<1>2. \A p \in Refreshers : at'[p] = "idle" /\ \A pair \in Pairs : loaded'[p][pair] = Unread
  BY DEF Restart
<1>3. cache' = cache /\ clock' = clock
  BY DEF Restart
<1>4. \A p \in Refreshers : ~ Refreshing(p)'
  BY <1>2 DEF Refreshing
<1>5. StampInv'
  BY <1>4 DEF StampInv
<1>6. UnpublishedInv'
  <2>1. Unread.fetched > MaxTime
    BY FeedsAssumption DEF Unread
  <2>. QED
    BY <1>2, <1>3, <1>4, <2>1 DEF CacheInv, UnpublishedInv, Refreshing, Past
<1>7. OneGeneration'
  BY <1>3 DEF CacheInv, OneGeneration
<1>. QED
  BY <1>1, <1>5, <1>6, <1>7 DEF CacheInv

LEMMA CacheNext_Inv ==
  ASSUME CacheInv, [CacheNext]_cacheVars
  PROVE  CacheInv'
<1>1. ASSUME NEW p \in Refreshers, FetchFails(p) \/ LoadFails(p) \/ StoreFails(p)
      PROVE  CacheInv'
  <2>1. /\ NextProvider(p)
        /\ cache' = cache /\ clock' = clock
        /\ broken' \in [Refreshers -> BOOLEAN]
    BY <1>1 DEF FetchFails, LoadFails, StoreFails, CacheInv, CacheTypeOK
  <2>2. clock' \in 0..MaxTime /\ clock' >= clock
    BY <2>1, FeedsAssumption DEF CacheInv, CacheTypeOK
  <2>. QED
    BY <2>1, <2>2, GivingUp_Inv
<1>2. CASE UNCHANGED cacheVars
  BY <1>2 DEF cacheVars, refreshVars, CacheInv, CacheTypeOK, StampInv, UnpublishedInv,
              OneGeneration, Refreshing, Past
<1>3. CASE CacheNext
  BY <1>1, <1>3, StartRefresh_Inv, Fetch_Inv, LoadPair_Inv, Store_Inv, Restart_Inv
  DEF CacheNext, RefreshStep
<1>. QED
  BY <1>2, <1>3

-----------------------------------------------------------------------------
\* The invariant holds throughout.
THEOREM CacheInvariance == CacheSpec => []CacheInv
<1>1. CacheInit => CacheInv
  BY CacheInit_Inv
<1>2. CacheInv /\ [CacheNext]_cacheVars => CacheInv'
  BY CacheNext_Inv
<1>. QED
  BY <1>1, <1>2, PTL DEF CacheSpec

\* The cache and the refreshes keep to their types, for any number of currencies,
\* providers and threads.
THEOREM CacheTypeCorrect == CacheSpec => []CacheTypeOK
<1>1. CacheInv => CacheTypeOK
  BY DEF CacheInv
<1>. QED
  BY <1>1, CacheInvariance, PTL

\* All rows have the age of one refresh, so that the age of the youngest, which is
\* what get_rates_age_seconds reports, is the age of each.
THEOREM OneAge == CacheSpec => []OneGeneration
<1>1. CacheInv => OneGeneration
  BY DEF CacheInv
<1>. QED
  BY <1>1, CacheInvariance, PTL
=============================================================================
