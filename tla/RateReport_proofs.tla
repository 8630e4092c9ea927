-------------------------- MODULE RateReport_proofs --------------------------
(***************************************************************************)
(* Proofs about RateReport and MCRateCache: the rates of one answer of GET *)
(* /rates are of one refresh, and the cache is what one provider answered  *)
(* unless refreshes have overlapped.  Both rest on the invariant of the    *)
(* cache that RateCache_proofs establishes.                                *)
(***************************************************************************)
EXTENDS MCRateCache, RateCache_proofs

allVars == <<reportVars, published, overlapped>>

-----------------------------------------------------------------------------
(* The invariant of the reports *)

\* What a report has listed is of one age, and what it has priced is what it has
\* listed; once nothing is left to price, the whole answer is.
ReportInv ==
  /\ view \in [Viewers -> {"idle", "list", "age", "price"}]
  /\ listed \in [Viewers -> [Pairs -> CacheRows]]
  /\ priced \in [Viewers -> [Pairs -> CacheRows]]
  /\ \A v \in Viewers, a, b \in Pairs : listed[v][a].fetched = listed[v][b].fetched
  /\ \A v \in Viewers : view[v] \in {"list", "age"} =>
       \A pair \in Pairs : priced[v][pair] = NoRow
  /\ \A v \in Viewers : view[v] = "price" =>
       \A pair \in Pairs : priced[v][pair] \in {NoRow, listed[v][pair]}
  /\ ReportIsOneGeneration

(* The invariant of the history *)

\* What a refresh has built is published under its time; without overlaps, so is what
\* it stores, and therefore what the cache holds.
PublishedInv ==
  /\ published \in [1..MaxTime -> [Pairs -> Nat]]
  /\ \A p \in Refreshers : Refreshing(p) => published[stamp[p]] = pairRates[p]
  /\ \A pair \in Pairs : cache[pair] = NoRow \/ cache[pair].fetched \in 1..clock
  /\ GenuineUnlessOverlapped
-----------------------------------------------------------------------------
(* Steps of the cache *)

CacheMoves == \E p \in Refreshers : StartRefresh(p) \/ RefreshStep(p)

LEMMA ReportsAreCacheSteps ==
  ASSUME ReportNext
  PROVE  [CacheNext]_cacheVars
BY DEF ReportNext, CacheNext

\* A refresh that was not under way is not after a step that brings no answer, and the
\* others keep what they have built.
Keeping ==
  \A q \in Refreshers : Refreshing(q)' =>
    Refreshing(q) /\ stamp'[q] = stamp[q] /\ pairRates'[q] = pairRates[q]

\* An answer has come to p.
Arrived(p) ==
  /\ at[p] = "fetch" /\ at'[p] = "load"
  /\ clock < MaxTime
  /\ stamp'[p] = clock + 1
  /\ cache' = cache /\ clock' = clock + 1
  /\ \A q \in Refreshers : q # p =>
       at'[q] = at[q] /\ stamp'[q] = stamp[q] /\ pairRates'[q] = pairRates[q]

LEMMA ForgottenRates ==
  ASSUME CacheTypeOK, NEW p \in Refreshers, DropAnswer(p), NEW q \in Refreshers, q # p
  PROVE  stamp'[q] = stamp[q] /\ pairRates'[q] = pairRates[q]
BY DEF DropAnswer, CacheTypeOK

LEMMA AskedOn ==
  ASSUME CacheTypeOK, NEW p \in Refreshers, NextProvider(p)
  PROVE  /\ Keeping
         /\ \A q \in Refreshers : ~ Fetched(q)
<1>1. /\ \A q \in Refreshers : q # p => at'[q] = at[q]
      /\ at'[p] \in {"idle", "fetch"} /\ DropAnswer(p)
  BY NextProviderAsked
<1>2. QED
  BY <1>1, ForgottenRates DEF Keeping, Refreshing, Fetched

LEMMA CacheKinds ==
  ASSUME CacheInv, NEW p \in Refreshers, StartRefresh(p) \/ RefreshStep(p)
  PROVE  \/ /\ cache' = cache /\ clock' \in {clock, clock + 1} /\ Keeping
            /\ \A q \in Refreshers : ~ Fetched(q)
         \/ Arrived(p)
         \/ Store(p) /\ Keeping /\ \A q \in Refreshers : ~ Fetched(q)
<1>1. CacheTypeOK
  BY DEF CacheInv
<1>2. CASE StartRefresh(p)
  BY <1>1, <1>2 DEF StartRefresh, CacheTypeOK, Keeping, Refreshing, Fetched
<1>3. CASE FetchFails(p) \/ LoadFails(p) \/ StoreFails(p)
  BY <1>1, <1>3, AskedOn DEF FetchFails, LoadFails, StoreFails
<1>4. CASE Fetch(p)
  <2>1. CASE broken[p]
    BY <1>1, <1>4, <2>1, AskedOn DEF Fetch
  <2>2. CASE ~ broken[p]
    <3>1. /\ at[p] = "fetch" /\ clock < MaxTime /\ clock' = clock + 1 /\ cache' = cache
      BY <1>4 DEF Fetch
    <3>2. /\ at' = [at EXCEPT ![p] = "load"] /\ stamp' = [stamp EXCEPT ![p] = clock + 1]
          /\ \E feed \in Feeds : pairRates' = [pairRates EXCEPT ![p] = BuildPairRates(feed)]
      BY <1>4, <2>2 DEF Fetch
    <3>3. Arrived(p)
      BY <1>1, <3>1, <3>2 DEF Arrived, CacheTypeOK
    <3>4. QED
      BY <3>3
  <2>3. QED
    BY <2>1, <2>2
<1>5. CASE LoadPair(p)
  <2>1. /\ at[p] = "load" /\ at'[p] \in {"load", "store"}
        /\ \A q \in Refreshers : q # p => at'[q] = at[q]
        /\ UNCHANGED <<cache, clock, pairRates, stamp>>
    BY <1>1, <1>5 DEF LoadPair, CacheTypeOK
  <2>2. QED
    BY <2>1 DEF Keeping, Refreshing, Fetched
<1>6. CASE Store(p)
  <2>1. /\ at[p] = "store" /\ at'[p] = "idle" /\ DropAnswer(p)
        /\ \A q \in Refreshers : q # p => at'[q] = at[q]
    BY <1>1, <1>6 DEF Store, CacheTypeOK
  <2>2. QED
    BY <1>1, <1>6, <2>1, ForgottenRates DEF Keeping, Refreshing, Fetched
<1>7. QED
  BY <1>2, <1>3, <1>4, <1>5, <1>6 DEF RefreshStep

-----------------------------------------------------------------------------
(* Each step keeps the invariant of the reports *)

LEMMA View_Inv ==
  ASSUME CacheInv, ReportInv, ViewNext, UNCHANGED cacheVars
  PROVE  ReportInv'
<1>1. PICK v \in Viewers :
        CallRates(v) \/ ListRows(v) \/ ReadNewest(v) \/ PriceRow(v) \/ AnswerRates(v)
  BY DEF ViewNext
<1>2. /\ view \in [Viewers -> {"idle", "list", "age", "price"}]
      /\ listed \in [Viewers -> [Pairs -> CacheRows]]
      /\ priced \in [Viewers -> [Pairs -> CacheRows]]
  BY DEF ReportInv
<1>3. NoRows \in [Pairs -> CacheRows] /\ \A pair \in Pairs : NoRows[pair] = NoRow
  BY DEF NoRows, NoRow, CacheRows
<1>4. CASE CallRates(v)
  <2>1. /\ view' = [view EXCEPT ![v] = "list"] /\ priced' = [priced EXCEPT ![v] = NoRows]
        /\ listed' = listed
    BY <1>4 DEF CallRates, Look
  <2>2. QED
    BY <1>2, <1>3, <2>1 DEF ReportInv, ReportIsOneGeneration
<1>5. CASE ListRows(v)
  <2>1. /\ view[v] = "list" /\ view' = [view EXCEPT ![v] = "age"]
        /\ listed' = [listed EXCEPT ![v] = cache] /\ priced' = priced
    BY <1>5 DEF ListRows, Look
  <2>2. cache \in [Pairs -> CacheRows] /\ \A a, b \in Pairs : cache[a].fetched = cache[b].fetched
    BY DEF CacheInv, CacheTypeOK, OneGeneration
  <2>3. QED
    BY <1>2, <2>1, <2>2 DEF ReportInv, ReportIsOneGeneration
<1>6. CASE ReadNewest(v)
  <2>1. /\ view[v] = "age" /\ view' = [view EXCEPT ![v] = "price"]
        /\ listed' = listed /\ priced' = priced
    BY <1>6 DEF ReadNewest, Look
  <2>2. QED
    BY <1>2, <2>1 DEF ReportInv, ReportIsOneGeneration
<1>7. CASE PriceRow(v)
  <2> DEFINE pair == CHOOSE q \in Unpriced(v) : TRUE
  <2>1. /\ view[v] = "price" /\ pair \in Unpriced(v) /\ view' = view /\ listed' = listed
        /\ priced' = [priced EXCEPT ![v][pair] = listed[v][pair]]
    BY <1>7 DEF PriceRow, Selected
  <2>2. pair \in Pairs
    BY <2>1 DEF Unpriced
  <2> HIDE DEF pair
  <2>3. /\ priced' \in [Viewers -> [Pairs -> CacheRows]]
        /\ \A u \in Viewers, a \in Pairs :
             priced'[u][a] = IF u = v /\ a = pair THEN listed[u][a] ELSE priced[u][a]
    BY <1>2, <2>1, <2>2
  <2>4. QED
    BY <1>2, <2>1, <2>3 DEF ReportInv, ReportIsOneGeneration
<1>8. CASE AnswerRates(v)
  <2>1. /\ view[v] = "price" /\ Unpriced(v) = {} /\ view' = [view EXCEPT ![v] = "idle"]
        /\ listed' = [listed EXCEPT ![v] = NoRows] /\ priced' = priced
    BY <1>8 DEF AnswerRates, Look
  <2>2. \A pair \in Pairs : priced[v][pair] = listed[v][pair]
    BY <2>1 DEF Unpriced, ReportInv
  <2>3. \A a, b \in Pairs : priced[v][a].fetched = priced[v][b].fetched
    BY <2>2 DEF ReportInv
  <2>4. QED
    BY <1>2, <1>3, <2>1, <2>3 DEF ReportInv, ReportIsOneGeneration
<1>9. QED
  BY <1>1, <1>4, <1>5, <1>6, <1>7, <1>8

LEMMA Report_Inv ==
  ASSUME CacheInv, ReportInv, ReportNext \/ UNCHANGED reportVars
  PROVE  ReportInv'
<1>1. CASE UNCHANGED viewVars
  BY <1>1 DEF viewVars, ReportInv, ReportIsOneGeneration
<1>2. CASE ViewNext /\ UNCHANGED cacheVars
  BY <1>2, View_Inv
<1>3. CASE ViewsDie
  <2>1. /\ view' = [v \in Viewers |-> "idle"] /\ listed' = [v \in Viewers |-> NoRows]
        /\ priced' = [v \in Viewers |-> NoRows]
    BY <1>3 DEF ViewsDie
  <2>2. NoRows \in [Pairs -> CacheRows] /\ \A pair \in Pairs : NoRows[pair] = NoRow
    BY DEF NoRows, NoRow, CacheRows
  <2>3. QED
    BY <2>1, <2>2 DEF ReportInv, ReportIsOneGeneration
<1>4. QED
  BY <1>1, <1>2, <1>3 DEF ReportNext, reportVars

-----------------------------------------------------------------------------
(* Each step keeps the invariant of the history *)

Publish ==
  published' =
    [t \in 1..MaxTime |->
       IF \E p \in Refreshers : Fetched(p) /\ stamp'[p] = t
         THEN pairRates'[CHOOSE p \in Refreshers : Fetched(p) /\ stamp'[p] = t]
         ELSE published[t]]

NoteOverlap ==
  overlapped' =
    (overlapped \/ \E p \in Refreshers :
       outcome'[p] = "REFRESHED" /\ at[p] = "store" /\ loaded[p] # cache)

\* What is published stays, as long as no answer comes.
LEMMA NothingNew ==
  ASSUME PublishedInv, Publish, \A q \in Refreshers : ~ Fetched(q)
  PROVE  published' = published
BY DEF PublishedInv, Publish

LEMMA NewlyPublished ==
  ASSUME CacheTypeOK, CacheTypeOK', PublishedInv, Publish, NEW p \in Refreshers, Arrived(p)
  PROVE  /\ clock + 1 \in 1..MaxTime
         /\ published' = [published EXCEPT ![clock + 1] = pairRates'[p]]
         /\ published' \in [1..MaxTime -> [Pairs -> Nat]]
<1>1. clock + 1 \in 1..MaxTime
  BY FeedsAssumption DEF CacheTypeOK, Arrived
<1>2. \A q \in Refreshers : Fetched(q) <=> q = p
  BY DEF Arrived, Fetched
<1>3. stamp'[p] = clock + 1
  BY DEF Arrived
<1>4. (CHOOSE q \in Refreshers : Fetched(q) /\ stamp'[q] = clock + 1) = p
  BY <1>2, <1>3
<1>5. published \in [1..MaxTime -> [Pairs -> Nat]]
  BY DEF PublishedInv
<1>6. \A t \in 1..MaxTime :
        (IF \E q \in Refreshers : Fetched(q) /\ stamp'[q] = t
           THEN pairRates'[CHOOSE q \in Refreshers : Fetched(q) /\ stamp'[q] = t]
           ELSE published[t])
        = IF t = clock + 1 THEN pairRates'[p] ELSE published[t]
  BY <1>2, <1>3, <1>4
<1>7. published' = [t \in 1..MaxTime |-> IF t = clock + 1 THEN pairRates'[p] ELSE published[t]]
  BY <1>6 DEF Publish
<1>8. pairRates'[p] \in [Pairs -> Nat]
  BY DEF CacheTypeOK
<1>9. QED
  BY <1>1, <1>5, <1>7, <1>8

\* What is stored without an overlap is what was built.
LEMMA StoredAsBuilt ==
  ASSUME CacheInv, NEW p \in Refreshers, at[p] = "store", loaded[p] = cache,
         NEW pair \in Pairs
  PROVE  StoredRow(p, pair) = [mid |-> pairRates[p][pair], fetched |-> stamp[p]]
<1>1. cache[pair] \in CacheRows
  BY DEF CacheInv, CacheTypeOK
<1>2. loaded[p][pair].fetched # stamp[p]
  BY DEF CacheInv, UnpublishedInv, Refreshing
<1>3. QED
  BY <1>1, <1>2 DEF StoredRow, CacheRows

LEMMA Published_Inv ==
  ASSUME CacheInv, CacheInv', PublishedInv, Publish, NoteOverlap,
         NEW p \in Refreshers, StartRefresh(p) \/ RefreshStep(p)
  PROVE  PublishedInv'
<1>1. /\ CacheTypeOK /\ CacheTypeOK' /\ clock \in 0..MaxTime /\ MaxTime \in Nat
      /\ published \in [1..MaxTime -> [Pairs -> Nat]]
  BY FeedsAssumption DEF CacheInv, CacheTypeOK, PublishedInv
<1>2. overlapped => overlapped'
  BY DEF NoteOverlap
<1>3. ASSUME cache' = cache, clock' \in {clock, clock + 1}, Keeping,
             \A q \in Refreshers : ~ Fetched(q)
      PROVE  PublishedInv'
  <2>1. published' = published
    BY <1>3, NothingNew
  <2>2. \A q \in Refreshers : Refreshing(q)' => published'[stamp'[q]] = pairRates'[q]
    BY <1>3, <2>1 DEF PublishedInv, Keeping
  <2>3. \A pair \in Pairs : cache'[pair] = NoRow \/ cache'[pair].fetched \in 1..clock'
    BY <1>1, <1>3 DEF PublishedInv
  <2>4. GenuineUnlessOverlapped'
    BY <1>2, <1>3, <2>1 DEF PublishedInv, GenuineUnlessOverlapped
  <2>5. QED
    BY <1>1, <2>1, <2>2, <2>3, <2>4 DEF PublishedInv, Refreshing
<1>4. CASE Arrived(p)
  <2>1. /\ clock + 1 \in 1..MaxTime
        /\ published' = [published EXCEPT ![clock + 1] = pairRates'[p]]
        /\ published' \in [1..MaxTime -> [Pairs -> Nat]]
    BY <1>1, <1>4, NewlyPublished
  <2>2. \A t \in 1..clock : published'[t] = published[t]
    BY <1>1, <2>1
  <2>3. \A q \in Refreshers : Refreshing(q)' => published'[stamp'[q]] = pairRates'[q]
    <3>1. published'[stamp'[p]] = pairRates'[p]
      BY <1>1, <1>4, <2>1 DEF Arrived
    <3>2. ASSUME NEW q \in Refreshers, q # p, Refreshing(q)'
          PROVE  published'[stamp'[q]] = pairRates'[q]
      <4>1. Refreshing(q) /\ stamp'[q] = stamp[q] /\ pairRates'[q] = pairRates[q]
        BY <1>4, <3>2 DEF Arrived, Refreshing
      <4>2. stamp[q] \in 1..clock
        BY <4>1 DEF CacheInv, StampInv
      <4>3. QED
        BY <2>2, <4>1, <4>2 DEF PublishedInv
    <3>3. QED
      BY <3>1, <3>2
  <2>4. \A pair \in Pairs : cache'[pair] = NoRow \/ cache'[pair].fetched \in 1..clock'
    BY <1>1, <1>4 DEF Arrived, PublishedInv
  <2>5. GenuineUnlessOverlapped'
    BY <1>2, <1>4, <2>2 DEF Arrived, PublishedInv, GenuineUnlessOverlapped
  <2>6. QED
    BY <2>1, <2>3, <2>4, <2>5 DEF PublishedInv, Refreshing
<1>5. ASSUME Store(p), Keeping, \A q \in Refreshers : ~ Fetched(q)
      PROVE  PublishedInv'
  <2>1. published' = published
    BY <1>5, NothingNew
  <2>2. \A q \in Refreshers : Refreshing(q)' => published'[stamp'[q]] = pairRates'[q]
    BY <1>5, <2>1 DEF PublishedInv, Keeping
  <2>3. /\ at[p] = "store" /\ cache' = [pair \in Pairs |-> StoredRow(p, pair)]
        /\ clock' = clock /\ outcome'[p] = "REFRESHED"
    BY <1>1, <1>5 DEF Store, CacheTypeOK
  <2>4. Refreshing(p) /\ stamp[p] \in 1..clock
    BY <2>3 DEF Refreshing, CacheInv, StampInv
  <2>5. \A pair \in Pairs : cache'[pair].fetched \in 1..clock'
    BY <2>3, <2>4, StoredTimes
  <2>6. GenuineUnlessOverlapped'
    <3>1. CASE overlapped'
      BY <3>1 DEF GenuineUnlessOverlapped
    <3>2. CASE ~ overlapped'
      <4>1. loaded[p] = cache
        BY <2>3, <3>2 DEF NoteOverlap
      <4>2. \A pair \in Pairs :
              cache'[pair] = [mid |-> pairRates[p][pair], fetched |-> stamp[p]]
        BY <2>3, <4>1, StoredAsBuilt
      <4>3. published'[stamp[p]] = pairRates[p]
        BY <2>1, <2>4 DEF PublishedInv
      <4>4. \A pair \in Pairs :
              cache'[pair].mid = pairRates[p][pair] /\ cache'[pair].fetched = stamp[p]
        <5> SUFFICES ASSUME NEW pair \in Pairs
                     PROVE  /\ cache'[pair].mid = pairRates[p][pair]
                            /\ cache'[pair].fetched = stamp[p]
          OBVIOUS
        <5>1. cache'[pair] = [mid |-> pairRates[p][pair], fetched |-> stamp[p]]
          BY <4>2
        <5>2. QED
          BY <5>1
      <4>5. \A pair \in Pairs : cache'[pair].mid = published'[cache'[pair].fetched][pair]
        BY <4>3, <4>4
      <4>6. QED
        BY <4>5 DEF GenuineUnlessOverlapped
    <3>3. QED
      BY <3>1, <3>2
  <2>7. QED
    BY <1>1, <2>1, <2>2, <2>5, <2>6 DEF PublishedInv, Refreshing
<1>6. QED
  BY <1>3, <1>4, <1>5, CacheKinds

-----------------------------------------------------------------------------
(* The theorems *)

LEMMA MCInit_Inv ==
  ASSUME MCInit
  PROVE  CacheInv /\ ReportInv /\ PublishedInv
<1>1. CacheInv
  BY CacheInit_Inv DEF MCInit
<1>2. ReportInv
  <2>1. NoRows \in [Pairs -> CacheRows] /\ \A pair \in Pairs : NoRows[pair] = NoRow
    BY DEF NoRows, NoRow, CacheRows
  <2>2. QED
    BY <2>1 DEF MCInit, ReportInit, ReportInv, ReportIsOneGeneration
<1>3. PublishedInv
  BY DEF MCInit, CacheInit, PublishedInv, Refreshing, GenuineUnlessOverlapped
<1>4. QED
  BY <1>1, <1>2, <1>3

LEMMA MCNext_Inv ==
  ASSUME CacheInv, ReportInv, PublishedInv, [MCNext]_allVars
  PROVE  CacheInv' /\ ReportInv' /\ PublishedInv'
<1>1. CacheInv'
  BY CacheNext_Inv, ReportsAreCacheSteps DEF MCNext, allVars, reportVars
<1>2. ReportInv'
  BY Report_Inv DEF MCNext, allVars
<1>3. PublishedInv'
  <2>1. CASE UNCHANGED allVars
    BY <2>1 DEF allVars, reportVars, cacheVars, refreshVars, PublishedInv, Refreshing,
       GenuineUnlessOverlapped
  <2>2. CASE MCNext /\ CacheMoves
    <3>1. Publish /\ NoteOverlap
      BY <2>2 DEF MCNext, Publish, NoteOverlap
    <3>2. QED
      BY <1>1, <2>2, <3>1, Published_Inv DEF CacheMoves
  <2>3. CASE MCNext /\ (UNCHANGED cacheVars \/ Restart)
    <3>1. /\ Publish /\ NoteOverlap /\ cache' = cache /\ clock' = clock
          /\ \A q \in Refreshers : ~ Fetched(q)
      BY <2>3 DEF MCNext, Publish, NoteOverlap, cacheVars, refreshVars, Restart, Fetched
    <3>2. published' = published
      BY <3>1, NothingNew
    <3>3. \A q \in Refreshers : Refreshing(q)' => published'[stamp'[q]] = pairRates'[q]
      BY <2>3, <3>2 DEF cacheVars, refreshVars, Restart, PublishedInv, Refreshing
    <3>4. GenuineUnlessOverlapped'
      BY <3>1, <3>2 DEF PublishedInv, GenuineUnlessOverlapped, NoteOverlap
    <3>5. QED
      BY <3>1, <3>2, <3>3, <3>4 DEF PublishedInv, Refreshing
  <2>4. QED
    BY <2>1, <2>2, <2>3 DEF MCNext, ReportNext, CacheMoves
<1>4. QED
  BY <1>1, <1>2, <1>3

\* The three invariants hold throughout.
THEOREM ReportInvariance == MCSpec => [](CacheInv /\ ReportInv /\ PublishedInv)
BY MCInit_Inv, MCNext_Inv, PTL DEF MCSpec, allVars

\* The one time that GET /rates gives is that of every rate in its answer, whatever
\* refreshes commit while it prices the pairs one by one.
THEOREM OneReportOneAge == MCSpec => []ReportIsOneGeneration
<1>1. ReportInv => ReportIsOneGeneration
  BY DEF ReportInv
<1>2. QED
  BY <1>1, ReportInvariance, PTL

\* Only refreshes that overlap make the cache hold what no provider has answered.
THEOREM GenuineRates == MCSpec => []GenuineUnlessOverlapped
<1>1. PublishedInv => GenuineUnlessOverlapped
  BY DEF PublishedInv
<1>2. QED
  BY <1>1, ReportInvariance, PTL

=============================================================================
