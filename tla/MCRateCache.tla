---------------------------- MODULE MCRateCache ----------------------------
(***************************************************************************)
(* Small instances of RateReport and the RateCache under it: USD and one   *)
(* other currency, two providers, the background loop and one manual       *)
(* refresh, and two prices.                                                *)
(***************************************************************************)
EXTENDS RateReport, TLC

CONSTANTS kes

TheFeeds == {kes :> 20, kes :> 25, kes :> 0}

VARIABLES
  published,  \* what was fetched at each instant
  overlapped  \* some refresh has written over rows that changed since it read them

MCInit ==
  /\ CacheInit
  /\ ReportInit
  /\ published = [t \in 1..MaxTime |-> [pair \in Pairs |-> 0]]
  /\ overlapped = FALSE

Fetched(p) == at[p] = "fetch" /\ at'[p] = "load"

MCNext ==
  /\ ReportNext
  /\ published' =
       [t \in 1..MaxTime |->
          IF \E p \in Refreshers : Fetched(p) /\ stamp'[p] = t
            THEN pairRates'[CHOOSE p \in Refreshers : Fetched(p) /\ stamp'[p] = t]
            ELSE published[t]]
  /\ overlapped' =
       (overlapped \/ \E p \in Refreshers :
          outcome'[p] = "REFRESHED" /\ at[p] = "store" /\ loaded[p] # cache)

MCSpec == MCInit /\ [][MCNext]_<<reportVars, published, overlapped>>

MCFairSpec == MCSpec /\ RefreshersKeepRunning

\* As long as no two refreshes overlap, the cache holds what one provider answered
\* at the time the rows name: only overlapping refreshes mix their rates.
GenuineUnlessOverlapped ==
  overlapped \/ \A pair \in Pairs :
    cache[pair] # NoRow => cache[pair].mid = published[cache[pair].fetched][pair]
=============================================================================
