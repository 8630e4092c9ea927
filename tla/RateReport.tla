----------------------------- MODULE RateReport -----------------------------
(***************************************************************************)
(* GET /api/v1/rates (list_rates_endpoint) beside the refreshes: it lists  *)
(* the rows, asks for the age of the youngest, and then prices the pairs   *)
(* one by one with get_rate, which selects every row again.                *)
(*                                                                         *)
(* The session still holds the rows it has listed, and of a row it holds   *)
(* the ORM keeps the attributes it has loaded, whatever a later SELECT     *)
(* brings.                                                                 *)
(***************************************************************************)
EXTENDS RateCache

CONSTANT Viewers  \* the threads that serve these calls

VARIABLES
  view,    \* where each thread is
  listed,  \* the rows of its first SELECT
  newest,  \* the latest fetched_at in the table, of its second
  priced   \* the rows of its answer, as far as it has come

viewVars == <<view, listed, newest, priced>>

reportVars == <<cacheVars, viewVars>>

NoRows == [pair \in Pairs |-> NoRow]

ReportInit ==
  /\ view = [v \in Viewers |-> "idle"]
  /\ listed = [v \in Viewers |-> NoRows]
  /\ newest = [v \in Viewers |-> 0]
  /\ priced = [v \in Viewers |-> NoRows]

Look(v, next) == view' = [view EXCEPT ![v] = next]

CallRates(v) ==
  /\ view[v] = "idle"
  /\ Look(v, "list")
  /\ priced' = [priced EXCEPT ![v] = NoRows]
  /\ newest' = [newest EXCEPT ![v] = 0]
  /\ UNCHANGED listed

ListRows(v) ==
  /\ view[v] = "list"
  /\ listed' = [listed EXCEPT ![v] = cache]
  /\ Look(v, "age")
  /\ UNCHANGED <<newest, priced>>

\* get_rates_age_seconds
ReadNewest(v) ==
  /\ view[v] = "age"
  /\ newest' = [newest EXCEPT ![v] =
       CHOOSE t \in {cache[pair].fetched : pair \in Pairs} :
         \A pair \in Pairs : cache[pair].fetched <= t]
  /\ Look(v, "price")
  /\ UNCHANGED <<listed, priced>>

\* A slip: the session has let go of its rows.
SelectedAgain(v, pair) == cache[pair]

\* The row that get_rate is given.
Selected(v, pair) == listed[v][pair]

Unpriced(v) == {pair \in Pairs : listed[v][pair] # NoRow /\ priced[v][pair] = NoRow}

PriceRow(v) ==
  LET pair == CHOOSE q \in Unpriced(v) : TRUE
  IN  /\ view[v] = "price"
      /\ Unpriced(v) # {}
      /\ priced' = [priced EXCEPT ![v][pair] = Selected(v, pair)]
      /\ UNCHANGED <<view, listed, newest>>

AnswerRates(v) ==
  /\ view[v] = "price"
  /\ Unpriced(v) = {}
  /\ Look(v, "idle")
  /\ listed' = [listed EXCEPT ![v] = NoRows]
  /\ UNCHANGED <<newest, priced>>

ViewNext ==
  \E v \in Viewers :
    CallRates(v) \/ ListRows(v) \/ ReadNewest(v) \/ PriceRow(v) \/ AnswerRates(v)

ViewsDie ==
  /\ view' = [v \in Viewers |-> "idle"]
  /\ listed' = [v \in Viewers |-> NoRows]
  /\ priced' = [v \in Viewers |-> NoRows]
  /\ newest' = [v \in Viewers |-> 0]

ReportNext ==
  \/ /\ \E p \in Refreshers : StartRefresh(p) \/ RefreshStep(p)
     /\ UNCHANGED viewVars
  \/ ViewNext /\ UNCHANGED cacheVars
  \/ Restart /\ ViewsDie

-----------------------------------------------------------------------------
(* Properties *)

\* The rates of one answer are all of one refresh, and none of the pairs is missing,
\* though they are selected one by one while refreshes commit: fetched_at, which the
\* answer gives once, is true of every rate in it.
ReportIsOneGeneration ==
  \A v \in Viewers : view[v] = "idle" =>
    \A a, b \in Pairs : priced[v][a].fetched = priced[v][b].fetched
=============================================================================
