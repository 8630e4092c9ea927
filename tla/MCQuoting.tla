----------------------------- MODULE MCQuoting -----------------------------
(***************************************************************************)
(* Small instances of Quoting: USD, EUR and one more currency, one refresh  *)
(* and one asker, and a variable of history: whether the cache had been    *)
(* filled when the call came in.                                           *)
(***************************************************************************)
EXTENDS Quoting, TLC

CONSTANTS kes, xxx, nan

\* Rates of 5.00 or 4.00 and of 0.80, in hundredths.
TheFeeds == {(kes :> 500) @@ (Eur :> 80), (kes :> 400) @@ (Eur :> 80)}

\* Half a percent, in two hundredths; and spreads that make a rate negative, beyond
\* one in size or not, or zero.
TheSellSpread ==
  (<<Eur, kes>> :> 1000) @@ (<<Usd, Eur>> :> 300) @@ (<<Eur, Usd>> :> 200)
    @@ [pair \in Pairs |-> 1]

TheBuySpread == (<<Eur, Usd>> :> -300) @@ [pair \in Pairs |-> 1]

Ask(from, to, side, amount) ==
  [customer |-> TRUE, from |-> from, to |-> to, side |-> side, amount |-> amount]

\* Amounts are in tenths of a minor unit.
Served ==
  { Ask(kes, Eur, "source", 215),
    Ask(Usd, kes, "destination", 1010),
    Ask(kes, Usd, "destination", 995) }

\* Calls over the rates that are not positive.
Overspread ==
  { Ask(Eur, kes, "destination", 1010),
    Ask(Usd, Eur, "destination", 1010),
    Ask(Eur, Usd, "destination", 10),
    Ask(Eur, kes, "source", 215) }

Objectionable ==
  { [Ask(kes, Usd, "source", 10) EXCEPT !.customer = FALSE],
    Ask(xxx, Usd, "source", 10),
    Ask(Usd, Usd, "source", 10),
    Ask(kes, Usd, "source", 0),
    Ask(kes, Usd, "source", nan) }

AllCalls == Served \cup Overspread \cup Objectionable

VARIABLE filled

MCInit == QuotingInit /\ filled = [a \in Askers |-> FALSE]

MCNext ==
  /\ QuotingNext
  /\ filled' =
       [a \in Askers |->
          IF stage[a] = "idle" /\ stage'[a] = "validate"
            THEN \A pair \in Pairs : cache[pair] # NoRow
            ELSE filled[a]]

MCSpec == MCInit /\ [][MCNext]_<<quotingVars, filled>>

\* Every pair has its own row from the first refresh on, so a call that comes later
\* is routed directly, whatever refreshes commit while it runs.  A hub is only ever
\* used, or a route missed, by a call that the first refresh overtakes.
FilledCacheIsDirect ==
  \A a \in Askers : filled[a] =>
    /\ answer[a].code # "ROUTE_UNAVAILABLE"
    /\ Quoted(a) => Len(answer[a].path) = 2
=============================================================================
