----------------------------- MODULE MCExchange -----------------------------
(***************************************************************************)
(* Small instances of Exchange, with two variables of history: how much    *)
(* was deposited into each account, and which accounts were overwritten    *)
(* from a balance that was out of date.                                    *)
(***************************************************************************)
EXTENDS Exchange, Books, TLC

CONSTANTS usd, kes, q1

VARIABLES deposited, overwritten

history == <<deposited, overwritten>>

TheAccounts == {usd, kes}
TheFrom == q1 :> usd
TheTo == q1 :> kes
TheSource == q1 :> 3
TheDestination == q1 :> 5
TheInitialBalance == (usd :> 2) @@ (kes :> 0)

HistoryInit ==
  /\ deposited = [a \in Accounts |-> 0]
  /\ overwritten = {}

HistoryNext ==
  /\ deposited' =
       [a \in Accounts |-> deposited[a] +
         SumFunctionOnSet(amount,
           {p \in Tellers : at[p] = "commit" /\ at'[p] = "refresh" /\ into[p] = a})]
  /\ overwritten' = overwritten \cup
       {into[p] : p \in {u \in Tellers :
          at[u] = "update" /\ at'[u] = "commit" /\ seen[u] # db.balance[into[u]]}}

MCInit == ExchangeInit /\ HistoryInit

MCNext == ExchangeNext /\ HistoryNext

MCSpec == MCInit /\ [][MCNext]_<<exchangeVars, history>>

MCFairSpec == MCSpec /\ ThreadsKeepRunning

-----------------------------------------------------------------------------
Balances(a) ==
  db.balance[a] + Outflow(a) = InitialBalance[a] + Inflow(a) + deposited[a]

\* An account is wrong only if a deposit wrote it from a balance that somebody had
\* changed since it was read: there is no other way to lose an update here.
OnlyStaleDepositsLoseUpdates ==
  \A a \in Accounts \ overwritten : Balances(a)

\* "Balance updates use BEGIN IMMEDIATE transactions in SQLite to prevent lost
\* updates under concurrency" (SPEC.md:224): every account holds what was moved
\* into it less what was moved out.
NoLostUpdates == \A a \in Accounts : Balances(a)
=============================================================================
