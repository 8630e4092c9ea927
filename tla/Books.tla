------------------------------- MODULE Books -------------------------------
(***************************************************************************)
(* The books of the accounts: what the rows of "transactions" say that an  *)
(* account has lost and gained.                                            *)
(***************************************************************************)
EXTENDS Database, Functions

\* What the rows moved on one side of their quotes.
Turnover(rows, sums, side, a) ==
  SumFunctionOnSet([i \in DOMAIN rows |-> sums[rows[i].quote]],
                   {i \in DOMAIN rows : side[rows[i].quote] = a})

Outflow(a) == Turnover(db.transactions, SourceAmount, From, a)

Inflow(a) == Turnover(db.transactions, DestinationAmount, To, a)

\* The books balance: what an account holds is what it held at the start, less
\* what its transactions debited, plus what they credited.
BooksBalance ==
  \A a \in Accounts :
    db.balance[a] + Outflow(a) = InitialBalance[a] + Inflow(a)
=============================================================================
