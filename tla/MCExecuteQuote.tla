--------------------------- MODULE MCExecuteQuote ---------------------------
(***************************************************************************)
(* Small instances of ExecuteQuote: one customer, two currencies, two       *)
(* quotes that compete for a balance which is enough for either alone.  By *)
(* spreads beyond 100 % the second takes from both accounts, which only    *)
(* the money from the third can pay for, and the third pays into both.     *)
(***************************************************************************)
EXTENDS ExecuteQuote, Books, TLC

CONSTANTS usd, kes, q1, q2, q3

TheAccounts == {usd, kes}
TheQuotes == {q1, q2, q3}

TheFrom == (q1 :> usd) @@ (q2 :> usd) @@ (q3 :> kes)
TheTo == (q1 :> kes) @@ (q2 :> kes) @@ (q3 :> usd)
TheSource == (q1 :> 3) @@ (q2 :> 2) @@ (q3 :> -4)
TheDestination == (q1 :> 5) @@ (q2 :> -4) @@ (q3 :> 2)
TheInitialBalance == (usd :> 4) @@ (kes :> 0)

Interchangeable == Permutations(Requests) \cup Permutations(Keys)

-----------------------------------------------------------------------------
(* What the documents say of these answers, and the code does otherwise *)

\* Of concurrent executions of a quote one proceeds and the others receive 409
\* (SPEC.md:201), not a 500 from "database is locked" (designs/05-execute.md:246).
\* So a thread that waits for another to execute the quote it wants itself is
\* not answered with an internal error.
WaitersAreToldTheOutcome ==
  [][\A r, s \in Requests :
       /\ pc[s] \in Settling /\ quoteOf[s] = quoteOf[r]
       /\ pc[r] = "begin" /\ pc'[r] = "done"
       => reply'[r].code # "INTERNAL_ERROR"]_vars
=============================================================================
