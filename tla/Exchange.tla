------------------------------ MODULE Exchange ------------------------------
(***************************************************************************)
(* Executions and deposits together: their threads share the balances, the *)
(* write lock, and the process that may die under all of them.             *)
(***************************************************************************)
EXTENDS ExecuteQuote, CreditBalance

ASSUME ThreadsAssumption == Requests \cap Tellers = {}

exchangeVars == <<vars, depositVars>>

ExchangeInit == Init /\ DepositInit

Executing ==
  /\ \/ \E r \in Requests : Send(r) \/ Step(r) \/ Fault(r)
     \/ \E q \in Quotes : OfferQuote(q)
     \/ Tick
  /\ UNCHANGED depositVars

Depositing ==
  /\ DepositNext
  /\ UNCHANGED <<clock, failed, crashes, requestVars>>

ProcessDies == Crash /\ DepositsDie

ExchangeNext == Executing \/ Depositing \/ ProcessDies

ExchangeSpec == ExchangeInit /\ [][ExchangeNext]_exchangeVars

\* Threads of either kind keep running.
ThreadsKeepRunning ==
  /\ \A r \in Requests : WF_exchangeVars(Step(r) /\ UNCHANGED depositVars)
  /\ \A p \in Tellers :
       WF_exchangeVars(DepositStep(p)
                       /\ UNCHANGED <<clock, failed, crashes, requestVars>>)

-----------------------------------------------------------------------------
(* Properties *)

\* The type invariant.  An image has no balance below zero, so it also says that
\* deposits and executions together overdraw nothing; and the lock belongs to a thread
\* that will still commit or roll back.
ExchangeTypeOK ==
  /\ RequestsTypeOK
  /\ DepositTypeOK
  /\ lock \in Requests \cup Tellers \cup {NoOne}
  /\ WriterInv /\ DepositWriterInv

\* An execution loses nobody's update: when it commits, the balances change by
\* what its quote says, so nothing that was deposited while it ran is undone
\* and no balance it read was out of date.  BEGIN IMMEDIATE before the first read
\* is what buys this.
ExecutionsLoseNothing ==
  [][\A r \in Requests : CommitAll(r) =>
       LET q == quoteOf[r]
       IN  db'.balance = [db.balance EXCEPT ![From[q]] = @ - SourceAmount[q],
                                            ![To[q]]   = @ + DestinationAmount[q]]
    ]_exchangeVars

\* No thread of one kind makes those of the other wait for ever, and as whoever has
\* the lock is one of them, it always comes free.
EverybodyIsAnswered ==
  /\ \A r \in Requests : pc[r] = "preflight" ~> pc[r] = "done"
  /\ \A p \in Tellers : at[p] = "read" ~> at[p] = "idle"
=============================================================================
