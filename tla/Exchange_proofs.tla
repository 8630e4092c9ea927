--------------------------- MODULE Exchange_proofs ---------------------------
(***************************************************************************)
(* Proofs about Exchange: that deposits run beside the executions takes    *)
(* nothing from what ExecuteQuote_proofs shows of these.  The invariant of *)
(* the executions survives each step of a deposit, and that of the         *)
(* deposits each step of an execution, because either kind writes only     *)
(* with the lock; and a deposit changes one balance and no other table.    *)
(* At the end, that deposits written from a balance out of date are all    *)
(* that can go wrong with the books.                                       *)
(***************************************************************************)
EXTENDS MCExchange, ExecuteQuote_promise

\* The image a deposit commits: what it has read, and what it adds.
DepositedBy(p) ==
  /\ at[p] \in {"update", "commit"} => into[p] \in Accounts
  /\ at[p] = "commit" => tx = [db EXCEPT !.balance[into[p]] = seen[p] + amount[p]]

DepositInv ==
  /\ DepositTypeOK /\ DepositWriterInv
  /\ lock \in Requests \cup Tellers \cup {NoOne}
  /\ \A p \in Tellers : DepositedBy(p)

ExchangeInv == IInv /\ DepositInv

-----------------------------------------------------------------------------
(* A deposit beside the executions *)

\* While a deposit has the lock no execution is inside its transaction.
LEMMA NoneInside ==
  ASSUME WriterInv, lock \notin Requests, NEW r \in Requests
  PROVE  pc[r] \notin InTransaction
BY DEF WriterInv

\* A step that changes no more than balances keeps what is known of the executions,
\* if none of them has the lock before or after it.
LEMMA BalancesOnly ==
  ASSUME IInv,
         UNCHANGED <<clock, failed, crashes, requestVars>>,
         lock \notin Requests, lock' \notin Requests,
         lock' = NoOne => tx' = db',
         tx' \in Images, db' \in Images,
         db'.status = db.status, db'.transactions = db.transactions, db'.log = db.log
  PROVE  IInv'
<1>1. RequestsTypeOK'
  BY DEF IInv, RequestsTypeOK, requestVars
<1>2. \A r \in Requests : pc[r] \notin InTransaction /\ pc'[r] \notin InTransaction
  BY NoneInside DEF IInv, requestVars
<1>3. WriterInv'
  BY <1>2 DEF WriterInv
<1>4. ImageInv'
  BY <1>2 DEF ImageInv, WrittenBy, InTransaction
<1>5. CheckedInv'
  BY <1>2 DEF IInv, CheckedInv, CheckedBy, HoldsItsRow, requestVars, InTransaction, Settling
<1>6. AllOrNothing'
  BY DEF IInv, AllOrNothing, Ledger, SettledOnce, StatusAgrees, LogAgrees
<1>7. AnsweredTruthfully' /\ OneCreation' /\ RefusedForAnotherKey'
  BY DEF IInv, AnsweredTruthfully, HoldsItsRow, OneCreation, Creator, RefusedForAnotherKey,
         ExecutedUnderAnotherKey, requestVars
<1>8. QED
  BY <1>1, <1>3, <1>4, <1>5, <1>6, <1>7 DEF IInv

\* An image with another balance in one account.
LEMMA Rebalanced ==
  ASSUME NEW image \in Images, NEW a \in Accounts, NEW n \in Nat
  PROVE  LET other == [image EXCEPT !.balance[a] = n]
         IN  /\ other \in Images
             /\ other.status = image.status
             /\ other.transactions = image.transactions
             /\ other.log = image.log
BY DEF Images

\* Steps of a deposit that leave the file and the lock alone.
LEMMA SameFile ==
  ASSUME IInv, UNCHANGED <<dbVars, clock, failed, crashes, requestVars>>
  PROVE  IInv'
BY StutterStep DEF vars

\* Most steps of a deposit only move it on.
LEMMA DepositMoves ==
  ASSUME DepositInv, NEW p \in Tellers, NEW place \in {"idle", "read", "update", "refresh"},
         at' = [at EXCEPT ![p] = place],
         DepositTypeOK',
         \A u \in Tellers \ {p} :
           into'[u] = into[u] /\ amount'[u] = amount[u] /\ seen'[u] = seen[u],
         \/ at[p] # "commit" /\ UNCHANGED dbVars
         \/ lock = p /\ lock' = NoOne,
         place = "update" => into'[p] \in Accounts
  PROVE  DepositInv'
<1>1. at'[p] = place /\ \A u \in Tellers \ {p} : at'[u] = at[u]
  BY DEF DepositInv, DepositTypeOK
<1>2. DepositWriterInv'
  BY <1>1, DepositsAssumption DEF DepositInv, DepositWriterInv, dbVars
<1>3. lock' \in Requests \cup Tellers \cup {NoOne}
  BY DEF DepositInv, dbVars
<1>4. DepositedBy(p)'
  BY <1>1 DEF DepositedBy
<1>5. ASSUME NEW u \in Tellers \ {p}
      PROVE  DepositedBy(u)'
  <2>1. CASE UNCHANGED dbVars
    BY <1>1, <2>1 DEF DepositInv, DepositedBy, dbVars
  <2>2. CASE lock = p
    <3>1. at[u] # "commit"
      BY <2>2 DEF DepositInv, DepositWriterInv
    <3>2. QED
      BY <1>1, <3>1 DEF DepositInv, DepositedBy
  <2>3. QED
    BY <2>1, <2>2
<1>6. QED
  BY <1>2, <1>3, <1>4, <1>5 DEF DepositInv

LEMMA CallDeposit_Inv ==
  ASSUME ExchangeInv, NEW p \in Tellers, NEW a \in Accounts \cup {NoAccount},
         NEW n \in DepositAmounts, CallDeposit(p, a, n),
         UNCHANGED <<clock, failed, crashes, requestVars>>
  PROVE  ExchangeInv'
<1>1. at' = [at EXCEPT ![p] = "read"] /\ at[p] = "idle" /\ UNCHANGED <<dbVars, seen>>
  BY DEF CallDeposit, DepositGoTo
<1>2. n \in Nat
  BY DepositsAssumption
<1>3. DepositTypeOK'
  BY <1>1, <1>2
  DEF CallDeposit, ExchangeInv, DepositInv, DepositTypeOK, DepositPlaces, DepositAnswers
<1>4. \A u \in Tellers \ {p} :
        into'[u] = into[u] /\ amount'[u] = amount[u] /\ seen'[u] = seen[u]
  BY <1>1 DEF CallDeposit, ExchangeInv, DepositInv, DepositTypeOK
<1>5. DepositInv'
  BY <1>1, <1>3, <1>4, DepositMoves DEF ExchangeInv
<1>6. IInv'
  BY <1>1, SameFile DEF ExchangeInv
<1>7. QED
  BY <1>5, <1>6 DEF ExchangeInv

\* A deposit that ends, with the lock or without it.
LEMMA Tell_Inv ==
  ASSUME ExchangeInv, NEW p \in Tellers, NEW what \in DepositAnswers, Tell(p, what),
         (at[p] # "commit" /\ UNCHANGED dbVars) \/ Rollback(p),
         UNCHANGED <<clock, failed, crashes, requestVars>>
  PROVE  ExchangeInv'
<1>1. at' = [at EXCEPT ![p] = "idle"] /\ UNCHANGED <<into, amount, seen, served>>
  BY DEF Tell, DepositGoTo
<1>2. DepositTypeOK'
  BY <1>1 DEF Tell, ExchangeInv, DepositInv, DepositTypeOK, DepositPlaces
<1>3. DepositInv'
  <2>1. (at[p] # "commit" /\ UNCHANGED dbVars) \/ (lock = p /\ lock' = NoOne)
    BY DEF Rollback
  <2>2. \A u \in Tellers \ {p} :
          into'[u] = into[u] /\ amount'[u] = amount[u] /\ seen'[u] = seen[u]
    BY <1>1
  <2>3. DepositInv
    BY DEF ExchangeInv
  <2>4. QED
    BY <1>1, <1>2, <2>1, <2>2, <2>3, DepositMoves
<1>4. IInv'
  <2>1. CASE UNCHANGED dbVars
    BY <2>1, SameFile DEF ExchangeInv
  <2>2. CASE Rollback(p)
    <3>1. lock = p /\ lock' = NoOne /\ tx' = db /\ db' = db
      BY <2>2 DEF Rollback
    <3>2. lock \notin Requests /\ lock' \notin Requests /\ db \in Images
      BY <3>1, ThreadsAssumption, RequestsAssumption DEF ExchangeInv, IInv, RequestsTypeOK
    <3>3. QED
      BY <3>1, <3>2, BalancesOnly DEF ExchangeInv
  <2>3. QED
    BY <2>1, <2>2
<1>5. QED
  BY <1>3, <1>4 DEF ExchangeInv

LEMMA ReadBalance_Inv ==
  ASSUME ExchangeInv, NEW p \in Tellers, ReadBalance(p),
         UNCHANGED <<clock, failed, crashes, requestVars>>
  PROVE  ExchangeInv'
<1>1. /\ at' = [at EXCEPT ![p] = "update"] /\ at[p] = "read"
      /\ seen' = [seen EXCEPT ![p] = db.balance[into[p]]]
      /\ UNCHANGED <<dbVars, into, amount, served, told>>
  BY DEF ReadBalance, DepositGoTo
<1>2. into[p] \in Accounts
  BY DEF ReadBalance, ExchangeInv, DepositInv, DepositTypeOK
<1>3. db.balance[into[p]] \in Nat
  BY <1>2 DEF ExchangeInv, IInv, RequestsTypeOK, Images
<1>4. DepositTypeOK'
  BY <1>1, <1>3 DEF ExchangeInv, DepositInv, DepositTypeOK, DepositPlaces
<1>5. \A u \in Tellers \ {p} :
        into'[u] = into[u] /\ amount'[u] = amount[u] /\ seen'[u] = seen[u]
  BY <1>1 DEF ExchangeInv, DepositInv, DepositTypeOK
<1>6. DepositInv'
  BY <1>1, <1>2, <1>4, <1>5, DepositMoves DEF ExchangeInv
<1>7. IInv'
  BY <1>1, SameFile DEF ExchangeInv
<1>8. QED
  BY <1>6, <1>7 DEF ExchangeInv

LEMMA UpdateBalance_Inv ==
  ASSUME ExchangeInv, NEW p \in Tellers, UpdateBalance(p),
         UNCHANGED <<clock, failed, crashes, requestVars>>
  PROVE  ExchangeInv'
<1>1. /\ at[p] = "update" /\ lock = NoOne /\ lock' = p
      /\ tx' = [db EXCEPT !.balance[into[p]] = seen[p] + amount[p]]
      /\ at' = [at EXCEPT ![p] = "commit"]
      /\ UNCHANGED <<db, into, amount, seen, served, told>>
  BY DEF UpdateBalance, DepositGoTo
<1>2. into[p] \in Accounts /\ seen[p] + amount[p] \in Nat /\ db \in Images
  BY <1>1
  DEF ExchangeInv, DepositInv, DepositedBy, DepositTypeOK, IInv, RequestsTypeOK
<1>3. tx' \in Images
  BY <1>1, <1>2, Rebalanced
<1>4. IInv'
  <2>1. lock \notin Requests /\ lock' \notin Requests /\ lock' # NoOne
    BY <1>1, ThreadsAssumption, RequestsAssumption, DepositsAssumption
  <2>2. QED
    BY <1>1, <1>2, <1>3, <2>1, BalancesOnly DEF ExchangeInv
<1>5. at'[p] = "commit" /\ \A u \in Tellers \ {p} : at'[u] = at[u] /\ at[u] # "commit"
  BY <1>1, DepositsAssumption DEF ExchangeInv, DepositInv, DepositTypeOK, DepositWriterInv
<1>6. DepositInv'
  <2>1. DepositTypeOK' /\ lock' \in Requests \cup Tellers \cup {NoOne}
    BY <1>1 DEF ExchangeInv, DepositInv, DepositTypeOK, DepositPlaces
  <2>2. DepositWriterInv'
    BY <1>1, <1>5 DEF DepositWriterInv
  <2>3. DepositedBy(p)'
    BY <1>1, <1>2 DEF DepositedBy
  <2>4. \A u \in Tellers \ {p} : DepositedBy(u)'
    BY <1>1, <1>5 DEF ExchangeInv, DepositInv, DepositedBy
  <2>5. QED
    BY <2>1, <2>2, <2>3, <2>4 DEF DepositInv
<1>7. QED
  BY <1>4, <1>6 DEF ExchangeInv

LEMMA CommitDeposit_Inv ==
  ASSUME ExchangeInv, NEW p \in Tellers, CommitDeposit(p),
         UNCHANGED <<clock, failed, crashes, requestVars>>
  PROVE  ExchangeInv'
<1>1. /\ at[p] = "commit" /\ lock = p /\ lock' = NoOne /\ db' = tx /\ tx' = tx
      /\ at' = [at EXCEPT ![p] = "refresh"]
      /\ UNCHANGED <<into, amount, seen, served, told>>
  BY DEF CommitDeposit, Commit, DepositGoTo
<1>2. /\ into[p] \in Accounts /\ seen[p] + amount[p] \in Nat /\ db \in Images
      /\ tx = [db EXCEPT !.balance[into[p]] = seen[p] + amount[p]]
  BY <1>1
  DEF ExchangeInv, DepositInv, DepositedBy, DepositTypeOK, IInv, RequestsTypeOK
<1>3. /\ db' \in Images /\ db'.status = db.status
      /\ db'.transactions = db.transactions /\ db'.log = db.log
  BY <1>1, <1>2, Rebalanced
<1>4. IInv'
  <2>1. lock \notin Requests /\ lock' \notin Requests
    BY <1>1, ThreadsAssumption, RequestsAssumption
  <2>2. QED
    BY <1>1, <1>3, <2>1, BalancesOnly DEF ExchangeInv
<1>5. DepositInv'
  <2>1. DepositTypeOK'
    BY <1>1 DEF ExchangeInv, DepositInv, DepositTypeOK, DepositPlaces
  <2>2. QED
    BY <1>1, <2>1, DepositMoves DEF ExchangeInv
<1>6. QED
  BY <1>4, <1>5 DEF ExchangeInv

LEMMA Depositing_Inv ==
  ASSUME ExchangeInv, Depositing
  PROVE  ExchangeInv'
<1>1. UNCHANGED <<clock, failed, crashes, requestVars>> /\ DepositNext
  BY DEF Depositing
<1>2. ASSUME NEW p \in Tellers, DepositStep(p)
      PROVE  ExchangeInv'
  <2>1. CASE RefuseDeposit(p) \/ UpdateTimeout(p) \/ AnswerDeposit(p)
    BY <1>1, <2>1, Tell_Inv DEF RefuseDeposit, UpdateTimeout, AnswerDeposit, DepositAnswers
  <2>2. QED
    BY <1>1, <1>2, <2>1, ReadBalance_Inv, UpdateBalance_Inv, CommitDeposit_Inv DEF DepositStep
<1>3. ASSUME NEW p \in Tellers, DepositFault(p)
      PROVE  ExchangeInv'
  BY <1>1, <1>3, Tell_Inv DEF DepositFault, DepositAnswers
<1>4. QED
  BY <1>1, <1>2, <1>3, CallDeposit_Inv DEF DepositNext

-----------------------------------------------------------------------------
(* An execution beside the deposits *)

LEMMA Executing_Inv ==
  ASSUME ExchangeInv, [Living]_vars, UNCHANGED depositVars
  PROVE  ExchangeInv'
<1>1. IInv'
  BY NextIInv DEF ExchangeInv, Next, Living
<1>2. DepositTypeOK'
  BY DEF ExchangeInv, DepositInv, DepositTypeOK, depositVars
<1>3. CASE UNCHANGED dbVars
  BY <1>1, <1>2, <1>3
  DEF ExchangeInv, DepositInv, DepositWriterInv, DepositedBy, depositVars, dbVars
<1>4. CASE lock \in Requests \cup {NoOne} /\ lock' \in Requests \cup {NoOne}
  <2>1. \A p \in Tellers : p # lock /\ p # lock'
    BY <1>4, ThreadsAssumption, DepositsAssumption
  <2>2. \A p \in Tellers : at[p] # "commit" /\ at'[p] = at[p]
    BY <2>1 DEF ExchangeInv, DepositInv, DepositWriterInv, depositVars
  <2>3. DepositWriterInv' /\ \A p \in Tellers : DepositedBy(p)'
    BY <2>1, <2>2
    DEF ExchangeInv, DepositInv, DepositWriterInv, DepositedBy, depositVars
  <2>4. QED
    BY <1>1, <1>2, <1>4, <2>3 DEF ExchangeInv, DepositInv
<1>5. QED
  BY <1>3, <1>4, LockIsOurs DEF ExchangeInv

LEMMA ProcessDies_Inv ==
  ASSUME ExchangeInv, ProcessDies
  PROVE  ExchangeInv'
<1>1. IInv'
  BY CrashStep DEF ExchangeInv, ProcessDies
<1>2. /\ lock' = NoOne /\ at' = [p \in Tellers |-> "idle"]
      /\ UNCHANGED <<into, amount, seen, served, told>>
  BY DEF ProcessDies, Crash, Recover, DepositsDie
<1>3. DepositTypeOK'
  BY <1>2 DEF ExchangeInv, DepositInv, DepositTypeOK, DepositPlaces
<1>4. DepositWriterInv' /\ \A p \in Tellers : DepositedBy(p)'
  BY <1>2, DepositsAssumption DEF DepositWriterInv, DepositedBy
<1>5. QED
  BY <1>1, <1>2, <1>3, <1>4 DEF ExchangeInv, DepositInv

LEMMA ExchangeNext_Inv ==
  ASSUME ExchangeInv, [ExchangeNext]_exchangeVars
  PROVE  ExchangeInv'
<1>1. CASE Executing
  BY <1>1, Executing_Inv DEF Executing, Living
<1>2. CASE UNCHANGED exchangeVars
  BY <1>2, Executing_Inv DEF exchangeVars
<1>3. QED
  BY <1>1, <1>2, Depositing_Inv, ProcessDies_Inv DEF ExchangeNext

LEMMA ExchangeInit_Inv ==
  ASSUME ExchangeInit
  PROVE  ExchangeInv
<1>1. IInv /\ lock = NoOne
  BY InitIInv DEF ExchangeInit, Init, DatabaseInit
<1>2. \A p \in Tellers : at[p] = "idle" /\ lock # p
  BY <1>1, DepositsAssumption DEF ExchangeInit, DepositInit
<1>3. DepositTypeOK
  BY DEF ExchangeInit, DepositInit, DepositTypeOK, DepositPlaces, DepositAnswers
<1>4. DepositWriterInv /\ \A p \in Tellers : DepositedBy(p)
  BY <1>2 DEF DepositWriterInv, DepositedBy
<1>5. QED
  BY <1>1, <1>3, <1>4 DEF ExchangeInv, DepositInv

-----------------------------------------------------------------------------
(* What holds of both together *)

\* Deposits and executions keep each other's invariants.
THEOREM ExchangeInvariance == ExchangeSpec => []ExchangeInv
<1>1. ExchangeInit => ExchangeInv
  BY ExchangeInit_Inv
<1>2. ExchangeInv /\ [ExchangeNext]_exchangeVars => ExchangeInv'
  BY ExchangeNext_Inv
<1>. QED
  BY <1>1, <1>2, PTL DEF ExchangeSpec

\* Every variable keeps its type, so that nothing is overdrawn, and the lock belongs
\* to a thread, of either kind, that is about to commit or to roll back.
THEOREM ExchangeTypeCorrect == ExchangeSpec => []ExchangeTypeOK
<1>1. ExchangeInv => ExchangeTypeOK
  BY DEF ExchangeInv, DepositInv, IInv, ExchangeTypeOK
<1>. QED
  BY <1>1, ExchangeInvariance, PTL

\* Deposits that commit between an execution and its client make no difference to
\* what the file and the answers say: settlements are whole, and at most one per
\* quote; who was told of one has it; and one client was told that it made it.
THEOREM ExchangeKeepsPromises ==
  ExchangeSpec => [](AllOrNothing /\ AnsweredTruthfully /\ OneCreation /\ RefusedForAnotherKey)
<1>1. ExchangeInv => AllOrNothing /\ AnsweredTruthfully /\ OneCreation /\ RefusedForAnotherKey
  BY DEF ExchangeInv, IInv
<1>. QED
  BY <1>1, ExchangeInvariance, PTL

\* An execution changes the balances by what its quote says, from what they are when
\* it commits: no deposit is lost to it (_debit_balance and _credit_balance read
\* under BEGIN IMMEDIATE).
THEOREM NoDepositIsLostToExecutions == ExchangeSpec => ExecutionsLoseNothing
<1> DEFINE Exact ==
      \A r \in Requests : CommitAll(r) =>
        LET q == quoteOf[r]
        IN  db'.balance = [db.balance EXCEPT ![From[q]] = @ - SourceAmount[q],
                                             ![To[q]]   = @ + DestinationAmount[q]]
<1>1. ExchangeInv /\ [ExchangeNext]_exchangeVars => [Exact]_exchangeVars
  BY Commits DEF ExchangeInv, Moved
<1>. QED
  BY <1>1, ExchangeInvariance, PTL DEF ExchangeSpec, ExecutionsLoseNothing

-----------------------------------------------------------------------------
(* The books *)

\* Until it commits, a deposit that does not overwrite adds to what the file says.
HistoryInv ==
  /\ deposited \in [Accounts -> Nat]
  /\ \A p \in Tellers :
       at[p] = "commit" /\ into[p] \notin overwritten => seen[p] = db.balance[into[p]]
  /\ OnlyStaleDepositsLoseUpdates

\* A step that commits no deposit counts none.
LEMMA NothingCounted ==
  ASSUME HistoryInv, HistoryNext,
         \A p \in Tellers : ~ (at[p] = "commit" /\ at'[p] = "refresh")
  PROVE  deposited' \in [Accounts -> Nat] /\ \A a \in Accounts : deposited'[a] = deposited[a]
<1>1. \A a \in Accounts :
        {p \in Tellers : at[p] = "commit" /\ at'[p] = "refresh" /\ into[p] = a} = {}
  OBVIOUS
<1>2. deposited' = [a \in Accounts |-> deposited[a] + 0]
  BY <1>1, SumOfNone DEF HistoryNext
<1>. QED
  BY <1>2 DEF HistoryInv

\* Who is about to commit knows the balance, or the account is known to be overwritten.
LEMMA KnowsOrOverwrites ==
  ASSUME HistoryInv, HistoryNext, db'.balance = db.balance,
         \A p \in Tellers :
           at'[p] = "commit" =>
             at[p] \in {"update", "commit"} /\ into'[p] = into[p] /\ seen'[p] = seen[p],
         NEW p \in Tellers, at'[p] = "commit", into'[p] \notin overwritten'
  PROVE  seen'[p] = db'.balance[into'[p]]
<1>1. into[p] \notin overwritten'
  OBVIOUS
<1>2. CASE at[p] = "commit"
  <2>1. into[p] \notin overwritten
    BY <1>1 DEF HistoryNext
  <2>. QED
    BY <1>2, <2>1 DEF HistoryInv
<1>3. CASE at[p] = "update"
  BY <1>1, <1>3 DEF HistoryNext
<1>. QED
  BY <1>2, <1>3

\* A step that changes neither the balances nor the transactions.
LEMMA BooksUntouched ==
  ASSUME HistoryInv, HistoryNext,
         db'.balance = db.balance, db'.transactions = db.transactions,
         \A p \in Tellers :
           /\ ~ (at[p] = "commit" /\ at'[p] = "refresh")
           /\ at'[p] = "commit" =>
                at[p] \in {"update", "commit"} /\ into'[p] = into[p] /\ seen'[p] = seen[p]
  PROVE  HistoryInv'
<1>1. deposited' \in [Accounts -> Nat] /\ \A a \in Accounts : deposited'[a] = deposited[a]
  BY NothingCounted
<1>2. \A p \in Tellers :
        at'[p] = "commit" /\ into'[p] \notin overwritten' => seen'[p] = db'.balance[into'[p]]
  BY KnowsOrOverwrites
<1>3. ASSUME NEW a \in Accounts \ overwritten'
      PROVE  Balances(a)'
  <2>1. a \in Accounts \ overwritten
    BY DEF HistoryNext
  <2>2. Balances(a)
    BY <2>1 DEF HistoryInv, OnlyStaleDepositsLoseUpdates
  <2>3. Outflow(a)' = Outflow(a) /\ Inflow(a)' = Inflow(a)
    BY DEF Outflow, Inflow
  <2>. QED
    BY <1>1, <2>1, <2>2, <2>3 DEF Balances
<1>. QED
  BY <1>1, <1>2, <1>3 DEF HistoryInv, OnlyStaleDepositsLoseUpdates

\* An execution that commits: nobody else has the lock, and what it moves it records.
LEMMA ExecutionKeepsBooks ==
  ASSUME ExchangeInv, HistoryInv, HistoryNext, UNCHANGED depositVars,
         NEW r \in Requests, CommitAll(r)
  PROVE  HistoryInv'
<1>1. /\ at' = at
      /\ \A p \in Tellers : at[p] # "commit"
  <2>1. lock = r
    BY DEF CommitAll, Commit
  <2>. QED
    BY <2>1, ThreadsAssumption DEF ExchangeInv, DepositInv, DepositWriterInv, depositVars
<1>2. deposited' \in [Accounts -> Nat] /\ \A a \in Accounts : deposited'[a] = deposited[a]
  BY <1>1, NothingCounted
<1>3. ASSUME NEW a \in Accounts \ overwritten'
      PROVE  Balances(a)'
  <2>1. a \in Accounts \ overwritten
    BY DEF HistoryNext
  <2>2. Balances(a)
    BY <2>1 DEF HistoryInv, OnlyStaleDepositsLoseUpdates
  <2>3. /\ Outflow(a) \in Int /\ Inflow(a) \in Int /\ db.balance[a] \in Nat
        /\ Outflow(a)' \in Int /\ Inflow(a)' \in Int /\ db'.balance[a] \in Int
        /\ db'.balance[a] + Outflow(a)' - Inflow(a)' = db.balance[a] + Outflow(a) - Inflow(a)
    BY FlowsFollow DEF ExchangeInv
  <2>4. InitialBalance[a] \in Nat /\ deposited[a] \in Nat /\ deposited'[a] = deposited[a]
    BY <1>2, TermsAssumption DEF HistoryInv
  <2>. QED
    BY <2>2, <2>3, <2>4 DEF Balances
<1>. QED
  BY <1>1, <1>2, <1>3 DEF HistoryInv, OnlyStaleDepositsLoseUpdates

\* A deposit that commits adds what is counted as deposited.
LEMMA DepositKeepsBooks ==
  ASSUME ExchangeInv, HistoryInv, HistoryNext, NEW p \in Tellers, CommitDeposit(p)
  PROVE  HistoryInv'
<1>1. /\ at[p] = "commit" /\ lock = p /\ db' = tx
      /\ at' = [at EXCEPT ![p] = "refresh"]
      /\ UNCHANGED <<into, amount, seen>>
  BY DEF CommitDeposit, Commit, DepositGoTo
<1>2. /\ into[p] \in Accounts /\ amount[p] \in Nat /\ seen[p] \in Nat /\ db \in Images
      /\ tx = [db EXCEPT !.balance[into[p]] = seen[p] + amount[p]]
  BY <1>1
  DEF ExchangeInv, DepositInv, DepositedBy, DepositTypeOK, IInv, RequestsTypeOK
<1>3. /\ db'.transactions = db.transactions
      /\ db'.balance = [db.balance EXCEPT ![into[p]] = seen[p] + amount[p]]
  BY <1>1, <1>2 DEF Images
<1>4. at'[p] = "refresh" /\ \A u \in Tellers \ {p} : at[u] # "commit" /\ at'[u] # "commit"
  BY <1>1 DEF ExchangeInv, DepositInv, DepositTypeOK, DepositWriterInv
<1>5. SumFunctionOnSet(amount, {p}) = amount[p]
  <2>1. SumFunctionOnSet(amount, {} \cup {p}) = SumFunctionOnSet(amount, {}) + amount[p]
    <3>1. IsFiniteSet({}) /\ p \notin {} /\ amount[p] \in Int
      BY <1>2, FS_EmptySet
    <3>. QED
      BY <3>1, SumOfMore, ZenonT(30)
  <2>2. {} \cup {p} = {p}
    OBVIOUS
  <2>. QED
    BY <1>2, <2>1, <2>2, SumOfNone
<1>6. \A a \in Accounts :
        deposited'[a] = IF a = into[p] THEN deposited[a] + amount[p] ELSE deposited[a]
  <2> DEFINE Counted(a) ==
        {u \in Tellers : at[u] = "commit" /\ at'[u] = "refresh" /\ into[u] = a}
  <2>1. \A a \in Accounts : Counted(a) = IF a = into[p] THEN {p} ELSE {}
    BY <1>1, <1>4
  <2>2. \A a \in Accounts : deposited'[a] = deposited[a] + SumFunctionOnSet(amount, Counted(a))
    BY DEF HistoryNext
  <2>3. deposited \in [Accounts -> Nat]
    BY DEF HistoryInv
  <2>. HIDE DEF Counted
  <2>4. ASSUME NEW a \in Accounts, a = into[p]
        PROVE  deposited'[a] = deposited[a] + amount[p]
    <3>1. Counted(a) = {p}
      BY <2>1, <2>4
    <3>. QED
      BY <1>5, <2>2, <3>1
  <2>5. ASSUME NEW a \in Accounts, a # into[p]
        PROVE  deposited'[a] = deposited[a]
    <3>1. SumFunctionOnSet(amount, Counted(a)) = 0
      BY <2>1, <2>5, SumOfNone
    <3>2. deposited[a] \in Nat
      BY <2>3
    <3>. QED
      BY <2>2, <3>1, <3>2
  <2>. QED
    BY <2>4, <2>5
<1>7. deposited' \in [Accounts -> Nat]
  <2>1. deposited' = [a \in Accounts |-> deposited'[a]]
    BY DEF HistoryNext
  <2>2. \A a \in Accounts : deposited'[a] \in Nat
    BY <1>2, <1>6 DEF HistoryInv
  <2>. QED
    BY <2>1, <2>2
<1>8. ASSUME NEW a \in Accounts \ overwritten'
      PROVE  Balances(a)'
  <2>1. a \in Accounts \ overwritten
    BY DEF HistoryNext
  <2>2. Balances(a)
    BY <2>1 DEF HistoryInv, OnlyStaleDepositsLoseUpdates
  <2>3. Outflow(a)' = Outflow(a) /\ Inflow(a)' = Inflow(a)
    BY <1>3 DEF Outflow, Inflow
  <2>4. Outflow(a) \in Int /\ Inflow(a) \in Int /\ db.balance[a] \in Nat
    BY <1>2, FlowsAreNumbers DEF Images
  <2>5. InitialBalance[a] \in Nat /\ deposited[a] \in Nat
    BY TermsAssumption DEF HistoryInv
  <2>6. CASE a = into[p]
    <3>1. db'.balance[a] = db.balance[a] + amount[p]
      BY <1>1, <1>2, <1>3, <2>1, <2>6 DEF HistoryInv, Images
    <3>2. deposited'[a] = deposited[a] + amount[p]
      BY <1>6, <2>6
    <3>. QED
      BY <1>2, <2>2, <2>3, <2>4, <2>5, <3>1, <3>2 DEF Balances
  <2>7. CASE a # into[p]
    <3>1. db'.balance[a] = db.balance[a] /\ deposited'[a] = deposited[a]
      BY <1>2, <1>3, <1>6, <2>7 DEF Images
    <3>. QED
      BY <2>2, <2>3, <3>1 DEF Balances
  <2>. QED
    BY <2>6, <2>7
<1>9. \A u \in Tellers : at'[u] # "commit"
  BY <1>4
<1>. QED
  BY <1>7, <1>8, <1>9 DEF HistoryInv, OnlyStaleDepositsLoseUpdates

LEMMA HistoryStep ==
  ASSUME ExchangeInv, HistoryInv, [MCNext]_<<exchangeVars, history>>
  PROVE  HistoryInv'
<1>1. CASE UNCHANGED <<exchangeVars, history>>
  BY <1>1 DEF exchangeVars, history, vars, dbVars, depositVars, HistoryInv, Balances,
              OnlyStaleDepositsLoseUpdates, Outflow, Inflow
<1>2. ASSUME Executing, HistoryNext
      PROVE  HistoryInv'
  <2>1. UNCHANGED depositVars /\ [Next]_vars /\ IInv
    BY <1>2 DEF Executing, Next, Living, ExchangeInv
  <2>2. CASE db'.balance = db.balance /\ db'.transactions = db.transactions
    BY <1>2, <2>1, <2>2, BooksUntouched DEF depositVars
  <2>3. CASE \E r \in Requests : CommitAll(r)
    BY <1>2, <2>1, <2>3, ExecutionKeepsBooks
  <2>. QED
    BY <2>1, <2>2, <2>3, FileChanges, Offers
<1>3. ASSUME Depositing, HistoryNext
      PROVE  HistoryInv'
  <2>1. CASE \E p \in Tellers : CommitDeposit(p)
    BY <1>3, <2>1, DepositKeepsBooks
  <2>2. ASSUME NEW p \in Tellers,
               \/ \E a \in Accounts \cup {NoAccount}, n \in DepositAmounts : CallDeposit(p, a, n)
               \/ RefuseDeposit(p) \/ ReadBalance(p) \/ UpdateBalance(p) \/ UpdateTimeout(p)
               \/ AnswerDeposit(p) \/ DepositFault(p)
        PROVE  HistoryInv'
    <3>1. /\ db' = db
          /\ \E place \in {"idle", "read", "update", "commit"} : at' = [at EXCEPT ![p] = place]
          /\ at'[p] = "commit" => at[p] = "update" /\ into' = into /\ seen' = seen
          /\ \A u \in Tellers \ {p} : into'[u] = into[u] /\ seen'[u] = seen[u]
      BY <2>2
      DEF CallDeposit, RefuseDeposit, ReadBalance, UpdateBalance, UpdateTimeout, AnswerDeposit,
          DepositFault, Rollback, Tell, DepositGoTo, dbVars, ExchangeInv, DepositInv, DepositTypeOK
    <3>2. \A u \in Tellers :
            /\ ~ (at[u] = "commit" /\ at'[u] = "refresh")
            /\ at'[u] = "commit" =>
                 at[u] \in {"update", "commit"} /\ into'[u] = into[u] /\ seen'[u] = seen[u]
      BY <3>1 DEF ExchangeInv, DepositInv, DepositTypeOK
    <3>. QED
      BY <1>3, <3>1, <3>2, BooksUntouched
  <2>. QED
    BY <1>3, <2>1, <2>2 DEF Depositing, DepositNext, DepositStep
<1>4. ASSUME ProcessDies, HistoryNext
      PROVE  HistoryInv'
  <2>1. db' = db /\ \A p \in Tellers : at'[p] = "idle"
    BY <1>4 DEF ProcessDies, Crash, Recover, DepositsDie
  <2>. QED
    BY <1>4, <2>1, BooksUntouched
<1>. QED
  BY <1>1, <1>2, <1>3, <1>4 DEF MCNext, ExchangeNext

\* An account whose balance is not what was moved into it, less what was moved out, was
\* written by a deposit that had read another balance than it overwrote: the SELECT of
\* credit_balance outside its transaction is the one way to lose an update.
THEOREM OnlyStaleDepositsHarm == MCSpec => []OnlyStaleDepositsLoseUpdates
<1>1. MCInit => ExchangeInv /\ HistoryInv
  <2> SUFFICES ASSUME MCInit
               PROVE  ExchangeInv /\ HistoryInv
    OBVIOUS
  <2>1. ExchangeInv
    BY ExchangeInit_Inv DEF MCInit
  <2>2. db.balance = InitialBalance /\ db.transactions = <<>>
    BY DEF MCInit, ExchangeInit, Init, DatabaseInit, EmptyImage
  <2>3. \A a \in Accounts : Outflow(a) = 0 /\ Inflow(a) = 0
    BY <2>2, TurnoverOfNone DEF Outflow, Inflow
  <2>4. OnlyStaleDepositsLoseUpdates
    <3>1. \A a \in Accounts : deposited[a] = 0
      BY DEF MCInit, HistoryInit
    <3>2. \A a \in Accounts : db.balance[a] = InitialBalance[a] /\ InitialBalance[a] \in Nat
      BY <2>2, TermsAssumption
    <3>3. ASSUME NEW a \in Accounts
          PROVE  Balances(a)
      <4>1. Outflow(a) = 0 /\ Inflow(a) = 0 /\ deposited[a] = 0
        BY <2>3, <3>1
      <4>2. db.balance[a] = InitialBalance[a] /\ InitialBalance[a] \in Nat
        BY <3>2
      <4>. QED
        BY <4>1, <4>2 DEF Balances
    <3>. QED
      BY <3>3 DEF OnlyStaleDepositsLoseUpdates
  <2>5. \A p \in Tellers : at[p] = "idle"
    BY DEF MCInit, ExchangeInit, DepositInit
  <2>6. deposited \in [Accounts -> Nat]
    BY DEF MCInit, HistoryInit
  <2>. QED
    BY <2>1, <2>4, <2>5, <2>6 DEF HistoryInv
<1>2. ExchangeInv /\ HistoryInv /\ [MCNext]_<<exchangeVars, history>>
        => (ExchangeInv /\ HistoryInv)'
  BY HistoryStep, ExchangeNext_Inv DEF MCNext
<1>3. HistoryInv => OnlyStaleDepositsLoseUpdates
  BY DEF HistoryInv
<1>. QED
  BY <1>1, <1>2, <1>3, PTL DEF MCSpec


=============================================================================
