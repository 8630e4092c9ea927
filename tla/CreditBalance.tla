--------------------------- MODULE CreditBalance ---------------------------
(***************************************************************************)
(* POST /api/v1/customers/{id}/balances/credit (credit_balance of           *)
(* app/services/customer_service.py), on the database the executions share. *)
(*                                                                         *)
(* The handler reads the balance outside a transaction, adds to what it    *)
(* read, and writes the sum as an absolute value: the write lock is taken  *)
(* by the UPDATE, not before the read.                                     *)
(***************************************************************************)
EXTENDS Database

CONSTANTS
  Tellers,         \* the threads that serve these calls
  DepositAmounts,  \* the amounts clients send, zero and less standing for 0
  NoAccount,       \* an unknown customer, or an unsupported currency
  MaxDeposits      \* bound on how many calls a thread serves

ASSUME DepositsAssumption ==
  /\ NoOne \notin Tellers
  /\ NoAccount \notin Accounts
  /\ DepositAmounts \subseteq Nat
  /\ MaxDeposits \in Nat

VARIABLES
  at,      \* where each thread is
  into,    \* the account its call names
  amount,  \* what it adds
  seen,    \* previous_amount: the balance it has read
  served,  \* how many calls it has taken
  told     \* its last answer

depositVars == <<at, into, amount, seen, served, told>>

DepositPlaces == {"idle", "read", "update", "commit", "refresh"}

DepositAnswers == {"NONE", "OK", "REFUSED", "INTERNAL_ERROR"}

DepositInit ==
  /\ at = [p \in Tellers |-> "idle"]
  /\ into = [p \in Tellers |-> NoAccount]
  /\ amount = [p \in Tellers |-> 0]
  /\ seen = [p \in Tellers |-> 0]
  /\ served = [p \in Tellers |-> 0]
  /\ told = [p \in Tellers |-> "NONE"]

-----------------------------------------------------------------------------
DepositGoTo(p, place) == at' = [at EXCEPT ![p] = place]

Tell(p, answer) ==
  /\ DepositGoTo(p, "idle")
  /\ told' = [told EXCEPT ![p] = answer]
  /\ UNCHANGED <<into, amount, seen, served>>

CallDeposit(p, a, n) ==
  /\ at[p] = "idle"
  /\ served[p] < MaxDeposits
  /\ served' = [served EXCEPT ![p] = @ + 1]
  /\ into' = [into EXCEPT ![p] = a]
  /\ amount' = [amount EXCEPT ![p] = n]
  /\ told' = [told EXCEPT ![p] = "NONE"]
  /\ DepositGoTo(p, "read")
  /\ UNCHANGED <<dbVars, seen>>

\* Unsupported currency, an amount that is not positive, unknown customer.
RefuseDeposit(p) ==
  /\ at[p] = "read"
  /\ into[p] = NoAccount \/ amount[p] = 0
  /\ Tell(p, "REFUSED")
  /\ UNCHANGED dbVars

\* The SELECT runs by itself: nothing is locked, and it sees what is committed.
ReadBalance(p) ==
  /\ at[p] = "read"
  /\ into[p] # NoAccount /\ amount[p] > 0
  /\ seen' = [seen EXCEPT ![p] = db.balance[into[p]]]
  /\ DepositGoTo(p, "update")
  /\ UNCHANGED <<dbVars, into, amount, served, told>>

\* A slip: the UPDATE does not wait for the write lock.
UpdateUnlocked(p) ==
  /\ at[p] = "update"
  /\ db' = [db EXCEPT !.balance[into[p]] = seen[p] + amount[p]]
  /\ DepositGoTo(p, "refresh")
  /\ UNCHANGED <<tx, lock, into, amount, seen, served, told>>

\* The flush in commit() opens a transaction with the UPDATE.
UpdateBalance(p) ==
  /\ at[p] = "update"
  /\ lock = NoOne
  /\ lock' = p
  /\ tx' = [db EXCEPT !.balance[into[p]] = seen[p] + amount[p]]
  /\ DepositGoTo(p, "commit")
  /\ UNCHANGED <<db, into, amount, seen, served, told>>

UpdateTimeout(p) ==
  /\ at[p] = "update"
  /\ lock # NoOne
  /\ Tell(p, "INTERNAL_ERROR")
  /\ UNCHANGED dbVars

CommitDeposit(p) ==
  /\ at[p] = "commit"
  /\ Commit(p)
  /\ DepositGoTo(p, "refresh")
  /\ UNCHANGED <<into, amount, seen, served, told>>

\* refresh() reads the row again for the answer.
AnswerDeposit(p) ==
  /\ at[p] = "refresh"
  /\ Tell(p, "OK")
  /\ UNCHANGED dbVars

\* A slip: the exception leaves the deposit in the file.
DepositFaultCommits(p) ==
  /\ \/ at[p] = "commit" /\ Commit(p)
     \/ at[p] \in {"read", "update", "refresh"} /\ UNCHANGED dbVars
  /\ Tell(p, "INTERNAL_ERROR")

DepositFault(p) ==
  /\ \/ at[p] = "commit" /\ Rollback(p)
     \/ at[p] \in {"read", "update", "refresh"} /\ UNCHANGED dbVars
  /\ Tell(p, "INTERNAL_ERROR")

DepositStep(p) ==
  \/ RefuseDeposit(p) \/ ReadBalance(p) \/ UpdateBalance(p) \/ UpdateTimeout(p)
  \/ CommitDeposit(p) \/ AnswerDeposit(p)

\* What a crash leaves of the calls in flight; the database recovers by itself.
DepositsDie ==
  /\ at' = [p \in Tellers |-> "idle"]
  /\ UNCHANGED <<into, amount, seen, served, told>>

DepositNext ==
  \E p \in Tellers :
    \/ \E a \in Accounts \cup {NoAccount}, n \in DepositAmounts : CallDeposit(p, a, n)
    \/ DepositStep(p)
    \/ DepositFault(p)

-----------------------------------------------------------------------------
\* The types of this module's own state.
DepositTypeOK ==
  /\ at \in [Tellers -> DepositPlaces]
  /\ into \in [Tellers -> Accounts \cup {NoAccount}]
  /\ amount \in [Tellers -> Nat]
  /\ seen \in [Tellers -> Nat]
  /\ served \in [Tellers -> Nat]
  /\ told \in [Tellers -> DepositAnswers]

\* A thread that has got past its UPDATE holds the write lock.
DepositWriterInv ==
  \A p \in Tellers : at[p] = "commit" <=> lock = p
=============================================================================
