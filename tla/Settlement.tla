----------------------------- MODULE Settlement -----------------------------
(***************************************************************************)
(* What executing quotes promises, without threads, locks or failures: a   *)
(* quote on offer is settled at most once, in one step that moves both     *)
(* amounts and binds the quote to the idempotency key of the request that  *)
(* settled it; a key is bound to at most one quote, and no account ends     *)
(* below zero.                                                             *)
(***************************************************************************)
EXTENDS Integers

CONSTANTS
  Accounts, Quotes, Keys,
  From, To, SourceAmount, DestinationAmount, InitialBalance,
  DepositAmounts      \* what a single deposit may add to an account

VARIABLES
  balance,   \* what each account holds
  offered,   \* the quotes that exist
  settled    \* which quote was settled under which key

vars == <<balance, offered, settled>>

Settlements == [quote : Quotes, key : Keys]

Init ==
  /\ balance = InitialBalance
  /\ offered = {}
  /\ settled = {}

Offer(q) ==
  /\ q \notin offered
  /\ offered' = offered \cup {q}
  /\ UNCHANGED <<balance, settled>>

Settle(q, k) ==
  /\ q \in offered
  /\ \A s \in settled : s.quote # q /\ s.key # k
  /\ balance[From[q]] >= SourceAmount[q]
  /\ balance[To[q]] + DestinationAmount[q] >= 0
  /\ balance' = [balance EXCEPT ![From[q]] = @ - SourceAmount[q],
                                ![To[q]]   = @ + DestinationAmount[q]]
  /\ settled' = settled \cup {[quote |-> q, key |-> k]}
  /\ UNCHANGED offered

Deposit(a, n) ==
  /\ balance' = [balance EXCEPT ![a] = @ + n]
  /\ UNCHANGED <<offered, settled>>

Next ==
  \/ \E q \in Quotes : Offer(q)
  \/ \E q \in Quotes, k \in Keys : Settle(q, k)
  \/ \E a \in Accounts, n \in DepositAmounts : Deposit(a, n)

Spec == Init /\ [][Next]_vars
=============================================================================
