------------------------------ MODULE Database ------------------------------
(***************************************************************************)
(* The SQLite file behind the service, as the request threads use it: one  *)
(* committed image, one write lock, and the image the holder of that lock  *)
(* is building.  The engine is opened in WAL mode (app/db/session.py), so a *)
(* reader sees the committed image whatever the writer is doing, and a     *)
(* second writer waits.                                                    *)
(*                                                                         *)
(* The module says what BEGIN IMMEDIATE, COMMIT and ROLLBACK do; which     *)
(* handler issues them, and when, is in the modules that extend this one.  *)
(***************************************************************************)
EXTENDS Integers, Sequences

CONSTANTS
  Accounts,           \* rows of "balances": one per customer and currency
  Quotes,             \* quote identifiers a client may name
  Keys,               \* usable values of the Idempotency-Key header
  From, To,           \* the account a quote debits, the account it credits
  SourceAmount,       \* how much a quote debits
  DestinationAmount,  \* how much a quote credits
  InitialBalance,     \* what the accounts hold at the start
  NoOne,              \* "no writer": not a thread
  NoQuote             \* "no row": not a quote

ASSUME TermsAssumption ==
  /\ From \in [Quotes -> Accounts]
  /\ To \in [Quotes -> Accounts]
  /\ \A q \in Quotes : From[q] # To[q]
  \* No spread is too large for the code, so that a quote may ask for the opposite.
  /\ SourceAmount \in [Quotes -> Int]
  /\ DestinationAmount \in [Quotes -> Int]
  /\ InitialBalance \in [Accounts -> Nat]

ASSUME NoQuoteAssumption == NoQuote \notin Quotes

-----------------------------------------------------------------------------
(* Rows *)

\* A quote that has not been inserted yet is "ABSENT".  QuoteStatus also
\* declares EXPIRED; no code ever stores it.
Statuses == {"ABSENT", "PENDING", "EXECUTED"}

\* A row of "transactions"; its position in the table stands for its id.  The
\* amounts and the rate are those of the quote.
Rows == [quote : Quotes, key : Keys]

\* A row of "idempotency_log", which repeats the quote and the transaction.
\* The stored response body is that transaction.
NoEntry == [quote |-> NoQuote, transaction |-> 0]

Entries == [quote : Quotes \cup {NoQuote}, transaction : Nat]

Images ==
  [ balance      : [Accounts -> Nat],   \* ck_balance_non_negative
    status       : [Quotes -> Statuses],
    expiresAt    : [Quotes -> Nat],
    transactions : Seq(Rows),
    log          : [Keys -> Entries] ]

EmptyImage ==
  [ balance      |-> InitialBalance,
    status       |-> [q \in Quotes |-> "ABSENT"],
    expiresAt    |-> [q \in Quotes |-> 0],
    transactions |-> <<>>,
    log          |-> [k \in Keys |-> NoEntry] ]

-----------------------------------------------------------------------------
VARIABLES
  db,    \* the committed image
  tx,    \* the image the writer sees; the committed one when there is none
  lock   \* the thread that holds the write lock, or NoOne

dbVars == <<db, tx, lock>>

DatabaseInit ==
  /\ db = EmptyImage
  /\ tx = EmptyImage
  /\ lock = NoOne

-----------------------------------------------------------------------------
(* Transactions *)

BeginImmediate(p) ==
  /\ lock = NoOne
  /\ lock' = p
  /\ UNCHANGED <<db, tx>>

Write(p, image) ==
  /\ lock = p
  /\ tx' = image
  /\ UNCHANGED <<db, lock>>

Commit(p) ==
  /\ lock = p
  /\ db' = tx
  /\ lock' = NoOne
  /\ UNCHANGED tx

Rollback(p) ==
  /\ lock = p
  /\ tx' = db
  /\ lock' = NoOne
  /\ UNCHANGED db

\* A transaction whose statements nobody can come between, and nobody sees before
\* its end: an INSERT that is flushed, an UPDATE of the same row, and the commit.
\* Its write lock is free before and after it.
WriteAndCommit(image) ==
  /\ lock = NoOne
  /\ db' = image
  /\ tx' = image
  /\ UNCHANGED lock

\* The process dies: what was not committed is not in the file.
Recover ==
  /\ tx' = db
  /\ lock' = NoOne
  /\ UNCHANGED db
=============================================================================
