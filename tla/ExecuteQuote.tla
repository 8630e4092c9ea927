---------------------------- MODULE ExecuteQuote ----------------------------
(***************************************************************************)
(* POST /api/v1/quotes/{quote_id}/execute, as the worker threads of the     *)
(* service run it (app/services/execute_service.py).                       *)
(*                                                                         *)
(* A request is a thread with a quote and an Idempotency-Key.  It looks for *)
(* an earlier answer under its key, opens BEGIN IMMEDIATE, looks again,    *)
(* checks the quote, moves the money, writes the transaction and the log   *)
(* entry, commits and answers.  Other requests run in between, clients     *)
(* repeat requests, an exception may strike at any statement, the process  *)
(* may die, and time passes.                                               *)
(***************************************************************************)
EXTENDS Database

CONSTANTS
  Requests,       \* the threads; each serves one client call, and its repeats
  NoKey,          \* a header that is absent, blank or too long
  Ttl,            \* QUOTE_TTL_SECONDS, in ticks
  TicksPerSecond, \* the database stamps rows in whole seconds
  MaxTime,        \* bound on the clock
  MaxAttempts,    \* bound on how often one call is sent
  MaxCrashes      \* bound on how often the process dies

ASSUME RequestsAssumption ==
  /\ NoOne \notin Requests
  /\ NoKey \notin Keys

ASSUME BoundsAssumption ==
  /\ Ttl \in Nat /\ TicksPerSecond \in Nat \ {0}
  /\ MaxTime \in Nat /\ MaxAttempts \in Nat /\ MaxCrashes \in Nat

VARIABLES
  clock,     \* the wall clock
  failed,    \* _executions_failed_total, which lives in memory
  crashes,   \* how often the process has died
  pc,        \* where each request is
  quoteOf,   \* the quote a request names
  keyOf,     \* the key it carries
  attempts,  \* how often its client has sent it
  row,       \* the transaction it has inserted, if it has got that far
  reply      \* the last answer to it

requestVars == <<pc, quoteOf, keyOf, attempts, row, reply>>

vars == <<dbVars, clock, failed, crashes, requestVars>>

-----------------------------------------------------------------------------
(* Where a request can be *)

InTransaction == {"replay", "quote", "debit", "credit", "record", "log", "commit"}

\* The checks are behind it, and its transaction goes through unless it fails.
Settling == {"debit", "credit", "record", "log", "commit"}

Places ==
  {"idle", "preflight", "begin", "conflict", "respond", "done"} \cup InTransaction

Refusals ==
  {"MISSING_IDEMPOTENCY_KEY", "IDEMPOTENCY_KEY_CONFLICT", "QUOTE_NOT_FOUND",
   "QUOTE_ALREADY_EXECUTED", "QUOTE_EXPIRED", "INSUFFICIENT_BALANCE"}

\* "NONE" is no answer yet, or a connection that closed without one.
Codes == {"NONE", "CREATED", "OK", "INTERNAL_ERROR"} \cup Refusals

Replies == [code : Codes, transaction : Nat]

NoReply == [code |-> "NONE", transaction |-> 0]

Error(code) == [code |-> code, transaction |-> 0]

Init ==
  /\ DatabaseInit
  /\ clock = 0
  /\ failed = 0
  /\ crashes = 0
  /\ pc = [r \in Requests |-> "idle"]
  /\ quoteOf \in [Requests -> Quotes]
  /\ keyOf \in [Requests -> Keys \cup {NoKey}]
  /\ attempts = [r \in Requests |-> 0]
  /\ row = [r \in Requests |-> 0]
  /\ reply = [r \in Requests |-> NoReply]

-----------------------------------------------------------------------------
(* Steps of a request *)

GoTo(r, place) == pc' = [pc EXCEPT ![r] = place]

Answer(r, answer) ==
  /\ pc' = [pc EXCEPT ![r] = "done"]
  /\ row' = [row EXCEPT ![r] = 0]
  /\ reply' = [reply EXCEPT ![r] = answer]

SameCall == UNCHANGED <<quoteOf, keyOf, attempts>>

SameWorld == UNCHANGED <<clock, crashes>>

\* The next statement, with no answer yet.
Proceed(r, place) ==
  /\ GoTo(r, place)
  /\ UNCHANGED <<failed, row, reply>> /\ SameCall /\ SameWorld

\* A client calls, or repeats a call: after an error, a lost connection, or
\* for no reason.  The thread pool starts a thread with a session of its own.
Send(r) ==
  /\ pc[r] \in {"idle", "done"}
  /\ attempts[r] < MaxAttempts
  /\ attempts' = [attempts EXCEPT ![r] = @ + 1]
  /\ row' = [row EXCEPT ![r] = 0]
  /\ reply' = [reply EXCEPT ![r] = NoReply]
  /\ GoTo(r, "preflight")
  /\ UNCHANGED <<dbVars, failed, quoteOf, keyOf>> /\ SameWorld

\* _validate_idempotency_key raises.
RejectKey(r) ==
  /\ pc[r] = "preflight"
  /\ keyOf[r] = NoKey
  /\ Answer(r, Error("MISSING_IDEMPOTENCY_KEY"))
  /\ UNCHANGED <<dbVars, failed>> /\ SameCall /\ SameWorld

\* _load_idempotency_replay on an image: the key is unknown, was used for this
\* quote, or was used for another.
Unused(r, image) == image.log[keyOf[r]] = NoEntry

Replayable(r, image) == image.log[keyOf[r]].quote = quoteOf[r]

Conflicting(r, image) == ~Unused(r, image) /\ ~Replayable(r, image)

\* A slip: the newest transaction is replayed, not the one that was logged.
ReplayOfNewest(r, image) ==
  [code |-> "OK", transaction |-> Len(image.transactions)]

\* The entry of the log names a transaction that is there (LogAgrees).
ReplayOf(r, image) ==
  [code |-> "OK", transaction |-> image.log[keyOf[r]].transaction]

\* The look-up before the transaction reads the committed image.  It is
\* outside the try block, so a conflict here is not counted.
Preflight(r) ==
  /\ pc[r] = "preflight"
  /\ keyOf[r] # NoKey
  /\ \/ /\ Unused(r, db)
        /\ GoTo(r, "begin")
        /\ UNCHANGED <<row, reply>>
     \/ /\ Replayable(r, db)
        /\ Answer(r, ReplayOf(r, db))
     \/ /\ Conflicting(r, db)
        /\ Answer(r, Error("IDEMPOTENCY_KEY_CONFLICT"))
  /\ UNCHANGED <<dbVars, failed>> /\ SameCall /\ SameWorld

\* immediate_transaction: BEGIN IMMEDIATE waits for the write lock...
Begin(r) ==
  /\ pc[r] = "begin"
  /\ BeginImmediate(r)
  /\ Proceed(r, "replay")

\* ...and gives up after busy_timeout: "database is locked", which is not an
\* AppError.
BeginTimeout(r) ==
  /\ pc[r] = "begin"
  /\ lock # NoOne
  /\ Answer(r, Error("INTERNAL_ERROR"))
  /\ UNCHANGED <<dbVars, failed>> /\ SameCall /\ SameWorld

\* An AppError inside the transaction rolls back and is counted.
Refuse(r, code) ==
  /\ Rollback(r)
  /\ Answer(r, Error(code))
  /\ failed' = failed + 1
  /\ SameCall /\ SameWorld

\* A slip: the first look-up is taken for enough.
NoReplayInside(r) ==
  /\ pc[r] = "replay"
  /\ UNCHANGED dbVars
  /\ Proceed(r, "quote")

\* The second look-up, under the lock.  Returning from the with block commits.
ReplayInside(r) ==
  /\ pc[r] = "replay"
  /\ \/ /\ Unused(r, tx)
        /\ UNCHANGED dbVars
        /\ Proceed(r, "quote")
     \/ /\ Replayable(r, tx)
        /\ Commit(r)
        /\ Answer(r, ReplayOf(r, tx))
        /\ UNCHANGED failed /\ SameCall /\ SameWorld
     \/ /\ Conflicting(r, tx)
        /\ Refuse(r, "IDEMPOTENCY_KEY_CONFLICT")

\* A slip: a tick too late.
ExpiredLate(q, image) == image.expiresAt[q] + 1 < clock

\* At the instant expires_at itself the quote can still be executed.
Expired(q, image) == image.expiresAt[q] < clock

\* A slip: the status is not looked at.
CheckExpiryOnly(r) ==
  LET q == quoteOf[r]
  IN  /\ pc[r] = "quote"
      /\ \/ /\ tx.status[q] = "ABSENT"
            /\ Refuse(r, "QUOTE_NOT_FOUND")
         \/ /\ tx.status[q] # "ABSENT"
            /\ Expired(q, tx)
            /\ Refuse(r, "QUOTE_EXPIRED")
         \/ /\ tx.status[q] # "ABSENT"
            /\ ~Expired(q, tx)
            /\ UNCHANGED dbVars
            /\ Proceed(r, "debit")

CheckQuote(r) ==
  LET q == quoteOf[r]
  IN  /\ pc[r] = "quote"
      /\ \/ /\ tx.status[q] = "ABSENT"
            /\ Refuse(r, "QUOTE_NOT_FOUND")
         \/ /\ tx.status[q] = "EXECUTED"
            /\ Refuse(r, "QUOTE_ALREADY_EXECUTED")
         \/ /\ tx.status[q] = "PENDING"
            /\ Expired(q, tx)
            /\ Refuse(r, "QUOTE_EXPIRED")
         \/ /\ tx.status[q] = "PENDING"
            /\ ~Expired(q, tx)
            /\ UNCHANGED dbVars
            /\ Proceed(r, "debit")

Debited(image, q) ==
  [image EXCEPT !.balance[From[q]] = @ - SourceAmount[q]]

\* A slip: the amount that was debited is credited.
CreditedUnconverted(image, q) ==
  [image EXCEPT !.balance[To[q]] = @ + SourceAmount[q]]

Credited(image, q) ==
  [image EXCEPT !.balance[To[q]] = @ + DestinationAmount[q]]

\* The status and the row of "transactions" go in with one flush.
Recorded(image, q, k) ==
  [image EXCEPT !.status[q] = "EXECUTED",
                !.transactions = Append(@, [quote |-> q, key |-> k])]

Logged(image, q, k, t) ==
  [image EXCEPT !.log[k] = [quote |-> q, transaction |-> t]]

\* A slip: the balance is not compared with the amount.
DebitUnchecked(r) ==
  /\ pc[r] = "debit"
  /\ Write(r, Debited(tx, quoteOf[r]))
  /\ Proceed(r, "credit")

\* A slip: instead of refusing, the thread waits for a deposit, under the lock.
DebitWaits(r) ==
  /\ pc[r] = "debit"
  /\ tx.balance[From[quoteOf[r]]] >= SourceAmount[quoteOf[r]]
  /\ Write(r, Debited(tx, quoteOf[r]))
  /\ Proceed(r, "credit")

\* A customer has a row for every currency, so that one is found.
Debit(r) ==
  LET q == quoteOf[r]
  IN  /\ pc[r] = "debit"
      /\ \/ /\ tx.balance[From[q]] < SourceAmount[q]
            /\ Refuse(r, "INSUFFICIENT_BALANCE")
         \/ /\ tx.balance[From[q]] >= SourceAmount[q]
            /\ Write(r, Debited(tx, q))
            /\ Proceed(r, "credit")

\* A slip: the table has no constraint.
CreditUnchecked(r) ==
  /\ pc[r] = "credit"
  /\ Write(r, Credited(tx, quoteOf[r]))
  /\ Proceed(r, "record")

\* ck_balance_non_negative is the only check of what is credited, and a negative
\* amount may fail it.  The UPDATE goes out with the flush that inserts the
\* transaction; nobody can tell, as the exception takes all of it back.
Credit(r) ==
  LET q == quoteOf[r]
  IN  /\ pc[r] = "credit"
      /\ \/ /\ tx.balance[To[q]] + DestinationAmount[q] < 0
            /\ Rollback(r)
            /\ Proceed(r, "conflict")
         \/ /\ tx.balance[To[q]] + DestinationAmount[q] >= 0
            /\ Write(r, Credited(tx, q))
            /\ Proceed(r, "record")

\* The handler of IntegrityError looks the key up once more, without the lock, and
\* raises the exception again if it is still unused.  What it raises is not counted.
LateAnswer(r, image) ==
  CASE Unused(r, image)      -> Error("INTERNAL_ERROR")
    [] Replayable(r, image)  -> ReplayOf(r, image)
    [] Conflicting(r, image) -> Error("IDEMPOTENCY_KEY_CONFLICT")

LookAgain(r) ==
  /\ pc[r] = "conflict"
  /\ Answer(r, LateAnswer(r, db))
  /\ UNCHANGED <<dbVars, failed>> /\ SameCall /\ SameWorld

Record(r) ==
  /\ pc[r] = "record"
  /\ Write(r, Recorded(tx, quoteOf[r], keyOf[r]))
  /\ row' = [row EXCEPT ![r] = Len(tx.transactions) + 1]
  /\ GoTo(r, "log")
  /\ UNCHANGED <<failed, reply>> /\ SameCall /\ SameWorld

Log(r) ==
  /\ pc[r] = "log"
  /\ Write(r, Logged(tx, quoteOf[r], keyOf[r], row[r]))
  /\ Proceed(r, "commit")

CommitAll(r) ==
  /\ pc[r] = "commit"
  /\ Commit(r)
  /\ Proceed(r, "respond")

\* 201 with the body that was logged.
Respond(r) ==
  /\ pc[r] = "respond"
  /\ Answer(r, [code |-> "CREATED", transaction |-> row[r]])
  /\ UNCHANGED <<dbVars, failed>> /\ SameCall /\ SameWorld

\* A slip: the exception leaves by the path that commits.
FaultCommits(r) ==
  /\ \/ /\ pc[r] \in InTransaction
        /\ Commit(r)
     \/ /\ pc[r] \in {"preflight", "conflict", "respond"}
        /\ UNCHANGED dbVars
  /\ Answer(r, Error("INTERNAL_ERROR"))
  /\ UNCHANGED failed /\ SameCall /\ SameWorld

\* Any other exception: the transaction is rolled back if it is open, and the
\* client gets a 500 that nobody counts.  After the commit the handler still
\* reads the transaction row, so the 500 can follow a settlement.
Fault(r) ==
  /\ \/ /\ pc[r] \in InTransaction
        /\ Rollback(r)
     \/ /\ pc[r] \in {"preflight", "conflict", "respond"}
        /\ UNCHANGED dbVars
  /\ Answer(r, Error("INTERNAL_ERROR"))
  /\ UNCHANGED failed /\ SameCall /\ SameWorld

\* What the thread does of itself.
Step(r) ==
  \/ RejectKey(r) \/ Preflight(r) \/ Begin(r) \/ BeginTimeout(r)
  \/ ReplayInside(r) \/ CheckQuote(r) \/ Debit(r) \/ Credit(r) \/ LookAgain(r)
  \/ Record(r) \/ Log(r) \/ CommitAll(r) \/ Respond(r)

-----------------------------------------------------------------------------
(* The rest of the world *)

\* POST /api/v1/quotes, whose reads and checks are those of another component:
\* here it only inserts the row.  expires_at counts from created_at, which
\* the database truncates to the second.
OfferQuote(q) ==
  /\ db.status[q] = "ABSENT"
  /\ WriteAndCommit([db EXCEPT
       !.status[q] = "PENDING",
       !.expiresAt[q] = (clock - (clock % TicksPerSecond)) + Ttl])
  /\ UNCHANGED <<clock, failed, crashes, requestVars>>

Tick ==
  /\ clock < MaxTime
  /\ clock' = clock + 1
  /\ UNCHANGED <<dbVars, failed, crashes, requestVars>>

\* The process dies and is started again: open transactions are gone, calls in
\* flight get no answer, and the counter starts from zero.
Crash ==
  /\ crashes < MaxCrashes
  /\ crashes' = crashes + 1
  /\ Recover
  /\ failed' = 0
  /\ pc' = [r \in Requests |-> IF pc[r] = "idle" THEN "idle" ELSE "done"]
  /\ row' = [r \in Requests |-> 0]
  /\ UNCHANGED <<clock, quoteOf, keyOf, attempts, reply>>

Next ==
  \/ \E r \in Requests : Send(r) \/ Step(r) \/ Fault(r)
  \/ \E q \in Quotes : OfferQuote(q)
  \/ Tick
  \/ Crash

Spec == Init /\ [][Next]_vars

-----------------------------------------------------------------------------
(* Properties *)

\* The types of all but the lock, which threads of other kinds may hold too.
RequestsTypeOK ==
  /\ db \in Images
  /\ tx \in Images
  /\ clock \in Nat
  /\ failed \in Nat
  /\ crashes \in Nat
  /\ pc \in [Requests -> Places]
  /\ quoteOf \in [Requests -> Quotes]
  /\ keyOf \in [Requests -> Keys \cup {NoKey}]
  /\ attempts \in [Requests -> Nat]
  /\ row \in [Requests -> Nat]
  /\ reply \in [Requests -> Replies]

\* The type invariant.
TypeOK == RequestsTypeOK /\ lock \in Requests \cup {NoOne}

\* A quote is executed at most once: it has at most one transaction.
SettledOnce(image) ==
  \A i, j \in DOMAIN image.transactions :
    image.transactions[i].quote = image.transactions[j].quote => i = j

\* A quote is EXECUTED exactly when it has a transaction.
StatusAgrees(image) ==
  \A q \in Quotes :
    (image.status[q] = "EXECUTED") <=>
      \E i \in DOMAIN image.transactions : image.transactions[i].quote = q

\* A key is logged exactly when a transaction carries it, and the entry names
\* that transaction and its quote.
LogAgrees(image) ==
  /\ \A i \in DOMAIN image.transactions :
       image.log[image.transactions[i].key] =
         [quote |-> image.transactions[i].quote, transaction |-> i]
  /\ \A k \in Keys :
       image.log[k] # NoEntry =>
         LET e == image.log[k]
         IN  /\ e.transaction \in DOMAIN image.transactions
             /\ image.transactions[e.transaction] = [quote |-> e.quote, key |-> k]

\* All or nothing: status, transaction and idempotency entry of a settlement
\* are in the file together or not at all, whatever failed or crashed between
\* them, and no quote is settled twice, whoever raced for it.
Ledger(image) == SettledOnce(image) /\ StatusAgrees(image) /\ LogAgrees(image)

AllOrNothing == Ledger(db)

\* A client that was told 201 or 200 was told the truth: the transaction it was
\* given is in the file, for the quote it named and under the key it sent.
\* Retries and duplicates of a call are therefore all given the same one.
HoldsItsRow(r, t) ==
  /\ t \in DOMAIN db.transactions
  /\ db.transactions[t] = [quote |-> quoteOf[r], key |-> keyOf[r]]

AnsweredTruthfully ==
  \A r \in Requests :
    reply[r].code \in {"CREATED", "OK"} => HoldsItsRow(r, reply[r].transaction)

\* Of all the threads that have executed one quote, one is told that it created
\* the transaction.
Creator(r) == reply[r].code = "CREATED" \/ pc[r] = "respond"

OneCreation ==
  \A r, s \in Requests :
    Creator(r) /\ Creator(s) /\ quoteOf[r] = quoteOf[s] => r = s

\* A client that sticks to its key is never told that the quote was executed by
\* somebody else when it was executed by itself: behind an answer "already
\* executed" there is a transaction under another key.  This is what the second
\* look-up, under the lock, is for.
ExecutedUnderAnotherKey(r) ==
  \E i \in DOMAIN db.transactions :
    db.transactions[i].quote = quoteOf[r] /\ db.transactions[i].key # keyOf[r]

RefusedForAnotherKey ==
  \A r \in Requests :
    reply[r].code = "QUOTE_ALREADY_EXECUTED" => ExecutedUnderAnotherKey(r)

\* The unique constraints of "transactions" and "idempotency_log" are never
\* what stops a second execution: no insertion can meet them.  The handler of
\* IntegrityError in execute_quote was written for them, and is entered only for
\* a negative amount that would overdraw the account it is credited to.
NoUniqueViolation ==
  \A r \in Requests :
    /\ pc[r] = "record" =>
         \A i \in DOMAIN tx.transactions : tx.transactions[i].quote # quoteOf[r]
    /\ pc[r] = "log" => tx.log[keyOf[r]] = NoEntry

\* The inductive invariant, from which the properties above follow.  The
\* writer is the one thread inside its transaction...
WriterInv ==
  \A r \in Requests : pc[r] \in InTransaction <=> lock = r

\* ...whose image is the committed one with what it has written so far...
WrittenBy(r) ==
  LET q == quoteOf[r]
      k == keyOf[r]
      moved == Credited(Debited(db, q), q)
  IN  /\ pc[r] \in {"replay", "quote", "debit"} => tx = db
      /\ pc[r] = "credit" => tx = Debited(db, q)
      /\ pc[r] = "record" => tx = moved
      /\ pc[r] = "log"    => tx = Recorded(moved, q, k)
      /\ pc[r] = "commit" => tx = Logged(Recorded(moved, q, k), q, k, row[r])

ImageInv == (lock = NoOne => tx = db) /\ \A r \in Requests : WrittenBy(r)

\* ...and what it has checked still holds, because nobody else can write.
\* After its commit it holds the row it is going to answer with.
CheckedBy(r) ==
  /\ pc[r] \notin {"idle", "preflight", "done"} => keyOf[r] \in Keys
  /\ pc[r] \in InTransaction \ {"replay"} => db.log[keyOf[r]] = NoEntry
  /\ pc[r] \in Settling => db.status[quoteOf[r]] = "PENDING"
  /\ pc[r] \in {"credit", "record", "log", "commit"} =>
       db.balance[From[quoteOf[r]]] >= SourceAmount[quoteOf[r]]
  /\ pc[r] \in {"record", "log", "commit"} =>
       db.balance[To[quoteOf[r]]] + DestinationAmount[quoteOf[r]] >= 0
  /\ pc[r] \in {"log", "commit"} => row[r] = Len(db.transactions) + 1
  /\ pc[r] = "respond" => HoldsItsRow(r, row[r])

CheckedInv == \A r \in Requests : CheckedBy(r)

IInv ==
  /\ RequestsTypeOK /\ WriterInv /\ ImageInv /\ CheckedInv
  /\ AllOrNothing /\ AnsweredTruthfully /\ OneCreation /\ RefusedForAnotherKey

\* Nobody is past the expiry check of a quote whose time is over.
Dead(q) ==
  /\ db.status[q] = "PENDING"
  /\ db.expiresAt[q] < clock
  /\ \A r \in Requests : pc[r] \in Settling => quoteOf[r] # q

\* An expired quote stays unexecuted for ever, whatever is retried, and whatever
\* crashes: only a thread that was already past the check can settle late.
ExpiredStaysUnsettled ==
  [][\A q \in Quotes : Dead(q) => Dead(q)']_vars

-----------------------------------------------------------------------------
(* The promise *)

\* Each settlement of the abstract specification is a commit here; everything
\* else a thread does is invisible to it.
SettledUnder == {db.transactions[i] : i \in DOMAIN db.transactions}

Offered == {q \in Quotes : db.status[q] # "ABSENT"}

Promise == INSTANCE Settlement
  WITH balance <- db.balance, offered <- Offered, settled <- SettledUnder,
       DepositAmounts <- {}

\* Executing quotes with threads, retries, faults and crashes implements
\* settling each of them at most once and atomically.
ImplementsSettlement == Promise!Spec
=============================================================================
