--------------------------- MODULE ExerciseEngine ---------------------------
(***************************************************************************)
(* The engine of the review exercise (planted_bugs): a threaded Flask      *)
(* application with an SQLite file of its own.                             *)
(*                                                                         *)
(* POST /quotes inserts a quote, POST /quotes/{id}/execute settles it.  An *)
(* execution looks its key up, checks the quote in a second connection     *)
(* outside any lock, then takes _execute_lock for the UPDATE and the       *)
(* INSERT, and commits when the connection is closed.  The UPDATE takes    *)
(* the write lock of the file, which outlives _execute_lock.               *)
(***************************************************************************)
EXTENDS Integers, Sequences

CONSTANTS
  Workers,        \* the threads of the server
  Quotes,         \* quotes, each as its one request asks for it:
  From, To,       \* their currencies,
  Amount,         \* and amounts, zero and less among them
  Listed,         \* the pairs of _SEED_MID; a refresh changes none of them
  Usd,
  Keys,           \* values of Idempotency-Key
  NoKey,          \* no such header, or an empty one
  NoOne,          \* not a thread
  Ttl,            \* QUOTE_TTL_SECONDS
  MaxTime,        \* bound on the clock
  MaxExecutions,  \* bound on the executions that are called
  MaxCrashes      \* bound on crashes

ASSUME ExerciseAssumption ==
  /\ Quotes # {}
  /\ Amount \in [Quotes -> Int]
  /\ NoKey \notin Keys
  /\ NoOne \notin Workers
  /\ Ttl \in Nat /\ MaxTime \in Nat /\ MaxExecutions \in Nat /\ MaxCrashes \in Nat

VARIABLES
  file,         \* the committed file
  work,         \* the file as the thread with the write lock sees it
  writeLock,    \* who has the write lock of the file
  executeLock,  \* who has _execute_lock
  now,
  crashes,
  at,           \* where each thread is
  asked,        \* the quote and the key of its call
  stamp,        \* now, as its check has read it
  told,         \* its last answer
  served        \* how many executions have been called

fileVars == <<file, work, writeLock>>

exerciseVars ==
  <<fileVars, executeLock, now, crashes, at, asked, stamp, told, served>>

-----------------------------------------------------------------------------
(* The file *)

Transactions == [quote : Quotes, key : Keys \cup {NoKey}, executedAt : Nat]

\* A reply is the position of its transaction; 0 if the key is unused.
Files ==
  [ status       : [Quotes -> {"ABSENT", "OPEN", "EXECUTED"}],
    expiresAt    : [Quotes -> Nat],
    transactions : Seq(Transactions),
    idempotency  : [Keys -> Nat] ]

EmptyFile ==
  [ status       |-> [q \in Quotes |-> "ABSENT"],
    expiresAt    |-> [q \in Quotes |-> 0],
    transactions |-> <<>>,
    idempotency  |-> [k \in Keys |-> 0] ]

WithQuote(f, q, t) ==
  [f EXCEPT !.status[q] = "OPEN", !.expiresAt[q] = t + Ttl]

WithFlag(f, q) == [f EXCEPT !.status[q] = "EXECUTED"]

WithTransaction(f, row) == [f EXCEPT !.transactions = Append(@, row)]

\* A slip: the reply names the transaction after its own.
WithNextReply(f, k) == [f EXCEPT !.idempotency[k] = Len(f.transactions) + 1]

WithReply(f, k) == [f EXCEPT !.idempotency[k] = Len(f.transactions)]

-----------------------------------------------------------------------------
NoAnswer == [code |-> "NONE", transaction |-> 0]

Answers ==
  [code : {"NONE", "CREATED", "OK", "BAD_REQUEST", "INTERNAL_ERROR"}, transaction : Nat]

NoCall == [quote |-> CHOOSE q \in Quotes : TRUE, key |-> NoKey]

ExerciseInit ==
  /\ file = EmptyFile /\ work = EmptyFile
  /\ writeLock = NoOne /\ executeLock = NoOne
  /\ now = 0 /\ crashes = 0 /\ served = 0
  /\ at = [p \in Workers |-> "idle"]
  /\ asked = [p \in Workers |-> NoCall]
  /\ stamp = [p \in Workers |-> 0]
  /\ told = [p \in Workers |-> NoAnswer]

GoTo(p, place) ==
  /\ at' = [at EXCEPT ![p] = place]
  /\ UNCHANGED <<asked, served, told, now, crashes>>

Answer(p, code, transaction) ==
  /\ at' = [at EXCEPT ![p] = "idle"]
  /\ told' = [told EXCEPT ![p] = [code |-> code, transaction |-> transaction]]
  /\ stamp' = [stamp EXCEPT ![p] = 0]
  /\ UNCHANGED <<asked, served, now, crashes>>

Quote(p) == asked[p].quote

Key(p) == asked[p].key

\* _effective_rate: the pair, its inverse, or each of its currencies against USD.
HasRate(from, to) ==
  LET listed(a, b) == <<a, b>> \in Listed \/ <<b, a>> \in Listed
  IN  listed(from, to) \/ (listed(from, Usd) /\ listed(Usd, to))

\* A slip: get_db commits in its "finally".
CloseAfterCommit(p) ==
  /\ IF writeLock = p
       THEN writeLock' = NoOne /\ file' = work
       ELSE UNCHANGED <<writeLock, file>>
  /\ UNCHANGED work

\* A slip: _execute_lock is acquired and released by hand.
KeepExecuteLock(p) == UNCHANGED executeLock

\* "with" releases _execute_lock, whatever is raised under it.
LeaveExecuteLock(p) == executeLock' = IF executeLock = p THEN NoOne ELSE executeLock

\* get_db leaves by an exception: the connection is closed, and what it did not
\* commit is gone.
CloseWithoutCommit(p) ==
  /\ IF writeLock = p
       THEN writeLock' = NoOne /\ work' = file
       ELSE UNCHANGED <<writeLock, work>>
  /\ UNCHANGED file

\* An exception at any statement, answered with 500.
Fail(p) ==
  /\ at[p] # "idle"
  /\ Answer(p, "INTERNAL_ERROR", 0)
  /\ LeaveExecuteLock(p)
  /\ CloseWithoutCommit(p)

-----------------------------------------------------------------------------
(* POST /quotes *)

CallQuote(p, q) ==
  /\ at[p] = "idle"
  /\ file.status[q] = "ABSENT" /\ \A o \in Workers : at[o] # "idle" => Quote(o) # q
  /\ asked' = [asked EXCEPT ![p] = [quote |-> q, key |-> NoKey]]
  /\ told' = [told EXCEPT ![p] = NoAnswer]
  /\ stamp' = [stamp EXCEPT ![p] = now]
  /\ at' = [at EXCEPT ![p] = "quote"]
  /\ UNCHANGED <<fileVars, executeLock, now, crashes, served>>

\* A ValueError, which app.py answers with 400.
Unquotable(q) == Amount[q] <= 0 \/ From[q] = To[q] \/ ~ HasRate(From[q], To[q])

RejectQuote(p) ==
  /\ at[p] = "quote"
  /\ Unquotable(Quote(p))
  /\ Answer(p, "BAD_REQUEST", 0)
  /\ UNCHANGED <<fileVars, executeLock>>

InsertQuote(p) ==
  /\ at[p] = "quote"
  /\ ~ Unquotable(Quote(p))
  /\ writeLock = NoOne
  /\ writeLock' = p
  /\ work' = WithQuote(file, Quote(p), stamp[p])
  /\ GoTo(p, "commit quote")
  /\ UNCHANGED <<file, executeLock, stamp>>

CommitQuote(p) ==
  /\ at[p] = "commit quote"
  /\ file' = work
  /\ writeLock' = NoOne
  /\ Answer(p, "CREATED", 0)
  /\ UNCHANGED <<work, executeLock>>

-----------------------------------------------------------------------------
(* POST /quotes/{id}/execute *)

CallExecute(p, q, k) ==
  /\ at[p] = "idle"
  /\ served < MaxExecutions
  /\ served' = served + 1
  /\ asked' = [asked EXCEPT ![p] = [quote |-> q, key |-> k]]
  /\ told' = [told EXCEPT ![p] = NoAnswer]
  /\ at' = [at EXCEPT ![p] = IF k = NoKey THEN "check" ELSE "look up"]
  /\ UNCHANGED <<fileVars, executeLock, now, crashes, stamp>>

\* Whatever the key was used for is repeated, be it another quote.
Replay(p) ==
  /\ at[p] = "look up"
  /\ file.idempotency[Key(p)] # 0
  /\ Answer(p, "OK", file.idempotency[Key(p)])
  /\ UNCHANGED <<fileVars, executeLock>>

FindNoReply(p) ==
  /\ at[p] = "look up"
  /\ file.idempotency[Key(p)] = 0
  /\ GoTo(p, "check")
  /\ UNCHANGED <<fileVars, executeLock, stamp>>

\* A slip: an executed quote is not refused.
RefusableIfNotOpen(q) == file.status[q] = "ABSENT" \/ file.expiresAt[q] < now

\* A slip: a quote that has just expired is still good.
RefusableLate(q) == file.status[q] # "OPEN" \/ file.expiresAt[q] < now - 1

\* Not found, expired, or executed.  The rate it was quoted at is still listed.
Refusable(q) == file.status[q] # "OPEN" \/ file.expiresAt[q] < now

RefuseExecution(p) ==
  /\ at[p] = "check"
  /\ Refusable(Quote(p))
  /\ Answer(p, "BAD_REQUEST", 0)
  /\ UNCHANGED <<fileVars, executeLock>>

\* The SELECT opens no transaction.
PassCheck(p) ==
  /\ at[p] = "check"
  /\ ~ Refusable(Quote(p))
  /\ stamp' = [stamp EXCEPT ![p] = now]
  /\ GoTo(p, "enter")
  /\ UNCHANGED <<fileVars, executeLock>>

Enter(p) ==
  /\ at[p] = "enter"
  /\ executeLock = NoOne
  /\ executeLock' = p
  /\ GoTo(p, "flag")
  /\ UNCHANGED <<fileVars, stamp>>

FlagQuote(p) ==
  /\ at[p] = "flag"
  /\ writeLock = NoOne
  /\ writeLock' = p
  /\ work' = WithFlag(file, Quote(p))
  /\ GoTo(p, "record")
  /\ UNCHANGED <<file, executeLock, stamp>>

\* The end of "with _execute_lock".
Record(p) ==
  /\ at[p] = "record"
  /\ work' = WithTransaction(work,
       [quote |-> Quote(p), key |-> Key(p), executedAt |-> stamp[p]])
  /\ executeLock' = NoOne
  /\ GoTo(p, IF Key(p) = NoKey THEN "commit" ELSE "reply")
  /\ UNCHANGED <<file, writeLock, stamp>>

\* A slip: INSERT OR REPLACE.
NeverCollides(p) == FALSE

\* The PRIMARY KEY of "idempotency": the key was inserted since the look-up.
Collides(p) == work.idempotency[Key(p)] # 0

LogReply(p) ==
  /\ at[p] = "reply"
  /\ ~ Collides(p)
  /\ work' = WithReply(work, Key(p))
  /\ GoTo(p, "commit")
  /\ UNCHANGED <<file, writeLock, executeLock, stamp>>

\* A slip: get_db closes without committing.
ForgetExecution(p) ==
  /\ at[p] = "commit"
  /\ work' = file
  /\ writeLock' = NoOne
  /\ Answer(p, "OK", Len(work.transactions))
  /\ UNCHANGED <<file, executeLock>>

CommitExecution(p) ==
  /\ at[p] = "commit"
  /\ file' = work
  /\ writeLock' = NoOne
  /\ Answer(p, "OK", Len(work.transactions))
  /\ UNCHANGED <<work, executeLock>>

\* IntegrityError.
KeyTaken(p) == at[p] = "reply" /\ Collides(p) /\ Fail(p)

\* sqlite3.connect waits five seconds for the write lock.
LockTimeout(p) ==
  /\ at[p] \in {"quote", "flag"}
  /\ writeLock # NoOne
  /\ Fail(p)

WorkerStep(p) ==
  \/ RejectQuote(p) \/ InsertQuote(p) \/ CommitQuote(p)
  \/ Replay(p) \/ FindNoReply(p) \/ RefuseExecution(p) \/ PassCheck(p)
  \/ Enter(p) \/ FlagQuote(p) \/ Record(p) \/ LogReply(p) \/ KeyTaken(p)
  \/ CommitExecution(p) \/ LockTimeout(p)

-----------------------------------------------------------------------------
Tick ==
  /\ now < MaxTime
  /\ now' = now + 1
  /\ UNCHANGED <<fileVars, executeLock, crashes, at, asked, stamp, served, told>>

\* The process dies and is started again; the locks were its own.
Crash ==
  /\ crashes < MaxCrashes
  /\ crashes' = crashes + 1
  /\ work' = file
  /\ writeLock' = NoOne /\ executeLock' = NoOne
  /\ at' = [p \in Workers |-> "idle"]
  /\ stamp' = [p \in Workers |-> 0]
  /\ UNCHANGED <<file, now, asked, served, told>>

ExerciseNext ==
  \/ \E p \in Workers :
       \/ \E q \in Quotes : CallQuote(p, q)
       \/ \E q \in Quotes, k \in Keys \cup {NoKey} : CallExecute(p, q, k)
       \/ WorkerStep(p)
       \/ Fail(p)
  \/ Tick
  \/ Crash

ExerciseSpec == ExerciseInit /\ [][ExerciseNext]_exerciseVars

\* A statement of a started call returns: a wait for the file ends after five
\* seconds, and whoever has _execute_lock waits for nothing else.
WorkersKeepRunning == \A p \in Workers : WF_exerciseVars(WorkerStep(p))

-----------------------------------------------------------------------------
(* Properties *)

Places ==
  {"idle", "quote", "commit quote", "look up", "check", "enter", "flag", "record",
   "reply", "commit"}

\* A reply names a row that is there.
WellFormed(f) == f \in Files /\ \A k \in Keys : f.idempotency[k] <= Len(f.transactions)

\* The type invariant.
ExerciseTypeOK ==
  /\ WellFormed(file) /\ WellFormed(work)
  /\ writeLock \in Workers \cup {NoOne}
  /\ executeLock \in Workers \cup {NoOne}
  /\ now \in Nat /\ crashes \in Nat
  /\ at \in [Workers -> Places]
  /\ asked \in [Workers -> [quote : Quotes, key : Keys \cup {NoKey}]]
  /\ stamp \in [Workers -> Nat]
  /\ told \in [Workers -> Answers]
  /\ served \in Nat

Settles(f, q) == \E i \in DOMAIN f.transactions : f.transactions[i].quote = q

\* The flag of a quote and the transaction for it reach the file together, or
\* neither does: no exception between the UPDATE and the INSERT, and no crash, leaves a
\* quote that is executed and paid nothing, or one that paid and is still open.
FlagMeansSettled ==
  \A q \in Quotes : file.status[q] = "EXECUTED" <=> Settles(file, q)

\* A key settles one thing: every transaction made under a key is the one the key
\* is answered with, so there are never two, however many calls with it race past
\* the look-up.
OneTransactionPerKey ==
  \A i \in DOMAIN file.transactions :
    LET k == file.transactions[i].key
    IN  k # NoKey => file.idempotency[k] = i

\* Whoever is told 200 is told of a transaction that is in the file, and of no
\* other one ever after if he gave a key.
AnswersAreKept ==
  \A p \in Workers : told[p].code = "OK" =>
    /\ told[p].transaction \in DOMAIN file.transactions
    /\ Key(p) = NoKey => file.transactions[told[p].transaction].quote = Quote(p)
    /\ Key(p) # NoKey => file.idempotency[Key(p)] = told[p].transaction

\* No settlement is dated after its quote expired, though it may be committed then:
\* the wait for the two locks comes after the check.
DatedInTime ==
  \A i \in DOMAIN file.transactions :
    file.transactions[i].executedAt <= file.expiresAt[file.transactions[i].quote]

\* _execute_lock is taken before the write lock of the file and given back while the
\* other is still held; that never leaves a call waiting for ever.
EveryCallEnds == \A p \in Workers : at[p] # "idle" ~> at[p] = "idle"

\* "A test that fires N parallel executions of the same quote ID and asserts exactly
\* one succeeds" (ASSIGNMENT.md:56-57): no quote is settled twice.
SettledOnce ==
  \A i, j \in DOMAIN file.transactions :
    file.transactions[i].quote = file.transactions[j].quote => i = j
=============================================================================
