----------------------- MODULE ExerciseEngine_proofs -----------------------
(***************************************************************************)
(* Proofs about ExerciseEngine, for any number of threads, quotes and keys *)
(* and any bounds, and about its history as MCExerciseEngine records it.   *)
(***************************************************************************)
EXTENDS MCExerciseEngine, TLAPS

-----------------------------------------------------------------------------
(* The inductive invariant *)

Quoting == {"quote", "commit quote"}

Settling == {"enter", "flag", "record", "reply", "commit"}

\* Who has which lock: the write lock from the first write to the commit,
\* _execute_lock around the two statements under it.
LockInv ==
  \A p \in Workers :
    /\ writeLock = p <=> at[p] \in {"commit quote", "record", "reply", "commit"}
    /\ executeLock = p <=> at[p] \in {"flag", "record"}

Row(p) == [quote |-> Quote(p), key |-> Key(p), executedAt |-> stamp[p]]

SettledBy(p) == WithTransaction(WithFlag(file, Quote(p)), Row(p))

\* The writer's file is the committed one with what it has written so far.
WorkInv ==
  /\ writeLock = NoOne => work = file
  /\ \A p \in Workers :
       /\ at[p] = "commit quote" => work = WithQuote(file, Quote(p), stamp[p])
       /\ at[p] = "record" => work = WithFlag(file, Quote(p))
       /\ at[p] = "reply" => work = SettledBy(p)
       /\ at[p] = "commit" =>
            work = IF Key(p) = NoKey THEN SettledBy(p) ELSE WithReply(SettledBy(p), Key(p))

\* What a thread has checked and still relies on.  That the quote is open is not
\* among it: another thread may settle it in between.
CheckedInv ==
  \A p \in Workers :
    /\ at[p] \in Quoting => file.status[Quote(p)] = "ABSENT"
    /\ at[p] \in Settling =>
         /\ file.status[Quote(p)] # "ABSENT"
         /\ stamp[p] <= file.expiresAt[Quote(p)]
    /\ at[p] \in {"look up", "reply"} => Key(p) \in Keys
    /\ at[p] = "commit" /\ Key(p) # NoKey => file.idempotency[Key(p)] = 0

\* No two threads insert one quote: its id is new.
AloneInv ==
  \A p, o \in Workers :
    at[p] \in Quoting /\ at[o] \in Quoting /\ Quote(p) = Quote(o) => p = o

ExerciseInv ==
  /\ ExerciseTypeOK /\ LockInv /\ WorkInv /\ CheckedInv /\ AloneInv
  /\ FlagMeansSettled /\ OneTransactionPerKey /\ AnswersAreKept /\ DatedInTime

-----------------------------------------------------------------------------
(* Files *)

\* Every statement makes a file of a file, in which a reply names a row that is there.
LEMMA FileTypes ==
  ASSUME NEW f, WellFormed(f)
  PROVE  /\ \A q \in Quotes, t \in Nat : WellFormed(WithQuote(f, q, t))
         /\ \A q \in Quotes : WellFormed(WithFlag(f, q))
         /\ \A row \in Transactions : WellFormed(WithTransaction(f, row))
         /\ \A k \in Keys : WellFormed(WithReply(f, k))
<1>. /\ f.status \in [Quotes -> {"ABSENT", "OPEN", "EXECUTED"}]
     /\ f.expiresAt \in [Quotes -> Nat]
     /\ f.transactions \in Seq(Transactions)
     /\ f.idempotency \in [Keys -> Nat]
     /\ Len(f.transactions) \in Nat
     /\ f \in Files
     /\ \A k \in Keys : f.idempotency[k] <= Len(f.transactions)
  BY DEF Files, WellFormed
<1>1. ASSUME NEW q \in Quotes, NEW t \in Nat
      PROVE  WellFormed(WithQuote(f, q, t))
  <2>1. t + Ttl \in Nat
    BY ExerciseAssumption
  <2>. QED
    BY <2>1 DEF WithQuote, Files, WellFormed
<1>2. ASSUME NEW q \in Quotes
      PROVE  WellFormed(WithFlag(f, q))
  BY DEF WithFlag, Files, WellFormed
<1>3. ASSUME NEW row \in Transactions
      PROVE  WellFormed(WithTransaction(f, row))
  <2>1. /\ Append(f.transactions, row) \in Seq(Transactions)
        /\ Len(Append(f.transactions, row)) = Len(f.transactions) + 1
    OBVIOUS
  <2>2. WithTransaction(f, row) \in Files
    BY <2>1 DEF WithTransaction, Files
  <2>3. /\ WithTransaction(f, row).idempotency = f.idempotency
        /\ Len(WithTransaction(f, row).transactions) = Len(f.transactions) + 1
    BY <2>1 DEF WithTransaction, Files
  <2>4. \A k \in Keys : f.idempotency[k] <= Len(f.transactions) + 1
    OBVIOUS
  <2>. QED
    BY <2>2, <2>3, <2>4 DEF WellFormed
<1>4. ASSUME NEW j \in Keys
      PROVE  WellFormed(WithReply(f, j))
  <2>1. [f.idempotency EXCEPT ![j] = Len(f.transactions)] \in [Keys -> Nat]
    OBVIOUS
  <2>2. /\ WithReply(f, j) \in Files
        /\ WithReply(f, j).transactions = f.transactions
        /\ WithReply(f, j).idempotency = [f.idempotency EXCEPT ![j] = Len(f.transactions)]
    BY <2>1 DEF WithReply, Files
  <2>3. \A k \in Keys : [f.idempotency EXCEPT ![j] = Len(f.transactions)][k] <= Len(f.transactions)
    OBVIOUS
  <2>. QED
    BY <2>2, <2>3 DEF WellFormed
<1>. QED
  BY <1>1, <1>2, <1>3, <1>4

-----------------------------------------------------------------------------
(* The invariant holds at the start *)

LEMMA InitInvariant ==
  ExerciseInit => ExerciseInv
<1>. SUFFICES ASSUME ExerciseInit PROVE ExerciseInv
  OBVIOUS
<1>. USE DEF ExerciseInit
<1>1. WellFormed(EmptyFile) /\ EmptyFile.transactions = <<>>
  BY DEF EmptyFile, Files, WellFormed
<1>2. NoCall \in [quote : Quotes, key : Keys \cup {NoKey}] /\ NoAnswer \in Answers
  BY ExerciseAssumption DEF NoCall, NoAnswer, Answers
<1>3. ExerciseTypeOK
  BY <1>1, <1>2 DEF ExerciseTypeOK, Places
<1>4. LockInv /\ WorkInv /\ CheckedInv /\ AloneInv
  BY ExerciseAssumption DEF LockInv, WorkInv, CheckedInv, AloneInv, Quoting, Settling
<1>5. FlagMeansSettled /\ OneTransactionPerKey /\ AnswersAreKept /\ DatedInTime
  BY <1>1 DEF FlagMeansSettled, Settles, OneTransactionPerKey, AnswersAreKept, DatedInTime,
              EmptyFile, NoAnswer
<1>. QED
  BY <1>3, <1>4, <1>5 DEF ExerciseInv

-----------------------------------------------------------------------------
(* Every step keeps the types *)

LEMMA GoToTypes ==
  ASSUME ExerciseTypeOK, NEW p \in Workers, NEW place \in Places, GoTo(p, place)
  PROVE  /\ at' \in [Workers -> Places]
         /\ asked' \in [Workers -> [quote : Quotes, key : Keys \cup {NoKey}]]
         /\ told' \in [Workers -> Answers]
         /\ now' \in Nat /\ crashes' \in Nat /\ served' \in Nat
  BY DEF ExerciseTypeOK, GoTo

LEMMA AnswerTypes ==
  ASSUME ExerciseTypeOK, NEW p \in Workers, NEW i \in Nat,
         NEW code \in {"NONE", "CREATED", "OK", "BAD_REQUEST", "INTERNAL_ERROR"},
         Answer(p, code, i)
  PROVE  /\ at' \in [Workers -> Places]
         /\ asked' \in [Workers -> [quote : Quotes, key : Keys \cup {NoKey}]]
         /\ stamp' \in [Workers -> Nat]
         /\ told' \in [Workers -> Answers]
         /\ now' \in Nat /\ crashes' \in Nat /\ served' \in Nat
<1>1. [code |-> code, transaction |-> i] \in Answers
  BY DEF Answers
<1>. QED
  BY <1>1 DEF ExerciseTypeOK, Answer, Places

\* What a thread that fails leaves behind.
LEMMA FailTypes ==
  ASSUME ExerciseTypeOK, NEW p \in Workers, Fail(p)
  PROVE  ExerciseTypeOK'
<1>1. /\ at' \in [Workers -> Places]
      /\ asked' \in [Workers -> [quote : Quotes, key : Keys \cup {NoKey}]]
      /\ stamp' \in [Workers -> Nat]
      /\ told' \in [Workers -> Answers]
      /\ now' \in Nat /\ crashes' \in Nat /\ served' \in Nat
  BY AnswerTypes DEF Fail
<1>2. /\ WellFormed(file)' /\ WellFormed(work)'
      /\ writeLock' \in Workers \cup {NoOne} /\ executeLock' \in Workers \cup {NoOne}
  BY DEF Fail, CloseWithoutCommit, LeaveExecuteLock, ExerciseTypeOK, WellFormed
<1>. QED
  BY <1>1, <1>2 DEF ExerciseTypeOK

LEMMA TypeStep ==
  ASSUME ExerciseInv, ExerciseNext
  PROVE  ExerciseTypeOK'
<1>. ExerciseTypeOK /\ CheckedInv
  BY DEF ExerciseInv
<1>. /\ WellFormed(file) /\ WellFormed(work)
     /\ file.idempotency \in [Keys -> Nat] /\ Len(work.transactions) \in Nat
     /\ \A p \in Workers : /\ Quote(p) \in Quotes /\ Key(p) \in Keys \cup {NoKey}
                            /\ stamp[p] \in Nat
  BY DEF ExerciseTypeOK, WellFormed, Files, Quote, Key
<1>1. ASSUME NEW p \in Workers, NEW q \in Quotes, CallQuote(p, q)
      PROVE  ExerciseTypeOK'
  <2>1. NoAnswer \in Answers
    BY DEF NoAnswer, Answers
  <2>. QED
    BY <1>1, <2>1 DEF CallQuote, ExerciseTypeOK, fileVars, Places, WellFormed
<1>2. ASSUME NEW p \in Workers, NEW q \in Quotes, NEW k \in Keys \cup {NoKey},
             CallExecute(p, q, k)
      PROVE  ExerciseTypeOK'
  <2>1. NoAnswer \in Answers
    BY DEF NoAnswer, Answers
  <2>2. served' \in Nat
    <3>1. served' = served + 1
      BY <1>2 DEF CallExecute
    <3>. QED
      BY <3>1 DEF ExerciseTypeOK
  <2>3. at' \in [Workers -> Places]
    BY <1>2 DEF CallExecute, ExerciseTypeOK, Places
  <2>4. told' \in [Workers -> Answers]
    BY <1>2, <2>1 DEF CallExecute, ExerciseTypeOK
  <2>5. asked' \in [Workers -> [quote : Quotes, key : Keys \cup {NoKey}]]
    BY <1>2 DEF CallExecute, ExerciseTypeOK
  <2>. QED
    BY <1>2, <2>2, <2>3, <2>4, <2>5 DEF CallExecute, ExerciseTypeOK, fileVars, WellFormed
<1>3. ASSUME NEW p \in Workers, RejectQuote(p) \/ RefuseExecution(p)
      PROVE  ExerciseTypeOK'
  BY <1>3, AnswerTypes DEF RejectQuote, RefuseExecution, ExerciseTypeOK, fileVars, WellFormed
<1>4. ASSUME NEW p \in Workers, InsertQuote(p)
      PROVE  ExerciseTypeOK'
  <2>1. WellFormed(work')
    BY <1>4, FileTypes DEF InsertQuote
  <2>. QED
    BY <1>4, <2>1, GoToTypes DEF InsertQuote, ExerciseTypeOK, Places, WellFormed
<1>5. ASSUME NEW p \in Workers, CommitQuote(p)
      PROVE  ExerciseTypeOK'
  BY <1>5, AnswerTypes DEF CommitQuote, ExerciseTypeOK, WellFormed
<1>6. ASSUME NEW p \in Workers, Replay(p)
      PROVE  ExerciseTypeOK'
  <2>1. file.idempotency[Key(p)] \in Nat
    BY <1>6 DEF Replay, CheckedInv
  <2>. QED
    BY <1>6, <2>1, AnswerTypes DEF Replay, ExerciseTypeOK, fileVars, WellFormed
<1>7. ASSUME NEW p \in Workers, FindNoReply(p) \/ PassCheck(p) \/ Enter(p)
      PROVE  ExerciseTypeOK'
  BY <1>7, GoToTypes
    DEF FindNoReply, PassCheck, Enter, ExerciseTypeOK, fileVars, Places, WellFormed
<1>8. ASSUME NEW p \in Workers, FlagQuote(p)
      PROVE  ExerciseTypeOK'
  <2>1. WellFormed(work')
    BY <1>8, FileTypes DEF FlagQuote
  <2>. QED
    BY <1>8, <2>1, GoToTypes DEF FlagQuote, ExerciseTypeOK, Places, WellFormed
<1>9. ASSUME NEW p \in Workers, Record(p)
      PROVE  ExerciseTypeOK'
  <2>1. [quote |-> Quote(p), key |-> Key(p), executedAt |-> stamp[p]] \in Transactions
    BY DEF Transactions
  <2>2. WellFormed(work')
    BY <1>9, <2>1, FileTypes DEF Record
  <2>. QED
    BY <1>9, <2>2, GoToTypes DEF Record, ExerciseTypeOK, Places, WellFormed
<1>10. ASSUME NEW p \in Workers, LogReply(p)
       PROVE  ExerciseTypeOK'
  <2>1. WellFormed(work')
    BY <1>10, FileTypes DEF LogReply, CheckedInv
  <2>. QED
    BY <1>10, <2>1, GoToTypes DEF LogReply, ExerciseTypeOK, Places, WellFormed
<1>11. ASSUME NEW p \in Workers, CommitExecution(p)
       PROVE  ExerciseTypeOK'
  BY <1>11, AnswerTypes DEF CommitExecution, ExerciseTypeOK, WellFormed
<1>12. ASSUME NEW p \in Workers, KeyTaken(p) \/ LockTimeout(p) \/ Fail(p)
       PROVE  ExerciseTypeOK'
  BY <1>12, FailTypes DEF KeyTaken, LockTimeout
<1>13. CASE Tick
  BY <1>13 DEF Tick, ExerciseTypeOK, fileVars, WellFormed
<1>14. CASE Crash
  <2>1. WellFormed(file)' /\ WellFormed(work)'
    BY <1>14 DEF Crash, WellFormed
  <2>2. at' \in [Workers -> Places] /\ stamp' \in [Workers -> Nat]
    BY <1>14 DEF Crash, Places
  <2>3. crashes' \in Nat
    BY <1>14 DEF Crash, ExerciseTypeOK
  <2>. QED
    BY <1>14, <2>1, <2>2, <2>3 DEF Crash, ExerciseTypeOK
<1>. QED
  BY <1>1, <1>2, <1>3, <1>4, <1>5, <1>6, <1>7, <1>8, <1>9, <1>10, <1>11, <1>12, <1>13, <1>14
    DEF ExerciseNext, WorkerStep

-----------------------------------------------------------------------------
(* Every step keeps the locks where the places of the threads say they are *)

\* A thread's step is its own.
StepOf(p) ==
  \/ \E q \in Quotes : CallQuote(p, q)
  \/ \E q \in Quotes, k \in Keys \cup {NoKey} : CallExecute(p, q, k)
  \/ WorkerStep(p)
  \/ Fail(p)

LEMMA OthersStay ==
  ASSUME ExerciseTypeOK, NEW p \in Workers, StepOf(p)
  PROVE  /\ now' = now
         /\ \A o \in Workers \ {p} : /\ at'[o] = at[o] /\ asked'[o] = asked[o]
                                     /\ stamp'[o] = stamp[o] /\ told'[o] = told[o]
<1>. USE DEF ExerciseTypeOK
<1>1. ASSUME NEW q \in Quotes, NEW k \in Keys \cup {NoKey},
             CallQuote(p, q) \/ CallExecute(p, q, k)
      PROVE  /\ now' = now
             /\ \A o \in Workers \ {p} : /\ at'[o] = at[o] /\ asked'[o] = asked[o]
                                         /\ stamp'[o] = stamp[o] /\ told'[o] = told[o]
  BY <1>1 DEF CallQuote, CallExecute
<1>2. ASSUME NEW code, NEW i, Answer(p, code, i)
      PROVE  /\ now' = now
             /\ \A o \in Workers \ {p} : /\ at'[o] = at[o] /\ asked'[o] = asked[o]
                                         /\ stamp'[o] = stamp[o] /\ told'[o] = told[o]
  BY <1>2 DEF Answer
<1>3. ASSUME RejectQuote(p) \/ CommitQuote(p) \/ Replay(p) \/ RefuseExecution(p)
             \/ KeyTaken(p) \/ CommitExecution(p) \/ LockTimeout(p) \/ Fail(p)
      PROVE  /\ now' = now
             /\ \A o \in Workers \ {p} : /\ at'[o] = at[o] /\ asked'[o] = asked[o]
                                         /\ stamp'[o] = stamp[o] /\ told'[o] = told[o]
  BY <1>2, <1>3
    DEF RejectQuote, CommitQuote, Replay, RefuseExecution, KeyTaken, CommitExecution,
        LockTimeout, Fail
<1>4. ASSUME InsertQuote(p) \/ FindNoReply(p) \/ PassCheck(p) \/ Enter(p) \/ FlagQuote(p)
             \/ Record(p) \/ LogReply(p)
      PROVE  /\ now' = now
             /\ \A o \in Workers \ {p} : /\ at'[o] = at[o] /\ asked'[o] = asked[o]
                                         /\ stamp'[o] = stamp[o] /\ told'[o] = told[o]
  BY <1>4
    DEF InsertQuote, FindNoReply, PassCheck, Enter, FlagQuote, Record, LogReply, GoTo
<1>. QED
  BY <1>1, <1>3, <1>4 DEF StepOf, WorkerStep

LEMMA LockStep ==
  ASSUME ExerciseInv, ExerciseNext
  PROVE  LockInv'
<1>. ExerciseTypeOK /\ LockInv
  BY DEF ExerciseInv
<1>. USE DEF LockInv, ExerciseTypeOK
<1>1. ASSUME NEW p \in Workers, NEW q \in Quotes, CallQuote(p, q)
      PROVE  LockInv'
  BY <1>1 DEF CallQuote, fileVars
<1>2. ASSUME NEW p \in Workers, NEW q \in Quotes, NEW k \in Keys \cup {NoKey},
             CallExecute(p, q, k)
      PROVE  LockInv'
  BY <1>2 DEF CallExecute, fileVars
<1>3. ASSUME NEW p \in Workers, RejectQuote(p) \/ Replay(p) \/ RefuseExecution(p)
      PROVE  LockInv'
  BY <1>3 DEF RejectQuote, Replay, RefuseExecution, Answer, fileVars
<1>4. ASSUME NEW p \in Workers, CommitQuote(p) \/ CommitExecution(p)
      PROVE  LockInv'
  BY <1>4, ExerciseAssumption DEF CommitQuote, CommitExecution, Answer
<1>5. ASSUME NEW p \in Workers, InsertQuote(p) \/ FindNoReply(p) \/ PassCheck(p)
      PROVE  LockInv'
  BY <1>5, ExerciseAssumption DEF InsertQuote, FindNoReply, PassCheck, GoTo, fileVars
<1>6. ASSUME NEW p \in Workers, Enter(p) \/ FlagQuote(p)
      PROVE  LockInv'
  BY <1>6, ExerciseAssumption DEF Enter, FlagQuote, GoTo, fileVars
<1>7. ASSUME NEW p \in Workers, Record(p) \/ LogReply(p)
      PROVE  LockInv'
  BY <1>7, ExerciseAssumption DEF Record, LogReply, GoTo
<1>8. ASSUME NEW p \in Workers, Fail(p)
      PROVE  LockInv'
  BY <1>8, ExerciseAssumption DEF Fail, Answer, LeaveExecuteLock, CloseWithoutCommit
<1>9. CASE Tick
  BY <1>9 DEF Tick, fileVars
<1>10. CASE Crash
  BY <1>10, ExerciseAssumption DEF Crash
<1>. QED
  BY <1>1, <1>2, <1>3, <1>4, <1>5, <1>6, <1>7, <1>8, <1>9, <1>10
    DEF ExerciseNext, WorkerStep, KeyTaken, LockTimeout

-----------------------------------------------------------------------------
(* Every step keeps the writer's file the committed one with its statements *)

Holding == {"commit quote", "record", "reply", "commit"}

\* A step that leaves the file alone, and after which its thread does not hold the lock.
LEMMA WorkLeftAlone ==
  ASSUME ExerciseTypeOK, WorkInv, NEW p \in Workers, StepOf(p),
         UNCHANGED fileVars, at'[p] \notin Holding
  PROVE  WorkInv'
<1>1. /\ file' = file /\ work' = work /\ writeLock' = writeLock
      /\ \A o \in Workers \ {p} : /\ at'[o] = at[o] /\ asked'[o] = asked[o]
                                  /\ stamp'[o] = stamp[o]
  BY OthersStay DEF fileVars
<1>. QED
  BY <1>1 DEF WorkInv, SettledBy, Row, Quote, Key, Holding

\* A step of the thread that has the lock, or takes it.
LEMMA WorkWritten ==
  ASSUME ExerciseTypeOK, LockInv', NEW p \in Workers, writeLock' = p,
         at'[p] = "commit quote" => work' = WithQuote(file, Quote(p), stamp[p])',
         at'[p] = "record" => work' = WithFlag(file, Quote(p))',
         at'[p] = "reply" => work' = SettledBy(p)',
         at'[p] = "commit" =>
           work' = (IF Key(p) = NoKey THEN SettledBy(p) ELSE WithReply(SettledBy(p), Key(p)))'
  PROVE  WorkInv'
<1>1. \A o \in Workers : at'[o] \in Holding => o = p
  BY DEF LockInv, Holding
<1>2. writeLock' # NoOne
  BY ExerciseAssumption
<1>. QED
  BY <1>1, <1>2 DEF WorkInv, Holding

\* A step after which nobody has it.
LEMMA WorkFreed ==
  ASSUME LockInv', writeLock' = NoOne, work' = file'
  PROVE  WorkInv'
<1>1. \A o \in Workers : at'[o] \notin Holding
  BY ExerciseAssumption DEF LockInv, Holding
<1>. QED
  BY <1>1 DEF WorkInv, Holding

LEMMA WorkStep ==
  ASSUME ExerciseInv, ExerciseNext
  PROVE  WorkInv'
<1>. ExerciseTypeOK /\ LockInv /\ WorkInv /\ LockInv'
  BY LockStep DEF ExerciseInv
<1>. USE DEF ExerciseTypeOK
<1>1. ASSUME NEW p \in Workers, NEW q \in Quotes, NEW k \in Keys \cup {NoKey},
             CallQuote(p, q) \/ CallExecute(p, q, k)
      PROVE  WorkInv'
  <2>1. at'[p] \notin Holding /\ UNCHANGED fileVars
    BY <1>1 DEF CallQuote, CallExecute, Holding
  <2>2. StepOf(p)
    BY <1>1 DEF StepOf
  <2>. QED
    BY <2>1, <2>2, WorkLeftAlone
<1>2. ASSUME NEW p \in Workers, RejectQuote(p) \/ Replay(p) \/ RefuseExecution(p)
             \/ FindNoReply(p) \/ PassCheck(p) \/ Enter(p)
      PROVE  WorkInv'
  <2>1. at'[p] \notin Holding /\ UNCHANGED fileVars
    BY <1>2 DEF RejectQuote, Replay, RefuseExecution, FindNoReply, PassCheck, Enter, Answer,
                GoTo, Holding
  <2>2. StepOf(p)
    BY <1>2 DEF StepOf, WorkerStep
  <2>. QED
    BY <2>1, <2>2, WorkLeftAlone
<1>3. ASSUME NEW p \in Workers, InsertQuote(p)
      PROVE  WorkInv'
  <2>1. /\ at'[p] = "commit quote" /\ asked' = asked /\ stamp' = stamp /\ file' = file
        /\ writeLock' = p /\ work' = WithQuote(file, Quote(p), stamp[p])
    BY <1>3 DEF InsertQuote, GoTo
  <2>. QED
    BY <2>1, WorkWritten DEF Quote, WithQuote
<1>4. ASSUME NEW p \in Workers, FlagQuote(p)
      PROVE  WorkInv'
  <2>1. /\ at'[p] = "record" /\ asked' = asked /\ file' = file
        /\ writeLock' = p /\ work' = WithFlag(file, Quote(p))
    BY <1>4 DEF FlagQuote, GoTo
  <2>. QED
    BY <2>1, WorkWritten DEF Quote, WithFlag
<1>5. ASSUME NEW p \in Workers, Record(p)
      PROVE  WorkInv'
  <2>1. /\ at'[p] = IF Key(p) = NoKey THEN "commit" ELSE "reply"
        /\ asked' = asked /\ stamp' = stamp /\ file' = file /\ writeLock' = p
        /\ work' = WithTransaction(work, Row(p))
    BY <1>5 DEF Record, GoTo, LockInv, Row
  <2>2. work' = SettledBy(p)
    BY <1>5, <2>1 DEF Record, WorkInv, SettledBy
  <2>3. SettledBy(p)' = SettledBy(p) /\ Key(p)' = Key(p)
    BY <2>1 DEF SettledBy, Row, Quote, Key, WithTransaction, WithFlag
  <2>. QED
    BY <2>1, <2>2, <2>3, WorkWritten
<1>6. ASSUME NEW p \in Workers, LogReply(p)
      PROVE  WorkInv'
  <2>1. /\ at'[p] = "commit" /\ at[p] = "reply"
        /\ asked' = asked /\ stamp' = stamp /\ file' = file /\ writeLock' = p
        /\ work' = WithReply(work, Key(p))
    BY <1>6 DEF LogReply, GoTo, LockInv
  <2>2. Key(p) # NoKey
    BY <2>1, ExerciseAssumption DEF ExerciseInv, CheckedInv
  <2>3. work' = WithReply(SettledBy(p), Key(p))
    BY <2>1 DEF WorkInv
  <2>4. SettledBy(p)' = SettledBy(p) /\ Key(p)' = Key(p)
    BY <2>1 DEF SettledBy, Row, Quote, Key, WithTransaction, WithFlag
  <2>5. WithReply(SettledBy(p), Key(p))' = WithReply(SettledBy(p), Key(p))
    BY <2>4 DEF WithReply
  <2>. QED
    BY <2>1, <2>2, <2>3, <2>4, <2>5, WorkWritten
<1>7. ASSUME NEW p \in Workers, CommitQuote(p) \/ CommitExecution(p)
      PROVE  WorkInv'
  BY <1>7, WorkFreed DEF CommitQuote, CommitExecution
<1>8. ASSUME NEW p \in Workers, Fail(p)
      PROVE  WorkInv'
  <2>1. CASE writeLock = p
    BY <1>8, <2>1, WorkFreed DEF Fail, CloseWithoutCommit
  <2>2. CASE writeLock # p
    <3>1. UNCHANGED fileVars /\ at'[p] \notin Holding
      BY <1>8, <2>2 DEF Fail, CloseWithoutCommit, Answer, fileVars, Holding
    <3>2. StepOf(p)
      BY <1>8 DEF StepOf
    <3>. QED
      BY <3>1, <3>2, WorkLeftAlone
  <2>. QED
    BY <2>1, <2>2
<1>9. CASE Tick
  BY <1>9 DEF Tick, fileVars, WorkInv, SettledBy, Row, Quote, Key
<1>10. CASE Crash
  BY <1>10, WorkFreed DEF Crash
<1>. QED
  BY <1>1, <1>2, <1>3, <1>4, <1>5, <1>6, <1>7, <1>8, <1>9, <1>10
    DEF ExerciseNext, WorkerStep, KeyTaken, LockTimeout

-----------------------------------------------------------------------------
(* The two commits *)

QuoteCommitted(p) ==
  /\ file'.status = [file.status EXCEPT ![Quote(p)] = "OPEN"]
  /\ file'.expiresAt = [file.expiresAt EXCEPT ![Quote(p)] = stamp[p] + Ttl]
  /\ file'.transactions = file.transactions
  /\ file'.idempotency = file.idempotency

ExecutionCommitted(p) ==
  /\ file'.status = [file.status EXCEPT ![Quote(p)] = "EXECUTED"]
  /\ file'.expiresAt = file.expiresAt
  /\ file'.transactions = Append(file.transactions, Row(p))
  /\ file'.idempotency =
       IF Key(p) = NoKey THEN file.idempotency
       ELSE [file.idempotency EXCEPT ![Key(p)] = Len(file.transactions) + 1]

LEMMA FileParts ==
  ASSUME ExerciseTypeOK
  PROVE  /\ file.status \in [Quotes -> {"ABSENT", "OPEN", "EXECUTED"}]
         /\ file.expiresAt \in [Quotes -> Nat]
         /\ file.transactions \in Seq(Transactions)
         /\ file.idempotency \in [Keys -> Nat]
         /\ Len(file.transactions) \in Nat
         /\ DOMAIN file.transactions = 1 .. Len(file.transactions)
         /\ \A i \in DOMAIN file.transactions :
              /\ file.transactions[i].quote \in Quotes
              /\ file.transactions[i].key \in Keys \cup {NoKey}
         /\ \A k \in Keys : file.idempotency[k] <= Len(file.transactions)
         /\ \A p \in Workers : /\ Quote(p) \in Quotes /\ Key(p) \in Keys \cup {NoKey}
                               /\ stamp[p] \in Nat /\ Row(p) \in Transactions
<1>1. /\ file.transactions \in Seq(Transactions)
      /\ DOMAIN file.transactions = 1 .. Len(file.transactions)
      /\ Len(file.transactions) \in Nat
      /\ file \in Files
      /\ \A k \in Keys : file.idempotency[k] <= Len(file.transactions)
  BY DEF ExerciseTypeOK, WellFormed, Files
<1>2. \A i \in DOMAIN file.transactions : file.transactions[i] \in Transactions
  BY <1>1
<1>3. \A i \in DOMAIN file.transactions : /\ file.transactions[i].quote \in Quotes
                                          /\ file.transactions[i].key \in Keys \cup {NoKey}
  BY <1>2 DEF Transactions
<1>4. \A p \in Workers : /\ Quote(p) \in Quotes /\ Key(p) \in Keys \cup {NoKey}
                         /\ stamp[p] \in Nat /\ Row(p) \in Transactions
  BY DEF ExerciseTypeOK, Quote, Key, Row, Transactions
<1>. QED
  BY <1>1, <1>3, <1>4 DEF Files

LEMMA QuoteCommit ==
  ASSUME ExerciseTypeOK, WorkInv, NEW p \in Workers, CommitQuote(p)
  PROVE  QuoteCommitted(p)
<1>1. file' = WithQuote(file, Quote(p), stamp[p])
  BY DEF CommitQuote, WorkInv
<1>2. file \in Files
  BY DEF ExerciseTypeOK, WellFormed
<1>. QED
  BY <1>1, <1>2 DEF QuoteCommitted, WithQuote, Files

LEMMA ExecutionCommit ==
  ASSUME ExerciseTypeOK, WorkInv, NEW p \in Workers, CommitExecution(p)
  PROVE  ExecutionCommitted(p) /\ Len(work.transactions) = Len(file.transactions) + 1
<1>1. /\ file' = work
      /\ work = IF Key(p) = NoKey THEN SettledBy(p) ELSE WithReply(SettledBy(p), Key(p))
  BY DEF CommitExecution, WorkInv
<1>2. /\ SettledBy(p).status = [file.status EXCEPT ![Quote(p)] = "EXECUTED"]
      /\ SettledBy(p).expiresAt = file.expiresAt
      /\ SettledBy(p).transactions = Append(file.transactions, Row(p))
      /\ SettledBy(p).idempotency = file.idempotency
      /\ SettledBy(p) \in Files
  <2>1. WellFormed(file)
    BY DEF ExerciseTypeOK
  <2>2. SettledBy(p) \in Files
    <3>1. WellFormed(WithFlag(file, Quote(p)))
      BY <2>1, FileTypes, FileParts
    <3>2. WellFormed(SettledBy(p))
      BY <3>1, FileTypes, FileParts DEF SettledBy
    <3>. QED
      BY <3>2 DEF WellFormed
  <2>. QED
    BY <2>1, <2>2 DEF SettledBy, WithTransaction, WithFlag, Files, WellFormed
<1>3. Len(SettledBy(p).transactions) = Len(file.transactions) + 1
  BY <1>2, FileParts
<1>4. CASE Key(p) = NoKey
  BY <1>1, <1>2, <1>3, <1>4 DEF ExecutionCommitted
<1>5. CASE Key(p) # NoKey
  <2>1. work = WithReply(SettledBy(p), Key(p))
    BY <1>1, <1>5
  <2>2. /\ work.status = SettledBy(p).status
        /\ work.expiresAt = SettledBy(p).expiresAt
        /\ work.transactions = SettledBy(p).transactions
        /\ work.idempotency =
             [file.idempotency EXCEPT ![Key(p)] = Len(SettledBy(p).transactions)]
    BY <1>2, <2>1 DEF WithReply, Files
  <2>. QED
    BY <1>1, <1>2, <1>3, <1>5, <2>2 DEF ExecutionCommitted
<1>. QED
  BY <1>4, <1>5

\* Nothing else writes the file.
LEMMA FileStep ==
  ASSUME ExerciseInv, ExerciseNext
  PROVE  \/ file' = file
         \/ \E p \in Workers : CommitQuote(p) /\ QuoteCommitted(p)
         \/ \E p \in Workers : CommitExecution(p) /\ ExecutionCommitted(p)
<1>. ExerciseTypeOK /\ WorkInv
  BY DEF ExerciseInv
<1>1. ASSUME NEW p \in Workers, NEW q \in Quotes, NEW k \in Keys \cup {NoKey},
             CallQuote(p, q) \/ CallExecute(p, q, k)
      PROVE  file' = file
  BY <1>1 DEF CallQuote, CallExecute, fileVars
<1>2. ASSUME NEW p \in Workers, WorkerStep(p), ~ CommitQuote(p), ~ CommitExecution(p)
      PROVE  file' = file
  BY <1>2
    DEF WorkerStep, RejectQuote, InsertQuote, Replay, FindNoReply, RefuseExecution, PassCheck,
        Enter, FlagQuote, Record, LogReply, KeyTaken, LockTimeout, Fail, CloseWithoutCommit,
        fileVars
<1>3. ASSUME NEW p \in Workers, Fail(p)
      PROVE  file' = file
  BY <1>3 DEF Fail, CloseWithoutCommit
<1>4. ASSUME Tick \/ Crash
      PROVE  file' = file
  BY <1>4 DEF Tick, Crash, fileVars
<1>. QED
  BY <1>1, <1>2, <1>3, <1>4, QuoteCommit, ExecutionCommit DEF ExerciseNext

-----------------------------------------------------------------------------
(* Every commit keeps the promises of the file *)

LEMMA FlagStep ==
  ASSUME ExerciseInv, ExerciseNext
  PROVE  FlagMeansSettled'
<1>. ExerciseTypeOK /\ CheckedInv /\ FlagMeansSettled
  BY DEF ExerciseInv
<1>1. CASE file' = file
  BY <1>1 DEF FlagMeansSettled, Settles
<1>2. ASSUME NEW p \in Workers, CommitQuote(p), QuoteCommitted(p)
      PROVE  FlagMeansSettled'
  <2>1. file.status[Quote(p)] = "ABSENT"
    BY <1>2 DEF CheckedInv, CommitQuote, Quoting
  <2>. QED
    BY <1>2, <2>1, FileParts DEF QuoteCommitted, FlagMeansSettled, Settles
<1>3. ASSUME NEW p \in Workers, ExecutionCommitted(p)
      PROVE  FlagMeansSettled'
  <2>1. \A q \in Quotes : Settles(file', q) <=> Settles(file, q) \/ q = Quote(p)
    <3>. DEFINE n == Len(file.transactions)
    <3>1. /\ DOMAIN file'.transactions = 1 .. n + 1
          /\ file'.transactions[n + 1].quote = Quote(p)
          /\ \A i \in 1 .. n : file'.transactions[i] = file.transactions[i]
      BY <1>3, FileParts DEF ExecutionCommitted, Row
    <3>2. n \in Nat /\ DOMAIN file.transactions = 1 .. n
      BY FileParts
    <3>3. \A q : Settles(file, q) => Settles(file', q)
      BY <3>1, <3>2 DEF Settles
    <3>4. Settles(file', Quote(p))
      BY <3>1, <3>2 DEF Settles
    <3>5. ASSUME NEW q, Settles(file', q), q # Quote(p)
          PROVE  Settles(file, q)
      <4>1. PICK i \in 1 .. n + 1 : file'.transactions[i].quote = q
        BY <3>1, <3>5 DEF Settles
      <4>2. i # n + 1
        BY <3>1, <3>5, <4>1
      <4>3. i \in 1 .. n
        BY <3>2, <4>1, <4>2
      <4>. QED
        BY <3>1, <3>2, <4>1, <4>3 DEF Settles
    <3>. HIDE DEF n
    <3>. QED
      BY <3>3, <3>4, <3>5
  <2>. QED
    BY <1>3, <2>1, FileParts DEF ExecutionCommitted, FlagMeansSettled
<1>. QED
  BY <1>1, <1>2, <1>3, FileStep

\* What an execution's commit does to the rows and the keys.
LEMMA RowAdded ==
  ASSUME ExerciseTypeOK, NEW p \in Workers, ExecutionCommitted(p)
  PROVE  /\ DOMAIN file'.transactions = 1 .. Len(file.transactions) + 1
         /\ file'.transactions[Len(file.transactions) + 1] = Row(p)
         /\ \A i \in DOMAIN file.transactions : file'.transactions[i] = file.transactions[i]
         /\ \A k \in Keys \ {Key(p)} : file'.idempotency[k] = file.idempotency[k]
         /\ Key(p) # NoKey => file'.idempotency[Key(p)] = Len(file.transactions) + 1
  BY FileParts DEF ExecutionCommitted

LEMMA KeyStep ==
  ASSUME ExerciseInv, ExerciseNext
  PROVE  OneTransactionPerKey'
<1>. ExerciseTypeOK /\ CheckedInv /\ OneTransactionPerKey
  BY DEF ExerciseInv
<1>1. CASE file' = file
  BY <1>1 DEF OneTransactionPerKey
<1>2. ASSUME NEW p \in Workers, QuoteCommitted(p)
      PROVE  OneTransactionPerKey'
  BY <1>2 DEF QuoteCommitted, OneTransactionPerKey
<1>3. ASSUME NEW p \in Workers, CommitExecution(p), ExecutionCommitted(p)
      PROVE  OneTransactionPerKey'
  <2>1. Key(p) # NoKey => file.idempotency[Key(p)] = 0
    BY <1>3 DEF CheckedInv, CommitExecution
  <2>2. ASSUME NEW i \in DOMAIN file'.transactions, file'.transactions[i].key # NoKey
        PROVE  file'.idempotency[file'.transactions[i].key] = i
    <3>1. CASE i = Len(file.transactions) + 1
      <4>1. file'.transactions[i] = Row(p)
        BY <1>3, <3>1, RowAdded
      <4>2. file'.transactions[i].key = Key(p)
        BY <4>1 DEF Row
      <4>. QED
        BY <1>3, <2>2, <3>1, <4>2, RowAdded
    <3>2. CASE i # Len(file.transactions) + 1
      <4>1. i \in DOMAIN file.transactions
        BY <1>3, <3>2, RowAdded, FileParts
      <4>2. /\ file'.transactions[i] = file.transactions[i]
            /\ file.transactions[i].key \in Keys
        BY <1>3, <2>2, <4>1, RowAdded, FileParts
      <4>3. file.idempotency[file.transactions[i].key] = i
        BY <2>2, <4>1, <4>2 DEF OneTransactionPerKey
      <4>4. i # 0
        BY <4>1, FileParts
      <4>5. file.transactions[i].key # Key(p)
        BY <2>1, <2>2, <4>2, <4>3, <4>4
      <4>. QED
        BY <1>3, <4>2, <4>3, <4>5, RowAdded
    <3>. QED
      BY <3>1, <3>2
  <2>. QED
    BY <2>2 DEF OneTransactionPerKey
<1>. QED
  BY <1>1, <1>2, <1>3, FileStep

LEMMA DateStep ==
  ASSUME ExerciseInv, ExerciseNext
  PROVE  DatedInTime'
<1>. ExerciseTypeOK /\ CheckedInv /\ FlagMeansSettled /\ DatedInTime
  BY DEF ExerciseInv
<1>1. CASE file' = file
  BY <1>1 DEF DatedInTime
<1>2. ASSUME NEW p \in Workers, CommitQuote(p), QuoteCommitted(p)
      PROVE  DatedInTime'
  <2>1. file.status[Quote(p)] = "ABSENT"
    BY <1>2 DEF CheckedInv, CommitQuote, Quoting
  <2>2. \A i \in DOMAIN file.transactions : file.transactions[i].quote # Quote(p)
    BY <2>1, FileParts DEF FlagMeansSettled, Settles
  <2>3. \A i \in DOMAIN file.transactions : file.transactions[i].quote \in Quotes
    BY FileParts
  <2>4. \A i \in DOMAIN file.transactions :
          file'.expiresAt[file.transactions[i].quote]
            = file.expiresAt[file.transactions[i].quote]
    BY <1>2, <2>2, <2>3, FileParts DEF QuoteCommitted
  <2>. QED
    BY <1>2, <2>4 DEF QuoteCommitted, DatedInTime
<1>3. ASSUME NEW p \in Workers, CommitExecution(p), ExecutionCommitted(p)
      PROVE  DatedInTime'
  <2>1. stamp[p] <= file.expiresAt[Quote(p)]
    BY <1>3 DEF CheckedInv, CommitExecution, Settling
  <2>2. file'.expiresAt = file.expiresAt
    BY <1>3 DEF ExecutionCommitted
  <2>3. ASSUME NEW i \in DOMAIN file'.transactions
        PROVE  file'.transactions[i].executedAt <= file'.expiresAt[file'.transactions[i].quote]
    <3>1. CASE i = Len(file.transactions) + 1
      <4>1. file'.transactions[i] = Row(p)
        BY <1>3, <3>1, RowAdded
      <4>2. /\ file'.transactions[i].quote = Quote(p)
            /\ file'.transactions[i].executedAt = stamp[p]
        BY <4>1 DEF Row
      <4>. QED
        BY <2>1, <2>2, <4>2
    <3>2. CASE i # Len(file.transactions) + 1
      <4>1. i \in DOMAIN file.transactions
        BY <1>3, <3>2, RowAdded, FileParts
      <4>. QED
        BY <1>3, <2>2, <4>1, RowAdded DEF DatedInTime
    <3>. QED
      BY <3>1, <3>2
  <2>. QED
    BY <2>3 DEF DatedInTime
<1>. QED
  BY <1>1, <1>2, <1>3, FileStep

-----------------------------------------------------------------------------
(* Every step keeps what the threads have checked and been told *)

LEMMA CheckedStep ==
  ASSUME ExerciseInv, ExerciseNext
  PROVE  CheckedInv'
<1>. ExerciseTypeOK /\ LockInv /\ WorkInv /\ CheckedInv /\ AloneInv
  BY DEF ExerciseInv
<1>. USE DEF ExerciseTypeOK
<1>1. ASSUME NEW p \in Workers, NEW q \in Quotes, CallQuote(p, q)
      PROVE  CheckedInv'
  BY <1>1 DEF CallQuote, CheckedInv, Quoting, Settling, Quote, Key, fileVars
<1>2. ASSUME NEW p \in Workers, NEW q \in Quotes, NEW k \in Keys \cup {NoKey},
             CallExecute(p, q, k)
      PROVE  CheckedInv'
  BY <1>2 DEF CallExecute, CheckedInv, Quoting, Settling, Quote, Key, fileVars
<1>3. ASSUME NEW p \in Workers, NEW code, NEW i, Answer(p, code, i), file' = file
      PROVE  CheckedInv'
  BY <1>3 DEF Answer, CheckedInv, Quoting, Settling, Quote, Key
<1>4. ASSUME NEW p \in Workers, RejectQuote(p) \/ Replay(p) \/ RefuseExecution(p) \/ Fail(p)
      PROVE  CheckedInv'
  BY <1>3, <1>4
    DEF RejectQuote, Replay, RefuseExecution, Fail, CloseWithoutCommit, fileVars
<1>5. ASSUME NEW p \in Workers, InsertQuote(p) \/ FindNoReply(p) \/ Enter(p) \/ FlagQuote(p)
      PROVE  CheckedInv'
  BY <1>5
    DEF InsertQuote, FindNoReply, Enter, FlagQuote, GoTo, CheckedInv, Quoting, Settling,
        Quote, Key, fileVars
<1>6. ASSUME NEW p \in Workers, PassCheck(p)
      PROVE  CheckedInv'
  <2>1. now <= file.expiresAt[Quote(p)]
    BY <1>6, FileParts DEF PassCheck, Refusable
  <2>. QED
    BY <1>6, <2>1
      DEF PassCheck, Refusable, GoTo, CheckedInv, Quoting, Settling, Quote, Key, fileVars
<1>7. ASSUME NEW p \in Workers, Record(p)
      PROVE  CheckedInv'
  <2>1. Key(p) \in Keys \cup {NoKey}
    BY FileParts
  <2>. QED
    BY <1>7, <2>1 DEF Record, GoTo, CheckedInv, Quoting, Settling, Quote, Key
<1>8. ASSUME NEW p \in Workers, LogReply(p)
      PROVE  CheckedInv'
  <2>1. file.idempotency[Key(p)] = 0
    <3>1. work = SettledBy(p)
      BY <1>8 DEF LogReply, WorkInv
    <3>2. SettledBy(p).idempotency = file.idempotency
      BY DEF SettledBy, WithTransaction, WithFlag, WellFormed, Files
    <3>. QED
      BY <1>8, <3>1, <3>2 DEF LogReply, Collides
  <2>. QED
    BY <1>8, <2>1 DEF LogReply, GoTo, CheckedInv, Quoting, Settling, Quote, Key
<1>9. ASSUME NEW p \in Workers, CommitQuote(p)
      PROVE  CheckedInv'
  <2>1. QuoteCommitted(p) /\ file.status[Quote(p)] = "ABSENT"
    BY <1>9, QuoteCommit DEF CommitQuote, CheckedInv, Quoting
  <2>2. \A o \in Workers \ {p} : at[o] \in Quoting \cup Settling => Quote(o) # Quote(p)
    BY <1>9, <2>1 DEF CommitQuote, AloneInv, CheckedInv, Quoting
  <2>3. /\ at' = [at EXCEPT ![p] = "idle"] /\ asked' = asked
        /\ stamp' = [stamp EXCEPT ![p] = 0]
    BY <1>9 DEF CommitQuote, Answer
  <2>4. \A o \in Workers : at'[o] \in Quoting \cup Settling =>
          /\ file'.status[Quote(o)] = file.status[Quote(o)]
          /\ file'.expiresAt[Quote(o)] = file.expiresAt[Quote(o)]
    BY <2>1, <2>2, <2>3, FileParts DEF QuoteCommitted, Quoting, Settling
  <2>. QED
    BY <2>1, <2>3, <2>4 DEF QuoteCommitted, CheckedInv, Quoting, Settling, Quote, Key
<1>10. ASSUME NEW p \in Workers, CommitExecution(p)
       PROVE  CheckedInv'
  <2>1. ExecutionCommitted(p) /\ file.status[Quote(p)] # "ABSENT"
    BY <1>10, ExecutionCommit DEF CommitExecution, CheckedInv, Settling
  <2>2. \A o \in Workers \ {p} : at[o] # "commit"
    BY <1>10 DEF CommitExecution, LockInv
  <2>3. /\ at' = [at EXCEPT ![p] = "idle"] /\ asked' = asked
        /\ stamp' = [stamp EXCEPT ![p] = 0]
    BY <1>10 DEF CommitExecution, Answer
  <2>4. /\ file'.status = [file.status EXCEPT ![Quote(p)] = "EXECUTED"]
        /\ file'.expiresAt = file.expiresAt
    BY <2>1 DEF ExecutionCommitted
  <2>5. \A o \in Workers : at'[o] \in Quoting => file'.status[Quote(o)] = "ABSENT"
    BY <2>1, <2>3, <2>4, FileParts DEF CheckedInv, Quoting
  <2>6. \A o \in Workers : at'[o] \in Settling =>
          /\ file'.status[Quote(o)] # "ABSENT"
          /\ stamp'[o] <= file'.expiresAt[Quote(o)]
    BY <2>1, <2>3, <2>4, FileParts DEF CheckedInv, Settling
  <2>7. \A o \in Workers : at'[o] # "commit"
    BY <2>2, <2>3
  <2>. QED
    BY <2>3, <2>5, <2>6, <2>7 DEF CheckedInv, Quote, Key
<1>11. CASE Tick
  BY <1>11 DEF Tick, CheckedInv, Quoting, Settling, Quote, Key, fileVars
<1>12. CASE Crash
  BY <1>12 DEF Crash, CheckedInv, Quoting, Settling
<1>. QED
  BY <1>1, <1>2, <1>4, <1>5, <1>6, <1>7, <1>8, <1>9, <1>10, <1>11, <1>12
    DEF ExerciseNext, WorkerStep, KeyTaken, LockTimeout

LEMMA AloneStep ==
  ASSUME ExerciseInv, ExerciseNext
  PROVE  AloneInv'
<1>. ExerciseTypeOK /\ AloneInv
  BY DEF ExerciseInv
<1>1. ASSUME NEW p \in Workers, NEW q \in Quotes, CallQuote(p, q)
      PROVE  AloneInv'
  BY <1>1 DEF CallQuote, AloneInv, Quoting, Quote, ExerciseTypeOK
<1>2. ASSUME NEW p \in Workers, StepOf(p),
             at'[p] \in Quoting => at[p] \in Quoting /\ asked' = asked
      PROVE  AloneInv'
  BY <1>2, OthersStay DEF AloneInv, Quote
<1>3. ASSUME NEW p \in Workers, NEW q \in Quotes, NEW k \in Keys \cup {NoKey},
             CallExecute(p, q, k)
      PROVE  AloneInv'
  <2>1. at'[p] \notin Quoting
    BY <1>3 DEF CallExecute, ExerciseTypeOK, Quoting
  <2>. QED
    BY <1>2, <1>3, <2>1 DEF StepOf
<1>4. ASSUME NEW p \in Workers, WorkerStep(p) \/ Fail(p)
      PROVE  AloneInv'
  <2>1. at'[p] \in Quoting => at[p] \in Quoting /\ asked' = asked
    BY <1>4
      DEF WorkerStep, RejectQuote, InsertQuote, CommitQuote, Replay, FindNoReply,
          RefuseExecution, PassCheck, Enter, FlagQuote, Record, LogReply, KeyTaken,
          CommitExecution, LockTimeout, Fail, GoTo, Answer, ExerciseTypeOK, Quoting
  <2>. QED
    BY <1>2, <1>4, <2>1 DEF StepOf
<1>5. CASE Tick
  BY <1>5 DEF Tick, AloneInv, Quote
<1>6. CASE Crash
  BY <1>6 DEF Crash, AloneInv, Quoting
<1>. QED
  BY <1>1, <1>3, <1>4, <1>5, <1>6 DEF ExerciseNext

\* What is kept of one answer.
Kept(p) ==
  told[p].code = "OK" =>
    /\ told[p].transaction \in DOMAIN file.transactions
    /\ Key(p) = NoKey => file.transactions[told[p].transaction].quote = Quote(p)
    /\ Key(p) # NoKey => file.idempotency[Key(p)] = told[p].transaction

\* An answer that was right stays right, whatever is committed.
LEMMA KeptWhenCommitted ==
  ASSUME ExerciseInv, ExerciseNext, NEW o \in Workers, Kept(o),
         told'[o] = told[o], asked'[o] = asked[o]
  PROVE  Kept(o)'
<1>. ExerciseTypeOK /\ CheckedInv
  BY DEF ExerciseInv
<1>. Quote(o)' = Quote(o) /\ Key(o)' = Key(o)
  BY DEF Quote, Key
<1>1. CASE file' = file
  BY <1>1 DEF Kept
<1>2. ASSUME NEW p \in Workers, QuoteCommitted(p)
      PROVE  Kept(o)'
  BY <1>2 DEF QuoteCommitted, Kept
<1>3. ASSUME NEW p \in Workers, CommitExecution(p), ExecutionCommitted(p)
      PROVE  Kept(o)'
  <2>. SUFFICES ASSUME told[o].code = "OK"
                PROVE  Kept(o)'
    BY DEF Kept
  <2>1. told[o].transaction \in DOMAIN file.transactions
    BY DEF Kept
  <2>2. /\ told[o].transaction \in DOMAIN file'.transactions
        /\ told[o].transaction # 0
    BY <1>3, <2>1, RowAdded, FileParts
  <2>3. file'.transactions[told[o].transaction] = file.transactions[told[o].transaction]
    BY <1>3, <2>1, RowAdded
  <2>4. Key(o) # NoKey => Key(o) # Key(p) /\ file'.idempotency[Key(o)] = file.idempotency[Key(o)]
    <3>1. Key(p) # NoKey => file.idempotency[Key(p)] = 0
      BY <1>3 DEF CheckedInv, CommitExecution
    <3>2. Key(o) # NoKey => Key(o) \in Keys /\ Key(o) # Key(p)
      BY <2>2, <3>1, FileParts DEF Kept
    <3>. QED
      BY <1>3, <3>2, RowAdded
  <2>. QED
    BY <2>2, <2>3, <2>4 DEF Kept
<1>. QED
  BY <1>1, <1>2, <1>3, FileStep

LEMMA AnswerStep ==
  ASSUME ExerciseInv, ExerciseNext
  PROVE  AnswersAreKept'
<1>. ExerciseTypeOK /\ CheckedInv /\ WorkInv /\ \A o \in Workers : Kept(o)
  BY DEF ExerciseInv, AnswersAreKept, Kept
<1>0. ASSUME NEW o \in Workers, told'[o].code # "OK"
      PROVE  Kept(o)'
  BY <1>0 DEF Kept
<1>1. ASSUME NEW p \in Workers, StepOf(p), Kept(p)'
      PROVE  AnswersAreKept'
  <2>1. \A o \in Workers \ {p} : Kept(o)'
    BY <1>1, OthersStay, KeptWhenCommitted
  <2>. QED
    BY <1>1, <2>1 DEF AnswersAreKept, Kept
<1>2. ASSUME NEW p \in Workers, NEW q \in Quotes, NEW k \in Keys \cup {NoKey},
             CallQuote(p, q) \/ CallExecute(p, q, k)
      PROVE  AnswersAreKept'
  <2>1. told'[p].code # "OK"
    <3>1. told' = [told EXCEPT ![p] = NoAnswer] /\ told \in [Workers -> Answers]
      BY <1>2 DEF CallQuote, CallExecute, ExerciseTypeOK
    <3>. QED
      BY <3>1 DEF NoAnswer
  <2>. QED
    BY <1>0, <1>1, <1>2, <2>1 DEF StepOf
<1>3. ASSUME NEW p \in Workers,
             RejectQuote(p) \/ CommitQuote(p) \/ RefuseExecution(p) \/ Fail(p)
      PROVE  AnswersAreKept'
  <2>1. told'[p].code # "OK"
    <3>1. told \in [Workers -> Answers]
      BY DEF ExerciseTypeOK
    <3>2. /\ RejectQuote(p) => Answer(p, "BAD_REQUEST", 0)
          /\ CommitQuote(p) => Answer(p, "CREATED", 0)
          /\ RefuseExecution(p) => Answer(p, "BAD_REQUEST", 0)
          /\ Fail(p) => Answer(p, "INTERNAL_ERROR", 0)
      BY DEF RejectQuote, CommitQuote, RefuseExecution, Fail
    <3>3. ASSUME NEW code, Answer(p, code, 0), code # "OK"
          PROVE  told'[p].code # "OK"
      BY <3>1, <3>3 DEF Answer
    <3>. QED
      BY <1>3, <3>2, <3>3
  <2>. QED
    BY <1>0, <1>1, <1>3, <2>1 DEF StepOf, WorkerStep
<1>4. ASSUME NEW p \in Workers, Replay(p)
      PROVE  AnswersAreKept'
  <2>1. /\ file' = file /\ asked' = asked
        /\ told'[p].transaction = file.idempotency[Key(p)]
        /\ file.idempotency[Key(p)] # 0
        /\ Key(p) \in Keys
    BY <1>4 DEF Replay, Answer, fileVars, ExerciseTypeOK, CheckedInv
  <2>2. file.idempotency[Key(p)] \in DOMAIN file.transactions
    BY <2>1, FileParts
  <2>3. Kept(p)'
    BY <2>1, <2>2, ExerciseAssumption DEF Kept, Quote, Key
  <2>. QED
    BY <1>1, <1>4, <2>3 DEF StepOf, WorkerStep
<1>5. ASSUME NEW p \in Workers, CommitExecution(p)
      PROVE  AnswersAreKept'
  <2>1. ExecutionCommitted(p) /\ Len(work.transactions) = Len(file.transactions) + 1
    BY <1>5, ExecutionCommit
  <2>2. asked' = asked /\ told'[p].transaction = Len(file.transactions) + 1
    BY <1>5, <2>1 DEF CommitExecution, Answer, ExerciseTypeOK
  <2>3. /\ Len(file.transactions) + 1 \in DOMAIN file'.transactions
        /\ Key(p) # NoKey => file'.idempotency[Key(p)] = Len(file.transactions) + 1
    BY <2>1, RowAdded, FileParts
  <2>4. file'.transactions[Len(file.transactions) + 1].quote = Quote(p)
    <3>1. file'.transactions[Len(file.transactions) + 1] = Row(p)
      BY <2>1, RowAdded
    <3>. QED
      BY <3>1 DEF Row
  <2>5. Kept(p)'
    BY <2>2, <2>3, <2>4 DEF Kept, Quote, Key
  <2>. QED
    BY <1>1, <1>5, <2>5 DEF StepOf, WorkerStep
<1>6. ASSUME NEW p \in Workers, FindNoReply(p) \/ InsertQuote(p) \/ PassCheck(p) \/ Enter(p)
             \/ FlagQuote(p) \/ Record(p) \/ LogReply(p)
      PROVE  AnswersAreKept'
  <2>1. told' = told /\ asked' = asked
    BY <1>6 DEF FindNoReply, InsertQuote, PassCheck, Enter, FlagQuote, Record, LogReply, GoTo
  <2>2. Kept(p)'
    BY <2>1, KeptWhenCommitted
  <2>. QED
    BY <1>1, <1>6, <2>2 DEF StepOf, WorkerStep
<1>7. ASSUME Tick \/ Crash
      PROVE  AnswersAreKept'
  <2>1. told' = told /\ asked' = asked
    BY <1>7 DEF Tick, Crash
  <2>2. \A o \in Workers : Kept(o)'
    BY <2>1, KeptWhenCommitted
  <2>. QED
    BY <2>2 DEF AnswersAreKept, Kept
<1>. QED
  BY <1>2, <1>3, <1>4, <1>5, <1>6, <1>7 DEF ExerciseNext, WorkerStep, KeyTaken, LockTimeout

-----------------------------------------------------------------------------
(* The theorems *)

LEMMA StutterKeeps ==
  ASSUME ExerciseInv, UNCHANGED exerciseVars
  PROVE  ExerciseInv'
<1>1. /\ file' = file /\ work' = work /\ writeLock' = writeLock /\ executeLock' = executeLock
      /\ now' = now /\ crashes' = crashes /\ at' = at /\ asked' = asked /\ stamp' = stamp
      /\ told' = told /\ served' = served
  BY DEF exerciseVars, fileVars
<1>2. ExerciseTypeOK'
  BY <1>1 DEF ExerciseInv, ExerciseTypeOK, WellFormed
<1>3. LockInv' /\ CheckedInv' /\ AloneInv'
  BY <1>1 DEF ExerciseInv, LockInv, CheckedInv, AloneInv, Quote, Key
<1>4. WorkInv'
  BY <1>1 DEF ExerciseInv, WorkInv, SettledBy, Row, Quote, Key
<1>5. FlagMeansSettled' /\ OneTransactionPerKey' /\ AnswersAreKept' /\ DatedInTime'
  BY <1>1 DEF ExerciseInv, FlagMeansSettled, Settles, OneTransactionPerKey, AnswersAreKept,
              DatedInTime, Quote, Key
<1>. QED
  BY <1>2, <1>3, <1>4, <1>5 DEF ExerciseInv

LEMMA ExerciseStep ==
  ASSUME ExerciseInv, [ExerciseNext]_exerciseVars
  PROVE  ExerciseInv'
<1>1. CASE ExerciseNext
  BY <1>1, TypeStep, LockStep, WorkStep, CheckedStep, AloneStep, FlagStep, KeyStep,
     AnswerStep, DateStep
    DEF ExerciseInv
<1>2. CASE UNCHANGED exerciseVars
  BY <1>2, StutterKeeps
<1>. QED
  BY <1>1, <1>2

\* The inductive invariant: the locks are where the threads are, the writer's file is
\* the committed one with what its thread has written, and nobody relies on a check
\* that another thread's commit can undo.
THEOREM ExerciseInvariance ==
  ExerciseSpec => []ExerciseInv
  BY InitInvariant, ExerciseStep, PTL DEF ExerciseSpec

\* The type invariant of the engine, for any number of threads.
THEOREM ExerciseTypes ==
  ExerciseSpec => []ExerciseTypeOK
<1>1. ExerciseInv => ExerciseTypeOK
  BY DEF ExerciseInv
<1>. QED
  BY <1>1, ExerciseInvariance, PTL

\* The UPDATE that flags a quote and the INSERT of its transaction reach the file
\* together or not at all, whatever fails and whenever the process dies.
THEOREM FlagsAreSettled ==
  ExerciseSpec => []FlagMeansSettled
<1>1. ExerciseInv => FlagMeansSettled
  BY DEF ExerciseInv
<1>. QED
  BY <1>1, ExerciseInvariance, PTL

\* However many executions race past the look-up of one key, one transaction is made
\* under it.
THEOREM KeysSettleOnce ==
  ExerciseSpec => []OneTransactionPerKey
<1>1. ExerciseInv => OneTransactionPerKey
  BY DEF ExerciseInv
<1>. QED
  BY <1>1, ExerciseInvariance, PTL

\* A 200 that was given out stays true.
THEOREM AnswersStay ==
  ExerciseSpec => []AnswersAreKept
<1>1. ExerciseInv => AnswersAreKept
  BY DEF ExerciseInv
<1>. QED
  BY <1>1, ExerciseInvariance, PTL

\* No wait for a lock dates a settlement after its quote expired.
THEOREM SettledInTime ==
  ExerciseSpec => []DatedInTime
<1>1. ExerciseInv => DatedInTime
  BY DEF ExerciseInv
<1>. QED
  BY <1>1, ExerciseInvariance, PTL

-----------------------------------------------------------------------------
(* Settlements of one quote overlap *)

\* A thread that is past its check has seen its quote open, so the quote has no
\* settlement among the transactions that were in the file at that moment.
OverlapInv ==
  /\ before \in [Workers -> Nat]
  /\ made \in Seq(Nat) /\ Len(made) = Len(file.transactions)
  /\ \A p \in Workers : at[p] \in Settling =>
       /\ before[p] <= Len(file.transactions)
       /\ \A i \in DOMAIN file.transactions :
            file.transactions[i].quote = Quote(p) => before[p] < i
  /\ AgainOnlyIfOverlapping

LEMMA SettlingStep ==
  ASSUME ExerciseTypeOK, ExerciseNext, NEW p \in Workers, at'[p] \in Settling
  PROVE  /\ asked'[p] = asked[p]
         /\ at[p] \in Settling \/ PassCheck(p)
<1>1. ASSUME NEW o \in Workers, StepOf(o), o # p
      PROVE  asked'[p] = asked[p] /\ at[p] \in Settling
  BY <1>1, OthersStay
<1>2. ASSUME NEW q \in Quotes, NEW k \in Keys \cup {NoKey}, CallQuote(p, q) \/ CallExecute(p, q, k)
      PROVE  FALSE
  BY <1>2 DEF CallQuote, CallExecute, ExerciseTypeOK, Settling
<1>3. ASSUME NEW code, NEW i, Answer(p, code, i)
      PROVE  FALSE
  BY <1>3 DEF Answer, ExerciseTypeOK, Settling
<1>4. CASE WorkerStep(p) \/ Fail(p)
  BY <1>3, <1>4
    DEF WorkerStep, RejectQuote, InsertQuote, CommitQuote, Replay, FindNoReply,
        RefuseExecution, PassCheck, Enter, FlagQuote, Record, LogReply, KeyTaken,
        CommitExecution, LockTimeout, Fail, GoTo, ExerciseTypeOK, Settling
<1>5. CASE Tick \/ Crash
  BY <1>5 DEF Tick, Crash, Settling
<1>. QED
  BY <1>1, <1>2, <1>4, <1>5 DEF ExerciseNext, StepOf

\* What the history says of a thread that is past its check.
LEMMA BeforeStep ==
  ASSUME ExerciseInv, OverlapInv, MCNext
  PROVE  /\ before' \in [Workers -> Nat]
         /\ \A p \in Workers : at'[p] \in Settling =>
              /\ Quote(p)' = Quote(p)
              /\ before'[p] <= Len(file.transactions)
              /\ \A i \in DOMAIN file.transactions :
                   file.transactions[i].quote = Quote(p) => before'[p] < i
<1>. ExerciseTypeOK /\ FlagMeansSettled /\ ExerciseNext
  BY DEF ExerciseInv, MCNext
<1>1. before' \in [Workers -> Nat]
  BY FileParts DEF MCNext, OverlapInv
<1>2. ASSUME NEW p \in Workers, at'[p] \in Settling
      PROVE  /\ Quote(p)' = Quote(p)
             /\ before'[p] <= Len(file.transactions)
             /\ \A i \in DOMAIN file.transactions :
                  file.transactions[i].quote = Quote(p) => before'[p] < i
  <2>1. Quote(p)' = Quote(p)
    BY <1>2, SettlingStep DEF Quote
  <2>2. CASE at[p] \in Settling
    <3>1. before'[p] = before[p]
      BY <1>2, <2>2 DEF MCNext, Settling
    <3>. QED
      BY <2>1, <2>2, <3>1 DEF OverlapInv
  <2>3. CASE PassCheck(p)
    <3>1. before'[p] = Len(file.transactions)
      <4>1. at[p] = "check" /\ at'[p] = "enter"
        BY <2>3 DEF PassCheck, GoTo, ExerciseTypeOK
      <4>. QED
        BY <4>1 DEF MCNext
    <3>2. ~ Settles(file, Quote(p))
      BY <2>3, FileParts DEF PassCheck, Refusable, FlagMeansSettled
    <3>. QED
      BY <2>1, <3>1, <3>2, FileParts DEF Settles
  <2>. QED
    BY <1>2, <2>1, <2>2, <2>3, SettlingStep
<1>. QED
  BY <1>1, <1>2

LEMMA OverlapStep ==
  ASSUME ExerciseInv, OverlapInv, MCNext
  PROVE  OverlapInv'
<1>. /\ ExerciseTypeOK /\ LockInv /\ ExerciseNext
     /\ made \in Seq(Nat) /\ Len(made) = Len(file.transactions)
     /\ AgainOnlyIfOverlapping
  BY DEF ExerciseInv, MCNext, OverlapInv
<1>1. ASSUME file'.transactions = file.transactions
      PROVE  OverlapInv'
  <2>1. made' = made
    BY <1>1, FileParts DEF MCNext
  <2>. QED
    BY <1>1, <2>1, BeforeStep DEF OverlapInv, AgainOnlyIfOverlapping
<1>2. ASSUME NEW p \in Workers, CommitExecution(p), ExecutionCommitted(p)
      PROVE  OverlapInv'
  <2>. DEFINE last == Len(file.transactions) + 1
  <2>0. Len(file.transactions) \in Nat
    BY FileParts
  <2>1. /\ DOMAIN file'.transactions = 1 .. last
        /\ file'.transactions[last].quote = Quote(p)
        /\ \A i \in 1 .. Len(file.transactions) : file'.transactions[i] = file.transactions[i]
    <3>1. file'.transactions[last] = Row(p)
      BY <1>2, RowAdded
    <3>. QED
      BY <1>2, <3>1, RowAdded, FileParts DEF Row
  <2>2. file'.transactions = Append(file.transactions, Row(p)) /\ Len(file'.transactions) = last
    BY <1>2, FileParts DEF ExecutionCommitted
  <2>3. /\ at[p] \in Settling /\ before[p] \in Nat
        /\ \A i \in 1 .. Len(file.transactions) :
             file.transactions[i].quote = Quote(p) => before[p] < i
    BY <1>2, FileParts DEF CommitExecution, OverlapInv, Settling
  <2>4. made' = Append(made, before[p])
    <3>1. writeLock = p
      BY <1>2 DEF CommitExecution, LockInv
    <3>. QED
      BY <2>2, <3>1, FileParts DEF MCNext
  <2>5. /\ made' \in Seq(Nat) /\ Len(made') = last
        /\ made'[last] = before[p]
        /\ \A j \in 1 .. Len(file.transactions) : made'[j] = made[j]
    BY <2>3, <2>4
  <2>6. ASSUME NEW o \in Workers, at'[o] \in Settling
        PROVE  /\ before'[o] <= last
               /\ \A i \in DOMAIN file'.transactions :
                    file'.transactions[i].quote = Quote(o)' => before'[o] < i
    <3>1. /\ before'[o] \in Nat /\ before'[o] <= Len(file.transactions)
          /\ Quote(o)' = Quote(o)
          /\ \A i \in 1 .. Len(file.transactions) :
               file.transactions[i].quote = Quote(o) => before'[o] < i
      BY <2>6, BeforeStep, FileParts
    <3>2. before'[o] <= last /\ before'[o] < last
      BY <2>0, <3>1
    <3>3. ASSUME NEW i \in DOMAIN file'.transactions,
                 file'.transactions[i].quote = Quote(o)'
          PROVE  before'[o] < i
      <4>1. i \in 1 .. Len(file.transactions) \/ i = last
        BY <2>0, <2>1
      <4>. QED
        BY <2>1, <3>1, <3>2, <3>3, <4>1
    <3>. QED
      BY <3>2, <3>3
  <2>7. AgainOnlyIfOverlapping'
    <3>1. ASSUME NEW i \in 1 .. last, NEW j \in 1 .. last, i < j,
                 file'.transactions[i].quote = file'.transactions[j].quote
          PROVE  made'[j] < i
      <4>1. i \in 1 .. Len(file.transactions)
        BY <3>1, FileParts
      <4>2. CASE j = last
        BY <2>1, <2>3, <2>5, <3>1, <4>1, <4>2
      <4>3. CASE j \in 1 .. Len(file.transactions)
        BY <2>1, <2>5, <3>1, <4>1, <4>3, FileParts DEF AgainOnlyIfOverlapping
      <4>4. j \in 1 .. Len(file.transactions) \/ j = last
        BY <2>0
      <4>. QED
        BY <4>2, <4>3, <4>4
    <3>. QED
      BY <2>1, <3>1 DEF AgainOnlyIfOverlapping
  <2>. QED
    BY <2>2, <2>5, <2>6, <2>7, BeforeStep DEF OverlapInv
<1>3. ASSUME NEW p \in Workers, QuoteCommitted(p)
      PROVE  OverlapInv'
  BY <1>1, <1>3 DEF QuoteCommitted
<1>. QED
  BY <1>1, <1>2, <1>3, FileStep

\* The engine's history is a history of the engine, and the record of who had checked
\* before what is kept by every step.
LEMMA OverlapInvariance ==
  MCSpec => [](ExerciseInv /\ OverlapInv)
<1>1. MCInit => ExerciseInv /\ OverlapInv
  <2>. SUFFICES ASSUME MCInit PROVE ExerciseInv /\ OverlapInv
    OBVIOUS
  <2>1. file.transactions = <<>> /\ \A p \in Workers : at[p] = "idle"
    BY DEF MCInit, ExerciseInit, EmptyFile
  <2>2. OverlapInv
    BY <2>1 DEF MCInit, OverlapInv, AgainOnlyIfOverlapping, Settling
  <2>. QED
    BY <2>2, InitInvariant DEF MCInit
<1>2. ASSUME ExerciseInv, OverlapInv, [MCNext]_<<exerciseVars, history>>
      PROVE  ExerciseInv' /\ OverlapInv'
  <2>1. CASE MCNext
    BY <1>2, <2>1, ExerciseStep, OverlapStep DEF MCNext
  <2>2. CASE UNCHANGED <<exerciseVars, history>>
    <3>1. file' = file /\ at' = at /\ asked' = asked /\ before' = before /\ made' = made
      BY <2>2 DEF exerciseVars, fileVars, history
    <3>2. OverlapInv'
      BY <1>2, <3>1 DEF OverlapInv, AgainOnlyIfOverlapping, Quote
    <3>. QED
      BY <1>2, <2>2, <3>2, ExerciseStep
  <2>. QED
    BY <1>2, <2>1, <2>2
<1>. QED
  BY <1>1, <1>2, PTL DEF MCSpec

\* Two settlements of one quote come of executions that overlap: whoever makes the
\* later one had checked the quote before the earlier one was committed.
THEOREM SettledAgainOnlyByRaces ==
  MCSpec => []AgainOnlyIfOverlapping
<1>1. OverlapInv => AgainOnlyIfOverlapping
  BY DEF OverlapInv
<1>. QED
  BY <1>1, OverlapInvariance, PTL


=============================================================================
