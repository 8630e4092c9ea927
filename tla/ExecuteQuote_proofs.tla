------------------------ MODULE ExecuteQuote_proofs ------------------------
(***************************************************************************)
(* Proofs about ExecuteQuote, for any number of threads, quotes, keys and  *)
(* accounts, any amounts and any bounds.                                   *)
(***************************************************************************)
EXTENDS ExecuteQuote, SequenceTheorems, TLAPS

-----------------------------------------------------------------------------
(* The images a settlement goes through *)

\* Debiting, crediting, recording and logging make images of images: a debit
\* only where the balance covers it, and so a credit of a negative amount.
LEMMA ImageTypes ==
  ASSUME NEW image \in Images, NEW q \in Quotes, NEW k \in Keys, NEW t \in Nat
  PROVE  /\ image.balance[From[q]] >= SourceAmount[q] => Debited(image, q) \in Images
         /\ image.balance[To[q]] + DestinationAmount[q] >= 0 => Credited(image, q) \in Images
         /\ Recorded(image, q, k) \in Images
         /\ Logged(image, q, k, t) \in Images
<1>1. image.balance[From[q]] >= SourceAmount[q] => Debited(image, q) \in Images
  <2>. HAVE image.balance[From[q]] >= SourceAmount[q]
  <2>1. image.balance \in [Accounts -> Nat] /\ SourceAmount[q] \in Int
    BY TermsAssumption DEF Images
  <2>2. image.balance[From[q]] - SourceAmount[q] \in Nat
    BY <2>1, TermsAssumption
  <2>3. [image.balance EXCEPT ![From[q]] = @ - SourceAmount[q]] \in [Accounts -> Nat]
    BY <2>1, <2>2
  <2>. QED
    BY <2>3 DEF Images, Debited
<1>2. image.balance[To[q]] + DestinationAmount[q] >= 0 => Credited(image, q) \in Images
  <2>. HAVE image.balance[To[q]] + DestinationAmount[q] >= 0
  <2>1. image.balance \in [Accounts -> Nat] /\ DestinationAmount[q] \in Int
    BY TermsAssumption DEF Images
  <2>2. image.balance[To[q]] + DestinationAmount[q] \in Nat
    BY <2>1, TermsAssumption
  <2>3. [image.balance EXCEPT ![To[q]] = @ + DestinationAmount[q]] \in [Accounts -> Nat]
    BY <2>1, <2>2
  <2>. QED
    BY <2>3 DEF Images, Credited
<1>3. Recorded(image, q, k) \in Images
  <2>1. Append(image.transactions, [quote |-> q, key |-> k]) \in Seq(Rows)
    BY DEF Images, Rows
  <2>2. [image.status EXCEPT ![q] = "EXECUTED"] \in [Quotes -> Statuses]
    BY DEF Images, Statuses
  <2>. QED
    BY <2>1, <2>2 DEF Images, Recorded
<1>4. Logged(image, q, k, t) \in Images
  BY DEF Images, Logged, Entries
<1>. QED
  BY <1>1, <1>2, <1>3, <1>4

LEMMA EmptyImageType == EmptyImage \in Images
<1>1. <<>> \in Seq(Rows)
  OBVIOUS
<1>. QED
  BY <1>1, TermsAssumption DEF EmptyImage, Images, Statuses, Entries, NoEntry

LEMMA ImageTables ==
  ASSUME NEW image \in Images
  PROVE  DOMAIN image = {"balance", "status", "expiresAt", "transactions", "log"}
  BY DEF Images

\* What each of them changes, table by table.
LEMMA DebitedFields ==
  ASSUME NEW image \in Images, NEW q \in Quotes
  PROVE  /\ Debited(image, q).balance =
              [image.balance EXCEPT ![From[q]] = @ - SourceAmount[q]]
         /\ Debited(image, q).status = image.status
         /\ Debited(image, q).expiresAt = image.expiresAt
         /\ Debited(image, q).transactions = image.transactions
         /\ Debited(image, q).log = image.log
  BY ImageTables DEF Debited

LEMMA CreditedFields ==
  ASSUME NEW image \in Images, NEW q \in Quotes
  PROVE  /\ Credited(image, q).balance =
              [image.balance EXCEPT ![To[q]] = @ + DestinationAmount[q]]
         /\ Credited(image, q).status = image.status
         /\ Credited(image, q).expiresAt = image.expiresAt
         /\ Credited(image, q).transactions = image.transactions
         /\ Credited(image, q).log = image.log
  BY ImageTables DEF Credited

LEMMA RecordedFields ==
  ASSUME NEW image \in Images, NEW q \in Quotes, NEW k \in Keys
  PROVE  /\ Recorded(image, q, k).balance = image.balance
         /\ Recorded(image, q, k).status = [image.status EXCEPT ![q] = "EXECUTED"]
         /\ Recorded(image, q, k).expiresAt = image.expiresAt
         /\ Recorded(image, q, k).transactions =
              Append(image.transactions, [quote |-> q, key |-> k])
         /\ Recorded(image, q, k).log = image.log
  BY ImageTables DEF Recorded

LEMMA LoggedFields ==
  ASSUME NEW image \in Images, NEW q \in Quotes, NEW k \in Keys, NEW t \in Nat
  PROVE  /\ Logged(image, q, k, t).balance = image.balance
         /\ Logged(image, q, k, t).status = image.status
         /\ Logged(image, q, k, t).expiresAt = image.expiresAt
         /\ Logged(image, q, k, t).transactions = image.transactions
         /\ Logged(image, q, k, t).log =
              [image.log EXCEPT ![k] = [quote |-> q, transaction |-> t]]
  BY ImageTables DEF Logged

\* The amounts of a quote leave no account of an image below zero.
Covered(image, q) ==
  /\ image.balance[From[q]] >= SourceAmount[q]
  /\ image.balance[To[q]] + DestinationAmount[q] >= 0

\* A debit leaves the account that is credited alone.
LEMMA DebitLeavesTheOther ==
  ASSUME NEW image \in Images, NEW q \in Quotes
  PROVE  Debited(image, q).balance[To[q]] = image.balance[To[q]]
<1>1. image.balance \in [Accounts -> Nat] /\ To[q] \in Accounts /\ From[q] # To[q]
  BY TermsAssumption DEF Images
<1>. QED
  BY <1>1, DebitedFields

\* What a whole settlement makes of an image that covers it.
Settled(image, q, k, t) ==
  Logged(Recorded(Credited(Debited(image, q), q), q, k), q, k, t)

\* The tables it changes.
Moved(balance, q) ==
  [balance EXCEPT ![From[q]] = @ - SourceAmount[q],
                  ![To[q]]   = @ + DestinationAmount[q]]

MarkedExecuted(status, q) == [status EXCEPT ![q] = "EXECUTED"]

Entered(log, q, k, t) == [log EXCEPT ![k] = [quote |-> q, transaction |-> t]]

LEMMA SettledFields ==
  ASSUME NEW image \in Images, NEW q \in Quotes, NEW k \in Keys, NEW t \in Nat,
         Covered(image, q)
  PROVE  /\ Settled(image, q, k, t) \in Images
         /\ Settled(image, q, k, t).balance = Moved(image.balance, q)
         /\ Settled(image, q, k, t).status = MarkedExecuted(image.status, q)
         /\ Settled(image, q, k, t).expiresAt = image.expiresAt
         /\ Settled(image, q, k, t).transactions =
              Append(image.transactions, [quote |-> q, key |-> k])
         /\ Settled(image, q, k, t).log = Entered(image.log, q, k, t)
<1> DEFINE i1 == Debited(image, q)
           i2 == Credited(i1, q)
           i3 == Recorded(i2, q, k)
           i4 == Logged(i3, q, k, t)
<1>1. Settled(image, q, k, t) = i4
  BY DEF Settled
<1> HIDE DEF i1, i2, i3, i4
<1>2. i1 \in Images
  BY ImageTypes DEF i1, Covered
<1>3. i2 \in Images
  <2>1. i1.balance[To[q]] + DestinationAmount[q] >= 0
    BY DebitLeavesTheOther DEF i1, Covered
  <2>. QED
    BY <1>2, <2>1, ImageTypes DEF i2
<1>4. i3 \in Images
  BY <1>3, ImageTypes DEF i3
<1>5. i4 \in Images
  BY <1>4, ImageTypes DEF i4
<1>6. /\ i1.balance = [image.balance EXCEPT ![From[q]] = @ - SourceAmount[q]]
      /\ i1.status = image.status
      /\ i1.expiresAt = image.expiresAt
      /\ i1.transactions = image.transactions
      /\ i1.log = image.log
  BY DebitedFields DEF i1
<1>7. /\ i2.balance = [i1.balance EXCEPT ![To[q]] = @ + DestinationAmount[q]]
      /\ i2.status = i1.status
      /\ i2.expiresAt = i1.expiresAt
      /\ i2.transactions = i1.transactions
      /\ i2.log = i1.log
  BY <1>2, CreditedFields DEF i2
<1>8. /\ i3.balance = i2.balance
      /\ i3.status = [i2.status EXCEPT ![q] = "EXECUTED"]
      /\ i3.expiresAt = i2.expiresAt
      /\ i3.transactions = Append(i2.transactions, [quote |-> q, key |-> k])
      /\ i3.log = i2.log
  BY <1>3, RecordedFields DEF i3
<1>9. /\ i4.balance = i3.balance
      /\ i4.status = i3.status
      /\ i4.expiresAt = i3.expiresAt
      /\ i4.transactions = i3.transactions
      /\ i4.log = [i3.log EXCEPT ![k] = [quote |-> q, transaction |-> t]]
  BY <1>4, LoggedFields DEF i4
<1>10. image.balance \in [Accounts -> Nat] /\ From[q] # To[q]
  BY TermsAssumption DEF Images
<1>11. i4.balance = Moved(image.balance, q)
  BY <1>6, <1>7, <1>8, <1>9, <1>10, TermsAssumption DEF Moved
<1>12. i4.status = MarkedExecuted(image.status, q)
  BY <1>6, <1>7, <1>8, <1>9 DEF MarkedExecuted
<1>13. i4.log = Entered(image.log, q, k, t)
  BY <1>6, <1>7, <1>8, <1>9 DEF Entered
<1>14. /\ i4.expiresAt = image.expiresAt
       /\ i4.transactions = Append(image.transactions, [quote |-> q, key |-> k])
  BY <1>6, <1>7, <1>8, <1>9
<1>. QED
  BY <1>1, <1>5, <1>11, <1>12, <1>13, <1>14

\* A settlement of a pending quote under an unused key keeps them in agreement.
LEMMA SettledLedger ==
  ASSUME NEW image \in Images, NEW q \in Quotes, NEW k \in Keys, NEW t \in Nat,
         t = Len(image.transactions) + 1,
         Ledger(image),
         Covered(image, q),
         image.status[q] = "PENDING",
         image.log[k] = NoEntry
  PROVE  Ledger(Settled(image, q, k, t))
<1> DEFINE after == Settled(image, q, k, t)
           rows  == image.transactions
           n     == Len(rows)
           new   == [quote |-> q, key |-> k]
<1>1. /\ rows \in Seq(Rows) /\ n \in Nat /\ DOMAIN rows = 1..n /\ new \in Rows
      /\ \A i \in 1..n : rows[i].quote \in Quotes /\ rows[i].key \in Keys
  <2>1. rows \in Seq(Rows) /\ n \in Nat /\ DOMAIN rows = 1..n /\ new \in Rows
    BY DEF Images, Rows
  <2>2. \A i \in 1..n : rows[i] \in Rows
    BY <2>1, ElementOfSeq
  <2>. QED
    BY <2>1, <2>2 DEF Rows
<1>2. /\ after.status = [image.status EXCEPT ![q] = "EXECUTED"]
      /\ after.transactions = Append(rows, new)
      /\ after.log = [image.log EXCEPT ![k] = [quote |-> q, transaction |-> t]]
  <2>1. /\ after.status = MarkedExecuted(image.status, q)
        /\ after.transactions = Append(image.transactions, [quote |-> q, key |-> k])
        /\ after.log = Entered(image.log, q, k, t)
    BY SettledFields
  <2>. QED
    BY <2>1 DEF MarkedExecuted, Entered
<1> HIDE DEF after, rows, n, new
<1>t. t = n + 1
  BY DEF n, rows
<1>3. /\ DOMAIN after.transactions = 1..(n + 1)
      /\ \A i \in 1..n : after.transactions[i] = rows[i]
      /\ after.transactions[n + 1] = new
  BY <1>1, <1>2, AppendProperties DEF n
<1>4. \A i \in 1..n : rows[i].quote # q /\ rows[i].key # k
  <2>1. image.status[q] # "EXECUTED"
    OBVIOUS
  <2>2. \A i \in 1..n : rows[i].quote # q
    BY <2>1, <1>1 DEF Ledger, StatusAgrees, rows
  <2>3. \A i \in 1..n : image.log[rows[i].key] # NoEntry
    <3> SUFFICES ASSUME NEW i \in 1..n
                 PROVE  image.log[rows[i].key] # NoEntry
      OBVIOUS
    <3>1. image.log[rows[i].key] = [quote |-> rows[i].quote, transaction |-> i]
      BY <1>1 DEF Ledger, LogAgrees, rows
    <3>. QED
      BY <3>1, <1>1, NoQuoteAssumption DEF NoEntry
  <2>. QED
    BY <2>2, <2>3
<1>5. SettledOnce(after)
  <2> SUFFICES ASSUME NEW i \in 1..(n + 1), NEW j \in 1..(n + 1),
                      after.transactions[i].quote = after.transactions[j].quote
               PROVE  i = j
    BY <1>3 DEF SettledOnce
  <2>1. new.quote = q
    BY DEF new
  <2>2. \A a, b \in 1..n : rows[a].quote = rows[b].quote => a = b
    BY <1>1 DEF Ledger, SettledOnce, rows
  <2>3. CASE i \in 1..n /\ j \in 1..n
    BY <1>3, <2>2, <2>3
  <2>4. CASE i = n + 1 \/ j = n + 1
    BY <1>1, <1>3, <1>4, <2>1, <2>4
  <2>. QED
    BY <1>1, <2>3, <2>4
<1>6. StatusAgrees(after)
  <2> SUFFICES ASSUME NEW p \in Quotes
               PROVE  (after.status[p] = "EXECUTED") <=>
                        \E i \in 1..(n + 1) : after.transactions[i].quote = p
    BY <1>3 DEF StatusAgrees
  <2>1. CASE p = q
    BY <2>1, <1>1, <1>2, <1>3 DEF Images, new
  <2>2. CASE p # q
    <3>1. after.status[p] = image.status[p]
      BY <2>2, <1>2 DEF Images
    <3>2. (image.status[p] = "EXECUTED") <=> \E i \in 1..n : rows[i].quote = p
      BY <1>1 DEF Ledger, StatusAgrees, rows
    <3>3. (\E i \in 1..n : rows[i].quote = p) <=>
          \E i \in 1..(n + 1) : after.transactions[i].quote = p
      BY <2>2, <1>1, <1>3 DEF new
    <3>. QED
      BY <3>1, <3>2, <3>3
  <2>. QED
    BY <2>1, <2>2
<1>7. LogAgrees(after)
  <2>1. \A i \in DOMAIN after.transactions :
          after.log[after.transactions[i].key] =
            [quote |-> after.transactions[i].quote, transaction |-> i]
    <3>1. ASSUME NEW i \in 1..n
          PROVE  after.log[rows[i].key] = [quote |-> rows[i].quote, transaction |-> i]
      <4>1. after.log[rows[i].key] = image.log[rows[i].key]
        <5>1. image.log \in [Keys -> Entries]
          BY DEF Images
        <5>. QED
          BY <5>1, <1>1, <1>2, <1>4
      <4>. QED
        BY <4>1, <1>1 DEF Ledger, LogAgrees, rows
    <3>2. after.log[k] = [quote |-> q, transaction |-> t]
      BY <1>2 DEF Images
    <3> SUFFICES ASSUME NEW i \in 1..(n + 1)
                 PROVE  after.log[after.transactions[i].key] =
                          [quote |-> after.transactions[i].quote, transaction |-> i]
      BY <1>3
    <3>3. CASE i \in 1..n
      BY <3>1, <3>3, <1>3
    <3>4. CASE i = n + 1
      BY <3>2, <3>4, <1>3, <1>t DEF new
    <3>. QED
      BY <3>3, <3>4, <1>1
  <2>2. ASSUME NEW j \in Keys, after.log[j] # NoEntry
        PROVE  /\ after.log[j].transaction \in DOMAIN after.transactions
               /\ after.transactions[after.log[j].transaction] =
                    [quote |-> after.log[j].quote, key |-> j]
    <3>1. CASE j = k
      <4>1. after.log[j] = [quote |-> q, transaction |-> n + 1]
        BY <3>1, <1>2, <1>t DEF Images
      <4>. QED
        BY <4>1, <3>1, <1>1, <1>3 DEF new
    <3>2. CASE j # k
      <4>1. after.log[j] = image.log[j]
        BY <3>2, <1>2 DEF Images
      <4>2. /\ image.log[j].transaction \in 1..n
            /\ rows[image.log[j].transaction] = [quote |-> image.log[j].quote, key |-> j]
        BY <2>2, <4>1, <1>1 DEF Ledger, LogAgrees, rows
      <4>. QED
        BY <4>1, <4>2, <1>1, <1>3
    <3>. QED
      BY <3>1, <3>2
  <2>. QED
    BY <2>1, <2>2 DEF LogAgrees
<1>. QED
  BY <1>5, <1>6, <1>7 DEF Ledger, after

-----------------------------------------------------------------------------
(* The inductive invariant *)

LEMMA InitIInv == Init => IInv
<1> SUFFICES ASSUME Init
             PROVE  IInv
  OBVIOUS
<1>1. RequestsTypeOK
  <2>1. pc \in [Requests -> Places] /\ NoReply \in Replies
    BY DEF Init, Places, InTransaction, NoReply, Replies, Codes
  <2>. QED
    BY <2>1, EmptyImageType DEF Init, DatabaseInit, RequestsTypeOK
<1>2. DOMAIN db.transactions = {} /\ \A k \in Keys : db.log[k] = NoEntry
  BY DEF Init, DatabaseInit, EmptyImage
<1>3. AllOrNothing
  <2>1. SettledOnce(db) /\ LogAgrees(db)
    BY <1>2 DEF SettledOnce, LogAgrees
  <2>2. StatusAgrees(db)
    <3>1. \A q \in Quotes : db.status[q] = "ABSENT"
      BY DEF Init, DatabaseInit, EmptyImage
    <3>. QED
      BY <1>2, <3>1 DEF StatusAgrees
  <2>. QED
    BY <2>1, <2>2 DEF AllOrNothing, Ledger
<1>4. \A r \in Requests : pc[r] = "idle" /\ reply[r].code = "NONE"
  BY DEF Init, NoReply
<1>5. WriterInv /\ ImageInv /\ CheckedInv
  <2>1. lock = NoOne /\ tx = db
    BY DEF Init, DatabaseInit
  <2>2. WriterInv
    BY <1>4, <2>1, RequestsAssumption DEF WriterInv, InTransaction
  <2>3. ImageInv
    BY <1>4, <2>1 DEF ImageInv, WrittenBy
  <2>4. CheckedInv
    BY <1>4 DEF CheckedInv, CheckedBy, InTransaction, Settling
  <2>. QED
    BY <2>2, <2>3, <2>4
<1>6. AnsweredTruthfully /\ OneCreation /\ RefusedForAnotherKey
  BY <1>4 DEF AnsweredTruthfully, OneCreation, Creator, RefusedForAnotherKey
<1>. QED
  BY <1>1, <1>3, <1>5, <1>6 DEF IInv

\* A step of one thread that does not commit: what has to be shown of the thread
\* itself for the invariant to survive.
LEMMA OneThreadMoves ==
  ASSUME IInv, RequestsTypeOK',
         NEW r \in Requests,
         UNCHANGED <<db, quoteOf, keyOf>>,
         \A s \in Requests \ {r} :
           pc'[s] = pc[s] /\ row'[s] = row[s] /\ reply'[s] = reply[s],
         \/ /\ lock \in {r, NoOne} /\ lock' \in {r, NoOne}
            /\ lock' = NoOne => tx' = db
         \/ UNCHANGED <<lock, tx>>,
         pc'[r] \in InTransaction <=> lock' = r,
         WrittenBy(r)',
         CheckedBy(r)',
         reply'[r].code \in {"CREATED", "OK"} =>
           HoldsItsRow(r, reply'[r].transaction),
         Creator(r)' => Creator(r),
         reply'[r].code = "QUOTE_ALREADY_EXECUTED" => ExecutedUnderAnotherKey(r)
  PROVE  IInv'
<1>1. WriterInv'
  BY RequestsAssumption DEF IInv, WriterInv
<1>2. ImageInv'
  <2>1. lock' = NoOne => tx' = db'
    BY DEF IInv, ImageInv
  <2>2. ASSUME NEW s \in Requests \ {r}
        PROVE  WrittenBy(s)'
    <3>1. CASE lock \in {r, NoOne}
      <4>1. pc[s] \notin InTransaction
        BY <3>1, RequestsAssumption DEF IInv, WriterInv
      <4>2. pc'[s] \notin InTransaction
        BY <4>1
      <4>. QED
        BY <4>2 DEF WrittenBy, InTransaction
    <3>2. CASE UNCHANGED <<lock, tx>>
      <4>1. WrittenBy(s)
        BY DEF IInv, ImageInv
      <4>. QED
        BY <3>2, <4>1 DEF WrittenBy
    <3>. QED
      BY <3>1, <3>2
  <2>. QED
    BY <2>1, <2>2 DEF ImageInv
<1>3. CheckedInv'
  <2>1. ASSUME NEW s \in Requests \ {r}
        PROVE  CheckedBy(s)'
    <3>1. CheckedBy(s)
      BY DEF IInv, CheckedInv
    <3>. QED
      BY <3>1 DEF CheckedBy, HoldsItsRow
  <2>. QED
    BY <2>1 DEF CheckedInv
<1>4. AllOrNothing'
  BY DEF IInv, AllOrNothing, Ledger, SettledOnce, StatusAgrees, LogAgrees
<1>5. AnsweredTruthfully'
  BY DEF IInv, AnsweredTruthfully, HoldsItsRow
<1>6. OneCreation'
  BY DEF IInv, OneCreation, Creator
<1>7. RefusedForAnotherKey'
  BY DEF IInv, RefusedForAnotherKey, ExecutedUnderAnotherKey
<1>. QED
  BY <1>1, <1>2, <1>3, <1>4, <1>5, <1>6, <1>7 DEF IInv

\* A step that answers, and gives up the lock if the thread holds it.
LEMMA Answering ==
  ASSUME IInv,
         NEW r \in Requests, NEW a \in Replies,
         Answer(r, a), SameCall, SameWorld, failed' \in Nat, UNCHANGED db,
         \/ pc[r] \notin InTransaction /\ UNCHANGED <<lock, tx>>
         \/ lock = r /\ lock' = NoOne /\ tx' = db,
         a.code \in {"CREATED", "OK"} => HoldsItsRow(r, a.transaction),
         a.code = "CREATED" => pc[r] = "respond",
         a.code = "QUOTE_ALREADY_EXECUTED" => ExecutedUnderAnotherKey(r)
  PROVE  IInv'
<1>1. /\ pc' = [pc EXCEPT ![r] = "done"]
      /\ row' = [row EXCEPT ![r] = 0]
      /\ reply' = [reply EXCEPT ![r] = a]
      /\ UNCHANGED <<quoteOf, keyOf, attempts, clock, crashes>>
  BY DEF Answer, SameCall, SameWorld
<1>2. RequestsTypeOK'
  BY <1>1 DEF IInv, RequestsTypeOK, Places
<1>3. pc'[r] = "done" /\ reply'[r] = a
  BY <1>1 DEF IInv, RequestsTypeOK
<1>4. \A s \in Requests \ {r} :
        pc'[s] = pc[s] /\ row'[s] = row[s] /\ reply'[s] = reply[s]
  BY <1>1 DEF IInv, RequestsTypeOK
<1>5. pc'[r] \in InTransaction <=> lock' = r
  BY <1>3, RequestsAssumption DEF IInv, WriterInv, InTransaction
<1>6. WrittenBy(r)' /\ CheckedBy(r)'
  BY <1>3 DEF WrittenBy, CheckedBy, InTransaction, Settling
<1>7. Creator(r)' => Creator(r)
  BY <1>3 DEF Creator
<1>. QED
  BY <1>1, <1>2, <1>3, <1>4, <1>5, <1>6, <1>7, OneThreadMoves

\* A step that goes on to the next statement without an answer, inside the
\* transaction.
LEMMA Proceeding ==
  ASSUME IInv,
         NEW r \in Requests, NEW place \in InTransaction,
         pc' = [pc EXCEPT ![r] = place],
         UNCHANGED <<db, quoteOf, keyOf, attempts, reply, failed, clock, crashes>>,
         row' \in [Requests -> Nat],
         \A s \in Requests \ {r} : row'[s] = row[s],
         lock \in {r, NoOne}, lock' = r,
         tx' \in Images,
         WrittenBy(r)',
         CheckedBy(r)'
  PROVE  IInv'
<1>1. RequestsTypeOK'
  BY DEF IInv, RequestsTypeOK, Places
<1>2. pc'[r] = place
  BY DEF IInv, RequestsTypeOK
<1>3. \A s \in Requests \ {r} :
        pc'[s] = pc[s] /\ row'[s] = row[s] /\ reply'[s] = reply[s]
  BY DEF IInv, RequestsTypeOK
<1>4. Creator(r)' => Creator(r)
  BY <1>2 DEF Creator, InTransaction
<1>5. /\ reply[r].code \in {"CREATED", "OK"} => HoldsItsRow(r, reply[r].transaction)
      /\ reply[r].code = "QUOTE_ALREADY_EXECUTED" => ExecutedUnderAnotherKey(r)
  BY DEF IInv, AnsweredTruthfully, RefusedForAnotherKey
<1>6. lock' # NoOne
  BY RequestsAssumption
<1>. QED
  BY <1>1, <1>2, <1>3, <1>4, <1>5, <1>6, OneThreadMoves

-----------------------------------------------------------------------------
(* Each step of a thread *)

LEMMA ErrorTypes ==
  ASSUME NEW code \in Refusals \cup {"INTERNAL_ERROR"}
  PROVE  /\ Error(code) \in Replies
         /\ Error(code).code = code
  BY DEF Error, Replies, Codes

\* What a look-up that finds the key returns.
LEMMA ReplayIsTrue ==
  ASSUME IInv, NEW r \in Requests, keyOf[r] # NoKey, Replayable(r, db)
  PROVE  /\ ReplayOf(r, db) \in Replies
         /\ ReplayOf(r, db).code = "OK"
         /\ HoldsItsRow(r, ReplayOf(r, db).transaction)
<1>1. keyOf[r] \in Keys /\ quoteOf[r] \in Quotes /\ db \in Images
  BY DEF IInv, RequestsTypeOK
<1>2. db.log[keyOf[r]] \in Entries
  BY <1>1 DEF Images
<1>3. db.log[keyOf[r]] # NoEntry
  BY <1>1, NoQuoteAssumption DEF Replayable, NoEntry
<1>4. HoldsItsRow(r, db.log[keyOf[r]].transaction)
  BY <1>1, <1>3 DEF IInv, AllOrNothing, Ledger, LogAgrees, HoldsItsRow, Replayable
<1>. QED
  BY <1>2, <1>4 DEF ReplayOf, Replies, Codes, Entries

\* A refusal inside the transaction.
LEMMA Refusing ==
  ASSUME IInv, NEW r \in Requests, NEW code \in Refusals, Refuse(r, code),
         code = "QUOTE_ALREADY_EXECUTED" => ExecutedUnderAnotherKey(r)
  PROVE  IInv'
<1>1. Error(code) \in Replies /\ Error(code).code = code
  BY ErrorTypes
<1>2. /\ Answer(r, Error(code)) /\ SameCall /\ SameWorld /\ UNCHANGED db
      /\ lock = r /\ lock' = NoOne /\ tx' = db
  BY DEF Refuse, Rollback
<1>3. failed' \in Nat
  BY DEF Refuse, IInv, RequestsTypeOK
<1>4. code \notin {"CREATED", "OK"}
  BY DEF Refusals
<1>. QED
  BY <1>1, <1>2, <1>3, <1>4, Answering

LEMMA SendStep ==
  ASSUME IInv, NEW r \in Requests, Send(r)
  PROVE  IInv'
<1>1. /\ pc' = [pc EXCEPT ![r] = "preflight"]
      /\ row' = [row EXCEPT ![r] = 0]
      /\ reply' = [reply EXCEPT ![r] = NoReply]
      /\ attempts' = [attempts EXCEPT ![r] = @ + 1]
      /\ UNCHANGED <<db, tx, lock, failed, quoteOf, keyOf, clock, crashes>>
  BY DEF Send, GoTo, SameWorld, dbVars
<1>2. RequestsTypeOK'
  BY <1>1 DEF IInv, RequestsTypeOK, Places, NoReply, Replies, Codes
<1>3. pc'[r] = "preflight" /\ reply'[r] = NoReply
  BY <1>1 DEF IInv, RequestsTypeOK
<1>4. \A s \in Requests \ {r} :
        pc'[s] = pc[s] /\ row'[s] = row[s] /\ reply'[s] = reply[s]
  BY <1>1 DEF IInv, RequestsTypeOK
<1>5. pc'[r] \in InTransaction <=> lock' = r
  BY <1>1, <1>3 DEF Send, IInv, WriterInv, InTransaction
<1>6. WrittenBy(r)' /\ CheckedBy(r)'
  BY <1>3 DEF WrittenBy, CheckedBy, InTransaction, Settling
<1>7. reply'[r].code = "NONE" /\ ~ Creator(r)'
  BY <1>3 DEF Creator, NoReply
<1>. QED
  BY <1>1, <1>2, <1>3, <1>4, <1>5, <1>6, <1>7, OneThreadMoves

LEMMA RejectKeyStep ==
  ASSUME IInv, NEW r \in Requests, RejectKey(r)
  PROVE  IInv'
<1>1. /\ Error("MISSING_IDEMPOTENCY_KEY") \in Replies
      /\ Error("MISSING_IDEMPOTENCY_KEY").code = "MISSING_IDEMPOTENCY_KEY"
  BY ErrorTypes DEF Refusals
<1>2. failed' \in Nat /\ pc[r] \notin InTransaction
  BY DEF RejectKey, IInv, RequestsTypeOK, InTransaction
<1>. QED
  BY <1>1, <1>2, Answering DEF RejectKey, dbVars

LEMMA PreflightStep ==
  ASSUME IInv, NEW r \in Requests, Preflight(r)
  PROVE  IInv'
<1>1. /\ keyOf[r] \in Keys /\ pc[r] = "preflight" /\ pc[r] \notin InTransaction
      /\ SameCall /\ SameWorld /\ failed' \in Nat
      /\ UNCHANGED <<db, tx, lock, failed>>
  BY DEF Preflight, IInv, RequestsTypeOK, InTransaction, dbVars
<1>2. CASE GoTo(r, "begin") /\ UNCHANGED <<row, reply>>
  <2>1. /\ pc' = [pc EXCEPT ![r] = "begin"]
        /\ UNCHANGED <<row, reply, db, tx, lock, failed,
                       quoteOf, keyOf, attempts, clock, crashes>>
    BY <1>1, <1>2 DEF GoTo, SameCall, SameWorld
  <2>2. RequestsTypeOK'
    BY <2>1 DEF IInv, RequestsTypeOK, Places
  <2>3. /\ pc'[r] = "begin"
        /\ \A s \in Requests \ {r} :
             pc'[s] = pc[s] /\ row'[s] = row[s] /\ reply'[s] = reply[s]
    BY <2>1 DEF IInv, RequestsTypeOK
  <2>4. pc'[r] \in InTransaction <=> lock' = r
    BY <1>1, <2>1, <2>3 DEF IInv, WriterInv, InTransaction
  <2>5. WrittenBy(r)' /\ CheckedBy(r)'
    BY <1>1, <2>1, <2>3 DEF WrittenBy, CheckedBy, InTransaction, Settling
  <2>6. /\ Creator(r)' => Creator(r)
        /\ reply'[r].code \in {"CREATED", "OK"} => HoldsItsRow(r, reply'[r].transaction)
        /\ reply'[r].code = "QUOTE_ALREADY_EXECUTED" => ExecutedUnderAnotherKey(r)
    BY <2>1, <2>3 DEF IInv, Creator, AnsweredTruthfully, RefusedForAnotherKey
  <2>. QED
    BY <2>1, <2>2, <2>3, <2>4, <2>5, <2>6, OneThreadMoves
<1>3. CASE Replayable(r, db) /\ Answer(r, ReplayOf(r, db))
  <2>1. /\ ReplayOf(r, db) \in Replies
        /\ ReplayOf(r, db).code = "OK"
        /\ HoldsItsRow(r, ReplayOf(r, db).transaction)
    BY <1>1, <1>3, ReplayIsTrue, RequestsAssumption
  <2>. QED
    BY <1>1, <1>3, <2>1, Answering
<1>4. CASE Answer(r, Error("IDEMPOTENCY_KEY_CONFLICT"))
  <2>1. /\ Error("IDEMPOTENCY_KEY_CONFLICT") \in Replies
        /\ Error("IDEMPOTENCY_KEY_CONFLICT").code = "IDEMPOTENCY_KEY_CONFLICT"
    BY ErrorTypes DEF Refusals
  <2>. QED
    BY <1>1, <1>4, <2>1, Answering
<1>. QED
  BY <1>2, <1>3, <1>4 DEF Preflight

LEMMA BeginStep ==
  ASSUME IInv, NEW r \in Requests, Begin(r)
  PROVE  IInv'
<1>1. /\ pc[r] = "begin" /\ lock = NoOne /\ lock' = r
      /\ pc' = [pc EXCEPT ![r] = "replay"]
      /\ UNCHANGED <<db, tx, quoteOf, keyOf, attempts, row, reply,
                     failed, clock, crashes>>
  BY DEF Begin, BeginImmediate, Proceed, GoTo, SameCall, SameWorld
<1>2. pc'[r] = "replay" /\ tx = db /\ keyOf[r] \in Keys
  BY <1>1 DEF IInv, RequestsTypeOK, ImageInv, CheckedInv, CheckedBy
<1>3. WrittenBy(r)' /\ CheckedBy(r)'
  BY <1>1, <1>2 DEF WrittenBy, CheckedBy, InTransaction, Settling
<1>4. /\ "replay" \in InTransaction /\ tx' \in Images /\ row' \in [Requests -> Nat]
      /\ \A s \in Requests \ {r} : row'[s] = row[s]
  BY <1>1 DEF IInv, RequestsTypeOK, InTransaction
<1>. QED
  BY <1>1, <1>3, <1>4, Proceeding

LEMMA BeginTimeoutStep ==
  ASSUME IInv, NEW r \in Requests, BeginTimeout(r)
  PROVE  IInv'
<1>1. /\ Error("INTERNAL_ERROR") \in Replies
      /\ Error("INTERNAL_ERROR").code = "INTERNAL_ERROR"
  BY ErrorTypes
<1>2. failed' \in Nat /\ pc[r] \notin InTransaction
  BY DEF BeginTimeout, IInv, RequestsTypeOK, InTransaction
<1>. QED
  BY <1>1, <1>2, Answering DEF BeginTimeout, dbVars

\* What a thread inside its transaction may rely on.
LEMMA Inside ==
  ASSUME IInv, NEW r \in Requests, pc[r] \in InTransaction
  PROVE  /\ lock = r
         /\ keyOf[r] \in Keys /\ quoteOf[r] \in Quotes
         /\ db \in Images /\ tx \in Images
         /\ row \in [Requests -> Nat] /\ failed \in Nat
         /\ WrittenBy(r) /\ CheckedBy(r)
<1>1. lock = r /\ WrittenBy(r) /\ CheckedBy(r)
  BY DEF IInv, WriterInv, ImageInv, CheckedInv
<1>2. keyOf[r] \in Keys
  BY <1>1 DEF CheckedBy, InTransaction
<1>. QED
  BY <1>1, <1>2 DEF IInv, RequestsTypeOK

LEMMA ReplayInsideStep ==
  ASSUME IInv, NEW r \in Requests, ReplayInside(r)
  PROVE  IInv'
<1>1. pc[r] = "replay" /\ pc[r] \in InTransaction
  BY DEF ReplayInside, InTransaction
<1>2. lock = r /\ keyOf[r] \in Keys /\ tx = db /\ db \in Images
  BY <1>1, Inside DEF WrittenBy
<1>3. CASE Unused(r, tx) /\ UNCHANGED dbVars /\ Proceed(r, "quote")
  <2>1. /\ pc' = [pc EXCEPT ![r] = "quote"]
        /\ UNCHANGED <<db, tx, lock, quoteOf, keyOf, attempts, row, reply,
                       failed, clock, crashes>>
    BY <1>3 DEF Proceed, GoTo, SameCall, SameWorld, dbVars
  <2>2. pc'[r] = "quote"
    BY <2>1 DEF IInv, RequestsTypeOK
  <2>3. db.log[keyOf[r]] = NoEntry
    BY <1>2, <1>3 DEF Unused
  <2>4. WrittenBy(r)' /\ CheckedBy(r)'
    BY <1>2, <2>1, <2>2, <2>3 DEF WrittenBy, CheckedBy, InTransaction, Settling
  <2>5. /\ "quote" \in InTransaction /\ tx' \in Images /\ row' \in [Requests -> Nat]
        /\ \A s \in Requests \ {r} : row'[s] = row[s]
    BY <2>1 DEF IInv, RequestsTypeOK, InTransaction
  <2>. QED
    BY <1>2, <2>1, <2>4, <2>5, Proceeding
<1>4. CASE /\ Replayable(r, tx) /\ Commit(r) /\ Answer(r, ReplayOf(r, tx))
           /\ UNCHANGED failed /\ SameCall /\ SameWorld
  <2>1. /\ ReplayOf(r, db) \in Replies
        /\ ReplayOf(r, db).code = "OK"
        /\ HoldsItsRow(r, ReplayOf(r, db).transaction)
    BY <1>2, <1>4, ReplayIsTrue, RequestsAssumption
  <2>2. UNCHANGED db /\ lock = r /\ lock' = NoOne /\ tx' = db /\ failed' \in Nat
    BY <1>2, <1>4 DEF Commit, IInv, RequestsTypeOK
  <2>. QED
    BY <1>2, <1>4, <2>1, <2>2, Answering
<1>5. CASE Refuse(r, "IDEMPOTENCY_KEY_CONFLICT")
  BY <1>5, Refusing DEF Refusals
<1>. QED
  BY <1>3, <1>4, <1>5 DEF ReplayInside

LEMMA CheckQuoteStep ==
  ASSUME IInv, NEW r \in Requests, CheckQuote(r)
  PROVE  IInv'
<1> DEFINE q == quoteOf[r]
<1>1. pc[r] = "quote" /\ pc[r] \in InTransaction
  BY DEF CheckQuote, InTransaction
<1>2. /\ lock = r /\ keyOf[r] \in Keys /\ q \in Quotes /\ tx = db /\ db \in Images
      /\ db.log[keyOf[r]] = NoEntry
  BY <1>1, Inside DEF WrittenBy, CheckedBy
<1>3. CASE Refuse(r, "QUOTE_NOT_FOUND")
  BY <1>3, Refusing DEF Refusals
<1>4. CASE tx.status[q] = "EXECUTED" /\ Refuse(r, "QUOTE_ALREADY_EXECUTED")
  <2>1. PICK i \in DOMAIN db.transactions : db.transactions[i].quote = q
    BY <1>2, <1>4 DEF IInv, AllOrNothing, Ledger, StatusAgrees
  <2>2. db.log[db.transactions[i].key] = [quote |-> q, transaction |-> i]
    BY <2>1 DEF IInv, AllOrNothing, Ledger, LogAgrees
  <2>3. db.log[db.transactions[i].key] # db.log[keyOf[r]]
    BY <1>2, <2>2, NoQuoteAssumption DEF NoEntry
  <2>4. ExecutedUnderAnotherKey(r)
    BY <2>1, <2>3 DEF ExecutedUnderAnotherKey
  <2>. QED
    BY <1>4, <2>4, Refusing DEF Refusals
<1>5. CASE Refuse(r, "QUOTE_EXPIRED")
  BY <1>5, Refusing DEF Refusals
<1>6. CASE tx.status[q] = "PENDING" /\ UNCHANGED dbVars /\ Proceed(r, "debit")
  <2>1. /\ pc' = [pc EXCEPT ![r] = "debit"]
        /\ UNCHANGED <<db, tx, lock, quoteOf, keyOf, attempts, row, reply,
                       failed, clock, crashes>>
    BY <1>6 DEF Proceed, GoTo, SameCall, SameWorld, dbVars
  <2>2. pc'[r] = "debit"
    BY <2>1 DEF IInv, RequestsTypeOK
  <2>3. WrittenBy(r)' /\ CheckedBy(r)'
    BY <1>2, <1>6, <2>1, <2>2 DEF WrittenBy, CheckedBy, InTransaction, Settling
  <2>4. /\ "debit" \in InTransaction /\ tx' \in Images /\ row' \in [Requests -> Nat]
        /\ \A s \in Requests \ {r} : row'[s] = row[s]
    BY <2>1 DEF IInv, RequestsTypeOK, InTransaction
  <2>. QED
    BY <1>2, <2>1, <2>3, <2>4, Proceeding
<1>. QED
  BY <1>3, <1>4, <1>5, <1>6 DEF CheckQuote

LEMMA DebitStep ==
  ASSUME IInv, NEW r \in Requests, Debit(r)
  PROVE  IInv'
<1> DEFINE q == quoteOf[r]
<1>1. pc[r] = "debit" /\ pc[r] \in InTransaction
  BY DEF Debit, InTransaction
<1>2. /\ lock = r /\ keyOf[r] \in Keys /\ q \in Quotes /\ tx = db /\ db \in Images
      /\ db.log[keyOf[r]] = NoEntry /\ db.status[q] = "PENDING"
  BY <1>1, Inside DEF WrittenBy, CheckedBy, Settling
<1>3. CASE Refuse(r, "INSUFFICIENT_BALANCE")
  BY <1>3, Refusing DEF Refusals
<1>4. CASE /\ tx.balance[From[q]] >= SourceAmount[q]
           /\ Write(r, Debited(tx, q)) /\ Proceed(r, "credit")
  <2>1. /\ pc' = [pc EXCEPT ![r] = "credit"]
        /\ tx' = Debited(tx, q)
        /\ UNCHANGED <<db, lock, quoteOf, keyOf, attempts, row, reply,
                       failed, clock, crashes>>
    BY <1>4 DEF Write, Proceed, GoTo, SameCall, SameWorld
  <2>2. pc'[r] = "credit"
    BY <2>1 DEF IInv, RequestsTypeOK
  <2>3. WrittenBy(r)' /\ CheckedBy(r)'
    BY <1>2, <1>4, <2>1, <2>2 DEF WrittenBy, CheckedBy, InTransaction, Settling
  <2>4. tx' \in Images
    BY <1>2, <1>4, <2>1, ImageTypes
  <2>5. /\ "credit" \in InTransaction /\ row' \in [Requests -> Nat]
        /\ \A s \in Requests \ {r} : row'[s] = row[s]
    BY <2>1 DEF IInv, RequestsTypeOK, InTransaction
  <2>. QED
    BY <1>2, <2>1, <2>3, <2>4, <2>5, Proceeding
<1>. QED
  BY <1>3, <1>4 DEF Debit

LEMMA CreditStep ==
  ASSUME IInv, NEW r \in Requests, Credit(r)
  PROVE  IInv'
<1> DEFINE q == quoteOf[r]
<1>1. pc[r] = "credit" /\ pc[r] \in InTransaction
  BY DEF Credit, InTransaction
<1>2. /\ lock = r /\ keyOf[r] \in Keys /\ q \in Quotes /\ db \in Images
      /\ tx = Debited(db, q) /\ tx \in Images
      /\ db.log[keyOf[r]] = NoEntry /\ db.status[q] = "PENDING"
      /\ db.balance[From[q]] >= SourceAmount[q]
  BY <1>1, Inside DEF WrittenBy, CheckedBy, Settling
<1>3. CASE /\ tx.balance[To[q]] + DestinationAmount[q] >= 0
           /\ Write(r, Credited(tx, q)) /\ Proceed(r, "record")
  <2>1. /\ pc' = [pc EXCEPT ![r] = "record"]
        /\ tx' = Credited(tx, q)
        /\ UNCHANGED <<db, lock, quoteOf, keyOf, attempts, row, reply,
                       failed, clock, crashes>>
    BY <1>3 DEF Write, Proceed, GoTo, SameCall, SameWorld
  <2>2. pc'[r] = "record"
    BY <2>1 DEF IInv, RequestsTypeOK
  <2>3. db.balance[To[q]] + DestinationAmount[q] >= 0
    BY <1>2, <1>3, DebitLeavesTheOther
  <2>4. WrittenBy(r)' /\ CheckedBy(r)'
    BY <1>2, <2>1, <2>2, <2>3 DEF WrittenBy, CheckedBy, InTransaction, Settling
  <2>5. tx' \in Images
    BY <1>2, <1>3, <2>1, ImageTypes
  <2>6. /\ "record" \in InTransaction /\ row' \in [Requests -> Nat]
        /\ \A s \in Requests \ {r} : row'[s] = row[s]
    BY <2>1 DEF IInv, RequestsTypeOK, InTransaction
  <2>. QED
    BY <1>2, <2>1, <2>4, <2>5, <2>6, Proceeding
<1>4. CASE Rollback(r) /\ Proceed(r, "conflict")
  <2>1. /\ pc' = [pc EXCEPT ![r] = "conflict"]
        /\ tx' = db /\ lock' = NoOne
        /\ UNCHANGED <<db, quoteOf, keyOf, attempts, row, reply, failed, clock, crashes>>
    BY <1>4 DEF Rollback, Proceed, GoTo, SameCall, SameWorld
  <2>2. RequestsTypeOK'
    BY <1>2, <2>1 DEF IInv, RequestsTypeOK, Places
  <2>3. /\ pc'[r] = "conflict"
        /\ \A s \in Requests \ {r} :
             pc'[s] = pc[s] /\ row'[s] = row[s] /\ reply'[s] = reply[s]
    BY <2>1 DEF IInv, RequestsTypeOK
  <2>4. pc'[r] \in InTransaction <=> lock' = r
    BY <2>1, <2>3, RequestsAssumption DEF InTransaction
  <2>5. WrittenBy(r)' /\ CheckedBy(r)'
    BY <1>2, <2>1, <2>3 DEF WrittenBy, CheckedBy, InTransaction, Settling
  <2>6. /\ Creator(r)' => Creator(r)
        /\ reply'[r].code \in {"CREATED", "OK"} => HoldsItsRow(r, reply'[r].transaction)
        /\ reply'[r].code = "QUOTE_ALREADY_EXECUTED" => ExecutedUnderAnotherKey(r)
    BY <2>1, <2>3 DEF IInv, Creator, AnsweredTruthfully, RefusedForAnotherKey
  <2>. QED
    BY <1>2, <2>1, <2>2, <2>3, <2>4, <2>5, <2>6, OneThreadMoves
<1>. QED
  BY <1>3, <1>4 DEF Credit

\* What the handler of IntegrityError answers is as true as what the look-ups do.
LEMMA LookAgainStep ==
  ASSUME IInv, NEW r \in Requests, LookAgain(r)
  PROVE  IInv'
<1>1. /\ keyOf[r] \in Keys /\ pc[r] = "conflict" /\ pc[r] \notin InTransaction
      /\ Answer(r, LateAnswer(r, db))
      /\ SameCall /\ SameWorld /\ failed' \in Nat /\ UNCHANGED <<db, tx, lock>>
  BY DEF LookAgain, IInv, RequestsTypeOK, InTransaction, CheckedInv, CheckedBy, dbVars
<1>2. CASE Replayable(r, db)
  <2>1. /\ ReplayOf(r, db) \in Replies
        /\ ReplayOf(r, db).code = "OK"
        /\ HoldsItsRow(r, ReplayOf(r, db).transaction)
    BY <1>1, <1>2, ReplayIsTrue, RequestsAssumption
  <2>2. ~ Unused(r, db)
    BY <1>1, <1>2, NoQuoteAssumption DEF Unused, Replayable, NoEntry, IInv, RequestsTypeOK
  <2>3. LateAnswer(r, db) = ReplayOf(r, db)
    BY <1>2, <2>2 DEF LateAnswer, Conflicting
  <2>. QED
    BY <1>1, <2>1, <2>3, Answering
<1>3. CASE ~ Replayable(r, db)
  <2>1. PICK code \in {"INTERNAL_ERROR", "IDEMPOTENCY_KEY_CONFLICT"} :
          LateAnswer(r, db) = Error(code)
    BY <1>3 DEF LateAnswer, Conflicting
  <2>2. Error(code) \in Replies /\ Error(code).code = code
    BY ErrorTypes DEF Refusals
  <2>. QED
    BY <1>1, <2>1, <2>2, Answering
<1>. QED
  BY <1>2, <1>3

LEMMA RecordStep ==
  ASSUME IInv, NEW r \in Requests, Record(r)
  PROVE  IInv'
<1> DEFINE q == quoteOf[r]
           k == keyOf[r]
<1>1. pc[r] = "record" /\ pc[r] \in InTransaction
  BY DEF Record, InTransaction
<1>2. /\ lock = r /\ k \in Keys /\ q \in Quotes /\ db \in Images
      /\ tx = Credited(Debited(db, q), q) /\ tx \in Images
      /\ db.log[k] = NoEntry /\ db.status[q] = "PENDING"
      /\ Covered(db, q)
  BY <1>1, Inside DEF WrittenBy, CheckedBy, Settling, Covered
<1>3. /\ pc' = [pc EXCEPT ![r] = "log"]
      /\ tx' = Recorded(tx, q, k)
      /\ row' = [row EXCEPT ![r] = Len(tx.transactions) + 1]
      /\ UNCHANGED <<db, lock, quoteOf, keyOf, attempts, reply,
                     failed, clock, crashes>>
  BY DEF Record, Write, GoTo, SameCall, SameWorld
<1>4. tx.transactions = db.transactions /\ Len(tx.transactions) + 1 \in Nat
  <2>1. Debited(db, q) \in Images
    BY <1>2, ImageTypes DEF Covered
  <2>2. Debited(db, q).transactions = db.transactions
    BY <1>2, DebitedFields
  <2>3. Credited(Debited(db, q), q).transactions = Debited(db, q).transactions
    BY <1>2, <2>1, CreditedFields
  <2>4. tx.transactions = db.transactions
    BY <1>2, <2>2, <2>3
  <2>. QED
    BY <1>2, <2>4 DEF Images
<1>5. /\ pc'[r] = "log" /\ row'[r] = Len(db.transactions) + 1
      /\ row' \in [Requests -> Nat]
      /\ \A s \in Requests \ {r} : row'[s] = row[s]
  BY <1>3, <1>4 DEF IInv, RequestsTypeOK
<1>6. WrittenBy(r)' /\ CheckedBy(r)'
  BY <1>2, <1>3, <1>5 DEF WrittenBy, CheckedBy, InTransaction, Settling, Covered
<1>7. tx' \in Images /\ "log" \in InTransaction
  BY <1>2, <1>3, ImageTypes DEF InTransaction
<1>. QED
  BY <1>2, <1>3, <1>5, <1>6, <1>7, Proceeding

LEMMA LogStep ==
  ASSUME IInv, NEW r \in Requests, Log(r)
  PROVE  IInv'
<1> DEFINE q == quoteOf[r]
           k == keyOf[r]
<1>1. pc[r] = "log" /\ pc[r] \in InTransaction
  BY DEF Log, InTransaction
<1>2. /\ lock = r /\ k \in Keys /\ q \in Quotes /\ db \in Images
      /\ tx = Recorded(Credited(Debited(db, q), q), q, k) /\ tx \in Images
      /\ db.log[k] = NoEntry /\ db.status[q] = "PENDING"
      /\ Covered(db, q)
      /\ row[r] = Len(db.transactions) + 1 /\ row \in [Requests -> Nat]
  BY <1>1, Inside DEF WrittenBy, CheckedBy, Settling, Covered
<1>3. /\ pc' = [pc EXCEPT ![r] = "commit"]
      /\ tx' = Logged(tx, q, k, row[r])
      /\ UNCHANGED <<db, lock, quoteOf, keyOf, attempts, row, reply,
                     failed, clock, crashes>>
  BY DEF Log, Write, Proceed, GoTo, SameCall, SameWorld
<1>4. pc'[r] = "commit"
  BY <1>3 DEF IInv, RequestsTypeOK
<1>5. WrittenBy(r)' /\ CheckedBy(r)'
  BY <1>2, <1>3, <1>4 DEF WrittenBy, CheckedBy, InTransaction, Settling, Covered
<1>6. /\ tx' \in Images /\ "commit" \in InTransaction /\ row' \in [Requests -> Nat]
      /\ \A s \in Requests \ {r} : row'[s] = row[s]
  BY <1>2, <1>3, ImageTypes DEF InTransaction
<1>. QED
  BY <1>2, <1>3, <1>5, <1>6, Proceeding

LEMMA RespondStep ==
  ASSUME IInv, NEW r \in Requests, Respond(r)
  PROVE  IInv'
<1> DEFINE a == [code |-> "CREATED", transaction |-> row[r]]
<1>1. pc[r] = "respond" /\ pc[r] \notin InTransaction
  BY DEF Respond, InTransaction
<1>2. HoldsItsRow(r, row[r])
  BY <1>1 DEF IInv, CheckedInv, CheckedBy
<1>3. a \in Replies /\ a.code = "CREATED" /\ a.transaction = row[r]
  BY DEF IInv, RequestsTypeOK, Replies, Codes
<1>4. /\ Answer(r, a) /\ SameCall /\ SameWorld /\ failed' \in Nat
      /\ UNCHANGED <<db, tx, lock>>
  BY DEF Respond, IInv, RequestsTypeOK, dbVars
<1>. QED
  BY <1>1, <1>2, <1>3, <1>4, Answering

LEMMA FaultStep ==
  ASSUME IInv, NEW r \in Requests, Fault(r)
  PROVE  IInv'
<1>1. /\ Error("INTERNAL_ERROR") \in Replies
      /\ Error("INTERNAL_ERROR").code = "INTERNAL_ERROR"
  BY ErrorTypes
<1>2. /\ Answer(r, Error("INTERNAL_ERROR")) /\ SameCall /\ SameWorld
      /\ failed' \in Nat
  BY DEF Fault, IInv, RequestsTypeOK
<1>3. CASE pc[r] \in InTransaction /\ Rollback(r)
  BY <1>1, <1>2, <1>3, Answering DEF Rollback
<1>4. CASE pc[r] \in {"preflight", "conflict", "respond"} /\ UNCHANGED dbVars
  <2>1. pc[r] \notin InTransaction
    BY <1>4 DEF InTransaction
  <2>. QED
    BY <1>1, <1>2, <1>4, <2>1, Answering DEF dbVars
<1>. QED
  BY <1>3, <1>4 DEF Fault

\* The table of transactions only grows, so what a client was told of it stays
\* true.
LEMMA RowsStay ==
  ASSUME NEW s \in Requests, NEW new \in Rows,
         db.transactions \in Seq(Rows),
         db'.transactions = Append(db.transactions, new),
         UNCHANGED <<quoteOf, keyOf>>
  PROVE  /\ \A t : HoldsItsRow(s, t) => HoldsItsRow(s, t)'
         /\ ExecutedUnderAnotherKey(s) => ExecutedUnderAnotherKey(s)'
<1>1. /\ DOMAIN db.transactions = 1..Len(db.transactions)
      /\ DOMAIN db'.transactions = 1..(Len(db.transactions) + 1)
      /\ \A i \in 1..Len(db.transactions) : db'.transactions[i] = db.transactions[i]
      /\ Len(db.transactions) \in Nat
  BY AppendProperties
<1>2. \A i \in DOMAIN db.transactions :
        i \in DOMAIN db'.transactions /\ db'.transactions[i] = db.transactions[i]
  BY <1>1
<1>. QED
  BY <1>2 DEF HoldsItsRow, ExecutedUnderAnotherKey

LEMMA CommitAllStep ==
  ASSUME IInv, NEW r \in Requests, CommitAll(r)
  PROVE  IInv'
<1> DEFINE q == quoteOf[r]
           k == keyOf[r]
           t == Len(db.transactions) + 1
           new == [quote |-> q, key |-> k]
<1>1. pc[r] = "commit" /\ pc[r] \in InTransaction
  BY DEF CommitAll, InTransaction
<1>2. /\ lock = r /\ k \in Keys /\ q \in Quotes /\ db \in Images /\ tx \in Images
      /\ tx = Settled(db, q, k, row[r])
      /\ db.log[k] = NoEntry /\ db.status[q] = "PENDING"
      /\ Covered(db, q)
      /\ row[r] = t
  BY <1>1, Inside DEF WrittenBy, CheckedBy, Settling, Settled, Covered
<1>3. /\ pc' = [pc EXCEPT ![r] = "respond"]
      /\ db' = tx /\ lock' = NoOne /\ lock = r
      /\ UNCHANGED <<tx, quoteOf, keyOf, attempts, row, reply,
                     failed, clock, crashes>>
  BY DEF CommitAll, Commit, Proceed, GoTo, SameCall, SameWorld
<1>4. /\ db.transactions \in Seq(Rows) /\ t \in Nat /\ new \in Rows
      /\ DOMAIN db.transactions = 1..Len(db.transactions)
      /\ Len(db.transactions) \in Nat
  BY <1>2 DEF Images, Rows
<1>5. db'.transactions = Append(db.transactions, new)
  <2>1. row[r] \in Nat
    BY <1>2, <1>4
  <2>2. Settled(db, q, k, row[r]).transactions =
          Append(db.transactions, [quote |-> q, key |-> k])
    BY <1>2, <2>1, SettledFields
  <2>. QED
    BY <1>2, <1>3, <2>2
<1>6. RequestsTypeOK'
  BY <1>2, <1>3 DEF IInv, RequestsTypeOK, Places
<1>7. /\ pc'[r] = "respond"
      /\ \A s \in Requests \ {r} : pc'[s] = pc[s]
      /\ \A s \in Requests \ {r} : pc[s] \notin InTransaction
  BY <1>2, <1>3 DEF IInv, RequestsTypeOK, WriterInv
<1>8. \A s \in Requests : pc'[s] \notin InTransaction
  BY <1>7 DEF InTransaction
<1>9. WriterInv' /\ ImageInv'
  <2>1. WriterInv'
    BY <1>3, <1>8, RequestsAssumption DEF WriterInv
  <2>2. ImageInv'
    BY <1>3, <1>8 DEF ImageInv, WrittenBy, InTransaction
  <2>. QED
    BY <2>1, <2>2
<1>10. HoldsItsRow(r, row[r])'
  <2>1. /\ DOMAIN db'.transactions = 1..(Len(db.transactions) + 1)
        /\ db'.transactions[Len(db.transactions) + 1] = new
    BY <1>4, <1>5, AppendProperties
  <2>2. row'[r] \in DOMAIN db'.transactions /\ db'.transactions[row'[r]] = new
    BY <1>2, <1>3, <1>4, <2>1
  <2>. QED
    BY <1>3, <2>2 DEF HoldsItsRow
<1>11. \A s \in Requests :
         /\ \A u : HoldsItsRow(s, u) => HoldsItsRow(s, u)'
         /\ ExecutedUnderAnotherKey(s) => ExecutedUnderAnotherKey(s)'
  BY <1>3, <1>4, <1>5, RowsStay
<1>12. CheckedInv'
  <2>1. CheckedBy(r)'
    BY <1>2, <1>3, <1>7, <1>8, <1>10 DEF CheckedBy, InTransaction, Settling
  <2>2. ASSUME NEW s \in Requests \ {r}
        PROVE  CheckedBy(s)'
    <3>1. CheckedBy(s)
      BY DEF IInv, CheckedInv
    <3>2. HoldsItsRow(s, row[s]) => HoldsItsRow(s, row[s])'
      BY <1>3, <1>11
    <3>. QED
      BY <3>1, <3>2, <1>3, <1>7, <1>8 DEF CheckedBy, InTransaction, Settling
  <2>. QED
    BY <2>1, <2>2 DEF CheckedInv
<1>13. AllOrNothing'
  <2>1. Ledger(db)
    BY DEF IInv, AllOrNothing
  <2>2. Ledger(Settled(db, q, k, row[r]))
    BY <1>2, <1>4, <2>1, SettledLedger
  <2>. QED
    BY <1>2, <1>3, <2>2 DEF AllOrNothing
<1>14. AnsweredTruthfully'
  BY <1>3, <1>11 DEF IInv, AnsweredTruthfully
<1>15. OneCreation'
  <2>1. \A s \in Requests : Creator(s) => quoteOf[s] # q
    <3> SUFFICES ASSUME NEW s \in Requests, Creator(s), quoteOf[s] = q
                 PROVE  FALSE
      OBVIOUS
    <3>1. PICK u : HoldsItsRow(s, u)
      BY DEF Creator, IInv, AnsweredTruthfully, CheckedInv, CheckedBy
    <3>2. u \in DOMAIN db.transactions /\ db.transactions[u].quote = q
      BY <3>1 DEF HoldsItsRow
    <3>. QED
      BY <3>2, <1>2 DEF IInv, AllOrNothing, Ledger, StatusAgrees
  <2>2. \A s \in Requests \ {r} : Creator(s)' => Creator(s)
    BY <1>3, <1>7 DEF Creator
  <2>. QED
    BY <1>3, <2>1, <2>2 DEF IInv, OneCreation
<1>16. RefusedForAnotherKey'
  BY <1>3, <1>11 DEF IInv, RefusedForAnotherKey
<1>. QED
  BY <1>6, <1>9, <1>12, <1>13, <1>14, <1>15, <1>16 DEF IInv

-----------------------------------------------------------------------------
(* Each step of the rest of the world *)

LEMMA OfferQuoteStep ==
  ASSUME IInv, NEW q \in Quotes, OfferQuote(q)
  PROVE  IInv'
<1> DEFINE due == (clock - (clock % TicksPerSecond)) + Ttl
<1>1. /\ lock = NoOne /\ db.status[q] = "ABSENT" /\ db \in Images
      /\ db' = [db EXCEPT !.status[q] = "PENDING", !.expiresAt[q] = due]
      /\ tx' = db'
      /\ UNCHANGED <<lock, clock, failed, crashes, pc, quoteOf, keyOf,
                     attempts, row, reply>>
  BY DEF OfferQuote, WriteAndCommit, requestVars, IInv, RequestsTypeOK
<1>2. due \in Nat
  <2>1. clock \in Nat /\ TicksPerSecond \in Nat /\ TicksPerSecond > 0 /\ Ttl \in Nat
    BY BoundsAssumption DEF IInv, RequestsTypeOK
  <2>2. clock % TicksPerSecond \in Nat /\ clock % TicksPerSecond <= clock
    BY <2>1
  <2>. QED
    BY <2>1, <2>2
<1> HIDE DEF due
<1>3. /\ db'.balance = db.balance
      /\ db'.status = [db.status EXCEPT ![q] = "PENDING"]
      /\ db'.expiresAt = [db.expiresAt EXCEPT ![q] = due]
      /\ db'.transactions = db.transactions
      /\ db'.log = db.log
      /\ db' \in Images
  BY <1>1, <1>2 DEF Images, Statuses
<1>4. RequestsTypeOK'
  BY <1>1, <1>3 DEF IInv, RequestsTypeOK
<1>5. \A s \in Requests : pc[s] \notin InTransaction
  BY <1>1, RequestsAssumption DEF IInv, WriterInv
<1>6. WriterInv' /\ ImageInv' /\ CheckedInv'
  <2>1. WriterInv'
    BY <1>1 DEF IInv, WriterInv
  <2>2. ImageInv'
    BY <1>1, <1>5 DEF ImageInv, WrittenBy, InTransaction
  <2>3. CheckedInv'
    BY <1>1, <1>3, <1>5
    DEF IInv, CheckedInv, CheckedBy, HoldsItsRow, InTransaction, Settling
  <2>. QED
    BY <2>1, <2>2, <2>3
<1>7. AllOrNothing'
  <2>1. SettledOnce(db)' /\ LogAgrees(db)'
    BY <1>3 DEF IInv, AllOrNothing, Ledger, SettledOnce, LogAgrees
  <2>2. \A p \in Quotes : db'.status[p] = "EXECUTED" <=> db.status[p] = "EXECUTED"
    BY <1>1, <1>3 DEF Images
  <2>3. StatusAgrees(db)'
    BY <1>3, <2>2 DEF IInv, AllOrNothing, Ledger, StatusAgrees
  <2>. QED
    BY <2>1, <2>3 DEF AllOrNothing, Ledger
<1>8. AnsweredTruthfully' /\ OneCreation' /\ RefusedForAnotherKey'
  BY <1>1, <1>3
  DEF IInv, AnsweredTruthfully, HoldsItsRow, OneCreation, Creator,
      RefusedForAnotherKey, ExecutedUnderAnotherKey
<1>. QED
  BY <1>4, <1>6, <1>7, <1>8 DEF IInv

LEMMA TickStep ==
  ASSUME IInv, Tick
  PROVE  IInv'
<1>1. clock' \in Nat /\ UNCHANGED <<db, tx, lock, failed, crashes, pc, quoteOf,
                                    keyOf, attempts, row, reply>>
  BY DEF Tick, dbVars, requestVars, IInv, RequestsTypeOK
<1>. QED
  BY <1>1
  DEF IInv, RequestsTypeOK, WriterInv, ImageInv, WrittenBy, CheckedInv, CheckedBy,
      HoldsItsRow, AllOrNothing, Ledger, SettledOnce, StatusAgrees, LogAgrees,
      AnsweredTruthfully, OneCreation, Creator, RefusedForAnotherKey,
      ExecutedUnderAnotherKey

LEMMA CrashStep ==
  ASSUME IInv, Crash
  PROVE  IInv'
<1>1. /\ UNCHANGED <<db, clock, quoteOf, keyOf, attempts, reply>>
      /\ tx' = db /\ lock' = NoOne /\ failed' = 0 /\ crashes' = crashes + 1
      /\ pc' = [r \in Requests |-> IF pc[r] = "idle" THEN "idle" ELSE "done"]
      /\ row' = [r \in Requests |-> 0]
  BY DEF Crash, Recover
<1>2. \A r \in Requests : pc'[r] \in {"idle", "done"}
  BY <1>1
<1>3. RequestsTypeOK'
  BY <1>1 DEF IInv, RequestsTypeOK, Places
<1>4. WriterInv' /\ ImageInv' /\ CheckedInv'
  <2>1. WriterInv'
    BY <1>1, <1>2, RequestsAssumption DEF WriterInv, InTransaction
  <2>2. ImageInv'
    BY <1>1, <1>2 DEF ImageInv, WrittenBy
  <2>3. CheckedInv'
    BY <1>2 DEF CheckedInv, CheckedBy, InTransaction, Settling
  <2>. QED
    BY <2>1, <2>2, <2>3
<1>5. AllOrNothing' /\ AnsweredTruthfully' /\ RefusedForAnotherKey'
  BY <1>1
  DEF IInv, AllOrNothing, Ledger, SettledOnce, StatusAgrees, LogAgrees,
      AnsweredTruthfully, HoldsItsRow, RefusedForAnotherKey, ExecutedUnderAnotherKey
<1>6. OneCreation'
  BY <1>1, <1>2 DEF IInv, OneCreation, Creator
<1>. QED
  BY <1>3, <1>4, <1>5, <1>6 DEF IInv

LEMMA StutterStep ==
  ASSUME IInv, UNCHANGED vars
  PROVE  IInv'
  BY DEF vars, dbVars, requestVars, IInv, RequestsTypeOK, WriterInv, ImageInv, WrittenBy,
      CheckedInv, CheckedBy, HoldsItsRow, AllOrNothing, Ledger, SettledOnce,
      StatusAgrees, LogAgrees, AnsweredTruthfully, OneCreation, Creator,
      RefusedForAnotherKey, ExecutedUnderAnotherKey

LEMMA NextIInv == IInv /\ [Next]_vars => IInv'
<1> SUFFICES ASSUME IInv, [Next]_vars
             PROVE  IInv'
  OBVIOUS
<1>1. ASSUME NEW r \in Requests, Send(r)
      PROVE  IInv'
  BY <1>1, SendStep
<1>2. ASSUME NEW r \in Requests, Step(r)
      PROVE  IInv'
  <2>1. CASE RejectKey(r)
    BY <2>1, RejectKeyStep
  <2>2. CASE Preflight(r)
    BY <2>2, PreflightStep
  <2>3. CASE Begin(r)
    BY <2>3, BeginStep
  <2>4. CASE BeginTimeout(r)
    BY <2>4, BeginTimeoutStep
  <2>5. CASE ReplayInside(r)
    BY <2>5, ReplayInsideStep
  <2>6. CASE CheckQuote(r)
    BY <2>6, CheckQuoteStep
  <2>7. CASE Debit(r)
    BY <2>7, DebitStep
  <2>8. CASE Credit(r)
    BY <2>8, CreditStep
  <2>9. CASE Record(r)
    BY <2>9, RecordStep
  <2>10. CASE Log(r)
    BY <2>10, LogStep
  <2>11. CASE CommitAll(r)
    BY <2>11, CommitAllStep
  <2>12. CASE Respond(r)
    BY <2>12, RespondStep
  <2>13. CASE LookAgain(r)
    BY <2>13, LookAgainStep
  <2>. QED
    BY <1>2, <2>1, <2>2, <2>3, <2>4, <2>5, <2>6, <2>7, <2>8, <2>9, <2>10,
       <2>11, <2>12, <2>13 DEF Step
<1>3. ASSUME NEW r \in Requests, Fault(r)
      PROVE  IInv'
  BY <1>3, FaultStep
<1>4. ASSUME NEW q \in Quotes, OfferQuote(q)
      PROVE  IInv'
  BY <1>4, OfferQuoteStep
<1>. QED
  BY <1>1, <1>2, <1>3, <1>4, TickStep, CrashStep, StutterStep DEF Next

\* What may happen while the process lives.
Living ==
  \/ \E r \in Requests : Send(r) \/ Step(r) \/ Fault(r)
  \/ \E q \in Quotes : OfferQuote(q)
  \/ Tick

\* What happens to the file then is done with the lock, or while nobody has it.
LEMMA LockIsOurs ==
  ASSUME [Living]_vars
  PROVE  UNCHANGED dbVars \/ (lock \in Requests \cup {NoOne} /\ lock' \in Requests \cup {NoOne})
<1> DEFINE Goal == UNCHANGED dbVars
                   \/ (lock \in Requests \cup {NoOne} /\ lock' \in Requests \cup {NoOne})
<1>1. ASSUME NEW r \in Requests, Send(r) \/ Fault(r)
      PROVE  Goal
  BY <1>1 DEF Send, Fault, Rollback
<1>2. ASSUME NEW r \in Requests, NEW code, Refuse(r, code)
      PROVE  Goal
  BY <1>2 DEF Refuse, Rollback
<1>3. ASSUME NEW r \in Requests, NEW image, Write(r, image)
      PROVE  Goal
  BY <1>3 DEF Write
<1>4. ASSUME NEW r \in Requests, Step(r)
      PROVE  Goal
  <2>1. CASE RejectKey(r) \/ Preflight(r) \/ BeginTimeout(r) \/ Respond(r) \/ LookAgain(r)
    BY <2>1 DEF RejectKey, Preflight, BeginTimeout, Respond, LookAgain
  <2>2. CASE Begin(r) \/ CommitAll(r)
    BY <2>2 DEF Begin, BeginImmediate, CommitAll, Commit
  <2>3. CASE ReplayInside(r)
    BY <1>2, <2>3 DEF ReplayInside, Commit
  <2>4. CASE CheckQuote(r) \/ Debit(r)
    BY <1>2, <1>3, <2>4 DEF CheckQuote, Debit
  <2>5. CASE Credit(r) \/ Record(r) \/ Log(r)
    BY <1>3, <2>5 DEF Credit, Record, Log, Rollback
  <2>. QED
    BY <1>4, <2>1, <2>2, <2>3, <2>4, <2>5 DEF Step
<1>5. ASSUME NEW q \in Quotes, OfferQuote(q)
      PROVE  Goal
  BY <1>5 DEF OfferQuote, WriteAndCommit
<1>6. Tick \/ UNCHANGED vars => Goal
  BY DEF Tick, vars
<1>. QED
  BY <1>1, <1>4, <1>5, <1>6 DEF Living

-----------------------------------------------------------------------------
(* What holds of every behaviour *)

\* The invariant from which the rest follows.
THEOREM Invariance == Spec => []IInv
<1>. QED
  BY InitIInv, NextIInv, PTL DEF Spec

\* Every variable keeps its type; in particular no balance goes below zero,
\* however many executions compete for it and whatever the signs of their amounts
\* (_debit_balance and ck_balance_non_negative, under the lock).
THEOREM TypeCorrect == Spec => []TypeOK
<1> DEFINE Ours == lock \in Requests \cup {NoOne}
<1>1. Init => Ours
  BY DEF Init, DatabaseInit
<1>2. Ours /\ [Next]_vars => Ours'
  BY LockIsOurs DEF Next, Living, Crash, Recover, dbVars
<1>3. IInv /\ Ours => TypeOK
  BY DEF IInv, TypeOK
<1>. QED
  BY <1>1, <1>2, <1>3, Invariance, PTL DEF Spec

\* The debit, the credit, the status, the transaction and the idempotency entry of
\* an execution reach the file together or not at all, and a quote is executed at
\* most once (execute_quote under immediate_transaction).
THEOREM Atomicity == Spec => []AllOrNothing
<1>1. IInv => AllOrNothing
  BY DEF IInv
<1>. QED
  BY <1>1, Invariance, PTL

\* A client that was told 201 or 200 holds a transaction of the file, the one of
\* its quote under its key, and so do all repetitions of its call.
THEOREM Truthfulness == Spec => []AnsweredTruthfully
<1>1. IInv => AnsweredTruthfully
  BY DEF IInv
<1>. QED
  BY <1>1, Invariance, PTL

\* Of all threads that execute one quote, one is told that it created the
\* transaction.
THEOREM SingleCreation == Spec => []OneCreation
<1>1. IInv => OneCreation
  BY DEF IInv
<1>. QED
  BY <1>1, Invariance, PTL

\* No client is refused for an execution of its own.
THEOREM NoSelfRefusal == Spec => []RefusedForAnotherKey
<1>1. IInv => RefusedForAnotherKey
  BY DEF IInv
<1>. QED
  BY <1>1, Invariance, PTL

\* No insertion of execute_quote meets a unique constraint: under the lock, what its
\* IntegrityError handler was written for does not happen.
THEOREM InsertionsNeverCollide == Spec => []NoUniqueViolation
<1>1. IInv => NoUniqueViolation
  <2> SUFFICES ASSUME IInv, NEW r \in Requests
               PROVE  /\ pc[r] = "record" =>
                           \A i \in DOMAIN tx.transactions :
                             tx.transactions[i].quote # quoteOf[r]
                      /\ pc[r] = "log" => tx.log[keyOf[r]] = NoEntry
    BY DEF NoUniqueViolation
  <2> DEFINE q == quoteOf[r]
             moved == Credited(Debited(db, q), q)
  <2>1. ASSUME pc[r] \in {"record", "log"}
        PROVE  /\ q \in Quotes /\ keyOf[r] \in Keys
               /\ db.status[q] = "PENDING" /\ db.log[keyOf[r]] = NoEntry
               /\ pc[r] = "record" => tx = moved
               /\ pc[r] = "log" => tx = Recorded(moved, q, keyOf[r])
               /\ moved \in Images
               /\ moved.transactions = db.transactions /\ moved.log = db.log
    <3>1. pc[r] \in InTransaction
      BY <2>1 DEF InTransaction
    <3>2. /\ q \in Quotes /\ keyOf[r] \in Keys /\ db \in Images
          /\ db.status[q] = "PENDING" /\ db.log[keyOf[r]] = NoEntry
          /\ db.balance[From[q]] >= SourceAmount[q]
          /\ db.balance[To[q]] + DestinationAmount[q] >= 0
          /\ pc[r] = "record" => tx = moved
          /\ pc[r] = "log" => tx = Recorded(moved, q, keyOf[r])
      BY <2>1, <3>1, Inside DEF WrittenBy, CheckedBy, InTransaction, Settling
    <3>3. /\ Debited(db, q) \in Images
          /\ Debited(db, q).transactions = db.transactions
          /\ Debited(db, q).log = db.log
      BY <3>2, ImageTypes, DebitedFields
    <3>4. /\ moved \in Images
          /\ moved.transactions = Debited(db, q).transactions
          /\ moved.log = Debited(db, q).log
      BY <3>2, <3>3, DebitLeavesTheOther, ImageTypes, CreditedFields
    <3>. QED
      BY <3>2, <3>3, <3>4
  <2>2. pc[r] = "record" =>
          \A i \in DOMAIN tx.transactions : tx.transactions[i].quote # quoteOf[r]
    <3> HAVE pc[r] = "record"
    <3>1. tx.transactions = db.transactions /\ q \in Quotes
          /\ db.status[q] = "PENDING"
      BY <2>1
    <3>. QED
      BY <3>1 DEF IInv, AllOrNothing, Ledger, StatusAgrees
  <2>3. pc[r] = "log" => tx.log[keyOf[r]] = NoEntry
    <3> HAVE pc[r] = "log"
    <3>1. Recorded(moved, q, keyOf[r]).log = moved.log
      BY <2>1, RecordedFields
    <3>. QED
      BY <2>1, <3>1
  <2>. QED
    BY <2>2, <2>3
<1>. QED
  BY <1>1, Invariance, PTL
=============================================================================
