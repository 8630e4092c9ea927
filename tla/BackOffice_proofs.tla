-------------------------- MODULE BackOffice_proofs --------------------------
(***************************************************************************)
(* Proofs about BackOffice and MCBackOffice: the type invariant with the   *)
(* discipline of the lock, what registrations promise of customers, lists  *)
(* and refusals, and what updates promise of spreads, for every number of  *)
(* threads, addresses, currencies, pairs and crashes.                      *)
(*                                                                         *)
(* The two halves share the lock and the process.  Each has an invariant   *)
(* of its own, which every step of either half keeps.                      *)
(***************************************************************************)
EXTENDS MCBackOffice, FiniteSetTheorems, TLAPS

People == Clerks \cup Managers \cup {NoOne}

-----------------------------------------------------------------------------
(* The invariant of the registrations *)

\* Who has the lock, among the clerks.
ClerksLock ==
  /\ lock \in People
  /\ \A p \in Clerks : lock = p <=> desk[p] \in {"balances", "commit"}

\* The draft is the book, but for the customer that the thread with the lock adds: a
\* new one, at the end, with an address that the book does not have.
DraftInv ==
  /\ (\A p \in Clerks : desk[p] \notin {"balances", "commit"}) => draft = book
  /\ \A p \in Clerks : desk[p] \in {"balances", "commit"} =>
       /\ draft.customers = Append(book.customers, call[p].email)
       /\ call[p].customer = Len(book.customers) + 1
       /\ call[p].email \notin Registered(book)
  /\ \A p \in Clerks : desk[p] = "balances" => draft.balances = book.balances
  /\ \A p \in Clerks : desk[p] = "commit" =>
       draft.balances = book.balances \cup ({call[p].customer} \X Currencies)

BookInv ==
  /\ book.balances = (DOMAIN book.customers) \X Currencies
  /\ OneCustomerPerEmail

\* What a thread in the middle of a call has found, the book still has.
ReadersInv ==
  /\ \A p \in Clerks : desk[p] # "idle" => reply[p].code = "NONE"
  /\ \A p \in Clerks : desk[p] = "page" => total[p] <= Len(book.customers)
  /\ \A p \in Clerks : desk[p] = "read" => call[p].customer \in DOMAIN book.customers

\* What has been answered is true.
RepliesInv ==
  /\ \A p \in Clerks : reply[p].code = "BALANCES" => reply[p].held = Currencies
  /\ DuplicatesAreReal
  /\ PageCoversTotal

RegistrationInv ==
  RegistrationTypeOK /\ ClerksLock /\ DraftInv /\ BookInv /\ ReadersInv /\ RepliesInv

-----------------------------------------------------------------------------
(* The invariant of the spreads *)

\* Who has the lock, among the managers.
ManagersLock ==
  /\ lock \in People
  /\ \A m \in Managers : lock = m <=> place[m] = "commit"

\* The spreads to be committed are those of the file, but for the row that the thread
\* with the lock has updated.
PendingInv ==
  /\ (\A m \in Managers : place[m] # "commit") => pending = spreads
  /\ \A m \in Managers : place[m] = "commit" =>
       pending = [spreads EXCEPT ![target[m]] = UpdatedRow(m)]

\* A row that was found is there, for no row is ever deleted.
FoundInv ==
  \A m \in Managers : place[m] \in {"update", "commit", "refresh"} =>
    /\ HasSpread(target[m])
    /\ seen[m] # NoSpread

\* A process that is not up serves nobody; one that is up has seeded every pair.
ServingInv ==
  /\ ~ serving => \A m \in Managers : place[m] = "idle"
  /\ serving => \A pair \in DirectPairs : spreads[pair] # NoSpread

SpreadsInv == SpreadsTypeOK /\ ManagersLock /\ PendingInv /\ FoundInv /\ ServingInv

OfficeInv == RegistrationInv /\ SpreadsInv /\ crashes \in Nat

\* Of the history: what is on its way to the file has been asked for, and a row that
\* has not been overlapped is still the one that was read.
HistoryInv ==
  /\ wanted \in [DirectPairs -> SUBSET Spread]
  /\ \A pair \in DirectPairs : Default \in wanted[pair]
  /\ \A m \in Managers : target[m] \in DirectPairs /\ place[m] \in {"find", "update", "commit"} =>
       sent[m] \in wanted[target[m]]
  /\ \A m \in Managers : place[m] = "commit" /\ target[m] \notin overlapped =>
       seen[m] = spreads[target[m]]
  /\ \A pair \in DirectPairs \ overlapped : spreads[pair] \in wanted[pair] \cup {NoSpread}
-----------------------------------------------------------------------------
(* Steps of a clerk *)

ClerkMoves(p) ==
  \/ \E e \in Emails : CallCreate(p, e)
  \/ \E s \in Skips : CallList(p, s)
  \/ \E id \in 1..Len(book.customers) + 1 : CallBalances(p, id)
  \/ ClerkStep(p)
  \/ RegistrationFault(p)

\* The steps that touch neither the lock nor the file.
Quiet(p) ==
  /\ UNCHANGED <<lock, book, draft>>
  /\ {desk[p], desk'[p]} \cap {"balances", "commit"} = {}

LEMMA AnyEmail == (CHOOSE e \in Emails : TRUE) \in Emails
BY RegistrationAssumption

LEMMA BookTypes ==
  ASSUME RegistrationTypeOK
  PROVE  /\ book = [customers |-> book.customers, balances |-> book.balances]
         /\ draft = [customers |-> draft.customers, balances |-> draft.balances]
         /\ book.customers \in Seq(Emails) /\ draft.customers \in Seq(Emails)
         /\ book.balances \subseteq Nat \X Currencies
         /\ draft.balances \subseteq Nat \X Currencies
         /\ Len(book.customers) \in Nat
         /\ DOMAIN book.customers = 1..Len(book.customers)
BY DEF RegistrationTypeOK, Books

\* A page is full, or it shows all the rows after those it skips.
LEMMA PageRows ==
  ASSUME NEW n \in Nat, NEW skip \in Nat
  PROVE  /\ PageOf(n, skip) \in Nat
         /\ PageOf(n, skip) = Limit \/ PageOf(n, skip) + skip >= n
<1>1. Limit \in Nat \ {0}
  BY RegistrationAssumption
<1>2. CASE n >= skip + Limit
  <2>1. {i \in 1..n : skip < i /\ i <= skip + Limit} = (skip + 1)..(skip + Limit)
    BY <1>1, <1>2
  <2>2. Cardinality((skip + 1)..(skip + Limit)) = Limit
    BY <1>1, FS_Interval
  <2>3. QED
    BY <1>1, <2>1, <2>2 DEF PageOf
<1>3. CASE n < skip + Limit
  <2>1. {i \in 1..n : skip < i /\ i <= skip + Limit} = (skip + 1)..n
    BY <1>1, <1>3
  <2>2. Cardinality((skip + 1)..n) = IF skip + 1 > n THEN 0 ELSE n - (skip + 1) + 1
    BY FS_Interval
  <2>3. PageOf(n, skip) = IF skip + 1 > n THEN 0 ELSE n - (skip + 1) + 1
    BY <2>1, <2>2 DEF PageOf
  <2>4. QED
    BY <2>3
<1>4. QED
  BY <1>1, <1>2, <1>3

\* A clerk's step leaves what the others are doing alone.
LEMMA OtherClerks ==
  ASSUME RegistrationInv, NEW p \in Clerks, ClerkMoves(p), NEW q \in Clerks, q # p
  PROVE  desk'[q] = desk[q] /\ call'[q] = call[q] /\ total'[q] = total[q] /\ reply'[q] = reply[q]
<1>1. /\ desk \in [Clerks -> {"idle", "insert", "balances", "commit", "refresh", "count",
                               "page", "find", "read"}]
      /\ call \in [Clerks -> Calls] /\ total \in [Clerks -> Nat] /\ reply \in [Clerks -> Replies]
  BY DEF RegistrationInv, RegistrationTypeOK
<1>2. CASE \E e \in Emails : CallCreate(p, e)
  BY <1>1, <1>2 DEF CallCreate, Accept
<1>3. CASE \E s \in Skips : CallList(p, s)
  BY <1>1, <1>3 DEF CallList, Accept
<1>4. CASE \E id \in 1..Len(book.customers) + 1 : CallBalances(p, id)
  BY <1>1, <1>4 DEF CallBalances, Accept
<1>5. CASE InsertCustomer(p) \/ InsertBalances(p) \/ CommitCustomer(p)
  BY <1>1, <1>5 DEF InsertCustomer, InsertBalances, CommitCustomer, Turn
<1>6. CASE RefuseDuplicate(p) \/ InsertTimeout(p) \/ AnswerCreated(p) \/ RegistrationFault(p)
  BY <1>1, <1>6 DEF RefuseDuplicate, InsertTimeout, AnswerCreated, RegistrationFault, Reply
<1>7. CASE CountCustomers(p) \/ FindCustomer(p)
  BY <1>1, <1>7 DEF CountCustomers, FindCustomer, Turn
<1>8. CASE SelectPage(p) \/ CustomerNotFound(p) \/ ReadBalances(p)
  BY <1>1, <1>8 DEF SelectPage, CustomerNotFound, ReadBalances, Reply
<1>9. QED
  BY <1>2, <1>3, <1>4, <1>5, <1>6, <1>7, <1>8 DEF ClerkMoves, ClerkStep

LEMMA StepKinds ==
  ASSUME RegistrationInv, NEW p \in Clerks, ClerkMoves(p)
  PROVE  \/ Quiet(p) \/ InsertCustomer(p) \/ InsertBalances(p) \/ CommitCustomer(p)
         \/ RegistrationFault(p)
<1>1. desk \in [Clerks -> {"idle", "insert", "balances", "commit", "refresh", "count",
                            "page", "find", "read"}]
  BY DEF RegistrationInv, RegistrationTypeOK
<1>2. CASE \E e \in Emails : CallCreate(p, e)
  BY <1>1, <1>2 DEF CallCreate, Accept, Quiet
<1>3. CASE \E s \in Skips : CallList(p, s)
  BY <1>1, <1>3 DEF CallList, Accept, Quiet
<1>4. CASE \E id \in 1..Len(book.customers) + 1 : CallBalances(p, id)
  BY <1>1, <1>4 DEF CallBalances, Accept, Quiet
<1>5. CASE RefuseDuplicate(p) \/ InsertTimeout(p) \/ AnswerCreated(p)
  BY <1>1, <1>5 DEF RefuseDuplicate, InsertTimeout, AnswerCreated, Reply, Quiet
<1>6. CASE CountCustomers(p) \/ FindCustomer(p)
  BY <1>1, <1>6 DEF CountCustomers, FindCustomer, Turn, Quiet
<1>7. CASE SelectPage(p) \/ CustomerNotFound(p) \/ ReadBalances(p)
  BY <1>1, <1>7 DEF SelectPage, CustomerNotFound, ReadBalances, Reply, Quiet
<1>8. QED
  BY <1>2, <1>3, <1>4, <1>5, <1>6, <1>7 DEF ClerkMoves, ClerkStep

\* The rows of the file are never fewer, nor other ones.
LEMMA BookGrows ==
  ASSUME RegistrationInv, NEW p \in Clerks, ClerkMoves(p)
  PROVE  /\ Len(book'.customers) \in Nat /\ Len(book.customers) <= Len(book'.customers)
         /\ Registered(book) \subseteq Registered(book')
         /\ DOMAIN book.customers \subseteq DOMAIN book'.customers
<1>1. CASE UNCHANGED book
  BY <1>1, BookTypes DEF RegistrationInv
<1>2. CASE CommitCustomer(p)
  <2>1. book'.customers = Append(book.customers, call[p].email) /\ call[p].email \in Emails
    BY <1>2 DEF CommitCustomer, RegistrationInv, DraftInv, RegistrationTypeOK, Calls
  <2>2. /\ Len(book'.customers) = Len(book.customers) + 1
        /\ DOMAIN book'.customers = 1..Len(book.customers) + 1
        /\ \A i \in 1..Len(book.customers) : book'.customers[i] = book.customers[i]
    BY <2>1, BookTypes DEF RegistrationInv
  <2>3. Len(book.customers) \in Nat /\ DOMAIN book.customers = 1..Len(book.customers)
    BY BookTypes DEF RegistrationInv
  <2>4. DOMAIN book.customers \subseteq DOMAIN book'.customers
    BY <2>2, <2>3
  <2>5. Registered(book) \subseteq Registered(book')
    BY <2>2, <2>3, <2>4 DEF Registered
  <2>6. QED
    BY <2>2, <2>3, <2>4, <2>5
<1>3. QED
  BY <1>1, <1>2, StepKinds DEF Quiet, InsertCustomer, InsertBalances, RegistrationFault

-----------------------------------------------------------------------------
(* Each part of the registrations' invariant is kept *)

LEMMA RegistrationTypes_Inv ==
  ASSUME RegistrationInv, NEW p \in Clerks, ClerkMoves(p)
  PROVE  RegistrationTypeOK'
<1> USE RegistrationAssumption
<1>1. RegistrationTypeOK
  BY DEF RegistrationInv
<1>2. NoReply \in Replies
  BY DEF NoReply, Replies
<1>3. ASSUME NEW step \in {"insert", "count", "find"}, NEW request \in Calls,
             Accept(p, step, request)
      PROVE  RegistrationTypeOK'
  BY <1>1, <1>2, <1>3 DEF RegistrationTypeOK, Accept
<1>4. ASSUME NEW code \in {"CREATED", "DUPLICATE_EMAIL", "LISTED", "BALANCES",
                           "CUSTOMER_NOT_FOUND", "INTERNAL_ERROR"},
             NEW rows \in Nat, NEW held \in SUBSET Currencies,
             Reply(p, code, rows, held), book' \in Books, draft' \in Books
      PROVE  RegistrationTypeOK'
  <2>1. [code |-> code, rows |-> rows, held |-> held] \in Replies
    BY DEF Replies
  <2>2. QED
    BY <1>1, <1>4, <2>1 DEF RegistrationTypeOK, Reply
<1>5. ASSUME NEW step \in {"balances", "commit", "refresh", "page", "read"}, Turn(p, step),
             book' \in Books, draft' \in Books, call' \in [Clerks -> Calls],
             total' \in [Clerks -> Nat]
      PROVE  RegistrationTypeOK'
  BY <1>1, <1>5 DEF RegistrationTypeOK, Turn
<1>6. CASE \E e \in Emails : CallCreate(p, e)
  BY <1>3, <1>6 DEF CallCreate, Calls
<1>7. CASE \E s \in Skips : CallList(p, s)
  <2>1. PICK s \in Skips : CallList(p, s)
    BY <1>7
  <2>2. [email |-> CHOOSE e \in Emails : TRUE, customer |-> 0, skip |-> s] \in Calls
    BY AnyEmail DEF Calls
  <2>3. QED
    BY <1>3, <2>1, <2>2 DEF CallList
<1>8. CASE \E id \in 1..Len(book.customers) + 1 : CallBalances(p, id)
  <2>1. PICK id \in 1..Len(book.customers) + 1 : CallBalances(p, id)
    BY <1>8
  <2>2. id \in Nat
    BY <1>1, BookTypes
  <2>3. [email |-> CHOOSE e \in Emails : TRUE, customer |-> id, skip |-> 0] \in Calls
    BY <2>2, AnyEmail DEF Calls
  <2>4. QED
    BY <1>3, <2>1, <2>3 DEF CallBalances
<1>9. CASE InsertCustomer(p)
  <2>1. call[p].email \in Emails /\ Len(book.customers) + 1 \in Nat
    BY <1>1, BookTypes DEF RegistrationTypeOK, Calls
  <2>2. [book EXCEPT !.customers = Append(@, call[p].email)] \in Books
    <3>1. Append(book.customers, call[p].email) \in Seq(Emails)
      BY <1>1, <2>1, BookTypes
    <3>2. book \in Books
      BY <1>1 DEF RegistrationTypeOK
    <3>3. QED
      BY <3>1, <3>2 DEF Books
  <2>3. [call EXCEPT ![p].customer = Len(book.customers) + 1] \in [Clerks -> Calls]
    BY <1>1, <2>1 DEF RegistrationTypeOK, Calls
  <2>4. draft' \in Books /\ call' \in [Clerks -> Calls] /\ book' \in Books /\ total' \in [Clerks -> Nat]
    BY <1>1, <1>9, <2>2, <2>3 DEF InsertCustomer, RegistrationTypeOK
  <2>5. Turn(p, "balances")
    BY <1>9 DEF InsertCustomer
  <2>6. QED
    BY <1>5, <2>4, <2>5
<1>10. CASE InsertBalances(p)
  <2>1. {call[p].customer} \X Currencies \subseteq Nat \X Currencies
    BY <1>1 DEF RegistrationTypeOK, Calls
  <2>2. [draft EXCEPT !.balances = @ \cup ({call[p].customer} \X Currencies)] \in Books
    BY <1>1, <2>1 DEF RegistrationTypeOK, Books
  <2>3. QED
    BY <1>1, <1>5, <1>10, <2>2 DEF InsertBalances, RegistrationTypeOK
<1>11. CASE CommitCustomer(p)
  BY <1>1, <1>5, <1>11 DEF CommitCustomer, RegistrationTypeOK
<1>12. CASE CountCustomers(p)
  <2>1. total' \in [Clerks -> Nat]
    BY <1>1, <1>12, BookTypes DEF CountCustomers, RegistrationTypeOK
  <2>2. QED
    BY <1>1, <1>5, <1>12, <2>1 DEF CountCustomers, RegistrationTypeOK
<1>13. CASE FindCustomer(p)
  BY <1>1, <1>5, <1>13 DEF FindCustomer, RegistrationTypeOK
<1>14. CASE RefuseDuplicate(p) \/ InsertTimeout(p) \/ AnswerCreated(p)
  BY <1>1, <1>4, <1>14 DEF RefuseDuplicate, InsertTimeout, AnswerCreated, RegistrationTypeOK
<1>15. CASE SelectPage(p)
  <2>1. PageOf(Len(book.customers), call[p].skip) \in Nat
    <3>1. Len(book.customers) \in Nat
      BY <1>1, BookTypes
    <3>2. call[p].skip \in Nat
      BY <1>1 DEF RegistrationTypeOK, Calls
    <3>3. QED
      BY <3>1, <3>2, PageRows
  <2>2. QED
    BY <1>1, <1>4, <1>15, <2>1 DEF SelectPage, RegistrationTypeOK
<1>16. CASE CustomerNotFound(p) \/ RegistrationFault(p)
  BY <1>1, <1>4, <1>16 DEF CustomerNotFound, RegistrationFault, RegistrationTypeOK
<1>17. CASE ReadBalances(p)
  <2>1. {c \in Currencies : <<call[p].customer, c>> \in book.balances} \in SUBSET Currencies
    OBVIOUS
  <2>2. QED
    BY <1>1, <1>4, <1>17, <2>1 DEF ReadBalances, RegistrationTypeOK
<1>18. QED
  BY <1>6, <1>7, <1>8, <1>9, <1>10, <1>11, <1>12, <1>13, <1>14, <1>15, <1>16, <1>17
  DEF ClerkMoves, ClerkStep

LEMMA ClerksLock_Inv ==
  ASSUME RegistrationInv, NEW p \in Clerks, ClerkMoves(p)
  PROVE  ClerksLock'
<1> USE RegistrationAssumption
<1>1. RegistrationTypeOK /\ ClerksLock /\ NoOne \notin Clerks
  BY DEF RegistrationInv
<1>2. \A q \in Clerks \ {p} : desk'[q] = desk[q]
  BY OtherClerks
<1>3. CASE Quiet(p)
  BY <1>1, <1>2, <1>3 DEF ClerksLock, Quiet
<1>4. CASE InsertCustomer(p)
  BY <1>1, <1>2, <1>4 DEF ClerksLock, RegistrationTypeOK, InsertCustomer, Take, Turn, People
<1>5. CASE InsertBalances(p)
  BY <1>1, <1>2, <1>5 DEF ClerksLock, RegistrationTypeOK, InsertBalances, Turn
<1>6. CASE CommitCustomer(p)
  BY <1>1, <1>2, <1>6 DEF ClerksLock, RegistrationTypeOK, CommitCustomer, Release, Turn, People
<1>7. CASE RegistrationFault(p)
  BY <1>1, <1>2, <1>7 DEF ClerksLock, RegistrationTypeOK, RegistrationFault, Drop, Reply, People
<1>8. QED
  BY <1>3, <1>4, <1>5, <1>6, <1>7, StepKinds

\* Two threads are never both between their first write and their commit.
LEMMA OneClerkWrites ==
  ASSUME RegistrationInv, NEW p \in Clerks, NEW q \in Clerks,
         desk[p] \in {"balances", "commit"}, desk[q] \in {"balances", "commit"}
  PROVE  p = q
BY DEF RegistrationInv, ClerksLock

LEMMA DraftInv_Inv ==
  ASSUME RegistrationInv, NEW p \in Clerks, ClerkMoves(p)
  PROVE  DraftInv'
<1>1. RegistrationTypeOK /\ ClerksLock /\ DraftInv
  BY DEF RegistrationInv
<1>2. \A q \in Clerks \ {p} : desk'[q] = desk[q] /\ call'[q] = call[q]
  BY OtherClerks
<1>3. CASE Quiet(p)
  <2>1. UNCHANGED <<book, draft>> /\ desk[p] \notin {"balances", "commit"}
        /\ desk'[p] \notin {"balances", "commit"}
    BY <1>3 DEF Quiet
  <2>2. \A q \in Clerks : desk'[q] \in {"balances", "commit"} =>
          desk'[q] = desk[q] /\ call'[q] = call[q]
    BY <1>2, <2>1
  <2>3. (\A q \in Clerks : desk'[q] \notin {"balances", "commit"}) =>
          (\A q \in Clerks : desk[q] \notin {"balances", "commit"})
    BY <1>2, <2>1
  <2>4. Registered(book)' = Registered(book)
    BY <2>1 DEF Registered
  <2>5. QED
    BY <1>1, <2>1, <2>2, <2>3, <2>4 DEF DraftInv
<1>4. CASE InsertCustomer(p)
  <2>1. lock = NoOne /\ book' = book
    BY <1>4 DEF InsertCustomer, Take
  <2>2. \A q \in Clerks : desk[q] \notin {"balances", "commit"}
    BY <1>1, <2>1, RegistrationAssumption DEF ClerksLock
  <2>3. desk'[p] = "balances"
    BY <1>1, <1>4 DEF InsertCustomer, Turn, RegistrationTypeOK
  <2>4. \A q \in Clerks : desk'[q] \in {"balances", "commit"} => q = p
    BY <1>2, <2>2
  <2>5. call'[p] = [call[p] EXCEPT !.customer = Len(book.customers) + 1]
    BY <1>1, <1>4 DEF InsertCustomer, RegistrationTypeOK
  <2>6. call'[p].email = call[p].email /\ call'[p].customer = Len(book.customers) + 1
    BY <1>1, <2>5 DEF RegistrationTypeOK, Calls
  <2>7. draft' = [book EXCEPT !.customers = Append(book.customers, call[p].email)]
    BY <1>4 DEF InsertCustomer
  <2>8. /\ draft'.customers = Append(book.customers, call[p].email)
        /\ draft'.balances = book.balances
    BY <1>1, <2>7 DEF RegistrationTypeOK, Books
  <2>9. call[p].email \notin Registered(book)
    BY <1>4 DEF InsertCustomer, AddressTaken
  <2>10. QED
    BY <2>1, <2>3, <2>4, <2>6, <2>8, <2>9 DEF DraftInv, Registered
<1>5. CASE InsertBalances(p)
  <2>1. desk[p] = "balances" /\ book' = book /\ call' = call
    BY <1>5 DEF InsertBalances
  <2>2. desk'[p] = "commit"
    BY <1>1, <1>5 DEF InsertBalances, Turn, RegistrationTypeOK
  <2>3. \A q \in Clerks : desk'[q] \in {"balances", "commit"} => q = p
    BY <1>2, <2>1, OneClerkWrites
  <2>4. draft' = [draft EXCEPT !.balances = draft.balances \cup ({call[p].customer} \X Currencies)]
    BY <1>5 DEF InsertBalances
  <2>5. /\ draft'.customers = draft.customers
        /\ draft'.balances = draft.balances \cup ({call[p].customer} \X Currencies)
    BY <1>1, <2>4 DEF RegistrationTypeOK, Books
  <2>6. QED
    BY <1>1, <2>1, <2>2, <2>3, <2>5 DEF DraftInv, Registered
<1>6. CASE CommitCustomer(p)
  <2>1. desk[p] = "commit" /\ book' = draft /\ draft' = draft
    BY <1>6 DEF CommitCustomer
  <2>2. desk'[p] = "refresh"
    BY <1>1, <1>6 DEF CommitCustomer, Turn, RegistrationTypeOK
  <2>3. \A q \in Clerks : desk'[q] \notin {"balances", "commit"}
    BY <1>2, <2>1, <2>2, OneClerkWrites
  <2>4. QED
    BY <2>1, <2>3 DEF DraftInv
<1>7. CASE RegistrationFault(p)
  <2>1. book' = book /\ draft' = (IF lock = p THEN book ELSE draft)
    BY <1>7 DEF RegistrationFault
  <2>2. desk'[p] = "idle"
    BY <1>1, <1>7 DEF RegistrationFault, Reply, RegistrationTypeOK
  <2>3. CASE lock = p
    <3>1. \A q \in Clerks : desk'[q] \notin {"balances", "commit"}
      BY <1>1, <1>2, <2>2, <2>3 DEF ClerksLock
    <3>2. QED
      BY <2>1, <2>3, <3>1 DEF DraftInv
  <2>4. CASE lock # p
    <3>1. desk[p] \notin {"balances", "commit"}
      BY <1>1, <2>4 DEF ClerksLock
    <3>2. \A q \in Clerks : desk'[q] \in {"balances", "commit"} =>
            desk'[q] = desk[q] /\ call'[q] = call[q]
      BY <1>2, <2>2
    <3>3. (\A q \in Clerks : desk'[q] \notin {"balances", "commit"}) =>
            (\A q \in Clerks : desk[q] \notin {"balances", "commit"})
      BY <1>2, <3>1
    <3>4. QED
      BY <1>1, <2>1, <2>4, <3>2, <3>3 DEF DraftInv, Registered
  <2>5. QED
    BY <2>3, <2>4
<1>8. QED
  BY <1>3, <1>4, <1>5, <1>6, <1>7, StepKinds

LEMMA BookInv_Inv ==
  ASSUME RegistrationInv, NEW p \in Clerks, ClerkMoves(p)
  PROVE  BookInv'
<1>1. CASE UNCHANGED book
  BY <1>1 DEF RegistrationInv, BookInv, OneCustomerPerEmail
<1>2. CASE CommitCustomer(p)
  <2> DEFINE n == Len(book.customers)
             e == call[p].email
  <2>1. /\ book'.customers = Append(book.customers, e)
        /\ book'.balances = book.balances \cup ({n + 1} \X Currencies)
        /\ e \notin Registered(book)
    BY <1>2 DEF CommitCustomer, RegistrationInv, DraftInv
  <2>2. e \in Emails /\ book.customers \in Seq(Emails) /\ n \in Nat
    BY BookTypes DEF RegistrationInv, RegistrationTypeOK, Calls
  <2>3. /\ DOMAIN book'.customers = 1..(n + 1) /\ DOMAIN book.customers = 1..n
        /\ \A i \in 1..n : book'.customers[i] = book.customers[i]
        /\ book'.customers[n + 1] = e
    BY <2>1, <2>2
  <2>4. /\ book.balances = (1..n) \X Currencies
        /\ \A i, j \in 1..n : book.customers[i] = book.customers[j] => i = j
    BY <2>3 DEF RegistrationInv, BookInv, OneCustomerPerEmail
  <2>5. \A i \in 1..n : book.customers[i] # e
    BY <2>1, <2>3 DEF Registered
  <2> HIDE DEF n, e
  <2>6. 1..(n + 1) = (1..n) \cup {n + 1}
    BY <2>2
  <2>7. book'.balances = (1..(n + 1)) \X Currencies
    BY <2>1, <2>4, <2>6
  <2>8. \A i, j \in 1..(n + 1) : book'.customers[i] = book'.customers[j] => i = j
    BY <2>2, <2>3, <2>4, <2>5, <2>6
  <2>9. QED
    BY <2>3, <2>7, <2>8 DEF BookInv, OneCustomerPerEmail
<1>3. QED
  BY <1>1, <1>2, StepKinds DEF Quiet, InsertCustomer, InsertBalances, RegistrationFault

LEMMA ReadersInv_Inv ==
  ASSUME RegistrationInv, NEW p \in Clerks, ClerkMoves(p)
  PROVE  ReadersInv'
<1>1. RegistrationTypeOK /\ ReadersInv
  BY DEF RegistrationInv
<1>2. \A q \in Clerks \ {p} : /\ desk'[q] = desk[q] /\ call'[q] = call[q]
                              /\ total'[q] = total[q] /\ reply'[q] = reply[q]
  BY OtherClerks
<1>3. /\ Len(book'.customers) \in Nat /\ Len(book.customers) \in Nat
      /\ Len(book.customers) <= Len(book'.customers)
      /\ DOMAIN book.customers \subseteq DOMAIN book'.customers
  BY <1>1, BookGrows, BookTypes
<1>4. /\ desk'[p] # "idle" => reply'[p].code = "NONE"
      /\ desk'[p] = "page" => total'[p] <= Len(book'.customers)
      /\ desk'[p] = "read" => call'[p].customer \in DOMAIN book'.customers
  <2>1. ASSUME NEW step \in {"insert", "count", "find"}, NEW request, Accept(p, step, request)
        PROVE  <1>4!1 /\ <1>4!2 /\ <1>4!3
    BY <1>1, <2>1 DEF Accept, RegistrationTypeOK, NoReply
  <2>2. ASSUME NEW code, NEW rows, NEW held, Reply(p, code, rows, held)
        PROVE  <1>4!1 /\ <1>4!2 /\ <1>4!3
    BY <1>1, <2>2 DEF Reply, RegistrationTypeOK
  <2>3. ASSUME NEW step \in {"balances", "commit", "refresh"}, Turn(p, step), desk[p] # "idle"
        PROVE  <1>4!1 /\ <1>4!2 /\ <1>4!3
    BY <1>1, <2>3 DEF Turn, RegistrationTypeOK, ReadersInv
  <2>4. CASE \/ \E e \in Emails : CallCreate(p, e)
             \/ \E s \in Skips : CallList(p, s)
             \/ \E id \in 1..Len(book.customers) + 1 : CallBalances(p, id)
    BY <2>1, <2>4 DEF CallCreate, CallList, CallBalances
  <2>5. CASE \/ RefuseDuplicate(p) \/ InsertTimeout(p) \/ AnswerCreated(p) \/ SelectPage(p)
             \/ CustomerNotFound(p) \/ ReadBalances(p) \/ RegistrationFault(p)
    BY <2>2, <2>5 DEF RefuseDuplicate, InsertTimeout, AnswerCreated, SelectPage,
         CustomerNotFound, ReadBalances, RegistrationFault
  <2>6. CASE InsertCustomer(p) \/ InsertBalances(p) \/ CommitCustomer(p)
    BY <2>3, <2>6 DEF InsertCustomer, InsertBalances, CommitCustomer
  <2>7. CASE CountCustomers(p)
    <3>1. desk'[p] = "page" /\ reply' = reply /\ desk[p] # "idle"
      BY <1>1, <2>7 DEF CountCustomers, Turn, RegistrationTypeOK
    <3>2. total'[p] = Len(book.customers)
      BY <1>1, <2>7 DEF CountCustomers, RegistrationTypeOK
    <3>3. QED
      BY <1>1, <1>3, <3>1, <3>2 DEF ReadersInv
  <2>8. CASE FindCustomer(p)
    <3>1. desk'[p] = "read" /\ reply' = reply /\ desk[p] # "idle"
      BY <1>1, <2>8 DEF FindCustomer, Turn, RegistrationTypeOK
    <3>2. call' = call /\ book' = book /\ call[p].customer \in DOMAIN book.customers
      BY <2>8 DEF FindCustomer
    <3>3. QED
      BY <1>1, <3>1, <3>2 DEF ReadersInv
  <2>9. QED
    BY <2>4, <2>5, <2>6, <2>7, <2>8 DEF ClerkMoves, ClerkStep
<1>5. \A q \in Clerks : desk'[q] # "idle" => reply'[q].code = "NONE"
  BY <1>1, <1>2, <1>4 DEF ReadersInv
<1>6. \A q \in Clerks : desk'[q] = "page" => total'[q] <= Len(book'.customers)
  <2>1. \A q \in Clerks : total[q] \in Nat
    BY <1>1 DEF RegistrationTypeOK
  <2>2. QED
    BY <1>1, <1>2, <1>3, <1>4, <2>1 DEF ReadersInv
<1>7. \A q \in Clerks : desk'[q] = "read" => call'[q].customer \in DOMAIN book'.customers
  BY <1>1, <1>2, <1>3, <1>4 DEF ReadersInv
<1>8. QED
  BY <1>5, <1>6, <1>7 DEF ReadersInv

LEMMA RepliesInv_Inv ==
  ASSUME RegistrationInv, NEW p \in Clerks, ClerkMoves(p)
  PROVE  RepliesInv'
<1> DEFINE Good(q) ==
             /\ reply[q].code = "BALANCES" => reply[q].held = Currencies
             /\ reply[q].code = "DUPLICATE_EMAIL" => call[q].email \in Registered(book)
             /\ reply[q].code = "LISTED" =>
                  reply[q].rows = Limit \/ reply[q].rows + call[q].skip >= total[q]
<1>1. /\ RegistrationTypeOK /\ ReadersInv /\ BookInv /\ \A q \in Clerks : Good(q)
      /\ Registered(book) \subseteq Registered(book')
  BY BookGrows DEF RegistrationInv, RepliesInv, DuplicatesAreReal, PageCoversTotal
<1>2. \A q \in Clerks \ {p} : Good(q)'
  <2>1. \A q \in Clerks \ {p} : call'[q] = call[q] /\ total'[q] = total[q] /\ reply'[q] = reply[q]
    BY OtherClerks
  <2>2. QED
    BY <1>1, <2>1
<1>3. Good(p)'
  <2>1. ASSUME reply'[p].code \in {"NONE", "CREATED", "CUSTOMER_NOT_FOUND", "INTERNAL_ERROR"}
        PROVE  Good(p)'
    BY <2>1
  <2>2. CASE \/ \E e \in Emails : CallCreate(p, e)
             \/ \E s \in Skips : CallList(p, s)
             \/ \E id \in 1..Len(book.customers) + 1 : CallBalances(p, id)
    <3>1. reply'[p] = NoReply
      BY <1>1, <2>2 DEF CallCreate, CallList, CallBalances, Accept, RegistrationTypeOK
    <3>2. QED
      BY <2>1, <3>1 DEF NoReply
  <2>3. CASE \/ InsertCustomer(p) \/ InsertBalances(p) \/ CommitCustomer(p)
             \/ CountCustomers(p) \/ FindCustomer(p)
    <3>1. desk[p] # "idle" /\ reply' = reply
      BY <2>3 DEF InsertCustomer, InsertBalances, CommitCustomer, CountCustomers,
           FindCustomer, Turn
    <3>2. QED
      BY <1>1, <2>1, <3>1 DEF ReadersInv
  <2>4. CASE InsertTimeout(p) \/ AnswerCreated(p) \/ CustomerNotFound(p) \/ RegistrationFault(p)
    <3>1. \E code \in {"INTERNAL_ERROR", "CREATED", "CUSTOMER_NOT_FOUND"} : Reply(p, code, 0, {})
      BY <2>4 DEF InsertTimeout, AnswerCreated, CustomerNotFound, RegistrationFault
    <3>2. reply'[p].code \in {"INTERNAL_ERROR", "CREATED", "CUSTOMER_NOT_FOUND"}
      BY <1>1, <3>1 DEF Reply, RegistrationTypeOK
    <3>3. QED
      BY <2>1, <3>2
  <2>5. CASE RefuseDuplicate(p)
    <3>1. reply'[p].code = "DUPLICATE_EMAIL"
      BY <1>1, <2>5 DEF RefuseDuplicate, Reply, RegistrationTypeOK
    <3>2. call' = call /\ book' = book /\ call[p].email \in Registered(book)
      BY <2>5 DEF RefuseDuplicate, Reply, MeetsIndex, AddressTaken
    <3>3. QED
      BY <3>1, <3>2 DEF Registered
  <2>6. CASE SelectPage(p)
    <3> DEFINE n == Len(book.customers)
    <3>1. /\ reply'[p].code = "LISTED"
          /\ reply'[p].rows = PageOf(n, call[p].skip)
      BY <1>1, <2>6 DEF SelectPage, Reply, RegistrationTypeOK
    <3>2. call' = call /\ total' = total /\ desk[p] = "page"
      BY <2>6 DEF SelectPage, Reply
    <3>3. total[p] <= n /\ total[p] \in Nat /\ call[p].skip \in Nat /\ n \in Nat
      BY <1>1, <3>2, BookTypes DEF ReadersInv, RegistrationTypeOK, Calls
    <3> HIDE DEF n
    <3>4. /\ PageOf(n, call[p].skip) \in Nat
          /\ PageOf(n, call[p].skip) = Limit \/ PageOf(n, call[p].skip) + call[p].skip >= n
      BY <3>3, PageRows
    <3>5. reply'[p].rows = Limit \/ reply'[p].rows + call'[p].skip >= total'[p]
      BY <3>1, <3>2, <3>3, <3>4
    <3>6. QED
      BY <3>1, <3>5
  <2>7. CASE ReadBalances(p)
    <3>1. /\ reply'[p].code = "BALANCES"
          /\ reply'[p].held = {c \in Currencies : <<call[p].customer, c>> \in book.balances}
      BY <1>1, <2>7 DEF ReadBalances, Reply, RegistrationTypeOK
    <3>2. call[p].customer \in DOMAIN book.customers
      BY <1>1, <2>7 DEF ReadBalances, ReadersInv
    <3>3. QED
      BY <1>1, <3>1, <3>2 DEF BookInv
  <2>8. QED
    BY <2>2, <2>3, <2>4, <2>5, <2>6, <2>7 DEF ClerkMoves, ClerkStep
<1>4. \A q \in Clerks : Good(q)'
  BY <1>2, <1>3
<1>5. QED
  BY <1>4 DEF RepliesInv, DuplicatesAreReal, PageCoversTotal

LEMMA ClerkMoves_Inv ==
  ASSUME RegistrationInv, NEW p \in Clerks, ClerkMoves(p)
  PROVE  RegistrationInv'
BY RegistrationTypes_Inv, ClerksLock_Inv, DraftInv_Inv, BookInv_Inv, ReadersInv_Inv,
   RepliesInv_Inv DEF RegistrationInv

-----------------------------------------------------------------------------
(* Steps of a manager *)

ManagerMoves(m) ==
  \/ \E pair \in DirectPairs \cup {OtherPair}, new \in Spread : CallUpdate(m, pair, new)
  \/ ManagerStep(m)
  \/ SpreadFault(m)

LEMMA SpreadTypes ==
  ASSUME SpreadsTypeOK
  PROVE  /\ Default \in Spread
         /\ \A pair \in DirectPairs : spreads[pair] # NoSpread => spreads[pair] \in Spread
         /\ \A m \in Managers : sent[m] \in Spread
         /\ \A m \in Managers : seen[m] # NoSpread => seen[m] \in Spread
BY SpreadsAssumption DEF SpreadsTypeOK, Default, Spread

LEMMA UpdatedRowType ==
  ASSUME SpreadsTypeOK, NEW m \in Managers, HasSpread(target[m]), seen[m] # NoSpread
  PROVE  UpdatedRow(m) \in Spread
<1>1. spreads[target[m]] \in Spread /\ sent[m] \in Spread /\ seen[m] \in Spread
  BY SpreadTypes DEF HasSpread
<1>2. QED
  BY <1>1 DEF UpdatedRow, Spread

LEMMA OtherManagers ==
  ASSUME SpreadsInv, NEW m \in Managers, ManagerMoves(m), NEW n \in Managers, n # m
  PROVE  /\ place'[n] = place[n] /\ target'[n] = target[n] /\ sent'[n] = sent[n]
         /\ seen'[n] = seen[n]
<1>1. SpreadsTypeOK
  BY DEF SpreadsInv
<1>2. CASE \E pair \in DirectPairs \cup {OtherPair}, new \in Spread : CallUpdate(m, pair, new)
  BY <1>1, <1>2 DEF CallUpdate, SpreadsTypeOK
<1>3. CASE ReadSpread(m) \/ NothingToUpdate(m) \/ UpdateSpread(m) \/ CommitSpread(m)
  BY <1>1, <1>3 DEF ReadSpread, NothingToUpdate, UpdateSpread, CommitSpread, Continue, SpreadsTypeOK
<1>4. CASE SpreadNotFound(m) \/ SpreadTimeout(m) \/ AnswerSpread(m) \/ SpreadFault(m)
  BY <1>1, <1>4 DEF SpreadNotFound, SpreadTimeout, AnswerSpread, SpreadFault, AnswerUpdate, SpreadsTypeOK
<1>5. QED
  BY <1>2, <1>3, <1>4 DEF ManagerMoves, ManagerStep

LEMMA SpreadsTypes_Inv ==
  ASSUME SpreadsInv, NEW m \in Managers, ManagerMoves(m)
  PROVE  SpreadsTypeOK'
<1>1. SpreadsTypeOK /\ FoundInv /\ PendingInv
  BY DEF SpreadsInv
<1>2. NothingSent \in Spread /\ Default \in Spread
  BY <1>1, SpreadTypes DEF NothingSent
<1>3. CASE \E pair \in DirectPairs \cup {OtherPair}, new \in Spread : CallUpdate(m, pair, new)
  <2>1. PICK pair \in DirectPairs \cup {OtherPair}, new \in Spread : CallUpdate(m, pair, new)
    BY <1>3
  <2>2. Unanswered \in [code : {"NONE", "OK", "SPREAD_NOT_FOUND", "INTERNAL_ERROR"},
                        row : Spread \cup {NoSpread}]
    BY DEF Unanswered
  <2>3. QED
    BY <1>1, <2>1, <2>2 DEF CallUpdate, SpreadsTypeOK
<1>4. ASSUME NEW step \in {"update", "commit", "refresh"}, Continue(m, step),
             spreads' \in [DirectPairs -> Spread \cup {NoSpread}],
             pending' \in [DirectPairs -> Spread \cup {NoSpread}],
             seen' \in [Managers -> Spread \cup {NoSpread}]
      PROVE  SpreadsTypeOK'
  BY <1>1, <1>4 DEF Continue, SpreadsTypeOK
<1>5. ASSUME NEW code \in {"OK", "SPREAD_NOT_FOUND", "INTERNAL_ERROR"},
             NEW row \in Spread \cup {NoSpread}, AnswerUpdate(m, code, row),
             spreads' = spreads, pending' \in {pending, spreads}
      PROVE  SpreadsTypeOK'
  <2>1. [code |-> code, row |-> row] \in [code : {"NONE", "OK", "SPREAD_NOT_FOUND", "INTERNAL_ERROR"},
                                          row : Spread \cup {NoSpread}]
    OBVIOUS
  <2>2. pending' \in [DirectPairs -> Spread \cup {NoSpread}]
    BY <1>1, <1>5 DEF SpreadsTypeOK
  <2>3. QED
    BY <1>1, <1>2, <1>5, <2>1, <2>2 DEF AnswerUpdate, SpreadsTypeOK
<1>6. CASE SpreadNotFound(m) \/ SpreadTimeout(m) \/ SpreadFault(m)
  BY <1>5, <1>6 DEF SpreadNotFound, SpreadTimeout, SpreadFault
<1>7. CASE ReadSpread(m)
  <2>1. spreads[target[m]] \in Spread
    BY <1>1, <1>7, SpreadTypes DEF ReadSpread, HasSpread
  <2>2. seen' \in [Managers -> Spread \cup {NoSpread}]
    BY <1>1, <1>7, <2>1 DEF ReadSpread, SpreadsTypeOK
  <2>3. QED
    BY <1>1, <1>4, <1>7, <2>2 DEF ReadSpread, SpreadsTypeOK
<1>8. CASE NothingToUpdate(m)
  BY <1>1, <1>4, <1>8 DEF NothingToUpdate, SpreadsTypeOK
<1>9. CASE UpdateSpread(m)
  <2>1. UpdatedRow(m) \in Spread
    BY <1>1, <1>9, UpdatedRowType DEF UpdateSpread, FoundInv
  <2>2. pending' \in [DirectPairs -> Spread \cup {NoSpread}]
    BY <1>1, <1>9, <2>1 DEF UpdateSpread, SpreadsTypeOK
  <2>3. QED
    BY <1>1, <1>4, <1>9, <2>2 DEF UpdateSpread, SpreadsTypeOK
<1>10. CASE CommitSpread(m)
  BY <1>1, <1>4, <1>10 DEF CommitSpread, SpreadsTypeOK
<1>11. CASE AnswerSpread(m)
  <2>1. spreads[target[m]] \in Spread
    BY <1>1, <1>11, SpreadTypes DEF AnswerSpread, FoundInv, HasSpread
  <2>2. QED
    BY <1>5, <1>11, <2>1 DEF AnswerSpread
<1>12. QED
  BY <1>3, <1>6, <1>7, <1>8, <1>9, <1>10, <1>11 DEF ManagerMoves, ManagerStep

\* What a step does to the lock and to the file.
ManagerQuiet(m) ==
  /\ UNCHANGED <<lock, spreads, pending>>
  /\ {place[m], place'[m]} \cap {"commit"} = {}

LEMMA ManagerKinds ==
  ASSUME SpreadsInv, NEW m \in Managers, ManagerMoves(m)
  PROVE  \/ ManagerQuiet(m) \/ UpdateSpread(m) \/ CommitSpread(m) \/ SpreadFault(m)
<1>1. SpreadsTypeOK
  BY DEF SpreadsInv
<1>2. CASE \E pair \in DirectPairs \cup {OtherPair}, new \in Spread : CallUpdate(m, pair, new)
  BY <1>1, <1>2 DEF CallUpdate, SpreadsTypeOK, ManagerQuiet
<1>3. CASE ReadSpread(m) \/ NothingToUpdate(m)
  BY <1>1, <1>3 DEF ReadSpread, NothingToUpdate, Continue, SpreadsTypeOK, ManagerQuiet
<1>4. CASE SpreadNotFound(m) \/ SpreadTimeout(m) \/ AnswerSpread(m)
  BY <1>1, <1>4 DEF SpreadNotFound, SpreadTimeout, AnswerSpread, AnswerUpdate, SpreadsTypeOK, ManagerQuiet
<1>5. QED
  BY <1>2, <1>3, <1>4 DEF ManagerMoves, ManagerStep

LEMMA ManagersLock_Inv ==
  ASSUME SpreadsInv, NEW m \in Managers, ManagerMoves(m)
  PROVE  ManagersLock'
<1>1. SpreadsTypeOK /\ ManagersLock /\ NoOne \notin Managers
  BY SpreadsAssumption DEF SpreadsInv
<1>2. \A n \in Managers \ {m} : place'[n] = place[n]
  BY OtherManagers
<1>3. CASE ManagerQuiet(m)
  BY <1>1, <1>2, <1>3 DEF ManagersLock, ManagerQuiet
<1>4. CASE UpdateSpread(m)
  BY <1>1, <1>2, <1>4 DEF ManagersLock, SpreadsTypeOK, UpdateSpread, Take, Continue, People
<1>5. CASE CommitSpread(m)
  BY <1>1, <1>2, <1>5 DEF ManagersLock, SpreadsTypeOK, CommitSpread, Release, Continue, People
<1>6. CASE SpreadFault(m)
  BY <1>1, <1>2, <1>6 DEF ManagersLock, SpreadsTypeOK, SpreadFault, Drop, AnswerUpdate, People
<1>7. QED
  BY <1>3, <1>4, <1>5, <1>6, ManagerKinds

\* A step that leaves the file and all that a manager keeps alone leaves the row that
\* it writes as it is.
LEMMA SameRow ==
  ASSUME NEW n \in Managers, spreads' = spreads, target'[n] = target[n],
         sent'[n] = sent[n], seen'[n] = seen[n]
  PROVE  UpdatedRow(n)' = UpdatedRow(n)
BY DEF UpdatedRow

LEMMA PendingInv_Inv ==
  ASSUME SpreadsInv, NEW m \in Managers, ManagerMoves(m)
  PROVE  PendingInv'
<1>1. SpreadsTypeOK /\ ManagersLock /\ PendingInv /\ NoOne \notin Managers
  BY SpreadsAssumption DEF SpreadsInv
<1>2. \A n \in Managers \ {m} : /\ place'[n] = place[n] /\ target'[n] = target[n]
                                /\ sent'[n] = sent[n] /\ seen'[n] = seen[n]
  BY OtherManagers
<1>3. ASSUME spreads' = spreads, pending' = pending, place[m] # "commit", place'[m] # "commit"
      PROVE  PendingInv'
  <2>1. \A n \in Managers : place'[n] = "commit" =>
          place[n] = "commit" /\ target'[n] = target[n] /\ UpdatedRow(n)' = UpdatedRow(n)
    BY <1>2, <1>3, SameRow
  <2>2. (\A n \in Managers : place'[n] # "commit") => (\A n \in Managers : place[n] # "commit")
    BY <1>2, <1>3
  <2>3. QED
    BY <1>1, <1>3, <2>1, <2>2 DEF PendingInv
<1>4. CASE ManagerQuiet(m)
  BY <1>3, <1>4 DEF ManagerQuiet
<1>5. CASE UpdateSpread(m)
  <2>1. lock = NoOne /\ spreads' = spreads /\ target' = target /\ sent' = sent /\ seen' = seen
    BY <1>5 DEF UpdateSpread, Take, Continue
  <2>2. \A n \in Managers : place[n] # "commit"
    BY <1>1, <2>1 DEF ManagersLock
  <2>3. place'[m] = "commit" /\ \A n \in Managers : place'[n] = "commit" => n = m
    BY <1>1, <1>2, <1>5, <2>2 DEF UpdateSpread, Continue, SpreadsTypeOK
  <2>4. UpdatedRow(m)' = UpdatedRow(m)
    BY <2>1, SameRow
  <2>5. pending' = [spreads EXCEPT ![target[m]] = UpdatedRow(m)]
    BY <1>5 DEF UpdateSpread
  <2>6. QED
    BY <2>1, <2>3, <2>4, <2>5 DEF PendingInv
<1>6. CASE CommitSpread(m)
  <2>1. spreads' = pending /\ pending' = pending /\ place[m] = "commit"
    BY <1>6 DEF CommitSpread
  <2>2. \A n \in Managers : place'[n] # "commit"
    BY <1>1, <1>2, <1>6, <2>1 DEF CommitSpread, Continue, SpreadsTypeOK, ManagersLock
  <2>3. QED
    BY <2>1, <2>2 DEF PendingInv
<1>7. CASE SpreadFault(m)
  <2>1. spreads' = spreads /\ pending' = (IF lock = m THEN spreads ELSE pending)
    BY <1>7 DEF SpreadFault
  <2>2. place'[m] = "idle"
    BY <1>1, <1>7 DEF SpreadFault, AnswerUpdate, SpreadsTypeOK
  <2>3. CASE lock = m
    <3>1. \A n \in Managers : place'[n] # "commit"
      BY <1>1, <1>2, <2>2, <2>3 DEF ManagersLock
    <3>2. QED
      BY <2>1, <2>3, <3>1 DEF PendingInv
  <2>4. CASE lock # m
    BY <1>1, <1>3, <2>1, <2>2, <2>4 DEF ManagersLock
  <2>5. QED
    BY <2>3, <2>4
<1>8. QED
  BY <1>4, <1>5, <1>6, <1>7, ManagerKinds

\* A row that is there stays.
LEMMA RowsStay ==
  ASSUME SpreadsInv, NEW m \in Managers, ManagerMoves(m),
         NEW pair \in DirectPairs, spreads[pair] # NoSpread
  PROVE  spreads'[pair] # NoSpread
<1>1. CASE spreads' = spreads
  BY <1>1
<1>2. CASE CommitSpread(m)
  <2>1. /\ spreads' = [spreads EXCEPT ![target[m]] = UpdatedRow(m)]
        /\ HasSpread(target[m]) /\ seen[m] # NoSpread /\ SpreadsTypeOK
    BY <1>2 DEF CommitSpread, SpreadsInv, PendingInv, FoundInv
  <2>2. UpdatedRow(m) # NoSpread
    BY <2>1, UpdatedRowType, NoSpreadAssumption
  <2>3. QED
    BY <2>1, <2>2 DEF SpreadsTypeOK
<1>3. QED
  BY <1>1, <1>2, ManagerKinds DEF ManagerQuiet, UpdateSpread, SpreadFault

LEMMA FoundInv_Inv ==
  ASSUME SpreadsInv, NEW m \in Managers, ManagerMoves(m)
  PROVE  FoundInv'
<1>1. SpreadsTypeOK /\ FoundInv
  BY DEF SpreadsInv
<1>2. \A pair : HasSpread(pair) => HasSpread(pair)'
  BY RowsStay DEF HasSpread
<1>3. \A n \in Managers \ {m} : /\ place'[n] = place[n] /\ target'[n] = target[n]
                                /\ seen'[n] = seen[n]
  BY OtherManagers
<1>4. place'[m] \in {"update", "commit", "refresh"} =>
        HasSpread(target[m]) /\ target'[m] = target[m] /\ seen'[m] # NoSpread
  <2>1. CASE \E pair \in DirectPairs \cup {OtherPair}, new \in Spread : CallUpdate(m, pair, new)
    BY <1>1, <2>1 DEF CallUpdate, SpreadsTypeOK
  <2>2. CASE SpreadNotFound(m) \/ SpreadTimeout(m) \/ AnswerSpread(m) \/ SpreadFault(m)
    BY <1>1, <2>2 DEF SpreadNotFound, SpreadTimeout, AnswerSpread, SpreadFault, AnswerUpdate,
         SpreadsTypeOK
  <2>3. CASE ReadSpread(m)
    BY <1>1, <2>3 DEF ReadSpread, Continue, HasSpread, SpreadsTypeOK
  <2>4. CASE NothingToUpdate(m) \/ UpdateSpread(m) \/ CommitSpread(m)
    BY <1>1, <2>4 DEF NothingToUpdate, UpdateSpread, CommitSpread, Continue, FoundInv, SpreadsTypeOK
  <2>5. QED
    BY <2>1, <2>2, <2>3, <2>4 DEF ManagerMoves, ManagerStep
<1>5. \A n \in Managers : place'[n] \in {"update", "commit", "refresh"} =>
        HasSpread(target[n])' /\ seen'[n] # NoSpread
  <2>1. \A n \in Managers : HasSpread(target[n])' <=>
          target'[n] \in DirectPairs /\ spreads'[target'[n]] # NoSpread
    BY DEF HasSpread
  <2>2. \A n \in Managers : HasSpread(target[n]) =>
          target[n] \in DirectPairs /\ spreads'[target[n]] # NoSpread
    BY RowsStay DEF HasSpread
  <2>3. QED
    BY <1>1, <1>3, <1>4, <2>1, <2>2 DEF FoundInv
<1>6. QED
  BY <1>5 DEF FoundInv

LEMMA ServingInv_Inv ==
  ASSUME SpreadsInv, NEW m \in Managers, ManagerMoves(m)
  PROVE  ServingInv'
<1>1. SpreadsTypeOK /\ ServingInv
  BY DEF SpreadsInv
<1>2. serving /\ serving' = serving
  <2>1. serving \in BOOLEAN
    BY <1>1 DEF SpreadsTypeOK
  <2>2. CASE \E pair \in DirectPairs \cup {OtherPair}, new \in Spread : CallUpdate(m, pair, new)
    BY <2>2 DEF CallUpdate
  <2>3. CASE SpreadNotFound(m) \/ SpreadTimeout(m) \/ AnswerSpread(m) \/ SpreadFault(m)
    BY <1>1, <2>3 DEF SpreadNotFound, SpreadTimeout, AnswerSpread, SpreadFault, AnswerUpdate,
         ServingInv
  <2>4. CASE ReadSpread(m) \/ NothingToUpdate(m) \/ UpdateSpread(m) \/ CommitSpread(m)
    BY <1>1, <2>4 DEF ReadSpread, NothingToUpdate, UpdateSpread, CommitSpread, Continue, ServingInv
  <2>5. QED
    BY <2>2, <2>3, <2>4 DEF ManagerMoves, ManagerStep
<1>3. QED
  BY <1>1, <1>2, RowsStay DEF ServingInv

LEMMA ManagerMoves_Inv ==
  ASSUME SpreadsInv, NEW m \in Managers, ManagerMoves(m)
  PROVE  SpreadsInv'
BY SpreadsTypes_Inv, ManagersLock_Inv, PendingInv_Inv, FoundInv_Inv, ServingInv_Inv
DEF SpreadsInv

LEMMA Seed_Inv ==
  ASSUME SpreadsInv, SeedAndServe
  PROVE  SpreadsInv'
<1>1. SpreadsTypeOK /\ ManagersLock /\ ServingInv
  BY DEF SpreadsInv
<1>2. /\ ~ serving /\ serving' = TRUE
      /\ spreads' = [pair \in DirectPairs |-> Seeded(pair)] /\ pending' = spreads'
      /\ UNCHANGED <<lock, place, target, sent, seen, answer, updates>>
  BY DEF SeedAndServe
<1>3. \A n \in Managers : place'[n] = "idle"
  BY <1>1, <1>2 DEF ServingInv
<1>4. \A pair \in DirectPairs : Seeded(pair) \in Spread
  BY <1>1, SpreadTypes DEF Seeded, SpreadsTypeOK
<1>5. SpreadsTypeOK'
  BY <1>1, <1>2, <1>4 DEF SpreadsTypeOK
<1>6. ServingInv'
  BY <1>2, <1>4, NoSpreadAssumption DEF ServingInv
<1>7. QED
  BY <1>1, <1>2, <1>3, <1>5, <1>6 DEF SpreadsInv, ManagersLock, PendingInv, FoundInv

-----------------------------------------------------------------------------
(* Either half keeps the invariant of the other, and a crash keeps both *)

LEMMA ClerksAndSpreads ==
  ASSUME RegistrationInv, SpreadsInv, NEW p \in Clerks, ClerkMoves(p), UNCHANGED spreadsVars
  PROVE  SpreadsInv'
<1>1. Clerks \cap Managers = {} /\ NoOne \notin Managers /\ ManagersLock
  BY BackOfficeAssumption, SpreadsAssumption DEF SpreadsInv
<1>2. lock' = lock \/ (lock \in {NoOne, p} /\ lock' \in {NoOne, p})
  BY StepKinds DEF Quiet, InsertCustomer, Take, InsertBalances, CommitCustomer, Release,
     RegistrationFault, Drop
<1>3. ManagersLock'
  BY <1>1, <1>2 DEF ManagersLock, spreadsVars, People
<1>4. QED
  BY <1>3 DEF SpreadsInv, spreadsVars, SpreadsTypeOK, PendingInv, UpdatedRow, FoundInv, HasSpread,
     ServingInv

LEMMA SameReplies ==
  ASSUME RepliesInv, UNCHANGED registrationVars
  PROVE  RepliesInv'
BY DEF RepliesInv, DuplicatesAreReal, Registered, PageCoversTotal, registrationVars

LEMMA SpreadsAndClerks ==
  ASSUME RegistrationInv, SpreadsInv, SpreadsNext, UNCHANGED registrationVars
  PROVE  RegistrationInv'
<1>1. Clerks \cap Managers = {} /\ NoOne \notin Clerks /\ ClerksLock
  BY BackOfficeAssumption, RegistrationAssumption DEF RegistrationInv
<1>2. lock' = lock \/ \E m \in Managers : lock \in {NoOne, m} /\ lock' \in {NoOne, m}
  <2>1. CASE SeedAndServe
    BY <2>1 DEF SeedAndServe
  <2>2. ASSUME NEW m \in Managers, ManagerMoves(m)
        PROVE  <1>2
    BY <2>2, ManagerKinds DEF ManagerQuiet, UpdateSpread, Take, CommitSpread, Release, SpreadFault, Drop
  <2>3. QED
    BY <2>1, <2>2 DEF SpreadsNext, ManagerMoves
<1>3. ClerksLock'
  BY <1>1, <1>2 DEF ClerksLock, registrationVars, People
<1>4. RegistrationTypeOK' /\ DraftInv'
  BY DEF RegistrationInv, registrationVars, RegistrationTypeOK, DraftInv, Registered
<1>5. BookInv' /\ ReadersInv' /\ RepliesInv'
  BY SameReplies DEF RegistrationInv, registrationVars, BookInv, OneCustomerPerEmail, ReadersInv
<1>6. QED
  BY <1>3, <1>4, <1>5 DEF RegistrationInv

LEMMA Dies_Inv ==
  ASSUME RegistrationInv, SpreadsInv, ProcessDies
  PROVE  RegistrationInv' /\ SpreadsInv'
<1>1. /\ lock' = NoOne /\ serving' = FALSE /\ draft' = book /\ pending' = spreads
      /\ desk' = [p \in Clerks |-> "idle"] /\ place' = [m \in Managers |-> "idle"]
      /\ sent' = [m \in Managers |-> NothingSent] /\ seen' = [m \in Managers |-> NoSpread]
      /\ UNCHANGED <<book, call, total, reply, served, spreads, target, answer, updates>>
  BY DEF ProcessDies, RegistrationDies, SpreadsDie
<1>2. NoOne \notin Clerks /\ NoOne \notin Managers
  BY RegistrationAssumption, SpreadsAssumption
<1>3. RegistrationTypeOK /\ SpreadsTypeOK
  BY DEF RegistrationInv, SpreadsInv
<1>4. RegistrationTypeOK' /\ ClerksLock' /\ DraftInv'
  BY <1>1, <1>2, <1>3 DEF RegistrationTypeOK, ClerksLock, DraftInv, People
<1>5. BookInv' /\ ReadersInv' /\ RepliesInv'
  BY <1>1 DEF RegistrationInv, BookInv, OneCustomerPerEmail, ReadersInv, RepliesInv,
     DuplicatesAreReal, Registered, PageCoversTotal
<1>6. NothingSent \in Spread
  BY <1>3, SpreadTypes DEF NothingSent
<1>7. SpreadsTypeOK'
  BY <1>1, <1>3, <1>6 DEF SpreadsTypeOK
<1>8. ManagersLock' /\ PendingInv' /\ FoundInv' /\ ServingInv'
  BY <1>1, <1>2 DEF ManagersLock, PendingInv, FoundInv, ServingInv, People
<1>9. QED
  BY <1>4, <1>5, <1>7, <1>8 DEF RegistrationInv, SpreadsInv

LEMMA OfficeInit_Inv ==
  ASSUME OfficeInit
  PROVE  OfficeInv
<1> USE RegistrationAssumption, SpreadsAssumption
<1>1. lock = NoOne /\ crashes = 0
  BY DEF OfficeInit
<1>2. RegistrationInv
  <2>1. /\ book = EmptyBook /\ draft = EmptyBook /\ desk = [p \in Clerks |-> "idle"]
        /\ total = [p \in Clerks |-> 0] /\ reply = [p \in Clerks |-> NoReply] /\ served = 0
        /\ call = [p \in Clerks |-> [email |-> CHOOSE e \in Emails : TRUE, customer |-> 0, skip |-> 0]]
    BY DEF OfficeInit, RegistrationInit
  <2>2. /\ book.customers = <<>> /\ book.balances = {} /\ EmptyBook \in Books
        /\ DOMAIN book.customers = {}
    BY <2>1 DEF EmptyBook, Books
  <2>3. [email |-> CHOOSE e \in Emails : TRUE, customer |-> 0, skip |-> 0] \in Calls /\ NoReply \in Replies
    BY AnyEmail DEF Calls, NoReply, Replies
  <2>4. RegistrationTypeOK
    BY <2>1, <2>2, <2>3 DEF RegistrationTypeOK
  <2>5. ClerksLock /\ DraftInv
    BY <1>1, <2>1 DEF ClerksLock, DraftInv, People
  <2>6. BookInv
    BY <2>2 DEF BookInv, OneCustomerPerEmail
  <2>7. \A p \in Clerks : reply[p].code = "NONE" /\ desk[p] = "idle"
    BY <2>1 DEF NoReply
  <2>8. ReadersInv /\ RepliesInv
    BY <2>7 DEF ReadersInv, RepliesInv, DuplicatesAreReal, PageCoversTotal
  <2>9. QED
    BY <2>4, <2>5, <2>6, <2>8 DEF RegistrationInv
<1>3. SpreadsInv
  <2>1. /\ spreads = [pair \in DirectPairs |-> NoSpread] /\ pending = spreads /\ serving = FALSE
        /\ place = [m \in Managers |-> "idle"] /\ target = [m \in Managers |-> OtherPair]
        /\ sent = [m \in Managers |-> NothingSent] /\ seen = [m \in Managers |-> NoSpread]
        /\ answer = [m \in Managers |-> Unanswered] /\ updates = 0
    BY DEF OfficeInit, SpreadsInit
  <2>2. NothingSent \in Spread
    BY DEF NothingSent, Default, Spread
  <2>3. SpreadsTypeOK
    BY <2>1, <2>2 DEF SpreadsTypeOK, Unanswered
  <2>4. ManagersLock /\ PendingInv /\ FoundInv /\ ServingInv
    BY <1>1, <2>1 DEF ManagersLock, PendingInv, FoundInv, ServingInv, People
  <2>5. QED
    BY <2>3, <2>4 DEF SpreadsInv
<1>4. QED
  BY <1>1, <1>2, <1>3 DEF OfficeInv

LEMMA OfficeNext_Inv ==
  ASSUME OfficeInv, [OfficeNext]_officeVars
  PROVE  OfficeInv'
<1> USE DEF OfficeInv
<1>1. CASE Registering
  <2>1. PICK p \in Clerks : ClerkMoves(p)
    BY <1>1 DEF Registering, RegistrationNext, ClerkMoves
  <2>2. UNCHANGED <<spreadsVars, crashes>>
    BY <1>1 DEF Registering
  <2>3. QED
    BY <2>1, <2>2, ClerkMoves_Inv, ClerksAndSpreads
<1>2. CASE Administering
  <2>1. SpreadsNext /\ UNCHANGED <<registrationVars, crashes>>
    BY <1>2 DEF Administering
  <2>2. SpreadsInv'
    BY <2>1, Seed_Inv, ManagerMoves_Inv DEF SpreadsNext, ManagerMoves
  <2>3. QED
    BY <2>1, <2>2, SpreadsAndClerks
<1>3. CASE ProcessDies
  BY <1>3, Dies_Inv DEF ProcessDies
<1>4. CASE UNCHANGED officeVars
  <2>1. lock' = lock /\ crashes' = crashes /\ UNCHANGED registrationVars /\ UNCHANGED spreadsVars
    BY <1>4 DEF officeVars
  <2>2. RegistrationTypeOK' /\ ClerksLock' /\ DraftInv'
    BY <2>1 DEF RegistrationInv, registrationVars, RegistrationTypeOK, ClerksLock, DraftInv, Registered
  <2>3. BookInv' /\ ReadersInv' /\ RepliesInv'
    BY <2>1, SameReplies DEF RegistrationInv, registrationVars, BookInv, OneCustomerPerEmail, ReadersInv
  <2>4. SpreadsInv'
    BY <2>1 DEF spreadsVars, SpreadsInv, SpreadsTypeOK, ManagersLock, PendingInv, UpdatedRow,
       FoundInv, HasSpread, ServingInv
  <2>5. QED
    BY <2>1, <2>2, <2>3, <2>4 DEF RegistrationInv
<1>5. QED
  BY <1>1, <1>2, <1>3, <1>4 DEF OfficeNext

\* The invariant of the two halves, in every reachable state.
THEOREM OfficeInvariance == OfficeSpec => []OfficeInv
BY OfficeInit_Inv, OfficeNext_Inv, PTL DEF OfficeSpec

-----------------------------------------------------------------------------
(* What follows from the invariant *)

\* Types, and who may have the write lock: a registration between its INSERT and its
\* commit, or an update of a spread between its UPDATE and its commit.
THEOREM OfficeTypeCorrect == OfficeSpec => []OfficeTypeOK
<1>1. OfficeInv => OfficeTypeOK
  BY DEF OfficeInv, RegistrationInv, SpreadsInv, OfficeTypeOK, ClerksLock, ManagersLock, People
<1>2. QED
  BY <1>1, OfficeInvariance, PTL

\* create_customer is all or nothing, and get_balances shows it so.
THEOREM WholeCustomers == OfficeSpec => []CustomersAreWhole
<1>1. OfficeInv => CustomersAreWhole
  BY DEF OfficeInv, RegistrationInv, BookInv, RepliesInv, CustomersAreWhole
<1>2. QED
  BY <1>1, OfficeInvariance, PTL

\* The unique index on customers.email, met under the lock, leaves no two customers one
\* address.
THEOREM OneCustomerEach == OfficeSpec => []OneCustomerPerEmail
<1>1. OfficeInv => OneCustomerPerEmail
  BY DEF OfficeInv, RegistrationInv, BookInv
<1>2. QED
  BY <1>1, OfficeInvariance, PTL

\* A 409 for an address names a customer that is in the file.
THEOREM HonestRefusals == OfficeSpec => []DuplicatesAreReal
<1>1. OfficeInv => DuplicatesAreReal
  BY DEF OfficeInv, RegistrationInv, RepliesInv
<1>2. QED
  BY <1>1, OfficeInvariance, PTL

\* list_customers: the count and the page are two statements, and still agree.
THEOREM HonestPages == OfficeSpec => []PageCoversTotal
<1>1. OfficeInv => PageCoversTotal
  BY DEF OfficeInv, RegistrationInv, RepliesInv
<1>2. QED
  BY <1>1, OfficeInvariance, PTL

\* A spread that is in the file is changed by the commit of an update of its own pair.
THEOREM SpreadsChangeByUpdates == OfficeSpec => OnlyUpdatesChangeSpreads
<1> DEFINE Change ==
      \A pair \in DirectPairs :
        spreads[pair] # NoSpread /\ spreads'[pair] # spreads[pair] =>
          \E m \in Managers : place[m] = "commit" /\ place'[m] = "refresh" /\ target[m] = pair
<1>1. ASSUME OfficeInv, [OfficeNext]_officeVars
      PROVE  [Change]_spreadsVars
  <2>1. SpreadsInv
    BY <1>1 DEF OfficeInv
  <2>2. CASE UNCHANGED spreads
    BY <2>2
  <2>3. CASE SeedAndServe
    BY <2>3 DEF SeedAndServe, Seeded
  <2>4. ASSUME NEW m \in Managers, CommitSpread(m)
        PROVE  Change
    <3>1. /\ place[m] = "commit" /\ place'[m] = "refresh"
          /\ spreads' = [spreads EXCEPT ![target[m]] = UpdatedRow(m)]
      BY <2>1, <2>4 DEF SpreadsInv, SpreadsTypeOK, PendingInv, CommitSpread, Continue
    <3>2. \A pair \in DirectPairs : pair # target[m] => spreads'[pair] = spreads[pair]
      BY <2>1, <3>1 DEF SpreadsInv, SpreadsTypeOK
    <3>3. QED
      BY <3>1, <3>2
  <2>5. \/ UNCHANGED spreads \/ SeedAndServe \/ \E m \in Managers : CommitSpread(m)
    <3>1. CASE Registering \/ ProcessDies \/ UNCHANGED officeVars
      BY <1>1, <3>1 DEF Registering, ProcessDies, SpreadsDie, officeVars, spreadsVars
    <3>2. CASE Administering
      <4>1. ASSUME NEW m \in Managers, ManagerMoves(m)
            PROVE  UNCHANGED spreads \/ CommitSpread(m)
        BY <2>1, <4>1, ManagerKinds DEF ManagerQuiet, UpdateSpread, SpreadFault
      <4>2. QED
        BY <3>2, <4>1 DEF Administering, SpreadsNext, ManagerMoves
    <3>3. QED
      BY <1>1, <3>1, <3>2 DEF OfficeNext
  <2>6. QED
    BY <2>2, <2>3, <2>4, <2>5
<1>2. QED
  BY <1>1, OfficeInvariance, PTL DEF OfficeSpec, OnlyUpdatesChangeSpreads

-----------------------------------------------------------------------------
(* The sides of a spread, with the history of what was asked for *)

Remember ==
  wanted' = [pair \in DirectPairs |-> wanted[pair] \cup
    {sent'[m] : m \in {n \in Managers : place'[n] = "find" /\ target'[n] = pair}}]

RememberOverlaps ==
  overlapped' = overlapped \cup
    {target[m] : m \in {n \in Managers : /\ place[n] = "update"
                                         /\ place'[n] = "commit"
                                         /\ seen[n] # spreads[target[n]]}}

\* What is remembered is of the right kind, and never forgotten.
LEMMA HistoryGrows ==
  ASSUME SpreadsTypeOK', HistoryInv, Remember, RememberOverlaps
  PROVE  /\ wanted' \in [DirectPairs -> SUBSET Spread]
         /\ \A pair \in DirectPairs : wanted[pair] \subseteq wanted'[pair]
         /\ overlapped \subseteq overlapped'
<1>1. \A n \in Managers : sent'[n] \in Spread
  BY DEF SpreadsTypeOK
<1>2. \A pair \in DirectPairs :
        {sent'[m] : m \in {n \in Managers : place'[n] = "find" /\ target'[n] = pair}} \subseteq Spread
  BY <1>1
<1>3. wanted \in [DirectPairs -> SUBSET Spread]
  BY DEF HistoryInv
<1>4. \A pair \in DirectPairs : wanted[pair] \cup
        {sent'[m] : m \in {n \in Managers : place'[n] = "find" /\ target'[n] = pair}} \in SUBSET Spread
  BY <1>2, <1>3
<1>5. wanted' \in [DirectPairs -> SUBSET Spread]
  BY <1>4 DEF Remember
<1>6. QED
  BY <1>5 DEF Remember, RememberOverlaps

\* The row that is written is what was sent, if the file still has what was read.
LEMMA WhatWasSent ==
  ASSUME SpreadsTypeOK, NEW m \in Managers, HasSpread(target[m]), seen[m] = spreads[target[m]]
  PROVE  UpdatedRow(m) = sent[m]
<1>1. spreads[target[m]] \in Spread /\ sent[m] \in Spread
  BY SpreadTypes DEF HasSpread
<1>2. QED
  BY <1>1 DEF UpdatedRow, Spread

\* What each step of a manager does to what the history is about.
LEMMA HistoryOfManagers ==
  ASSUME SpreadsInv, SpreadsInv', HistoryInv, Remember, RememberOverlaps,
         NEW m \in Managers, ManagerMoves(m)
  PROVE  HistoryInv'
<1>1. SpreadsTypeOK /\ SpreadsTypeOK' /\ FoundInv /\ PendingInv
  BY DEF SpreadsInv
<1>2. /\ wanted' \in [DirectPairs -> SUBSET Spread]
      /\ \A pair \in DirectPairs : wanted[pair] \subseteq wanted'[pair]
      /\ overlapped \subseteq overlapped'
  BY <1>1, HistoryGrows
<1>3. \A n \in Managers \ {m} : /\ place'[n] = place[n] /\ target'[n] = target[n]
                                /\ sent'[n] = sent[n] /\ seen'[n] = seen[n]
  BY OtherManagers
<1>4. \A n \in Managers : target'[n] \in DirectPairs /\ place'[n] \in {"find", "update", "commit"} =>
        sent'[n] \in wanted'[target'[n]]
  <2>1. \A n \in Managers : target'[n] \in DirectPairs /\ place'[n] = "find" =>
          sent'[n] \in wanted'[target'[n]]
    BY DEF Remember
  <2>2. place'[m] \in {"update", "commit"} =>
          /\ place[m] \in {"find", "update", "commit"}
          /\ target'[m] = target[m] /\ sent'[m] = sent[m]
    <3>1. CASE \E pair \in DirectPairs \cup {OtherPair}, new \in Spread : CallUpdate(m, pair, new)
      BY <1>1, <3>1 DEF CallUpdate, SpreadsTypeOK
    <3>2. CASE SpreadNotFound(m) \/ SpreadTimeout(m) \/ AnswerSpread(m) \/ SpreadFault(m)
      BY <1>1, <3>2 DEF SpreadNotFound, SpreadTimeout, AnswerSpread, SpreadFault, AnswerUpdate,
           SpreadsTypeOK
    <3>3. CASE ReadSpread(m) \/ NothingToUpdate(m) \/ UpdateSpread(m) \/ CommitSpread(m)
      BY <1>1, <3>3 DEF ReadSpread, NothingToUpdate, UpdateSpread, CommitSpread, Continue, SpreadsTypeOK
    <3>4. QED
      BY <3>1, <3>2, <3>3 DEF ManagerMoves, ManagerStep
  <2>3. QED
    BY <1>2, <1>3, <2>1, <2>2 DEF HistoryInv
<1>5. \A n \in Managers : place'[n] = "commit" /\ target'[n] \notin overlapped' =>
        seen'[n] = spreads'[target'[n]]
  <2>1. CASE UpdateSpread(m)
    <3>1. /\ spreads' = spreads /\ seen' = seen /\ target' = target
          /\ place[m] = "update" /\ place'[m] = "commit"
      BY <1>1, <2>1 DEF UpdateSpread, Continue, SpreadsTypeOK
    <3>2. seen[m] # spreads[target[m]] => target[m] \in overlapped'
      BY <3>1 DEF RememberOverlaps
    <3>3. QED
      BY <1>2, <1>3, <3>1, <3>2 DEF HistoryInv
  <2>2. CASE CommitSpread(m)
    <3>1. \A n \in Managers : place'[n] # "commit"
      BY <1>1, <1>3, <2>2 DEF CommitSpread, Continue, SpreadsTypeOK, SpreadsInv, ManagersLock
    <3>2. QED
      BY <3>1
  <2>3. CASE ManagerQuiet(m) \/ SpreadFault(m)
    <3>1. spreads' = spreads /\ place'[m] # "commit"
      BY <1>1, <2>3 DEF ManagerQuiet, SpreadFault, AnswerUpdate, SpreadsTypeOK
    <3>2. QED
      BY <1>2, <1>3, <3>1 DEF HistoryInv
  <2>4. QED
    BY <2>1, <2>2, <2>3, ManagerKinds
<1>6. \A pair \in DirectPairs \ overlapped' : spreads'[pair] \in wanted'[pair] \cup {NoSpread}
  <2>1. CASE spreads' = spreads
    BY <1>2, <2>1 DEF HistoryInv
  <2>2. CASE CommitSpread(m)
    <3>1. /\ place[m] = "commit" /\ HasSpread(target[m])
          /\ spreads' = [spreads EXCEPT ![target[m]] = UpdatedRow(m)]
      BY <1>1, <2>2 DEF CommitSpread, PendingInv, FoundInv
    <3>2. target[m] \notin overlapped => UpdatedRow(m) \in wanted[target[m]]
      BY <1>1, <3>1, WhatWasSent DEF HistoryInv, HasSpread
    <3>3. QED
      BY <1>1, <1>2, <3>1, <3>2 DEF HistoryInv, SpreadsTypeOK
  <2>3. QED
    BY <2>1, <2>2, ManagerKinds DEF ManagerQuiet, UpdateSpread, SpreadFault
<1>7. \A pair \in DirectPairs : Default \in wanted'[pair]
  BY <1>2 DEF HistoryInv
<1>8. QED
  BY <1>2, <1>4, <1>5, <1>6, <1>7 DEF HistoryInv

LEMMA HistoryNext_Inv ==
  ASSUME OfficeInv, OfficeInv', HistoryInv, [MCNext]_<<officeVars, wanted, overlapped>>
  PROVE  HistoryInv'
<1>1. SpreadsInv /\ SpreadsInv'
  BY DEF OfficeInv
<1>2. CASE UNCHANGED <<officeVars, wanted, overlapped>>
  BY <1>2 DEF officeVars, spreadsVars, HistoryInv
<1>3. CASE MCNext
  <2>1. OfficeNext /\ Remember /\ RememberOverlaps
    BY <1>3 DEF MCNext, Remember, RememberOverlaps
  <2>2. /\ wanted' \in [DirectPairs -> SUBSET Spread]
        /\ \A pair \in DirectPairs : wanted[pair] \subseteq wanted'[pair]
        /\ overlapped \subseteq overlapped'
    BY <1>1, <2>1, HistoryGrows DEF SpreadsInv
  <2>3. CASE Registering
    <3>1. UNCHANGED <<spreads, place, target, sent, seen>>
      BY <2>3 DEF Registering, spreadsVars
    <3>2. QED
      BY <2>2, <3>1 DEF HistoryInv
  <2>4. CASE SeedAndServe
    <3>1. /\ \A m \in Managers : place'[m] = "idle"
          /\ \A pair \in DirectPairs : spreads'[pair] = Seeded(pair)
      BY <1>1, <2>4 DEF SeedAndServe, SpreadsInv, ServingInv
    <3>2. QED
      BY <2>2, <3>1 DEF HistoryInv, Seeded
  <2>5. ASSUME NEW m \in Managers, ManagerMoves(m)
        PROVE  HistoryInv'
    BY <1>1, <2>1, <2>5, HistoryOfManagers
  <2>6. CASE ProcessDies
    <3>1. spreads' = spreads /\ place' = [m \in Managers |-> "idle"]
      BY <2>6 DEF ProcessDies, SpreadsDie
    <3>2. QED
      BY <2>2, <3>1 DEF HistoryInv
  <2>7. QED
    BY <2>1, <2>3, <2>4, <2>5, <2>6 DEF OfficeNext, Administering, SpreadsNext, ManagerMoves
<1>4. QED
  BY <1>2, <1>3

\* update_spread writes the columns that differ from what it has read: two sides that
\* nobody asked for together need an update that was committed in between.
THEOREM SidesAskedTogether == MCSpec => []SidesBelongTogether
<1>1. MCInit => OfficeInv /\ HistoryInv
  <2>1. ASSUME MCInit
        PROVE  HistoryInv
    <3>1. /\ wanted = [pair \in DirectPairs |-> {Default}]
          /\ spreads = [pair \in DirectPairs |-> NoSpread]
          /\ place = [m \in Managers |-> "idle"]
      BY <2>1 DEF MCInit, OfficeInit, SpreadsInit
    <3>2. Default \in Spread
      BY SpreadsAssumption DEF Default, Spread
    <3>3. QED
      BY <3>1, <3>2 DEF HistoryInv
  <2>2. QED
    BY <2>1, OfficeInit_Inv DEF MCInit
<1>2. OfficeInv /\ HistoryInv /\ [MCNext]_<<officeVars, wanted, overlapped>>
        => OfficeInv' /\ HistoryInv'
  <2>1. ASSUME OfficeInv, HistoryInv, [MCNext]_<<officeVars, wanted, overlapped>>
        PROVE  OfficeInv' /\ HistoryInv'
    <3>1. [OfficeNext]_officeVars
      BY <2>1 DEF MCNext
    <3>2. QED
      BY <2>1, <3>1, OfficeNext_Inv, HistoryNext_Inv
  <2>2. QED
    BY <2>1
<1>3. OfficeInv /\ HistoryInv => SidesBelongTogether
  BY DEF OfficeInv, SpreadsInv, ServingInv, HistoryInv, SidesBelongTogether
<1>4. QED
  BY <1>1, <1>2, <1>3, PTL DEF MCSpec

=============================================================================
