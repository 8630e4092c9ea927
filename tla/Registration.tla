---------------------------- MODULE Registration ----------------------------
(***************************************************************************)
(* POST /api/v1/customers, GET /api/v1/customers and GET .../balances      *)
(* (create_customer, list_customers and get_balances of                    *)
(* app/services/customer_service.py).                                      *)
(*                                                                         *)
(* A registration flushes the customer, which takes the write lock and     *)
(* meets the unique index on e-mail addresses, then inserts a balance of   *)
(* zero for every currency and commits.  The two reads are two statements  *)
(* each, and nothing holds the file still between them.                    *)
(***************************************************************************)
EXTENDS WriteLock, Naturals, Sequences, FiniteSets

CONSTANTS
  Clerks,      \* the threads that serve these calls
  Emails,
  Currencies,  \* SUPPORTED_CURRENCIES
  Skips,       \* what lists skip
  Limit,       \* how many rows they show
  MaxServed    \* bound on how many calls are made

ASSUME RegistrationAssumption ==
  /\ NoOne \notin Clerks
  /\ Emails # {}
  /\ Skips \subseteq Nat
  /\ Limit \in Nat \ {0}
  /\ MaxServed \in Nat

VARIABLES
  book,    \* the committed rows of "customers" and "balances"
  draft,   \* the rows as the thread with the write lock sees them
  desk,    \* where each thread is
  call,    \* what it was asked
  total,   \* the count its list has taken
  reply,   \* its last answer
  served

registrationVars == <<book, draft, desk, call, total, reply, served>>

\* A customer is its e-mail; its position in the table stands for its id.
Books == [customers : Seq(Emails), balances : SUBSET (Nat \X Currencies)]

EmptyBook == [customers |-> <<>>, balances |-> {}]

Calls == [email : Emails, customer : Nat, skip : Nat]

NoReply == [code |-> "NONE", rows |-> 0, held |-> {}]

Replies ==
  [ code : {"NONE", "CREATED", "DUPLICATE_EMAIL", "LISTED", "BALANCES",
            "CUSTOMER_NOT_FOUND", "INTERNAL_ERROR"},
    rows : Nat,                 \* how many customers a list shows
    held : SUBSET Currencies ]  \* in which currencies there are balances

Registered(b) == {b.customers[i] : i \in DOMAIN b.customers}

RegistrationInit ==
  /\ book = EmptyBook /\ draft = EmptyBook
  /\ desk = [p \in Clerks |-> "idle"]
  /\ call = [p \in Clerks |-> [email |-> CHOOSE e \in Emails : TRUE, customer |-> 0, skip |-> 0]]
  /\ total = [p \in Clerks |-> 0]
  /\ reply = [p \in Clerks |-> NoReply]
  /\ served = 0

-----------------------------------------------------------------------------
Accept(p, place, request) ==
  /\ desk[p] = "idle"
  /\ served < MaxServed
  /\ served' = served + 1
  /\ desk' = [desk EXCEPT ![p] = place]
  /\ call' = [call EXCEPT ![p] = request]
  /\ reply' = [reply EXCEPT ![p] = NoReply]
  /\ total' = [total EXCEPT ![p] = 0]
  /\ UNCHANGED <<lock, book, draft>>

Turn(p, place) ==
  /\ desk' = [desk EXCEPT ![p] = place]
  /\ UNCHANGED <<reply, served>>

Reply(p, code, rows, held) ==
  /\ desk' = [desk EXCEPT ![p] = "idle"]
  /\ reply' = [reply EXCEPT ![p] = [code |-> code, rows |-> rows, held |-> held]]
  /\ UNCHANGED <<call, total, served>>

-----------------------------------------------------------------------------
(* create_customer *)

CallCreate(p, e) == Accept(p, "insert", [email |-> e, customer |-> 0, skip |-> 0])

\* A slip: the index is not unique.
NeverTaken(p) == FALSE

\* What the unique index finds once the lock is there.
AddressTaken(p) == call[p].email \in Registered(book)

InsertCustomer(p) ==
  /\ desk[p] = "insert"
  /\ ~ AddressTaken(p)
  /\ Take(p)
  /\ draft' = [book EXCEPT !.customers = Append(@, call[p].email)]
  /\ call' = [call EXCEPT ![p].customer = Len(book.customers) + 1]
  /\ Turn(p, "balances")
  /\ UNCHANGED <<book, total>>

\* A slip: refused for an address that another thread is registering.
MeetsDraft(p) == call[p].email \in Registered(draft)

MeetsIndex(p) == lock = NoOne /\ AddressTaken(p)

\* A slip: the handler of IntegrityError tries again.
RetryDuplicate(p) == desk[p] = "insert" /\ MeetsIndex(p) /\ UNCHANGED <<lock, registrationVars>>

\* The INSERT waits for the lock before it meets the index; the IntegrityError is
\* rolled back at once.
RefuseDuplicate(p) ==
  /\ desk[p] = "insert"
  /\ MeetsIndex(p)
  /\ Reply(p, "DUPLICATE_EMAIL", 0, {})
  /\ UNCHANGED <<lock, book, draft>>

\* The busy timeout.
InsertTimeout(p) ==
  /\ desk[p] = "insert"
  /\ lock # NoOne
  /\ Reply(p, "INTERNAL_ERROR", 0, {})
  /\ UNCHANGED <<lock, book, draft>>

\* The balances are only added to the session; their INSERTs go with the flush of the
\* commit.  Nobody can tell, as the draft is seen by the holder of the lock alone.
InsertBalances(p) ==
  /\ desk[p] = "balances"
  /\ draft' = [draft EXCEPT !.balances = @ \cup ({call[p].customer} \X Currencies)]
  /\ Turn(p, "commit")
  /\ UNCHANGED <<lock, book, call, total>>

CommitCustomer(p) ==
  /\ desk[p] = "commit"
  /\ book' = draft
  /\ Release(p)
  /\ Turn(p, "refresh")
  /\ UNCHANGED <<draft, call, total>>

\* refresh() reads the customer again for the answer.
AnswerCreated(p) ==
  /\ desk[p] = "refresh"
  /\ Reply(p, "CREATED", 0, {})
  /\ UNCHANGED <<lock, book, draft>>

-----------------------------------------------------------------------------
(* list_customers *)

CallList(p, s) ==
  Accept(p, "count", [email |-> CHOOSE e \in Emails : TRUE, customer |-> 0, skip |-> s])

CountCustomers(p) ==
  /\ desk[p] = "count"
  /\ total' = [total EXCEPT ![p] = Len(book.customers)]
  /\ Turn(p, "page")
  /\ UNCHANGED <<lock, book, draft, call>>

\* A slip: the last row of the page is cut off.
PageWithoutLast(n, skip) == Cardinality({i \in 1..n : skip < i /\ i < skip + Limit})

\* How many rows OFFSET and LIMIT leave of n.
PageOf(n, skip) == Cardinality({i \in 1..n : skip < i /\ i <= skip + Limit})

\* The newest first; which ones they are, no property tells.
SelectPage(p) ==
  /\ desk[p] = "page"
  /\ Reply(p, "LISTED", PageOf(Len(book.customers), call[p].skip), {})
  /\ UNCHANGED <<lock, book, draft>>

-----------------------------------------------------------------------------
(* get_balances *)

CallBalances(p, id) ==
  Accept(p, "find", [email |-> CHOOSE e \in Emails : TRUE, customer |-> id, skip |-> 0])

CustomerNotFound(p) ==
  /\ desk[p] = "find"
  /\ call[p].customer \notin DOMAIN book.customers
  /\ Reply(p, "CUSTOMER_NOT_FOUND", 0, {})
  /\ UNCHANGED <<lock, book, draft>>

FindCustomer(p) ==
  /\ desk[p] = "find"
  /\ call[p].customer \in DOMAIN book.customers
  /\ Turn(p, "read")
  /\ UNCHANGED <<lock, book, draft, call, total>>

ReadBalances(p) ==
  /\ desk[p] = "read"
  /\ Reply(p, "BALANCES", 0, {c \in Currencies : <<call[p].customer, c>> \in book.balances})
  /\ UNCHANGED <<lock, book, draft>>

-----------------------------------------------------------------------------
\* A slip: what the session has written so far is kept.
RegistrationFaultCommits(p) ==
  /\ desk[p] # "idle"
  /\ book' = IF lock = p THEN draft ELSE book
  /\ Drop(p)
  /\ Reply(p, "INTERNAL_ERROR", 0, {})
  /\ UNCHANGED draft

\* Any other exception, before the commit or after it: the session is closed, which
\* rolls back what is open.
RegistrationFault(p) ==
  /\ desk[p] # "idle"
  /\ draft' = IF lock = p THEN book ELSE draft
  /\ Drop(p)
  /\ Reply(p, "INTERNAL_ERROR", 0, {})
  /\ UNCHANGED book

ClerkStep(p) ==
  \/ InsertCustomer(p) \/ RefuseDuplicate(p) \/ InsertTimeout(p) \/ InsertBalances(p)
  \/ CommitCustomer(p) \/ AnswerCreated(p)
  \/ CountCustomers(p) \/ SelectPage(p)
  \/ CustomerNotFound(p) \/ FindCustomer(p) \/ ReadBalances(p)

RegistrationNext ==
  \E p \in Clerks :
    \/ \E e \in Emails : CallCreate(p, e)
    \/ \E s \in Skips : CallList(p, s)
    \/ \E id \in 1..Len(book.customers) + 1 : CallBalances(p, id)
    \/ ClerkStep(p)
    \/ RegistrationFault(p)

\* The process dies: the file keeps what was committed.
RegistrationDies ==
  /\ draft' = book
  /\ desk' = [p \in Clerks |-> "idle"]
  /\ UNCHANGED <<book, call, total, reply, served>>

-----------------------------------------------------------------------------
(* Properties *)

\* The types of this module's own state.
RegistrationTypeOK ==
  /\ book \in Books /\ draft \in Books
  /\ desk \in [Clerks -> {"idle", "insert", "balances", "commit", "refresh", "count",
                           "page", "find", "read"}]
  /\ call \in [Clerks -> Calls]
  /\ total \in [Clerks -> Nat]
  /\ reply \in [Clerks -> Replies]
  /\ served \in Nat

\* A customer is in the file with a balance in every currency, or not at all, and no
\* balance is without its customer: nothing that goes wrong between the flush of the
\* customer and the commit is ever seen, not even by a client
\* whose balances are read after its customer.  Deposits and executions count on it.
CustomersAreWhole ==
  /\ book.balances = (DOMAIN book.customers) \X Currencies
  /\ \A p \in Clerks : reply[p].code = "BALANCES" => reply[p].held = Currencies

\* No two customers have one e-mail address, however their registrations race.
OneCustomerPerEmail ==
  \A i, j \in DOMAIN book.customers :
    book.customers[i] = book.customers[j] => i = j

\* Whoever is told that an address is taken can find a customer who has it: nobody is
\* refused for the sake of a registration that is rolled back in the end.
DuplicatesAreReal ==
  \A p \in Clerks : reply[p].code = "DUPLICATE_EMAIL" =>
    call[p].email \in Registered(book)

\* A page is full, or shows all that the total counts beyond it: the count comes
\* first, and registrations that commit in between only add rows.
PageCoversTotal ==
  \A p \in Clerks : reply[p].code = "LISTED" =>
    reply[p].rows = Limit \/ reply[p].rows + call[p].skip >= total[p]
=============================================================================
