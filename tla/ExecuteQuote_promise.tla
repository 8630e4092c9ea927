------------------------ MODULE ExecuteQuote_promise ------------------------
(***************************************************************************)
(* Proofs that ExecuteQuote implements Settlement, that a quote whose time *)
(* is over stays unexecuted, and that the books of the accounts balance.   *)
(* All rest on the invariant of ExecuteQuote_proofs, the last on lemmas    *)
(* about sums, which are proved here by induction over finite sets: as the *)
(* least subset that is not in a set, not with a predicate.                *)
(***************************************************************************)
EXTENDS ExecuteQuote_proofs, Books, FiniteSetTheorems

\* The file changes by a commit of a settlement or by a new quote, and by
\* nothing else a thread or the world does.
LEMMA FileChanges ==
  ASSUME IInv, [Next]_vars
  PROVE  \/ UNCHANGED db
         \/ \E r \in Requests : CommitAll(r)
         \/ \E q \in Quotes : OfferQuote(q)
<1>1. ASSUME NEW r \in Requests, Send(r) \/ Fault(r)
      PROVE  UNCHANGED db
  BY <1>1 DEF Send, Fault, Rollback, dbVars
<1>2. ASSUME NEW r \in Requests, Step(r)
      PROVE  UNCHANGED db \/ CommitAll(r)
  <2>1. ReplayInside(r) => UNCHANGED db
    <3> HAVE ReplayInside(r)
    <3>1. pc[r] = "replay" /\ pc[r] \in InTransaction
      BY DEF ReplayInside, InTransaction
    <3>2. tx = db
      BY <3>1, Inside DEF WrittenBy
    <3>. QED
      BY <3>2 DEF ReplayInside, Commit, Refuse, Rollback, dbVars
  <2>2. RejectKey(r) \/ Preflight(r) \/ Begin(r) \/ BeginTimeout(r) \/ LookAgain(r)
        \/ Respond(r) => UNCHANGED db
    BY DEF RejectKey, Preflight, Begin, BeginTimeout, BeginImmediate, LookAgain,
           Respond, dbVars
  <2>3. CheckQuote(r) \/ Debit(r) \/ Credit(r) \/ Record(r) \/ Log(r)
          => UNCHANGED db
    BY DEF CheckQuote, Debit, Credit, Record, Log, Refuse, Rollback, Write, dbVars
  <2>. QED
    BY <1>2, <2>1, <2>2, <2>3 DEF Step
<1>3. Tick \/ Crash \/ UNCHANGED vars => UNCHANGED db
  BY DEF Tick, Crash, Recover, vars, dbVars
<1>. QED
  BY <1>1, <1>2, <1>3 DEF Next

\* What a commit does to the file.
LEMMA Commits ==
  ASSUME IInv, NEW r \in Requests, CommitAll(r)
  PROVE  LET q == quoteOf[r]
             k == keyOf[r]
         IN  /\ q \in Quotes /\ k \in Keys /\ db \in Images
             /\ db.status[q] = "PENDING"
             /\ db.log[k] = NoEntry
             /\ Covered(db, q)
             /\ db'.balance = Moved(db.balance, q)
             /\ db'.status = MarkedExecuted(db.status, q)
             /\ db'.expiresAt = db.expiresAt
             /\ db'.transactions = Append(db.transactions, [quote |-> q, key |-> k])
<1> DEFINE q == quoteOf[r]
           k == keyOf[r]
<1>1. pc[r] = "commit" /\ pc[r] \in InTransaction /\ db' = tx
  BY DEF CommitAll, Commit, InTransaction
<1>2. /\ q \in Quotes /\ k \in Keys /\ db \in Images
      /\ db.status[q] = "PENDING" /\ db.log[k] = NoEntry
      /\ Covered(db, q)
      /\ tx = Settled(db, q, k, row[r])
      /\ row[r] \in Nat
  BY <1>1, Inside DEF WrittenBy, CheckedBy, Settling, Settled, Covered
<1>3. LET s == Settled(db, q, k, row[r])
      IN  /\ s.balance = Moved(db.balance, q)
          /\ s.status = MarkedExecuted(db.status, q)
          /\ s.expiresAt = db.expiresAt
          /\ s.transactions = Append(db.transactions, [quote |-> q, key |-> k])
  BY <1>2, SettledFields
<1>. QED
  BY <1>1, <1>2, <1>3

LEMMA Offers ==
  ASSUME IInv, NEW q \in Quotes, OfferQuote(q)
  PROVE  /\ db.status[q] = "ABSENT" /\ db \in Images
         /\ db'.balance = db.balance
         /\ db'.status = [db.status EXCEPT ![q] = "PENDING"]
         /\ \A p \in Quotes \ {q} : db'.expiresAt[p] = db.expiresAt[p]
         /\ db'.transactions = db.transactions
<1> DEFINE due == (clock - (clock % TicksPerSecond)) + Ttl
<1>1. /\ db.status[q] = "ABSENT" /\ db \in Images
      /\ db' = [db EXCEPT !.status[q] = "PENDING", !.expiresAt[q] = due]
  BY DEF OfferQuote, WriteAndCommit, IInv, RequestsTypeOK
<1> HIDE DEF due
<1>. QED
  BY <1>1 DEF Images

-----------------------------------------------------------------------------
(* Refinement *)

LEMMA InitPromise == Init => Promise!Init
<1> SUFFICES ASSUME Init
             PROVE  Promise!Init
  OBVIOUS
<1>1. db = EmptyImage
  BY DEF Init, DatabaseInit
<1>2. /\ db.balance = InitialBalance
      /\ \A q \in Quotes : db.status[q] = "ABSENT"
      /\ DOMAIN db.transactions = {}
  BY <1>1 DEF EmptyImage
<1>. QED
  BY <1>2 DEF Promise!Init, Offered, SettledUnder

LEMMA CommitSettles ==
  ASSUME IInv, NEW r \in Requests, CommitAll(r)
  PROVE  Promise!Settle(quoteOf[r], keyOf[r])
<1> DEFINE q == quoteOf[r]
           k == keyOf[r]
           n == Len(db.transactions)
           new == [quote |-> q, key |-> k]
<1>1. /\ q \in Quotes /\ k \in Keys /\ db \in Images
      /\ db.status[q] = "PENDING" /\ db.log[k] = NoEntry
      /\ Covered(db, q)
      /\ db'.balance = Moved(db.balance, q)
      /\ db'.status = MarkedExecuted(db.status, q)
      /\ db'.transactions = Append(db.transactions, new)
  BY Commits
<1>2. /\ n \in Nat /\ DOMAIN db.transactions = 1..n
      /\ DOMAIN db'.transactions = 1..(n + 1)
      /\ \A i \in 1..n : db'.transactions[i] = db.transactions[i]
      /\ db'.transactions[n + 1] = new
  <2>1. db.transactions \in Seq(Rows) /\ new \in Rows
    BY <1>1 DEF Images, Rows
  <2>. QED
    BY <1>1, <2>1, AppendProperties
<1> HIDE DEF n
<1>3. q \in Offered /\ Offered' = Offered
  <2>1. \A p \in Quotes : db'.status[p] = "ABSENT" <=> db.status[p] = "ABSENT"
    BY <1>1 DEF MarkedExecuted, Images
  <2>. QED
    BY <1>1, <2>1 DEF Offered
<1>4. SettledUnder' = SettledUnder \cup {new}
  BY <1>2 DEF SettledUnder
<1>5. \A s \in SettledUnder : s.quote # q /\ s.key # k
  <2> SUFFICES ASSUME NEW i \in DOMAIN db.transactions
               PROVE  db.transactions[i].quote # q /\ db.transactions[i].key # k
    BY DEF SettledUnder
  <2>1. db.transactions[i].quote # q
    BY <1>1 DEF IInv, AllOrNothing, Ledger, StatusAgrees
  <2>2. db.transactions[i].quote \in Quotes
    <3>1. db.transactions \in Seq(Rows)
      BY <1>1 DEF Images
    <3>2. db.transactions[i] \in Rows
      BY <3>1, ElementOfSeq
    <3>. QED
      BY <3>2 DEF Rows
  <2>3. db.log[db.transactions[i].key] # NoEntry
    <3>1. db.log[db.transactions[i].key] =
            [quote |-> db.transactions[i].quote, transaction |-> i]
      BY DEF IInv, AllOrNothing, Ledger, LogAgrees
    <3>. QED
      BY <2>2, <3>1, NoQuoteAssumption DEF NoEntry
  <2>. QED
    BY <1>1, <2>1, <2>3
<1>6. db'.balance = [db.balance EXCEPT ![From[q]] = @ - SourceAmount[q],
                                       ![To[q]]   = @ + DestinationAmount[q]]
  BY <1>1 DEF Moved
<1>. QED
  BY <1>1, <1>3, <1>4, <1>5, <1>6 DEF Promise!Settle, Covered

LEMMA OfferOffers ==
  ASSUME IInv, NEW q \in Quotes, OfferQuote(q)
  PROVE  Promise!Offer(q)
<1>1. Offered' = Offered \cup {q} /\ q \notin Offered
  BY Offers DEF Offered, Images
<1>2. SettledUnder' = SettledUnder /\ db'.balance = db.balance
  BY Offers DEF SettledUnder
<1>. QED
  BY <1>1, <1>2 DEF Promise!Offer

LEMMA NextPromise == IInv /\ [Next]_vars => [Promise!Next]_(Promise!vars)
<1> SUFFICES ASSUME IInv, [Next]_vars
             PROVE  [Promise!Next]_(Promise!vars)
  OBVIOUS
<1>1. CASE UNCHANGED db
  BY <1>1 DEF Promise!vars, Offered, SettledUnder
<1>2. ASSUME NEW r \in Requests, CommitAll(r)
      PROVE  Promise!Next
  <2>1. quoteOf[r] \in Quotes /\ keyOf[r] \in Keys
    BY <1>2, Commits
  <2>2. Promise!Settle(quoteOf[r], keyOf[r])
    BY <1>2, CommitSettles
  <2>. QED
    BY <2>1, <2>2 DEF Promise!Next
<1>3. ASSUME NEW q \in Quotes, OfferQuote(q)
      PROVE  Promise!Next
  <2>1. Promise!Offer(q)
    BY <1>3, OfferOffers
  <2>. QED
    BY <2>1 DEF Promise!Next
<1>. QED
  BY <1>1, <1>2, <1>3, FileChanges

\* With threads, retries, faults and crashes, executing quotes (execute_quote)
\* does what the abstract specification promises: each settlement happens in one
\* step, once for a quote and once for a key, and only when it is covered.
THEOREM Refinement == Spec => ImplementsSettlement
<1>. QED
  BY InitPromise, NextPromise, Invariance, PTL
  DEF Spec, ImplementsSettlement, Promise!Spec

-----------------------------------------------------------------------------
(* Expiry *)

\* The only way into a settlement is past the checks of the quote.
LEMMA EntersBySettling ==
  ASSUME IInv, [Next]_vars, NEW s \in Requests, pc'[s] \in Settling
  PROVE  \/ pc[s] \in Settling
         \/ /\ ~ Expired(quoteOf[s], db) /\ UNCHANGED db
            /\ db.status[quoteOf[s]] = "PENDING"
<1>1. pc \in [Requests -> Places]
  BY DEF IInv, RequestsTypeOK
<1>2. ASSUME NEW r \in Requests, NEW p \in Places \ Settling,
             pc' = [pc EXCEPT ![r] = p]
      PROVE  pc[s] \in Settling
  BY <1>1, <1>2
<1>3. ASSUME NEW r \in Requests, NEW p, pc' = [pc EXCEPT ![r] = p],
             pc[r] \in Settling
      PROVE  pc[s] \in Settling
  BY <1>1, <1>3
<1>4. ASSUME NEW r \in Requests, Send(r)
      PROVE  pc[s] \in Settling
  BY <1>2, <1>4 DEF Send, GoTo, Places, Settling
<1>5. ASSUME NEW r \in Requests, NEW a, Answer(r, a)
      PROVE  pc[s] \in Settling
  BY <1>2, <1>5 DEF Answer, Places, Settling
<1>6. ASSUME NEW r \in Requests, NEW code, Refuse(r, code)
      PROVE  pc[s] \in Settling
  BY <1>5, <1>6 DEF Refuse
<1>7. ASSUME NEW r \in Requests, Fault(r)
      PROVE  pc[s] \in Settling
  BY <1>5, <1>7 DEF Fault
<1>8. ASSUME NEW r \in Requests, Step(r)
      PROVE  \/ pc[s] \in Settling
             \/ /\ ~ Expired(quoteOf[s], db) /\ UNCHANGED db
                /\ db.status[quoteOf[s]] = "PENDING"
  <2>1. CASE RejectKey(r) \/ BeginTimeout(r) \/ LookAgain(r) \/ Respond(r)
    BY <2>1, <1>5 DEF RejectKey, BeginTimeout, LookAgain, Respond
  <2>2. CASE Preflight(r)
    BY <2>2, <1>2, <1>5 DEF Preflight, GoTo, Places, Settling
  <2>3. CASE Begin(r)
    BY <2>3, <1>2 DEF Begin, Proceed, GoTo, Places, InTransaction, Settling
  <2>4. CASE ReplayInside(r)
    BY <2>4, <1>2, <1>5, <1>6
    DEF ReplayInside, Proceed, GoTo, Places, InTransaction, Settling
  <2>5. CASE CheckQuote(r)
    <3>1. CASE \E code \in Refusals : Refuse(r, code)
      BY <3>1, <1>6
    <3>2. CASE /\ tx.status[quoteOf[r]] = "PENDING" /\ ~ Expired(quoteOf[r], tx)
               /\ UNCHANGED dbVars /\ Proceed(r, "debit")
      <4>1. pc[r] = "quote" /\ pc[r] \in InTransaction
        BY <2>5 DEF CheckQuote, InTransaction
      <4>2. tx = db
        BY <4>1, Inside DEF WrittenBy
      <4>3. CASE s = r
        BY <3>2, <4>2, <4>3 DEF dbVars
      <4>4. CASE s # r
        BY <1>1, <3>2, <4>4 DEF Proceed, GoTo
      <4>. QED
        BY <4>3, <4>4
    <3>. QED
      BY <2>5, <3>1, <3>2 DEF CheckQuote, Refusals
  <2>6. CASE Debit(r) \/ Credit(r) \/ Record(r) \/ Log(r) \/ CommitAll(r)
    <3>1. pc[r] \in Settling
      BY <2>6 DEF Debit, Credit, Record, Log, CommitAll, Settling
    <3>2. \E p : pc' = [pc EXCEPT ![r] = p]
      BY <2>6 DEF Debit, Credit, Record, Log, CommitAll, Refuse, Answer, Proceed, GoTo
    <3>. QED
      BY <3>1, <3>2, <1>3
  <2>. QED
    BY <1>8, <2>1, <2>2, <2>3, <2>4, <2>5, <2>6 DEF Step
<1>9. Crash => pc[s] \in Settling
  <2> HAVE Crash
  <2>1. pc'[s] \in {"idle", "done"}
    BY DEF Crash
  <2>. QED
    BY <2>1 DEF Settling
<1>10. UNCHANGED pc => pc[s] \in Settling
  OBVIOUS
<1>11. UNCHANGED vars \/ Tick \/ (\E q \in Quotes : OfferQuote(q)) => UNCHANGED pc
  BY DEF vars, requestVars, Tick, OfferQuote
<1>. QED
  BY <1>4, <1>7, <1>8, <1>9, <1>10, <1>11 DEF Next

LEMMA CallsAndTime ==
  ASSUME IInv, [Next]_vars
  PROVE  UNCHANGED quoteOf /\ clock \in Nat /\ clock' \in Nat /\ clock' >= clock
<1>1. clock \in Nat
  BY DEF IInv, RequestsTypeOK
<1>2. UNCHANGED quoteOf /\ (UNCHANGED clock \/ clock' = clock + 1)
  <2>1. ASSUME NEW r \in Requests, Send(r) \/ Fault(r)
        PROVE  UNCHANGED <<quoteOf, clock>>
    BY <2>1 DEF Send, Fault, SameCall, SameWorld
  <2>2. ASSUME NEW r \in Requests, Step(r)
        PROVE  UNCHANGED <<quoteOf, clock>>
    BY <2>2 DEF Step, RejectKey, Preflight, Begin, BeginTimeout, ReplayInside,
                CheckQuote, Debit, Credit, LookAgain, Record, Log, CommitAll,
                Respond, Refuse, Proceed, SameCall, SameWorld
  <2>3. ASSUME UNCHANGED vars \/ Crash \/ \E q \in Quotes : OfferQuote(q)
        PROVE  UNCHANGED <<quoteOf, clock>>
    BY <2>3 DEF vars, Crash, OfferQuote, requestVars
  <2>4. Tick => UNCHANGED quoteOf /\ clock' = clock + 1
    BY DEF Tick, requestVars
  <2>. QED
    BY <2>1, <2>2, <2>3, <2>4 DEF Next
<1>. QED
  BY <1>1, <1>2

LEMMA DeadStaysDead ==
  ASSUME IInv, [Next]_vars, NEW q \in Quotes, Dead(q)
  PROVE  Dead(q)'
<1>1. UNCHANGED quoteOf /\ clock \in Nat /\ clock' \in Nat /\ clock' >= clock
  BY CallsAndTime
<1>2. db.status[q] = "PENDING" /\ db.expiresAt[q] \in Nat /\ db.expiresAt[q] < clock
  BY DEF Dead, IInv, RequestsTypeOK, Images
<1>3. db'.status[q] = "PENDING" /\ db'.expiresAt[q] = db.expiresAt[q]
  <2>1. CASE UNCHANGED db
    BY <1>2, <2>1
  <2>2. ASSUME NEW r \in Requests, CommitAll(r)
        PROVE  db'.status[q] = "PENDING" /\ db'.expiresAt[q] = db.expiresAt[q]
    <3>1. quoteOf[r] # q
      BY <2>2 DEF Dead, CommitAll, Settling
    <3>2. /\ db'.status = MarkedExecuted(db.status, quoteOf[r])
          /\ db'.expiresAt = db.expiresAt /\ db \in Images
      BY <2>2, Commits
    <3>. QED
      BY <1>2, <3>1, <3>2 DEF MarkedExecuted, Images
  <2>3. ASSUME NEW p \in Quotes, OfferQuote(p)
        PROVE  db'.status[q] = "PENDING" /\ db'.expiresAt[q] = db.expiresAt[q]
    <3>1. /\ db.status[p] = "ABSENT" /\ db \in Images
          /\ db'.status = [db.status EXCEPT ![p] = "PENDING"]
          /\ \A o \in Quotes \ {p} : db'.expiresAt[o] = db.expiresAt[o]
      BY <2>3, Offers
    <3>2. p # q
      BY <1>2, <3>1
    <3>. QED
      BY <1>2, <3>1, <3>2 DEF Images
  <2>. QED
    BY <2>1, <2>2, <2>3, FileChanges
<1>4. \A s \in Requests : pc'[s] \in Settling => quoteOf'[s] # q
  <2> SUFFICES ASSUME NEW s \in Requests, pc'[s] \in Settling, quoteOf[s] = q
               PROVE  FALSE
    BY <1>1
  <2>1. pc[s] \notin Settling
    BY DEF Dead
  <2>2. ~ Expired(q, db)
    BY <2>1, EntersBySettling
  <2>. QED
    BY <2>2, <1>2 DEF Expired
<1>. QED
  BY <1>1, <1>2, <1>3, <1>4 DEF Dead

\* A quote whose time is over and that no thread is past checking is never
\* executed, whatever is retried and whatever crashes (execute_quote's expiry
\* check, made under the lock).
THEOREM Expiry == Spec => ExpiredStaysUnsettled
<1>1. IInv /\ [Next]_vars => [\A q \in Quotes : Dead(q) => Dead(q)']_vars
  BY DeadStaysDead
<1>. QED
  BY <1>1, Invariance, PTL DEF Spec, ExpiredStaysUnsettled
-----------------------------------------------------------------------------
(* Sums *)

\* Whatever set has every subset of U all of whose proper subsets it has, has them all.
LEMMA SubsetsByInduction ==
  ASSUME NEW U, IsFiniteSet(U), NEW P,
         \A t \in SUBSET U : (\A s \in SUBSET t : s # t => s \in P) => t \in P
  PROVE  SUBSET U \subseteq P
<1>1. SUFFICES ASSUME NEW t \in (SUBSET U) \ P
               PROVE  FALSE
  OBVIOUS
<1>2. IsWellFoundedOn(StrictSubsetOrdering(U), SUBSET U)
  <2>1. FiniteSubsetsOf(U) = SUBSET U
    BY FS_FiniteSubsetsOfFinite
  <2>2. IsWellFoundedOn(StrictSubsetOrdering(U), FiniteSubsetsOf(U))
    BY FS_StrictSubsetOrderingWellFounded
  <2>. QED
    BY <2>1, <2>2
<1> DEFINE Rest == (SUBSET U) \ P
<1>3. PICK m \in Rest : \A s \in Rest : ~ (<<s, m>> \in StrictSubsetOrdering(U))
  <2>1. Rest \subseteq SUBSET U /\ Rest # {}
    BY <1>1
  <2>. HIDE DEF Rest
  <2>. QED
    BY <1>2, <2>1, WFMin
<1>4. ASSUME NEW s \in SUBSET m, s # m
      PROVE  s \in P
  <2>1. <<s, m>> \in StrictSubsetOrdering(U)
    BY <1>4 DEF StrictSubsetOrdering
  <2>. QED
    BY <1>3, <2>1
<1>. QED
  BY <1>3, <1>4

Chosen(s) == CHOOSE x \in s : TRUE

\* g adds f up over every subset of U, as SumFunctionOnSet does.
AddsUp(g, f, U) ==
  /\ g \in [SUBSET U -> Int]
  /\ \A s \in SUBSET U : g[s] = IF s = {} THEN 0 ELSE f[Chosen(s)] + g[s \ {Chosen(s)}]

LEMMA ChosenIsIn ==
  ASSUME NEW s, s # {}
  PROVE  Chosen(s) \in s
BY DEF Chosen

\* Two such functions agree where what they add up does.
LEMMA SumsAgree ==
  ASSUME NEW U, IsFiniteSet(U), NEW f, NEW g, AddsUp(g, f, U),
         NEW W, NEW e, NEW h, AddsUp(h, e, W), U \subseteq W, \A i \in U : f[i] = e[i]
  PROVE  g[U] = h[U]
<1> DEFINE P == {t \in SUBSET U : g[t] = h[t]}
<1>1. ASSUME NEW t \in SUBSET U, \A s \in SUBSET t : s # t => s \in P
      PROVE  t \in P
  <2>1. CASE t = {}
    BY <2>1 DEF AddsUp
  <2>2. CASE t # {}
    <3>1. Chosen(t) \in t
      BY <2>2, ChosenIsIn
    <3>2. g[t \ {Chosen(t)}] = h[t \ {Chosen(t)}]
      BY <1>1, <3>1
    <3>. QED
      BY <2>2, <3>1, <3>2 DEF AddsUp
  <2>. QED
    BY <2>1, <2>2
<1>2. SUBSET U \subseteq P
  <2>. HIDE DEF P
  <2>. QED
    BY <1>1, SubsetsByInduction
<1>. QED
  BY <1>2

\* Any member may be added last.
LEMMA AnyLast ==
  ASSUME NEW U, IsFiniteSet(U), NEW f, \A i \in U : f[i] \in Int, NEW g, AddsUp(g, f, U),
         NEW x \in U
  PROVE  g[U] = g[U \ {x}] + f[x]
<1> DEFINE P == {t \in SUBSET U : \A y \in t : g[t] = g[t \ {y}] + f[y]}
<1>1. ASSUME NEW t \in SUBSET U, \A s \in SUBSET t : s # t => s \in P
      PROVE  t \in P
  <2>1. SUFFICES ASSUME NEW y \in t
                 PROVE  g[t] = g[t \ {y}] + f[y]
    OBVIOUS
  <2> DEFINE c == Chosen(t)
  <2>2. /\ c \in t /\ f[c] \in Int /\ f[y] \in Int
        /\ g[t] = f[c] + g[t \ {c}]
        /\ \A s \in SUBSET U : g[s] \in Int
    BY ChosenIsIn DEF AddsUp
  <2>. HIDE DEF c
  <2>3. CASE y = c
    BY <2>2, <2>3
  <2>4. CASE y # c
    <3>1. t \ {c} \in P /\ t \ {y} \in P
      BY <1>1, <2>2
    <3>2. /\ g[t \ {c}] = g[(t \ {c}) \ {y}] + f[y]
          /\ g[t \ {y}] = g[(t \ {y}) \ {c}] + f[c]
      BY <2>2, <2>4, <3>1
    <3>3. (t \ {c}) \ {y} = (t \ {y}) \ {c} /\ (t \ {y}) \ {c} \in SUBSET U
      OBVIOUS
    <3>4. g[t \ {c}] = g[(t \ {y}) \ {c}] + f[y]
      BY <3>2, <3>3
    <3>5. g[(t \ {y}) \ {c}] \in Int
      BY <2>2, <3>3
    <3>6. g[t] = f[c] + (g[(t \ {y}) \ {c}] + f[y])
      BY <2>2, <3>4
    <3>7. g[t \ {y}] + f[y] = (g[(t \ {y}) \ {c}] + f[c]) + f[y]
      BY <3>2
    <3>. QED
      BY <2>2, <3>5, <3>6, <3>7
  <2>. QED
    BY <2>3, <2>4
<1>2. SUBSET U \subseteq P
  <2>. HIDE DEF P
  <2>. QED
    BY <1>1, SubsetsByInduction
<1>. QED
  BY <1>2

\* Whatever set has 0 and the successor of each number it has, has them all.
LEMMA NaturalsByInduction ==
  ASSUME NEW P, 0 \in P, \A n \in Nat : n \in P => n + 1 \in P, NEW n \in Nat
  PROVE  n \in P
<1> DEFINE U == 0..n
           Closed(t) == \A k \in t : k # 0 => k - 1 \in t
           Q == {t \in SUBSET U : Closed(t) => t \subseteq P}
<1>1. ASSUME NEW t \in SUBSET U, \A s \in SUBSET t : s # t => s \in Q
      PROVE  t \in Q
  <2>1. ASSUME Closed(t), NEW k \in t, k # 0
        PROVE  k \in P
    <3> DEFINE s == {i \in t : i < k}
    <3>1. s \in Q
      <4>1. k \in t /\ k \notin s
        BY <2>1
      <4>. QED
        BY <1>1, <4>1
    <3>2. Closed(s)
      BY <2>1
    <3>3. k - 1 \in s
      BY <2>1
    <3>4. k - 1 \in P
      BY <3>1, <3>2, <3>3
    <3>. QED
      BY <2>1, <3>4
  <2>2. Closed(t) => t \subseteq P
    BY <2>1
  <2>. QED
    BY <2>2
<1>2. SUBSET U \subseteq Q
  <2>1. IsFiniteSet(U)
    BY FS_Interval
  <2>. HIDE DEF U, Q
  <2>. QED
    BY <1>1, <2>1, SubsetsByInduction
<1>3. U \in Q /\ n \in U
  <2>1. n \in U /\ U \in SUBSET U
    OBVIOUS
  <2>. HIDE DEF U, Q
  <2>. QED
    BY <1>2, <2>1
<1>4. Closed(U)
  OBVIOUS
<1>. QED
  BY <1>3, <1>4

LEMMA SumsExist ==
  ASSUME NEW U, IsFiniteSet(U), NEW f, \A i \in U : f[i] \in Int
  PROVE  \E g : AddsUp(g, f, U)
<1> DEFINE Right(g, s) == g[s] = IF s = {} THEN 0 ELSE f[Chosen(s)] + g[s \ {Chosen(s)}]
           P == {n \in Nat : \E g \in [SUBSET U -> Int] :
                   \A s \in SUBSET U : Cardinality(s) <= n => Right(g, s)}
<1>1. \A s \in SUBSET U : Cardinality(s) \in Nat /\ Cardinality(s) <= Cardinality(U)
  BY FS_Subset, FS_CardinalityType
<1>11. \A s \in SUBSET U : Cardinality(s) = 0 <=> s = {}
  BY FS_Subset, FS_EmptySet
<1>2. 0 \in P
  <2> DEFINE g == [s \in SUBSET U |-> 0]
  <2>1. \A s \in SUBSET U : Cardinality(s) <= 0 => s = {}
    BY <1>1, <1>11
  <2>2. \A s \in SUBSET U : Cardinality(s) <= 0 => Right(g, s)
    BY <2>1
  <2>3. g \in [SUBSET U -> Int]
    OBVIOUS
  <2>. QED
    BY <2>2, <2>3
<1>3. ASSUME NEW n \in Nat, n \in P
      PROVE  n + 1 \in P
  <2>1. PICK g \in [SUBSET U -> Int] :
          \A s \in SUBSET U : Cardinality(s) <= n => Right(g, s)
    BY <1>3
  <2> DEFINE h == [s \in SUBSET U |->
                     IF Cardinality(s) <= n THEN g[s]
                       ELSE f[Chosen(s)] + g[s \ {Chosen(s)}]]
  <2>2. ASSUME NEW s \in SUBSET U, s # {}
        PROVE  /\ Chosen(s) \in U /\ f[Chosen(s)] \in Int
               /\ s \ {Chosen(s)} \in SUBSET U
               /\ Cardinality(s \ {Chosen(s)}) = Cardinality(s) - 1
    <3>1. Chosen(s) \in s
      BY <2>2, ChosenIsIn
    <3>2. IsFiniteSet(s)
      BY FS_Subset
    <3>3. Cardinality(s \ {Chosen(s)}) = Cardinality(s) - 1
      BY <3>1, <3>2, FS_RemoveElement
    <3>. QED
      BY <3>1, <3>3
  <2>3. h \in [SUBSET U -> Int]
    <3>1. ASSUME NEW s \in SUBSET U, ~ Cardinality(s) <= n
          PROVE  f[Chosen(s)] + g[s \ {Chosen(s)}] \in Int
      <4>1. s # {}
        BY <3>1, <1>1, <1>11
      <4>2. f[Chosen(s)] \in Int /\ g[s \ {Chosen(s)}] \in Int
        BY <2>2, <4>1
      <4>. QED
        BY <4>2
    <3>. QED
      BY <3>1
  <2>4. ASSUME NEW s \in SUBSET U, Cardinality(s) <= n + 1
        PROVE  Right(h, s)
    <3>1. CASE s = {}
      <4>1. h[s] = g[s]
        BY <3>1, <1>11
      <4>. QED
        BY <3>1, <4>1, <2>1, <1>11
    <3>2. CASE s # {}
      <4>1. h[s \ {Chosen(s)}] = g[s \ {Chosen(s)}]
        BY <1>1, <2>2, <2>4, <3>2
      <4>2. h[s] = f[Chosen(s)] + g[s \ {Chosen(s)}]
        BY <2>1, <3>2
      <4>. QED
        BY <3>2, <4>1, <4>2
    <3>. QED
      BY <3>1, <3>2
  <2>5. \E e \in [SUBSET U -> Int] :
          \A s \in SUBSET U : Cardinality(s) <= n + 1 => Right(e, s)
    <3>. HIDE DEF h
    <3>. QED
      BY <2>3, <2>4
  <2>. QED
    BY <2>5
<1>4. Cardinality(U) \in P
  <2>. HIDE DEF P
  <2>. QED
    BY <1>2, <1>3, FS_CardinalityType, NaturalsByInduction
<1>. QED
  BY <1>1, <1>4 DEF AddsUp

LEMMA SumIsSome ==
  ASSUME NEW U, IsFiniteSet(U), NEW f, \A i \in U : f[i] \in Int
  PROVE  \E g : AddsUp(g, f, U) /\ SumFunctionOnSet(f, U) = g[U]
<1> DEFINE Eqn(g) == g = [s \in SUBSET U |-> IF s = {} THEN 0 ELSE f[Chosen(s)] + g[s \ {Chosen(s)}]]
           iter == CHOOSE g : Eqn(g)
<1>1. SumFunctionOnSet(f, U) = iter[U]
  BY DEF SumFunctionOnSet, FoldFunctionOnSet, MapThenFoldSet, Chosen
<1>2. \E g : Eqn(g)
  <2>1. PICK g : AddsUp(g, f, U)
    BY SumsExist
  <2>2. Eqn(g)
    BY <2>1 DEF AddsUp
  <2>. HIDE DEF Eqn
  <2>. QED
    BY <2>2
<1>3. Eqn(iter)
  BY <1>2
<1> HIDE DEF iter
<1>4. \A s \in SUBSET U : iter[s] = IF s = {} THEN 0 ELSE f[Chosen(s)] + iter[s \ {Chosen(s)}]
  BY <1>3
<1> DEFINE P == {t \in SUBSET U : iter[t] \in Int}
<1>5. ASSUME NEW t \in SUBSET U, \A s \in SUBSET t : s # t => s \in P
      PROVE  t \in P
  <2>1. CASE t = {}
    <3>1. iter[t] = 0
      BY <1>4, <2>1
    <3>. QED
      BY <3>1
  <2>2. CASE t # {}
    <3>1. Chosen(t) \in t
      BY <2>2, ChosenIsIn
    <3>2. iter[t \ {Chosen(t)}] \in Int /\ f[Chosen(t)] \in Int
      BY <1>5, <3>1
    <3>3. iter[t] = f[Chosen(t)] + iter[t \ {Chosen(t)}]
      BY <1>4, <2>2
    <3>4. iter[t] \in Int
      BY <3>2, <3>3
    <3>. QED
      BY <3>4
  <2>. QED
    BY <2>1, <2>2
<1>6. SUBSET U \subseteq P
  <2>. HIDE DEF P, Eqn
  <2>. QED
    BY <1>5, SubsetsByInduction
<1>. QED
  BY <1>1, <1>3, <1>4, <1>6 DEF AddsUp

\* What the proofs need of sums: where they start, how they grow, and that they depend
\* on nothing but the numbers they add up.
LEMMA SumOfNone ==
  ASSUME NEW f
  PROVE  SumFunctionOnSet(f, {}) = 0
<1>1. PICK g : AddsUp(g, f, {}) /\ SumFunctionOnSet(f, {}) = g[{}]
  BY SumIsSome, FS_EmptySet
<1>. QED
  BY <1>1 DEF AddsUp

LEMMA SumOfMore ==
  ASSUME NEW U, IsFiniteSet(U), NEW x, x \notin U,
         NEW f, NEW e, \A i \in U : f[i] \in Int /\ e[i] = f[i], e[x] \in Int
  PROVE  /\ SumFunctionOnSet(f, U) \in Int
         /\ SumFunctionOnSet(e, U \cup {x}) = SumFunctionOnSet(f, U) + e[x]
<1> DEFINE W == U \cup {x}
<1>1. PICK g : AddsUp(g, f, U) /\ SumFunctionOnSet(f, U) = g[U]
  BY SumIsSome
<1>2. IsFiniteSet(W)
  BY FS_AddElement
<1>3. /\ \A i \in W : e[i] \in Int
      /\ x \in W /\ W \ {x} = U /\ U \subseteq W
  OBVIOUS
<1> HIDE DEF W
<1>4. PICK h : AddsUp(h, e, W) /\ SumFunctionOnSet(e, W) = h[W]
  BY <1>2, <1>3, SumIsSome
<1>5. h[W] = h[U] + e[x]
  BY <1>2, <1>3, <1>4, AnyLast
<1>6. g[U] = h[U]
  BY <1>1, <1>3, <1>4, SumsAgree
<1>7. g[U] \in Int
  BY <1>1 DEF AddsUp
<1>. QED
  BY <1>1, <1>4, <1>5, <1>6, <1>7 DEF W

LEMMA SumOfSame ==
  ASSUME NEW U, IsFiniteSet(U), NEW f, NEW e, \A i \in U : f[i] \in Int /\ e[i] = f[i]
  PROVE  SumFunctionOnSet(e, U) = SumFunctionOnSet(f, U)
<1>1. PICK g : AddsUp(g, f, U) /\ SumFunctionOnSet(f, U) = g[U]
  BY SumIsSome
<1>2. PICK h : AddsUp(h, e, U) /\ SumFunctionOnSet(e, U) = h[U]
  BY SumIsSome
<1>3. g[U] = h[U]
  BY <1>1, <1>2, SumsAgree
<1>. QED
  BY <1>1, <1>2, <1>3

-----------------------------------------------------------------------------
(* The books *)

\* A row that is added moves the amount of its quote, if the account is its own.
LEMMA TurnoverGrows ==
  ASSUME NEW rows \in Seq(Rows), NEW new \in Rows,
         NEW sums \in [Quotes -> Int], NEW side, NEW a
  PROVE  /\ Turnover(rows, sums, side, a) \in Int
         /\ Turnover(Append(rows, new), sums, side, a) =
              IF side[new.quote] = a THEN Turnover(rows, sums, side, a) + sums[new.quote]
                ELSE Turnover(rows, sums, side, a)
<1> DEFINE more == Append(rows, new)
           n == Len(rows)
           last == n + 1
           f == [i \in DOMAIN rows |-> sums[rows[i].quote]]
           e == [i \in DOMAIN more |-> sums[more[i].quote]]
           U == {i \in DOMAIN rows : side[rows[i].quote] = a}
           W == {i \in DOMAIN more : side[more[i].quote] = a}
<1>1. /\ n \in Nat /\ DOMAIN rows = 1..n /\ DOMAIN more = 1..last
      /\ \A i \in 1..n : more[i] = rows[i]
      /\ more[last] = new /\ last = n + 1
  BY AppendProperties
<1>2. \A i \in 1..n : rows[i].quote \in Quotes
  <2>1. \A i \in 1..n : rows[i] \in Rows
    BY <1>1
  <2>. QED
    BY <2>1 DEF Rows
<1>3. new.quote \in Quotes
  BY DEF Rows
<1> HIDE DEF more, n, last
<1>4. \A i \in U : f[i] \in Int /\ e[i] = f[i]
  BY <1>1, <1>2
<1>5. e[last] = sums[new.quote] /\ e[last] \in Int /\ last \notin U
  BY <1>1, <1>3
<1>6. IsFiniteSet(U)
  <2>1. IsFiniteSet(1..n)
    BY <1>1, FS_Interval
  <2>2. U \in SUBSET (1..n)
    BY <1>1
  <2>. QED
    BY <2>1, <2>2, FS_Subset
<1>7. W = IF side[new.quote] = a THEN U \cup {last} ELSE U
  BY <1>1
<1>8. /\ Turnover(rows, sums, side, a) = SumFunctionOnSet(f, U)
      /\ Turnover(more, sums, side, a) = SumFunctionOnSet(e, W)
  BY DEF Turnover
<1> HIDE DEF f, e, U, W
<1>9. /\ SumFunctionOnSet(f, U) \in Int
      /\ SumFunctionOnSet(e, U \cup {last}) = SumFunctionOnSet(f, U) + e[last]
  <2>1. e[last] \in Int /\ last \notin U
    BY <1>5
  <2>. QED
    BY <1>4, <1>6, <2>1, SumOfMore, ZenonT(30)
<1>10. SumFunctionOnSet(e, U) = SumFunctionOnSet(f, U)
  BY <1>4, <1>6, SumOfSame
<1>. QED
  BY <1>5, <1>7, <1>8, <1>9, <1>10 DEF more

\* The books before anything is recorded.
LEMMA TurnoverOfNone ==
  ASSUME NEW sums, NEW side, NEW a
  PROVE  Turnover(<<>>, sums, side, a) = 0
<1>1. {i \in DOMAIN <<>> : side[<<>>[i].quote] = a} = {}
  OBVIOUS
<1>. QED
  BY <1>1, SumOfNone DEF Turnover

LEMMA FlowsAreNumbers ==
  ASSUME db \in Images, NEW a
  PROVE  Outflow(a) \in Int /\ Inflow(a) \in Int
<1>1. db.transactions \in Seq(Rows)
  BY DEF Images
<1>2. /\ SourceAmount \in [Quotes -> Int] /\ DestinationAmount \in [Quotes -> Int]
  BY TermsAssumption
<1>3. CASE Rows = {}
  <2>1. db.transactions = <<>>
    BY <1>1, <1>3
  <2>. QED
    BY <2>1, TurnoverOfNone DEF Outflow, Inflow
<1>4. CASE Rows # {}
  BY <1>1, <1>2, <1>4, TurnoverGrows DEF Outflow, Inflow
<1>. QED
  BY <1>3, <1>4

\* What a commit changes in the flows is what it changes in the balances.
LEMMA FlowsFollow ==
  ASSUME IInv, NEW r \in Requests, CommitAll(r), NEW a \in Accounts
  PROVE  /\ Outflow(a) \in Int /\ Inflow(a) \in Int /\ db.balance[a] \in Nat
         /\ Outflow(a)' \in Int /\ Inflow(a)' \in Int /\ db'.balance[a] \in Int
         /\ db'.balance[a] + Outflow(a)' - Inflow(a)' =
              db.balance[a] + Outflow(a) - Inflow(a)
<1> DEFINE q == quoteOf[r]
           new == [quote |-> q, key |-> keyOf[r]]
<1>1. /\ q \in Quotes /\ keyOf[r] \in Keys /\ db \in Images
      /\ db'.balance = Moved(db.balance, q)
      /\ db'.transactions = Append(db.transactions, new)
  BY Commits
<1>2. new \in Rows /\ db.transactions \in Seq(Rows) /\ db.balance \in [Accounts -> Nat]
  BY <1>1 DEF Rows, Images
<1>3. /\ From[q] # To[q] /\ From[q] \in Accounts /\ To[q] \in Accounts
      /\ SourceAmount[q] \in Int /\ DestinationAmount[q] \in Int
  BY <1>1, TermsAssumption
<1>4. /\ Outflow(a) \in Int
      /\ Outflow(a)' = Outflow(a) + (IF From[q] = a THEN SourceAmount[q] ELSE 0)
  <2>1. /\ Turnover(db.transactions, SourceAmount, From, a) \in Int
        /\ Turnover(Append(db.transactions, new), SourceAmount, From, a) =
             IF From[new.quote] = a
               THEN Turnover(db.transactions, SourceAmount, From, a) + SourceAmount[new.quote]
               ELSE Turnover(db.transactions, SourceAmount, From, a)
    <3>1. SourceAmount \in [Quotes -> Int]
      BY TermsAssumption
    <3>. HIDE DEF new
    <3>. QED
      BY <1>2, <3>1, TurnoverGrows
  <2>. QED
    BY <1>1, <2>1 DEF Outflow
<1>5. /\ Inflow(a) \in Int
      /\ Inflow(a)' = Inflow(a) + (IF To[q] = a THEN DestinationAmount[q] ELSE 0)
  <2>1. /\ Turnover(db.transactions, DestinationAmount, To, a) \in Int
        /\ Turnover(Append(db.transactions, new), DestinationAmount, To, a) =
             IF To[new.quote] = a
               THEN Turnover(db.transactions, DestinationAmount, To, a) + DestinationAmount[new.quote]
               ELSE Turnover(db.transactions, DestinationAmount, To, a)
    <3>1. DestinationAmount \in [Quotes -> Int]
      BY TermsAssumption
    <3>. HIDE DEF new
    <3>. QED
      BY <1>2, <3>1, TurnoverGrows
  <2>. QED
    BY <1>1, <2>1 DEF Inflow
<1>6. db'.balance[a] = IF From[q] = a THEN db.balance[a] - SourceAmount[q]
                         ELSE IF To[q] = a THEN db.balance[a] + DestinationAmount[q]
                         ELSE db.balance[a]
  BY <1>1, <1>2, <1>3 DEF Moved
<1>7. db.balance[a] \in Nat
  BY <1>2
<1> HIDE DEF q
<1>. QED
  BY <1>3, <1>4, <1>5, <1>6, <1>7

LEMMA BooksStep ==
  ASSUME IInv, BooksBalance, [Next]_vars
  PROVE  BooksBalance'
<1>1. CASE db'.balance = db.balance /\ db'.transactions = db.transactions
  BY <1>1 DEF BooksBalance, Outflow, Inflow
<1>2. ASSUME NEW r \in Requests, CommitAll(r)
      PROVE  BooksBalance'
  <2>1. ASSUME NEW a \in Accounts
        PROVE  db'.balance[a] + Outflow(a)' = InitialBalance[a] + Inflow(a)'
    <3>1. /\ Outflow(a) \in Int /\ Inflow(a) \in Int /\ db.balance[a] \in Nat
          /\ Outflow(a)' \in Int /\ Inflow(a)' \in Int /\ db'.balance[a] \in Int
          /\ db'.balance[a] + Outflow(a)' - Inflow(a)' =
               db.balance[a] + Outflow(a) - Inflow(a)
      BY <1>2, FlowsFollow
    <3>2. db.balance[a] + Outflow(a) = InitialBalance[a] + Inflow(a)
      BY DEF BooksBalance
    <3>3. InitialBalance[a] \in Nat
      BY TermsAssumption
    <3>. QED
      BY <3>1, <3>2, <3>3
  <2>. QED
    BY <2>1 DEF BooksBalance
<1>. QED
  BY <1>1, <1>2, FileChanges, Offers

\* An account holds what it held at the start, less what its transactions debited,
\* plus what they credited: _debit_balance and _credit_balance move what is recorded
\* with them, and nothing else touches a balance.
THEOREM BooksAreKept == Spec => []BooksBalance
<1>1. Init => BooksBalance
  <2> SUFFICES ASSUME Init
               PROVE  BooksBalance
    OBVIOUS
  <2>1. db.balance = InitialBalance /\ db.transactions = <<>>
    BY DEF Init, DatabaseInit, EmptyImage
  <2>2. \A a \in Accounts : Outflow(a) = 0 /\ Inflow(a) = 0
    BY <2>1, TurnoverOfNone DEF Outflow, Inflow
  <2>. QED
    BY <2>1, <2>2, TermsAssumption DEF BooksBalance
<1>. QED
  BY <1>1, BooksStep, Invariance, PTL DEF Spec


=============================================================================
