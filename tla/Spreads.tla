------------------------------ MODULE Spreads ------------------------------
(***************************************************************************)
(* The spreads of the currency pairs: seeded when the process starts       *)
(* (seed_corridor_spreads), changed by PUT /api/v1/rates/spreads/{base}/   *)
(* {quote} (update_spread of app/services/rate_service.py).                *)
(*                                                                         *)
(* An update reads the row outside a transaction and assigns both columns; *)
(* the UPDATE names those whose value differs from the one that was read.  *)
(***************************************************************************)
EXTENDS WriteLock, Naturals

CONSTANTS
  Managers,      \* the threads that serve these calls
  DirectPairs,   \* DIRECT_PAIRS
  OtherPair,     \* any other pair
  SpreadValues,  \* what clients send for one side
  DefaultSpread, \* what is seeded for either side
  NoSpread,      \* "no row"
  MaxUpdates     \* bound on the calls

ASSUME SpreadsAssumption ==
  /\ NoOne \notin Managers
  /\ OtherPair \notin DirectPairs
  /\ DefaultSpread \in SpreadValues
  /\ MaxUpdates \in Nat

Spread == [buy : SpreadValues, sell : SpreadValues]

ASSUME NoSpreadAssumption == NoSpread \notin Spread

VARIABLES
  spreads,  \* the committed rows of "corridor_spreads"
  pending,  \* the rows as the thread with the write lock sees them
  serving,  \* the process has started
  place,    \* where each thread is
  target,   \* the pair its call names
  sent,     \* the spreads it sends
  seen,     \* the row it has read
  answer,   \* the code and the row of its last answer
  updates

spreadsVars == <<spreads, pending, serving, place, target, sent, seen, answer, updates>>

Default == [buy |-> DefaultSpread, sell |-> DefaultSpread]

NothingSent == Default

Unanswered == [code |-> "NONE", row |-> NoSpread]

SpreadsInit ==
  /\ spreads = [pair \in DirectPairs |-> NoSpread]
  /\ pending = spreads
  /\ serving = FALSE
  /\ place = [m \in Managers |-> "idle"]
  /\ target = [m \in Managers |-> OtherPair]
  /\ sent = [m \in Managers |-> NothingSent]
  /\ seen = [m \in Managers |-> NoSpread]
  /\ answer = [m \in Managers |-> Unanswered]
  /\ updates = 0

-----------------------------------------------------------------------------
(* seed_corridor_spreads *)

\* A slip: every start sets the defaults.
Reseeded(pair) == Default

\* Only what is missing.
Seeded(pair) ==
  IF spreads[pair] = NoSpread THEN Default ELSE spreads[pair]

\* One transaction, before the first request; if it fails the process does not come up.
SeedAndServe ==
  /\ ~ serving
  /\ serving' = TRUE
  /\ spreads' = [pair \in DirectPairs |-> Seeded(pair)]
  /\ pending' = spreads'
  /\ UNCHANGED <<lock, place, target, sent, seen, answer, updates>>

-----------------------------------------------------------------------------
(* update_spread *)

CallUpdate(m, pair, new) ==
  /\ serving
  /\ place[m] = "idle"
  /\ updates < MaxUpdates
  /\ updates' = updates + 1
  /\ place' = [place EXCEPT ![m] = "find"]
  /\ target' = [target EXCEPT ![m] = pair]
  /\ sent' = [sent EXCEPT ![m] = new]
  /\ answer' = [answer EXCEPT ![m] = Unanswered]
  /\ UNCHANGED <<lock, spreads, pending, serving, seen>>

Continue(m, next) ==
  /\ place' = [place EXCEPT ![m] = next]
  /\ UNCHANGED <<serving, target, sent, answer, updates>>

AnswerUpdate(m, code, row) ==
  /\ place' = [place EXCEPT ![m] = "idle"]
  /\ sent' = [sent EXCEPT ![m] = NothingSent]
  /\ seen' = [seen EXCEPT ![m] = NoSpread]
  /\ answer' = [answer EXCEPT ![m] = [code |-> code, row |-> row]]
  /\ UNCHANGED <<serving, target, updates>>

HasSpread(pair) == pair \in DirectPairs /\ spreads[pair] # NoSpread

SpreadNotFound(m) ==
  /\ place[m] = "find"
  /\ ~ HasSpread(target[m])
  /\ AnswerUpdate(m, "SPREAD_NOT_FOUND", NoSpread)
  /\ UNCHANGED <<lock, spreads, pending>>

ReadSpread(m) ==
  /\ place[m] = "find"
  /\ HasSpread(target[m])
  /\ seen' = [seen EXCEPT ![m] = spreads[target[m]]]
  /\ Continue(m, "update")
  /\ UNCHANGED <<lock, spreads, pending>>

\* Nothing differs from what was read: there is no UPDATE to wait for.
NothingToUpdate(m) ==
  /\ place[m] = "update"
  /\ sent[m] = seen[m]
  /\ Continue(m, "refresh")
  /\ UNCHANGED <<lock, spreads, pending, seen>>

\* A slip: of the two columns only one is assigned.
UpdatedBuy(m) == [spreads[target[m]] EXCEPT !.buy = sent[m].buy]

UpdatedRow(m) ==
  LET now == spreads[target[m]]
  IN  [ buy  |-> IF sent[m].buy = seen[m].buy THEN now.buy ELSE sent[m].buy,
        sell |-> IF sent[m].sell = seen[m].sell THEN now.sell ELSE sent[m].sell ]

UpdateSpread(m) ==
  /\ place[m] = "update"
  /\ sent[m] # seen[m]
  /\ Take(m)
  /\ pending' = [spreads EXCEPT ![target[m]] = UpdatedRow(m)]
  /\ Continue(m, "commit")
  /\ UNCHANGED <<spreads, seen>>

\* The busy timeout.
SpreadTimeout(m) ==
  /\ place[m] = "update"
  /\ sent[m] # seen[m]
  /\ lock # NoOne
  /\ AnswerUpdate(m, "INTERNAL_ERROR", NoSpread)
  /\ UNCHANGED <<lock, spreads, pending>>

CommitSpread(m) ==
  /\ place[m] = "commit"
  /\ spreads' = pending
  /\ Release(m)
  /\ Continue(m, "refresh")
  /\ UNCHANGED <<pending, seen>>

\* refresh() reads the row again, which another update may have changed.
AnswerSpread(m) ==
  /\ place[m] = "refresh"
  /\ AnswerUpdate(m, "OK", spreads[target[m]])
  /\ UNCHANGED <<lock, spreads, pending>>

SpreadFault(m) ==
  /\ place[m] # "idle"
  /\ pending' = IF lock = m THEN spreads ELSE pending
  /\ Drop(m)
  /\ AnswerUpdate(m, "INTERNAL_ERROR", NoSpread)
  /\ UNCHANGED spreads

ManagerStep(m) ==
  \/ SpreadNotFound(m) \/ ReadSpread(m) \/ NothingToUpdate(m) \/ UpdateSpread(m)
  \/ SpreadTimeout(m) \/ CommitSpread(m) \/ AnswerSpread(m)

SpreadsNext ==
  \/ SeedAndServe
  \/ \E m \in Managers :
       \/ \E pair \in DirectPairs \cup {OtherPair}, new \in Spread : CallUpdate(m, pair, new)
       \/ ManagerStep(m)
       \/ SpreadFault(m)

\* The process dies, and the next one seeds again.
SpreadsDie ==
  /\ pending' = spreads
  /\ serving' = FALSE
  /\ place' = [m \in Managers |-> "idle"]
  /\ sent' = [m \in Managers |-> NothingSent]
  /\ seen' = [m \in Managers |-> NoSpread]
  /\ UNCHANGED <<spreads, target, answer, updates>>

-----------------------------------------------------------------------------
(* Properties *)

\* The types of this module's own state.
SpreadsTypeOK ==
  /\ spreads \in [DirectPairs -> Spread \cup {NoSpread}]
  /\ pending \in [DirectPairs -> Spread \cup {NoSpread}]
  /\ serving \in BOOLEAN
  /\ place \in [Managers -> {"idle", "find", "update", "commit", "refresh"}]
  /\ target \in [Managers -> DirectPairs \cup {OtherPair}]
  /\ sent \in [Managers -> Spread]
  /\ seen \in [Managers -> Spread \cup {NoSpread}]
  /\ answer \in [Managers -> [code : {"NONE", "OK", "SPREAD_NOT_FOUND", "INTERNAL_ERROR"},
                               row : Spread \cup {NoSpread}]]
  /\ updates \in Nat

\* A spread that is in the file changes by the commit of an update of its own pair, and
\* by nothing else: not by a restart, a failed update, or the update of another pair.
OnlyUpdatesChangeSpreads ==
  [][\A pair \in DirectPairs :
       spreads[pair] # NoSpread /\ spreads'[pair] # spreads[pair] =>
         \E m \in Managers : place[m] = "commit" /\ place'[m] = "refresh" /\ target[m] = pair
    ]_spreadsVars
=============================================================================
