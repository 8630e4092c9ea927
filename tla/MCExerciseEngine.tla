-------------------------- MODULE MCExerciseEngine --------------------------
(***************************************************************************)
(* Small instances of ExerciseEngine, with a variable of history: how many *)
(* transactions were in the file when an execution checked its quote, and  *)
(* for every transaction what it was for the one that made it.             *)
(***************************************************************************)
EXTENDS ExerciseEngine, TLC

CONSTANTS usd, eur, kes, q1, q2, q3

TheFrom == q1 :> eur @@ q2 :> kes @@ q3 :> kes
TheTo == q1 :> kes @@ q2 :> usd @@ q3 :> kes
TheAmount == q1 :> 5 @@ q2 :> 5 @@ q3 :> 5
TheListed == {<<usd, eur>>, <<usd, kes>>}

VARIABLES before, made

history == <<before, made>>

MCInit ==
  /\ ExerciseInit
  /\ before = [p \in Workers |-> 0]
  /\ made = <<>>

MCNext ==
  /\ ExerciseNext
  /\ before' =
       [p \in Workers |->
          CASE at'[p] = "idle" -> 0
            [] at[p] = "check" /\ at'[p] = "enter" -> Len(file.transactions)
            [] OTHER -> before[p]]
  /\ made' =
       IF Len(file'.transactions) > Len(file.transactions)
         THEN Append(made, before[writeLock])
         ELSE made

MCSpec == MCInit /\ [][MCNext]_<<exerciseVars, history>>

MCFairSpec == MCSpec /\ WorkersKeepRunning

\* A quote is settled again only by an execution that had checked it before any
\* settlement of it was committed: it takes calls that overlap, and a later one is
\* always refused.
AgainOnlyIfOverlapping ==
  \A i, j \in DOMAIN file.transactions :
    i < j /\ file.transactions[i].quote = file.transactions[j].quote => made[j] < i
=============================================================================
