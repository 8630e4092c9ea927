---------------------------- MODULE MCBackOffice ----------------------------
(***************************************************************************)
(* Small instances of BackOffice, with two variables of history: what was  *)
(* ever asked for as the spreads of a pair, and the pairs on which updates *)
(* have overlapped.                                                        *)
(***************************************************************************)
EXTENDS BackOffice

VARIABLES wanted, overlapped

MCInit ==
  /\ OfficeInit
  /\ wanted = [pair \in DirectPairs |-> {Default}]
  /\ overlapped = {}

MCNext ==
  /\ OfficeNext
  /\ wanted' =
       [pair \in DirectPairs |-> wanted[pair] \cup
          {sent'[m] : m \in {n \in Managers : place'[n] = "find" /\ target'[n] = pair}}]
  /\ overlapped' = overlapped \cup
       {target[m] : m \in {n \in Managers : /\ place[n] = "update"
                                            /\ place'[n] = "commit"
                                            /\ seen[n] # spreads[target[n]]}}

MCSpec == MCInit /\ [][MCNext]_<<officeVars, wanted, overlapped>>

MCFairSpec == MCSpec /\ OfficeKeepsRunning

\* While the service runs every pair has a spread, and its two sides are those that
\* somebody has asked for together, or the default, unless an update of the pair was
\* committed between the read and the write of another: only then may a pair be left
\* with one side of each.
SidesBelongTogether ==
  serving => \A pair \in DirectPairs \ overlapped : spreads[pair] \in wanted[pair]
=============================================================================
