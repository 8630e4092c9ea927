----------------------------- MODULE BackOffice -----------------------------
(***************************************************************************)
(* Registrations and changes of spreads together: what they share is the   *)
(* write lock and the process that may die under them and start again.     *)
(***************************************************************************)
EXTENDS Registration, Spreads

CONSTANTS
  MaxCalls,   \* bound on the calls of either kind
  MaxCrashes  \* bound on crashes

ASSUME BackOfficeAssumption ==
  /\ Clerks \cap Managers = {}
  /\ MaxCalls \in Nat /\ MaxCrashes \in Nat

VARIABLE crashes

officeVars == <<lock, registrationVars, spreadsVars, crashes>>

OfficeInit ==
  /\ lock = NoOne
  /\ RegistrationInit
  /\ SpreadsInit
  /\ crashes = 0

Registering ==
  /\ serving
  /\ RegistrationNext
  /\ UNCHANGED <<spreadsVars, crashes>>

Administering == SpreadsNext /\ UNCHANGED <<registrationVars, crashes>>

ProcessDies ==
  /\ serving
  /\ crashes < MaxCrashes
  /\ crashes' = crashes + 1
  /\ lock' = NoOne
  /\ RegistrationDies
  /\ SpreadsDie

OfficeNext ==
  /\ Registering \/ Administering \/ ProcessDies
  /\ served' + updates' <= MaxCalls

OfficeSpec == OfficeInit /\ [][OfficeNext]_officeVars

\* A process that died is started again; of a call every statement returns, for a wait
\* for the lock ends after five seconds.
OfficeKeepsRunning ==
  /\ WF_officeVars(SeedAndServe /\ UNCHANGED <<registrationVars, crashes>>)
  /\ \A p \in Clerks : WF_officeVars(ClerkStep(p) /\ UNCHANGED <<spreadsVars, crashes>>)
  /\ \A m \in Managers :
       WF_officeVars(ManagerStep(m) /\ UNCHANGED <<registrationVars, crashes>>)

-----------------------------------------------------------------------------
(* Properties *)

\* The type invariant, with the discipline of the lock: whoever has it is past its
\* first write and before its commit, and nobody else is.
OfficeTypeOK ==
  /\ RegistrationTypeOK
  /\ SpreadsTypeOK
  /\ crashes \in Nat
  /\ lock \in Clerks \cup Managers \cup {NoOne}
  /\ \A p \in Clerks : lock = p <=> desk[p] \in {"balances", "commit"}
  /\ \A m \in Managers : lock = m <=> place[m] = "commit"

\* Every call ends, whoever fails or dies while others wait for the lock.
OfficeAnswers ==
  /\ \A p \in Clerks : desk[p] # "idle" ~> desk[p] = "idle"
  /\ \A m \in Managers : place[m] # "idle" ~> place[m] = "idle"
=============================================================================
