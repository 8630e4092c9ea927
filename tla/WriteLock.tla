------------------------------ MODULE WriteLock ------------------------------
(***************************************************************************)
(* SQLite's write lock, for handlers whose first statement is a read or an *)
(* INSERT: pysqlite begins a transaction with the first INSERT or UPDATE,  *)
(* which waits for the lock, and COMMIT or ROLLBACK gives it back.         *)
(***************************************************************************)
CONSTANT NoOne

VARIABLE lock

Take(p) == lock = NoOne /\ lock' = p

Release(p) == lock = p /\ lock' = NoOne

\* A slip: the connection goes back to the pool with its transaction open.
KeepAnyway(p) == lock' = lock

\* The session is closed, whether it has the lock or not.
Drop(p) == lock' = IF lock = p THEN NoOne ELSE lock
=============================================================================
