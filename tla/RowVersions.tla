----------------------------- MODULE RowVersions -----------------------------
(***************************************************************************)
(* The part of PostgreSQL's READ COMMITTED isolation the handlers depend   *)
(* on.  A table maps each key to the versions of its row:                  *)
(*                                                                         *)
(*     old   the last committed version, what other transactions read,     *)
(*     new   the version the transaction holding the row lock has written, *)
(*     by    that transaction, or Nobody.                                  *)
(*                                                                         *)
(* An INSERT, UPDATE or DELETE of a row another transaction has written    *)
(* waits until that transaction commits or rolls back, then goes by the    *)
(* row as it is found.                                                     *)
(***************************************************************************)

Nobody == 0

Committed(v) == [old |-> v, new |-> v, by |-> Nobody]

Versions(V, T) == [old : V, new : V, by : T \cup {Nobody}]

\* Transaction t may write row k now: a statement that finds this false waits.
MayWrite(tbl, k, t) == tbl[k].by \in {Nobody, t}

\* Transaction t has written v to row k and holds its lock.
Write(tbl, k, v, t) == [tbl EXCEPT ![k] = [old |-> @.old, new |-> v, by |-> t]]

\* t commits: what it wrote is what others read, and its locks are released.
CommitRows(tbl, t) ==
    [k \in DOMAIN tbl |-> IF tbl[k].by = t THEN Committed(tbl[k].new) ELSE tbl[k]]

\* t rolls back: what it wrote is gone, and its locks are released.
RollbackRows(tbl, t) ==
    [k \in DOMAIN tbl |-> IF tbl[k].by = t THEN Committed(tbl[k].old) ELSE tbl[k]]

\* The transactions that hold a row of the table.
Holders(tbl) == {tbl[k].by : k \in DOMAIN tbl} \ {Nobody}
=============================================================================
