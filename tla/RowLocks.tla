------------------------------- MODULE RowLocks -------------------------------
(***************************************************************************)
(* The row locks of PostgreSQL, as the services use them: SELECT ... FOR    *)
(* UPDATE (with_for_update), the lock a plain UPDATE takes, and the share   *)
(* lock that inserting a row takes on the rows its foreign keys point to.   *)
(* A lock is kept until the transaction ends; a transaction never waits for *)
(* itself.  The database is not part of the repository: this is how the     *)
(* code relies on it.                                                       *)
(***************************************************************************)
EXTENDS Naturals

CONSTANT Tx     \* transactions (one per request being served)

VARIABLES
  held,         \* the locks each transaction holds
  todo          \* the locks its current statements still have to take

Mode == {"FOR UPDATE", "FOR NO KEY UPDATE", "FOR KEY SHARE"}
Table == {"claim", "split", "expense"}
Lock == [table : Table, id : Nat, mode : Mode]

ForUpdate(table, ids) ==
  {[table |-> table, id |-> i, mode |-> "FOR UPDATE"] : i \in ids}
PlainUpdate(table, ids) ==
  {[table |-> table, id |-> i, mode |-> "FOR NO KEY UPDATE"] : i \in ids}
KeyShare(table, ids) ==
  {[table |-> table, id |-> i, mode |-> "FOR KEY SHARE"] : i \in ids}

LocksTypeOK ==
  /\ held \in [Tx -> SUBSET Lock]
  /\ todo \in [Tx -> SUBSET Lock]

\* Shares go together, and an UPDATE that leaves the key alone goes with shares
Conflict(k, l) ==
  /\ k.table = l.table /\ k.id = l.id
  /\ {k.mode, l.mode} \notin
       {{"FOR KEY SHARE"}, {"FOR KEY SHARE", "FOR NO KEY UPDATE"}}

Blockers(t, l) == {u \in Tx \ {t} : \E k \in held[u] : Conflict(k, l)}

Acquire(t, l) ==
  /\ l \in todo[t]
  /\ Blockers(t, l) = {}
  /\ held' = [held EXCEPT ![t] = @ \cup {l}]
  /\ todo' = [todo EXCEPT ![t] = @ \ {l}]

\* The next statements of t need the locks L
Want(t, L) ==
  /\ todo' = [todo EXCEPT ![t] = L]
  /\ UNCHANGED held

ReleaseAll(t) ==
  /\ held' = [held EXCEPT ![t] = {}]
  /\ todo' = [todo EXCEPT ![t] = {}]

\* No two transactions ever hold conflicting locks
LocksExclude ==
  \A t, u \in Tx : t # u =>
    \A k \in held[t], l \in held[u] : ~Conflict(k, l)
=============================================================================
