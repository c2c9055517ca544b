------------------------------- MODULE Account -------------------------------
(* One user's account at the server (features/auth): the profile, the key of *)
(* the user's own AI plan, the payment handles, and the deletion of the      *)
(* account, which must find no unsettled obligation and leave no personal    *)
(* data behind.                                                              *)
(*                                                                           *)
(* No request locks anything it reads.  A request loads the user when it     *)
(* begins (get_current_user), checks what it has to check, and commits; other *)
(* requests commit in between.  Only the attributes that differ from the     *)
(* loaded ones are written.                                                  *)
EXTENDS Integers, FiniteSets

CONSTANTS Requests,    \* bound: requests of this user under way
          Values,      \* personal values of a field
          Handles,     \* payment handles
          MaxMethods   \* MAX_METHODS_PER_USER

VARIABLES row,         \* the user's attributes; Unset is null, Gone a placeholder
          active,      \* is_active
          methods,     \* payment_method rows
          owing,       \* the sides on which something is unsettled
          req,         \* what each request knows
          overlapped,  \* history: another request ran while the deletion did
          later        \* history: the obligations the deletion could not have seen

vars == <<row, active, methods, owing, req, overlapped, later>>

Gone    == "gone"
Unset   == "unset"
Profile == {"email", "full_name"}
Fields  == Profile \cup {"key"}
Sides   == {"share", "payer"}      \* a split of mine, an expense I paid
Free    == [op |-> "none"]

Running(r) == req[r] # Free
Others(r)  == {q \in Requests \ {r} : Running(q)}

\* Slip: the e-mail address may be set to null.
NullableUpdates ==
  UNION {[S -> Values \cup {Unset}] : S \in (SUBSET Profile \ {{}}) \cup {{"key"}}}

\* What PATCH /me, PUT and DELETE /me/api-key write, unless they fail.
Updates ==
  {d \in UNION {[S -> Values \cup {Unset}] : S \in (SUBSET Profile \ {{}}) \cup {{"key"}}} :
     "email" \in DOMAIN d => d["email"] # Unset}

\* Slip: the whole user is written back.
Overwritten(now, loaded, data) ==
  [f \in Fields |-> IF f \in DOMAIN data THEN data[f] ELSE loaded[f]]

\* The ORM's UPDATE: the attributes that differ from what the request loaded.
Written(now, loaded, data) ==
  [f \in Fields |-> IF f \in DOMAIN data /\ data[f] # loaded[f] THEN data[f] ELSE now[f]]

\* soft_delete_user: placeholders in the profile, no key.
Anonymous == [f \in Fields |-> IF f \in Profile THEN Gone ELSE Unset]

-----------------------------------------------------------------------------
Init ==
  /\ row \in [Fields -> Values \cup {Unset}]
  /\ row["email"] # Unset
  /\ active = TRUE
  /\ methods = {}
  /\ owing \in SUBSET Sides
  /\ req = [r \in Requests |-> Free]
  /\ overlapped = FALSE
  /\ later = {}

\* Slip: a session outlives its account.
AnySession == TRUE

\* get_current_user
Authenticated == active

Begin(r, what) ==
  /\ ~Running(r)
  /\ Authenticated
  /\ req' = [req EXCEPT ![r] = what]
  /\ UNCHANGED <<row, active, methods, owing, overlapped, later>>

\* A request ends; a deletion under way has been overlapped by what it wrote.
End(r) ==
  req' = [q \in Requests |->
            IF q = r THEN Free
            ELSE IF Running(q) /\ req[q].op = "delete" THEN [req[q] EXCEPT !.raced = TRUE]
            ELSE req[q]]

BeginUpdate(r, d) == Begin(r, [op |-> "update", loaded |-> row, data |-> d])

CommitUpdate(r) ==
  /\ req[r].op = "update"
  /\ row' = Written(row, req[r].loaded, req[r].data)
  /\ End(r)
  /\ UNCHANGED <<active, methods, owing, overlapped, later>>

\* POST /me/payment-methods: the cap and the duplicate are looked up, then a row is
\* inserted; the unique constraint refuses a handle saved meanwhile.
BeginAdd(r, h) ==
  /\ Cardinality(methods) < MaxMethods
  /\ h \notin methods
  /\ Begin(r, [op |-> "add", handle |-> h])

CommitAdd(r) ==
  /\ req[r].op = "add"
  /\ methods' = methods \cup {req[r].handle}
  /\ End(r)
  /\ UNCHANGED <<row, active, owing, overlapped, later>>

\* PUT /me/payment-methods/{id}: another handle in the same row, if it is still there.
BeginEdit(r, g, h) ==
  /\ g \in methods /\ h \notin methods
  /\ Begin(r, [op |-> "edit", handle |-> g, as |-> h])

CommitEdit(r) ==
  /\ req[r].op = "edit"
  /\ methods' = IF req[r].handle \in methods /\ req[r].as \notin methods
                THEN (methods \ {req[r].handle}) \cup {req[r].as} ELSE methods
  /\ End(r)
  /\ UNCHANGED <<row, active, owing, overlapped, later>>

RemoveMethod(h) ==
  /\ active
  /\ h \in methods
  /\ methods' = methods \ {h}
  /\ UNCHANGED <<row, active, owing, req, overlapped, later>>

\* A request ends without a commit: refused, or its connection lost.
Abandon(r) ==
  /\ Running(r)
  /\ req' = [req EXCEPT ![r] = Free]
  /\ UNCHANGED <<row, active, methods, owing, overlapped, later>>

-----------------------------------------------------------------------------
(* DELETE /me: two counts, then everything is scrubbed.                    *)

BeginDelete(r) ==
  Begin(r, [op |-> "delete", loaded |-> row, checked |-> {}, unseen |-> {},
            raced |-> \E q \in Requests : Running(q)])

\* Slip: only the user's own splits are counted.
SharesOnly == {"share"}

\* has_unsettled_obligations: the user's splits first, then the expenses they paid.
MustCheck == Sides

CheckObligation(r, side) ==
  /\ req[r].op = "delete"
  /\ side \in MustCheck \ req[r].checked
  /\ side = "payer" => "share" \in req[r].checked
  /\ side \notin owing
  /\ req' = [req EXCEPT ![r].checked = @ \cup {side}]
  /\ UNCHANGED <<row, active, methods, owing, overlapped, later>>

\* soft_delete_user and the commit.
CommitDelete(r) ==
  /\ req[r].op = "delete"
  /\ req[r].checked = MustCheck
  /\ row' = Written(row, req[r].loaded, Anonymous)
  /\ active' = FALSE
  /\ methods' = {}
  /\ overlapped' = (overlapped \/ req[r].raced \/ Others(r) # {})
  /\ later' = later \cup req[r].unseen
  /\ End(r)
  /\ UNCHANGED owing

\* An expense is split over the user, or names them as payer.  Membership of the
\* groups is not removed with the account, so it may happen after the deletion.
Opened(side) ==
  /\ side \notin owing
  /\ owing' = owing \cup {side}
  /\ req' = [r \in Requests |->
               IF Running(r) /\ req[r].op = "delete"
               THEN [req[r] EXCEPT !.unseen = @ \cup (req[r].checked \cap {side})]
               ELSE req[r]]
  /\ later' = IF active THEN later ELSE later \cup {side}
  /\ UNCHANGED <<row, active, methods, overlapped>>

\* It is settled, or withdrawn.
Closed(side) ==
  /\ side \in owing
  /\ owing' = owing \ {side}
  /\ UNCHANGED <<row, active, methods, req, overlapped, later>>

Next ==
  \/ \E r \in Requests :
       \/ \E d \in Updates : BeginUpdate(r, d)
       \/ CommitUpdate(r)
       \/ \E h \in Handles : BeginAdd(r, h)
       \/ CommitAdd(r)
       \/ \E g, h \in Handles : BeginEdit(r, g, h)
       \/ CommitEdit(r)
       \/ Abandon(r)
       \/ BeginDelete(r)
       \/ \E side \in Sides : CheckObligation(r, side)
       \/ CommitDelete(r)
  \/ \E h \in Handles : RemoveMethod(h)
  \/ \E side \in Sides : Opened(side) \/ Closed(side)

Spec == Init /\ [][Next]_vars

-----------------------------------------------------------------------------
\* The types of the state: an account has an address, its own until it is deleted.
TypeOK ==
  /\ row \in [Fields -> Values \cup {Unset, Gone}]
  /\ row["email"] # Unset
  /\ active => \A f \in Fields : row[f] # Gone
  /\ methods \subseteq Handles
  /\ owing \subseteq Sides /\ later \subseteq Sides
  /\ active \in BOOLEAN /\ overlapped \in BOOLEAN
  /\ \A r \in Requests : Running(r) =>
       req[r].op \in {"update", "add", "edit", "delete"}

\* Two changes of the account that overlap do not undo each other: a commit leaves
\* the attributes its request was not asked to change as they are by then.
KeepsOthersChanges ==
  \A r \in Requests : CommitUpdate(r) =>
    \A f \in Fields \ DOMAIN req[r].data : row'[f] = row[f]
OthersChangesStay == [][KeepsOthersChanges]_vars

\* A deleted account holds no personal data, then or ever after, if no other request
\* of its user ran while it was deleted.
ScrubbedUnlessOverlapped ==
  (~active /\ ~overlapped) => row = Anonymous /\ methods = {}

\* What a deleted user still owes or is owed began after the deletion had looked at
\* that side of the ledger.
OwesOnlyLater == ~active => owing \subseteq later

\* auth/router.py:265-266: "Deletion is blocked while the user still has unsettled
\* expenses."
DeletesUnowing == \A r \in Requests : CommitDelete(r) => owing = {}
DeletionIsBlocked == [][DeletesUnowing]_vars

\* auth/router.py:281: "Account deleted. Your personal data has been removed".
DataIsRemoved == ~active => row = Anonymous /\ methods = {}

\* auth/router.py:162: "You can save up to {MAX_METHODS_PER_USER} payment methods."
MethodCapHolds == Cardinality(methods) <= MaxMethods
=============================================================================
