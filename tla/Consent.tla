------------------------------- MODULE Consent -------------------------------
(***************************************************************************)
(* How the members of a group agree to an expense: the endpoints of        *)
(* features/expenses/router.py that create, edit, split, confirm and       *)
(* reject an expense, and the lazy sweep that confirms it when its         *)
(* objection window has closed.                                            *)
(*                                                                         *)
(* Every writer locks the expense row (SELECT ... FOR UPDATE) before it    *)
(* writes and commits once, so what a request does under the lock is one   *)
(* step here.  What it read BEFORE the lock is a step of its own: the      *)
(* confirm and reject endpoints check the status of an expense they loaded *)
(* without a lock, and the locking query that follows does not refresh the *)
(* object the session already holds; the sweep picks its candidates with   *)
(* an unlocked query.  Other requests commit between the two steps.        *)
(*                                                                         *)
(* Amounts are left out: an edit is modelled by whether it changes what    *)
(* members consent to, and a split by who takes part.  The settlement of   *)
(* a confirmed expense is the subject of module Settlement.                *)
(*                                                                         *)
(* An operator commented as a Slip is a plausible mistake in the operator  *)
(* after it.  Nothing uses it: it is put in that operator's place to see   *)
(* that a property catches the mistake.                                    *)
(***************************************************************************)
EXTENDS Naturals, FiniteSets

CONSTANTS
  Expense,     \* expense ids
  User,        \* the members of the group
  Client,      \* concurrent confirm/reject requests the server may be serving
  Sweeper,     \* concurrent requests that run the expense sweep
  MaxRounds    \* bound: how often an expense is split

ASSUME ConsentAssumption ==
  /\ IsFiniteSet(User)
  /\ MaxRounds \in Nat

VARIABLES
  status,      \* expense.status; "NONE" before the row exists
  creator,     \* expense.created_by
  split,       \* expense_split.status by user; "NONE" when there is no row
  round,       \* how many times the expense was split: names the terms offered
  elapsed,     \* the splits are EXPENSE_AUTO_CONFIRM_DAYS old
  strict,      \* group_settings.strict_mode
  req,         \* what each confirm/reject request knows
  sweep,       \* the candidates each running sweep selected
  seen         \* history: the round a member's own confirmation was sent for

vars == <<status, creator, split, round, elapsed, strict, req, sweep,
          seen>>

Status == {"NONE", "DRAFT", "PENDING_CONFIRMATION", "CONFIRMED"}
SplitStatus == {"NONE", "PENDING", "CONFIRMED"}

\* what a card of PendingConfirmationsList lets its member answer; every press
\* is a request of its own
Reply == {"confirm", "reject"}
Request == [op : Reply, user : User, expense : Expense, round : Nat]
Idle == [op |-> "idle"]

TypeOK ==
  /\ status \in [Expense -> Status]
  /\ creator \in [Expense -> User]
  /\ split \in [Expense -> [User -> SplitStatus]]
  /\ round \in [Expense -> Nat]
  /\ elapsed \in [Expense -> BOOLEAN]
  /\ strict \in BOOLEAN
  /\ req \in [Client -> Request \cup {Idle}]
  /\ sweep \in [Sweeper -> SUBSET Expense]
  /\ seen \in [Expense -> [User -> Nat]]

-----------------------------------------------------------------------------
(* Splits of one expense, as a function from users to split status.        *)

NoSplits == [u \in User |-> "NONE"]
FreshSplits(S) == [u \in User |-> IF u \in S THEN "PENDING" ELSE "NONE"]
Participants(s) == {u \in User : s[u] # "NONE"}

\* Slip: one confirmation is taken for all
SomeConfirmed(s) == \E u \in Participants(s) : s[u] = "CONFIRMED"
\* check_all_splits_confirmed: there are splits and none waits
AllConfirmed(s) ==
  /\ Participants(s) # {}
  /\ \A u \in Participants(s) : s[u] = "CONFIRMED"

\* Slip: the UPDATE has no user_id filter
ConfirmedForAll(s, u) ==
  [v \in User |-> IF s[v] = "NONE" THEN "NONE" ELSE "CONFIRMED"]
\* A member's own confirmation
Confirmed(s, u) == [s EXCEPT ![u] = "CONFIRMED"]

\* Slip: the sweep writes the wrong status
AutoSettled(s) == [u \in User |-> IF s[u] = "PENDING" THEN "SETTLED" ELSE s[u]]
\* The sweep's bulk confirmation of the splits still pending
AutoConfirmed(s) == [u \in User |-> IF s[u] = "PENDING" THEN "CONFIRMED" ELSE s[u]]

\* filter_included_members: at least two members share an expense
CanShare(S) == Cardinality(S) >= 2

\* Slip: the immutability check is missing
EditableAnytime(e) == status[e] # "NONE"
\* The status check of the edit and split endpoints
Editable(e) == status[e] \in {"DRAFT", "PENDING_CONFIRMATION"}

Init ==
  /\ status = [e \in Expense |-> "NONE"]
  /\ creator \in [Expense -> User]
  /\ split = [e \in Expense |-> NoSplits]
  /\ round = [e \in Expense |-> 0]
  /\ elapsed = [e \in Expense |-> FALSE]
  /\ strict \in BOOLEAN
  /\ req = [c \in Client |-> Idle]
  /\ sweep = [k \in Sweeper |-> {}]
  /\ seen = [e \in Expense |-> [u \in User |-> 0]]

-----------------------------------------------------------------------------
(* The creator's requests: each locks the row in its first read.           *)

\* apply_split: the rows are replaced, a draft enters the confirmation flow
Offer(e, S) ==
  /\ round[e] < MaxRounds
  /\ CanShare(S)
  /\ split' = [split EXCEPT ![e] = FreshSplits(S)]
  /\ status' = [status EXCEPT ![e] = "PENDING_CONFIRMATION"]
  /\ round' = [round EXCEPT ![e] = @ + 1]
  /\ elapsed' = [elapsed EXCEPT ![e] = FALSE]
  /\ seen' = [seen EXCEPT ![e] = [u \in User |-> 0]]

\* POST /expenses without a split: a bare draft
CreateExpense(u, e) ==
  /\ status[e] = "NONE" /\ creator[e] = u
  /\ status' = [status EXCEPT ![e] = "DRAFT"]
  /\ UNCHANGED <<creator, split, round, elapsed, strict, req, sweep, seen>>

\* POST /expenses with a split: created and offered in one transaction
CreateSplitExpense(u, e, S) ==
  /\ status[e] = "NONE" /\ creator[e] = u
  /\ Offer(e, S)
  /\ UNCHANGED <<creator, strict, req, sweep>>

\* PUT /expenses/{id}/split
UpdateExpenseSplit(u, e, S) ==
  /\ Editable(e) /\ creator[e] = u
  /\ Offer(e, S)
  /\ UNCHANGED <<creator, strict, req, sweep>>

\* PATCH /expenses/{id} changing the amount or the payer of a split expense.
\* Any other edit leaves every variable here as it is.
EditExpense(u, e) ==
  /\ Editable(e) /\ creator[e] = u
  /\ Participants(split[e]) # {}
  /\ split' = [split EXCEPT ![e] = NoSplits]
  /\ status' = [status EXCEPT ![e] = "DRAFT"]
  /\ UNCHANGED <<creator, round, elapsed, strict, req, sweep, seen>>

-----------------------------------------------------------------------------
(* The members' answers.                                                   *)

\* The endpoint loads the expense without a lock and checks its status; whether
\* the member takes part is looked up later, under the lock.
CheckPending(c, op, u, e) ==
  /\ req[c] = Idle
  /\ status[e] = "PENDING_CONFIRMATION"
  /\ req' = [req EXCEPT ![c] = [op |-> op, user |-> u, expense |-> e,
                                round |-> round[e]]]
  /\ UNCHANGED <<status, creator, split, round, elapsed, strict, sweep, seen>>

\* confirm_expense_split under the lock: the split is looked up afresh, the
\* status is not looked at again, and the last confirmation finalizes.
ConfirmExpenseSplit(c) ==
  /\ req[c] # Idle
  /\ req[c].op = "confirm"
  /\ LET e == req[c].expense
         u == req[c].user
         s == Confirmed(split[e], u)
         final == AllConfirmed(s)
     IN IF u \in Participants(split[e])
        THEN /\ split' = [split EXCEPT ![e] = s]
             /\ seen' = [seen EXCEPT ![e][u] = req[c].round]
             /\ status' = [status EXCEPT ![e] = IF final THEN "CONFIRMED" ELSE @]
        ELSE UNCHANGED <<split, seen, status>>
  /\ req' = [req EXCEPT ![c] = Idle]
  /\ UNCHANGED <<creator, round, elapsed, strict, sweep>>

\* reject_expense_split under the lock: any split of the member, whatever
\* the status became, reopens the expense and removes every split.
RejectExpenseSplit(c) ==
  /\ req[c] # Idle
  /\ req[c].op = "reject"
  /\ LET e == req[c].expense
     IN IF req[c].user \in Participants(split[e])
        THEN /\ split' = [split EXCEPT ![e] = NoSplits]
             /\ status' = [status EXCEPT ![e] = "DRAFT"]
        ELSE UNCHANGED <<split, status>>
  /\ req' = [req EXCEPT ![c] = Idle]
  /\ UNCHANGED <<creator, round, elapsed, strict, sweep, seen>>

-----------------------------------------------------------------------------
(* Silence is consent: auto_confirm_expired_expenses.                      *)

\* Slip: the comparison with the cutoff is turned round
NotYetExpired == {e \in Expense : /\ status[e] = "PENDING_CONFIRMATION"
                                  /\ ~elapsed[e]
                                  /\ Participants(split[e]) # {}}
\* The sweep's unlocked query, in a group whose settings are not strict
Expired == {e \in Expense : /\ status[e] = "PENDING_CONFIRMATION"
                            /\ elapsed[e]
                            /\ Participants(split[e]) # {}}

\* Group screens sweep every expense of the group, the confirmations list
\* the expenses the caller takes part in.
SweepScopes == {Expense} \cup
               {{e \in Expense : u \in Participants(split[e])} : u \in User}

SelectExpired(k) ==
  /\ sweep[k] = {}
  /\ ~strict
  /\ \E scope \in SweepScopes :
       /\ Expired \cap scope # {}
       /\ sweep' = [sweep EXCEPT ![k] = Expired \cap scope]
  /\ UNCHANGED <<status, creator, split, round, elapsed, strict, req, seen>>

\* Each candidate is locked and its status (nothing else) checked again;
\* locks are kept to the commit, so all of them change in one step.
AutoConfirm(k) ==
  /\ sweep[k] # {}
  /\ LET due == {e \in sweep[k] : status[e] = "PENDING_CONFIRMATION"}
         final == {e \in due : AllConfirmed(AutoConfirmed(split[e]))}
     IN /\ split' = [e \in Expense |-> IF e \in due THEN AutoConfirmed(split[e])
                                                    ELSE split[e]]
        /\ status' = [e \in Expense |-> IF e \in final THEN "CONFIRMED"
                                                       ELSE status[e]]
  /\ sweep' = [sweep EXCEPT ![k] = {}]
  /\ UNCHANGED <<creator, round, elapsed, strict, req, seen>>

-----------------------------------------------------------------------------
(* The world around: time passes, the owner changes the social contract.   *)

WindowElapses(e) ==
  /\ status[e] = "PENDING_CONFIRMATION"
  /\ ~elapsed[e]
  /\ elapsed' = [elapsed EXCEPT ![e] = TRUE]
  /\ UNCHANGED <<status, creator, split, round, strict, req, sweep, seen>>

\* what the owner's checkbox sends; it is disabled until the answer is there
Toggled(shown) == ~shown

\* PATCH /groups/{id}/settings
SetStrictMode ==
  /\ strict' = Toggled(strict)
  /\ UNCHANGED <<status, creator, split, round, elapsed, req, sweep, seen>>

Next ==
  \/ \E u \in User, e \in Expense :
       \/ CreateExpense(u, e)
       \/ EditExpense(u, e)
       \/ \E S \in SUBSET User :
            CreateSplitExpense(u, e, S) \/ UpdateExpenseSplit(u, e, S)
       \/ \E c \in Client, op \in Reply : CheckPending(c, op, u, e)
  \/ \E c \in Client : ConfirmExpenseSplit(c) \/ RejectExpenseSplit(c)
  \/ \E k \in Sweeper : SelectExpired(k) \/ AutoConfirm(k)
  \/ \E e \in Expense : WindowElapses(e)
  \/ SetStrictMode

Spec == Init /\ [][Next]_vars

\* Time passes, a request that was started is carried out, and somebody keeps
\* opening a screen that sweeps (the code has no scheduler for it).
Fairness ==
  /\ \A e \in Expense : WF_vars(WindowElapses(e))
  /\ \A k \in Sweeper : WF_vars(SelectExpired(k)) /\ WF_vars(AutoConfirm(k))
  /\ \A c \in Client : WF_vars(ConfirmExpenseSplit(c) \/ RejectExpenseSplit(c))

LiveSpec == Spec /\ Fairness
-----------------------------------------------------------------------------
(* Properties                                                              *)

\* The status column and the split rows, written by different statements of
\* different endpoints, tell one story: a draft has no splits, an expense
\* awaiting confirmation awaits somebody (it can never be stuck with every
\* share confirmed), and a confirmed one was confirmed for every participant
\* (service.py apply_split, finalize_expense, reject_expense_split,
\* update_expense).
StatusMatchesSplits ==
  \A e \in Expense :
    /\ status[e] \in {"NONE", "DRAFT"} => split[e] = NoSplits
    /\ status[e] = "PENDING_CONFIRMATION" => \E u \in User : split[e][u] = "PENDING"
    /\ status[e] = "CONFIRMED" =>
         /\ Participants(split[e]) # {}
         /\ \A u \in Participants(split[e]) : split[e][u] = "CONFIRMED"

\* A request or a sweep that ends in this step, and acted on expense e
Answering(c, op, e) ==
  req[c] # Idle /\ req[c].op = op /\ req[c].expense = e /\ req'[c] = Idle
Sweeping(k, e) == e \in sweep[k] /\ sweep'[k] = {}

\* What protects a confirmed expense: the only request that can still change
\* its status or its split rows is a reject of one of its participants that
\* had passed its status check while the expense was pending.  No edit,
\* re-split, sweep or late confirm touches it.
TouchedByLateReject(e) ==
  status[e] = "CONFIRMED" /\ (status'[e] # "CONFIRMED" \/ split'[e] # split[e])
  => /\ status'[e] = "DRAFT" /\ split'[e] = NoSplits
     /\ \E c \in Client : /\ Answering(c, "reject", e)
                          /\ req[c].user \in Participants(split[e])
LateRejectStep == \A e \in Expense : TouchedByLateReject(e)
OnlyLateRejectReopens == [][LateRejectStep]_vars

\* Nobody consents for somebody else: a pending share becomes confirmed only
\* by a confirm its own member sent, or by a sweep that had selected the
\* expense (confirm_expense_split, auto_confirm_expired_expenses).
PersonalStep ==
  \A e \in Expense, u \in User :
    split[e][u] = "PENDING" /\ split'[e][u] = "CONFIRMED"
    => \/ \E c \in Client : Answering(c, "confirm", e) /\ req[c].user = u
       \/ \E k \in Sweeper : Sweeping(k, e)
ConsentIsPersonal == [][PersonalStep]_vars

\* Silence is consent: in a group that stays non-strict, an expense awaiting
\* confirmation does not wait forever; it is confirmed, or reopened, and one
\* silent member cannot hold it back.
PendingIsResolved ==
  \A e \in Expense :
    (status[e] = "PENDING_CONFIRMATION" /\ ~strict)
      ~> (status[e] # "PENDING_CONFIRMATION" \/ strict)

-----------------------------------------------------------------------------
(* What the comments of the code promise and the code does not keep        *)

\* router.py: "Confirmed/settled expenses are immutable"; "Only
\* pending_confirmation expenses can be rejected".
ConfirmedIsImmutable ==
  [][\A e \in Expense : status[e] = "CONFIRMED" => status'[e] = "CONFIRMED"]_vars

\* update_expense: nobody stays confirmed "on numbers they never saw": the
\* confirmation on record was sent for the splits it is recorded on.
ConfirmedWhatWasOffered ==
  \A e \in Expense, u \in User :
    split[e][u] = "CONFIRMED" /\ seen[e][u] # 0 => seen[e][u] = round[e]

\* auto_confirm_expired_expenses: "Re-splitting recreates the splits, which
\* restarts the window" and "Strict-mode groups are untouched": what a sweep
\* confirms is due, and its group not strict, when the sweep confirms it.
SweepKeepsTheWindow ==
  [][\A e \in Expense, k \in Sweeper :
       Sweeping(k, e) /\ status[e] = "PENDING_CONFIRMATION"
         /\ status'[e] = "CONFIRMED" => elapsed[e] /\ ~strict]_vars
=============================================================================
