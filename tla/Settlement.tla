------------------------------ MODULE Settlement ------------------------------
(***************************************************************************)
(* Paying back: the claims of features/expenses/service.py.  A member       *)
(* claims one confirmed split (per-expense) or every open split between him *)
(* and another member (aggregate, "settle with X"); the creditor confirms   *)
(* or rejects; after 72 hours of silence a sweep confirms for him.          *)
(*                                                                          *)
(* Each request is a database transaction that takes row locks one by one   *)
(* and reads, under READ COMMITTED, what is committed plus what it wrote    *)
(* itself.  The grain of atomicity here is one lock or one reading          *)
(* statement; a transaction's writes appear together when it commits.       *)
(* As in Consent, a Slip is a plausible mistake in the operator after it.   *)
(***************************************************************************)
EXTENDS RowLocks, Sequences, FiniteSets, FiniteSetsExt

CONSTANTS
  Split, Expense, Claim,   \* row ids (locks are taken in the order of ids)
  User,                    \* members of the group
  ExpenseOf,               \* split -> its expense
  Owes,                    \* split -> the member who owes it
  Payer,                   \* expense -> the member who paid
  Amount,                  \* split -> amount owed
  Requests,                \* the kinds of request the clients send
  MayExpire                \* bound: the claims whose window can close

ASSUME SettlementAssumption ==
  /\ Split \subseteq Nat /\ Expense \subseteq Nat /\ Claim \subseteq Nat
  /\ IsFiniteSet(Split) /\ IsFiniteSet(Expense) /\ IsFiniteSet(Claim)
  /\ ExpenseOf \in [Split -> Expense]
  /\ Owes \in [Split -> User]
  /\ Payer \in [Expense -> User]
  /\ Amount \in [Split -> Nat]
  /\ MayExpire \subseteq Claim
  /\ \A s1, s2 \in Split :      \* uq_expense_user_split
       ExpenseOf[s1] = ExpenseOf[s2] /\ Owes[s1] = Owes[s2] => s1 = s2

VARIABLES
  split,        \* committed expense_split.status
  expense,      \* committed expense.status
  claim,        \* committed settlement_claim rows and their links
  expired,      \* claims older than SETTLEMENT_AUTO_CONFIRM_HOURS
  tx            \* what each transaction is doing and has written

vars == <<held, todo, split, expense, claim, expired, tx>>

Status == {"CONFIRMED", "SETTLED"}
ClaimStatus == {"NONE", "PENDING", "CONFIRMED", "REJECTED"}
ClaimRow == [status : ClaimStatus, aggregate : BOOLEAN,
             pair : Seq(User), covers : SUBSET Split]
NoClaim == [status |-> "NONE", aggregate |-> FALSE, pair |-> <<>>, covers |-> {}]

Op == {"idle", "confirm", "reject", "late", "sweep", "settle", "cover"}
Phase == {"idle", "next", "claim", "rows", "payer", "settle", "query",
          "cover", "commit"}
TxState ==
  [op : Op, at : Phase, pair : Seq(User),
   queue : SUBSET Claim,      \* claims still to be processed
   cur : SUBSET Claim,        \* the claim being processed
   cands : SUBSET Split,      \* the splits a new claim is to cover
   settles : SUBSET Split,    \* uncommitted writes: splits SETTLED,
   flips : SUBSET Expense,    \*   expenses SETTLED,
   done : SUBSET Claim]       \*   claims decided
Idle == [op |-> "idle", at |-> "idle", pair |-> <<>>, queue |-> {},
         cur |-> {}, cands |-> {}, settles |-> {}, flips |-> {}, done |-> {}]

TypeOK ==
  /\ LocksTypeOK
  /\ split \in [Split -> Status]
  /\ expense \in [Expense -> Status]
  /\ claim \in [Claim -> ClaimRow]
  /\ expired \subseteq Claim
  /\ tx \in [Tx -> TxState]

-----------------------------------------------------------------------------
With(st) == {c \in Claim : claim[c].status = st}
Covers(C) == UNION {claim[c].covers : c \in C}
On(S) == {ExpenseOf[s] : s \in S}
SplitsOn(E) == {s \in Split : ExpenseOf[s] \in E}
IsPayers(s) == Owes[s] = Payer[ExpenseOf[s]]

\* The status of a split a statement of t reads
Sees(t, s) == IF s \in tx[t].settles THEN "SETTLED" ELSE split[s]

\* Slip: the expense rows are locked before the split rows
ExpensesFirst(k, l) ==
  \/ k.table = "expense" /\ l.table = "split"
  \/ k.table = l.table /\ k.id < l.id
\* Statements lock splits before expenses and each in id order; the payers'
\* shares are updated expense by expense; key shares come in any order.
Before(k, l) ==
  \/ k.mode = "FOR UPDATE" /\ l.mode = "FOR UPDATE"
     /\ \/ k.table = "split" /\ l.table = "expense"
        \/ k.table = l.table /\ k.id < l.id
  \/ k.mode = "FOR NO KEY UPDATE" /\ l.mode = "FOR NO KEY UPDATE"
     /\ k.table = "split" /\ l.table = "split"
     /\ ExpenseOf[k.id] < ExpenseOf[l.id]
NextLocks(t) == {l \in todo[t] : \A k \in todo[t] : ~Before(k, l)}

At(t, phase) == tx[t].at = phase /\ todo[t] = {}
Unclaimed == With("NONE")
Filing == {t \in Tx : tx[t].op \in {"settle", "cover"}}
RoomToFile == Cardinality(Unclaimed) > Cardinality(Filing)

\* The record of a transaction that has finished with its current claim
Advance(r) ==
  [r EXCEPT !.cur = {},
            !.at = IF r.queue # {} THEN "next"
                   ELSE IF r.op = "cover" THEN "query" ELSE "commit"]

Step(t, r, L) ==
  /\ tx' = [tx EXCEPT ![t] = r]
  /\ Want(t, L)
  /\ UNCHANGED <<split, expense, claim, expired>>

\* The transaction ends without a trace: an error answer, or a deadlock victim
Rollback(t) ==
  /\ tx' = [tx EXCEPT ![t] = Idle]
  /\ ReleaseAll(t)
  /\ UNCHANGED <<split, expense, claim, expired>>

Init ==
  /\ held = [t \in Tx |-> {}]
  /\ todo = [t \in Tx |-> {}]
  /\ split = [s \in Split |-> "CONFIRMED"]
  /\ expense = [e \in Expense |-> "CONFIRMED"]
  /\ claim = [c \in Claim |-> NoClaim]
  /\ expired = {}
  /\ tx = [t \in Tx |-> Idle]

TakeLock(t) ==
  /\ \E l \in NextLocks(t) : Acquire(t, l)
  /\ UNCHANGED <<split, expense, claim, expired, tx>>

-----------------------------------------------------------------------------
(* Deciding claims: confirm_settlement_claim, reject_settlement_claim and   *)
(* auto_confirm_expired_settlement_claims share this path.                  *)

\* The owner answers one claim (anybody else is answered 403)
Answer(t, op, c) ==
  /\ op \in Requests /\ tx[t] = Idle
  /\ claim[c].status = "PENDING"
  /\ Step(t, Advance([Idle EXCEPT !.op = op, !.queue = {c}]), {})

\* The claims a screen of the whole group, or of one member, sweeps
Owners(c) == {Payer[e] : e \in On(claim[c].covers)}
Involves(c, u) ==
  \/ \E i \in DOMAIN claim[c].pair : claim[c].pair[i] = u
  \/ ~claim[c].aggregate /\ u \in Owners(c)
\* Slip: the comparison with the cutoff is turned round
DueTooEarly(scope) == (With("PENDING") \cap scope) \ expired
\* The sweep's unlocked query
Due(scope) == With("PENDING") \cap expired \cap scope

Sweep(t, scope) ==
  /\ "sweep" \in Requests /\ tx[t] = Idle
  /\ Due(scope) # {}
  /\ Step(t, Advance([Idle EXCEPT !.op = "sweep", !.queue = Due(scope)]), {})

\* Per-expense candidates first, in any order, then aggregate ones
NextClaim(t) ==
  /\ At(t, "next")
  /\ \E c \in tx[t].queue :
       /\ claim[c].aggregate => \A d \in tx[t].queue : claim[d].aggregate
       /\ Step(t, [tx[t] EXCEPT !.at = "claim", !.cur = {c}, !.queue = @ \ {c}],
               ForUpdate("claim", {c}))

\* Slip: the status read before the lock is trusted
LiveUnchecked(t) ==
  {c \in tx[t].cur : tx[t].op \in {"sweep", "cover"} => c \in expired}
\* Under the claim lock its status is read again; a sweep looks at its age too
Live(t) ==
  {c \in tx[t].cur : /\ claim[c].status = "PENDING"
                     /\ tx[t].op \in {"sweep", "cover"} => c \in expired}

SkipClaim(t) ==
  /\ At(t, "claim")
  /\ Live(t) # tx[t].cur
  /\ Step(t, Advance(tx[t]), {})

\* A rejection in time: audited on each covered expense, the claim is deleted
RejectClaim(t) ==
  /\ At(t, "claim")
  /\ tx[t].op = "reject" /\ Live(t) = tx[t].cur /\ tx[t].cur \cap expired = {}
  /\ Step(t, Advance([tx[t] EXCEPT !.done = tx[t].cur]),
          KeyShare("expense", On(Covers(tx[t].cur))))

\* A rejection after the window confirms instead.  For a per-expense claim it
\* does so WITHOUT the split and expense locks: its writes lock what they must.
Late(t) == /\ tx[t].op = "reject"
           /\ tx[t].cur \cap expired # {}
           /\ \A c \in tx[t].cur : ~claim[c].aggregate

\* Slip: the expense is not locked before its splits are counted
SplitLocksOnly(S) == ForUpdate("split", S)
ConfirmLocks(S) == ForUpdate("split", S) \cup ForUpdate("expense", On(S))

LockRows(t) ==
  /\ At(t, "claim")
  /\ Live(t) = tx[t].cur
  /\ tx[t].op = "reject" => tx[t].cur \cap expired # {}
  /\ LET S == Covers(tx[t].cur)
     IN IF Late(t)
        THEN Step(t, [tx[t] EXCEPT !.op = "late", !.at = "rows"],
                  PlainUpdate("split", S) \cup KeyShare("expense", On(S)))
        ELSE Step(t, [tx[t] EXCEPT !.at = "rows",
                                   !.op = IF @ = "reject" THEN "confirm" ELSE @],
                  ConfirmLocks(S))

\* Slip: everybody's share settles, not just the payer's
EveryShare(t) ==
  SplitsOn(On(Covers(tx[t].cur))) \ Covers(tx[t].cur)
\* The payers' shares of the expenses concerned, unless settled already
OwnShares(t) ==
  {s \in SplitsOn(On(Covers(tx[t].cur))) \ Covers(tx[t].cur) :
     IsPayers(s) /\ Sees(t, s) # "SETTLED"}
\* Slip: the claimed splits themselves are forgotten
OwnSharesOnly(t) == OwnShares(t)
\* The covered splits settle, and with them the payers' own shares
NewlySettled(t) == Covers(tx[t].cur) \cup OwnShares(t)

SettleSplits(t) ==
  /\ At(t, "rows")
  /\ Step(t, [tx[t] EXCEPT !.at = "payer", !.settles = @ \cup NewlySettled(t)],
          PlainUpdate("split", OwnShares(t)))

\* Slip: one settled split is taken for all
SomeSplitSettled(t) ==
  {e \in On(Covers(tx[t].cur)) : \E s \in SplitsOn({e}) : Sees(t, s) = "SETTLED"}
\* Slip: the check runs before the transaction's own writes are flushed
CommittedComplete(t) ==
  {e \in On(Covers(tx[t].cur)) : \A s \in SplitsOn({e}) : split[s] = "SETTLED"}
\* check_all_splits_settled, and the expenses that are complete
Completed(t) ==
  {e \in On(Covers(tx[t].cur)) : \A s \in SplitsOn({e}) : Sees(t, s) = "SETTLED"}

FlipExpenses(t) ==
  /\ At(t, "payer")
  /\ Step(t, Advance([tx[t] EXCEPT !.flips = @ \cup Completed(t),
                                   !.done = @ \cup tx[t].cur]),
          IF tx[t].op = "late" THEN PlainUpdate("expense", Completed(t)) ELSE {})

-----------------------------------------------------------------------------
(* Filing claims: settle_expense_split and create_aggregate_settlement.     *)

\* The endpoint checks the expense, unlocked, before the split is locked
RequestSettle(t, s) ==
  /\ "settle" \in Requests /\ tx[t] = Idle /\ RoomToFile
  /\ expense[ExpenseOf[s]] = "CONFIRMED"
  /\ Step(t, [Idle EXCEPT !.op = "settle", !.at = "settle", !.cands = {s}],
          ForUpdate("split", {s}))

\* A claim row of its own in any state, or a pending settle-up, covers s
Taken(s) ==
  \E c \in With("PENDING") \cup With("CONFIRMED") :
    /\ s \in claim[c].covers
    /\ claim[c].aggregate => claim[c].status = "PENDING"

FileClaim(t) ==
  /\ At(t, "settle")
  /\ IF \E s \in tx[t].cands : Taken(s)
     THEN Rollback(t)
     ELSE Step(t, Advance(tx[t]), KeyShare("expense", On(tx[t].cands)))

\* POST /settlement-claims/aggregate by u about v sweeps the group first
RequestSettleUp(t, u, v) ==
  /\ "cover" \in Requests /\ tx[t] = Idle /\ RoomToFile
  /\ u # v
  /\ Step(t, Advance([Idle EXCEPT !.op = "cover", !.pair = <<u, v>>,
                                  !.queue = Due(Claim)]), {})

Between(u, v) == {s \in Split : {Owes[s], Payer[ExpenseOf[s]]} = {u, v}}

\* _get_pair_coverable_splits, one statement: its snapshot fixes the
\* candidates, then it locks them in id order
Coverable(t) ==
  {s \in Between(tx[t].pair[1], tx[t].pair[2]) :
     /\ Sees(t, s) = "CONFIRMED"
     /\ expense[ExpenseOf[s]] = "CONFIRMED"
     /\ s \notin Covers(With("PENDING") \ tx[t].done)}

FindCoverable(t) ==
  /\ At(t, "query")
  /\ IF Coverable(t) = {}
     THEN Rollback(t)
     ELSE Step(t, [tx[t] EXCEPT !.at = "cover", !.cands = Coverable(t)],
               ForUpdate("split", Coverable(t)))

Total(S) == MapThenSumSet(LAMBDA s : Amount[s], S)
OwedBy(u, S) == Total({s \in S : Owes[s] = u})
\* Slip: settlement_claim_split.split_id is not unique
NoUniqueLink == {}
Linked == Covers({c \in With("PENDING") \cup With("CONFIRMED") : claim[c].aggregate})

\* A locked row is looked at again (its own columns only), the net must not
\* flow the other way, and a link to a split is unique.
LinkSplits(t) ==
  /\ At(t, "cover")
  /\ LET S == {s \in tx[t].cands : split[s] = "CONFIRMED"}
         u == tx[t].pair[1]
         v == tx[t].pair[2]
     IN IF S = {} \/ OwedBy(u, S) < OwedBy(v, S) \/ S \cap Linked # {}
        THEN Rollback(t)
        ELSE Step(t, [tx[t] EXCEPT !.at = "commit", !.cands = S],
                  KeyShare("expense", On(S)))

-----------------------------------------------------------------------------
\* Slip: the claim gets the status of a split
DecidedAsSettled(t) == IF tx[t].op = "reject" THEN "REJECTED" ELSE "SETTLED"
Decided(t) == IF tx[t].op = "reject" THEN "REJECTED" ELSE "CONFIRMED"
NewClaim(t) ==
  [status |-> "PENDING", aggregate |-> tx[t].op = "cover",
   pair |-> IF tx[t].op = "cover" THEN tx[t].pair
            ELSE <<Owes[CHOOSE s \in tx[t].cands : TRUE]>>,
   covers |-> tx[t].cands]

\* session.commit(): everything the transaction wrote appears at once
Commit(t) ==
  /\ At(t, "commit")
  /\ split' = [s \in Split |-> IF s \in tx[t].settles THEN "SETTLED" ELSE split[s]]
  /\ expense' = [e \in Expense |-> IF e \in tx[t].flips THEN "SETTLED"
                                                        ELSE expense[e]]
  /\ LET new == {c \in Unclaimed : /\ tx[t].cands # {}
                                  /\ \A d \in Unclaimed : c <= d}
     IN claim' = [c \in Claim |->
                    IF c \in new THEN NewClaim(t)
                    ELSE IF c \in tx[t].done
                    THEN [claim[c] EXCEPT !.status = Decided(t)]
                    ELSE claim[c]]
  /\ tx' = [tx EXCEPT ![t] = Idle]
  /\ ReleaseAll(t)
  /\ UNCHANGED expired

-----------------------------------------------------------------------------
(* The database breaks a cycle of waiting transactions by aborting one.     *)

WaitsFor(t, S) ==
  /\ todo[t] # {}
  /\ \A l \in NextLocks(t) : Blockers(t, l) \cap S # {}
Deadlock(S) == S # {} /\ \A t \in S : WaitsFor(t, S)

VictimAbort(t) ==
  /\ \E S \in SUBSET Tx : t \in S /\ Deadlock(S)
  /\ Rollback(t)

WindowCloses(c) ==
  /\ c \in MayExpire \ expired
  /\ claim[c].status = "PENDING"
  /\ expired' = expired \cup {c}
  /\ UNCHANGED <<held, todo, split, expense, claim, tx>>

Continue(t) ==
  \/ TakeLock(t)
  \/ NextClaim(t) \/ SkipClaim(t) \/ RejectClaim(t) \/ LockRows(t)
  \/ SettleSplits(t) \/ FlipExpenses(t)
  \/ FileClaim(t) \/ FindCoverable(t) \/ LinkSplits(t)
  \/ Commit(t)
  \/ VictimAbort(t)

SweepScopes == {Claim} \cup {{c \in Claim : Involves(c, u)} : u \in User}

Next ==
  \/ \E t \in Tx :
       \/ Continue(t)
       \/ \E c \in Claim, op \in {"confirm", "reject"} : Answer(t, op, c)
       \/ \E scope \in SweepScopes : Sweep(t, scope)
       \/ \E s \in Split : RequestSettle(t, s)
       \/ \E u, v \in User : RequestSettleUp(t, u, v)
  \/ \E c \in Claim : WindowCloses(c)

Spec == Init /\ [][Next]_vars

\* A request that was started goes on, time passes, and somebody keeps opening
\* a screen that sweeps: no scheduler in the code does it for them.  Fairness
\* is strong there because Tx is small: a server has connections to spare.
Fairness ==
  /\ \A t \in Tx : WF_vars(Continue(t))
  /\ \A c \in Claim : WF_vars(WindowCloses(c))
  /\ SF_vars(\E t \in Tx : Sweep(t, Claim))

LiveSpec == Spec /\ Fairness
-----------------------------------------------------------------------------
(* Properties                                                               *)

\* Money acknowledged is debt cleared: when a claim is on record as confirmed,
\* every split it covers is settled (_confirm_per_expense_claim,
\* _confirm_aggregate_claim).
ConfirmedClaimIsHonoured ==
  \A c \in With("CONFIRMED") : \A s \in claim[c].covers : split[s] = "SETTLED"

\* Nobody's debt disappears: a split is settled only under a confirmed claim
\* that covers it, or, for the payer's own share, covers another split of
\* that expense (_settle_expense_after_covered_splits).
SettledWasClaimed ==
  \A s \in Split : split[s] = "SETTLED" =>
    \E c \in With("CONFIRMED") :
      \/ s \in claim[c].covers
      \/ IsPayers(s) /\ ExpenseOf[s] \in On(claim[c].covers)

\* A settled expense has no open share (check_all_splits_settled).
SettledExpenseIsComplete ==
  \A e \in Expense : expense[e] = "SETTLED" =>
    \A s \in SplitsOn({e}) : split[s] = "SETTLED"

\* confirm_settlement_claim: "the expense lock serializes the 'all splits
\* settled?' check so exactly one of two concurrent confirmations flips the
\* expense to SETTLED": an expense is never left behind with every share paid.
CompleteExpenseIsSettled ==
  \A e \in Expense :
    SplitsOn({e}) # {} /\ (\A s \in SplitsOn({e}) : split[s] = "SETTLED")
      => expense[e] = "SETTLED"

\* A confirm, a reject and a sweep racing for one claim: it is decided once,
\* and a decision stands (the PENDING check under the claim lock).
DecisionStep ==
  \A c \in Claim :
    claim[c].status \in {"CONFIRMED", "REJECTED"} => claim'[c] = claim[c]
DecidedOnce == [][DecisionStep]_vars

\* SettlementClaimSplit: "two racing settle-ups over the same pair cannot both
\* cover a split".
OneSettleUpPerSplit ==
  \A c, d \in {x \in With("PENDING") : claim[x].aggregate} :
    c # d => claim[c].covers \cap claim[d].covers = {}

\* _get_pair_coverable_splits: a settle-up takes only splits "that aren't
\* already claimed - per-expense or by another pending aggregate claim", and
\* settle_expense_split answers CONFLICT in the opposite order.
ClaimedOnce ==
  \A c, d \in With("PENDING") :
    c # d => claim[c].covers \cap claim[d].covers = {}

\* confirm_settlement_claim: locks are taken "always in that order (shared
\* with reject, so no deadlock)".
NoDeadlock == \A S \in SUBSET Tx : ~Deadlock(S)

\* A claim does not wait forever for its owner: unless transactions deadlock
\* again and again, a claim whose window can close is decided
\* (auto_confirm_expired_settlement_claims).
ClaimIsDecided ==
  \A c \in MayExpire :
    <>[]NoDeadlock =>
      (claim[c].status = "PENDING" ~> claim[c].status \in {"CONFIRMED", "REJECTED"})

\* Locks, phases and late rereads add up to atomic claims: every commit is one
\* step of the contract, and closes exactly the expenses it completes.
Contract == INSTANCE ClaimContract WITH
  PayersShare <- {s \in Split : IsPayers(s)},
  status <- [c \in Claim |-> claim[c].status],
  covers <- [c \in Claim |-> claim[c].covers],
  settled <- {s \in Split : split[s] = "SETTLED"},
  closed <- {e \in Expense : expense[e] = "SETTLED"}
KeepsContract == Contract!Spec
=============================================================================
