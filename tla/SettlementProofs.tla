--------------------------- MODULE SettlementProofs ---------------------------
(***************************************************************************)
(* What module Settlement guarantees for every ledger, every set of claims  *)
(* and any number of concurrent transactions, proved with TLAPS.            *)
(***************************************************************************)
EXTENDS Settlement, FiniteSetTheorems, TLAPS

-----------------------------------------------------------------------------
(* The types of locks and of transaction records.                           *)

\* The lock requests the statements make are locks.
LEMMA LockSets ==
  ASSUME NEW table \in Table, NEW ids \in SUBSET Nat
  PROVE  /\ ForUpdate(table, ids) \subseteq Lock
         /\ PlainUpdate(table, ids) \subseteq Lock
         /\ KeyShare(table, ids) \subseteq Lock
<1>1. ASSUME NEW i \in ids, NEW m \in Mode
      PROVE  [table |-> table, id |-> i, mode |-> m] \in Lock
  BY DEF Lock
<1>2. \A m \in Mode : {[table |-> table, id |-> i, mode |-> m] : i \in ids} \subseteq Lock
  BY <1>1
<1> QED
  BY <1>2 DEF ForUpdate, PlainUpdate, KeyShare, Mode

\* Rows are rows of their tables.
LEMMA RowTypes ==
  ASSUME TypeOK, NEW C \in SUBSET Claim
  PROVE  /\ Covers(C) \in SUBSET Split
         /\ \A S \in SUBSET Split : On(S) \in SUBSET Expense
         /\ \A E \in SUBSET Expense : SplitsOn(E) \in SUBSET Split
         /\ Covers(C) \in SUBSET Nat /\ On(Covers(C)) \in SUBSET Nat
<1>1. \A c \in C : claim[c].covers \in SUBSET Split
  BY DEF TypeOK, ClaimRow
<1>2. Covers(C) \in SUBSET Split
  BY <1>1 DEF Covers
<1>3. \A S \in SUBSET Split : On(S) \in SUBSET Expense
  BY SettlementAssumption DEF On
<1> QED
  BY <1>2, <1>3, SettlementAssumption DEF SplitsOn

\* Finishing a claim leaves a well-formed record.
LEMMA AdvanceType ==
  ASSUME NEW r \in TxState
  PROVE  Advance(r) \in TxState
  BY DEF Advance, TxState, Phase

\* A connection that serves no request is well typed.
LEMMA IdleType == Idle \in TxState
<1>1. <<>> \in Seq(User)
  OBVIOUS
<1> QED
  BY <1>1 DEF Idle, TxState, Op, Phase

\* A step that touches only its transaction keeps the state well typed.
LEMMA StepType ==
  ASSUME TypeOK, NEW t \in Tx, NEW r \in TxState, NEW L \in SUBSET Lock,
         Step(t, r, L)
  PROVE  TypeOK'
  BY DEF TypeOK, Step, Want, LocksTypeOK

\* So does an error answer or an abort.
LEMMA RollbackType ==
  ASSUME TypeOK, NEW t \in Tx, Rollback(t)
  PROVE  TypeOK'
  BY IdleType DEF TypeOK, Rollback, ReleaseAll, LocksTypeOK

\* The initial state is well typed.
LEMMA InitType == Init => TypeOK
<1>1. NoClaim \in ClaimRow
  <2>1. <<>> \in Seq(User)
    OBVIOUS
  <2> QED
    BY <2>1 DEF NoClaim, ClaimRow, ClaimStatus
<1> QED
  BY <1>1, IdleType DEF Init, TypeOK, LocksTypeOK, Status

\* So does taking a lock.
LEMMA LockType ==
  ASSUME TypeOK, NEW t \in Tx, TakeLock(t)
  PROVE  TypeOK'
<1>1. PICK l \in NextLocks(t) : Acquire(t, l)
  BY DEF TakeLock
<1>2. l \in Lock
  BY <1>1 DEF NextLocks, TypeOK, LocksTypeOK
<1> QED
  BY <1>1, <1>2 DEF TypeOK, TakeLock, Acquire, LocksTypeOK

\* Requests that start a transaction.
LEMMA RequestTypes ==
  ASSUME TypeOK, NEW t \in Tx,
         \/ \E c \in Claim, op \in {"confirm", "reject"} : Answer(t, op, c)
         \/ \E scope \in SweepScopes : Sweep(t, scope)
         \/ \E s \in Split : RequestSettle(t, s)
         \/ \E u, v \in User : RequestSettleUp(t, u, v)
  PROVE  TypeOK'
<1>1. ASSUME NEW c \in Claim, NEW op \in {"confirm", "reject"}, Answer(t, op, c)
      PROVE  TypeOK'
  <2> DEFINE r == [Idle EXCEPT !.op = op, !.queue = {c}]
  <2>1. r \in TxState
    BY IdleType DEF TxState, Op
  <2>2. Step(t, Advance(r), {})
    BY <1>1 DEF Answer
  <2> HIDE DEF r
  <2> QED
    BY <2>1, <2>2, AdvanceType, StepType
<1>2. ASSUME NEW scope \in SweepScopes, Sweep(t, scope)
      PROVE  TypeOK'
  <2> DEFINE r == [Idle EXCEPT !.op = "sweep", !.queue = Due(scope)]
  <2>0. Due(scope) \subseteq Claim
    BY DEF Due, With
  <2>1. r \in TxState
    BY <2>0, IdleType DEF TxState, Op
  <2>2. Step(t, Advance(r), {})
    BY <1>2 DEF Sweep
  <2> HIDE DEF r
  <2> QED
    BY <2>1, <2>2, AdvanceType, StepType
<1>3. ASSUME NEW s \in Split, RequestSettle(t, s)
      PROVE  TypeOK'
  <2> DEFINE r == [Idle EXCEPT !.op = "settle", !.at = "settle", !.cands = {s}]
  <2>1. r \in TxState
    BY IdleType DEF TxState, Op, Phase
  <2>2. Step(t, r, ForUpdate("split", {s}))
    BY <1>3 DEF RequestSettle
  <2>3. ForUpdate("split", {s}) \subseteq Lock
    BY LockSets, SettlementAssumption DEF Table
  <2> HIDE DEF r
  <2> QED
    BY <2>1, <2>2, <2>3, StepType
<1>4. ASSUME NEW u \in User, NEW v \in User, RequestSettleUp(t, u, v)
      PROVE  TypeOK'
  <2> DEFINE r == [Idle EXCEPT !.op = "cover", !.pair = <<u, v>>,
                               !.queue = Due(Claim)]
  <2>0. Due(Claim) \subseteq Claim /\ <<u, v>> \in Seq(User)
    BY DEF Due, With
  <2>1. r \in TxState
    BY <2>0, IdleType DEF TxState, Op
  <2>2. Step(t, Advance(r), {})
    BY <1>4 DEF RequestSettleUp
  <2> HIDE DEF r
  <2> QED
    BY <2>1, <2>2, AdvanceType, StepType
<1> QED
  BY <1>1, <1>2, <1>3, <1>4

\* Processing the claims of the queue.
LEMMA DecideTypes ==
  ASSUME TypeOK, NEW t \in Tx,
         \/ NextClaim(t) \/ SkipClaim(t) \/ RejectClaim(t) \/ LockRows(t)
         \/ SettleSplits(t) \/ FlipExpenses(t)
  PROVE  TypeOK'
<1> DEFINE r == tx[t]
           S == Covers(r.cur)
<1>r. r \in TxState
  BY DEF TypeOK
<1>c. r.cur \in SUBSET Claim /\ r.queue \in SUBSET Claim
  BY <1>r DEF TxState
<1>s. /\ S \in SUBSET Split /\ On(S) \in SUBSET Expense
      /\ S \in SUBSET Nat /\ On(S) \in SUBSET Nat
  BY <1>c, RowTypes
<1>l. /\ ForUpdate("split", S) \subseteq Lock /\ ForUpdate("expense", On(S)) \subseteq Lock
      /\ PlainUpdate("split", S) \subseteq Lock /\ KeyShare("expense", On(S)) \subseteq Lock
  BY <1>s, LockSets DEF Table
<1>1. CASE NextClaim(t)
  <2>1. PICK c \in r.queue :
          Step(t, [r EXCEPT !.at = "claim", !.cur = {c}, !.queue = @ \ {c}],
               ForUpdate("claim", {c}))
    BY <1>1 DEF NextClaim
  <2>2. [r EXCEPT !.at = "claim", !.cur = {c}, !.queue = @ \ {c}] \in TxState
    BY <1>r, <1>c DEF TxState, Phase
  <2>3. ForUpdate("claim", {c}) \subseteq Lock
    BY <1>c, LockSets, SettlementAssumption DEF Table
  <2> QED
    BY <2>1, <2>2, <2>3, StepType
<1>2. CASE SkipClaim(t)
  BY <1>2, <1>r, AdvanceType, StepType DEF SkipClaim
<1>3. CASE RejectClaim(t)
  <2>1. [r EXCEPT !.done = r.cur] \in TxState
    BY <1>r, <1>c DEF TxState
  <2> QED
    BY <1>3, <2>1, <1>l, AdvanceType, StepType DEF RejectClaim
<1>4. CASE LockRows(t)
  <2>1. [r EXCEPT !.op = "late", !.at = "rows"] \in TxState
    BY <1>r DEF TxState, Op, Phase
  <2>2. [r EXCEPT !.at = "rows", !.op = IF @ = "reject" THEN "confirm" ELSE @]
          \in TxState
    BY <1>r DEF TxState, Op, Phase
  <2>3. PlainUpdate("split", S) \cup KeyShare("expense", On(S)) \in SUBSET Lock
    BY <1>l
  <2>4. ForUpdate("split", S) \cup ForUpdate("expense", On(S)) \in SUBSET Lock
    BY <1>l
  <2> QED
    BY <1>4, <2>1, <2>2, <2>3, <2>4, StepType DEF LockRows, ConfirmLocks
<1>5. CASE SettleSplits(t)
  <2> DEFINE own == OwnShares(t)
  <2>1. own \in SUBSET Split /\ own \in SUBSET Nat
    BY SettlementAssumption DEF OwnShares, SplitsOn
  <2>2. [r EXCEPT !.at = "payer", !.settles = @ \cup NewlySettled(t)] \in TxState
    BY <1>r, <1>s, <2>1 DEF TxState, Phase, NewlySettled
  <2>3. PlainUpdate("split", own) \subseteq Lock
    BY <2>1, LockSets DEF Table
  <2>4. Step(t, [r EXCEPT !.at = "payer", !.settles = @ \cup NewlySettled(t)],
             PlainUpdate("split", own))
    BY <1>5 DEF SettleSplits
  <2> QED
    BY <2>2, <2>3, <2>4, StepType
<1>6. CASE FlipExpenses(t)
  <2> DEFINE full == Completed(t)
             q == [r EXCEPT !.flips = @ \cup full, !.done = @ \cup r.cur]
             L == IF r.op = "late" THEN PlainUpdate("expense", full) ELSE {}
  <2>1. full \in SUBSET Expense /\ full \in SUBSET Nat
    BY <1>s DEF Completed
  <2>2. q \in TxState
    BY <1>r, <1>c, <2>1 DEF TxState
  <2>3. L \in SUBSET Lock
    BY <2>1, LockSets DEF Table
  <2>4. Step(t, Advance(q), L)
    BY <1>6 DEF FlipExpenses
  <2> HIDE DEF q, L
  <2> QED
    BY <2>2, <2>3, <2>4, AdvanceType, StepType
<1> QED
  BY <1>1, <1>2, <1>3, <1>4, <1>5, <1>6

\* Filing a claim.
LEMMA FileTypes ==
  ASSUME TypeOK, NEW t \in Tx, FileClaim(t) \/ FindCoverable(t) \/ LinkSplits(t)
  PROVE  TypeOK'
<1> DEFINE r == tx[t]
<1>r. r \in TxState
  BY DEF TypeOK
<1>c. r.cands \in SUBSET Split
  BY <1>r DEF TxState
<1>l. \A S \in SUBSET Split : /\ ForUpdate("split", S) \subseteq Lock
                              /\ KeyShare("expense", On(S)) \subseteq Lock
  <2>1. \A S \in SUBSET Split : S \in SUBSET Nat /\ On(S) \in SUBSET Nat
    BY SettlementAssumption DEF On
  <2> QED
    BY <2>1, LockSets DEF Table
<1>1. CASE FileClaim(t)
  BY <1>1, <1>r, <1>c, <1>l, AdvanceType, StepType, RollbackType DEF FileClaim
<1>2. CASE FindCoverable(t)
  <2>1. Coverable(t) \in SUBSET Split
    BY DEF Coverable, Between
  <2>2. [r EXCEPT !.at = "cover", !.cands = Coverable(t)] \in TxState
    BY <1>r, <2>1 DEF TxState, Phase
  <2> QED
    BY <1>2, <1>l, <2>1, <2>2, StepType, RollbackType DEF FindCoverable
<1>3. CASE LinkSplits(t)
  <2> DEFINE S == {s \in r.cands : split[s] = "CONFIRMED"}
  <2>1. S \in SUBSET Split
    BY <1>c
  <2>2. [r EXCEPT !.at = "commit", !.cands = S] \in TxState
    BY <1>r, <2>1 DEF TxState, Phase
  <2>3. Rollback(t) \/ Step(t, [r EXCEPT !.at = "commit", !.cands = S],
                            KeyShare("expense", On(S)))
    BY <1>3 DEF LinkSplits
  <2> QED
    BY <1>l, <2>1, <2>2, <2>3, StepType, RollbackType
<1> QED
  BY <1>1, <1>2, <1>3

\* So does a commit, which writes the rows of three tables.
LEMMA CommitType ==
  ASSUME TypeOK, NEW t \in Tx, Commit(t)
  PROVE  TypeOK'
<1>r. tx[t] \in TxState
  BY DEF TypeOK
<1>1. tx[t].cands # {} => NewClaim(t) \in ClaimRow
  <2> SUFFICES ASSUME tx[t].cands # {} PROVE NewClaim(t) \in ClaimRow
    OBVIOUS
  <2> DEFINE w == CHOOSE s \in tx[t].cands : TRUE
  <2>1. w \in Split
    BY <1>r DEF TxState
  <2>2. <<Owes[w]>> \in Seq(User)
    <3> HIDE DEF w
    <3>1. Owes[w] \in User
      BY <2>1, SettlementAssumption
    <3>2. \A u \in User : <<u>> \in Seq(User)
      OBVIOUS
    <3> QED
      BY <3>1, <3>2
  <2>3. tx[t].pair \in Seq(User) /\ tx[t].cands \in SUBSET Split
    BY <1>r DEF TxState
  <2>4. (tx[t].op = "cover") \in BOOLEAN
    OBVIOUS
  <2> QED
    BY <2>2, <2>3, <2>4 DEF NewClaim, ClaimRow, ClaimStatus
<1>2. \A c \in Claim : [claim[c] EXCEPT !.status = Decided(t)] \in ClaimRow
  BY DEF TypeOK, ClaimRow, ClaimStatus, Decided
<1>3. claim' \in [Claim -> ClaimRow]
  BY <1>1, <1>2 DEF Commit, TypeOK
<1>4. split' \in [Split -> Status] /\ expense' \in [Expense -> Status]
  BY DEF Commit, TypeOK, Status
<1> QED
  BY <1>3, <1>4, IdleType DEF Commit, TypeOK, ReleaseAll, LocksTypeOK

\* Every step keeps the state well typed.
LEMMA NextType == TypeOK /\ [Next]_vars => TypeOK'
<1> SUFFICES ASSUME TypeOK, [Next]_vars PROVE TypeOK'
  OBVIOUS
<1>1. ASSUME NEW t \in Tx, Continue(t) PROVE TypeOK'
  BY <1>1, LockType, DecideTypes, FileTypes, CommitType, RollbackType
     DEF Continue, VictimAbort
<1>2. ASSUME NEW c \in Claim, WindowCloses(c) PROVE TypeOK'
  BY <1>2 DEF WindowCloses, TypeOK, LocksTypeOK
<1>3. CASE UNCHANGED vars
  BY <1>3 DEF vars, TypeOK, LocksTypeOK
<1> QED
  BY <1>1, <1>2, <1>3, RequestTypes DEF Next

\* Type correctness of the settlement ledger and of every transaction.
THEOREM TypeCorrect == Spec => []TypeOK
<1>1. TypeOK /\ [Next]_vars => TypeOK'
  BY NextType
<1> QED
  BY <1>1, InitType, PTL DEF Spec

-----------------------------------------------------------------------------
(* Locks exclude each other, whoever asks for them.                         *)

\* Who came first does not matter to a conflict.
LEMMA ConflictSymmetric ==
  ASSUME NEW k, NEW l, Conflict(k, l)
  PROVE  Conflict(l, k)
<1>1. {k.mode, l.mode} = {l.mode, k.mode}
  OBVIOUS
<1> QED
  BY <1>1 DEF Conflict

\* A lock that nobody blocks can be taken safely.
LEMMA AcquireExcludes ==
  ASSUME TypeOK, LocksExclude, NEW t \in Tx, NEW l, Acquire(t, l)
  PROVE  LocksExclude'
<1> SUFFICES ASSUME NEW u \in Tx, NEW v \in Tx, u # v,
                    NEW k \in held'[u], NEW m \in held'[v], Conflict(k, m)
             PROVE  FALSE
  BY DEF LocksExclude, Conflict
<1>0. /\ held' = [held EXCEPT ![t] = @ \cup {l}]
      /\ \A w \in Tx \ {t} : \A j \in held[w] : ~Conflict(j, l)
      /\ held \in [Tx -> SUBSET Lock]
  BY DEF Acquire, Blockers, TypeOK, LocksTypeOK
<1>1. CASE u = t
  <2>1. m \in held[v]
    BY <1>0, <1>1
  <2>2. k = l \/ k \in held[t]
    BY <1>0, <1>1
  <2> QED
    BY <1>0, <1>1, <2>1, <2>2, ConflictSymmetric DEF LocksExclude
<1>2. CASE v = t
  <2>1. k \in held[u]
    BY <1>0, <1>2
  <2>2. m = l \/ m \in held[t]
    BY <1>0, <1>2
  <2> QED
    BY <1>0, <1>2, <2>1, <2>2 DEF LocksExclude
<1>3. CASE u # t /\ v # t
  BY <1>0, <1>3 DEF LocksExclude
<1> QED
  BY <1>1, <1>2, <1>3

\* Taking, waiting for and releasing locks keeps them exclusive.
LEMMA NextExcludes == TypeOK /\ LocksExclude /\ [Next]_vars => LocksExclude'
<1> SUFFICES ASSUME TypeOK, LocksExclude, [Next]_vars PROVE LocksExclude'
  OBVIOUS
<1>1. ASSUME NEW t \in Tx, TakeLock(t) PROVE LocksExclude'
  BY <1>1, AcquireExcludes DEF TakeLock
<1>2. ASSUME NEW t \in Tx, ReleaseAll(t) PROVE LocksExclude'
  <2>1. \A u \in Tx : held'[u] \subseteq held[u]
    BY <1>2 DEF ReleaseAll, TypeOK, LocksTypeOK
  <2> QED
    BY <2>1 DEF LocksExclude, Conflict
<1>3. UNCHANGED held => LocksExclude'
  BY DEF LocksExclude, Conflict
<1>4. ASSUME NEW t \in Tx, Continue(t) PROVE LocksExclude'
  BY <1>1, <1>2, <1>3, <1>4
     DEF Continue, VictimAbort, Rollback, Commit, Step, Want, NextClaim,
         SkipClaim, RejectClaim, LockRows, SettleSplits, FlipExpenses,
         FileClaim, FindCoverable, LinkSplits
<1> QED
  BY <1>3, <1>4
     DEF Next, vars, Step, Want, Answer, Sweep, RequestSettle, RequestSettleUp,
         WindowCloses

-----------------------------------------------------------------------------
(* The invariant that carries the safety properties.  Between two commits   *)
(* a transaction works on claims that it holds locked and that are still    *)
(* pending, and every write it has prepared is owed to one of them.         *)

\* The claims a transaction with record r has decided to confirm or reject
Owned(r) == r.done \cup (IF r.at \in {"rows", "payer"} THEN r.cur ELSE {})
ClaimLock(c) == [table |-> "claim", id |-> c, mode |-> "FOR UPDATE"]

OwnsClaims(r, h, q) ==
  /\ \A c \in Owned(r) : claim[c].status = "PENDING" /\ ClaimLock(c) \in h
  /\ r.at = "claim" => \A c \in r.cur : ClaimLock(c) \in h \cup q

\* A rejection processes one claim and writes no split
RejectsOne(r) ==
  r.op = "reject" =>
    /\ r.at \in {"next", "claim", "commit"}
    /\ r.settles = {}
    /\ r.at \in {"next", "claim"} => r.done = {}
    /\ r.at = "next" => \E c \in Claim : r.queue = {c}
    /\ r.at = "claim" => r.queue = {}

SettledBy(r, s) == s \in r.settles \/ split[s] = "SETTLED"
OwedTo(s, c) ==
  s \in claim[c].covers \/ (IsPayers(s) /\ ExpenseOf[s] \in On(claim[c].covers))

WritesWhatIsOwed(r) ==
  /\ r.op # "reject" => \A c \in r.done : claim[c].covers \subseteq r.settles
  /\ r.at = "payer" => \A c \in r.cur : claim[c].covers \subseteq r.settles
  /\ \A s \in r.settles : \E c \in Owned(r) : OwedTo(s, c)
  /\ \A e \in r.flips : \A s \in SplitsOn({e}) : SettledBy(r, s)

Good(r, h, q) == OwnsClaims(r, h, q) /\ RejectsOne(r) /\ WritesWhatIsOwed(r)
TxInv == \A t \in Tx : Good(tx[t], held[t], todo[t])

\* A step of one transaction leaves the others as they were.
LEMMA StepGood ==
  ASSUME TypeOK, TxInv, NEW t \in Tx, NEW r, NEW L,
         Step(t, r, L), Good(r, held[t], L)
  PROVE  TxInv'
<1> SUFFICES ASSUME NEW u \in Tx PROVE Good(tx[u], held[u], todo[u])'
  BY DEF TxInv
<1>1. /\ tx' = [tx EXCEPT ![t] = r] /\ todo' = [todo EXCEPT ![t] = L]
      /\ held' = held /\ claim' = claim /\ split' = split
      /\ tx \in [Tx -> TxState] /\ DOMAIN todo = Tx
  BY DEF Step, Want, TypeOK, LocksTypeOK
<1>2. CASE u = t
  <2>1. tx'[u] = r /\ held'[u] = held[t] /\ todo'[u] = L
    BY <1>1, <1>2
  <2>2. OwnsClaims(tx[u], held[u], todo[u])'
    BY <1>1, <2>1 DEF Good, OwnsClaims, Owned, ClaimLock
  <2>3. RejectsOne(tx[u])'
    BY <1>1, <2>1 DEF Good, RejectsOne
  <2>4. WritesWhatIsOwed(tx[u])'
    BY <1>1, <2>1 DEF Good, WritesWhatIsOwed, Owned, SettledBy, OwedTo, On,
                      IsPayers, SplitsOn
  <2> QED
    BY <2>2, <2>3, <2>4 DEF Good
<1>3. CASE u # t
  <2>1. tx'[u] = tx[u] /\ held'[u] = held[u] /\ todo'[u] = todo[u]
    BY <1>1, <1>3
  <2>2. Good(tx[u], held[u], todo[u])
    BY DEF TxInv
  <2>3. OwnsClaims(tx[u], held[u], todo[u])'
    BY <1>1, <2>1, <2>2 DEF Good, OwnsClaims, Owned, ClaimLock
  <2>4. RejectsOne(tx[u])'
    BY <2>1, <2>2 DEF Good, RejectsOne
  <2>5. WritesWhatIsOwed(tx[u])'
    BY <1>1, <2>1, <2>2 DEF Good, WritesWhatIsOwed, Owned, SettledBy, OwedTo, On,
                            IsPayers, SplitsOn
  <2> QED
    BY <2>3, <2>4, <2>5 DEF Good
<1> QED
  BY <1>2, <1>3

\* A transaction that does nothing owes nothing.
LEMMA IdleGood == Good(Idle, {}, {})
  BY DEF Good, OwnsClaims, RejectsOne, WritesWhatIsOwed, Owned, Idle

\* Starting a request, aborting and taking a lock keep every transaction good.
LEMMA RequestsGood ==
  ASSUME TypeOK, TxInv, NEW t \in Tx,
         \/ \E c \in Claim, op \in {"confirm", "reject"} : Answer(t, op, c)
         \/ \E scope \in SweepScopes : Sweep(t, scope)
         \/ \E s \in Split : RequestSettle(t, s)
         \/ \E u, v \in User : RequestSettleUp(t, u, v)
  PROVE  TxInv'
<1>1. ASSUME NEW c \in Claim, NEW op \in {"confirm", "reject"}, Answer(t, op, c)
      PROVE  TxInv'
  <2> DEFINE r == Advance([Idle EXCEPT !.op = op, !.queue = {c}])
  <2>1. Good(r, held[t], {})
    BY DEF Good, OwnsClaims, RejectsOne, WritesWhatIsOwed, Owned, Idle, Advance
  <2>2. Step(t, r, {})
    BY <1>1 DEF Answer
  <2> HIDE DEF r
  <2> QED
    BY <2>1, <2>2, StepGood
<1>2. ASSUME NEW scope \in SweepScopes, Sweep(t, scope)
      PROVE  TxInv'
  <2> DEFINE r == Advance([Idle EXCEPT !.op = "sweep", !.queue = Due(scope)])
  <2>1. Good(r, held[t], {})
    BY DEF Good, OwnsClaims, RejectsOne, WritesWhatIsOwed, Owned, Idle, Advance
  <2>2. Step(t, r, {})
    BY <1>2 DEF Sweep
  <2> HIDE DEF r
  <2> QED
    BY <2>1, <2>2, StepGood
<1>3. ASSUME NEW s \in Split, RequestSettle(t, s)
      PROVE  TxInv'
  <2> DEFINE r == [Idle EXCEPT !.op = "settle", !.at = "settle", !.cands = {s}]
  <2>1. Good(r, held[t], ForUpdate("split", {s}))
    BY DEF Good, OwnsClaims, RejectsOne, WritesWhatIsOwed, Owned, Idle
  <2>2. Step(t, r, ForUpdate("split", {s}))
    BY <1>3 DEF RequestSettle
  <2> HIDE DEF r
  <2> QED
    BY <2>1, <2>2, StepGood
<1>4. ASSUME NEW u \in User, NEW v \in User, RequestSettleUp(t, u, v)
      PROVE  TxInv'
  <2> DEFINE r == Advance([Idle EXCEPT !.op = "cover", !.pair = <<u, v>>,
                                       !.queue = Due(Claim)])
  <2>1. Good(r, held[t], {})
    BY DEF Good, OwnsClaims, RejectsOne, WritesWhatIsOwed, Owned, Idle, Advance
  <2>2. Step(t, r, {})
    BY <1>4 DEF RequestSettleUp
  <2> HIDE DEF r
  <2> QED
    BY <2>1, <2>2, StepGood
<1> QED
  BY <1>1, <1>2, <1>3, <1>4

\* Neither does one that was rolled back.
LEMMA RollbackGood ==
  ASSUME TypeOK, TxInv, NEW t \in Tx, Rollback(t)
  PROVE  TxInv'
<1> SUFFICES ASSUME NEW u \in Tx PROVE Good(tx[u], held[u], todo[u])'
  BY DEF TxInv
<1>1. /\ tx' = [tx EXCEPT ![t] = Idle] /\ todo' = [todo EXCEPT ![t] = {}]
      /\ held' = [held EXCEPT ![t] = {}] /\ claim' = claim /\ split' = split
      /\ DOMAIN tx = Tx /\ DOMAIN todo = Tx /\ DOMAIN held = Tx
  BY DEF Rollback, ReleaseAll, TypeOK, LocksTypeOK
<1>2. CASE u = t
  <2>1. tx'[u] = Idle /\ held'[u] = {} /\ todo'[u] = {}
    BY <1>1, <1>2
  <2> QED
    BY <2>1 DEF Good, OwnsClaims, RejectsOne, WritesWhatIsOwed, Owned, Idle
<1>3. CASE u # t
  <2>1. tx'[u] = tx[u] /\ held'[u] = held[u] /\ todo'[u] = todo[u]
    BY <1>1, <1>3
  <2>2. Good(tx[u], held[u], todo[u])
    BY DEF TxInv
  <2>3. OwnsClaims(tx[u], held[u], todo[u])'
    BY <1>1, <2>1, <2>2 DEF Good, OwnsClaims, Owned, ClaimLock
  <2>4. RejectsOne(tx[u])'
    BY <2>1, <2>2 DEF Good, RejectsOne
  <2>5. WritesWhatIsOwed(tx[u])'
    BY <1>1, <2>1, <2>2 DEF Good, WritesWhatIsOwed, Owned, SettledBy, OwedTo, On,
                            IsPayers, SplitsOn
  <2> QED
    BY <2>3, <2>4, <2>5 DEF Good
<1> QED
  BY <1>2, <1>3

\* Taking a lock brings a transaction closer to owning its claims.
LEMMA LockGood ==
  ASSUME TypeOK, TxInv, NEW t \in Tx, TakeLock(t)
  PROVE  TxInv'
<1> SUFFICES ASSUME NEW u \in Tx PROVE Good(tx[u], held[u], todo[u])'
  BY DEF TxInv
<1>0. PICK l \in NextLocks(t) : Acquire(t, l)
  BY DEF TakeLock
<1>1. /\ l \in todo[t]
      /\ todo' = [todo EXCEPT ![t] = @ \ {l}]
      /\ held' = [held EXCEPT ![t] = @ \cup {l}]
      /\ tx' = tx /\ claim' = claim /\ split' = split
      /\ DOMAIN todo = Tx /\ DOMAIN held = Tx
  BY <1>0 DEF TakeLock, Acquire, TypeOK, LocksTypeOK
<1>2. /\ held[u] \subseteq held'[u]
      /\ held[u] \cup todo[u] \subseteq held'[u] \cup todo'[u]
  BY <1>1
<1>3. Good(tx[u], held[u], todo[u])
  BY DEF TxInv
<1>4. OwnsClaims(tx[u], held[u], todo[u])'
  BY <1>1, <1>2, <1>3 DEF Good, OwnsClaims, Owned, ClaimLock
<1>5. RejectsOne(tx[u])' /\ WritesWhatIsOwed(tx[u])'
  BY <1>1, <1>3 DEF Good, RejectsOne, WritesWhatIsOwed, Owned, SettledBy, OwedTo,
                    On, IsPayers, SplitsOn
<1> QED
  BY <1>4, <1>5 DEF Good

\* Picking a claim and what follows from its status under the lock.
LEMMA ClaimStepsGood ==
  ASSUME TypeOK, TxInv, NEW t \in Tx,
         NextClaim(t) \/ SkipClaim(t) \/ RejectClaim(t) \/ LockRows(t)
  PROVE  TxInv'
<1> DEFINE r == tx[t]
           h == held[t]
<1>r. r \in TxState /\ r.cur \subseteq Claim
  BY DEF TypeOK, TxState
<1>g. Good(r, h, todo[t])
  BY DEF TxInv
<1>1. CASE NextClaim(t)
  <2>1. PICK c \in r.queue :
          Step(t, [r EXCEPT !.at = "claim", !.cur = {c}, !.queue = @ \ {c}],
               ForUpdate("claim", {c}))
    BY <1>1 DEF NextClaim
  <2> DEFINE q == [r EXCEPT !.at = "claim", !.cur = {c}, !.queue = @ \ {c}]
  <2>2. /\ q.done = r.done /\ q.settles = r.settles /\ q.flips = r.flips
        /\ q.op = r.op /\ q.at = "claim" /\ q.cur = {c} /\ q.queue = r.queue \ {c}
        /\ r.at = "next"
    BY <1>1, <1>r DEF NextClaim, At, TxState
  <2>3. Good(q, h, ForUpdate("claim", {c}))
    <3> HIDE DEF q
    <3> QED
      BY <1>g, <2>2 DEF Good, OwnsClaims, RejectsOne, WritesWhatIsOwed, Owned,
                       SettledBy, OwedTo, ClaimLock, ForUpdate
  <2> QED
    BY <2>1, <2>3, StepGood
<1>a. ASSUME r.at = "claim", todo[t] = {}
      PROVE  /\ \A c \in r.cur : ClaimLock(c) \in h
             /\ \A c \in Owned(r) : claim[c].status = "PENDING" /\ ClaimLock(c) \in h
             /\ Owned(r) = r.done
  BY <1>a, <1>g DEF Good, OwnsClaims, Owned
<1>2. CASE SkipClaim(t)
  <2> DEFINE q == Advance(r)
  <2>1. /\ q.done = r.done /\ q.settles = r.settles /\ q.flips = r.flips
        /\ q.op = r.op /\ q.queue = r.queue /\ q.at \in {"next", "query", "commit"}
        /\ r.op = "reject" /\ r.queue = {} => q.at = "commit"
    BY <1>r DEF Advance, TxState
  <2>2. r.at = "claim" /\ todo[t] = {} /\ Step(t, q, {})
    BY <1>2 DEF SkipClaim, At
  <2>3. Good(q, h, {})
    <3> HIDE DEF q
    <3> QED
      BY <1>a, <1>g, <2>1, <2>2 DEF Good, OwnsClaims, RejectsOne, WritesWhatIsOwed,
                       Owned, SettledBy, OwedTo
  <2> QED
    BY <2>2, <2>3, StepGood
<1>3. CASE RejectClaim(t)
  <2> DEFINE q == Advance([r EXCEPT !.done = r.cur])
             L == KeyShare("expense", On(Covers(r.cur)))
  <2>1. /\ r.at = "claim" /\ todo[t] = {} /\ Step(t, q, L) /\ r.op = "reject"
    BY <1>3 DEF RejectClaim, At
  <2>2. /\ r.queue = {} /\ r.settles = {}
    BY <1>g, <2>1 DEF Good, RejectsOne
  <2>3. /\ q.done = r.cur /\ q.settles = {} /\ q.flips = r.flips
        /\ q.op = r.op /\ q.at = "commit"
    BY <1>r, <2>1, <2>2 DEF Advance, TxState
  <2>4. \A c \in r.cur : claim[c].status = "PENDING"
    BY <1>3 DEF RejectClaim, Live
  <2>5. Good(q, h, L)
    <3> HIDE DEF q
    <3> QED
      BY <1>a, <1>g, <2>1, <2>2, <2>3, <2>4
         DEF Good, OwnsClaims, RejectsOne, WritesWhatIsOwed, Owned, SettledBy, OwedTo
  <2> QED
    BY <2>1, <2>5, StepGood
<1>4. CASE LockRows(t)
  <2> DEFINE S == Covers(r.cur)
  <2>1. r.at = "claim" /\ todo[t] = {} /\ \A c \in r.cur : claim[c].status = "PENDING"
    BY <1>4 DEF LockRows, At, Live
  <2>2. PICK q, L : /\ Step(t, q, L)
                    /\ q = [r EXCEPT !.op = q.op, !.at = "rows"]
                    /\ q.op # "reject"
                    /\ r.op # "reject" => q.op = r.op
    <3>1. CASE Late(t)
      <4> DEFINE q == [r EXCEPT !.op = "late", !.at = "rows"]
      <4>1. q = [r EXCEPT !.op = q.op, !.at = "rows"] /\ q.op = "late" /\ r.op = "reject"
        BY <3>1, <1>r DEF TxState, Late
      <4>2. Step(t, q, PlainUpdate("split", S) \cup KeyShare("expense", On(S)))
        BY <1>4, <3>1 DEF LockRows
      <4> HIDE DEF q
      <4> QED
        BY <4>1, <4>2
    <3>2. CASE ~Late(t)
      <4> DEFINE q == [r EXCEPT !.at = "rows",
                                !.op = IF @ = "reject" THEN "confirm" ELSE @]
      <4>1. /\ q = [r EXCEPT !.op = q.op, !.at = "rows"]
            /\ q.op = IF r.op = "reject" THEN "confirm" ELSE r.op
        BY <1>r DEF TxState
      <4>2. Step(t, q, ForUpdate("split", S) \cup ForUpdate("expense", On(S)))
        BY <1>4, <3>2 DEF LockRows, ConfirmLocks
      <4> HIDE DEF q
      <4> QED
        BY <4>1, <4>2
    <3> QED
      BY <3>1, <3>2
  <2>3. /\ q.done = r.done /\ q.settles = r.settles /\ q.flips = r.flips
        /\ q.cur = r.cur /\ q.at = "rows"
    BY <2>2, <1>r DEF TxState
  <2>4. r.op = "reject" => r.done = {}
    BY <1>g, <2>1 DEF Good, RejectsOne
  <2>5. Good(q, h, L)
    BY <1>a, <1>g, <2>1, <2>2, <2>3, <2>4
       DEF Good, OwnsClaims, RejectsOne, WritesWhatIsOwed, Owned, SettledBy, OwedTo
  <2> QED
    BY <2>2, <2>5, StepGood
<1> QED
  BY <1>1, <1>2, <1>3, <1>4

\* Settling the covered splits and closing the complete expenses.
LEMMA WriteStepsGood ==
  ASSUME TypeOK, TxInv, NEW t \in Tx, SettleSplits(t) \/ FlipExpenses(t)
  PROVE  TxInv'
<1> DEFINE r == tx[t]
           h == held[t]
           S == Covers(r.cur)
<1>r. r \in TxState /\ r.cur \subseteq Claim
  BY DEF TypeOK, TxState
<1>g. Good(r, h, todo[t])
  BY DEF TxInv
<1>1. CASE SettleSplits(t)
  <2> DEFINE own == OwnShares(t)
             q == [r EXCEPT !.at = "payer", !.settles = @ \cup NewlySettled(t)]
             L == PlainUpdate("split", own)
  <2>1. r.at = "rows" /\ Step(t, q, L)
    BY <1>1 DEF SettleSplits, At
  <2>2. /\ q.done = r.done /\ q.settles = r.settles \cup S \cup own
        /\ q.flips = r.flips /\ q.cur = r.cur /\ q.op = r.op /\ q.at = "payer"
    BY <1>r DEF TxState, NewlySettled
  <2>3. \A s \in S \cup own : \E c \in r.cur : OwedTo(s, c)
    BY DEF OwedTo, OwnShares, Covers, On, SplitsOn
  <2>4. \A c \in r.cur : claim[c].covers \subseteq S
    BY DEF Covers
  <2>5. Good(q, h, L)
    <3> HIDE DEF q, S, own
    <3> QED
      BY <1>g, <2>1, <2>2, <2>3, <2>4
         DEF Good, OwnsClaims, RejectsOne, WritesWhatIsOwed, Owned, SettledBy
  <2> QED
    BY <2>1, <2>5, StepGood
<1>2. CASE FlipExpenses(t)
  <2> DEFINE full == Completed(t)
             q == Advance([r EXCEPT !.flips = @ \cup full, !.done = @ \cup r.cur])
             L == IF r.op = "late" THEN PlainUpdate("expense", full) ELSE {}
  <2>1. r.at = "payer" /\ Step(t, q, L)
    BY <1>2 DEF FlipExpenses, At
  <2>2. /\ q.done = r.done \cup r.cur /\ q.settles = r.settles
        /\ q.flips = r.flips \cup full /\ q.op = r.op
        /\ q.at \in {"next", "query", "commit"}
    BY <1>r DEF Advance, TxState
  <2>3. \A e \in full : \A s \in SplitsOn({e}) : SettledBy(r, s)
    BY DEF Completed, Sees, SettledBy
  <2>4. r.op # "reject"
    BY <1>g, <2>1 DEF Good, RejectsOne
  <2>5. Good(q, h, L)
    <3> HIDE DEF q, full
    <3> QED
      BY <1>g, <2>1, <2>2, <2>3, <2>4
         DEF Good, OwnsClaims, RejectsOne, WritesWhatIsOwed, Owned, SettledBy
  <2> QED
    BY <2>1, <2>5, StepGood
<1> QED
  BY <1>1, <1>2

\* Filing decides nothing.
LEMMA FileGood ==
  ASSUME TypeOK, TxInv, NEW t \in Tx, FileClaim(t) \/ FindCoverable(t) \/ LinkSplits(t)
  PROVE  TxInv'
<1> DEFINE r == tx[t]
           h == held[t]
<1>r. r \in TxState
  BY DEF TypeOK
<1>g. Good(r, h, todo[t])
  BY DEF TxInv
<1>1. ASSUME NEW q, NEW L, Step(t, q, L),
             r.at \in {"settle", "query", "cover"},
             q.done = r.done, q.settles = r.settles, q.flips = r.flips,
             q.op = r.op, q.at \notin {"claim", "rows", "payer"}
      PROVE  TxInv'
  <2>1. Good(q, h, L)
    BY <1>g, <1>1 DEF Good, OwnsClaims, RejectsOne, WritesWhatIsOwed, Owned,
                      SettledBy, OwedTo
  <2> QED
    BY <1>1, <2>1, StepGood
<1>2. CASE FileClaim(t) /\ ~Rollback(t)
  <2> DEFINE q == Advance(r)
             L == KeyShare("expense", On(r.cands))
  <2>1. r.at = "settle" /\ Step(t, q, L)
    BY <1>2 DEF FileClaim, At
  <2>2. /\ q.done = r.done /\ q.settles = r.settles /\ q.flips = r.flips
        /\ q.op = r.op /\ q.at \notin {"claim", "rows", "payer"}
    BY <1>r DEF Advance, TxState
  <2> HIDE DEF q, L
  <2> QED
    BY <1>1, <2>1, <2>2
<1>3. CASE FindCoverable(t) /\ ~Rollback(t)
  <2> DEFINE q == [r EXCEPT !.at = "cover", !.cands = Coverable(t)]
             L == ForUpdate("split", Coverable(t))
  <2>1. r.at = "query" /\ Step(t, q, L)
    BY <1>3 DEF FindCoverable, At
  <2>2. /\ q.done = r.done /\ q.settles = r.settles /\ q.flips = r.flips
        /\ q.op = r.op /\ q.at \notin {"claim", "rows", "payer"}
    BY <1>r DEF TxState
  <2> HIDE DEF q, L
  <2> QED
    BY <1>1, <2>1, <2>2
<1>4. CASE LinkSplits(t) /\ ~Rollback(t)
  <2> DEFINE S == {s \in r.cands : split[s] = "CONFIRMED"}
             q == [r EXCEPT !.at = "commit", !.cands = S]
             L == KeyShare("expense", On(S))
  <2>1. r.at = "cover" /\ Step(t, q, L)
    BY <1>4 DEF LinkSplits, At
  <2>2. /\ q.done = r.done /\ q.settles = r.settles /\ q.flips = r.flips
        /\ q.op = r.op /\ q.at \notin {"claim", "rows", "payer"}
    BY <1>r DEF TxState
  <2> HIDE DEF q, L
  <2> QED
    BY <1>1, <2>1, <2>2
<1> QED
  BY <1>2, <1>3, <1>4, RollbackGood

-----------------------------------------------------------------------------
(* What one commit does to the claims, and to the transactions around it.   *)

\* A commit changes the claims it decided, all of them pending before, and
\* one row that did not exist.
LEMMA CommitClaims ==
  ASSUME TypeOK, TxInv, NEW t \in Tx, Commit(t), NEW c \in Claim
  PROVE  /\ c \in tx[t].done => /\ claim[c].status = "PENDING"
                               /\ claim'[c].status = Decided(t)
                               /\ claim'[c].covers = claim[c].covers
         /\ claim[c].status # "NONE" /\ c \notin tx[t].done => claim'[c] = claim[c]
         /\ claim'[c].status = "CONFIRMED" /\ c \notin tx[t].done
              => claim[c].status = "CONFIRMED"
<1> DEFINE new == {d \in Unclaimed : /\ tx[t].cands # {}
                                     /\ \A e \in Unclaimed : d <= e}
<1>1. claim'[c] = IF c \in new THEN NewClaim(t)
                  ELSE IF c \in tx[t].done
                  THEN [claim[c] EXCEPT !.status = Decided(t)]
                  ELSE claim[c]
  BY DEF Commit
<1>2. c \in new => claim[c].status = "NONE"
  BY DEF Unclaimed, With
<1>3. c \in tx[t].done => claim[c].status = "PENDING"
  BY DEF TxInv, Good, OwnsClaims, Owned
<1>4. c \in new => claim'[c].status = "PENDING"
  BY <1>1 DEF NewClaim
<1>5. claim[c] \in ClaimRow
  BY DEF TypeOK
<1>6. c \in tx[t].done => /\ claim'[c].status = Decided(t)
                          /\ claim'[c].covers = claim[c].covers
  <2> HIDE DEF new
  <2> QED
    BY <1>1, <1>2, <1>3, <1>5 DEF ClaimRow
<1> HIDE DEF new
<1> QED
  BY <1>1, <1>2, <1>3, <1>4, <1>6

\* No claim is decided by one transaction while another one works on it.
LEMMA OwnersDiffer ==
  ASSUME LocksExclude, TxInv, NEW t \in Tx, NEW u \in Tx, t # u
  PROVE  Owned(tx[t]) \cap Owned(tx[u]) = {}
<1> SUFFICES ASSUME NEW c \in Owned(tx[t]) \cap Owned(tx[u]) PROVE FALSE
  OBVIOUS
<1>1. ClaimLock(c) \in held[t] /\ ClaimLock(c) \in held[u]
  BY DEF TxInv, Good, OwnsClaims
<1>2. Conflict(ClaimLock(c), ClaimLock(c))
  BY DEF Conflict, ClaimLock
<1> QED
  BY <1>1, <1>2 DEF LocksExclude

\* A commit disturbs no other transaction: its claims are not theirs.
LEMMA CommitGood ==
  ASSUME TypeOK, LocksExclude, TxInv, NEW t \in Tx, Commit(t)
  PROVE  TxInv'
<1> SUFFICES ASSUME NEW u \in Tx PROVE Good(tx[u], held[u], todo[u])'
  BY DEF TxInv
<1>1. /\ tx' = [tx EXCEPT ![t] = Idle] /\ todo' = [todo EXCEPT ![t] = {}]
      /\ held' = [held EXCEPT ![t] = {}]
      /\ \A s \in Split : split[s] = "SETTLED" => split'[s] = "SETTLED"
      /\ DOMAIN tx = Tx /\ DOMAIN todo = Tx /\ DOMAIN held = Tx
  BY DEF Commit, ReleaseAll, TypeOK, LocksTypeOK
<1>2. CASE u = t
  <2>1. tx'[u] = Idle /\ held'[u] = {} /\ todo'[u] = {}
    BY <1>1, <1>2
  <2> QED
    BY <2>1 DEF Good, OwnsClaims, RejectsOne, WritesWhatIsOwed, Owned, Idle
<1>3. CASE u # t
  <2>1. tx'[u] = tx[u] /\ held'[u] = held[u] /\ todo'[u] = todo[u]
    BY <1>1, <1>3
  <2>2. Good(tx[u], held[u], todo[u])
    BY DEF TxInv
  <2>3. Owned(tx[u]) \subseteq Claim /\ Owned(tx[u]) \cap tx[t].done = {}
    BY <1>3, OwnersDiffer DEF Owned, TypeOK, TxState
  <2>4. \A c \in Owned(tx[u]) : claim'[c] = claim[c]
    BY <2>2, <2>3, CommitClaims DEF Good, OwnsClaims
  <2>5. OwnsClaims(tx[u], held[u], todo[u])'
    BY <2>1, <2>2, <2>4 DEF Good, OwnsClaims, Owned, ClaimLock
  <2>6. RejectsOne(tx[u])'
    BY <2>1, <2>2 DEF Good, RejectsOne
  <2>7. WritesWhatIsOwed(tx[u])'
    BY <1>1, <2>1, <2>2, <2>4
       DEF Good, WritesWhatIsOwed, Owned, SettledBy, OwedTo, On, IsPayers, SplitsOn
  <2> QED
    BY <2>5, <2>6, <2>7 DEF Good
<1> QED
  BY <1>2, <1>3

-----------------------------------------------------------------------------
(* The inductive invariant and the theorems.                                *)

Ledger == ConfirmedClaimIsHonoured /\ SettledWasClaimed /\ SettledExpenseIsComplete
IInv == TypeOK /\ LocksExclude /\ TxInv /\ Ledger

\* A commit that decides nothing it has not written keeps the ledger right.
LEMMA CommitLedger ==
  ASSUME IInv, NEW t \in Tx, Commit(t)
  PROVE  Ledger'
<1> USE DEF IInv, Ledger
<1>1. /\ split' = [s \in Split |-> IF s \in tx[t].settles THEN "SETTLED" ELSE split[s]]
      /\ expense' = [e \in Expense |-> IF e \in tx[t].flips THEN "SETTLED"
                                                            ELSE expense[e]]
      /\ tx[t].at = "commit"
  BY DEF Commit, At
<1>2. /\ tx[t].done = Owned(tx[t])
      /\ WritesWhatIsOwed(tx[t]) /\ RejectsOne(tx[t])
  BY <1>1 DEF TxInv, Good, Owned
<1>3. tx[t] \in TxState /\ claim \in [Claim -> ClaimRow]
  BY DEF TypeOK
<1>4. ConfirmedClaimIsHonoured'
  <2> SUFFICES ASSUME NEW c \in Claim, claim'[c].status = "CONFIRMED",
                      NEW s \in claim'[c].covers
               PROVE  split'[s] = "SETTLED"
    BY DEF ConfirmedClaimIsHonoured, With
  <2>1. CASE c \in tx[t].done
    <3>1. tx[t].op # "reject"
      BY <2>1, CommitClaims DEF Decided
    <3>2. s \in tx[t].settles /\ s \in Split
      BY <1>2, <1>3, <2>1, <3>1, CommitClaims DEF WritesWhatIsOwed, TxState
    <3> QED
      BY <1>1, <3>2
  <2>2. CASE c \notin tx[t].done
    <3>1. claim[c].status = "CONFIRMED" /\ claim'[c] = claim[c]
      BY <2>2, CommitClaims
    <3>2. split[s] = "SETTLED" /\ s \in Split
      BY <1>3, <3>1 DEF ConfirmedClaimIsHonoured, With, ClaimRow
    <3> QED
      BY <1>1, <3>2
  <2> QED
    BY <2>1, <2>2
<1>5. SettledWasClaimed'
  <2> SUFFICES ASSUME NEW s \in Split, split'[s] = "SETTLED"
               PROVE  \E c \in Claim : claim'[c].status = "CONFIRMED" /\ OwedTo(s, c)'
    BY DEF SettledWasClaimed, With, OwedTo
  <2>1. CASE s \in tx[t].settles
    <3>1. PICK c \in tx[t].done : OwedTo(s, c)
      BY <1>2, <2>1 DEF WritesWhatIsOwed
    <3>2. c \in Claim /\ tx[t].op # "reject"
      BY <1>2, <1>3, <2>1 DEF TxState, RejectsOne
    <3>3. claim'[c].status = "CONFIRMED" /\ claim'[c].covers = claim[c].covers
      BY <3>1, <3>2, CommitClaims DEF Decided
    <3> QED
      BY <3>1, <3>2, <3>3 DEF OwedTo, IsPayers, On
  <2>2. CASE s \notin tx[t].settles
    <3>1. split[s] = "SETTLED"
      BY <1>1, <2>2
    <3>2. PICK c \in Claim : claim[c].status = "CONFIRMED" /\ OwedTo(s, c)
      BY <3>1 DEF SettledWasClaimed, With, OwedTo
    <3>3. claim'[c] = claim[c]
      BY <3>2, CommitClaims
    <3> QED
      BY <3>2, <3>3 DEF OwedTo, IsPayers, On
  <2> QED
    BY <2>1, <2>2
<1>6. SettledExpenseIsComplete'
  <2> SUFFICES ASSUME NEW e \in Expense, expense'[e] = "SETTLED",
                      NEW s \in SplitsOn({e})
               PROVE  split'[s] = "SETTLED"
    BY DEF SettledExpenseIsComplete, SplitsOn
  <2>1. s \in Split
    BY DEF SplitsOn
  <2>2. SettledBy(tx[t], s)
    BY <1>1, <1>2 DEF WritesWhatIsOwed, SettledExpenseIsComplete, SettledBy
  <2> QED
    BY <1>1, <2>1, <2>2 DEF SettledBy
<1> QED
  BY <1>4, <1>5, <1>6

\* Every step but a commit leaves the committed rows alone.
LEMMA OnlyCommitWrites ==
  ASSUME [Next]_vars
  PROVE  (\E t \in Tx : Commit(t)) \/ UNCHANGED <<split, expense, claim>>
<1>1. ASSUME NEW t \in Tx, Continue(t)
      PROVE  Commit(t) \/ UNCHANGED <<split, expense, claim>>
  BY <1>1 DEF Continue, TakeLock, Step, Rollback, NextClaim, SkipClaim, RejectClaim,
       LockRows, SettleSplits, FlipExpenses, FileClaim, FindCoverable, LinkSplits,
       VictimAbort
<1>2. ASSUME NEW t \in Tx,
             \/ \E c \in Claim, op \in {"confirm", "reject"} : Answer(t, op, c)
             \/ \E scope \in SweepScopes : Sweep(t, scope)
             \/ \E s \in Split : RequestSettle(t, s)
             \/ \E u, v \in User : RequestSettleUp(t, u, v)
      PROVE  UNCHANGED <<split, expense, claim>>
  BY <1>2 DEF Answer, Sweep, RequestSettle, RequestSettleUp, Step
<1> QED
  BY <1>1, <1>2 DEF Next, vars, WindowCloses

\* The inductive invariant holds at the start.
LEMMA InitIInv == Init => IInv
<1> SUFFICES ASSUME Init PROVE IInv
  OBVIOUS
<1>1. TypeOK
  BY InitType
<1>2. LocksExclude
  BY DEF Init, LocksExclude
<1>3. TxInv
  BY IdleGood DEF Init, TxInv
<1>4. Ledger
  BY DEF Init, Ledger, ConfirmedClaimIsHonoured, SettledWasClaimed,
         SettledExpenseIsComplete, With, NoClaim, SplitsOn
<1> QED
  BY <1>1, <1>2, <1>3, <1>4 DEF IInv

\* Every step keeps the inductive invariant.
LEMMA NextIInv == IInv /\ [Next]_vars => IInv'
<1> SUFFICES ASSUME IInv, [Next]_vars PROVE IInv'
  OBVIOUS
<1>0. TypeOK /\ LocksExclude /\ TxInv /\ Ledger
  BY DEF IInv
<1>1. TypeOK' /\ LocksExclude'
  BY <1>0, NextType, NextExcludes
<1>2. TxInv'
  <2>1. ASSUME NEW t \in Tx, Continue(t) PROVE TxInv'
    BY <1>0, <2>1, LockGood, ClaimStepsGood, WriteStepsGood, FileGood, CommitGood,
       RollbackGood DEF Continue, VictimAbort
  <2>2. ASSUME UNCHANGED <<held, todo, split, claim, tx>> PROVE TxInv'
    <3> SUFFICES ASSUME NEW u \in Tx PROVE Good(tx[u], held[u], todo[u])'
      BY DEF TxInv
    <3>1. Good(tx[u], held[u], todo[u])
      BY <1>0 DEF TxInv
    <3>2. OwnsClaims(tx[u], held[u], todo[u])'
      BY <2>2, <3>1 DEF Good, OwnsClaims, Owned, ClaimLock
    <3>3. RejectsOne(tx[u])'
      BY <2>2, <3>1 DEF Good, RejectsOne
    <3>4. WritesWhatIsOwed(tx[u])'
      BY <2>2, <3>1 DEF Good, WritesWhatIsOwed, Owned, SettledBy, OwedTo, On,
                        IsPayers, SplitsOn
    <3> QED
      BY <3>2, <3>3, <3>4 DEF Good
  <2> QED
    BY <1>0, <2>1, <2>2, RequestsGood DEF Next, vars, WindowCloses
<1>3. Ledger'
  <2>1. ASSUME UNCHANGED <<split, expense, claim>> PROVE Ledger'
    BY <1>0, <2>1 DEF Ledger, ConfirmedClaimIsHonoured, SettledWasClaimed,
       SettledExpenseIsComplete, With, IsPayers, On, SplitsOn
  <2> QED
    BY <2>1, CommitLedger, OnlyCommitWrites
<1> QED
  BY <1>1, <1>2, <1>3 DEF IInv

\* So it always holds.
LEMMA Inductive == Spec => []IInv
<1> QED
  BY InitIInv, NextIInv, PTL DEF Spec

\* A confirmed claim is honoured: whoever confirmed it, a creditor, a late
\* rejection or a sweep, its splits are settled with it.
THEOREM ClaimsHonoured == Spec => []ConfirmedClaimIsHonoured
<1>1. IInv => ConfirmedClaimIsHonoured
  BY DEF IInv, Ledger
<1> QED
  BY <1>1, Inductive, PTL

\* No debt disappears without a confirmed claim to show for it.
THEOREM DebtsClaimed == Spec => []SettledWasClaimed
<1>1. IInv => SettledWasClaimed
  BY DEF IInv, Ledger
<1> QED
  BY <1>1, Inductive, PTL

\* A settled expense has no open share, in spite of the late rejection that
\* checks it without the expense lock.
THEOREM ExpensesComplete == Spec => []SettledExpenseIsComplete
<1>1. IInv => SettledExpenseIsComplete
  BY DEF IInv, Ledger
<1> QED
  BY <1>1, Inductive, PTL

\* Of any number of racing confirms, rejects and sweeps one decides a claim,
\* and nothing touches a decided claim again.
THEOREM ClaimsDecidedOnce == Spec => DecidedOnce
<1>1. IInv /\ [Next]_vars => [DecisionStep]_vars
  <2> SUFFICES ASSUME IInv, [Next]_vars PROVE DecisionStep
    OBVIOUS
  <2> SUFFICES ASSUME NEW c \in Claim, claim[c].status \in {"CONFIRMED", "REJECTED"}
               PROVE  claim'[c] = claim[c]
    BY DEF DecisionStep
  <2>1. CASE \E t \in Tx : Commit(t)
    BY <2>1, CommitClaims DEF IInv
  <2>2. CASE UNCHANGED <<split, expense, claim>>
    BY <2>2
  <2> QED
    BY <2>1, <2>2, OnlyCommitWrites
<1> QED
  BY <1>1, Inductive, PTL DEF Spec, DecidedOnce

-----------------------------------------------------------------------------
(* What the invariant needs besides, for two more promises.  A settle-up    *)
(* keeps the splits it is about to link locked, so that no other one links  *)
(* them.  And while no rejection comes too late, a transaction that settles *)
(* splits holds their expenses locked, and has looked whether they are      *)
(* complete; a late rejection does not (finding of MCSettlementStranded).   *)

NoLateRejection == "reject" \notin Requests \/ MayExpire = {}

SplitLock(s) == [table |-> "split", id |-> s, mode |-> "FOR UPDATE"]
ExpenseLock(e) == [table |-> "expense", id |-> e, mode |-> "FOR UPDATE"]

LinksItsOwn(r, h, q) ==
  r.op = "cover" =>
    /\ r.at # "settle"
    /\ r.at = "cover" => \A s \in r.cands : SplitLock(s) \in h \cup q
    /\ r.at = "commit" => \A s \in r.cands : SplitLock(s) \in h /\ s \notin Linked

\* The claims whose splits r has settled, and the expenses it has not yet
\* looked at since
Handled(r) == r.done \cup (IF r.at = "payer" THEN r.cur ELSE {})
InHand(r) == IF r.at = "payer" THEN On(Covers(r.cur)) ELSE {}

\* A rejection withdraws one claim and does nothing else
Withdraws(r) ==
  r.op = "reject" =>
    /\ "reject" \in Requests
    /\ r.cands = {} /\ r.flips = {}
    /\ r.at = "claim" => \E c \in Claim : r.cur = {c}
    /\ r.done = {} \/ \E c \in Claim : r.done = {c}

HoldsExpenses(r, h, q) ==
  r.op # "reject" =>
    /\ \A e \in On(Covers(Handled(r))) : ExpenseLock(e) \in h
    /\ r.at = "rows" => \A e \in On(Covers(r.cur)) : ExpenseLock(e) \in h \cup q

ClosesAll(r) ==
  r.op # "reject" =>
    /\ r.flips \subseteq On(Covers(r.done))
    /\ \A s \in SplitsOn(On(Covers(Handled(r)))) : IsPayers(s) => SettledBy(r, s)
    /\ \A e \in On(Covers(r.done)) \ InHand(r) :
         (\A s \in SplitsOn({e}) : SettledBy(r, s))
           => e \in r.flips \/ expense[e] = "SETTLED"

Closes(r, h, q) == r.op # "late" /\ HoldsExpenses(r, h, q) /\ ClosesAll(r)

Fine(r, h, q) == /\ LinksItsOwn(r, h, q)
                 /\ Withdraws(r)
                 /\ NoLateRejection => Closes(r, h, q)
FineInv == \A t \in Tx : Fine(tx[t], held[t], todo[t])

\* A transaction that goes on holding its locks, while nothing is committed,
\* is as fine as it was.
LEMMA UntouchedFine ==
  ASSUME NEW u \in Tx, Fine(tx[u], held[u], todo[u]),
         tx'[u] = tx[u], held[u] \subseteq held'[u],
         held[u] \cup todo[u] \subseteq held'[u] \cup todo'[u],
         UNCHANGED <<split, expense, claim>>
  PROVE  Fine(tx[u], held[u], todo[u])'
<1>1. LinksItsOwn(tx[u], held[u], todo[u])'
  BY DEF Fine, LinksItsOwn, SplitLock, Linked, Covers, With
<1>2. Withdraws(tx[u])'
  BY DEF Fine, Withdraws
<1>3. ASSUME NoLateRejection PROVE Closes(tx[u], held[u], todo[u])'
  <2>1. Closes(tx[u], held[u], todo[u])
    BY <1>3 DEF Fine
  <2>2. HoldsExpenses(tx[u], held[u], todo[u])'
    BY <2>1 DEF Closes, HoldsExpenses, Handled, On, Covers, ExpenseLock
  <2>3. ClosesAll(tx[u])'
    BY <2>1 DEF Closes, ClosesAll, Handled, InHand, On, Covers, SplitsOn, IsPayers,
                SettledBy
  <2> QED
    BY <2>1, <2>2, <2>3 DEF Closes
<1> QED
  BY <1>1, <1>2, <1>3 DEF Fine, NoLateRejection

\* A step of one transaction: the others are untouched.
LEMMA StepFine ==
  ASSUME TypeOK, FineInv, NEW t \in Tx, NEW r, NEW L,
         Step(t, r, L), Fine(r, held[t], L)
  PROVE  FineInv'
<1> SUFFICES ASSUME NEW u \in Tx PROVE Fine(tx[u], held[u], todo[u])'
  BY DEF FineInv
<1>1. /\ tx' = [tx EXCEPT ![t] = r] /\ todo' = [todo EXCEPT ![t] = L]
      /\ held' = held /\ UNCHANGED <<split, expense, claim>>
      /\ DOMAIN tx = Tx /\ DOMAIN todo = Tx
  BY DEF Step, Want, TypeOK, LocksTypeOK
<1>2. CASE u = t
  <2>1. tx'[u] = r /\ held'[u] = held[t] /\ todo'[u] = L
    BY <1>1, <1>2
  <2>2. LinksItsOwn(tx[u], held[u], todo[u])'
    <3>1. LinksItsOwn(r, held[t], L)
      BY DEF Fine
    <3>2. Linked' = Linked
      BY <1>1 DEF Linked, Covers, With
    <3> QED
      BY <2>1, <3>1, <3>2 DEF LinksItsOwn, SplitLock
  <2>3. Withdraws(tx[u])'
    BY <2>1 DEF Fine, Withdraws
  <2>4. ASSUME NoLateRejection PROVE Closes(tx[u], held[u], todo[u])'
    <3>1. Closes(r, held[t], L)
      BY <2>4 DEF Fine
    <3>2. HoldsExpenses(tx[u], held[u], todo[u])'
      <4>1. HoldsExpenses(r, held[t], L)
        BY <3>1 DEF Closes
      <4>2. On(Covers(Handled(tx[u])))' = On(Covers(Handled(r)))
            /\ On(Covers(tx[u].cur))' = On(Covers(r.cur))
        BY <1>1, <2>1 DEF Handled, On, Covers
      <4> QED
        BY <2>1, <4>1, <4>2 DEF HoldsExpenses, ExpenseLock
    <3>3. ClosesAll(tx[u])'
      BY <1>1, <2>1, <3>1 DEF Closes, ClosesAll, Handled, InHand, On, Covers,
                              SplitsOn, IsPayers, SettledBy
    <3> QED
      BY <2>1, <3>1, <3>2, <3>3 DEF Closes
  <2> QED
    BY <2>2, <2>3, <2>4 DEF Fine, NoLateRejection
<1>3. CASE u # t
  <2>1. tx'[u] = tx[u] /\ held'[u] = held[u] /\ todo'[u] = todo[u]
    BY <1>1, <1>3
  <2> QED
    BY <1>1, <2>1, UntouchedFine DEF FineInv
<1> QED
  BY <1>2, <1>3

\* A transaction that has decided nothing and files nothing yet is fine.
LEMMA FreshFine ==
  ASSUME NEW r, NEW h, NEW q, r.done = {}, r.flips = {},
         r.op = "settle" \/ r.at \in {"idle", "next", "query", "commit"},
         r.at \in {"settle", "idle", "next", "query", "commit"},
         r.op = "settle" \/ r.cands = {}, r.op # "late",
         r.op = "reject" => "reject" \in Requests
  PROVE  Fine(r, h, q)
<1>1. LinksItsOwn(r, h, q) /\ Withdraws(r)
  BY DEF LinksItsOwn, Withdraws
<1>2. Handled(r) = {} /\ On(Covers({})) = {}
  BY DEF Handled, On, Covers
<1>3. HoldsExpenses(r, h, q)
  BY <1>2 DEF HoldsExpenses
<1>4. ClosesAll(r)
  BY <1>2 DEF ClosesAll, SplitsOn
<1> QED
  BY <1>1, <1>3, <1>4 DEF Fine, Closes

\* Every request starts that way.
LEMMA RequestsFine ==
  ASSUME TypeOK, FineInv, NEW t \in Tx,
         \/ \E c \in Claim, op \in {"confirm", "reject"} : Answer(t, op, c)
         \/ \E scope \in SweepScopes : Sweep(t, scope)
         \/ \E s \in Split : RequestSettle(t, s)
         \/ \E u, v \in User : RequestSettleUp(t, u, v)
  PROVE  FineInv'
<1>1. ASSUME NEW r0 \in TxState, r0.done = {}, r0.flips = {}, r0.cands = {},
             r0.op # "late", r0.op \in Requests, Step(t, Advance(r0), {})
      PROVE  FineInv'
  <2> DEFINE r == Advance(r0)
  <2>1. /\ r.done = {} /\ r.flips = {} /\ r.cands = {} /\ r.op = r0.op
        /\ r.at \in {"next", "query", "commit"}
    BY <1>1 DEF Advance, TxState
  <2>2. Step(t, r, {})
    BY <1>1
  <2> HIDE DEF r
  <2>3. Fine(r, held[t], {})
    BY <1>1, <2>1, FreshFine
  <2> QED
    BY <2>2, <2>3, StepFine
<1>2. ASSUME NEW c \in Claim, NEW op \in {"confirm", "reject"}, Answer(t, op, c)
      PROVE  FineInv'
  <2> DEFINE r == [Idle EXCEPT !.op = op, !.queue = {c}]
  <2>1. r \in TxState
    BY IdleType DEF TxState, Op
  <2>2. r.done = {} /\ r.flips = {} /\ r.cands = {} /\ r.op = op
    BY DEF Idle
  <2>3. op \in Requests /\ Step(t, Advance(r), {})
    BY <1>2 DEF Answer
  <2> HIDE DEF r
  <2> QED
    BY <1>1, <2>1, <2>2, <2>3
<1>3. ASSUME NEW scope \in SweepScopes, Sweep(t, scope)
      PROVE  FineInv'
  <2> DEFINE r == [Idle EXCEPT !.op = "sweep", !.queue = Due(scope)]
  <2>0. Due(scope) \subseteq Claim
    BY DEF Due, With
  <2>1. r \in TxState
    BY <2>0, IdleType DEF TxState, Op
  <2>2. r.done = {} /\ r.flips = {} /\ r.cands = {} /\ r.op = "sweep"
    BY DEF Idle
  <2>3. "sweep" \in Requests /\ Step(t, Advance(r), {})
    BY <1>3 DEF Sweep
  <2> HIDE DEF r
  <2> QED
    BY <1>1, <2>1, <2>2, <2>3
<1>4. ASSUME NEW s \in Split, RequestSettle(t, s)
      PROVE  FineInv'
  <2> DEFINE r == [Idle EXCEPT !.op = "settle", !.at = "settle", !.cands = {s}]
  <2>1. r.done = {} /\ r.flips = {} /\ r.op = "settle" /\ r.at = "settle"
    BY DEF Idle
  <2>2. Step(t, r, ForUpdate("split", {s}))
    BY <1>4 DEF RequestSettle
  <2> HIDE DEF r
  <2>3. Fine(r, held[t], ForUpdate("split", {s}))
    BY <2>1, FreshFine
  <2> QED
    BY <2>2, <2>3, StepFine
<1>5. ASSUME NEW u \in User, NEW v \in User, RequestSettleUp(t, u, v)
      PROVE  FineInv'
  <2> DEFINE r == [Idle EXCEPT !.op = "cover", !.pair = <<u, v>>,
                               !.queue = Due(Claim)]
  <2>0. Due(Claim) \subseteq Claim /\ <<u, v>> \in Seq(User)
    BY DEF Due, With
  <2>1. r \in TxState
    BY <2>0, IdleType DEF TxState, Op
  <2>2. r.done = {} /\ r.flips = {} /\ r.cands = {} /\ r.op = "cover"
    BY DEF Idle
  <2>3. "cover" \in Requests /\ Step(t, Advance(r), {})
    BY <1>5 DEF RequestSettleUp
  <2> HIDE DEF r
  <2> QED
    BY <1>1, <2>1, <2>2, <2>3
<1> QED
  BY <1>2, <1>3, <1>4, <1>5

\* A connection that serves no request is fine, before a step and after it.
LEMMA IdleFinePrimed ==
  ASSUME NEW u \in Tx, tx'[u] = Idle
  PROVE  Fine(tx[u], held[u], todo[u])'
<1>1. /\ tx'[u].op = "idle" /\ tx'[u].at = "idle" /\ tx'[u].done = {}
      /\ tx'[u].flips = {}
  BY DEF Idle
<1>2. LinksItsOwn(tx[u], held[u], todo[u])' /\ Withdraws(tx[u])'
  BY <1>1 DEF LinksItsOwn, Withdraws
<1>3. HoldsExpenses(tx[u], held[u], todo[u])'
  BY <1>1 DEF HoldsExpenses, Handled, On, Covers
<1>4. ClosesAll(tx[u])'
  BY <1>1 DEF ClosesAll, Handled, SplitsOn, On, Covers
<1> QED
  BY <1>1, <1>2, <1>3, <1>4 DEF Fine, Closes

\* An aborted transaction leaves nothing behind.
LEMMA RollbackFine ==
  ASSUME TypeOK, FineInv, NEW t \in Tx, Rollback(t)
  PROVE  FineInv'
<1> SUFFICES ASSUME NEW u \in Tx PROVE Fine(tx[u], held[u], todo[u])'
  BY DEF FineInv
<1>1. /\ tx' = [tx EXCEPT ![t] = Idle] /\ todo' = [todo EXCEPT ![t] = {}]
      /\ held' = [held EXCEPT ![t] = {}] /\ UNCHANGED <<split, expense, claim>>
      /\ DOMAIN tx = Tx /\ DOMAIN todo = Tx /\ DOMAIN held = Tx
  BY DEF Rollback, ReleaseAll, TypeOK, LocksTypeOK
<1>2. CASE u = t
  <2>1. tx'[u] = Idle
    BY <1>1, <1>2
  <2> QED
    BY <2>1, IdleFinePrimed
<1>3. CASE u # t
  <2>1. tx'[u] = tx[u] /\ held'[u] = held[u] /\ todo'[u] = todo[u]
    BY <1>1, <1>3
  <2> QED
    BY <1>1, <2>1, UntouchedFine DEF FineInv
<1> QED
  BY <1>2, <1>3

\* Taking a lock loses none.
LEMMA LockFine ==
  ASSUME TypeOK, FineInv, NEW t \in Tx, TakeLock(t)
  PROVE  FineInv'
<1> SUFFICES ASSUME NEW u \in Tx PROVE Fine(tx[u], held[u], todo[u])'
  BY DEF FineInv
<1>0. PICK l \in NextLocks(t) : Acquire(t, l)
  BY DEF TakeLock
<1>1. /\ l \in todo[t]
      /\ todo' = [todo EXCEPT ![t] = @ \ {l}]
      /\ held' = [held EXCEPT ![t] = @ \cup {l}]
      /\ tx' = tx /\ UNCHANGED <<split, expense, claim>>
      /\ DOMAIN todo = Tx /\ DOMAIN held = Tx
  BY <1>0 DEF TakeLock, Acquire, TypeOK, LocksTypeOK
<1>2. /\ held[u] \subseteq held'[u]
      /\ held[u] \cup todo[u] \subseteq held'[u] \cup todo'[u]
  BY <1>1
<1> QED
  BY <1>1, <1>2, UntouchedFine DEF FineInv

\* What covers two sets of claims.
LEMMA CoversBoth ==
  ASSUME NEW C, NEW D
  PROVE  /\ Covers(C \cup D) = Covers(C) \cup Covers(D)
         /\ On(Covers(C \cup D)) = On(Covers(C)) \cup On(Covers(D))
<1>1. Covers(C \cup D) = Covers(C) \cup Covers(D)
  BY DEF Covers
<1>2. \A A, B : On(A \cup B) = On(A) \cup On(B)
  BY DEF On
<1> QED
  BY <1>1, <1>2

\* Picking a claim, skipping it, rejecting it, and asking for its rows.
LEMMA ClaimStepsFine ==
  ASSUME TypeOK, TxInv, FineInv, expired \subseteq MayExpire, NEW t \in Tx,
         NextClaim(t) \/ SkipClaim(t) \/ RejectClaim(t) \/ LockRows(t)
  PROVE  FineInv'
<1> DEFINE r == tx[t]
           h == held[t]
<1>r. r \in TxState /\ r.cur \subseteq Claim /\ r.queue \subseteq Claim
  BY DEF TypeOK, TxState
<1>g. RejectsOne(r)
  BY DEF TxInv, Good
<1>f. Fine(r, h, todo[t])
  BY DEF FineInv
\* Moving on with the same claims handled
<1>m. ASSUME NEW q, NEW L, Step(t, q, L), r.at \in {"next", "claim"},
             q.done = r.done, q.settles = r.settles, q.flips = r.flips,
             q.cands = r.cands, q.op = r.op,
             q.at \in {"next", "claim", "query", "commit"},
             q.op = "cover" => q.at # "commit",
             q.at = "claim" => \E c \in Claim : q.cur = {c}
      PROVE  FineInv'
  <2>1. LinksItsOwn(q, h, L)
    BY <1>m DEF LinksItsOwn
  <2>2. Withdraws(q)
    BY <1>m, <1>f DEF Fine, Withdraws
  <2>3. Handled(q) = Handled(r) /\ InHand(q) = InHand(r)
    BY <1>m DEF Handled, InHand
  <2>4. ASSUME NoLateRejection PROVE Closes(q, h, L)
    <3>1. Closes(r, h, todo[t])
      BY <1>f, <2>4 DEF Fine
    <3>2. HoldsExpenses(q, h, L)
      BY <1>m, <2>3, <3>1 DEF Closes, HoldsExpenses
    <3>3. ClosesAll(q)
      BY <1>m, <2>3, <3>1 DEF Closes, ClosesAll, SettledBy
    <3> QED
      BY <1>m, <3>1, <3>2, <3>3 DEF Closes
  <2> QED
    BY <1>m, <2>1, <2>2, <2>4, StepFine DEF Fine
<1>1. CASE NextClaim(t)
  <2>1. PICK c \in r.queue :
          Step(t, [r EXCEPT !.at = "claim", !.cur = {c}, !.queue = @ \ {c}],
               ForUpdate("claim", {c}))
    BY <1>1 DEF NextClaim
  <2> DEFINE q == [r EXCEPT !.at = "claim", !.cur = {c}, !.queue = @ \ {c}]
  <2>2. /\ q.done = r.done /\ q.settles = r.settles /\ q.flips = r.flips
        /\ q.op = r.op /\ q.at = "claim" /\ q.cur = {c} /\ q.cands = r.cands
        /\ r.at = "next" /\ c \in Claim
    BY <1>1, <1>r DEF NextClaim, At, TxState
  <2>3. Step(t, q, ForUpdate("claim", {c}))
    BY <2>1
  <2> HIDE DEF q
  <2> QED
    BY <1>m, <2>2, <2>3
<1>2. CASE SkipClaim(t)
  <2> DEFINE q == Advance(r)
  <2>1. /\ q.done = r.done /\ q.settles = r.settles /\ q.flips = r.flips
        /\ q.op = r.op /\ q.cands = r.cands /\ q.at \in {"next", "query", "commit"}
        /\ q.op = "cover" => q.at # "commit"
    BY <1>r DEF Advance, TxState
  <2>2. r.at = "claim" /\ Step(t, q, {})
    BY <1>2 DEF SkipClaim, At
  <2> HIDE DEF q
  <2> QED
    BY <1>m, <2>1, <2>2
<1>3. CASE RejectClaim(t)
  <2> DEFINE q == Advance([r EXCEPT !.done = r.cur])
             L == KeyShare("expense", On(Covers(r.cur)))
  <2>1. r.at = "claim" /\ Step(t, q, L) /\ r.op = "reject"
    BY <1>3 DEF RejectClaim, At
  <2>2. /\ q.done = r.cur /\ q.flips = r.flips /\ q.cands = r.cands
        /\ q.op = "reject" /\ q.at \in {"next", "query", "commit"}
    BY <1>r, <2>1 DEF Advance, TxState
  <2> HIDE DEF q, L
  <2>3. Fine(q, h, L)
    BY <1>f, <2>1, <2>2
       DEF Fine, LinksItsOwn, Withdraws, Closes, HoldsExpenses, ClosesAll
  <2> QED
    BY <2>1, <2>3, StepFine
<1>4. CASE LockRows(t)
  <2> DEFINE S == Covers(r.cur)
  <2>1. /\ r.at = "claim"
        /\ r.op = "reject" => r.cur \cap expired # {}
    BY <1>4 DEF LockRows, At
  <2>2. CASE Late(t)
    <3> DEFINE q == [r EXCEPT !.op = "late", !.at = "rows"]
               L == PlainUpdate("split", S) \cup KeyShare("expense", On(S))
    <3>1. Step(t, q, L)
      BY <1>4, <2>2 DEF LockRows
    <3>2. q.op = "late" /\ q.at = "rows"
      BY <1>r DEF TxState
    <3> HIDE DEF q, L
    <3>3. ~NoLateRejection
      BY <1>f, <2>2 DEF Late, Fine, Withdraws, NoLateRejection
    <3>4. Fine(q, h, L)
      BY <3>2, <3>3 DEF Fine, LinksItsOwn, Withdraws
    <3> QED
      BY <3>1, <3>4, StepFine
  <2>3. CASE ~Late(t)
    <3> DEFINE q == [r EXCEPT !.at = "rows",
                              !.op = IF @ = "reject" THEN "confirm" ELSE @]
               L == ForUpdate("split", S) \cup ForUpdate("expense", On(S))
    <3>1. Step(t, q, L)
      BY <1>4, <2>3 DEF LockRows, ConfirmLocks
    <3>2. /\ q.done = r.done /\ q.flips = r.flips /\ q.settles = r.settles
          /\ q.cur = r.cur /\ q.at = "rows" /\ q.op # "reject"
          /\ r.op = "reject" => q.op = "confirm"
          /\ r.op # "reject" => q.op = r.op
      BY <1>r DEF TxState
    <3>3. \A e \in On(S) : ExpenseLock(e) \in L
      BY DEF ExpenseLock, ForUpdate
    <3> HIDE DEF q, L
    <3>4. LinksItsOwn(q, h, L) /\ Withdraws(q)
      BY <3>2 DEF LinksItsOwn, Withdraws
    <3>5. ASSUME NoLateRejection PROVE Closes(q, h, L)
      <4>1. Closes(r, h, todo[t])
        BY <1>f, <3>5 DEF Fine
      <4>2. Handled(q) = r.done /\ Handled(r) = r.done /\ InHand(q) = {} /\ InHand(r) = {}
        BY <2>1, <3>2 DEF Handled, InHand
      <4>3. r.op = "reject" => r.done = {} /\ r.flips = {} /\ On(Covers({})) = {}
        BY <1>g, <1>f, <2>1 DEF RejectsOne, Fine, Withdraws, On, Covers
      <4>4. HoldsExpenses(q, h, L)
        BY <3>2, <3>3, <4>1, <4>2, <4>3 DEF Closes, HoldsExpenses
      <4>5. ClosesAll(q)
        <5>1. CASE r.op = "reject"
          BY <3>2, <4>2, <4>3, <5>1 DEF ClosesAll, SplitsOn
        <5>2. CASE r.op # "reject"
          BY <3>2, <4>1, <4>2, <5>2 DEF Closes, ClosesAll, SettledBy
        <5> QED
          BY <5>1, <5>2
      <4> QED
        BY <3>2, <4>1, <4>4, <4>5 DEF Closes
    <3> QED
      BY <3>1, <3>4, <3>5, StepFine DEF Fine
  <2> QED
    BY <2>2, <2>3
<1> QED
  BY <1>1, <1>2, <1>3, <1>4

\* Settling the splits, with the expenses held, and closing the complete ones.
LEMMA WriteStepsFine ==
  ASSUME TypeOK, TxInv, FineInv, NEW t \in Tx, SettleSplits(t) \/ FlipExpenses(t)
  PROVE  FineInv'
<1> DEFINE r == tx[t]
           h == held[t]
           S == Covers(r.cur)
<1>r. r \in TxState /\ r.cur \subseteq Claim /\ S \in SUBSET Split
  BY RowTypes DEF TypeOK, TxState
<1>g. RejectsOne(r)
  BY DEF TxInv, Good
<1>f. Fine(r, h, todo[t])
  BY DEF FineInv
<1>b. On(Covers(r.done \cup r.cur)) = On(Covers(r.done)) \cup On(S)
  BY CoversBoth
<1>1. CASE SettleSplits(t)
  <2> DEFINE own == OwnShares(t)
             q == [r EXCEPT !.at = "payer", !.settles = @ \cup NewlySettled(t)]
             L == PlainUpdate("split", own)
  <2>1. r.at = "rows" /\ todo[t] = {} /\ Step(t, q, L) /\ r.op # "reject"
    BY <1>1, <1>g DEF SettleSplits, At, RejectsOne
  <2>2. /\ q.done = r.done /\ q.settles = r.settles \cup S \cup own
        /\ q.flips = r.flips /\ q.cur = r.cur /\ q.op = r.op /\ q.at = "payer"
    BY <1>r DEF TxState, NewlySettled
  <2>3. \A s \in S \cup own : ExpenseOf[s] \in On(S)
    BY DEF OwnShares, On, SplitsOn
  <2>4. \A s \in SplitsOn(On(S)) : IsPayers(s) => s \in S \cup own \/ SettledBy(r, s)
    <3>1. \A s \in SplitsOn(On(S)) : IsPayers(s) /\ s \notin S /\ s \notin own
                                       => Sees(t, s) = "SETTLED"
      BY DEF OwnShares
    <3> QED
      BY <3>1 DEF Sees, SettledBy
  <2> HIDE DEF q, L, S, own
  <2>5. LinksItsOwn(q, h, L) /\ Withdraws(q)
    BY <2>1, <2>2 DEF LinksItsOwn, Withdraws
  <2>6. ASSUME NoLateRejection PROVE Closes(q, h, L)
    <3>1. Closes(r, h, todo[t])
      BY <1>f, <2>6 DEF Fine
    <3>2. /\ Handled(q) = r.done \cup r.cur /\ Handled(r) = r.done
          /\ InHand(q) = On(S) /\ InHand(r) = {}
      BY <2>1, <2>2 DEF Handled, InHand, S
    <3>3. HoldsExpenses(q, h, L)
      BY <1>b, <2>1, <2>2, <3>1, <3>2 DEF Closes, HoldsExpenses, S
    <3>4. ClosesAll(q)
      <4>1. q.flips \subseteq On(Covers(q.done))
        BY <2>1, <2>2, <3>1 DEF Closes, ClosesAll
      <4>2. \A s : SettledBy(r, s) => SettledBy(q, s)
        BY <2>2 DEF SettledBy
      <4>3. ASSUME NEW s \in SplitsOn(On(Covers(Handled(q)))), IsPayers(s)
            PROVE  SettledBy(q, s)
        <5>1. CASE s \in SplitsOn(On(Covers(r.done)))
          BY <2>1, <3>1, <3>2, <4>2, <4>3, <5>1 DEF Closes, ClosesAll
        <5>2. CASE s \in SplitsOn(On(S))
          <6>1. s \in S \cup own \/ SettledBy(r, s)
            BY <2>4, <4>3, <5>2
          <6> QED
            BY <2>2, <4>2, <6>1 DEF SettledBy
        <5> QED
          BY <1>b, <3>2, <4>3, <5>1, <5>2 DEF SplitsOn
      <4>4. ASSUME NEW e \in On(Covers(q.done)) \ InHand(q),
                   \A s \in SplitsOn({e}) : SettledBy(q, s)
            PROVE  e \in q.flips \/ expense[e] = "SETTLED"
        <5>1. \A s \in SplitsOn({e}) : SettledBy(r, s)
          BY <2>2, <2>3, <3>2, <4>4 DEF SettledBy, SplitsOn
        <5> QED
          BY <2>1, <2>2, <3>1, <3>2, <4>4, <5>1 DEF Closes, ClosesAll
      <4> QED
        BY <4>1, <4>3, <4>4 DEF ClosesAll
    <3> QED
      BY <2>2, <3>1, <3>3, <3>4 DEF Closes
  <2> QED
    BY <2>1, <2>5, <2>6, StepFine DEF Fine
<1>2. CASE FlipExpenses(t)
  <2> DEFINE full == Completed(t)
             q == Advance([r EXCEPT !.flips = @ \cup full, !.done = @ \cup r.cur])
             L == IF r.op = "late" THEN PlainUpdate("expense", full) ELSE {}
  <2>1. r.at = "payer" /\ Step(t, q, L) /\ r.op # "reject"
    BY <1>2, <1>g DEF FlipExpenses, At, RejectsOne
  <2>2. /\ q.done = r.done \cup r.cur /\ q.settles = r.settles
        /\ q.flips = r.flips \cup full /\ q.op = r.op
        /\ q.at \in {"next", "query", "commit"}
        /\ q.op = "cover" => q.at # "commit"
    BY <1>r DEF Advance, TxState
  <2>3. full \subseteq On(S)
    BY DEF Completed
  <2>4. \A e \in On(S) : (\A s \in SplitsOn({e}) : SettledBy(r, s)) => e \in full
    BY DEF Completed, Sees, SettledBy
  <2> HIDE DEF q, L, S, full
  <2>5. LinksItsOwn(q, h, L) /\ Withdraws(q)
    BY <2>1, <2>2 DEF LinksItsOwn, Withdraws
  <2>6. ASSUME NoLateRejection PROVE Closes(q, h, L)
    <3>1. Closes(r, h, todo[t])
      BY <1>f, <2>6 DEF Fine
    <3>2. /\ Handled(q) = r.done \cup r.cur /\ Handled(r) = r.done \cup r.cur
          /\ InHand(q) = {} /\ InHand(r) = On(S)
      BY <2>1, <2>2 DEF Handled, InHand, S
    <3>3. HoldsExpenses(q, h, L)
      BY <2>1, <2>2, <3>1, <3>2 DEF Closes, HoldsExpenses
    <3>4. \A s : SettledBy(r, s) <=> SettledBy(q, s)
      BY <2>2 DEF SettledBy
    <3>5. ClosesAll(q)
      <4>1. q.flips \subseteq On(Covers(q.done))
        BY <1>b, <2>1, <2>2, <2>3, <3>1 DEF Closes, ClosesAll
      <4>2. \A s \in SplitsOn(On(Covers(Handled(q)))) : IsPayers(s) => SettledBy(q, s)
        BY <2>1, <3>1, <3>2, <3>4 DEF Closes, ClosesAll
      <4>3. ASSUME NEW e \in On(Covers(q.done)) \ InHand(q),
                   \A s \in SplitsOn({e}) : SettledBy(q, s)
            PROVE  e \in q.flips \/ expense[e] = "SETTLED"
        <5>1. \A s \in SplitsOn({e}) : SettledBy(r, s)
          BY <3>4, <4>3
        <5>2. CASE e \in On(S)
          BY <2>2, <2>4, <5>1, <5>2
        <5>3. CASE e \notin On(S)
          <6>1. e \in On(Covers(r.done)) \ InHand(r)
            BY <1>b, <2>2, <3>2, <4>3, <5>3
          <6> QED
            BY <2>1, <2>2, <3>1, <5>1, <6>1 DEF Closes, ClosesAll
        <5> QED
          BY <5>2, <5>3
      <4> QED
        BY <4>1, <4>2, <4>3 DEF ClosesAll
    <3> QED
      BY <2>2, <3>1, <3>3, <3>5 DEF Closes
  <2> QED
    BY <2>1, <2>5, <2>6, StepFine DEF Fine
<1> QED
  BY <1>1, <1>2

\* Filing: a settle-up asks for the splits it found, and keeps those it links.
LEMMA FileFine ==
  ASSUME TypeOK, TxInv, FineInv, NEW t \in Tx,
         FileClaim(t) \/ FindCoverable(t) \/ LinkSplits(t)
  PROVE  FineInv'
<1> DEFINE r == tx[t]
           h == held[t]
<1>r. r \in TxState
  BY DEF TypeOK
<1>g. RejectsOne(r)
  BY DEF TxInv, Good
<1>f. Fine(r, h, todo[t])
  BY DEF FineInv
<1>1. ASSUME NEW q, NEW L, Step(t, q, L),
             r.at \in {"settle", "query", "cover"},
             q.done = r.done, q.settles = r.settles, q.flips = r.flips,
             q.op = r.op, q.at \notin {"claim", "rows", "payer"},
             LinksItsOwn(q, h, L)
      PROVE  FineInv'
  <2>1. r.op # "reject"
    BY <1>1, <1>g DEF RejectsOne
  <2>2. Withdraws(q)
    BY <1>1, <2>1 DEF Withdraws
  <2>3. Handled(q) = Handled(r) /\ InHand(q) = InHand(r)
    BY <1>1 DEF Handled, InHand
  <2>4. ASSUME NoLateRejection PROVE Closes(q, h, L)
    <3>1. Closes(r, h, todo[t])
      BY <1>f, <2>4 DEF Fine
    <3>2. HoldsExpenses(q, h, L)
      BY <1>1, <2>3, <3>1 DEF Closes, HoldsExpenses
    <3>3. ClosesAll(q)
      BY <1>1, <2>3, <3>1 DEF Closes, ClosesAll, SettledBy
    <3> QED
      BY <1>1, <3>1, <3>2, <3>3 DEF Closes
  <2> QED
    BY <1>1, <2>2, <2>4, StepFine DEF Fine
<1>2. CASE FileClaim(t) /\ ~Rollback(t)
  <2> DEFINE q == Advance(r)
             L == KeyShare("expense", On(r.cands))
  <2>1. r.at = "settle" /\ Step(t, q, L)
    BY <1>2 DEF FileClaim, At
  <2>2. /\ q.done = r.done /\ q.settles = r.settles /\ q.flips = r.flips
        /\ q.op = r.op /\ q.at \notin {"claim", "rows", "payer"}
    BY <1>r DEF Advance, TxState
  <2> HIDE DEF q, L
  <2>3. LinksItsOwn(q, h, L)
    BY <1>f, <2>1, <2>2 DEF Fine, LinksItsOwn
  <2> QED
    BY <1>1, <2>1, <2>2, <2>3
<1>3. CASE FindCoverable(t) /\ ~Rollback(t)
  <2> DEFINE q == [r EXCEPT !.at = "cover", !.cands = Coverable(t)]
             L == ForUpdate("split", Coverable(t))
  <2>1. r.at = "query" /\ Step(t, q, L)
    BY <1>3 DEF FindCoverable, At
  <2>2. /\ q.done = r.done /\ q.settles = r.settles /\ q.flips = r.flips
        /\ q.op = r.op /\ q.at = "cover" /\ q.cands = Coverable(t)
    BY <1>r DEF TxState
  <2>3. \A s \in Coverable(t) : SplitLock(s) \in L
    BY DEF SplitLock, ForUpdate
  <2> HIDE DEF q, L
  <2>4. LinksItsOwn(q, h, L)
    BY <2>2, <2>3 DEF LinksItsOwn
  <2> QED
    BY <1>1, <2>1, <2>2, <2>4
<1>4. CASE LinkSplits(t) /\ ~Rollback(t)
  <2> DEFINE S == {s \in r.cands : split[s] = "CONFIRMED"}
             q == [r EXCEPT !.at = "commit", !.cands = S]
             L == KeyShare("expense", On(S))
  <2>1. r.at = "cover" /\ todo[t] = {} /\ Step(t, q, L) /\ S \cap Linked = {}
    BY <1>4 DEF LinkSplits, At
  <2>2. /\ q.done = r.done /\ q.settles = r.settles /\ q.flips = r.flips
        /\ q.op = r.op /\ q.at = "commit" /\ q.cands = S
    BY <1>r DEF TxState
  <2>3. S \subseteq r.cands
    OBVIOUS
  <2> HIDE DEF q, L, S
  <2>4. LinksItsOwn(q, h, L)
    BY <1>f, <2>1, <2>2, <2>3 DEF Fine, LinksItsOwn
  <2> QED
    BY <1>1, <2>1, <2>2, <2>4
<1> QED
  BY <1>2, <1>3, <1>4, RollbackFine

\* The rows a commit inserts: at most one, that did not exist.
NewRows(t) == {c \in Unclaimed : tx[t].cands # {} /\ \A d \in Unclaimed : c <= d}

LEMMA CommitFiles ==
  ASSUME TypeOK, TxInv, NEW t \in Tx, Commit(t)
  PROVE  /\ \A c \in NewRows(t) : /\ c \in Claim /\ claim[c].status = "NONE"
                                  /\ claim'[c] = NewClaim(t)
                                  /\ tx[t].cands # {}
         /\ \A c, d \in NewRows(t) : c = d
         /\ \A c \in Claim \ NewRows(t) :
              claim'[c] = IF c \in tx[t].done
                          THEN [claim[c] EXCEPT !.status = Decided(t)] ELSE claim[c]
<1>1. \A c \in NewRows(t) : c \in Claim /\ claim[c].status = "NONE" /\ tx[t].cands # {}
  BY DEF NewRows, Unclaimed, With
<1>2. \A c, d \in NewRows(t) : c = d
  <2>1. \A i, j \in Nat : i <= j /\ j <= i => i = j
    OBVIOUS
  <2>2. \A c, d \in NewRows(t) : c \in Claim /\ d \in Claim /\ c <= d /\ d <= c
    BY DEF NewRows, Unclaimed, With
  <2>3. Claim \subseteq Nat
    BY SettlementAssumption
  <2> QED
    BY <2>1, <2>2, <2>3
<1>3. \A c \in Claim :
        claim'[c] = IF c \in NewRows(t) THEN NewClaim(t)
                    ELSE IF c \in tx[t].done
                    THEN [claim[c] EXCEPT !.status = Decided(t)] ELSE claim[c]
  BY DEF Commit, NewRows
<1> QED
  BY <1>1, <1>2, <1>3

\* A commit links only the splits of its own settle-up.
LEMMA CommitLinks ==
  ASSUME TypeOK, TxInv, NEW t \in Tx, Commit(t)
  PROVE  \A s \in Linked' : s \in Linked \/ (tx[t].op = "cover" /\ s \in tx[t].cands)
<1> SUFFICES ASSUME NEW c \in Claim, claim'[c].status \in {"PENDING", "CONFIRMED"},
                    claim'[c].aggregate, NEW s \in claim'[c].covers
             PROVE  s \in Linked \/ (tx[t].op = "cover" /\ s \in tx[t].cands)
  BY DEF Linked, Covers, With
<1>1. CASE c \in NewRows(t)
  <2>1. claim'[c] = NewClaim(t)
    BY <1>1, CommitFiles
  <2>2. NewClaim(t).covers = tx[t].cands
    BY DEF NewClaim
  <2>3. NewClaim(t).aggregate <=> tx[t].op = "cover"
    BY DEF NewClaim
  <2> QED
    BY <2>1, <2>2, <2>3
<1>2. CASE c \notin NewRows(t) /\ c \in tx[t].done
  <2>1. claim'[c] = [claim[c] EXCEPT !.status = Decided(t)]
    BY <1>2, CommitFiles
  <2>2. claim[c].status = "PENDING" /\ claim[c] \in ClaimRow
    BY <1>2 DEF TypeOK, TxInv, Good, OwnsClaims, Owned
  <2>3. claim[c].aggregate /\ s \in claim[c].covers
    BY <2>1, <2>2 DEF ClaimRow
  <2> QED
    BY <2>2, <2>3 DEF Linked, Covers, With
<1>3. CASE c \notin NewRows(t) /\ c \notin tx[t].done
  <2>1. claim'[c] = claim[c]
    BY <1>3, CommitFiles
  <2> QED
    BY <2>1 DEF Linked, Covers, With
<1> QED
  BY <1>1, <1>2, <1>3

\* The writes of a commit touch only expenses that it holds locked.
LEMMA CommitHolds ==
  ASSUME TypeOK, TxInv, FineInv, NoLateRejection, NEW t \in Tx, Commit(t),
         NEW s \in Split, split'[s] # split[s]
  PROVE  /\ ExpenseLock(ExpenseOf[s]) \in held[t]
         /\ ExpenseOf[s] \in On(Covers(tx[t].done))
<1>1. tx[t].at = "commit" /\ s \in tx[t].settles
  BY DEF Commit, At
<1>2. tx[t].op # "reject" /\ Owned(tx[t]) = tx[t].done /\ Handled(tx[t]) = tx[t].done
  BY <1>1 DEF TxInv, Good, RejectsOne, Owned, Handled
<1>3. PICK c \in tx[t].done : OwedTo(s, c)
  BY <1>1, <1>2 DEF TxInv, Good, WritesWhatIsOwed
<1>4. ExpenseOf[s] \in On(claim[c].covers)
  BY <1>3 DEF OwedTo, On
<1>5. ExpenseOf[s] \in On(Covers(tx[t].done))
  BY <1>3, <1>4 DEF On, Covers
<1>6. HoldsExpenses(tx[t], held[t], todo[t])
  BY DEF FineInv, Fine, Closes
<1> QED
  BY <1>2, <1>5, <1>6 DEF HoldsExpenses

\* Two transactions never hold the same row for update.
LEMMA RowsDiffer ==
  ASSUME LocksExclude, NEW t \in Tx, NEW u \in Tx, t # u
  PROVE  /\ \A s : ~(SplitLock(s) \in held[t] /\ SplitLock(s) \in held[u])
         /\ \A e : ~(ExpenseLock(e) \in held[t] /\ ExpenseLock(e) \in held[u])
<1>1. \A s : Conflict(SplitLock(s), SplitLock(s))
  BY DEF Conflict, SplitLock
<1>2. \A e : Conflict(ExpenseLock(e), ExpenseLock(e))
  BY DEF Conflict, ExpenseLock
<1> QED
  BY <1>1, <1>2 DEF LocksExclude

\* A commit leaves the other transactions fine.
LEMMA CommitFine ==
  ASSUME TypeOK, LocksExclude, TxInv, FineInv, NEW t \in Tx, Commit(t)
  PROVE  FineInv'
<1> SUFFICES ASSUME NEW u \in Tx PROVE Fine(tx[u], held[u], todo[u])'
  BY DEF FineInv
<1>1. /\ tx' = [tx EXCEPT ![t] = Idle] /\ todo' = [todo EXCEPT ![t] = {}]
      /\ held' = [held EXCEPT ![t] = {}]
      /\ \A s \in Split : split[s] = "SETTLED" => split'[s] = "SETTLED"
      /\ \A e \in Expense : expense[e] = "SETTLED" => expense'[e] = "SETTLED"
      /\ DOMAIN tx = Tx /\ DOMAIN todo = Tx /\ DOMAIN held = Tx
  BY DEF Commit, ReleaseAll, TypeOK, LocksTypeOK
<1>2. CASE u = t
  <2>1. tx'[u] = Idle
    BY <1>1, <1>2
  <2> QED
    BY <2>1, IdleFinePrimed
<1>3. CASE u # t
  <2> DEFINE r == tx[u]
  <2>1. tx'[u] = r /\ held'[u] = held[u] /\ todo'[u] = todo[u]
    BY <1>1, <1>3
  <2>2. Fine(r, held[u], todo[u])
    BY DEF FineInv
  <2>3. LinksItsOwn(tx[u], held[u], todo[u])'
    <3>1. ASSUME r.op = "cover", r.at = "commit", NEW s \in r.cands
          PROVE  SplitLock(s) \in held[u] /\ s \notin Linked'
      <4>1. SplitLock(s) \in held[u] /\ s \notin Linked
        BY <2>2, <3>1 DEF Fine, LinksItsOwn
      <4>2. ASSUME tx[t].op = "cover", s \in tx[t].cands PROVE FALSE
        <5>1. tx[t].at = "commit"
          BY DEF Commit, At
        <5>2. SplitLock(s) \in held[t]
          BY <4>2, <5>1 DEF FineInv, Fine, LinksItsOwn
        <5> QED
          BY <1>3, <4>1, <5>2, RowsDiffer
      <4> QED
        BY <4>1, <4>2, CommitLinks
    <3> QED
      BY <2>1, <2>2, <3>1 DEF Fine, LinksItsOwn, SplitLock
  <2>4. Withdraws(tx[u])'
    BY <2>1, <2>2 DEF Fine, Withdraws
  <2>5. ASSUME NoLateRejection PROVE Closes(tx[u], held[u], todo[u])'
    <3>1. Closes(r, held[u], todo[u])
      BY <2>2, <2>5 DEF Fine
    <3>2. \A c \in Owned(r) : claim'[c] = claim[c]
      <4>1. Owned(r) \subseteq Claim /\ Owned(r) \cap tx[t].done = {}
        BY <1>3, OwnersDiffer DEF Owned, TypeOK, TxState
      <4> QED
        BY <4>1, CommitClaims DEF TxInv, Good, OwnsClaims
    <3>3. /\ Handled(tx[u])' = Handled(r)
          /\ On(Covers(Handled(tx[u])))' = On(Covers(Handled(r)))
          /\ On(Covers(tx[u].done))' = On(Covers(r.done))
          /\ r.at \in {"rows", "payer"} => On(Covers(tx[u].cur))' = On(Covers(r.cur))
      <4>1. Handled(tx[u])' = Handled(r)
        BY <2>1 DEF Handled
      <4>2. \A C : C \subseteq Owned(r) => On(Covers(C))' = On(Covers(C))
        BY <3>2 DEF On, Covers
      <4>3. Handled(r) \subseteq Owned(r) /\ r.done \subseteq Owned(r)
            /\ (r.at \in {"rows", "payer"} => r.cur \subseteq Owned(r))
        BY DEF Handled, Owned
      <4> QED
        BY <2>1, <3>2, <4>1, <4>3 DEF On, Covers
    <3>4. HoldsExpenses(tx[u], held[u], todo[u])'
      BY <2>1, <3>1, <3>3 DEF Closes, HoldsExpenses, ExpenseLock
    <3>5. InHand(tx[u])' = InHand(r)
      BY <2>1, <3>3 DEF InHand
    <3>6. ClosesAll(tx[u])'
      <4> SUFFICES ASSUME r.op # "reject"
                   PROVE  /\ r.flips \subseteq On(Covers(r.done))
                          /\ \A s \in SplitsOn(On(Covers(Handled(r)))) :
                               IsPayers(s) => SettledBy(r, s)'
                          /\ \A e \in On(Covers(r.done)) \ InHand(r) :
                               (\A s \in SplitsOn({e}) : s \in r.settles \/ split'[s] = "SETTLED")
                                 => e \in r.flips \/ expense'[e] = "SETTLED"
        BY <2>1, <3>3, <3>5 DEF ClosesAll, SettledBy, SplitsOn, IsPayers
      <4>1. ClosesAll(r)
        BY <3>1 DEF Closes
      <4>2. \A s \in SplitsOn(On(Covers(Handled(r)))) : IsPayers(s) => SettledBy(r, s)'
        BY <1>1, <2>1, <4>1 DEF ClosesAll, SettledBy, SplitsOn
      <4>3. ASSUME NEW e \in On(Covers(r.done)) \ InHand(r),
                   \A s \in SplitsOn({e}) : s \in r.settles \/ split'[s] = "SETTLED"
            PROVE  e \in r.flips \/ expense'[e] = "SETTLED"
        <5>1. ExpenseLock(e) \in held[u]
          <6>1. e \in On(Covers(Handled(r)))
            BY <4>3, CoversBoth DEF Handled
          <6> QED
            BY <3>1, <6>1 DEF Closes, HoldsExpenses
        <5>2. \A s \in SplitsOn({e}) : split'[s] = split[s]
          <6>1. SUFFICES ASSUME NEW s \in SplitsOn({e}), split'[s] # split[s] PROVE FALSE
            OBVIOUS
          <6>2. s \in Split /\ ExpenseOf[s] = e
            BY <6>1 DEF SplitsOn
          <6>3. ExpenseLock(e) \in held[t]
            BY <2>5, <6>1, <6>2, CommitHolds
          <6> QED
            BY <1>3, <5>1, <6>3, RowsDiffer
        <5>3. \A s \in SplitsOn({e}) : SettledBy(r, s)
          BY <4>3, <5>2 DEF SettledBy
        <5>4. e \in r.flips \/ expense[e] = "SETTLED"
          BY <4>1, <4>3, <5>3 DEF ClosesAll
        <5>5. e \in Expense
          BY SettlementAssumption, <4>3 DEF On, Covers, TypeOK, TxState, ClaimRow
        <5> QED
          BY <1>1, <5>4, <5>5
      <4> QED
        BY <4>1, <4>2, <4>3 DEF ClosesAll
    <3> QED
      BY <2>1, <3>1, <3>4, <3>6 DEF Closes
  <2> QED
    BY <2>3, <2>4, <2>5 DEF Fine, NoLateRejection
<1> QED
  BY <1>2, <1>3

\* A commit after which every share of an expense is settled settles it too.
LEMMA CommitCompletes ==
  ASSUME TypeOK, TxInv, FineInv, CompleteExpenseIsSettled, NoLateRejection,
         NEW t \in Tx, Commit(t)
  PROVE  CompleteExpenseIsSettled'
<1> SUFFICES ASSUME NEW e \in Expense, SplitsOn({e}) # {},
                    \A s \in SplitsOn({e}) : split'[s] = "SETTLED"
             PROVE  expense'[e] = "SETTLED"
  BY DEF CompleteExpenseIsSettled, SplitsOn
<1>1. expense' = [x \in Expense |-> IF x \in tx[t].flips THEN "SETTLED" ELSE expense[x]]
      /\ split' = [s \in Split |-> IF s \in tx[t].settles THEN "SETTLED" ELSE split[s]]
      /\ tx[t].at = "commit"
  BY DEF Commit, At
<1>2. CASE \A s \in SplitsOn({e}) : split'[s] = split[s]
  <2>1. expense[e] = "SETTLED"
    BY <1>2 DEF CompleteExpenseIsSettled
  <2> QED
    BY <1>1, <2>1
<1>3. ASSUME NEW s \in SplitsOn({e}), split'[s] # split[s]
      PROVE  expense'[e] = "SETTLED"
  <2>1. s \in Split /\ ExpenseOf[s] = e /\ s \in tx[t].settles
    BY <1>1, <1>3 DEF SplitsOn
  <2>2. e \in On(Covers(tx[t].done))
    BY <1>3, <2>1, CommitHolds
  <2>3. tx[t].op # "reject" /\ ClosesAll(tx[t]) /\ InHand(tx[t]) = {}
    BY <1>1, <2>1 DEF TxInv, Good, RejectsOne, FineInv, Fine, Closes, InHand
  <2>4. \A x \in SplitsOn({e}) : SettledBy(tx[t], x)
    BY <1>1 DEF SettledBy, SplitsOn
  <2>5. e \in tx[t].flips \/ expense[e] = "SETTLED"
    BY <2>2, <2>3, <2>4 DEF ClosesAll
  <2> QED
    BY <1>1, <2>5
<1> QED
  BY <1>2, <1>3

\* A commit files one settle-up at most, over splits that no other links.
LEMMA CommitLinksOnce ==
  ASSUME TypeOK, TxInv, FineInv, OneSettleUpPerSplit, NEW t \in Tx, Commit(t)
  PROVE  OneSettleUpPerSplit'
<1> SUFFICES ASSUME NEW c \in Claim, claim'[c].status = "PENDING", claim'[c].aggregate,
                    NEW d \in Claim, claim'[d].status = "PENDING", claim'[d].aggregate,
                    c # d
             PROVE  claim'[c].covers \cap claim'[d].covers = {}
  BY DEF OneSettleUpPerSplit, With
<1>1. \A x \in Claim \ NewRows(t) : claim'[x].status = "PENDING" => claim'[x] = claim[x]
  <2>1. \A x \in Claim : x \in tx[t].done => claim'[x].status # "PENDING"
    BY CommitClaims DEF Decided
  <2> QED
    BY <2>1, CommitFiles
<1>2. ASSUME NEW x \in Claim, NEW y \in Claim \ NewRows(t), x \in NewRows(t),
             claim'[x].aggregate, claim'[y].status = "PENDING", claim'[y].aggregate
      PROVE  claim'[x].covers \cap claim'[y].covers = {}
  <2>1. claim'[x] = NewClaim(t)
    BY <1>2, CommitFiles
  <2>2. claim'[x].covers = tx[t].cands
    BY <2>1 DEF NewClaim
  <2>3. tx[t].op = "cover"
    <3>1. NewClaim(t).aggregate <=> tx[t].op = "cover"
      BY DEF NewClaim
    <3> QED
      BY <1>2, <2>1, <3>1
  <2>4. tx[t].at = "commit"
    BY DEF Commit, At
  <2>5. \A s \in tx[t].cands : s \notin Linked
    BY <1>2, <2>3, <2>4 DEF FineInv, Fine, LinksItsOwn
  <2>6. claim'[y].covers \subseteq Linked
    BY <1>1, <1>2 DEF Linked, Covers, With
  <2> QED
    BY <2>2, <2>5, <2>6
<1>3. CASE c \notin NewRows(t) /\ d \notin NewRows(t)
  BY <1>1, <1>3 DEF OneSettleUpPerSplit, With
<1>4. CASE c \in NewRows(t) /\ d \notin NewRows(t)
  BY <1>2, <1>4
<1>5. CASE c \notin NewRows(t) /\ d \in NewRows(t)
  BY <1>2, <1>5
<1>6. CASE c \in NewRows(t) /\ d \in NewRows(t)
  BY <1>6, CommitFiles
<1> QED
  BY <1>3, <1>4, <1>5, <1>6

\* The second inductive invariant, on top of the first.
WholeInv == /\ IInv /\ FineInv
            /\ expired \subseteq MayExpire
            /\ OneSettleUpPerSplit
            /\ NoLateRejection => CompleteExpenseIsSettled

LEMMA InitWhole == Init => WholeInv
<1> SUFFICES ASSUME Init PROVE WholeInv
  OBVIOUS
<1>1. FineInv
  <2>1. \A t \in Tx : tx[t] = Idle
    BY DEF Init
  <2>2. Idle.done = {} /\ Idle.flips = {} /\ Idle.at = "idle" /\ Idle.cands = {}
        /\ Idle.op = "idle"
    BY DEF Idle
  <2>3. ASSUME NEW t \in Tx PROVE Fine(tx[t], held[t], todo[t])
    <3>1. PICK r, h, q : r = tx[t] /\ h = held[t] /\ q = todo[t]
      OBVIOUS
    <3>2. Fine(r, h, q)
      BY <2>1, <2>2, <3>1, FreshFine
    <3> QED
      BY <3>1, <3>2
  <2> QED
    BY <2>3 DEF FineInv
<1>2. expired \subseteq MayExpire
  BY DEF Init
<1>3. OneSettleUpPerSplit
  BY DEF Init, OneSettleUpPerSplit, With, NoClaim
<1>4. CompleteExpenseIsSettled
  BY DEF Init, CompleteExpenseIsSettled, SplitsOn
<1> QED
  BY <1>1, <1>2, <1>3, <1>4, InitIInv DEF WholeInv

LEMMA NextWhole == WholeInv /\ [Next]_vars => WholeInv'
<1> SUFFICES ASSUME WholeInv, [Next]_vars PROVE WholeInv'
  OBVIOUS
<1>0. /\ IInv /\ FineInv /\ expired \subseteq MayExpire /\ OneSettleUpPerSplit
      /\ TypeOK /\ LocksExclude /\ TxInv
      /\ NoLateRejection => CompleteExpenseIsSettled
  BY DEF WholeInv, IInv
<1>1. IInv'
  BY <1>0, NextIInv
<1>2. FineInv'
  <2>1. ASSUME NEW t \in Tx, Continue(t) PROVE FineInv'
    BY <1>0, <2>1, LockFine, ClaimStepsFine, WriteStepsFine, FileFine, CommitFine,
       RollbackFine DEF Continue, VictimAbort
  <2>2. ASSUME UNCHANGED <<held, todo, split, expense, claim, tx>> PROVE FineInv'
    <3> SUFFICES ASSUME NEW u \in Tx PROVE Fine(tx[u], held[u], todo[u])'
      BY DEF FineInv
    <3> QED
      BY <1>0, <2>2, UntouchedFine DEF FineInv
  <2> QED
    BY <1>0, <2>1, <2>2, RequestsFine DEF Next, vars, WindowCloses
<1>3. expired' \subseteq MayExpire
  <2>1. ASSUME NEW t \in Tx, Continue(t) PROVE expired' = expired
    BY <2>1 DEF Continue, TakeLock, Step, Rollback, NextClaim, SkipClaim, RejectClaim,
       LockRows, SettleSplits, FlipExpenses, FileClaim, FindCoverable, LinkSplits,
       VictimAbort, Commit
  <2>2. ASSUME NEW t \in Tx,
               \/ \E c \in Claim, op \in {"confirm", "reject"} : Answer(t, op, c)
               \/ \E scope \in SweepScopes : Sweep(t, scope)
               \/ \E s \in Split : RequestSettle(t, s)
               \/ \E u, v \in User : RequestSettleUp(t, u, v)
        PROVE  expired' = expired
    BY <2>2 DEF Answer, Sweep, RequestSettle, RequestSettleUp, Step
  <2>3. ASSUME NEW c \in Claim, WindowCloses(c) PROVE expired' \subseteq MayExpire
    BY <1>0, <2>3 DEF WindowCloses
  <2> QED
    BY <1>0, <2>1, <2>2, <2>3 DEF Next, vars
<1>4. ASSUME UNCHANGED <<split, expense, claim>>
      PROVE  OneSettleUpPerSplit' /\ (NoLateRejection => CompleteExpenseIsSettled')
  BY <1>0, <1>4 DEF OneSettleUpPerSplit, With, CompleteExpenseIsSettled, SplitsOn
<1>5. OneSettleUpPerSplit' /\ (NoLateRejection => CompleteExpenseIsSettled')
  BY <1>0, <1>4, CommitLinksOnce, CommitCompletes, OnlyCommitWrites
<1> QED
  BY <1>1, <1>2, <1>3, <1>5 DEF WholeInv, NoLateRejection

LEMMA InductiveWhole == Spec => []WholeInv
<1> QED
  BY InitWhole, NextWhole, PTL DEF Spec

\* Two settle-ups never cover the same split, however the requests of the
\* pair race (create_aggregate_settlement: the candidates stay locked from
\* the query to the commit, and a link to a split is unique).
THEOREM OneSettleUpEach == Spec => []OneSettleUpPerSplit
<1>1. WholeInv => OneSettleUpPerSplit
  BY DEF WholeInv
<1> QED
  BY <1>1, InductiveWhole, PTL

\* Of the confirmations that race for the last shares of an expense one
\* settles it (confirm_settlement_claim: the expense lock).  The hypothesis
\* is needed: a rejection that comes after the window confirms without that
\* lock, and can leave the expense behind.
THEOREM ExpensesAreClosed == NoLateRejection => (Spec => []CompleteExpenseIsSettled)
<1> SUFFICES ASSUME NoLateRejection PROVE Spec => []CompleteExpenseIsSettled
  OBVIOUS
<1>1. WholeInv => CompleteExpenseIsSettled
  BY DEF WholeInv
<1> QED
  BY <1>1, InductiveWhole, PTL

-----------------------------------------------------------------------------
(* The refinement: with every lock, phase and re-read, what is committed    *)
(* moves as ClaimContract says, one step of it per commit.                  *)

\* What a commit writes, in the terms of the contract.
LEMMA CommitWrites ==
  ASSUME WholeInv, NoLateRejection, NEW t \in Tx, Commit(t), tx[t].op # "reject"
  PROVE  /\ \A s \in Split : split'[s] = "SETTLED" <=>
              \/ split[s] = "SETTLED"
              \/ s \in Covers(tx[t].done)
              \/ IsPayers(s) /\ ExpenseOf[s] \in On(Covers(tx[t].done))
         /\ \A e \in Expense : expense'[e] = "SETTLED" <=>
              \/ expense[e] = "SETTLED"
              \/ /\ e \in On(Covers(tx[t].done))
                 /\ \A s \in SplitsOn({e}) : split'[s] = "SETTLED"
<1> DEFINE r == tx[t]
           S == Covers(r.done)
<1>0. TypeOK /\ TxInv /\ FineInv /\ r \in TxState
  BY DEF WholeInv, IInv, TypeOK
<1>1. /\ split' = [s \in Split |-> IF s \in r.settles THEN "SETTLED" ELSE split[s]]
      /\ expense' = [e \in Expense |-> IF e \in r.flips THEN "SETTLED" ELSE expense[e]]
      /\ r.at = "commit"
  BY DEF Commit, At
<1>2. Owned(r) = r.done /\ Handled(r) = r.done /\ InHand(r) = {}
  BY <1>1 DEF Owned, Handled, InHand
<1>3. WritesWhatIsOwed(r) /\ ClosesAll(r)
  BY <1>0 DEF TxInv, Good, FineInv, Fine, Closes
<1>4. S \subseteq r.settles
  BY <1>3 DEF WritesWhatIsOwed, Covers
<1>5. \A s \in r.settles : s \in S \/ (IsPayers(s) /\ ExpenseOf[s] \in On(S))
  <2> SUFFICES ASSUME NEW s \in r.settles
               PROVE  s \in S \/ (IsPayers(s) /\ ExpenseOf[s] \in On(S))
    OBVIOUS
  <2>1. PICK c \in r.done : OwedTo(s, c)
    BY <1>2, <1>3 DEF WritesWhatIsOwed
  <2>2. claim[c].covers \subseteq S /\ On(claim[c].covers) \subseteq On(S)
    BY DEF Covers, On
  <2> QED
    BY <2>1, <2>2 DEF OwedTo
<1>6. \A s \in Split : IsPayers(s) /\ ExpenseOf[s] \in On(S) => SettledBy(r, s)
  <2>1. \A s \in Split : ExpenseOf[s] \in On(S) => s \in SplitsOn(On(S))
    BY DEF SplitsOn
  <2> QED
    BY <1>2, <1>3, <2>1 DEF ClosesAll
<1> HIDE DEF S
<1>7. \A s \in Split : split'[s] = "SETTLED" <=>
        split[s] = "SETTLED" \/ s \in S \/ (IsPayers(s) /\ ExpenseOf[s] \in On(S))
  BY <1>1, <1>4, <1>5, <1>6 DEF SettledBy
<1>8. \A e \in r.flips : e \in On(S) /\ \A s \in SplitsOn({e}) : split'[s] = "SETTLED"
  <2>1. r.flips \subseteq On(S)
    BY <1>3 DEF ClosesAll, S
  <2> QED
    BY <1>1, <1>3, <2>1 DEF WritesWhatIsOwed, SettledBy, SplitsOn
<1>9. \A e \in On(S) : (\A s \in SplitsOn({e}) : split'[s] = "SETTLED")
                         => e \in r.flips \/ expense[e] = "SETTLED"
  <2> SUFFICES ASSUME NEW e \in On(S), \A s \in SplitsOn({e}) : split'[s] = "SETTLED"
               PROVE  e \in r.flips \/ expense[e] = "SETTLED"
    OBVIOUS
  <2>1. \A s \in SplitsOn({e}) : SettledBy(r, s)
    BY <1>1 DEF SettledBy, SplitsOn
  <2> QED
    BY <1>2, <1>3, <2>1 DEF ClosesAll, S
<1>10. \A e \in Expense : expense'[e] = "SETTLED" <=>
         \/ expense[e] = "SETTLED"
         \/ e \in On(S) /\ \A s \in SplitsOn({e}) : split'[s] = "SETTLED"
  BY <1>1, <1>8, <1>9
<1> QED
  BY <1>7, <1>10 DEF S

\* A rejection that commits withdraws its claim, if it did not skip it.
LEMMA RejectionWithdraws ==
  ASSUME WholeInv, NoLateRejection, NEW t \in Tx, Commit(t), tx[t].op = "reject"
  PROVE  (\E c \in Claim : Contract!Withdraw(c)) \/ UNCHANGED Contract!cvars
<1> DEFINE r == tx[t]
<1>0. TypeOK /\ TxInv /\ FineInv /\ r \in TxState
  BY DEF WholeInv, IInv, TypeOK
<1>1. r.settles = {} /\ r.flips = {} /\ r.cands = {}
      /\ (r.done = {} \/ \E c \in Claim : r.done = {c})
  BY <1>0 DEF TxInv, Good, RejectsOne, FineInv, Fine, Withdraws
<1>2. (\A s \in Split : split'[s] = split[s]) /\ (\A e \in Expense : expense'[e] = expense[e])
  BY <1>1 DEF Commit
<1>3. {s \in Split : split'[s] = "SETTLED"} = {s \in Split : split[s] = "SETTLED"}
      /\ {e \in Expense : expense'[e] = "SETTLED"} = {e \in Expense : expense[e] = "SETTLED"}
  BY <1>2
<1>4. NewRows(t) = {}
  BY <1>1 DEF NewRows
<1>5. \A c \in Claim \ r.done : claim'[c] = claim[c]
  BY <1>0, <1>4, CommitFiles
<1>6. \A c \in Claim : c \in r.done => /\ claim[c].status = "PENDING"
                                       /\ claim'[c].status = "REJECTED"
                                       /\ claim'[c].covers = claim[c].covers
  BY <1>0, CommitClaims DEF Decided
<1>7. [c \in Claim |-> claim'[c].covers] = [c \in Claim |-> claim[c].covers]
  BY <1>5, <1>6
<1>8. CASE r.done = {}
  <2>1. [c \in Claim |-> claim'[c].status] = [c \in Claim |-> claim[c].status]
    BY <1>5, <1>8
  <2> QED
    BY <1>3, <1>7, <2>1 DEF Contract!cvars
<1>9. ASSUME NEW c \in Claim, r.done = {c} PROVE Contract!Withdraw(c)
  <2>1. claim[c].status = "PENDING"
    BY <1>6, <1>9
  <2>2. [d \in Claim |-> claim'[d].status]
        = [[d \in Claim |-> claim[d].status] EXCEPT ![c] = "REJECTED"]
    BY <1>5, <1>6, <1>9
  <2> QED
    BY <1>3, <1>7, <2>1, <2>2 DEF Contract!Withdraw
<1> QED
  BY <1>1, <1>8, <1>9

\* Any other commit honours its claims and files at most one.
LEMMA CommitHonours ==
  ASSUME WholeInv, NoLateRejection, NEW t \in Tx, Commit(t), tx[t].op # "reject",
         NEW c0 \in Claim
  PROVE  \E C \in SUBSET Claim, c \in Claim, S \in SUBSET Split :
           Contract!HonourAndFile(C, c, S)
<1> DEFINE r == tx[t]
           C == r.done
<1>0. /\ TypeOK /\ TxInv /\ r \in TxState /\ C \subseteq Claim
      /\ \A d \in Claim : claim[d] \in ClaimRow
  BY DEF WholeInv, IInv, TypeOK, TxState
<1>1. PICK c \in Claim, S \in SUBSET Split :
        /\ NewRows(t) = {} => c = c0 /\ S = {}
        /\ NewRows(t) # {} => c \in NewRows(t) /\ S = r.cands /\ S # {}
  <2>1. CASE NewRows(t) = {}
    BY <2>1
  <2>2. CASE NewRows(t) # {}
    BY <1>0, <2>2, CommitFiles DEF TxState
  <2> QED
    BY <2>1, <2>2
<1>2. NewRows(t) = IF S = {} THEN {} ELSE {c}
  BY <1>0, <1>1, CommitFiles
<1>3. S # {} => claim[c].status = "NONE" /\ claim'[c].status = "PENDING"
                /\ claim'[c].covers = S
  <2>1. S # {} => claim[c].status = "NONE" /\ claim'[c] = NewClaim(t) /\ S = tx[t].cands
    BY <1>0, <1>1, CommitFiles
  <2>2. NewClaim(t).status = "PENDING"
    BY DEF NewClaim
  <2>3. NewClaim(t).covers = tx[t].cands
    BY DEF NewClaim
  <2> QED
    BY <2>1, <2>2, <2>3
<1>4. \A d \in C : claim[d].status = "PENDING"
  BY <1>0 DEF TxInv, Good, OwnsClaims, Owned
<1>5. \A d \in Claim : d \in C => claim'[d].status = "CONFIRMED"
                                  /\ claim'[d].covers = claim[d].covers
  BY <1>0, CommitClaims DEF Decided
<1>6. \A d \in Claim : d \notin C /\ ~(d = c /\ S # {}) => claim'[d] = claim[d]
  BY <1>0, <1>2, CommitFiles
<1>7. [d \in Claim |-> claim'[d].status]
      = [d \in Claim |-> IF d \in C THEN "CONFIRMED"
                         ELSE IF d = c /\ S # {} THEN "PENDING"
                         ELSE [x \in Claim |-> claim[x].status][d]]
  BY <1>3, <1>4, <1>5, <1>6
<1>8. [d \in Claim |-> claim'[d].covers]
      = IF S = {} THEN [d \in Claim |-> claim[d].covers]
        ELSE [[d \in Claim |-> claim[d].covers] EXCEPT ![c] = S]
  BY <1>3, <1>4, <1>5, <1>6
<1> DEFINE cov == UNION {[x \in Claim |-> claim[x].covers][d] : d \in C}
<1>9. cov = Covers(C) /\ cov \subseteq Split
  BY <1>0, RowTypes DEF Covers
<1>10. Contract!Touched(cov) = On(cov)
  BY DEF Contract!Touched, On
<1>11. {s \in Split : split'[s] = "SETTLED"}
       = {s \in Split : split[s] = "SETTLED"} \cup cov
         \cup Contract!Shares(Contract!Touched(cov))
  <2>1. \A s \in Split : split'[s] = "SETTLED" <=>
          \/ split[s] = "SETTLED" \/ s \in cov
          \/ IsPayers(s) /\ ExpenseOf[s] \in On(cov)
    BY <1>9, CommitWrites
  <2> HIDE DEF cov
  <2> QED
    BY <1>9, <1>10, <2>1 DEF Contract!Shares
<1>12. {e \in Expense : expense'[e] = "SETTLED"}
       = {e \in Expense : expense[e] = "SETTLED"}
         \cup Contract!Complete(Contract!Touched(cov),
                                {s \in Split : split'[s] = "SETTLED"})
  <2>1. \A e \in Expense : expense'[e] = "SETTLED" <=>
          \/ expense[e] = "SETTLED"
          \/ e \in On(cov) /\ \A s \in SplitsOn({e}) : split'[s] = "SETTLED"
    BY <1>9, CommitWrites
  <2> HIDE DEF cov
  <2>2. On(cov) \subseteq Expense
    <3>1. \A s \in Split : ExpenseOf[s] \in Expense
      BY SettlementAssumption
    <3>2. cov \subseteq Split
      BY <1>9
    <3> QED
      BY <3>1, <3>2 DEF On
  <2>3. \A e : (\A s \in SplitsOn({e}) : split'[s] = "SETTLED") <=>
          (\A s \in Split : ExpenseOf[s] = e
             => s \in {x \in Split : split'[x] = "SETTLED"})
    BY DEF SplitsOn
  <2> QED
    BY <1>10, <2>1, <2>2, <2>3 DEF Contract!Complete
<1>13. Contract!HonourAndFile(C, c, S)
  <2>1. \A d \in C : [x \in Claim |-> claim[x].status][d] = "PENDING"
    BY <1>0, <1>4
  <2>2. S # {} => [x \in Claim |-> claim[x].status][c] = "NONE"
    BY <1>3
  <2> QED
    BY <1>7, <1>8, <1>11, <1>12, <2>1, <2>2, Zenon DEF Contract!HonourAndFile
<1> QED
  BY <1>0, <1>13

\* Every step is a step of the contract, or none.
LEMMA StepRefines ==
  ASSUME WholeInv, NoLateRejection, [Next]_vars
  PROVE  [Contract!Next]_(Contract!cvars)
<1>1. ASSUME UNCHANGED <<split, expense, claim>> PROVE UNCHANGED Contract!cvars
  BY <1>1 DEF Contract!cvars
<1>2. ASSUME NEW t \in Tx, Commit(t) PROVE Contract!Next \/ UNCHANGED Contract!cvars
  <2>1. CASE tx[t].op = "reject"
    BY <1>2, <2>1, RejectionWithdraws DEF Contract!Next
  <2>2. CASE tx[t].op # "reject" /\ Claim # {}
    BY <1>2, <2>2, CommitHonours DEF Contract!Next
  <2>3. CASE tx[t].op # "reject" /\ Claim = {}
    <3>1. TypeOK /\ TxInv /\ FineInv
      BY DEF WholeInv, IInv
    <3>2. tx[t].done = {} /\ On(Covers({})) = {} /\ Covers({}) = {}
      BY <2>3, <3>1 DEF TypeOK, TxState, On, Covers
    <3>3. /\ \A s \in Split : split'[s] = "SETTLED" <=> split[s] = "SETTLED"
          /\ \A e \in Expense : expense'[e] = "SETTLED" <=> expense[e] = "SETTLED"
      BY <1>2, <2>3, <3>2, CommitWrites
    <3>4. {s \in Split : split'[s] = "SETTLED"} = {s \in Split : split[s] = "SETTLED"}
          /\ {e \in Expense : expense'[e] = "SETTLED"}
             = {e \in Expense : expense[e] = "SETTLED"}
      BY <3>3
    <3>5. [c \in Claim |-> claim'[c].status] = [c \in Claim |-> claim[c].status]
          /\ [c \in Claim |-> claim'[c].covers] = [c \in Claim |-> claim[c].covers]
      BY <2>3
    <3> QED
      BY <3>4, <3>5 DEF Contract!cvars
  <2> QED
    BY <2>1, <2>2, <2>3
<1> QED
  BY <1>1, <1>2, OnlyCommitWrites

LEMMA InitRefines == Init => Contract!Init
  BY DEF Init, Contract!Init, NoClaim

\* The locking protocol implements the contract of claims: each commit
\* honours whole claims, with the payers' shares and exactly the expenses it
\* completes, files one, or withdraws one.  As above, while no rejection
\* comes after the window of its claim.
THEOREM ImplementsContract == NoLateRejection => (Spec => KeepsContract)
<1> SUFFICES ASSUME NoLateRejection PROVE Spec => KeepsContract
  OBVIOUS
<1>1. WholeInv /\ [Next]_vars => [Contract!Next]_(Contract!cvars)
  BY StepRefines
<1> QED
  BY <1>1, InitRefines, InductiveWhole, PTL DEF Spec, KeepsContract, Contract!Spec

-----------------------------------------------------------------------------
(* Deadlock.  Give every lock a place in one global order: claims, then     *)
(* splits, then expenses, then the payers' own shares, each by id.  Where   *)
(* every transaction takes its locks upwards in it, nobody waits in a       *)
(* circle.  The code departs from the order in five ways, and each of them  *)
(* is a deadlock TLC can show: InOrder says that none of them happens.      *)

InOrder(r, h, q) ==
  /\ r.op # "late"                        \* no rejection comes too late
  /\ \A s \in r.cands : ~IsPayers(s)      \* nobody claims a payer's share
  \* a transaction has one claim to decide, and a settle-up sweeps none
  /\ \A c, d \in r.queue \cup r.cur \cup r.done : c = d
  /\ r.op = "cover" => r.queue \cup r.cur \cup r.done = {}
  \* audit rows are inserted in the order of their expenses' ids
  /\ \A k \in h, l \in q :
       k.mode = "FOR KEY SHARE" /\ l.mode = "FOR KEY SHARE" => k.id < l.id
AllInOrder == \A t \in Tx : InOrder(tx[t], held[t], todo[t])

Level(l) ==
  IF l.table = "claim" THEN 1
  ELSE IF l.table = "expense" THEN 3
  ELSE IF IsPayers(l.id) THEN 4 ELSE 2
Place(l) == IF Level(l) = 4 THEN ExpenseOf[l.id] ELSE l.id
Below(k, l) ==
  \/ Level(k) < Level(l)
  \/ Level(k) = Level(l) /\ Place(k) < Place(l)

\* The statements of a step take what they need from the bottom up
Shares(k, l) == k.mode = "FOR KEY SHARE" /\ l.mode = "FOR KEY SHARE"
Leads(k, l) == Below(k, l) /\ (Before(k, l) \/ Shares(k, l))
Sorted(q) == \A k, l \in q : k # l => Leads(k, l) \/ Leads(l, k)

\* Rows that exist
Rows == Claim \cup Split \cup Expense
Known(l) ==
  /\ l \in Lock /\ l.id \in Rows
  /\ l.table = "split" => l.id \in Split
  /\ l.mode = "FOR KEY SHARE" => l.table = "expense"

\* How high a transaction has climbed
Top(at) ==
  IF at = "claim" THEN 1
  ELSE IF at \in {"settle", "cover"} THEN 2
  ELSE IF at = "rows" THEN 3
  ELSE IF at \in {"payer", "commit"} THEN 4 ELSE 0

Climbs(r, h, q) ==
  /\ \A k \in h, l \in q : Below(k, l)
  /\ Sorted(q)
  /\ \A k \in h \cup q : Known(k) /\ Level(k) <= Top(r.at)
  /\ r.at \in {"claim", "rows", "payer"} =>
       r.cur # {} /\ r.cur \cap r.queue = {} /\ r.cur \in SUBSET Claim
  /\ r.at = "settle" => r.queue = {} /\ r.op # "cover"

ClimbInv ==
  /\ \A t \in Tx : Climbs(tx[t], held[t], todo[t])
  /\ \A c \in Claim : \A s \in claim[c].covers : ~IsPayers(s)

\* A set of numbers that is not empty has a least one,
LEMMA SmallestExists ==
  ASSUME NEW S \in SUBSET Nat, S # {}
  PROVE  \E x \in S : \A y \in S : x <= y
<1> DEFINE Down(x) == {y \in S : y < x}
<1> DEFINE F == {Down(x) : x \in S}
<1>1. ASSUME NEW x \in S PROVE Down(x) \in FiniteSubsetsOf(Nat)
  <2>0. 0 \in Int /\ x \in Int /\ x \in Nat
    OBVIOUS
  <2>1. IsFiniteSet(0 .. x) /\ Down(x) \in SUBSET (0 .. x)
    <3>1. IsFiniteSet(0 .. x)
      BY <2>0, FS_Interval, Zenon
    <3>2. \A y \in Nat : y < x => y \in 0 .. x
      BY <2>0
    <3> QED
      BY <3>1, <3>2
  <2>2. IsFiniteSet(Down(x))
    <3> HIDE DEF Down
    <3> QED
      BY <2>1, FS_Subset
  <2> QED
    BY <2>2 DEF FiniteSubsetsOf
<1>2. F \subseteq FiniteSubsetsOf(Nat) /\ F # {}
  BY <1>1
<1>3. PICK D \in F : \A E \in F : ~(<<E, D>> \in StrictSubsetOrdering(Nat))
  <2>1. IsWellFoundedOn(StrictSubsetOrdering(Nat), FiniteSubsetsOf(Nat))
    BY FS_StrictSubsetOrderingWellFounded
  <2> HIDE DEF F
  <2> QED
    BY <1>2, <2>1, WFMin
<1>4. PICK m \in S : D = Down(m)
  OBVIOUS
<1>5. ASSUME NEW y \in S, y < m PROVE FALSE
  <2>0. /\ m \in Nat /\ y \in Nat /\ ~(y < y)
        /\ \A z \in Nat : z < y => z < m
    BY <1>5
  <2>1. Down(y) \subseteq Down(m) /\ y \in Down(m) /\ y \notin Down(y)
    BY <1>5, <2>0, Zenon
  <2>2. <<Down(y), Down(m)>> \in StrictSubsetOrdering(Nat)
    BY <2>1 DEF StrictSubsetOrdering
  <2> QED
    BY <1>3, <1>4, <2>2
<1> HIDE DEF F, Down
<1>6. \A y \in S : y \in Nat /\ m \in Nat /\ ~(y < m)
  BY <1>5
<1>7. \A y \in S : m <= y
  BY <1>6
<1> QED
  BY <1>7

\* and if it is finite a greatest one.
LEMMA LargestExists ==
  ASSUME NEW S \in SUBSET Nat, IsFiniteSet(S), S # {}
  PROVE  \E x \in S : \A y \in S : y <= x
<1> DEFINE Up(x) == {y \in S : x < y}
<1> DEFINE F == {Up(x) : x \in S}
<1>1. F \subseteq FiniteSubsetsOf(S) /\ F # {}
  <2>1. F \subseteq SUBSET S /\ F # {}
    OBVIOUS
  <2>2. FiniteSubsetsOf(S) = SUBSET S
    BY FS_FiniteSubsetsOfFinite
  <2> HIDE DEF F
  <2> QED
    BY <2>1, <2>2
<1>2. PICK D \in F : \A E \in F : ~(<<E, D>> \in StrictSubsetOrdering(S))
  <2>1. IsWellFoundedOn(StrictSubsetOrdering(S), FiniteSubsetsOf(S))
    BY FS_StrictSubsetOrderingWellFounded
  <2> HIDE DEF F
  <2> QED
    BY <1>1, <2>1, WFMin
<1>3. PICK m \in S : D = Up(m)
  OBVIOUS
<1>4. ASSUME NEW y \in S, m < y PROVE FALSE
  <2>0. /\ m \in Nat /\ y \in Nat /\ ~(y < y)
        /\ \A z \in Nat : y < z => m < z
    BY <1>4
  <2>1. Up(y) \subseteq Up(m) /\ y \in Up(m) /\ y \notin Up(y)
    BY <1>4, <2>0, Zenon
  <2>2. <<Up(y), Up(m)>> \in StrictSubsetOrdering(S)
    BY <2>1 DEF StrictSubsetOrdering
  <2> QED
    BY <1>2, <1>3, <2>2
<1> HIDE DEF F, Up
<1>5. \A y \in S : y \in Nat /\ m \in Nat /\ ~(m < y)
  BY <1>4
<1>6. \A y \in S : y <= m
  BY <1>5
<1> QED
  BY <1>6

\* The four levels.
LEMMA Levels4 ==
  ASSUME NEW l, l.table \in Table
  PROVE  /\ l.table = "claim" => Level(l) = 1 /\ Place(l) = l.id
         /\ l.table = "expense" => Level(l) = 3 /\ Place(l) = l.id
         /\ l.table = "split" /\ ~IsPayers(l.id) => Level(l) = 2 /\ Place(l) = l.id
         /\ l.table = "split" /\ IsPayers(l.id) =>
              Level(l) = 4 /\ Place(l) = ExpenseOf[l.id]
         /\ Level(l) \in 1 .. 4
         /\ l.table \in {"claim", "expense", "split"}
<1>1. CASE l.table = "claim"
  <2>1. Level(l) = 1
    BY <1>1 DEF Level
  <2> QED
    BY <1>1, <2>1 DEF Place
<1>2. CASE l.table = "expense"
  <2>1. Level(l) = 3
    BY <1>2 DEF Level
  <2> QED
    BY <1>2, <2>1 DEF Place
<1>3. CASE l.table = "split" /\ ~IsPayers(l.id)
  <2>1. Level(l) = 2
    BY <1>3 DEF Level
  <2> QED
    BY <1>3, <2>1 DEF Place
<1>4. CASE l.table = "split" /\ IsPayers(l.id)
  <2>1. Level(l) = 4
    BY <1>4 DEF Level
  <2> QED
    BY <1>4, <2>1 DEF Place
<1> QED
  BY <1>1, <1>2, <1>3, <1>4 DEF Table

LEMMA KnownTable == ASSUME NEW l, Known(l) PROVE l.table \in Table
BY DEF Known, Lock

\* Places are numbers, levels are four of them.
LEMMA Ranks ==
  ASSUME NEW l, Known(l)
  PROVE  /\ Level(l) \in 1 .. 4 /\ Place(l) \in Rows
         /\ Rows \subseteq Nat /\ IsFiniteSet(Rows)
<1>1. Rows \subseteq Nat /\ IsFiniteSet(Rows)
  <2>1. IsFiniteSet(Claim \cup Split)
    BY SettlementAssumption, FS_Union
  <2> QED
    BY <2>1, SettlementAssumption, FS_Union DEF Rows
<1>2. l.table \in Table
  BY KnownTable
<1>3. l.id \in Rows /\ (l.table = "split" => ExpenseOf[l.id] \in Rows)
  BY SettlementAssumption DEF Known, Rows
<1>4. Place(l) \in Rows
  BY <1>2, <1>3, Levels4
<1>5. Level(l) \in 1 .. 4
  BY <1>2, Levels4
<1> QED
  BY <1>1, <1>4, <1>5

\* A transaction that waits, waits for its lowest lock.
LEMMA LowestIsNext ==
  ASSUME NEW t \in Tx, todo[t] # {}, Sorted(todo[t]), \A l \in todo[t] : Known(l)
  PROVE  NextLocks(t) # {}
<1> DEFINE Levels == {Level(l) : l \in todo[t]}
<1>1. PICK n \in Levels : \A m \in Levels : n <= m
  <2>1. Levels \subseteq Nat /\ Levels # {}
    BY Ranks
  <2> HIDE DEF Levels
  <2> QED
    BY <2>1, SmallestExists
<1> DEFINE Places == {Place(l) : l \in {k \in todo[t] : Level(k) = n}}
<1>2. PICK p \in Places : \A m \in Places : p <= m
  <2>1. Places \subseteq Nat /\ Places # {}
    BY <1>1, Ranks
  <2> HIDE DEF Places
  <2> QED
    BY <2>1, SmallestExists
<1>3. PICK l \in todo[t] : Level(l) = n /\ Place(l) = p
  BY <1>2
<1>4. ASSUME NEW k \in todo[t] PROVE ~Below(k, l)
  <2>1. /\ n <= Level(k) /\ Level(k) \in Nat /\ n \in Nat
        /\ Place(k) \in Nat /\ p \in Nat
    BY <1>1, <1>3, Ranks
  <2>2. Level(k) = n => p <= Place(k)
    BY <1>2
  <2> HIDE DEF Levels, Places
  <2> QED
    BY <1>3, <2>1, <2>2 DEF Below
<1>5. ASSUME NEW k \in todo[t], Before(k, l) PROVE FALSE
  <2>1. /\ k.table = "split" => ExpenseOf[k.id] \in Nat
        /\ l.table = "split" => ExpenseOf[l.id] \in Nat
    BY SettlementAssumption DEF Known, Lock
  <2>2. k.id \in Nat /\ l.id \in Nat
    BY DEF Known, Lock
  <2> HIDE DEF Levels, Places
  <2>3. k # l
    <3>1. ~(k.id < k.id) /\ (k.table = "split" => ~(ExpenseOf[k.id] < ExpenseOf[k.id]))
      BY <2>1, <2>2
    <3> QED
      BY <1>5, <3>1 DEF Before
  <2>4. Leads(l, k)
    BY <1>4, <2>3 DEF Sorted, Leads
  <2>5. ~Shares(l, k)
    BY <1>5 DEF Before, Shares
  <2>6. Before(l, k)
    BY <2>4, <2>5 DEF Leads
  <2>7. CASE k.mode = "FOR UPDATE"
    <3>1. k.table = l.table => k.id < l.id
      BY <1>5, <2>7 DEF Before
    <3>2. k.table = l.table => l.id < k.id
      BY <2>6, <2>7 DEF Before
    <3>3. k.table = l.table
      BY <1>5, <2>6, <2>7 DEF Before
    <3> QED
      BY <2>2, <3>1, <3>2, <3>3
  <2>8. CASE k.mode # "FOR UPDATE"
    <3>1. k.table = "split" /\ l.table = "split" /\ ExpenseOf[k.id] < ExpenseOf[l.id]
      BY <1>5, <2>8 DEF Before
    <3>2. ExpenseOf[l.id] < ExpenseOf[k.id]
      BY <2>6, <2>8 DEF Before
    <3> QED
      BY <2>1, <3>1, <3>2
  <2> QED
    BY <2>7, <2>8
<1> QED
  BY <1>3, <1>5 DEF NextLocks

\* Whoever stands in another's way waits for something higher.
LEMMA WaitsClimb ==
  ASSUME TypeOK, ClimbInv, NEW S \in SUBSET Tx, Deadlock(S),
         NEW t \in S, NEW l \in NextLocks(t)
  PROVE  \E u \in S : \E m \in NextLocks(u) : Below(l, m)
<1>1. PICK u \in S : \E k \in held[u] : Conflict(k, l)
  BY DEF Deadlock, WaitsFor, Blockers
<1>2. PICK k \in held[u] : Conflict(k, l)
  BY <1>1
<1>3. Level(k) = Level(l) /\ Place(k) = Place(l)
  BY <1>2 DEF Conflict, Level, Place
<1>4. Climbs(tx[u], held[u], todo[u]) /\ todo[u] # {}
  BY DEF ClimbInv, Deadlock, WaitsFor
<1>5. PICK m \in NextLocks(u) : TRUE
  BY <1>4, LowestIsNext DEF Climbs
<1>6. Below(k, m)
  BY <1>4, <1>5 DEF Climbs, NextLocks
<1> QED
  BY <1>3, <1>5, <1>6 DEF Below

\* So there is no circle.
LEMMA NobodyWaitsInACircle == TypeOK /\ ClimbInv => NoDeadlock
<1> SUFFICES ASSUME TypeOK, ClimbInv, NEW S \in SUBSET Tx, Deadlock(S)
             PROVE  FALSE
  BY DEF NoDeadlock
<1> DEFINE W == UNION {NextLocks(t) : t \in S}
<1>1. \A l \in W : Known(l) /\ \E m \in W : Below(l, m)
  <2>1. ASSUME NEW t \in S, NEW l \in NextLocks(t) PROVE Known(l)
    BY DEF NextLocks, ClimbInv, Climbs
  <2> QED
    BY <2>1, WaitsClimb
<1>2. W # {}
  <2>1. PICK t \in S : TRUE
    BY DEF Deadlock
  <2>2. Climbs(tx[t], held[t], todo[t]) /\ todo[t] # {}
    BY <2>1 DEF ClimbInv, Deadlock, WaitsFor
  <2> QED
    BY <2>1, <2>2, LowestIsNext DEF Climbs
<1> HIDE DEF W
<1> DEFINE Levels == {Level(l) : l \in W}
<1>3. PICK n \in Levels : \A m \in Levels : m <= n
  <2>1. Levels \in SUBSET (1 .. 4) /\ Levels # {}
    BY <1>1, <1>2, Ranks
  <2>2. IsFiniteSet(1 .. 4) /\ 1 .. 4 \subseteq Nat
    <3>1. 1 \in Int /\ 4 \in Int /\ 1 .. 4 \subseteq Nat
      OBVIOUS
    <3>2. IsFiniteSet(1 .. 4)
      BY <3>1, FS_Interval, Zenon
    <3> QED
      BY <3>1, <3>2
  <2> HIDE DEF Levels
  <2>3. IsFiniteSet(Levels)
    BY <2>1, <2>2, FS_Subset
  <2> QED
    BY <2>1, <2>2, <2>3, LargestExists
<1> DEFINE Places == {Place(l) : l \in {k \in W : Level(k) = n}}
<1>4. PICK p \in Places : \A m \in Places : m <= p
  <2>0. PICK l \in W : Level(l) = n
    BY <1>3
  <2>1. /\ Places \in SUBSET Rows /\ Places # {}
        /\ Rows \subseteq Nat /\ IsFiniteSet(Rows)
    BY <1>1, <2>0, Ranks
  <2> HIDE DEF Places
  <2>2. IsFiniteSet(Places)
    BY <2>1, FS_Subset
  <2> QED
    BY <2>1, <2>2, LargestExists
<1>5. PICK l \in W : Level(l) = n /\ Place(l) = p
  BY <1>4
<1>6. PICK m \in W : Below(l, m)
  BY <1>1
<1>7. /\ Level(m) \in Nat /\ n \in Nat /\ Place(m) \in Nat /\ p \in Nat
  BY <1>1, <1>5, Ranks
<1>8. Level(m) <= n /\ (Level(m) = n => Place(m) <= p)
  BY <1>3, <1>4
<1> HIDE DEF Levels, Places
<1> QED
  BY <1>5, <1>6, <1>7, <1>8 DEF Below

\* The lock sets of the statements are taken from the bottom up.
LEMMA SortedClaim ==
  ASSUME NEW c \in Claim
  PROVE  /\ Sorted(ForUpdate("claim", {c}))
         /\ \A l \in ForUpdate("claim", {c}) : Known(l) /\ Level(l) = 1
<1>1. \A l \in ForUpdate("claim", {c}) : l = ClaimLock(c)
  BY DEF ForUpdate, ClaimLock
<1>2. Known(ClaimLock(c)) /\ Level(ClaimLock(c)) = 1
  BY SettlementAssumption DEF ClaimLock, Known, Lock, Table, Mode, Rows, Level
<1> QED
  BY <1>1, <1>2 DEF Sorted

LEMMA SortedRows ==
  ASSUME NEW S \in SUBSET Split, \A s \in S : ~IsPayers(s)
  PROVE  /\ Sorted(ForUpdate("split", S)) /\ Sorted(ConfirmLocks(S))
         /\ \A l \in ForUpdate("split", S) : Known(l) /\ Level(l) = 2
         /\ \A l \in ConfirmLocks(S) : Known(l) /\ Level(l) \in {2, 3}
<1>0. On(S) \subseteq Expense /\ Split \subseteq Nat /\ Expense \subseteq Nat
  BY SettlementAssumption DEF On
<1>1. \A l \in ForUpdate("split", S) :
        /\ l.table = "split" /\ l.mode = "FOR UPDATE" /\ l.id \in S /\ l = SplitLock(l.id)
        /\ Known(l) /\ Level(l) = 2 /\ Place(l) = l.id
  <2>1. ASSUME NEW s \in S
        PROVE  LET l == SplitLock(s)
               IN  /\ l.table = "split" /\ l.mode = "FOR UPDATE" /\ l.id = s
                   /\ Known(l) /\ Level(l) = 2 /\ Place(l) = s
    <3>1. SplitLock(s) \in Lock /\ s \in Rows /\ s \in Split
      BY <1>0 DEF SplitLock, Lock, Table, Mode, Rows
    <3>2. SplitLock(s).table = "split" /\ SplitLock(s).mode = "FOR UPDATE"
          /\ SplitLock(s).id = s
      BY DEF SplitLock
    <3>3. Level(SplitLock(s)) = 2 /\ Place(SplitLock(s)) = s
      <4>1. "split" \in Table
        BY DEF Table
      <4> QED
        BY <3>2, <4>1, Levels4, Zenon
    <3>4. Known(SplitLock(s))
      BY <3>1, <3>2 DEF Known
    <3> QED
      BY <3>2, <3>3, <3>4
  <2>2. \A l \in ForUpdate("split", S) : \E s \in S : l = SplitLock(s)
    BY DEF ForUpdate, SplitLock
  <2>3. TAKE l \in ForUpdate("split", S)
  <2>4. PICK s \in S : l = SplitLock(s)
    BY <2>2
  <2> QED
    BY <2>1, <2>4, Zenon
<1>2. \A l \in ForUpdate("expense", On(S)) :
        /\ l.table = "expense" /\ l.mode = "FOR UPDATE" /\ l.id \in Expense
        /\ l = ExpenseLock(l.id)
        /\ Known(l) /\ Level(l) = 3 /\ Place(l) = l.id
  <2>1. ASSUME NEW e \in On(S)
        PROVE  LET l == ExpenseLock(e)
               IN  /\ l.table = "expense" /\ l.mode = "FOR UPDATE" /\ l.id = e
                   /\ Known(l) /\ Level(l) = 3 /\ Place(l) = e
    <3>1. ExpenseLock(e) \in Lock /\ e \in Rows
      BY <1>0 DEF ExpenseLock, Lock, Table, Mode, Rows
    <3>2. ExpenseLock(e).table = "expense" /\ ExpenseLock(e).mode = "FOR UPDATE"
          /\ ExpenseLock(e).id = e
      BY DEF ExpenseLock
    <3>3. Level(ExpenseLock(e)) = 3 /\ Place(ExpenseLock(e)) = e
      <4>1. "expense" \in Table
        BY DEF Table
      <4> QED
        BY <3>2, <4>1, Levels4, Zenon
    <3>4. Known(ExpenseLock(e))
      BY <3>1, <3>2 DEF Known
    <3> QED
      BY <3>2, <3>3, <3>4
  <2>2. \A l \in ForUpdate("expense", On(S)) : \E e \in On(S) : l = ExpenseLock(e)
    BY DEF ForUpdate, ExpenseLock
  <2>3. TAKE l \in ForUpdate("expense", On(S))
  <2>4. PICK e \in On(S) : l = ExpenseLock(e)
    BY <2>2
  <2>5. e \in Expense
    BY <1>0
  <2> QED
    BY <2>1, <2>4, <2>5, Zenon
<1>3. ASSUME NEW k \in ConfirmLocks(S), NEW l \in ConfirmLocks(S), k # l
      PROVE  Leads(k, l) \/ Leads(l, k)
  <2>0. \/ k \in ForUpdate("split", S)
        \/ k \in ForUpdate("expense", On(S))
    BY DEF ConfirmLocks
  <2>1. \/ l \in ForUpdate("split", S)
        \/ l \in ForUpdate("expense", On(S))
    BY DEF ConfirmLocks
  <2>2. CASE k.table = "split" /\ l.table = "expense"
    <3>1. Level(k) = 2 /\ Level(l) = 3 /\ k.mode = "FOR UPDATE" /\ l.mode = "FOR UPDATE"
      BY <1>1, <1>2, <2>0, <2>1, <2>2
    <3>2. Below(k, l)
      <4>0. 2 < 3
        OBVIOUS
      <4>1. Level(k) < Level(l)
        BY <3>1, <4>0, Zenon
      <4> QED
        BY <4>1 DEF Below
    <3>3. Before(k, l)
      BY <2>2, <3>1 DEF Before
    <3> QED
      BY <3>2, <3>3 DEF Leads
  <2>3. CASE l.table = "split" /\ k.table = "expense"
    <3>1. Level(l) = 2 /\ Level(k) = 3 /\ k.mode = "FOR UPDATE" /\ l.mode = "FOR UPDATE"
      BY <1>1, <1>2, <2>0, <2>1, <2>3
    <3>2. Below(l, k)
      <4>0. 2 < 3
        OBVIOUS
      <4>1. Level(l) < Level(k)
        BY <3>1, <4>0, Zenon
      <4> QED
        BY <4>1 DEF Below
    <3>3. Before(l, k)
      BY <2>3, <3>1 DEF Before
    <3> QED
      BY <3>2, <3>3 DEF Leads
  <2>4. CASE k.table = l.table
    <3>1. /\ Level(k) = Level(l) /\ k.mode = "FOR UPDATE" /\ l.mode = "FOR UPDATE"
          /\ Place(k) = k.id /\ Place(l) = l.id /\ k.id # l.id
      BY <1>1, <1>2, <1>3, <2>0, <2>1, <2>4
    <3>2. PICK i \in Nat, j \in Nat : i = k.id /\ j = l.id
      BY <1>0, <1>1, <1>2, <2>0, <2>1
    <3>3. k.id < l.id \/ l.id < k.id
      <4>0. i # j
        BY <3>1, <3>2
      <4>1. i < j \/ j < i
        BY <4>0
      <4> QED
        BY <3>2, <4>1
    <3> QED
      BY <2>4, <3>1, <3>3 DEF Leads, Below, Before
  <2> QED
    BY <1>1, <1>2, <2>0, <2>1, <2>2, <2>3, <2>4
<1>4. Sorted(ConfirmLocks(S)) /\ Sorted(ForUpdate("split", S))
  <2>1. Sorted(ConfirmLocks(S))
    BY <1>3 DEF Sorted
  <2>2. ForUpdate("split", S) \subseteq ConfirmLocks(S)
    BY DEF ConfirmLocks
  <2> QED
    BY <2>1, <2>2 DEF Sorted
<1> QED
  BY <1>1, <1>2, <1>4 DEF ConfirmLocks

LEMMA SortedOwn ==
  ASSUME NEW S \in SUBSET Split, \A s \in S : IsPayers(s)
  PROVE  /\ Sorted(PlainUpdate("split", S))
         /\ \A l \in PlainUpdate("split", S) : Known(l) /\ Level(l) = 4
<1>1. \A l \in PlainUpdate("split", S) :
        /\ l = [table |-> "split", id |-> l.id, mode |-> "FOR NO KEY UPDATE"]
        /\ l.table = "split" /\ l.mode = "FOR NO KEY UPDATE" /\ l.id \in S
        /\ Known(l) /\ Level(l) = 4 /\ Place(l) = ExpenseOf[l.id]
  <2> DEFINE Own(s) == [table |-> "split", id |-> s, mode |-> "FOR NO KEY UPDATE"]
  <2>1. ASSUME NEW s \in S
        PROVE  /\ Own(s).table = "split" /\ Own(s).mode = "FOR NO KEY UPDATE"
               /\ Own(s).id = s
               /\ Known(Own(s)) /\ Level(Own(s)) = 4 /\ Place(Own(s)) = ExpenseOf[s]
    <3>1. Own(s) \in Lock /\ s \in Rows /\ s \in Split
      BY SettlementAssumption DEF Lock, Table, Mode, Rows
    <3>2. Own(s).table = "split" /\ Own(s).mode = "FOR NO KEY UPDATE" /\ Own(s).id = s
      OBVIOUS
    <3> HIDE DEF Own
    <3>3. Level(Own(s)) = 4 /\ Place(Own(s)) = ExpenseOf[s]
      <4>1. "split" \in Table
        BY DEF Table
      <4> QED
        BY <3>2, <4>1, Levels4, Zenon
    <3>4. Known(Own(s))
      BY <3>1, <3>2 DEF Known
    <3> QED
      BY <3>2, <3>3, <3>4
  <2>2. \A l \in PlainUpdate("split", S) : \E s \in S : l = Own(s)
    BY DEF PlainUpdate
  <2>3. \A s : Own(s) = [table |-> "split", id |-> s, mode |-> "FOR NO KEY UPDATE"]
    OBVIOUS
  <2> HIDE DEF Own
  <2>4. TAKE l \in PlainUpdate("split", S)
  <2>5. PICK s \in S : l = Own(s)
    BY <2>2
  <2> QED
    BY <2>1, <2>3, <2>5, Zenon
<1>2. ASSUME NEW k \in PlainUpdate("split", S), NEW l \in PlainUpdate("split", S), k # l
      PROVE  Leads(k, l) \/ Leads(l, k)
  <2>1. k.id # l.id /\ k.id \in S /\ l.id \in S
    BY <1>1, <1>2
  <2>2. ExpenseOf[k.id] # ExpenseOf[l.id]
    BY <2>1, SettlementAssumption DEF IsPayers
  <2>3. PICK i \in Nat, j \in Nat : i = ExpenseOf[k.id] /\ j = ExpenseOf[l.id]
    BY <2>1, SettlementAssumption
  <2>4. ExpenseOf[k.id] < ExpenseOf[l.id] \/ ExpenseOf[l.id] < ExpenseOf[k.id]
    <3>1. i < j \/ j < i
      BY <2>2, <2>3
    <3> QED
      BY <2>3, <3>1
  <2>5. /\ Level(k) = Level(l) /\ Place(k) = ExpenseOf[k.id] /\ Place(l) = ExpenseOf[l.id]
        /\ k.table = "split" /\ l.table = "split"
        /\ k.mode = "FOR NO KEY UPDATE" /\ l.mode = "FOR NO KEY UPDATE"
    BY <1>1
  <2> QED
    BY <2>4, <2>5 DEF Leads, Below, Before
<1> QED
  BY <1>1, <1>2 DEF Sorted

LEMMA SortedAudit ==
  ASSUME NEW E \in SUBSET Expense
  PROVE  /\ Sorted(KeyShare("expense", E))
         /\ \A l \in KeyShare("expense", E) : Known(l) /\ Level(l) = 3
<1>1. \A l \in KeyShare("expense", E) :
        /\ l = [table |-> "expense", id |-> l.id, mode |-> "FOR KEY SHARE"]
        /\ l.table = "expense" /\ l.mode = "FOR KEY SHARE" /\ l.id \in E
        /\ Known(l) /\ Level(l) = 3 /\ Place(l) = l.id
  <2> DEFINE Audit(e) == [table |-> "expense", id |-> e, mode |-> "FOR KEY SHARE"]
  <2>1. ASSUME NEW e \in E
        PROVE  /\ Audit(e).table = "expense" /\ Audit(e).mode = "FOR KEY SHARE"
               /\ Audit(e).id = e
               /\ Known(Audit(e)) /\ Level(Audit(e)) = 3 /\ Place(Audit(e)) = e
    <3>1. Audit(e) \in Lock /\ e \in Rows
      BY SettlementAssumption DEF Lock, Table, Mode, Rows
    <3>2. Audit(e).table = "expense" /\ Audit(e).mode = "FOR KEY SHARE" /\ Audit(e).id = e
      OBVIOUS
    <3> HIDE DEF Audit
    <3>3. Level(Audit(e)) = 3 /\ Place(Audit(e)) = e
      <4>1. "expense" \in Table
        BY DEF Table
      <4> QED
        BY <3>2, <4>1, Levels4, Zenon
    <3>4. Known(Audit(e))
      BY <3>1, <3>2 DEF Known
    <3> QED
      BY <3>2, <3>3, <3>4
  <2>2. \A l \in KeyShare("expense", E) : \E e \in E : l = Audit(e)
    BY DEF KeyShare
  <2>3. \A e : Audit(e) = [table |-> "expense", id |-> e, mode |-> "FOR KEY SHARE"]
    OBVIOUS
  <2> HIDE DEF Audit
  <2>4. TAKE l \in KeyShare("expense", E)
  <2>5. PICK e \in E : l = Audit(e)
    BY <2>2
  <2> QED
    BY <2>1, <2>3, <2>5, Zenon
<1>2. ASSUME NEW k \in KeyShare("expense", E), NEW l \in KeyShare("expense", E), k # l
      PROVE  Leads(k, l) \/ Leads(l, k)
  <2>1. k.id # l.id
    BY <1>1, <1>2
  <2>2. PICK i \in Nat, j \in Nat : i = k.id /\ j = l.id
    BY <1>1, SettlementAssumption
  <2>3. k.id < l.id \/ l.id < k.id
    <3>1. i < j \/ j < i
      BY <2>1, <2>2
    <3> QED
      BY <2>2, <3>1
  <2>4. /\ Level(k) = Level(l) /\ Place(k) = k.id /\ Place(l) = l.id /\ Shares(k, l)
        /\ Shares(l, k)
    BY <1>1 DEF Shares
  <2> QED
    BY <2>3, <2>4 DEF Leads, Below
<1> QED
  BY <1>1, <1>2 DEF Sorted

\* A statement whose locks are higher than everything held keeps climbing.
LEMMA HigherClimbs ==
  ASSUME NEW r0, NEW r, NEW h, Climbs(r0, h, {}), NEW L, Sorted(L),
         \A l \in L : Known(l) /\ Top(r0.at) < Level(l) /\ Level(l) <= Top(r.at),
         Top(r0.at) <= Top(r.at),
         r.at \in {"claim", "rows", "payer"} =>
           r.cur # {} /\ r.cur \cap r.queue = {} /\ r.cur \in SUBSET Claim,
         r.at = "settle" => r.queue = {} /\ r.op # "cover"
  PROVE  Climbs(r, h, L)
<1>0. Top(r0.at) \in Nat /\ Top(r.at) \in Nat
  BY DEF Top
<1>1. \A k \in h : Known(k) /\ Level(k) \in Nat /\ Level(k) <= Top(r0.at)
  BY Ranks DEF Climbs
<1>2. \A l \in L : Level(l) \in Nat
  BY Ranks
<1>3. \A k \in h, l \in L : Below(k, l)
  BY <1>0, <1>1, <1>2 DEF Below
<1>4. \A k \in h : Level(k) <= Top(r.at)
  BY <1>0, <1>1
<1> QED
  BY <1>1, <1>3, <1>4 DEF Climbs

\* A step of one transaction leaves the others where they are.
LEMMA StepClimbs ==
  ASSUME TypeOK, ClimbInv, NEW t \in Tx, NEW r, NEW L,
         Step(t, r, L), Climbs(r, held[t], L)
  PROVE  ClimbInv'
<1>1. /\ tx' = [tx EXCEPT ![t] = r] /\ todo' = [todo EXCEPT ![t] = L]
      /\ held' = held /\ claim' = claim
      /\ DOMAIN tx = Tx /\ DOMAIN todo = Tx
  BY DEF Step, Want, TypeOK, LocksTypeOK
<1>2. ASSUME NEW u \in Tx PROVE Climbs(tx'[u], held'[u], todo'[u])
  <2>1. CASE u = t
    <3>1. tx'[u] = r /\ held'[u] = held[t] /\ todo'[u] = L
      BY <1>1, <2>1
    <3> QED
      BY <3>1
  <2>2. CASE u # t
    <3>1. tx'[u] = tx[u] /\ held'[u] = held[u] /\ todo'[u] = todo[u]
      BY <1>1, <2>2
    <3> QED
      BY <3>1 DEF ClimbInv
  <2> QED
    BY <2>1, <2>2
<1> QED
  BY <1>1, <1>2 DEF ClimbInv

\* Nothing held, nothing wanted.
LEMMA IdleClimbs == Climbs(Idle, {}, {})
BY DEF Climbs, Sorted, Idle

\* A lock taken is below those still wanted: NextLocks, and for audit rows
\* the hypothesis.
LEMMA LockClimbs ==
  ASSUME TypeOK, ClimbInv, AllInOrder', NEW t \in Tx, TakeLock(t)
  PROVE  ClimbInv'
<1>0. PICK l \in NextLocks(t) : Acquire(t, l)
  BY DEF TakeLock
<1>1. /\ l \in todo[t]
      /\ todo' = [todo EXCEPT ![t] = @ \ {l}]
      /\ held' = [held EXCEPT ![t] = @ \cup {l}]
      /\ tx' = tx /\ claim' = claim
      /\ DOMAIN todo = Tx /\ DOMAIN held = Tx
  BY <1>0 DEF TakeLock, Acquire, TypeOK, LocksTypeOK
<1>2. ASSUME NEW u \in Tx PROVE Climbs(tx'[u], held'[u], todo'[u])
  <2>0. Climbs(tx[u], held[u], todo[u])
    BY DEF ClimbInv
  <2>1. CASE u = t
    <3>1. held'[t] = held[t] \cup {l} /\ todo'[t] = todo[t] \ {l}
      BY <1>1
    <3>2. ASSUME NEW m \in todo[t] \ {l} PROVE Below(l, m)
      <4>1. Leads(l, m) \/ Leads(m, l)
        BY <1>1, <2>0, <2>1 DEF Climbs, Sorted
      <4>2. ~Before(m, l)
        BY <1>0 DEF NextLocks
      <4>3. CASE Leads(m, l) /\ Shares(m, l)
        <5>1. l.id < m.id
          BY <3>1, <4>3 DEF AllInOrder, InOrder, Shares
        <5>2. Below(m, l) /\ Known(m) /\ Known(l)
          BY <1>1, <2>0, <2>1, <4>3 DEF Leads, Climbs
        <5>3. m.mode = "FOR KEY SHARE" /\ l.mode = "FOR KEY SHARE"
          BY <4>3 DEF Shares
        <5>4. PICK i \in Nat, j \in Nat : i = l.id /\ j = m.id
          BY <5>2 DEF Known, Lock
        <5>5. Level(l) = 3 /\ Level(m) = 3 /\ Place(l) = l.id /\ Place(m) = m.id
          <6>1. l.table = "expense" /\ m.table = "expense"
            BY <5>2, <5>3 DEF Known
          <6> QED
            BY <6>1, Levels4 DEF Table
        <5>6. m.id < l.id
          BY <5>2, <5>5 DEF Below
        <5>7. i < j /\ j < i
          BY <5>1, <5>4, <5>6
        <5> QED
          BY <5>7
      <4> QED
        BY <4>1, <4>2, <4>3 DEF Leads
    <3>3. \A k \in held'[t], m \in todo'[t] : Below(k, m)
      BY <2>0, <2>1, <3>1, <3>2 DEF Climbs
    <3>4. Sorted(todo'[t])
      BY <2>0, <2>1, <3>1 DEF Climbs, Sorted
    <3>5. held'[t] \cup todo'[t] = held[t] \cup todo[t]
      BY <1>1, <3>1
    <3> QED
      BY <1>1, <2>0, <2>1, <3>3, <3>4, <3>5 DEF Climbs
  <2>2. CASE u # t
    <3>1. tx'[u] = tx[u] /\ held'[u] = held[u] /\ todo'[u] = todo[u]
      BY <1>1, <2>2
    <3> QED
      BY <2>0, <3>1
  <2> QED
    BY <2>1, <2>2
<1> QED
  BY <1>1, <1>2 DEF ClimbInv

\* Before its first lock a transaction is at the bottom.
LEMMA NothingHeld ==
  ASSUME NEW r, NEW h, NEW q, Climbs(r, h, q), r.at \in {"idle", "next", "query"}
  PROVE  h = {} /\ q = {}
<1>1. Top(r.at) = 0
  BY DEF Top
<1>2. ASSUME NEW k \in h \cup q PROVE FALSE
  <2>1. Level(k) \in 1 .. 4 /\ Level(k) <= 0
    BY <1>1, Ranks DEF Climbs
  <2> QED
    BY <2>1
<1> QED
  BY <1>2

LEMMA EmptyClimbs ==
  ASSUME NEW r, r.at \notin {"claim", "rows", "payer", "settle"}
  PROVE  Climbs(r, {}, {})
BY DEF Climbs, Sorted

\* A transaction that decides one claim has none left when it is done.
LEMMA LastClaim ==
  ASSUME NEW r, NEW h, NEW q, Climbs(r, h, q), InOrder(r, h, q),
         r.at \in {"claim", "rows", "payer"}
  PROVE  r.queue = {} /\ r.op # "cover" /\ r.op # "late"
<1>1. PICK c \in r.cur : c \notin r.queue
  BY DEF Climbs
<1>2. \A d \in r.queue : d = c
  BY <1>1 DEF InOrder
<1> QED
  BY <1>1, <1>2 DEF InOrder

\* Requests take no lock yet, or that of one split.
LEMMA RequestsClimb ==
  ASSUME TypeOK, ClimbInv, AllInOrder', NEW t \in Tx,
         \/ \E c \in Claim, op \in {"confirm", "reject"} : Answer(t, op, c)
         \/ \E scope \in SweepScopes : Sweep(t, scope)
         \/ \E s \in Split : RequestSettle(t, s)
         \/ \E u, v \in User : RequestSettleUp(t, u, v)
  PROVE  ClimbInv'
<1>0. tx[t] = Idle
  BY DEF Answer, Sweep, RequestSettle, RequestSettleUp
<1>1. held[t] = {} /\ Climbs(Idle, held[t], {})
  <2>1. Climbs(Idle, held[t], todo[t]) /\ Idle.at = "idle"
    BY <1>0 DEF ClimbInv, Idle
  <2> QED
    BY <2>1, NothingHeld
<1>2. ASSUME NEW r0 \in TxState, Step(t, Advance(r0), {}) PROVE ClimbInv'
  <2>1. Advance(r0).at \in {"next", "query", "commit"}
    BY DEF Advance, TxState
  <2>2. Climbs(Advance(r0), held[t], {})
    BY <1>1, <2>1, EmptyClimbs
  <2> QED
    BY <1>2, <2>2, StepClimbs
<1>3. ASSUME NEW c \in Claim, NEW op \in {"confirm", "reject"}, Answer(t, op, c)
      PROVE  ClimbInv'
  <2>1. [Idle EXCEPT !.op = op, !.queue = {c}] \in TxState
    BY IdleType DEF TxState, Op
  <2> QED
    BY <1>2, <1>3, <2>1 DEF Answer
<1>4. ASSUME NEW scope \in SweepScopes, Sweep(t, scope) PROVE ClimbInv'
  <2>0. Due(scope) \subseteq Claim
    BY DEF Due, With
  <2>1. [Idle EXCEPT !.op = "sweep", !.queue = Due(scope)] \in TxState
    BY <2>0, IdleType DEF TxState, Op
  <2> QED
    BY <1>2, <1>4, <2>1 DEF Sweep
<1>5. ASSUME NEW s \in Split, RequestSettle(t, s) PROVE ClimbInv'
  <2> DEFINE r == [Idle EXCEPT !.op = "settle", !.at = "settle", !.cands = {s}]
  <2>1. Step(t, r, ForUpdate("split", {s}))
    BY <1>5 DEF RequestSettle
  <2>2. /\ r.at = "settle" /\ r.op = "settle" /\ r.queue = {} /\ r.cands = {s}
        /\ Idle.at = "idle"
    BY DEF Idle
  <2> HIDE DEF r
  <2>3. tx'[t] = r
    BY <2>1 DEF Step, TypeOK
  <2>4. ~IsPayers(s)
    BY <2>2, <2>3 DEF AllInOrder, InOrder
  <2>5. /\ Sorted(ForUpdate("split", {s}))
        /\ \A l \in ForUpdate("split", {s}) : Known(l) /\ Level(l) = 2
    BY <2>4, SortedRows
  <2>6. Top(Idle.at) = 0 /\ Top(r.at) = 2
    BY <2>2 DEF Top
  <2>7. \A l \in ForUpdate("split", {s}) :
          Known(l) /\ Top(Idle.at) < Level(l) /\ Level(l) <= Top(r.at)
    BY <2>5, <2>6
  <2>8. Climbs(r, held[t], ForUpdate("split", {s}))
    BY <1>1, <2>2, <2>5, <2>6, <2>7, HigherClimbs
  <2> QED
    BY <2>1, <2>8, StepClimbs
<1>6. ASSUME NEW u \in User, NEW v \in User, RequestSettleUp(t, u, v)
      PROVE  ClimbInv'
  <2>0. Due(Claim) \subseteq Claim /\ <<u, v>> \in Seq(User)
    BY DEF Due, With
  <2>1. [Idle EXCEPT !.op = "cover", !.pair = <<u, v>>, !.queue = Due(Claim)] \in TxState
    BY <2>0, IdleType DEF TxState, Op
  <2> QED
    BY <1>2, <1>6, <2>1 DEF RequestSettleUp
<1> QED
  BY <1>3, <1>4, <1>5, <1>6

\* Deciding a claim climbs from the claim to its splits and expenses and then
\* to the payers' shares, or to the audit rows.
LEMMA DecideClimbs ==
  ASSUME TypeOK, ClimbInv, AllInOrder, AllInOrder', NEW t \in Tx,
         \/ NextClaim(t) \/ SkipClaim(t) \/ RejectClaim(t)
         \/ LockRows(t) \/ SettleSplits(t) \/ FlipExpenses(t)
  PROVE  ClimbInv'
<1>0. /\ Climbs(tx[t], held[t], {}) /\ todo[t] = {} /\ tx[t] \in TxState
      /\ InOrder(tx[t], held[t], {})
  BY DEF ClimbInv, AllInOrder, TypeOK, NextClaim, SkipClaim, RejectClaim, LockRows,
         SettleSplits, FlipExpenses, At
<1>1. \A r, L : Step(t, r, L) => tx'[t] = r
  BY DEF Step, TypeOK
<1>2. /\ Sorted({}) /\ \A l \in {} : Known(l)
  BY DEF Sorted
<1>3. ASSUME NextClaim(t) PROVE ClimbInv'
  <2>1. PICK c \in tx[t].queue :
          Step(t, [tx[t] EXCEPT !.at = "claim", !.cur = {c}, !.queue = @ \ {c}],
               ForUpdate("claim", {c}))
    BY <1>3 DEF NextClaim
  <2> DEFINE r == [tx[t] EXCEPT !.at = "claim", !.cur = {c}, !.queue = @ \ {c}]
  <2>2. /\ r.at = "claim" /\ r.cur = {c} /\ r.cur \cap r.queue = {}
        /\ c \in Claim /\ tx[t].at = "next"
    BY <1>0, <1>3 DEF TxState, NextClaim, At
  <2> HIDE DEF r
  <2>3. Sorted(ForUpdate("claim", {c}))
        /\ \A l \in ForUpdate("claim", {c}) : Known(l) /\ Level(l) = 1
    BY <2>2, SortedClaim
  <2>4. Top(tx[t].at) = 0 /\ Top(r.at) = 1
    BY <2>2 DEF Top
  <2>5. \A l \in ForUpdate("claim", {c}) :
          Known(l) /\ Top(tx[t].at) < Level(l) /\ Level(l) <= Top(r.at)
    BY <2>3, <2>4
  <2>6. Climbs(r, held[t], ForUpdate("claim", {c}))
    BY <1>0, <2>2, <2>3, <2>4, <2>5, HigherClimbs
  <2> QED
    BY <2>1, <2>6, StepClimbs DEF r
\* Whoever has decided his claim goes on to the commit
<1>4. ASSUME NEW r0 \in TxState, r0.queue = tx[t].queue, r0.op = tx[t].op,
             tx[t].at \in {"claim", "rows", "payer"},
             NEW L, Step(t, Advance(r0), L), Sorted(L),
             \A l \in L : Known(l) /\ Top(tx[t].at) < Level(l) /\ Level(l) <= 4
      PROVE  ClimbInv'
  <2>1. tx[t].queue = {} /\ tx[t].op # "cover"
    BY <1>0, <1>4, LastClaim
  <2>2. Advance(r0).at = "commit"
    BY <1>4, <2>1 DEF Advance, TxState
  <2>3. Top(Advance(r0).at) = 4 /\ Top(tx[t].at) <= 4
    BY <2>2, <1>4 DEF Top
  <2>4. Climbs(Advance(r0), held[t], L)
    BY <1>0, <1>4, <2>2, <2>3, HigherClimbs
  <2> QED
    BY <1>4, <2>4, StepClimbs
<1>5. ASSUME SkipClaim(t) PROVE ClimbInv'
  BY <1>0, <1>2, <1>4, <1>5 DEF SkipClaim, At
<1>6. ASSUME RejectClaim(t) PROVE ClimbInv'
  <2> DEFINE r == [tx[t] EXCEPT !.done = tx[t].cur]
             L == KeyShare("expense", On(Covers(tx[t].cur)))
  <2>1. Step(t, Advance(r), L) /\ tx[t].at = "claim"
    BY <1>6 DEF RejectClaim, At
  <2>2. r \in TxState /\ r.queue = tx[t].queue /\ r.op = tx[t].op
    BY <1>0 DEF TxState
  <2>3. On(Covers(tx[t].cur)) \in SUBSET Expense
    BY <1>0, RowTypes DEF TxState
  <2>4. Sorted(L) /\ \A l \in L : Known(l) /\ Level(l) = 3
    BY <2>3, SortedAudit
  <2>5. Top(tx[t].at) = 1
    BY <2>1 DEF Top
  <2> HIDE DEF r, L
  <2>6. \A l \in L : Known(l) /\ Top(tx[t].at) < Level(l) /\ Level(l) <= 4
    BY <2>4, <2>5
  <2> QED
    BY <1>4, <2>1, <2>2, <2>4, <2>6
<1>7. ASSUME LockRows(t) PROVE ClimbInv'
  <2> DEFINE S == Covers(tx[t].cur)
             r == [tx[t] EXCEPT !.at = "rows",
                                !.op = IF @ = "reject" THEN "confirm" ELSE @]
  <2>1. ~Late(t)
    <3>1. [tx[t] EXCEPT !.op = "late", !.at = "rows"].op = "late"
      BY <1>0 DEF TxState
    <3>2. tx'[t].op # "late"
      BY DEF AllInOrder, InOrder
    <3> QED
      BY <1>1, <1>7, <3>1, <3>2 DEF LockRows
  <2>2. Step(t, r, ConfirmLocks(S)) /\ tx[t].at = "claim"
    BY <1>7, <2>1 DEF LockRows, At
  <2>3. r.at = "rows" /\ r.cur = tx[t].cur /\ r.queue = tx[t].queue
    BY <1>0 DEF TxState
  <2>4. S \in SUBSET Split /\ \A s \in S : ~IsPayers(s)
    <3>1. tx[t].cur \in SUBSET Claim
      BY <1>0 DEF TxState
    <3>2. S \in SUBSET Split
      BY <3>1, RowTypes
    <3>3. \A s \in S : \E c \in tx[t].cur : s \in claim[c].covers
      BY DEF Covers
    <3> QED
      BY <3>1, <3>2, <3>3 DEF ClimbInv
  <2> HIDE DEF r, S
  <2>5. Sorted(ConfirmLocks(S)) /\ \A l \in ConfirmLocks(S) : Known(l) /\ Level(l) \in {2, 3}
    BY <2>4, SortedRows
  <2>6. Top(tx[t].at) = 1 /\ Top(r.at) = 3
    BY <2>2, <2>3 DEF Top
  <2>7. \A l \in ConfirmLocks(S) :
          Known(l) /\ Top(tx[t].at) < Level(l) /\ Level(l) <= Top(r.at)
    BY <2>5, <2>6
  <2>8. r.cur # {} /\ r.cur \cap r.queue = {} /\ r.cur \in SUBSET Claim
    BY <1>0, <2>2, <2>3 DEF Climbs
  <2>9. Climbs(r, held[t], ConfirmLocks(S))
    BY <1>0, <2>3, <2>5, <2>6, <2>7, <2>8, HigherClimbs
  <2> QED
    BY <2>2, <2>9, StepClimbs
<1>8. ASSUME SettleSplits(t) PROVE ClimbInv'
  <2> DEFINE r == [tx[t] EXCEPT !.at = "payer", !.settles = @ \cup NewlySettled(t)]
             L == PlainUpdate("split", OwnShares(t))
  <2>1. Step(t, r, L) /\ tx[t].at = "rows"
    BY <1>8 DEF SettleSplits, At
  <2>2. r.at = "payer" /\ r.cur = tx[t].cur /\ r.queue = tx[t].queue
    BY <1>0 DEF TxState
  <2>3. OwnShares(t) \in SUBSET Split /\ \A s \in OwnShares(t) : IsPayers(s)
    BY DEF OwnShares, SplitsOn
  <2>4. Sorted(L) /\ \A l \in L : Known(l) /\ Level(l) = 4
    BY <2>3, SortedOwn
  <2>5. Top(tx[t].at) = 3 /\ Top(r.at) = 4
    BY <2>1, <2>2 DEF Top
  <2> HIDE DEF r, L
  <2>6. \A l \in L : Known(l) /\ Top(tx[t].at) < Level(l) /\ Level(l) <= Top(r.at)
    BY <2>4, <2>5
  <2>7. r.cur # {} /\ r.cur \cap r.queue = {} /\ r.cur \in SUBSET Claim
    BY <1>0, <2>1, <2>2 DEF Climbs
  <2>8. Climbs(r, held[t], L)
    BY <1>0, <2>2, <2>4, <2>5, <2>6, <2>7, HigherClimbs
  <2> QED
    BY <2>1, <2>8, StepClimbs
<1>9. ASSUME FlipExpenses(t) PROVE ClimbInv'
  <2> DEFINE r == [tx[t] EXCEPT !.flips = @ \cup Completed(t), !.done = @ \cup tx[t].cur]
  <2>1. tx[t].at = "payer"
    BY <1>9 DEF FlipExpenses, At
  <2>2. tx[t].op # "late"
    BY DEF AllInOrder, InOrder
  <2>3. Step(t, Advance(r), {})
    BY <1>9, <2>2 DEF FlipExpenses
  <2>4. Completed(t) \subseteq Expense
    BY <1>0, RowTypes DEF Completed, TxState
  <2>5. r \in TxState /\ r.queue = tx[t].queue /\ r.op = tx[t].op
    BY <1>0, <2>4 DEF TxState
  <2> HIDE DEF r
  <2> QED
    BY <1>2, <1>4, <2>1, <2>3, <2>5
<1> QED
  BY <1>3, <1>5, <1>6, <1>7, <1>8, <1>9

\* Filing a claim climbs from its splits to the audit rows.
LEMMA FileClimbs ==
  ASSUME TypeOK, ClimbInv, AllInOrder, AllInOrder', NEW t \in Tx, ~Rollback(t),
         FileClaim(t) \/ FindCoverable(t) \/ LinkSplits(t)
  PROVE  ClimbInv'
<1>0. /\ Climbs(tx[t], held[t], {}) /\ todo[t] = {} /\ tx[t] \in TxState
  BY DEF ClimbInv, TypeOK, FileClaim, FindCoverable, LinkSplits, At
<1>1. \A r, L : Step(t, r, L) => tx'[t] = r
  BY DEF Step, TypeOK
<1>2. ASSUME NEW r, r.at = "commit", tx[t].at \in {"settle", "cover"},
             NEW S \in SUBSET Split, Step(t, r, KeyShare("expense", On(S)))
      PROVE  ClimbInv'
  <2> DEFINE L == KeyShare("expense", On(S))
  <2>1. On(S) \in SUBSET Expense
    BY SettlementAssumption DEF On
  <2>2. Sorted(L) /\ \A l \in L : Known(l) /\ Level(l) = 3
    BY <2>1, SortedAudit
  <2>3. Top(tx[t].at) = 2 /\ Top(r.at) = 4
    BY <1>2 DEF Top
  <2>4. Step(t, r, L)
    BY <1>2
  <2> HIDE DEF L
  <2>5. \A l \in L : Known(l) /\ Top(tx[t].at) < Level(l) /\ Level(l) <= Top(r.at)
    BY <2>2, <2>3
  <2>6. Climbs(r, held[t], L)
    BY <1>0, <1>2, <2>2, <2>3, <2>5, HigherClimbs
  <2> QED
    BY <2>4, <2>6, StepClimbs
<1>3. ASSUME FileClaim(t) PROVE ClimbInv'
  <2>1. /\ tx[t].at = "settle"
        /\ Step(t, Advance(tx[t]), KeyShare("expense", On(tx[t].cands)))
    BY <1>3 DEF FileClaim, At
  <2>2. Advance(tx[t]).at = "commit"
    BY <1>0, <2>1 DEF Climbs, Advance, TxState
  <2>3. tx[t].cands \in SUBSET Split
    BY <1>0 DEF TxState
  <2> QED
    BY <1>2, <2>1, <2>2, <2>3
<1>4. ASSUME FindCoverable(t) PROVE ClimbInv'
  <2> DEFINE r == [tx[t] EXCEPT !.at = "cover", !.cands = Coverable(t)]
             L == ForUpdate("split", Coverable(t))
  <2>1. tx[t].at = "query" /\ Step(t, r, L)
    BY <1>4 DEF FindCoverable, At
  <2>2. r.at = "cover" /\ r.cands = Coverable(t)
    BY <1>0 DEF TxState
  <2>3. Coverable(t) \in SUBSET Split
    BY DEF Coverable, Between
  <2>4. \A s \in Coverable(t) : ~IsPayers(s)
    BY <1>1, <2>1, <2>2 DEF AllInOrder, InOrder
  <2>5. Sorted(L) /\ \A l \in L : Known(l) /\ Level(l) = 2
    BY <2>3, <2>4, SortedRows
  <2>6. Top(tx[t].at) = 0 /\ Top(r.at) = 2
    BY <2>1, <2>2 DEF Top
  <2> HIDE DEF r, L
  <2>7. \A l \in L : Known(l) /\ Top(tx[t].at) < Level(l) /\ Level(l) <= Top(r.at)
    BY <2>5, <2>6
  <2>8. Climbs(r, held[t], L)
    BY <1>0, <2>2, <2>5, <2>6, <2>7, HigherClimbs
  <2> QED
    BY <2>1, <2>8, StepClimbs
<1>5. ASSUME LinkSplits(t) PROVE ClimbInv'
  <2> DEFINE S == {s \in tx[t].cands : split[s] = "CONFIRMED"}
             r == [tx[t] EXCEPT !.at = "commit", !.cands = S]
  <2>1. tx[t].at = "cover" /\ Step(t, r, KeyShare("expense", On(S)))
    BY <1>5 DEF LinkSplits, At
  <2>2. r.at = "commit" /\ S \in SUBSET Split
    BY <1>0 DEF TxState
  <2> HIDE DEF r, S
  <2> QED
    BY <1>2, <2>1, <2>2
<1> QED
  BY <1>3, <1>4, <1>5

\* Whoever ends lets go of everything; a new claim covers no payer's share.
LEMMA EndClimbs ==
  ASSUME TypeOK, TxInv, ClimbInv, AllInOrder, NEW t \in Tx, Commit(t) \/ Rollback(t)
  PROVE  ClimbInv'
<1>1. /\ tx' = [tx EXCEPT ![t] = Idle] /\ todo' = [todo EXCEPT ![t] = {}]
      /\ held' = [held EXCEPT ![t] = {}]
      /\ DOMAIN tx = Tx /\ DOMAIN todo = Tx /\ DOMAIN held = Tx
  BY DEF Commit, Rollback, ReleaseAll, TypeOK, LocksTypeOK
<1>2. ASSUME NEW u \in Tx PROVE Climbs(tx'[u], held'[u], todo'[u])
  <2>1. CASE u = t
    <3>1. tx'[u] = Idle /\ held'[u] = {} /\ todo'[u] = {}
      BY <1>1, <2>1
    <3> QED
      BY <3>1, IdleClimbs
  <2>2. CASE u # t
    <3>1. tx'[u] = tx[u] /\ held'[u] = held[u] /\ todo'[u] = todo[u]
      BY <1>1, <2>2
    <3> QED
      BY <3>1 DEF ClimbInv
  <2> QED
    BY <2>1, <2>2
<1>3. ASSUME NEW c \in Claim, NEW s \in claim'[c].covers PROVE ~IsPayers(s)
  <2>1. CASE claim' = claim
    BY <1>3, <2>1 DEF ClimbInv
  <2>2. CASE Commit(t)
    <3>1. CASE c \in NewRows(t)
      <4>1. claim'[c].covers = tx[t].cands
        <5>1. claim'[c] = NewClaim(t)
          BY <2>2, <3>1, CommitFiles
        <5>2. NewClaim(t).covers = tx[t].cands
          BY DEF NewClaim
        <5> QED
          BY <5>1, <5>2
      <4> QED
        BY <1>3, <4>1 DEF AllInOrder, InOrder
    <3>2. CASE c \notin NewRows(t)
      <4>1. claim'[c].covers = claim[c].covers
        <5>1. claim[c] \in ClaimRow
          BY DEF TypeOK
        <5>2. claim'[c] = IF c \in tx[t].done
                          THEN [claim[c] EXCEPT !.status = Decided(t)] ELSE claim[c]
          BY <2>2, <3>2, CommitFiles
        <5> QED
          BY <5>1, <5>2 DEF ClaimRow
      <4> QED
        BY <1>3, <4>1 DEF ClimbInv
    <3> QED
      BY <3>1, <3>2
  <2> QED
    BY <2>1, <2>2 DEF Rollback
<1> QED
  BY <1>2, <1>3 DEF ClimbInv

LEMMA InitClimbs == Init => ClimbInv
<1> SUFFICES ASSUME Init PROVE ClimbInv
  OBVIOUS
<1>1. \A t \in Tx : tx[t] = Idle /\ held[t] = {} /\ todo[t] = {}
  BY DEF Init
<1>2. \A c \in Claim : claim[c].covers = {}
  BY DEF Init, NoClaim
<1> QED
  BY <1>1, <1>2, IdleClimbs DEF ClimbInv

LEMMA NextClimbs ==
  IInv /\ ClimbInv /\ AllInOrder /\ AllInOrder' /\ [Next]_vars => ClimbInv'
<1> SUFFICES ASSUME IInv, ClimbInv, AllInOrder, AllInOrder', [Next]_vars
             PROVE  ClimbInv'
  OBVIOUS
<1>0. TypeOK /\ TxInv
  BY DEF IInv
<1>1. ASSUME NEW t \in Tx, Continue(t) PROVE ClimbInv'
  <2>1. CASE Rollback(t) \/ Commit(t)
    BY <1>0, <2>1, EndClimbs
  <2>2. CASE ~(Rollback(t) \/ Commit(t))
    BY <1>0, <1>1, <2>2, LockClimbs, DecideClimbs, FileClimbs DEF Continue, VictimAbort
  <2> QED
    BY <2>1, <2>2
<1>2. ASSUME UNCHANGED <<held, todo, claim, tx>> PROVE ClimbInv'
  BY <1>2 DEF ClimbInv
<1> QED
  BY <1>0, <1>1, <1>2, RequestsClimb DEF Next, vars, WindowCloses

\* confirm_settlement_claim: locks are taken "always in that order (shared
\* with reject, so no deadlock)".  So it is, for any number of requests at
\* once, as long as the five exceptions that InOrder names stay away.
THEOREM OrderPreventsDeadlock == Spec /\ []AllInOrder => []NoDeadlock
<1>1. IInv /\ ClimbInv => NoDeadlock
  BY NobodyWaitsInACircle DEF IInv
<1>2. Init => ClimbInv
  BY InitClimbs
<1>3. IInv /\ ClimbInv /\ AllInOrder /\ AllInOrder' /\ [Next]_vars => ClimbInv'
  BY NextClimbs
<1> QED
  BY <1>1, <1>2, <1>3, Inductive, PTL DEF Spec
=============================================================================
