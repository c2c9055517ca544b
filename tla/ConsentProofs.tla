---------------------------- MODULE ConsentProofs ----------------------------
(***************************************************************************)
(* What module Consent guarantees for every set of members, expenses,      *)
(* concurrent requests and sweeps, proved with TLAPS.                      *)
(***************************************************************************)
EXTENDS Consent, FiniteSetTheorems, TLAPS

-----------------------------------------------------------------------------
(* Lemmas about the split rows of one expense.                             *)

\* A split that passed filter_included_members asks somebody.
LEMMA SharedIsPending ==
  ASSUME NEW S \in SUBSET User, CanShare(S)
  PROVE  /\ FreshSplits(S) \in [User -> SplitStatus]
         /\ \E u \in User : FreshSplits(S)[u] = "PENDING"
<1>1. S # {}
  BY FS_EmptySet DEF CanShare
<1> QED
  BY <1>1 DEF FreshSplits, SplitStatus

\* The sweep's bulk confirmation leaves nothing pending, and it confirms the
\* expense whenever there was something to confirm.
LEMMA AutoConfirmedIsFinal ==
  ASSUME NEW s \in [User -> SplitStatus]
  PROVE  /\ AutoConfirmed(s) \in [User -> SplitStatus]
         /\ (\E u \in User : s[u] = "PENDING") => AllConfirmed(AutoConfirmed(s))
  BY DEF AutoConfirmed, AllConfirmed, Participants, SplitStatus

\* Splits that are not all confirmed, of an expense that has some, leave
\* somebody to be asked.
LEMMA NotFinalIsPending ==
  ASSUME NEW s \in [User -> SplitStatus], Participants(s) # {}, ~AllConfirmed(s)
  PROVE  \E u \in User : s[u] = "PENDING"
  BY DEF Participants, AllConfirmed, SplitStatus

-----------------------------------------------------------------------------
(* What a confirm or a reject does, with the request's expense and member  *)
(* named.                                                                  *)

Answer(e, u) == [split[e] EXCEPT ![u] = "CONFIRMED"]

ConfirmOutcome(c, e, u) ==
  /\ req[c] # Idle /\ req[c].op = "confirm"
  /\ req[c].expense = e /\ req[c].user = u /\ req[c].round \in Nat
  /\ req' = [req EXCEPT ![c] = Idle]
  /\ UNCHANGED <<creator, round, elapsed, strict, sweep>>
  /\ u \in Participants(split[e]) =>
       /\ split' = [split EXCEPT ![e] = Answer(e, u)]
       /\ seen' = [seen EXCEPT ![e][u] = req[c].round]
       /\ status' = [status EXCEPT ![e] = IF AllConfirmed(Answer(e, u))
                                          THEN "CONFIRMED" ELSE @]
  /\ u \notin Participants(split[e]) => UNCHANGED <<split, seen, status>>

RejectOutcome(c, e, u) ==
  /\ req[c] # Idle /\ req[c].op = "reject"
  /\ req[c].expense = e /\ req[c].user = u
  /\ req' = [req EXCEPT ![c] = Idle]
  /\ UNCHANGED <<creator, round, elapsed, strict, sweep, seen>>
  /\ u \in Participants(split[e]) =>
       /\ split' = [split EXCEPT ![e] = NoSplits]
       /\ status' = [status EXCEPT ![e] = "DRAFT"]
  /\ u \notin Participants(split[e]) => UNCHANGED <<split, status>>

\* A request that was checked names a participant, an expense and a round.
LEMMA RequestFields ==
  ASSUME TypeOK, NEW c \in Client, req[c] # Idle
  PROVE  /\ req[c].expense \in Expense
         /\ req[c].user \in User
         /\ req[c].round \in Nat
<1>1. req[c] \in Request
  BY DEF TypeOK
<1> QED
  BY <1>1 DEF Request

\* A confirm finds the split of its member under the lock, or finds none.
LEMMA ConfirmCases ==
  ASSUME TypeOK, NEW c \in Client, ConfirmExpenseSplit(c)
  PROVE  \E e \in Expense, u \in User : ConfirmOutcome(c, e, u)
<1>1. req[c] # Idle
  BY DEF ConfirmExpenseSplit
<1>2. ConfirmOutcome(c, req[c].expense, req[c].user)
  BY <1>1, RequestFields DEF ConfirmExpenseSplit, ConfirmOutcome, Answer, Confirmed
<1> QED
  BY <1>1, <1>2, RequestFields

\* A reject finds a split of its member under the lock, or finds none.
LEMMA RejectCases ==
  ASSUME TypeOK, NEW c \in Client, RejectExpenseSplit(c)
  PROVE  \E e \in Expense, u \in User : RejectOutcome(c, e, u)
<1>1. req[c] # Idle
  BY DEF RejectExpenseSplit
<1>2. RejectOutcome(c, req[c].expense, req[c].user)
  BY <1>1 DEF RejectExpenseSplit, RejectOutcome
<1> QED
  BY <1>1, <1>2, RequestFields

-----------------------------------------------------------------------------
(* Type correctness                                                        *)

\* Offering a split keeps every variable it writes well typed.
LEMMA OfferTypes ==
  ASSUME TypeOK, NEW e \in Expense, NEW S \in SUBSET User, Offer(e, S)
  PROVE  /\ status' \in [Expense -> Status]
         /\ split' \in [Expense -> [User -> SplitStatus]]
         /\ round' \in [Expense -> Nat]
         /\ elapsed' \in [Expense -> BOOLEAN]
         /\ seen' \in [Expense -> [User -> Nat]]
  BY SharedIsPending DEF TypeOK, Offer, Status

\* The initial state is well typed.
LEMMA InitTypes == Init => TypeOK
  BY DEF Init, TypeOK, Status, NoSplits, SplitStatus

\* Every request, sweep and tick keeps the state well typed.
LEMMA NextTypes == TypeOK /\ [Next]_vars => TypeOK'
<1> SUFFICES ASSUME TypeOK, [Next]_vars PROVE TypeOK'
  OBVIOUS
<1>1. ASSUME NEW u \in User, NEW e \in Expense, CreateExpense(u, e)
      PROVE  TypeOK'
  BY <1>1 DEF TypeOK, CreateExpense, Status
<1>2. ASSUME NEW u \in User, NEW e \in Expense, EditExpense(u, e)
      PROVE  TypeOK'
  BY <1>2 DEF TypeOK, EditExpense, Status, NoSplits, SplitStatus
<1>3. ASSUME NEW u \in User, NEW e \in Expense, NEW S \in SUBSET User,
             CreateSplitExpense(u, e, S) \/ UpdateExpenseSplit(u, e, S)
      PROVE  TypeOK'
  BY <1>3, OfferTypes DEF TypeOK, CreateSplitExpense, UpdateExpenseSplit
<1>4. ASSUME NEW c \in Client, NEW op \in Reply,
             NEW u \in User, NEW e \in Expense, CheckPending(c, op, u, e)
      PROVE  TypeOK'
  <2>1. [op |-> op, user |-> u, expense |-> e, round |-> round[e]] \in Request
    BY DEF TypeOK, Request, Reply
  <2> QED
    BY <1>4, <2>1 DEF TypeOK, CheckPending
<1>5. ASSUME NEW c \in Client, ConfirmExpenseSplit(c)
      PROVE  TypeOK'
  <2> PICK e \in Expense, u \in User : ConfirmOutcome(c, e, u)
    BY <1>5, ConfirmCases
  <2>1. CASE u \in Participants(split[e])
    <3>1. Answer(e, u) \in [User -> SplitStatus]
      BY DEF TypeOK, Answer, SplitStatus
    <3>2. split' = [split EXCEPT ![e] = Answer(e, u)]
      BY <2>1 DEF ConfirmOutcome
    <3>3. split' \in [Expense -> [User -> SplitStatus]]
      BY <3>1, <3>2 DEF TypeOK
    <3>4. /\ seen' = [seen EXCEPT ![e][u] = req[c].round]
          /\ req[c].round \in Nat
      BY <2>1 DEF ConfirmOutcome
    <3>5. seen' \in [Expense -> [User -> Nat]]
      BY <3>4 DEF TypeOK
    <3> DEFINE final == AllConfirmed(Answer(e, u))
    <3>6. status' = [status EXCEPT ![e] = IF final THEN "CONFIRMED" ELSE @]
      BY <2>1 DEF ConfirmOutcome
    <3> HIDE DEF final
    <3>7. status' \in [Expense -> Status]
      BY <3>6 DEF TypeOK, Status
    <3> QED
      BY <3>3, <3>5, <3>7 DEF TypeOK, ConfirmOutcome
  <2>2. CASE u \notin Participants(split[e])
    BY <2>2 DEF TypeOK, ConfirmOutcome
  <2> QED
    BY <2>1, <2>2
<1>6. ASSUME NEW c \in Client, RejectExpenseSplit(c)
      PROVE  TypeOK'
  <2> PICK e \in Expense, u \in User : RejectOutcome(c, e, u)
    BY <1>6, RejectCases
  <2>1. NoSplits \in [User -> SplitStatus]
    BY DEF NoSplits, SplitStatus
  <2>2. /\ split' \in [Expense -> [User -> SplitStatus]]
        /\ status' \in [Expense -> Status]
    <3>1. CASE u \in Participants(split[e])
      <4>1. /\ split' = [split EXCEPT ![e] = NoSplits]
            /\ status' = [status EXCEPT ![e] = "DRAFT"]
        BY <3>1 DEF RejectOutcome
      <4> QED
        BY <2>1, <4>1 DEF TypeOK, Status
    <3>2. CASE u \notin Participants(split[e])
      BY <3>2 DEF TypeOK, RejectOutcome
    <3> QED
      BY <3>1, <3>2
  <2> QED
    BY <2>2 DEF TypeOK, RejectOutcome
<1>7. ASSUME NEW k \in Sweeper, SelectExpired(k)
      PROVE  TypeOK'
  <2>1. PICK scope \in SweepScopes :
          sweep' = [sweep EXCEPT ![k] = Expired \cap scope]
    BY <1>7 DEF SelectExpired
  <2>2. Expired \cap scope \in SUBSET Expense
    BY DEF Expired
  <2> QED
    BY <1>7, <2>1, <2>2 DEF TypeOK, SelectExpired
<1>8. ASSUME NEW k \in Sweeper, AutoConfirm(k)
      PROVE  TypeOK'
  BY <1>8, AutoConfirmedIsFinal DEF TypeOK, AutoConfirm, Status
<1>9. ASSUME NEW e \in Expense, WindowElapses(e)
      PROVE  TypeOK'
  BY <1>9 DEF TypeOK, WindowElapses
<1>10. CASE SetStrictMode
  BY <1>10 DEF TypeOK, SetStrictMode, Toggled
<1>11. CASE UNCHANGED vars
  BY <1>11 DEF TypeOK, vars
<1> QED
  BY <1>1, <1>2, <1>3, <1>4, <1>5, <1>6, <1>7, <1>8, <1>9, <1>10, <1>11 DEF Next, Reply

\* Every reachable state is well typed.
THEOREM TypeCorrect == Spec => []TypeOK
  BY InitTypes, NextTypes, PTL DEF Spec

-----------------------------------------------------------------------------
(* The status column agrees with the split rows.                           *)

\* StatusMatchesSplits for one expense: what a step has to preserve
Matches(e) ==
  /\ status[e] \in {"NONE", "DRAFT"} => split[e] = NoSplits
  /\ status[e] = "PENDING_CONFIRMATION" => \E u \in User : split[e][u] = "PENDING"
  /\ status[e] = "CONFIRMED" => AllConfirmed(split[e])

\* An expense whose status and splits a step leaves alone stays consistent.
LEMMA MatchesUnchanged ==
  ASSUME NEW e \in Expense, Matches(e), UNCHANGED <<status[e], split[e]>>
  PROVE  Matches(e)'
  BY DEF Matches, AllConfirmed, Participants, NoSplits

\* Offered splits are all pending, and there is one.
LEMMA OfferMatches ==
  ASSUME TypeOK, StatusMatchesSplits, NEW e \in Expense, NEW S \in SUBSET User,
         Offer(e, S), NEW x \in Expense
  PROVE  Matches(x)'
<1>1. Matches(x)
  BY DEF StatusMatchesSplits, Matches, AllConfirmed
<1>2. CASE x = e
  <2>1. status'[e] = "PENDING_CONFIRMATION" /\ split'[e] = FreshSplits(S)
    BY DEF TypeOK, Offer
  <2>2. \E u \in User : FreshSplits(S)[u] = "PENDING"
    BY SharedIsPending DEF Offer
  <2> QED
    BY <1>2, <2>1, <2>2 DEF Matches
<1>3. CASE x # e
  <2>1. status'[x] = status[x] /\ split'[x] = split[x]
    BY <1>3 DEF TypeOK, Offer
  <2> QED
    BY <1>1, <2>1, MatchesUnchanged
<1> QED
  BY <1>2, <1>3

\* Removing the splits and returning to DRAFT, for an edit or a reject.
LEMMA ReopenMatches ==
  ASSUME TypeOK, StatusMatchesSplits, NEW e \in Expense,
         split' = [split EXCEPT ![e] = NoSplits],
         status' = [status EXCEPT ![e] = "DRAFT"],
         NEW x \in Expense
  PROVE  Matches(x)'
<1>1. Matches(x)
  BY DEF StatusMatchesSplits, Matches, AllConfirmed
<1>2. CASE x = e
  <2>1. status'[x] = "DRAFT" /\ split'[x] = NoSplits
    BY <1>2 DEF TypeOK
  <2> QED
    BY <2>1 DEF Matches, NoSplits
<1>3. CASE x # e
  <2>1. status'[x] = status[x] /\ split'[x] = split[x]
    BY <1>3 DEF TypeOK
  <2> QED
    BY <1>1, <2>1, MatchesUnchanged
<1> QED
  BY <1>2, <1>3

\* A confirmation finalizes exactly when it leaves nobody to ask; one that
\* arrives late, on a confirmed expense, changes no split.
LEMMA ConfirmMatches ==
  ASSUME TypeOK, StatusMatchesSplits, NEW c \in Client, NEW e \in Expense,
         NEW u \in User, ConfirmOutcome(c, e, u), NEW x \in Expense
  PROVE  Matches(x)'
<1>1. Matches(x) /\ Matches(e)
  BY DEF StatusMatchesSplits, Matches, AllConfirmed
<1>2. CASE x = e /\ u \in Participants(split[e])
  <2> DEFINE s == Answer(e, u)
  <2>1. /\ split'[e] = s
        /\ status'[e] = IF AllConfirmed(s) THEN "CONFIRMED" ELSE status[e]
    BY <1>2 DEF TypeOK, ConfirmOutcome
  <2>2. s \in [User -> SplitStatus] /\ Participants(s) # {}
    BY <1>2 DEF TypeOK, Answer, SplitStatus, Participants
  <2>3. status[e] \notin {"NONE", "DRAFT"}
    BY <1>1, <1>2 DEF Matches, Participants, NoSplits
  <2>4. CASE AllConfirmed(s)
    <3>1. status'[e] = "CONFIRMED" /\ split'[e] = s
      BY <2>1, <2>4
    <3> HIDE DEF s
    <3> QED
      BY <1>2, <2>4, <3>1 DEF Matches, AllConfirmed, Participants
  <2>5. CASE ~AllConfirmed(s)
    <3>1. status'[e] = status[e] /\ split'[e] = s
      BY <2>1, <2>5
    <3>2. status[e] # "CONFIRMED"
      <4>1. SUFFICES ASSUME AllConfirmed(split[e]) PROVE AllConfirmed(s)
        BY <1>1, <2>5 DEF Matches
      <4> QED
        BY <1>2, <4>1 DEF TypeOK, AllConfirmed, Participants, Answer
    <3>3. \E w \in User : s[w] = "PENDING"
      BY <2>2, <2>5, NotFinalIsPending
    <3> HIDE DEF s
    <3> QED
      BY <1>2, <2>3, <3>1, <3>2, <3>3 DEF Matches
  <2> QED
    BY <2>4, <2>5
<1>3. CASE x # e \/ u \notin Participants(split[e])
  <2>1. status'[x] = status[x] /\ split'[x] = split[x]
    BY <1>3 DEF TypeOK, ConfirmOutcome
  <2> QED
    BY <1>1, <2>1, MatchesUnchanged
<1> QED
  BY <1>2, <1>3

\* A sweep confirms every split that was pending, so the expense with them.
LEMMA AutoConfirmMatches ==
  ASSUME TypeOK, StatusMatchesSplits, NEW k \in Sweeper, AutoConfirm(k),
         NEW x \in Expense
  PROVE  Matches(x)'
<1> DEFINE due == {e \in sweep[k] : status[e] = "PENDING_CONFIRMATION"}
           final == {e \in due : AllConfirmed(AutoConfirmed(split[e]))}
<1>1. Matches(x) /\ split[x] \in [User -> SplitStatus]
  BY DEF StatusMatchesSplits, Matches, AllConfirmed, TypeOK
<1>2. /\ split'[x] = IF x \in due THEN AutoConfirmed(split[x]) ELSE split[x]
      /\ status'[x] = IF x \in final THEN "CONFIRMED" ELSE status[x]
  BY DEF AutoConfirm
<1>3. CASE x \in due
  <2>1. AllConfirmed(AutoConfirmed(split[x]))
    BY <1>1, <1>3, AutoConfirmedIsFinal DEF Matches
  <2>2. status'[x] = "CONFIRMED" /\ split'[x] = AutoConfirmed(split[x])
    BY <1>2, <1>3, <2>1
  <2> QED
    BY <2>1, <2>2 DEF Matches, AllConfirmed, Participants
<1>4. CASE x \notin due
  <2>1. status'[x] = status[x] /\ split'[x] = split[x]
    BY <1>2, <1>4
  <2> QED
    BY <1>1, <2>1, MatchesUnchanged
<1> QED
  BY <1>3, <1>4

\* Every step keeps the status of every expense in line with its splits.
LEMMA NextMatches ==
  TypeOK /\ StatusMatchesSplits /\ [Next]_vars => StatusMatchesSplits'
<1> SUFFICES ASSUME TypeOK, StatusMatchesSplits, [Next]_vars, NEW x \in Expense
             PROVE  Matches(x)'
  BY DEF StatusMatchesSplits, Matches, AllConfirmed
<1> DEFINE Untouched == status'[x] = status[x] /\ split'[x] = split[x]
<1>0. Untouched => Matches(x)'
  BY MatchesUnchanged DEF StatusMatchesSplits, Matches, AllConfirmed
<1>1. ASSUME NEW u \in User, NEW e \in Expense, CreateExpense(u, e)
      PROVE  Matches(x)'
  <2>1. CASE x = e
    <3>1. status[x] = "NONE" /\ status'[x] = "DRAFT" /\ split'[x] = split[x]
      BY <1>1, <2>1 DEF TypeOK, CreateExpense
    <3>2. split[x] = NoSplits
      BY <3>1 DEF StatusMatchesSplits
    <3> QED
      BY <3>1, <3>2 DEF Matches, NoSplits
  <2>2. CASE x # e
    BY <1>0, <1>1, <2>2 DEF TypeOK, CreateExpense
  <2> QED
    BY <2>1, <2>2
<1>2. ASSUME NEW u \in User, NEW e \in Expense, EditExpense(u, e)
      PROVE  Matches(x)'
  BY <1>2, ReopenMatches DEF EditExpense
<1>3. ASSUME NEW u \in User, NEW e \in Expense, NEW S \in SUBSET User,
             CreateSplitExpense(u, e, S) \/ UpdateExpenseSplit(u, e, S)
      PROVE  Matches(x)'
  BY <1>3, OfferMatches DEF CreateSplitExpense, UpdateExpenseSplit
<1>4. ASSUME NEW c \in Client, NEW op \in Reply,
             NEW u \in User, NEW e \in Expense, CheckPending(c, op, u, e)
      PROVE  Matches(x)'
  BY <1>0, <1>4 DEF CheckPending
<1>5. ASSUME NEW c \in Client, ConfirmExpenseSplit(c)
      PROVE  Matches(x)'
  BY <1>5, ConfirmCases, ConfirmMatches
<1>6. ASSUME NEW c \in Client, RejectExpenseSplit(c)
      PROVE  Matches(x)'
  <2> PICK e \in Expense, u \in User : RejectOutcome(c, e, u)
    BY <1>6, RejectCases
  <2> QED
    BY <1>0, ReopenMatches DEF RejectOutcome
<1>7. ASSUME NEW k \in Sweeper, SelectExpired(k)
      PROVE  Matches(x)'
  BY <1>0, <1>7 DEF SelectExpired
<1>8. ASSUME NEW k \in Sweeper, AutoConfirm(k)
      PROVE  Matches(x)'
  BY <1>8, AutoConfirmMatches
<1>9. ASSUME NEW e \in Expense, WindowElapses(e)
      PROVE  Matches(x)'
  BY <1>0, <1>9 DEF WindowElapses
<1>10. CASE SetStrictMode
  BY <1>0, <1>10 DEF SetStrictMode
<1>11. CASE UNCHANGED vars
  BY <1>0, <1>11 DEF vars
<1> QED
  BY <1>1, <1>2, <1>3, <1>4, <1>5, <1>6, <1>7, <1>8, <1>9, <1>10, <1>11 DEF Next, Reply

\* However confirms, rejects, edits, re-splits and sweeps interleave, an
\* expense awaiting confirmation awaits somebody, and a confirmed expense was
\* confirmed for each of its participants.
THEOREM StatusConsistent == Spec => []StatusMatchesSplits
<1>1. Init => StatusMatchesSplits
  BY DEF Init, StatusMatchesSplits
<1> QED
  BY <1>1, NextMatches, TypeCorrect, PTL DEF Spec

-----------------------------------------------------------------------------
(* A confirmed expense.                                                    *)

\* Action by action: what a step may do to a confirmed expense.
LEMMA NextLateReject ==
  TypeOK /\ StatusMatchesSplits /\ [Next]_vars => [LateRejectStep]_vars
<1> SUFFICES ASSUME TypeOK, StatusMatchesSplits, Next, NEW x \in Expense,
                    status[x] = "CONFIRMED"
             PROVE  TouchedByLateReject(x)
  BY DEF LateRejectStep, TouchedByLateReject
<1>0. ASSUME status'[x] = status[x], split'[x] = split[x]
      PROVE  TouchedByLateReject(x)
  BY <1>0 DEF TouchedByLateReject
<1>1. ASSUME NEW u \in User, NEW e \in Expense, CreateExpense(u, e)
      PROVE  TouchedByLateReject(x)
  <2>1. x # e
    BY <1>1 DEF CreateExpense
  <2> QED
    BY <1>0, <1>1, <2>1 DEF TypeOK, CreateExpense
<1>2. ASSUME NEW u \in User, NEW e \in Expense, EditExpense(u, e)
      PROVE  TouchedByLateReject(x)
  <2>1. x # e
    BY <1>2 DEF EditExpense, Editable
  <2> QED
    BY <1>0, <1>2, <2>1 DEF TypeOK, EditExpense
<1>3. ASSUME NEW u \in User, NEW e \in Expense, NEW S \in SUBSET User,
             CreateSplitExpense(u, e, S) \/ UpdateExpenseSplit(u, e, S)
      PROVE  TouchedByLateReject(x)
  <2>1. x # e
    BY <1>3 DEF CreateSplitExpense, UpdateExpenseSplit, Editable
  <2>2. Offer(e, S)
    BY <1>3 DEF CreateSplitExpense, UpdateExpenseSplit
  <2> QED
    BY <1>0, <2>1, <2>2 DEF TypeOK, Offer
<1>4. ASSUME NEW c \in Client, NEW op \in Reply,
             NEW u \in User, NEW e \in Expense, CheckPending(c, op, u, e)
      PROVE  TouchedByLateReject(x)
  BY <1>0, <1>4 DEF CheckPending
<1>5. ASSUME NEW c \in Client, ConfirmExpenseSplit(c)
      PROVE  TouchedByLateReject(x)
  <2> PICK e \in Expense, u \in User : ConfirmOutcome(c, e, u)
    BY <1>5, ConfirmCases
  <2>1. CASE x = e /\ u \in Participants(split[e])
    <3>1. AllConfirmed(split[e])
      BY <2>1 DEF StatusMatchesSplits, AllConfirmed
    <3>2. split[e][u] = "CONFIRMED"
      BY <2>1, <3>1 DEF AllConfirmed
    <3>3. Answer(e, u) = split[e]
      BY <3>2 DEF TypeOK, Answer
    <3>4. split'[e] = Answer(e, u)
      BY <2>1 DEF TypeOK, ConfirmOutcome
    <3>5. status'[e] = IF AllConfirmed(Answer(e, u)) THEN "CONFIRMED" ELSE status[e]
      BY <2>1 DEF TypeOK, ConfirmOutcome
    <3> QED
      BY <1>0, <2>1, <3>1, <3>3, <3>4, <3>5
  <2>2. CASE x # e \/ u \notin Participants(split[e])
    BY <1>0, <2>2 DEF TypeOK, ConfirmOutcome
  <2> QED
    BY <2>1, <2>2
<1>6. ASSUME NEW c \in Client, RejectExpenseSplit(c)
      PROVE  TouchedByLateReject(x)
  <2> PICK e \in Expense, u \in User : RejectOutcome(c, e, u)
    BY <1>6, RejectCases
  <2>1. CASE x = e /\ u \in Participants(split[e])
    <3>1. Answering(c, "reject", x) /\ req[c].user \in Participants(split[x])
      BY <2>1 DEF TypeOK, RejectOutcome, Answering
    <3>2. status'[x] = "DRAFT" /\ split'[x] = NoSplits
      BY <2>1 DEF TypeOK, RejectOutcome
    <3> QED
      BY <3>1, <3>2 DEF TouchedByLateReject
  <2>2. CASE x # e \/ u \notin Participants(split[e])
    BY <1>0, <2>2 DEF TypeOK, RejectOutcome
  <2> QED
    BY <2>1, <2>2
<1>7. ASSUME NEW k \in Sweeper, SelectExpired(k)
      PROVE  TouchedByLateReject(x)
  BY <1>0, <1>7 DEF SelectExpired
<1>8. ASSUME NEW k \in Sweeper, AutoConfirm(k)
      PROVE  TouchedByLateReject(x)
  BY <1>0, <1>8 DEF AutoConfirm
<1>9. ASSUME NEW e \in Expense, WindowElapses(e)
      PROVE  TouchedByLateReject(x)
  BY <1>0, <1>9 DEF WindowElapses
<1>10. CASE SetStrictMode
  BY <1>0, <1>10 DEF SetStrictMode
<1> QED
  BY <1>1, <1>2, <1>3, <1>4, <1>5, <1>6, <1>7, <1>8, <1>9, <1>10 DEF Next, Reply

\* Once every participant's share is confirmed, no edit, re-split, sweep or
\* late confirm changes the expense; a reject that passed its status check
\* before the last confirmation is the only request that does.
THEOREM LateRejectOnly == Spec => OnlyLateRejectReopens
  BY NextLateReject, TypeCorrect, StatusConsistent, PTL
     DEF Spec, OnlyLateRejectReopens

-----------------------------------------------------------------------------
(* Consent is personal.                                                    *)

\* Action by action: who may turn a pending share into a confirmed one.
LEMMA NextPersonal == TypeOK /\ [Next]_vars => [PersonalStep]_vars
<1> SUFFICES ASSUME TypeOK, Next, NEW x \in Expense, NEW v \in User,
                    split[x][v] = "PENDING", split'[x][v] = "CONFIRMED"
             PROVE  \/ \E c \in Client : Answering(c, "confirm", x) /\ req[c].user = v
                    \/ \E k \in Sweeper : Sweeping(k, x)
  BY DEF PersonalStep
<1>1. ASSUME NEW u \in User, NEW e \in Expense, EditExpense(u, e)
      PROVE  FALSE
  BY <1>1 DEF TypeOK, EditExpense, NoSplits
<1>2. ASSUME NEW u \in User, NEW e \in Expense, NEW S \in SUBSET User,
             CreateSplitExpense(u, e, S) \/ UpdateExpenseSplit(u, e, S)
      PROVE  FALSE
  <2>1. split' = [split EXCEPT ![e] = FreshSplits(S)]
    BY <1>2 DEF CreateSplitExpense, UpdateExpenseSplit, Offer
  <2>2. FreshSplits(S)[v] # "CONFIRMED"
    BY DEF FreshSplits
  <2> QED
    BY <2>1, <2>2 DEF TypeOK
<1>3. ASSUME NEW c \in Client, ConfirmExpenseSplit(c)
      PROVE  Answering(c, "confirm", x) /\ req[c].user = v
  <2> PICK e \in Expense, u \in User : ConfirmOutcome(c, e, u)
    BY <1>3, ConfirmCases
  <2>1. u \in Participants(split[e]) /\ split' = [split EXCEPT ![e] = Answer(e, u)]
    BY DEF ConfirmOutcome
  <2>2. x = e /\ u = v
    BY <2>1 DEF TypeOK, Answer
  <2> QED
    BY <2>2 DEF TypeOK, ConfirmOutcome, Answering
<1>4. ASSUME NEW c \in Client, RejectExpenseSplit(c)
      PROVE  FALSE
  <2> PICK e \in Expense, u \in User : RejectOutcome(c, e, u)
    BY <1>4, RejectCases
  <2>1. split' = [split EXCEPT ![e] = NoSplits]
    BY DEF RejectOutcome
  <2> QED
    BY <2>1 DEF TypeOK, NoSplits
<1>5. ASSUME NEW k \in Sweeper, AutoConfirm(k)
      PROVE  Sweeping(k, x)
  BY <1>5 DEF TypeOK, AutoConfirm, Sweeping
<1>6. ASSUME UNCHANGED split
      PROVE  FALSE
  BY <1>6
<1> QED
  BY <1>1, <1>2, <1>3, <1>4, <1>5, <1>6
     DEF Next, CreateExpense, CheckPending, SelectExpired, WindowElapses, SetStrictMode

\* No interleaving lets a member's share be confirmed by anybody but the
\* member or the objection window.
THEOREM ConsentPersonal == Spec => ConsentIsPersonal
  BY NextPersonal, TypeCorrect, PTL DEF Spec, ConsentIsPersonal
=============================================================================
