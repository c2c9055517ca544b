---------------------------- MODULE ClaimContract ----------------------------
(***************************************************************************)
(* What settling promises, with no transactions and no locks: a claim is    *)
(* filed over some splits, and is later withdrawn or honoured.  Honouring   *)
(* claims settles every split they cover together with the payers' shares,  *)
(* and closes exactly the expenses that become complete.  All of it is one  *)
(* step.  Module Settlement is the code's way of keeping this promise.      *)
(***************************************************************************)
EXTENDS FiniteSets

CONSTANTS Split, Expense, Claim, ExpenseOf, PayersShare

VARIABLES
  status,     \* of each claim
  covers,     \* the splits each claim covers
  settled,    \* splits
  closed      \* expenses

cvars == <<status, covers, settled, closed>>

Touched(S) == {ExpenseOf[s] : s \in S}
Shares(E) == {s \in PayersShare : ExpenseOf[s] \in E}
Complete(E, S) == {e \in E : \A s \in Split : ExpenseOf[s] = e => s \in S}

Init ==
  /\ status = [c \in Claim |-> "NONE"]
  /\ covers = [c \in Claim |-> {}]
  /\ settled = {}
  /\ closed = {}

\* Honour the pending claims C and file a new claim c over the splits S, if
\* S is not empty: a settle-up does both, other requests one of the two.
HonourAndFile(C, c, S) ==
  /\ \A d \in C : status[d] = "PENDING"
  /\ S # {} => status[c] = "NONE"
  /\ status' = [d \in Claim |-> IF d \in C THEN "CONFIRMED"
                                ELSE IF d = c /\ S # {} THEN "PENDING"
                                ELSE status[d]]
  /\ covers' = IF S = {} THEN covers ELSE [covers EXCEPT ![c] = S]
  /\ LET cov == UNION {covers[d] : d \in C}
     IN /\ settled' = settled \cup cov \cup Shares(Touched(cov))
        /\ closed' = closed \cup Complete(Touched(cov), settled')

Withdraw(c) ==
  /\ status[c] = "PENDING"
  /\ status' = [status EXCEPT ![c] = "REJECTED"]
  /\ UNCHANGED <<covers, settled, closed>>

Next ==
  \/ \E C \in SUBSET Claim, c \in Claim, S \in SUBSET Split : HonourAndFile(C, c, S)
  \/ \E c \in Claim : Withdraw(c)

Spec == Init /\ [][Next]_cvars
=============================================================================
