----------------------------- MODULE SplitEditor -----------------------------
(***************************************************************************)
(* Splitting an expense: the editor shared by the AI preview and the       *)
(* manual form (useSplitState, SplitFields, buildSplitPayload), the        *)
(* request it sends, and the server's own arithmetic (apply_split and the  *)
(* calculate_*_split functions of features/expenses/service.py).           *)
(*                                                                         *)
(* Editor and server compute the parts independently: JavaScript numbers   *)
(* rounded half up, entries in id order, against decimals rounded half to  *)
(* even, entries in the order of the request.  Amounts are in cents here;  *)
(* the amounts and percentages typed may have any decimals and are counted *)
(* in 1/Scale of a cent or of 0.01 %.  Where a JavaScript number is        *)
(* exactly half a cent, or a sum exactly 0.01 off, the floating point      *)
(* value may be on either side of it, so the editor may do either.         *)
(*                                                                         *)
(* Only the map of the split type in use has entries: changing the type    *)
(* clears the one that is left.  Persons are numbered in the order of      *)
(* their ids; a group's list is in the order the members joined.           *)
(***************************************************************************)
EXTENDS Integers, FiniteSets, FiniteSetsExt, Sequences, SequencesExt

CONSTANTS
  Person,        \* user ids
  Group,         \* the groups of the user
  ListOf,        \* group -> its members as the client lists them
  Scale,         \* what is typed is counted in 1/Scale of a hundredth
  Total,         \* bound: expense amounts, in whole cents
  Typed          \* bound: type -> numbers typed for a member

ASSUME SplitEditorAssumption ==
  /\ Person \subseteq Nat /\ IsFiniteSet(Person)
  /\ ListOf \in [Group -> Seq(Person)]
  /\ \A g \in Group : ListOf[g] # <<>> /\ IsInjective(ListOf[g])
  /\ Scale \in Nat \ {0}
  /\ \A g \in Group : Scale % Len(ListOf[g]) = 0   \* even parts are whole
  /\ Total \subseteq Nat \ {0}
  /\ Typed \in [{"unequal", "percentage", "shares"} -> SUBSET Nat]

VARIABLES
  group,      \* the group chosen in the modal
  joined,     \* who joined it since its members were listed
  total,      \* the expense amount
  payer,
  type,       \* splitType
  excluded,   \* excludedMembers, kept when the group changes
  given,      \* the amounts, percentages or shares entered
  order,      \* who has an entry, in the order of insertion
  answer      \* the server's answer to Confirm

vars == <<group, joined, total, payer, type, excluded, given, order, answer>>

Types == {"equal", "unequal", "percentage", "shares"}
NoAnswer == [kind |-> "none", parts |-> <<>>]
Refusal == [kind |-> "refused", parts |-> <<>>]

Listed == ToSet(ListOf[group])
Members == Listed \cup joined           \* the server's rows
Included == Listed \ excluded
Entered == ToSet(order)

Hundredth == Scale                      \* a cent, or 0.01 %
Full == 10000 * Scale                   \* 100 %

TypeOK ==
  /\ group \in Group
  /\ joined \subseteq Person \ Listed
  /\ total \in Total
  /\ payer \in Person
  /\ type \in Types
  /\ excluded \subseteq Person
  /\ given \in [Person -> Nat]
  /\ order \in Seq(Person) /\ IsInjective(order)
  /\ answer.kind \in {"none", "refused", "stored"}
  /\ answer.kind = "stored" =>
       /\ DOMAIN answer.parts \subseteq Person
       /\ \A m \in DOMAIN answer.parts : answer.parts[m] \in Int

Sum(f, S) == MapThenSumSet(LAMBDA m : f[m], S)
Abs(i) == IF i < 0 THEN -i ELSE i

\* a / d to the nearest integer; a tie goes up or down
Nearest(a, d, up) ==
  IF 2 * (a % d) > d \/ (2 * (a % d) = d /\ up) THEN a \div d + 1 ELSE a \div d
HalfUp(a, d) == Nearest(a, d, TRUE)
HalfEven(a, d) == Nearest(a, d, (a \div d) % 2 = 1)

\* One person absorbs what the others leave
Absorb(amount, rest, m0) ==
  [m \in DOMAIN rest |-> IF m = m0 THEN amount - Sum(rest, DOMAIN rest \ {m0})
                                   ELSE rest[m]]

-----------------------------------------------------------------------------
(* The editor: what it shows, and when it lets the user confirm.           *)

\* the last member of S in a list
LastOf(s, S) == s[Max({i \in DOMAIN s : s[i] \in S})]
LastListed == LastOf(ListOf[group], Included)

\* entries that splitAmounts goes through in id order
Lines == Entered \ excluded
ShareLines == Lines \cap Listed
LastId(S) == Max(S)

\* splitAmounts: every outcome the ties allow
Shown ==
  IF Cardinality(Included) < 2 THEN {<<>>}
  ELSE CASE type = "equal" ->
         {Absorb(total,
                 [m \in Included |-> Nearest(total, Cardinality(Included), up)],
                 IF payer \in Included THEN payer ELSE LastListed)
            : up \in BOOLEAN}
       [] type = "unequal" ->
         {[m \in Lines |-> Nearest(given[m], Hundredth, m \in U)] :
            U \in SUBSET Lines}
       [] type = "percentage" ->
         IF Lines = {} THEN {<<>>}
         ELSE {Absorb(total,
                 [m \in Lines |-> Nearest(total * given[m], Full, m \in U)],
                 LastId(Lines)) : U \in SUBSET Lines}
       [] type = "shares" ->
         IF ShareLines = {} THEN {<<>>}
         ELSE {Absorb(total,
                 [m \in ShareLines |->
                    Nearest(total * given[m], Sum(given, ShareLines), m \in U)],
                 LastId(ShareLines)) : U \in SUBSET ShareLines}

\* SplitAmountsDisplay: a row for each member who takes part
Rows(f) == [m \in Included |-> f[m]]

\* Slip: some entry will do
SomeEntered == Included \cap Entered # {}
\* S4-M2: not as many entries, but one of everybody's
EveryoneEntered == Included \subseteq Entered

\* less than 0.01 off, which a sum exactly 0.01 off may be in floating point
\* (10.01 - (5 + 5) is 0.0099...)
SumsTo(whole, edge) ==
  LET off == Abs(Sum(given, Lines) - whole)
  IN off < Hundredth \/ (edge /\ off = Hundredth)

\* isValid
Valid(edge) ==
  /\ Cardinality(Listed) - Cardinality(excluded) >= 2
  /\ CASE type = "equal" -> TRUE
       [] type = "unequal" -> EveryoneEntered /\ SumsTo(total * Hundredth, edge)
       [] type = "percentage" ->
            /\ Cardinality(Lines) = Cardinality(Included)
            /\ SumsTo(Full, edge)
       [] type = "shares" -> EveryoneEntered /\ Sum(given, Included) > 0

\* The effects of SplitFields fill an empty map.  The one for unequal amounts
\* never finds anything to copy: with that type splitAmounts is itself read
\* from the empty map.
SeedValue(t) == IF t = "percentage" THEN Full \div Cardinality(Listed) ELSE 1
Seeded(t) == t \in {"percentage", "shares"}
Seed(t) ==
  /\ order' = IF Seeded(t) THEN ListOf[group] ELSE <<>>
  /\ given' = [m \in Person |-> IF Seeded(t) /\ m \in Listed THEN SeedValue(t) ELSE 0]

-----------------------------------------------------------------------------
(* Editing.  A refused request leaves the editor open, a stored one closes *)
(* it.                                                                     *)

Editing == answer.kind # "stored" /\ answer' = NoAnswer

\* The AI's suggestion names members of the group it was asked about
Init ==
  /\ group \in Group
  /\ joined = {}
  /\ total \in Total
  /\ payer \in Listed
  /\ type = "equal"
  /\ excluded \in SUBSET Listed
  /\ given = [m \in Person |-> 0]
  /\ order = <<>>
  /\ answer = NoAnswer

\* setSplitType
ChooseType(t) ==
  /\ t # type
  /\ type' = t
  /\ Seed(t)
  /\ Editing
  /\ UNCHANGED <<group, joined, total, payer, excluded>>

\* toggleMemberExclusion
Flipped(m) == IF m \in excluded THEN excluded \ {m} ELSE excluded \cup {m}

\* a member's chip
Toggle(m) ==
  /\ m \in Listed
  /\ excluded' = Flipped(m)
  /\ Editing
  /\ UNCHANGED <<group, joined, total, payer, type, given, order>>

\* Slip: an entry that is changed is listed twice
PlacedLast(m) == Append(order, m)
Placed(m) == IF m \in Entered THEN order ELSE Append(order, m)

Entry(m, v) ==
  /\ given' = [given EXCEPT ![m] = v]
  /\ order' = Placed(m)
NoEntry(m) ==
  /\ given' = [given EXCEPT ![m] = 0]
  /\ order' = RemoveFirst(order, m)

\* UnequalSplitInputs: an amount of zero is no entry
SetCustomAmount(m, v) ==
  /\ type = "unequal"
  /\ IF v > 0 THEN Entry(m, v) ELSE NoEntry(m)

\* PercentageSplitInputs: up to 100 %, and a zero is an entry
SetPercentage(m, v) ==
  /\ type = "percentage"
  /\ v <= Full
  /\ Entry(m, v)

\* SharesSplitInputs: when the last share goes, the effect seeds them again
SetShare(m, v) ==
  /\ type = "shares"
  /\ \/ v > 0 /\ Entry(m, v)
     \/ v = 0 /\ Entered \subseteq {m} /\ Seed(type)
     \/ v = 0 /\ ~(Entered \subseteq {m}) /\ NoEntry(m)

\* An input of a member who takes part
Enter(m, v) ==
  /\ m \in Included
  /\ SetCustomAmount(m, v) \/ SetPercentage(m, v) \/ SetShare(m, v)
  /\ Editing
  /\ UNCHANGED <<group, joined, total, payer, type, excluded>>

SetTotal(v) ==
  /\ v # total
  /\ total' = v
  /\ Editing
  /\ UNCHANGED <<group, joined, payer, type, excluded, given, order>>

SetPayer(m) ==
  /\ m \in Listed /\ m # payer
  /\ payer' = m
  /\ Editing
  /\ UNCHANGED <<group, joined, total, type, excluded, given, order>>

\* The modal's group selector: the preview stays mounted and keeps its state
ChangeGroup(g) ==
  /\ g # group
  /\ group' = g
  /\ joined' = {}
  /\ Editing
  /\ UNCHANGED <<total, payer, type, excluded, given, order>>

\* somebody accepts an invite: the list on screen does not know
Join(m) ==
  /\ m \in Person \ Members
  /\ answer.kind = "none"
  /\ joined' = joined \cup {m}
  /\ UNCHANGED <<group, total, payer, type, excluded, given, order, answer>>

-----------------------------------------------------------------------------
(* Confirm: buildSplitPayload and the server.                              *)

\* the splits of the request, which is in the order of the map
Splits == Entered \ excluded
\* Slip: filter_included_members does not look at the exclusions
EveryMember == IF type = "equal" THEN Members ELSE Splits
\* an equal split is sent as exclusions only: the server lists the members
Billed == IF type = "equal" THEN Members \ excluded ELSE Splits

\* UnequalSplitItem and PercentageSplitItem take at most two decimals
TwoDecimals == \A m \in Splits : given[m] % Hundredth = 0

\* create_expense, apply_split and the checks of the calculate_ functions
Accepts ==
  /\ payer \in Members
  /\ excluded \subseteq Members
  /\ Billed \subseteq Members
  /\ Cardinality(Billed) >= 2
  /\ CASE type = "equal" -> TRUE
       [] type = "unequal" ->
            /\ TwoDecimals
            /\ Abs(Sum(given, Billed) - total * Hundredth) <= Hundredth
       [] type = "percentage" ->
            /\ TwoDecimals
            /\ Abs(Sum(given, Billed) - Full) <= Hundredth
       [] type = "shares" -> Sum(given, Billed) > 0

\* calculate_equal_split: nobody but the payer absorbs the difference
\* Slip: the payer absorbs the difference the other way round
EqualTurned ==
  LET each == HalfUp(total, Cardinality(Billed))
  IN [m \in Billed |->
        IF m = payer THEN each - (total - each * Cardinality(Billed)) ELSE each]
EqualParts ==
  LET each == HalfUp(total, Cardinality(Billed))
  IN [m \in Billed |->
        IF m = payer THEN each + (total - each * Cardinality(Billed)) ELSE each]

\* calculate_percentage_split and calculate_shares_split: the last of the
\* request takes what remains
\* Slip: shares of members excluded later still count
SharesOfAll == Sum(given, Entered)
SharesBilled == Sum(given, Billed)
Weighted(whole) ==
  Absorb(total, [m \in Billed |-> HalfEven(total * given[m], whole)],
         LastOf(order, Splits))

Parts ==
  CASE type = "equal" -> EqualParts
    [] type = "unequal" -> [m \in Billed |-> given[m] \div Hundredth]
    [] type = "percentage" -> Weighted(Full)
    [] type = "shares" -> Weighted(SharesBilled)

Confirm ==
  /\ answer.kind = "none"
  /\ \E edge \in BOOLEAN : Valid(edge)
  /\ answer' = IF Accepts THEN [kind |-> "stored", parts |-> Parts] ELSE Refusal
  /\ UNCHANGED <<group, joined, total, payer, type, excluded, given, order>>

Next ==
  \/ \E t \in Types : ChooseType(t)
  \/ \E m \in Person : Toggle(m) \/ SetPayer(m) \/ Join(m)
  \/ \E m \in Person : type # "equal" /\ \E v \in Typed[type] : Enter(m, v)
  \/ \E v \in Total : SetTotal(v)
  \/ \E g \in Group : ChangeGroup(g)
  \/ Confirm

Spec == Init /\ [][Next]_vars

-----------------------------------------------------------------------------
(* Properties                                                              *)

Stored == answer.kind = "stored"

\* What the editor lets through, the server takes, but for state left from
\* another group, and amounts and percentages of more than two decimals, which
\* the inputs take and the editor itself fills in (buildSplitPayload: "the
\* exact body the split API expects").
LeftOver == ~(({payer} \cup excluded \cup Entered) \subseteq Listed)
Finer == type \in {"unequal", "percentage"} /\ ~TwoDecimals
ValidIsAccepted == answer.kind = "refused" => LeftOver \/ Finer

\* Everybody who is selected owes a part and nobody else does, whatever was
\* typed for whom before the chips changed (audit S4-M2).  Only a member who
\* joined unseen may be billed as well: by an equal split, or by an entry left
\* from another group.
NobodyElsePays ==
  Stored => \/ DOMAIN answer.parts = Included
            \/ joined # {} /\ (type = "equal" \/ LeftOver)

\* The parts stored add up to the amount, but for an equal split without the
\* payer, where half a cent each may be lost or gained, and for amounts typed,
\* which both sides take when they are a cent off.
Off == Abs(Sum(answer.parts, DOMAIN answer.parts) - total)
PartsAddUp ==
  Stored => \/ Off = 0
            \/ /\ type = "equal" /\ payer \notin DOMAIN answer.parts
               /\ 2 * Off <= Cardinality(DOMAIN answer.parts)
            \/ type = "unequal" /\ Off = 1

\* What was shown is what is stored, up to a cent for every person
\* (splitAmounts and the calculate_ functions round and absorb differently)
\* and, where percentages add up to 0.01 % more or less, that part of the
\* amount, which they give to different persons.
Slack == IF type = "percentage" THEN total * Hundredth ELSE 0
ShownIsClose ==
  Stored /\ joined = {} =>
    \A f \in Shown : \A m \in Included :
      Full * (Abs(Rows(f)[m] - answer.parts[m]) - Cardinality(Included)) <= Slack

\* SharesSplitInputs: "SplitAmountsDisplay renders the authoritative rounded
\* amounts."
ShownIsStored == Stored /\ joined = {} => answer.parts \in Shown

\* "Disable confirm button until amounts sum to total exactly" (story 3.6).
ConfirmNeedsExactSum == Stored /\ type = "unequal" => Off = 0
=============================================================================
