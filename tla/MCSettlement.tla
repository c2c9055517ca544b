---------------------------- MODULE MCSettlement ----------------------------
(* Small instances of Settlement for TLC.                                   *)
EXTENDS Settlement

CONSTANTS alice, bob, carol, t1, t2, t3

Trio == {alice, bob, carol}
TwoTx == {t1, t2}
ThreeTx == {t1, t2, t3}

\* One dinner alice paid: bob owes split 1, carol 2, her own share is 3.
DinnerSplits == {1, 2, 3}
DinnerExpenseOf == <<1, 1, 1>>
DinnerOwes == <<bob, carol, alice>>
DinnerPayer == <<alice>>
DinnerAmount == <<2, 2, 1>>

\* A gift alice paid and takes no share of: bob owes 1, carol owes 2.
GiftSplits == {1, 2}
GiftExpenseOf == <<1, 1>>
GiftOwes == <<bob, carol>>
GiftAmount == <<2, 2>>

\* A trip: alice paid expense 1 and bob expense 2, so they owe each other;
\* carol owes alice a share of expense 1.
TripSplits == {1, 2, 3}
TripExpenseOf == <<1, 2, 1>>
TripOwes == <<bob, alice, carol>>
TripPayer == <<alice, bob>>
TripAmount == <<3, 1, 2>>

\* Two outings alice paid and took no share of: bob and carol owe for both.
OutingSplits == {1, 2, 3, 4}
OutingExpenseOf == <<1, 2, 1, 2>>
OutingOwes == <<bob, bob, carol, carol>>
OutingPayer == <<alice, alice>>
OutingAmount == <<1, 1, 1, 1>>
=============================================================================
