---------------------------- MODULE MCSplitEditor ----------------------------
(* A small instance of SplitEditor: two groups that share two members, and  *)
(* amounts that do not divide evenly.                                       *)
EXTENDS SplitEditor

MCListOf == [g \in Group |-> IF g = 1 THEN <<2, 3, 1>> ELSE <<2, 4>>]

\* In sixths: 5.00, 5.005 and 5.01; 33.34, 49.99 and 50 percent.
MCTyped == [t \in {"unequal", "percentage", "shares"} |->
              CASE t = "unequal" -> {0, 3000, 3003, 3006}
                [] t = "percentage" -> {0, 20004, 29994, 30000}
                [] t = "shares" -> {0, 1, 2}]
=============================================================================
