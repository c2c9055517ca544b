--------------------------- MODULE MCSettleScreens ---------------------------
(* A small instance of SettleScreens: I owe split 1, they owe split 2, and  *)
(* both settle-ups are possible while the two are open.                     *)
EXTENDS SettleScreens

MCAmount == [s \in Split |-> 10]
=============================================================================
