------------------------------ MODULE MCSignIn ------------------------------
(* Nothing distinguishes tabs, or tokens, but their names.                  *)
EXTENDS SignIn, TLC

Symmetry == Permutations(Tab) \cup Permutations(Token)
=============================================================================
