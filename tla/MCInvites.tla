----------------------------- MODULE MCInvites -----------------------------
(* Nothing distinguishes users, links or requests but their names.          *)
EXTENDS Invites, TLC

Symmetry == Permutations(User) \cup Permutations(Link) \cup Permutations(Accept)
=============================================================================
