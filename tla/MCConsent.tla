------------------------------ MODULE MCConsent ------------------------------
(* Small instances of Consent for TLC.                                      *)
EXTENDS Consent

CONSTANTS e1, alice, bob, carol, c1, c2, k1

TheExpense == {e1}
Pair == {alice, bob}
Trio == {alice, bob, carol}
TwoClients == {c1, c2}
OneSweeper == {k1}
=============================================================================
