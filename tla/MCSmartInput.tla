---------------------------- MODULE MCSmartInput ----------------------------
(* A small instance of SmartInput for TLC.                                  *)
EXTENDS SmartInput
=============================================================================
