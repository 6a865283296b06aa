------------------------------- MODULE MCUnits -------------------------------
(* Small instances of Units for TLC. *)
EXTENDS Units
=============================================================================
