---------------------------- MODULE MCConnection ----------------------------
(***************************************************************************)
(* Small instances of Connection for TLC.  Requests are numbered in the    *)
(* order they are sent and connections in the order they are opened, so    *)
(* neither set is symmetric.                                               *)
(***************************************************************************)
EXTENDS Connection
=============================================================================
