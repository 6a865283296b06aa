----------------------------- MODULE MCControl -----------------------------
(***************************************************************************)
(* Small instances of Control for TLC.  What is varied is in the           *)
(* configurations: the number of connections and requests, and how the     *)
(* coordinator is built and set up.                                        *)
(***************************************************************************)
EXTENDS Control
=============================================================================
