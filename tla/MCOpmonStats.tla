---------------------------- MODULE MCOpmonStats ----------------------------
(***************************************************************************)
(* Bursts of up to two of at most three packets.                           *)
(***************************************************************************)
EXTENDS OpmonStats
=============================================================================
