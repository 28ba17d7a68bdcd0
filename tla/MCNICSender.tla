----------------------------- MODULE MCNICSender -----------------------------
(***************************************************************************)
(* Two lcores with a board each; bursts of two fill a batch of four, so    *)
(* that a batch takes two bursts and a burst may take several calls.       *)
(* For the mbufs freed, one lcore whose batch is one burst of three, which  *)
(* the driver may take in three parts.                                     *)
(***************************************************************************)
EXTENDS NICSender
=============================================================================
