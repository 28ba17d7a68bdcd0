--------------------------- MODULE MCInterfaceSetup ---------------------------
(***************************************************************************)
(* Every list of at most three streams from three addresses, and of at     *)
(* most two cores; two devices, any of which earlier connections may have  *)
(* set up with a queue or none.  Streams, sources, cores and devices are   *)
(* only compared, so they may be permuted.                                 *)
(***************************************************************************)
EXTENDS InterfaceSetup, TLC

MCSymmetry ==
  Permutations(Streams) \cup Permutations(SourceIds) \cup Permutations(Cores)
    \cup Permutations(Devices)
=============================================================================
