---------------------------- MODULE MCGarpSender ----------------------------
(***************************************************************************)
(* An interface with three addresses, none of which reads the same in      *)
(* reverse order of bytes.                                                 *)
(***************************************************************************)
EXTENDS GarpSender

MCAddresses == <<<<10, 73, 139, 16>>, <<10, 73, 139, 17>>, <<192, 168, 0, 1>>>>
=============================================================================
