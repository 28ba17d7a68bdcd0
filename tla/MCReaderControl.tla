--------------------------- MODULE MCReaderControl ---------------------------
(***************************************************************************)
(* Two interfaces, one with two lcores, and two sources, one of them in    *)
(* callback mode.                                                          *)
(***************************************************************************)
EXTENDS ReaderControl

CONSTANTS i1, i2, l1, l2, l3

MCLcoresOf == [i \in {i1, i2} |-> IF i = i1 THEN {l1, l2} ELSE {l3}]
MCLcoresOfSmall == [i \in {i1, i2} |-> IF i = i1 THEN {l1} ELSE {l2}]
=============================================================================
