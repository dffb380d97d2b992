------------------------------ MODULE MCAoqLog ------------------------------
(***************************************************************************)
(* Values for AoqLog: a request of one chunk, one of two, and one with a   *)
(* newline in its value.                                                   *)
(***************************************************************************)
EXTENDS AoqLog

CONSTANTS ra, rb, rc

MCSize == [r \in Request |-> IF r = rb THEN 3 ELSE 2]
MCBreaks == [r \in Request |-> IF r = rc THEN {1} ELSE {}]
=============================================================================
