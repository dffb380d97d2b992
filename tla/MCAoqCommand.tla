---------------------------- MODULE MCAoqCommand ----------------------------
(***************************************************************************)
(* Values for AoqCommand: two names that share a bucket in a table of two  *)
(* and not in the table of four it grows into.                             *)
(***************************************************************************)
EXTENDS AoqCommand, TLC

CONSTANTS ka, kb

MCHashOf == [k \in Key |-> IF k = ka THEN 0 ELSE 2]
MCQueueSymmetry == Permutations(Queue)
=============================================================================
