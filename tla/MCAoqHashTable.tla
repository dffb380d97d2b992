--------------------------- MODULE MCAoqHashTable ---------------------------
(***************************************************************************)
(* Values for AoqHashTable: three names that share a bucket in a table of  *)
(* two, three or six, one of which has another in a table of four, and a   *)
(* long name.                                                              *)
(***************************************************************************)
EXTENDS AoqHashTable, TLC

CONSTANTS ka, kb, kc, kl

MCQueueSymmetry == Permutations(Queue)
MCHashOf == [k \in Key |-> CASE k = ka -> 0 [] k = kb -> 6 [] k = kc -> 12 [] k = kl -> 1]
=============================================================================
