---------------------------- MODULE MCAoqMemPool ----------------------------
(***************************************************************************)
(* Values for AoqMemPoolList.  Chunks and slabs are small numbers, malloc  *)
(* returns the lowest free address, so that a freed chunk is handed out    *)
(* again at once.                                                          *)
(***************************************************************************)
EXTENDS AoqMemPoolList

MCLowest(S) == {c \in S : \A d \in S : c <= d}

(* Without -a the pool may be drained, and requests go on with fresh       *)
(* chunks.  With -a, MCSafe starts with more chunks than the load can      *)
(* hold, and the reserve keeps more than that for every forecast.          *)
MCSafe ==
  {[size |-> 2, aomp |-> FALSE, load |-> 4], [size |-> 3, aomp |-> TRUE, load |-> 2]}
MCSafeForecasts == {-4, 0, 1}

(* -a with a pool the load can drain.                                      *)
MCDrained == {[size |-> 2, aomp |-> TRUE, load |-> 3]}
MCDrainedForecasts == {0, 2}
=============================================================================
