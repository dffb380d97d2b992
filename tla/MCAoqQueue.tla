----------------------------- MODULE MCAoqQueue -----------------------------
(***************************************************************************)
(* Model values for AoqQueueList.  Five nodes hold a queue filled to one   *)
(* more than its limit of three, with a node left over to be refused.      *)
(***************************************************************************)
EXTENDS AoqQueueList

CONSTANTS n1, n2, n3, n4, n5, x, y

=============================================================================
