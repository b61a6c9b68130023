--------------------------- MODULE MCNonblockingList ---------------------------
(* Four insertions, of which two may carry the same value *)
EXTENDS NonblockingList, TLC

CONSTANTS n1, n2, n3, n4

TwoEqual == n1 :> 1 @@ n2 :> 2 @@ n3 :> 2 @@ n4 :> 3
=============================================================================
