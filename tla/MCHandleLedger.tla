--------------------------- MODULE MCHandleLedger ---------------------------
(* Instances of HandleLedger for TLC. *)
EXTENDS HandleLedger, TLC

OneRange == {Extent(1, 4)}

(* A request that meets the free extents on their left, on their right, inside
   or around them, and an array whose second extent is tried after the first. *)
OneArray == {<<Extent(2, 4)>>, <<Extent(2, 2), Extent(1, 3)>>}

WorkerSymmetry == Permutations(Workers)
=============================================================================
