------------------------- MODULE MCReceiptExclusion -------------------------
(* Six rows: a paid order whose receipt is exported again with an excluded   *)
(* kind (off), and rows that share a receipt or an order with it: other has  *)
(* its receipt, twin its order, split the receipt of twin.  Amounts are in   *)
(* half dollars: split and fixed each stay below the tolerance, and reach it *)
(* together.                                                                 *)
EXTENDS ReceiptExclusion, TLC

CONSTANTS paid, off, other, twin, split, fixed, u1, u2

SessionSymmetry == Permutations(Sessions)

MCRows == {paid, off, other, twin, split, fixed}

MCReceiptOf == paid :> 1 @@ off :> 1 @@ other :> 1 @@ twin :> 2 @@ split :> 2 @@ fixed :> 3

MCOrderOf == paid :> 1 @@ off :> 1 @@ other :> 2 @@ twin :> 1 @@ split :> 3 @@ fixed :> 4

MCAmount == paid :> 20 @@ off :> 20 @@ other :> 20 @@ twin :> 20 @@ split :> 1 @@ fixed :> 1

MCExcluded == {off, other, twin}

MCFrozen == MCRows

MCInitialRows == {paid}

MCBatches == {{off, fixed}, {off, other}, {off, twin}, {other}, {split}, {twin}}
=============================================================================
