--------------------------- MODULE MCRefundExport ---------------------------
(* Two receipts: r1's refund is first pending, then paid on a later date;   *)
(* r2's exceeds the receipt in one of the two revenue contents.             *)
EXTENDS RefundExport, TLC

CONSTANTS o1, o2, r1, r2, u1, u2

SessionSymmetry == Permutations(Sessions)

Line(order, receipt, amount, status, day) ==
    [order |-> order, receipt |-> receipt, amount |-> amount, status |-> status, day |-> day]

MCFiles == {{Line(o1, r1, 1, "pending", 1), Line(o2, r2, 2, "paid", 1)},
            {Line(o1, r1, 1, "paid", 2)}}

MCSmall == r1 :> 1 @@ r2 :> 1
MCLarge == r1 :> 2 @@ r2 :> 2

MCRevenues == {MCSmall, MCLarge}

MCChange == {<<MCSmall, MCLarge>>}
=============================================================================
