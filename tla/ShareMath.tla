----------------------------- MODULE ShareMath -----------------------------
(***************************************************************************)
(* The bill-split arithmetic of share/share.go.  All money is integer sen. *)
(* No operator here is recursive, so modules with proofs may extend it.    *)
(* Go's int64 is 64 bits wide and amounts come from receipts, so the       *)
(* products below stay far from the limit; widths are not modelled.        *)
(***************************************************************************)
EXTENDS Integers, FiniteSetsExt, Functions

\* Go's integer quotient truncates toward zero; \div floors (b > 0).
GoDiv(a, b) == IF a >= 0 THEN a \div b ELSE -((-a) \div b)

\* Mutant: quotients are rounded down.
RoundDivDown(a, b) == IF b <= 0 THEN 0 ELSE GoDiv(a, b)

RoundDiv(a, b) == IF b <= 0 THEN 0 ELSE GoDiv(a + GoDiv(b, 2), b)

\* The portion of the items in S when item i has n[i] claimants; fewer than
\* one claimant counts as one.
ClaimedSen(S, line, n) ==
    SumFunction([i \in S |-> RoundDiv(line[i], IF n[i] < 1 THEN 1 ELSE n[i])])

\* Claimed portions plus a proportional cut of tax, service and rounding.
Owed(claimedSen, subtotalSen, taxTotalSen) ==
    IF subtotalSen <= 0
    THEN claimedSen
    ELSE claimedSen + RoundDiv(claimedSen * taxTotalSen, subtotalSen)

Distance(a, b) == IF a < b THEN b - a ELSE a - b

\* Amounts that come to `total` are off the bill by at most half a sen for each of
\* the portions they are made of, taxed like it, and half a sen for each cut of
\* tax, service and rounding; truncation makes that 1.5 sen where a cut is
\* negative.
CoversBill(total, subtotal, tax, portions, cuts) ==
    2 * Distance(total, subtotal + tax) * subtotal
        <= portions * (subtotal + Distance(tax, 0))
            + (IF tax < 0 THEN 3 ELSE 1) * subtotal * cuts

=============================================================================
