----------------------------- MODULE MCReceipt -----------------------------
(* Receipts of one to three items at Malaysian rates, for TLC. *)
EXTENDS Receipt

Item(name, unit, qty) == [name |-> name, unit |-> unit, qty |-> qty, line |-> unit * qty]

\* Two equal prices make scaled lines miss the subtotal; a free item and one of
\* several units are among the sides.
Mains == {Item("main", 1699, 1), Item("main", 500, 1)}
Sides == {Item("side", 599, 1), Item("side", 115, 3), Item("side", 500, 1), Item("side", 0, 1)}
Drinks == {Item("drink", 500, 1), Item("drink", 333, 2)}

Baskets ==
    {<<x>> : x \in Mains}
        \cup {<<x, y>> : x \in Mains, y \in Sides} \cup {<<y, x>> : x \in Mains, y \in Sides}
        \cup {<<x, y, z>> : x \in Mains, y \in Sides, z \in Drinks}

\* Percentages of sales tax and service charge.
Rates == {<<0, 0>>, <<6, 0>>, <<8, 0>>, <<0, 10>>, <<6, 10>>}

NetPriced(items, rate, rounding) ==
    LET subtotal == ItemsSumSen(items)
        sst      == RoundDiv(subtotal * rate[1], 100)
        service  == RoundDiv(subtotal * rate[2], 100)
    IN  [subtotal |-> subtotal, sst |-> sst, service |-> service, rounding |-> rounding,
         total |-> subtotal + sst + service, items |-> items]

Inclusive(items, rate, rounding) ==
    LET total    == ItemsSumSen(items)
        subtotal == RoundDiv(total * 100, 100 + rate[1] + rate[2])
        service  == IF rate[1] = 0 THEN total - subtotal ELSE RoundDiv(subtotal * rate[2], 100)
    IN  [subtotal |-> subtotal, sst |-> total - subtotal - service, service |-> service,
         rounding |-> rounding, total |-> total, items |-> items]

MCPrinted ==
    {NetPriced(b, r, d) : b \in Baskets, r \in Rates, d \in -2..2}
        \cup {Inclusive(b, r, d) : b \in Baskets, r \in Rates, d \in -2..2}
=============================================================================
