---------------------------- MODULE ReceiptMath ----------------------------
(***************************************************************************)
(* How a scanned receipt is repaired, checked and turned into claimable    *)
(* rows: scan_parse.go, scan_validate.go and expandSplitItems of store.go. *)
(*                                                                         *)
(* A receipt has its summary figures and a sequence of items, in sen.      *)
(* Confidence scores are left out, and with them the warnings that only    *)
(* repeat them; so are the merchant and its warning, and the duplicates    *)
(* warning, which compares names.  No operator is recursive.               *)
(***************************************************************************)
EXTENDS ShareMath, SequencesExt

ItemsSumSen(items) == SumFunction([i \in DOMAIN items |-> items[i].line])

TaxTotalSen(r) == r.sst + r.service + r.rounding

SenClose(a, b) == a - b \in -2..2

\* An item with its line total set and its unit price with it.
WithLine(item, line) ==
    [item EXCEPT !.line = line,
                 !.unit = IF item.qty > 0 THEN GoDiv(line, item.qty) ELSE @]

-----------------------------------------------------------------------------
\* mapLLMResponse: from the model's answer to a receipt.

NoName == ""

\* Mutant: a missing quantity stays missing.
MapItemKeepingQty(it) ==
    LET qty  == IF it.qty < 1 THEN 1 ELSE it.qty
        line == IF it.line = 0 THEN it.unit * qty ELSE it.line
    IN  [name |-> it.name, qty |-> it.qty, line |-> line,
         unit |-> IF it.unit = 0 THEN GoDiv(line, qty) ELSE it.unit]

MapItem(it) ==
    LET qty  == IF it.qty < 1 THEN 1 ELSE it.qty
        line == IF it.line = 0 THEN it.unit * qty ELSE it.line
    IN  [name |-> it.name, qty |-> qty, line |-> line,
         unit |-> IF it.unit = 0 THEN GoDiv(line, qty) ELSE it.unit]

\* An item without a name is skipped.
AddNamed(items, it) == IF it.name = NoName THEN items ELSE Append(items, MapItem(it))

MapLLMResponse(resp) ==
    [subtotal |-> resp.subtotal,
     sst      |-> IF resp.sst = 0 /\ resp.tax > 0 THEN resp.tax ELSE resp.sst,
     service  |-> resp.service,
     rounding |-> resp.rounding,
     total    |-> resp.total,
     items    |-> FoldLeft(AddNamed, <<>>, resp.items)]

-----------------------------------------------------------------------------
\* repairMisassignedTotals.

WithFigures(r, sst, service, rounding, total) ==
    [subtotal |-> r.subtotal, sst |-> sst, service |-> service, rounding |-> rounding,
     total |-> total, items |-> r.items]

RelabelServiceTax(r) ==
    IF /\ r.sst = 0
       /\ r.service > 0 /\ r.service < r.subtotal \div 2
       /\ r.total > 0 /\ SenClose(r.subtotal + r.service + r.rounding, r.total)
    THEN WithFigures(r, r.service, 0, r.rounding, r.total)
    ELSE r

\* The tax is in service and the printed total in sst.
TaxInService(r) ==
    /\ r.sst > r.subtotal
    /\ r.service > 0 /\ r.service < r.subtotal \div 2
    /\ SenClose(r.subtotal + r.service, r.sst)

ImpliedTax(r) == r.sst - r.subtotal - r.service - r.rounding

\* The printed total is in sst.
TotalInSst(r) ==
    /\ r.sst >= (r.subtotal * 95) \div 100
    /\ ImpliedTax(r) \in 1..((r.subtotal * 20) \div 100)
    /\ r.total = 0 \/ SenClose(r.total, r.sst) \/ SenClose(r.total, r.sst + r.rounding)

\* The printed total moves to its place; what was there may be the payment.
TotalFromSst(r, sst, service) ==
    LET left == r.total - r.sst
    IN  WithFigures(r, sst, service, IF r.rounding = 0 /\ left \in 1..100 THEN left ELSE r.rounding, r.sst)

\* Mutant: a tax in service is not looked for when the total is in sst.
RepairTotalsOneCase(rec) ==
    LET r == RelabelServiceTax(rec) IN
    IF rec.subtotal > 0 /\ TotalInSst(r) THEN TotalFromSst(r, ImpliedTax(r), r.service) ELSE r

RepairMisassignedTotals(rec) ==
    LET r == RelabelServiceTax(rec) IN
    CASE rec.subtotal <= 0 -> rec
      [] rec.subtotal > 0 /\ TaxInService(r) -> TotalFromSst(r, r.service, 0)
      [] rec.subtotal > 0 /\ ~TaxInService(r) /\ TotalInSst(r) -> TotalFromSst(r, ImpliedTax(r), r.service)
      [] OTHER -> r

-----------------------------------------------------------------------------
\* repairMisassignedLineItems.

SummaryFigures(r) ==
    {r.total, r.subtotal, r.sst + r.service}
        \cup (IF r.subtotal > 0 THEN {r.subtotal + TaxTotalSen(r)} ELSE {})
        \cup (IF r.total > 0 THEN {r.total + r.rounding} ELSE {})

IsSummaryLineAmount(amt, r) ==
    amt > 0 /\ \E v \in SummaryFigures(r) : v > 0 /\ SenClose(amt, v)

\* Mutant: the line is what is missing from the subtotal.
RepairLineToSubtotal(r, i) ==
    LET amt      == r.items[i].line
        inferred == r.subtotal - (ItemsSumSen(r.items) - amt)
    IN  IF IsSummaryLineAmount(amt, r) /\ inferred >= 50 /\ inferred < amt
        THEN [r EXCEPT !.items[i] = WithLine(@, inferred)]
        ELSE r

RepairLine(r, i) ==
    LET amt      == r.items[i].line
        inferred == r.total - (ItemsSumSen(r.items) - amt)
    IN  IF IsSummaryLineAmount(amt, r) /\ inferred >= 50 /\ inferred < amt
        THEN [r EXCEPT !.items[i] = WithLine(@, inferred)]
        ELSE r

RepairMisassignedLineItems(r) ==
    IF Len(r.items) < 2 \/ r.total <= 0 THEN r ELSE FoldLeftDomain(RepairLine, r, r.items)

-----------------------------------------------------------------------------
\* normalizeParsedReceipt: tax-inclusive item prices become net ones.

\* Mutant: what rounding left is not settled.
ScaleItemsWithDrift(items, net, gross) ==
    [i \in DOMAIN items |-> WithLine(items[i], RoundDiv(items[i].line * net, gross))]

\* Every line in proportion, the last positive one taking what rounding left.
ScaleItemsToNet(items, net, gross) ==
    LET scaled   == [i \in DOMAIN items |-> WithLine(items[i], RoundDiv(items[i].line * net, gross))]
        drift    == net - ItemsSumSen(scaled)
        positive == {i \in DOMAIN items : scaled[i].line > 0}
    IN  IF drift = 0 \/ positive = {}
        THEN scaled
        ELSE [scaled EXCEPT ![Max(positive)] = WithLine(@, @.line + drift)]

\* Mutant: a missing total is left to the next call.
NormalizeWithoutTotal(rec) ==
    LET tax == rec.sst + rec.service
        sum == ItemsSumSen(rec.items)
    IN  IF /\ rec.subtotal > 0 /\ tax > 0 /\ sum > rec.subtotal
           /\ SenClose(sum, rec.total) /\ SenClose(rec.subtotal + TaxTotalSen(rec), rec.total)
        THEN [rec EXCEPT !.items = ScaleItemsToNet(@, rec.subtotal, sum)]
        ELSE rec

NormalizeParsedReceipt(rec) ==
    LET tax      == rec.sst + rec.service
        sum      == ItemsSumSen(rec.items)
        expected == rec.subtotal + tax + rec.rounding
        r        == [rec EXCEPT !.total = IF @ = 0 THEN expected ELSE @]
        gross    == sum > r.subtotal /\ SenClose(sum, r.total) /\ SenClose(expected, r.total)
    IN  CASE rec.subtotal <= 0 \/ tax <= 0 \/ sum <= 0 -> rec
          [] rec.subtotal > 0 /\ tax > 0 /\ sum > 0 ->
                IF gross THEN [r EXCEPT !.items = ScaleItemsToNet(@, r.subtotal, sum)] ELSE r

-----------------------------------------------------------------------------
\* enrichParsedReceipt and validateReceipt.

EnrichParsedReceipt(rec) ==
    LET subtotal == IF rec.subtotal <= 0 /\ rec.items # <<>> THEN ItemsSumSen(rec.items) ELSE rec.subtotal
        left     == rec.total - subtotal - rec.sst - rec.service
        r        == [rec EXCEPT !.subtotal = subtotal,
                                !.rounding = IF /\ @ = 0 /\ rec.total > 0 /\ subtotal > 0
                                                /\ left \in 1..99
                                             THEN left ELSE @]
    IN  IF r.total <= 0 /\ subtotal > 0 THEN [r EXCEPT !.total = subtotal + TaxTotalSen(r)] ELSE r

TotalMismatch(r) ==
    LET computed == r.subtotal + TaxTotalSen(r) IN
    /\ r.total > 0 /\ computed > 0
    /\ ~SenClose(computed, r.total)
    /\ ~SenClose(ItemsSumSen(r.items) + TaxTotalSen(r), r.total)

ValidateReceipt(r) ==
    {w \in {"no_items", "no_total", "total_mismatch"} :
        \/ w = "no_items" /\ r.items = <<>>
        \/ w = "no_total" /\ r.total <= 0
        \/ w = "total_mismatch" /\ TotalMismatch(r)}

-----------------------------------------------------------------------------
\* expandSplitItems: one row per unit, the last with the remainder.

\* Mutant: every unit costs the same.
UnitsAlike(item) ==
    LET qty   == IF item.qty < 1 THEN 1 ELSE item.qty
        total == IF item.line = 0 THEN item.unit * qty ELSE item.line
    IN  [n \in 1..qty |-> [name |-> item.name, line |-> GoDiv(total, qty)]]

Units(item) ==
    LET qty   == IF item.qty < 1 THEN 1 ELSE item.qty
        total == IF item.line = 0 THEN item.unit * qty ELSE item.line
        unit  == GoDiv(total, qty)
    IN  [n \in 1..qty |-> [name |-> item.name,
                           line |-> IF n = qty THEN total - unit * (qty - 1) ELSE unit]]

ExpandSplitItems(items) == FlattenSeq([i \in DOMAIN items |-> Units(items[i])])

=============================================================================
