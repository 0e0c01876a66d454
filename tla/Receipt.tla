------------------------------ MODULE Receipt ------------------------------
(***************************************************************************)
(* A printed receipt, what the vision model answers about it, the pipeline *)
(* of scan.go that repairs the answer, and the split created when the      *)
(* owner submits the review page as it is shown.  Each call of the         *)
(* pipeline is a step, so that properties can speak of what lies between.  *)
(***************************************************************************)
EXTENDS ReceiptMath

CONSTANTS
    Printed,    \* receipts as on paper; their total is before rounding
    FormRows,   \* how many rows of the review form the server reads: 100
    MaxSharers  \* how many friends may share a row

\* Figures are whole sen and named items have a price per unit.  Items are priced
\* net and add up to the subtotal, or include the tax and add up to the total;
\* rounding is to 5 sen.
ASSUME PrintedAssumption ==
    \A p \in Printed :
        /\ p \in [subtotal : Nat, sst : Nat, service : Nat, rounding : -2..2, total : Nat,
                  items : Seq([name : STRING, unit : Nat, qty : Nat \ {0}, line : Nat])]
        /\ p.total = p.subtotal + p.sst + p.service
        /\ ItemsSumSen(p.items) \in {p.subtotal, p.total}
        /\ p.items # <<>> /\ \A i, j \in DOMAIN p.items : p.items[i].name = p.items[j].name => i = j
        /\ \A i \in DOMAIN p.items : p.items[i].name # NoName /\ p.items[i].line = p.items[i].unit * p.items[i].qty

\* The repairs expect taxes of at most a fifth of the subtotal that can be told
\* from rounding.
ASSUME RatesAssumption ==
    \A p \in Printed :
        /\ p.subtotal > 0
        /\ {p.sst, p.service} \intersect 1..4 = {}
        /\ p.sst + p.service > 0 => p.sst + p.service + 2 <= (p.subtotal * 20) \div 100
ASSUME FormAssumption == FormRows \in Nat \ {0}
ASSUME SharersAssumption == MaxSharers \in Nat

VARIABLES
    paper,     \* the printed receipt
    slip,      \* the mistake the model made
    rec,       \* its answer, then the receipt in the pipeline
    stage,     \* the call of the pipeline that comes next
    warnings,  \* what the review page warns of
    rows       \* the items table of the split

vars == <<paper, slip, rec, stage, warnings, rows>>

-----------------------------------------------------------------------------
\* The model: the mistakes that the prompt, the repairs and their tests name.

Payment(p) == p.total + p.rounding

\* The total where the tax belongs; in its own place nothing, itself or the payment.
TotalAsSst(p, service) ==
    {[subtotal |-> p.subtotal, sst |-> p.total, service |-> service, rounding |-> d, total |-> t,
      tax |-> 0, items |-> p.items] :
        d \in {0, p.rounding}, t \in {0, p.total, Payment(p)}}

\* An item whose line is all there is, with its quantity or without.
LineMisread(it, line) == [name |-> it.name, unit |-> 0, qty |-> it.qty, line |-> line]
LineOnly(it) == [name |-> it.name, unit |-> 0, qty |-> 0, line |-> it.line]

Reading(s, p) ==
    LET a == [subtotal |-> p.subtotal, sst |-> p.sst, service |-> p.service, rounding |-> p.rounding,
              total |-> p.total, tax |-> 0, items |-> p.items]
    IN  CASE s = "none"             -> {a}
          [] s = "legacy_tax"       -> {[a EXCEPT !.tax = p.sst, !.sst = 0]}
          [] s = "sst_as_service"   -> IF p.service = 0 THEN {[a EXCEPT !.service = p.sst, !.sst = 0]} ELSE {}
          [] s = "total_as_sst"     -> TotalAsSst(p, p.service)
          [] s = "total_as_sst_sst_as_service" -> IF p.service = 0 THEN TotalAsSst(p, p.sst) ELSE {}
          [] s = "payment_as_total" -> {[a EXCEPT !.total = Payment(p), !.rounding = d] : d \in {0, p.rounding}}
          [] s = "no_subtotal"      -> {[a EXCEPT !.subtotal = 0]}
          [] s = "no_rounding"      -> {[a EXCEPT !.rounding = 0]}
          [] s = "no_total"         -> {[a EXCEPT !.total = 0]}
          [] s = "no_total_no_rounding" -> {[a EXCEPT !.total = 0, !.rounding = 0]}
          [] s = "summary_as_line"  -> {[a EXCEPT !.items[i] = LineMisread(@, v)] :
                                            i \in DOMAIN p.items, v \in {p.subtotal, p.total, Payment(p)}}
          [] s = "unit_only"        -> {[a EXCEPT !.items[i].line = 0] : i \in DOMAIN p.items}
          [] s = "line_only"        -> {[a EXCEPT !.items[i] = LineOnly(@)] : i \in DOMAIN p.items}
          [] s = "unnamed"          -> {[a EXCEPT !.items[i].name = NoName] : i \in DOMAIN p.items}

Slips == {"none", "legacy_tax", "sst_as_service", "total_as_sst", "total_as_sst_sst_as_service",
          "payment_as_total", "no_subtotal", "no_rounding", "no_total", "no_total_no_rounding",
          "summary_as_line", "unit_only", "line_only", "unnamed"}

Init ==
    /\ paper \in Printed
    /\ slip \in Slips
    /\ rec \in Reading(slip, paper)
    /\ stage = "map"
    /\ warnings = {}
    /\ rows = <<>>

-----------------------------------------------------------------------------
\* ScanPipeline.Process.

Call(at, next, result) ==
    /\ stage = at /\ stage' = next
    /\ rec' = result
    /\ UNCHANGED <<paper, slip>>

Map       == Call("map", "totals", MapLLMResponse(rec)) /\ UNCHANGED <<warnings, rows>>
Totals    == Call("totals", "lines", RepairMisassignedTotals(rec)) /\ UNCHANGED <<warnings, rows>>
LineItems == Call("lines", "normalize", RepairMisassignedLineItems(rec)) /\ UNCHANGED <<warnings, rows>>
Normalize == Call("normalize", "enrich", NormalizeParsedReceipt(rec)) /\ UNCHANGED <<warnings, rows>>
Enrich    == Call("enrich", "validate", EnrichParsedReceipt(rec)) /\ UNCHANGED <<warnings, rows>>

Validate ==
    /\ Call("validate", "review", rec)
    /\ warnings' = ValidateReceipt(rec)
    /\ UNCHANGED rows

\* The form has a row per unit; the server reads the first FormRows of them and
\* stores them as they are, since a single unit expands to itself.
Posted(items) ==
    LET units == ExpandSplitItems(items)
    IN  IF Len(units) <= FormRows THEN units ELSE SubSeq(units, 1, FormRows)

\* handleWebCreateSplit and the inserts of CreateSplit.
Create ==
    /\ rec.items # <<>> /\ rec.total > 0
    /\ Call("review", "created",
            [rec EXCEPT !.subtotal = IF @ <= 0 THEN ItemsSumSen(Posted(rec.items)) ELSE @])
    /\ rows' = Posted(rec.items)
    /\ UNCHANGED warnings

\* Without items or total the form sends the owner back to the capture page.
Refuse ==
    /\ rec.items = <<>> \/ rec.total <= 0
    /\ Call("review", "refused", rec)
    /\ UNCHANGED <<warnings, rows>>

Next ==
    \/ Map \/ Totals \/ LineItems \/ Normalize \/ Enrich \/ Validate
    \/ Create \/ Refuse

Spec == Init /\ [][Next]_vars

-----------------------------------------------------------------------------
Shown == stage \in {"review", "created", "refused"}

NetPrices == ItemsSumSen(paper.items) = paper.subtotal
Taxed == paper.sst + paper.service > 0

\* Every item has its quantity and integer prices once the answer is mapped.
TypeOK ==
    /\ stage \in {"map", "totals", "lines", "normalize", "enrich", "validate",
                  "review", "created", "refused"}
    /\ {rec.subtotal, rec.sst, rec.service, rec.rounding, rec.total} \subseteq Int
    /\ \A i \in DOMAIN rec.items :
          /\ {rec.items[i].unit, rec.items[i].line} \subseteq Int
          /\ stage # "map" => rec.items[i].name # NoName /\ rec.items[i].qty \in Nat \ {0}
    /\ warnings \subseteq {"no_items", "no_total", "total_mismatch"}
    /\ \A n \in DOMAIN rows : rows[n].line \in Int

\* The repairs leave a correct reading alone: no warning, the figures as printed,
\* net prices as printed, and tax-inclusive prices scaled to within half a sen per
\* item of their share of the subtotal, which they add up to exactly.
CorrectReadingKept ==
    Shown /\ slip = "none" =>
        /\ warnings = {}
        /\ rec.subtotal = paper.subtotal /\ rec.total = paper.total
        /\ TaxTotalSen(rec) = TaxTotalSen(paper)
        /\ ItemsSumSen(rec.items) = rec.subtotal
        /\ IF NetPrices
           THEN rec.items = paper.items
           ELSE \A i \in DOMAIN paper.items :
                    2 * (rec.items[i].line - RoundDiv(paper.items[i].line * paper.subtotal, paper.total))
                        \in -Len(paper.items)..Len(paper.items)

\* Whatever mistake was made with the figures of a taxed receipt, the review page
\* shows them within 2 sen of the printed ones or warns of a mismatch.
FiguresRestoredOrWarned ==
    Shown /\ Taxed /\ warnings = {} =>
        /\ SenClose(rec.subtotal, paper.subtotal)
        /\ SenClose(rec.total, paper.total)
        /\ SenClose(TaxTotalSen(rec), TaxTotalSen(paper))

\* A summary figure on one line can be told from a price: every price is above the
\* 50 sen below which none is inferred, none is itself near a summary figure, and
\* the other items cost more than the tax.
Repairable ==
    /\ Len(paper.items) > 1
    /\ \A i \in DOMAIN paper.items :
          /\ paper.items[i].line > 52
          /\ ~IsSummaryLineAmount(paper.items[i].line, paper)
          /\ ItemsSumSen(paper.items) - paper.items[i].line > paper.sst + paper.service

\* What the review page shows without a warning adds up, tax-inclusive prices and
\* repaired lines too.
LinesAddUp ==
    /\ Shown /\ warnings = {}
    /\ slip # "unnamed" /\ (slip = "summary_as_line" => Repairable)
    => SenClose(ItemsSumSen(rec.items), rec.subtotal)

\* Where prices include the tax, a line that picked up a summary figure gets its
\* menu price back.
InclusivePriceRestored ==
    stage = "normalize" /\ slip = "summary_as_line" /\ ~NetPrices /\ Repairable =>
        \A i \in DOMAIN paper.items : SenClose(rec.items[i].line, paper.items[i].line)

\* How many units the first n items have.
UnitsThrough(items, n) == SumFunctionOnSet([i \in DOMAIN items |-> items[i].qty], 1..n)

\* Each item becomes one row per unit, in the order of the receipt, up to the rows
\* that the server reads; where all rows of an item are read they add up to its
\* line and differ by less than one sen per unit.  What lies beyond is lost.
UnitsAddUp ==
    stage = "created" =>
        \A i \in DOMAIN rec.items :
            LET it     == rec.items[i]
                before == UnitsThrough(rec.items, i - 1)
                of     == {n \in DOMAIN rows : rows[n].name = it.name}
            IN  /\ of = ((before + 1)..(before + it.qty)) \intersect (1..FormRows)
                /\ before + it.qty <= FormRows =>
                      /\ SumFunction([n \in of |-> rows[n].line]) = it.line
                      /\ \A n, m \in of : rows[n].line - rows[m].line < it.qty

\* What k friends who share every row owe together, where no row is negative and
\* the rows add up to the subtotal, which they do not once some are lost: each
\* portion is off by half a sen at most, and so is each cut of tax, service and
\* rounding, unless these are negative, which the truncating division rounds up by
\* as much as 1.5 sen.  The bound grows with the rows and the friends: three who
\* share 1699 and three rows of 115 owe 2040, not 2044, which is more than the sen
\* or two that share.go names.
SharesCoverBill ==
    /\ stage = "created" /\ ItemsSumSen(rows) = rec.subtotal
    /\ \A n \in DOMAIN rows : rows[n].line >= 0
    =>
        \A k \in 1..MaxSharers :
            LET each == Owed(ClaimedSen(DOMAIN rows, [n \in DOMAIN rows |-> rows[n].line],
                                        [n \in DOMAIN rows |-> k]),
                             rec.subtotal, TaxTotalSen(rec))
            IN  CoversBill(k * each, rec.subtotal, TaxTotalSen(rec), k * Len(rows), k)

=============================================================================
