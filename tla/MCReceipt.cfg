CONSTANTS
    Printed <- MCPrinted
    FormRows = 5
    MaxSharers = 3
SPECIFICATION Spec
INVARIANT TypeOK
INVARIANT CorrectReadingKept
INVARIANT FiguresRestoredOrWarned
INVARIANT LinesAddUp
INVARIANT InclusivePriceRestored
INVARIANT UnitsAddUp
INVARIANT SharesCoverBill
CHECK_DEADLOCK FALSE
