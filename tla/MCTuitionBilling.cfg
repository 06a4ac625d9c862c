\* A general run and a run of one schedule, two pupils, changes by the office;
\* fees that divide and do not, five discounts in all combinations, VAT rates up to 50%.
CONSTANTS
    general = general
    single = single
    s1 = s1
    s2 = s2
    Pupils = {p1, p2}
    Accounts = {a1, a2}
    Runs <- TwoRuns
    Schedules <- TwoSchedules
    Only <- OnlyOne
    Fits <- FitsAll
    Rank <- ByName
    Prices = {1}
    MaxChanges = 1
    None = None
    Amounts = {0, 1, 7, 100, 333}
    Candidates <- SomeDiscounts
    Rates = {0, 500, 1750, 2000, 5000}
    Counts = {1, 3, 10}
    Months = {1, 2, 3}
    Days = {1, 7, 30}
    Nothing = Nothing

SYMMETRY Symmetric

SPECIFICATION TuitionSpec

INVARIANTS
    BillingInv
    QuotesByTheRules
    PartsMakeTheWhole

PROPERTIES
    DoubleBillingNeedsOverlap
    QuietRunsBillExactly

\* A question that is answered is the end.
CHECK_DEADLOCK FALSE
