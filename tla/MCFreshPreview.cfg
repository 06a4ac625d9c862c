\* Two plans that start in different months and do not divide evenly.
CONSTANTS
    Amounts = {100}
    Candidates = {}
    Rates = {0}
    Counts = {3}
    Months = {1, 2, 3}
    Days = {1}
    Nothing = Nothing

SPECIFICATION QuotesSpec

INVARIANTS
    PreviewStaysFresh

\* A question that is answered is the end.
CHECK_DEADLOCK FALSE
