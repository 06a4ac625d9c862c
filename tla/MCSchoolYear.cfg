\* Two requests at a time in every component, on two things each.
CONSTANTS
    x1 = x1
    x2 = x2
    r1 = r1
    r2 = r2
    blank = blank
    text = text
    Censuses <- Things
    CensusClerks <- Requests
    MaxSnapshots = 2
    WorkFiles <- Things
    PupilTabs <- Requests
    MaxRevisions = 3
    NoBase = NoBase
    Sitters <- Things
    Teachers <- Requests
    MaxMarks = 2
    ReportTexts <- TwoTexts
    Blank <- blank
    Editors <- Requests
    MaxPublications = 3
    PlayChannels <- Things
    Players <- Requests
    AttemptsAllowed = 2
    MaxRewards = 2
    BadgeAt = 2
    Entrants <- Things
    Judges <- Requests
    MaxScore = 2

SYMMETRY Anyone

SPECIFICATION YearSpec

INVARIANTS
    WorkIsKept

PROPERTIES
    CensusStands
    ResultsStand
    ReportsStand
    RewardsAreFair
    ResultsStayFrozen

\* An archived census and a bound that is reached are ends.
CHECK_DEADLOCK FALSE
