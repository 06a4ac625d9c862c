\* One place or none.  Two pupils charged on confirmation, consent required until staff drop
\* it, or never required (two requests at a time with consent, one without); or three pupils
\* without price or consent, of whom two can wait.
CONSTANTS
    Eligible = {p1, p2, p3}
    Capacities = {0, 1}
    ConsentRules = {TRUE, FALSE}
    ConsentEdits = {FALSE}
    Policies = {"on_confirmed", "none"}
    MaxOpen <- OpenRequests
    MaxPosition = 3
    Unlimited = Unlimited

SYMMETRY Anyone

SPECIFICATION BoundedSpec

INVARIANTS
    PlacesInv

PROPERTIES
    NeverOverbooked
    PlaceIsPassedOn
    ChargeFollowsPlace

\* An archived activity is a legitimate end.
CHECK_DEADLOCK FALSE
