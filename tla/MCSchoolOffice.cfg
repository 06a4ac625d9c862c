\* Two members of staff on one application, one offer, two waiting list entries; two
\* lessons, two classes, two teachers, two times of day, two requests at a time.
CONSTANTS
    Sessions = {r1, r2}
    Offers = {o1}
    Entries = {e1, e2}
    NoRequest = NoRequest
    Lessons = {e1, e2}
    Classes = {c1, c2}
    Staff = {t1, t2}
    Times = {early, late}
    LastDay = 2
    Links = {TRUE, FALSE}
    Desks = {r1, r2}
    MaxEvents = 4
    None = None

SYMMETRY Anyone

SPECIFICATION OfficeSpec

CONSTRAINT LinkedAlike

INVARIANTS
    AdmissionsInv

PROPERTIES
    AnswersStand
    WaitingListIsListed
    LessonsStand

\* A bound that is reached is an end.
CHECK_DEADLOCK FALSE
