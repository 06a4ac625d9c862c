\* One lesson, one request at a time; the application stays as it is.
CONSTANTS
    Sessions = {}
    Offers = {}
    Entries = {}
    NoRequest = NoRequest
    Lessons = {e1}
    Classes = {c1}
    Staff = {t1}
    Times = {early, late}
    LastDay = 2
    Links = {TRUE}
    Desks = {r1}
    MaxEvents = 4
    None = None

SPECIFICATION OfficeSpec

PROPERTIES
    PastLessonsKeepTheirTime

\* A bound that is reached is an end.
CHECK_DEADLOCK FALSE
