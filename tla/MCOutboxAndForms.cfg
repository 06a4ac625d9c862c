\* Two messages, both links or one of them; two workers, one fault, one requeue.
\* Two tabs of one form, one failure.
CONSTANTS
    MaxMessage = 2
    LinkSets = {{1, 2}, {1}}
    Workers = {w1, w2}
    BatchSize = 1
    MaxAttempts = 2
    MaxFaults = 1
    MaxRequeues = 1
    f1 = f1
    f2 = f2
    d1 = d1
    Pages = {p1, p2}
    Forms <- FormRowsBound
    Filings = {a1, a2}
    Documents <- DocumentRowsBound
    Definitions <- PublishedForms
    None = None
    MaxCalls = 1
    MaxFailures = 1

SPECIFICATION FairOfficeSpec

INVARIANTS
    MailInv
    DuplicatesNeedALapse
    FormInv

PROPERTIES
    SettledForCause
    SentStands
    DeadFilesGo

\* When every message is settled nothing is left to do.
CHECK_DEADLOCK FALSE
