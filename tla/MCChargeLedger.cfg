\* Two transactions and two refunds of a charge; requests repeated with one idempotency key.
CONSTANTS
    Charges = {c1}
    MaxTx = 2
    MaxRefund = 2
    MaxAmount = 2
    Keys = {k1}
    None = None

SPECIFICATION LedgerSpec

INVARIANTS
    LedgerInv
    StatusesAgree
    BookedExactlyOnce

PROPERTIES
    HistoryStands
    ImplementsAccount

\* A charge nobody can pay, refund or cancel any more is a legitimate end.
CHECK_DEADLOCK FALSE
