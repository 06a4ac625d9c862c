\* One offline payment of two units, refunded one unit at a time.
CONSTANTS
    Charges = {c1}
    MaxTx = 1
    MaxRefund = 2
    MaxAmount = 2
    Keys = {}
    None = None

SPECIFICATION LedgerSpec

INVARIANTS
    PaidChargeCanBeRefunded

CHECK_DEADLOCK FALSE
