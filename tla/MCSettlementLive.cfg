\* Liveness: one payment and a refund of it the provider answers as pending; one crash.
CONSTANTS
    Charges = {c1}
    MaxTx = 1
    MaxRefund = 1
    MaxAmount = 1
    Keys = {}
    None = None
    Workers = {w1, w2}
    MaxCrashes = 1
    MaxFailures = 0
    EventIds <- PaymentAndRefund

SPECIFICATION FairSettlementSpec

PROPERTIES
    MoneyArrives
    SentIsDecided

CHECK_DEADLOCK FALSE
