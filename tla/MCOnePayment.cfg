\* One payment reported twice after a failed attempt; two deliveries at a time; one crash, one failed statement.
CONSTANTS
    Charges = {c1}
    MaxTx = 1
    MaxRefund = 1
    MaxAmount = 1
    Keys = {}
    None = None
    Workers = {w1, w2}
    MaxCrashes = 1
    MaxFailures = 1
    EventIds <- OnePayment

SYMMETRY Deliveries

SPECIFICATION SettlementSpec

INVARIANTS
    LedgerFollowsProvider
    ClaimsTellTheTruth

PROPERTIES
    ProcessedStays

CHECK_DEADLOCK FALSE
