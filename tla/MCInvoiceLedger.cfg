CONSTANTS
    Periods = {p1}
    MaxInvoice = 2
    MaxTx = 2
    MaxPayment = 2
    MaxCredit = 2
    MaxRefund = 1
    MaxAmount = 2
    GrossTotals = {0, 2}
    None = None

SPECIFICATION InvoiceSpec

INVARIANTS
    InvoiceInv
    StatusTellsTheBalance
    AskedAndBookedOnce

PROPERTIES
    CardPaymentsStand

CHECK_DEADLOCK FALSE
