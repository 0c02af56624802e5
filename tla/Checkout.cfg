SPECIFICATION FairSpec
CONSTANTS
    Bookings = {b1,b2}
    PRICE = 2
    DISCOUNT = 1
    OPENING = 1
    MaxRedemptions = 1
    IntentEvents = {"succeeded", "payment_failed", "processing"}
    Faults = {"crash", "reserve", "write"}
    GraceOutlastsCreate = TRUE

CHECK_DEADLOCK FALSE
INVARIANTS
    LedgerExplainsBalance
    ReturnedAtMostOnce
    
    BookedIsPaidFor
    RefundsOnlyCaptured
 
