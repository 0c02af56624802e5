SPECIFICATION MCSpec
CONSTANTS
    Bookings = {b1}
    PRICE = 2
    DISCOUNT = 1
    OPENING = 1
    MaxRedemptions = 1
    IntentEvents = {"succeeded", "payment_failed"}
    Faults = {}
    GraceOutlastsCreate = TRUE
INVARIANT RefundIsTruthful
CHECK_DEADLOCK FALSE
