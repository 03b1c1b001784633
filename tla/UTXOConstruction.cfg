SPECIFICATION Spec
CONSTANTS
    Account = {1, 2}
    Coins = {1, 2, 3, 4, 5, 6}
    Owner <- MCOwner
    Imported <- MCImported
    Intents <- MCIntents
    FirstNonce <- MCFirstNonce
    MaxSpends = 1
CHECK_DEADLOCK FALSE
INVARIANTS TypeOK IntentConfirmed AcceptedUnlessRaced
