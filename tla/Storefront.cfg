SPECIFICATION StorefrontSpec
CONSTANTS
    Docs <- MCDocs
    BasePrices = {45, 105}
    Typed <- MCTyped
    NumberOf <- MCNumberOf
    LengthOf <- MCLengthOf
    DayOf <- MCDayOf
    CleanOf <- MCCleanOf
    Occurs <- MCOccurs
    Matches <- MCMatches
    MaxPasses = 4
    MaxMinor = 100000
    Unpriceable = Unpriceable
    MaxLength = 5
    MaxQuantity = 1000
    MaxText = 4
    FileTokens = {"token"}
    Line = "line"
    MaxChanges = 2
    MaxVisits = 1
    MaxLines = 1
    MaxOrders = 1
CHECK_DEADLOCK FALSE
INVARIANTS
    StorefrontTypeOK
    QuotesHold
    CheckoutIsSound
PROPERTIES
    PublishKeepsPrices
