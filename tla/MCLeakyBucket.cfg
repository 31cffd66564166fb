CONSTANTS
    Unit = 4
    Ceiling = 7
    GregorianCodes = {1}
    GregorianLength = 4
    Forever = 1000
    Requests <- MixedRequests
    Metered <- MeteredRequests
    AnyConfig = AnyConfig
    MixedTime = 5
    MaxTime = 10
    NoItem = NoItem
SPECIFICATION SpacingSpec
INVARIANTS DebtOutlived DebtWithinCeiling DebtIsTheQueue Spacing
PROPERTIES SlotOrder DebtOnlyPaidByLeak RefusalChargesNothing
