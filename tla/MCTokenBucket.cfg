CONSTANTS
    GregorianCodes = {1, 2}
    GregorianLength = 4
    Configs <- MixedConfigs
    Hits <- MixedHits
    Behaviors <- MixedBehaviors
    Skews <- SkewedClocks
    MaxTime = 5
    MaxRemaining = 3
    NoItem = NoItem
SPECIFICATION Spec
INVARIANTS StoreMirrorsCache  NoStaleRefusal
