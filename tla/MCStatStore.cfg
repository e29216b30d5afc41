SPECIFICATION StoreSpec
CONSTANTS
    NumLayers = 3
    LayerLen <- ThreeLen
    LayerRatio <- ThreeRatio
    MaxTime = 11
    MaxGap = 1
    MaxDown = 1
    MaxCrashes = 2
    MaxDbErrors = 1
INVARIANTS
    RestartKeepsView
    DamageBounded
    LossBounded
CHECK_DEADLOCK FALSE
