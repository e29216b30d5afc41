SPECIFICATION StoreSpec
CONSTANTS
    NumLayers = 2
    LayerLen <- TwoLen
    LayerRatio <- TwoRatio
    MaxTime = 10
    MaxGap = 1
    MaxDown = 1
    MaxCrashes = 2
    MaxDbErrors = 0
INVARIANT PlaneInOrder
CHECK_DEADLOCK FALSE
