SPECIFICATION Spec
CONSTANTS
    NumLayers = 3
    LayerLen <- ThreeLen
    LayerRatio <- ThreeRatio
    MaxTime = 18
    MaxGap = 2
INVARIANTS
    AxesExact
    RangeExact
    RetentionKept
PROPERTY ImplementsTimeline
CHECK_DEADLOCK FALSE
