CONSTANTS
    count = 3
    Holders = {"frame", "pendingFrame", "painted"}
    maxPayload = 4
    IdrUnit <- MCIdrUnit
    SliceUnits <- MCSliceUnits
    gopSize = 2
    need = 2
    MaxFrames = 3
    MaxSamples = 4
    MaxEvents = 2
SPECIFICATION Spec
INVARIANTS CallInv PoolSound KeyframeFollows PacketsSurvive
PROPERTIES StreamsInOrder CallEnds
CHECK_DEADLOCK FALSE
