CONSTANTS
    Pages = 3
    Departing = {2}
    Trickling = {3}
    NoPeer = NoPeer
SPECIFICATION FairMesh
INVARIANTS MeshInv SignalsFit
PROPERTIES PairsConnect
CHECK_DEADLOCK FALSE
