CONSTANTS
    t1 = t1  t2 = t2
    p1 = p1  p2 = p2  p3 = p3
    NoSeq = NoSeq
    Thread <- MCThread
    ParticipantId <- MCParticipantId
    Bitrate = {1, 2}
    SeqNumber = {0, 1}
    maxParticipants = 3
SPECIFICATION Spec
INVARIANTS RoomInv NewcomersAreServed
SYMMETRY Symmetry
