CONSTANTS
    Loop = Loop  Media = Media  Nobody = Nobody  NoRoom = NoRoom
    p1 = p1  p2 = p2  r1 = r1  r2 = r2
    Thread <- MCThread
    ParticipantId <- TwoClients
    RoomId <- OneRoom
    kMaxParticipants = 2
    MaxRooms = 2
    MaxNotices = 1
SPECIFICATION MainSpec
INVARIANT NoUseOfDestroyedRoom
CHECK_DEADLOCK FALSE
