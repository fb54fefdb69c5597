CONSTANTS
    Loop = Loop  Media = Media  Nobody = Nobody  NoRoom = NoRoom
    p1 = p1  p2 = p2  r1 = r1  r2 = r2
    Thread <- MCThread
    ParticipantId <- TwoClients
    RoomId <- TwoRooms
    kMaxParticipants = 1
    MaxRooms = 3
    MaxNotices = 2
SPECIFICATION FairSpec
INVARIANTS ServerSound ClosedIsGone
PROPERTIES OnlyEmptyRoomsErased ImplementsConference ConnectedIsRegistered ClosingCleansUp
CHECK_DEADLOCK FALSE
