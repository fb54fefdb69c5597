CONSTANTS
    c1 = c1  c2 = c2  c3 = c3
    r1 = r1  r2 = r2
    NoRoom = NoRoom
    Conn <- MCConn
    RoomName <- MCRoomName
    RelayType = {"offer"}
    kMaxParticipants = 2
    MaxId = 3
    MaxUnread = 2
SPECIFICATION SignalingSpec
INVARIANTS RegistryInv RosterConverges ClientsCanFollow
PROPERTIES ChangesAnnounced ImplementsConference
VIEW WithoutOutput
SYMMETRY Symmetry
