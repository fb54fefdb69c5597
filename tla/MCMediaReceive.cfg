CONSTANTS
    VideoSsrcs = {1, 2}
    AudioSsrcs = {3}
    streamTimeout = 1
    kMaxParticipants = 2
    kMaxRing = 3
    FrameSamples = 2
    MaxFrames <- MCMaxFrames
SPECIFICATION Spec
INVARIANTS ReceiveInv TilesAreStreams
PROPERTIES PictureAdvances LeaversGo
