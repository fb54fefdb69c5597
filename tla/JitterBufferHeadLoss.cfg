CONSTANTS
    Streams <- MCStreams
    SeqSize = 10
    TsSize = 10
    FirstSeq = 8
    FirstTs = 8
    targetDelay = 2
    NumberMod = 6
    StampMod = 16
    Second = 12
    FractionMod = 50
    bucketUs = 2
    maxUs = 7
SPECIFICATION Spec
INVARIANT EmittedIsWhole
