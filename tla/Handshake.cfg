SPECIFICATION HandshakeFairSpec
CONSTANTS
    BufSize = 7
    HeadLen = 2
    Bodies = {1, 4, 5, 7, 8}
    Preface = 2
    Patience = 2
    Window = 1
    MaxSkew = 1
    MaxTime = 3
INVARIANTS HandshakeTypeOK ExactRead OnlyReadAheadIsLost
PROPERTIES HandshakeEnds PunctualIsAccepted
