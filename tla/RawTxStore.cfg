SPECIFICATION FairSpec
CONSTANTS
    Worker = {w1, w2}
    Sizes = {1, 2, 3, 4, 5}
    MAX_SEGMENT_SIZE = 2
    Limit = 8
    MaxRounds = 1
INVARIANTS HeaderIsWhole ReadIsWhole LongIsNotRead
PROPERTY ShortReadEnds
