SPECIFICATION Spec
CONSTANTS
    MAXREGS = 20
    LFIELDS_PER_FLUSH = 2
    STACKSIZE = 30
    LongStrings <- MCLong
    HugeStrings <- MCHuge
    Cases <- MCCases
INVARIANTS
    
    NoStaleRead
    FrameHolds
    
PROPERTY ProgramEnds
