SPECIFICATION Spec
CONSTANTS
    IntMax = 3
    Char <- MCChar
    ConcatLimit = 4
    NsPerMs = 3
    MsPerSec = 2
    MaxLen = 3
    MaxMs = 5
    SeqRange = 2
    TsRange = 3
    MaxTs = 7
    MaxSeq = 6
INVARIANTS
    MathIsExact
    FindIsFirst
    ConcatUpToLimit
    DeadlineIsValid
    IdsSharedOnlyAfterWrap
