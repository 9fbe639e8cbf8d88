SPECIFICATION FairSpec
CONSTANTS
    IntMod = 4
    SizeMod = 16
    MaxSize = 5
    bufSize = 2
    Window = 3
    OptionLists <- AnyRange
    noNumber = noNumber
    MaxTries = 3
INVARIANTS
    LengthKept
    ResumedInOrder
    CompleteIsWhole
PROPERTY
    AnswerEnds
CHECK_DEADLOCK FALSE
