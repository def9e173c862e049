SPECIFICATION EncodingsSpec
CONSTANTS
    Names <- ThreeNames
    Scalars = {1}
    MaxTokens = 11
    MaxRejected = 5
    NoKey = NoKey
    Elements <- SomeElements
    Digits = {0, 1, 9}
    MaxString = 4
    MaxNumber = 7
    MinPoint = 8
    MaxPoint = 23
    CursorDigits = {0, 1, 5, 9}
    MaxCursor = 6
    P = 29
    L = 5
    D = 27
    BaseY = 23
    SignBit = 32
    Digests = {1, 5, 8}
INVARIANTS
    ReadsExactlyJson
    AgreeOnDocuments
    SameCanonicalText
    CanonicalReadsBack
    StringsReadAndWrite
    NumbersReadAndWrite
    CursorReadsBack
    VerifiersExact
    SignedVerifies
CHECK_DEADLOCK FALSE
