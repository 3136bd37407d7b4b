CONSTANTS
    Streams <- AllStreams
    MaxHeader = 11
    MaxBody = 2
    ResponseHead <- Head3
    ResponseBody <- Body2
    SqlBody <- SqlText
    MaxTokens = 13
SPECIFICATION Spec
INVARIANTS
    BytesAccountedFor
    PiecesMakeNoDifference
    ResponseIsWhole
    ApiVerdictIsDeserved
    ExecutedIsThePrefix
    HeapIsOwned
