CONSTANTS
    Order = 3
    Keys = {1, 2, 3, 4, 5, 6, 7}
    MaxFailures = 1
    MaxNodes = 12
SPECIFICATION Spec
INVARIANTS
    TypeOK
    NodesValid
    ParentKnowsChild
    DescentFindsKey
    ChainValid
    DestroyFreesAll
