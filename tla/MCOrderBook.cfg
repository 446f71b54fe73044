SPECIFICATION Spec
CONSTANTS
    Nodes = {n1, n2, n3, n4, n5, n6}
    Prices <- MCPrices
    Quantities <- MCQuantities
    HalfWord = 2
    Depths <- MCDepths
    NoNode = NoNode
    SnapshotLevels <- MCSnapshotLevels
SYMMETRY NodeSymmetry
INVARIANTS
    SidesShareThePool
    QueriesAgree
PROPERTIES
    ImplementsLevelBook
