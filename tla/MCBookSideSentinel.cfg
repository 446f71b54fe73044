SPECIFICATION Spec
CONSTANTS
    Nodes = {n1, n2, n3, n4}
    Prices <- MCPrices
    Quantities <- MCQuantities
    HalfWord = 4
    Depths <- MCDepths
    Ascending = TRUE
SYMMETRY NodeSymmetry
PROPERTY
    CompletingLevelReported
