CONSTANTS
    Digits = {1}
    Quad = 2
    MaxName = 5
    Letter = 92
    LastLetter = 98
    MaxLabel = 1
    MaxPointers = 2
    Bits = 4
    Loopback = {10, 11}
    LinkLocal = {8, 9}
    IndexOf <- MCIndexOf
    Pieces <- MCPieces
    Peers <- MCPeers
    Messages <- MCMessages
    Endpoints <- MCEndpoints
    Enumerations <- MCEnumerations
    Queries <- MCQueries
    Tables <- MCTables
    Addresses = {1, 9, 10}

SPECIFICATION ValuesSpec
CHECK_DEADLOCK FALSE

INVARIANTS
    NamesFormATree
    WireHoldsTheName
    EndpointSurvivesItsText
    OneAdapter
    RouteIsTheKernels
PROPERTIES
    ReadingsEnd
