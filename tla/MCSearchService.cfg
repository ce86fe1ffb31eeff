SPECIFICATION Spec
CONSTANTS
    Phrases <- MCPhrases
    Inside <- MCInside
    Metadatas <- MCMetadatas
    Dicts <- MCDicts
    Nesting <- MCNesting
    ShareScale = 6
    Logs <- MCLogs
    Searches <- TableSearches
    FilterSearches <- MCFilterSearches
    HybridSearches <- Hybrids
    IndexRequests <- Indexes
    Oversample = 2
CHECK_DEADLOCK FALSE
INVARIANTS
    BestMatchesInOrder
    FilterIsItsLogic
    SqlIsItsLogic
    TextFavours
