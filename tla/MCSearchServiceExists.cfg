SPECIFICATION Spec
CONSTANTS
    Phrases <- MCPhrases
    Inside <- MCInside
    Metadatas <- MCMetadatas
    Dicts <- MCDicts
    Nesting <- MCNesting
    ShareScale = 6
    Logs <- MCLogs
    Searches = {}
    FilterSearches <- MCFilterSearches
    HybridSearches = {}
    IndexRequests = {}
    Oversample = 2
CHECK_DEADLOCK FALSE
INVARIANTS
    ExistsReadsItsValue
