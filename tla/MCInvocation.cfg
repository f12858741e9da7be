SPECIFICATION Spec
CONSTANTS
    Words <- MCWords
    Numeral <- MCNumeral
    Span <- MCSpan
    References <- MCReferences
    Groups <- MCGroups
    Blank = {}
    MaxPort = 2
    DefaultStart = 1
    Sockets <- MCSockets
    Owners <- MCOwners
    Foreign <- MCForeign
    Matches <- MCMatches
    Lines <- MCLines
    MaxChurn = 1
INVARIANTS OnlyNamedPorts FlagsMayStandAnywhere NoSilentKill ListsOnlyUnasked  LowestFree
CHECK_DEADLOCK FALSE
