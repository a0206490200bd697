CONSTANTS
    Chars = {"a", "$", "+", "#", "/"}
    MaxLen = 6
    MaxLevels = 3
    Topics <- MCTopics
    Filters <- MCFilters
SPECIFICATION Spec
INVARIANTS ValidIffParsed RoundTrip MatchesAsSpecified FilterCovers
CHECK_DEADLOCK FALSE
