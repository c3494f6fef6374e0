SPECIFICATION CollectorSpec
CONSTANTS
    Collectors = {c1, c2}
    Limits = {0, 1, 3}
    Sources = {"mangadex", "jikan", "other"}
    MangaDex <- MCMangaDex
    Jikan <- MCJikan
    HandMade <- MCHandMade
    Statuses = {"ongoing", "completed", "hiatus", "cancelled"}
    DefaultLimit = 4
    DefaultGroup = 2
    PageSize = 2
    Missing = Missing
    Empty = Empty
    Garbled = Garbled
CHECK_DEADLOCK FALSE
INVARIANTS CollectorTypeOK NothingIsLost TakesWhatIsAsked
