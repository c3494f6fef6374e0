SPECIFICATION Spec
CONSTANTS
    Rooms = {general, naruto}
    General = general
    MaxGen = 2
    MaxSaid = 2
    At <- MCAt
    HistoryLimit = 1
    Messages = 1
    Errors = 1
    None = None
CHECK_DEADLOCK FALSE
INVARIANTS ScreenShowsItsRoom LossIsReal HistoryMeetsLive
PROPERTIES OldReadersEnd
