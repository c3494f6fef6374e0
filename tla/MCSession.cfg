SPECIFICATION SSpec
CONSTANTS
    Requests = {r1, r2}
    Usernames = {"ann"}
    Passwords = {"p", "q"}
    TTL = 2
    MaxClock = 3
    MaxBegun = 4
    NoAccount = NoAccount
    NoToken = NoToken
CHECK_DEADLOCK FALSE
SYMMETRY MCSymmetry
INVARIANTS TypeOK SavedSessionLives
PROPERTIES EndedSessionsStayEnded OtherSessionsLiveOn
