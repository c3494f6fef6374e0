SPECIFICATION Spec
CONSTANTS
    listener = listener
    home = home
    away = away
    mine = mine
    None = None
    Ids = {mine, other}
    Ports = {home, away}
    Commands = {c1, c2}
    Listeners = {listener}
    IdOf <- MCIdOf
    PortOf <- MCPortOf
    MaxSends = 3
    MaxRestarts = 1
CHECK_DEADLOCK FALSE
INVARIANTS AckedAreServed LeftAreNotTold OkMeansRegistered
