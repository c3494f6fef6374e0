SPECIFICATION Spec
CONSTANTS
    c1 = c1
    c2 = c2
    ann = ann
    bob = bob
    None = None
    Conns = {c1, c2}
    Rooms = {general}
    Users = {ann, bob}
    UserOf <- MCUserOf
    Asks <- MCAsks
    Capacity = 1
    MaxSaid <- MCBothSpeak
    MaxPrivate <- MCPrivate
CHECK_DEADLOCK FALSE
PROPERTIES JoinIsShown
