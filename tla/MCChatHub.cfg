SPECIFICATION Spec
CONSTANTS
    c1 = c1
    c2 = c2
    ann = ann
    bob = bob
    None = None
    Conns = {c1, c2}
    Rooms = {general, manga}
    Users = {ann, bob}
    UserOf <- MCUserOf
    Asks <- MCAsks
    Capacity = 2
    MaxSaid <- MCOneSpeaks
    MaxPrivate <- MCPrivate
CHECK_DEADLOCK FALSE
INVARIANTS GapFree SpokenInOrder ConnectedAreServed
PROPERTIES HandlersEnd ImplementsFeed
