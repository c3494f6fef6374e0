SPECIFICATION Spec
CONSTANTS
    Devices = {d1}
    Relays = {r1, r2}
    Requests = {p}
    Addrs = {d1, r1, r2}
    AddrOf <- MCOwnAddr
    Chapters = {1, 2}
    Strategies = {"last_write_wins", "merge"}
    MaxMessages <- MCMessages
    None = None
CHECK_DEADLOCK FALSE
INVARIANTS OnlyStoredIsShown DevicesAgreeUnlessAstray
PROPERTY StoredIsShown
