SPECIFICATION Spec
CONSTANTS
    alice = alice
    naruto = naruto
    r1 = r1
    r2 = r2
    NoManga = NoManga
    NoEntry = NoEntry
    Users = {alice}
    Manga = {naruto}
    Requests = {r1, r2}
    Totals = {0, 2}
    Inputs <- MCInputs
    Shelved <- MCShelved
INVARIANTS ForeignKeys HistoryIsProgress
PROPERTIES FreshWritesKeepPlace FreshWritesStayInBounds ImplementsContract
