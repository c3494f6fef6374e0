SPECIFICATION Spec
CONSTANTS
    naruto = naruto
    bleach = bleach
    ninja = ninja
    sword = sword
    None = None
    Servers = {api, tcp}
    Api = api
    Manga = {naruto, bleach}
    Texts <- MCTexts
    Schema <- MCSchema
    Seed <- MCSeed
    Collected <- MCCollected
    MaxRowid = 2
    MaxFailures = 1
INVARIANTS SearchIsExact SeedIsWhole
PROPERTIES ServersComeUp
