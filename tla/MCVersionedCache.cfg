SPECIFICATION CacheSpec
CONSTANTS
    Readers = {r1, r2}
    Writers = {w1}
    Asks = {a}
    Pages = {1}
    MaxWrites = 2
    NoAnswer = NoAnswer
INVARIANTS ReadsSeePromised
PROPERTIES CacheConverges
