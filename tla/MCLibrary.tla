----------------------------- MODULE MCLibrary -----------------------------
(* Library on one reader and one manga, with requests of every kind.       *)
EXTENDS Library

CONSTANTS alice, naruto, r1, r2

Body(manga, op, chapter, volume, status, rating, force) ==
    [op |-> op, key |-> <<alice, manga>>, chapter |-> chapter, volume |-> volume,
     status |-> status, rating |-> rating, force |-> force]

\* Chapters 1..3 straddle both the stored chapter, 1, and the last one, 2.
MCInputs == {
    Body(naruto, "add", 3, 0, "reading", 1, FALSE),
    Body(naruto, "progress", 1, 0, "", 0, FALSE),
    Body(naruto, "progress", 2, 1, "completed", 0, FALSE),
    Body(naruto, "progress", 3, 0, "", 0, TRUE),
    Body(naruto, "library", 0, 0, "dropped", 0, FALSE),
    Body(naruto, "remove", 0, 0, "", 0, FALSE)}

MCShelved == {[chapter |-> 1, volume |-> 2, status |-> "reading", rating |-> 1]}

=============================================================================
