----------------------------- MODULE MCReviews -----------------------------
(* Reviews of one manga by two authors, and votes for one of them.        *)
EXTENDS Reviews, TLC

CONSTANTS ann, bob, naruto

MCInput(op, user, author, cli, rating, limit, sort) ==
    [op |-> op, user |-> user, key |-> <<author, naruto>>, cli |-> cli,
     rating |-> rating, limit |-> limit, sort |-> sort]

MCInputs == {
    MCInput("write", ann, ann, TRUE, 1, 0, "recent"),
    MCInput("write", ann, ann, FALSE, 3, 0, "recent"),
    MCInput("write", bob, bob, FALSE, 2, 0, "recent"),
    MCInput("vote", bob, ann, TRUE, 0, 0, "recent"),
    MCInput("vote", ann, ann, TRUE, 0, 0, "recent"),
    MCInput("list", bob, bob, TRUE, 0, NoLimit, "helpful"),
    MCInput("list", bob, bob, TRUE, 0, 0, "other"),
    MCInput("mine", ann, ann, TRUE, 0, 0, "recent")}

MCSymmetry == Permutations(Requests)
=============================================================================
