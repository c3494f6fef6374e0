----------------------------- MODULE MCSession -----------------------------
(* Session with one user, two passwords and two requests at a time.        *)
EXTENDS Session, TLC

MCSymmetry == Permutations(Requests)
=============================================================================
