SPECIFICATION Spec
CONSTANTS
    ann = ann
    bob = bob
    naruto = naruto
    Users = {ann, bob}
    Manga = {naruto}
    Requests = {r1, r2, r3, r4}
    Inputs <- MCInputs
    MaxRating = 2
    DefaultLimit = 1
    MaxLimit = 2
    NoReview = NoReview
    NoLimit = NoLimit
CHECK_DEADLOCK FALSE
SYMMETRY MCSymmetry
INVARIANTS TypeOK VotesAreCounted AnswersShowVotes
