CONSTANTS
    Kinds = {"good"}
    LastVersion = 2
    SameStamp = TRUE
    NoPolicy = NoPolicy
SPECIFICATION Spec
INVARIANTS VerifiedRunsWhatWasRead
