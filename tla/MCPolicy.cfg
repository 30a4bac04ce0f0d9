CONSTANTS
    Kinds = {"good", "faulty", "fenced", "absent"}
    LastVersion = 3
    SameStamp = FALSE
    NoPolicy = NoPolicy
SPECIFICATION Spec
INVARIANTS TypeOK VerifiedRunsWhatWasRead QuietValidationIsRight
PROPERTIES CallsEnd
