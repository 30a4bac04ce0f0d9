CONSTANTS
    Kinds = {"good", "crlf"}
    LastVersion = 2
    SameStamp = FALSE
    NoPolicy = NoPolicy
SPECIFICATION Spec
INVARIANTS QuietValidationIsRight
