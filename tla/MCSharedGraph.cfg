CONSTANTS
    File = {1}
    Root = {cwd, elsewhere}
    NoRoot = NoRoot
    Cwd = cwd
    Session = {default, own}
    Default = default
    Given = {given}
    NoGraph = NoGraph
    NoSignature = NoSignature
    LastVersion = 3
    Late = {}
    Reverts = FALSE
SPECIFICATION Spec
INVARIANTS GraphsAreOwn
