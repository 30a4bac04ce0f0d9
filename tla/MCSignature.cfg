CONSTANTS
    File = {1, 2}
    Root = {cwd}
    NoRoot = NoRoot
    Cwd = cwd
    Session = {default, own}
    Default = default
    Given = {given}
    NoGraph = NoGraph
    NoSignature = NoSignature
    LastVersion = 3
    Late = {}
    Reverts = FALSE
SPECIFICATION Spec
INVARIANTS SignatureIsOfScan
