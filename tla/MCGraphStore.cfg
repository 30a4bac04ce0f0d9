CONSTANTS
    Name <- MCName
    File <- MCFile
    Target <- MCTarget
    Repos <- MCRepos
    Query <- MCQuery
    Blank = 0
    Score <- MCScore
    InPath <- MCInPath
    Limits = {2, 8}
    Radii <- MCRadii
CHECK_DEADLOCK FALSE
SPECIFICATION Spec
INVARIANTS TypeOK AttributesFollowIds ReferencesAreLeaves CandidatesAreBest DefinitionComesFirst FoundIsOffered NeighborhoodIsBall
