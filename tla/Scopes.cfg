\* Every function of up to four statements with three names, none of which uses
\* one of the delicate idioms.
CONSTANTS
    MaxStmts = 4
    MaxNames = 3
    MaxCases = 2
    Forms = {"if", "else", "switch", "while", "for", "range"}
    Idioms = {}
SPECIFICATION Spec
INVARIANTS TypeOK ScopesBalanced ReleasesOwned NothingLost DefersOnce DefersLive Terminated
