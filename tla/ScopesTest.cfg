\* Functions of up to four statements whose tests may call a function that
\* returns a counted pointer.
CONSTANTS
    MaxStmts = 4
    MaxNames = 3
    MaxCases = 2
    Forms = {"if", "else", "switch", "while", "for", "range"}
    Idioms = {"testCall"}
SPECIFICATION Spec
INVARIANT NothingLost
