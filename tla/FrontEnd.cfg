SPECIFICATION Spec
CONSTANTS
    Argvs <- MCArgvs
    Trees <- MCTrees
    Resolve <- MCResolve
    Dir <- MCDir
    Home <- MCHome
    Matches <- MCMatches
    Inline <- MCInline
INVARIANTS TypeOK ReadOnce Faithful Accepted CommandLine
