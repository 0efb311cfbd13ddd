\* Two inputs and the runtime, one object file from the command line, one or two
\* threads for three modules.  Threads are started in order, so that names need
\* no symmetry, which liveness would not allow.
CONSTANTS
    Threads = {t1, t2, t3}
    None = None
    NInputs = 2
    NGiven = 1
    ThreadCts = {1, 2}
    Modes = {"link", "-c", "-S"}
    Failures = TRUE
SPECIFICATION FairSpec
INVARIANTS TypeOK ClaimedOnce OwnAssembly TempsRemoved
PROPERTIES Implements Ends
