\* Two inputs compiled to object files with -c, with the default number of threads.
CONSTANTS
    Threads = {t1, t2, t3}
    None = None
    NInputs = 2
    NGiven = 0
    ThreadCts = {0}
    Modes = {"-c"}
    Failures = FALSE
SPECIFICATION Spec
PROPERTY OnlyTempsUnlinked
