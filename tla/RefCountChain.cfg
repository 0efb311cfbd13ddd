\* Three addresses, one variable and one counted member: chains of teardowns
\* of classes with a destruct method, nested two deep.
CONSTANTS
    Objs = {o1, o2, o3}
    Nil = Nil
    Vars = {x}
    WVars = {}
    NF = 1
    Strong <- MCStrong
    Weak <- MCNone
    Idioms = {"destruct"}
SPECIFICATION FairSpec
INVARIANTS FinalizedOnce
PROPERTY TeardownEnds
