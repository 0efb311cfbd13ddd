\* The two-address instance of RefCount.cfg, for programs that also assign
\* members through a weak variable.
CONSTANTS
    Objs = {o1, o2}
    Nil = Nil
    Vars = {x, y}
    WVars = {w}
    NF = 2
    Strong <- MCStrong
    Weak <- MCWeak
    Idioms = {"discard","weakBase"}
SPECIFICATION Spec
SYMMETRY Sym
INVARIANT NoOrphan
