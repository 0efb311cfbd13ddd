\* The two-address instance of RefCount.cfg, for programs whose classes may
\* declare a destruct method and whose statements may drop a fresh object.
CONSTANTS
    Objs = {o1, o2}
    Nil = Nil
    Vars = {x, y}
    WVars = {w}
    NF = 2
    Strong <- MCStrong
    Weak <- MCWeak
    Idioms = {"destruct","discard"}
SPECIFICATION Spec
SYMMETRY Sym
INVARIANT FinalizedOnce
