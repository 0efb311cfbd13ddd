\* Two addresses, two counted and one weak variable, one counted and one weak
\* member: cycles, shared targets, weak back pointers, reuse of an address.
CONSTANTS
    Objs = {o1, o2}
    Nil = Nil
    Vars = {x, y}
    WVars = {w}
    NF = 2
    Strong <- MCStrong
    Weak <- MCWeak
    Idioms = {"discard"}
SPECIFICATION Spec
SYMMETRY Sym
INVARIANTS TypeOK CountExact StrongSafe WeakSafe RegistrySafe NoOrphan StoreTargetLive
