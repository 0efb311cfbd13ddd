----------------------------- MODULE Interfaces -----------------------------
(***************************************************************************)
(* Classes and interfaces: compiler/ac_class.c lays out the table of a     *)
(* class, core/types.c numbers the methods of an interface and decides     *)
(* what may stand for what, and __egl_lookup_method of rc.egl finds the    *)
(* function at run time.                                                   *)
(*                                                                         *)
(* Every module parses an interface for itself.  Its methods are kept in a *)
(* hash table under the addresses of their syntax nodes, and an index into *)
(* a class's table means something only if the module that made the class  *)
(* and the one that calls it list the methods in the same order.           *)
(***************************************************************************)
EXTENDS Integers, SequencesExt

CONSTANTS
    Hierarchies,  \* [ifcs, classes]: methods [name, sig] of interfaces and classes
    Addresses,    \* where malloc may put a node
    Mixed         \* TRUE: a value of one interface is passed for another one

\* malloc's alignment.
Alignment == 16

Methods == [name : STRING, sig : STRING]

\* A program declares finitely many interfaces, and a class lists declared ones.
ASSUME HierarchyAssumption ==
    /\ Mixed \in BOOLEAN
    /\ \A a \in Addresses : a \in Nat /\ a % Alignment = 0
    /\ \A h \in Hierarchies :
          /\ IsFiniteSet(DOMAIN h.ifcs) /\ h.ifcs \in [DOMAIN h.ifcs -> Seq(Methods)]
          /\ h.classes \in [DOMAIN h.classes -> [ifcs : Seq(DOMAIN h.ifcs), methods : Seq(Methods)]]

\* The module with the classes and one that imports it.
Modules == {"classes", "user"}

VARIABLES
    hierarchy,    \* the interfaces and classes of the program
    listings,     \* interface_table of each module: interface -> method names
    vtables,      \* the tables of the classes: [names, offsets, functions]
    held,         \* an object and the type it has here: [class, type]
    called,       \* the last call: [method, function]
    died          \* die was called

ifcVars == <<hierarchy, listings, vtables, held, called, died>>

Nothing == [method |-> "", function |-> <<>>]

\* ett_class_type, ett_interface_type and ett_composite_interface: an
\* interface type may name several.
ClassType(c) == [type |-> "class", names |-> <<c>>]
InterfaceType(names) == [type |-> "interface", names |-> names]
Types ==
    {ClassType(c) : c \in DOMAIN hierarchy.classes} \cup
    {InterfaceType(s) : s \in UNION {SetToSeqs(S) : S \in SUBSET DOMAIN hierarchy.ifcs \ {{}}}}

-----------------------------------------------------------------------------
(* The order of the methods.                                                *)

\* Mutant: the table of the methods is larger.
BucketsMore == 32

\* hst_create.
Buckets == 8

\* hst_for_each over method_types, whose hash is the node's address (ahhd): the
\* buckets in turn, and in each the methods in the order they were put there.
Place(at, n) ==
    Cardinality({k \in DOMAIN at : \/ at[k] % Buckets < at[n] % Buckets
                                   \/ at[k] % Buckets = at[n] % Buckets /\ k <= n})
At(at, p) == CHOOSE n \in DOMAIN at : Place(at, n) = p
Listed(methods, at) == [p \in DOMAIN methods |-> methods[At(at, p)].name]

With(f, k, v) == [x \in DOMAIN f \cup {k} |-> IF x = k THEN v ELSE f[x]]

\* Nodes for the methods of each interface, wherever malloc puts them.
Placed(ifcs) ==
    {at \in [DOMAIN ifcs -> UNION {[DOMAIN ifcs[i] -> Addresses] : i \in DOMAIN ifcs}] :
        \A i \in DOMAIN ifcs : DOMAIN at[i] = DOMAIN ifcs[i] /\ IsInjective(at[i])}

\* ac_generate_interface_definitions in one module.  ast_class_method_add made
\* a node for each method.
Define(m) ==
    /\ m \notin DOMAIN listings
    /\ \E at \in Placed(hierarchy.ifcs) :
          listings' = With(listings, m, [i \in DOMAIN hierarchy.ifcs |-> Listed(hierarchy.ifcs[i], at[i])])
    /\ UNCHANGED <<hierarchy, vtables, held, called, died>>

\* ty_interface_offset.
Offset(m, i, name) == SelectInSeq(listings[m][i], LAMBDA n : n = name) - 1

-----------------------------------------------------------------------------
(* The table of a class.                                                    *)

\* offsetsarr and sidx: where the part of the k-th interface starts, behind the
\* methods of those before it (ty_interface_count).
Start(m, ifcs, k) ==
    Cardinality(UNION {{j} \X DOMAIN listings[m][ifcs[j]] : j \in 1..(k - 1)})

\* ac_check_and_register_implementation: the first interface that has a method
\* of this name takes it, or 0.
Takes(m, ifcs, name) == SelectInSeq(ifcs, LAMBDA i : Offset(m, i, name) >= 0)

Slot(m, ifcs, name) ==
    LET k == Takes(m, ifcs, name) IN Start(m, ifcs, k) + Offset(m, ifcs[k], name)

SigOf(methods, name) == methods[SelectInSeq(methods, LAMBDA x : x.name = name)].sig

\* ac_make_class_definitions for one class, with its constructor: a method of
\* another signature and a slot that stays empty end the compilation.
MakeClass(c) ==
    LET m == "classes"
        cls == hierarchy.classes[c]
        taken == {n \in DOMAIN cls.methods : Takes(m, cls.ifcs, cls.methods[n].name) # 0}
        Ifc(n) == hierarchy.ifcs[cls.ifcs[Takes(m, cls.ifcs, cls.methods[n].name)]]
        bad == \E n \in taken : cls.methods[n].sig # SigOf(Ifc(n), cls.methods[n].name)
        slots == [n \in taken |-> Slot(m, cls.ifcs, cls.methods[n].name)]
        all == 0..(Start(m, cls.ifcs, Len(cls.ifcs) + 1) - 1)
        Filled(p) == <<c, cls.methods[CHOOSE n \in taken : slots[n] = p].name>>
    IN  /\ m \in DOMAIN listings /\ c \notin DOMAIN vtables /\ ~died
        /\ IF bad \/ Range(slots) # all
           THEN died' = TRUE /\ UNCHANGED vtables
           ELSE /\ vtables' = With(vtables, c,
                     [names |-> cls.ifcs, functions |-> [p \in all |-> Filled(p)],
                      offsets |-> [k \in DOMAIN cls.ifcs |-> Start(m, cls.ifcs, k)]])
                /\ UNCHANGED died
        /\ UNCHANGED <<hierarchy, listings, held, called>>

-----------------------------------------------------------------------------
(* Using an object.                                                         *)

Linked == DOMAIN listings = Modules /\ DOMAIN vtables = DOMAIN hierarchy.classes

New(c) ==
    /\ Linked /\ held = <<>>
    /\ held' = [class |-> c, type |-> ClassType(c)]
    /\ UNCHANGED <<hierarchy, listings, vtables, called, died>>

\* ett_are_same for pointers to classes and interfaces: any two interfaces are
\* the same to it.
Alike(from, to) == from.type = to.type /\ (from.type = "class" => from.names = to.names)

\* ty_class_implements_interface.
Lists(c, to) == ToSet(to.names) \subseteq ToSet(hierarchy.classes[c].ifcs)

\* ac_build_conversion for counted pointers, where it is asked at all.
Convertible(from, to) ==
    \/ Alike(from, to)
    \/ from.type = "class" /\ to.type = "interface" /\ Lists(from.names[1], to)

\* The object is stored or passed where a value of type t is asked for.
Pass(t) ==
    /\ held # <<>> /\ Convertible(held.type, t)
    /\ Mixed \/ held.type.type = "class" \/ ToSet(t.names) \subseteq ToSet(held.type.names)
    /\ held' = [held EXCEPT !.type = t]
    /\ called' = Nothing
    /\ UNCHANGED <<hierarchy, listings, vtables, died>>

\* __egl_lookup_method.
Lookup(table, i, index) ==
    LET k == SelectInSeq(table.names, LAMBDA n : n = i)
    IN  IF k = 0 THEN <<>> ELSE table.functions[index + table.offsets[k]]

\* ac_compile_struct_member and the call: a class's method is called by its
\* name, that of an interface type is the first of its interfaces' that has it
\* (ty_interface_for_method).
CallMethod(m, name) ==
    LET t == held.type
        k == SelectInSeq(t.names, LAMBDA i : Offset(m, i, name) >= 0)
    IN  /\ held # <<>>
        /\ IF t.type = "class"
           THEN /\ name \in {x.name : x \in ToSet(hierarchy.classes[t.names[1]].methods)}
                /\ called' = [method |-> name, function |-> <<t.names[1], name>>]
           ELSE /\ k # 0
                /\ called' = [method |-> name,
                              function |-> Lookup(vtables[held.class], t.names[k],
                                                  Offset(m, t.names[k], name))]
        /\ UNCHANGED <<hierarchy, listings, vtables, held, died>>

-----------------------------------------------------------------------------
IfcInit ==
    /\ hierarchy \in Hierarchies
    /\ listings = <<>> /\ vtables = <<>> /\ held = <<>>
    /\ called = Nothing /\ died = FALSE

MethodNames == UNION {{x.name : x \in ToSet(hierarchy.classes[c].methods)} : c \in DOMAIN hierarchy.classes}

IfcNext ==
    \/ \E m \in Modules : Define(m)
    \/ \E c \in DOMAIN hierarchy.classes : MakeClass(c) \/ New(c)
    \/ \E t \in Types : Pass(t)
    \/ \E m \in Modules, name \in MethodNames : CallMethod(m, name)

IfcSpec == IfcInit /\ [][IfcNext]_ifcVars

-----------------------------------------------------------------------------
(* Property.                                                                *)

\* Whatever module calls a method and whatever types the object went through,
\* the function that is called is the method of that name of the object's own
\* class: the module that numbered the methods for the call and the one that
\* laid out the class's table, each from its own syntax tree, agree.
DispatchRight ==
    called # Nothing => called.function = <<held.class, called.method>>
=============================================================================
