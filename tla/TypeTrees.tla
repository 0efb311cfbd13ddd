----------------------------- MODULE TypeTrees ------------------------------
(***************************************************************************)
(* What core/types.c and compiler/ac_generics.c compute of whole types:    *)
(* the operators Generics is parameterised by.                             *)
(***************************************************************************)
EXTENDS GenericTypes, Integers, Sequences, SequencesExt

\* A type all the way down: a tree without mentions.
RECURSIVE Resolved(_, _)
Resolved(o, t) ==
    LET s == Shape(o, t)
    IN  CASE s.type = "ptr" -> Ptr(s.kind, Resolved(o, s.to))
          [] s.type = "fn" -> FnOf(s.flags, [i \in DOMAIN s.params |-> Resolved(o, s.params[i])],
                                   Resolved(o, s.ret))
          [] s.type = "arr" -> Arr(Resolved(o, s.of), s.ct)
          [] s.type = "gen" -> Gen(Resolved(o, s.of))
          [] OTHER -> s

\* ett_qualifies_as_generic.
RECURSIVE QualifiesAsGeneric(_)
QualifiesAsGeneric(s) ==
    CASE s.type = "generic" -> TRUE
      [] s.type = "ptr" -> QualifiesAsGeneric(s.to)
      [] s.type = "fn" -> QualifiesAsGeneric(s.ret) \/ \E i \in DOMAIN s.params : QualifiesAsGeneric(s.params[i])
      [] OTHER -> FALSE

\* ett_are_same: a generic type is the same as any, counted and weak pointers
\* are as one, and so are any two generators and any two interfaces.
RECURSIVE AreSame(_, _)
AreSame(l, r) ==
    CASE l.type # r.type -> "generic" \in {l.type, r.type}
      [] l.type = "base" -> l.name = r.name
      [] l.type = "ptr" -> (l.kind = "raw" <=> r.kind = "raw") /\ AreSame(l.to, r.to)
      [] l.type = "arr" -> AreSame(l.of, r.of) /\ l.ct = r.ct
      [] l.type = "fn" -> /\ AreSame(l.ret, r.ret) /\ Len(l.params) = Len(r.params)
                          /\ l.flags \ {"variadic"} = r.flags \ {"variadic"}
                          /\ \A i \in DOMAIN l.params : AreSame(l.params[i], r.params[i])
      [] OTHER -> TRUE

\* Mutant: counted pointers are named like plain ones.
NameUncounted(s) ==
    LET name[t \in {s} \cup (IF s.type = "ptr" THEN {s.to} ELSE {})] ==
            IF t.type = "ptr" THEN Append(name[t.to], "ptr")
            ELSE IF t.type = "base" THEN <<t.name>> ELSE <<"fn">>
    IN  name[s]

\* ett_unique_type_name, as the words it is made of: the size of an array, the
\* flags of a function type and what makes a pointer weak are not among them.
RECURSIVE UniqueTypeName(_)
UniqueTypeName(s) ==
    CASE s.type = "base" -> <<s.name>>
      [] s.type = "ptr" -> Append(UniqueTypeName(s.to), IF s.kind = "counted" THEN "cptr" ELSE "ptr")
      [] s.type = "arr" -> Append(UniqueTypeName(s.of), "arr")
      [] s.type = "gen" -> Append(UniqueTypeName(s.of), "gen")
      [] s.type = "interface" -> s.names
      [] s.type = "fn" -> <<"fn">> \o FlattenSeq([i \in DOMAIN s.params |-> UniqueTypeName(s.params[i])])
                          \o UniqueTypeName(s.ret)

\* For a property: the types differ in nothing but the size of arrays, the flags
\* of functions, and that a pointer is weak in the one and plain in the other.
RECURSIVE NamedAlike(_, _)
NamedAlike(s, t) ==
    /\ s.type = t.type
    /\ CASE s.type = "ptr" -> (s.kind = "counted" <=> t.kind = "counted") /\ NamedAlike(s.to, t.to)
         [] s.type \in {"arr", "gen"} -> NamedAlike(s.of, t.of)
         [] s.type = "fn" -> /\ Len(s.params) = Len(t.params) /\ NamedAlike(s.ret, t.ret)
                             /\ \A i \in DOMAIN s.params : NamedAlike(s.params[i], t.params[i])
         [] OTHER -> s = t

-----------------------------------------------------------------------------
(* ac_copy_and_find_types: the template of a parameter against the type     *)
(* given for it.                                                            *)

\* The given type has the form the template asks for.
RECURSIVE HasForm(_, _)
HasForm(t, given) ==
    \/ t.type = "generic"
    \/ /\ t.type = given.type
       /\ t.type = "ptr" => (t.kind = "counted" <=> given.kind = "counted") /\ HasForm(t.to, given.to)
       /\ t.type = "fn" => /\ Len(t.params) = Len(given.params) /\ HasForm(t.ret, given.ret)
                           /\ t.flags \ {"closure"} = given.flags \ {"closure"}
                           /\ \A i \in DOMAIN t.params : HasForm(t.params[i], given.params[i])

\* The template with each identifier replaced by what is given at its place or,
\* where nothing is (NoType), by what was found for it.  Pointers and functions
\* are the template's.  (ac_handle_function leaves a parameter that is not
\* generic unset; Programs have none.)
RECURSIVE FoundType(_, _, _)
FoundType(t, given, found) ==
    LET Below(part) == IF given = NoType THEN NoType ELSE part
    IN  CASE t.type = "generic" -> IF given = NoType THEN found[t.id] ELSE given
          [] t.type = "ptr" -> Ptr(t.kind, FoundType(t.to, Below(given.to), found))
          [] t.type = "fn" -> FnOf(t.flags,
                                   [i \in DOMAIN t.params |->
                                       FoundType(t.params[i], Below(given.params[i]), found)],
                                   FoundType(t.ret, Below(given.ret), found))
          [] OTHER -> t

RECURSIVE IdentsIn(_)
IdentsIn(t) ==
    CASE t.type = "generic" -> {t.id}
      [] t.type = "ptr" -> IdentsIn(t.to)
      [] t.type = "fn" -> IdentsIn(t.ret) \cup UNION {IdentsIn(t.params[i]) : i \in DOMAIN t.params}
      [] OTHER -> {}

\* What the given type says of the template's identifiers, in order: pairs
\* <<id, type>>, a type as the call holds it.
RECURSIVE TypesFound(_, _, _)
TypesFound(o, t, given) ==
    LET g == Shape(o, given)
    IN  CASE t.type = "generic" -> <<<<t.id, given>>>>
          [] t.type = "ptr" -> TypesFound(o, t.to, g.to)
          [] t.type = "fn" ->
                FlattenSeq([i \in DOMAIN t.params |-> TypesFound(o, t.params[i], g.params[i])])
                \o TypesFound(o, t.ret, g.ret)
          [] OTHER -> <<>>
=============================================================================
