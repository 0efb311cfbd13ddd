---------------------------- MODULE GenericTypes ----------------------------
(***************************************************************************)
(* The types of core/types.c as far as compiler/ac_generics.c looks into   *)
(* them: base types, pointers, arrays, function types, generators,          *)
(* interfaces, and generic identifiers.                                    *)
(***************************************************************************)

(* Types: a value, or a mention Ref(id) of the shared object of id.         *)

Base(n) == [type |-> "base", name |-> n]
Ptr(kind, to) == [type |-> "ptr", kind |-> kind, to |-> to]
Arr(of, ct) == [type |-> "arr", of |-> of, ct |-> ct]
Gen(of) == [type |-> "gen", of |-> of]
Iface(names) == [type |-> "interface", names |-> names]
\* flags: which of "closure", "gen" and "variadic" a function type is.
FnOf(flags, params, ret) == [type |-> "fn", flags |-> flags, params |-> params, ret |-> ret]
Fn(params, ret) == FnOf({}, params, ret)
Generic(id) == [type |-> "generic", id |-> id]
Ref(id) == [type |-> "ref", id |-> id]
NoType == [type |-> "none"]

\* What the fields of a type hold while the shared objects are as in o.
Shape(o, t) == IF t.type = "ref" THEN o[t.id] ELSE t
=============================================================================
