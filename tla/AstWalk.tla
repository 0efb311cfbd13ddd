------------------------------ MODULE AstWalk -------------------------------
(***************************************************************************)
(* The body of an exported generic function: compiler/ast.c builds its     *)
(* syntax tree from the parser's value stack, compiler/ast_walk.c visits   *)
(* it, and ac_check_generics refuses it when it mentions a function that   *)
(* the module keeps private.  Another module compiles that body again, so  *)
(* what it mentions has to be linked there.                                *)
(***************************************************************************)
EXTENDS Integers, Sequences, SequencesExt, TLC

CONSTANTS
    Functions,    \* the names of functions of the module
    Locals,       \* other names a body mentions
    Declarations, \* how each may be declared: [allow, body, linkage]
    Forms,        \* sets of node types, one of which a body is made of
    MaxNodes      \* bound on the nodes of a body

VARIABLES
    forms,        \* the node types of this body
    stack,        \* the parser's values: [kind, nodes], nodes linked by next
    size,         \* the nodes made
    decls,        \* the functions' declarations: [allow, body, linkage]
    todo,         \* what aw_walk has still to visit
    phase,        \* "parse", "walk" or "done"
    refused       \* die was called

vars == <<forms, stack, size, decls, todo, phase, refused>>

-----------------------------------------------------------------------------
(* Nodes: the fields that hold other nodes, a list each; NULL is <<>>.      *)

Node(type, kids) == [type |-> type, name |-> "", kids |-> kids]
Ident(name) == [type |-> "AIDENT", name |-> name, kids |-> <<>>]

Rule(takes, fields, gives) == [takes |-> takes, fields |-> fields, gives |-> gives]

\* What the constructors take from the stack, the fields they set and what
\* they leave.  Operators,
Operators ==
    [ABINARY |-> {Rule(<<"expr", "expr">>, <<"left", "right">>, "expr")},
     AUNARY  |-> {Rule(<<"expr">>, <<"val">>, "expr")},
     AALLOC  |-> {Rule(<<"exprs">>, <<"right">>, "expr")}]

\* closures and calls,
Callables ==
    [AFUNCDECL |-> {Rule(<<"stmts">>, <<"body">>, "expr")},
     AFUNCCALL |-> {Rule(<<"expr">>, <<"callee">>, "expr"),
                    Rule(<<"expr", "exprs">>, <<"callee", "params">>, "expr")}]

\* members and literals of structures,
Literals == [ASTRUCTLIT |-> {Rule(<<"exprs">>, <<"exprs">>, "expr")}]
Accesses == [ASTRUCTMEMBER |-> {Rule(<<"expr">>, <<"left">>, "expr")}]

\* local variables, of a type that mentions no function,
Variables == [AVARDECL |-> {Rule(<<>>, <<>>, "expr")}]

\* choices and casts,
Selections ==
    [ATERNARY |-> {Rule(<<"expr", "expr", "expr">>, <<"test", "ifyes", "ifno">>, "expr"),
                   Rule(<<"expr", "expr">>, <<"test", "ifno">>, "expr")},
     ACAST    |-> {Rule(<<"expr">>, <<"val">>, "expr")}]

\* and statements.
Statements ==
    [AIF     |-> {Rule(<<"expr", "stmts">>, <<"test", "block">>, "ifs"),
                  Rule(<<"stmts">>, <<"block">>, "ifs")},
     ASWITCH |-> {Rule(<<"expr", "cases">>, <<"test", "cases">>, "stmts")},
     ACASE   |-> {Rule(<<"expr", "stmts">>, <<"targ", "body">>, "cases"),
                  Rule(<<"stmts">>, <<"body">>, "cases")},
     ALOOP   |-> {Rule(<<"expr", "stmts">>, <<"test", "block">>, "stmts"),
                  Rule(<<"expr", "expr", "expr", "stmts">>, <<"setup", "test", "update", "block">>, "stmts")},
     ADEFER  |-> {Rule(<<"stmts">>, <<"block">>, "stmts")}]

Rules == Operators @@ Callables @@ Literals @@ Accesses @@ Variables @@ Selections @@ Statements

Takes(kinds) ==
    /\ phase = "parse" /\ Len(kinds) <= Len(stack)
    /\ \A i \in DOMAIN kinds : stack[Len(stack) - Len(kinds) + i].kind = kinds[i]

\* The i-th of the n values a rule takes.
Value(n, i) == stack[Len(stack) - n + i].nodes

Leaves(n, kind, nodes) ==
    stack' = Append(SubSeq(stack, 1, Len(stack) - n), [kind |-> kind, nodes |-> nodes])

Made(n) == size + n <= MaxNodes /\ size' = size + n

Parsing == UNCHANGED <<forms, decls, todo, phase, refused>>

\* ast_make_identifier.
Identifier ==
    /\ phase = "parse" /\ Made(1)
    /\ \E f \in Functions \cup Locals : Leaves(0, "expr", <<Ident(f)>>)
    /\ Parsing

\* ast_make_switch: a second default case ends the compilation.
OneDefault(type, kids) ==
    type = "ASWITCH" => Cardinality({i \in DOMAIN kids.cases : "targ" \notin DOMAIN kids.cases[i].kids}) <= 1

Make ==
    /\ Made(1)
    /\ \E type \in forms : \E rule \in Rules[type] :
          LET n == Len(rule.takes)
              at == [field \in Range(rule.fields) |-> CHOOSE i \in 1..n : rule.fields[i] = field]
              kids == [field \in DOMAIN at |-> Value(n, at[field])]
          IN  /\ Takes(rule.takes) /\ OneDefault(type, kids)
              /\ Leaves(n, rule.gives, <<Node(type, kids)>>)
    /\ Parsing

\* A list of one, and a node put before a list: its next is set.
List ==
    /\ UNCHANGED size /\ Parsing
    /\ \/ \E kinds \in {<<"expr", "exprs">>, <<"expr", "stmts">>, <<"ifs", "stmts">>} :
              Takes(<<kinds[1]>>) /\ Leaves(1, kinds[2], Value(1, 1))
       \/ \E kind \in {"stmts", "cases"} :
              Takes(<<kind, kind>>) /\ Len(Value(2, 1)) = 1
              /\ Leaves(2, kind, Value(2, 1) \o Value(2, 2))
       \/ Takes(<<"expr", "exprs">>) /\ Leaves(2, "exprs", Value(2, 1) \o Value(2, 2))

\* ast_add_if: the new link goes behind the last one.
RECURSIVE Chained(_, _)
Chained(i, next) ==
    IF "ifNext" \in DOMAIN i.kids
    THEN [i EXCEPT !.kids["ifNext"] = <<Chained(@[1], next)>>]
    ELSE [i EXCEPT !.kids = @ @@ [ifNext |-> <<next>>]]

AddIf ==
    /\ Takes(<<"ifs", "ifs">>) /\ "test" \in DOMAIN Value(2, 1)[1].kids
    /\ Leaves(2, "ifs", <<Chained(Value(2, 1)[1], Value(2, 2)[1])>>)
    /\ UNCHANGED size /\ Parsing

-----------------------------------------------------------------------------
(* Exports.                                                                 *)

\* ac_add_func_declaration: a function keeps private linkage or goes on
\* record, by the rules, its body and its own mark.
Private(f) == ~decls[f].allow /\ decls[f].body /\ decls[f].linkage # "VLExport"
WasExported(f) == ~Private(f)

\* The other declarations are known when ac_check_generics begins with the
\* generic function itself.
Define ==
    /\ Takes(<<"stmts">>) /\ Len(stack) = 1
    /\ decls' \in [Functions -> Declarations]
    /\ todo' = <<Node("AFUNCDECL", [body |-> Value(1, 1)])>>
    /\ phase' = "walk"
    /\ UNCHANGED <<forms, stack, size, refused>>

-----------------------------------------------------------------------------
(* The walk.                                                                *)

\* The fields aw_dispatch goes into, in its order.
Visits(type) ==
    CASE type = "ABINARY"       -> <<"left", "right">>
      [] type = "AUNARY"        -> <<"val">>
      [] type = "AFUNCDECL"     -> <<"retType", "body", "params">>
      [] type = "AFUNCCALL"     -> <<"callee", "params">>
      [] type = "AVARDECL"      -> <<"atype", "arrct", "staticInit">>
      [] type = "AIF"           -> <<"test", "block", "ifNext">>
      [] type = "ASWITCH"       -> <<"test", "cases">>
      [] type = "ACASE"         -> <<"targ", "body">>
      [] type = "ALOOP"         -> <<"setup", "test", "update", "block">>
      [] type = "ATERNARY"      -> <<"test", "ifyes", "ifno">>
      [] type = "ACAST"         -> <<"etype", "val">>
      [] type = "ASTRUCTMEMBER" -> <<"left">>
      [] type = "ASTRUCTLIT"    -> <<"exprs">>
      [] type = "ADEFER"        -> <<"block">>
      [] OTHER                  -> <<>>

Below(node) ==
    LET fields == SelectSeq(Visits(node.type), LAMBDA f : f \in DOMAIN node.kids)
    IN  FlattenSeq([i \in DOMAIN fields |-> node.kids[fields[i]]])

\* ac_generic_check_ident.
Refuses(node) == node.type = "AIDENT" /\ node.name \in Functions /\ ~WasExported(node.name)

\* Mutant: only the first node of a list is walked.
DispatchFirst ==
    /\ phase = "walk" /\ ~refused /\ todo # <<>>
    /\ LET node == Head(todo)
           fields == SelectSeq(Visits(node.type), LAMBDA f : f \in DOMAIN node.kids)
       IN  /\ refused' = Refuses(node)
           /\ todo' = [i \in DOMAIN fields |-> node.kids[fields[i]][1]] \o Tail(todo)
    /\ UNCHANGED <<forms, stack, size, decls, phase>>

\* aw_dispatch, with the rest of the tree in todo.
Dispatch ==
    /\ phase = "walk" /\ ~refused /\ todo # <<>>
    /\ refused' = Refuses(Head(todo))
    /\ todo' = Below(Head(todo)) \o Tail(todo)
    /\ UNCHANGED <<forms, stack, size, decls, phase>>

Accept ==
    /\ phase = "walk" /\ ~refused /\ todo = <<>> /\ phase' = "done"
    /\ UNCHANGED <<forms, stack, size, decls, todo, refused>>

Init ==
    /\ forms \in Forms /\ stack = <<>> /\ size = 0 /\ todo = <<>>
    /\ decls = <<>> /\ phase = "parse" /\ refused = FALSE

Next == Identifier \/ Make \/ List \/ AddIf \/ Define \/ Dispatch \/ Accept

Spec == Init /\ [][Next]_vars

-----------------------------------------------------------------------------

\* The functions a tree mentions, in whatever field.
RECURSIVE Mentions(_)
Mentions(nodes) ==
    UNION {{nodes[i].name} \cup UNION {Mentions(nodes[i].kids[f]) : f \in DOMAIN nodes[i].kids} :
              i \in DOMAIN nodes} \cap Functions

\* An exported generic function is accepted exactly when no function its body
\* mentions, however deep in the tree, is private to the module.
ExportsClosed ==
    /\ phase = "done" => \A f \in Mentions(stack[1].nodes) : ~Private(f)
    /\ refused => \E f \in Mentions(stack[1].nodes) : Private(f)
=============================================================================
