----------------------------- MODULE Generator -----------------------------
(***************************************************************************)
(* Generators: compiler/ac_generator.c with the yield of ac_control_flow.c *)
(* and the call of ac_expressions.c.                                       *)
(*                                                                         *)
(* The body of a generator is compiled like a function's; then its local   *)
(* variables become fields of a counted context, and the address behind    *)
(* the last yield is kept there.  Whoever drops the last reference to a    *)
(* suspended generator releases its fields without knowing where the body  *)
(* stands.  Statements are chosen by TLC, and the caller runs the code.    *)
(***************************************************************************)
EXTENDS Integers, Sequences, SequencesExt, FiniteSets

CONSTANTS
    Objects,      \* addresses of counted objects without members
    Vars,         \* counted local variables of the body
    MaxCode,      \* bound on the length of the code
    Idioms        \* of {"leftBlock", "pastEnd"}: programs that break the counts

Nil == "nil"
Param == "p"      \* the generator's counted parameter
Fields == Vars \cup {Param}

VARIABLES
    code,         \* the instructions of the generator's function
    scopes,       \* compile time: the blocks that are open, [vars, test, loop]
    left,         \* compile time: variables of blocks that are closed
    counted,      \* the generator yields counted pointers
    counts,        \* counts of the objects
    context,      \* the generator: fields and resume address, or NoContext
    own, recv,    \* the caller's variables: the argument, and what calls store to
    pc            \* the instruction that runs, 0 while the caller runs

compiler == <<code, scopes, left, counted>>
vars == <<code, scopes, left, counted, counts, context, own, recv, pc>>

NoContext == [resume |-> 0, fields |-> [f \in Fields |-> Nil]]

-----------------------------------------------------------------------------
(* The body is compiled.                                                    *)

Open == scopes # <<>>
InScope == UNION {scopes[k].vars : k \in DOMAIN scopes}
Declared == InScope \cup left

Emit(instr) == code' = Append(code, instr)
Run == <<counts, context, own, recv, pc>>

\* ac_compile_var_decl_ext: nil is stored, and the scope's callback will
\* release the variable.
Declare(v) ==
    /\ Open /\ v \notin Declared
    /\ Emit([op |-> "nil", var |-> v])
    /\ scopes' = [scopes EXCEPT ![Len(scopes)].vars = @ \cup {v}]
    /\ UNCHANGED <<left, counted, Run>>

\* An assignment from `new` or from another variable.
Assign(v, from) ==
    /\ Open /\ v \in InScope /\ from \in (InScope \cup {"new"}) \ {v}
    /\ Emit([op |-> "store", var |-> v, from |-> from])
    /\ UNCHANGED <<scopes, left, counted, Run>>

\* ac_compile_yield.  live notes, for the property, what is in scope here.
Yield(v) ==
    /\ Open
    /\ "leftBlock" \in Idioms \/ left = {}
    /\ Emit([op |-> "yield", var |-> v, live |-> InScope])
    /\ UNCHANGED <<scopes, left, counted, Run>>

\* A block behind a test, of an if or of a loop.
Block(loop) ==
    /\ Open
    /\ Emit([op |-> "test", to |-> 0])
    /\ scopes' = Append(scopes, [vars |-> {}, test |-> Len(code) + 1, loop |-> loop])
    /\ UNCHANGED <<left, counted, Run>>

\* Without the idiom no yield of a loop comes before a declaration in it: the
\* variable would keep the pointer the last round released.
Settled(s) ==
    LET body == s.test..Len(code)
        inside == {code[n].var : n \in {m \in body : code[m].op = "nil"}}
    IN  s.loop => \A n \in body : code[n].op = "yield" => inside \subseteq code[n].live

\* The end of the block: vs_run_callbacks_through, vs_pop, and back to the test.
EndBlock ==
    LET s == Last(scopes)
        body == code \o <<[op |-> "release", vars |-> s.vars]>>
                     \o (IF s.loop THEN <<[op |-> "jump", to |-> s.test]>> ELSE <<>>)
    IN  /\ Len(scopes) > 1
        /\ "leftBlock" \in Idioms \/ Settled(s)
        /\ code' = [body EXCEPT ![s.test].to = Len(body) + 1]
        /\ scopes' = Front(scopes)
        /\ left' = left \cup s.vars
        /\ UNCHANGED <<counted, Run>>

\* The end of ac_compile_generator_code.
EndBody ==
    /\ Len(scopes) = 1
    /\ code' = code \o <<[op |-> "release", vars |-> InScope], [op |-> "end"]>>
    /\ scopes' = <<>>
    /\ UNCHANGED <<left, counted, Run>>

-----------------------------------------------------------------------------
(* The counts.                                                              *)

Incr(c, o) == IF o = Nil THEN c ELSE [c EXCEPT ![o] = @ + 1]
Decr(c, o) == IF o = Nil THEN c ELSE [c EXCEPT ![o] = @ - 1]

\* What the fields fs hold is released, one field after the other.
Released(fs) ==
    [o \in Objects |-> counts[o] - Cardinality({f \in fs : context.fields[f] = o})]

-----------------------------------------------------------------------------
(* The caller.                                                              *)

Calling == ~Open /\ pc = 0

\* Mutant: the fields keep what malloc left there.
CreateUncleared ==
    /\ Calling /\ context = NoContext
    /\ \E junk \in [Vars -> Objects \cup {Nil}] :
          context' = [resume |-> 1, fields |-> [f \in Fields |-> IF f = Param THEN own ELSE junk[f]]]
    /\ counts' = Incr(counts, own)
    /\ UNCHANGED <<compiler, own, recv, pc>>

\* ac_compile_generator_init: the fields are nil, the parameter is counted.
Create ==
    /\ Calling /\ context = NoContext
    /\ context' = [resume |-> 1, fields |-> [f \in Fields |-> IF f = Param THEN own ELSE Nil]]
    /\ counts' = Incr(counts, own)
    /\ UNCHANGED <<compiler, own, recv, pc>>

\* ac_compile_generator_call: the receiver's old value is released before the
\* call, which will overwrite it.
Call ==
    /\ Calling /\ context # NoContext
    /\ counts' = IF counted THEN Decr(counts, recv) ELSE counts
    /\ pc' = context.resume
    /\ UNCHANGED <<compiler, own, context, recv>>

\* ac_compile_generator_destructor, called for the last reference.
Drop ==
    /\ Calling /\ context # NoContext
    /\ counts' = Released(Fields) /\ context' = NoContext
    /\ UNCHANGED <<compiler, own, recv, pc>>

\* The caller's variables leave their scopes.
LeaveOwn ==
    /\ Calling /\ own # Nil
    /\ counts' = Decr(counts, own) /\ own' = Nil
    /\ UNCHANGED <<compiler, context, recv, pc>>

LeaveReceiver ==
    /\ Calling /\ recv # Nil
    /\ counts' = Decr(counts, recv) /\ recv' = Nil
    /\ UNCHANGED <<compiler, context, own, pc>>

-----------------------------------------------------------------------------
(* The body runs, from the resume address: the br to the block it is in.    *)

Now(op) == pc # 0 /\ code[pc].op = op
Goto(n) == pc' = n /\ UNCHANGED <<compiler, own>>

StoreNil ==
    /\ Now("nil") /\ Goto(pc + 1)
    /\ context' = [context EXCEPT !.fields[code[pc].var] = Nil]
    /\ UNCHANGED <<counts, recv>>

\* ac_safe_store: the new value is counted, then the old one released.
Store ==
    LET instr == code[pc]
        given == IF instr.from = "new" THEN {o \in Objects : counts[o] = 0}
                 ELSE {context.fields[instr.from]}
    IN  /\ Now("store") /\ Goto(pc + 1)
        /\ \E o \in given :
              /\ counts' = Decr(Incr(counts, o), context.fields[instr.var])
              /\ context' = [context EXCEPT !.fields[instr.var] = o]
        /\ UNCHANGED recv

\* The code of ac_compile_yield: a counted value is counted for the receiver,
\* the resume address is that of the next block.
YieldTo ==
    LET value == context.fields[code[pc].var]
    IN  /\ Now("yield") /\ Goto(0)
        /\ context' = [context EXCEPT !.resume = pc + 1]
        /\ IF counted THEN recv' = value /\ counts' = Incr(counts, value)
                      ELSE UNCHANGED <<recv, counts>>

Test ==
    /\ Now("test") /\ (Goto(pc + 1) \/ Goto(code[pc].to))
    /\ UNCHANGED <<counts, context, recv>>

Jump ==
    /\ Now("jump") /\ Goto(code[pc].to)
    /\ UNCHANGED <<counts, context, recv>>

Release ==
    /\ Now("release") /\ Goto(pc + 1)
    /\ counts' = Released(code[pc].vars)
    /\ UNCHANGED <<context, recv>>

\* ac_null_out_counted in the last block; the resume address stays.
End ==
    /\ Now("end") /\ Goto(0)
    /\ counted => "pastEnd" \in Idioms
    /\ context' = [context EXCEPT !.fields = NoContext.fields]
    /\ UNCHANGED <<counts, recv>>

-----------------------------------------------------------------------------
Init ==
    /\ counted \in BOOLEAN
    /\ code = <<>> /\ left = {}
    /\ scopes = <<[vars |-> {Param}, test |-> 0, loop |-> FALSE]>>
    /\ own \in Objects \cup {Nil} /\ recv = Nil
    /\ counts = [o \in Objects |-> IF o = own THEN 1 ELSE 0]
    /\ context = NoContext /\ pc = 0

Compile ==
    \/ \E v \in Vars : Declare(v)
    \/ \E v \in Fields, from \in Fields \cup {"new"} : Assign(v, from)
    \/ \E v \in IF counted THEN InScope ELSE {Param} : Yield(v)
    \/ \E loop \in BOOLEAN : Block(loop)

Next ==
    \/ Len(code) < MaxCode /\ Compile
    \/ EndBlock \/ EndBody
    \/ Create \/ Call \/ Drop \/ LeaveOwn \/ LeaveReceiver
    \/ StoreNil \/ Store \/ YieldTo \/ Test \/ Jump \/ Release \/ End

Spec == Init /\ [][Next]_vars

-----------------------------------------------------------------------------
(* Property.                                                                *)

\* Where the body stands: the variables that are in scope there.
Live ==
    CASE context.resume = 0 -> {}
      [] context.resume = 1 -> {Param}
      [] OTHER -> {f \in code[context.resume - 1].live : context.fields[f] # Nil}

\* While the caller runs, an object's count is the number of references to
\* it: the caller's variables, and those of the body that are in scope at the
\* yield where it stands.  So dropping a generator, at whatever yield and
\* after whatever calls, releases exactly what it still holds.
CountsMatch ==
    Calling => \A o \in Objects :
        counts[o] = Cardinality({f \in Live : context.fields[f] = o})
                   + (IF own = o THEN 1 ELSE 0) + (IF recv = o THEN 1 ELSE 0)
=============================================================================
