------------------------------ MODULE Closures ------------------------------
(***************************************************************************)
(* Closures: compiler/ac_functions.c with the barriers of                  *)
(* variable_manager.c and the boxes of ac_helpers.c.                       *)
(*                                                                         *)
(* A closure may use the variables of the functions around it.  Only the   *)
(* look-up that crosses the barrier of a closure tells the compiler so,    *)
(* and the variable then moves into a counted box: the code that was       *)
(* already emitted for it is rewritten.  A function with closures is       *)
(* chosen by TLC, and a caller runs it and the closure it returns.  The    *)
(* variables are the function's parameters; closures declare their own.    *)
(***************************************************************************)
EXTENDS Integers, FiniteSetsExt, SequencesExt, TLC

CONSTANTS
    Vars,         \* counted parameters of the function, nil in every call
    MaxCells,     \* addresses of the heap
    MaxStmts,     \* bound on the statements of the program
    Idioms        \* of {"outermost", "early", "inner"}: programs that go wrong

Nil == 0
Holder == "f"     \* every function's own variable for a closure, which it returns
Cells == 1..MaxCells

VARIABLES
    funs,         \* the function and its closures: [code, slots]
    scopes,       \* varScope: [fun, barrier, names, test, loop]
    lookup,       \* vs_get at work: [name, calls], a call by the level it starts at
    boxed,        \* variables <<function, name>> that ac_replace_with_counted moved
    stmts,        \* the number of statements so far
    heap,         \* cells: [kind, count, fun, refs]
    frames,       \* the functions that run: [fun, pc, context, locals]
    held          \* the caller's variable

compiler == <<funs, scopes, lookup, boxed, stmts>>
vars == <<compiler, heap, frames, held>>

-----------------------------------------------------------------------------
(* Compile time.                                                            *)

Compiling == scopes # <<>>
Ready == Compiling /\ lookup.calls = <<>> /\ stmts < MaxStmts
Run == <<heap, frames, held>>

Own == Last(scopes).fun
OwnCode == funs[Own].code
Emit(instr) == funs' = [funs EXCEPT ![Own].code = Append(@, instr)]
Statement == stmts' = stmts + 1

Scope(f, barrier, test, loop) ==
    [fun |-> f, barrier |-> barrier, names |-> <<>>, test |-> test, loop |-> loop]

\* A place: a variable of the function itself, or a slot of its context.
Local == 0
Declares(level) == {v \in DOMAIN scopes[level].names : scopes[level].names[v] = Local}

\* The variables declared at these levels, as the scope callbacks see them now.
Callbacks(levels) ==
    UNION {{[var |-> v, box |-> <<scopes[l].fun, v>> \in boxed] : v \in Declares(l)} : l \in levels}
Levels == {l \in DOMAIN scopes : scopes[l].fun = Own /\ ~scopes[l].barrier}

\* vs_get from a level on: the scopes up to the next barrier.
Barrier(level) == Max({l \in 1..level : scopes[l].barrier} \cup {0})
Find(level, v) ==
    Max({l \in (Barrier(level) + 1)..level : v \in DOMAIN scopes[l].names} \cup {0})
Visible(v) == \E l \in DOMAIN scopes : v \in DOMAIN scopes[l].names

\* ac_compile_var_decl.
Declare(v) ==
    /\ Ready /\ Statement
    /\ \A l \in DOMAIN scopes : scopes[l].fun = Own => v \notin DOMAIN scopes[l].names
    /\ \A n \in DOMAIN OwnCode : OwnCode[n] # [op |-> "nil", var |-> v]
    /\ Emit([op |-> "nil", var |-> v])
    /\ scopes' = [scopes EXCEPT ![Len(scopes)].names = (v :> Local) @@ @]
    /\ UNCHANGED <<lookup, boxed, Run>>

\* A box lives as long as the scope of its variable only if this is the
\* function's own, and no return was compiled before.
Boxable(level) ==
    LET f == scopes[level].fun
    IN  /\ "inner" \in Idioms \/ scopes[level].test = 0
        /\ "early" \in Idioms \/ \A n \in DOMAIN funs[f].code : funs[f].code[n].op # "leave"

\* An assignment mentions v.  Without the idiom the variable belongs to this
\* function or to the one around it: with it, the callback of the outer
\* barrier puts the name where the repeated look-up does not see it.
Mention(v) ==
    LET around == Find(Barrier(Len(scopes)) - 1, v)
    IN  /\ Ready /\ Statement /\ Visible(v)
        /\ "outermost" \in Idioms \/ Find(Len(scopes), v) # 0 \/ around # 0
        /\ around # 0 /\ scopes[around].names[v] = Local => Boxable(around)
        /\ lookup' = [name |-> v, calls |-> <<Len(scopes)>>]
        /\ UNCHANGED <<funs, scopes, boxed, Run>>

Looking == lookup.calls # <<>>
Level == Last(lookup.calls)
Answer == Find(Level, lookup.name)

\* vs_get reaches a barrier and looks behind it.
Behind ==
    /\ Compiling /\ Looking /\ Answer = 0
    /\ lookup' = [lookup EXCEPT !.calls = Append(@, Barrier(Level) - 1)]
    /\ UNCHANGED <<funs, scopes, boxed, stmts, Run>>

\* closedCallback = ac_closure_callback: the variable is boxed, the closure
\* behind the barrier gets a slot for it, and the current scope the name.
Close ==
    LET v == lookup.name
        place == scopes[Answer].names[v]
        closure == scopes[Level + 1].fun
    IN  /\ Compiling /\ Len(lookup.calls) > 1 /\ Answer # 0
        /\ boxed' = IF place = Local THEN boxed \cup {<<scopes[Answer].fun, v>>} ELSE boxed
        /\ funs' = [funs EXCEPT ![closure].slots = Append(@, [var |-> v, slot |-> place])]
        /\ scopes' = [scopes EXCEPT ![Len(scopes)].names = (v :> Len(funs[closure].slots) + 1) @@ @]
        /\ lookup' = [lookup EXCEPT !.calls = Front(@)]
        /\ UNCHANGED <<stmts, Run>>

\* vs_get returns the variable to ac_build_store.
Found ==
    /\ Compiling /\ Len(lookup.calls) = 1 /\ Answer # 0
    /\ Emit([op |-> "store", var |-> lookup.name, slot |-> scopes[Answer].names[lookup.name]])
    /\ lookup' = [lookup EXCEPT !.calls = <<>>]
    /\ UNCHANGED <<scopes, boxed, stmts, Run>>

\* ac_compile_closure, up to its body: vs_push_closure, vs_push.
Closure ==
    LET n == Len(funs) + 1
    IN  /\ Ready /\ Statement
        /\ funs' = Append(funs, [code |-> <<>>, slots |-> <<>>])
        /\ scopes' = scopes \o <<Scope(n, TRUE, 0, FALSE), Scope(n, FALSE, 0, FALSE)>>
        /\ UNCHANGED <<lookup, boxed, Run>>

\* The end of a function: the holder is returned, the variables are released.
Ended(f, levels) == Append(funs[f].code, [op |-> "end", vars |-> Callbacks(levels)])

\* ac_compile_closure, behind its body: vs_pop twice, ac_finish_closure; the
\* new closure goes to the holder of the function around it.
EndClosure ==
    LET outer == scopes[Len(scopes) - 2].fun
        done == [funs EXCEPT ![Own].code = Ended(Own, {Len(scopes)})]
    IN  /\ Compiling /\ ~Looking
        /\ Len(scopes) > 2 /\ scopes[Len(scopes) - 1].barrier
        /\ funs' = [done EXCEPT ![outer].code = Append(@, [op |-> "make", closure |-> Own])]
        /\ scopes' = SubSeq(scopes, 1, Len(scopes) - 2)
        /\ UNCHANGED <<lookup, boxed, stmts, Run>>

\* A block behind a test, of an if or of a loop.
Block(loop) ==
    /\ Ready /\ Statement
    /\ Emit([op |-> "test", to |-> 0])
    /\ scopes' = Append(scopes, Scope(Own, FALSE, Len(OwnCode) + 1, loop))
    /\ UNCHANGED <<lookup, boxed, Run>>

EndBlock ==
    LET s == Last(scopes)
        body == Append(OwnCode, [op |-> "release", vars |-> Callbacks({Len(scopes)})])
                \o (IF s.loop THEN <<[op |-> "jump", to |-> s.test]>> ELSE <<>>)
    IN  /\ Compiling /\ ~Looking /\ s.test # 0
        /\ funs' = [funs EXCEPT ![Own].code = [body EXCEPT ![s.test].to = Len(body) + 1]]
        /\ scopes' = Front(scopes)
        /\ UNCHANGED <<lookup, boxed, stmts, Run>>

\* A return behind a test: vs_run_callbacks_through the function's scope.
Leave ==
    /\ Ready /\ Statement
    /\ Emit([op |-> "leave", vars |-> Callbacks(Levels)])
    /\ UNCHANGED <<scopes, lookup, boxed, Run>>

\* A call of the closure in the holder.
Call ==
    /\ Ready /\ Statement
    /\ Emit([op |-> "call"])
    /\ UNCHANGED <<scopes, lookup, boxed, Run>>

EndFunction ==
    /\ Compiling /\ ~Looking /\ Len(scopes) = 1
    /\ funs' = [funs EXCEPT ![1].code = Ended(1, {1})]
    /\ scopes' = <<>>
    /\ UNCHANGED <<lookup, boxed, stmts, Run>>

-----------------------------------------------------------------------------
(* The heap: objects, boxes with one variable each, and closures with the   *)
(* boxes of their context.                                                  *)

Free == [kind |-> "free", count |-> 0, fun |-> 0, refs |-> <<>>]
Cell(kind, count, f, refs) == [kind |-> kind, count |-> count, fun |-> f, refs |-> refs]

Unused(h) == {c \in Cells : h[c] = Free}
Fresh(h) == Min(Unused(h))

Incr(h, c) == IF c = Nil THEN h ELSE [h EXCEPT ![c].count = @ + 1]

\* __egl_decr_ptr, with the destructor of the cell: of a box what it holds,
\* of a closure the boxes of its context.
RECURSIVE Decr(_, _)
Decr(h, c) ==
    IF c = Nil THEN h
    ELSE IF h[c].count > 1 THEN [h EXCEPT ![c].count = @ - 1]
    ELSE FoldSeq(LAMBDA r, g : Decr(g, r), [h EXCEPT ![c] = Free], h[c].refs)

-----------------------------------------------------------------------------
(* Run time.                                                                *)

Frame == Last(frames)
Instr == funs[Frame.fun].code[Frame.pc]
Now(op) == frames # <<>> /\ Instr.op = op
To(n) == [frames EXCEPT ![Len(frames)].pc = n]
Onward == To(Frame.pc + 1)
With(fs, v, c) == [fs EXCEPT ![Len(frames)].locals[v] = c]

IsBoxed(v) == <<Frame.fun, v>> \in boxed

\* The box a place stands for, or Nil.
Box(v, slot) ==
    IF slot # Local THEN Frame.context[slot] ELSE IF IsBoxed(v) THEN Frame.locals[v] ELSE Nil

\* ac_replace_with_counted puts the allocation before the function's code.
Boxes(f) == SetToSeq({v \in Vars : <<f, v>> \in boxed})
Enter(f, context) ==
    LET Boxing(v, s) ==
            LET c == Fresh(s.heap)
            IN  [heap |-> [s.heap EXCEPT ![c] = Cell("box", 1, 0, <<Nil>>)],
                 locals |-> [s.locals EXCEPT ![v] = c]]
        empty == [heap |-> heap, locals |-> [v \in Vars \cup {Holder} |-> Nil]]
        s == FoldSeq(Boxing, empty, Boxes(f))
    IN  /\ Len(Boxes(f)) < Cardinality(Unused(heap))
        /\ heap' = s.heap
        /\ frames' = Append(frames, [fun |-> f, pc |-> 1, context |-> context, locals |-> s.locals])

\* The caller calls the function, or the closure that it returned.
Start == ~Compiling /\ frames = <<>> /\ held = Nil /\ Enter(1, <<>>) /\ UNCHANGED <<compiler, held>>
CallHeld ==
    /\ ~Compiling /\ frames = <<>> /\ held # Nil
    /\ Enter(heap[held].fun, heap[held].refs)
    /\ UNCHANGED <<compiler, held>>
Drop ==
    /\ ~Compiling /\ frames = <<>> /\ held # Nil
    /\ heap' = Decr(heap, held) /\ held' = Nil
    /\ UNCHANGED <<compiler, frames>>

Running == UNCHANGED <<compiler, held>>

StoreNil ==
    LET box == Box(Instr.var, Local)
    IN  /\ Now("nil") /\ Running
        /\ IF box = Nil THEN frames' = With(Onward, Instr.var, Nil) /\ UNCHANGED heap
                        ELSE frames' = Onward /\ heap' = [heap EXCEPT ![box].refs = <<Nil>>]

\* ac_safe_store of a new object or of nil.
Store ==
    LET box == Box(Instr.var, Instr.slot)
        old == IF box = Nil THEN Frame.locals[Instr.var] ELSE heap[box].refs[1]
    IN  /\ Now("store") /\ Running
        /\ \E new \in (IF Unused(heap) = {} THEN {} ELSE {Fresh(heap)}) \cup {Nil} :
             LET counted == IF new = Nil THEN heap ELSE [heap EXCEPT ![new] = Cell("object", 1, 0, <<>>)]
             IN  IF box = Nil
                 THEN heap' = Decr(counted, old) /\ frames' = With(Onward, Instr.var, new)
                 ELSE heap' = Decr([counted EXCEPT ![box].refs = <<new>>], old) /\ frames' = Onward

\* Mutant: the boxes are copied into the context and not counted.
MakeUncounted ==
    LET slots == funs[Instr.closure].slots
        context == [k \in DOMAIN slots |-> Box(slots[k].var, slots[k].slot)]
        c == Fresh(heap)
    IN  /\ Now("make") /\ Running /\ Unused(heap) # {}
        /\ heap' = Decr([heap EXCEPT ![c] = Cell("closure", 1, Instr.closure, context)], Frame.locals[Holder])
        /\ frames' = With(Onward, Holder, c)

\* The code of ac_finish_closure, and the store of the closure.
Make ==
    LET slots == funs[Instr.closure].slots
        context == [k \in DOMAIN slots |-> Box(slots[k].var, slots[k].slot)]
        c == Fresh(heap)
        closed == FoldSeq(LAMBDA b, h : Incr(h, b), heap, context)
    IN  /\ Now("make") /\ Running /\ Unused(heap) # {}
        /\ heap' = Decr([closed EXCEPT ![c] = Cell("closure", 1, Instr.closure, context)], Frame.locals[Holder])
        /\ frames' = With(Onward, Holder, c)

\* A call passes the context; a holder that is nil is not called.
CallHolder ==
    LET f == Frame.locals[Holder]
    IN  /\ Now("call") /\ Running
        /\ IF f = Nil THEN frames' = Onward /\ UNCHANGED heap
                      ELSE Enter(heap[f].fun, heap[f].refs)

Test ==
    /\ Now("test") /\ Running
    /\ frames' \in {Onward, To(Instr.to)} /\ UNCHANGED heap

Jump == Now("jump") /\ Running /\ frames' = To(Instr.to) /\ UNCHANGED heap

\* The scope callbacks: a callback compiled before the variable was boxed
\* releases what the box holds, a later one the box.
Release(h, callbacks) ==
    LET Target(k) == LET c == Frame.locals[k.var]
                     IN  IF IsBoxed(k.var) /\ ~k.box THEN h[c].refs[1] ELSE c
    IN  FoldSeq(LAMBDA k, g : Decr(g, Target(k)), h, SetToSeq(callbacks))

LeaveBlock ==
    /\ Now("release") /\ Running
    /\ heap' = Release(heap, Instr.vars) /\ frames' = Onward

\* The function returns its holder to a statement that stores it or drops it.
Return ==
    LET result == Frame.locals[Holder]
        left == Release(heap, Instr.vars)
        outer == Front(frames)
        pc == [outer EXCEPT ![Len(outer)].pc = @ + 1]
    IN  /\ Now("end") \/ Now("leave")
        /\ UNCHANGED compiler
        /\ \E keep \in BOOLEAN :
             IF outer = <<>>
             THEN /\ frames' = <<>>
                  /\ heap' = Decr(left, IF keep THEN held ELSE result)
                  /\ held' = IF keep THEN result ELSE held
             ELSE /\ heap' = Decr(left, IF keep THEN Last(outer).locals[Holder] ELSE result)
                  /\ frames' = IF keep THEN [pc EXCEPT ![Len(pc)].locals[Holder] = result] ELSE pc
                  /\ UNCHANGED held

\* The test in front of a return fails.
Stay == Now("leave") /\ Running /\ frames' = Onward /\ UNCHANGED heap

-----------------------------------------------------------------------------
Init ==
    /\ funs = <<[code |-> <<>>, slots |-> <<>>]>>
    /\ scopes = <<[Scope(1, FALSE, 0, FALSE) EXCEPT !.names = [v \in Vars |-> Local]]>>
    /\ lookup = [name |-> Holder, calls |-> <<>>]
    /\ boxed = {} /\ stmts = 0
    /\ heap = [c \in Cells |-> Free] /\ frames = <<>> /\ held = Nil

Compile ==
    \/ \E v \in Vars : Declare(v) \/ Mention(v)
    \/ Behind \/ Close \/ Found
    \/ Closure \/ EndClosure
    \/ \E loop \in BOOLEAN : Block(loop)
    \/ EndBlock \/ Leave \/ Call \/ EndFunction

Next ==
    \/ Compile
    \/ Start \/ CallHeld \/ Drop
    \/ StoreNil \/ Store \/ Make \/ CallHolder \/ Test \/ Jump \/ LeaveBlock \/ Return \/ Stay

Spec == Init /\ [][Next]_vars

-----------------------------------------------------------------------------
(* Properties.                                                              *)

\* The boxes the next instruction works on.
Used ==
    IF frames = <<>> THEN {}
    ELSE CASE Instr.op \in {"nil", "store"} -> {Box(Instr.var, IF Instr.op = "nil" THEN Local ELSE Instr.slot)}
           [] Instr.op = "make" -> {Box(s.var, s.slot) : s \in Range(funs[Instr.closure].slots)}
           [] OTHER -> {}

\* A box lives as long as the function that declares its variable or a
\* closure needs it: running code finds the boxes it works on, and between
\* calls every count is the number of references, so that nothing outlives
\* the last closure.
BoxesMatch ==
    /\ \A b \in Used \ {Nil} : heap[b].kind = "box"
    /\ \A n \in DOMAIN frames : \A b \in Range(frames[n].context) : heap[b].kind = "box"
    /\ frames = <<>> => \A c \in Cells :
          heap[c].count = Cardinality({<<d, n>> \in Cells \X (1..MaxStmts) :
                                          n \in DOMAIN heap[d].refs /\ heap[d].refs[n] = c})
                          + (IF held = c THEN 1 ELSE 0)
=============================================================================
