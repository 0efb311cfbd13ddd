------------------------------- MODULE Scopes -------------------------------
(***************************************************************************)
(* Scopes and control flow: the code the compiler emits at every way out   *)
(* of a block (variable_manager.c, ac_control_flow.c, the statements of    *)
(* ac_general.c and the end of a function in ac_functions.c).              *)
(*                                                                         *)
(* A behaviour has two phases.  In the first the compiler goes over the    *)
(* body of a function, chosen statement by statement, keeps the stack of   *)
(* scopes and appends instructions to basic blocks.  In the second the     *)
(* emitted blocks run, every branch going either way.                      *)
(*                                                                         *)
(* A variable stands for a counted local variable that is given a          *)
(* reference where it is declared, a temporary for the value of a call in  *)
(* the test of an if or a loop, or for the generator of a range loop.      *)
(***************************************************************************)
EXTENDS Integers, Sequences, FiniteSets, SequencesExt

CONSTANTS
    MaxStmts,    \* bound: statements in the function
    MaxNames,    \* bound: variables, temporaries and deferments
    MaxCases,    \* bound: cases of a switch
    Forms,       \* the compound statements the program uses
    Idioms       \* the delicate statements the program uses

(* The idioms, each of which the compiler accepts:                          *)
(*   "jumpOut"      break or continue leaves a scope with variables of its  *)
(*                  own, or continue one with deferments;                   *)
(*   "declareAfter" a loop body declares or defers after a jump out of it;  *)
(*   "afterInner"   a break after an inner loop, or a fallthrough after an  *)
(*                  inner switch;                                           *)
(*   "loopEnds"     the last statement of a loop body leaves it;            *)
(*   "testCall"     the test of an if or a loop calls a function that       *)
(*                  returns a counted pointer;                              *)
(*   "rangeReturn"  a return inside a range loop, or a fallthrough out of   *)
(*                  one.                                                    *)
AllIdioms ==
    {"jumpOut", "declareAfter", "afterInner", "loopEnds", "testCall", "rangeReturn"}

AllForms == {"if", "else", "switch", "while", "for", "range"}

ASSUME ScopesAssumption ==
    /\ MaxStmts \in Nat /\ MaxNames \in Nat /\ MaxCases \in Nat \ {0}
    /\ Forms \subseteq AllForms /\ Idioms \subseteq AllIdioms

VARIABLES
    phase,      \* "compile", "run", "done"
    stmts,      \* statements compiled so far
    names,      \* variables, temporaries and deferments so far
    pushed,     \* scopes pushed so far: the next one's address
    scopes,     \* cb->varScope, innermost scope last
    jumps,      \* currentLoopEntry, -Exit, -LoopScope, nextCaseBlock, currentCaseScope
    frames,     \* the C calls under way: one record per if, loop and switch
    ended,      \* ac_compile_block has returned 1
    temps,      \* cb->loadedTransients
    code,       \* the basic blocks, as sequences of instructions
    cur,        \* the block the builder is positioned at
    at,         \* running: block and index of the next instruction
    own,        \* running: "junk", "owned" or "released", by name
    armed       \* running: the deferments whose statement was executed

cvars == <<stmts, names, pushed, scopes, jumps, frames, ended, temps, code, cur>>
rvars == <<at, own, armed>>
vars == <<phase, cvars, rvars>>

NoBlock == 0

(* Instructions.  "decl" stores a new reference, "rel" releases it; "arm"   *)
(* marks the place of a defer statement, for which nothing is emitted, and  *)
(* "defer" is the deferred block, which uses the variable v (0: none).      *)
Ins(op, x, v) == [op |-> op, x |-> x, v |-> v, to |-> {}]
Goto(bs) == [op |-> "goto", x |-> 0, v |-> 0, to |-> bs]
Decl(x) == Ins("decl", x, 0)
Rel(x)  == Ins("rel", x, 0)
Ret     == Ins("ret", 0, 0)

Put(c, b, is) == [c EXCEPT ![b] = @ \o is]
Fresh(n) == code \o [i \in 1..n |-> <<>>]
NewBlock(i) == Len(code) + i

Scope(id, vs) == [id |-> id, vs |-> vs, defers |-> <<>>]

Init ==
    /\ phase = "compile" /\ stmts = 0 /\ names = 0 /\ pushed = 1
    /\ scopes = <<Scope(1, {})>>
    /\ jumps = [entry |-> NoBlock, exit |-> NoBlock, loop |-> 0,
                next |-> NoBlock, case |-> 0]
    /\ frames = <<>> /\ ended = FALSE /\ temps = {}
    /\ code = << <<>> >> /\ cur = 1
    /\ at = <<1, 1>>
    /\ own = [x \in 1..MaxNames |-> "junk"]
    /\ armed = {}

-----------------------------------------------------------------------------
(* The scope stack: variable_manager.c.                                     *)

Top(s) == s[Len(s)]
Pop(s) == SubSeq(s, 1, Len(s) - 1)

Rels(vs) == SetToSeq({Rel(x) : x \in vs})

\* vs_run_deferments: the deferments of one scope, last one first.
Deferments(s) == [i \in 1..Len(s.defers) |-> Ins("defer", s.defers[Len(s.defers) - i + 1].x,
                                                 s.defers[Len(s.defers) - i + 1].v)]

\* vs_run_callbacks_through the scope itself.
Callbacks(s) == Rels(s.vs)

\* vs_run_deferments_through and vs_run_callbacks_through, from the innermost
\* scope down to the one at depth d.
DefermentsThrough(d) ==
    FlattenSeq([i \in 1..(Len(scopes) - d + 1) |-> Deferments(scopes[Len(scopes) - i + 1])])
CallbacksThrough(d) ==
    FlattenSeq([i \in 1..(Len(scopes) - d + 1) |-> Callbacks(scopes[Len(scopes) - i + 1])])

\* The depths at which a walk to the scope with address id may stop.  A scope
\* that was popped is freed memory: the walk may stop anywhere.
Stops(id) ==
    LET found == {d \in 1..Len(scopes) : scopes[d].id = id}
    IN  IF found # {} THEN found ELSE 1..(Len(scopes) + 1)

-----------------------------------------------------------------------------
(* Statements: ac_compile_block and ac_dispatch_statement.                  *)

Compiling == phase = "compile" /\ ~ended /\ stmts < MaxStmts

\* ac_flush_transients at the end of a statement, into block b.
Flush(c, b) == Put(c, b, Rels(temps))

Loops == {i \in 1..Len(frames) : frames[i].k = "loop"}
InLoop == CHOOSE i \in Loops : \A j \in Loops : j <= i
AtLoopBody == frames # <<>> /\ Top(frames).k = "loop"

\* A declaration or a defer directly in the body of a loop that was left by an
\* earlier statement.
LateInLoop == AtLoopBody /\ Top(frames).jumped

\* T^ x = new T
Declare ==
    /\ Compiling /\ names < MaxNames
    /\ LateInLoop => "declareAfter" \in Idioms
    /\ scopes' = [scopes EXCEPT ![Len(scopes)].vs = @ \cup {names + 1}]
    /\ code' = Flush(Put(code, cur, <<Decl(names + 1)>>), cur)
    /\ names' = names + 1 /\ stmts' = stmts + 1 /\ temps' = {}
    /\ UNCHANGED <<phase, pushed, jumps, frames, ended, cur, rvars>>

\* defer { ... }, whose block uses a variable in scope, or none.  A second
\* deferment in a scope makes vs_run_deferments_through read past its array.
Defer(v) ==
    /\ Compiling /\ names < MaxNames
    /\ v = 0 \/ \E d \in 1..Len(scopes) : v \in scopes[d].vs
    /\ Top(scopes).defers = <<>>
    /\ LateInLoop => "declareAfter" \in Idioms
    /\ scopes' = [scopes EXCEPT ![Len(scopes)].defers = Append(@, [x |-> names + 1, v |-> v])]
    /\ code' = Flush(Put(code, cur, <<Ins("arm", names + 1, 0)>>), cur)
    /\ names' = names + 1 /\ stmts' = stmts + 1 /\ temps' = {}
    /\ UNCHANGED <<phase, pushed, jumps, frames, ended, cur, rvars>>

\* A test that calls a function leaves the result in loadedTransients.
Test(call) ==
    /\ call => "testCall" \in Idioms /\ names < MaxNames
    /\ temps' = temps \cup (IF call THEN {names + 1} ELSE {})
TestCode(call) == IF call THEN <<Decl(names + 1)>> ELSE <<>>

Frame(k, merge, rest) ==
    [k |-> k, merge |-> merge, rest |-> rest, old |-> jumps, jumped |-> FALSE,
     incr |-> NoBlock, clean |-> NoBlock, test |-> NoBlock, gen |-> 0, body |-> 0]

Push(vs) ==
    /\ scopes' = Append(scopes, Scope(pushed + 1, vs))
    /\ pushed' = pushed + 1

\* Mutant: the merge block is left out when there is no else.
OpenIfNoMerge(hasElse, call) ==
    LET merge == NewBlock(IF hasElse THEN 3 ELSE 2)
        other == IF hasElse THEN NewBlock(2) ELSE merge
    IN  /\ Compiling /\ Test(call)
        /\ code' = Put(Fresh(IF hasElse THEN 3 ELSE 1), cur,
                       TestCode(call) \o <<Goto({NewBlock(1), other})>>)
        /\ cur' = NewBlock(1)
        /\ Push({})
        /\ frames' = Append(frames, Frame("if", merge, IF hasElse THEN <<other>> ELSE <<>>))
        /\ names' = names + (IF call THEN 1 ELSE 0) /\ stmts' = stmts + 1
        /\ UNCHANGED <<phase, jumps, ended, rvars>>

\* if: the test, the branch, and the scope of the first block.
OpenIf(hasElse, call) ==
    LET merge == NewBlock(IF hasElse THEN 3 ELSE 2)
        other == IF hasElse THEN NewBlock(2) ELSE merge
    IN  /\ Compiling /\ Test(call)
        /\ code' = Put(Fresh(IF hasElse THEN 3 ELSE 2), cur,
                       TestCode(call) \o <<Goto({NewBlock(1), other})>>)
        /\ cur' = NewBlock(1)
        /\ Push({})
        /\ frames' = Append(frames, Frame("if", merge, IF hasElse THEN <<other>> ELSE <<>>))
        /\ names' = names + (IF call THEN 1 ELSE 0) /\ stmts' = stmts + 1
        /\ UNCHANGED <<phase, jumps, ended, rvars>>

\* switch with n cases: the test is flushed at once; without a default case
\* control may go straight to the merge block.
OpenSwitch(n, hasDefault) ==
    LET cases == [i \in 1..n |-> NewBlock(i)]
        merge == NewBlock(n + 1)
    IN  /\ Compiling /\ "switch" \in Forms
        /\ code' = Put(Flush(Fresh(n + 1), cur), cur,
                       <<Goto(ToSet(cases) \cup (IF hasDefault THEN {} ELSE {merge}))>>)
        /\ cur' = cases[1]
        /\ Push({})
        /\ jumps' = [jumps EXCEPT !.case = pushed + 1,
                                  !.next = IF n = 1 THEN merge ELSE cases[2]]
        /\ frames' = Append(frames, Frame("case", merge, Tail(cases)))
        /\ temps' = {} /\ stmts' = stmts + 1
        /\ UNCHANGED <<phase, names, ended, rvars>>

\* What deferments ds emit: their statements flush the pending transients.
Emitted(ds) == IF ds = <<>> THEN <<>> ELSE ds \o Rels(temps)
FlushedBy(ds) == temps' = IF ds = <<>> THEN temps ELSE {}

AtBlock(k) == phase = "compile" /\ frames # <<>> /\ Top(frames).k \in k

\* Mutant: the scope's callbacks are not run.
BlockEndLeaks ==
    LET ds == Deferments(Top(scopes))
    IN  IF ended THEN code
        ELSE Put(code, cur, Emitted(ds) \o <<Goto({Top(frames).merge})>>)

\* Mutant: the callbacks of every open scope are run.
BlockEndThroughAll ==
    LET ds == Deferments(Top(scopes))
    IN  IF ended THEN code
        ELSE Put(code, cur, Emitted(ds) \o CallbacksThrough(1)
                              \o <<Goto({Top(frames).merge})>>)

\* The end of an if, else or case block that no statement left: deferments
\* and callbacks of its scope, and the branch to the merge block.
BlockEnd ==
    LET ds == Deferments(Top(scopes))
    IN  IF ended THEN code
        ELSE Put(code, cur, Emitted(ds) \o Callbacks(Top(scopes))
                              \o <<Goto({Top(frames).merge})>>)

\* The end of a block that another block of the same statement follows.
NextBlock ==
    LET f == Top(frames)
    IN  /\ AtBlock({"if", "case"}) /\ f.rest # <<>>
        /\ code' = BlockEnd
        /\ scopes' = Append(Pop(scopes), Scope(pushed + 1, {}))
        /\ pushed' = pushed + 1
        /\ cur' = Head(f.rest)
        /\ frames' = [frames EXCEPT ![Len(frames)].rest = Tail(@)]
        /\ jumps' = IF f.k = "if" THEN jumps
                    ELSE [jumps EXCEPT !.case = pushed + 1,
                                       !.next = Head(Tail(f.rest) \o <<f.merge>>)]
        /\ ended' = FALSE
        /\ IF ended THEN UNCHANGED temps ELSE FlushedBy(Deferments(Top(scopes)))
        /\ UNCHANGED <<phase, stmts, names, rvars>>

\* The end of the last block: the statement is flushed in the merge block and
\* nextCaseBlock is restored.
EndStatement ==
    LET f == Top(frames)
        flushed == ~ended /\ Top(scopes).defers # <<>>
    IN  /\ AtBlock({"if", "case"}) /\ f.rest = <<>>
        /\ code' = IF flushed THEN BlockEnd ELSE Flush(BlockEnd, f.merge)
        /\ scopes' = Pop(scopes)
        /\ cur' = f.merge
        /\ frames' = Pop(frames)
        /\ jumps' = IF f.k = "if" THEN jumps ELSE [jumps EXCEPT !.next = f.old.next]
        /\ ended' = FALSE /\ temps' = {}
        /\ UNCHANGED <<phase, stmts, names, pushed, rvars>>

\* for: k is "while", "for" (a counted variable in the setup) or "range" (a
\* generator that a call returned).  Two scopes: the setup's and the body's.
OpenLoop(k, call) ==
    LET x == names + 1
        test == NewBlock(1)   loop == NewBlock(2)   merge == NewBlock(5)
    IN  /\ Compiling /\ Test(call)
        /\ call => k = "while"
        /\ k # "while" => names < MaxNames
        /\ code' = Put(Put(Fresh(5), cur, (IF k = "while" THEN <<>> ELSE <<Decl(x)>>)
                                            \o <<Goto({test})>>),
                       test, TestCode(call) \o <<Goto({loop, merge})>>)
        /\ cur' = loop
        /\ scopes' = scopes \o <<Scope(pushed + 1, IF k = "for" THEN {x} ELSE {}),
                                 Scope(pushed + 2, {})>>
        /\ pushed' = pushed + 2
        /\ jumps' = [jumps EXCEPT !.entry = NewBlock(3), !.exit = NewBlock(4),
                                  !.loop = pushed + 1]
        /\ frames' = Append(frames,
              [Frame("loop", merge, <<>>) EXCEPT
                 !.incr = NewBlock(3), !.clean = NewBlock(4), !.test = test,
                 !.gen = IF k = "range" THEN x ELSE 0, !.body = Len(scopes) + 2])
        /\ names' = IF k # "while" \/ call THEN x ELSE names
        /\ stmts' = stmts + 1
        /\ UNCHANGED <<phase, ended, rvars>>

\* Mutant: the clean block does not branch to the merge block.
LoopCodeOpenClean(f, s1, s2) ==
    LET ds == Deferments(s2)
        c1 == Put(code, cur, <<Goto({f.incr})>>)
        c2 == Put(c1, f.incr, Emitted(ds) \o Callbacks(s2) \o <<Goto({f.test})>>)
        c3 == Put(c2, f.clean, Callbacks(s2))
    IN  Put(c3, f.merge, Callbacks(s1))

\* The blocks at the end of a loop with setup scope s1 and body scope s2.
LoopCode(f, s1, s2) ==
    LET ds == Deferments(s2)
        c1 == Put(code, cur, <<Goto({f.incr})>>)
        c2 == Put(c1, f.incr, Emitted(ds) \o Callbacks(s2) \o <<Goto({f.test})>>)
        c3 == Put(c2, f.clean, Callbacks(s2) \o <<Goto({f.merge})>>)
    IN  Put(c3, f.merge, Callbacks(s1))

\* Mutant: one of the two scopes stays.
EndLoopPopsOne ==
    LET f == Top(frames)
        left == IF ended THEN <<>> ELSE Deferments(Top(scopes))
        c == IF ended THEN Put(code, f.merge, Callbacks(Top(scopes)))
             ELSE LoopCode(f, Top(Pop(scopes)), Top(scopes))
        d == IF f.gen = 0 THEN c ELSE Put(c, f.merge, <<Rel(f.gen)>>)
    IN  /\ AtBlock({"loop"})
        /\ code' = IF left = <<>> THEN Flush(d, f.merge) ELSE d
        /\ scopes' = Pop(scopes)
        /\ cur' = f.merge
        /\ jumps' = [jumps EXCEPT !.entry = f.old.entry, !.exit = f.old.exit]
        /\ frames' = Pop(frames) /\ ended' = FALSE /\ temps' = {}
        /\ UNCHANGED <<phase, stmts, names, pushed, rvars>>

\* The end of ac_compile_loop.  When a statement left the body, neither the
\* blocks incr and clean are completed nor the body's scope is popped.
EndLoop ==
    LET f == Top(frames)
        left == IF ended THEN <<>> ELSE Deferments(Top(scopes))
        c == IF ended THEN Put(code, f.merge, Callbacks(Top(scopes)))
             ELSE LoopCode(f, Top(Pop(scopes)), Top(scopes))
        d == IF f.gen = 0 THEN c ELSE Put(c, f.merge, <<Rel(f.gen)>>)
    IN  /\ AtBlock({"loop"})
        /\ code' = IF left = <<>> THEN Flush(d, f.merge) ELSE d
        /\ scopes' = IF ended THEN Pop(scopes) ELSE Pop(Pop(scopes))
        /\ cur' = f.merge
        /\ jumps' = [jumps EXCEPT !.entry = f.old.entry, !.exit = f.old.exit]
        /\ frames' = Pop(frames) /\ ended' = FALSE /\ temps' = {}
        /\ UNCHANGED <<phase, stmts, names, pushed, rvars>>

\* A statement that ends its block.
Jump(ds, rest) ==
    /\ Compiling
    /\ AtLoopBody => "loopEnds" \in Idioms
    /\ code' = Put(code, cur, Emitted(ds) \o rest)
    /\ FlushedBy(ds)
    /\ ended' = TRUE /\ stmts' = stmts + 1
    /\ UNCHANGED <<phase, names, pushed, scopes, jumps, cur, rvars>>

Inside == (frames[InLoop].body + 1)..Len(scopes)

\* The jump is recorded in the loop it leaves.
LeavesLoop ==
    /\ Loops # {}
    /\ "jumpOut" \in Idioms \/ \A d \in Inside : scopes[d].vs = {}
    /\ frames' = [frames EXCEPT ![InLoop].jumped = TRUE]

\* Mutant: only the deferments of the innermost scope are run.
BreakInnermost ==
    /\ LeavesLoop
    /\ "afterInner" \in Idioms \/ jumps.loop = scopes[frames[InLoop].body - 1].id
    /\ \E d \in Stops(jumps.loop) :
          Jump(DefermentsThrough(Len(scopes)), <<Goto({jumps.exit})>>)

\* break: the deferments down to currentLoopScope, no callbacks.
Break ==
    /\ LeavesLoop
    /\ "afterInner" \in Idioms \/ jumps.loop = scopes[frames[InLoop].body - 1].id
    /\ \E d \in Stops(jumps.loop) : Jump(DefermentsThrough(d), <<Goto({jumps.exit})>>)

\* continue: neither deferments nor callbacks.
Continue ==
    /\ LeavesLoop
    /\ "jumpOut" \in Idioms \/ \A d \in Inside : scopes[d].defers = <<>>
    /\ Jump(<<>>, <<Goto({jumps.entry})>>)

\* A return or fallthrough leaves the statements that frame i and the ones
\* inside it stand for: no range loop is among them.
LeavesNoRange(i) ==
    "rangeReturn" \in Idioms \/ \A j \in i..Len(frames) : frames[j].gen = 0

Cases == {i \in 1..Len(frames) : frames[i].k = "case"}
InCase == CHOOSE i \in Cases : \A j \in Cases : j <= i

\* fallthrough: deferments and callbacks down to currentCaseScope.
Fallthrough ==
    /\ jumps.next # NoBlock /\ LeavesNoRange(InCase)
    /\ "afterInner" \in Idioms \/ \E d \in 1..Len(scopes) : scopes[d].id = jumps.case
    /\ \E d \in Stops(jumps.case) :
          Jump(DefermentsThrough(d), CallbacksThrough(d) \o <<Goto({jumps.next})>>)
    /\ UNCHANGED frames

\* Mutant: the callbacks are run before the deferments.
ReturnCallbacksFirst ==
    /\ LeavesNoRange(1)
    /\ Jump(<<>>, CallbacksThrough(1) \o DefermentsThrough(1) \o <<Ret>>)
    /\ UNCHANGED frames

\* return: deferments, then callbacks, down to the function's scope.
Return ==
    /\ LeavesNoRange(1)
    /\ Jump(DefermentsThrough(1), CallbacksThrough(1) \o <<Ret>>)
    /\ UNCHANGED frames

\* The end of ac_compile_function_ex, for a function that returns nothing.
\* What follows a return in the same block is never reached.
EndFunction ==
    /\ phase = "compile" /\ frames = <<>>
    /\ code' = Put(code, cur, Emitted(Deferments(Top(scopes)))
                                \o Callbacks(Top(scopes)) \o <<Ret>>)
    /\ phase' = "run"
    /\ UNCHANGED <<stmts, names, pushed, scopes, jumps, frames, ended, temps, cur, rvars>>

-----------------------------------------------------------------------------
(* The emitted code runs.                                                   *)

Running == phase = "run" /\ at[2] <= Len(code[at[1]])
Next1 == code[at[1]][at[2]]
Doing(op) == Running /\ Next1.op = op
Forward == at' = <<at[1], at[2] + 1>>

RunDecl ==
    /\ Doing("decl") /\ Forward
    /\ own' = [own EXCEPT ![Next1.x] = "owned"]
    /\ UNCHANGED <<phase, cvars, armed>>

RunRel ==
    /\ Doing("rel") /\ Forward
    /\ own' = [own EXCEPT ![Next1.x] = "released"]
    /\ UNCHANGED <<phase, cvars, armed>>

RunArm ==
    /\ Doing("arm") /\ Forward
    /\ armed' = armed \cup {Next1.x}
    /\ UNCHANGED <<phase, cvars, own>>

RunDefer ==
    /\ Doing("defer") /\ Forward
    /\ armed' = armed \ {Next1.x}
    /\ UNCHANGED <<phase, cvars, own>>

RunGoto ==
    /\ Doing("goto")
    /\ \E b \in Next1.to : at' = <<b, 1>>
    /\ UNCHANGED <<phase, cvars, own, armed>>

RunRet ==
    /\ Doing("ret")
    /\ phase' = "done"
    /\ UNCHANGED <<cvars, rvars>>

Done == phase = "done" /\ UNCHANGED vars

-----------------------------------------------------------------------------
Statement ==
    \/ Declare
    \/ \E v \in 0..MaxNames : Defer(v)
    \/ \E k \in Forms \cap {"if", "else"}, call \in BOOLEAN : OpenIf(k = "else", call)
    \/ \E n \in 1..MaxCases, hasDefault \in BOOLEAN : OpenSwitch(n, hasDefault)
    \/ \E k \in Forms \cap {"while", "for", "range"}, call \in BOOLEAN : OpenLoop(k, call)
    \/ NextBlock \/ EndStatement \/ EndLoop
    \/ Break \/ Continue \/ Fallthrough \/ Return
    \/ EndFunction

Execute == RunDecl \/ RunRel \/ RunArm \/ RunDefer \/ RunGoto \/ RunRet

Next == Statement \/ Execute \/ Done

Spec == Init /\ [][Next]_vars

-----------------------------------------------------------------------------
(* Properties.                                                              *)

TypeOK ==
    /\ phase \in {"compile", "run", "done"}
    /\ stmts \in 0..MaxStmts /\ names \in 0..MaxNames /\ pushed \in Nat
    /\ \A d \in 1..Len(scopes) : scopes[d].vs \subseteq 1..names
    /\ ended \in BOOLEAN /\ temps \subseteq 1..names
    /\ cur \in 1..Len(code)
    /\ \A b \in 1..Len(code) : \A i \in 1..Len(code[b]) : code[b][i].to \subseteq 1..Len(code)
    /\ own \in [1..MaxNames -> {"junk", "owned", "released"}]
    /\ armed \subseteq 1..MaxNames

\* Every construct leaves the scope stack as it found it: names in later
\* statements are looked up in the scope they were written in.
ScopesBalanced ==
    phase = "compile" => Len(scopes) = 1 + Len(frames) + Cardinality(Loops)

\* On no path is a variable released that holds nothing, because it was not
\* declared yet or was released before.
ReleasesOwned == Doing("rel") => own[Next1.x] = "owned"

\* On no path is a reference lost: none is left at a return, and none is
\* overwritten when a loop declares its variable again.
NothingLost ==
    /\ Doing("decl") => own[Next1.x] # "owned"
    /\ Doing("ret") => \A x \in 1..MaxNames : own[x] # "owned"

\* Once control has passed a defer statement its block runs exactly once
\* before control comes back to the statement or leaves the function.
DefersOnce ==
    /\ Doing("defer") => Next1.x \in armed
    /\ Doing("arm") => Next1.x \notin armed
    /\ Doing("ret") => armed = {}

\* A deferred block runs while the variable it uses still holds its reference.
DefersLive == (Doing("defer") /\ Next1.v # 0) => own[Next1.v] = "owned"

\* Control never runs off the end of a block.
Terminated == phase = "run" => Running
=============================================================================
