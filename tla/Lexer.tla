-------------------------------- MODULE Lexer --------------------------------
(***************************************************************************)
(* From text to the parser's tokens: eagle.l and grammar/pipeline.c, as    *)
(* folds over a text.                                                      *)
(*                                                                         *)
(* A text is a sequence of lexemes <<kind, spelling>>, what flex matches:  *)
(* "nl" is the end of a line, "import" a whole import line.  A brace may   *)
(* have swallowed the end of a line, which the kinds "{", "\n{" and "{\n"  *)
(* tell apart.  A token is [tok, lx]: its class and the lexeme it was made *)
(* from, which is what yytext holds.                                       *)
(***************************************************************************)
EXTENDS Integers, Sequences, SequencesExt

\* A left fold, as one recursive function over the positions: TLC evaluates it
\* in one sweep, where the folds of the libraries search a set at every step.
Sweep(step(_, _), base, s) ==
    LET r[n \in 0..Len(s)] == IF n = 0 THEN base ELSE step(r[n - 1], s[n])
    IN  r[Len(s)]

LBrace == {"{", "\\n{", "{\\n"}

\* The rules that say SAVE_NL: a line may end a statement behind them.
SavesNewline == {"id", "type", "cstr", "*", ")", "}", "return"}

\* The rules that leave save_newline alone.
KeepsNewline == LBrace \cup {"import", "reset"}

\* save_newline, override and in_interface are static: they survive the end of
\* a file and the end of a pass.
Flags0 == [nl |-> FALSE, override |-> FALSE, interface |-> FALSE]

\* The flags behind a lexeme of kind k that is not the end of a line.
FlagsAfter(fl, k) ==
    [nl        |-> IF k \in KeepsNewline THEN fl.nl ELSE k \in SavesNewline,
     override  |-> /\ k \notin LBrace
                   /\ fl.override \/ k = "extern" \/ (k = "func" /\ fl.interface),
     interface |-> k # "}" /\ (fl.interface \/ k = "interface")]

Tok(k) == IF k \in LBrace THEN "{" ELSE IF k = "nl" THEN ";" ELSE k

\* One match of yylex.
LexStep(acc, lx) ==
    [out   |-> IF lx[1] = "reset" \/ (lx[1] = "nl" /\ ~(acc.flags.nl \/ acc.flags.override))
               THEN acc.out
               ELSE Append(acc.out, [tok |-> Tok(lx[1]), lx |-> lx]),
     flags |-> IF lx[1] = "nl" THEN [acc.flags EXCEPT !.nl = FALSE, !.override = FALSE]
               ELSE FlagsAfter(acc.flags, lx[1])]

EndOfFile == [tok |-> ";", lx |-> <<"nl", "">>]

\* The tokens of a text up to the end of the file, where a semicolon comes
\* first, and the flags that are left.
Lex(text, flags) ==
    LET r == Sweep(LexStep, [out |-> <<>>, flags |-> flags], text)
    IN  [out |-> Append(r.out, EndOfFile), flags |-> r.flags]

Spelling(t) == t.lx[2]
Texts(toks) == [i \in 1..Len(toks) |-> toks[i].lx]

-----------------------------------------------------------------------------
(* pipeline.c: the parser's tokens.  A function with type parameters gets   *)
(* the token "generic" in front of its block, and its type parameters are   *)
(* type names until it ends.                                                *)

Pipe0 == [prev |-> <<"", "", "">>, need |-> 0, types |-> {}, context |-> FALSE,
          reading |-> "no", depth |-> 0]

\* {nvar} in eagle.l: a name that is known is a type.
Classify(t, p, names) ==
    IF t.tok = "id" /\ (Spelling(t) \in names \/ (p.context /\ Spelling(t) \in p.types))
    THEN "type" ELSE t.tok

\* pipe_read_typenames, one token of it; the token behind ">" is returned as
\* it is.
ReadTypenames(acc, t, names) ==
    LET p == acc.pipe
    IN  IF p.reading = "names"
        THEN [acc EXCEPT !.pipe.reading = IF t.tok = ">" THEN "last" ELSE @,
                         !.pipe.types = @ \cup
                            (IF Classify(t, p, names) = "id" THEN {Spelling(t)} ELSE {}),
                         !.pipe.context = t.tok = ">" \/ @]
        ELSE [acc EXCEPT !.pipe.reading = "no", !.pipe.need = 1, !.out = Append(@, t)]

\* pipe_reset_context, which the parser calls when it has read a function's
\* block: at the semicolon behind the outermost brace.
ResetContext(p, tok) ==
    LET d == p.depth + (IF tok = "{" THEN 1 ELSE IF tok = "}" THEN -1 ELSE 0)
    IN  [p EXCEPT !.depth = d, !.context = @ /\ ~(d = 0 /\ tok = ";" /\ p.prev[3] = "}")]

\* pipe_lex, one token.  When the brace of a generic function has become
\* "generic", the next call reads a token, drops it and returns the brace.
PipeLex(acc, t, names) ==
    LET tok == Classify(t, acc.pipe, names)
        prev == Append(Tail(acc.pipe.prev), tok)
        p == [ResetContext(acc.pipe, tok) EXCEPT !.prev = prev]
        Out(k) == Append(acc.out, [t EXCEPT !.tok = k])
    IN  IF acc.pipe.reading # "no" THEN ReadTypenames(acc, t, names)
        ELSE IF prev = <<"func", "id", "<">>
        THEN [out |-> acc.out, pipe |-> [p EXCEPT !.reading = "names", !.types = {}]]
        ELSE IF tok = "{" /\ p.need = 1
        THEN [out |-> Out("generic"), pipe |-> [p EXCEPT !.need = -1]]
        ELSE IF p.need = -1
        THEN [out |-> Out("{"), pipe |-> [p EXCEPT !.need = 0]]
        ELSE [out |-> Out(tok), pipe |-> p]

\* All that pipe_lex returns for the tokens of a buffer.
Piped(toks, pipe, names) ==
    Sweep(LAMBDA acc, t : PipeLex(acc, t, names), [out |-> <<>>, pipe |-> pipe], toks)
=============================================================================
