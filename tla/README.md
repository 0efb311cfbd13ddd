# Eagle in TLA+

TLA+ modules, TLC configurations and TLAPS proofs for the Eagle compiler (C over
LLVM) and for the reference-counting runtime that every Eagle program is linked
with. Paths are relative to the repository root; compiler sources are under
`src/` (`core`, `compiler`, `environment`, `grammar`), the runtime is `rc.egl`.
`PROJECT.json` maps every definition to the lines it models.

## 1. The system

The compiler is a batch program. The **main thread** reads the arguments, compiles
every input to an LLVM module and puts it on a work list; **worker threads** turn
modules into object files; the main thread links. The program that comes out is
sequential, and its memory is managed by calls into `rc.egl` that the code
generator inserts.

| Component | State | Operations | Talks to |
|---|---|---|---|
| driver (`main.c`) | `ShippingCrate`: inputs, work list, object files | compile a file, a string, the runtime; the build phases | everything below |
| arguments (`arguments.c`, `termargs.c`) | `global_args`, rule list | one rule per switch | fills the crate |
| imports, exports (`imports.c`, `exports.c`) | files already read, symbols | work list of files; rules with wildcards | multibuffer, regex, types |
| multibuffer (`multibuffer.c`) | list of files and strings, position | add, read, rewind | lexer |
| lexer pipeline (`pipeline.c`, `eagle.l`) | start token, last token | two passes, inserted semicolons | parser, type registry |
| parser, tree (`eagle.y`, `ast.c`, `ast_walk.c`) | `ast_root` | node constructors | code generator |
| type registry (`types.c`) | types, structs, classes, methods, enums | equality, conversion, lookup | code generator |
| code generator: expressions, functions, closures (`ac_expressions.c`, `ac_functions.c`, ...) | builder, `transients`, `loadedTransients` | one `ac_compile_*` per node | variable manager, `ac_rc.c` |
| code generator: control flow (`ac_control_flow.c`, `variable_manager.c`) | stack of scopes; current loop, case, function | push, pop, callbacks, deferments; if, switch, loop, break, ... | emits basic blocks |
| code generator: reference counts (`ac_rc.c`, `ac_class.c`, `ac_struct.c`) | none | emits runtime calls and destructors | runtime |
| code generator: generators, generics (`ac_generator.c`, `ac_generics.c`) | yield blocks; instances | resume functions; instantiation | control flow |
| back end (`threading.c`, `shipping.c`, `mempool.c`) | work index, name counter, unlink pool, output table, three mutexes | claim, optimise, assemble, store, join, link, clean up | system compiler, file system |
| runtime (`rc.egl`) | per object: count, teardown, table of weak positions | incr, decr, check, add and remove weak | generated code |
| containers (`hashtable.c`, `arraylist.c`, `regex.c`) | buckets, items, automaton | insert, remove, iterate, sort, match | all of the above |

What makes each one correct, and what is hard about it:

* **runtime and reference counts** - a count equals the number of references; no
  pointer dangles; each object is finalised once; weak pointers are cleared. Hard:
  a decrement runs destructors, which run decrements, while a statement of the
  program is suspended half way through a store.
* **control flow and scopes** - on every path out of a block what the block owns is
  released once and its deferments run once. Hard: each way out emits its own code,
  from compile-time state that other statements change.
* **back end** - every module is compiled once, and the result does not depend on
  the schedule. Hard: threads, shared temporary names, children that fail, a
  name that is freed while the unlink pool still holds it.
* **imports** - every file is read once, whatever the cycles.
* **multibuffer, lexer** - the characters of the inputs come out once and in order,
  across refills and rewinds.
* **containers** - a hash table is a map, an array list a sequence, sorting sorts,
  the automaton accepts what the pattern means.
* **generators** - a generator resumes where it stopped and, destroyed early,
  releases exactly what is live there.
* **type registry, generics** - equality is an equivalence, conversions lose nothing,
  each instance is compiled once.

There are no timeouts, retries or persisted state in the code.

## 2. Modules

| Module | Models | Checked by |
|---|---|---|
| `RefCount` | the runtime and the calls emitted around each statement | `RefCount`, `RefCountChain`, `RefCountDestruct`, `RefCountWeakBase` |
| `RefCountProofs` | theorems about `RefCount` | TLAPS |
| `Scopes` | scopes and control flow: the emitted code, then its execution | `Scopes`, `ScopesTest` |
| `ScopesCode`, `ScopesProofs` | lemmas about emitted blocks and the scope stack; theorems about `Scopes` | TLAPS |
| `Generator` | the body of a generator, its context, and a caller that drops it at any time | `Parts` |
| `GeneratorProofs` | theorem about `Generator` | TLAPS |
| `Closures` | look-ups across barriers, boxed variables, closures and their contexts | `Parts` |
| `Shipping` | driver and parallel back end | `Shipping`, `ShippingOutputs` |
| `Build` | what the back end promises, without threads and files | refined by `Shipping` |
| `ShippingProofs` | theorems about `Shipping`, the refinement among them | TLAPS |
| `Lexer` | tokens, inserted semicolons, the look-back for generic functions | `FrontEnd` |
| `FrontEnd` | arguments, imports, exports, the two passes and the declarations | `FrontEnd` |
| `FrontEndProofs` | theorems about `FrontEnd` | TLAPS |
| `Generics`, `GenericTypes` | instances of generic functions and their work list, over the types involved | `Parts`, `GenericsNested` |
| `TypeTrees` | what is computed of whole types, by recursion: the operators `Generics` is parameterised by | the same runs |
| `AstWalk` | the tree of a body and the check of exported generic functions | `Parts` |
| `Interfaces` | method numbers, class tables, calls through interfaces | `Parts`, `InterfacesMixed` |
| `TypesProofs` | theorems about `Generics` and `Interfaces` | TLAPS |
| `Hashtable` over `Dictionary` | chained buckets implement two maps | `Parts` |
| `Arraylist` over `List` | a growing array implements a sequence | `Parts` |
| `Multibuffer` over `Stream` | files and strings implement one text | `Parts` |
| `ContainersProofs` | the three refinements | TLAPS |
| `Regex` over `Language` | parser and automaton accept the language of the expression | `Parts` |

`MC*.tla` give constants their values and symmetry sets: `MCRefCount`, `MCFrontEnd`,
`MCGenerics` and `MCInterfaces` one module each, `MCPrograms` and `MCZoo` the programs
that the last two and `MCParts` consider. `MCParts` puts several modules side by side; a
behaviour runs one of them, its *part*, and leaves the others alone. It extends the
containers, `Generator`, `Generics` and `Interfaces`, whose properties are the ones the
theorems name (so their specifications carry prefixes, `Hst`, `Arr`, `Mb`, `Generics` and
`Ifc`), and takes instances of the rest.
Definitions whose comment starts with *Mutant* are used by no specification: each is a
plausible bug, and `PROJECT.json` names the property that catches it when it replaces
the original.

How they fit together: `FrontEnd` is the first half of `main.c` and ends with one parsed
module per input, which `Shipping` starts from. `Generics`,
`AstWalk` and `Interfaces` say what one module's declarations turn into; `Scopes`,
`Closures` and `Generator` are the three forms a body is compiled to, and the calls
they emit are the statements of `RefCount`. The containers are used by all.

### RefCount

An **address** is free, live or dying (its teardown runs) and has a count, a kind of
teardown and a bag of registered weak positions. A **position** is a declared local
variable or a member of an object, counted (`slot`) or weak (`wslot`). A statement
produces at most one value (`tmp`): a *transient* (`new`, count 0), a *loaded
transient* (returned by a call, one unit), or `self` inside `init` (two units). The
runtime functions are operators with the conditions of `rc.egl`; `BeginStore` is
`ac_safe_store` up to the decrement of the old value and `FinishStore` is the store,
because the destructors in between may run anything. `stk` is the stack of suspended
teardowns and `ph` says how far each got.

`credit[p]` is a history variable: the object in whose count the position `p` is
included. It differs from `slot[p]` only while a store is suspended.

What is left out: the body of methods (a method is a sequence of statements, which are
actions here, except that a `destruct` body changes no count), the layout of the weak
table, arrays and structs by value, closures. Statements range over positions that a
variable or `self` reaches in one step; longer paths are sequences of statements.

### Scopes

The specification has two phases. The compiler goes over a function whose statements
are chosen by TLC; its state is that of the `CompilerBundle` (scope stack, current
loop, case and blocks, loaded transients) plus one frame per C call under way, and it
appends instructions to basic blocks. Then the blocks run, every branch going either
way, so an invariant over the run phase quantifies over all programs and all paths.
A variable holds `junk` before its declaration, then a reference, then is released.
A statement after a terminator of the same block (a function that ends in `return`
has them) is never reached. An `elif` is the `if` of an else block.

### Shipping and Build

The main thread and each worker have a program counter, one step per shared access.
A critical section is two steps, a read and a write, with the mutex held in between;
so a missing mutex is a lost update and not an atomic step that hides it. Names are in
heap blocks, since the unlink pool holds pointers: `-c` frees a temporary name that is
still in the pool, and `malloc` may hand the block out again. A failed compiler run
changes nothing, because the exit status is not looked at; a failed `fork` and an
error in a source end the process. `Build` is the promise: modules are compiled in any
order, the linker gets the given objects and then one object per module, in order.
`LLVMIsMultithreaded` decides between 4 and 1 threads by default: 1 is among the values
of `ThreadCts`.

### Lexer and FrontEnd

A text is a sequence of lexemes, and `Lexer` is a chain of folds over it: `eagle.l`
saves a token to insert a semicolon or a brace before it, `pipeline.c` looks back for a
generic function. What outlives a text (the saved token, the flags, the last token) is
the record `pipe` of `FrontEnd`, because these are static variables and the next input
meets them. `FrontEnd` has the phases of one input: `RunArg` is one turn of `ta_run` with
the callback it calls, `ReadImports` one file of the work list of `imports.c`, `ScanFile`
the lines of one file cut down to what another module needs (in any order: the table of
imported files is iterated by hash), `FirstPass` and `Parse` the two readings. The parser
is a recogniser of declarations; a body is one lexeme. An import that does not exist, an
unknown token or a missing value of a switch ends the process, as the code's exits do.

### Generics, GenericTypes, TypeTrees and AstWalk

`Generics` keeps the templates, the LLVM functions by name and the work list.
`GenericGet` is `ac_generic_get`: the match of the arguments against the template, the
name, the look-up, the declaration and the new work. `CompileWork` overwrites the shared
type objects and starts a body; its calls are `GenericGet` again. A mention of a type
parameter is `Ref(id)`, resolved in `object` only when somebody reads it, which is what
makes stale reads visible. What the code computes of a whole type by recursion (equality,
names, the match of a type against a template) is in `TypeTrees`; `Generics` has these
operators as parameters and the configurations give them, so that a theorem about it is
one for whatever is computed of types. A name is the words it is made of, and leaves out what
`ett_unique_type_name` leaves out: the size of an array, the flags of a function, and what
makes a pointer weak. Each parameter is named by the type given for it, and a body is
compiled for the type found last for an identifier. `AstWalk` builds a body node by node from the value stack of
the parser and then walks it with `aw_dispatch`, one action per node, asking for each
identifier what `ac_check_generics` asks.

### Interfaces

`Define` is a module that parses the interfaces: each method's node gets any address
`malloc` may choose (a multiple of 16), and the methods are numbered in the order of the buckets their
addresses fall into. With 8 buckets and aligned addresses they share one, so that the
order is that of the source in every module: `DispatchRight` rests on it, as its mutant,
a larger table, shows. `MakeClass`
lays out the table, `New` makes an object, `Pass` converts it from one type to another
with the test of `ett_are_same` and `ac_build_conversion`, `CallMethod` is
`ac_compile_struct_member` with `__egl_lookup_method`, in either module.

### Closures

`vs_get` is a stack of calls: `Behind` reaches a barrier and looks again below it,
`Close` is the callback that boxes the variable, adds a slot to the context of the
closure behind the barrier and puts the name into the current scope, `Found` emits the
use. That a variable is boxed is looked up when code runs, as `ac_replace_with_counted`
rewrites what was emitted; a release that was emitted earlier stays what it was. The heap
has objects, boxes (count, one pointer) and closures (count, the boxes of the context),
all released by the same recursive decrement.

### Generator

The body is compiled to instructions with resume points; its variables are fields of the
context and `Live` says which of them are in scope at each yield. `Drop` releases the
fields without knowing where the body stands, so the properties rest on what every
instruction leaves in the fields. One generator is in use at a time, with a counted
parameter, counted variables and a counted value yielded.

### Containers and regular expressions

Each has an abstract module and a refinement mapping: two tables of `Hashtable` map to
two functions of `Dictionary` (a node keeps a pointer to its key, and the caller's text may
be overwritten: `text` is that memory), the first `count` cells of `Arraylist` to `List`,
with `arr_for_each` interleaved with callbacks that append, the nodes and positions of
`Multibuffer` to the text and the read prefix of `Stream`. `Regex` parses a spelling of
the expression, builds the automaton with its loose ends and runs it with the marks kept
from call to call; `Language` says what an expression means. A backslash names a class
(`\d`, `\s`, `\w` and their complements) or takes a character as it is; inside brackets
it does the latter, except in the first place and at the end of a range, where it stands for
itself. Both properties say exactly what is answered:

* `MatchExact`: `rgx_matches` says whether the whole input is in the language, but the
  empty input never matches, and leaves marks of a generation that is still in use, so that a
  call after nothing but empty inputs does not enter the start and matches nothing;
* `SearchExact`: `rgx_search` returns the first index at which an occurrence begins, but the
  list of one index is kept at the next one, so that the states alive at the end of the input
  go on with what is read again: `a(b.)` is found in `ab`, at index 1.

## 3. Delicate idioms

Some programs break what one would expect of the compiler. Most such idioms are
members of the constant `Idioms` and enable the statements that use them, so that the
passing runs say what holds without them, and the runs that expect a violation show
one idiom at a time. Where the exception can be stated, the idiom is part of the passing run
and the property says exactly what happens instead.

| Idiom | What happens | Shown by |
|---|---|---|
| `destruct` with `discard` | a new object whose class has a `destruct` method is dropped: `__egl_check_ptr` leaves its count at 0, `destruct` counts and releases `self`, and the object is finalised again | `RefCountDestruct` |
| `weakBase` | a member is assigned through a weak variable: releasing the old value may free the object that is written | `RefCountWeakBase` |
| `testCall` | the value of a call in a test is released on the taken branch only | `ScopesTest` |
| `-c` | the freed temporary name is reused for the output's name, which is unlinked at the end | `ShippingOutputs` |
| nested generic call | a generic function passes a value of its own type parameter on: the nested instance keeps the shared type object and is compiled for what that holds last | `GenericsNested` |
| brace of a generic function at the end of the line of its head | `lbrace` takes the end of the line with it, and `pipe_lex`, which expects it as a token, drops the first token of the body | `FrontEnd`: `Faithful` says so of these functions |
| two export rules for classes, interfaces or enumerations in one compiled text | the first pass registers the parenthesis behind the word as a type, and dies at the second one | `FrontEnd`: `Accepted` says so of these texts |
| types with one unique name | a weak and a plain pointer, two arrays of different sizes, or functions with and without a closure share an instance, compiled for one of them | `Parts`, whose programs have such types: `CallsFit` says that nothing else is shared |
| a counted and a weak pointer for one identifier | they are the same type to `ett_are_same`; the signature has both, and the body is compiled for the later one, against `InstanceRight` | in the model, not in a run: the programs of `Parts` give no such pair |
| `Mixed` | a value of one interface type is passed where another one is expected: all interface types are the same, and the call finds no method | `InterfacesMixed` |
| `jumpOut`, `declareAfter`, `afterInner`, `loopEnds`, `rangeReturn` | jumps out of loops leave references and deferments behind, or run them twice; a stale scope pointer is followed; a block stays open | in the model, not in a run: the repository's README (line 74) lists counted variables in loops as buggy |
| `leftBlock`, `pastEnd` of `Generator` | a variable of an inner block is released at its end and keeps its field, which is released again with the context; the receiver of a counted generator is released before the call and keeps its pointer when the body ends without a value | in the model, not in a run: the repository's README (line 74) lists reference counting in generators as not working |
| `early`, `inner` of `Closures` | a return compiled before the variable was boxed releases what the box holds and not the box; so does the end of an inner block with a captured variable, whose box is allocated once for the function | in the model, not in a run |
| `outermost` of `Closures` | a closure inside a closure is the first to mention a name of the outermost function: the callback puts the name where the repeated look-up does not see it, and the look-up does not end (`variable_manager.c`, 104-106) | in the model, not in a run: it would be a liveness property of the compiler alone |

Three more things were met:
`aw_dispatch` has no case for the arguments of `new`, so a private function mentioned there
escapes the check of exported functions (`MCParts` leaves the form out, and with it the
declarations of local variables, which the walk has but nothing hangs from); `ac_handle_function`
leaves a parameter of a function template unset when it is not generic (the programs
have none); and the heap sort of `arraylist.c` passes the last parent by when it builds its
heap, but nothing calls it.

## 4. Runs

| Run | Instance | Shows |
|---|---|---|
| `RefCount` | 2 addresses, 2 counted and 1 weak variable, 1 counted and 1 weak member | `CountExact`, `StrongSafe`, `WeakSafe`, `RegistrySafe`, `NoOrphan`, `StoreTargetLive` |
| `RefCountChain` | 3 addresses, 1 variable, 1 member, `destruct` methods | `FinalizedOnce`, `TeardownEnds` (liveness) |
| `RefCountDestruct`, `RefCountWeakBase` | as `RefCount`, with the idioms | violations of `FinalizedOnce`, `NoOrphan` |
| `Scopes` | functions of 4 statements, 3 names, 2 cases (2.95 million states) | `ScopesBalanced`, `ReleasesOwned`, `NothingLost`, `DefersOnce`, `DefersLive`, `Terminated` |
| `ScopesTest` | the functions of `Scopes`, with `testCall` | violation of `NothingLost` |
| `Shipping` | 2 inputs and the runtime, 1 given object, 1 or 2 threads, failures, all modes (261 thousand states) | `ClaimedOnce`, `OwnAssembly`, `TempsRemoved`, `Implements` (refinement of `Build`), `Ends` (liveness) |
| `ShippingOutputs` | 2 inputs, `-c`, the default number of threads | violation of `OnlyTempsUnlinked` |
| `FrontEnd` | 10 command lines, 4 files in 2 directories that import each other, every kind of export (83 thousand states) | `ReadOnce`, `Faithful`, `Accepted`, `CommandLine` |
| `Parts` | see below (1.08 million states) | `Implements` (`Dictionary`), `IsList`, `IsStream`, `CountsMatch`, `MatchExact`, `SearchExact`, `InstanceRight`, `CallsFit`, `OneBody`, `PartsWorkEnds` (liveness), `ExportsClosed`, `DispatchRight`, `BoxesMatch` |
| `GenericsNested` | programs that pass their type parameter on | violation of `InstanceRight` |
| `InterfacesMixed` | the programs of `Parts`, with `Mixed` | violation of `DispatchRight` |

The parts of `Parts` are: generators of 4 instructions over a parameter, two variables and
two objects; two hash tables of 2 buckets that grow to 4, three keys of which
two collide before and after; a list that grows at 1, 2 and then by the step, up to 5
cells; a buffer of up to 4 sources, an empty one among them, read by 1, 3 or 4
characters; expressions up to three operators deep, with classes, ranges and escapes, over
inputs of up to 3 characters and the empty one, two calls
per pattern; main functions with two calls of generic functions that are recursive or
call each other, for base types, pointers of the three kinds, arrays and functions;
bodies of up to 5 nodes of each pair of forms; five programs with
interfaces and two addresses; closures two deep over one variable in 4 statements. They
are one run because a property of one says nothing about the others and each is small.

Why the bounds are enough. Two addresses allow self references, cycles of two, shared
targets, a weak back pointer and the reuse of an address; three are needed for a
teardown inside a teardown inside a teardown, which is the chain run. In `Scopes` four
statements are a jump inside an `if` inside a loop or a case whose body has declared
something. Three modules on two threads give every order of claims, finishes and
stores, with a third module to claim while two are in work. Four files are a cycle, a
diamond and one file under two spellings; the command lines have each kind of argument, a
switch as the value of another one, and two inputs that meet the lexer one after the
other. Two calls of a pattern are what a stale mark needs. Two addresses for
two methods are each order of their nodes in memory, in each module for itself. Four statements are
a closure with a captured variable that is called, or that outlives the function that made
it; five, which take longer than a run should, were explored too and show nothing new.

Fairness. `RefCount`: weak fairness of a teardown that has started, as the program is
sequential and a destructor has neither loops nor waits. `Shipping`: weak fairness of
the main thread and of each worker, as the operating system schedules every thread;
it is enough for the mutexes because each worker enters each of them finitely often.
`Generics`: weak fairness of the compiler, a sequential program; it is written out with
the states in which nothing is left to do, as evaluating `ENABLED` of these actions is
slow. `FrontEnd` states no liveness: its phases only go forward and each turn of its loops
uses up an argument, a file or an input (`ReadOnce` bounds the files), so that the
check for deadlock says it comes to an end.

What the violating runs found is listed under `findings` in `PROJECT.json`, each with the
sentence of the repository it disagrees with: `RefCountDestruct`, `RefCountWeakBase`,
`ScopesTest`, `ShippingOutputs`, `GenericsNested` and `InterfacesMixed`, one each.

## 5. Proofs

TLAPS checks the theorems below for every value of the constants that the named
assumptions allow; TLC evaluates those assumptions in the runs. Each proof has an
inductive invariant made of named parts, one lemma per action, and lemmas about the
operators of the model. `PROJECT.json` lists the theorems with the properties they state.

### RefCountProofs

`RefCountProofs.tla` proves, for every finite set of addresses and variables and every
number of members, under

    SafeIdioms == "weakBase" \notin Idioms /\ ~ ({"destruct", "discard"} \subseteq Idioms)

| Theorem | States |
|---|---|
| `TypeCorrect` | `Spec => []TypeOK` |
| `CountsExact` | `Spec => []CountExact` |
| `PointersSafe` | `Spec => [](StrongSafe /\ StoreTargetLive)` |
| `WeakPointersSafe` | `Spec => [](WeakSafe /\ RegistrySafe)` |
| `FreedExactlyOnce` | `Spec => [](FinalizedOnce /\ NoOrphan)` |

`SafeIdioms` is not a convenience: the runs `RefCountDestruct` and `RefCountWeakBase`
show that the theorems are false without it. The constants' assumption is
`RCAssumption`, which TLC evaluates in every run of the module.

None of the properties is inductive by itself. That a count is exact says nothing
about whether a position that was counted still exists; that no pointer dangles does
not follow after a store unless the destination survived the teardown; and so on in a
circle. The invariant `IInv` closes it, as a conjunction of named parts:

* `CountInv` - the count of a live object is its number of credits plus what the
  current expression holds; a dying object's count is the sentinel, or one more while
  its `destruct` method runs;
* `PosInv` - what a position that holds a reference contains is what it is credited
  with, and is live (the destination of a suspended store is the exception);
* `CreditInv` - only positions that hold a reference are credited;
* `ContInv` - the destination of a suspended store still exists and its new value is
  already credited;
* `TmpInv` - what the current expression holds is live, and a fresh object that
  nothing refers to is credited to nobody;
* `DyingInv`, `StkInv` - the dying objects are those on the stack, once each, and
  each one's phase fits its kind;
* `WeakInv` - registrations and weak positions agree, both ways.

One lemma per action shows that the invariant is preserved, and a few lemmas about the
cardinality of the set of credits (adding, moving, removing one) carry the counting.

### ShippingProofs

For any number of threads, inputs and given objects (`ShippingAssumption`):

| Theorem | States |
|---|---|
| `TypeCorrect` | `Spec => []TypeOK` |
| `ClaimedOnceHolds`, `OwnAssemblyHolds`, `TempsRemovedHolds` | `Spec => []ClaimedOnce`, ... |
| `OnlyTempsUnlinkedHolds` | `Spec => OnlyTempsUnlinked`, if `-c` is not among the modes |
| `BackEndImplementsBuild` | `Spec => Implements`: the back end refines `Build` |

The parts of `IInv` build on each other. `LockInv`: a mutex is held exactly from the read
to the write of its critical section, and what was read is still the value. `ClaimInv`:
the modules up to `widex` are stored or belong to one busy worker. `HeapInv`: no two
workers hold one block of the heap, and none a freed one. `NameInv`: the temporary names
in memory differ by their number. From these follow `AsmInv` (the assembly file is that of
its worker), `PoolInv` and `FileInv` (each temporary file was put into the unlink pool under
a name that is still there), `ResultInv` and `ObjectInv` (what is stored for a module was
made from it). The step `Store` is `Build`'s compilation of a unit, the two steps that
compile an input add one, the link is the link; all others stutter. The hypothesis of
`OnlyTempsUnlinkedHolds` is what the run `ShippingOutputs` violates.

### ScopesCode and ScopesProofs

For functions of any number of statements, names and cases (`ScopesAssumption`), under
`Disciplined == Idioms = {}`, as in the run `Scopes`:

| Theorem | States |
|---|---|
| `TypeCorrect` | `Spec => []TypeOK` |
| `ScopesBalancedHolds` | every construct leaves the scope stack as it found it |
| `ReleasesOwnedHolds`, `NothingLostHolds` | each reference is released once on every path |
| `DefersOnceHolds`, `DefersLiveHolds` | each deferment runs once, and in time |
| `TerminatedHolds` | no block is left open |

The compile phase and the run phase have an invariant each. While the compiler runs, each
open statement has made a promise to every block it has yet to fill: what is held and
what is deferred when control gets there. The stack of scopes determines the promise,
and the invariant says that every block written so far leads from its own promise to
those of the blocks it branches to (`Leads`, in `ScopesCode`, follows a sequence of
instructions from one state to the next). When the function ends, the promises are an
assertion for each block, and the run phase keeps to them: the code is proved correct
as a program, for every program the compiler can emit. Facts about callbacks of several
scopes, which the code runs in a loop, are proved by induction over sets of numbers.

### GeneratorProofs

`CountsMatchHolds` states `[]CountsMatch` for any finite set of variables, any objects and
bodies of any length, under `GeneratorAssumption` (the parameter is not a variable, nil is
not an object, no idioms). Each instruction gets two sets: the variables in scope before
it (`L`) and those whose field may still hold a pointer that was released (`D`). A yield
has an empty `D`, for otherwise the destructor would release such a pointer again. While a
loop is open its jump back is not yet written: when it closes, `D` is raised over the
whole body. That leaves every yield's `D` empty because what can be stale in the loop is
declared again before each of its yields (`Settled`), and because no yield comes after a
block that was left (`left = {}`): both are what the idiom `leftBlock` gives up.

### ContainersProofs

| Theorem | States |
|---|---|
| `TablesAreMaps` | `HstSpec => Implements`: two tables refine two functions |
| `ArrayIsList` | `ArrSpec => IsList`: the cells and an iteration refine a sequence |
| `BufferIsStream` | `MbSpec => IsStream`: the chain of sources refines one text |

`TablesAreMaps` holds for any keys, values and hash function, any number of buckets, and
whether the table grows or not (`SizesAssumption`); the caller's memory may change at any time.
Its invariant: each bucket's chain holds nodes whose hash leads there, and no key twice in
the table. Each call is first described by what it does to the set of nodes (`Has`), growing
included, which moves the nodes one by one; then the set of nodes is read as a function.

`ArrayIsList` holds for any first size, step and items (`GrowthAssumption`), and with any
contents of fresh memory: the first `count` cells are the list, and the cells an iteration
has seen are a front of it, while the callback appends.

`BufferIsStream` holds for any sources and sizes of reads (`BufferAssumption`: the lexer
does not ask for nothing, for which `mb_buffer` would return 1). Its invariant: what
was read is a front of the text, and the position of each source is what the length
of that front leaves for it. One call is described in two steps: how much it takes of each
source (`TakenFacts`) and that the parts joined are the next piece of the text (`Gathered`).

The community modules' `FlattenSeq` and the models' recursive functions are handled by
lemmas that prove that the function exists and equals its unfolding (`RunExists`,
`FlatExists`), by well-foundedness of the natural numbers.

### TypesProofs

**Interfaces.** `DispatchRightHolds` states `IfcSpec => []DispatchRight` for any interfaces, classes,
inheritance lists and addresses (`HierarchyAssumption`: finitely many interfaces, addresses
aligned as `malloc` does), under `~Mixed`; the run `InterfacesMixed` shows that it is false
without. The heart is a fact about the numbers of methods: as the alignment is a multiple of
the number of buckets, every node falls into the first bucket, so a listing is the order of
the source whatever the addresses are (`ListedIsDeclared`). The
invariant `InterfacesIInv` is

* `hierarchy` is one of those considered, and each listing made so far is that order;
* each class table is the one `MakeClass` lays out: a slot for each method of each interface
  in turn, every slot filled by the method of its name;
* a held object has a class with a table, and its type names that class or interfaces the
  class lists;
* the last call, if any, reached the right function.

That slots do not overlap is counted with cardinalities of unions of disjoint sets (`Start`).

**Generics.** For any programs, any bound on the work list, and whatever `Resolve`, `Name` and the other
operators on types compute:

| Theorem | States |
|---|---|
| `OneBodyHolds` | `GenericsSpec => []OneBody`: a function has one body from its turn on and none before |
| `AllCompiledHolds` | at the end of the work list every declared function has exactly one body |

`OneBody` alone is not inductive, since it does not say which function the next work is for.
`GenericsIInv` adds that there is one work for each function and that the k-th work is for the k-th
function (`WorksInv`): a look-up that finds the name adds neither, one that does not adds
both. The mutant of `OneBody`, which lists a known instance again, breaks exactly this.

### FrontEndProofs

For any command lines, any files with any imports, and whatever `realpath` answers:

| Theorem | States |
|---|---|
| `TypeOKHolds` | `Spec => []TypeOK` |
| `ReadOnceHolds` | `Spec => []ReadOnce`: the list of an input ends as what its source reaches, each file once |
| `CommandLineHolds` | `Spec => []CommandLine`: what is compiled is what the command line says |

`FilesAssumption` says what a file is made of, that a path which resolves leads to a file,
and that no file imports an object file; TLC evaluates it in the run. The directions of
the imports, their cycles and the spellings of a path are free. `Inductive` is the
invariant of the four parts of `IInv`:

* `Shape` - the current directory is the one the compiler was started in except while
  imports are followed, and the sources of the crate are readable there;
* `WorkList` - what the files before the offset import is on the list (`Listed`), no file
  is on it twice, the source is its head, `all_imports` is the rest, and each is reached from
  the source;
* `Line` - the words that are left are a tail of the command line that begins with no
  value, and what was noted in the crate is what the words before it say (`Noted`);
* `Compiled` - the inputs parsed so far are the first ones of the list of inputs.

The heart of `ReadOnce` is that the imports found are those that were written: the code
reads tokens, of a text that the lexer inserts semicolons and braces into, starting in
whatever state the last text left it. `LexNames` and the lemmas before it show that no
fold of the lexer adds, drops or changes an import line, whatever its flags are; so the
imports of the tokens are the imports of the items (`FileImports`). When the offset has
passed the whole list, the list is closed under imports, and `Closure` is the smallest
such set.

`CommandLine` compares a loop that takes one or two words a turn with a definition over
all positions. A word is a value if the one before it takes one and is none itself; the
invariant is that a turn begins at a word that is not a value, and that the folds over the
positions (`Kept`) up to there are what the crate has. The mutant that looks at the value
again breaks the first of the two.

### Model-checked only

* `Ends`, `TeardownEnds` and `PartsWorkEnds`: liveness is outside the prover's reach.
* `Faithful` and `Accepted` of `FrontEnd`: they are about what a whole text
  comes to when it is cut by counting braces, printed and parsed again. That is an
  induction over the declarations of a text, for each of the recursive functions of the
  scanner and of the recogniser; the folds that the theorems need are handled number by
  number, as an induction over a set of positions (`Induction`).
* `BoxesMatch` (`Closures`), `ExportsClosed` (`AstWalk`), `MatchExact` and `SearchExact`
  (`Regex` with `Language`): the definitions are recursive over heaps, trees and
  expressions, and what such a definition computes for every input is outside the
  prover's reach.
* `InstanceRight` and `CallsFit` of `Generics`: they are about what the recursive operators
  of `TypeTrees` compute.

## 6. Plan

1. Done: the models and their runs; the proofs of section 5.
2. Proofs that are left: those of *Model-checked only*, which need induction over data.
3. Models that are still missing: the weak table with the width of its counters, refining
   the bag that `RefCount` uses; conversions between types as pure operators; struct
   copies; `recur`, weak captured variables and deferments in closures.

## 7. Not modelled

* The one-for-one emission of arithmetic, comparisons and casts, debug information and
  the C++ bridge: one LLVM call per node, no state of their own.
* Operator precedence in `eagle.y` and the node constructors that copy a token: a
  derivation has no states. `FrontEnd` keeps a body as one lexeme; `AstWalk` has the forms
  that the walk tells apart.
* Messages and versions: text. `htoegl`: a separate traversal of C headers that prints
  declarations. `configure`, the generators of tables and the examples.
* Views and enum constants, arrays and structs by value, the statistics of the hash table.
* `rgx_collect_matches` and `RGX_IGNORE_CASE` of `regex.c`; structs, classes and
  enumerations as types given to a generic function.
* Lengths of names, and so the fixed buffers of temporary names.
* What memory holds where the code reads past an array (the deferments of a scope are
  bounded to one for this reason).

`PROJECT.json` gives the status of each component and lists the hazards with the
properties that cover them.
