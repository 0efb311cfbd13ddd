-------------------------------- MODULE Build --------------------------------
(***************************************************************************)
(* What the back end of the compiler promises, without threads, locks or   *)
(* temporary files: every module of the work list is compiled, in any      *)
(* order, and the executable is linked from the object files given on the  *)
(* command line followed by one object per module, in work list order.  An *)
(* object whose compilation failed is missing from its place.              *)
(***************************************************************************)
EXTENDS Naturals, Sequences, FiniteSets

CONSTANTS
    User,      \* content of an object file given on the command line
    Missing    \* content of an object file that does not exist

VARIABLES
    given,     \* number of object files on the command line
    units,     \* number of modules on the work list
    done,      \* the modules that have been compiled
    image      \* contents the linker was given, in order; <<>> before

bvars == <<given, units, done, image>>

BInit ==
    /\ given \in Nat /\ units = 0 /\ done = {} /\ image = <<>>

\* The front end appends a module to the work list.
AddUnit ==
    /\ done = {} /\ image = <<>>
    /\ units' = units + 1
    /\ UNCHANGED <<given, done, image>>

\* A worker finishes one module.
CompileUnit ==
    /\ \E u \in 1..units \ done : done' = done \cup {u}
    /\ UNCHANGED <<given, units, image>>

\* The linker is called once, after the last module.
LinkUnits ==
    /\ done = 1..units /\ image = <<>>
    /\ Len(image') = given + units
    /\ \A i \in 1..given : image'[i] = User
    /\ \A u \in 1..units : image'[given + u] \in {u, Missing}
    /\ UNCHANGED <<given, units, done>>

BNext == AddUnit \/ CompileUnit \/ LinkUnits

BSpec == BInit /\ [][BNext]_bvars
=============================================================================
