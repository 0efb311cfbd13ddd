------------------------------- MODULE MCZoo -------------------------------
(***************************************************************************)
(* Programs with interfaces, for TLC: the one of examples/interface.egl    *)
(* and others that differ from it by one declaration.                      *)
(***************************************************************************)
EXTENDS Sequences, TLC

Method(name, sig) == [name |-> name, sig |-> sig]

Animal == <<Method("speak", "void"), Method("tail", "void")>>
Pet == <<Method("bounds", "text")>>
Ifcs == ("Animal" :> Animal) @@ ("Pet" :> Pet)
ClassOf(ifcs, methods) == [ifcs |-> ifcs, methods |-> methods]

DogClass(ifcs) == ClassOf(ifcs, Animal \o Pet)
CatClass == ClassOf(<<"Animal">>, <<Method("tail", "void"), Method("speak", "void")>>)
Zoo(dog, cat) == [ifcs |-> Ifcs, classes |-> ("Dog" :> dog) @@ ("Cat" :> cat)]

\* As in the example, and with the interfaces of Dog in the other order; a
\* method of its own; one that is missing; one of another signature; an
\* interface method that two interfaces have.
MCZoos ==
    {Zoo(DogClass(<<"Animal", "Pet">>), CatClass),
     Zoo(DogClass(<<"Pet", "Animal">>), ClassOf(<<"Animal">>, <<Method("purr", "void")>> \o Animal)),
     Zoo(DogClass(<<"Animal", "Pet">>), ClassOf(<<"Animal">>, <<Method("speak", "void")>>)),
     Zoo(DogClass(<<"Animal", "Pet">>), ClassOf(<<"Animal">>, <<Method("speak", "text")>> \o Tail(Animal))),
     [ifcs |-> ("Animal" :> Animal) @@ ("Pet" :> <<Method("tail", "void")>>),
      classes |-> ("Dog" :> DogClass(<<"Animal", "Pet">>)) @@ ("Cat" :> CatClass)]}
=============================================================================
