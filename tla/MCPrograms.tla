----------------------------- MODULE MCPrograms -----------------------------
(***************************************************************************)
(* Generic functions as in examples/generic-func.egl and the calls of a    *)
(* main function, for TLC.                                                 *)
(***************************************************************************)
EXTENDS TypeTrees

T == Ref("T")
I32 == Base("int")
F64 == Base("double")
Of(t) == [form |-> "type", type |-> t]
Arith(t) == [form |-> "arith", type |-> t]
Result(n) == [form |-> "result", of |-> n]
CallOf(f, args) == [fun |-> f, args |-> args]
Fun(ids, params, ret, calls) == [idents |-> ids, params |-> params, ret |-> ret, calls |-> calls]

\* examples/generic-func.egl: max, alloc, swap, make_counted, factorial, run_n_times.
MCFuns(id) ==
    [max |-> Fun({"T"}, <<T, T>>, T, <<>>),
     alloc |-> Fun({"T"}, <<T>>, Ptr("raw", T), <<>>),
     make_counted |-> Fun({"U"}, <<Ref("U")>>, Ptr("counted", Ref("U")), <<>>),
     factorial |-> Fun({"T"}, <<T>>, T, <<CallOf("factorial", <<Arith(T)>>)>>),
     apply |-> Fun({"T"}, <<T, Ptr("counted", FnOf({"closure"}, <<T>>, T)), I32>>, T, <<>>),
     nest |-> Fun({"T"}, <<T>>, Ptr("counted", T),
                  <<CallOf("max", <<Arith(T), Arith(T)>>), CallOf("make_counted", <<Result(1)>>)>>),
     pass |-> Fun({id}, <<Ref(id)>>, Ref(id), <<CallOf("max", <<Of(Ref(id)), Of(Ref(id))>>)>>)]

Given == {Of(I32), Of(F64), Of(Ptr("raw", I32)), Of(Ptr("counted", I32))}
\* Types that have their names in common with another one.
Namesakes == {Of(Ptr("weak", I32))} \cup {Of(Ptr("raw", Arr(I32, n))) : n \in {2, 3}}
    \cup {Of(Ptr("counted", FnOf(flags, <<I32>>, I32))) : flags \in {{}, {"closure"}}}
Numbers == {Of(I32), Of(F64)}
Callbacks == {Of(Ptr("counted", FnOf({"closure"}, <<t>>, t))) : t \in {I32, F64}}
Calls1 == {CallOf("max", <<v, v>>) : v \in Given \cup Namesakes} \cup {CallOf("max", <<Of(I32), Of(F64)>>)}
   \cup {CallOf(f, <<v>>) : f \in {"factorial", "nest"}, v \in Numbers}
   \cup {CallOf(f, <<v>>) : f \in {"alloc", "make_counted"}, v \in Given}
   \cup {CallOf("alloc", <<v>>) : v \in Namesakes}
   \cup {CallOf("apply", <<v, c, Of(I32)>>) : v \in Numbers, c \in Callbacks}
   \cup {CallOf("make_counted", <<Result(1)>>)}
Passes == {CallOf("pass", <<v>>) : v \in Numbers}
Mains(S) == {<<a, b>> : a \in S \ {CallOf("make_counted", <<Result(1)>>)}, b \in S}
MCPrograms == {[main |-> m, funs |-> MCFuns("T")] : m \in Mains(Calls1)}
   \cup {[main |-> <<p, c>>, funs |-> MCFuns("V")] : p \in Passes, c \in Calls1}
MCPassing == {[main |-> m, funs |-> MCFuns("V")] : m \in Mains(Passes)}
=============================================================================
