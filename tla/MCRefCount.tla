----------------------------- MODULE MCRefCount -----------------------------
(* Instances of RefCount for TLC. *)
EXTENDS RefCount, TLC

MCStrong == {1}
MCWeak == {2}
MCNone == {}

Sym == Permutations(Objs) \cup Permutations(Vars)
=============================================================================
