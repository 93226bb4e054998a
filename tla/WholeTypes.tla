----------------------------- MODULE WholeTypes -----------------------------
(***************************************************************************)
(* What a .cfg gives the constants InnerZero, ..., InnerRunCustom: what    *)
(* the definitions make of a type they make of the types inside it too.    *)
(* Each is a LET because TLC, where it counts evaluations, unfolds what a  *)
(* .cfg gives a constant, but not a LET.                                   *)
(***************************************************************************)
EXTENDS BindLevel

ZeroWithin(t) == LET v == Zero(t) IN v
BehindWithin(v) == LET w == Behind(v) IN w
BindableWithin(t) == LET b == isBindableStruct(t) IN b
HasTypeWithin(v, t) == LET b == HasType(v, t) IN b
AssignWithin(t, old, src, path, env) == LET r == assign(t, old, src, path, env) IN r
AssignStringWithin(t, old, raw, path, env) == LET r == assignString(t, old, raw, path, env) IN r
BindStructWithin(node, t, old, path, env) == LET r == bindStruct(node, t, old, path, env) IN r
RunCustomWithin(tag, v, path) == LET r == runCustom(tag, v, path) IN r
=============================================================================
