----------------------- MODULE MCFunctionInterceptor -----------------------
(***************************************************************************)
(* Two threads, two heap functions with a call site each and a MemCheck_*  *)
(* function with one.                                                      *)
(***************************************************************************)
EXTENDS FunctionInterceptor, TLC

CONSTANTS t1, t2, kmalloc, allocPages, markAlloc, r1, r2, r3

MCThread == {t1, t2}
MCHeapFunction == {kmalloc, allocPages}
MCMarkFunction == {markAlloc}
MCSite == {r1, r2, r3}
MCCallee == r1 :> kmalloc @@ r2 :> allocPages @@ r3 :> markAlloc
=============================================================================
