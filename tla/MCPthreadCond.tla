----------------------------- MODULE MCPthreadCond -----------------------------
(***************************************************************************)
(* An instance of PthreadCond for TLC: a slot three threads race for, and  *)
(* two addresses, the first of which is handed out again.                  *)
(***************************************************************************)
EXTENDS PthreadCond, TLC

CONSTANTS t1, t2, t3, o1, o2, none

MCThreads == {t1, t2, t3}
MCObjs == {o1, o2}
MCSymmetry == Permutations(MCThreads) \union Permutations(MCObjs)

===============================================================================
