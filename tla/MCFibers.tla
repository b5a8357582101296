-------------------------------- MODULE MCFibers --------------------------------
(***************************************************************************)
(* An instance of Fibers for TLC: three threads and three fibers, enough   *)
(* for a thread to be on one fiber while another that it left moves.       *)
(***************************************************************************)
EXTENDS Fibers, TLC

CONSTANTS t1, t2, t3, f1, f2, f3, nobody

MCThreads == {t1, t2, t3}
MCFiberIds == {f1, f2, f3}
MCSymmetry == Permutations(MCThreads) \union Permutations(MCFiberIds)

===============================================================================
