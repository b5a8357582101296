------------------------------ MODULE MCCondSlots ------------------------------
(* Instances of the condvar slot table: a program with one condvar, or with *)
(* two; the configurations choose the threads and which condvars are        *)
(* destroyed.                                                               *)
EXTENDS CondSlots, TLC

MCPrograms == {{CHOOSE c \in Conds : TRUE}, Conds}
MCAll == {Conds}

\* Nothing tells one thread from another.
MCSymmetry == Permutations(Callers)
===============================================================================
