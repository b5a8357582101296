----------------------------- MODULE MCGuestRwlock -----------------------------
(* Three threads suffice for the two balanced writers and the stray unlock *)
(* of hle_kernel.cpp:1437-1449; the threads are interchangeable.           *)
EXTENDS GuestRwlock, TLC

Symmetry == Permutations(Threads)
===============================================================================
