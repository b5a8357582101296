------------------------------ MODULE MCEventQueue ------------------------------
(***************************************************************************)
(* Instances of EventQueue for TLC: two generations of a queue at one      *)
(* address, two waiters, and a few sources at a time.                      *)
(***************************************************************************)
EXTENDS EventQueue

CONSTANTS w1, w2, c1, c2, t1, t2, video, eopw, user, ptrw, none

MCWaiters == {w1, w2}
MCCounters == {c1, c2}
MCTimers == {t1, t2}
\* Each source meets the delete, and the counted ones meet an overflow.
MCMixes == {{"eop", "flip", "user"}, {"ptr", "user"}, {"timer", "flip"}, {"cnt", "flip"}}
MCCounterOnly == {{"cnt"}}

===============================================================================
