-------------------------- MODULE MCCompletionWrites --------------------------
(***************************************************************************)
(* Instances of CompletionWrites for TLC: two submitting threads beside    *)
(* the two workers, in both visibility modes.                              *)
(***************************************************************************)
EXTENDS CompletionWrites

CONSTANTS s1, s2, pend, eopw, none

MCSubmitters == {s1, s2}
MCAddrs == 0 .. 2
MCLabels == {0}

(* The two submitters are interchangeable, so the first submit may be taken *)
(* to be s1's: every behaviour has a twin in which it is. (An action        *)
(* constraint, since TLC's symmetry is not sound for the liveness checked.) *)
MCFirstIsS1 == nsub = 0 => pc'[s2] = "idle"

===============================================================================
