------------------------------ MODULE SubmitGate ------------------------------
(***************************************************************************)
(* What the GPU submission gate promises to its two kinds of callers (the  *)
(* contract stated in host/platform/gpu_submit_gate.hpp), with no word, no *)
(* compare-exchange, no mutex and no condition variable:                   *)
(*   - a submitter is admitted only while the gate is open, and then counts *)
(*     as live until it leaves;                                            *)
(*   - the frontend closes the gate, and may then SEAL it: learn that no   *)
(*     region is live, which stays true until the gate is reopened.        *)
(***************************************************************************)
CONSTANT Regions          \* the GpuSubmitRegion objects

VARIABLES open,           \* the gate admits
          live,           \* the admitted regions
          sealed          \* some drain has promised the frontend a quiet device

vars == <<open, live, sealed>>

Init == /\ open = TRUE
        /\ live = {}
        /\ sealed = FALSE

Admit(r) == /\ open
            /\ r \notin live
            /\ live' = live \union {r}
            /\ UNCHANGED <<open, sealed>>

Leave(r) == /\ r \in live
            /\ live' = live \ {r}
            /\ UNCHANGED <<open, sealed>>

Close == /\ open' = FALSE
         /\ UNCHANGED <<live, sealed>>

Seal == /\ ~open
        /\ live = {}
        /\ sealed' = TRUE
        /\ UNCHANGED <<open, live>>

Reopen == /\ live = {}
          /\ open' = TRUE
          /\ sealed' = FALSE
          /\ UNCHANGED live

Next == \/ \E r \in Regions : Admit(r) \/ Leave(r)
        \/ Close
        \/ Seal
        \/ Reopen

Spec == Init /\ [][Next]_vars
===============================================================================
