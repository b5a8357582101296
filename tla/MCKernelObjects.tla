----------------------------- MODULE MCKernelObjects -----------------------------
(***************************************************************************)
(* Instances of KernelObjects for TLC.  One bit and one mode are enough    *)
(* for who waits, who deletes and who frees; two bits tell AND from OR,    *)
(* and a pattern cleared from all bits cleared; a semaphore is taken in    *)
(* ones and twos.                                                          *)
(***************************************************************************)
EXTENDS KernelObjects

CONSTANTS t1, t2, t3, b1, b2

MCThreads == {t1, t2, t3}
MCBits == {b1, b2}

AllKeep == [all |-> TRUE, clear |-> "none"]
AnyPat  == [all |-> FALSE, clear |-> "pat"]
AllAll  == [all |-> TRUE, clear |-> "all"]

OneBit  == [kind |-> "flag", threads |-> {t1, t2, t3}, bits |-> {b1}, modes |-> {AnyPat}]
TwoBits == [kind |-> "flag", threads |-> {t1, t2}, bits |-> {b1, b2},
            modes |-> {AllKeep, AnyPat, AllAll}]
Sema    == [kind |-> "sema", threads |-> {t1, t2, t3}, bits |-> {}, modes |-> {AMode}]

MCUses == {OneBit, TwoBits, Sema}
MCOneBit == {OneBit}

===============================================================================
