------------------------------ MODULE UmtxRwlock ------------------------------
(***************************************************************************)
(* The read/write lock the guest was built against, as the comments of     *)
(* hle_kernel.cpp:1382-1394 state it for FreeBSD: a write hold can only be *)
(* released by its owner; a read hold can be released by anybody; an       *)
(* unlock of a lock nobody holds changes nothing.                          *)
(***************************************************************************)
EXTENDS Naturals

CONSTANTS Threads, NoThread

VARIABLES writer,      \* the owner of the write hold, or NoThread
          readers      \* the number of read holds

vars == <<writer, readers>>

Init == writer = NoThread /\ readers = 0

Rdlock == /\ writer = NoThread
          /\ readers' = readers + 1
          /\ UNCHANGED writer

Wrlock(t) == /\ writer = NoThread
             /\ readers = 0
             /\ writer' = t
             /\ UNCHANGED readers

UnlockRead == /\ writer = NoThread
              /\ readers > 0
              /\ readers' = readers - 1
              /\ UNCHANGED writer

UnlockWrite(t) == /\ writer = t
                  /\ writer' = NoThread
                  /\ UNCHANGED readers

Next == \/ Rdlock \/ UnlockRead
        \/ \E t \in Threads : Wrlock(t) \/ UnlockWrite(t)

Spec == Init /\ [][Next]_vars
===============================================================================
