--------------------------- MODULE MCGuestException ---------------------------
(* One raiser at a time is how a stop-the-world collector raises; the      *)
(* second configuration has two.                                           *)
EXTENDS GuestException
===============================================================================
