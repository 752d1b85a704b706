---------------------------- MODULE MCWaiterQueue -----------------------------
(***************************************************************************)
(* The queue for TLC: two leases and two places, and enough callers to find *)
(* both full with one more at the door.                                     *)
(***************************************************************************)
EXTENDS WaiterQueue

CONSTANTS c1, c2, c3, c4, c5

MCCallers == {c1, c2, c3, c4, c5}
===============================================================================
