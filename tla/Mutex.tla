------------------------------- MODULE Mutex -------------------------------
(***************************************************************************)
(* What a caller of config.LockFile relies on: one process at a time is    *)
(* between LockFile and the end of its work.  A process may leave by       *)
(* unlocking or by dying.                                                  *)
(***************************************************************************)
CONSTANTS Procs, Nobody

VARIABLE owner

Init == owner = Nobody

Enter(p) == owner = Nobody /\ owner' = p

Leave(p) == owner = p /\ owner' = Nobody

Next == \E p \in Procs : Enter(p) \/ Leave(p)

Spec == Init /\ [][Next]_owner
=============================================================================
