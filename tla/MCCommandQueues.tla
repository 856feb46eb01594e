---------------------------- MODULE MCCommandQueues ----------------------------
(* Instances of CommandQueues for TLC.  The queues are made two long, so that they *)
(* fill up within the bounds; the set is three long as in the code, so that a fourth    *)
(* message overflows it.                                                           *)
EXTENDS CommandQueues

MCCapacity == [s \in Sources |-> 2]
=============================================================================
