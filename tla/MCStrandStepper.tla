--------------------------- MODULE MCStrandStepper ---------------------------
(* Instances of StrandStepper for TLC.  The factor is the code's (22.6 steps per mm), *)
(* the distances are a few millimetres; homing backs off 5 steps instead of 4000, and *)
(* a motor stops within 2 steps.                                                      *)
EXTENDS StrandStepper

MCFirstBoot == [current |-> 1, min |-> 0, max |-> 2]
MCNegative == -1
MCMoves == {MCNegative, 2}
=============================================================================
