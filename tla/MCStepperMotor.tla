---------------------------- MODULE MCStepperMotor ----------------------------
(* Instances of StepperMotor for TLC: moves short enough to brake before the speed is *)
(* reached and long enough to travel at it.                                          *)
EXTENDS StepperMotor

MCDisplacements == {-7, -1, 0, 2, 12}
MCSpeeds == {0, 100, 300, -300}
===============================================================================
