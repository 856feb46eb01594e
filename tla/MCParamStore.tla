----------------------------- MODULE MCParamStore -----------------------------
(* Instances of ParamStore for TLC: of the five fields of device_stepper the position *)
(* and one other, of the three of device_location one; target and number behave like  *)
(* min and max, y and z like x.                                                       *)
EXTENDS ParamStore

MCStepperFields == <<"current", "min">>
MCLocationFields == <<"x">>
=============================================================================
