----------------------------- MODULE MCWaveTasks -----------------------------
(* Instances of WaveTasks for TLC: two strands, 1 and 5 mm from the origin of the  *)
(* waves, a TickType_t that counts to 100 ms, queues short enough to fill up.        *)
EXTENDS WaveTasks

Origin == [x |-> -4, y |-> 0, z |-> 0]
Near == "near"
Far == "far"
MCStrands == {Near, Far}
MCLocation == [s \in MCStrands |-> IF s = Near THEN [x |-> -4, y |-> 1, z |-> 0]
                                   ELSE [x |-> -1, y |-> 4, z |-> 0]]

Wave(type, speed) == [task |-> "wave", origin |-> Origin, speed |-> speed, type |-> type,
                      move |-> 2, offset |-> 0, loops |-> 0]
Sine(kind, loops) == [task |-> kind, origin |-> Origin, speed |-> 10, type |-> 1,
                      move |-> 2, offset |-> 2, loops |-> loops]

(* A wave of no speed, one so slow that its second delay is too long to be counted, a   *)
(* series of no swings, and one of two swings that starts after 10 and 50 ms.           *)
MCCommands == {Wave(0, 0), Wave(1, 4), Sine("sine", -1), Sine("sine_wave", 2)}
MCReached == {MCStrands, {Far}}
MCLimits == {[min |-> 1, max |-> 3]}
MCFirstLimits == [min |-> 0, max |-> 3]
==============================================================================
