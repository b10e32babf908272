------------------------- MODULE MCRegisterMonitors -------------------------
(***************************************************************************)
(* Monitors for TLC: both modes on CL, one on each of the words; the value *)
(* one is in the range of all of them.                                     *)
(***************************************************************************)
EXTENDS RegisterMonitors

Monitor(registerNum, mode) == [registerNum |-> registerNum, mode |-> mode, value |-> 1]

MCOffered == {Monitor("CL", "ON_MODIFY"), Monitor("CL", "ON_BECOME"),
              Monitor("CX", "ON_MODIFY"), Monitor("CX", "ON_BECOME"),
              Monitor("CS", "ON_BECOME")}
=============================================================================
