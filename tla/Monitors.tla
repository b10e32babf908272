------------------------------ MODULE Monitors ------------------------------
(***************************************************************************)
(* What the memory monitors and the register monitors of the console       *)
(* (emulator/SimControl.cpp) have in common: the flag by which both end a  *)
(* run, and the numbering of a list of monitors.                           *)
(***************************************************************************)
EXTENDS Integers, SequencesExt

CONSTANTS
  MaxByte,        \* the bytes are 0 .. MaxByte
  MaxID           \* bound: monitor IDs

VARIABLE stopFlag

(* The ID of a new monitor, which is put at the end of its list. *)
NextID(monitors) == IF monitors = <<>> THEN 0 ELSE Last(monitors).ID + 1
=============================================================================
