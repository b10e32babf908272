-------------------------- MODULE MCMemoryMonitors --------------------------
(***************************************************************************)
(* Monitors for TLC: of the two bytes before the end of the memory, and of *)
(* three bytes from its start, one of them in both.                        *)
(***************************************************************************)
EXTENDS MemoryMonitors

Value(b0, b1, b2) == [i \in 0 .. 3 |-> CASE i = 0 -> b0 [] i = 1 -> b1
                                         [] i = 2 -> b2 [] i = 3 -> 0]

Monitor(address, size, mode, value) ==
  [address |-> address, size |-> size, mode |-> mode, value |-> value]

MCOffered ==
  {Monitor(2, 2, mode, Value(1, 0, 0)) : mode \in Modes}
  \cup {Monitor(0, 3, mode, Value(1, 0, 1)) : mode \in {"ON_MODIFY", "ON_BECOME"}}
=============================================================================
