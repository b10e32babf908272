---------------------------- MODULE X86ExecProps ----------------------------
(***************************************************************************)
(* What the execution loop and the interrupt controller achieve together.  *)
(***************************************************************************)
EXTENDS X86Exec

TypeOK ==
  /\ PIC!TypeOK
  /\ phase \in {"prompt", "loop", "exec", "intr"}
  /\ repeat \in {Forever} \cup 0 .. MaxRepeat
  /\ stopFlag \in BOOLEAN /\ systemHalted \in BOOLEAN
  /\ exeLoaded \in BOOLEAN
  /\ IFlag \in BOOLEAN /\ halted \in BOOLEAN /\ divide \in BOOLEAN
  /\ frames \in Seq(Frames) /\ Len(frames) <= MaxFrames
  /\ tickInterval \in 0 .. MaxTick /\ tickCount \in 0 .. MaxTick
  /\ key \in Keys \cup Specials
  /\ keyBuffer \in Keys \cup {"NONE"} /\ unread \in BOOLEAN
-----------------------------------------------------------------------------
(* The loop uses the controller as the controller requires: only what      *)
(* PIC!Next allows happens to it, an acknowledgement only with INTR up     *)
(* (PIC.cpp:136). The theorems about the controller hold here too.         *)
UsesPIC == PIC!Spec

(* No wake-up is lost between the controller and the processor: while the  *)
(* INTR pin is up, the processor has its flag set and looks at the pin     *)
(* after every instruction, so that no request that can be served is       *)
(* forgotten (with PIC!ReadyIsSignalled, which UsesPIC carries over). A    *)
(* divide error zeroes the flag with the pin up (decode.cpp:62), but then  *)
(* the run ends as an error (SystemHalted), and that is remembered until   *)
(* the next load. lexe zeroes it, too.                                     *)
WakeupKept == INTR => asynch \/ systemHalted \/ exeLoaded

(* A due tick waits at most for reset keys: it becomes a request in the    *)
(* first iteration that does not poll one, whatever else the user types.   *)
TickNotStarved ==
  phase = "exec" /\ tickInterval # 0 /\ tickCount >= tickInterval
    => key = "KEY_RESET"
-----------------------------------------------------------------------------
(* For disciplined handlers. *)

InService(k) == frames[k].stage # "ended"

(* The bits in service are those of the handlers that have not sent their  *)
(* EOI, each above the handlers it interrupted. So the EOI of the handler  *)
(* that runs ends itself and no other, whatever the user asserts, masks or *)
(* types meanwhile; and the program's stack never holds more contexts than *)
(* there are pins.                                                         *)
FramesMatchService ==
  /\ ISR = {frames[k].irq : k \in {j \in DOMAIN frames : InService(j)}}
  /\ \A j, k \in DOMAIN frames :
       j < k /\ InService(j) /\ InService(k) => frames[j].irq < frames[k].irq
  /\ Len(frames) <= NumPins

(* A key that was stored is not forgotten: until it is read, or replaced   *)
(* by a later one, a keyboard request is pending or the keyboard handler   *)
(* is about to read it. A key that arrives while the handler runs raises   *)
(* the request again.                                                      *)
KeyNotForgotten ==
  unread => \/ KEYBOARD \in IRR
            \/ \E k \in DOMAIN frames : /\ frames[k].irq = KEYBOARD
                                        /\ frames[k].stage = "entered"
-----------------------------------------------------------------------------
(* Execute never stops polling and executing (WF of Run); the program      *)
(* keeps executing the instructions that serve an interrupt and those that *)
(* enable interrupts, whatever else it executes between them.              *)
FairSpec ==
  /\ Spec
  /\ WF_vars(Run)
  /\ SF_vars(Serve) /\ SF_vars(Cli) /\ SF_vars(EndOfInterrupt) /\ SF_vars(Iret) /\ SF_vars(Sti)

Interrupted == phase = "prompt" \/ halted \/ systemHalted

(* The request of the highest priority is served, if the run goes on and   *)
(* the program does not mask it: handlers in service end, interrupts are   *)
(* enabled again, and the signal is still there then.                      *)
ResetServed ==
  RESET \in IRR ~> (RESET \notin IRR \/ RESET \in IMR \/ Interrupted)
=============================================================================
