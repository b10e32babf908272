--------------------------------- MODULE PIC ---------------------------------
(***************************************************************************)
(* The interrupt controller of Emu86 (emulator/PIC.cpp), an 8259A in fully *)
(* nested mode.  A register is the SET of the IRQ numbers whose bits are   *)
(* 1; IRQ 0 has the highest priority.                                      *)
(*                                                                         *)
(* Every operation is an action that a larger specification conjoins with  *)
(* what the caller does (see X86Exec).  Spec lets an arbitrary caller      *)
(* use the controller in any order, which is what the theorems of          *)
(* DeviceProofs are about.                                                 *)
(***************************************************************************)
EXTENDS Integers

CONSTANT NumPins                         \* NUM_INTERRUPT_PINS

ASSUME NumPinsAssumption == NumPins \in Nat \ {0}

VARIABLES
  IRR,        \* requested
  ISR,        \* in service
  IMR,        \* masked
  PICstate,   \* what the next read of the command port returns
  INTR,       \* the INTR pin of the processor
  asynch      \* M.x86.intr & INTR_ASYNCH: the processor's copy of INTR

vars == <<IRR, ISR, IMR, PICstate, INTR, asynch>>

Pins == 0 .. NumPins - 1

(* What FlagInterrupt accepts: its test is IRQ > NUM_INTERRUPT_PINS, so a  *)
(* bit past the last pin can be set.                                       *)
Lines == 0 .. NumPins

States == {"NO_CMD", "IRR_READ_CMD", "ISR_READ_CMD"}

(* The bytes a program may write to the command port, by effect. *)
Commands == {"EOI", "IRR_READ_CMD", "ISR_READ_CMD", "IGNORED"}
-----------------------------------------------------------------------------
(* The lowest bit of reg that is set, NumPins when there is none. *)
GetPriority(reg) ==
  IF reg = {} THEN NumPins
  ELSE CHOOSE irq \in reg : \A other \in reg : irq <= other

(* Mutants of PriorityDecode: a handler may interrupt itself; masks do not *)
(* count.  (The mutants are used by no specification; they show which      *)
(* property notices which bug.)                                            *)
PriorityDecode_Reentrant(irr, isr, imr) ==
  LET irq == GetPriority(irr \ imr)
  IN  IF irq <= GetPriority(isr) THEN irq ELSE NumPins

PriorityDecode_NoMask(irr, isr, imr) ==
  IF GetPriority(irr) < GetPriority(isr) THEN GetPriority(irr) ELSE NumPins

(* The request to serve next, NumPins when there is none: the first        *)
(* unmasked one, if nothing of its priority or above is in service.        *)
PriorityDecode(irr, isr, imr) ==
  LET irq == GetPriority(irr \ imr)
  IN  IF irq < GetPriority(isr) THEN irq ELSE NumPins

Ready(irr, isr, imr) == PriorityDecode(irr, isr, imr) # NumPins

(* Mutant of RaiseINTR: the processor is not told. *)
RaiseINTR_PinOnly ==
  /\ INTR' = (INTR \/ Ready(IRR', ISR', IMR'))
  /\ UNCHANGED asynch

(* RaiseINTR, under the test every one of its callers makes on the         *)
(* registers it has just written.  Nothing here lowers INTR.               *)
RaiseINTR ==
  /\ INTR' = (INTR \/ Ready(IRR', ISR', IMR'))
  /\ asynch' = (asynch \/ Ready(IRR', ISR', IMR'))
-----------------------------------------------------------------------------
(* The processor has executed InitExec, and InitPIC the reset below. *)
Init ==
  /\ IRR = {} /\ ISR = {} /\ IMR = {}
  /\ PICstate = "NO_CMD"
  /\ INTR = FALSE
  /\ asynch = FALSE

(* A pending command-port read survives the reset. What becomes of the     *)
(* processor's copy of INTR is the caller's business.                      *)
ResetPIC ==
  /\ IRR' = {} /\ ISR' = {} /\ IMR' = {}
  /\ INTR' = FALSE
  /\ UNCHANGED PICstate

(* Mutant of FlagInterrupt: a request in service is not taken again. *)
FlagInterrupt_NotInService(irq) ==
  /\ IRR' = IF irq \in ISR THEN IRR ELSE IRR \cup {irq}
  /\ UNCHANGED <<ISR, IMR, PICstate>>
  /\ RaiseINTR

FlagInterrupt(irq) ==
  /\ IRR' = IRR \cup {irq}
  /\ UNCHANGED <<ISR, IMR, PICstate>>
  /\ RaiseINTR

(* Called only while INTR is high.  When INTR was raised for a request     *)
(* that has been masked since, nothing is delivered (the result is -1).    *)
(* The processor may zero its copy of INTR when it enters the handler.     *)
InterruptAcknowledge ==
  LET irq == PriorityDecode(IRR, ISR, IMR)
  IN  /\ INTR' = FALSE
      /\ IF irq = NumPins
         THEN UNCHANGED <<IRR, ISR>>
         ELSE IRR' = IRR \ {irq} /\ ISR' = ISR \cup {irq}
      /\ UNCHANGED <<IMR, PICstate>>

(* Mutants of NonspecificEOI: INTR is not raised again; the request of the *)
(* lowest priority in service is ended.                                    *)
NonspecificEOI_Silent ==
  /\ ISR' = ISR \ {GetPriority(ISR)}
  /\ UNCHANGED <<IRR, IMR, PICstate, INTR, asynch>>

NonspecificEOI_Lowest ==
  /\ ISR' = {irq \in ISR : \E other \in ISR : irq < other}
  /\ UNCHANGED <<IRR, IMR, PICstate>>
  /\ RaiseINTR

NonspecificEOI ==
  /\ ISR' = ISR \ {GetPriority(ISR)}
  /\ UNCHANGED <<IRR, IMR, PICstate>>
  /\ RaiseINTR

(* Mutant of WriteIMR: INTR is not raised for what is unmasked. *)
WriteIMR_Silent(mask) ==
  /\ IMR' = mask
  /\ UNCHANGED <<IRR, ISR, PICstate, INTR, asynch>>

(* A program writes 8 bits; the console's poke command any number, of     *)
(* which the bits past the last line have no effect.                      *)
WriteIMR(mask) ==
  /\ IMR' = mask
  /\ UNCHANGED <<IRR, ISR, PICstate>>
  /\ RaiseINTR

(* The command (even) port. The data (odd) port is WriteIMR. *)
PICWriteByte(command) ==
  \/ /\ command = "EOI"
     /\ NonspecificEOI
  \/ /\ command \in {"IRR_READ_CMD", "ISR_READ_CMD"}
     /\ PICstate' = command
     /\ UNCHANGED <<IRR, ISR, IMR, INTR, asynch>>
  \/ /\ command = "IGNORED"
     /\ UNCHANGED vars

(* A read of the command port uses up the command that selected it. *)
PICReadByte ==
  /\ PICstate' = "NO_CMD"
  /\ UNCHANGED <<IRR, ISR, IMR, INTR, asynch>>

(* x86emu_intr_handle and the loaders zero M.x86.intr. *)
ClearIntr ==
  /\ asynch' = FALSE
  /\ UNCHANGED <<IRR, ISR, IMR, PICstate, INTR>>

Next ==
  \/ ResetPIC /\ asynch' \in {asynch, FALSE}
  \/ INTR /\ InterruptAcknowledge /\ asynch' \in {asynch, FALSE}
  \/ \E irq \in Lines : FlagInterrupt(irq)
  \/ \E mask \in SUBSET Lines : WriteIMR(mask)
  \/ \E command \in Commands : PICWriteByte(command)
  \/ PICReadByte
  \/ ClearIntr

Spec == Init /\ [][Next]_vars
-----------------------------------------------------------------------------
TypeOK ==
  /\ IRR \subseteq Lines
  /\ ISR \subseteq Pins
  /\ IMR \subseteq Lines
  /\ PICstate \in States
  /\ INTR \in BOOLEAN
  /\ asynch \in BOOLEAN

(* No wake-up is lost inside the controller: whenever a request could be   *)
(* served, the INTR pin is up.  Every operation that makes a request ready *)
(* (a request, an EOI, an unmasking) has to raise it again, and            *)
(* InterruptAcknowledge lowers it although other requests may be pending   *)
(* (PIC.cpp:118-188).                                                      *)
ReadyIsSignalled == Ready(IRR, ISR, IMR) => INTR
=============================================================================
