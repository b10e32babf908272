--------------------------- MODULE X86ExecProofs ---------------------------
(***************************************************************************)
(* Theorems about the execution loop, for every number of pins, keys,      *)
(* masks and tick intervals.  For any program: the loop uses the           *)
(* controller as it requires, no wake-up is lost between the two, and a    *)
(* due tick waits for nothing but reset keys.  For handlers that serve     *)
(* their interrupts by the book: the bits in service are those of the      *)
(* handlers on the stack, and no key is forgotten.                         *)
(***************************************************************************)
EXTENDS X86ExecProps, SequenceTheorems, WellFoundedInduction, TLAPS

(* What the properties need of the types. *)
Counters ==
  /\ asynch \in BOOLEAN
  /\ tickInterval \in 0 .. MaxTick /\ tickCount \in 0 .. MaxTick

IInv == Counters /\ WakeupKept /\ TickNotStarved
-----------------------------------------------------------------------------
(* The actions of the loop on the controller are the controller's own. *)

(* The operations that raise INTR keep the wake-up. *)
LEMMA RaisingKeepsWakeup ==
  ASSUME asynch \in BOOLEAN, WakeupKept, PIC!RaiseINTR,
         systemHalted' = systemHalted, exeLoaded' = exeLoaded
  PROVE  asynch' \in BOOLEAN /\ WakeupKept'
  BY DEF WakeupKept, PIC!RaiseINTR

(* The operations on the controller that a command or an instruction       *)
(* makes, other than a reset, an acknowledgement and ClearIntr.            *)
PortOperation ==
  \/ \E irq \in PIC!Lines : PIC!FlagInterrupt(irq)
  \/ \E mask \in Masks : PIC!WriteIMR(mask)
  \/ \E command \in PIC!Commands : PIC!PICWriteByte(command)
  \/ PIC!PICReadByte
  \/ UNCHANGED picVars

LEMMA PortOperationKeepsWakeup ==
  ASSUME asynch \in BOOLEAN, WakeupKept, PortOperation,
         systemHalted' = systemHalted, exeLoaded' = exeLoaded
  PROVE  asynch' \in BOOLEAN /\ WakeupKept'
<1>1. CASE PIC!RaiseINTR
  BY <1>1, RaisingKeepsWakeup
<1>2. CASE INTR' = INTR /\ asynch' = asynch
  BY <1>2 DEF WakeupKept
<1>3. PIC!RaiseINTR \/ (INTR' = INTR /\ asynch' = asynch)
  BY DEF PortOperation, PIC!FlagInterrupt, PIC!WriteIMR, PIC!PICWriteByte,
         PIC!NonspecificEOI, PIC!PICReadByte, PIC!vars, picVars
<1>4. QED
  BY <1>1, <1>2, <1>3

LEMMA PortOperationIsPIC ==
  ASSUME PortOperation
  PROVE  PIC!Next \/ UNCHANGED PIC!vars
<1>1. Masks \subseteq SUBSET PIC!Lines
  BY ExecAssumption DEF PIC!Lines
<1>2. QED
  BY <1>1 DEF PortOperation, PIC!Next, PIC!vars, picVars
-----------------------------------------------------------------------------
(* What each part of Next does to the controller. *)

(* An instruction is executed in phase exec, and only there. *)
LEMMA InstructionIsPort ==
  ASSUME Instruction
  PROVE  /\ PortOperation
         /\ phase' = "intr"
         /\ UNCHANGED tickVars
         /\ systemHalted' = systemHalted \/ (systemHalted' /\ UNCHANGED picVars)
<1>1. Ports \subseteq PIC!Commands /\ "EOI" \in PIC!Commands
  BY ExecAssumption DEF PIC!Commands
<1>2. CASE Plain \/ Sti \/ Cli \/ Halt \/ DivideError \/ FinalReturn \/ Serve \/ Iret
  BY <1>2 DEF Plain, Sti, Cli, Halt, DivideError, FinalReturn, Serve, Iret, Fetch,
              PortOperation, runVars
<1>3. CASE IllegalOp
  BY <1>3 DEF IllegalOp, Fetch, PortOperation
<1>4. ASSUME NEW mask \in Masks, OutIMR(mask)
      PROVE  PortOperation /\ phase' = "intr" /\ UNCHANGED <<tickVars, runVars>>
  BY <1>4 DEF OutIMR, Fetch, PortOperation
<1>5. ASSUME NEW command \in Ports, OutCommand(command)
      PROVE  PortOperation /\ phase' = "intr" /\ UNCHANGED <<tickVars, runVars>>
  BY <1>1, <1>5 DEF OutCommand, Fetch, PortOperation
<1>6. CASE InCommand
  BY <1>6 DEF InCommand, Fetch, PortOperation, runVars
<1>7. CASE EndOfInterrupt
  BY <1>1, <1>7 DEF EndOfInterrupt, Fetch, PortOperation, runVars
<1>8. QED
  BY <1>2, <1>3, <1>4, <1>5, <1>6, <1>7 DEF Instruction, runVars

(* Polling makes at most one request. *)
LEMMA PollIsPort ==
  ASSUME Poll
  PROVE  PortOperation /\ UNCHANGED <<systemHalted, exeLoaded, tickInterval>>
<1>1. RESET \in PIC!Lines /\ TICK \in PIC!Lines /\ KEYBOARD \in PIC!Lines
  BY ExecAssumption DEF PIC!Lines, RESET, TICK, KEYBOARD
<1>2. PortOperation
  BY <1>1 DEF Poll, PollReset, PollTick, PollKey, PollNothing, PortOperation
<1>3. QED
  BY <1>2 DEF Poll, runVars

(* The commands of the console: a load resets the controller, lexe only    *)
(* the processor's flag, the others are operations like an instruction's.  *)
LEMMA CommandEffect ==
  ASSUME Command
  PROVE  /\ phase = "prompt" /\ phase' \in {"prompt", "loop"}
         /\ \/ CmdLoad
            \/ LoadFileEXE
            \/ PortOperation /\ systemHalted' = systemHalted /\ exeLoaded' = exeLoaded
<1>1. ASSUME NEW n, CmdExecute(n)
      PROVE  /\ phase = "prompt" /\ phase' = "loop" /\ PortOperation
             /\ systemHalted' = systemHalted /\ exeLoaded' = exeLoaded
  BY <1>1 DEF CmdExecute, PortOperation, tickVars
<1>2. ASSUME NEW irq \in PIC!Lines, CmdAssertInterrupt(irq)
      PROVE  /\ phase = "prompt" /\ phase' = phase /\ PortOperation
             /\ systemHalted' = systemHalted /\ exeLoaded' = exeLoaded
  BY <1>2 DEF CmdAssertInterrupt, PortOperation, runVars, tickVars
<1>3. ASSUME NEW n, CmdSetTick(n)
      PROVE  /\ phase = "prompt" /\ phase' = phase /\ PortOperation
             /\ systemHalted' = systemHalted /\ exeLoaded' = exeLoaded
  BY <1>3 DEF CmdSetTick, PortOperation, runVars
<1>4. ASSUME NEW mask \in Masks, PokeIMR(mask)
      PROVE  /\ phase = "prompt" /\ phase' = phase /\ PortOperation
             /\ systemHalted' = systemHalted /\ exeLoaded' = exeLoaded
  BY <1>4 DEF PokeIMR, PortOperation, runVars, tickVars
<1>5. ASSUME NEW flag, PokeIF(flag)
      PROVE  /\ phase = "prompt" /\ phase' = phase /\ PortOperation
             /\ systemHalted' = systemHalted /\ exeLoaded' = exeLoaded
  BY <1>5 DEF PokeIF, PortOperation, runVars, tickVars
<1>6. CASE CmdLoad \/ LoadFileEXE
  BY <1>6 DEF CmdLoad, LoadFileEXE
<1>7. QED
  BY <1>1, <1>2, <1>3, <1>4, <1>5, <1>6 DEF Command

(* After an instruction. An acknowledgement lowers INTR, and a divide      *)
(* error is remembered in systemHalted when its handling zeroes the flag.  *)
LEMMA CheckInterruptsEffect ==
  ASSUME CheckInterrupts, asynch \in BOOLEAN
  PROVE  /\ phase' = "loop" /\ UNCHANGED tickVars
         /\ \/ INTR /\ PIC!InterruptAcknowledge /\ asynch' \in {asynch, FALSE}
            \/ PIC!ClearIntr /\ systemHalted' = TRUE
            \/ UNCHANGED picVars /\ systemHalted' = systemHalted
<1>1. CASE IntHandled
  <2>1. INTR /\ PIC!InterruptAcknowledge
    BY <1>1 DEF IntHandled, Accepts
  <2>2. asynch' \in {asynch, FALSE}
    BY <1>1 DEF IntHandled
  <2>3. QED
    BY <1>1, <2>1, <2>2 DEF IntHandled, EndIteration
<1>2. CASE DivideHandled
  BY <1>2 DEF DivideHandled, EndIteration
<1>3. CASE NothingHandled
  BY <1>3 DEF NothingHandled, EndIteration
<1>4. QED
  BY <1>1, <1>2, <1>3 DEF CheckInterrupts
-----------------------------------------------------------------------------
(* The wake-up is kept by every step. *)
LEMMA WakeupNext ==
  ASSUME asynch \in BOOLEAN, WakeupKept, [Next]_vars
  PROVE  asynch' \in BOOLEAN /\ WakeupKept'
<1>1. CASE Poll
  BY <1>1, PollIsPort, PortOperationKeepsWakeup
<1>2. CASE Instruction
  <2>1. CASE systemHalted' = systemHalted
    BY <1>2, <2>1, InstructionIsPort, PortOperationKeepsWakeup DEF tickVars
  <2>2. CASE systemHalted' /\ UNCHANGED picVars
    BY <2>2 DEF WakeupKept, picVars
  <2>3. QED
    BY <1>2, <2>1, <2>2, InstructionIsPort
<1>3. CASE CheckInterrupts
  <2>1. CASE INTR /\ PIC!InterruptAcknowledge /\ asynch' \in {asynch, FALSE}
    BY <2>1 DEF PIC!InterruptAcknowledge, WakeupKept
  <2>2. CASE PIC!ClearIntr /\ systemHalted' = TRUE
    BY <2>2 DEF PIC!ClearIntr, WakeupKept
  <2>3. CASE UNCHANGED picVars /\ systemHalted' = systemHalted
    BY <1>3, <2>3, CheckInterruptsEffect DEF WakeupKept, picVars, tickVars
  <2>4. QED
    BY <1>3, <2>1, <2>2, <2>3, CheckInterruptsEffect
<1>4. CASE Command
  <2>1. CASE CmdLoad
    BY <2>1 DEF CmdLoad, PIC!ResetPIC, WakeupKept
  <2>2. CASE LoadFileEXE
    BY <2>2 DEF LoadFileEXE, PIC!ClearIntr, WakeupKept
  <2>3. QED
    BY <1>4, <2>1, <2>2, CommandEffect, PortOperationKeepsWakeup
<1>5. CASE ManualBreak \/ ExecuteReturns \/ UNCHANGED vars
  BY <1>5 DEF ManualBreak, ExecuteReturns, WakeupKept, vars, picVars, runVars, tickVars
<1>6. QED
  BY <1>1, <1>2, <1>3, <1>4, <1>5 DEF Next, Run

(* The tick count stays in its range, and an iteration that finds it due   *)
(* makes the request unless it polls a reset key.                          *)
LEMMA TickNext ==
  ASSUME tickInterval \in 0 .. MaxTick, tickCount \in 0 .. MaxTick,
         TickNotStarved, [Next]_vars
  PROVE  /\ tickInterval' \in 0 .. MaxTick /\ tickCount' \in 0 .. MaxTick
         /\ TickNotStarved'
<1>1. MaxTick \in Nat
  BY ExecAssumption
<1>2. Ticked \in 0 .. MaxTick
  BY <1>1 DEF Ticked
<1>3. CASE Poll
  <2>1. CASE PollReset
    BY <1>2, <1>3, <2>1 DEF Poll, PollReset, TickNotStarved
  <2>2. CASE \E c \in Keys \cup Specials : PollTick(c)
    BY <1>1, <1>3, <2>2 DEF Poll, PollTick, TickNotStarved
  <2>3. CASE (\E c \in Keys : PollKey(c)) \/ PollNothing
    BY <1>1, <1>2, <1>3, <2>3 DEF Poll, PollKey, PollNothing, TickDue, TickNotStarved
  <2>4. QED
    BY <1>3, <2>1, <2>2, <2>3 DEF Poll
<1>4. CASE Instruction
  BY <1>4, InstructionIsPort DEF TickNotStarved, tickVars
<1>5. CASE CheckInterrupts
  BY <1>5 DEF CheckInterrupts, IntHandled, DivideHandled, NothingHandled, EndIteration,
              TickNotStarved, tickVars
<1>6. CASE Command
  <2>1. TickNotStarved'
    BY <1>6, CommandEffect DEF TickNotStarved
  <2>2. tickInterval' \in 0 .. MaxTick /\ tickCount' \in 0 .. MaxTick
    BY <1>1, <1>6 DEF Command, CmdExecute, CmdLoad, LoadFileEXE, CmdAssertInterrupt,
                      CmdSetTick, PokeIMR, PokeIF, tickVars
  <2>3. QED
    BY <2>1, <2>2
<1>7. CASE ManualBreak
  BY <1>2, <1>7 DEF ManualBreak, TickNotStarved
<1>8. CASE ExecuteReturns
  BY <1>8 DEF ExecuteReturns, TickNotStarved, tickVars
<1>9. CASE UNCHANGED vars
  BY <1>9 DEF vars, tickVars, keyVars, TickNotStarved
<1>10. QED
  BY <1>3, <1>4, <1>5, <1>6, <1>7, <1>8, <1>9 DEF Next, Run
-----------------------------------------------------------------------------
LEMMA IInvAlways == Spec => []IInv
<1>1. Init => IInv
  <2>1. SUFFICES ASSUME Init
                 PROVE  IInv
    OBVIOUS
  <2>2. asynch = FALSE /\ INTR = FALSE
    BY <2>1 DEF Init, PIC!Init
  <2>3. tickInterval \in 0 .. MaxTick /\ tickCount \in 0 .. MaxTick
    BY <2>1, ExecAssumption DEF Init
  <2>4. phase # "exec"
    BY <2>1 DEF Init
  <2>5. QED
    BY <2>2, <2>3, <2>4 DEF IInv, Counters, WakeupKept, TickNotStarved
<1>2. IInv /\ [Next]_vars => IInv'
  BY WakeupNext, TickNext DEF IInv, Counters
<1>3. QED
  BY <1>1, <1>2, PTL DEF Spec

(* No wake-up is lost between the controller and the processor: while INTR *)
(* is up the processor's flag is set, except after an error that has ended *)
(* a run and after lexe (SimControl.cpp, decode.cpp:62).                   *)
THEOREM NoWakeupLost == Spec => []WakeupKept
  BY IInvAlways, PTL DEF IInv

(* A due tick has become a request when the instruction is executed,       *)
(* unless the iteration has polled a reset key, whatever the keys, the     *)
(* interval and the commands between the runs (CSimControl::Execute).      *)
THEOREM DueTickRequested == Spec => []TickNotStarved
  BY IInvAlways, PTL DEF IInv

(* Every step of the loop is, for the controller, a step that PIC allows;  *)
(* so what is proved of the controller holds of it inside the emulator.    *)
THEOREM LoopUsesController == Spec => UsesPIC
<1>1. Init => PIC!Init
  BY DEF Init
<1>2. IInv /\ [Next]_vars => [PIC!Next]_(PIC!vars)
  <2>1. SUFFICES ASSUME IInv, [Next]_vars
                 PROVE  PIC!Next \/ UNCHANGED PIC!vars
    OBVIOUS
  <2>2. CASE Poll
    BY <2>2, PollIsPort, PortOperationIsPIC
  <2>3. CASE Instruction
    BY <2>3, InstructionIsPort, PortOperationIsPIC
  <2>4. CASE CheckInterrupts
    BY <2>1, <2>4, CheckInterruptsEffect DEF IInv, Counters, PIC!Next, PIC!vars, picVars
  <2>5. CASE Command
    <3>1. CASE CmdLoad
      BY <2>1, <3>1 DEF CmdLoad, PIC!Next, IInv
    <3>2. CASE LoadFileEXE
      BY <3>2 DEF LoadFileEXE, PIC!Next
    <3>3. QED
      BY <2>5, <3>1, <3>2, CommandEffect, PortOperationIsPIC
  <2>6. CASE ManualBreak \/ ExecuteReturns \/ UNCHANGED vars
    BY <2>6 DEF ManualBreak, ExecuteReturns, vars, picVars, PIC!vars
  <2>7. QED
    BY <2>1, <2>2, <2>3, <2>4, <2>5, <2>6 DEF Next, Run
<1>3. QED
  BY <1>1, <1>2, IInvAlways, PTL DEF Spec, UsesPIC, PIC!Spec

-----------------------------------------------------------------------------
(* Handlers by the book.  What follows holds as long as lexe, which        *)
(* empties the stack and not the controller, is not used.                  *)

LEMMA LowestExists ==
  ASSUME NEW S, S \subseteq Nat, S # {}
  PROVE  \E m \in S : \A n \in S : m <= n
<1>1. PICK m \in S : \A n \in S : ~ (<<n, m>> \in OpToRel(<, Nat))
  BY WFMin, NatLessThanWellFounded
<1>2. ASSUME NEW n \in S, n < m
      PROVE  FALSE
  <2>1. <<n, m>> \in {ss \in Nat \X Nat : ss[1] < ss[2]}
    BY <1>2
  <2>2. QED
    BY <1>1, <2>1 DEF OpToRel
<1>3. QED
  BY <1>2

(* The request that is accepted: a pin that asked, of higher priority than *)
(* every one in service.                                                   *)
LEMMA AcceptedRequest ==
  ASSUME NEW irr, NEW isr, NEW imr, irr \subseteq PIC!Lines, isr \subseteq PIC!Pins,
         NEW irq, irq = PIC!PriorityDecode(irr, isr, imr), irq # NumPins
  PROVE  irq \in PIC!Pins /\ irq \in irr /\ \A other \in isr : irq < other
<1> DEFINE asked == irr \ imr
<1>1. NumPins \in Nat
  BY ExecAssumption
<1>2. asked \subseteq Nat
  <2>1. PIC!Lines \subseteq Nat
    BY <1>1 DEF PIC!Lines
  <2>2. QED
    BY <2>1
<1>3. isr \subseteq Nat
  BY <1>1 DEF PIC!Pins
<1>4. irq = PIC!GetPriority(asked) /\ irq < PIC!GetPriority(isr)
  BY DEF PIC!PriorityDecode
<1>5. asked # {}
  BY <1>4 DEF PIC!GetPriority
<1>6. irq \in asked
  <2>1. \E m \in asked : \A n \in asked : m <= n
    BY <1>2, <1>5, LowestExists
  <2>2. QED
    BY <1>4, <1>5, <2>1 DEF PIC!GetPriority
<1>7. irq \in PIC!Pins
  BY <1>1, <1>6 DEF PIC!Lines, PIC!Pins
<1>8. \A other \in isr : irq < other
  <2>1. SUFFICES ASSUME NEW other \in isr
                 PROVE  irq < other
    OBVIOUS
  <2>2. \E m \in isr : \A n \in isr : m <= n
    BY <1>3, <2>1, LowestExists
  <2>3. PIC!GetPriority(isr) \in isr /\ PIC!GetPriority(isr) <= other
    BY <2>1, <2>2 DEF PIC!GetPriority
  <2>4. irq \in Nat /\ other \in Nat /\ PIC!GetPriority(isr) \in Nat
    BY <1>2, <1>3, <1>6, <2>1, <2>3
  <2>5. QED
    BY <1>4, <2>3, <2>4
<1>9. QED
  BY <1>6, <1>7, <1>8

(* An EOI takes the lowest bit. *)
LEMMA LowestIsPriority ==
  ASSUME NEW S, S \subseteq Nat, NEW low \in S, \A n \in S : low <= n
  PROVE  PIC!GetPriority(S) = low
<1>1. \A m \in S : (\A n \in S : m <= n) => m = low
  OBVIOUS
<1>2. QED
  BY <1>1 DEF PIC!GetPriority
-----------------------------------------------------------------------------
(* The invariant. Only the latest handler may have sent its EOI, and then  *)
(* interrupts are off until it returns; so whoever is interrupted is in    *)
(* service. The room on the stack follows from the priorities: the handler *)
(* of irq has at most NumPins - 1 - irq contexts below it.                 *)
Types ==
  /\ IRR \subseteq PIC!Lines
  /\ frames \in Seq(Frames)

OnlyTopEnded ==
  \A k \in DOMAIN frames : ~ InService(k) => k = 1 /\ ~ IFlag

BitsAreHandlers ==
  ISR = {frames[k].irq : k \in {j \in DOMAIN frames : InService(j)}}

Ascending ==
  \A j, k \in DOMAIN frames :
    j < k /\ InService(j) /\ InService(k) => frames[j].irq < frames[k].irq

RoomBelow ==
  \A k \in DOMAIN frames : Len(frames) - k + frames[k].irq <= NumPins - 1

SInv == Types /\ OnlyTopEnded /\ BitsAreHandlers /\ Ascending /\ RoomBelow

LEMMA InvariantSuffices ==
  ASSUME SInv
  PROVE  FramesMatchService
<1>1. NumPins \in Nat
  BY ExecAssumption
<1>2. Len(frames) <= NumPins
  <2>1. CASE frames = <<>>
    BY <1>1, <2>1
  <2>2. CASE frames # <<>>
    <3>1. 1 \in DOMAIN frames /\ frames[1] \in Frames /\ Len(frames) \in Nat
      BY <2>2 DEF SInv, Types
    <3>2. frames[1].irq \in Nat
      BY <1>1, <3>1 DEF Frames, PIC!Pins
    <3>3. QED
      BY <1>1, <3>1, <3>2 DEF SInv, RoomBelow
  <2>3. QED
    BY <2>1, <2>2
<1>3. QED
  BY <1>2 DEF SInv, FramesMatchService, BitsAreHandlers, Ascending
-----------------------------------------------------------------------------
(* Nothing that matters happens to the stack or the bits in service. *)
Quiet ==
  /\ frames' = frames /\ ISR' = ISR
  /\ IRR' \subseteq PIC!Lines
  /\ IFlag' => IFlag \/ (frames # <<>> => InService(1))

LEMMA QuietKeeps ==
  ASSUME SInv, Quiet
  PROVE  SInv'
<1>1. Types' /\ BitsAreHandlers' /\ Ascending' /\ RoomBelow'
  BY DEF SInv, Quiet, Types, BitsAreHandlers, Ascending, RoomBelow, InService
<1>2. OnlyTopEnded'
  BY DEF SInv, Quiet, Types, OnlyTopEnded, InService
<1>3. QED
  BY <1>1, <1>2 DEF SInv

(* What an operation through a port leaves alone, an EOI apart. *)
LEMMA PortIsQuiet ==
  ASSUME SInv, frames' = frames, IFlag' => IFlag,
         \/ \E irq \in PIC!Lines : PIC!FlagInterrupt(irq)
         \/ \E mask : PIC!WriteIMR(mask)
         \/ \E command \in PIC!Commands \ {"EOI"} : PIC!PICWriteByte(command)
         \/ PIC!PICReadByte
         \/ UNCHANGED picVars
  PROVE  Quiet
  BY DEF SInv, Types, Quiet, PIC!FlagInterrupt, PIC!WriteIMR, PIC!PICWriteByte,
         PIC!PICReadByte, PIC!vars, picVars

(* A request is accepted: its handler goes on top. Interrupts are on, so   *)
(* nothing on the stack has sent its EOI, and the new irq is below the     *)
(* whole stack.                                                            *)
LEMMA PushKeeps ==
  ASSUME SInv, IFlag, ~ IFlag', NEW irq \in PIC!Pins,
         \A other \in ISR : irq < other,
         frames' = <<[irq |-> irq, stage |-> "entered"]>> \o frames,
         ISR' = ISR \cup {irq}, IRR' = IRR \ {irq}
  PROVE  SInv'
<1> DEFINE new == [irq |-> irq, stage |-> "entered"]
<1>1. /\ NumPins \in Nat /\ irq \in Nat /\ irq <= NumPins - 1
      /\ \A f \in Frames : f.irq \in Nat
  BY ExecAssumption DEF PIC!Pins, Frames
<1>2. new \in Frames /\ frames \in Seq(Frames) /\ Len(frames) \in Nat
  BY DEF Frames, SInv, Types
<1>3. /\ frames' \in Seq(Frames)
      /\ Len(frames') = Len(frames) + 1 /\ DOMAIN frames' = 1 .. Len(frames) + 1
      /\ DOMAIN frames = 1 .. Len(frames)
      /\ frames'[1] = new
      /\ \A k \in DOMAIN frames : frames'[k + 1] = frames[k]
  BY <1>2
<1>4. \A k \in DOMAIN frames' : k = 1 \/ (k - 1 \in DOMAIN frames /\ frames'[k] = frames[k - 1])
  <2>1. SUFFICES ASSUME NEW k \in DOMAIN frames', k # 1
                 PROVE  k - 1 \in DOMAIN frames /\ frames'[k] = frames[k - 1]
    OBVIOUS
  <2>2. k - 1 \in DOMAIN frames /\ (k - 1) + 1 = k
    BY <1>2, <1>3, <2>1
  <2>3. QED
    BY <1>3, <2>2
<1>5. \A k \in DOMAIN frames : InService(k) /\ frames[k].irq \in ISR /\ frames[k].irq \in Nat
  BY <1>1, <1>2 DEF SInv, OnlyTopEnded, BitsAreHandlers
<1>6. \A k \in DOMAIN frames : irq < frames[k].irq
  BY <1>5
<1>7. \A k \in DOMAIN frames' : frames'[k].stage # "ended"
  BY <1>3, <1>4, <1>5 DEF InService
<1>8. Types'
  BY <1>3 DEF SInv, Types
<1>9. OnlyTopEnded'
  BY <1>7 DEF OnlyTopEnded, InService
<1>10. BitsAreHandlers'
  <2>1. ISR = {frames[k].irq : k \in DOMAIN frames}
    BY <1>5 DEF SInv, BitsAreHandlers
  <2>2. ISR' = {frames'[k].irq : k \in DOMAIN frames'}
    <3>1. \A k \in DOMAIN frames' : frames'[k].irq \in ISR'
      BY <1>3, <1>4, <1>5
    <3>2. irq \in {frames'[k].irq : k \in DOMAIN frames'}
      <4>1. 1 \in DOMAIN frames' /\ frames'[1].irq = irq
        BY <1>2, <1>3
      <4>2. QED
        BY <4>1
    <3>3. \A other \in ISR : \E k \in DOMAIN frames' : other = frames'[k].irq
      <4>1. SUFFICES ASSUME NEW k \in DOMAIN frames
                     PROVE  \E j \in DOMAIN frames' : frames[k].irq = frames'[j].irq
        BY <2>1
      <4>2. k + 1 \in DOMAIN frames' /\ frames'[k + 1] = frames[k]
        BY <1>2, <1>3
      <4>3. QED
        BY <4>2
    <3>4. QED
      BY <3>1, <3>2, <3>3
  <2>3. QED
    BY <1>7, <2>2 DEF BitsAreHandlers, InService
<1>11. Ascending'
  <2>1. SUFFICES ASSUME NEW j \in DOMAIN frames', NEW k \in DOMAIN frames', j < k
                 PROVE  frames'[j].irq < frames'[k].irq
    BY DEF Ascending
  <2>2. k # 1 /\ k - 1 \in DOMAIN frames /\ frames'[k] = frames[k - 1]
    BY <1>2, <1>3, <1>4, <2>1
  <2>3. CASE j = 1
    BY <1>3, <1>6, <2>2, <2>3
  <2>4. CASE j # 1
    <3>1. j - 1 \in DOMAIN frames /\ frames'[j] = frames[j - 1]
      BY <1>4, <2>4
    <3>2. j - 1 < k - 1
      BY <1>2, <1>3, <2>1
    <3>3. QED
      BY <1>5, <2>2, <3>1, <3>2 DEF SInv, Ascending
  <2>5. QED
    BY <2>3, <2>4
<1>12. RoomBelow'
  <2>1. SUFFICES ASSUME NEW k \in DOMAIN frames'
                 PROVE  Len(frames') - k + frames'[k].irq <= NumPins - 1
    BY DEF RoomBelow
  <2>2. CASE k = 1
    <3>1. CASE Len(frames) = 0
      BY <1>1, <1>3, <2>2, <3>1
    <3>2. CASE Len(frames) # 0
      <4>1. 1 \in DOMAIN frames
        BY <1>2, <1>3, <3>2
      <4>2. Len(frames) - 1 + frames[1].irq <= NumPins - 1 /\ irq < frames[1].irq
        BY <1>6, <4>1 DEF SInv, RoomBelow
      <4>3. QED
        BY <1>1, <1>2, <1>3, <1>5, <2>2, <4>1, <4>2
    <3>3. QED
      BY <3>1, <3>2
  <2>3. CASE k # 1
    <3>1. k - 1 \in DOMAIN frames /\ frames'[k] = frames[k - 1]
      BY <1>4, <2>3
    <3>2. Len(frames) - (k - 1) + frames[k - 1].irq <= NumPins - 1
      BY <3>1 DEF SInv, RoomBelow
    <3>3. frames[k - 1].irq \in Nat /\ k \in Nat
      BY <1>2, <1>3, <1>5, <2>1, <3>1
    <3>4. QED
      BY <1>1, <1>2, <1>3, <3>1, <3>2, <3>3
  <2>4. QED
    BY <2>2, <2>3
<1>13. QED
  BY <1>8, <1>9, <1>10, <1>11, <1>12 DEF SInv

(* The stage of the handler on top changes, and nothing else. *)
LEMMA StageChange ==
  ASSUME NEW fs \in Seq(Frames), fs # <<>>, NEW stage \in {"entered", "served", "ended"}
  PROVE  LET gs == [fs EXCEPT ![1].stage = stage]
         IN  /\ gs \in Seq(Frames) /\ Len(gs) = Len(fs) /\ DOMAIN gs = DOMAIN fs
             /\ gs[1].stage = stage
             /\ \A k \in DOMAIN fs : gs[k].irq = fs[k].irq
             /\ \A k \in DOMAIN fs : k # 1 => gs[k] = fs[k]
<1> DEFINE top == [fs[1] EXCEPT !.stage = stage]
           gs == [fs EXCEPT ![1] = top]
<1>1. 1 \in 1 .. Len(fs) /\ fs[1] \in Frames
  OBVIOUS
<1>2. top \in Frames /\ top.irq = fs[1].irq /\ top.stage = stage
  BY <1>1 DEF Frames
<1>3. /\ gs \in Seq(Frames) /\ Len(gs) = Len(fs)
      /\ \A k \in 1 .. Len(fs) : gs[k] = IF k = 1 THEN top ELSE fs[k]
  BY <1>1, <1>2, ExceptSeq
<1>4. DOMAIN fs = 1 .. Len(fs) /\ DOMAIN gs = DOMAIN fs
  OBVIOUS
<1>5. gs[1] = top
  BY <1>1, <1>3
<1> HIDE DEF top
<1>6. QED
  BY <1>1, <1>2, <1>3, <1>4, <1>5 DEF top

(* The handler on top attends to its device. *)
LEMMA ServeKeeps ==
  ASSUME SInv, Serve
  PROVE  SInv'
<1>1. /\ frames \in Seq(Frames) /\ frames # <<>> /\ Len(frames) \in Nat
      /\ 1 \in DOMAIN frames
  BY DEF SInv, Types, Serve
<1>2. /\ frames' = [frames EXCEPT ![1].stage = "served"] /\ frames[1].stage = "entered"
      /\ ISR' = ISR /\ IRR' = IRR /\ IFlag' = IFlag
  BY DEF Serve, SetStage, Top, picVars
<1>3. frames' \in Seq(Frames)
  BY <1>1, <1>2, StageChange
<1>4. /\ DOMAIN frames' = DOMAIN frames /\ Len(frames') = Len(frames)
      /\ \A k \in DOMAIN frames : frames'[k].irq = frames[k].irq
      /\ \A k \in DOMAIN frames : frames'[k].stage = "ended" <=> frames[k].stage = "ended"
  BY <1>1, <1>2, StageChange
<1>5. Types'
  BY <1>2, <1>3 DEF SInv, Types
<1>6. OnlyTopEnded' /\ BitsAreHandlers' /\ Ascending' /\ RoomBelow'
  BY <1>2, <1>4 DEF SInv, OnlyTopEnded, BitsAreHandlers, Ascending, RoomBelow, InService
<1>7. QED
  BY <1>5, <1>6 DEF SInv

(* The EOI of the handler on top takes its own bit, the lowest. *)
LEMMA EndKeeps ==
  ASSUME SInv, Disciplined, EndOfInterrupt
  PROVE  SInv'
<1>1. /\ frames \in Seq(Frames) /\ frames # <<>> /\ Len(frames) \in Nat
      /\ 1 \in DOMAIN frames /\ frames[1].stage = "served" /\ ~ IFlag
      /\ \A k \in DOMAIN frames : k \in Nat /\ k >= 1 /\ frames[k].irq \in Nat
  <2>1. /\ frames \in Seq(Frames) /\ frames # <<>>
        /\ frames[1].stage = "served" /\ ~ IFlag
    BY DEF SInv, Types, EndOfInterrupt, Top
  <2>2. \A f \in Frames : f.irq \in Nat
    BY ExecAssumption DEF Frames, PIC!Pins
  <2>3. QED
    BY <2>1, <2>2
<1>2. /\ frames' = [frames EXCEPT ![1].stage = "ended"]
      /\ ISR' = ISR \ {PIC!GetPriority(ISR)} /\ IRR' = IRR /\ IFlag' = IFlag
  BY <1>1 DEF EndOfInterrupt, SetStage, PIC!PICWriteByte, PIC!NonspecificEOI
<1>3. frames' \in Seq(Frames)
  BY <1>1, <1>2, StageChange
<1>4. /\ DOMAIN frames' = DOMAIN frames /\ Len(frames') = Len(frames)
      /\ \A k \in DOMAIN frames : frames'[k].irq = frames[k].irq
      /\ \A k \in DOMAIN frames : k # 1 => frames'[k] = frames[k]
      /\ frames'[1].stage = "ended"
  BY <1>1, <1>2, StageChange
<1>5. \A k \in DOMAIN frames : InService(k)
  BY <1>1 DEF SInv, OnlyTopEnded, InService
<1>6. \A k \in DOMAIN frames : k # 1 => frames[1].irq < frames[k].irq
  BY <1>1, <1>5 DEF SInv, Ascending
<1>7. ISR = {frames[k].irq : k \in DOMAIN frames}
  BY <1>5 DEF SInv, BitsAreHandlers
<1>8. PIC!GetPriority(ISR) = frames[1].irq
  <2>1. frames[1].irq \in ISR /\ ISR \subseteq Nat
    BY <1>1, <1>7
  <2>2. \A n \in ISR : frames[1].irq <= n
    <3>1. SUFFICES ASSUME NEW k \in DOMAIN frames
                   PROVE  frames[1].irq <= frames[k].irq
      BY <1>7
    <3>2. QED
      BY <1>1, <1>6
  <2>3. QED
    BY <2>1, <2>2, LowestIsPriority
<1>9. Types'
  BY <1>2, <1>3 DEF SInv, Types
<1>10. \A k \in DOMAIN frames' : frames'[k].stage # "ended" <=> k # 1
  BY <1>4, <1>5 DEF InService
<1>11. OnlyTopEnded' /\ RoomBelow'
  BY <1>1, <1>2, <1>4, <1>10 DEF SInv, OnlyTopEnded, RoomBelow, InService
<1>12. BitsAreHandlers'
  <2>1. ISR' = {frames[k].irq : k \in {j \in DOMAIN frames : j # 1}}
    <3>1. \A other \in ISR' : other \in ISR /\ other # frames[1].irq
      BY <1>2, <1>8
    <3>2. \A other \in ISR' : \E k \in DOMAIN frames : k # 1 /\ other = frames[k].irq
      BY <1>7, <3>1
    <3>3. \A k \in DOMAIN frames : k # 1 => frames[k].irq \in ISR'
      BY <1>1, <1>2, <1>6, <1>7, <1>8
    <3>4. QED
      BY <3>2, <3>3
  <2>2. {j \in DOMAIN frames' : InService(j)'} = {j \in DOMAIN frames : j # 1}
    BY <1>4, <1>10 DEF InService
  <2>3. QED
    BY <1>4, <2>1, <2>2 DEF BitsAreHandlers
<1>13. Ascending'
  BY <1>1, <1>4, <1>10 DEF SInv, Ascending, InService
<1>14. QED
  BY <1>9, <1>11, <1>12, <1>13 DEF SInv

(* The handler on top returns: its bit is gone already. *)
LEMMA ReturnKeeps ==
  ASSUME SInv, Disciplined, Iret
  PROVE  SInv'
<1>1. /\ frames \in Seq(Frames) /\ frames # <<>> /\ Len(frames) \in Nat
      /\ 1 \in DOMAIN frames /\ frames[1].stage = "ended"
      /\ DOMAIN frames = 1 .. Len(frames)
  BY DEF SInv, Types, Iret, Top
<1>2. frames' = Tail(frames) /\ ISR' = ISR /\ IRR' = IRR
  BY DEF Iret, picVars
<1>3. /\ frames' \in Seq(Frames) /\ Len(frames') = Len(frames) - 1
      /\ DOMAIN frames' = 1 .. Len(frames) - 1
      /\ \A k \in DOMAIN frames' : k + 1 \in DOMAIN frames /\ frames'[k] = frames[k + 1]
  BY <1>1, <1>2
<1>4. \A k \in DOMAIN frames : InService(k) <=> k # 1
  BY <1>1 DEF SInv, OnlyTopEnded, InService
<1>5. \A k \in DOMAIN frames' : frames'[k].stage # "ended"
  <2>1. SUFFICES ASSUME NEW k \in DOMAIN frames'
                 PROVE  frames'[k].stage # "ended"
    OBVIOUS
  <2>2. k + 1 \in DOMAIN frames /\ k + 1 # 1 /\ frames'[k] = frames[k + 1]
    BY <1>1, <1>3
  <2>3. QED
    BY <1>4, <2>2 DEF InService
<1>6. Types' /\ OnlyTopEnded'
  BY <1>2, <1>3, <1>5 DEF SInv, Types, OnlyTopEnded, InService
<1>7. BitsAreHandlers'
  <2>1. ISR = {frames[k].irq : k \in {j \in DOMAIN frames : j # 1}}
    BY <1>4 DEF SInv, BitsAreHandlers
  <2>2. \A k \in DOMAIN frames' : frames'[k].irq \in ISR
    <3>1. SUFFICES ASSUME NEW k \in DOMAIN frames'
                   PROVE  frames'[k].irq \in ISR
      OBVIOUS
    <3>2. k + 1 \in DOMAIN frames /\ k + 1 # 1 /\ frames'[k] = frames[k + 1]
      BY <1>1, <1>3
    <3>3. QED
      BY <2>1, <3>2
  <2>3. \A other \in ISR : \E k \in DOMAIN frames' : other = frames'[k].irq
    <3>1. SUFFICES ASSUME NEW j \in DOMAIN frames, j # 1
                   PROVE  \E k \in DOMAIN frames' : frames[j].irq = frames'[k].irq
      BY <2>1
    <3>2. j - 1 \in DOMAIN frames' /\ (j - 1) + 1 = j
      BY <1>1, <1>3, <3>1
    <3>3. QED
      BY <1>3, <3>2
  <2>4. ISR' = {frames'[k].irq : k \in DOMAIN frames'}
    BY <1>2, <2>2, <2>3
  <2>5. QED
    BY <1>5, <2>4 DEF BitsAreHandlers, InService
<1>8. Ascending'
  <2>1. SUFFICES ASSUME NEW j \in DOMAIN frames', NEW k \in DOMAIN frames', j < k
                 PROVE  frames'[j].irq < frames'[k].irq
    BY DEF Ascending
  <2>2. /\ j + 1 \in DOMAIN frames /\ j + 1 # 1 /\ frames'[j] = frames[j + 1]
        /\ k + 1 \in DOMAIN frames /\ k + 1 # 1 /\ frames'[k] = frames[k + 1]
        /\ j + 1 < k + 1
    BY <1>1, <1>3, <2>1
  <2>3. QED
    BY <1>4, <2>2 DEF SInv, Ascending
<1>9. RoomBelow'
  <2>1. SUFFICES ASSUME NEW k \in DOMAIN frames'
                 PROVE  Len(frames') - k + frames'[k].irq <= NumPins - 1
    BY DEF RoomBelow
  <2>2. k + 1 \in DOMAIN frames /\ frames'[k] = frames[k + 1]
    BY <1>3
  <2>3. Len(frames) - (k + 1) + frames[k + 1].irq <= NumPins - 1
    BY <2>2 DEF SInv, RoomBelow
  <2>4. frames[k + 1].irq \in Nat /\ k \in Nat /\ NumPins \in Nat
    <3>1. NumPins \in Nat /\ \A f \in Frames : f.irq \in Nat
      BY ExecAssumption DEF Frames, PIC!Pins
    <3>2. frames[k + 1] \in Frames
      BY <1>1, <2>2
    <3>3. QED
      BY <1>1, <1>3, <2>1, <3>1, <3>2
  <2>5. QED
    BY <1>1, <1>3, <2>2, <2>3, <2>4
<1>10. QED
  BY <1>6, <1>7, <1>8, <1>9 DEF SInv
-----------------------------------------------------------------------------
(* What the steps do to the stack and the registers, for both theorems. *)

InstructionOther ==
  Instruction /\ ~ Serve /\ ~ EndOfInterrupt /\ ~ Iret

LEMMA InstructionOtherEffect ==
  ASSUME SInv, Disciplined, InstructionOther
  PROVE  Quiet /\ IRR' = IRR /\ unread' = unread
<1>1. Ports \subseteq PIC!Commands \ {"EOI"}
  BY ExecAssumption DEF PIC!Commands
<1>2. CASE Plain \/ Cli \/ Halt \/ DivideError \/ IllegalOp \/ FinalReturn
  BY <1>2 DEF Plain, Cli, Halt, DivideError, IllegalOp, FinalReturn, Quiet, picVars,
              cpuVars, SInv, Types
<1>3. CASE Sti
  BY <1>3 DEF Sti, Top, Quiet, picVars, SInv, Types, InService
<1>4. ASSUME NEW mask \in Masks, OutIMR(mask)
      PROVE  Quiet /\ IRR' = IRR /\ unread' = unread
  BY <1>4 DEF OutIMR, PIC!WriteIMR, Quiet, cpuVars, SInv, Types
<1>5. ASSUME NEW command \in Ports, OutCommand(command)
      PROVE  Quiet /\ IRR' = IRR /\ unread' = unread
  BY <1>1, <1>5 DEF OutCommand, PIC!PICWriteByte, PIC!vars, Quiet, cpuVars, SInv, Types
<1>6. CASE InCommand
  BY <1>6 DEF InCommand, PIC!PICReadByte, Quiet, cpuVars, SInv, Types
<1>7. QED
  BY <1>2, <1>3, <1>4, <1>5, <1>6 DEF InstructionOther, Instruction

LEMMA PollEffect ==
  ASSUME SInv, Poll
  PROVE  Quiet /\ IRR \subseteq IRR' /\ (unread' = unread \/ KEYBOARD \in IRR')
<1>1. RESET \in PIC!Lines /\ TICK \in PIC!Lines /\ KEYBOARD \in PIC!Lines
  BY ExecAssumption DEF PIC!Lines, RESET, TICK, KEYBOARD
<1>2. frames' = frames /\ IFlag' = IFlag
  BY DEF Poll, cpuVars
<1>3. CASE PollReset
  BY <1>1, <1>2, <1>3 DEF PollReset, PIC!FlagInterrupt, Quiet, SInv, Types
<1>4. CASE \E c \in Keys \cup Specials : PollTick(c)
  BY <1>1, <1>2, <1>4 DEF PollTick, PIC!FlagInterrupt, Quiet, SInv, Types
<1>5. CASE \E c \in Keys : PollKey(c)
  BY <1>1, <1>2, <1>5 DEF PollKey, PIC!FlagInterrupt, Quiet, SInv, Types
<1>6. CASE PollNothing
  BY <1>2, <1>6 DEF PollNothing, picVars, Quiet, SInv, Types
<1>7. QED
  BY <1>3, <1>4, <1>5, <1>6 DEF Poll

(* A command other than a load. *)
LEMMA CommandKeepsFrames ==
  ASSUME SInv, Disciplined, ~ ExeLoads, Command, ~ CmdLoad
  PROVE  Quiet /\ IRR \subseteq IRR' /\ unread' = unread
<1>1. ASSUME NEW n, CmdExecute(n) \/ CmdSetTick(n)
      PROVE  Quiet /\ IRR \subseteq IRR' /\ unread' = unread
  BY <1>1 DEF CmdExecute, CmdSetTick, Quiet, picVars, cpuVars, keyVars, SInv, Types
<1>2. ASSUME NEW irq \in PIC!Lines, CmdAssertInterrupt(irq)
      PROVE  Quiet /\ IRR \subseteq IRR' /\ unread' = unread
  BY <1>2 DEF CmdAssertInterrupt, PIC!FlagInterrupt, Quiet, cpuVars, keyVars, SInv, Types
<1>3. ASSUME NEW mask \in Masks, PokeIMR(mask)
      PROVE  Quiet /\ IRR \subseteq IRR' /\ unread' = unread
  BY <1>3 DEF PokeIMR, PIC!WriteIMR, Quiet, cpuVars, keyVars, SInv, Types
<1>4. QED
  BY <1>1, <1>2, <1>3 DEF Command, LoadFileEXE, PokeIF

LEMMA IntHandledEffect ==
  ASSUME SInv, IntHandled
  PROVE  \/ Quiet /\ IRR' = IRR /\ unread' = unread
         \/ \E irq \in IRR \cap PIC!Pins :
              /\ IFlag /\ ~ IFlag' /\ \A other \in ISR : irq < other
              /\ frames' = <<[irq |-> irq, stage |-> "entered"]>> \o frames
              /\ ISR' = ISR \cup {irq} /\ IRR' = IRR \ {irq}
              /\ unread' = unread
<1> DEFINE irq == PIC!PriorityDecode(IRR, ISR, IMR)
<1>1. IRR \subseteq PIC!Lines /\ ISR \subseteq PIC!Pins
  <2>1. \A k \in DOMAIN frames : frames[k].irq \in PIC!Pins
    <3>1. \A f \in Frames : f.irq \in PIC!Pins
      BY DEF Frames
    <3>2. \A k \in DOMAIN frames : frames[k] \in Frames
      BY DEF SInv, Types
    <3>3. QED
      BY <3>1, <3>2
  <2>2. QED
    BY <2>1 DEF SInv, Types, BitsAreHandlers
<1>2. IFlag /\ unread' = unread
  BY DEF IntHandled, Accepts, keyVars
<1>3. CASE irq = NumPins
  BY <1>1, <1>2, <1>3 DEF IntHandled, PIC!InterruptAcknowledge, Quiet
<1>4. CASE irq # NumPins
  <2>1. irq \in PIC!Pins /\ irq \in IRR /\ \A other \in ISR : irq < other
    BY <1>1, <1>4, AcceptedRequest
  <2>2. /\ frames' = <<[irq |-> irq, stage |-> "entered"]>> \o frames /\ ~ IFlag'
        /\ ISR' = ISR \cup {irq} /\ IRR' = IRR \ {irq}
    BY <1>4 DEF IntHandled, PIC!InterruptAcknowledge
  <2>3. QED
    BY <1>2, <2>1, <2>2
<1>5. QED
  BY <1>3, <1>4

(* The other steps: the run ends, or goes on with nothing handled. *)
LEMMA OtherStepsEffect ==
  ASSUME SInv,
         ManualBreak \/ ExecuteReturns \/ DivideHandled \/ NothingHandled \/ UNCHANGED vars
  PROVE  Quiet /\ IRR' = IRR /\ unread' = unread
<1>1. CASE ManualBreak
  BY <1>1 DEF ManualBreak, picVars, cpuVars, keyVars, Quiet, SInv, Types
<1>2. CASE ExecuteReturns
  BY <1>2 DEF ExecuteReturns, picVars, keyVars, Quiet, SInv, Types
<1>3. CASE DivideHandled
  BY <1>3 DEF DivideHandled, PIC!ClearIntr, keyVars, Quiet, SInv, Types
<1>4. CASE NothingHandled
  <2>1. UNCHANGED <<picVars, cpuVars, keyVars>>
    BY <1>4 DEF NothingHandled
  <2>2. QED
    BY <2>1 DEF picVars, cpuVars, keyVars, Quiet, SInv, Types
<1>5. CASE UNCHANGED vars
  BY <1>5 DEF vars, picVars, cpuVars, keyVars, Quiet, SInv, Types
<1>6. QED
  BY <1>1, <1>2, <1>3, <1>4, <1>5
-----------------------------------------------------------------------------
LEMMA SInvNext ==
  ASSUME SInv, Disciplined, ~ ExeLoads, [Next]_vars
  PROVE  SInv'
<1>1. CASE Poll
  BY <1>1, PollEffect, QuietKeeps
<1>2. CASE Instruction
  <2>1. CASE InstructionOther
    BY <2>1, InstructionOtherEffect, QuietKeeps
  <2>2. QED
    BY <1>2, <2>1, ServeKeeps, EndKeeps, ReturnKeeps DEF InstructionOther
<1>3. CASE IntHandled
  <2>1. CASE Quiet
    BY <2>1, QuietKeeps
  <2>2. CASE ~ Quiet
    <3>1. PICK irq \in IRR \cap PIC!Pins :
            /\ IFlag /\ ~ IFlag' /\ \A other \in ISR : irq < other
            /\ frames' = <<[irq |-> irq, stage |-> "entered"]>> \o frames
            /\ ISR' = ISR \cup {irq} /\ IRR' = IRR \ {irq}
      BY <1>3, <2>2, IntHandledEffect
    <3>2. QED
      BY <3>1, PushKeeps
  <2>3. QED
    BY <2>1, <2>2
<1>4. CASE Command
  <2>1. CASE CmdLoad
    <3>1. IRR' = {} /\ ISR' = {} /\ frames' = <<>>
      BY <2>1 DEF CmdLoad, PIC!ResetPIC
    <3>2. QED
      BY <3>1 DEF SInv, Types, OnlyTopEnded, BitsAreHandlers, Ascending, RoomBelow
  <2>2. QED
    BY <1>4, <2>1, CommandKeepsFrames, QuietKeeps
<1>5. CASE ManualBreak \/ ExecuteReturns \/ DivideHandled \/ NothingHandled \/ UNCHANGED vars
  BY <1>5, OtherStepsEffect, QuietKeeps
<1>6. QED
  BY <1>1, <1>2, <1>3, <1>4, <1>5 DEF Next, Run, CheckInterrupts

LEMMA SInvInit == Init => SInv
<1>1. Init => IRR = {} /\ ISR = {} /\ frames = <<>>
  BY DEF Init, PIC!Init
<1>2. QED
  BY <1>1 DEF SInv, Types, OnlyTopEnded, BitsAreHandlers, Ascending, RoomBelow

LEMMA SInvAlways == ASSUME Disciplined, ~ ExeLoads PROVE Spec => []SInv
<1>1. SInv /\ [Next]_vars => SInv'
  BY SInvNext
<1>2. QED
  BY <1>1, SInvInit, PTL DEF Spec

(* The EOI of a disciplined handler ends itself and no other: the bits in  *)
(* service are those of the handlers on the stack that have not ended,     *)
(* each above the ones it interrupted, and the stack never holds more      *)
(* contexts than there are pins, whatever the user asserts, masks or       *)
(* types (PIC.cpp:118-188, decode.cpp, CSimControl::Execute).              *)
THEOREM ServiceMatchesStack ==
  ASSUME Disciplined, ~ ExeLoads
  PROVE  Spec => []FramesMatchService
<1>1. SInv => FramesMatchService
  BY InvariantSuffices
<1>2. QED
  BY <1>1, SInvAlways, PTL
-----------------------------------------------------------------------------
(* A key that was stored is requested, or its handler is about to read it. *)

KeyAwaited ==
  \E k \in DOMAIN frames : frames[k].irq = KEYBOARD /\ frames[k].stage = "entered"

LEMMA QuietKeepsKey ==
  ASSUME KeyNotForgotten, Quiet, IRR \subseteq IRR', unread' = unread
  PROVE  KeyNotForgotten'
  BY DEF KeyNotForgotten, Quiet

(* A handler that has not read the device yet stays as it is while the     *)
(* others serve, end and return.                                           *)
LEMMA ServicingKeepsKey ==
  ASSUME SInv, Disciplined, KeyNotForgotten, Serve \/ EndOfInterrupt \/ Iret
  PROVE  KeyNotForgotten'
<1>1. frames \in Seq(Frames) /\ frames # <<>> /\ Len(frames) \in Nat /\ Top = frames[1]
  BY DEF SInv, Types, Serve, EndOfInterrupt, Iret, Top
<1>2. IRR' = IRR /\ (unread' => unread)
  <2>1. CASE Serve
    BY <2>1 DEF Serve, picVars
  <2>2. CASE EndOfInterrupt
    BY <2>2 DEF EndOfInterrupt, PIC!PICWriteByte, PIC!NonspecificEOI
  <2>3. CASE Iret
    BY <2>3 DEF Iret, picVars
  <2>4. QED
    BY <2>1, <2>2, <2>3
<1>3. SUFFICES ASSUME unread', KEYBOARD \notin IRR
               PROVE  KeyAwaited'
  BY <1>2 DEF KeyNotForgotten, KeyAwaited
<1>4. PICK k \in DOMAIN frames : frames[k].irq = KEYBOARD /\ frames[k].stage = "entered"
  BY <1>2, <1>3 DEF KeyNotForgotten
<1>5. k # 1
  <2>1. CASE Serve
    BY <1>1, <1>3, <1>4, <2>1 DEF Serve
  <2>2. CASE EndOfInterrupt \/ Iret
    BY <1>1, <1>4, <2>2 DEF EndOfInterrupt, Iret
  <2>3. QED
    BY <2>1, <2>2
<1>6. CASE Serve \/ EndOfInterrupt
  <2>1. \E stage \in {"served", "ended"} : frames' = [frames EXCEPT ![1].stage = stage]
    BY <1>1, <1>6 DEF Serve, EndOfInterrupt, SetStage
  <2>2. k \in DOMAIN frames' /\ frames'[k] = frames[k]
    BY <1>1, <1>4, <1>5, <2>1, StageChange
  <2>3. QED
    BY <1>4, <2>2 DEF KeyAwaited
<1>7. CASE Iret
  <2>1. frames' = Tail(frames)
    BY <1>7 DEF Iret
  <2>2. k - 1 \in DOMAIN frames' /\ frames'[k - 1] = frames[k]
    BY <1>1, <1>4, <1>5, <2>1
  <2>3. QED
    BY <1>4, <2>2 DEF KeyAwaited
<1>8. QED
  BY <1>6, <1>7

(* The keyboard's request becomes its handler, and no other request is     *)
(* lost.                                                                   *)
LEMMA AcceptKeepsKey ==
  ASSUME SInv, KeyNotForgotten, NEW irq \in IRR \cap PIC!Pins,
         frames' = <<[irq |-> irq, stage |-> "entered"]>> \o frames,
         IRR' = IRR \ {irq}, unread' = unread
  PROVE  KeyNotForgotten'
<1>1. frames \in Seq(Frames) /\ Len(frames) \in Nat
  BY DEF SInv, Types
<1>2. [irq |-> irq, stage |-> "entered"] \in Frames
  BY DEF Frames
<1>3. /\ DOMAIN frames' = 1 .. Len(frames) + 1
      /\ frames'[1] = [irq |-> irq, stage |-> "entered"]
      /\ \A k \in DOMAIN frames : k + 1 \in DOMAIN frames' /\ frames'[k + 1] = frames[k]
  BY <1>1, <1>2
<1>4. CASE unread /\ irq = KEYBOARD
  <2>1. 1 \in DOMAIN frames'
    BY <1>1, <1>3
  <2>2. frames'[1].irq = KEYBOARD /\ frames'[1].stage = "entered"
    BY <1>3, <1>4
  <2>3. QED
    BY <2>1, <2>2 DEF KeyNotForgotten
<1>5. CASE ~ unread \/ KEYBOARD \in IRR'
  BY <1>5 DEF KeyNotForgotten
<1>6. CASE unread /\ irq # KEYBOARD /\ KEYBOARD \notin IRR'
  <2>1. PICK k \in DOMAIN frames : frames[k].irq = KEYBOARD /\ frames[k].stage = "entered"
    BY <1>6 DEF KeyNotForgotten
  <2>2. QED
    BY <1>3, <2>1 DEF KeyNotForgotten
<1>7. QED
  BY <1>4, <1>5, <1>6

LEMMA KeyNext ==
  ASSUME SInv, KeyNotForgotten, Disciplined, ~ ExeLoads, [Next]_vars
  PROVE  KeyNotForgotten'
<1>1. CASE Poll
  <2>1. CASE unread' = unread
    BY <1>1, <2>1, PollEffect, QuietKeepsKey
  <2>2. CASE KEYBOARD \in IRR'
    BY <2>2 DEF KeyNotForgotten
  <2>3. QED
    BY <1>1, <2>1, <2>2, PollEffect
<1>2. CASE Instruction
  <2>1. CASE InstructionOther
    BY <2>1, InstructionOtherEffect, QuietKeepsKey
  <2>2. QED
    BY <1>2, <2>1, ServicingKeepsKey DEF InstructionOther
<1>3. CASE IntHandled
  <2>1. CASE Quiet /\ IRR' = IRR /\ unread' = unread
    BY <2>1, QuietKeepsKey
  <2>2. QED
    BY <1>3, <2>1, IntHandledEffect, AcceptKeepsKey
<1>4. CASE Command
  <2>1. CASE CmdLoad
    BY <2>1 DEF CmdLoad, KeyNotForgotten
  <2>2. QED
    BY <1>4, <2>1, CommandKeepsFrames, QuietKeepsKey
<1>5. CASE ManualBreak \/ ExecuteReturns \/ DivideHandled \/ NothingHandled \/ UNCHANGED vars
  BY <1>5, OtherStepsEffect, QuietKeepsKey
<1>6. QED
  BY <1>1, <1>2, <1>3, <1>4, <1>5 DEF Next, Run, CheckInterrupts

(* A key that was stored at KEY_BUF_ADDR is not forgotten: until it is     *)
(* read or replaced, a request is pending or the handler has still to read *)
(* it (CSimControl::Execute, SetKeyboardBuffer).                           *)
THEOREM KeysRead ==
  ASSUME Disciplined, ~ ExeLoads
  PROVE  Spec => []KeyNotForgotten
<1>1. Init => KeyNotForgotten
  BY DEF Init, KeyNotForgotten
<1>2. SInv /\ KeyNotForgotten /\ [Next]_vars => KeyNotForgotten'
  BY KeyNext
<1>3. QED
  BY <1>1, <1>2, SInvAlways, PTL DEF Spec
=============================================================================
