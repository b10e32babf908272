------------------------------- MODULE X86Exec -------------------------------
(***************************************************************************)
(* The execution loop of Emu86: CSimControl::Execute, the interrupt checks *)
(* of X86EMU_exec after every instruction, and the commands of the console *)
(* that reach the processor or the interrupt controller, composed with     *)
(* the controller (PIC).                                                   *)
(*                                                                         *)
(* One thread runs everything.  `phase' says where it is:                  *)
(*   prompt  ExecLoop waits for a command                                  *)
(*   loop    at the top of Execute's loop                                  *)
(*   exec    the iteration has polled the keyboard and the clock; an       *)
(*           instruction is executed next                                  *)
(*   intr    the instruction is done; X86EMU_exec checks for interrupts    *)
(*                                                                         *)
(* The 8086 program is any sequence of the instructions that matter here;  *)
(* with Disciplined it serves each interrupt by the book: it reads the     *)
(* device, sends one EOI with interrupts off, leaves them off, returns.    *)
(***************************************************************************)
EXTENDS Integers, Sequences

CONSTANTS
  NumPins,      \* NUM_INTERRUPT_PINS
  Keys,         \* the ordinary characters that may be typed
  Disciplined,  \* whether handlers follow the protocol above
  ExeLoads,     \* whether the lexe command is used
  Masks,        \* the values that are written to IMR
  Ports,        \* the bytes, EOI apart, written to the command port
  MaxTick,      \* bound: the tick intervals are 0 .. MaxTick
  MaxRepeat,    \* bound: the longest counted run
  MaxFrames     \* bound: interrupted contexts on the program's stack

ASSUME ExecAssumption ==
  /\ NumPins \in Nat /\ NumPins > 2
  /\ MaxTick \in Nat /\ MaxRepeat \in Nat \ {0} /\ MaxFrames \in Nat \ {0}
  /\ Disciplined \in BOOLEAN /\ ExeLoads \in BOOLEAN
  /\ Masks \subseteq SUBSET (0 .. NumPins - 1)
  /\ Ports \subseteq {"IRR_READ_CMD", "ISR_READ_CMD", "IGNORED"}

RESET == 0
TICK == 1
KEYBOARD == 2

Specials == {"NONE", "CTRL_B", "KEY_RESET", "KEY_TICK"}
ASSUME KeysAssumption == Keys \cap Specials = {}

Forever == -1   \* Execute(0): 2^32 - 1 iterations, never counted down here

VARIABLES
  IRR, ISR, IMR, PICstate, INTR, asynch,   \* see PIC
  phase,
  repeat,         \* repeatCount, 0 outside a run
  stopFlag, systemHalted,
  IFlag,          \* the interrupt flag of the processor
  halted,         \* M.x86.intr & INTR_HALTED
  divide,         \* M.x86.intr & INTR_SYNCH, with intno = 0
  frames,         \* the contexts pushed by interrupts, the latest first
  exeLoaded,      \* history: lexe has been used since the last l
  tickInterval,
  tickCount,      \* saturates at MaxTick: it is only compared with intervals
  key,            \* the character c of this iteration, until it is used
  keyBuffer,      \* the byte at KEY_BUF_ADDR
  unread          \* history: a key was stored and not read since

PIC == INSTANCE PIC

picVars == <<IRR, ISR, IMR, PICstate, INTR, asynch>>
cpuVars == <<IFlag, halted, divide, frames>>
runVars == <<repeat, stopFlag, systemHalted>>
keyVars == <<key, keyBuffer, unread>>
tickVars == <<tickInterval, tickCount, exeLoaded>>
vars == <<picVars, cpuVars, runVars, keyVars, tickVars, phase>>

(* An interrupted context, with what its handler has done so far. *)
Frames == [irq : PIC!Pins, stage : {"entered", "served", "ended"}]

Top == Head(frames)
SetStage(stage) == frames' = [frames EXCEPT ![1].stage = stage]
-----------------------------------------------------------------------------
(* InitSim. *)
Init ==
  /\ PIC!Init
  /\ phase = "prompt"
  /\ repeat = 0 /\ stopFlag = FALSE /\ systemHalted = FALSE
  /\ IFlag = TRUE /\ halted = FALSE /\ divide = FALSE /\ frames = <<>>
  /\ tickInterval = MaxTick /\ tickCount = 0 /\ exeLoaded = FALSE
  /\ key = "NONE" /\ keyBuffer = "NONE" /\ unread = FALSE
-----------------------------------------------------------------------------
(* The console. *)

(* e, e n, s: Execute. *)
CmdExecute(n) ==
  /\ phase = "prompt"
  /\ repeat' = n
  /\ phase' = "loop"
  /\ UNCHANGED <<picVars, cpuVars, keyVars, tickVars, stopFlag, systemHalted>>

(* l: the registers are cleared, intr with them, and ResetProcessor resets *)
(* the controller and the counters. The program starts over, so nothing    *)
(* of the old one is on the stack and no key waits for it.                 *)
CmdLoad ==
  /\ phase = "prompt"
  /\ PIC!ResetPIC
  /\ asynch' = FALSE
  /\ IFlag' = TRUE /\ halted' = FALSE /\ divide' = FALSE /\ frames' = <<>>
  /\ tickCount' = 0 /\ stopFlag' = FALSE /\ systemHalted' = FALSE
  /\ unread' = FALSE /\ exeLoaded' = FALSE
  /\ UNCHANGED <<phase, repeat, tickInterval, key, keyBuffer>>

(* lexe: the registers are cleared the same way, but nothing is reset. *)
LoadFileEXE ==
  /\ ExeLoads
  /\ phase = "prompt"
  /\ PIC!ClearIntr
  /\ IFlag' = TRUE /\ halted' = FALSE /\ divide' = FALSE /\ frames' = <<>>
  /\ unread' = FALSE /\ exeLoaded' = TRUE
  /\ UNCHANGED <<phase, runVars, tickInterval, tickCount, key, keyBuffer>>

(* a n: accepts one number more than there are pins. *)
CmdAssertInterrupt(irq) ==
  /\ phase = "prompt"
  /\ PIC!FlagInterrupt(irq)
  /\ UNCHANGED <<phase, cpuVars, runVars, keyVars, tickVars>>

(* t n: the count so far is kept. *)
CmdSetTick(n) ==
  /\ phase = "prompt"
  /\ tickInterval' = n
  /\ UNCHANGED <<phase, picVars, cpuVars, runVars, keyVars, tickCount, exeLoaded>>

(* The poke register command on IMR and IF (SetRegister). *)
PokeIMR(mask) ==
  /\ phase = "prompt"
  /\ PIC!WriteIMR(mask)
  /\ UNCHANGED <<phase, cpuVars, runVars, keyVars, tickVars>>

PokeIF(flag) ==
  /\ phase = "prompt"
  /\ ~ Disciplined
  /\ flag => Len(frames) < MaxFrames
  /\ IFlag' = flag
  /\ UNCHANGED <<phase, picVars, runVars, keyVars, tickVars, halted, divide, frames>>

Command ==
  \/ \E n \in {Forever} \cup 1 .. MaxRepeat : CmdExecute(n)
  \/ CmdLoad
  \/ LoadFileEXE
  \/ \E irq \in PIC!Lines : CmdAssertInterrupt(irq)
  \/ \E n \in 0 .. MaxTick : CmdSetTick(n)
  \/ \E mask \in Masks : PokeIMR(mask)
  \/ \E flag \in BOOLEAN : PokeIF(flag)
-----------------------------------------------------------------------------
(* Execute, up to the instruction: the clock and one key are looked at,    *)
(* and at most one request comes of the two.                               *)
Ticked == IF tickCount < MaxTick THEN tickCount + 1 ELSE tickCount

TickDue == tickInterval # 0 /\ Ticked >= tickInterval

PollReset ==
  /\ key' = "KEY_RESET"
  /\ PIC!FlagInterrupt(RESET)
  /\ tickCount' = Ticked
  /\ UNCHANGED <<keyBuffer, unread>>

(* A clock tick, or the key that stands for one. Whatever key was taken    *)
(* from the window in this iteration is not looked at any more.            *)
PollTick(c) ==
  /\ c \notin {"CTRL_B", "KEY_RESET"}
  /\ TickDue \/ c = "KEY_TICK"
  /\ key' = c
  /\ PIC!FlagInterrupt(TICK)
  /\ tickCount' = 0
  /\ UNCHANGED <<keyBuffer, unread>>

(* Mutant of PollKey: a key comes before a due tick. *)
PollKey_First(c) ==
  /\ key' = c /\ keyBuffer' = c /\ unread' = TRUE
  /\ PIC!FlagInterrupt(KEYBOARD)
  /\ tickCount' = Ticked

PollKey(c) ==
  /\ ~ TickDue
  /\ key' = c /\ keyBuffer' = c /\ unread' = TRUE    \* SetKeyboardBuffer
  /\ PIC!FlagInterrupt(KEYBOARD)
  /\ tickCount' = Ticked

PollNothing ==
  /\ ~ TickDue
  /\ key' = "NONE"
  /\ tickCount' = Ticked
  /\ UNCHANGED <<picVars, keyBuffer, unread>>

Iterating == phase = "loop" /\ repeat # 0 /\ ~ stopFlag

Poll ==
  /\ Iterating
  /\ \/ PollReset
     \/ \E c \in Keys \cup Specials : PollTick(c)
     \/ \E c \in Keys : PollKey(c)
     \/ PollNothing
  /\ phase' = "exec"
  /\ UNCHANGED <<cpuVars, runVars, tickInterval, exeLoaded>>

(* CTRL_B returns from the middle of the iteration, past the end of        *)
(* Execute that resets the flags; the game has been called, and may have   *)
(* written to monitored memory.                                            *)
ManualBreak ==
  /\ Iterating
  /\ \E hit \in BOOLEAN : stopFlag' = hit
  /\ tickCount' = Ticked
  /\ repeat' = 0
  /\ phase' = "prompt"
  /\ UNCHANGED <<picVars, cpuVars, systemHalted, keyVars, tickInterval, exeLoaded>>

(* The end of Execute. *)
ExecuteReturns ==
  /\ phase = "loop"
  /\ repeat = 0 \/ stopFlag
  /\ stopFlag' = FALSE
  /\ halted' = (halted /\ ~ systemHalted)
  /\ phase' = "prompt"
  /\ repeat' = 0
  /\ UNCHANGED <<picVars, keyVars, tickVars, IFlag, divide, frames, systemHalted>>
-----------------------------------------------------------------------------
(* Instructions: phase exec to phase intr.                                 *)
Fetch == phase = "exec" /\ phase' = "intr" /\ key' = "NONE" /\ UNCHANGED tickVars

(* Any instruction with no effect here. *)
Plain == Fetch /\ UNCHANGED <<picVars, cpuVars, runVars, keyBuffer, unread>>

(* Interrupts may be taken again: there must be room for the context, and  *)
(* a disciplined handler that has sent its EOI leaves them off.            *)
Sti ==
  /\ Fetch
  /\ Len(frames) < MaxFrames
  /\ (Disciplined /\ frames # <<>>) => Top.stage # "ended"
  /\ IFlag' = TRUE
  /\ UNCHANGED <<picVars, runVars, keyBuffer, unread, halted, divide, frames>>

Cli ==
  /\ Fetch
  /\ IFlag' = FALSE
  /\ UNCHANGED <<picVars, runVars, keyBuffer, unread, halted, divide, frames>>

Halt ==
  /\ Fetch
  /\ halted' = TRUE
  /\ UNCHANGED <<picVars, runVars, keyBuffer, unread, IFlag, divide, frames>>

(* DIV and IDIV by zero or with overflow: x86emu_intr_raise(0). *)
DivideError ==
  /\ Fetch
  /\ divide' = TRUE
  /\ UNCHANGED <<picVars, runVars, keyBuffer, unread, IFlag, halted, frames>>

(* An illegal opcode: SystemHalted and HALT_SYS. *)
IllegalOp ==
  /\ Fetch
  /\ systemHalted' = TRUE /\ stopFlag' = TRUE
  /\ halted' = TRUE
  /\ UNCHANGED <<picVars, keyBuffer, unread, repeat, IFlag, divide, frames>>

(* A return with SS:SP where the program started: ProgramTerminated.       *)
FinalReturn ==
  /\ Fetch
  /\ frames = <<>>
  /\ stopFlag' = TRUE
  /\ UNCHANGED <<picVars, cpuVars, keyBuffer, unread, repeat, systemHalted>>

OutIMR(mask) ==
  /\ Fetch
  /\ PIC!WriteIMR(mask)
  /\ UNCHANGED <<cpuVars, runVars, keyBuffer, unread>>

(* OUT of anything but an EOI to the command port, and IN from it. *)
OutCommand(command) ==
  /\ Fetch
  /\ PIC!PICWriteByte(command)
  /\ UNCHANGED <<cpuVars, runVars, keyBuffer, unread>>

InCommand ==
  /\ Fetch
  /\ PIC!PICReadByte
  /\ UNCHANGED <<cpuVars, runVars, keyBuffer, unread>>

(* The handler of the latest interrupt attends to its device; for the      *)
(* keyboard that is to read the buffer.                                    *)
Serve ==
  /\ Fetch
  /\ frames # <<>> /\ Top.stage = "entered"
  /\ SetStage("served")
  /\ unread' = (unread /\ Top.irq # KEYBOARD)
  /\ UNCHANGED <<picVars, runVars, keyBuffer, IFlag, halted, divide>>

EndOfInterrupt ==
  /\ Fetch
  /\ PIC!PICWriteByte("EOI")
  /\ Disciplined => (~ IFlag /\ frames # <<>> /\ Top.stage = "served")
  /\ IF frames = <<>> THEN UNCHANGED frames ELSE SetStage("ended")
  /\ UNCHANGED <<runVars, keyBuffer, unread, IFlag, halted, divide>>

(* Pops the flags that the interrupt pushed, and it came with IF set. *)
Iret ==
  /\ Fetch
  /\ frames # <<>>
  /\ Disciplined => Top.stage = "ended"
  /\ frames' = Tail(frames)
  /\ IFlag' = TRUE
  /\ UNCHANGED <<picVars, runVars, keyBuffer, unread, halted, divide>>

Instruction ==
  \/ Plain \/ Sti \/ Cli \/ Halt \/ DivideError \/ IllegalOp \/ FinalReturn
  \/ \E mask \in Masks : OutIMR(mask)
  \/ \E command \in Ports : OutCommand(command)
  \/ InCommand \/ Serve \/ EndOfInterrupt \/ Iret
-----------------------------------------------------------------------------
(* X86EMU_exec after the instruction. With any bit of intr set, and the    *)
(* processor not halted, a pending divide error is reported (Int00h, which *)
(* stops the run) and then INTR is looked at. Whatever is handled zeroes   *)
(* all of intr. Execute then checks breakpoints and monitors, which stop   *)
(* the run or not.                                                         *)
Checks == phase = "intr" /\ ~ halted

(* INTR is looked at. *)
Accepts == Checks /\ (divide \/ asynch) /\ INTR /\ IFlag

EndIteration(stop) ==
  /\ \E hit \in BOOLEAN : stopFlag' = (stopFlag \/ stop \/ hit)
  /\ repeat' = IF repeat = Forever THEN repeat ELSE repeat - 1
  /\ phase' = "loop"

IntHandled ==
  /\ Accepts
  /\ PIC!InterruptAcknowledge
  /\ LET irq == PIC!PriorityDecode(IRR, ISR, IMR)
     IN  IF irq = NumPins
         THEN /\ asynch' = (asynch /\ ~ divide)
              /\ UNCHANGED <<IFlag, frames>>
         ELSE /\ asynch' = FALSE
              /\ frames' = <<[irq |-> irq, stage |-> "entered"]>> \o frames
              /\ IFlag' = FALSE
  /\ divide' = FALSE
  /\ systemHalted' = (systemHalted \/ divide)
  /\ EndIteration(divide)
  /\ UNCHANGED <<halted, keyVars, tickVars>>

(* Mutant of DivideHandled: the pin is lowered with the flags. *)
DivideHandled_PinToo ==
  /\ Checks /\ divide /\ ~ Accepts
  /\ INTR' = FALSE /\ asynch' = FALSE
  /\ divide' = FALSE
  /\ systemHalted' = TRUE
  /\ EndIteration(TRUE)
  /\ UNCHANGED <<IRR, ISR, IMR, PICstate, IFlag, frames, halted, keyVars, tickVars>>

DivideHandled ==
  /\ Checks /\ divide /\ ~ Accepts
  /\ PIC!ClearIntr
  /\ divide' = FALSE
  /\ systemHalted' = TRUE
  /\ EndIteration(TRUE)
  /\ UNCHANGED <<IFlag, frames, halted, keyVars, tickVars>>

NothingHandled ==
  /\ phase = "intr"
  /\ ~ Accepts
  /\ halted \/ ~ divide
  /\ EndIteration(FALSE)
  /\ UNCHANGED <<picVars, cpuVars, systemHalted, keyVars, tickVars>>

CheckInterrupts == IntHandled \/ DivideHandled \/ NothingHandled
-----------------------------------------------------------------------------
Run == Poll \/ ExecuteReturns \/ Instruction \/ CheckInterrupts

Next == Run \/ ManualBreak \/ Command

Spec == Init /\ [][Next]_vars
=============================================================================
