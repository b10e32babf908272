------------------------------ MODULE Debugger ------------------------------
(***************************************************************************)
(* The breakpoints of the console (emulator/SimControl.cpp) and the        *)
(* commands that run the program: execute, step, step over and execute to, *)
(* the last two with a temporary breakpoint of their own.                  *)
(*                                                                         *)
(* The program may go anywhere; at the addresses in CallSites it has       *)
(* calls, elsewhere jumps and returns, and an interrupt may come anywhere. *)
(* Monitors, errors and the end of the program may stop it at any          *)
(* instruction (see X86Exec).                                              *)
(***************************************************************************)
EXTENDS Integers, SequencesExt

CONSTANTS
  LastAddress,    \* the last address of the memory
  CallSites,      \* where IsCall is true
  Repeats,        \* the counts given to the execute command, 0: until it ends
  MaxID,          \* bound: breakpoint IDs
  MaxCalls        \* bound: nested calls

None == -1

Forever == -1     \* Execute(0): 2^32 - 1 iterations, not counted down here

Addresses == 0 .. LastAddress

ASSUME DebuggerAssumption ==
  /\ LastAddress \in Nat /\ MaxID \in Nat /\ MaxCalls \in Nat
  /\ CallSites \subseteq Addresses
  /\ Repeats \subseteq Nat

VARIABLES
  breakpoints,        \* the linked list
  breakpointsActive,
  ip,                 \* the address of the next instruction
  calls,              \* history: the return addresses of the calls under way
  phase,              \* prompt, or run: in the loop of Execute
  repeat,             \* repeatCount
  stopFlag,
  breakpointID,       \* the temporary breakpoint of the command, or None
  started,            \* history: `calls' when a step over began, or NoCall
  executed            \* history: this run has executed an instruction

listVars == <<breakpoints, breakpointsActive>>
machineVars == <<ip, calls>>
vars == <<listVars, machineVars, phase, repeat, stopFlag, breakpointID, started, executed>>

NoCall == <<None>>

Types == {"BREAK_USER", "BREAK_STEP_OVER"}

Breakpoints == [ID : 0 .. MaxID, address : Addresses, type : Types]

Reached(address) == \E k \in DOMAIN breakpoints : breakpoints[k].address = address
-----------------------------------------------------------------------------
(* One more than that of the last breakpoint. *)
NextID == IF breakpoints = <<>> THEN 0 ELSE breakpoints[Len(breakpoints)].ID + 1

(* Mutant of SetBreakpoint: the flag is not looked after. *)
SetBreakpoint_Inactive(address, type) ==
  /\ NextID <= MaxID
  /\ breakpoints' = Append(breakpoints, [ID |-> NextID, address |-> address, type |-> type])
  /\ UNCHANGED breakpointsActive

SetBreakpoint(address, type) ==
  /\ NextID <= MaxID
  /\ breakpoints' = Append(breakpoints, [ID |-> NextID, address |-> address, type |-> type])
  /\ breakpointsActive' = TRUE

(* Mutant of Without: all breakpoints at the address of this one go. *)
Without_Address(id) ==
  SelectSeq(breakpoints, LAMBDA b : \A k \in DOMAIN breakpoints :
    breakpoints[k].ID = id => b.address # breakpoints[k].address)

Without(id) == RemoveFirstMatch(breakpoints, LAMBDA b : b.ID = id)

(* Mutant of ClearBreakpoint: the flag is not looked after. *)
ClearBreakpoint_Inactive(id) ==
  /\ breakpoints' = Without(id)
  /\ breakpointsActive' = FALSE

ClearBreakpoint(id) ==
  /\ breakpoints' = Without(id)
  /\ breakpointsActive' = (breakpointsActive /\ breakpoints' # <<>>)
-----------------------------------------------------------------------------
Init ==
  /\ breakpoints = <<>> /\ breakpointsActive = FALSE
  /\ ip = 0 /\ calls = <<>>
  /\ phase = "prompt" /\ repeat = 0 /\ stopFlag = FALSE
  /\ breakpointID = None /\ started = NoCall /\ executed = FALSE

runVars == <<phase, repeat, stopFlag, breakpointID, started, executed>>

(* b, c, c all. *)
CmdSetBreakpoint(address) ==
  /\ phase = "prompt"
  /\ SetBreakpoint(address, "BREAK_USER")
  /\ UNCHANGED <<machineVars, runVars>>

CmdClearBreakpoint(id) ==
  /\ phase = "prompt"
  /\ ClearBreakpoint(id)
  /\ UNCHANGED <<machineVars, runVars>>

ClearBreakpoints ==
  /\ phase = "prompt"
  /\ breakpoints' = <<>> /\ breakpointsActive' = FALSE
  /\ UNCHANGED <<machineVars, runVars>>

(* l: the program starts anew; its breakpoints remain. *)
CmdLoad(address) ==
  /\ phase = "prompt"
  /\ ip' = address /\ calls' = <<>> /\ stopFlag' = FALSE
  /\ UNCHANGED <<listVars, phase, repeat, breakpointID, started, executed>>

Execute(n) ==
  /\ phase' = "run" /\ repeat' = IF n = 0 THEN Forever ELSE n
  /\ executed' = FALSE
  /\ UNCHANGED <<machineVars, stopFlag>>

(* e, e n, and s with n = 1. *)
CmdExecute(n) ==
  /\ phase = "prompt"
  /\ Execute(n)
  /\ UNCHANGED <<listVars, breakpointID, started>>

(* eto. *)
CmdExecuteTo(address) ==
  /\ phase = "prompt"
  /\ SetBreakpoint(address, "BREAK_STEP_OVER")
  /\ breakpointID' = NextID
  /\ Execute(0)
  /\ UNCHANGED started

(* o: at a call run to the instruction after it, else step. *)
CmdStepOver ==
  /\ phase = "prompt"
  /\ IF ip \in CallSites
     THEN /\ ip + 1 \in Addresses
          /\ SetBreakpoint(ip + 1, "BREAK_STEP_OVER")
          /\ breakpointID' = NextID
          /\ started' = calls
          /\ Execute(0)
     ELSE Execute(1) /\ UNCHANGED <<listVars, breakpointID, started>>
-----------------------------------------------------------------------------
(* What one instruction does to the machine: it goes to the address `next' *)
(* with `stack' for the calls under way.                                   *)
Stacks == {calls, <<ip + 1>> \o calls} \cup {Tail(c) : c \in {calls} \ {<<>>}}

Call(next, stack) ==
  /\ ip \in CallSites /\ ip + 1 \in Addresses /\ Len(calls) < MaxCalls
  /\ stack = <<ip + 1>> \o calls

(* INT n and INTO count as calls, and may be handled by the simulator or   *)
(* do nothing.                                                             *)
Service(next, stack) ==
  /\ ip \in CallSites /\ ip + 1 \in Addresses
  /\ next = ip + 1 /\ stack = calls

Jump(next, stack) == ip \notin CallSites /\ stack = calls

Return(next, stack) ==
  /\ ip \notin CallSites /\ calls # <<>>
  /\ next = Head(calls) /\ stack = Tail(calls)

(* An interrupt puts off the instruction at `next', the one at ip' is the  *)
(* first of its handler.                                                   *)
Interrupt(next, stack) ==
  /\ Len(stack) < MaxCalls
  /\ ip' \in Addresses /\ calls' = <<next>> \o stack

NoInterrupt(next, stack) == ip' = next /\ calls' = stack

(* An instruction and an interrupt are one step. *)
X86EMU_exec ==
  \E next \in Addresses, stack \in Stacks :
    /\ Call(next, stack) \/ Service(next, stack) \/ Jump(next, stack) \/ Return(next, stack)
    /\ Interrupt(next, stack) \/ NoInterrupt(next, stack)

Iterating == phase = "run" /\ ~ stopFlag /\ repeat # 0

(* One iteration of Execute's loop: CheckBreakpoints looks at where the    *)
(* instruction and the interrupt have led.  `other': the program ends,     *)
(* fails, or changes something that is monitored.                          *)
Instruction(other) ==
  /\ Iterating
  /\ X86EMU_exec
  /\ executed' = TRUE
  /\ repeat' = IF repeat = Forever THEN Forever ELSE repeat - 1
  /\ stopFlag' = (other \/ (breakpointsActive /\ Reached(ip')))
  /\ UNCHANGED <<listVars, phase, breakpointID, started>>

(* Execute returns and the command ends: a temporary breakpoint goes. *)
CommandEnds ==
  /\ IF breakpointID = None THEN UNCHANGED listVars ELSE ClearBreakpoint(breakpointID)
  /\ phase' = "prompt" /\ repeat' = 0 /\ breakpointID' = None /\ started' = NoCall
  /\ UNCHANGED machineVars

Stopped ==
  /\ phase = "run" /\ (stopFlag \/ repeat = 0)
  /\ CommandEnds
  /\ stopFlag' = FALSE
  /\ UNCHANGED executed

(* Mutant of ManualBreak: as in Execute, the command returns at once. *)
ManualBreak_AtOnce ==
  /\ Iterating
  /\ phase' = "prompt" /\ repeat' = 0 /\ breakpointID' = None /\ started' = NoCall
  /\ UNCHANGED <<listVars, machineVars, stopFlag, executed>>

(* Ctrl+B, past the reset of the flag, which the game may have caused to   *)
(* be set in this iteration; the next run finds it (see MemoryMonitors).   *)
ManualBreak ==
  /\ Iterating
  /\ CommandEnds
  /\ \E hit \in BOOLEAN : stopFlag' = hit
  /\ UNCHANGED executed

Next ==
  \/ \E address \in Addresses :
       CmdSetBreakpoint(address) \/ CmdExecuteTo(address) \/ CmdLoad(address)
  \/ \E id \in 0 .. MaxID : CmdClearBreakpoint(id)
  \/ \E n \in Repeats : CmdExecute(n)
  \/ ClearBreakpoints \/ CmdStepOver
  \/ \E other \in BOOLEAN : Instruction(other)
  \/ Stopped \/ ManualBreak

Spec == Init /\ [][Next]_vars
-----------------------------------------------------------------------------
(* The list ascends, so that an ID names one breakpoint: also after a      *)
(* deletion, when the ID of a deleted breakpoint is given out again.       *)
IDsAscend ==
  \A j, k \in DOMAIN breakpoints : j < k => breakpoints[j].ID < breakpoints[k].ID

(* Whatever ends a step over or an execute to, no temporary breakpoint is  *)
(* left at the prompt: it would stop a later run without a message.        *)
TemporaryGone ==
  phase = "prompt" =>
    \A k \in DOMAIN breakpoints : breakpoints[k].type = "BREAK_USER"

(* The breakpoints of the user.  Their order in the list is that of the    *)
(* IDs (IDsAscend).                                                        *)
Users == {breakpoints[k] : k \in {j \in DOMAIN breakpoints : breakpoints[j].type = "BREAK_USER"}}

(* Running the program leaves the breakpoints of the user alone, although  *)
(* step over adds one and clears by ID, and may share its address.         *)
UserBreakpointsKept == [][phase = "run" \/ phase' = "run" => Users' = Users]_vars

(* A run does not execute an instruction at a breakpoint it has come to,   *)
(* be it the first of a handler or one that an interrupt had put off;      *)
(* breakpointsActive, which is checked first, is never stale.              *)
BreakpointsStop == [][(\E other \in BOOLEAN : Instruction(other)) /\ executed
                        => ~ Reached(ip)]_vars

(* A step over never gets past the return of its call: until it ends, the  *)
(* program is in the routine that was called or in one called or entered   *)
(* by an interrupt from there.  An interrupt may come together with the    *)
(* return, so that the temporary breakpoint is not seen before the handler *)
(* has returned to it.  The breakpoint is only an address, so that the     *)
(* step may end too early, in an inner call from the same place.           *)
StepOverNeverLeaves == started # NoCall => IsSuffix(started, calls)
=============================================================================
