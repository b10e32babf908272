-------------------------- MODULE RegisterMonitors --------------------------
(***************************************************************************)
(* The register monitors of the console (emulator/SimControl.cpp): the     *)
(* copies of the monitored registers that are made at the start of a run   *)
(* and compared after every instruction, and the command that pokes a      *)
(* register.                                                               *)
(*                                                                         *)
(* Three registers stand for the others: the word CX, its low byte CL and  *)
(* the word CS; CX and CL are those the code treats in a way of their own. *)
(***************************************************************************)
EXTENDS Monitors

CONSTANT
  OfferedRegisters    \* the monitors the user may set: registerNum, mode, value

Words == 0 .. (MaxByte + 1) * (MaxByte + 1) - 1
Registers == {"CL", "CX", "CS"}
Contents == [cx : Words, cs : Words]

ASSUME RegisterAssumption ==
  /\ MaxByte \in Nat \ {0} /\ MaxID \in Nat
  /\ OfferedRegisters \subseteq [registerNum : Registers, mode : {"ON_MODIFY", "ON_BECOME"}, value : Words]

VARIABLES
  x86,                \* the registers
  registerMonitors, registerMonitorsActive,
  stage,              \* prompt or run
  fresh,              \* history: this run has not executed an instruction
  reported            \* history: the IDs reported after the last instruction

registerVars == <<x86, registerMonitors, registerMonitorsActive, stopFlag, stage, fresh, reported>>

Unset == -1
-----------------------------------------------------------------------------
Content(registerNum, contents) ==
  CASE registerNum = "CX" -> contents.cx
    [] registerNum = "CL" -> contents.cx % (MaxByte + 1)
    [] registerNum = "CS" -> contents.cs

(* InitRegisterMonitorContents: for CX, the content of CS is copied. *)
Saved(m, contents) ==
  Content(IF m.registerNum = "CX" THEN "CS" ELSE m.registerNum, contents)

(* Mutants of Met: a become monitor waits for any change, or for its value *)
(* to be left.                                                             *)
Met_AnyChange(m, contents) == Content(m.registerNum, contents) # m.lastValue

Met_Leaves(m, contents) ==
  LET new == Content(m.registerNum, contents)
  IN  \/ m.mode = "ON_MODIFY" /\ m.lastValue # new
      \/ m.mode = "ON_BECOME" /\ m.value # new /\ m.value = m.lastValue

(* The condition of a monitor; for CL, that its value was another before   *)
(* is not asked.                                                           *)
Met(m, contents) ==
  LET new == Content(m.registerNum, contents)
  IN  \/ m.mode = "ON_MODIFY" /\ m.lastValue # new
      \/ m.mode = "ON_BECOME" /\ m.value = new /\ (m.registerNum = "CL" \/ m.value # m.lastValue)

(* breakFlag is not reset from one monitor of the list to the next. *)
Reported(contents) ==
  {registerMonitors[i].ID : i \in {j \in DOMAIN registerMonitors :
                                     \E k \in 1 .. j : Met(registerMonitors[k], contents)}}

Copied(F(_, _), contents) ==
  [i \in DOMAIN registerMonitors |->
     [registerMonitors[i] EXCEPT !.lastValue = F(registerMonitors[i], contents)]]

Checked(m, contents) == Content(m.registerNum, contents)
-----------------------------------------------------------------------------
RegisterInit ==
  /\ x86 = [cx |-> 0, cs |-> 1]
  /\ registerMonitors = <<>> /\ registerMonitorsActive = FALSE
  /\ stopFlag = FALSE /\ stage = "prompt"
  /\ fresh = FALSE /\ reported = {}

AtPrompt == stage = "prompt" /\ reported' = {} /\ UNCHANGED <<stopFlag, stage, fresh>>

SetRegMonitor(c) ==
  /\ AtPrompt /\ NextID(registerMonitors) <= MaxID
  /\ registerMonitors' =
       Append(registerMonitors, [ID |-> NextID(registerMonitors), registerNum |-> c.registerNum, mode |-> c.mode,
                                 value |-> c.value, lastValue |-> Unset])
  /\ registerMonitorsActive' = TRUE
  /\ UNCHANGED x86

ClearRegMonitor(id) ==
  /\ AtPrompt
  /\ registerMonitors' = RemoveFirstMatch(registerMonitors, LAMBDA m : m.ID = id)
  /\ registerMonitorsActive' = (registerMonitorsActive /\ registerMonitors' # <<>>)
  /\ UNCHANGED x86

ClearRegMonitors ==
  /\ AtPrompt
  /\ registerMonitors' = <<>> /\ registerMonitorsActive' = FALSE
  /\ UNCHANGED x86

(* CmdPokeReg, SetRegister: a poke of CX goes to CS. *)
Poke(registerNum, value) ==
  /\ AtPrompt
  /\ x86' = CASE registerNum = "CL" ->
                   [x86 EXCEPT !.cx = @ - (@ % (MaxByte + 1)) + (value % (MaxByte + 1))]
              [] registerNum \in {"CX", "CS"} -> [x86 EXCEPT !.cs = value]
  /\ UNCHANGED <<registerMonitors, registerMonitorsActive>>

(* CmdLoad, LoadFileEXE: the registers are cleared, CS is set. *)
LoadProgram(segment) ==
  /\ AtPrompt
  /\ x86' = [cx |-> 0, cs |-> segment]
  /\ UNCHANGED <<registerMonitors, registerMonitorsActive>>

StartRun ==
  /\ stage = "prompt" /\ stage' = "run" /\ fresh' = TRUE /\ reported' = {}
  /\ registerMonitors' = Copied(Saved, x86)
  /\ UNCHANGED <<x86, registerMonitorsActive, stopFlag>>

(* One iteration: the instruction leaves the registers with some contents, *)
(* CheckRegisterMonitors compares and copies them.                         *)
RunInstruction(contents) ==
  /\ stage = "run" /\ ~ stopFlag
  /\ x86' = contents /\ fresh' = FALSE
  /\ reported' = IF registerMonitorsActive THEN Reported(contents) ELSE {}
  /\ registerMonitors' = IF registerMonitorsActive THEN Copied(Checked, contents)
                                                   ELSE registerMonitors
  /\ stopFlag' = (reported' # {})
  /\ UNCHANGED <<registerMonitorsActive, stage>>

(* At the flag, when the instructions have been counted, or at Ctrl+B. *)
EndRun ==
  /\ stage = "run" /\ stage' = "prompt"
  /\ stopFlag' = FALSE /\ reported' = {}
  /\ UNCHANGED <<x86, registerMonitors, registerMonitorsActive, fresh>>

RegisterNext ==
  \/ \E c \in OfferedRegisters : SetRegMonitor(c)
  \/ \E id \in 0 .. MaxID : ClearRegMonitor(id)
  \/ ClearRegMonitors
  \/ \E registerNum \in Registers, value \in Words : Poke(registerNum, value)
  \/ \E segment \in Words : LoadProgram(segment)
  \/ StartRun \/ EndRun
  \/ \E contents \in Contents : RunInstruction(contents)

RegisterSpec == RegisterInit /\ [][RegisterNext]_registerVars
-----------------------------------------------------------------------------
RegisterTypeOK ==
  /\ x86 \in Contents
  /\ \A m \in ToSet(registerMonitors) : m.ID \in 0 .. MaxID /\ m.lastValue \in Words \cup {Unset}
  /\ registerMonitorsActive = (registerMonitors # <<>>)
  /\ stopFlag \in BOOLEAN /\ fresh \in BOOLEAN
  /\ stage \in {"prompt", "run"}
  /\ reported \subseteq 0 .. MaxID

(* The copy is wrong until the first instruction has been checked. *)
Miscopied(m) == fresh /\ m.registerNum = "CX"

(* The iteration changes what a modify monitor watches, or brings a become *)
(* monitor's value.                                                        *)
Reason(m) ==
  /\ Content(m.registerNum, x86) # Content(m.registerNum, x86')
  /\ m.mode = "ON_BECOME" => Content(m.registerNum, x86') = m.value

(* The iteration after which a register has changed or become the value is *)
(* the last one, and it reports the monitor.                               *)
ChangeStops ==
  [][\A m \in ToSet(registerMonitors) :
       stage = "run" /\ Reason(m) /\ ~ Miscopied(m) => stopFlag' /\ m.ID \in reported']_registerVars

(* A run is only stopped when the first monitor reported holds: it has a   *)
(* reason, or is the become monitor of CL and its value is there.          *)
StopHasReason ==
  [][stopFlag' =>
       \E m \in ToSet(registerMonitors) :
         /\ m.ID \in reported' /\ \A id \in reported' : m.ID <= id
         /\ \/ Reason(m) \/ Miscopied(m)
            \/ m.registerNum = "CL" /\ m.mode = "ON_BECOME" /\ Content("CL", x86') = m.value]_registerVars
=============================================================================
