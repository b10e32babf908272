--------------------------- MODULE MemoryMonitors ---------------------------
(***************************************************************************)
(* The memory monitors of the console (emulator/SimControl.cpp), which the *)
(* memory accesses of emulator/sys.cpp consult, and the stop flag between  *)
(* them and the loop of Execute.                                           *)
(*                                                                         *)
(* A byte is a member of Bytes, and a value the four bytes of an unsigned  *)
(* int, lowest first.  An access is by the instruction, by the game (which *)
(* is called before the keyboard is polled) or by the keyboard buffer.     *)
(***************************************************************************)
EXTENDS Monitors

CONSTANTS
  MemSize,        \* M.mem_size
  Offered         \* the monitors the user may set: address, size, mode, value

Bytes == 0 .. MaxByte
Values == [0 .. 3 -> Bytes]
Addresses == 0 .. MemSize - 1
Modes == {"ON_READ", "ON_WRITE", "ON_MODIFY", "ON_ACCESS", "ON_BECOME"}

(* A monitor lies in the memory (the code takes others, too, and may then  *)
(* read past its end); the size of a become monitor is checked by          *)
(* CmdSetMemMonitor.                                                       *)
ASSUME MonitorAssumption ==
  /\ MemSize \in Nat /\ MaxByte \in Nat /\ MaxID \in Nat
  /\ \A c \in Offered :
       /\ c.address \in Addresses /\ c.size \in 1 .. MemSize - c.address
       /\ c.mode \in Modes /\ c.value \in Values
       /\ c.mode = "ON_BECOME" => c.size <= 4

VARIABLES
  memory,
  memoryMonitors, memoryMonitorsActive,
  phase,          \* prompt, or in Execute: top, game, poll, instruction
  access,         \* history: the access of the last step, and the IDs reported
  hits,           \* history: a monitor has been reported in this run
  ran             \* this run has executed an instruction, perhaps all it is to

listVars == <<memoryMonitors, memoryMonitorsActive>>
runVars == <<hits, ran>>
vars == <<memory, listVars, stopFlag, phase, access, runVars>>
-----------------------------------------------------------------------------
(* The bytes of an access and those of a monitor have one in common. *)
Overlaps(m, address, size) == m.address + m.size > address /\ m.address < address + size

(* Mutants of MemoryWillChange: only the first byte is looked at; the byte *)
(* looked at may be outside of the monitor.                                *)
MemoryWillChange_First(m, address, size, value) ==
  /\ address \in m.address .. m.address + m.size - 1
  /\ memory[address] # value[0]

(* A byte to be written in the monitor is another than the one there. *)
MemoryWillChange(m, address, size, value) ==
  \E i \in 0 .. size - 1 : /\ address + i \in m.address .. m.address + m.size - 1
                           /\ memory[address + i] # value[i]

(* Mutant of MemoryWillBecome: the bytes below the write are ignored. *)
MemoryWillBecome_Above(m, address, value) ==
  \A j \in 0 .. m.size - 1 :
    m.address + j >= address =>
      m.value[j] = IF m.address + j <= address + 3 THEN value[m.address + j - address]
                                                   ELSE memory[m.address + j]

(* All four bytes of the value are put into a copy of the monitored bytes, *)
(* whatever the size of the write; those past its size are zero.           *)
MemoryWillBecome(m, address, value) ==
  \A j \in 0 .. m.size - 1 :
    m.value[j] = IF m.address + j \in address .. address + 3
                 THEN value[m.address + j - address]
                 ELSE memory[m.address + j]

(* Mutant of WriteReported: access monitors are for reads. *)
WriteReported_NoAccess(m, address, size, value) ==
  /\ Overlaps(m, address, size)
  /\ \/ m.mode = "ON_WRITE"
     \/ m.mode = "ON_MODIFY" /\ MemoryWillChange(m, address, size, value)
     \/ m.mode = "ON_BECOME" /\ MemoryWillBecome(m, address, value)

(* AddressWrite *)
WriteReported(m, address, size, value) ==
  /\ Overlaps(m, address, size)
  /\ \/ m.mode \in {"ON_WRITE", "ON_ACCESS"}
     \/ m.mode = "ON_MODIFY" /\ MemoryWillChange(m, address, size, value)
     \/ m.mode = "ON_BECOME" /\ MemoryWillBecome(m, address, value)

(* AddressRead *)
ReadReported(m, address, size) ==
  Overlaps(m, address, size) /\ m.mode \in {"ON_READ", "ON_ACCESS"}

NoAccess == [kind |-> "none", address |-> 0, size |-> 0, reported |-> {}]

(* What reads and writes have in common; told are the monitors reported.   *)
(* An access out of range also halts.                                      *)
Access(kind, address, size, told) ==
  LET reported == IF memoryMonitorsActive THEN {m.ID : m \in told} ELSE {}
  IN  /\ access' = [kind |-> kind, address |-> address, size |-> size, reported |-> reported]
      /\ stopFlag' = (stopFlag \/ reported # {} \/ address + size > MemSize)
      /\ hits' = (hits \/ reported # {})
      /\ UNCHANGED <<listVars, phase, ran>>

Stored(address, size, value) ==
  [a \in Addresses |-> IF a \in address .. address + size - 1 THEN value[a - address] ELSE memory[a]]

(* wrb, wrw, wrl: the monitors see the write before the range is checked. *)
Write(address, size, value) ==
  /\ Access("write", address, size,
            {m \in ToSet(memoryMonitors) : WriteReported(m, address, size, value)})
  /\ memory' = IF address + size > MemSize THEN memory ELSE Stored(address, size, value)

(* rdb, rdw, rdl *)
Read(address, size) ==
  /\ Access("read", address, size,
            {m \in ToSet(memoryMonitors) : ReadReported(m, address, size)})
  /\ UNCHANGED memory

(* The values of a size: the rest of the unsigned int is zero. *)
ValuesOf(size) == {v \in Values : \A i \in size .. 3 : v[i] = 0}
-----------------------------------------------------------------------------
Init ==
  /\ memory = [a \in Addresses |-> 0]
  /\ memoryMonitors = <<>> /\ memoryMonitorsActive = FALSE
  /\ stopFlag = FALSE /\ phase = "prompt"
  /\ access = NoAccess /\ hits = FALSE /\ ran = FALSE

SetMemMonitor(c) ==
  /\ phase = "prompt" /\ NextID(memoryMonitors) <= MaxID
  /\ memoryMonitors' = Append(memoryMonitors, [ID |-> NextID(memoryMonitors), address |-> c.address,
                                size |-> c.size, mode |-> c.mode, value |-> c.value])
  /\ memoryMonitorsActive' = TRUE
  /\ access' = NoAccess
  /\ UNCHANGED <<memory, stopFlag, phase, runVars>>

ClearMemMonitor(id) ==
  /\ phase = "prompt"
  /\ memoryMonitors' = RemoveFirstMatch(memoryMonitors, LAMBDA m : m.ID = id)
  /\ memoryMonitorsActive' = (memoryMonitorsActive /\ memoryMonitors' # <<>>)
  /\ access' = NoAccess
  /\ UNCHANGED <<memory, stopFlag, phase, runVars>>

ClearMemMonitors ==
  /\ phase = "prompt"
  /\ memoryMonitors' = <<>> /\ memoryMonitorsActive' = FALSE
  /\ access' = NoAccess
  /\ UNCHANGED <<memory, stopFlag, phase, runVars>>

(* CmdPokeMem, SetMemory: not seen by the monitors. *)
SetMemory(address, size, value) ==
  /\ phase = "prompt" /\ address + size <= MemSize
  /\ memory' = Stored(address, size, value)
  /\ access' = NoAccess
  /\ UNCHANGED <<listVars, stopFlag, phase, runVars>>

(* l resets the flag, lexe does not; the memory becomes what the file has. *)
Load(resets) ==
  /\ phase = "prompt"
  /\ memory' \in [Addresses -> Bytes]
  /\ stopFlag' = (stopFlag /\ ~ resets)
  /\ access' = NoAccess
  /\ UNCHANGED <<listVars, phase, runVars>>

Goes(from, to) == phase = from /\ phase' = to /\ access' = NoAccess /\ UNCHANGED <<memory, listVars>>

Execute ==
  /\ Goes("prompt", "top")
  /\ hits' = FALSE /\ ran' = FALSE
  /\ UNCHANGED stopFlag

(* The loop goes on only without the flag. *)
Iterate == Goes("top", "game") /\ ~ stopFlag /\ UNCHANGED <<stopFlag, runVars>>

(* At the flag, or when the instructions have been counted. *)
ExecuteReturns == Goes("top", "prompt") /\ (stopFlag \/ ran) /\ stopFlag' = FALSE /\ UNCHANGED runVars

(* Ctrl+B is polled after the game has been called. *)
ManualBreak == Goes("game", "prompt") /\ UNCHANGED <<stopFlag, runVars>>

Poll == Goes("game", "poll") /\ UNCHANGED <<stopFlag, runVars>>

Fetch == Goes("poll", "instruction") /\ ran' = TRUE /\ UNCHANGED <<stopFlag, hits>>

Retire == Goes("instruction", "top") /\ UNCHANGED <<stopFlag, runVars>>

(* The game stores words, the keyboard buffer is a byte, an instruction    *)
(* reads and writes.                                                       *)
Accesses ==
  \E address \in Addresses, size \in {1, 2, 4} :
    \/ /\ phase = "instruction" /\ Read(address, size)
    \/ /\ \/ phase = "instruction"
          \/ phase = "game" /\ size = 2 /\ address + size <= MemSize
          \/ phase = "poll" /\ size = 1
       /\ \E value \in ValuesOf(size) : Write(address, size, value)

Next ==
  \/ \E c \in Offered : SetMemMonitor(c)
  \/ \E id \in 0 .. MaxID : ClearMemMonitor(id)
  \/ ClearMemMonitors
  \/ \E address \in Addresses, size \in {1, 2, 4} :
       \E value \in ValuesOf(size) : SetMemory(address, size, value)
  \/ \E resets \in BOOLEAN : Load(resets)
  \/ Execute \/ Iterate \/ ManualBreak \/ Poll \/ Fetch \/ Retire \/ ExecuteReturns
  \/ Accesses

Spec == Init /\ [][Next]_vars
-----------------------------------------------------------------------------
TypeOK ==
  /\ memory \in [Addresses -> Bytes]
  /\ \A m \in ToSet(memoryMonitors) : m.ID \in 0 .. MaxID
  /\ memoryMonitorsActive = (memoryMonitors # <<>>)
  /\ stopFlag \in BOOLEAN
  /\ phase \in {"prompt", "top", "game", "poll", "instruction"}
  /\ access.reported \subseteq 0 .. MaxID
  /\ hits \in BOOLEAN /\ ran \in BOOLEAN

Region(m) == [j \in 0 .. m.size - 1 |-> memory[m.address + j]]

Target(m) == [j \in 0 .. m.size - 1 |-> m.value[j]]

Told(modes) == {m \in ToSet(memoryMonitors) : m.ID \in access.reported /\ m.mode \in modes}

(* The write or read is one that the memory takes. *)
InRange == access.address + access.size <= MemSize

(* In a run a modify monitor is reported by just the accesses that change  *)
(* one of its bytes, however the write lies across its limits.             *)
ModifyExact ==
  [][\A m \in ToSet(memoryMonitors) : m.mode = "ON_MODIFY" /\ phase # "prompt" /\ InRange' =>
       (m.ID \in access'.reported <=> Region(m)' # Region(m))]_vars

(* A become monitor is reported by the writes that leave its value in the  *)
(* memory, as long as they reach to its end (see BecomesValue).            *)
BecomeCovered ==
  [][access'.kind = "write" /\ InRange' =>
       \A m \in ToSet(memoryMonitors) :
         /\ m.mode = "ON_BECOME" /\ Overlaps(m, access'.address, access'.size)
         /\ m.address + m.size <= access'.address + access'.size
         => (m.ID \in access'.reported <=> Region(m)' = Target(m))]_vars

(* An access monitor is reported by every access that touches one of its   *)
(* bytes, a read monitor by the reads and a write monitor by the writes;   *)
(* by nothing else. No iteration begins after a report, also if later      *)
(* accesses of the same instruction are not of interest.                   *)
AccessExact ==
  [][/\ access' # NoAccess =>
          LET modes == {"ON_ACCESS", IF access'.kind = "read" THEN "ON_READ" ELSE "ON_WRITE"}
              bytes == access'.address .. access'.address + access'.size - 1
          IN  Told(Modes \ {"ON_MODIFY", "ON_BECOME"})' =
                {m \in ToSet(memoryMonitors) :
                   m.mode \in modes /\ \E a \in bytes : a \in m.address .. m.address + m.size - 1}
     /\ Iterate => ~ hits]_vars

-----------------------------------------------------------------------------
(* "Determines if writing writeSize bytes of writeValue at writeAddress    *)
(* will cause monitorSize bytes of monitorAddres to become monitorValue."  *)
(* (SimControl.cpp:2430): the bytes past the end of the write count as     *)
(* zero, whatever the memory holds.                                        *)
BecomesValue ==
  [][\A m \in ToSet(memoryMonitors) :
       m.mode = "ON_BECOME" /\ m.ID \in access'.reported /\ InRange' => Region(m)' = Target(m)]_vars
=============================================================================
