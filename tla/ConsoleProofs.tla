---------------------------- MODULE ConsoleProofs ----------------------------
(***************************************************************************)
(* What the console of Emu86 keeps, its list of breakpoints and its        *)
(* command line history.  For every memory, every bound on IDs and         *)
(* nesting: the list of breakpoints ascends, no temporary breakpoint       *)
(* outlives its command, runs leave those of the user alone and stop at    *)
(* them, and a step over stays within its call.  For every size of the     *)
(* ring and every set of commands: the invariant of the history, and that  *)
(* it implements the abstract history of CommandLog.                       *)
(***************************************************************************)
EXTENDS Debugger, CmdHistory, SequenceTheorems, TLAPS

Ascends(s) == \A j, k \in DOMAIN s : j < k => s[j].ID < s[k].ID

(* The fields of a breakpoint have their types. *)
LEMMA BreakpointFields ==
  ASSUME NEW b \in Breakpoints
  PROVE  b.ID \in 0 .. MaxID /\ b.ID \in Int /\ b.type \in Types
BY DebuggerAssumption DEF Breakpoints, DebuggerAssumption

(* A list with one element cut out keeps the others in their order. *)
LEMMA Cut ==
  ASSUME NEW T, NEW s \in Seq(T), NEW k \in 1 .. Len(s)
  PROVE  LET r == SubSeq(s, 1, k-1) \o SubSeq(s, k+1, Len(s))
         IN  /\ r \in Seq(T) /\ Len(r) = Len(s) - 1
             /\ \A j \in 1 .. k-1 : r[j] = s[j]
             /\ \A j \in k .. Len(s)-1 : r[j] = s[j+1]
<1> DEFINE a == SubSeq(s, 1, k-1)
           b == SubSeq(s, k+1, Len(s))
<1>0. Len(s) \in Nat /\ \A i \in 1 .. Len(s) : s[i] \in T
  OBVIOUS
<1>1. a \in Seq(T) /\ Len(a) = k-1 /\ \A j \in 1 .. k-1 : a[j] = s[j]
  BY <1>0, SubSeqProperties
<1>2. b \in Seq(T) /\ Len(b) = Len(s) - k /\ \A j \in 1 .. Len(s) - k : b[j] = s[k+j]
  BY <1>0, SubSeqProperties
<1>. HIDE DEF a, b
<1>3. a \o b \in Seq(T) /\ Len(a \o b) = Len(s) - 1
  <2>1. a \o b \in Seq(T) /\ Len(a \o b) = Len(a) + Len(b)
    BY <1>1, <1>2, ConcatProperties
  <2>. QED BY <2>1, <1>0, <1>1, <1>2
<1>4. \A j \in 1 .. k-1 : (a \o b)[j] = s[j]
  BY <1>0, <1>1, <1>2, ConcatProperties
<1>5. ASSUME NEW j \in k .. Len(s)-1 PROVE (a \o b)[j] = s[j+1]
  <2>1. (a \o b)[j] = b[j - (k-1)]
    BY <1>0, <1>1, <1>2, ConcatProperties
  <2>. QED BY <2>1, <1>0, <1>2
<1>. QED BY <1>3, <1>4, <1>5 DEF a, b

(* In a list that ascends, what ClearBreakpoint removes is the one         *)
(* breakpoint with the ID (SimControl.cpp:299-330).                        *)
LEMMA Removal ==
  ASSUME NEW s \in Seq(Breakpoints), Ascends(s), NEW id \in Int
  PROVE  LET r == RemoveFirstMatch(s, LAMBDA b : b.ID = id)
         IN  /\ r \in Seq(Breakpoints)
             /\ Ascends(r)
             /\ \A j \in DOMAIN r : r[j].ID # id /\ \E k \in DOMAIN s : r[j] = s[k]
             /\ \A k \in DOMAIN s : s[k].ID # id => \E j \in DOMAIN r : r[j] = s[k]
<1> DEFINE r == RemoveFirstMatch(s, LAMBDA b : b.ID = id)
           I == { i \in 1..Len(s) : s[i].ID = id }
<1>0. /\ \A k \in DOMAIN s : s[k] \in Breakpoints /\ s[k].ID \in Int
      /\ DOMAIN s = 1 .. Len(s) /\ Len(s) \in Nat
  BY BreakpointFields
<1>1. CASE I = {}
  <2>1. r = s
    BY <1>1, <1>0 DEF RemoveFirstMatch
  <2>. QED BY <2>1, <1>1, <1>0
<1>2. CASE I # {}
  <2>1. PICK k \in 1 .. Len(s) : s[k].ID = id
    BY <1>2
  <2>2. I = {k}
    BY <2>1, <1>0 DEF Ascends
  <2>3. Min(I) = k
    BY <2>2 DEF Min
  <2>4. SelectInSeq(s, LAMBDA b : b.ID = id) = k
    BY <2>3, <1>2, Zenon DEF SelectInSeq
  <2>5. r = SubSeq(s, 1, k-1) \o SubSeq(s, k+1, Len(s))
    BY <2>4, <2>1 DEF RemoveFirstMatch, RemoveAt
  <2>6. /\ r \in Seq(Breakpoints) /\ Len(r) = Len(s) - 1
        /\ \A j \in 1 .. k-1 : r[j] = s[j]
        /\ \A j \in k .. Len(s)-1 : r[j] = s[j+1]
    BY <2>5, <2>1, Cut
  <2>. DEFINE at(j) == IF j < k THEN j ELSE j + 1
  <2>. HIDE DEF r, I, at
  <2>7. \A i \in 1 .. Len(s) : i # k => s[i].ID # id
    BY <2>1, <1>0 DEF Ascends
  <2>8. /\ DOMAIN r = 1 .. Len(s) - 1
        /\ \A j \in 1 .. Len(s) - 1 : r[j] = s[at(j)]
    BY <2>6, <2>1, <1>0 DEF at
  <2>9. \A j \in 1 .. Len(s) - 1 : at(j) \in 1 .. Len(s) /\ at(j) # k
    BY <2>1, <1>0 DEF at
  <2>10. \A i, j \in 1 .. Len(s) - 1 : i < j => at(i) < at(j)
    BY <2>1, <1>0 DEF at
  <2>11. Ascends(r)
    BY <1>0, <2>8, <2>9, <2>10 DEF Ascends
  <2>12. \A j \in DOMAIN r : r[j].ID # id /\ \E i \in DOMAIN s : r[j] = s[i]
    BY <1>0, <2>7, <2>8, <2>9
  <2>13. ASSUME NEW i \in DOMAIN s, s[i].ID # id
         PROVE  \E j \in DOMAIN r : r[j] = s[i]
    <3>. DEFINE j == IF i < k THEN i ELSE i - 1
    <3>1. i \in 1 .. Len(s) /\ i # k
      BY <1>0, <2>1, <2>13
    <3>2. j \in 1 .. Len(s) - 1 /\ at(j) = i
      BY <1>0, <3>1 DEF at
    <3>. HIDE DEF j
    <3>. QED BY <2>8, <3>2
  <2>. QED BY <2>6, <2>11, <2>12, <2>13 DEF r
<1>. QED BY <1>1, <1>2

(* What SetBreakpoint appends ascends too (SimControl.cpp:357-394). *)
LEMMA Appending ==
  ASSUME NEW s \in Seq(Breakpoints), Ascends(s), NEW b \in Breakpoints,
         b.ID = IF s = <<>> THEN 0 ELSE s[Len(s)].ID + 1
  PROVE  LET r == Append(s, b)
         IN  /\ r \in Seq(Breakpoints)
             /\ Ascends(r)
             /\ \A j \in DOMAIN r : r[j] = b \/ \E k \in DOMAIN s : r[j] = s[k]
<1> DEFINE r == Append(s, b)
<1>0. /\ Len(s) \in Nat /\ DOMAIN s = 1 .. Len(s)
      /\ \A i \in 1 .. Len(s) : s[i].ID \in Int
  BY BreakpointFields
<1>1. /\ r \in Seq(Breakpoints) /\ Len(r) = Len(s) + 1
      /\ DOMAIN r = 1 .. Len(s) + 1 /\ r[Len(s) + 1] = b
      /\ \A j \in 1 .. Len(s) : r[j] = s[j]
  BY <1>0, AppendProperties
<1>2. \A j \in 1 .. Len(s) : s[j].ID < b.ID
  <2>. SUFFICES ASSUME NEW j \in 1 .. Len(s) PROVE s[j].ID < b.ID
    OBVIOUS
  <2>1. s # <<>> /\ b.ID = s[Len(s)].ID + 1
    BY <1>0
  <2>2. j \in DOMAIN s /\ Len(s) \in DOMAIN s /\ j \in Int /\ j <= Len(s)
    BY <1>0
  <2>3. /\ s[j].ID \in Int /\ s[Len(s)].ID \in Int
        /\ j < Len(s) => s[j].ID < s[Len(s)].ID
    BY <2>2, <1>0 DEF Ascends
  <2>4. j < Len(s) \/ j = Len(s)
    BY <2>2, <1>0
  <2>. QED BY <2>1, <2>3, <2>4
<1>. HIDE DEF r
<1>3. Ascends(r)
  BY <1>0, <1>1, <1>2 DEF Ascends
<1>4. \A j \in DOMAIN r : r[j] = b \/ \E k \in DOMAIN s : r[j] = s[k]
  BY <1>0, <1>1
<1>. QED BY <1>1, <1>3, <1>4 DEF r
-----------------------------------------------------------------------------
(* A temporary breakpoint is the one whose ID the command holds. *)
Held(s, id) == \A k \in DOMAIN s : s[k].type = "BREAK_STEP_OVER" => s[k].ID = id

IInv ==
  /\ breakpoints \in Seq(Breakpoints) /\ Ascends(breakpoints)
  /\ breakpointID \in None .. MaxID
  /\ phase = "prompt" => breakpointID = None
  /\ Held(breakpoints, breakpointID)

(* The ID that SetBreakpoint gives is within the bound. *)
LEMMA NextIDIsNew ==
  ASSUME IInv, NextID <= MaxID
  PROVE  NextID \in 0 .. MaxID
<1>1. CASE breakpoints = <<>>
  BY <1>1, DebuggerAssumption DEF NextID, DebuggerAssumption
<1>2. CASE breakpoints # <<>>
  <2>1. breakpoints[Len(breakpoints)] \in Breakpoints
    BY <1>2 DEF IInv
  <2>. QED BY <1>2, <2>1, BreakpointFields DEF NextID
<1>. QED BY <1>1, <1>2

(* SetBreakpoint at the prompt, for the user or for a command. *)
LEMMA Setting ==
  ASSUME IInv, phase = "prompt", NEW address \in Addresses, NEW type \in Types,
         SetBreakpoint(address, type)
  PROVE  /\ breakpoints' \in Seq(Breakpoints) /\ Ascends(breakpoints')
         /\ NextID \in 0 .. MaxID
         /\ Held(breakpoints', NextID)
         /\ type = "BREAK_USER" => Held(breakpoints', None)
<1> DEFINE b == [ID |-> NextID, address |-> address, type |-> type]
<1>0. NextID \in 0 .. MaxID
  BY NextIDIsNew DEF SetBreakpoint
<1>1. b \in Breakpoints
  BY <1>0 DEF Breakpoints
<1>2. /\ breakpoints' \in Seq(Breakpoints) /\ Ascends(breakpoints')
      /\ \A j \in DOMAIN breakpoints' :
           breakpoints'[j] = b \/ \E k \in DOMAIN breakpoints : breakpoints'[j] = breakpoints[k]
  <2>1. breakpoints' = Append(breakpoints, b)
    BY DEF SetBreakpoint
  <2>2. b.ID = IF breakpoints = <<>> THEN 0 ELSE breakpoints[Len(breakpoints)].ID + 1
    BY DEF NextID
  <2>. HIDE DEF b
  <2>. QED BY <2>1, <2>2, <1>1, Appending DEF IInv
<1>3. \A k \in DOMAIN breakpoints : breakpoints[k].type # "BREAK_STEP_OVER"
  <2>. SUFFICES ASSUME NEW k \in DOMAIN breakpoints, breakpoints[k].type = "BREAK_STEP_OVER"
                PROVE  FALSE
    OBVIOUS
  <2>1. breakpoints[k] \in Breakpoints /\ breakpoints[k].ID = None
    BY DEF IInv, Held
  <2>. QED BY <2>1, BreakpointFields DEF None
<1>. QED BY <1>0, <1>2, <1>3 DEF Held

(* ClearBreakpoint, by the user or at the end of a command. *)
LEMMA Clearing ==
  ASSUME IInv, NEW id \in Int, ClearBreakpoint(id)
  PROVE  /\ breakpoints' \in Seq(Breakpoints) /\ Ascends(breakpoints')
         /\ Held(breakpoints', breakpointID)
         /\ id = breakpointID => Held(breakpoints', None)
<1>1. breakpoints' = RemoveFirstMatch(breakpoints, LAMBDA b : b.ID = id)
  BY Zenon DEF ClearBreakpoint, Without
<1>2. /\ breakpoints' \in Seq(Breakpoints) /\ Ascends(breakpoints')
      /\ \A j \in DOMAIN breakpoints' :
           /\ breakpoints'[j].ID # id
           /\ \E k \in DOMAIN breakpoints : breakpoints'[j] = breakpoints[k]
  BY <1>1, Removal DEF IInv
<1>. QED BY <1>2 DEF IInv, Held
-----------------------------------------------------------------------------
(* The list is empty at first. *)
LEMMA IInvInit == Init => IInv
BY DebuggerAssumption DEF Init, IInv, Ascends, Held, None, DebuggerAssumption

(* Every command and every step of the program preserves the invariant. *)
LEMMA IInvNext == IInv /\ [Next]_vars => IInv'
<1>. SUFFICES ASSUME IInv, [Next]_vars PROVE IInv'
  OBVIOUS
<1>0. NextID \in 0 .. MaxID => NextID \in None .. MaxID
  BY DebuggerAssumption DEF None, DebuggerAssumption
<1>1. ASSUME NEW address \in Addresses, CmdSetBreakpoint(address) PROVE IInv'
  <2>1. /\ phase = "prompt" /\ SetBreakpoint(address, "BREAK_USER")
        /\ breakpointID' = breakpointID
    BY <1>1 DEF CmdSetBreakpoint, runVars
  <2>2. /\ breakpoints' \in Seq(Breakpoints) /\ Ascends(breakpoints')
        /\ Held(breakpoints', None)
    BY <2>1, Setting DEF Types
  <2>. QED BY <2>1, <2>2 DEF IInv
<1>2. ASSUME NEW address \in Addresses, CmdExecuteTo(address) PROVE IInv'
  <2>1. /\ phase = "prompt" /\ SetBreakpoint(address, "BREAK_STEP_OVER")
        /\ phase' = "run" /\ breakpointID' = NextID
    BY <1>2 DEF CmdExecuteTo, Execute
  <2>2. /\ breakpoints' \in Seq(Breakpoints) /\ Ascends(breakpoints')
        /\ NextID \in 0 .. MaxID /\ Held(breakpoints', NextID)
    BY <2>1, Setting DEF Types
  <2>. QED BY <2>1, <2>2, <1>0 DEF IInv
<1>3. ASSUME NEW id \in 0 .. MaxID, CmdClearBreakpoint(id) PROVE IInv'
  <2>1. ClearBreakpoint(id) /\ phase' = phase /\ breakpointID' = breakpointID
    BY <1>3 DEF CmdClearBreakpoint, runVars
  <2>2. /\ breakpoints' \in Seq(Breakpoints) /\ Ascends(breakpoints')
        /\ Held(breakpoints', breakpointID)
    BY <2>1, Clearing
  <2>. QED BY <2>1, <2>2 DEF IInv
<1>4. ASSUME NEW n \in Repeats, CmdExecute(n) PROVE IInv'
  BY <1>4 DEF CmdExecute, Execute, listVars, IInv
<1>5. CASE ClearBreakpoints
  BY <1>5 DEF ClearBreakpoints, runVars, IInv, Ascends, Held
<1>6. CASE CmdStepOver
  <2>1. CASE ip \in CallSites
    <3>1. /\ phase = "prompt" /\ ip + 1 \in Addresses
          /\ SetBreakpoint(ip + 1, "BREAK_STEP_OVER")
          /\ phase' = "run" /\ breakpointID' = NextID
      BY <1>6, <2>1 DEF CmdStepOver, Execute
    <3>2. /\ breakpoints' \in Seq(Breakpoints) /\ Ascends(breakpoints')
          /\ NextID \in 0 .. MaxID /\ Held(breakpoints', NextID)
      BY <3>1, Setting DEF Types
    <3>. QED BY <3>1, <3>2, <1>0 DEF IInv
  <2>2. CASE ip \notin CallSites
    BY <1>6, <2>2 DEF CmdStepOver, Execute, listVars, IInv
  <2>. QED BY <2>1, <2>2
<1>7. ASSUME NEW other \in BOOLEAN, Instruction(other) PROVE IInv'
  BY <1>7 DEF Instruction, listVars, IInv
<1>8. CASE Stopped \/ ManualBreak
  <2>1. CommandEnds
    BY <1>8 DEF Stopped, ManualBreak
  <2>2. phase' = "prompt" /\ breakpointID' = None /\ None \in None .. MaxID
    BY <2>1, DebuggerAssumption DEF CommandEnds, None, DebuggerAssumption
  <2>3. CASE breakpointID = None
    BY <2>1, <2>2, <2>3 DEF CommandEnds, listVars, IInv
  <2>4. CASE breakpointID # None
    <3>1. ClearBreakpoint(breakpointID) /\ breakpointID \in Int
      BY <2>1, <2>4, DebuggerAssumption DEF CommandEnds, IInv, None, DebuggerAssumption
    <3>2. /\ breakpoints' \in Seq(Breakpoints) /\ Ascends(breakpoints')
          /\ Held(breakpoints', None)
      BY <3>1, Clearing
    <3>. QED BY <2>2, <3>2 DEF IInv
  <2>. QED BY <2>3, <2>4
<1>9. CASE UNCHANGED vars
  BY <1>9 DEF vars, listVars, IInv
<1>10. ASSUME NEW address \in Addresses, CmdLoad(address) PROVE IInv'
  BY <1>10 DEF CmdLoad, listVars, IInv
<1>. QED
  BY <1>1, <1>2, <1>3, <1>4, <1>5, <1>6, <1>7, <1>8, <1>9, <1>10 DEF Next

(* SimControl.cpp:299-394, 1481-1515, 1532-1572: for every memory and      *)
(* every way of running the program, IDs ascend in the list and no         *)
(* temporary breakpoint is left at the prompt.                             *)
THEOREM BreakpointListSound == Spec => [](IDsAscend /\ TemporaryGone)
<1>1. IInv => IDsAscend /\ TemporaryGone
  <2>. SUFFICES ASSUME IInv PROVE IDsAscend /\ TemporaryGone
    OBVIOUS
  <2>1. \A k \in DOMAIN breakpoints : breakpoints[k] \in Breakpoints
    BY DEF IInv
  <2>2. IDsAscend
    BY DEF IInv, IDsAscend, Ascends
  <2>3. ASSUME phase = "prompt", NEW k \in DOMAIN breakpoints
        PROVE  breakpoints[k].type = "BREAK_USER"
    BY <2>1, <2>3, BreakpointFields DEF IInv, Held, Types, None
  <2>. QED BY <2>2, <2>3 DEF TemporaryGone
<1>. QED BY <1>1, IInvInit, IInvNext, PTL DEF Spec
-----------------------------------------------------------------------------
(* The flag is up while there are breakpoints, and a run that goes on has  *)
(* not come to one.                                                        *)
Watched ==
  /\ ~ breakpointsActive => breakpoints = <<>>
  /\ phase = "run" /\ ~ stopFlag /\ executed => ~ Reached(ip)

(* An empty list stays empty when an ID is removed from it.                *)
LEMMA ClearingKeepsWatch ==
  ASSUME IInv, Watched, NEW id \in Int, ClearBreakpoint(id), ~ breakpointsActive'
  PROVE  breakpoints' = <<>>
<1>1. CASE breakpointsActive
  BY <1>1 DEF ClearBreakpoint
<1>2. CASE ~ breakpointsActive
  <2>1. breakpoints = <<>>
    BY <1>2 DEF Watched
  <2>2. breakpoints' = RemoveFirstMatch(breakpoints, LAMBDA b : b.ID = id)
    BY Zenon DEF ClearBreakpoint, Without
  <2>3. /\ breakpoints' \in Seq(Breakpoints)
        /\ \A j \in DOMAIN breakpoints' : \E k \in DOMAIN breakpoints : breakpoints'[j] = breakpoints[k]
    BY <2>2, Removal DEF IInv
  <2>4. \A k : k \notin DOMAIN breakpoints
    BY <2>1
  <2>5. \A j : j \notin DOMAIN breakpoints'
    BY <2>3, <2>4
  <2>. QED BY <2>3, <2>5
<1>. QED BY <1>1, <1>2

LEMMA WatchedNext == IInv /\ Watched /\ [Next]_vars => Watched'
<1>. SUFFICES ASSUME IInv, Watched, [Next]_vars PROVE Watched'
  OBVIOUS
<1>1. ASSUME NEW address \in Addresses,
             CmdSetBreakpoint(address) \/ CmdExecuteTo(address) \/ CmdLoad(address)
      PROVE  Watched'
  BY <1>1 DEF CmdSetBreakpoint, CmdExecuteTo, CmdLoad, SetBreakpoint, Execute, listVars,
              runVars, Watched
<1>2. ASSUME NEW id \in 0 .. MaxID, CmdClearBreakpoint(id) PROVE Watched'
  <2>1. ClearBreakpoint(id) /\ phase' = "prompt"
    BY <1>2 DEF CmdClearBreakpoint, runVars
  <2>. QED BY <2>1, ClearingKeepsWatch DEF Watched
<1>3. CASE ClearBreakpoints \/ CmdStepOver \/ \E n \in Repeats : CmdExecute(n)
  BY <1>3 DEF ClearBreakpoints, CmdStepOver, CmdExecute, SetBreakpoint, Execute, listVars,
              runVars, Watched
<1>4. ASSUME NEW other \in BOOLEAN, Instruction(other) PROVE Watched'
  <2>1. /\ UNCHANGED <<breakpoints, breakpointsActive>>
        /\ ~ stopFlag' => ~ (breakpointsActive /\ Reached(ip'))
    BY <1>4 DEF Instruction, listVars
  <2>2. ~ breakpointsActive => ~ Reached(ip')
    BY DEF Watched, Reached
  <2>. QED BY <2>1, <2>2 DEF Watched, Reached
<1>5. CASE Stopped \/ ManualBreak
  <2>1. CommandEnds /\ phase' = "prompt"
    BY <1>5 DEF Stopped, ManualBreak, CommandEnds
  <2>2. CASE breakpointID = None
    BY <2>1, <2>2 DEF CommandEnds, listVars, Watched
  <2>3. CASE breakpointID # None
    <3>1. ClearBreakpoint(breakpointID) /\ breakpointID \in Int
      BY <2>1, <2>3, DebuggerAssumption DEF CommandEnds, IInv, None, DebuggerAssumption
    <3>. QED BY <2>1, <3>1, ClearingKeepsWatch DEF Watched
  <2>. QED BY <2>2, <2>3
<1>6. CASE UNCHANGED vars
  BY <1>6 DEF vars, listVars, machineVars, Watched, Reached
<1>. QED BY <1>1, <1>2, <1>3, <1>4, <1>5, <1>6 DEF Next

(* SimControl.cpp:251-330, decode.cpp:119-155: for every list of           *)
(* breakpoints and every way of changing it between runs, no run goes on   *)
(* at a breakpoint that an iteration, interrupt included, has come to,     *)
(* though the list is not looked at while the flag is down.                *)
THEOREM RunsStopAtBreakpoints == Spec => BreakpointsStop
<1>1. Init => Watched
  BY DEF Init, Watched
<1>2. Watched /\ (\E other \in BOOLEAN : Instruction(other)) /\ executed => ~ Reached(ip)
  BY DEF Watched, Instruction, Iterating
<1>3. Watched => [(\E other \in BOOLEAN : Instruction(other)) /\ executed => ~ Reached(ip)]_vars
  BY <1>2
<1>. QED BY <1>1, <1>3, IInvInit, IInvNext, WatchedNext, PTL DEF Spec, BreakpointsStop
-----------------------------------------------------------------------------
(* The ID that a command holds names a temporary breakpoint. *)
OwnTemporary ==
  breakpointID # None =>
    \A k \in DOMAIN breakpoints :
      breakpoints[k].ID = breakpointID => breakpoints[k].type = "BREAK_STEP_OVER"

(* A breakpoint that a command sets for itself is new, and not the user's. *)
LEMMA SettingTemporary ==
  ASSUME IInv, phase = "prompt", NEW address \in Addresses,
         SetBreakpoint(address, "BREAK_STEP_OVER"), breakpointID' = NextID
  PROVE  OwnTemporary' /\ Users' = Users
<1> DEFINE b == [ID |-> NextID, address |-> address, type |-> "BREAK_STEP_OVER"]
           n == Len(breakpoints)
<1>1. b \in Breakpoints /\ b.ID = NextID /\ b.type = "BREAK_STEP_OVER"
  BY NextIDIsNew DEF SetBreakpoint, Breakpoints, Types
<1>2. /\ breakpoints \in Seq(Breakpoints) /\ n \in Nat /\ DOMAIN breakpoints = 1 .. n
      /\ breakpoints' = Append(breakpoints, b)
  BY DEF SetBreakpoint, IInv
<1>3. Ascends(breakpoints')
  BY Setting DEF Types
<1> HIDE DEF b, n
<1>4. /\ DOMAIN breakpoints' = 1 .. n + 1 /\ breakpoints'[n + 1] = b
      /\ \A k \in 1 .. n : breakpoints'[k] = breakpoints[k]
  BY <1>1, <1>2, AppendProperties DEF n
<1>5. \A k \in 1 .. n : breakpoints'[k].ID < b.ID /\ breakpoints'[k].ID \in Int
  <2> TAKE k \in 1 .. n
  <2>1. breakpoints'[k].ID < breakpoints'[n + 1].ID
    BY <1>2, <1>3, <1>4 DEF Ascends
  <2>2. breakpoints'[k] \in Breakpoints
    BY <1>2, <1>4
  <2> QED BY <1>4, <2>1, <2>2, BreakpointFields
<1>6. b.ID \in Int
  BY <1>1, BreakpointFields
<1>7. \A k \in 1 .. n + 1 : k \in 1 .. n \/ k = n + 1
  BY <1>2
<1>8. OwnTemporary'
  <2> SUFFICES ASSUME NEW k \in 1 .. n + 1, breakpoints'[k].ID = NextID
               PROVE  breakpoints'[k].type = "BREAK_STEP_OVER"
    BY <1>4 DEF OwnTemporary
  <2>1. k \notin 1 .. n
    BY <1>1, <1>5, <1>6
  <2> QED BY <1>1, <1>4, <1>7, <2>1
<1>9. Users' = Users
  <2> DEFINE mine == {k \in 1 .. n : breakpoints[k].type = "BREAK_USER"}
  <2>1. {j \in DOMAIN breakpoints : breakpoints[j].type = "BREAK_USER"} = mine
    BY <1>2
  <2>2. {j \in DOMAIN breakpoints' : breakpoints'[j].type = "BREAK_USER"} = mine
    <3>1. b.type # "BREAK_USER"
      BY <1>1
    <3>2. \A k \in 1 .. n : k \in 1 .. n + 1
      BY <1>2
    <3> QED BY <1>4, <1>7, <3>1, <3>2
  <2>3. \A k \in mine : breakpoints'[k] = breakpoints[k]
    BY <1>4
  <2> HIDE DEF mine
  <2> QED BY <2>1, <2>2, <2>3 DEF Users
<1> QED BY <1>8, <1>9

(* When the command ends, what goes is not the user's either. *)
LEMMA EndingKeepsUsers ==
  ASSUME IInv, OwnTemporary, CommandEnds
  PROVE  OwnTemporary' /\ Users' = Users
<1>1. breakpointID' = None
  BY DEF CommandEnds
<1>2. CASE breakpointID = None
  BY <1>1, <1>2 DEF CommandEnds, listVars, OwnTemporary, Users
<1>3. CASE breakpointID # None
  <2>1. /\ breakpoints \in Seq(Breakpoints) /\ Ascends(breakpoints) /\ breakpointID \in Int
        /\ ClearBreakpoint(breakpointID)
    BY <1>3, DebuggerAssumption DEF CommandEnds, IInv, None, DebuggerAssumption
  <2>2. breakpoints' = RemoveFirstMatch(breakpoints, LAMBDA b : b.ID = breakpointID)
    BY <2>1, Zenon DEF ClearBreakpoint, Without
  <2>3. /\ \A j \in DOMAIN breakpoints' : \E k \in DOMAIN breakpoints : breakpoints'[j] = breakpoints[k]
        /\ \A k \in DOMAIN breakpoints : breakpoints[k].ID # breakpointID =>
             \E j \in DOMAIN breakpoints' : breakpoints'[j] = breakpoints[k]
    BY <2>1, <2>2, Removal
  <2>4. \A k \in DOMAIN breakpoints :
          breakpoints[k].type = "BREAK_USER" => breakpoints[k].ID # breakpointID
    BY <1>3 DEF OwnTemporary
  <2>5. Users' = Users
    BY <2>3, <2>4 DEF Users
  <2> QED BY <1>1, <2>5 DEF OwnTemporary
<1> QED BY <1>2, <1>3

(* Every step of a run leaves the user's breakpoints, others the bond      *)
(* between a command and its breakpoint.                                   *)
LEMMA UsersNext ==
  IInv /\ OwnTemporary /\ [Next]_vars =>
    OwnTemporary' /\ (phase = "run" \/ phase' = "run" => Users' = Users)
<1>. SUFFICES ASSUME IInv, OwnTemporary, [Next]_vars
              PROVE  OwnTemporary' /\ (phase = "run" \/ phase' = "run" => Users' = Users)
  OBVIOUS
<1>1. ASSUME phase = "prompt", phase' = "prompt", breakpointID' = breakpointID
      PROVE  OwnTemporary' /\ ~ (phase = "run" \/ phase' = "run")
  BY <1>1 DEF OwnTemporary, IInv
<1>2. ASSUME UNCHANGED <<breakpoints, breakpointID>>
      PROVE  OwnTemporary' /\ Users' = Users
  BY <1>2 DEF OwnTemporary, Users
<1>3. ASSUME NEW address \in Addresses, CmdSetBreakpoint(address) \/ CmdLoad(address)
      PROVE  phase = "prompt" /\ phase' = "prompt" /\ breakpointID' = breakpointID
  BY <1>3 DEF CmdSetBreakpoint, CmdLoad, runVars
<1>4. ASSUME ClearBreakpoints \/ \E id \in 0 .. MaxID : CmdClearBreakpoint(id)
      PROVE  phase = "prompt" /\ phase' = "prompt" /\ breakpointID' = breakpointID
  BY <1>4 DEF ClearBreakpoints, CmdClearBreakpoint, runVars
<1>5. ASSUME NEW address \in Addresses, CmdExecuteTo(address)
      PROVE  OwnTemporary' /\ Users' = Users
  <2>1. /\ phase = "prompt" /\ SetBreakpoint(address, "BREAK_STEP_OVER")
        /\ breakpointID' = NextID
    BY <1>5 DEF CmdExecuteTo
  <2>. QED BY <2>1, SettingTemporary
<1>6. CASE CmdStepOver
  <2>1. CASE ip \in CallSites
    <3>1. /\ phase = "prompt" /\ ip + 1 \in Addresses
          /\ SetBreakpoint(ip + 1, "BREAK_STEP_OVER") /\ breakpointID' = NextID
      BY <1>6, <2>1 DEF CmdStepOver
    <3>. QED BY <3>1, SettingTemporary
  <2>2. CASE ip \notin CallSites
    BY <1>2, <1>6, <2>2 DEF CmdStepOver, listVars
  <2>. QED BY <2>1, <2>2
<1>7. CASE (\E n \in Repeats : CmdExecute(n)) \/ (\E other \in BOOLEAN : Instruction(other))
           \/ UNCHANGED vars
  BY <1>2, <1>7 DEF CmdExecute, Instruction, vars, listVars
<1>8. CASE Stopped \/ ManualBreak
  BY <1>8, EndingKeepsUsers DEF Stopped, ManualBreak
<1>. QED BY <1>1, <1>3, <1>4, <1>5, <1>6, <1>7, <1>8 DEF Next

(* SimControl.cpp:1481-1515, 1532-1572: no run, and no command that runs,  *)
(* takes a breakpoint from the user or gives him one.                      *)
THEOREM RunsKeepUserBreakpoints == Spec => UserBreakpointsKept
<1>1. Init => OwnTemporary
  BY DEF Init, OwnTemporary
<1>2. IInv /\ OwnTemporary /\ [Next]_vars
        => [phase = "run" \/ phase' = "run" => Users' = Users]_vars
  BY UsersNext
<1>. QED BY <1>1, <1>2, IInvInit, IInvNext, UsersNext, PTL DEF Spec, UserBreakpointsKept
-----------------------------------------------------------------------------
(* How many of the calls in `stack' began after the step over. *)
Inner(stack) == Len(stack) - Len(started)

(* The program has left `site', for a step over that began there, and is   *)
(* to execute `next': the calls from before it are still there, the oldest *)
(* one after it returns behind the site, and with none so does the step.   *)
InCall(site, next, stack) ==
  /\ Inner(stack) >= 0
  /\ \A i \in 1 .. Len(started) : stack[Inner(stack) + i] = started[i]
  /\ Inner(stack) > 0 => stack[Inner(stack)] = site + 1
  /\ Inner(stack) = 0 => next = site + 1

(* Between two instructions: the program has not begun, or has a           *)
(* breakpoint behind the site, where it stops.                             *)
OverFrom(site) ==
  /\ breakpointsActive /\ Reached(site + 1)
  /\ \/ ip = site /\ calls = started
     \/ InCall(site, ip, calls)
  /\ Inner(calls) = 0 => stopFlag \/ ip = site

StepInv ==
  /\ ip \in Addresses /\ calls \in Seq(Addresses) /\ stopFlag \in BOOLEAN
  /\ started # NoCall =>
       /\ phase = "run" /\ started \in Seq(Addresses)
       /\ \E site \in CallSites : OverFrom(site)

(* A sequence that a longer one ends with, element by element, is a suffix *)
(* of it.                                                                  *)
LEMMA SuffixByElements ==
  ASSUME NEW S, NEW s \in Seq(S), NEW t \in Seq(S), Len(s) <= Len(t),
         \A i \in 1 .. Len(s) : t[Len(t) - Len(s) + i] = s[i]
  PROVE  IsSuffix(s, t)
<1> DEFINE n == Len(s)
           m == Len(t)
           rs == Reverse(s)
           rt == Reverse(t)
<1>1. n \in Nat /\ m \in Nat /\ n <= m
  OBVIOUS
<1>2. rs \in [1 .. n -> S] /\ rt \in [1 .. m -> S]
  <2>1. \A i \in 1 .. n : n - i + 1 \in 1 .. n
    BY <1>1
  <2>2. \A i \in 1 .. m : m - i + 1 \in 1 .. m
    BY <1>1
  <2> QED BY <2>1, <2>2 DEF Reverse
<1>3. /\ \A i \in 1 .. n : rs[i] = s[n - i + 1]
      /\ \A i \in 1 .. m : rt[i] = t[m - i + 1]
  BY DEF Reverse
<1>4. t \in Seq(S) /\ \A i \in 1 .. n : t[m - n + i] = s[i]
  OBVIOUS
<1> HIDE DEF rs, rt, n, m
<1>5. rs \in Seq(S) /\ rt \in Seq(S) /\ Len(rs) = n /\ Len(rt) = m
  BY <1>1, <1>2
<1>6. ASSUME NEW i \in 1 .. n PROVE rs[i] = rt[i]
  <2> DEFINE j == n - i + 1
  <2>1. j \in 1 .. n /\ m - n + j = m - i + 1 /\ i \in 1 .. m
    BY <1>1
  <2>2. t[m - n + j] = s[j]
    BY <1>4, <2>1
  <2> QED BY <1>3, <2>1, <2>2
<1>7. SubSeq(rs, 1, n) = SubSeq(rt, 1, n)
  <2>1. /\ SubSeq(rs, 1, n) \in Seq(S) /\ Len(SubSeq(rs, 1, n)) = n
        /\ \A i \in 1 .. n : SubSeq(rs, 1, n)[i] = rs[i]
    BY <1>1, <1>5
  <2>2. /\ SubSeq(rt, 1, n) \in Seq(S) /\ Len(SubSeq(rt, 1, n)) = n
        /\ \A i \in 1 .. n : SubSeq(rt, 1, n)[i] = rt[i]
    BY <1>1, <1>5
  <2> DEFINE a == SubSeq(rs, 1, n)
             b == SubSeq(rt, 1, n)
  <2> HIDE DEF a, b
  <2>3. a \in Seq(S) /\ b \in Seq(S) /\ Len(a) = Len(b) /\ \A i \in 1 .. Len(a) : a[i] = b[i]
    BY <1>6, <2>1, <2>2 DEF a, b
  <2>4. a = b
    BY <2>3, SeqEqual
  <2> QED BY <2>4 DEF a, b
<1>8. n <= m
  BY <1>1
<1> QED BY <1>5, <1>7, <1>8 DEF IsSuffix, IsPrefix, rs, rt

(* The calls under way after an instruction. *)
LEMMA CallsPushed ==
  ASSUME NEW s \in Seq(Addresses), NEW a \in Addresses
  PROVE  /\ <<a>> \o s \in Seq(Addresses) /\ Len(<<a>> \o s) = Len(s) + 1
         /\ (<<a>> \o s)[1] = a
         /\ \A i \in 1 .. Len(s) : (<<a>> \o s)[i + 1] = s[i]
<1>1. <<a>> \in Seq(Addresses) /\ Len(<<a>>) = 1 /\ <<a>>[1] = a
  OBVIOUS
<1>2. /\ <<a>> \o s \in Seq(Addresses) /\ Len(<<a>> \o s) = Len(<<a>>) + Len(s)
      /\ \A i \in 1 .. Len(<<a>>) + Len(s) :
           (<<a>> \o s)[i] = IF i <= Len(<<a>>) THEN <<a>>[i] ELSE s[i - Len(<<a>>)]
  BY <1>1, ConcatProperties
<1>3. Len(s) \in Nat
  OBVIOUS
<1> DEFINE t == <<a>> \o s
<1> HIDE DEF t
<1>4. t \in Seq(Addresses) /\ Len(t) = Len(s) + 1
  BY <1>1, <1>2, <1>3 DEF t
<1>5. \A i \in 1 .. Len(s) + 1 : t[i] = IF i <= 1 THEN a ELSE s[i - 1]
  <2> TAKE i \in 1 .. Len(s) + 1
  <2>1. i \in 1 .. Len(<<a>>) + Len(s)
    BY <1>1, <1>3
  <2>2. t[i] = IF i <= Len(<<a>>) THEN <<a>>[i] ELSE s[i - Len(<<a>>)]
    BY <1>2, <2>1 DEF t
  <2>3. i <= 1 => i = 1
    BY <1>3
  <2> QED BY <1>1, <2>2, <2>3
<1>6. t[1] = a
  BY <1>3, <1>5
<1>7. \A i \in 1 .. Len(s) : t[i + 1] = s[i]
  <2> TAKE i \in 1 .. Len(s)
  <2>1. i + 1 \in 1 .. Len(s) + 1 /\ ~ (i + 1 <= 1) /\ i + 1 - 1 = i
    BY <1>3
  <2> QED BY <1>5, <2>1
<1> QED BY <1>4, <1>6, <1>7 DEF t

LEMMA CallsPopped ==
  ASSUME NEW s \in Seq(Addresses), s # <<>>
  PROVE  /\ Head(s) = s[1] /\ Head(s) \in Addresses
         /\ Tail(s) \in Seq(Addresses) /\ Len(Tail(s)) = Len(s) - 1
         /\ \A i \in 1 .. Len(s) - 1 : Tail(s)[i] = s[i + 1]
BY HeadTailProperties

(* The types of the machine after an instruction and an interrupt. *)
LEMMA StacksTyped ==
  ASSUME StepInv, NEW stack \in Stacks, NEW next \in Addresses,
         Call(next, stack) \/ Service(next, stack) \/ Jump(next, stack) \/ Return(next, stack)
  PROVE  stack \in Seq(Addresses)
<1>1. ip \in Addresses /\ calls \in Seq(Addresses)
  BY DEF StepInv
<1>2. CASE Call(next, stack)
  BY <1>1, <1>2, CallsPushed DEF Call
<1>3. CASE Service(next, stack) \/ Jump(next, stack)
  BY <1>1, <1>3 DEF Service, Jump
<1>4. CASE Return(next, stack)
  BY <1>1, <1>4, CallsPopped DEF Return
<1> QED BY <1>2, <1>3, <1>4

LEMMA MachineTypes ==
  ASSUME StepInv, NEW other \in BOOLEAN, Instruction(other)
  PROVE  ip' \in Addresses /\ calls' \in Seq(Addresses) /\ stopFlag' \in BOOLEAN
<1>1. stopFlag' \in BOOLEAN
  BY DEF Instruction
<1>2. PICK next \in Addresses, stack \in Stacks :
        /\ Call(next, stack) \/ Service(next, stack) \/ Jump(next, stack) \/ Return(next, stack)
        /\ Interrupt(next, stack) \/ NoInterrupt(next, stack)
  BY DEF Instruction, X86EMU_exec
<1>3. stack \in Seq(Addresses)
  BY <1>2, StacksTyped
<1>4. CASE Interrupt(next, stack)
  <2>1. ip' \in Addresses /\ calls' = <<next>> \o stack
    BY <1>4 DEF Interrupt
  <2> QED BY <1>1, <1>3, <2>1, CallsPushed
<1>5. CASE NoInterrupt(next, stack)
  BY <1>1, <1>3, <1>5 DEF NoInterrupt
<1> QED BY <1>2, <1>4, <1>5

(* One more call keeps a step over within its own, if it is the first one  *)
(* it returns behind the site.                                             *)
LEMMA PushedStays ==
  ASSUME started \in Seq(Addresses), NEW stack \in Seq(Addresses), NEW site, NEW next,
         NEW a \in Addresses, Inner(stack) >= 0,
         \A i \in 1 .. Len(started) : stack[Inner(stack) + i] = started[i],
         Inner(stack) > 0 => stack[Inner(stack)] = site + 1,
         Inner(stack) = 0 => a = site + 1
  PROVE  InCall(site, next, <<a>> \o stack)
<1> DEFINE s == <<a>> \o stack
           m == Len(stack)
           n == Len(started)
           d == Inner(stack)
           d1 == Inner(s)
<1>1. /\ s \in Seq(Addresses) /\ Len(s) = m + 1 /\ s[1] = a
      /\ \A i \in 1 .. m : s[i + 1] = stack[i]
  BY CallsPushed
<1>2. m \in Nat /\ n \in Nat /\ d = m - n /\ d \in Int
  BY DEF Inner
<1> HIDE DEF s
<1>3. d1 = d + 1
  BY <1>1, <1>2 DEF Inner
<1>4. /\ d >= 0 /\ \A i \in 1 .. n : stack[d + i] = started[i]
      /\ d > 0 => stack[d] = site + 1
      /\ d = 0 => a = site + 1
  OBVIOUS
<1> HIDE DEF m, n, d, d1
<1>5. ASSUME NEW i \in 1 .. n PROVE s[d1 + i] = started[i]
  <2>1. d + i \in 1 .. m /\ d1 + i = d + i + 1
    BY <1>2, <1>3, <1>4
  <2>2. s[d + i + 1] = stack[d + i]
    BY <1>1, <2>1
  <2> QED BY <1>4, <2>1, <2>2
<1>6. s[d1] = site + 1
  <2>1. CASE d = 0
    BY <1>1, <1>3, <1>4, <2>1
  <2>2. CASE d > 0
    <3>1. d \in 1 .. m
      BY <1>2, <2>2
    <3>2. s[d + 1] = stack[d]
      BY <1>1, <3>1
    <3> QED BY <1>3, <1>4, <2>2, <3>2
  <2> QED BY <1>2, <1>4, <2>1, <2>2
<1>7. d1 > 0
  BY <1>2, <1>3, <1>4
<1>8. d1 >= 0 /\ d1 # 0
  BY <1>7, <1>2, <1>3
<1>9. InCall(site, next, s)
  BY <1>5, <1>6, <1>8 DEF InCall, n, d1
<1> QED BY <1>9 DEF s

(* What the instruction alone does. *)
LEMMA InstructionStays ==
  ASSUME StepInv, ~ stopFlag, started \in Seq(Addresses), NEW site \in CallSites,
         OverFrom(site), NEW next \in Addresses, NEW stack,
         Call(next, stack) \/ Service(next, stack) \/ Jump(next, stack) \/ Return(next, stack)
  PROVE  InCall(site, next, stack)
<1> DEFINE m == Len(calls)
           n == Len(started)
           d == m - n
<1>1. ip \in Addresses /\ calls \in Seq(Addresses) /\ m \in Nat /\ n \in Nat /\ d \in Int
  BY DEF StepInv
<1>2. Inner(calls) = d /\ (d = 0 => ip = site)
  BY DEF OverFrom, Inner
<1>3. \/ d = 0 /\ ip = site /\ calls = started
      \/ /\ d > 0 /\ \A i \in 1 .. n : calls[d + i] = started[i]
         /\ calls[d] = site + 1
  <2>1. CASE ip = site /\ calls = started
    BY <1>1, <2>1
  <2>2. CASE InCall(site, ip, calls)
    <3>1. /\ d >= 0 /\ (d > 0 => calls[d] = site + 1)
          /\ \A i \in 1 .. n : calls[d + i] = started[i]
          /\ d = 0 => ip = site + 1
      BY <1>2, <2>2 DEF InCall
    <3>2. site + 1 # site
      BY DebuggerAssumption DEF DebuggerAssumption, Addresses
    <3>3. d # 0
      BY <1>2, <3>1, <3>2
    <3> HIDE DEF d
    <3> QED BY <1>1, <3>1, <3>3
  <2> QED BY <2>1, <2>2 DEF OverFrom
<1>4. /\ d >= 0 /\ \A i \in 1 .. n : calls[d + i] = started[i]
      /\ d > 0 => calls[d] = site + 1
  <2>1. ASSUME d = 0, calls = started PROVE \A i \in 1 .. n : calls[d + i] = started[i]
    BY <1>1, <2>1
  <2> HIDE DEF d
  <2> QED BY <1>1, <1>3, <2>1
<1>5. CASE Call(next, stack)
  <2>1. ip + 1 \in Addresses /\ stack = <<ip + 1>> \o calls
    BY <1>5 DEF Call
  <2> HIDE DEF d
  <2> QED BY <1>1, <1>2, <1>4, <2>1, PushedStays
<1>6. CASE Service(next, stack)
  <2>1. next = ip + 1 /\ stack = calls
    BY <1>6 DEF Service
  <2> HIDE DEF d
  <2> QED BY <1>2, <1>4, <2>1 DEF InCall
<1>7. CASE Jump(next, stack)
  <2>1. ip \notin CallSites /\ stack = calls
    BY <1>7 DEF Jump
  <2> HIDE DEF d
  <2> QED BY <1>2, <1>4, <2>1 DEF InCall
<1>8. CASE Return(next, stack)
  <2>1. /\ ip \notin CallSites /\ calls # <<>>
        /\ next = Head(calls) /\ stack = Tail(calls)
    BY <1>8 DEF Return
  <2>2. /\ next = calls[1] /\ Len(stack) = m - 1
        /\ \A i \in 1 .. m - 1 : stack[i] = calls[i + 1]
    BY <1>1, <2>1, CallsPopped
  <2> DEFINE d1 == Len(stack) - n
  <2>3. d > 0 /\ d1 = d - 1 /\ Inner(stack) = d1
    BY <1>1, <1>2, <1>4, <2>1, <2>2 DEF Inner
  <2> HIDE DEF m, n, d, d1
  <2>4. d \in Int /\ d1 \in Int /\ d = m - n
    BY <1>1, <2>3 DEF d
  <2>5. ASSUME NEW i \in 1 .. n PROVE stack[d1 + i] = started[i]
    <3>1. d1 + i \in 1 .. m - 1 /\ d1 + i + 1 = d + i
      BY <1>1, <2>3, <2>4
    <3>2. stack[d1 + i] = calls[d1 + i + 1]
      BY <2>2, <3>1
    <3> QED BY <1>4, <3>1, <3>2
  <2>6. ASSUME d1 > 0 PROVE stack[d1] = site + 1
    <3>1. d1 \in 1 .. m - 1 /\ d1 + 1 = d
      BY <1>1, <2>3, <2>4, <2>6
    <3> QED BY <1>4, <2>2, <2>3, <3>1
  <2>7. ASSUME d1 = 0 PROVE next = site + 1
    <3>1. d = 1
      BY <2>3, <2>4, <2>7
    <3> QED BY <1>4, <2>2, <3>1
  <2>8. d1 >= 0
    BY <2>3, <2>4
  <2> QED BY <2>3, <2>5, <2>6, <2>7, <2>8 DEF InCall, n
<1> QED BY <1>5, <1>6, <1>7, <1>8

(* An iteration, with or without an interrupt behind the instruction,      *)
(* keeps a step over within its call.                                      *)
LEMMA IterationStays ==
  ASSUME StepInv, NEW other \in BOOLEAN, Instruction(other), started \in Seq(Addresses),
         NEW site \in CallSites, OverFrom(site), ip' \in Addresses
  PROVE  OverFrom(site)'
<1>1. /\ ~ stopFlag /\ X86EMU_exec
      /\ started' = started /\ breakpoints' = breakpoints
      /\ breakpointsActive' = breakpointsActive
      /\ Reached(ip') /\ breakpointsActive => stopFlag'
  BY DEF Instruction, Iterating, listVars
<1>2. PICK next \in Addresses, stack \in Stacks :
        /\ Call(next, stack) \/ Service(next, stack) \/ Jump(next, stack) \/ Return(next, stack)
        /\ Interrupt(next, stack) \/ NoInterrupt(next, stack)
  BY <1>1 DEF X86EMU_exec
<1>3. stack \in Seq(Addresses) /\ InCall(site, next, stack)
  BY <1>1, <1>2, InstructionStays, StacksTyped
<1>4. InCall(site, ip', calls')
  <2>1. CASE Interrupt(next, stack)
    <3>1. calls' = <<next>> \o stack
      BY <2>1 DEF Interrupt
    <3>2. /\ Inner(stack) >= 0
          /\ \A i \in 1 .. Len(started) : stack[Inner(stack) + i] = started[i]
          /\ Inner(stack) > 0 => stack[Inner(stack)] = site + 1
          /\ Inner(stack) = 0 => next = site + 1
      BY <1>3 DEF InCall
    <3>3. InCall(site, ip', <<next>> \o stack)
      BY <1>3, <3>2, PushedStays
    <3> QED BY <3>1, <3>3
  <2>2. CASE NoInterrupt(next, stack)
    BY <1>3, <2>2 DEF NoInterrupt
  <2> QED BY <1>2, <2>1, <2>2
<1>5. breakpointsActive' /\ Reached(site + 1)' /\ Reached(site + 1)
  BY <1>1 DEF OverFrom, Reached
<1>6. InCall(site, ip, calls)' /\ Inner(calls)' = Inner(calls')
  BY <1>1, <1>4 DEF InCall, Inner
<1>7. ASSUME Inner(calls') = 0 PROVE stopFlag'
  <2>1. ip' = site + 1
    BY <1>4, <1>7 DEF InCall
  <2> QED BY <1>1, <1>5, <2>1
<1> QED BY <1>5, <1>6, <1>7 DEF OverFrom

LEMMA StepInvInit == Init => StepInv
<1> SUFFICES ASSUME Init PROVE StepInv
  OBVIOUS
<1>1. ip \in Addresses /\ calls \in Seq(Addresses) /\ started = NoCall
  BY DebuggerAssumption DEF Init, Addresses, DebuggerAssumption
<1>2. stopFlag \in BOOLEAN
  BY DEF Init
<1> QED BY <1>1, <1>2 DEF StepInv

LEMMA StepInvNext == IInv /\ StepInv /\ [Next]_vars => StepInv'
<1>. SUFFICES ASSUME IInv, StepInv, [Next]_vars PROVE StepInv'
  OBVIOUS
<1>0. /\ ip \in Addresses /\ calls \in Seq(Addresses) /\ stopFlag \in BOOLEAN
      /\ phase = "prompt" => started = NoCall
  BY DEF StepInv
<1>1. ASSUME phase = "prompt", started' = started, ip' \in Addresses,
             calls' \in Seq(Addresses), stopFlag' \in BOOLEAN
      PROVE  StepInv'
  BY <1>0, <1>1 DEF StepInv
<1>2. ASSUME NEW address \in Addresses,
             CmdSetBreakpoint(address) \/ CmdExecuteTo(address) \/ CmdLoad(address)
      PROVE  StepInv'
  <2>1. CASE CmdSetBreakpoint(address)
    BY <1>0, <1>1, <2>1 DEF CmdSetBreakpoint, machineVars, runVars
  <2>2. CASE CmdExecuteTo(address)
    BY <1>0, <1>1, <2>2 DEF CmdExecuteTo, Execute, machineVars
  <2>3. CASE CmdLoad(address)
    <3>1. /\ phase = "prompt" /\ started' = started /\ ip' = address
          /\ calls' = <<>> /\ stopFlag' = FALSE
      BY <2>3 DEF CmdLoad
    <3>2. calls' \in Seq(Addresses)
      BY <3>1
    <3>3. stopFlag' \in BOOLEAN
      BY <3>1
    <3>. QED BY <1>1, <3>1, <3>2, <3>3
  <2>. QED BY <1>2, <2>1, <2>2, <2>3
<1>3. CASE ClearBreakpoints \/ (\E id \in 0 .. MaxID : CmdClearBreakpoint(id))
           \/ (\E n \in Repeats : CmdExecute(n))
  BY <1>0, <1>1, <1>3 DEF ClearBreakpoints, CmdClearBreakpoint, CmdExecute, Execute,
                          machineVars, runVars
<1>4. CASE CmdStepOver
  <2>1. CASE ip \notin CallSites
    BY <1>0, <1>1, <1>4, <2>1 DEF CmdStepOver, Execute, machineVars
  <2>2. CASE ip \in CallSites
    <3>1. /\ phase = "prompt" /\ ip + 1 \in Addresses
          /\ SetBreakpoint(ip + 1, "BREAK_STEP_OVER")
          /\ started' = calls /\ phase' = "run"
          /\ ip' = ip /\ calls' = calls /\ stopFlag' = stopFlag
      BY <1>4, <2>2 DEF CmdStepOver, Execute, machineVars
    <3>2. breakpointsActive' /\ Reached(ip + 1)'
      <4> DEFINE b == [ID |-> NextID, address |-> ip + 1, type |-> "BREAK_STEP_OVER"]
                 n == Len(breakpoints)
      <4>1. /\ breakpointsActive' /\ b \in Breakpoints
            /\ breakpoints \in Seq(Breakpoints) /\ n \in Nat
            /\ breakpoints' = Append(breakpoints, b)
        BY <3>1, NextIDIsNew DEF SetBreakpoint, Breakpoints, Types, IInv
      <4>2. b.address = ip + 1
        OBVIOUS
      <4> HIDE DEF b
      <4>3. n + 1 \in DOMAIN breakpoints' /\ breakpoints'[n + 1] = b
        BY <4>1, AppendProperties
      <4>4. breakpoints'[n + 1].address = ip' + 1
        BY <3>1, <4>2, <4>3
      <4> HIDE DEF n
      <4> QED BY <3>1, <4>1, <4>3, <4>4 DEF Reached
    <3>3. OverFrom(ip)'
      <4> QED BY <3>1, <3>2 DEF OverFrom
    <3>4. ip' = ip /\ \E site \in CallSites : OverFrom(site)'
      BY <2>2, <3>1, <3>3
    <3>. QED BY <1>0, <3>1, <3>4 DEF StepInv
  <2>. QED BY <2>1, <2>2
<1>5. ASSUME NEW other \in BOOLEAN, Instruction(other) PROVE StepInv'
  <2>1. ip' \in Addresses /\ calls' \in Seq(Addresses) /\ stopFlag' \in BOOLEAN
    BY <1>5, MachineTypes
  <2>2. started' = started /\ phase' = phase
    BY <1>5 DEF Instruction
  <2>3. CASE started = NoCall
    BY <2>1, <2>2, <2>3 DEF StepInv
  <2>4. CASE started # NoCall
    <3>1. /\ phase = "run" /\ started \in Seq(Addresses)
          /\ \E site \in CallSites : OverFrom(site)
      BY <2>4 DEF StepInv
    <3>2. PICK site \in CallSites : OverFrom(site)
      BY <3>1
    <3>3. OverFrom(site)'
      BY <1>5, <2>1, <3>1, <3>2, IterationStays
    <3>. QED BY <2>1, <2>2, <3>1, <3>3 DEF StepInv
  <2>. QED BY <2>3, <2>4
<1>6. CASE Stopped \/ ManualBreak
  <2>1. started' = NoCall /\ ip' = ip /\ calls' = calls
    BY <1>6 DEF Stopped, ManualBreak, CommandEnds, machineVars
  <2>2. stopFlag' \in BOOLEAN
    BY <1>6 DEF Stopped, ManualBreak
  <2>. QED BY <1>0, <2>1, <2>2 DEF StepInv
<1>7. CASE UNCHANGED vars
  BY <1>7 DEF vars, listVars, machineVars, StepInv, OverFrom, InCall, Inner, Reached
<1>. QED BY <1>2, <1>3, <1>4, <1>5, <1>6, <1>7 DEF Next

(* SimControl.cpp:1481-1515, decode.cpp:119-155: for every program,        *)
(* however it calls, returns and is interrupted, also by an interrupt that *)
(* comes with a return and hides the temporary breakpoint, a step over     *)
(* ends before the call it stepped over has returned and the program has   *)
(* gone on.                                                                *)
THEOREM StepOverStaysInCall == Spec => []StepOverNeverLeaves
<1>1. StepInv => StepOverNeverLeaves
  <2>. SUFFICES ASSUME StepInv, started # NoCall PROVE IsSuffix(started, calls)
    BY DEF StepOverNeverLeaves
  <2>1. calls \in Seq(Addresses) /\ started \in Seq(Addresses)
    BY DEF StepInv
  <2>2. /\ Inner(calls) >= 0
        /\ \A i \in 1 .. Len(started) : calls[Inner(calls) + i] = started[i]
    <3>1. CASE calls = started
      BY <2>1, <3>1 DEF Inner
    <3>2. CASE calls # started
      BY <3>2 DEF StepInv, OverFrom, InCall
    <3>. QED BY <3>1, <3>2
  <2>3. Len(started) <= Len(calls)
    BY <2>1, <2>2 DEF Inner
  <2>. QED BY <2>1, <2>2, <2>3, SuffixByElements DEF Inner
<1>. QED BY <1>1, StepInvInit, StepInvNext, IInvInit, IInvNext, PTL DEF Spec

-----------------------------------------------------------------------------
(* The command line history                                                *)

USE HistoryAssumption

(* A ring that is not full starts at slot 0 and ends at its size, and the  *)
(* rest of it is unused; in a full one the tail is at the head.  The last  *)
(* command is before the tail.                                             *)
RingShape ==
  /\ size < HistorySize => head = 0 /\ tail = size
  /\ size = HistorySize => tail = head
  /\ lastIndex = IF size = 0 THEN 0 ELSE Before(tail)
  /\ \A slot \in Slots : slot >= size => history[slot] = Empty

(* historyIndex is one too high at most, and only after GetNext has come   *)
(* back to the tail.                                                       *)
CursorInRing ==
  /\ age <= size /\ historyIndex <= size
  /\ age <= historyIndex /\ historyIndex <= age + 1

HistoryInv == HistoryTypeOK /\ RingShape /\ CursorInRing

-----------------------------------------------------------------------------
(* The k-th slot from slot h on, around the end of the ring, and the n     *)
(* entries from there.                                                     *)
SlotFrom(h, k) == IF h + k - 1 < HistorySize THEN h + k - 1 ELSE h + k - 1 - HistorySize

EntriesFrom(entry, h, n) == [k \in 1 .. n |-> entry[SlotFrom(h, k)]]

LEMMA HistoryInitInv == HistoryInit => HistoryInv
  BY DEF HistoryInit, HistoryInv, HistoryTypeOK, RingShape, CursorInRing, Slots, age, Before

LEMMA AddInv ==
  ASSUME HistoryInv, NEW command \in Commands, Add(command)
  PROVE  HistoryInv'
<1>1. HistoryTypeOK'
  BY DEF Add, Reset, HistoryInv, HistoryTypeOK, RingShape, ring, Slots, After
<1>2. RingShape'
  BY DEF Add, Reset, HistoryInv, HistoryTypeOK, RingShape, ring, Slots, After, Before
<1>3. CursorInRing'
  BY DEF Add, Reset, HistoryInv, HistoryTypeOK, CursorInRing, ring, age
<1> QED BY <1>1, <1>2, <1>3 DEF HistoryInv

(* The entry `a' commands back is in the slot `a' before the tail.         *)
LEMMA CursorSlot ==
  ASSUME NEW h \in Slots, NEW t \in Slots, NEW c \in Slots,
         NEW n \in 1 .. HistorySize, NEW a \in 1 .. n,
         n < HistorySize => h = 0 /\ t = n,
         n = HistorySize => t = h,
         a = IF c < t THEN t - c ELSE t - c + HistorySize
  PROVE  SlotFrom(h, n + 1 - a) = c /\ n + 1 - a \in 1 .. n
  BY DEF Slots, SlotFrom

(* The cursor moves to the next newer entry or back to the tail.           *)
LEMMA GetNextInv ==
  ASSUME HistoryInv, GetNext
  PROVE  /\ HistoryInv'
         /\ age' = IF age > 0 THEN age - 1 ELSE 0
<1>1. HistoryTypeOK'
  BY DEF GetNext, HistoryInv, HistoryTypeOK, ring, Slots, After
<1>2. RingShape'
  BY DEF GetNext, HistoryInv, HistoryTypeOK, RingShape, ring, Slots
<1>3. age' = IF age > 0 THEN age - 1 ELSE 0
  BY DEF GetNext, HistoryInv, HistoryTypeOK, CursorInRing, ring, Slots, After, age
<1>4. CursorInRing'
  BY <1>3 DEF GetNext, HistoryInv, HistoryTypeOK, CursorInRing, ring, Slots, age
<1> QED BY <1>1, <1>2, <1>3, <1>4 DEF HistoryInv

(* The cursor moves to the next older entry, or stays at the oldest.       *)
LEMMA GetPreviousInv ==
  ASSUME HistoryInv, GetPrevious
  PROVE  /\ HistoryInv'
         /\ age' = IF age < size THEN age + 1 ELSE age
<1>1. HistoryTypeOK'
  BY DEF GetPrevious, HistoryInv, HistoryTypeOK, ring, Slots, Before
<1>2. RingShape'
  BY DEF GetPrevious, HistoryInv, HistoryTypeOK, RingShape, ring, Slots
<1>3. age' = IF age < size THEN age + 1 ELSE age
  <2>1. CASE historyIndex < size
    BY <2>1 DEF GetPrevious, HistoryInv, HistoryTypeOK, CursorInRing, ring, Slots, Before, age
  <2>2. CASE historyIndex >= size
    BY <2>2 DEF GetPrevious, HistoryInv, HistoryTypeOK, RingShape, CursorInRing, ring, Slots, age
  <2> QED BY <2>1, <2>2 DEF HistoryInv, HistoryTypeOK
<1>4. age \in Int
  BY DEF HistoryInv, HistoryTypeOK, Slots, age
<1>5. CursorInRing'
  BY <1>3, <1>4 DEF GetPrevious, HistoryInv, HistoryTypeOK, CursorInRing, ring
<1> QED BY <1>1, <1>2, <1>3, <1>5 DEF HistoryInv

LEMMA HistoryNextInv == HistoryInv /\ [HistoryNext]_historyVars => HistoryInv'
<1> SUFFICES ASSUME HistoryInv, [HistoryNext]_historyVars PROVE HistoryInv'
  OBVIOUS
<1>1. ASSUME NEW command \in Commands, Add(command) PROVE HistoryInv'
  BY <1>1, AddInv
<1>2. CASE GetNext
  BY <1>2, GetNextInv
<1>3. CASE GetPrevious
  BY <1>3, GetPreviousInv
<1>4. CASE Escape
  BY <1>4 DEF Escape, Reset, HistoryInv, HistoryTypeOK, RingShape, CursorInRing, ring, Slots, age
<1>5. CASE EnterNothing \/ UNCHANGED historyVars
  BY <1>5 DEF EnterNothing, historyVars, HistoryInv, HistoryTypeOK, RingShape, CursorInRing, ring, Slots, age
<1> QED BY <1>1, <1>2, <1>3, <1>4, <1>5 DEF HistoryNext

LEMMA HistoryAlways == HistorySpec => []HistoryInv
  BY HistoryInitInv, HistoryNextInv, PTL DEF HistorySpec

(* Every index the code uses is a slot of the ring, and every entry is a   *)
(* command or unused.                                                      *)
THEOREM HistoryTypeCorrect == HistorySpec => []HistoryTypeOK
  BY HistoryAlways, PTL DEF HistoryInv
-----------------------------------------------------------------------------
LEMMA EntriesInOrder ==
  ASSUME NEW S, NEW entry \in [Slots -> S], NEW h \in Slots, NEW n \in 0 .. HistorySize
  PROVE  /\ EntriesFrom(entry, h, n) \in Seq(S)
         /\ Len(EntriesFrom(entry, h, n)) = n
         /\ \A k \in 1 .. n : /\ SlotFrom(h, k) \in Slots
                              /\ EntriesFrom(entry, h, n)[k] = entry[SlotFrom(h, k)]
<1> DEFINE seq == EntriesFrom(entry, h, n)
<1>1. \A k \in 1 .. n : SlotFrom(h, k) \in Slots
  BY DEF Slots, SlotFrom
<1>2. \A k \in 1 .. n : seq[k] = entry[SlotFrom(h, k)] /\ seq[k] \in S
  BY <1>1 DEF EntriesFrom
<1>3. seq = [k \in 1 .. n |-> seq[k]]
  BY DEF EntriesFrom
<1> HIDE DEF seq
<1>4. seq \in Seq(S) /\ Len(seq) = n
  BY <1>2, <1>3
<1> QED BY <1>1, <1>2, <1>4 DEF seq

LEMMA LogIsSequence ==
  ASSUME HistoryTypeOK
  PROVE  /\ log \in Seq(Commands \cup {Empty})
         /\ Len(log) = size
         /\ \A k \in 1 .. size : Slot(k) \in Slots /\ log[k] = history[Slot(k)]
<1>1. log = EntriesFrom(history, head, size)
  BY DEF log, Slot, EntriesFrom, SlotFrom
<1>2. \A k : Slot(k) = SlotFrom(head, k)
  BY DEF Slot, SlotFrom
<1>3. /\ history \in [Slots -> Commands \cup {Empty}]
      /\ head \in Slots /\ size \in 0 .. HistorySize
  BY DEF HistoryTypeOK
<1> DEFINE Entries == Commands \cup {Empty}
<1> HIDE DEF Entries
<1>4. history \in [Slots -> Entries]
  BY <1>3 DEF Entries
<1>5. /\ EntriesFrom(history, head, size) \in Seq(Entries)
      /\ Len(EntriesFrom(history, head, size)) = size
      /\ \A k \in 1 .. size :
           /\ SlotFrom(head, k) \in Slots
           /\ EntriesFrom(history, head, size)[k] = history[SlotFrom(head, k)]
  BY <1>3, <1>4, EntriesInOrder
<1> QED BY <1>1, <1>2, <1>5, Zenon DEF Entries

(* A command is stored behind the others, and in place of the oldest one   *)
(* when the ring is full.                                                  *)
LEMMA StoredLast ==
  ASSUME HistoryInv, NEW command \in Commands, Add(command), command # history[lastIndex]
  PROVE  log' = IF size < HistorySize THEN Append(log, command)
                                      ELSE Append(Tail(log), command)
<1> DEFINE Entries == Commands \cup {Empty}
<1>1. /\ log \in Seq(Entries) /\ Len(log) = size
      /\ \A k \in 1 .. size : Slot(k) \in Slots /\ log[k] = history[Slot(k)]
  BY LogIsSequence DEF HistoryInv
<1>3. ASSUME NEW n \in 0 .. HistorySize, size' = n
      PROVE  /\ log' \in Seq(Entries) /\ Len(log') = n
             /\ \A k \in 1 .. n : Slot(k)' \in Slots /\ log'[k] = history'[Slot(k)']
  <2>1. log' = EntriesFrom(history', head', n)
    BY <1>3 DEF log, Slot, EntriesFrom, SlotFrom
  <2>2. \A k : Slot(k)' = SlotFrom(head', k)
    BY DEF Slot, SlotFrom
  <2>3. history' \in [Slots -> Entries] /\ head' \in Slots
    BY AddInv DEF HistoryInv, HistoryTypeOK
  <2> HIDE DEF Entries
  <2>4. /\ EntriesFrom(history', head', n) \in Seq(Entries)
        /\ Len(EntriesFrom(history', head', n)) = n
        /\ \A k \in 1 .. n :
             /\ SlotFrom(head', k) \in Slots
             /\ EntriesFrom(history', head', n)[k] = history'[SlotFrom(head', k)]
    BY <1>3, <2>3, EntriesInOrder
  <2> QED BY <2>1, <2>2, <2>4, Zenon
<1>4. /\ history' = [history EXCEPT ![tail] = command]
      /\ tail' = After(tail)
      /\ IF size < HistorySize THEN size' = size + 1 /\ UNCHANGED head
                               ELSE head' = After(head) /\ UNCHANGED size
  BY DEF Add
<1>5. size \in 0 .. HistorySize /\ tail \in Slots /\ head \in Slots
      /\ history \in [Slots -> Entries]
  BY DEF HistoryInv, HistoryTypeOK
<1>6. CASE size < HistorySize
  <2>0. /\ log' \in Seq(Entries) /\ Len(log') = size + 1
        /\ \A k \in 1 .. size + 1 : Slot(k)' \in Slots /\ log'[k] = history'[Slot(k)']
    <3>1. size + 1 \in 0 .. HistorySize /\ size' = size + 1
      BY <1>4, <1>5, <1>6
    <3> HIDE DEF Entries
    <3> QED BY <1>3, <3>1
  <2>1. \A k \in 1 .. size + 1 : Slot(k)' = k - 1
    BY <1>4, <1>5, <1>6 DEF HistoryInv, RingShape, Slot
  <2>2. \A k \in 1 .. size : Slot(k) = k - 1 /\ k - 1 # tail
    BY <1>5, <1>6 DEF HistoryInv, RingShape, Slot
  <2>3. \A k \in 1 .. size : log'[k] = log[k]
    BY <1>1, <1>4, <1>5, <1>6, <2>0, <2>1, <2>2 DEF Slots
  <2>4. log'[size + 1] = command
    BY <1>4, <1>5, <1>6, <2>0, <2>1 DEF HistoryInv, RingShape, Slots
  <2> HIDE DEF Entries
  <2>5. command \in Entries
    BY DEF Entries
  <2>6. /\ Append(log, command) \in Seq(Entries)
        /\ Len(Append(log, command)) = size + 1
        /\ \A k \in 1 .. size : Append(log, command)[k] = log[k]
        /\ Append(log, command)[size + 1] = command
    BY <1>1, <2>5, AppendProperties
  <2>7. \A k \in 1 .. size + 1 : log'[k] = Append(log, command)[k]
    BY <1>5, <2>3, <2>4, <2>6
  <2> QED BY <1>6, <2>0, <2>6, <2>7, SeqEqual
<1>7. CASE size = HistorySize
  <2>0. /\ log' \in Seq(Entries) /\ Len(log') = size
        /\ \A k \in 1 .. size : Slot(k)' \in Slots /\ log'[k] = history'[Slot(k)']
    <3>1. size' = size
      BY <1>4, <1>5, <1>7
    <3> HIDE DEF Entries
    <3> QED BY <1>3, <1>5, <3>1
  <2>1. \A k \in 1 .. size - 1 : Slot(k)' = Slot(k + 1) /\ Slot(k + 1) # tail
    BY <1>4, <1>5, <1>7 DEF HistoryInv, RingShape, Slot, Slots, After
  <2>2. \A k \in 1 .. size : k = size => Slot(k)' = tail
    BY <1>4, <1>5, <1>7 DEF HistoryInv, RingShape, Slot, Slots, After
  <2>3. \A k \in 1 .. size - 1 : log'[k] = log[k + 1]
    <3> TAKE k \in 1 .. size - 1
    <3>1. k \in 1 .. size /\ k + 1 \in 1 .. size
      BY <1>5, <1>7
    <3>2. log'[k] = history'[Slot(k + 1)] /\ Slot(k + 1) # tail
      BY <2>0, <2>1, <3>1
    <3> QED BY <1>1, <1>4, <1>5, <3>1, <3>2
  <2>4. log'[size] = command
    <3>1. \A k \in 1 .. size : k = size => log'[k] = history'[tail]
      BY <2>0, <2>2
    <3>2. size \in 1 .. size
      BY <1>5, <1>7
    <3> QED BY <1>4, <1>5, <3>1, <3>2
  <2> HIDE DEF Entries
  <2>5. command \in Entries
    BY DEF Entries
  <2>6. log # <<>>
    BY <1>1, <1>5, <1>7
  <2>7. /\ Tail(log) \in Seq(Entries) /\ Len(Tail(log)) = size - 1
        /\ \A k \in 1 .. size - 1 : Tail(log)[k] = log[k + 1]
    BY <1>1, <2>6, HeadTailProperties
  <2>8. /\ Append(Tail(log), command) \in Seq(Entries)
        /\ Len(Append(Tail(log), command)) = size
        /\ \A k \in 1 .. size - 1 : Append(Tail(log), command)[k] = log[k + 1]
        /\ Append(Tail(log), command)[size] = command
    BY <1>5, <2>5, <2>7, AppendProperties
  <2>9. \A k \in 1 .. size : log'[k] = Append(Tail(log), command)[k]
    BY <1>5, <2>3, <2>4, <2>8
  <2> QED BY <1>5, <1>7, <2>0, <2>8, <2>9, SeqEqual
<1> QED BY <1>5, <1>6, <1>7

(* The log depends on the ring only. *)
LEMMA LogUnchanged ==
  ASSUME UNCHANGED ring
  PROVE  log' = log
  BY DEF ring, log, Slot

(* Adding maps to adding: the last entry of the log is where lastIndex is. *)
LEMMA AddImplements ==
  ASSUME HistoryInv, NEW command \in Commands, Add(command)
  PROVE  Log!Add(command)
<1>1. Len(log) = size /\ \A k \in 1 .. size : log[k] = history[Slot(k)]
  BY LogIsSequence DEF HistoryInv
<1>2. size \in 0 .. HistorySize
  BY DEF HistoryInv, HistoryTypeOK
<1>3. age' = 0 /\ line' = Empty
  BY DEF Add, Reset, age
<1>4. size = 0 => command # history[lastIndex]
  BY DEF HistoryInv, HistoryTypeOK, RingShape
<1>5. size > 0 => log[size] = history[lastIndex]
  <2> HAVE size > 0
  <2>1. Slot(size) = lastIndex
    BY <1>2 DEF HistoryInv, HistoryTypeOK, RingShape, Slot, Slots, Before
  <2> QED BY <1>1, <1>2, <2>1
<1>6. log # <<>> <=> size > 0
  BY <1>1, <1>2, LogIsSequence DEF HistoryInv
<1>7. CASE command = history[lastIndex]
  <2>1. log' = log
    BY <1>7, LogUnchanged DEF Add
  <2> QED BY <1>1, <1>2, <1>3, <1>4, <1>5, <1>6, <1>7, <2>1 DEF Log!Add, Log!Back
<1>8. CASE command # history[lastIndex]
  BY <1>1, <1>2, <1>3, <1>5, <1>6, <1>8, StoredLast DEF Log!Add, Log!Back
<1> QED BY <1>7, <1>8

(* The slot of the cursor holds the command that the cursor is at. *)
LEMMA AtCursor ==
  HistoryInv /\ age # 0 => age \in 1 .. size /\ log[size + 1 - age] = history[current]
<1> SUFFICES ASSUME HistoryInv, age # 0
             PROVE  age \in 1 .. size /\ log[size + 1 - age] = history[current]
  OBVIOUS
<1>1. age \in 1 .. size /\ size \in 1 .. HistorySize
  BY DEF HistoryInv, HistoryTypeOK, CursorInRing, Slots, age
<1>2. age = IF current < tail THEN tail - current ELSE tail - current + HistorySize
  BY Zenon DEF age
<1>3. /\ head \in Slots /\ tail \in Slots /\ current \in Slots
      /\ size < HistorySize => head = 0 /\ tail = size
      /\ size = HistorySize => tail = head
  BY DEF HistoryInv, HistoryTypeOK, RingShape
<1>4. SlotFrom(head, size + 1 - age) = current /\ size + 1 - age \in 1 .. size
  BY <1>1, <1>2, <1>3, CursorSlot
<1>5. Slot(size + 1 - age) = current
  BY <1>4, Zenon DEF Slot, SlotFrom
<1> QED BY <1>1, <1>4, <1>5, LogIsSequence DEF HistoryInv

(* A key that leaves the cursor at a command and shows the slot there      *)
(* shows that command.                                                     *)
LEMMA ShowsCursor ==
  ASSUME HistoryInv', UNCHANGED ring, age' # 0, line' = history[current']
  PROVE  age' \in 1 .. size /\ line' = log[size + 1 - age']
<1>1. (HistoryInv /\ age # 0 => age \in 1 .. size /\ log[size + 1 - age] = history[current])'
  BY AtCursor, PTL
<1>2. size' = size /\ history' = history /\ log' = log
  BY LogUnchanged DEF ring
<1> QED BY <1>1, <1>2

LEMMA PreviousImplements ==
  ASSUME HistoryInv, GetPrevious
  PROVE  Log!Older /\ (size > 0 => age' \in 1 .. size)
<1>1. Len(log) = size /\ size \in 0 .. HistorySize
  BY LogIsSequence DEF HistoryInv, HistoryTypeOK
<1>2. HistoryInv' /\ UNCHANGED ring /\ log' = log
  BY GetPreviousInv, LogUnchanged DEF GetPrevious
<1>3. age' = IF age < size THEN age + 1 ELSE age
  BY GetPreviousInv
<1>4. age \in 0 .. size
  BY DEF HistoryInv, HistoryTypeOK, CursorInRing, Slots, age
<1>5. CASE size = 0
  BY <1>1, <1>2, <1>3, <1>4, <1>5 DEF GetPrevious, HistoryInv, HistoryTypeOK, Log!Older, Log!Recalled
<1>6. CASE size > 0
  <2>1. age' # 0 /\ line' = history[current']
    BY <1>1, <1>3, <1>4, <1>6 DEF GetPrevious
  <2>2. age' \in 1 .. size /\ line' = log[size + 1 - age']
    BY <1>2, <2>1, ShowsCursor
  <2> QED BY <1>1, <1>2, <1>3, <2>1, <2>2 DEF Log!Older, Log!Recalled
<1> QED BY <1>1, <1>5, <1>6

(* At the newest command historyIndex may be 2.  Then it is the slot at    *)
(* the tail that is shown: an unused one, or in a full ring the oldest.    *)
LEMMA NextImplementsNewer ==
  ASSUME HistoryInv, GetNext
  PROVE  IF Astray THEN Log!Slip ELSE Log!Newer
<1>1. /\ Len(log) = size /\ size \in 0 .. HistorySize
      /\ \A k \in 1 .. size : log[k] = history[Slot(k)]
  BY LogIsSequence DEF HistoryInv, HistoryTypeOK
<1>2. HistoryInv' /\ UNCHANGED ring /\ log' = log
  BY GetNextInv, LogUnchanged DEF GetNext
<1>3. age' = IF age > 0 THEN age - 1 ELSE 0
  BY GetNextInv
<1>4. age \in 0 .. size /\ historyIndex \in 0 .. size /\ historyIndex <= age + 1
  BY DEF HistoryInv, HistoryTypeOK, CursorInRing, Slots, age
<1>5. CASE historyIndex > 1 /\ age > 1
  <2>1. age' # 0 /\ line' = history[current']
    BY <1>3, <1>4, <1>5 DEF GetNext
  <2>2. line' = log[size + 1 - age']
    BY <1>2, <2>1, ShowsCursor
  <2> QED BY <1>1, <1>2, <1>3, <1>5, <2>1, <2>2 DEF Log!Newer, Log!Recalled, Astray
<1>6. CASE historyIndex > 1 /\ age <= 1
  <2>1. age = 1 /\ age' = 0 /\ historyIndex = 2 /\ line' = history[After(current)]
    BY <1>3, <1>4, <1>6 DEF GetNext
  <2>2. After(current) = tail /\ tail \in Slots
    BY <2>1 DEF HistoryInv, HistoryTypeOK, Slots, After, age
  <2>3. CASE size < HistorySize
    <3>1. line' = Empty
      BY <2>1, <2>2, <2>3 DEF HistoryInv, RingShape, Slots
    <3> QED BY <1>2, <2>1, <2>3, <3>1 DEF Log!Newer, Log!Recalled, Astray
  <2>4. CASE size = HistorySize
    <3>1. Slot(1) = tail /\ 1 \in 1 .. size
      BY <2>4 DEF HistoryInv, HistoryTypeOK, RingShape, Slot, Slots
    <3>2. line' = log[1]
      BY <1>1, <2>1, <2>2, <3>1
    <3> QED BY <1>1, <1>2, <2>1, <2>4, <3>2 DEF Log!Slip, Astray
  <2> QED BY <1>1, <2>3, <2>4
<1>7. CASE historyIndex <= 1
  <2>1. line' = Empty /\ age' = 0
    BY <1>3, <1>7 DEF GetNext, HistoryInv, HistoryTypeOK, ring, age
  <2> QED BY <1>2, <1>3, <1>7, <2>1 DEF Log!Newer, Log!Recalled, Astray
<1> QED BY <1>4, <1>5, <1>6, <1>7

LEMMA NextImplements == HistoryInv /\ [HistoryNext]_historyVars => [Log!Next]_(Log!vars)
<1> SUFFICES ASSUME HistoryInv, [HistoryNext]_historyVars PROVE [Log!Next]_(Log!vars)
  OBVIOUS
<1>1. ASSUME NEW command \in Commands, Add(command) PROVE Log!Next
  BY <1>1, AddImplements DEF Log!Next
<1>2. CASE GetNext
  BY <1>2, NextImplementsNewer DEF Log!Next
<1>3. CASE GetPrevious
  BY <1>3, PreviousImplements DEF Log!Next
<1>4. CASE Escape
  <2>1. age' = 0 /\ line' = Empty
    BY <1>4 DEF Escape, Reset, age
  <2> QED BY <1>4, <2>1, LogUnchanged DEF Escape, Log!Next, Log!Reset, Log!Back
<1>5. CASE EnterNothing
  <2>1. UNCHANGED ring /\ age' = age /\ line' = Empty
    BY <1>5 DEF EnterNothing, ring, age
  <2> QED BY <2>1, LogUnchanged DEF Log!Next, Log!EnterNothing
<1>6. CASE UNCHANGED historyVars
  <2>1. UNCHANGED ring /\ age' = age /\ line' = line
    BY <1>6 DEF historyVars, ring, age
  <2> QED BY <2>1, LogUnchanged DEF Log!vars
<1> QED BY <1>1, <1>2, <1>3, <1>4, <1>5, <1>6 DEF HistoryNext

(* The ring implements the abstract history: the last HistorySize commands *)
(* in order, none directly after itself, under a cursor that moves by one  *)
(* entry for each key, although historyIndex may be one too high, and the  *)
(* command at the cursor on the line, but for Slip.                        *)
THEOREM RingImplementsLog == HistorySpec => ImplementsLog
<1>1. HistoryInit => Log!Init
  BY DEF HistoryInit, Log!Init, log, age
<1> QED
  BY <1>1, HistoryAlways, NextImplements, PTL DEF HistorySpec, ImplementsLog, Log!Spec

(* What the key for an older command shows is the entry at the cursor; the *)
(* one for a newer command goes to the entry after it, or back to the line *)
(* being typed, and only with a full ring and historyIndex one too high at *)
(* the newest entry to the oldest.                                         *)
THEOREM KeysAreRecalled == HistorySpec => KeysRecall
<1>1. ASSUME HistoryInv, GetPrevious PROVE OlderRecalled
  <2>1. Len(log) = size /\ size \in 0 .. HistorySize
    BY <1>1, LogIsSequence DEF HistoryInv, HistoryTypeOK
  <2>2. /\ age' = IF age < size THEN age + 1 ELSE age
        /\ line' = IF age' = 0 THEN Empty ELSE log[size + 1 - age']
        /\ size > 0 => age' \in 1 .. size
    BY <1>1, <2>1, PreviousImplements DEF Log!Older, Log!Recalled
  <2>3. size = 0 => age = 0
    BY <1>1 DEF HistoryInv, HistoryTypeOK, CursorInRing, Slots, age
  <2> QED BY <2>1, <2>2, <2>3 DEF OlderRecalled
<1>2. ASSUME HistoryInv, GetNext PROVE NewerRecalled
  <2>1. Len(log) = size
    BY <1>2, LogIsSequence DEF HistoryInv, HistoryTypeOK
  <2>2. age' = IF age > 0 THEN age - 1 ELSE 0
    BY <1>2, GetNextInv
  <2>3. IF Astray THEN Log!Slip ELSE Log!Newer
    BY <1>2, NextImplementsNewer
  <2> QED BY <2>1, <2>2, <2>3 DEF Log!Slip, Log!Newer, Log!Recalled, NewerRecalled
<1>3. HistoryInv /\ [HistoryNext]_historyVars =>
        [(GetPrevious => OlderRecalled) /\ (GetNext => NewerRecalled)]_historyVars
  BY <1>1, <1>2
<1> QED
  BY <1>3, HistoryAlways, PTL DEF HistorySpec, KeysRecall
=============================================================================
