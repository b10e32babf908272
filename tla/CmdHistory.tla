----------------------------- MODULE CmdHistory -----------------------------
(***************************************************************************)
(* The command line history of Emu86 (emulator/CmdHistory.cpp), a ring of  *)
(* HistorySize entries with a cursor, and its only user, the line editor   *)
(* of emulator/SimWindow.cpp.                                              *)
(*                                                                         *)
(* The entries in use are the `size' ones from `head' on; `tail' is where  *)
(* the next one goes.  A command has at most ENTRY_SIZE - 1 characters, as *)
(* the line editor's buffer is no longer, so that Add never shortens one.  *)
(***************************************************************************)
EXTENDS Integers, Sequences

CONSTANTS
  Commands,       \* the non-empty lines
  Empty,          \* the empty line
  HistorySize     \* HISTORY_SIZE

ASSUME HistoryAssumption == HistorySize \in Nat /\ HistorySize > 1 /\ Empty \notin Commands

VARIABLES
  history, head, tail, size,
  lastIndex,      \* where the last command was stored
  current,        \* where the cursor is
  historyIndex,   \* 0: no entry recalled, 1: the newest, ...
  line            \* what GetHistory has put on the command line

ring == <<history, head, tail, size, lastIndex>>

historyVars == <<ring, current, historyIndex, line>>

Slots == 0 .. HistorySize - 1

After(slot) == IF slot + 1 = HistorySize THEN 0 ELSE slot + 1

Before(slot) == IF slot = 0 THEN HistorySize - 1 ELSE slot - 1
-----------------------------------------------------------------------------
(* CmdHistory is part of a static object: its entries are zeros. *)
HistoryInit ==
  /\ history = [slot \in Slots |-> Empty]
  /\ head = 0 /\ tail = 0 /\ size = 0 /\ lastIndex = 0
  /\ current = 0 /\ historyIndex = 0
  /\ line = Empty

(* The cursor goes to the top; what is on the line goes, too. *)
Reset == current' = tail' /\ historyIndex' = 0 /\ line' = Empty

(* Mutant of Add: the test for a repeated command looks at the slot to be *)
(* written.                                                                *)
Add_TailTest(command) ==
  /\ IF command = history[tail]
     THEN UNCHANGED ring
     ELSE /\ history' = [history EXCEPT ![tail] = command]
          /\ lastIndex' = tail
          /\ tail' = After(tail)
          /\ IF size < HistorySize
             THEN size' = size + 1 /\ UNCHANGED head
             ELSE head' = After(head) /\ UNCHANGED size
  /\ Reset

Add(command) ==
  /\ IF command = history[lastIndex]
     THEN UNCHANGED ring
     ELSE /\ history' = [history EXCEPT ![tail] = command]
          /\ lastIndex' = tail
          /\ tail' = After(tail)
          /\ IF size < HistorySize
             THEN size' = size + 1 /\ UNCHANGED head
             ELSE head' = After(head) /\ UNCHANGED size
  /\ Reset

(* Mutant of GetNext: the cursor goes on past the newest entry. *)
GetNext_TooFar ==
  /\ IF historyIndex > 0
     THEN /\ historyIndex' = historyIndex - 1
          /\ current' = After(current)
          /\ line' = history[current']
     ELSE current' = tail /\ line' = Empty /\ UNCHANGED historyIndex
  /\ UNCHANGED ring

(* Back at the line being typed, the cursor is at the tail again, but      *)
(* historyIndex stays 1.                                                   *)
GetNext ==
  /\ IF historyIndex > 1
     THEN /\ historyIndex' = historyIndex - 1
          /\ current' = After(current)
          /\ line' = history[current']
     ELSE current' = tail /\ line' = Empty /\ UNCHANGED historyIndex
  /\ UNCHANGED ring

GetPrevious ==
  /\ IF historyIndex < size
     THEN /\ historyIndex' = historyIndex + 1
          /\ current' = Before(current)
          /\ line' = history[current']
     ELSE /\ IF size > 0 THEN current' = head /\ line' = history[head]
                         ELSE current' = current /\ line' = Empty
          /\ UNCHANGED historyIndex
  /\ UNCHANGED ring

(* The Escape key. *)
Escape == UNCHANGED ring /\ Reset

(* The line, recalled and edited or typed anew, is entered.  An empty one  *)
(* is not stored and leaves the cursor where it is.                        *)
EnterNothing == line' = Empty /\ UNCHANGED <<ring, current, historyIndex>>

HistoryNext ==
  \/ \E command \in Commands : Add(command)
  \/ GetNext \/ GetPrevious \/ Escape \/ EnterNothing

HistorySpec == HistoryInit /\ [][HistoryNext]_historyVars
-----------------------------------------------------------------------------
HistoryTypeOK ==
  /\ history \in [Slots -> Commands \cup {Empty}]
  /\ head \in Slots /\ tail \in Slots /\ lastIndex \in Slots /\ current \in Slots
  /\ size \in 0 .. HistorySize
  /\ historyIndex \in 0 .. HistorySize
  /\ line \in Commands \cup {Empty}

(* Slot of the k-th oldest entry. *)
Slot(k) == IF head + k - 1 < HistorySize THEN head + k - 1 ELSE head + k - 1 - HistorySize

log == [k \in 1 .. size |-> history[Slot(k)]]

(* How far the cursor is from the tail.  In a full ring the oldest entry   *)
(* is at the tail: there the next key for an older command goes to the     *)
(* newest one if historyIndex is below 2, and stays at the oldest if not.  *)
age ==
  IF current = tail /\ historyIndex < 2 THEN 0
  ELSE IF current < tail THEN tail - current ELSE tail - current + HistorySize

(* The ring, its cursor and what it shows implement the abstract history:  *)
(* wrapping around and dropping the oldest entry lose and reorder nothing, *)
(* no command is stored twice in a row, and every key moves the cursor by  *)
(* at most one entry and shows the command there.  historyIndex and        *)
(* `current' are kept separately and get out of step in GetNext; all that  *)
(* can come of it is the step Slip of CommandLog (see Astray).   *)
Log == INSTANCE CommandLog WITH Limit <- HistorySize

ImplementsLog == Log!Spec

(* A key that recalls an older command shows the one at the cursor, never  *)
(* an unused slot of the ring: the two ways GetPrevious has to come to the *)
(* oldest entry agree.                                                     *)
OlderRecalled ==
  IF size = 0 THEN line' = Empty
  ELSE age' \in 1 .. size /\ line' = log[size + 1 - age']

(* At the newest entry historyIndex is 2 after up, down, up: one too high. *)
Astray == size = HistorySize /\ age = 1 /\ historyIndex = 2

(* CmdHistory.cpp:54 has GetNext "move forward in history", and at the     *)
(* newest entry, which is its beginning, "Return nothing" (line 70).  So   *)
(* it does, but for one case: after up, down, up, down in a full ring the  *)
(* next entry around the ring is the oldest.                               *)
NewerRecalled ==
  /\ age' = IF age > 0 THEN age - 1 ELSE 0
  /\ line' = IF Astray THEN log[1]
             ELSE IF age' = 0 THEN Empty ELSE log[size + 1 - age']

(* The keys show what is at the cursor, which GetPrevious and GetNext move *)
(* by their own counts, and do not stray but in the one case.              *)
KeysRecall ==
  [][(GetPrevious => OlderRecalled) /\ (GetNext => NewerRecalled)]_historyVars
=============================================================================
