----------------------------- MODULE CommandLog -----------------------------
(***************************************************************************)
(* What the command line history promises: the last Limit commands, oldest *)
(* first, no command directly after itself, and a cursor that walks over   *)
(* them and shows the command it is at.  `age' is how many commands the    *)
(* cursor is above the line being typed.  CmdHistory implements this with  *)
(* a ring.  It keeps the promise but for one step, Slip.                   *)
(***************************************************************************)
EXTENDS Integers, Sequences

CONSTANTS Commands, Empty, Limit

VARIABLES
  log,
  age,
  line    \* what the keys have put on the command line

vars == <<log, age, line>>

(* The command k entries back, nothing at the line being typed. *)
Recalled(k) == IF k = 0 THEN Empty ELSE log[Len(log) + 1 - k]

Init == log = <<>> /\ age = 0 /\ line = Empty

Back == age' = 0 /\ line' = Empty

(* The command entered last is not stored again; at the limit the oldest   *)
(* command makes room.                                                     *)
Add(command) ==
  /\ log' = IF log # <<>> /\ log[Len(log)] = command THEN log
            ELSE IF Len(log) < Limit THEN Append(log, command)
            ELSE Append(Tail(log), command)
  /\ Back

Older ==
  /\ age' = IF age < Len(log) THEN age + 1 ELSE age
  /\ line' = Recalled(age')
  /\ UNCHANGED log

Newer ==
  /\ age' = IF age > 0 THEN age - 1 ELSE 0
  /\ line' = Recalled(age')
  /\ UNCHANGED log

(* In place of Newer, at the newest command of a full log: the cursor is   *)
(* back at the line being typed, but it is the oldest command that shows.  *)
Slip ==
  /\ age = 1 /\ Len(log) = Limit
  /\ age' = 0 /\ line' = log[1]
  /\ UNCHANGED log

Reset == Back /\ UNCHANGED log

(* An empty line is entered; the cursor stays where it is. *)
EnterNothing == line' = Empty /\ UNCHANGED <<log, age>>

Next ==
  \/ \E command \in Commands : Add(command)
  \/ Older \/ Newer \/ Slip \/ Reset \/ EnterNothing

Spec == Init /\ [][Next]_vars
=============================================================================
