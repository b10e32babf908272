---------------------------- MODULE ProgramWindow ----------------------------
(***************************************************************************)
(* The windows of Emu86 on UNIX: CProgramWindow in the emulator, one CRT   *)
(* process (in an xterm) for each window, and the named pipes between      *)
(* them, one name for the program's output and one for Simptris.           *)
(*                                                                         *)
(* Sessions are numbered: session k is the k-th pipe that CreatePipe makes *)
(* and the window forked for it. A name leads to at most one pipe at a     *)
(* time; rm processes, which nobody waits for, remove names whenever they  *)
(* get to run. The emulator may crash at any time and be started again,    *)
(* and the user may close any window.                                      *)
(*                                                                         *)
(* A pipe holds tokens: a header <<n, action, len>> of the pipe's n-th     *)
(* message, written and read at once, then len bytes <<n>> of its body.    *)
(* Every write is below PIPE_BUF, so it is written whole or not at all.    *)
(***************************************************************************)
EXTENDS Integers, Sequences

CONSTANTS
  BufSize,      \* CRT_OUT_BUFFER_SIZE, in bytes
  HeaderSize,   \* sizeof(Message)
  Lengths,      \* the lengths of the strings that are sent
  MaxSessions,  \* bound: pipes that are made
  MaxSends,     \* bound: messages on one pipe, EXIT apart
  MaxRemovers   \* bound: rm processes of a name when a window is asked for

ASSUME WindowAssumption ==
  /\ HeaderSize \in Nat \ {0} /\ BufSize \in Nat /\ BufSize > HeaderSize
  /\ Lengths \subseteq Nat
  /\ MaxSessions \in Nat \ {0} /\ MaxSends \in Nat \ {0}
  /\ MaxRemovers \in Nat

Sessions == 1 .. MaxSessions
Names == {"out", "simp"}    \* EMU86_OUT_PIPE_NAME, EMU86_SIMP_PIPE_NAME
None == 0

VARIABLES
  pc,        \* where the emulator is; "off" when there is none
  target,    \* the window that is being made or closed, "out" otherwise
  handle,    \* hOutputPipe and hSimpPipe: the pipe, None when not open
  unsent,    \* the body that is still to be written: [name, len]
  name,      \* the directory: the pipe of each name, or None
  made,      \* the number of pipes made so far
  removers,  \* the rm processes that have not run yet, per name
  data,      \* what is in each pipe
  sent,      \* the number of messages begun on each pipe
  crt,       \* the CRT process of each session
  shown,     \* history: the messages each CRT has acted on
  abandoned, \* history: sessions the emulator did not get to open
  cut        \* history: pipes whose writer died inside a message

emuVars == <<pc, target, handle, unsent>>
dirVars == <<name, made, removers>>
vars == <<emuVars, dirVars, data, sent, crt, shown, abandoned, cut>>

(* A CRT is forked ("starting"), blocks in open until there is a writer    *)
(* ("opening"), and then alternates between reading a header and a body,   *)
(* until it has "ended". One that finds no name says so and is "waiting"   *)
(* for a key. fds: pipes whose write end it has inherited from the         *)
(* emulator.                                                               *)
NoHeader == <<0, "NONE", 0>>
NoBody == [name |-> "out", len |-> 0]
NoCRT == [state |-> "none", name |-> "out", pipe |-> None, head |-> NoHeader, fds |-> {}]

Attached(k) == crt[k].state \in {"opening", "header", "body"}
Alive(k) == crt[k].state \in {"starting", "waiting"} \/ Attached(k)

Readers(p) == {k \in Sessions : Attached(k) /\ crt[k].pipe = p}

(* handle is set when open is called: the kernel counts the emulator as a  *)
(* writer from then on, even while open waits for a reader.                *)
EmulatorWrites(p) == \E c \in Names : handle[c] = p

Inherited(p) == \E k \in Sessions : Alive(k) /\ p \in crt[k].fds
HasWriter(p) == EmulatorWrites(p) \/ Inherited(p)

Gone(process) == [process EXCEPT !.state = "ended", !.head = NoHeader, !.fds = {}]
-----------------------------------------------------------------------------
Init ==
  /\ pc = "off" /\ target = "out" /\ unsent = NoBody
  /\ handle = [c \in Names |-> None]
  /\ name = [c \in Names |-> None] /\ made = 0 /\ removers = [c \in Names |-> 0]
  /\ data = [p \in Sessions |-> <<>>] /\ sent = [p \in Sessions |-> 0]
  /\ crt = [k \in Sessions |-> NoCRT]
  /\ shown = [k \in Sessions |-> <<>>]
  /\ abandoned = {} /\ cut = {}
-----------------------------------------------------------------------------
(* The emulator makes a window: InitProgramWindow and InitSimptris.        *)
MayMake(c) == made < MaxSessions /\ removers[c] <= MaxRemovers

StartEmulator ==
  /\ pc = "off" /\ MayMake("out")
  /\ pc' = "create" /\ target' = "out"
  /\ UNCHANGED <<handle, unsent, dirVars, data, sent, crt, shown, abandoned, cut>>

(* The simptris command with the mode off. *)
SimptrisOn ==
  /\ pc = "ready" /\ handle["simp"] = None /\ MayMake("simp")
  /\ pc' = "create" /\ target' = "simp"
  /\ UNCHANGED <<handle, unsent, dirVars, data, sent, crt, shown, abandoned, cut>>

(* mkfifo, which fails as long as the name exists. *)
MakePipe ==
  /\ pc \in {"create", "spin"}
  /\ name[target] = None
  /\ made' = made + 1
  /\ name' = [name EXCEPT ![target] = made + 1]
  /\ pc' = "fork"
  /\ UNCHANGED <<target, handle, unsent, removers, data, sent, crt, shown, abandoned, cut>>

(* CreatePipe forks one rm for a name that exists, and tries again without *)
(* waiting for it.                                                         *)
NameTaken ==
  /\ pc = "create"
  /\ name[target] # None
  /\ removers' = [removers EXCEPT ![target] = @ + 1]
  /\ pc' = "spin"
  /\ UNCHANGED <<target, handle, unsent, name, made, data, sent, crt, shown, abandoned, cut>>


(* The process inherits every pipe the emulator has open. *)
ForkCRT ==
  /\ pc = "fork"
  /\ crt' = [crt EXCEPT ![made] =
       [state |-> "starting", name |-> target, pipe |-> None, head |-> NoHeader,
        fds |-> {handle[c] : c \in Names} \ {None}]]
  /\ pc' = "open"
  /\ UNCHANGED <<target, handle, unsent, dirVars, data, sent, shown, abandoned, cut>>

(* What follows a successful open: the board of Simptris is initialized.   *)
Opened == IF target = "simp" THEN "board" ELSE "ready"

(* Mutant of OpenWrite: open does not wait for a reader (O_NONBLOCK, or    *)
(* O_RDWR).                                                                *)
OpenWrite_NoWait ==
  /\ pc = "open" /\ name[target] # None
  /\ handle' = [handle EXCEPT ![target] = name[target]]
  /\ crt' = [k \in Sessions |-> IF crt[k].state = "opening" /\ crt[k].pipe = name[target]
                                  THEN [crt[k] EXCEPT !.state = "header"] ELSE crt[k]]
  /\ pc' = Opened
  /\ UNCHANGED <<target, unsent, dirVars, data, sent, shown, abandoned, cut>>

(* open(O_WRONLY) wakes the readers that wait for a writer, and itself     *)
(* waits for one if there is none.                                         *)
OpenWrite ==
  /\ pc = "open" /\ name[target] # None
  /\ handle' = [handle EXCEPT ![target] = name[target]]
  /\ crt' = [k \in Sessions |-> IF crt[k].state = "opening" /\ crt[k].pipe = name[target]
                                  THEN [crt[k] EXCEPT !.state = "header"] ELSE crt[k]]
  /\ pc' = IF Readers(name[target]) = {} THEN "opening" ELSE Opened
  /\ UNCHANGED <<target, unsent, dirVars, data, sent, shown, abandoned, cut>>

(* PIPE_CREATION_FAILURE, also when the rm cannot be forked, or            *)
(* PROCESS_CREATION_FAILURE when fork fails. For the program's own window  *)
(* it ends the emulator.                                                   *)
InitFails ==
  /\ \/ pc = "create"
     \/ pc = "fork"
     \/ pc = "open" /\ name[target] = None
  /\ pc' = IF target = "out" THEN "off" ELSE "ready"
  /\ abandoned' = IF pc = "create" THEN abandoned ELSE abandoned \cup {made}
  /\ target' = "out"
  /\ UNCHANGED <<handle, unsent, dirVars, data, sent, crt, shown, cut>>
-----------------------------------------------------------------------------
(* The emulator writes. A write to a pipe that nobody reads raises SIGPIPE *)
(* and ends the emulator: no handler is installed.                         *)
Dies ==
  /\ pc' = "off"
  /\ handle' = [c \in Names |-> None]
  /\ abandoned' = IF pc \in {"fork", "open", "opening"} THEN abandoned \cup {made} ELSE abandoned
  /\ cut' = IF pc = "body" THEN cut \cup {handle[unsent.name]} ELSE cut
  /\ target' = "out" /\ unsent' = NoBody
  /\ UNCHANGED <<dirVars, data, sent, crt, shown>>

(* A header is one write. *)
WriteHeader(c, action, len) ==
  LET p == handle[c]
  IN  /\ Readers(p) # {}
      /\ sent' = [sent EXCEPT ![p] = @ + 1]
      /\ data' = [data EXCEPT ![p] = Append(@, <<sent[p] + 1, action, len>>)]

(* Mutant of Clamped: the header is forgotten. *)
Clamped_NoHeader(len) == IF len > BufSize THEN BufSize ELSE len

(* SendString and PrintText cut what would not fit with its header. *)
Clamped(len) == IF len + HeaderSize > BufSize THEN BufSize - HeaderSize ELSE len

(* ClearWindow, PrintChar, SendString, PrintText; SendBoard, SendScore and *)
(* ClearSimpWindow: a header, then a body if it is not empty.              *)
Send(c, len) ==
  /\ pc = "ready" /\ handle[c] # None /\ sent[handle[c]] < MaxSends
  /\ WriteHeader(c, "SHOW", Clamped(len))
  /\ unsent' = [name |-> c, len |-> Clamped(len)]
  /\ pc' = IF Clamped(len) > 0 THEN "body" ELSE "ready"
  /\ UNCHANGED <<target, handle, dirVars, crt, shown, abandoned, cut>>

SendBody ==
  LET p == handle[unsent.name]
  IN  /\ pc = "body"
      /\ Readers(p) # {}
      /\ data' = [data EXCEPT ![p] = @ \o [i \in 1 .. unsent.len |-> <<sent[p]>>]]
      /\ pc' = "ready"
      /\ unsent' = NoBody
      /\ UNCHANGED <<target, handle, dirVars, sent, crt, shown, abandoned, cut>>

(* INIT_BOARD, the last act of InitSimptris. *)
InitBoard ==
  /\ pc = "board"
  /\ WriteHeader("simp", "SHOW", 0)
  /\ pc' = "ready" /\ target' = "out"
  /\ UNCHANGED <<handle, unsent, dirVars, crt, shown, abandoned, cut>>

(* KillSimptris and the destructor: EXIT is sent, *)
SendExit(c) ==
  /\ \/ pc = "ready" /\ handle[c] # None   \* simptris with the mode on; the end of main
     \/ pc = "quit" /\ c = "simp"          \* the destructor's call of KillSimptris
  /\ WriteHeader(c, "EXIT", 0)
  /\ pc' = IF pc = "quit" THEN "quitting" ELSE "closing"
  /\ target' = c
  /\ UNCHANGED <<handle, unsent, dirVars, crt, shown, abandoned, cut>>

(* the pipe is closed and an rm of its name started. The destructor does   *)
(* the program's window first, and Simptris if its window is there.        *)
Close ==
  /\ pc \in {"closing", "quitting"}
  /\ handle' = [handle EXCEPT ![target] = None]
  /\ removers' = [removers EXCEPT ![target] = @ + 1]
  /\ pc' = IF pc = "closing" /\ target = "simp" THEN "ready"
           ELSE IF target = "out" /\ handle["simp"] # None THEN "quit"
           ELSE "off"
  /\ target' = "out"
  /\ UNCHANGED <<unsent, name, made, data, sent, crt, shown, abandoned, cut>>

BrokenPipe ==
  /\ \E c \in Names : /\ handle[c] # None /\ Readers(handle[c]) = {}
                      /\ \/ pc = "ready"
                         \/ pc = "board" /\ c = "simp"
                         \/ pc = "body" /\ c = unsent.name
                         \/ pc = "quit" /\ c = "simp"
  /\ Dies

Crash == pc # "off" /\ Dies

(* The rest of KillSimptris and of the destructor. *)
Closing == Close \/ (pc = "quit" /\ (SendExit("simp") \/ BrokenPipe))
-----------------------------------------------------------------------------
(* rm: says so if there is nothing to remove, and ends either way. *)
Remove(c) ==
  /\ removers[c] > 0
  /\ removers' = [removers EXCEPT ![c] = @ - 1]
  /\ name' = [name EXCEPT ![c] = None]
  /\ UNCHANGED <<emuVars, made, data, sent, crt, shown, abandoned, cut>>
-----------------------------------------------------------------------------
(* The CRT process: main. A window without a pipe keeps all it has         *)
(* inherited until the user presses Enter.                                 *)
OpenRead(k) ==
  LET p == name[crt[k].name]
      completes == EmulatorWrites(p) /\ pc = "opening" /\ handle[target] = p
  IN  /\ crt[k].state = "starting"
      /\ IF p = None
         THEN /\ crt' = [crt EXCEPT ![k].state = "waiting"]
              /\ UNCHANGED pc
         ELSE /\ crt' = [crt EXCEPT ![k].pipe = p,
                                    ![k].state = IF HasWriter(p) THEN "header" ELSE "opening"]
              /\ pc' = IF completes THEN Opened ELSE pc
      /\ UNCHANGED <<target, handle, unsent, dirVars, data, sent, shown, abandoned, cut>>

(* A message is acted on: it is shown, or ends the process. What was read  *)
(* out of step is a message to the CRT, too, of any kind.                  *)
Garbled == 0

Act(k, message, action) ==
  /\ shown' = [shown EXCEPT ![k] = Append(@, message)]
  /\ crt' = [crt EXCEPT ![k] = IF action = "EXIT" THEN Gone(@)
                               ELSE [@ EXCEPT !.state = "header", !.head = NoHeader]]

(* The body buffer holds BufSize bytes, one of them for a terminator. *)
Wanted(len) == IF len >= BufSize THEN BufSize - 1 ELSE len

ReadHeader(k) ==
  LET p == crt[k].pipe
      head == Head(data[p])
  IN  /\ crt[k].state = "header" /\ data[p] # <<>>
      /\ data' = [data EXCEPT ![p] = Tail(@)]
      /\ \/ /\ Len(head) = 3 /\ head[3] = 0
            /\ Act(k, head[1], head[2])
         \/ /\ Len(head) = 3 /\ head[3] > 0
            /\ crt' = [crt EXCEPT ![k].state = "body", ![k].head = head]
            /\ UNCHANGED shown
         \/ /\ Len(head) = 1
            /\ \E action \in {"SHOW", "EXIT"} : Act(k, Garbled, action)
      /\ UNCHANGED <<emuVars, dirVars, sent, abandoned, cut>>

(* read returns what there is, up to what is wanted; that it may be less,  *)
(* or nothing at the end of the pipe, is not looked at.                    *)
Body(n, len) == [i \in 1 .. len |-> <<n>>]

ReadBody(k) ==
  LET p == crt[k].pipe
      len == Wanted(crt[k].head[3])
      got == SubSeq(data[p], 1, IF Len(data[p]) < len THEN Len(data[p]) ELSE len)
      n == crt[k].head[1]
  IN  /\ crt[k].state = "body" /\ (data[p] # <<>> \/ ~ HasWriter(p))
      /\ data' = [data EXCEPT ![p] = SubSeq(@, Len(got) + 1, Len(@))]
      /\ Act(k, IF got = Body(n, len) THEN n ELSE Garbled, crt[k].head[2])
      /\ UNCHANGED <<emuVars, dirVars, sent, abandoned, cut>>

(* Mutant of EndOfPipe: a window ends as soon as the writer is gone. *)
EndOfPipe_Early(k) ==
  LET p == crt[k].pipe
  IN  /\ crt[k].state = "header" /\ ~ HasWriter(p)
      /\ crt' = [crt EXCEPT ![k] = Gone(@)]
      /\ UNCHANGED <<emuVars, dirVars, data, sent, shown, abandoned, cut>>

(* The end of the pipe in place of a header. *)
EndOfPipe(k) ==
  LET p == crt[k].pipe
  IN  /\ crt[k].state = "header" /\ data[p] = <<>> /\ ~ HasWriter(p)
      /\ crt' = [crt EXCEPT ![k] = Gone(@)]
      /\ UNCHANGED <<emuVars, dirVars, data, sent, shown, abandoned, cut>>

(* The user closes the window, or presses Enter in one that is waiting. *)
UserCloses(k) ==
  /\ Alive(k)
  /\ crt' = [crt EXCEPT ![k] = Gone(@)]
  /\ UNCHANGED <<emuVars, dirVars, data, sent, shown, abandoned, cut>>
-----------------------------------------------------------------------------
(* One turn of ProcessIncoming. *)
ProcessIncoming(k) == ReadHeader(k) \/ ReadBody(k) \/ EndOfPipe(k)

Emulator ==
  \/ MakePipe \/ NameTaken \/ ForkCRT \/ OpenWrite \/ InitFails
  \/ SendBody \/ InitBoard \/ Close \/ BrokenPipe

User ==
  \/ StartEmulator \/ SimptrisOn \/ Crash
  \/ \E c \in Names, len \in Lengths : Send(c, len)
  \/ \E c \in Names : SendExit(c)
  \/ \E k \in Sessions : UserCloses(k)

Next ==
  \/ Emulator \/ User
  \/ \E c \in Names : Remove(c)
  \/ \E k \in Sessions : OpenRead(k) \/ ProcessIncoming(k)

Spec == Init /\ [][Next]_vars

(* The windows read what there is, and the emulator finishes a close it    *)
(* has begun, unless it is killed. The user owes nothing, nor does rm.     *)
FairSpec ==
  /\ Spec
  /\ \A k \in Sessions : WF_vars(OpenRead(k) \/ ProcessIncoming(k))
  /\ WF_vars(Closing)
-----------------------------------------------------------------------------
Prefix(n) == [i \in 1 .. n |-> i]

SharedPipe(p) == \E j, k \in Sessions : j # k /\ crt[j].pipe = p /\ crt[k].pipe = p

(* The two writes and two reads that make a message never come apart: what *)
(* the only reader of a pipe has acted on is what was sent, each message   *)
(* whole and in order, whatever their lengths and wherever the emulator    *)
(* stops. Only after a writer died between the two writes is one message   *)
(* acted on with a stale body, and it is the last.                         *)
MessagesWhole ==
  \A k \in Sessions : crt[k].pipe # None /\ ~ SharedPipe(crt[k].pipe) =>
    LET n == Len(shown[k])
    IN  \/ shown[k] = Prefix(n)
        \/ /\ crt[k].pipe \in cut
           /\ n = sent[crt[k].pipe]
           /\ shown[k] = [Prefix(n) EXCEPT ![n] = Garbled]

(* A CRT that ends by itself, at EXIT or at the end of its pipe, has acted *)
(* on everything that was sent: no crash, no end of the emulator and no    *)
(* removal of the name cuts off what is in the pipe.                       *)
NothingLost ==
  [][\A k \in Sessions :
       /\ ProcessIncoming(k) /\ crt'[k].state = "ended"
       /\ ~ SharedPipe(crt[k].pipe)
       => Len(shown'[k]) = sent[crt[k].pipe]]_vars

(* The names are all that leads a window to its pipe. As long as no        *)
(* session of its name was given up between the fork and the end of open,  *)
(* a window reads the pipe that was made for it, however late it starts.   *)
Excused(k) ==
  \E j \in abandoned : j <= k /\ crt[j].state # "none" /\ crt[j].name = crt[k].name

NoCrossTalk == \A k \in Sessions : crt[k].pipe \notin {None, k} => Excused(k)

(* A window that was opened ends when the emulator has closed its pipe or  *)
(* is gone, even though a Simptris window holds the program's pipe open:   *)
(* that one ends by itself, and lets go. The exceptions are Simptris       *)
(* windows that never got their pipe: one that waits for a key since it    *)
(* found no name, and one whose session was given up before open, which    *)
(* waits in its own open. Until the user closes it, the program's window   *)
(* waits with it.                                                          *)
Stuck(j) ==
  \/ crt[j].state = "waiting"
  \/ j \in abandoned /\ crt[j].state = "opening"

HeldOpen(p) == \E j \in Sessions : Stuck(j) /\ p \in crt[j].fds

Orphan(k) ==
  /\ crt[k].state \in {"header", "body"}
  /\ ~ EmulatorWrites(crt[k].pipe) /\ ~ HeldOpen(crt[k].pipe)

=============================================================================
