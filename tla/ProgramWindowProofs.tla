------------------------- MODULE ProgramWindowProofs -------------------------
(***************************************************************************)
(* For any number of sessions, whatever crashes, closes and removes: a     *)
(* window reads the pipe that was made for it, and the only reader of a    *)
(* pipe acts on the messages that were sent, whole and in order, whatever  *)
(* their lengths, and on all of them if it ends by itself.                 *)
(***************************************************************************)
EXTENDS ProgramWindow, SequenceTheorems, TLAPS

Waiting == pc \in {"open", "opening"}
Making == pc = "fork" \/ Waiting

(* The fields of a window's record that the argument is about.             *)
Shape ==
  /\ DOMAIN crt = Sessions
  /\ \A k \in Sessions : {"state", "name", "pipe"} \subseteq DOMAIN crt[k]
  /\ \A k \in Sessions : crt[k].name \in Names

(* Pipes and sessions are numbered in the order in which they are made.    *)
Numbered ==
  /\ made \in 0 .. MaxSessions /\ target \in Names
  /\ handle \in [Names -> 0 .. made]
  /\ name \in [Names -> 0 .. made]
  /\ abandoned \subseteq 1 .. made
  /\ pc \in {"create", "spin"} => made < MaxSessions

Started ==
  \A k \in Sessions :
    /\ crt[k].pipe \in 0 .. made
    /\ crt[k].state # "none" => k <= made

(* While a window is made, its pipe is the last one, its name leads there  *)
(* or nowhere, and whoever reads it has been started under that name.      *)
LastPipe ==
  Making =>
    /\ made \in Sessions /\ name[target] \in {None, made}
    /\ \A c \in Names : name[c] = made => c = target
    /\ \A k \in Sessions : crt[k].pipe = made => crt[k].name = target
    /\ pc = "fork" => crt[made].state = "none"
    /\ Waiting => crt[made].state # "none" /\ crt[made].name = target
    /\ pc = "opening" => handle[target] = made

(* A window that has not come to its open yet is the one the emulator      *)
(* waits for, or there is a session of its name that was given up.         *)
LateStart ==
  \A k \in Sessions :
    crt[k].state = "starting" => Excused(k) \/ (k = made /\ Waiting)

IInv == Shape /\ Numbered /\ Started /\ LastPipe /\ LateStart /\ NoCrossTalk
-----------------------------------------------------------------------------
(* What most steps do to a window: nothing that matters here, or it gets   *)
(* past its open or ends.                                                  *)
Same(k) ==
  /\ crt'[k].name = crt[k].name /\ crt'[k].pipe = crt[k].pipe
  /\ crt'[k].state = crt[k].state

Later(k) ==
  /\ crt'[k].name = crt[k].name /\ crt'[k].pipe = crt[k].pipe
  /\ crt[k].state # "none" /\ crt'[k].state \notin {"none", "starting"}

Tame == Shape' /\ \A k \in Sessions : Same(k) \/ Later(k)

(* A session that was given up stays an excuse. *)
LEMMA ExcuseStays ==
  ASSUME IInv, NEW k \in Sessions, Excused(k), abandoned \subseteq abandoned',
         \A j \in Sessions : crt[j].state # "none" =>
           crt'[j].state # "none" /\ crt'[j].name = crt[j].name,
         crt'[k].name = crt[k].name
  PROVE  Excused(k)'
<1>1. PICK j \in abandoned : j <= k /\ crt[j].state # "none" /\ crt[j].name = crt[k].name
  BY DEF Excused
<1>2. j \in Sessions
  BY <1>1, WindowAssumption DEF IInv, Numbered, Sessions, WindowAssumption
<1>. QED BY <1>1, <1>2 DEF Excused

(* No window is made or opened: what such a step has to leave alone.       *)
LEMMA Steady ==
  ASSUME IInv, Tame, made' = made, target' \in Names,
         handle' \in [Names -> 0 .. made],
         name' \in [Names -> 0 .. made], \A c \in Names : name'[c] \in {None, name[c]},
         abandoned \subseteq abandoned', abandoned' \subseteq 1 .. made,
         pc' \in {"create", "spin"} => made < MaxSessions,
         Making' => Making /\ target' = target,
         pc' = "fork" => pc = "fork",
         Waiting' => Waiting,
         pc' = "opening" => handle'[target'] = made,
         Waiting /\ ~ Waiting' /\ crt'[made].state = "starting" => Excused(made)'
  PROVE  IInv'
<1>1. \A j \in Sessions : /\ crt'[j].name = crt[j].name /\ crt'[j].pipe = crt[j].pipe
                          /\ crt[j].state # "none" <=> crt'[j].state # "none"
                          /\ crt'[j].state = "starting" => crt[j].state = "starting"
  BY DEF Tame, Same, Later
<1>2. \A k \in Sessions : Excused(k) => Excused(k)'
  BY <1>1, ExcuseStays
<1>3. Shape' /\ Numbered' /\ Started'
  BY <1>1 DEF Tame, IInv, Numbered, Started
<1>4. LastPipe'
  <2>. SUFFICES ASSUME Making' PROVE LastPipe'
    BY DEF LastPipe
  <2>1. LastPipe!2 /\ target' = target /\ target \in Names
    BY DEF IInv, LastPipe, Numbered
  <2>2. made' \in Sessions /\ name'[target'] \in {None, made'}
    BY <2>1
  <2>3. \A c \in Names : name'[c] = made' => c = target'
    BY <2>1 DEF Sessions, None
  <2>4. \A k \in Sessions : crt'[k].pipe = made' => crt'[k].name = target'
    BY <2>1, <1>1
  <2>5. pc' = "fork" => crt'[made'].state = "none"
    BY <2>1, <1>1
  <2>6. Waiting' => crt'[made'].state # "none" /\ crt'[made'].name = target'
    BY <2>1, <1>1
  <2>. QED BY <2>2, <2>3, <2>4, <2>5, <2>6 DEF LastPipe
<1>5. LateStart'
  BY <1>1, <1>2 DEF IInv, LateStart
<1>6. NoCrossTalk'
  BY <1>1, <1>2 DEF IInv, NoCrossTalk
<1>. QED BY <1>3, <1>4, <1>5, <1>6 DEF IInv
-----------------------------------------------------------------------------
(* A window ends, or comes to its header or its body.                      *)
LEMMA GoneIsLater ==
  ASSUME IInv, NEW k \in Sessions, crt[k].state # "none",
         crt' = [crt EXCEPT ![k] = Gone(@)]
  PROVE  Tame
<1>1. \A j \in Sessions : crt'[j] = IF j = k THEN Gone(crt[k]) ELSE crt[j]
  BY DEF IInv, Shape
<1>2. DOMAIN crt' = Sessions
  BY DEF IInv, Shape
<1>3. /\ {"state", "name", "pipe"} \subseteq DOMAIN Gone(crt[k])
      /\ Gone(crt[k]).state = "ended"
      /\ Gone(crt[k]).name = crt[k].name /\ Gone(crt[k]).pipe = crt[k].pipe
  BY DEF IInv, Shape, Gone
<1>4. Shape'
  BY <1>1, <1>2, <1>3 DEF IInv, Shape
<1>. QED BY <1>1, <1>3, <1>4 DEF Tame, Same, Later

(* A window that found no name waits for a key.                            *)
LEMMA WaitingIsLater ==
  ASSUME IInv, NEW k \in Sessions, crt[k].state # "none",
         crt' = [crt EXCEPT ![k].state = "waiting"]
  PROVE  Tame
<1> DEFINE process == [crt[k] EXCEPT !.state = "waiting"]
<1>1. \A j \in Sessions : crt'[j] = IF j = k THEN process ELSE crt[j]
  BY DEF IInv, Shape
<1>2. DOMAIN crt' = Sessions
  BY DEF IInv, Shape
<1>3. /\ {"state", "name", "pipe"} \subseteq DOMAIN process
      /\ process.state = "waiting"
      /\ process.name = crt[k].name /\ process.pipe = crt[k].pipe
  BY DEF IInv, Shape
<1>. HIDE DEF process
<1>4. Shape'
  BY <1>1, <1>2, <1>3 DEF IInv, Shape
<1>. QED BY <1>1, <1>3, <1>4 DEF Tame, Same, Later

(* A window comes to its header or its body.                               *)
LEMMA ReadingIsLater ==
  ASSUME IInv, NEW k \in Sessions, crt[k].state # "none",
         NEW next \in {"header", "body"}, NEW head,
         crt' = [crt EXCEPT ![k] = [@ EXCEPT !.state = next, !.head = head]]
  PROVE  Tame
<1> DEFINE process == [crt[k] EXCEPT !.state = next, !.head = head]
<1>1. \A j \in Sessions : crt'[j] = IF j = k THEN process ELSE crt[j]
  BY DEF IInv, Shape
<1>2. DOMAIN crt' = Sessions
  BY DEF IInv, Shape
<1>3. /\ {"state", "name", "pipe"} \subseteq DOMAIN process
      /\ process.state = next
      /\ process.name = crt[k].name /\ process.pipe = crt[k].pipe
  BY DEF IInv, Shape
<1>. HIDE DEF process
<1>4. Shape'
  BY <1>1, <1>2, <1>3 DEF IInv, Shape
<1>. QED BY <1>1, <1>3, <1>4 DEF Tame, Same, Later

(* Acting on a message does one or the other. *)
LEMMA ActIsLater ==
  ASSUME IInv, NEW k \in Sessions, crt[k].state # "none",
         NEW message, NEW action, Act(k, message, action)
  PROVE  Tame
<1>1. CASE action = "EXIT"
  <2>1. crt' = [crt EXCEPT ![k] = Gone(@)]
    BY <1>1 DEF Act
  <2>. QED BY <2>1, GoneIsLater
<1>2. CASE action # "EXIT"
  <2>1. crt' = [crt EXCEPT ![k] = [@ EXCEPT !.state = "header", !.head = NoHeader]]
    BY <1>2 DEF Act
  <2>. QED BY <2>1, ReadingIsLater
<1>. QED BY <1>1, <1>2

(* Everything that is not about windows stays, so only Tame is to be shown. *)
LEMMA OnlyWindows ==
  ASSUME IInv, Tame, UNCHANGED <<pc, target, handle, name, made, abandoned>>
  PROVE  IInv'
<1>1. /\ target \in Names /\ handle \in [Names -> 0 .. made]
      /\ name \in [Names -> 0 .. made] /\ abandoned \subseteq 1 .. made
  BY DEF IInv, Numbered
<1>2. (Making' <=> Making) /\ (Waiting' <=> Waiting)
  BY DEF Making, Waiting
<1>3. pc = "opening" => handle[target] = made
  BY DEF IInv, LastPipe, Making, Waiting
<1>4. pc \in {"create", "spin"} => made < MaxSessions
  BY DEF IInv, Numbered
<1>. QED BY <1>1, <1>2, <1>3, <1>4, Steady

(* The turns of a window's loop, and its end by the user.                  *)
LEMMA WindowSteps ==
  ASSUME IInv, NEW k \in Sessions, ProcessIncoming(k) \/ UserCloses(k)
  PROVE  IInv'
<1>1. crt[k].state # "none"
  BY DEF ProcessIncoming, ReadHeader, ReadBody, EndOfPipe, UserCloses, Alive, Attached
<1>2. UNCHANGED <<pc, target, handle, name, made, abandoned>>
  BY DEF ProcessIncoming, ReadHeader, ReadBody, EndOfPipe, UserCloses, emuVars, dirVars
<1>3. Tame
  <2>1. CASE ReadHeader(k)
    <3>1. CASE \E message, action : Act(k, message, action)
      BY <3>1, <1>1, ActIsLater
    <3>2. CASE \E head : crt' = [crt EXCEPT ![k].state = "body", ![k].head = head]
      <4>1. PICK head : crt' = [crt EXCEPT ![k].state = "body", ![k].head = head]
        BY <3>2
      <4>2. crt' = [crt EXCEPT ![k] = [@ EXCEPT !.state = "body", !.head = head]]
        BY <4>1 DEF IInv, Shape
      <4>. QED BY <4>2, <1>1, ReadingIsLater
    <3>. QED BY <2>1, <3>1, <3>2 DEF ReadHeader
  <2>2. CASE ReadBody(k)
    <3>1. PICK message, action : Act(k, message, action)
      BY <2>2 DEF ReadBody
    <3>. QED BY <3>1, <1>1, ActIsLater
  <2>3. CASE EndOfPipe(k) \/ UserCloses(k)
    BY <2>3, <1>1, GoneIsLater DEF EndOfPipe, UserCloses
  <2>. QED BY <2>1, <2>2, <2>3 DEF ProcessIncoming
<1>. QED BY <1>2, <1>3, OnlyWindows
-----------------------------------------------------------------------------
(* Steps of the emulator that leave the windows alone and make nothing.    *)
LEMMA WindowsStay == ASSUME IInv, UNCHANGED crt PROVE Tame
BY DEF IInv, Shape, Tame, Same

(* The commands that begin something, and writing.                         *)
LEMMA WritingSteps ==
  ASSUME IInv,
         \/ StartEmulator \/ SimptrisOn \/ NameTaken \/ SendBody \/ InitBoard \/ Close
         \/ \E c \in Names, len \in Lengths : Send(c, len)
         \/ \E c \in Names : SendExit(c)
  PROVE  IInv'
<1>1. /\ UNCHANGED <<crt, made, name, abandoned>>
      /\ ~ Making /\ ~ Making' /\ target' \in Names
      /\ handle' \in [Names -> 0 .. made]
  BY DEF StartEmulator, SimptrisOn, NameTaken, Send, SendBody, InitBoard, SendExit,
         Close, emuVars, dirVars, Making, Waiting, IInv, Numbered, Opened, Names, None
<1>2. Tame
  BY <1>1, WindowsStay
<1>3. /\ name' \in [Names -> 0 .. made] /\ \A c \in Names : name'[c] \in {None, name[c]}
      /\ abandoned' \subseteq 1 .. made
  BY <1>1 DEF IInv, Numbered
<1>4. pc' # "fork" /\ ~ Waiting /\ ~ Waiting' /\ pc' # "opening"
  BY <1>1 DEF Making, Waiting
<1>5. pc' \in {"create", "spin"} => made < MaxSessions
  BY DEF StartEmulator, SimptrisOn, NameTaken, Send, SendBody, InitBoard, SendExit,
         Close, MayMake, Opened, IInv, Numbered
<1>. QED BY <1>1, <1>2, <1>3, <1>4, <1>5, Steady

(* rm takes a name away.                                                   *)
LEMMA RemoveStep ==
  ASSUME IInv, NEW c \in Names, Remove(c)
  PROVE  IInv'
<1>1. UNCHANGED <<pc, target, handle, made, crt, abandoned>>
  BY DEF Remove, emuVars
<1>2. name' \in [Names -> 0 .. made] /\ \A d \in Names : name'[d] \in {None, name[d]}
  BY DEF Remove, IInv, Numbered, None
<1>3. /\ target' \in Names /\ handle' \in [Names -> 0 .. made]
      /\ abandoned' \subseteq 1 .. made
  BY <1>1 DEF IInv, Numbered
<1>4. (Making' <=> Making) /\ (Waiting' <=> Waiting)
  BY <1>1 DEF Making, Waiting
<1>5. pc' = "opening" => handle'[target'] = made
  BY <1>1 DEF IInv, LastPipe, Making, Waiting
<1>6. pc' \in {"create", "spin"} => made < MaxSessions
  BY <1>1 DEF IInv, Numbered
<1>7. Tame
  BY <1>1, WindowsStay
<1>. QED BY <1>1, <1>2, <1>3, <1>4, <1>5, <1>6, <1>7, Steady

(* A session that is given up excuses its own window.                      *)
LEMMA GivenUp ==
  ASSUME IInv, made \in Sessions, crt[made].state # "none",
         made \in abandoned', UNCHANGED crt, made' = made
  PROVE  Excused(made)'
BY DEF Excused, Sessions

(* The emulator fails to make a window, or ends.                           *)
LEMMA FailingSteps ==
  ASSUME IInv, InitFails \/ Dies
  PROVE  IInv'
<1>1. /\ UNCHANGED <<crt, made, name>> /\ ~ Making' /\ target' \in Names
      /\ handle' \in [Names -> 0 .. made]
  BY DEF InitFails, Dies, emuVars, dirVars, Making, Waiting, IInv, Numbered, Names, None
<1>2. abandoned' = abandoned \/ (Making /\ abandoned' = abandoned \cup {made})
  BY DEF InitFails, Dies, Making, Waiting
<1>3. Making => made \in 1 .. made
  BY DEF IInv, LastPipe, Sessions, Numbered
<1>4. abandoned \subseteq abandoned' /\ abandoned' \subseteq 1 .. made
  BY <1>2, <1>3 DEF IInv, Numbered
<1>5. Waiting => Excused(made)'
  <2>. SUFFICES ASSUME Waiting PROVE Excused(made)'
    OBVIOUS
  <2>1. made \in Sessions /\ crt[made].state # "none"
    BY DEF IInv, LastPipe, Making
  <2>2. made \in abandoned'
    BY DEF InitFails, Dies, Waiting
  <2>. QED BY <2>1, <2>2, <1>1, GivenUp
<1>6. name' \in [Names -> 0 .. made] /\ \A c \in Names : name'[c] \in {None, name[c]}
  BY <1>1 DEF IInv, Numbered
<1>7. pc' # "fork" /\ ~ Waiting' /\ pc' # "opening"
  BY <1>1 DEF Making, Waiting
<1>8. pc' \notin {"create", "spin"}
  BY DEF InitFails, Dies
<1>9. Tame
  BY <1>1, WindowsStay
<1>. QED BY <1>1, <1>4, <1>5, <1>6, <1>7, <1>8, <1>9, Steady
-----------------------------------------------------------------------------
(* While a window is made, whoever reads its pipe is it or excuses it.     *)
LEMMA ReaderExcuses ==
  ASSUME IInv, Waiting, NEW j \in Sessions, j # made,
         crt[j].pipe = made \/ (crt[j].state = "starting" /\ crt[j].name = target)
  PROVE  Excused(made)
<1>1. made \in Sessions /\ made # None /\ crt[made].name = target
  BY DEF IInv, LastPipe, Making, Sessions, None
<1>2. crt[j].name = target
  BY DEF IInv, LastPipe, Making
<1>3. Excused(j)
  BY <1>1 DEF IInv, NoCrossTalk, LateStart
<1>4. PICK i \in abandoned : i <= j /\ crt[i].state # "none" /\ crt[i].name = crt[j].name
  BY <1>3 DEF Excused
<1>5. i <= made
  BY <1>4 DEF IInv, Numbered
<1>. QED BY <1>1, <1>2, <1>4, <1>5 DEF Excused

(* open for writing                                                        *)
LEMMA OpenWriteStep ==
  ASSUME IInv, OpenWrite
  PROVE  IInv'
<1>1. /\ Waiting /\ name[target] = made /\ made \in Sessions /\ target \in Names
      /\ UNCHANGED <<target, made, name, abandoned>>
      /\ pc' # "fork" /\ pc' \notin {"create", "spin"}
  BY DEF OpenWrite, Opened, Waiting, Making, IInv, LastPipe, Numbered, dirVars
<1>2. /\ DOMAIN crt' = Sessions
      /\ \A k \in Sessions : \/ crt'[k] = crt[k]
                            \/ /\ crt[k].state = "opening"
                               /\ crt'[k] = [crt[k] EXCEPT !.state = "header"]
  BY DEF OpenWrite
<1>3. Tame
  <2>. SUFFICES ASSUME NEW k \in Sessions
                PROVE  /\ {"state", "name", "pipe"} \subseteq DOMAIN crt'[k]
                       /\ crt'[k].name \in Names
                       /\ Same(k) \/ Later(k)
    BY <1>2 DEF Tame, Shape
  <2>1. CASE crt'[k] = crt[k]
    BY <2>1 DEF Same, IInv, Shape
  <2>2. CASE crt[k].state = "opening" /\ crt'[k] = [crt[k] EXCEPT !.state = "header"]
    BY <2>2 DEF Later, IInv, Shape
  <2>. QED BY <1>2, <2>1, <2>2
<1>4. handle' \in [Names -> 0 .. made] /\ handle'[target'] = made
  BY <1>1 DEF OpenWrite, IInv, Numbered
<1>5. ~ Waiting' /\ crt'[made].state = "starting" => Excused(made)'
  <2>. SUFFICES ASSUME ~ Waiting', crt'[made].state = "starting" PROVE Excused(made)'
    OBVIOUS
  <2>1. Readers(made) # {}
    BY <1>1 DEF OpenWrite, Waiting
  <2>2. PICK j \in Sessions : Attached(j) /\ crt[j].pipe = made
    BY <2>1 DEF Readers
  <2>3. crt[made].state = "starting"
    BY <1>1, <1>3 DEF Tame, Same, Later
  <2>4. j # made
    BY <2>2, <2>3 DEF Attached
  <2>5. Excused(made)
    BY <1>1, <2>2, <2>4, ReaderExcuses
  <2>6. /\ \A k \in Sessions : crt'[k].name = crt[k].name
        /\ \A k \in Sessions : crt[k].state # "none" =>
             crt'[k].state # "none" /\ crt'[k].name = crt[k].name
    BY <1>3 DEF Tame, Same, Later
  <2>7. made \in Sessions /\ made' = made /\ abandoned \subseteq abandoned'
    BY <1>1
  <2>8. ASSUME NEW k \in Sessions, Excused(k) PROVE Excused(k)'
    BY <2>6, <2>7, <2>8, ExcuseStays
  <2>. QED BY <2>5, <2>7, <2>8
<1>6. /\ name' \in [Names -> 0 .. made] /\ \A c \in Names : name'[c] \in {None, name[c]}
      /\ abandoned' \subseteq 1 .. made
  BY <1>1 DEF IInv, Numbered
<1>7. Making' => Making
  BY <1>1 DEF Making
<1>. QED BY <1>1, <1>3, <1>4, <1>5, <1>6, <1>7, Steady

(* mkfifo                                                                  *)
LEMMA MakePipeStep ==
  ASSUME IInv, MakePipe
  PROVE  IInv'
<1>1. /\ pc' = "fork" /\ made' = made + 1 /\ name' = [name EXCEPT ![target] = made + 1]
      /\ UNCHANGED <<target, handle, crt, abandoned>> /\ target \in Names
      /\ made \in 0 .. MaxSessions /\ made < MaxSessions
  BY DEF MakePipe, IInv, Numbered
<1>2. made' \in Sessions /\ made' \in 0 .. MaxSessions /\ made \in Nat
  BY <1>1, WindowAssumption DEF Sessions, WindowAssumption
<1>3. Shape'
  BY <1>1 DEF IInv, Shape
<1>4. Numbered' /\ Started'
  <2>1. handle' \in [Names -> 0 .. made'] /\ abandoned' \subseteq 1 .. made'
    BY <1>1, <1>2 DEF IInv, Numbered
  <2>2. name' \in [Names -> 0 .. made']
    BY <1>1, <1>2 DEF IInv, Numbered
  <2>3. \A k \in Sessions : /\ crt'[k].pipe \in 0 .. made'
                            /\ crt'[k].state # "none" => k <= made'
    BY <1>1, <1>2 DEF IInv, Numbered, Started
  <2>4. target' \in Names /\ ~ (pc' \in {"create", "spin"})
    BY <1>1
  <2>. QED BY <1>2, <2>1, <2>2, <2>3, <2>4 DEF Numbered, Started
<1>5. LastPipe'
  <2>1. \A c \in Names : name'[c] = made' => c = target'
    BY <1>1, <1>2 DEF IInv, Numbered
  <2>2. name'[target'] = made'
    BY <1>1 DEF IInv, Numbered
  <2>3. \A k \in Sessions : crt'[k].pipe # made'
    <3>1. SUFFICES ASSUME NEW k \in Sessions
                   PROVE  crt[k].pipe # made + 1
      BY <1>1
    <3>2. crt[k].pipe \in 0 .. made
      BY DEF IInv, Started
    <3>. QED BY <1>2, <3>2
  <2>4. crt'[made'].state = "none"
    <3>1. crt[made + 1].state # "none" => made + 1 <= made
      BY <1>1, <1>2 DEF IInv, Started
    <3>. QED BY <1>1, <1>2, <3>1
  <2>. QED BY <1>1, <1>2, <2>1, <2>2, <2>3, <2>4 DEF LastPipe, Waiting
<1>6. \A k \in Sessions : Excused(k)' <=> Excused(k)
  BY <1>1 DEF Excused
<1>7. ~ Waiting
  BY DEF MakePipe, Waiting
<1>8. LateStart' /\ NoCrossTalk'
  BY <1>1, <1>6, <1>7 DEF IInv, LateStart, NoCrossTalk
<1>. QED BY <1>3, <1>4, <1>5, <1>8 DEF IInv

(* fork                                                                    *)
LEMMA ForkStep ==
  ASSUME IInv, ForkCRT
  PROVE  IInv'
<1> DEFINE process == [state |-> "starting", name |-> target, pipe |-> None,
                       head |-> NoHeader, fds |-> {handle[c] : c \in Names} \ {None}]
<1>1. /\ pc = "fork" /\ pc' = "open" /\ crt' = [crt EXCEPT ![made] = process]
      /\ UNCHANGED <<target, handle, name, made, abandoned>>
  BY DEF ForkCRT, dirVars
<1>2. /\ made \in Sessions /\ crt[made].state = "none" /\ made # None
      /\ name[target] \in {None, made}
      /\ \A c \in Names : name[c] = made => c = target
      /\ \A k \in Sessions : crt[k].pipe = made => crt[k].name = target
  BY <1>1 DEF IInv, LastPipe, Making, Sessions, None
<1>3. DOMAIN crt' = Sessions /\ \A k \in Sessions : crt'[k] = IF k = made THEN process ELSE crt[k]
  BY <1>1, <1>2 DEF IInv, Shape
<1>4. /\ {"state", "name", "pipe"} \subseteq DOMAIN process
      /\ process.state = "starting" /\ process.name = target /\ process.pipe = None
  OBVIOUS
<1>. HIDE DEF process
<1>5. Shape'
  BY <1>3, <1>4 DEF IInv, Shape, Numbered
<1>6. Numbered' /\ Started'
  <2>1. \A k \in Sessions : /\ crt'[k].pipe \in 0 .. made
                            /\ crt'[k].state # "none" => k <= made
    BY <1>2, <1>3, <1>4 DEF IInv, Numbered, Started, None, Sessions
  <2>. QED BY <1>1, <2>1 DEF IInv, Numbered, Started
<1>7. LastPipe'
  <2>1. \A k \in Sessions : crt'[k].pipe = made => crt'[k].name = target
    BY <1>2, <1>3, <1>4
  <2>2. crt'[made].state # "none" /\ crt'[made].name = target
    BY <1>2, <1>3, <1>4
  <2>. QED BY <1>1, <1>2, <2>1, <2>2 DEF LastPipe, Waiting
<1>8. ASSUME NEW k \in Sessions, k # made, Excused(k) PROVE Excused(k)'
  <2>1. \A j \in Sessions : crt[j].state # "none" =>
          crt'[j].state # "none" /\ crt'[j].name = crt[j].name
    BY <1>2, <1>3
  <2>2. crt'[k].name = crt[k].name /\ abandoned \subseteq abandoned'
    BY <1>1, <1>3, <1>8
  <2>. QED BY <1>8, <2>1, <2>2, ExcuseStays
<1>9. LateStart'
  <2>. SUFFICES ASSUME NEW k \in Sessions, crt'[k].state = "starting"
                PROVE  Excused(k)' \/ (k = made' /\ Waiting')
    BY DEF LateStart
  <2>1. CASE k = made
    BY <2>1, <1>1 DEF Waiting
  <2>2. CASE k # made
    <3>1. crt[k].state = "starting" /\ ~ Waiting
      BY <2>2, <1>1, <1>3 DEF Waiting
    <3>2. Excused(k)
      BY <3>1 DEF IInv, LateStart
    <3>. QED BY <2>2, <3>2, <1>8
  <2>. QED BY <2>1, <2>2
<1>10. NoCrossTalk'
  <2>. SUFFICES ASSUME NEW k \in Sessions, crt'[k].pipe \notin {None, k} PROVE Excused(k)'
    BY DEF NoCrossTalk
  <2>1. k # made /\ crt'[k] = crt[k]
    BY <1>3, <1>4
  <2>2. Excused(k)
    BY <2>1 DEF IInv, NoCrossTalk
  <2>. QED BY <2>1, <2>2, <1>8
<1>. QED BY <1>5, <1>6, <1>7, <1>9, <1>10 DEF IInv

(* open for reading, by a window that may have been started long ago       *)
LEMMA OpenReadStep ==
  ASSUME IInv, NEW k \in Sessions, OpenRead(k)
  PROVE  IInv'
<1> DEFINE p == name[crt[k].name]
<1>1. /\ crt[k].state = "starting"
      /\ UNCHANGED <<target, handle, name, made, abandoned>>
  BY DEF OpenRead, dirVars
<1>2. CASE p = None
  <2>1. UNCHANGED pc /\ crt' = [crt EXCEPT ![k].state = "waiting"]
    BY <1>2 DEF OpenRead
  <2>2. Tame
    BY <1>1, <2>1, WaitingIsLater
  <2>. QED BY <1>1, <2>1, <2>2, OnlyWindows
<1>3. CASE p # None
  <2>1. PICK next \in {"header", "opening"} :
          crt' = [crt EXCEPT ![k].pipe = p, ![k].state = next]
    BY <1>3 DEF OpenRead
  <2>2. pc' = pc \/ (pc = "opening" /\ handle[target] = p /\ pc' \in {"board", "ready"})
    BY <1>3 DEF OpenRead, Opened
  <2>3. /\ DOMAIN crt' = Sessions /\ \A j \in Sessions \ {k} : crt'[j] = crt[j]
        /\ {"state", "name", "pipe"} \subseteq DOMAIN crt'[k]
        /\ crt'[k].state = next /\ crt'[k].name = crt[k].name /\ crt'[k].pipe = p
    BY <2>1 DEF IInv, Shape
  <2>. HIDE DEF p
  <2>4. ASSUME NEW j \in Sessions, Excused(j) PROVE Excused(j)'
    <3>1. /\ crt'[j].name = crt[j].name
          /\ \A i \in Sessions : crt[i].state # "none" =>
               crt'[i].state # "none" /\ crt'[i].name = crt[i].name
      BY <2>3
    <3>2. abandoned \subseteq abandoned'
      BY <1>1
    <3>. QED BY <2>4, <3>1, <3>2, ExcuseStays
  <2>5. Shape'
    BY <2>3 DEF IInv, Shape
  <2>6. crt[k].name \in Names /\ k <= made /\ p \in 0 .. made
    BY <1>1 DEF IInv, Shape, Numbered, Started, p
  <2>7. Numbered' /\ Started'
    <3>1. \A j \in Sessions : /\ crt'[j].pipe \in 0 .. made
                              /\ crt'[j].state # "none" => j <= made
      BY <2>3, <2>6 DEF IInv, Numbered, Started
    <3>2. pc' \in {"create", "spin"} => pc \in {"create", "spin"}
      BY <2>2
    <3>. QED BY <1>1, <3>1, <3>2 DEF IInv, Numbered, Started
  <2>8. (Making' => Making /\ pc' = pc) /\ (Waiting' => Waiting)
    BY <2>2 DEF Making, Waiting
  <2>9. Making /\ p = made => crt[k].name = target
    BY <2>6 DEF IInv, LastPipe, p
  <2>10. LastPipe'
    <3>. SUFFICES ASSUME Making' PROVE LastPipe'
      BY DEF LastPipe
    <3>1. \A j \in Sessions : crt'[j].pipe = made => crt'[j].name = target
      BY <2>3, <2>8, <2>9 DEF IInv, LastPipe
    <3>2. crt[made].state = "none" => k # made
      BY <1>1
    <3>3. pc = "fork" => crt'[made].state = "none"
      BY <2>3, <2>8, <3>2 DEF IInv, LastPipe
    <3>4. Waiting => crt'[made].state # "none" /\ crt'[made].name = target
      BY <2>3, <2>8 DEF IInv, LastPipe
    <3>. QED BY <1>1, <2>8, <3>1, <3>3, <3>4 DEF IInv, LastPipe
  <2>11. LateStart'
    <3>. SUFFICES ASSUME NEW j \in Sessions, crt'[j].state = "starting"
                  PROVE  Excused(j)' \/ (j = made /\ Waiting')
      BY <1>1 DEF LateStart
    <3>1. j # k /\ crt[j].state = "starting"
      BY <2>3
    <3>2. CASE Excused(j)
      BY <3>2, <2>4
    <3>3. CASE j = made /\ Waiting /\ ~ Waiting'
      <4>1. handle[target] = p /\ pc = "opening"
        BY <2>2, <3>3 DEF Waiting
      <4>2. p = made
        BY <4>1 DEF IInv, LastPipe, Making, Waiting
      <4>3. Excused(made)
        BY <1>1, <2>9, <3>1, <3>3, <4>2, ReaderExcuses DEF Making
      <4>. QED BY <3>3, <4>3, <2>4
    <3>. QED BY <3>1, <3>2, <3>3 DEF IInv, LateStart
  <2>12. NoCrossTalk'
    <3>. SUFFICES ASSUME NEW j \in Sessions, crt'[j].pipe \notin {None, j} PROVE Excused(j)'
      BY DEF NoCrossTalk
    <3>1. CASE j # k
      <4>1. Excused(j)
        BY <2>3, <3>1 DEF IInv, NoCrossTalk
      <4>. QED BY <4>1, <2>4
    <3>2. CASE j = k
      <4>1. ~ (k = made /\ Waiting)
        <5>. SUFFICES ASSUME k = made, Waiting PROVE FALSE
          OBVIOUS
        <5>1. crt[k].name = target /\ name[target] \in {None, made}
          BY DEF IInv, LastPipe, Making
        <5>. QED BY <1>3, <2>3, <3>2, <5>1 DEF p
      <4>2. Excused(k)
        BY <1>1, <4>1 DEF IInv, LateStart
      <4>. QED BY <3>2, <4>2, <2>4
    <3>. QED BY <3>1, <3>2
  <2>. QED BY <2>5, <2>7, <2>10, <2>11, <2>12 DEF IInv
<1>. QED BY <1>2, <1>3
-----------------------------------------------------------------------------
(* Nothing has been made yet.                                              *)
LEMMA IInvInit == Init => IInv
<1>. SUFFICES ASSUME Init PROVE IInv
  OBVIOUS
<1>1. \A k \in Sessions : crt[k] = NoCRT
  BY DEF Init
<1>2. /\ {"state", "name", "pipe"} \subseteq DOMAIN NoCRT
      /\ NoCRT.state = "none" /\ NoCRT.name = "out" /\ NoCRT.pipe = None
  BY DEF NoCRT
<1>3. Shape
  BY <1>1, <1>2 DEF Init, Shape, Names
<1>4. Numbered
  BY WindowAssumption DEF Init, Numbered, Names, None, WindowAssumption
<1>5. Started
  BY <1>1, <1>2 DEF Init, Started, None
<1>6. LastPipe
  BY DEF Init, LastPipe, Making, Waiting
<1>7. LateStart /\ NoCrossTalk
  BY <1>1, <1>2 DEF LateStart, NoCrossTalk
<1>. QED BY <1>3, <1>4, <1>5, <1>6, <1>7 DEF IInv

(* Every step of the emulator, the windows, rm and the user.               *)
LEMMA IInvNext == IInv /\ [Next]_vars => IInv'
<1>. SUFFICES ASSUME IInv, [Next]_vars PROVE IInv'
  OBVIOUS
<1>1. CASE Emulator
  <2>1. CASE NameTaken \/ SendBody \/ InitBoard \/ Close
    BY <2>1, WritingSteps
  <2>2. CASE InitFails \/ BrokenPipe
    BY <2>2, FailingSteps DEF BrokenPipe
  <2>. QED BY <1>1, <2>1, <2>2, MakePipeStep, ForkStep, OpenWriteStep DEF Emulator
<1>2. CASE User
  <2>1. CASE Crash
    BY <2>1, FailingSteps DEF Crash
  <2>2. CASE \E k \in Sessions : UserCloses(k)
    BY <2>2, WindowSteps
  <2>3. CASE \/ StartEmulator \/ SimptrisOn
             \/ \E c \in Names, len \in Lengths : Send(c, len)
             \/ \E c \in Names : SendExit(c)
    BY <2>3, WritingSteps
  <2>. QED BY <1>2, <2>1, <2>2, <2>3 DEF User
<1>3. CASE \E c \in Names : Remove(c)
  BY <1>3, RemoveStep
<1>4. CASE \E k \in Sessions : OpenRead(k) \/ ProcessIncoming(k)
  BY <1>4, OpenReadStep, WindowSteps
<1>5. CASE UNCHANGED vars
  <2>1. /\ UNCHANGED <<pc, target, handle, name, made, abandoned>>
        /\ UNCHANGED crt
    BY <1>5 DEF vars, emuVars, dirVars
  <2>2. Tame
    BY <2>1, WindowsStay
  <2>. QED BY <2>1, <2>2, OnlyWindows
<1>. QED BY <1>1, <1>2, <1>3, <1>4, <1>5 DEF Next

(* ProgramWindow.cpp:82-290 and CRT/UNIXCRT.cpp: for every number of      *)
(* sessions, with crashes, restarts, late removals and windows that start  *)
(* at any time, a window reads the pipe that was made for it, unless a     *)
(* session of its name was given up.                                       *)
THEOREM WindowsReadTheirOwn == Spec => []NoCrossTalk
<1>1. IInv => NoCrossTalk
  BY DEF IInv
<1>. QED BY <1>1, IInvInit, IInvNext, PTL DEF Spec
-----------------------------------------------------------------------------
(* The second argument: the messages. What a window has not acted on yet   *)
(* is a stream: the header it holds, what is in its pipe, and the rest of  *)
(* a body that is being written. Its messages are whole, in order and      *)
(* without a gap, from the one after those shown to the last that is sent. *)

(* What a pipe holds. *)
Headers == Nat \X {"SHOW", "EXIT"} \X (0 .. BufSize - 1)
Bytes == {t \in Seq(Nat) : Len(t) = 1}
Tokens == Headers \cup Bytes

IsHeader(t) == Len(t) = 3

(* Message x begins at j with its header, and its body of len bytes and    *)
(* then the next message follow, unless it is the n-th.                    *)
MessageAt(s, j, x, len, n) ==
  /\ j + len <= Len(s)
  /\ \A i \in 1 .. len : s[j + i] = <<x>>
  /\ IF j + len = Len(s) THEN x = n
     ELSE IsHeader(s[j + len + 1]) /\ s[j + len + 1][1] = x + 1

(* The messages after the m-th up to the n-th; an EXIT is the last.        *)
Whole(s, m, n) ==
  /\ IF s = <<>> THEN m = n ELSE IsHeader(s[1]) /\ s[1][1] = m + 1
  /\ \A j \in 1 .. Len(s) : IsHeader(s[j]) =>
       /\ MessageAt(s, j, s[j][1], s[j][3], n)
       /\ s[j][2] = "EXIT" => j = Len(s)

Writing(p) == pc = "body" /\ handle[unsent.name] = p

(* The bytes of the last message that are still to be written, or that a   *)
(* writer that died did not write.                                         *)
Owed(p, len) == IF Writing(p) THEN len = unsent.len ELSE len > 0 <=> p \in cut

(* What a window has taken out of its pipe, and the pipe. *)
Ahead(k) == (IF crt[k].state = "body" THEN <<crt[k].head>> ELSE <<>>) \o data[crt[k].pipe]

Shut(p) == \A c \in Names : handle[c] = p => pc \in {"closing", "quitting"} /\ c = target

InStep(k) ==
  LET p == crt[k].pipe
  IN  \E len \in 0 .. BufSize - 1 :
        /\ Owed(p, len)
        /\ Whole(Ahead(k) \o Body(sent[p], len), Len(shown[k]), sent[p])
        /\ len > 0 => Ahead(k) # <<>> /\ IsHeader(Ahead(k)[Len(Ahead(k))])
        /\ (\E j \in 1 .. Len(Ahead(k)) : IsHeader(Ahead(k)[j]) /\ Ahead(k)[j][2] = "EXIT")
             => Shut(p)

Garbles(k) ==
  LET n == Len(shown[k])
  IN  /\ crt[k].pipe \in cut
      /\ n = sent[crt[k].pipe] /\ n > 0
      /\ shown[k] = [Prefix(n) EXCEPT ![n] = Garbled]
      /\ Attached(k) => crt[k].state # "body" /\ data[crt[k].pipe] = <<>>

Follows(k) ==
  \/ shown[k] = Prefix(Len(shown[k])) /\ (Attached(k) => InStep(k))
  \/ Garbles(k)

PipeTypes ==
  /\ sent \in [Sessions -> Nat] /\ data \in [Sessions -> Seq(Tokens)]
  /\ shown \in [Sessions -> Seq(Nat)] /\ cut \subseteq Sessions

WindowFields ==
  \A k \in Sessions :
    /\ {"head", "fds"} \subseteq DOMAIN crt[k]
    /\ crt[k].state \in {"none", "starting"} => crt[k].pipe = None
    /\ crt[k].pipe = None => shown[k] = <<>>
    /\ Attached(k) => crt[k].pipe # None
    /\ crt[k].state = "body" => crt[k].head \in Headers /\ crt[k].head[3] > 0

BodyOpen ==
  pc = "body" => /\ unsent.len \in 1 .. BufSize - 1 /\ unsent.name \in Names
                 /\ handle[unsent.name] \in Sessions
                 /\ sent[handle[unsent.name]] > 0

Unread ==
  \A p \in Sessions : (\A k \in Sessions : crt[k].pipe # p) => sent[p] = 0

NothingSent ==
  \A p \in Sessions : sent[p] = 0 =>
    /\ data[p] = <<>>
    /\ \A k \in Sessions : crt[k].pipe = p => crt[k].state # "body"

Unopened ==
  /\ \A p \in Sessions : p > made \/ (Making /\ p = made) => sent[p] = 0
  /\ Making => \A c \in Names : handle[c] = made => c = target
  /\ handle["out"] = handle["simp"] => handle["out"] = None

CutOff == \A p \in cut : sent[p] > 0 /\ ~ EmulatorWrites(p)

Reading == \A k \in Sessions : crt[k].pipe # None /\ ~ SharedPipe(crt[k].pipe) => Follows(k)

DInv == PipeTypes /\ WindowFields /\ BodyOpen /\ Unread /\ NothingSent /\ Unopened /\ CutOff /\ Reading
-----------------------------------------------------------------------------
(* Tokens, and streams of whole messages.                                  *)

(* What the sizes of buffer and header give.                               *)
LEMMA Sizes ==
  /\ HeaderSize \in Nat \ {0} /\ BufSize \in Nat
  /\ BufSize > HeaderSize /\ BufSize - 1 \in Nat
  BY WindowAssumption

(* The tokens that the emulator writes.                                    *)
LEMMA HeaderMade ==
  ASSUME NEW n \in Nat, NEW action \in {"SHOW", "EXIT"}, NEW len \in 0 .. BufSize - 1
  PROVE  /\ <<n, action, len>> \in Headers /\ <<n, action, len>> \in Tokens
         /\ IsHeader(<<n, action, len>>)
BY DEF Headers, Tokens, IsHeader

LEMMA ByteMade ==
  ASSUME NEW n \in Nat
  PROVE  /\ <<n>> \in Bytes /\ <<n>> \in Tokens /\ ~ IsHeader(<<n>>)
BY DEF Bytes, Tokens, IsHeader

(* The tokens that a window reads.                                         *)
LEMMA HeaderFields ==
  ASSUME NEW t \in Tokens, IsHeader(t)
  PROVE  /\ t \in Headers /\ t[1] \in Nat /\ t[2] \in {"SHOW", "EXIT"}
         /\ t[3] \in 0 .. BufSize - 1
BY DEF Bytes, Headers, Tokens, IsHeader

LEMMA ByteShape ==
  ASSUME NEW t \in Tokens, ~ IsHeader(t)
  PROVE  Len(t) = 1
BY DEF Bytes, Headers, Tokens, IsHeader

(* A body, byte by byte.                                                   *)
LEMMA BodyMade ==
  ASSUME NEW n \in Nat, NEW len \in Nat
  PROVE  /\ Body(n, len) \in Seq(Tokens) /\ Len(Body(n, len)) = len
         /\ \A i \in 1 .. len : Body(n, len)[i] = <<n>>
BY ByteMade DEF Body

(* Where the bytes of a body are, and the message after it.                *)
LEMMA NextPlace ==
  ASSUME NEW j \in Nat, NEW len \in Nat, NEW l \in Nat, j >= 1, j + len <= l
  PROVE  /\ \A i \in 1 .. len : j + i \in 1 .. l
         /\ j + len # l => j + len + 1 \in 1 .. l
OBVIOUS

(* Places in a stream that has lost its first d tokens.                    *)
LEMMA ShiftedPlace ==
  ASSUME NEW d \in Nat, NEW j \in Nat, NEW len \in Nat, NEW l \in Nat, NEW k \in Nat, l = k - d
  PROVE  /\ d + (j + len) = (d + j) + len
         /\ d + (j + len + 1) = (d + j) + len + 1
         /\ (d + j) + len <= k <=> j + len <= l
         /\ (d + j) + len = k <=> j + len = l
OBVIOUS

(* What is appended leaves the messages before it as they are.             *)
LEMMA MessageStays ==
  ASSUME NEW q \in Seq(Tokens), NEW s \in Seq(Tokens), NEW n \in Nat,
         NEW j \in 1 .. Len(q), NEW x, NEW len \in Nat, MessageAt(q, j, x, len, n),
         Len(s) > Len(q), \A i \in 1 .. Len(q) : s[i] = q[i],
         IsHeader(s[Len(q) + 1]), s[Len(q) + 1][1] = n + 1
  PROVE  MessageAt(s, j, x, len, n + 1) /\ j # Len(s)
<1>1. Len(q) \in Nat /\ Len(s) \in Nat /\ j \in Nat /\ j >= 1 /\ j + len <= Len(q)
  BY DEF MessageAt
<1>2. j + len <= Len(s) /\ j + len # Len(s) /\ j # Len(s)
  BY <1>1
<1>3. ASSUME NEW i \in 1 .. len PROVE s[j + i] = <<x>>
  <2>1. j + i \in 1 .. Len(q)
    BY <1>1, NextPlace
  <2>2. q[j + i] = <<x>>
    BY DEF MessageAt
  <2> QED BY <2>1, <2>2
<1>4. IsHeader(s[j + len + 1]) /\ s[j + len + 1][1] = x + 1
  <2>1. CASE j + len = Len(q)
    <3>1. x = n
      BY <2>1 DEF MessageAt
    <3> QED BY <2>1, <3>1
  <2>2. CASE j + len # Len(q)
    <3>1. j + len + 1 \in 1 .. Len(q)
      BY <1>1, <2>2, NextPlace
    <3>2. IsHeader(q[j + len + 1]) /\ q[j + len + 1][1] = x + 1
      BY <2>2 DEF MessageAt
    <3> QED BY <3>1, <3>2
  <2> QED BY <2>1, <2>2
<1> QED BY <1>2, <1>3, <1>4 DEF MessageAt

(* What is taken from the front, too.                                      *)
LEMMA MessageShifts ==
  ASSUME NEW s \in Seq(Tokens), NEW r \in Seq(Tokens), NEW d \in Nat, NEW n \in Nat,
         Len(r) = Len(s) - d, \A i \in 1 .. Len(r) : r[i] = s[d + i],
         NEW j \in 1 .. Len(r), NEW x, NEW len \in Nat, MessageAt(s, d + j, x, len, n)
  PROVE  MessageAt(r, j, x, len, n)
<1>1. Len(r) \in Nat /\ Len(s) \in Nat /\ j \in Nat /\ j >= 1
  OBVIOUS
<1>2. (d + j) + len <= Len(s)
  BY DEF MessageAt
<1>3. j + len <= Len(r) /\ ((d + j) + len = Len(s) <=> j + len = Len(r))
  BY <1>1, <1>2, ShiftedPlace
<1>4. ASSUME NEW i \in 1 .. len PROVE r[j + i] = <<x>>
  <2>1. j + i \in 1 .. Len(r)
    BY <1>1, <1>3, NextPlace
  <2>2. d + (j + i) = (d + j) + i
    BY <1>1
  <2>3. s[(d + j) + i] = <<x>>
    BY DEF MessageAt
  <2>4. r[j + i] = s[d + (j + i)]
    BY <2>1
  <2> QED BY <2>2, <2>3, <2>4
<1>5. CASE j + len # Len(r)
  <2>1. j + len + 1 \in 1 .. Len(r)
    BY <1>1, <1>3, <1>5, NextPlace
  <2>2. d + (j + len + 1) = (d + j) + len + 1
    BY <1>1, ShiftedPlace
  <2>3. r[j + len + 1] = s[d + (j + len + 1)]
    BY <2>1
  <2>4. IsHeader(s[(d + j) + len + 1]) /\ s[(d + j) + len + 1][1] = x + 1
    BY <1>3, <1>5 DEF MessageAt
  <2>5. IsHeader(r[j + len + 1]) /\ r[j + len + 1][1] = x + 1
    BY <2>2, <2>3, <2>4
  <2> QED BY <1>3, <1>4, <1>5, <2>5 DEF MessageAt
<1>6. CASE j + len = Len(r)
  <2>1. x = n
    BY <1>3, <1>6 DEF MessageAt
  <2> QED BY <1>3, <1>4, <1>6, <2>1 DEF MessageAt
<1> QED BY <1>5, <1>6

(* A header and the body that follows it are one more message.             *)
LEMMA WholeGrows ==
  ASSUME NEW q \in Seq(Tokens), NEW m \in Nat, NEW n \in Nat,
         Whole(q \o Body(n, 0), m, n),
         \A j \in 1 .. Len(q) : IsHeader(q[j]) => q[j][2] # "EXIT",
         NEW action \in {"SHOW", "EXIT"}, NEW len \in 0 .. BufSize - 1,
         action = "EXIT" => len = 0
  PROVE  Whole(Append(q, <<n + 1, action, len>>) \o Body(n + 1, len), m, n + 1)
<1> DEFINE h == <<n + 1, action, len>>
           s == Append(q, h) \o Body(n + 1, len)
<1>1. len \in Nat /\ n + 1 \in Nat
  BY Sizes
<1>2. h \in Tokens /\ IsHeader(h) /\ h[1] = n + 1 /\ h[2] = action /\ h[3] = len
  BY HeaderMade
<1>3. /\ Body(n + 1, len) \in Seq(Tokens) /\ Len(Body(n + 1, len)) = len
      /\ \A i \in 1 .. len : Body(n + 1, len)[i] = <<n + 1>>
  BY <1>1, BodyMade
<1>4. q \o Body(n, 0) = q
  <2>1. Body(n, 0) \in Seq(Tokens) /\ Len(Body(n, 0)) = 0
    BY BodyMade
  <2> QED BY <2>1, ConcatEmptySeq, EmptySeq
<1> HIDE DEF h
<1>5. /\ Append(q, h) \in Seq(Tokens) /\ Len(Append(q, h)) = Len(q) + 1
      /\ Append(q, h)[Len(q) + 1] = h /\ \A j \in 1 .. Len(q) : Append(q, h)[j] = q[j]
  BY <1>2, AppendProperties
<1>6. /\ s \in Seq(Tokens) /\ Len(s) = Len(q) + 1 + len
      /\ \A j \in 1 .. Len(q) : s[j] = q[j]
      /\ s[Len(q) + 1] = h
      /\ \A i \in 1 .. len : s[Len(q) + 1 + i] = <<n + 1>>
  <2> DEFINE q1 == Append(q, h)
             b == Body(n + 1, len)
  <2>1. q1 \in Seq(Tokens) /\ b \in Seq(Tokens)
    BY <1>3, <1>5
  <2>2. Len(q1) = Len(q) + 1 /\ Len(b) = len
    BY <1>3, <1>5
  <2> HIDE DEF q1, b
  <2>3. /\ q1 \o b \in Seq(Tokens) /\ Len(q1 \o b) = Len(q1) + Len(b)
        /\ \A j \in 1 .. Len(q1) + Len(b) :
             (q1 \o b)[j] = IF j <= Len(q1) THEN q1[j] ELSE b[j - Len(q1)]
    BY <2>1, ConcatProperties
  <2>4. /\ s \in Seq(Tokens) /\ Len(s) = Len(q) + 1 + len
        /\ \A j \in 1 .. Len(q) + 1 + len :
             s[j] = IF j <= Len(q) + 1 THEN Append(q, h)[j]
                    ELSE Body(n + 1, len)[j - (Len(q) + 1)]
    BY <2>2, <2>3 DEF q1, b
  <2>5. Len(q) \in Nat
    OBVIOUS
  <2>6. ASSUME NEW i \in 1 .. len PROVE s[Len(q) + 1 + i] = <<n + 1>>
    <3>1. Len(q) + 1 + i \in 1 .. Len(q) + 1 + len /\ ~ (Len(q) + 1 + i <= Len(q) + 1)
          /\ Len(q) + 1 + i - (Len(q) + 1) = i
      BY <2>5
    <3> QED BY <1>3, <2>4, <3>1
  <2> QED BY <1>5, <2>4, <2>5, <2>6
<1> HIDE DEF s
<1>7. IF s = <<>> THEN m = n + 1 ELSE IsHeader(s[1]) /\ s[1][1] = m + 1
  <2>1. CASE q = <<>>
    BY <1>2, <1>4, <1>6, <2>1 DEF Whole
  <2>2. CASE q # <<>>
    <3>1. Len(q) \in Nat /\ Len(q) # 0
      BY <2>2, EmptySeq
    <3>2. s # <<>> /\ s[1] = q[1]
      BY <1>6, <3>1
    <3> QED BY <1>4, <2>2, <3>2 DEF Whole
  <2> QED BY <2>1, <2>2
<1>8. ASSUME NEW j \in 1 .. Len(s), IsHeader(s[j])
      PROVE  /\ MessageAt(s, j, s[j][1], s[j][3], n + 1)
             /\ s[j][2] = "EXIT" => j = Len(s)
  <2>1. CASE j \in 1 .. Len(q)
    <3>1. s[j] = q[j] /\ s[j][3] \in Nat /\ s[j][2] # "EXIT"
      BY <1>6, <1>8, <2>1, HeaderFields
    <3>2. MessageAt(q, j, s[j][1], s[j][3], n)
      BY <1>4, <1>8, <2>1, <3>1 DEF Whole
    <3>3. /\ Len(s) > Len(q) /\ IsHeader(s[Len(q) + 1]) /\ s[Len(q) + 1][1] = n + 1
          /\ \A i \in 1 .. Len(q) : s[i] = q[i] /\ s \in Seq(Tokens)
      BY <1>2, <1>6
    <3>4. MessageAt(s, j, s[j][1], s[j][3], n + 1)
      BY <1>6, <2>1, <3>1, <3>2, <3>3, MessageStays
    <3> QED BY <3>1, <3>4
  <2>2. CASE j = Len(q) + 1
    <3>1. s[j] = h
      BY <1>6, <2>2
    <3>2. MessageAt(s, j, n + 1, len, n + 1)
      <4>1. j + len = Len(s)
        BY <1>6, <2>2
      <4>2. \A i \in 1 .. len : s[j + i] = <<n + 1>>
        BY <1>6, <2>2
      <4>3. j + len <= Len(s)
        BY <1>6, <4>1
      <4> QED BY <4>1, <4>2, <4>3 DEF MessageAt
    <3>3. action = "EXIT" => j = Len(s)
      BY <1>6, <2>2
    <3> QED BY <1>2, <3>1, <3>2, <3>3
  <2>3. CASE j \in Len(q) + 2 .. Len(s)
    <3>1. PICK i \in 1 .. len : j = Len(q) + 1 + i
      <4>1. j - (Len(q) + 1) \in 1 .. len /\ j = Len(q) + 1 + (j - (Len(q) + 1))
        BY <1>6, <2>3
      <4> QED BY <4>1
    <3> QED BY <1>6, <1>8, <3>1, ByteMade, n + 1 \in Nat
  <2> QED BY <1>6, <2>1, <2>2, <2>3
<1> QED BY <1>7, <1>8 DEF Whole, s, h

(* Without its first message it is what comes after.                       *)
LEMMA WholeShrinks ==
  ASSUME NEW s \in Seq(Tokens), NEW m \in Nat, NEW n \in Nat, Whole(s, m, n), s # <<>>
  PROVE  /\ s[1] \in Headers /\ IsHeader(s[1]) /\ s[1][1] = m + 1 /\ s[1][3] + 1 <= Len(s)
         /\ \A i \in 1 .. s[1][3] : s[1 + i] = <<m + 1>>
         /\ s[1][3] + 1 = Len(s) => m + 1 = n
         /\ s[1][2] = "EXIT" => s[1][3] = 0 /\ m + 1 = n
         /\ Whole(SubSeq(s, s[1][3] + 2, Len(s)), m + 1, n)
         /\ SubSeq(s, s[1][3] + 2, Len(s)) \in Seq(Tokens)
<1> DEFINE len == s[1][3]
           r == SubSeq(s, len + 2, Len(s))
<1>1. Len(s) \in Nat /\ Len(s) >= 1
  BY EmptySeq
<1>2. s[1] \in Tokens /\ IsHeader(s[1]) /\ s[1][1] = m + 1
  BY <1>1 DEF Whole
<1>3. s[1] \in Headers /\ len \in 0 .. BufSize - 1 /\ BufSize \in Nat
  BY <1>2, HeaderFields, Sizes
<1>4. MessageAt(s, 1, m + 1, len, n) /\ (s[1][2] = "EXIT" => 1 = Len(s))
  <2>1. 1 \in 1 .. Len(s)
    BY <1>1
  <2>2. /\ MessageAt(s, 1, s[1][1], s[1][3], n)
        /\ s[1][2] = "EXIT" => 1 = Len(s)
    BY <1>2, <2>1 DEF Whole
  <2> QED BY <1>2, <2>2
<1> HIDE DEF len
<1>5. /\ 1 + len <= Len(s) /\ \A i \in 1 .. len : s[1 + i] = <<m + 1>>
      /\ IF 1 + len = Len(s) THEN m + 1 = n
         ELSE IsHeader(s[1 + len + 1]) /\ s[1 + len + 1][1] = m + 1 + 1
  BY <1>4 DEF MessageAt
<1>6. /\ r \in Seq(Tokens) /\ Len(r) = Len(s) - (len + 1)
      /\ \A i \in 1 .. Len(r) : r[i] = s[len + 1 + i]
  <2>1. \A i \in len + 2 .. Len(s) : s[i] \in Tokens
    BY <1>3
  <2>2. len + 2 \in Int /\ Len(s) \in Int
    BY <1>1, <1>3
  <2>3. /\ r \in Seq(Tokens)
        /\ Len(r) = IF len + 2 <= Len(s) THEN Len(s) - (len + 2) + 1 ELSE 0
        /\ \A i \in 1 .. Len(s) - (len + 2) + 1 : r[i] = s[len + 2 + i - 1]
    BY <2>1, <2>2, SubSeqProperties
  <2>4. Len(r) = Len(s) - (len + 1)
    BY <1>1, <1>3, <1>5, <2>3
  <2>5. ASSUME NEW i \in 1 .. Len(r) PROVE r[i] = s[len + 1 + i]
    <3>1. i \in 1 .. Len(s) - (len + 2) + 1 /\ len + 2 + i - 1 = len + 1 + i
      BY <1>1, <1>3, <2>4
    <3> QED BY <2>3, <3>1
  <2> QED BY <2>3, <2>4, <2>5
<1> HIDE DEF r
<1>7. IF r = <<>> THEN m + 1 = n ELSE IsHeader(r[1]) /\ r[1][1] = (m + 1) + 1
  <2>1. CASE r = <<>>
    <3>1. Len(r) = 0
      BY <2>1
    <3>2. 1 + len = Len(s)
      BY <1>1, <1>3, <1>6, <3>1
    <3> QED BY <1>5, <2>1, <3>2
  <2>2. CASE r # <<>>
    <3>1. Len(r) \in Nat /\ Len(r) # 0
      BY <1>6, <2>2, EmptySeq
    <3>2. 1 \in 1 .. Len(r) /\ 1 + len # Len(s) /\ len + 1 + 1 = 1 + len + 1
      BY <1>1, <1>3, <1>6, <3>1
    <3> QED BY <1>5, <1>6, <2>2, <3>2
  <2> QED BY <2>1, <2>2
<1>8. ASSUME NEW j \in 1 .. Len(r), IsHeader(r[j])
      PROVE  /\ MessageAt(r, j, r[j][1], r[j][3], n)
             /\ r[j][2] = "EXIT" => j = Len(r)
  <2> DEFINE d == len + 1
  <2>1. d \in Nat /\ d + j \in 1 .. Len(s) /\ r[j] = s[d + j] /\ r[j][3] \in Nat
    BY <1>1, <1>3, <1>6, <1>8, HeaderFields
  <2>2. /\ MessageAt(s, d + j, r[j][1], r[j][3], n)
        /\ r[j][2] = "EXIT" => d + j = Len(s)
    BY <1>8, <2>1 DEF Whole
  <2>3. Len(r) = Len(s) - d /\ \A i \in 1 .. Len(r) : r[i] = s[d + i]
    BY <1>6
  <2>4. d + j = Len(s) => j = Len(r)
    BY <1>1, <2>1, <2>3
  <2> HIDE DEF d
  <2>5. MessageAt(r, j, r[j][1], r[j][3], n)
    BY <1>6, <2>1, <2>2, <2>3, MessageShifts
  <2> QED BY <2>2, <2>4, <2>5
<1>9. Whole(r, m + 1, n)
  BY <1>7, <1>8 DEF Whole
<1>10. s[1][2] = "EXIT" => len = 0 /\ m + 1 = n
  <2> SUFFICES ASSUME s[1][2] = "EXIT" PROVE len = 0 /\ m + 1 = n
    OBVIOUS
  <2>1. 1 = Len(s)
    BY <1>4
  <2>2. 1 + len <= Len(s)
    BY <1>5
  <2>3. len \in Nat
    BY <1>3
  <2>4. 1 + len <= 1
    BY <2>1, <2>2
  <2>5. len = 0
    BY <2>3, <2>4
  <2>6. 1 + len = Len(s)
    BY <2>1, <2>5
  <2> QED BY <1>5, <2>5, <2>6
<1>11. /\ len + 1 <= Len(s) /\ (len + 1 = Len(s) => m + 1 = n)
       /\ \A i \in 1 .. len : s[1 + i] = <<m + 1>>
  BY <1>1, <1>3, <1>5
<1>12. /\ Whole(SubSeq(s, len + 2, Len(s)), m + 1, n)
       /\ SubSeq(s, len + 2, Len(s)) \in Seq(Tokens)
  BY <1>6, <1>9 DEF r
<1> HIDE DEF r
<1>13. s[1] \in Headers /\ IsHeader(s[1]) /\ s[1][1] = m + 1
  BY <1>2, <1>3
<1> QED BY <1>10, <1>11, <1>12, <1>13 DEF len

(* A stream with the rest of a body at its end.                            *)
LEMMA WithBody ==
  ASSUME NEW q \in Seq(Tokens), NEW n \in Nat, NEW len \in Nat
  PROVE  /\ q \o Body(n, len) \in Seq(Tokens)
         /\ Len(q \o Body(n, len)) = Len(q) + len
         /\ \A i \in 1 .. Len(q) : (q \o Body(n, len))[i] = q[i]
         /\ \A i \in 1 .. len : (q \o Body(n, len))[Len(q) + i] = <<n>>
<1> DEFINE b == Body(n, len)
<1>1. b \in Seq(Tokens) /\ Len(b) = len /\ \A i \in 1 .. len : b[i] = <<n>>
  BY BodyMade
<1> HIDE DEF b
<1>2. /\ q \o b \in Seq(Tokens) /\ Len(q \o b) = Len(q) + Len(b)
      /\ \A i \in 1 .. Len(q) + Len(b) : (q \o b)[i] = IF i <= Len(q) THEN q[i] ELSE b[i - Len(q)]
  BY <1>1, ConcatProperties
<1>3. ASSUME NEW i \in 1 .. Len(q) PROVE (q \o b)[i] = q[i]
  <2>1. i \in 1 .. Len(q) + Len(b) /\ i <= Len(q)
    BY <1>1
  <2> QED BY <1>2, <2>1
<1>4. ASSUME NEW i \in 1 .. len PROVE (q \o b)[Len(q) + i] = <<n>>
  <2>1. Len(q) + i \in 1 .. Len(q) + Len(b) /\ ~ (Len(q) + i <= Len(q)) /\ (Len(q) + i) - Len(q) = i
    BY <1>1
  <2>2. (q \o b)[Len(q) + i] = b[i]
    BY <1>2, <2>1
  <2> QED BY <1>1, <2>2
<1> QED BY <1>1, <1>2, <1>3, <1>4 DEF b

LEMMA Places ==
  ASSUME NEW a \in Nat, NEW l \in Nat, a >= 1, a < l + 1, a # 1
  PROVE  a - 1 \in 1 .. l /\ 1 + (a - 1) = a /\ a \in 1 .. a
OBVIOUS

(* Places before and after the end of what is in the pipe.                 *)
LEMMA TakenPlaces ==
  ASSUME NEW a \in Nat, NEW b \in Nat, NEW d \in Nat, NEW len \in Nat, d >= 1, b = a - d
  PROVE  /\ d + 1 <= a + len => (a + len) - (d + 1) + 1 = b + len
         /\ ~ (d + 1 <= a + len) => b + len = 0
         /\ \A i \in 1 .. b + len : /\ i \in 1 .. (a + len) - (d + 1) + 1
                                   /\ (d + 1) + i - 1 = d + i
         /\ \A i \in 1 .. b : d + i \in 1 .. a
         /\ \A i \in 1 .. b + len : ~ (i <= b) =>
              i - b \in 1 .. len /\ i = b + (i - b) /\ d + i = a + (i - b)
OBVIOUS

(* What a window may still read, q, when a body is not written: either the *)
(* first message is there as a whole, or only its header, and it is the    *)
(* last one.                                                               *)
LEMMA FirstMessage ==
  ASSUME NEW q \in Seq(Tokens), NEW m \in Nat, NEW n \in Nat, NEW len \in Nat, q # <<>>,
         Whole(q \o Body(n, len), m, n), len > 0 => IsHeader(q[Len(q)])
  PROVE  /\ q[1] \in Headers /\ IsHeader(q[1]) /\ q[1][1] = m + 1
         /\ q[1][2] = "EXIT" => q[1][3] = 0 /\ m + 1 = n
         /\ \/ /\ q[1][3] + 1 <= Len(q)
               /\ \A i \in 1 .. q[1][3] : q[1 + i] = <<m + 1>>
            \/ Len(q) = 1 /\ m + 1 = n
<1> DEFINE s == q \o Body(n, len)
           l == q[1][3]
<1>1. /\ s \in Seq(Tokens) /\ Len(s) = Len(q) + len
      /\ \A i \in 1 .. Len(q) : s[i] = q[i]
      /\ \A i \in 1 .. len : s[Len(q) + i] = <<n>>
  BY WithBody
<1>2. Len(q) \in Nat /\ Len(q) >= 1
  BY EmptySeq
<1> HIDE DEF s
<1>3. s # <<>> /\ s[1] = q[1]
  BY <1>1, <1>2
<1>4. Whole(s, m, n)
  BY DEF s
<1>5. /\ q[1] \in Headers /\ IsHeader(q[1]) /\ q[1][1] = m + 1 /\ l + 1 <= Len(s)
      /\ \A i \in 1 .. l : s[1 + i] = <<m + 1>>
      /\ q[1][2] = "EXIT" => l = 0 /\ m + 1 = n
  <2>1. /\ s[1] \in Headers /\ IsHeader(s[1]) /\ s[1][1] = m + 1 /\ s[1][3] + 1 <= Len(s)
        /\ \A i \in 1 .. s[1][3] : s[1 + i] = <<m + 1>>
        /\ s[1][2] = "EXIT" => s[1][3] = 0 /\ m + 1 = n
    BY <1>1, <1>3, <1>4, WholeShrinks
  <2> QED BY <1>3, <2>1
<1>6. l \in Nat
  <2>1. q[1] \in Tokens
    BY <1>2
  <2> QED BY <1>5, <2>1, HeaderFields
<1>7. MessageAt(s, 1, m + 1, l, n)
  <2>1. 1 \in 1 .. Len(s)
    BY <1>1, <1>2
  <2>2. MessageAt(s, 1, s[1][1], s[1][3], n)
    BY <1>3, <1>4, <1>5, <2>1 DEF Whole
  <2> QED BY <1>3, <1>5, <2>2
<1> HIDE DEF l
<1>8. CASE l + 1 <= Len(q)
  <2>1. ASSUME NEW i \in 1 .. l PROVE q[1 + i] = <<m + 1>>
    <3>1. 1 + i \in 1 .. Len(q)
      BY <1>2, <1>6, <1>8
    <3> QED BY <1>1, <1>5, <3>1
  <2> QED BY <1>5, <1>8, <2>1 DEF l
<1>9. CASE Len(q) < l + 1
  <2>1. len > 0 /\ IsHeader(q[Len(q)])
    BY <1>1, <1>2, <1>5, <1>6, <1>9
  <2>2. Len(q) = 1
    <3> SUFFICES ASSUME Len(q) # 1 PROVE FALSE
      OBVIOUS
    <3>1. Len(q) - 1 \in 1 .. l /\ 1 + (Len(q) - 1) = Len(q) /\ Len(q) \in 1 .. Len(q)
      BY <1>2, <1>6, <1>9, Places
    <3>2. q[Len(q)] = <<m + 1>>
      BY <1>1, <1>5, <3>1
    <3> QED BY <2>1, <3>2, ByteMade, m + 1 \in Nat
  <2>3. m + 1 = n
    <3>1. CASE 1 + l = Len(s)
      BY <1>7, <3>1 DEF MessageAt
    <3>2. CASE 1 + l # Len(s)
      <4>1. IsHeader(s[1 + l + 1])
        BY <1>7, <3>2 DEF MessageAt
      <4>2. l + 1 \in 1 .. len /\ 1 + l + 1 = Len(q) + (l + 1)
        BY <1>1, <1>2, <1>5, <1>6, <2>2, <3>2
      <4>3. s[1 + l + 1] = <<n>>
        BY <1>1, <4>2
      <4> QED BY <4>1, <4>3, ByteMade
    <3> QED BY <3>1, <3>2
  <2> QED BY <1>5, <2>2, <2>3 DEF l
<1> QED BY <1>2, <1>6, <1>8, <1>9

(* What is left of a stream from the a-th token on.                        *)
LEMMA LeftFrom ==
  ASSUME NEW s \in Seq(Tokens), NEW a \in Nat, a >= 1
  PROVE  /\ Len(SubSeq(s, a, Len(s))) = IF a <= Len(s) THEN Len(s) - a + 1 ELSE 0
         /\ \A i \in 1 .. Len(s) - a + 1 : SubSeq(s, a, Len(s))[i] = s[a + i - 1]
<1>1. PICK e \in Nat : e = Len(s)
  OBVIOUS
<1>2. \A i \in a .. e : s[i] \in Tokens
  BY <1>1
<1>3. /\ Len(SubSeq(s, a, e)) = IF a <= e THEN e - a + 1 ELSE 0
      /\ \A i \in 1 .. e - a + 1 : SubSeq(s, a, e)[i] = s[a + i - 1]
  BY <1>2, SubSeqProperties
<1> QED BY <1>1, <1>3

(* Reading the first message.                                              *)
LEMMA FirstMessageRead ==
  ASSUME NEW q \in Seq(Tokens), NEW m \in Nat, NEW n \in Nat, NEW len \in Nat, q # <<>>,
         Whole(q \o Body(n, len), m, n), len > 0 => IsHeader(q[Len(q)]),
         q[1][3] + 1 <= Len(q), NEW r \in Seq(Tokens),
         Len(r) = Len(q) - (q[1][3] + 1),
         \A i \in 1 .. Len(r) : r[i] = q[(q[1][3] + 1) + i]
  PROVE  /\ Whole(r \o Body(n, len), m + 1, n)
         /\ len > 0 => r # <<>> /\ IsHeader(r[Len(r)])
         /\ \A j \in 1 .. Len(r) : \E i \in 1 .. Len(q) : r[j] = q[i]
<1> DEFINE s == q \o Body(n, len)
           t == r \o Body(n, len)
           d == q[1][3] + 1
<1>1. /\ s \in Seq(Tokens) /\ Len(s) = Len(q) + len
      /\ \A i \in 1 .. Len(q) : s[i] = q[i]
      /\ \A i \in 1 .. len : s[Len(q) + i] = <<n>>
  BY WithBody
<1>2. /\ t \in Seq(Tokens) /\ Len(t) = Len(r) + len
      /\ \A i \in 1 .. Len(r) : t[i] = r[i]
      /\ \A i \in 1 .. len : t[Len(r) + i] = <<n>>
  BY WithBody
<1>3. Len(q) \in Nat /\ Len(q) >= 1 /\ Len(r) \in Nat
  BY EmptySeq
<1>4. IsHeader(q[1]) /\ q[1] \in Tokens /\ q[1][1] = m + 1
  BY <1>3, FirstMessage
<1>5. d \in Nat /\ d >= 1
  <2>1. q[1][3] \in Nat
    BY <1>4, HeaderFields
  <2> QED BY <2>1
<1>6. /\ Len(r) = Len(q) - d /\ \A i \in 1 .. Len(r) : r[i] = q[d + i]
  OBVIOUS
<1>7. Whole(s, m, n)
  OBVIOUS
<1> HIDE DEF s, t
<1>8. s # <<>> /\ s[1] = q[1]
  BY <1>1, <1>3
<1>9. /\ Whole(SubSeq(s, s[1][3] + 2, Len(s)), m + 1, n)
      /\ SubSeq(s, s[1][3] + 2, Len(s)) \in Seq(Tokens)
      /\ \A i \in 1 .. s[1][3] : s[1 + i] = <<m + 1>>
  BY <1>1, <1>7, <1>8, WholeShrinks
<1>10. s[1][3] + 2 = d + 1 /\ s[1][3] = d - 1
  <2>1. q[1][3] \in Nat
    BY <1>4, HeaderFields
  <2> QED BY <1>8, <2>1
<1> HIDE DEF d
<1>11. Len(r) = Len(q) - d
  BY <1>6
<1>12. /\ d + 1 <= Len(q) + len => (Len(q) + len) - (d + 1) + 1 = Len(r) + len
       /\ ~ (d + 1 <= Len(q) + len) => Len(r) + len = 0
       /\ \A i \in 1 .. Len(r) + len : /\ i \in 1 .. (Len(q) + len) - (d + 1) + 1
                                       /\ (d + 1) + i - 1 = d + i
       /\ \A i \in 1 .. Len(r) : d + i \in 1 .. Len(q)
       /\ \A i \in 1 .. Len(r) + len : ~ (i <= Len(r)) =>
            /\ i - Len(r) \in 1 .. len /\ i = Len(r) + (i - Len(r))
            /\ d + i = Len(q) + (i - Len(r))
  <2> DEFINE a == Len(q)
             b == Len(r)
  <2>1. a \in Nat /\ b \in Nat /\ d \in Nat /\ d >= 1 /\ b = a - d
    BY <1>3, <1>5, <1>11
  <2> HIDE DEF a, b
  <2>2. /\ d + 1 <= a + len => (a + len) - (d + 1) + 1 = b + len
        /\ ~ (d + 1 <= a + len) => b + len = 0
        /\ \A i \in 1 .. b + len : /\ i \in 1 .. (a + len) - (d + 1) + 1
                                  /\ (d + 1) + i - 1 = d + i
        /\ \A i \in 1 .. b : d + i \in 1 .. a
        /\ \A i \in 1 .. b + len : ~ (i <= b) =>
             i - b \in 1 .. len /\ i = b + (i - b) /\ d + i = a + (i - b)
    BY <2>1, TakenPlaces
  <2> QED BY <2>2 DEF a, b
<1>13. Len(s) = Len(q) + len /\ Len(t) = Len(r) + len
  BY <1>1, <1>2
<1>14. SubSeq(s, d + 1, Len(s)) = t
  <2> DEFINE u == SubSeq(s, d + 1, Len(s))
  <2>1. /\ Len(u) = IF d + 1 <= Len(s) THEN Len(s) - (d + 1) + 1 ELSE 0
        /\ \A i \in 1 .. Len(s) - (d + 1) + 1 : u[i] = s[(d + 1) + i - 1]
    <3>1. s \in Seq(Tokens) /\ d + 1 \in Nat /\ d + 1 >= 1
      BY <1>1, <1>5
    <3> QED BY <3>1, LeftFrom
  <2>2. u \in Seq(Tokens)
    BY <1>9, <1>10
  <2> HIDE DEF u
  <2>3. Len(u) = Len(t)
    BY <1>12, <1>13, <2>1
  <2>4. ASSUME NEW i \in 1 .. Len(t) PROVE u[i] = t[i]
    <3>1. i \in 1 .. Len(s) - (d + 1) + 1 /\ (d + 1) + i - 1 = d + i
      BY <1>12, <1>13
    <3>2. u[i] = s[d + i]
      BY <2>1, <3>1
    <3>3. CASE i <= Len(r)
      <4>1. i \in 1 .. Len(r) /\ d + i \in 1 .. Len(q)
        BY <1>3, <1>12, <1>13, <3>3
      <4> QED BY <1>1, <1>2, <1>6, <3>2, <4>1
    <3>4. CASE ~ (i <= Len(r))
      <4>1. i - Len(r) \in 1 .. len /\ i = Len(r) + (i - Len(r)) /\ d + i = Len(q) + (i - Len(r))
        BY <1>12, <1>13, <3>4
      <4> QED BY <1>1, <1>2, <3>2, <4>1
    <3> QED BY <3>3, <3>4
  <2> QED BY <1>2, <2>2, <2>3, <2>4, SeqEqual DEF u
<1>15. len > 0 => r # <<>> /\ IsHeader(r[Len(r)])
  <2> SUFFICES ASSUME len > 0 PROVE r # <<>> /\ IsHeader(r[Len(r)])
    OBVIOUS
  <2>1. IsHeader(q[Len(q)])
    OBVIOUS
  <2>2. Len(r) # 0
    <3> SUFFICES ASSUME Len(r) = 0 PROVE FALSE
      OBVIOUS
    <3>1. Len(q) = d
      BY <1>3, <1>5, <1>6
    <3>2. CASE d = 1
      <4>1. Whole(t, m + 1, n)
        BY <1>9, <1>10, <1>14
      <4>2. Len(t) >= 1 /\ t[1] = <<n>>
        <5>1. 1 \in 1 .. len /\ Len(r) + 1 = 1
          BY <1>3
        <5> QED BY <1>2, <5>1
      <4>3. t # <<>>
        BY <1>2, <4>2
      <4>4. IsHeader(t[1])
        BY <4>1, <4>3 DEF Whole
      <4> QED BY <4>2, <4>4, ByteMade
    <3>3. CASE d # 1
      <4>1. d - 1 \in 1 .. s[1][3] /\ 1 + (d - 1) = Len(q) /\ Len(q) \in 1 .. Len(q)
        BY <1>3, <1>5, <1>10, <3>1, <3>3
      <4>2. q[Len(q)] = <<m + 1>>
        BY <1>1, <1>9, <4>1
      <4> QED BY <2>1, <4>2, ByteMade, m + 1 \in Nat
    <3> QED BY <3>2, <3>3
  <2>3. Len(r) \in 1 .. Len(r) /\ d + Len(r) = Len(q)
    BY <1>3, <1>5, <1>6, <2>2
  <2>4. r[Len(r)] = q[Len(q)]
    BY <1>6, <2>3
  <2> QED BY <2>1, <2>2, <2>4
<1>16. ASSUME NEW j \in 1 .. Len(r) PROVE \E i \in 1 .. Len(q) : r[j] = q[i]
  <2>1. d + j \in 1 .. Len(q)
    BY <1>3, <1>5, <1>6
  <2> QED BY <1>6, <2>1
<1> QED BY <1>9, <1>10, <1>14, <1>15, <1>16 DEF t
-----------------------------------------------------------------------------
(* Steps that leave the stream of a window alone.                          *)

(* A window whose record, pipe and writer stay the same.                   *)
LEMMA FollowsKept ==
  ASSUME NEW k \in Sessions, Follows(k),
         crt'[k].pipe = crt[k].pipe,
         Attached(k)' => /\ Attached(k)
                         /\ crt'[k].state = "body" <=> crt[k].state = "body"
                         /\ crt[k].state = "body" => crt'[k].head = crt[k].head,
         shown'[k] = shown[k],
         data'[crt[k].pipe] = data[crt[k].pipe], sent'[crt[k].pipe] = sent[crt[k].pipe],
         crt[k].pipe \in cut' <=> crt[k].pipe \in cut,
         Writing(crt[k].pipe)' <=> Writing(crt[k].pipe),
         Writing(crt[k].pipe) => unsent' = unsent,
         Shut(crt[k].pipe) => Shut(crt[k].pipe)' \/ Ahead(k) = <<>>
  PROVE  Follows(k)'
<1> DEFINE p == crt[k].pipe
<1>1. crt'[k].pipe = p /\ (Attached(k)' => Attached(k) /\ Ahead(k)' = Ahead(k))
  BY DEF Ahead
<1>2. \A len : Owed(p, len) => Owed(p, len)'
  BY DEF Owed
<1>3. ASSUME InStep(k), Attached(k)' PROVE InStep(k)'
  <2>1. PICK len \in 0 .. BufSize - 1 :
           /\ Owed(p, len)
           /\ Whole(Ahead(k) \o Body(sent[p], len), Len(shown[k]), sent[p])
           /\ len > 0 => Ahead(k) # <<>> /\ IsHeader(Ahead(k)[Len(Ahead(k))])
           /\ (\E j \in 1 .. Len(Ahead(k)) : IsHeader(Ahead(k)[j]) /\ Ahead(k)[j][2] = "EXIT")
                => Shut(p)
    BY <1>3 DEF InStep
  <2>2. Owed(p, len)' /\ Ahead(k)' = Ahead(k)
    BY <1>1, <1>2, <1>3, <2>1
  <2>3. CASE Ahead(k) = <<>>
    <3>1. ~ \E j \in 1 .. Len(Ahead(k)') : IsHeader(Ahead(k)'[j]) /\ Ahead(k)'[j][2] = "EXIT"
      BY <2>2, <2>3
    <3> QED BY <1>1, <2>1, <2>2, <3>1 DEF InStep
  <2>4. CASE Ahead(k) # <<>>
    BY <1>1, <2>1, <2>2, <2>4 DEF InStep
  <2> QED BY <2>3, <2>4
<1>4. ASSUME Garbles(k) PROVE Garbles(k)'
  BY <1>1, <1>4 DEF Garbles
<1> QED BY <1>1, <1>3, <1>4 DEF Follows

(* The same for a window whose record stays, too.                          *)
LEMMA FollowsUnread ==
  ASSUME NEW k \in Sessions, Follows(k), crt'[k] = crt[k], shown'[k] = shown[k],
         data'[crt[k].pipe] = data[crt[k].pipe], sent'[crt[k].pipe] = sent[crt[k].pipe],
         crt[k].pipe \in cut' <=> crt[k].pipe \in cut,
         Writing(crt[k].pipe)' <=> Writing(crt[k].pipe),
         Writing(crt[k].pipe) => unsent' = unsent,
         Shut(crt[k].pipe) => Shut(crt[k].pipe)'
  PROVE  Follows(k)'
<1>1. /\ crt'[k].pipe = crt[k].pipe
      /\ Attached(k)' => /\ Attached(k)
                         /\ crt'[k].state = "body" <=> crt[k].state = "body"
                         /\ crt[k].state = "body" => crt'[k].head = crt[k].head
  BY DEF Attached
<1> QED BY <1>1, FollowsKept

(* A pipe with one reader now had no other before.                         *)
LEMMA StillAlone ==
  ASSUME \A j \in Sessions : crt[j].pipe # None => crt'[j].pipe = crt[j].pipe,
         NEW p, p # None, ~ SharedPipe(p)'
  PROVE  ~ SharedPipe(p)
BY DEF SharedPipe

(* Pipes have the numbers of sessions, and 0 is none.                      *)
LEMMA SessionNumbers == /\ Sessions \subseteq Nat \ {0} /\ None = 0
                        /\ \A p \in Sessions : p # None
                        /\ MaxSessions \in Nat
BY WindowAssumption DEF Sessions, None

(* The pipe of a window, and a pipe that the emulator has open.            *)
LEMMA PipeOfReader ==
  ASSUME IInv, NEW k \in Sessions, crt[k].pipe # None
  PROVE  crt[k].pipe \in Sessions
BY SessionNumbers DEF IInv, Started, Numbered, Sessions

LEMMA PipeOfHandle ==
  ASSUME IInv, NEW c \in Names, handle[c] # None
  PROVE  handle[c] \in Sessions
BY SessionNumbers DEF IInv, Numbered, Sessions

(* Steps of the emulator that touch no pipe and no window. *)
LEMMA QuietStep ==
  ASSUME IInv, DInv, UNCHANGED <<crt, data, sent, shown, cut>>,
         \/ pc # "body" /\ pc' # "body"
         \/ UNCHANGED <<pc, handle, unsent>>,
         \A c \in Names : handle'[c] = handle[c] \/ handle'[c] = None,
         \/ pc \notin {"closing", "quitting"}
         \/ UNCHANGED <<pc, target>>
         \/ handle'[target] = None,
         made' \in Nat, made' >= made,
         Making' => (Making /\ made' = made /\ target' = target) \/ made' = made + 1
  PROVE  DInv'
<1>1. PipeTypes'
  BY DEF DInv, PipeTypes
<1>2. WindowFields'
  BY DEF DInv, WindowFields, Attached
<1>3. BodyOpen'
  BY DEF DInv, BodyOpen
<1>4. Unread' /\ NothingSent'
  BY DEF DInv, Unread, NothingSent
<1>5. Unopened'
  <2>1. made \in Nat /\ handle \in [Names -> 0 .. made]
    BY DEF IInv, Numbered
  <2>2. ASSUME NEW p \in Sessions, p > made' \/ (Making' /\ p = made')
        PROVE  sent'[p] = 0
    BY <2>1, <2>2, SessionNumbers DEF DInv, Unopened
  <2>3. ASSUME Making', NEW c \in Names, handle'[c] = made'
        PROVE  c = target'
    <3>1. CASE Making /\ made' = made /\ target' = target
      <4>1. made # None
        BY <3>1, SessionNumbers DEF IInv, LastPipe
      <4>2. handle[c] = made
        BY <2>3, <3>1, <4>1
      <4> QED BY <3>1, <4>2 DEF DInv, Unopened
    <3>2. CASE made' = made + 1
      <4>1. handle'[c] \in 0 .. made
        BY <2>1, SessionNumbers
      <4> QED BY <2>1, <2>3, <3>2, <4>1
    <3> QED BY <2>3, <3>1, <3>2
  <2>4. handle'["out"] = handle'["simp"] => handle'["out"] = None
    BY DEF DInv, Unopened, Names
  <2> QED BY <2>2, <2>3, <2>4 DEF Unopened
<1>6. CutOff'
  BY SessionNumbers DEF DInv, CutOff, PipeTypes, EmulatorWrites
<1>7. Reading'
  <2> SUFFICES ASSUME NEW k \in Sessions, (crt[k].pipe # None /\ ~ SharedPipe(crt[k].pipe))'
               PROVE  Follows(k)'
    BY DEF Reading
  <2>1. crt[k].pipe \in Sessions /\ crt[k].pipe # None /\ ~ SharedPipe(crt[k].pipe)
    BY PipeOfReader DEF SharedPipe
  <2>2. Follows(k)
    BY <2>1 DEF DInv, Reading
  <2>3. (Writing(crt[k].pipe)' <=> Writing(crt[k].pipe)) /\ (Writing(crt[k].pipe) => unsent' = unsent)
    BY DEF Writing
  <2>4. Shut(crt[k].pipe) => Shut(crt[k].pipe)'
    BY <2>1 DEF Shut
  <2> QED BY <2>2, <2>3, <2>4, FollowsUnread
<1> QED BY <1>1, <1>2, <1>3, <1>4, <1>5, <1>6, <1>7 DEF DInv

(* The steps that are of this kind.                                        *)
LEMMA QuietSteps ==
  ASSUME IInv, DInv,
         \/ StartEmulator \/ SimptrisOn \/ MakePipe \/ NameTaken \/ InitFails \/ Close
         \/ (Dies /\ pc # "body") \/ (\E c \in Names : Remove(c)) \/ UNCHANGED vars
  PROVE  DInv'
<1>1. UNCHANGED <<crt, data, sent, shown, cut>>
  BY DEF StartEmulator, SimptrisOn, MakePipe, NameTaken, InitFails, Close, Dies, Remove,
         vars, emuVars, dirVars
<1>2. \/ pc # "body" /\ pc' # "body"
      \/ UNCHANGED <<pc, handle, unsent>>
  BY DEF StartEmulator, SimptrisOn, MakePipe, NameTaken, InitFails, Close, Dies, Remove,
         vars, emuVars, dirVars
<1>3. /\ \A c \in Names : handle'[c] = handle[c] \/ handle'[c] = None
      /\ handle \in [Names -> 0 .. made] /\ target \in Names
      /\ made \in Nat
  <2>1. /\ handle \in [Names -> 0 .. made] /\ target \in Names /\ made \in Nat
    BY DEF IInv, Numbered
  <2> QED BY <2>1 DEF StartEmulator, SimptrisOn, MakePipe, NameTaken, InitFails, Close, Dies, Remove,
         vars, emuVars, dirVars
<1>4. \/ pc \notin {"closing", "quitting"}
      \/ UNCHANGED <<pc, target>>
      \/ handle'[target] = None
  BY <1>3 DEF StartEmulator, SimptrisOn, MakePipe, NameTaken, InitFails, Close, Dies, Remove,
         vars, emuVars, dirVars
<1>5. /\ made' \in Nat /\ made' >= made
      /\ Making' => (Making /\ made' = made /\ target' = target) \/ made' = made + 1
  BY <1>3 DEF StartEmulator, SimptrisOn, MakePipe, NameTaken, InitFails, Close, Dies, Remove,
         vars, emuVars, dirVars, Making, Waiting
<1> QED BY <1>1, <1>2, <1>3, <1>4, <1>5, QuietStep

(* The emulator dies between a header and its body. *)
LEMMA CutStep ==
  ASSUME IInv, DInv, Dies, pc = "body"
  PROVE  DInv'
<1> DEFINE w == handle[unsent.name]
<1>1. /\ UNCHANGED <<crt, data, sent, shown, made>>
      /\ pc' = "off" /\ cut' = cut \cup {w}
      /\ \A c \in Names : handle'[c] = None
  BY DEF Dies, dirVars
<1>2. /\ w \in Sessions /\ sent[w] > 0 /\ unsent.len \in 1 .. BufSize - 1
      /\ unsent.name \in Names
  BY DEF DInv, BodyOpen
<1>3. PipeTypes'
  BY <1>1, <1>2 DEF DInv, PipeTypes
<1>4. WindowFields' /\ Unread' /\ NothingSent'
  BY <1>1 DEF DInv, WindowFields, Attached, Unread, NothingSent
<1>5. BodyOpen'
  BY <1>1 DEF BodyOpen
<1>6. Unopened'
  BY <1>1 DEF DInv, Unopened, Making, Waiting, Names
<1>7. CutOff'
  BY <1>1, <1>2, <1>3, SessionNumbers DEF DInv, CutOff, EmulatorWrites, PipeTypes
<1>8. Reading'
  <2> SUFFICES ASSUME NEW k \in Sessions, (crt[k].pipe # None /\ ~ SharedPipe(crt[k].pipe))'
               PROVE  Follows(k)'
    BY DEF Reading
  <2> DEFINE p == crt[k].pipe
  <2>1. p \in Sessions /\ p # None /\ ~ SharedPipe(p)
    BY <1>1, PipeOfReader DEF SharedPipe
  <2>2. Follows(k)
    BY <2>1 DEF DInv, Reading
  <2>3. Shut(p)' /\ ~ Writing(p)'
    BY <1>1, <2>1, SessionNumbers DEF Shut, Writing
  <2>4. CASE p # w
    <3>1. ~ Writing(p) /\ (p \in cut' <=> p \in cut)
      BY <1>1, <2>4 DEF Writing
    <3> QED BY <1>1, <2>2, <2>3, <3>1, FollowsUnread
  <2>5. CASE p = w
    <3>1. EmulatorWrites(p) /\ Writing(p) /\ p \in cut'
      BY <1>1, <1>2, <2>5 DEF EmulatorWrites, Writing
    <3>2. ~ Garbles(k)
      BY <3>1 DEF DInv, CutOff, Garbles
    <3>3. /\ Ahead(k)' = Ahead(k) /\ (Attached(k)' <=> Attached(k)) /\ crt'[k].pipe = p
          /\ shown'[k] = shown[k] /\ sent'[p] = sent[p]
      BY <1>1 DEF Ahead, Attached
    <3>4. ASSUME InStep(k) PROVE InStep(k)'
      <4>1. PICK len \in 0 .. BufSize - 1 :
               /\ Owed(p, len)
               /\ Whole(Ahead(k) \o Body(sent[p], len), Len(shown[k]), sent[p])
               /\ len > 0 => Ahead(k) # <<>> /\ IsHeader(Ahead(k)[Len(Ahead(k))])
        BY <3>4 DEF InStep
      <4>2. Owed(p, len)'
        <5>1. len = unsent.len /\ len > 0
          BY <1>2, <3>1, <4>1 DEF Owed
        <5> QED BY <2>3, <3>1, <3>3, <5>1 DEF Owed
      <4> QED BY <2>3, <3>3, <4>1, <4>2 DEF InStep
    <3> QED BY <2>2, <3>2, <3>3, <3>4 DEF Follows
  <2> QED BY <2>4, <2>5
<1> QED BY <1>3, <1>4, <1>5, <1>6, <1>7, <1>8 DEF DInv
-----------------------------------------------------------------------------
(* A window that ends, or waits for a key, reads no further. *)
LEMMA LeaveStep ==
  ASSUME IInv, DInv, NEW k \in Sessions, NEW process,
         {"head", "fds"} \subseteq DOMAIN process, process.pipe = crt[k].pipe,
         process.state \in {"ended", "waiting"},
         crt' = [crt EXCEPT ![k] = process],
         UNCHANGED <<pc, target, handle, unsent, made, data, sent, shown, cut>>
  PROVE  DInv'
<1>1. \A j \in Sessions : crt'[j] = IF j = k THEN process ELSE crt[j]
  BY DEF IInv, Shape
<1>3. /\ {"head", "fds"} \subseteq DOMAIN process
      /\ process.state \in {"ended", "waiting"} /\ process.pipe = crt[k].pipe
  OBVIOUS
<1>4. \A j \in Sessions : crt'[j].pipe = crt[j].pipe
  BY <1>1, <1>3
<1>5. ~ Attached(k)'
  BY <1>1, <1>3 DEF Attached
<1>6. \A j \in Sessions : j # k => crt'[j] = crt[j]
  BY <1>1
<1>7. /\ {"head", "fds"} \subseteq DOMAIN crt'[k]
      /\ crt'[k].state \in {"ended", "waiting"} /\ crt'[k].pipe = crt[k].pipe
  BY <1>1, <1>3
<1>8. WindowFields'
  <2> SUFFICES ASSUME NEW j \in Sessions
               PROVE  /\ {"head", "fds"} \subseteq DOMAIN crt'[j]
                      /\ crt'[j].state \in {"none", "starting"} => crt'[j].pipe = None
                      /\ crt'[j].pipe = None => shown'[j] = <<>>
                      /\ Attached(j)' => crt'[j].pipe # None
                      /\ crt'[j].state = "body" => crt'[j].head \in Headers /\ crt'[j].head[3] > 0
    BY DEF WindowFields
  <2>1. CASE j = k
    BY <1>5, <1>7, <2>1 DEF DInv, WindowFields
  <2>2. CASE j # k
    BY <1>6, <2>2 DEF DInv, WindowFields, Attached
  <2> QED BY <2>1, <2>2
<1>9. PipeTypes' /\ BodyOpen' /\ Unread' /\ Unopened' /\ CutOff'
  <2>1. PipeTypes' /\ BodyOpen' /\ Unread' /\ CutOff'
    BY <1>4 DEF DInv, PipeTypes, BodyOpen, Unread, CutOff, EmulatorWrites
  <2>2. Unopened'
    BY DEF DInv, Unopened, Making, Waiting
  <2> QED BY <2>1, <2>2
<1>10. NothingSent'
  BY <1>6, <1>7 DEF DInv, NothingSent
<1>11. Reading'
  <2> SUFFICES ASSUME NEW j \in Sessions, (crt[j].pipe # None /\ ~ SharedPipe(crt[j].pipe))'
               PROVE  Follows(j)'
    BY DEF Reading
  <2>1. crt[j].pipe \in Sessions /\ crt[j].pipe # None /\ ~ SharedPipe(crt[j].pipe)
    BY <1>4, PipeOfReader DEF SharedPipe
  <2>2. Follows(j)
    BY <2>1 DEF DInv, Reading
  <2>3. /\ Writing(crt[j].pipe)' <=> Writing(crt[j].pipe)
        /\ Shut(crt[j].pipe) => Shut(crt[j].pipe)'
    BY <1>4 DEF Writing, Shut
  <2>4. CASE j = k
    BY <1>4, <1>5, <2>2, <2>3, <2>4, FollowsKept
  <2>5. CASE j # k
    BY <1>6, <2>2, <2>3, <2>5, FollowsUnread
  <2> QED BY <2>4, <2>5
<1> QED BY <1>8, <1>9, <1>10, <1>11 DEF DInv

LEMMA EndStep ==
  ASSUME IInv, DInv, NEW k \in Sessions, crt[k].state # "none",
         crt' = [crt EXCEPT ![k] = Gone(@)],
         UNCHANGED <<pc, target, handle, unsent, made, data, sent, shown, cut>>
  PROVE  DInv'
<1>1. /\ {"state", "name", "pipe"} \subseteq DOMAIN crt[k]
      /\ {"head", "fds"} \subseteq DOMAIN crt[k]
  BY DEF IInv, Shape, DInv, WindowFields
<1>2. /\ {"head", "fds"} \subseteq DOMAIN Gone(crt[k])
      /\ Gone(crt[k]).state \in {"ended", "waiting"} /\ Gone(crt[k]).pipe = crt[k].pipe
  BY <1>1 DEF Gone
<1>3. crt' = [crt EXCEPT ![k] = Gone(crt[k])]
  OBVIOUS
<1> QED BY <1>2, <1>3, LeaveStep

LEMMA WaitStep ==
  ASSUME IInv, DInv, NEW k \in Sessions,
         crt' = [crt EXCEPT ![k].state = "waiting"],
         UNCHANGED <<pc, target, handle, unsent, made, data, sent, shown, cut>>
  PROVE  DInv'
<1> DEFINE process == [crt[k] EXCEPT !.state = "waiting"]
<1>1. /\ {"state", "name", "pipe"} \subseteq DOMAIN crt[k]
      /\ {"head", "fds"} \subseteq DOMAIN crt[k]
  BY DEF IInv, Shape, DInv, WindowFields
<1>2. /\ {"head", "fds"} \subseteq DOMAIN process
      /\ process.state \in {"ended", "waiting"} /\ process.pipe = crt[k].pipe
  BY <1>1
<1>3. crt' = [crt EXCEPT ![k] = process]
  OBVIOUS
<1> HIDE DEF process
<1> QED BY <1>2, <1>3, LeaveStep

(* fork *)
LEMMA ForkKeeps ==
  ASSUME IInv, DInv, ForkCRT
  PROVE  DInv'
<1> DEFINE process == [state |-> "starting", name |-> target, pipe |-> None,
                       head |-> NoHeader, fds |-> {handle[c] : c \in Names} \ {None}]
<1>1. /\ pc = "fork" /\ pc' = "open" /\ crt' = [crt EXCEPT ![made] = process]
      /\ UNCHANGED <<target, handle, unsent, made, data, sent, shown, cut>>
  BY DEF ForkCRT, dirVars
<1>2. made \in Sessions /\ crt[made].state = "none"
  BY <1>1 DEF IInv, LastPipe, Making
<1>3. \A k \in Sessions : crt'[k] = IF k = made THEN process ELSE crt[k]
  BY <1>1, <1>2 DEF IInv, Shape
<1>4. /\ {"head", "fds"} \subseteq DOMAIN process
      /\ process.state = "starting" /\ process.pipe = None
  OBVIOUS
<1> HIDE DEF process
<1>5. /\ {"head", "fds"} \subseteq DOMAIN crt'[made]
      /\ crt'[made].state = "starting" /\ crt'[made].pipe = None
      /\ \A k \in Sessions : k # made => crt'[k] = crt[k]
  BY <1>2, <1>3, <1>4
<1>6. crt[made].pipe = None /\ shown[made] = <<>>
  BY <1>2 DEF DInv, WindowFields
<1>7. \A k \in Sessions : crt'[k].pipe = crt[k].pipe
  BY <1>5, <1>6
<1>8. WindowFields'
  BY <1>1, <1>5, <1>6 DEF DInv, WindowFields, Attached
<1>9. PipeTypes' /\ BodyOpen' /\ Unread' /\ CutOff'
  BY <1>1, <1>7 DEF DInv, PipeTypes, BodyOpen, Unread, CutOff, EmulatorWrites
<1>10. Unopened'
  BY <1>1 DEF DInv, Unopened, Making, Waiting
<1>11. NothingSent'
  BY <1>1, <1>5, SessionNumbers DEF DInv, NothingSent
<1>12. Reading'
  <2> SUFFICES ASSUME NEW k \in Sessions, (crt[k].pipe # None /\ ~ SharedPipe(crt[k].pipe))'
               PROVE  Follows(k)'
    BY DEF Reading
  <2>1. k # made
    BY <1>5
  <2>2. crt[k].pipe \in Sessions /\ crt[k].pipe # None /\ ~ SharedPipe(crt[k].pipe)
    BY <1>7, PipeOfReader DEF SharedPipe
  <2>3. Follows(k)
    BY <2>2 DEF DInv, Reading
  <2>4. /\ Writing(crt[k].pipe)' <=> Writing(crt[k].pipe)
        /\ Shut(crt[k].pipe) => Shut(crt[k].pipe)'
    BY <1>1, <1>7 DEF Writing, Shut
  <2> QED BY <1>1, <1>5, <2>1, <2>3, <2>4, FollowsUnread
<1> QED BY <1>8, <1>9, <1>10, <1>11, <1>12 DEF DInv

(* open for writing: nothing has been sent on the pipe yet. *)
LEMMA OpenWriteKeeps ==
  ASSUME IInv, DInv, OpenWrite
  PROVE  DInv'
<1>1. /\ pc = "open" /\ name[target] = made /\ made \in Sessions /\ target \in Names
      /\ handle' = [handle EXCEPT ![target] = made]
      /\ UNCHANGED <<target, unsent, made, data, sent, shown, cut>>
      /\ pc' \in {"opening", "board", "ready"}
  BY DEF OpenWrite, Opened, Waiting, Making, IInv, LastPipe, Numbered, dirVars
<1>2. \A k \in Sessions : \/ crt'[k] = crt[k]
                          \/ /\ crt[k].state = "opening"
                             /\ crt'[k] = [crt[k] EXCEPT !.state = "header"]
  BY DEF OpenWrite
<1>3. ASSUME NEW k \in Sessions
      PROVE  /\ {"head", "fds"} \subseteq DOMAIN crt'[k]
             /\ crt'[k].pipe = crt[k].pipe
             /\ crt'[k].head = crt[k].head
             /\ crt'[k].state \in {"none", "starting"} => crt[k].state \in {"none", "starting"}
             /\ Attached(k)' <=> Attached(k)
             /\ crt'[k].state = "body" <=> crt[k].state = "body"
  <2>1. /\ {"state", "name", "pipe"} \subseteq DOMAIN crt[k]
        /\ {"head", "fds"} \subseteq DOMAIN crt[k]
    BY DEF IInv, Shape, DInv, WindowFields
  <2>2. CASE crt'[k] = crt[k]
    BY <2>1, <2>2 DEF Attached
  <2>3. CASE crt[k].state = "opening" /\ crt'[k] = [crt[k] EXCEPT !.state = "header"]
    BY <2>1, <2>3 DEF Attached
  <2> QED BY <1>2, <2>2, <2>3
<1>4. sent[made] = 0 /\ handle \in [Names -> 0 .. made] /\ made # None /\ made \in Nat
  BY <1>1, SessionNumbers DEF DInv, Unopened, Making, Waiting, IInv, Numbered
<1>5. \A c \in Names : handle'[c] = IF c = target THEN made ELSE handle[c]
  BY <1>1, <1>4
<1>6. WindowFields'
  BY <1>1, <1>3 DEF DInv, WindowFields
<1>7. PipeTypes' /\ BodyOpen' /\ Unread' /\ NothingSent'
  <2>1. PipeTypes' /\ BodyOpen'
    BY <1>1 DEF DInv, PipeTypes, BodyOpen
  <2>2. Unread' /\ NothingSent'
    <3>1. \A k \in Sessions : /\ crt'[k].pipe = crt[k].pipe
                              /\ crt'[k].state = "body" <=> crt[k].state = "body"
      BY <1>3
    <3> QED BY <1>1, <3>1 DEF DInv, Unread, NothingSent
  <2> QED BY <2>1, <2>2
<1>8. Unopened'
  <2>1. \A p \in Sessions : p > made' \/ (Making' /\ p = made') => sent'[p] = 0
    BY <1>1, <1>4 DEF DInv, Unopened
  <2>2. \A c \in Names : handle'[c] = made' => c = target'
    BY <1>1, <1>5 DEF DInv, Unopened, Making, Waiting
  <2>3. handle'["out"] = handle'["simp"] => handle'["out"] = None
    BY <1>1, <1>5, <2>2 DEF Names
  <2> QED BY <2>1, <2>2, <2>3 DEF Unopened
<1>9. CutOff'
  BY <1>1, <1>4, <1>5 DEF DInv, CutOff, EmulatorWrites
<1>10. Reading'
  <2> SUFFICES ASSUME NEW k \in Sessions, (crt[k].pipe # None /\ ~ SharedPipe(crt[k].pipe))'
               PROVE  Follows(k)'
    BY DEF Reading
  <2> DEFINE p == crt[k].pipe
  <2>1. p \in Sessions /\ p # None /\ ~ SharedPipe(p) /\ crt'[k].pipe = p
    BY <1>3, PipeOfReader DEF SharedPipe
  <2>2. Follows(k)
    BY <2>1 DEF DInv, Reading
  <2>3. ~ Writing(p) /\ ~ Writing(p)'
    BY <1>1 DEF Writing
  <2>4. Shut(p) => Shut(p)' \/ Ahead(k) = <<>>
    <3>1. CASE p = made
      <4>1. data[p] = <<>> /\ crt[k].state # "body"
        BY <1>4, <2>1, <3>1 DEF DInv, NothingSent
      <4> QED BY <4>1 DEF Ahead
    <3>2. CASE p # made
      BY <1>1, <1>5, <2>1, <3>2 DEF Shut
    <3> QED BY <3>1, <3>2
  <2> QED BY <1>1, <1>3, <2>1, <2>2, <2>3, <2>4, FollowsKept
<1> QED BY <1>6, <1>7, <1>8, <1>9, <1>10 DEF DInv
-----------------------------------------------------------------------------
(* Nothing is a stream after the last message.                             *)
LEMMA NothingWhole ==
  \A n \in Nat : Body(n, 0) = <<>> /\ Whole(<<>>, n, n)
<1> TAKE n \in Nat
<1>1. Body(n, 0) \in Seq(Tokens) /\ Len(Body(n, 0)) = 0
  BY BodyMade
<1>2. Body(n, 0) = <<>>
  BY <1>1, EmptySeq
<1> QED BY <1>2 DEF Whole

(* What is before a window is made of tokens.                              *)
LEMMA AheadTyped ==
  ASSUME DInv, NEW k \in Sessions, crt[k].pipe \in Sessions
  PROVE  /\ Ahead(k) \in Seq(Tokens) /\ data[crt[k].pipe] \in Seq(Tokens)
         /\ Len(shown[k]) \in Nat /\ sent[crt[k].pipe] \in Nat
         /\ crt[k].state = "body" => /\ Ahead(k) = <<crt[k].head>> \o data[crt[k].pipe]
                                     /\ crt[k].head \in Tokens
         /\ crt[k].state # "body" => Ahead(k) = data[crt[k].pipe]
<1>1. /\ data[crt[k].pipe] \in Seq(Tokens) /\ shown[k] \in Seq(Nat)
      /\ sent[crt[k].pipe] \in Nat
  BY DEF DInv, PipeTypes
<1>2. Len(shown[k]) \in Nat
  BY <1>1
<1>3. CASE crt[k].state = "body"
  <2>1. crt[k].head \in Tokens
    BY <1>3 DEF DInv, WindowFields, Tokens
  <2>2. Ahead(k) = <<crt[k].head>> \o data[crt[k].pipe]
    BY <1>3 DEF Ahead
  <2>3. <<crt[k].head>> \in Seq(Tokens)
    BY <2>1
  <2> QED BY <1>1, <1>2, <1>3, <2>1, <2>2, <2>3, ConcatProperties
<1>4. CASE crt[k].state # "body"
  <2>1. Ahead(k) = <<>> \o data[crt[k].pipe]
    BY <1>4 DEF Ahead
  <2>2. Ahead(k) = data[crt[k].pipe]
    BY <1>1, <2>1, ConcatEmptySeq
  <2> QED BY <1>1, <1>2, <1>4, <2>2
<1> QED BY <1>3, <1>4

(* What is written to its pipe comes last.                                 *)
LEMMA AheadGrows ==
  ASSUME DInv, NEW k \in Sessions, crt[k].pipe \in Sessions,
         crt'[k] = crt[k], NEW b \in Seq(Tokens),
         data'[crt[k].pipe] = data[crt[k].pipe] \o b
  PROVE  Ahead(k)' = Ahead(k) \o b
<1> DEFINE d == data[crt[k].pipe]
           h == IF crt[k].state = "body" THEN <<crt[k].head>> ELSE <<>>
<1>1. Ahead(k) = h \o d /\ Ahead(k)' = h \o (d \o b)
  BY DEF Ahead
<1>2. d \in Seq(Tokens)
  BY AheadTyped
<1>3. h \in Seq(Tokens)
  <2>1. CASE crt[k].state = "body"
    <3>1. crt[k].head \in Tokens
      BY <2>1, AheadTyped
    <3> QED BY <2>1, <3>1
  <2> QED BY <2>1, EmptySeq
<1> HIDE DEF d, h
<1> QED BY <1>1, <1>2, <1>3, ConcatAssociative

(* open for reading: the pipe is as it was made, if nobody reads it. *)
LEMMA OpenReadKeeps ==
  ASSUME IInv, DInv, NEW k \in Sessions, OpenRead(k)
  PROVE  DInv'
<1>1. /\ crt[k].state = "starting" /\ crt[k].pipe = None /\ shown[k] = <<>>
      /\ UNCHANGED <<target, handle, unsent, made, data, sent, shown, cut>>
  BY DEF OpenRead, dirVars, DInv, WindowFields
<1>2. CASE name[crt[k].name] = None
  <2>1. UNCHANGED pc /\ crt' = [crt EXCEPT ![k].state = "waiting"]
    BY <1>2 DEF OpenRead
  <2> QED BY <1>1, <2>1, WaitStep
<1>3. CASE name[crt[k].name] # None
  <2>1. PICK p \in Sessions : p = name[crt[k].name] /\ p # None
    <3>1. name[crt[k].name] \in 0 .. made /\ made \in 0 .. MaxSessions
      BY DEF IInv, Shape, Numbered
    <3>2. name[crt[k].name] \in Sessions
      BY <1>3, <3>1, SessionNumbers DEF Sessions
    <3> QED BY <1>3, <3>2
  <2>2. PICK next \in {"header", "opening"} :
          crt' = [crt EXCEPT ![k].pipe = p, ![k].state = next]
    BY <2>1 DEF OpenRead
  <2>3. pc' = pc \/ (pc = "opening" /\ pc' \in {"board", "ready"})
    BY <2>1 DEF OpenRead, Opened
  <2>4. p \in Sessions /\ sent[p] \in Nat
    BY DEF DInv, PipeTypes
  <2>5. /\ {"state", "name", "pipe"} \subseteq DOMAIN crt[k]
        /\ {"head", "fds"} \subseteq DOMAIN crt[k]
    BY DEF IInv, Shape, DInv, WindowFields
  <2>6. /\ \A j \in Sessions : j # k => crt'[j] = crt[j]
        /\ {"head", "fds"} \subseteq DOMAIN crt'[k]
        /\ crt'[k].state = next /\ crt'[k].pipe = p
    BY <2>2, <2>5 DEF IInv, Shape
  <2>7. WindowFields'
    BY <1>1, <2>1, <2>6 DEF DInv, WindowFields, Attached
  <2>8. PipeTypes' /\ BodyOpen' /\ CutOff'
    BY <1>1, <2>3 DEF DInv, PipeTypes, BodyOpen, CutOff, EmulatorWrites
  <2>9. Unread' /\ NothingSent'
    BY <1>1, <2>6, SessionNumbers DEF DInv, Unread, NothingSent
  <2>10. Unopened'
    BY <1>1, <2>3 DEF DInv, Unopened, Making, Waiting
  <2>11. Reading'
    <3> SUFFICES ASSUME NEW j \in Sessions, (crt[j].pipe # None /\ ~ SharedPipe(crt[j].pipe))'
                 PROVE  Follows(j)'
      BY DEF Reading
    <3>1. CASE j # k
      <4>1. crt'[j].pipe = crt[j].pipe /\ crt[j].pipe # None
        BY <2>6, <3>1
      <4>2. ~ SharedPipe(crt[j].pipe)
        <5>1. \A i \in Sessions : crt[i].pipe # None => crt'[i].pipe = crt[i].pipe
          BY <1>1, <2>6
        <5>2. crt[j].pipe # None /\ ~ SharedPipe(crt[j].pipe)'
          BY <4>1
        <5> QED BY <5>1, <5>2 DEF SharedPipe
      <4>3. Follows(j)
        BY <4>1, <4>2 DEF DInv, Reading
      <4>4. /\ Writing(crt[j].pipe)' <=> Writing(crt[j].pipe)
            /\ Shut(crt[j].pipe) => Shut(crt[j].pipe)'
        BY <1>1, <2>3, <4>1 DEF Writing, Shut
      <4> QED BY <1>1, <2>6, <3>1, <4>3, <4>4, FollowsUnread
    <3>2. CASE j = k
      <4>1. \A i \in Sessions : crt[i].pipe # p
        BY <1>1, <2>1, <2>6, <3>2 DEF SharedPipe
      <4>2. sent[p] = 0 /\ data[p] = <<>> /\ p \notin cut
        BY <2>4, <4>1 DEF DInv, Unread, NothingSent, CutOff
      <4>3. ~ Writing(p)'
        BY <1>1, <2>3, <4>2 DEF Writing, DInv, BodyOpen
      <4>4. Ahead(k)' = <<>>
        <5>1. Ahead(k)' = <<>> \o <<>>
          BY <1>1, <2>6, <4>2 DEF Ahead
        <5> QED BY <5>1, EmptySeq, ConcatEmptySeq
      <4>5. Len(shown[k]) = 0 /\ Prefix(0) = <<>>
        BY <1>1 DEF Prefix
      <4>6. Owed(p, 0)' /\ 0 \in 0 .. BufSize - 1
        <5>1. ~ (p \in cut')
          BY <1>1, <4>2
        <5> QED BY <4>3, <5>1, Sizes DEF Owed
      <4>7. Whole(Ahead(k)' \o Body(0, 0), 0, 0)
        <5>1. Ahead(k)' \o Body(0, 0) = <<>>
          BY <4>4, NothingWhole, EmptySeq, ConcatEmptySeq
        <5> QED BY <5>1, NothingWhole
      <4>8. ~ \E i \in 1 .. Len(Ahead(k)') : IsHeader(Ahead(k)'[i]) /\ Ahead(k)'[i][2] = "EXIT"
        BY <4>4
      <4>9. InStep(k)'
        BY <1>1, <2>6, <4>2, <4>5, <4>6, <4>7, <4>8 DEF InStep
      <4> QED BY <1>1, <3>2, <4>5, <4>9 DEF Follows
    <3> QED BY <3>1, <3>2
  <2> QED BY <2>7, <2>8, <2>9, <2>10, <2>11 DEF DInv
<1> QED BY <1>2, <1>3
-----------------------------------------------------------------------------
(* Writing.                                                                *)

(* A token that is appended is the last one.                               *)
LEMMA LastAppended ==
  ASSUME NEW q \in Seq(Tokens), NEW h \in Tokens
  PROVE  /\ Append(q, h) = q \o <<h>> /\ <<h>> \in Seq(Tokens)
         /\ Append(q, h) # <<>> /\ Append(q, h)[Len(Append(q, h))] = h
         /\ \A j \in 1 .. Len(Append(q, h)) : Append(q, h)[j] = h \/ (j \in 1 .. Len(q) /\ Append(q, h)[j] = q[j])
<1> DEFINE r == Append(q, h)
<1>1. /\ r # <<>> /\ Len(r) = Len(q) + 1
      /\ \A i \in 1 .. Len(q) : r[i] = q[i]
      /\ r[Len(q) + 1] = h
  BY AppendProperties
<1>2. r = q \o <<h>> /\ <<h>> \in Seq(Tokens)
  BY AppendIsConcat
<1> HIDE DEF r
<1>3. Len(q) \in Nat
  OBVIOUS
<1>4. \A j \in 1 .. Len(r) : j = Len(q) + 1 \/ j \in 1 .. Len(q)
  BY <1>1, <1>3
<1>5. \A j \in 1 .. Len(r) : r[j] = h \/ (j \in 1 .. Len(q) /\ r[j] = q[j])
  BY <1>1, <1>4
<1> QED BY <1>1, <1>2, <1>5 DEF r

(* The header of a message is written: the stream of its pipe goes on.     *)
LEMMA HeaderKeeps ==
  ASSUME IInv, DInv, NEW c \in Names, NEW action \in {"SHOW", "EXIT"},
         NEW len \in 0 .. BufSize - 1, action = "EXIT" => len = 0,
         WriteHeader(c, action, len), pc \in {"ready", "board", "quit"},
         UNCHANGED <<handle, crt, shown, cut, made>>,
         pc' = "body" <=> len > 0,
         len > 0 => unsent' = [name |-> c, len |-> len],
         pc' \in {"body", "ready", "closing", "quitting"},
         action = "EXIT" => pc' \in {"closing", "quitting"} /\ target' = c
  PROVE  DInv'
<1>1. PICK w \in Sessions : w = handle[c] /\ w # None /\ Readers(w) # {}
  <2>1. PICK k \in Sessions : Attached(k) /\ crt[k].pipe = handle[c]
    BY DEF WriteHeader, Readers
  <2>2. handle[c] # None
    BY <2>1 DEF DInv, WindowFields
  <2> QED BY <2>1, <2>2, PipeOfHandle DEF WriteHeader
<1> DEFINE h == <<sent[w] + 1, action, len>>
<1>2. /\ sent \in [Sessions -> Nat] /\ data \in [Sessions -> Seq(Tokens)]
  BY DEF DInv, PipeTypes
<1>3. h \in Tokens /\ IsHeader(h) /\ h[1] = sent[w] + 1 /\ h[2] = action /\ h[3] = len
  BY <1>2, HeaderMade
<1>4. /\ sent' = [sent EXCEPT ![w] = @ + 1]
      /\ data' = [data EXCEPT ![w] = Append(@, h)]
  BY <1>1 DEF WriteHeader
<1>5. /\ EmulatorWrites(w) /\ w \notin cut
      /\ \A d \in Names : handle[d] = w => d = c
  BY <1>1 DEF EmulatorWrites, DInv, CutOff, Unopened, Names
<1> HIDE DEF h
<1>6. /\ sent'[w] = sent[w] + 1 /\ data'[w] = Append(data[w], h)
      /\ \A p \in Sessions : p # w => sent'[p] = sent[p] /\ data'[p] = data[p]
  BY <1>2, <1>4
<1>7. PipeTypes'
  <2>1. Append(data[w], h) \in Seq(Tokens) /\ sent[w] + 1 \in Nat
    BY <1>2, <1>3, AppendProperties
  <2>2. sent' \in [Sessions -> Nat] /\ data' \in [Sessions -> Seq(Tokens)]
    BY <1>2, <1>4, <2>1
  <2> QED BY <2>2 DEF DInv, PipeTypes
<1>8. WindowFields'
  BY DEF DInv, WindowFields, Attached
<1>9. sent[w] + 1 > 0 /\ sent[w] + 1 # 0
  BY <1>2
<1>10. BodyOpen'
  <2> SUFFICES ASSUME pc' = "body" PROVE BodyOpen'
    BY DEF BodyOpen
  <2>1. unsent'.name = c /\ unsent'.len = len /\ len > 0
    OBVIOUS
  <2>2. len \in 1 .. BufSize - 1
    BY <2>1, Sizes
  <2> QED BY <1>1, <1>6, <1>9, <2>1, <2>2 DEF BodyOpen
<1>11. Unread'
  BY <1>1, <1>6 DEF DInv, Unread, Readers
<1>12. NothingSent'
  BY <1>6, <1>9 DEF DInv, NothingSent
<1>13. Unopened'
  <2>1. w <= made
    BY <1>1 DEF IInv, Numbered
  <2>2. made \in Nat
    BY DEF IInv, Numbered
  <2>3. \A p \in Sessions : p > made => sent'[p] = 0
    BY <1>6, <2>1, <2>2, SessionNumbers DEF DInv, Unopened
  <2> QED BY <2>3 DEF DInv, Unopened, Making, Waiting
<1>14. CutOff'
  BY <1>5, <1>6 DEF DInv, CutOff, EmulatorWrites, PipeTypes
<1>15. Reading'
  <2> SUFFICES ASSUME NEW k \in Sessions, (crt[k].pipe # None /\ ~ SharedPipe(crt[k].pipe))'
               PROVE  Follows(k)'
    BY DEF Reading
  <2>1. crt[k].pipe \in Sessions /\ crt[k].pipe # None /\ ~ SharedPipe(crt[k].pipe)
    BY PipeOfReader DEF SharedPipe
  <2>2. Follows(k)
    BY <2>1 DEF DInv, Reading
  <2>3. CASE crt[k].pipe # w
    <3>1. ~ Writing(crt[k].pipe) /\ ~ Writing(crt[k].pipe)'
      BY <1>1, <2>3 DEF Writing
    <3>2. Shut(crt[k].pipe) => Shut(crt[k].pipe)'
      BY DEF Shut
    <3> QED BY <1>6, <2>1, <2>2, <2>3, <3>1, <3>2, FollowsUnread
  <2>4. CASE crt[k].pipe = w
    <3> DEFINE q == Ahead(k)
               m == Len(shown[k])
    <3>1. shown[k] = Prefix(m) /\ (Attached(k) => InStep(k))
      BY <1>5, <2>2, <2>4 DEF Follows, Garbles
    <3>2. ASSUME Attached(k) PROVE InStep(k)'
      <4>1. q \in Seq(Tokens) /\ m \in Nat /\ sent[w] \in Nat
        BY <2>4, AheadTyped
      <4>2. PICK old \in 0 .. BufSize - 1 :
              /\ Owed(w, old)
              /\ Whole(q \o Body(sent[w], old), m, sent[w])
              /\ (\E j \in 1 .. Len(q) : IsHeader(q[j]) /\ q[j][2] = "EXIT") => Shut(w)
        BY <2>4, <3>1, <3>2 DEF InStep
      <4>3. old = 0
        <5>1. ~ Writing(w)
          BY DEF Writing
        <5>2. ~ (old > 0)
          BY <1>5, <4>2, <5>1 DEF Owed
        <5> QED BY <5>2, Sizes
      <4>4. ~ Shut(w)
        BY <1>1 DEF Shut
      <4>5. q' = Append(q, h)
        <5>1. data'[w] = data[w] \o <<h>> /\ <<h>> \in Seq(Tokens)
          BY <1>2, <1>3, <1>6, LastAppended
        <5>2. q' = q \o <<h>>
          BY <2>4, <5>1, AheadGrows
        <5> QED BY <1>3, <4>1, <5>2, LastAppended
      <4> HIDE DEF q, m
      <4>6. Whole(Append(q, h) \o Body(sent[w] + 1, len), m, sent[w] + 1)
        <5>1. Whole(q \o Body(sent[w], 0), m, sent[w])
          BY <4>2, <4>3
        <5>2. \A j \in 1 .. Len(q) : IsHeader(q[j]) => q[j][2] # "EXIT"
          BY <4>2, <4>4
        <5>3. Whole(Append(q, <<sent[w] + 1, action, len>>) \o Body(sent[w] + 1, len), m, sent[w] + 1)
          BY <4>1, <5>1, <5>2, WholeGrows
        <5> QED BY <5>3 DEF h
      <4>7. Owed(w, len)'
        <5>1. CASE len > 0
          <6>1. Writing(w)' /\ len = unsent'.len
            BY <1>1, <5>1 DEF Writing
          <6> QED BY <6>1 DEF Owed
        <5>2. CASE ~ (len > 0)
          <6>1. ~ Writing(w)' /\ ~ (w \in cut')
            BY <1>5, <5>2 DEF Writing
          <6> QED BY <5>2, <6>1 DEF Owed
        <5> QED BY <5>1, <5>2
      <4>8. q' # <<>> /\ IsHeader(q'[Len(q')])
        BY <1>3, <4>1, <4>5, LastAppended
      <4>9. (\E j \in 1 .. Len(q') : IsHeader(q'[j]) /\ q'[j][2] = "EXIT") => Shut(w)'
        <5> SUFFICES ASSUME NEW j \in 1 .. Len(q'), IsHeader(q'[j]), q'[j][2] = "EXIT"
                     PROVE  Shut(w)'
          OBVIOUS
        <5>1. q'[j] = h \/ (j \in 1 .. Len(q) /\ q'[j] = q[j])
          BY <1>3, <4>1, <4>5, LastAppended
        <5>2. q'[j] = h
          BY <4>2, <4>4, <5>1
        <5>3. action = "EXIT"
          BY <1>3, <5>2
        <5> QED BY <1>5, <5>3 DEF Shut
      <4>10. /\ m' = m /\ crt'[k].pipe = w /\ sent'[w] = sent[w] + 1
        BY <1>6, <2>4 DEF m
      <4> QED BY <4>5, <4>6, <4>7, <4>8, <4>9, <4>10 DEF InStep, q, m
    <3>3. Attached(k)' <=> Attached(k)
      BY DEF Attached
    <3> QED BY <3>1, <3>2, <3>3 DEF Follows
  <2> QED BY <2>3, <2>4
<1> QED BY <1>7, <1>8, <1>10, <1>11, <1>12, <1>13, <1>14, <1>15 DEF DInv

(* What is sent fits into the buffer of the window with a terminator.      *)
LEMMA ClampedFits ==
  ASSUME NEW len \in Nat
  PROVE  Clamped(len) \in 0 .. BufSize - 1
BY Sizes DEF Clamped

(* Everything that is sent begins with such a header.                      *)
LEMMA HeaderSteps ==
  ASSUME IInv, DInv,
         \/ InitBoard
         \/ \E c \in Names, len \in Lengths : Send(c, len)
         \/ \E c \in Names : SendExit(c)
  PROVE  DInv'
<1>1. 0 \in 0 .. BufSize - 1
  BY Sizes
<1>2. CASE InitBoard
  <2>1. /\ WriteHeader("simp", "SHOW", 0) /\ pc = "board" /\ pc' = "ready"
        /\ UNCHANGED <<handle, crt, shown, cut, made>>
    BY <1>2 DEF InitBoard, dirVars
  <2> QED BY <1>1, <2>1, HeaderKeeps DEF Names
<1>3. ASSUME NEW c \in Names, NEW len \in Lengths, Send(c, len) PROVE DInv'
  <2>1. Clamped(len) \in 0 .. BufSize - 1
    BY ClampedFits, WindowAssumption
  <2>2. /\ WriteHeader(c, "SHOW", Clamped(len)) /\ pc = "ready"
        /\ unsent' = [name |-> c, len |-> Clamped(len)]
        /\ pc' = IF Clamped(len) > 0 THEN "body" ELSE "ready"
        /\ UNCHANGED <<handle, crt, shown, cut, made>>
    BY <1>3 DEF Send, dirVars
  <2> QED BY <2>1, <2>2, HeaderKeeps
<1>4. ASSUME NEW c \in Names, SendExit(c) PROVE DInv'
  <2>1. /\ WriteHeader(c, "EXIT", 0) /\ pc \in {"ready", "quit"}
        /\ pc' \in {"closing", "quitting"} /\ target' = c
        /\ UNCHANGED <<handle, crt, shown, cut, made>>
    BY <1>4 DEF SendExit, dirVars
  <2> QED BY <1>1, <2>1, HeaderKeeps
<1> QED BY <1>2, <1>3, <1>4

(* The body is written: the stream of its pipe stays what it was. *)
LEMMA SendBodyKeeps ==
  ASSUME IInv, DInv, SendBody
  PROVE  DInv'
<1>1. PICK w \in Sessions : /\ w = handle[unsent.name] /\ sent[w] > 0
                            /\ unsent.len \in 1 .. BufSize - 1 /\ unsent.name \in Names
  BY DEF SendBody, DInv, BodyOpen
<1> DEFINE b == Body(sent[w], unsent.len)
<1>2. /\ pc = "body" /\ pc' = "ready" /\ Readers(w) # {}
      /\ data' = [data EXCEPT ![w] = @ \o b]
      /\ UNCHANGED <<target, handle, made, sent, crt, shown, cut>>
  BY <1>1 DEF SendBody, dirVars, Body
<1>3. /\ sent \in [Sessions -> Nat] /\ data \in [Sessions -> Seq(Tokens)]
  BY DEF DInv, PipeTypes
<1>4. /\ sent[w] \in Nat /\ unsent.len \in Nat /\ unsent.len > 0
      /\ unsent.len \in 0 .. BufSize - 1
  BY <1>1, <1>3, Sizes
<1>5. b \in Seq(Tokens) /\ Len(b) = unsent.len /\ \A i \in 1 .. unsent.len : b[i] = <<sent[w]>>
  BY <1>4, BodyMade
<1>6. EmulatorWrites(w) /\ w \notin cut
  BY <1>1 DEF EmulatorWrites, DInv, CutOff
<1> HIDE DEF b
<1>7. /\ data'[w] = data[w] \o b
      /\ \A p \in Sessions : p # w => data'[p] = data[p]
  BY <1>2, <1>3
<1>8. PipeTypes'
  <2>1. data[w] \o b \in Seq(Tokens)
    BY <1>3, <1>5, ConcatProperties
  <2>2. data' \in [Sessions -> Seq(Tokens)]
    BY <1>2, <1>3, <2>1
  <2> QED BY <1>2, <2>2 DEF DInv, PipeTypes
<1>9. WindowFields' /\ BodyOpen' /\ Unread' /\ CutOff'
  BY <1>2 DEF DInv, WindowFields, Attached, BodyOpen, Unread, CutOff, EmulatorWrites
<1>10. NothingSent'
  BY <1>1, <1>2, <1>3, <1>7 DEF DInv, NothingSent
<1>11. Unopened'
  BY <1>2 DEF DInv, Unopened, Making, Waiting
<1>12. Reading'
  <2> SUFFICES ASSUME NEW k \in Sessions, (crt[k].pipe # None /\ ~ SharedPipe(crt[k].pipe))'
               PROVE  Follows(k)'
    BY DEF Reading
  <2>1. crt[k].pipe \in Sessions /\ crt[k].pipe # None /\ ~ SharedPipe(crt[k].pipe)
    BY <1>2, PipeOfReader DEF SharedPipe
  <2>2. Follows(k)
    BY <2>1 DEF DInv, Reading
  <2>3. CASE crt[k].pipe # w
    <3>1. ~ Writing(crt[k].pipe) /\ ~ Writing(crt[k].pipe)'
      BY <1>1, <1>2, <2>3 DEF Writing
    <3>2. Shut(crt[k].pipe) => Shut(crt[k].pipe)'
      BY <1>2 DEF Shut
    <3> QED BY <1>2, <1>7, <2>1, <2>2, <2>3, <3>1, <3>2, FollowsUnread
  <2>4. CASE crt[k].pipe = w
    <3> DEFINE q == Ahead(k)
               m == Len(shown[k])
    <3>1. shown[k] = Prefix(m) /\ (Attached(k) => InStep(k))
      BY <1>6, <2>2, <2>4 DEF Follows, Garbles
    <3>2. ASSUME Attached(k) PROVE InStep(k)'
      <4>1. q \in Seq(Tokens) /\ m \in Nat /\ Len(q) \in Nat
        <5>1. q \in Seq(Tokens) /\ m \in Nat
          BY <2>4, AheadTyped
        <5> HIDE DEF q
        <5> QED BY <5>1
      <4>2. PICK len \in 0 .. BufSize - 1 :
              /\ Owed(w, len)
              /\ Whole(q \o Body(sent[w], len), m, sent[w])
              /\ (\E j \in 1 .. Len(q) : IsHeader(q[j]) /\ q[j][2] = "EXIT") => Shut(w)
        BY <2>4, <3>1, <3>2 DEF InStep
      <4>3. len = unsent.len
        BY <1>1, <1>2, <4>2 DEF Owed, Writing
      <4>4. ~ Shut(w)
        BY <1>1, <1>2 DEF Shut
      <4>5. q' = q \o b
        BY <1>2, <1>5, <1>7, <2>4, AheadGrows
      <4> HIDE DEF q, m
      <4>6. Whole(q' \o Body(sent[w], 0), m, sent[w])
        <5>1. Whole(q', m, sent[w])
          BY <4>2, <4>3, <4>5 DEF b
        <5>2. q' \in Seq(Tokens)
          BY <1>5, <4>1, <4>5, ConcatProperties
        <5>3. q' \o Body(sent[w], 0) = q'
          BY <1>4, <5>2, NothingWhole, ConcatEmptySeq
        <5> QED BY <5>1, <5>3
      <4>7. Owed(w, 0)' /\ 0 \in 0 .. BufSize - 1
        <5>1. ~ Writing(w)' /\ ~ (w \in cut') /\ ~ (0 > 0)
          BY <1>2, <1>6 DEF Writing
        <5>2. Owed(w, 0)'
          BY <5>1 DEF Owed
        <5> QED BY <5>2, Sizes
      <4>8. ~ \E j \in 1 .. Len(q') : IsHeader(q'[j]) /\ q'[j][2] = "EXIT"
        <5> SUFFICES ASSUME NEW j \in 1 .. Len(q'), IsHeader(q'[j]), q'[j][2] = "EXIT"
                     PROVE  FALSE
          OBVIOUS
        <5>1. CASE j <= Len(q)
          <6>1. j \in 1 .. Len(q)
            BY <4>1, <5>1
          <6>2. q'[j] = q[j]
            BY <1>4, <4>1, <4>5, <6>1, WithBody DEF b
          <6> QED BY <4>2, <4>4, <6>1, <6>2
        <5>2. CASE ~ (j <= Len(q))
          <6>1. Len(q') = Len(q) + unsent.len
            BY <1>4, <4>1, <4>5, WithBody DEF b
          <6>2. j - Len(q) \in 1 .. unsent.len /\ Len(q) + (j - Len(q)) = j
            BY <1>4, <4>1, <5>2, <6>1
          <6>3. q'[j] = <<sent[w]>>
            <7>1. \A i \in 1 .. unsent.len : (q \o Body(sent[w], unsent.len))[Len(q) + i] = <<sent[w]>>
              BY <1>4, <4>1, WithBody
            <7> QED BY <4>5, <6>2, <7>1 DEF b
          <6> QED BY <1>4, <6>3, ByteMade
        <5> QED BY <5>1, <5>2
      <4>9. /\ m' = m /\ crt'[k].pipe = w /\ sent'[w] = sent[w]
        BY <1>2, <2>4 DEF m
      <4>10. ~ (0 > 0)
        OBVIOUS
      <4> QED BY <4>6, <4>7, <4>8, <4>9, <4>10 DEF InStep, q, m
    <3>3. (Attached(k)' <=> Attached(k)) /\ shown' = shown
      BY <1>2 DEF Attached
    <3> QED BY <3>1, <3>2, <3>3 DEF Follows
  <2> QED BY <2>3, <2>4
<1> QED BY <1>8, <1>9, <1>10, <1>11, <1>12 DEF DInv
-----------------------------------------------------------------------------
(* Reading.                                                                *)

(* The history of a window after one more message.                         *)
LEMMA PrefixGrows ==
  ASSUME NEW m \in Nat, NEW s, s = Prefix(m)
  PROVE  /\ Append(s, m + 1) = Prefix(m + 1)
         /\ Append(s, Garbled) = [Prefix(m + 1) EXCEPT ![m + 1] = Garbled]
         /\ \A n \in Nat : Len(Append(s, n)) = m + 1
<1>1. s \in Seq(Nat) /\ Len(s) = m
  BY DEF Prefix
<1> QED BY <1>1 DEF Prefix, Garbled

(* A window that has opened a pipe has one.                                *)
LEMMA AttachedPipe ==
  ASSUME IInv, DInv, NEW k \in Sessions, Attached(k)
  PROVE  crt[k].pipe \in Sessions
BY PipeOfReader DEF DInv, WindowFields

(* What acting on a message does to the window and to its history. *)
LEMMA Acted ==
  ASSUME IInv, DInv, NEW k \in Sessions, NEW message \in Nat, NEW action,
         Act(k, message, action)
  PROVE  \E process :
           /\ crt' = [crt EXCEPT ![k] = process]
           /\ {"head", "fds"} \subseteq DOMAIN process /\ process.pipe = crt[k].pipe
           /\ process.state = IF action = "EXIT" THEN "ended" ELSE "header"
           /\ crt'[k] = process
           /\ shown'[k] = Append(shown[k], message)
           /\ shown' \in [Sessions -> Seq(Nat)]
           /\ \A j \in Sessions : j # k => shown'[j] = shown[j]
<1> DEFINE process == IF action = "EXIT" THEN Gone(crt[k])
                      ELSE [crt[k] EXCEPT !.state = "header", !.head = NoHeader]
<1>1. crt' = [crt EXCEPT ![k] = process]
  BY DEF Act
<1>2. /\ {"state", "name", "pipe"} \subseteq DOMAIN crt[k]
      /\ {"head", "fds"} \subseteq DOMAIN crt[k] /\ DOMAIN crt = Sessions
  BY DEF IInv, Shape, DInv, WindowFields
<1>3. /\ {"head", "fds"} \subseteq DOMAIN process /\ process.pipe = crt[k].pipe
      /\ process.state = IF action = "EXIT" THEN "ended" ELSE "header"
  BY <1>2 DEF Gone
<1> HIDE DEF process
<1>4. crt'[k] = process
  BY <1>1, <1>2
<1>5. shown \in [Sessions -> Seq(Nat)] /\ shown' = [shown EXCEPT ![k] = Append(@, message)]
  BY DEF Act, DInv, PipeTypes
<1>6. Append(shown[k], message) \in Seq(Nat)
  BY <1>5, AppendProperties
<1>7. /\ shown'[k] = Append(shown[k], message)
      /\ shown' \in [Sessions -> Seq(Nat)]
      /\ \A j \in Sessions : j # k => shown'[j] = shown[j]
  BY <1>5, <1>6
<1> QED BY <1>1, <1>3, <1>4, <1>7

(* A window takes something out of its pipe. *)
LEMMA TakesKeep ==
  ASSUME IInv, DInv, NEW k \in Sessions, Attached(k), NEW rest \in Seq(Tokens),
         data' = [data EXCEPT ![crt[k].pipe] = rest], sent[crt[k].pipe] # 0,
         NEW process, crt' = [crt EXCEPT ![k] = process],
         {"head", "fds"} \subseteq DOMAIN process, process.pipe = crt[k].pipe,
         process.state \in {"header", "body", "ended"},
         process.state = "body" => process.head \in Headers /\ process.head[3] > 0,
         shown' \in [Sessions -> Seq(Nat)],
         \A j \in Sessions : j # k => shown'[j] = shown[j],
         UNCHANGED <<pc, target, handle, unsent, made, sent, cut>>,
         ~ SharedPipe(crt[k].pipe) => Follows(k)'
  PROVE  DInv'
<1>1. crt[k].pipe \in Sessions /\ crt[k].pipe # None
  BY AttachedPipe, SessionNumbers
<1>2. PICK p \in Sessions : p = crt[k].pipe /\ p # None
  BY <1>1
<1>3. /\ crt'[k] = process /\ \A j \in Sessions : j # k => crt'[j] = crt[j]
      /\ data' \in [Sessions -> Seq(Tokens)]
      /\ \A q \in Sessions : q # p => data'[q] = data[q]
  BY <1>2 DEF IInv, Shape, DInv, PipeTypes
<1>4. \A j \in Sessions : crt'[j].pipe = crt[j].pipe
  BY <1>3
<1>5. PipeTypes'
  BY <1>3 DEF DInv, PipeTypes
<1>6. WindowFields'
  <2> SUFFICES ASSUME NEW j \in Sessions
               PROVE  /\ {"head", "fds"} \subseteq DOMAIN crt'[j]
                      /\ crt'[j].state \in {"none", "starting"} => crt'[j].pipe = None
                      /\ crt'[j].pipe = None => shown'[j] = <<>>
                      /\ Attached(j)' => crt'[j].pipe # None
                      /\ crt'[j].state = "body" => crt'[j].head \in Headers /\ crt'[j].head[3] > 0
    BY DEF WindowFields
  <2>1. CASE j = k
    BY <1>2, <1>3, <2>1
  <2>2. CASE j # k
    BY <1>3, <2>2 DEF DInv, WindowFields, Attached
  <2> QED BY <2>1, <2>2
<1>7. BodyOpen' /\ Unread' /\ CutOff'
  <2>1. BodyOpen' /\ CutOff'
    BY DEF DInv, BodyOpen, CutOff, EmulatorWrites
  <2>2. Unread'
    <3>1. sent' = sent /\ Unread
      BY DEF DInv
    <3> QED BY <1>4, <3>1 DEF Unread
  <2> QED BY <2>1, <2>2
<1>8. Unopened'
  BY DEF DInv, Unopened, Making, Waiting
<1>9. NothingSent'
  <2> SUFFICES ASSUME NEW q \in Sessions, sent[q] = 0
               PROVE  /\ data'[q] = <<>>
                      /\ \A j \in Sessions : crt'[j].pipe = q => crt'[j].state # "body"
    BY DEF NothingSent
  <2>1. q # p
    BY <1>2
  <2> QED BY <1>2, <1>3, <2>1 DEF DInv, NothingSent
<1>10. Reading'
  <2> SUFFICES ASSUME NEW j \in Sessions, (crt[j].pipe # None /\ ~ SharedPipe(crt[j].pipe))'
               PROVE  Follows(j)'
    BY DEF Reading
  <2>1. crt[j].pipe \in Sessions /\ crt[j].pipe # None /\ ~ SharedPipe(crt[j].pipe)
    BY <1>4, PipeOfReader DEF SharedPipe
  <2>2. CASE j = k
    BY <2>1, <2>2
  <2>3. CASE j # k
    <3>1. crt[j].pipe # p
      BY <1>2, <2>1, <2>3 DEF SharedPipe
    <3>2. Follows(j)
      BY <2>1 DEF DInv, Reading
    <3>3. /\ Writing(crt[j].pipe)' <=> Writing(crt[j].pipe)
          /\ Shut(crt[j].pipe) => Shut(crt[j].pipe)'
      BY <1>4 DEF Writing, Shut
    <3> QED BY <1>3, <2>1, <2>3, <3>1, <3>2, <3>3, FollowsUnread
  <2> QED BY <2>2, <2>3
<1> QED BY <1>5, <1>6, <1>7, <1>8, <1>9, <1>10 DEF DInv

(* What the only reader of a pipe has before it, and what it is owed. *)
LEMMA StreamOf ==
  ASSUME IInv, DInv, NEW k \in Sessions, Attached(k), ~ SharedPipe(crt[k].pipe),
         Ahead(k) # <<>>
  PROVE  /\ shown[k] = Prefix(Len(shown[k]))
         /\ \E len \in 0 .. BufSize - 1 :
              /\ Owed(crt[k].pipe, len)
              /\ Whole(Ahead(k) \o Body(sent[crt[k].pipe], len), Len(shown[k]), sent[crt[k].pipe])
              /\ len > 0 => IsHeader(Ahead(k)[Len(Ahead(k))])
              /\ (\E j \in 1 .. Len(Ahead(k)) : IsHeader(Ahead(k)[j]) /\ Ahead(k)[j][2] = "EXIT")
                   => Shut(crt[k].pipe)
<1>1. crt[k].pipe \in Sessions /\ crt[k].pipe # None
  BY AttachedPipe, SessionNumbers
<1>2. Follows(k)
  BY <1>1 DEF DInv, Reading
<1>3. ~ Garbles(k)
  <2> SUFFICES ASSUME Garbles(k) PROVE FALSE
    OBVIOUS
  <2>1. crt[k].state # "body" /\ data[crt[k].pipe] = <<>>
    BY DEF Garbles
  <2> QED BY <1>1, <2>1, AheadTyped
<1>4. InStep(k) /\ shown[k] = Prefix(Len(shown[k]))
  BY <1>2, <1>3 DEF Follows
<1> QED BY <1>4 DEF InStep

(* What is left of q after its first message. *)
IsRest(r, q) ==
  /\ r \in Seq(Tokens) /\ q[1][3] + 1 <= Len(q)
  /\ Len(r) = Len(q) - (q[1][3] + 1)
  /\ \A i \in 1 .. Len(r) : r[i] = q[(q[1][3] + 1) + i]

(* It continues the stream.                                                *)
LEMMA RestFollows ==
  ASSUME NEW q \in Seq(Tokens), NEW m \in Nat, NEW n \in Nat, NEW len \in Nat, q # <<>>,
         Whole(q \o Body(n, len), m, n), len > 0 => IsHeader(q[Len(q)]),
         NEW r, IsRest(r, q)
  PROVE  /\ q[1][1] = m + 1
         /\ Whole(r \o Body(n, len), m + 1, n)
         /\ len > 0 => r # <<>> /\ IsHeader(r[Len(r)])
         /\ \A j \in 1 .. Len(r) : \E i \in 1 .. Len(q) : r[j] = q[i]
<1>1. q[1][1] = m + 1
  BY FirstMessage
<1>2. /\ r \in Seq(Tokens) /\ q[1][3] + 1 <= Len(q)
      /\ Len(r) = Len(q) - (q[1][3] + 1)
      /\ \A i \in 1 .. Len(r) : r[i] = q[(q[1][3] + 1) + i]
  BY DEF IsRest
<1>3. /\ Whole(r \o Body(n, len), m + 1, n)
      /\ len > 0 => r # <<>> /\ IsHeader(r[Len(r)])
      /\ \A j \in 1 .. Len(r) : \E i \in 1 .. Len(q) : r[j] = q[i]
  BY <1>2, FirstMessageRead
<1> QED BY <1>1, <1>3

(* The reader takes a whole message. *)
LEMMA MessageTaken ==
  ASSUME IInv, DInv, NEW k \in Sessions, Attached(k), ~ SharedPipe(crt[k].pipe),
         Ahead(k) # <<>>, NEW rest, IsRest(rest, Ahead(k)),
         data'[crt[k].pipe] = rest, crt'[k].pipe = crt[k].pipe,
         crt'[k].state \in {"header", "ended"},
         shown'[k] = Append(shown[k], Ahead(k)[1][1]),
         UNCHANGED <<pc, target, handle, unsent, sent, cut>>
  PROVE  Follows(k)'
<1> DEFINE q == Ahead(k)
           m == Len(shown[k])
<1>1. PICK p \in Sessions : p = crt[k].pipe
  BY AttachedPipe
<1>2. q \in Seq(Tokens) /\ m \in Nat /\ sent[p] \in Nat
  BY <1>1, AheadTyped
<1>3. shown[k] = Prefix(m)
  BY StreamOf
<1>4. PICK len \in 0 .. BufSize - 1 :
        /\ Owed(p, len)
        /\ Whole(q \o Body(sent[p], len), m, sent[p])
        /\ len > 0 => IsHeader(q[Len(q)])
        /\ (\E j \in 1 .. Len(q) : IsHeader(q[j]) /\ q[j][2] = "EXIT") => Shut(p)
  BY <1>1, StreamOf
<1>5. len \in Nat
  BY Sizes
<1>6. q # <<>> /\ IsRest(rest, q) /\ shown'[k] = Append(shown[k], q[1][1])
  OBVIOUS
<1> HIDE DEF q, m
<1>7. /\ q[1][1] = m + 1
      /\ Whole(rest \o Body(sent[p], len), m + 1, sent[p])
      /\ len > 0 => rest # <<>> /\ IsHeader(rest[Len(rest)])
      /\ \A j \in 1 .. Len(rest) : \E i \in 1 .. Len(q) : rest[j] = q[i]
  <2> DEFINE n == sent[p]
  <2>1. n \in Nat /\ Whole(q \o Body(n, len), m, n)
    BY <1>2, <1>4
  <2>2. len > 0 => IsHeader(q[Len(q)])
    BY <1>4
  <2>3. q # <<>> /\ IsRest(rest, q) /\ q \in Seq(Tokens) /\ m \in Nat
    BY <1>2, <1>6
  <2> HIDE DEF n
  <2>4. /\ q[1][1] = m + 1
        /\ Whole(rest \o Body(n, len), m + 1, n)
        /\ len > 0 => rest # <<>> /\ IsHeader(rest[Len(rest)])
        /\ \A j \in 1 .. Len(rest) : \E i \in 1 .. Len(q) : rest[j] = q[i]
    BY <1>5, <2>1, <2>2, <2>3, RestFollows
  <2> QED BY <2>4 DEF n
<1>8. shown'[k] = Prefix(m + 1) /\ Len(shown'[k]) = m + 1
  <2>1. shown'[k] = Append(shown[k], m + 1) /\ m + 1 \in Nat
    BY <1>2, <1>6, <1>7
  <2>2. Append(shown[k], m + 1) = Prefix(m + 1) /\ Len(Append(shown[k], m + 1)) = m + 1
    BY <1>2, <1>3, <2>1, PrefixGrows
  <2> QED BY <2>1, <2>2
<1>9. ASSUME Attached(k)' PROVE InStep(k)'
  <2>1. Ahead(k)' = rest
    <3>1. Ahead(k)' = <<>> \o rest
      BY <1>9 DEF Ahead, Attached
    <3>2. rest \in Seq(Tokens)
      BY DEF IsRest
    <3> QED BY <3>1, <3>2, ConcatEmptySeq
  <2>2. Owed(p, len)'
    BY <1>4 DEF Owed, Writing
  <2>3. (\E j \in 1 .. Len(rest) : IsHeader(rest[j]) /\ rest[j][2] = "EXIT") => Shut(p)'
    BY <1>4, <1>7 DEF Shut
  <2>4. crt'[k].pipe = p /\ sent'[p] = sent[p]
    BY <1>1
  <2> QED BY <1>7, <1>8, <2>1, <2>2, <2>3, <2>4 DEF InStep
<1> QED BY <1>8, <1>9 DEF Follows

(* A header that was read, and the pipe after it.                          *)
LEMMA FirstOf ==
  ASSUME NEW h \in Tokens, NEW d \in Seq(Tokens)
  PROVE  /\ <<h>> \o d \in Seq(Tokens) /\ <<h>> \o d # <<>>
         /\ Len(<<h>> \o d) = 1 + Len(d) /\ (<<h>> \o d)[1] = h
         /\ \A i \in 1 .. Len(d) : (<<h>> \o d)[1 + i] = d[i]
<1> DEFINE q == <<h>> \o d
<1>1. <<h>> \in Seq(Tokens) /\ Len(<<h>>) = 1 /\ <<h>>[1] = h /\ Len(d) \in Nat
  OBVIOUS
<1>2. /\ q \in Seq(Tokens) /\ Len(q) = Len(<<h>>) + Len(d)
      /\ \A i \in 1 .. Len(<<h>>) + Len(d) : q[i] =
           IF i <= Len(<<h>>) THEN <<h>>[i] ELSE d[i - Len(<<h>>)]
  BY <1>1, ConcatProperties
<1> HIDE DEF q
<1>3. q[1] = h /\ q # <<>> /\ Len(q) = 1 + Len(d)
  BY <1>1, <1>2
<1>4. \A i \in 1 .. Len(d) : q[1 + i] = d[i]
  BY <1>1, <1>2
<1> QED BY <1>2, <1>3, <1>4 DEF q

(* The header is taken out of the pipe.                                    *)
LEMMA HeadTaken ==
  ASSUME NEW q \in Seq(Tokens), q # <<>>
  PROVE  /\ Head(q) = q[1] /\ q[1] \in Tokens /\ Tail(q) \in Seq(Tokens)
         /\ <<q[1]>> \o Tail(q) = q
         /\ q[1][3] = 0 => IsRest(Tail(q), q)
<1> DEFINE t == Tail(q)
<1>1. /\ Head(q) = q[1] /\ Head(q) \in Tokens /\ t \in Seq(Tokens)
      /\ Len(t) = Len(q) - 1 /\ \A i \in 1 .. Len(t) : t[i] = q[i + 1]
  BY HeadTailProperties
<1>2. Len(q) \in Nat /\ Len(q) >= 1
  BY EmptySeq
<1> HIDE DEF t
<1>3. <<q[1]>> \o t = q
  <2> DEFINE s == <<q[1]>> \o t
  <2>1. /\ s \in Seq(Tokens) /\ Len(s) = 1 + Len(t) /\ s[1] = q[1]
        /\ \A i \in 1 .. Len(t) : s[1 + i] = t[i]
    BY <1>1, FirstOf
  <2> HIDE DEF s
  <2>2. Len(s) = Len(q)
    BY <1>1, <1>2, <2>1
  <2>3. ASSUME NEW i \in 1 .. Len(q) PROVE s[i] = q[i]
    <3>1. CASE i = 1
      BY <2>1, <3>1
    <3>2. CASE i # 1
      <4>1. i - 1 \in 1 .. Len(t) /\ 1 + (i - 1) = i /\ (i - 1) + 1 = i
        BY <1>1, <1>2, <3>2
      <4> QED BY <1>1, <2>1, <4>1
    <3> QED BY <3>1, <3>2
  <2>4. s = q
    BY <2>1, <2>2, <2>3, SeqEqual
  <2> QED BY <2>4 DEF s
<1>4. ASSUME q[1][3] = 0 PROVE IsRest(t, q)
  <2>1. q[1][3] + 1 = 1
    BY <1>4
  <2>2. \A i \in 1 .. Len(t) : t[i] = q[1 + i]
    <3>1. \A i \in 1 .. Len(t) : i + 1 = 1 + i
      OBVIOUS
    <3> QED BY <1>1, <3>1
  <2> QED BY <1>1, <1>2, <2>1, <2>2 DEF IsRest
<1> QED BY <1>1, <1>3, <1>4 DEF t

(* The body is taken out of the pipe.                                      *)
LEMMA BodyTaken ==
  ASSUME NEW h \in Tokens, NEW d \in Seq(Tokens), NEW l \in Nat, h[3] = l, l <= Len(d),
         NEW n \in Nat, \A i \in 1 .. l : d[i] = <<n>>
  PROVE  /\ SubSeq(d, 1, l) = Body(n, l) /\ Len(SubSeq(d, 1, l)) = l
         /\ IsRest(SubSeq(d, l + 1, Len(d)), <<h>> \o d)
<1>1. Len(d) \in Nat
  OBVIOUS
<1>2. SubSeq(d, 1, l) = Body(n, l) /\ Len(SubSeq(d, 1, l)) = l
  <2> DEFINE u == SubSeq(d, 1, l)
  <2>1. /\ u \in Seq(Tokens) /\ Len(u) = IF 1 <= l THEN l - 1 + 1 ELSE 0
        /\ \A i \in 1 .. l - 1 + 1 : u[i] = d[1 + i - 1]
    <3>1. 1 \in Int /\ l \in Int /\ \A i \in 1 .. l : d[i] \in Tokens
      BY <1>1
    <3> QED BY <3>1, SubSeqProperties
  <2> HIDE DEF u
  <2>2. Len(u) = l
    BY <2>1
  <2>3. ASSUME NEW i \in 1 .. l PROVE u[i] = d[i]
    <3>1. i \in 1 .. l - 1 + 1 /\ 1 + i - 1 = i
      OBVIOUS
    <3> QED BY <2>1, <3>1
  <2>4. /\ Body(n, l) \in Seq(Tokens) /\ Len(Body(n, l)) = l
        /\ \A i \in 1 .. l : Body(n, l)[i] = <<n>>
    BY BodyMade
  <2>5. \A i \in 1 .. Len(u) : u[i] = Body(n, l)[i]
    BY <2>2, <2>3, <2>4
  <2>6. u = Body(n, l)
    BY <2>1, <2>2, <2>4, <2>5, SeqEqual
  <2> QED BY <2>2, <2>6 DEF u
<1>3. IsRest(SubSeq(d, l + 1, Len(d)), <<h>> \o d)
  <2> DEFINE r == SubSeq(d, l + 1, Len(d))
             q == <<h>> \o d
  <2>1. /\ q \in Seq(Tokens) /\ Len(q) = 1 + Len(d) /\ q[1] = h
        /\ \A i \in 1 .. Len(d) : q[1 + i] = d[i]
    BY FirstOf
  <2>2. /\ r \in Seq(Tokens)
        /\ Len(r) = IF l + 1 <= Len(d) THEN Len(d) - (l + 1) + 1 ELSE 0
        /\ \A i \in 1 .. Len(d) - (l + 1) + 1 : r[i] = d[(l + 1) + i - 1]
    <3>1. l + 1 \in Int /\ Len(d) \in Int /\ \A i \in l + 1 .. Len(d) : d[i] \in Tokens
      BY <1>1
    <3> QED BY <3>1, SubSeqProperties
  <2> HIDE DEF r, q
  <2>3. Len(r) = Len(d) - l /\ Len(r) = Len(q) - (l + 1) /\ l + 1 <= Len(q)
    BY <1>1, <2>1, <2>2
  <2>4. ASSUME NEW i \in 1 .. Len(r) PROVE r[i] = q[(l + 1) + i]
    <3>1. /\ i \in 1 .. Len(d) - (l + 1) + 1 /\ (l + 1) + i - 1 = l + i
          /\ l + i \in 1 .. Len(d) /\ 1 + (l + i) = (l + 1) + i
      BY <1>1, <2>3
    <3>2. r[i] = d[l + i]
      BY <2>2, <3>1
    <3>3. q[(l + 1) + i] = d[l + i]
      BY <2>1, <3>1
    <3> QED BY <3>2, <3>3
  <2>5. IsRest(r, q)
    BY <2>1, <2>2, <2>3, <2>4 DEF IsRest
  <2> QED BY <2>5 DEF r, q
<1> QED BY <1>2, <1>3

(* A header is read. *)
LEMMA ReadHeaderKeeps ==
  ASSUME IInv, DInv, NEW k \in Sessions, ReadHeader(k)
  PROVE  /\ DInv'
         /\ crt'[k].state = "ended" /\ ~ SharedPipe(crt[k].pipe)
              => Len(shown'[k]) = sent[crt[k].pipe]
<1> DEFINE q == data[crt[k].pipe]
           h == q[1]
           m == Len(shown[k])
<1>1. Attached(k) /\ crt[k].state = "header" /\ q # <<>>
  BY DEF ReadHeader, Attached
<1>2. PICK p \in Sessions : p = crt[k].pipe /\ p # None
  BY <1>1, AttachedPipe, SessionNumbers
<1>3. /\ q \in Seq(Tokens) /\ Ahead(k) = q /\ m \in Nat /\ sent[p] \in Nat
  BY <1>1, <1>2, AheadTyped
<1>4. sent[p] # 0
  BY <1>1, <1>2 DEF DInv, NothingSent
<1>5. /\ Head(q) = h /\ h \in Tokens /\ Tail(q) \in Seq(Tokens)
      /\ <<h>> \o Tail(q) = q /\ (h[3] = 0 => IsRest(Tail(q), q))
  BY <1>1, <1>3, HeadTaken
<1>6. /\ data' = [data EXCEPT ![p] = Tail(q)] /\ data'[p] = Tail(q)
      /\ UNCHANGED <<pc, target, handle, unsent, made, sent, cut>>
  BY <1>2 DEF ReadHeader, emuVars, dirVars, DInv, PipeTypes
<1>7. \/ Len(h) = 3 /\ h[3] = 0 /\ Act(k, h[1], h[2])
      \/ /\ Len(h) = 3 /\ h[3] > 0
         /\ crt' = [crt EXCEPT ![k].state = "body", ![k].head = h]
         /\ UNCHANGED shown
      \/ Len(h) = 1 /\ \E action \in {"SHOW", "EXIT"} : Act(k, Garbled, action)
  BY <1>5 DEF ReadHeader
<1>8. ASSUME ~ SharedPipe(crt[k].pipe)
      PROVE  /\ shown[k] = Prefix(m) /\ IsHeader(h) /\ h[1] = m + 1
             /\ h[2] = "EXIT" => m + 1 = sent[p]
             /\ InStep(k)
  <2>1. PICK len \in 0 .. BufSize - 1 :
          /\ Whole(q \o Body(sent[p], len), m, sent[p])
          /\ len > 0 => IsHeader(q[Len(q)])
    BY <1>1, <1>2, <1>3, <1>8, StreamOf
  <2>2. len \in Nat
    BY Sizes
  <2>3. shown[k] = Prefix(m)
    BY <1>1, <1>3, <1>8, StreamOf
  <2>4. InStep(k)
    <3>1. Follows(k)
      BY <1>2, <1>8 DEF DInv, Reading
    <3> QED BY <1>1, <3>1 DEF Follows, Garbles
  <2> DEFINE n == sent[p]
  <2>5. n \in Nat /\ Whole(q \o Body(n, len), m, n) /\ q # <<>> /\ (len > 0 => IsHeader(q[Len(q)]))
    BY <1>1, <1>3, <2>1
  <2> HIDE DEF n, q, m
  <2>6. IsHeader(q[1]) /\ q[1][1] = m + 1 /\ (q[1][2] = "EXIT" => m + 1 = n)
    BY <1>3, <2>2, <2>5, FirstMessage
  <2> QED BY <2>3, <2>4, <2>6 DEF n, q, m
<1> HIDE DEF q, m
<1>9. CASE Len(h) = 3 /\ h[3] = 0 /\ Act(k, h[1], h[2])
  <2>1. h[1] \in Nat
    BY <1>5, <1>9, HeaderFields DEF IsHeader
  <2>2. PICK process :
           /\ crt' = [crt EXCEPT ![k] = process]
           /\ {"head", "fds"} \subseteq DOMAIN process /\ process.pipe = crt[k].pipe
           /\ process.state = IF h[2] = "EXIT" THEN "ended" ELSE "header"
           /\ crt'[k] = process
           /\ shown'[k] = Append(shown[k], h[1])
           /\ shown' \in [Sessions -> Seq(Nat)]
           /\ \A j \in Sessions : j # k => shown'[j] = shown[j]
    BY <1>9, <2>1, Acted
  <2>3. process.state \in {"header", "ended"}
    BY <2>2
  <2>4. ASSUME ~ SharedPipe(crt[k].pipe) PROVE Follows(k)'
    <3>1. Ahead(k) # <<>> /\ IsRest(Tail(q), Ahead(k)) /\ Ahead(k)[1][1] = h[1]
      BY <1>1, <1>3, <1>5, <1>9
    <3>2. /\ crt'[k].pipe = crt[k].pipe /\ crt'[k].state \in {"header", "ended"}
          /\ shown'[k] = Append(shown[k], Ahead(k)[1][1])
      BY <2>2, <2>3, <3>1
    <3>3. data'[crt[k].pipe] = Tail(q)
      BY <1>2, <1>6
    <3> QED BY <1>1, <1>6, <2>4, <3>1, <3>2, <3>3, MessageTaken
  <2>5. DInv'
    <3>1. /\ process.state \in {"header", "body", "ended"} /\ process.state # "body"
          /\ data' = [data EXCEPT ![crt[k].pipe] = Tail(q)] /\ sent[crt[k].pipe] # 0
      BY <1>2, <1>4, <1>6, <2>3
    <3> QED BY <1>1, <1>5, <1>6, <2>2, <2>4, <3>1, TakesKeep
  <2>6. ASSUME crt'[k].state = "ended", ~ SharedPipe(crt[k].pipe)
        PROVE  Len(shown'[k]) = sent[crt[k].pipe]
    <3>1. h[2] = "EXIT"
      BY <2>2, <2>6
    <3>2. shown[k] = Prefix(m) /\ m + 1 = sent[p]
      BY <1>8, <2>6, <3>1
    <3>3. Len(Append(shown[k], h[1])) = m + 1
      BY <1>3, <2>1, <3>2, PrefixGrows
    <3> QED BY <1>2, <2>2, <3>2, <3>3
  <2> QED BY <2>5, <2>6
<1>10. CASE /\ Len(h) = 3 /\ h[3] > 0
            /\ crt' = [crt EXCEPT ![k].state = "body", ![k].head = h]
            /\ UNCHANGED shown
  <2> DEFINE process == [crt[k] EXCEPT !.state = "body", !.head = h]
  <2>1. /\ {"state", "name", "pipe"} \subseteq DOMAIN crt[k]
        /\ {"head", "fds"} \subseteq DOMAIN crt[k] /\ DOMAIN crt = Sessions
    BY DEF IInv, Shape, DInv, WindowFields
  <2>2. crt' = [crt EXCEPT ![k] = process]
    BY <1>10, <2>1
  <2>3. /\ {"head", "fds"} \subseteq DOMAIN process /\ process.pipe = crt[k].pipe
        /\ process.state = "body" /\ process.head = h
    BY <2>1
  <2> HIDE DEF process
  <2>4. crt'[k] = process
    BY <2>1, <2>2
  <2>5. h \in Headers /\ h[3] > 0
    BY <1>5, <1>10, HeaderFields DEF IsHeader
  <2>6. shown' \in [Sessions -> Seq(Nat)] /\ shown' = shown
    BY <1>10 DEF DInv, PipeTypes
  <2>7. ASSUME ~ SharedPipe(crt[k].pipe) PROVE Follows(k)'
    <3>1. Ahead(k)' = Ahead(k)
      <4>1. Ahead(k)' = <<h>> \o Tail(q)
        BY <1>2, <1>6, <2>3, <2>4 DEF Ahead
      <4> QED BY <1>3, <1>5, <4>1
    <3>2. shown[k] = Prefix(m) /\ InStep(k)
      BY <1>8, <2>7
    <3>3. InStep(k)'
      <4>1. PICK len \in 0 .. BufSize - 1 :
              /\ Owed(p, len)
              /\ Whole(Ahead(k) \o Body(sent[p], len), Len(shown[k]), sent[p])
              /\ len > 0 => Ahead(k) # <<>> /\ IsHeader(Ahead(k)[Len(Ahead(k))])
              /\ (\E j \in 1 .. Len(Ahead(k)) : IsHeader(Ahead(k)[j]) /\ Ahead(k)[j][2] = "EXIT")
                   => Shut(p)
        BY <1>2, <3>2 DEF InStep
      <4>2. Owed(p, len)' /\ (Shut(p) => Shut(p)')
        BY <1>6, <4>1 DEF Owed, Writing, Shut
      <4>3. crt'[k].pipe = p /\ sent'[p] = sent[p] /\ shown' = shown
        BY <1>2, <1>6, <2>3, <2>4, <2>6
      <4> QED BY <3>1, <4>1, <4>2, <4>3 DEF InStep
    <3> QED BY <2>6, <3>2, <3>3 DEF Follows, m
  <2>8. DInv'
    <3>1. /\ process.state \in {"header", "body", "ended"}
          /\ process.head \in Headers /\ process.head[3] > 0
          /\ data' = [data EXCEPT ![crt[k].pipe] = Tail(q)] /\ sent[crt[k].pipe] # 0
      BY <1>2, <1>4, <1>6, <2>3, <2>5
    <3>2. \A j \in Sessions : j # k => shown'[j] = shown[j]
      BY <2>6
    <3> QED BY <1>1, <1>5, <1>6, <2>2, <2>3, <2>6, <2>7, <3>1, <3>2, TakesKeep
  <2> QED BY <2>3, <2>4, <2>8
<1>11. ASSUME Len(h) = 1, NEW action \in {"SHOW", "EXIT"}, Act(k, Garbled, action)
       PROVE  DInv' /\ SharedPipe(crt[k].pipe)
  <2>1. SharedPipe(crt[k].pipe)
    BY <1>8, <1>11 DEF IsHeader
  <2>2. PICK process :
           /\ crt' = [crt EXCEPT ![k] = process]
           /\ {"head", "fds"} \subseteq DOMAIN process /\ process.pipe = crt[k].pipe
           /\ process.state = IF action = "EXIT" THEN "ended" ELSE "header"
           /\ shown' \in [Sessions -> Seq(Nat)]
           /\ \A j \in Sessions : j # k => shown'[j] = shown[j]
    <3>1. Garbled \in Nat
      BY DEF Garbled
    <3> QED BY <1>11, <3>1, Acted
  <2>3. /\ process.state \in {"header", "body", "ended"} /\ process.state # "body"
        /\ data' = [data EXCEPT ![crt[k].pipe] = Tail(q)] /\ sent[crt[k].pipe] # 0
    BY <1>2, <1>4, <1>6, <2>2
  <2>4. DInv'
    BY <1>1, <1>5, <1>6, <2>1, <2>2, <2>3, TakesKeep
  <2> QED BY <2>1, <2>4
<1> QED BY <1>7, <1>9, <1>10, <1>11

(* A header alone has no body.                                             *)
LEMMA OneMore ==
  ASSUME NEW b \in Nat, NEW a, a = 1 + b
  PROVE  /\ a = 1 => b = 0
         /\ \A l \in Nat : l > 0 /\ l <= b => a # 1
OBVIOUS

(* A pipe whose body is being written has a writer.                        *)
LEMMA WriterWrites ==
  ASSUME DInv, NEW p, Writing(p)
  PROVE  HasWriter(p)
BY DEF Writing, HasWriter, EmulatorWrites, DInv, BodyOpen

(* A body is read, or what there is of it. *)
LEMMA ReadBodyKeeps ==
  ASSUME IInv, DInv, NEW k \in Sessions, ReadBody(k)
  PROVE  /\ DInv'
         /\ crt'[k].state = "ended" => SharedPipe(crt[k].pipe)
<1> DEFINE d == data[crt[k].pipe]
           h == crt[k].head
           l == h[3]
           m == Len(shown[k])
           q == <<h>> \o d
           got == SubSeq(d, 1, IF Len(d) < Wanted(l) THEN Len(d) ELSE Wanted(l))
           message == IF got = Body(h[1], Wanted(l)) THEN h[1] ELSE Garbled
           rest == SubSeq(d, Len(got) + 1, Len(d))
<1>1. Attached(k) /\ crt[k].state = "body"
  BY DEF ReadBody, Attached
<1>2. PICK p \in Sessions : p = crt[k].pipe /\ p # None
  BY <1>1, AttachedPipe, SessionNumbers
<1>3. /\ d \in Seq(Tokens) /\ Ahead(k) = q /\ m \in Nat /\ sent[p] \in Nat
      /\ h \in Tokens
  BY <1>1, <1>2, AheadTyped
<1>4. /\ h \in Headers /\ l \in Nat /\ l > 0 /\ l <= BufSize - 1 /\ h[1] \in Nat
      /\ h[2] \in {"SHOW", "EXIT"}
  <2>1. h \in Headers /\ l > 0
    BY <1>1 DEF DInv, WindowFields
  <2> QED BY <2>1, Sizes DEF Headers
<1>5. Wanted(l) = l
  BY <1>4, Sizes DEF Wanted
<1>6. sent[p] # 0
  BY <1>1, <1>2 DEF DInv, NothingSent
<1>7. /\ data' = [data EXCEPT ![p] = rest]
      /\ Act(k, message, h[2])
      /\ d # <<>> \/ ~ HasWriter(p)
      /\ UNCHANGED <<pc, target, handle, unsent, made, sent, cut>>
  BY <1>2 DEF ReadBody, emuVars, dirVars, DInv, PipeTypes
<1>8. q \in Seq(Tokens) /\ q # <<>> /\ Len(q) = 1 + Len(d) /\ q[1] = h
      /\ \A i \in 1 .. Len(d) : q[1 + i] = d[i]
  BY <1>3, FirstOf
<1>9. got \in Seq(Tokens) /\ Len(got) \in Nat
  <2> DEFINE e == IF Len(d) < Wanted(l) THEN Len(d) ELSE Wanted(l)
  <2>1. e \in Int /\ e <= Len(d) /\ Len(d) \in Nat
    BY <1>3, <1>4, <1>5
  <2> HIDE DEF e
  <2>2. 1 \in Int /\ e \in Int /\ \A i \in 1 .. e : d[i] \in Tokens
    BY <1>3, <2>1
  <2>3. SubSeq(d, 1, e) \in Seq(Tokens)
    BY <2>2, SubSeqProperties
  <2>4. got \in Seq(Tokens)
    BY <2>3 DEF e
  <2> HIDE DEF got
  <2> QED BY <2>4
<1>10. message \in Nat
  BY <1>4 DEF Garbled
<1> HIDE DEF got
<1>11. rest \in Seq(Tokens)
  <2>1. /\ Len(got) + 1 \in Int /\ Len(d) \in Int
        /\ \A i \in Len(got) + 1 .. Len(d) : d[i] \in Tokens
    BY <1>3, <1>9
  <2> QED BY <2>1, SubSeqProperties
<1> HIDE DEF message, rest
<1>12. PICK process :
         /\ crt' = [crt EXCEPT ![k] = process]
         /\ {"head", "fds"} \subseteq DOMAIN process /\ process.pipe = crt[k].pipe
         /\ process.state = IF h[2] = "EXIT" THEN "ended" ELSE "header"
         /\ crt'[k] = process
         /\ shown'[k] = Append(shown[k], message)
         /\ shown' \in [Sessions -> Seq(Nat)]
         /\ \A j \in Sessions : j # k => shown'[j] = shown[j]
  BY <1>7, <1>10, Acted
<1>13. process.state \in {"header", "ended"} /\ data'[p] = rest
  BY <1>7, <1>12 DEF DInv, PipeTypes
<1>14. ASSUME ~ SharedPipe(crt[k].pipe) PROVE Follows(k)' /\ h[2] # "EXIT"
  <2> DEFINE n == sent[p]
  <2>1. PICK len \in 0 .. BufSize - 1 :
          /\ Owed(p, len)
          /\ Whole(q \o Body(n, len), m, n)
          /\ len > 0 => IsHeader(q[Len(q)])
    BY <1>1, <1>2, <1>3, <1>8, <1>14, StreamOf
  <2>2. len \in Nat
    BY Sizes
  <2>3. shown[k] = Prefix(m)
    BY <1>1, <1>3, <1>8, <1>14, StreamOf
  <2>4. n \in Nat /\ m \in Nat
    BY <1>3
  <2> HIDE DEF n, q, m
  <2>5. /\ q[1][1] = m + 1 /\ (q[1][2] = "EXIT" => q[1][3] = 0)
        /\ \/ /\ q[1][3] + 1 <= Len(q)
              /\ \A i \in 1 .. q[1][3] : q[1 + i] = <<m + 1>>
           \/ Len(q) = 1 /\ m + 1 = n
    BY <1>8, <2>1, <2>2, <2>4, FirstMessage
  <2>6. h[1] = m + 1 /\ h[2] # "EXIT"
    BY <1>4, <1>8, <2>5
  <2>7. CASE l <= Len(d)
    <3>1. \A i \in 1 .. l : d[i] = <<m + 1>>
      <4>1. l + 1 <= Len(q)
        BY <1>3, <1>4, <1>8, <2>7
      <4>2. Len(q) # 1
        <5>1. Len(d) \in Nat
          BY <1>3
        <5> QED BY <1>4, <1>8, <2>7, <5>1, OneMore
      <4>3. \A i \in 1 .. l : q[1 + i] = <<m + 1>>
        BY <1>8, <2>5, <4>2
      <4>4. \A i \in 1 .. l : i \in 1 .. Len(d)
        BY <1>3, <1>4, <2>7
      <4> QED BY <1>8, <4>3, <4>4
    <3>2. m + 1 \in Nat
      BY <2>4
    <3>3. /\ SubSeq(d, 1, l) = Body(m + 1, l) /\ Len(SubSeq(d, 1, l)) = l
          /\ IsRest(SubSeq(d, l + 1, Len(d)), <<h>> \o d)
      BY <1>3, <1>4, <2>7, <3>1, <3>2, BodyTaken
    <3>4. got = SubSeq(d, 1, l)
      <4>1. ~ (Len(d) < l)
        BY <1>3, <1>4, <2>7
      <4> QED BY <1>5, <4>1 DEF got
    <3>5. message = h[1] /\ rest = SubSeq(d, l + 1, Len(d))
      BY <1>5, <2>6, <3>3, <3>4 DEF message, rest
    <3>6. Ahead(k) # <<>> /\ IsRest(rest, Ahead(k)) /\ Ahead(k)[1][1] = h[1]
      BY <1>3, <1>8, <3>3, <3>5 DEF q
    <3>7. /\ crt'[k].pipe = crt[k].pipe /\ crt'[k].state \in {"header", "ended"}
          /\ shown'[k] = Append(shown[k], Ahead(k)[1][1])
          /\ data'[crt[k].pipe] = rest
      BY <1>2, <1>12, <1>13, <3>5, <3>6
    <3>8. Follows(k)'
      BY <1>1, <1>7, <1>14, <3>6, <3>7, MessageTaken
    <3> QED BY <2>6, <3>8
  <2>8. CASE ~ (l <= Len(d))
    <3>1. Len(q) = 1 /\ m + 1 = n
      <4>1. ~ (q[1][3] + 1 <= Len(q))
        BY <1>3, <1>4, <1>8, <2>8
      <4> QED BY <2>5, <4>1
    <3>2. d = <<>>
      <4>1. Len(d) = 0
        <5>1. Len(d) \in Nat
          BY <1>3
        <5> QED BY <1>8, <3>1, <5>1, OneMore
      <4> QED BY <1>3, <4>1, EmptySeq
    <3>3. ~ Writing(p)
      BY <1>7, <3>2, WriterWrites
    <3>4. len > 0
      <4> DEFINE s == q \o Body(n, len)
      <4>1. /\ s \in Seq(Tokens) /\ Len(s) = Len(q) + len
            /\ \A i \in 1 .. Len(q) : s[i] = q[i]
        BY <1>8, <2>2, <2>4, WithBody
      <4>2. Whole(s, m, n)
        BY <2>1
      <4> HIDE DEF s
      <4>3. s # <<>> /\ s[1] = q[1]
        BY <2>2, <3>1, <4>1
      <4>4. s[1][3] + 1 <= Len(s)
        BY <2>4, <4>1, <4>2, <4>3, WholeShrinks
      <4>5. l + 1 <= 1 + len
        BY <1>8, <3>1, <4>1, <4>3, <4>4
      <4> QED BY <1>4, <2>2, <4>5
    <3>5. p \in cut'
      BY <1>7, <2>1, <3>3, <3>4 DEF Owed
    <3>6. got = <<>> /\ rest = <<>>
      <4>1. got = SubSeq(d, 1, 0)
        BY <1>4, <1>5, <3>2 DEF got
      <4>2. got = <<>>
        BY <4>1
      <4>3. rest = SubSeq(<<>>, 1, 0)
        BY <3>2, <4>2 DEF rest
      <4> QED BY <4>2, <4>3
    <3>7. message = Garbled
      <4>1. Len(Body(h[1], l)) = l
        BY <1>4, BodyMade
      <4>2. got # Body(h[1], Wanted(l))
        BY <1>4, <1>5, <3>6, <4>1
      <4> QED BY <4>2 DEF message
    <3>8. /\ shown'[k] = [Prefix(m + 1) EXCEPT ![m + 1] = Garbled]
          /\ Len(shown'[k]) = m + 1
      <4>1. /\ Append(shown[k], Garbled) = [Prefix(m + 1) EXCEPT ![m + 1] = Garbled]
            /\ \A i \in Nat : Len(Append(shown[k], i)) = m + 1
        BY <2>3, <2>4, PrefixGrows
      <4>2. Garbled \in Nat
        BY DEF Garbled
      <4> QED BY <1>12, <3>7, <4>1, <4>2
    <3>9. crt'[k].pipe = p /\ sent'[p] = m + 1 /\ m + 1 > 0
      BY <1>2, <1>7, <1>12, <2>4, <3>1 DEF n
    <3>10. crt'[k].state # "body" /\ data'[p] = <<>>
      BY <1>12, <1>13, <3>6
    <3>11. Garbles(k)'
      BY <3>5, <3>8, <3>9, <3>10 DEF Garbles
    <3> QED BY <2>6, <3>11 DEF Follows
  <2> QED BY <2>7, <2>8
<1>15. DInv'
  <2>1. /\ process.state \in {"header", "body", "ended"} /\ process.state # "body"
        /\ data' = [data EXCEPT ![crt[k].pipe] = rest] /\ sent[crt[k].pipe] # 0
    BY <1>2, <1>6, <1>7, <1>13
  <2> QED BY <1>1, <1>7, <1>11, <1>12, <1>14, <2>1, TakesKeep
<1>16. crt'[k].state = "ended" => SharedPipe(crt[k].pipe)
  BY <1>12, <1>14
<1> QED BY <1>15, <1>16

(* The end of the pipe: everything has been read. *)
LEMMA EndOfPipeKeeps ==
  ASSUME IInv, DInv, NEW k \in Sessions, EndOfPipe(k)
  PROVE  /\ DInv'
         /\ ~ SharedPipe(crt[k].pipe) => Len(shown'[k]) = sent[crt[k].pipe]
<1>1. /\ Attached(k) /\ crt[k].state = "header" /\ data[crt[k].pipe] = <<>>
      /\ crt' = [crt EXCEPT ![k] = Gone(@)] /\ crt[k].state # "none"
      /\ UNCHANGED <<pc, target, handle, unsent, made, data, sent, shown, cut>>
  BY DEF EndOfPipe, Attached, emuVars, dirVars
<1>2. DInv'
  BY <1>1, EndStep
<1>3. ASSUME ~ SharedPipe(crt[k].pipe) PROVE Len(shown[k]) = sent[crt[k].pipe]
  <2>1. PICK p \in Sessions : p = crt[k].pipe /\ p # None
    BY <1>1, AttachedPipe, SessionNumbers
  <2>2. Follows(k)
    BY <1>3, <2>1 DEF DInv, Reading
  <2>3. CASE Garbles(k)
    BY <2>3 DEF Garbles
  <2>4. CASE InStep(k)
    <3>1. Ahead(k) = <<>> /\ sent[p] \in Nat
      BY <1>1, <2>1, AheadTyped
    <3>2. PICK len \in 0 .. BufSize - 1 :
            /\ Whole(Ahead(k) \o Body(sent[p], len), Len(shown[k]), sent[p])
            /\ ~ (len > 0)
      BY <2>1, <2>4, <3>1 DEF InStep
    <3>3. len = 0
      BY <3>2, Sizes
    <3>4. Ahead(k) \o Body(sent[p], len) = <<>>
      BY <3>1, <3>3, NothingWhole, EmptySeq, ConcatEmptySeq
    <3> QED BY <2>1, <3>2, <3>4 DEF Whole
  <2> QED BY <1>1, <2>2, <2>3, <2>4 DEF Follows
<1> QED BY <1>1, <1>2, <1>3

(* Nothing has been sent yet.                                              *)
LEMMA DInvInit == Init => DInv
<1> SUFFICES ASSUME Init PROVE DInv
  OBVIOUS
<1>1. \A k \in Sessions : crt[k] = NoCRT /\ shown[k] = <<>> /\ data[k] = <<>> /\ sent[k] = 0
  BY DEF Init
<1>2. /\ {"head", "fds"} \subseteq DOMAIN NoCRT
      /\ NoCRT.state = "none" /\ NoCRT.pipe = None
  BY DEF NoCRT
<1>3. PipeTypes
  BY DEF Init, PipeTypes
<1>4. WindowFields
  BY <1>1, <1>2 DEF WindowFields, Attached
<1>5. BodyOpen /\ Unread /\ NothingSent /\ CutOff
  BY <1>1, <1>2 DEF Init, BodyOpen, Unread, NothingSent, CutOff
<1>6. Unopened
  BY <1>1 DEF Init, Unopened, Making, Waiting, Names
<1>7. Reading
  BY <1>1, <1>2 DEF Reading
<1> QED BY <1>3, <1>4, <1>5, <1>6, <1>7 DEF DInv

(* Every step of the emulator, the windows, rm and the user.               *)
LEMMA DInvNext == IInv /\ DInv /\ [Next]_vars => DInv'
<1> SUFFICES ASSUME IInv, DInv, [Next]_vars PROVE DInv'
  OBVIOUS
<1>1. CASE Dies
  BY <1>1, CutStep, QuietSteps
<1>2. CASE Emulator
  <2>1. CASE MakePipe \/ NameTaken \/ InitFails \/ Close
    BY <2>1, QuietSteps
  <2>2. CASE ForkCRT \/ OpenWrite \/ SendBody \/ InitBoard
    BY <2>2, ForkKeeps, OpenWriteKeeps, SendBodyKeeps, HeaderSteps
  <2>3. CASE BrokenPipe
    BY <1>1, <2>3 DEF BrokenPipe
  <2> QED BY <1>2, <2>1, <2>2, <2>3 DEF Emulator
<1>3. CASE User
  <2>1. CASE StartEmulator \/ SimptrisOn
    BY <2>1, QuietSteps
  <2>2. CASE Crash
    BY <1>1, <2>2 DEF Crash
  <2>3. CASE \/ \E c \in Names, len \in Lengths : Send(c, len)
             \/ \E c \in Names : SendExit(c)
    BY <2>3, HeaderSteps
  <2>4. ASSUME NEW k \in Sessions, UserCloses(k) PROVE DInv'
    <3>1. /\ crt[k].state # "none" /\ crt' = [crt EXCEPT ![k] = Gone(@)]
          /\ UNCHANGED <<pc, target, handle, unsent, made, data, sent, shown, cut>>
      BY <2>4 DEF UserCloses, Alive, Attached, emuVars, dirVars
    <3> QED BY <3>1, EndStep
  <2> QED BY <1>3, <2>1, <2>2, <2>3, <2>4 DEF User
<1>4. CASE \E c \in Names : Remove(c)
  BY <1>4, QuietSteps
<1>5. CASE \E k \in Sessions : OpenRead(k) \/ ProcessIncoming(k)
  BY <1>5, OpenReadKeeps, ReadHeaderKeeps, ReadBodyKeeps, EndOfPipeKeeps DEF ProcessIncoming
<1>6. CASE UNCHANGED vars
  BY <1>6, QuietSteps
<1> QED BY <1>2, <1>3, <1>4, <1>5, <1>6 DEF Next

(* A window that follows its pipe has acted on whole messages.             *)
LEMMA FollowsWhole == IInv /\ DInv => MessagesWhole
<1> SUFFICES ASSUME IInv, DInv, NEW k \in Sessions, crt[k].pipe # None, ~ SharedPipe(crt[k].pipe)
             PROVE  LET n == Len(shown[k])
                    IN  \/ shown[k] = Prefix(n)
                        \/ /\ crt[k].pipe \in cut
                           /\ n = sent[crt[k].pipe]
                           /\ shown[k] = [Prefix(n) EXCEPT ![n] = Garbled]
  BY DEF MessagesWhole
<1>1. Follows(k)
  BY DEF DInv, Reading
<1> QED BY <1>1 DEF Follows, Garbles

(* Whoever ends by itself has acted on everything.                         *)
LEMMA EndsLater ==
  ASSUME IInv, DInv, NEW k \in Sessions, ProcessIncoming(k), crt'[k].state = "ended",
         ~ SharedPipe(crt[k].pipe)
  PROVE  Len(shown'[k]) = sent[crt[k].pipe]
BY ReadHeaderKeeps, ReadBodyKeeps, EndOfPipeKeeps DEF ProcessIncoming

LEMMA NothingLostStep ==
  IInv /\ DInv /\ [Next]_vars =>
    [\A k \in Sessions :
       /\ ProcessIncoming(k) /\ crt'[k].state = "ended"
       /\ ~ SharedPipe(crt[k].pipe)
       => Len(shown'[k]) = sent[crt[k].pipe]]_vars
BY EndsLater

(* ProgramWindow.cpp:183-340, UNIXCRT.cpp:166-250: for any number of       *)
(* sessions, and of messages of any length, the two writes                 *)
(* and the two reads of a message never come apart, as long as a pipe has  *)
(* one reader. Only the last message of a writer that died lacks its body. *)
THEOREM MessagesArriveWhole == Spec => []MessagesWhole
<1>1. Init => IInv /\ DInv
  BY IInvInit, DInvInit
<1>2. (IInv /\ DInv) /\ [Next]_vars => (IInv /\ DInv)'
  BY IInvNext, DInvNext
<1> QED BY <1>1, <1>2, FollowsWhole, PTL DEF Spec

(* UNIXCRT.cpp:166-250: a window that ends at EXIT or at the end of its    *)
(* pipe, of which it is the only reader, has acted on every message on it. *)
THEOREM NothingIsLost == Spec => NothingLost
<1>1. Init => IInv /\ DInv
  BY IInvInit, DInvInit
<1>2. (IInv /\ DInv) /\ [Next]_vars => (IInv /\ DInv)'
  BY IInvNext, DInvNext
<1> QED BY <1>1, <1>2, NothingLostStep, PTL DEF Spec, NothingLost
=============================================================================
