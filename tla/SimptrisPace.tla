---------------------------- MODULE SimptrisPace ----------------------------
(***************************************************************************)
(* The clock of the game (emulator/Simptris.cpp): when a call of           *)
(* handle_simptris carries out a command, generates a piece and drops the  *)
(* pieces, and how the level follows the score.  What a drop does to the   *)
(* board is in Simptris; here it completes any number of lines up to       *)
(* MaxLines and may end the game.                                          *)
(*                                                                         *)
(* simpticks counts modulo a common multiple of all values of freq_min and *)
(* fall_rate, and a command slot holds the ticks that are left instead of  *)
(* the tick at which the command is due.                                   *)
(***************************************************************************)
EXTENDS Integers, FiniteSets

CONSTANTS
  InitFreq,       \* INIT_FREQ: ticks between pieces at the start
  FreqStep,       \* FREQ_STEP
  FallRate,       \* FALL_RATE: ticks between drops at the start; FALL_STEP is 1
  IncreaseStep,   \* INCREASE_STEP: lines to the next level
  FallFactor,     \* FALL_INCREASE_FACTOR: levels to the next fall_rate,
  IncreaseScore,  \* INCREASE_SCORE: past this score
  ComDelay,       \* TET_COM_DELAY
  Period,         \* the modulus of simpticks
  MaxLines,       \* bound: lines a drop completes
  MaxScore        \* bound: no further lines

ASSUME PaceAssumption ==
  /\ {InitFreq, FreqStep, FallRate, IncreaseStep, FallFactor, ComDelay, Period}
        \subseteq Nat \ {0}
  /\ {IncreaseScore, MaxLines, MaxScore} \subseteq Nat
  /\ InitFreq % FreqStep = 0
  /\ ComDelay > 1
  /\ \A n \in 1 .. InitFreq \div FreqStep : Period % (n * FreqStep) = 0
  /\ \A n \in 1 .. FallRate : Period % n = 0

VARIABLES
  simpticks, simpwait, game_over,
  score, freq_min, fall_rate,
  due             \* per command: the ticks left, None if there is no command

paceVars == <<simpticks, simpwait, game_over, score, freq_min, fall_rate, due>>

CommandKinds == {"slide", "rotate"}

None == -1
-----------------------------------------------------------------------------
Levels == [score : 0 .. MaxScore, freq : 1 .. InitFreq, fall : 1 .. FallRate]

(* Mutant of LineScored: the score at which the pieces fall faster is off  *)
(* by a level.                                                             *)
LineScored_Late(level) ==
  LET s == level.score + 1
      step == s % IncreaseStep = 0
  IN  [score |-> s,
       freq |-> IF step /\ level.freq - FreqStep > 0 THEN level.freq - FreqStep
                                                     ELSE level.freq,
       fall |-> IF /\ step /\ level.score > IncreaseScore + IncreaseStep
                   /\ s % (FallFactor * IncreaseStep) = 0 /\ level.fall > 1
                THEN level.fall - 1 ELSE level.fall]

(* update_score: one more line. *)
LineScored(level) ==
  LET s == level.score + 1
      step == s % IncreaseStep = 0
  IN  [score |-> s,
       freq |-> IF step /\ level.freq - FreqStep > 0 THEN level.freq - FreqStep
                                                     ELSE level.freq,
       fall |-> IF /\ step /\ s > IncreaseScore
                   /\ s % (FallFactor * IncreaseStep) = 0 /\ level.fall > 1
                THEN level.fall - 1 ELSE level.fall]

(* The level after each number of lines of one drop. *)
LevelsAfter(level) ==
  LET after[n \in 0 .. MaxLines] == IF n = 0 THEN level ELSE LineScored(after[n - 1])
  IN  after
-----------------------------------------------------------------------------
(* No game runs before the first START_SIMPTRIS. *)
PaceInit ==
  /\ simpticks = 0 /\ simpwait = 0 /\ game_over = TRUE
  /\ score = 0 /\ freq_min = InitFreq /\ fall_rate = FallRate
  /\ due = [c \in CommandKinds |-> None]

init_simptris ==
  /\ simpticks' = 0 /\ simpwait' = 0 /\ game_over' = FALSE
  /\ score' = 0 /\ freq_min' = InitFreq /\ fall_rate' = FallRate
  /\ due' = [c \in CommandKinds |-> None]

(* A program is loaded. *)
EndGame ==
  /\ game_over' = TRUE
  /\ UNCHANGED <<simpticks, simpwait, score, freq_min, fall_rate, due>>

(* Mutant of PieceCmd: the command takes effect at once. *)
PieceCmd_AtOnce(c) ==
  /\ due' = [due EXCEPT ![c] = 1]
  /\ UNCHANGED <<simpticks, simpwait, game_over, score, freq_min, fall_rate>>

(* SlidePieceCmd, RotatePieceCmd: a command replaces one of its kind.      *)
PieceCmd(c) ==
  /\ due' = [due EXCEPT ![c] = ComDelay]
  /\ UNCHANGED <<simpticks, simpwait, game_over, score, freq_min, fall_rate>>

(* Mutant of Ripe: a command that has missed its tick is forgotten. *)
Ripe_Exactly(c) == due[c] = 1

(* The tick being counted is the one of the command, or past it. *)
Ripe(c) == due[c] \in {0, 1}

(* At most one command is carried out in a call. *)
CarriedOut ==
  IF Ripe("slide") THEN {"slide"} ELSE IF Ripe("rotate") THEN {"rotate"} ELSE {}

now == (simpticks + 1) % Period

(* Mutant of Generates: the test on the drops is by the clock, too. *)
Generates_OnDrop == now % freq_min = 0 /\ simpwait > 2 /\ now % fall_rate # 0

Generates == now % freq_min = 0 /\ simpwait > 2

Drops == now % fall_rate = 0

(* handle_simptris; the lines that a drop completes raise the level, and   *)
(* the new moduli count from the next call on.                             *)
Tick(lines, over) ==
  /\ ~ game_over
  /\ Drops \/ (lines = 0 /\ ~ over)
  /\ score + lines <= MaxScore
  /\ simpticks' = now
  /\ due' = [c \in CommandKinds |-> IF c \in CarriedOut THEN None
                                    ELSE IF due[c] > 0 THEN due[c] - 1 ELSE due[c]]
  /\ LET waited == IF Generates THEN 0 ELSE simpwait
     IN  simpwait' = IF Drops /\ waited < 3 THEN waited + 1 ELSE waited
  /\ game_over' = over
  /\ LET level == LevelsAfter([score |-> score, freq |-> freq_min, fall |-> fall_rate])[lines]
     IN  score' = level.score /\ freq_min' = level.freq /\ fall_rate' = level.fall

handle_simptris == \E lines \in 0 .. MaxLines, over \in BOOLEAN : Tick(lines, over)

PaceNext == init_simptris \/ EndGame \/ (\E c \in CommandKinds : PieceCmd(c)) \/ handle_simptris

PaceSpec == PaceInit /\ [][PaceNext]_paceVars

(* The processor executes instructions, so it comes to the next tick.  The *)
(* program may issue commands, restart the game, or neither.               *)
FairSpec == PaceSpec /\ WF_paceVars(handle_simptris)
-----------------------------------------------------------------------------
PaceTypeOK ==
  /\ simpticks \in 0 .. Period - 1 /\ simpwait \in 0 .. 3 /\ game_over \in BOOLEAN
  /\ [score |-> score, freq |-> freq_min, fall |-> fall_rate] \in Levels
  /\ due \in [CommandKinds -> None .. ComDelay]

(* The level is a function of the score alone: freq_min goes down by a     *)
(* step every IncreaseStep lines and stops at one step, fall_rate goes     *)
(* down at every FallFactor-th level past IncreaseScore and stops at one.  *)
(* Both divide simpticks (Simptris.cpp:917, 924): neither may reach zero,  *)
(* and no level may be missed when a drop completes several lines.         *)
LevelFollowsScore ==
  LET freq == InitFreq - FreqStep * (score \div IncreaseStep)
      fall == FallRate - Cardinality({s \in IncreaseScore + 1 .. score :
                                        s % (FallFactor * IncreaseStep) = 0})
  IN  /\ freq_min = IF freq < FreqStep THEN FreqStep ELSE freq
      /\ fall_rate = IF fall < 1 THEN 1 ELSE fall

(* A rotation that had to let a slide pass is carried out by the next      *)
(* call, whatever slides the program issues meanwhile (the `else if' of    *)
(* Simptris.cpp:909): a new slide is never due before it.                  *)
RotationNext ==
  [][handle_simptris /\ due["rotate"] = 0 => due'["rotate"] = None]_paceVars

(* Once the program stops issuing commands, those in the slots are carried *)
(* out or the game ends: none waits for a tick that has passed.            *)
CommandsCarriedOut ==
  <>[][\A c \in CommandKinds : ~ PieceCmd(c)]_paceVars =>
    \A c \in CommandKinds : due[c] # None ~> (due[c] = None \/ game_over)

(* While the game goes on new pieces keep coming: simpticks, which nothing *)
(* aligns to the drops or the levels, meets a multiple of freq_min when    *)
(* three drops have passed.                                                *)
PiecesKeepComing == simpwait = 3 ~> (simpwait < 3 \/ game_over)
=============================================================================
