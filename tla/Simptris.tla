------------------------------ MODULE Simptris ------------------------------
(***************************************************************************)
(* The falling-piece game of Emu86 (emulator/Simptris.cpp): its board, its *)
(* pieces, and what one call of handle_simptris does to them.              *)
(*                                                                         *)
(* A cell is <<column, row>>, row 0 at the bottom.  `board' is the SET of  *)
(* the cells where pieces have landed, `pieces' the linked list of falling *)
(* pieces.  This module abstracts from time: which calls carry out a       *)
(* command, generate a piece or drop the pieces is left open, but for the  *)
(* test on simpwait.  SimptrisPace has the clock.                          *)
(*                                                                         *)
(* handle_simptris is a Tick and, when the pieces drop, one step per turn  *)
(* of drop_pieces' loop; nothing else runs meanwhile.                      *)
(***************************************************************************)
EXTENDS Integers, Sequences, FiniteSets

CONSTANTS
  Width,      \* BOARD_WIDTH; the code has Width - 1 as a literal 5, too
  Height      \* BOARD_HEIGHT; Height - 4 and Sky are literals 12, 13 .. 15

ASSUME BoardAssumption == Width \in Nat /\ Width > 2 /\ Height \in Nat /\ Height > 4

VARIABLES
  board,
  pieces,
  game_over,
  simpwait,    \* drops since the last new piece, up to 3
  phase,       \* tick: between calls; drop: in drop_pieces
  current,     \* the piece drop_pieces looks at; 0 outside drop_pieces
  touchdown    \* a piece of this drop has landed (its id is remembered)

vars == <<board, pieces, game_over, simpwait, phase, current, touchdown>>

Columns == 0 .. Width - 1
Rows == 0 .. Height - 1
Sky == Height - 3 .. Height - 1    \* what new pieces need

(* A piece is at its centre, `col' and `row'. *)
Orients == [straight |-> 0 .. 1, corner |-> 0 .. 3]

Pieces == UNION {[type : {t}, orient : Orients[t], col : Columns, row : Rows] :
                 t \in DOMAIN Orients}

(* The cells of a piece, relative to its centre, by orientation. *)
Shape ==
  [straight |-> <<{<<-1, 0>>, <<0, 0>>, <<1, 0>>}, {<<0, -1>>, <<0, 0>>, <<0, 1>>}>>,
   corner |-> <<{<<0, 1>>, <<0, 0>>, <<1, 0>>}, {<<0, 1>>, <<0, 0>>, <<-1, 0>>},
                {<<0, -1>>, <<0, 0>>, <<-1, 0>>}, {<<0, -1>>, <<0, 0>>, <<1, 0>>}>>]

Around(piece, offsets) == {<<piece.col + d[1], piece.row + d[2]>> : d \in offsets}

Cells(piece) == Around(piece, Shape[piece.type][piece.orient + 1])

(* Mutant of Free: the walls and the floor are not looked at. *)
Free_Boundless(cells, piece) == (cells \ Cells(piece)) \cap board = {}

(* The cells are on the board, and those the piece does not have are free. *)
Free(cells, piece) ==
  /\ cells \subseteq Columns \X Rows
  /\ (cells \ Cells(piece)) \cap board = {}
-----------------------------------------------------------------------------
(* The directions of a command: AL is any byte, and only 0 and 1 count. *)
Directions == {0, 1, 255}

Slid(piece, dir) == [piece EXCEPT !.col = IF dir = 0 THEN @ - 1 ELSE @ + 1]

slide_piece(piece, dir) ==
  IF dir # 255 /\ Free(Cells(Slid(piece, dir)), piece) THEN Slid(piece, dir) ELSE piece

(* A quarter turn, anticlockwise for 0.  A cell that turns passes the      *)
(* corner between its old place and its new one.                           *)
Turn(d, dir) == IF dir = 0 THEN <<-d[2], d[1]>> ELSE <<d[2], -d[1]>>

CornerSweep(piece, dir) ==
  UNION {{Turn(d, dir), <<d[1] + Turn(d, dir)[1], d[2] + Turn(d, dir)[2]>>} :
         d \in Shape.corner[piece.orient + 1]}

(* A straight piece needs all of its surroundings, in any direction.       *)
rotate_piece(piece, dir) ==
  IF piece.type = "straight"
  THEN IF Free(Around(piece, (-1 .. 1) \X (-1 .. 1)), piece)
       THEN [piece EXCEPT !.orient = 1 - @] ELSE piece
  ELSE IF dir # 255 /\ Free(Around(piece, CornerSweep(piece, dir)), piece)
       THEN [piece EXCEPT !.orient = (IF dir = 0 THEN @ + 1 ELSE @ + 3) % 4] ELSE piece

(* What generate_piece may draw. *)
Drawn == {piece \in Pieces : piece.row = Height - 2 /\ Cells(piece) \subseteq Columns \X Rows}
-----------------------------------------------------------------------------
(* Row -1 is read past the array: but for column 0 it is the last row of   *)
(* the column before.  Column 0 holds some byte, at worst not zero.        *)
Complete(cells, row) ==
  \A col \in Columns :
    IF row >= 0 THEN <<col, row>> \in cells
                ELSE col > 0 => <<col - 1, Height - 1>> \in cells

(* Mutant of Cleared: the shift stops one row early. *)
Cleared_Short(cells, row) ==
  {cell \in Columns \X Rows :
     IF cell[2] \in row .. Height - 5 THEN <<cell[1], cell[2] + 1>> \in cells
                                     ELSE cell \in cells}

(* The rows above come down, up to the first of Sky. *)
Cleared(cells, row) ==
  {cell \in Columns \X Rows :
     IF cell[2] \in row .. Height - 4 THEN <<cell[1], cell[2] + 1>> \in cells
                                     ELSE cell \in cells}

(* Mutant of Scan: the row that has come down is not looked at again. *)
Scan_Skipping(s) ==
  IF Complete(s.cells, s.row) THEN [cells |-> Cleared(s.cells, s.row), row |-> s.row + 1]
                              ELSE [s EXCEPT !.row = @ + 1]

Scan(s) ==
  IF Complete(s.cells, s.row) THEN [s EXCEPT !.cells = Cleared(@, s.row)]
                              ELSE [s EXCEPT !.row = @ + 1]

(* Three rows are looked at, around the centre of the piece that landed. *)
LinesCleared(cells, row) == Scan(Scan(Scan([cells |-> cells, row |-> row - 1]))).cells

(* Mutant of Overflows: the lowest row from where Sky is reached is missed. *)
Overflows_High(cells, row) == row > Height - 4 /\ cells \cap (Columns \X Sky) # {}

(* The piece that landed has reached Sky: the game is over. *)
Overflows(cells, row) == row >= Height - 4 /\ cells \cap (Columns \X Sky) # {}
-----------------------------------------------------------------------------
(* The simulator starts with no game running. *)
Init ==
  /\ board = {} /\ pieces = <<>> /\ game_over = TRUE /\ simpwait = 0
  /\ phase = "tick" /\ current = 0 /\ touchdown = FALSE

(* The START_SIMPTRIS service, at any time. *)
init_simptris ==
  /\ phase = "tick"
  /\ board' = {} /\ pieces' = <<>> /\ game_over' = FALSE /\ simpwait' = 0
  /\ UNCHANGED <<phase, current, touchdown>>

(* A program is loaded. *)
EndGame ==
  /\ phase = "tick"
  /\ game_over' = TRUE
  /\ UNCHANGED <<board, pieces, simpwait, phase, current, touchdown>>

(* At most one command a call, for any piece or for none that exists. *)
Commanded ==
  {pieces} \cup
  {[pieces EXCEPT ![k] = slide_piece(@, dir)] : k \in DOMAIN pieces, dir \in Directions} \cup
  {[pieces EXCEPT ![k] = rotate_piece(@, dir)] : k \in DOMAIN pieces, dir \in Directions}

(* Mutant of Rested: a new piece may come one drop earlier. *)
Rested_Early == simpwait > 1

Rested == simpwait > 2

(* Mutant of firstpiece: the drop begins behind it. *)
firstpiece_Next == 2

(* Where drop_pieces begins in the list. *)
firstpiece == 1

Tick(drop) ==
  /\ phase = "tick" /\ ~ game_over
  /\ \E list \in Commanded :
       \/ pieces' = list /\ UNCHANGED simpwait
       \/ /\ Rested
          /\ \E piece \in Drawn : pieces' = Append(list, piece)   \* generate_piece
          /\ simpwait' = 0
  /\ IF drop THEN phase' = "drop" /\ current' = firstpiece ELSE UNCHANGED <<phase, current>>
  /\ UNCHANGED <<board, game_over, touchdown>>

Dropping == phase = "drop" /\ current <= Len(pieces) /\ ~ game_over

Lowered == [pieces[current] EXCEPT !.row = @ - 1]

LowerPiece ==
  /\ Dropping
  /\ Free(Cells(Lowered), pieces[current])
  /\ pieces' = [pieces EXCEPT ![current] = Lowered]
  /\ current' = current + 1
  /\ UNCHANGED <<board, game_over, simpwait, phase, touchdown>>

(* The piece becomes part of the board and leaves the list, and            *)
(* check_lineclear looks for the end of the game and for complete rows.    *)
LandPiece ==
  /\ Dropping
  /\ ~ Free(Cells(Lowered), pieces[current])
  /\ LET row == pieces[current].row
         cells == board \cup Cells(pieces[current])
     IN  /\ game_over' = Overflows(cells, row)
         /\ board' = IF game_over' THEN cells ELSE LinesCleared(cells, row)
  /\ pieces' = SubSeq(pieces, 1, current - 1) \o SubSeq(pieces, current + 1, Len(pieces))
  /\ touchdown' = TRUE
  /\ UNCHANGED <<simpwait, phase, current>>

(* The last piece that landed, if any, is signalled. *)
DropDone ==
  /\ phase = "drop"
  /\ current > Len(pieces) \/ game_over
  /\ simpwait' = IF simpwait < 3 THEN simpwait + 1 ELSE 3
  /\ phase' = "tick" /\ current' = 0 /\ touchdown' = FALSE
  /\ UNCHANGED <<board, pieces, game_over>>

drop_pieces == LowerPiece \/ LandPiece \/ DropDone

Next == init_simptris \/ EndGame \/ (\E drop \in BOOLEAN : Tick(drop)) \/ drop_pieces

Spec == Init /\ [][Next]_vars

(* The clock comes to a multiple of fall_rate again and again, and         *)
(* drop_pieces then runs to its end.                                       *)
FairSpec == Spec /\ WF_vars(Tick(TRUE)) /\ WF_vars(drop_pieces)
-----------------------------------------------------------------------------
TypeOK ==
  /\ board \subseteq Columns \X Rows
  /\ pieces \in Seq(Pieces)
  /\ game_over \in BOOLEAN /\ touchdown \in BOOLEAN
  /\ simpwait \in 0 .. 3
  /\ phase \in {"tick", "drop"}
  /\ current \in Nat

(* The cells of a falling piece are on the board: the code indexes its     *)
(* array with the centre and its neighbours and never tests an index       *)
(* against the size.  That centres stay clear of the walls and the floor,  *)
(* after every slide, turn and drop, is what makes that safe.              *)
PiecesInside == \A k \in DOMAIN pieces : Cells(pieces[k]) \subseteq Columns \X Rows

(* Two falling pieces never overlap.                                       *)
PiecesApart ==
  \A j, k \in DOMAIN pieces : j # k => Cells(pieces[j]) \cap Cells(pieces[k]) = {}

Buried(k) == Cells(pieces[k]) \cap board # {}

(* What a step may do to a falling piece that covers no landed cell.  The  *)
(* pieces behind the one that lands move up in the list.                   *)
OnlyLinesBury ==
  \/ LandPiece /\ \A k \in DOMAIN pieces' : Buried(k)' =>
        LET old == IF k < current THEN k ELSE k + 1
        IN  Buried(old) \/ (k >= current /\ board' # board \cup Cells(pieces[current]))
  \/ ~ LandPiece /\ \A k \in DOMAIN pieces' : Buried(k)' => k \in DOMAIN pieces /\ Buried(k)

(* No cell is taken twice but in one case.  Two falling pieces never       *)
(* overlap, although slides, turns and drops only look at the board        *)
(* (Simptris.cpp:463-860): a new piece waits for three drops               *)
(* (simpwait > 2) so that the centres stay three rows apart.  And a        *)
(* falling piece comes to cover a landed cell only when a piece below it   *)
(* completes lines: the rows above them come down without a look at the    *)
(* falling pieces (Simptris.cpp:329-345), and what hangs over may come     *)
(* down onto one.                                                          *)
NoCellTwice == [][PiecesApart' /\ OnlyLinesBury]_vars

(* While the game runs no landed cell is in the rows where pieces appear:  *)
(* check_lineclear looks at these rows only when the piece that landed is  *)
(* high enough, and the shift of the rows relies on them being empty.      *)
SkyClear == ~ game_over => board \cap (Columns \X Sky) = {}

(* No complete row is left: the three rows that check_lineclear scans are  *)
(* all that a landing can have completed (Simptris.cpp:299-359).           *)
NoCompleteRow == ~ game_over => \A row \in Rows : ~ Complete(board, row)

(* Landing adds the cells of the piece that were free, and only whole rows *)
(* leave: no cell is lost or doubled when up to three rows, adjacent or    *)
(* not, are cleared and the others come down over them.                    *)
CellsConserved ==
  [][LandPiece => \E lines \in 0 .. 3 :
       Cardinality(board') =
         Cardinality(board) + Cardinality(Cells(pieces[current]) \ board) - Width * lines]_vars

(* Every falling piece lands, unless the game ends or starts again: the    *)
(* commands cannot hold a piece up.                                        *)
PiecesLand == pieces # <<>> ~> (touchdown \/ game_over \/ pieces = <<>>)
=============================================================================
