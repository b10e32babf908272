--------------------------- MODULE SimptrisProofs ---------------------------
(***************************************************************************)
(* The safety properties of Simptris, for a board of any size that         *)
(* BoardAssumption allows.                                                 *)
(***************************************************************************)
EXTENDS Simptris, TLAPS, FiniteSetTheorems, SequenceTheorems

Near == (-1 .. 1) \X (-1 .. 1)

Cell == Columns \X Rows
-----------------------------------------------------------------------------
(* The shapes, the turns, and the cells of a piece. *)

(* What the members of Pieces are. *)
LEMMA PieceFields ==
  ASSUME NEW p \in Pieces
  PROVE  /\ p.type \in {"straight", "corner"}
         /\ p.orient \in Orients[p.type]
         /\ p.col \in Columns /\ p.row \in Rows
         /\ p = [type |-> p.type, orient |-> p.orient, col |-> p.col, row |-> p.row]
BY DEF Pieces, Orients

LEMMA PieceMade ==
  ASSUME NEW t \in {"straight", "corner"}, NEW o \in Orients[t],
         NEW c \in Columns, NEW r \in Rows
  PROVE  [type |-> t, orient |-> o, col |-> c, row |-> r] \in Pieces
BY DEF Pieces, Orients

(* Three cells next to each other's centre, and one of them the centre. *)
Triple(shape) ==
  \E a, b, c \in Near : /\ a # b /\ a # c /\ b # c
                        /\ shape = {a, b, c} /\ <<0, 0>> \in shape

(* A centre and two offsets beside it are such a shape. *)
LEMMA TripleMade ==
  ASSUME NEW i \in -1 .. 1, NEW j \in -1 .. 1, NEW k \in -1 .. 1, NEW l \in -1 .. 1,
         i # 0 \/ j # 0, k # 0 \/ l # 0, i # k \/ j # l
  PROVE  Triple({<<i, j>>, <<0, 0>>, <<k, l>>})
<1>1. <<i, j>> \in Near /\ <<0, 0>> \in Near /\ <<k, l>> \in Near
  BY DEF Near
<1>2. <<i, j>> # <<0, 0>> /\ <<i, j>> # <<k, l>> /\ <<0, 0>> # <<k, l>>
  OBVIOUS
<1> QED BY <1>1, <1>2, Zenon DEF Triple

(* Every shape has three cells, the centre and two beside it. *)
LEMMA ShapeCells ==
  ASSUME NEW p \in Pieces
  PROVE  Triple(Shape[p.type][p.orient + 1])
<1>1. CASE p.type = "straight"
  <2>1. p.orient \in {0, 1}
    BY <1>1, PieceFields DEF Orients
  <2>2. CASE p.orient = 0
    <3>1. Shape[p.type][p.orient + 1] = {<<-1, 0>>, <<0, 0>>, <<1, 0>>}
      BY <1>1, <2>2 DEF Shape
    <3> QED BY <3>1, TripleMade
  <2>3. CASE p.orient = 1
    <3>1. Shape[p.type][p.orient + 1] = {<<0, -1>>, <<0, 0>>, <<0, 1>>}
      BY <1>1, <2>3 DEF Shape
    <3> QED BY <3>1, TripleMade
  <2> QED BY <2>1, <2>2, <2>3
<1>2. CASE p.type = "corner"
  <2>1. p.orient \in {0, 1, 2, 3}
    BY <1>2, PieceFields DEF Orients
  <2>2. CASE p.orient = 0
    <3>1. Shape[p.type][p.orient + 1] = {<<0, 1>>, <<0, 0>>, <<1, 0>>}
      BY <1>2, <2>2 DEF Shape
    <3> QED BY <3>1, TripleMade
  <2>3. CASE p.orient = 1
    <3>1. Shape[p.type][p.orient + 1] = {<<0, 1>>, <<0, 0>>, <<-1, 0>>}
      BY <1>2, <2>3 DEF Shape
    <3> QED BY <3>1, TripleMade
  <2>4. CASE p.orient = 2
    <3>1. Shape[p.type][p.orient + 1] = {<<0, -1>>, <<0, 0>>, <<-1, 0>>}
      BY <1>2, <2>4 DEF Shape
    <3> QED BY <3>1, TripleMade
  <2>5. CASE p.orient = 3
    <3>1. Shape[p.type][p.orient + 1] = {<<0, -1>>, <<0, 0>>, <<1, 0>>}
      BY <1>2, <2>5 DEF Shape
    <3> QED BY <3>1, TripleMade
  <2> QED BY <2>1, <2>2, <2>3, <2>4, <2>5
<1> QED BY <1>1, <1>2, PieceFields

LEMMA ThreeElements ==
  ASSUME NEW x, NEW y, NEW z, x # y, x # z, y # z
  PROVE  IsFiniteSet({x, y, z}) /\ Cardinality({x, y, z}) = 3
<1>1. IsFiniteSet({x}) /\ Cardinality({x}) = 1
  BY FS_Singleton
<1>2. {x, y} = {x} \cup {y} /\ y \notin {x}
  OBVIOUS
<1>3. IsFiniteSet({x, y}) /\ Cardinality({x, y}) = 1 + 1
  BY <1>1, <1>2, FS_AddElement
<1>4. {x, y, z} = {x, y} \cup {z} /\ z \notin {x, y}
  OBVIOUS
<1>5. IsFiniteSet({x, y, z}) /\ Cardinality({x, y, z}) = (1 + 1) + 1
  BY <1>3, <1>4, FS_AddElement
<1> QED BY <1>5

(* So a piece has three cells, in the rows and columns next to its centre. *)
LEMMA PieceCells ==
  ASSUME NEW p \in Pieces
  PROVE  /\ \A cell \in Cells(p) :
              /\ cell \in Int \X Int
              /\ cell[1] \in p.col - 1 .. p.col + 1
              /\ cell[2] \in p.row - 1 .. p.row + 1
         /\ <<p.col, p.row>> \in Cells(p)
         /\ IsFiniteSet(Cells(p)) /\ Cardinality(Cells(p)) = 3
<1> DEFINE at(d) == <<p.col + d[1], p.row + d[2]>>
<1>1. PICK a, b, c \in Near : /\ a # b /\ a # c /\ b # c
                              /\ Shape[p.type][p.orient + 1] = {a, b, c}
                              /\ <<0, 0>> \in {a, b, c}
  BY ShapeCells DEF Triple
<1>2. p.col \in Int /\ p.row \in Int
  BY PieceFields DEF Columns, Rows
<1>3. Cells(p) = {at(a), at(b), at(c)}
  BY <1>1 DEF Cells, Around
<1>4. \A d \in Near : /\ at(d) \in Int \X Int
                      /\ at(d)[1] \in p.col - 1 .. p.col + 1
                      /\ at(d)[2] \in p.row - 1 .. p.row + 1
  BY <1>2 DEF Near
<1>5. at(a) # at(b) /\ at(a) # at(c) /\ at(b) # at(c)
  BY <1>1, <1>2 DEF Near
<1>6. at(<<0, 0>>) = <<p.col, p.row>>
  BY <1>2
<1>7. <<p.col, p.row>> \in Cells(p)
  BY <1>1, <1>3, <1>6
<1> HIDE DEF at
<1>8. IsFiniteSet(Cells(p)) /\ Cardinality(Cells(p)) = 3
  BY <1>3, <1>5, ThreeElements
<1> QED BY <1>3, <1>4, <1>7, <1>8

(* Pieces whose centres are three rows apart share no cell. *)
LEMMA FarApart ==
  ASSUME NEW p \in Pieces, NEW q \in Pieces, q.row - p.row >= 3
  PROVE  Cells(p) \cap Cells(q) = {}
<1> SUFFICES ASSUME NEW cell \in Cells(p), cell \in Cells(q)
             PROVE  FALSE
  OBVIOUS
<1>1. p.row \in Int /\ q.row \in Int
  BY PieceFields DEF Rows
<1>2. cell[2] \in p.row - 1 .. p.row + 1
  BY PieceCells
<1>3. cell[2] \in q.row - 1 .. q.row + 1
  BY PieceCells
<1> QED BY <1>1, <1>2, <1>3

(* What a slide or a turn gives: a piece in the same row, on the board, on *)
(* no landed cell that it was not on before.                               *)
Moved(p, q) ==
  /\ q \in Pieces /\ q.row = p.row
  /\ Cells(q) \subseteq Cell
  /\ Cells(q) \cap board \subseteq Cells(p)

(* The cells of a record with the fields of a piece hold its centre.       *)
LEMMA CentreTaken ==
  ASSUME NEW p \in Pieces, NEW c \in Int, NEW r \in Int,
         NEW q, q = [type |-> p.type, orient |-> p.orient, col |-> c, row |-> r]
  PROVE  <<c, r>> \in Cells(q)
<1>1. <<0, 0>> \in Shape[p.type][p.orient + 1]
  BY ShapeCells DEF Triple
<1>2. Cells(q) = {<<c + d[1], r + d[2]>> : d \in Shape[p.type][p.orient + 1]}
  BY DEF Cells, Around
<1>3. <<c + <<0, 0>>[1], r + <<0, 0>>[2]>> = <<c, r>>
  OBVIOUS
<1> QED BY <1>1, <1>2, <1>3

(* A slide moves a piece so, or leaves it where it is. *)
LEMMA SlideMoves ==
  ASSUME NEW p \in Pieces, NEW dir \in Directions, Cells(p) \subseteq Cell
  PROVE  Moved(p, slide_piece(p, dir))
<1> DEFINE q == Slid(p, dir)
<1>1. CASE dir # 255 /\ Free(Cells(q), p)
  <2> DEFINE c == IF dir = 0 THEN p.col - 1 ELSE p.col + 1
  <2>1. p.type \in {"straight", "corner"} /\ p.orient \in Orients[p.type]
        /\ p.col \in Int /\ p.row \in Int /\ p.row \in Rows
        /\ p = [type |-> p.type, orient |-> p.orient, col |-> p.col, row |-> p.row]
    BY PieceFields DEF Columns, Rows
  <2>2. q = [type |-> p.type, orient |-> p.orient, col |-> c, row |-> p.row]
    BY <2>1 DEF Slid
  <2>3. c \in Int
    BY <2>1
  <2> HIDE DEF q, c
  <2>4. <<c, p.row>> \in Cells(q)
    BY <2>1, <2>2, <2>3, CentreTaken
  <2>5. Cells(q) \subseteq Cell /\ Cells(q) \cap board \subseteq Cells(p)
    BY <1>1 DEF Free, Cell
  <2>6. c \in Columns
    BY <2>4, <2>5 DEF Cell
  <2>7. q \in Pieces
    BY <2>1, <2>2, <2>6, PieceMade
  <2>8. q.row = p.row
    BY <2>2
  <2>9. slide_piece(p, dir) = q
    BY <1>1 DEF slide_piece, q
  <2> QED BY <2>5, <2>7, <2>8, <2>9 DEF Moved
<1>2. CASE ~ (dir # 255 /\ Free(Cells(q), p))
  <2>1. slide_piece(p, dir) = p
    BY <1>2 DEF slide_piece
  <2> QED BY <2>1 DEF Moved
<1> QED BY <1>1, <1>2

(* Where a quarter turn takes a cell. *)
LEMMA TurnUnits ==
  ASSUME NEW i \in Int, NEW j \in Int
  PROVE  Turn(<<i, j>>, 0) = <<-j, i>> /\ Turn(<<i, j>>, 1) = <<j, -i>>
BY DEF Turn

(* The cells that a quarter turn of a corner gives are those of the next   *)
(* orientation, and the sweep has them all.                                *)
LEMMA CornerTurned ==
  ASSUME NEW o \in 0 .. 3, NEW dir \in {0, 1}
  PROVE  LET n == (IF dir = 0 THEN o + 1 ELSE o + 3) % 4
         IN  /\ n \in 0 .. 3
             /\ Shape.corner[n + 1] = {Turn(d, dir) : d \in Shape.corner[o + 1]}
<1>1. Shape.corner = <<{<<0, 1>>, <<0, 0>>, <<1, 0>>}, {<<0, 1>>, <<0, 0>>, <<-1, 0>>},
                       {<<0, -1>>, <<0, 0>>, <<-1, 0>>}, {<<0, -1>>, <<0, 0>>, <<1, 0>>}>>
  BY DEF Shape
<1>2. \A a, b, c : {Turn(d, dir) : d \in {a, b, c}}
                   = {Turn(a, dir), Turn(b, dir), Turn(c, dir)}
  OBVIOUS
<1> DEFINE n == (IF dir = 0 THEN o + 1 ELSE o + 3) % 4
<1>3. Turn(<<0, 0>>, dir) = <<0, 0>>
  BY DEF Turn
<1>4. CASE dir = 0
  <2>1. /\ Turn(<<1, 0>>, dir) = <<0, 1>> /\ Turn(<<0, 1>>, dir) = <<-1, 0>>
        /\ Turn(<<-1, 0>>, dir) = <<0, -1>> /\ Turn(<<0, -1>>, dir) = <<1, 0>>
    BY <1>4, TurnUnits
  <2>2. CASE o = 0
    BY <1>1, <1>2, <1>3, <1>4, <2>1, <2>2
  <2>3. CASE o = 1
    BY <1>1, <1>2, <1>3, <1>4, <2>1, <2>3
  <2>4. CASE o = 2
    BY <1>1, <1>2, <1>3, <1>4, <2>1, <2>4
  <2>5. CASE o = 3
    BY <1>1, <1>2, <1>3, <1>4, <2>1, <2>5
  <2> QED BY <2>2, <2>3, <2>4, <2>5
<1>5. CASE dir = 1
  <2>1. /\ Turn(<<1, 0>>, dir) = <<0, -1>> /\ Turn(<<0, 1>>, dir) = <<1, 0>>
        /\ Turn(<<-1, 0>>, dir) = <<0, 1>> /\ Turn(<<0, -1>>, dir) = <<-1, 0>>
    BY <1>5, TurnUnits
  <2>2. CASE o = 0
    BY <1>1, <1>2, <1>3, <1>5, <2>1, <2>2
  <2>3. CASE o = 1
    BY <1>1, <1>2, <1>3, <1>5, <2>1, <2>3
  <2>4. CASE o = 2
    BY <1>1, <1>2, <1>3, <1>5, <2>1, <2>4
  <2>5. CASE o = 3
    BY <1>1, <1>2, <1>3, <1>5, <2>1, <2>5
  <2> QED BY <2>2, <2>3, <2>4, <2>5
<1> QED BY <1>4, <1>5

(* A turn moves a piece so, or leaves it as it is. *)
LEMMA TurnMoves ==
  ASSUME NEW p \in Pieces, NEW dir \in Directions, Cells(p) \subseteq Cell
  PROVE  Moved(p, rotate_piece(p, dir))
<1>1. p.type \in {"straight", "corner"} /\ p.orient \in Orients[p.type]
      /\ p.col \in Columns /\ p.row \in Rows
      /\ p = [type |-> p.type, orient |-> p.orient, col |-> p.col, row |-> p.row]
  BY PieceFields
<1>2. ASSUME NEW o \in Orients[p.type], NEW offsets, Free(Around(p, offsets), p),
             Shape[p.type][o + 1] \subseteq offsets
      PROVE  Moved(p, [p EXCEPT !.orient = o])
  <2> DEFINE q == [p EXCEPT !.orient = o]
  <2>1. q = [type |-> p.type, orient |-> o, col |-> p.col, row |-> p.row]
    BY <1>1
  <2> HIDE DEF q
  <2>2. q \in Pieces /\ q.row = p.row
    BY <1>1, <2>1, PieceMade
  <2>3. Cells(q) \subseteq Around(p, offsets)
    BY <1>2, <2>1 DEF Cells, Around
  <2>4. Cells(q) \subseteq Cell /\ Cells(q) \cap board \subseteq Cells(p)
    BY <1>2, <2>3 DEF Free, Cell
  <2>5. Moved(p, q)
    BY <2>2, <2>4 DEF Moved
  <2> QED BY <2>5 DEF q
<1>3. Moved(p, p)
  BY DEF Moved
<1>4. CASE p.type = "straight"
  <2>1. CASE Free(Around(p, Near), p)
    <3>1. p.orient \in {0, 1} /\ 1 - p.orient \in Orients[p.type]
      BY <1>1, <1>4 DEF Orients
    <3>2. [p EXCEPT !.orient = 1 - p.orient] \in Pieces
      BY <1>1, <1>4, <3>1, PieceMade
    <3>3. Triple(Shape[p.type][(1 - p.orient) + 1])
      <4> DEFINE q == [p EXCEPT !.orient = 1 - p.orient]
      <4>1. q.type = p.type /\ q.orient = 1 - p.orient
        BY <1>1
      <4> QED BY <3>2, <4>1, ShapeCells
    <3>4. Shape[p.type][(1 - p.orient) + 1] \subseteq Near
      BY <3>3 DEF Triple
    <3>5. Moved(p, [p EXCEPT !.orient = 1 - p.orient])
      BY <1>2, <2>1, <3>1, <3>4
    <3> QED BY <1>4, <2>1, <3>5 DEF rotate_piece, Near
  <2>2. CASE ~ Free(Around(p, Near), p)
    BY <1>3, <1>4, <2>2 DEF rotate_piece, Near
  <2> QED BY <2>1, <2>2
<1>5. CASE p.type = "corner"
  <2>1. CASE dir # 255 /\ Free(Around(p, CornerSweep(p, dir)), p)
    <3> DEFINE n == (IF dir = 0 THEN p.orient + 1 ELSE p.orient + 3) % 4
    <3>1. dir \in {0, 1}
      BY <2>1 DEF Directions
    <3>2. p.orient \in 0 .. 3 /\ Orients[p.type] = 0 .. 3
      BY <1>1, <1>5 DEF Orients
    <3>3. n \in 0 .. 3
          /\ Shape.corner[n + 1] = {Turn(d, dir) : d \in Shape.corner[p.orient + 1]}
      BY <3>1, <3>2, CornerTurned
    <3> HIDE DEF n
    <3>4. Shape[p.type][n + 1] = Shape.corner[n + 1]
      BY <1>5
    <3>5. {Turn(d, dir) : d \in Shape.corner[p.orient + 1]} \subseteq CornerSweep(p, dir)
      BY DEF CornerSweep
    <3>6. Shape[p.type][n + 1] \subseteq CornerSweep(p, dir)
      BY <3>3, <3>4, <3>5
    <3>7. Moved(p, [p EXCEPT !.orient = n])
      BY <1>2, <2>1, <3>2, <3>3, <3>6
    <3>8. rotate_piece(p, dir) = [p EXCEPT !.orient = n]
      BY <1>5, <2>1 DEF rotate_piece, n
    <3> QED BY <3>7, <3>8
  <2>2. CASE ~ (dir # 255 /\ Free(Around(p, CornerSweep(p, dir)), p))
    BY <1>3, <1>5, <2>2 DEF rotate_piece
  <2> QED BY <2>1, <2>2
<1> QED BY <1>1, <1>4, <1>5
-----------------------------------------------------------------------------
(* Clearing lines. *)

(* What check_lineclear relies on before each row it looks at. *)
ScanOK(s) ==
  /\ s = [cells |-> s.cells, row |-> s.row]
  /\ s.cells \subseteq Cell /\ s.cells \cap (Columns \X Sky) = {}
  /\ s.row \in Int /\ s.row >= -1

(* Complete rows are only among the next n that it looks at. *)
OnlyAhead(s, n) ==
  \A row \in Rows : row < s.row \/ row >= s.row + n => ~ Complete(s.cells, row)

(* The board is finite. *)
LEMMA CellFinite == IsFiniteSet(Cell) /\ \A cells \in SUBSET Cell : IsFiniteSet(cells)
<1>1. IsFiniteSet(Columns) /\ IsFiniteSet(Rows)
  BY BoardAssumption, FS_Interval DEF Columns, Rows
<1>2. IsFiniteSet(Cell)
  BY <1>1, FS_Product DEF Cell
<1> QED BY <1>2, FS_Subset

(* The cells of a row are as many as the columns. *)
LEMMA RowSize ==
  ASSUME NEW row \in Int
  PROVE  IsFiniteSet(Columns \X {row}) /\ Cardinality(Columns \X {row}) = Width
<1>1. IsFiniteSet(Columns) /\ Cardinality(Columns) = Width
  BY BoardAssumption, FS_Interval DEF Columns
<1> DEFINE f == [col \in Columns |-> <<col, row>>]
<1>2. f \in Bijection(Columns, Columns \X {row})
  <2>1. f \in [Columns -> Columns \X {row}]
    OBVIOUS
  <2>2. \A a, b \in Columns : f[a] = f[b] => a = b
    OBVIOUS
  <2>3. \A t \in Columns \X {row} : t[1] \in Columns /\ f[t[1]] = t
    OBVIOUS
  <2>4. f \in Injection(Columns, Columns \X {row})
    BY <2>1, <2>2 DEF Injection, IsInjective
  <2>5. f \in Surjection(Columns, Columns \X {row})
    BY <2>1, <2>3 DEF Surjection
  <2> QED BY <2>4, <2>5 DEF Bijection
<1>3. ExistsBijection(Columns, Columns \X {row})
  BY <1>2 DEF ExistsBijection
<1> QED BY <1>1, <1>3, FS_Bijection

(* On the board a row is complete when all of its cells are taken. *)
LEMMA CompleteOnBoard ==
  ASSUME NEW cells, NEW row \in Int, row >= 0
  PROVE  Complete(cells, row) <=> \A col \in Columns : <<col, row>> \in cells
BY DEF Complete

(* A row that is complete while the sky is clear lies below it.            *)
LEMMA CompleteBelow ==
  ASSUME NEW s, ScanOK(s), Complete(s.cells, s.row)
  PROVE  s.row \in 0 .. Height - 4 /\ \A col \in Columns : <<col, s.row>> \in s.cells
<1>1. 0 \in Columns /\ 1 \in Columns /\ Height - 1 \in Sky
  BY BoardAssumption DEF Columns, Sky
<1>2. s.row >= 0
  <2> SUFFICES ASSUME s.row < 0 PROVE FALSE
    BY DEF ScanOK
  <2>1. \A col \in Columns : col > 0 => <<col - 1, Height - 1>> \in s.cells
    <3>1. ~ (s.row >= 0)
      BY DEF ScanOK
    <3> QED BY <3>1 DEF Complete
  <2>2. <<1 - 1, Height - 1>> \in s.cells
    BY <1>1, <2>1
  <2>3. <<1 - 1, Height - 1>> \in Columns \X Sky
    BY <1>1
  <2> QED BY <2>2, <2>3 DEF ScanOK
<1>3. \A col \in Columns : <<col, s.row>> \in s.cells
  BY <1>2 DEF Complete
<1>4. <<0, s.row>> \in s.cells
  BY <1>1, <1>3
<1>5. s.row \in Rows
  BY <1>4 DEF ScanOK, Cell
<1>6. s.row \notin Sky
  BY <1>1, <1>4 DEF ScanOK
<1>7. s.row \in 0 .. Height - 4
  BY <1>5, <1>6, BoardAssumption DEF Rows, Sky
<1> QED BY <1>3, <1>7

(* Cells that the shift moves to one place come from one place. *)
LEMMA SameShift ==
  ASSUME NEW a, NEW b, NEW i \in Int, NEW j \in Int, NEW row \in Int,
         (IF i < row THEN <<a, i>> ELSE <<a, i + 1>>) = (IF j < row THEN <<b, j>> ELSE <<b, j + 1>>)
  PROVE  a = b /\ i = j
<1>1. CASE i < row /\ j < row
  BY <1>1
<1>2. CASE i < row /\ ~ (j < row)
  <2>1. <<a, i>> = <<b, j + 1>>
    BY <1>2
  <2> QED BY <1>2, <2>1
<1>3. CASE ~ (i < row) /\ j < row
  <2>1. <<a, i + 1>> = <<b, j>>
    BY <1>3
  <2> QED BY <1>3, <2>1
<1>4. CASE ~ (i < row) /\ ~ (j < row)
  <2>1. <<a, i + 1>> = <<b, j + 1>>
    BY <1>4
  <2> QED BY <2>1
<1> QED BY <1>1, <1>2, <1>3, <1>4

(* Clearing a complete row takes that row away: what remains corresponds   *)
(* to the other cells, one by one.                                         *)
LEMMA ClearedSize ==
  ASSUME NEW cells \in SUBSET Cell, cells \cap (Columns \X Sky) = {},
         NEW row \in 0 .. Height - 4, \A col \in Columns : <<col, row>> \in cells
  PROVE  Cardinality(Cleared(cells, row)) = Cardinality(cells) - Width
<1> DEFINE line == Columns \X {row}
           new == Cleared(cells, row)
           rest == cells \ line
           f == [cell \in new |-> IF cell[2] < row THEN cell ELSE <<cell[1], cell[2] + 1>>]
<1>1. \A cell \in cells : /\ cell[1] \in Columns /\ cell[2] \in 0 .. Height - 4
                          /\ cell = <<cell[1], cell[2]>> /\ cell \in Cell
  <2> SUFFICES ASSUME NEW cell \in cells
               PROVE  /\ cell[1] \in Columns /\ cell[2] \in 0 .. Height - 4
                      /\ cell = <<cell[1], cell[2]>> /\ cell \in Cell
    OBVIOUS
  <2>1. cell \in Cell /\ cell[1] \in Columns /\ cell[2] \in Rows /\ cell = <<cell[1], cell[2]>>
    BY DEF Cell
  <2>2. cell[2] \notin Sky
    BY <2>1
  <2> QED BY <2>1, <2>2, BoardAssumption DEF Rows, Sky
<1>2. \A cell \in new : /\ cell \in Cell /\ cell[1] \in Columns /\ cell[2] \in Rows
                        /\ cell = <<cell[1], cell[2]>>
                        /\ cell[2] \in row .. Height - 4 => <<cell[1], cell[2] + 1>> \in cells
                        /\ cell[2] \notin row .. Height - 4 => cell \in cells
  BY DEF Cleared, Cell
<1> HIDE DEF new
<1>3. ASSUME NEW cell \in new PROVE cell[2] \in 0 .. Height - 4
  <2>1. cell[2] \in 0 .. Height - 1
    BY <1>2 DEF Rows
  <2>2. CASE cell[2] \in row .. Height - 4
    BY <2>1, <2>2
  <2>3. CASE cell[2] \notin row .. Height - 4
    BY <1>1, <1>2, <2>3
  <2> QED BY <2>2, <2>3
<1>4. ASSUME NEW cell \in new PROVE f[cell] \in rest
  <2>1. CASE cell[2] < row
    <3>1. cell[2] \notin row .. Height - 4 /\ f[cell] = cell
      BY <1>3, <2>1
    <3>2. cell \notin line
      BY <2>1, <1>3
    <3>3. cell \in cells
      BY <1>2, <3>1
    <3> QED BY <3>1, <3>2, <3>3
  <2>2. CASE ~ (cell[2] < row)
    <3>1. cell[2] \in row .. Height - 4
      BY <1>3, <2>2
    <3>2. f[cell] = <<cell[1], cell[2] + 1>> /\ f[cell] \in cells
      BY <1>2, <2>2, <3>1
    <3>3. f[cell] \notin line
      BY <3>1, <3>2
    <3> QED BY <3>2, <3>3
  <2> QED BY <2>1, <2>2
<1>5. ASSUME NEW a \in new, NEW b \in new, f[a] = f[b] PROVE a = b
  <2>1. /\ a = <<a[1], a[2]>> /\ b = <<b[1], b[2]>>
        /\ a[2] \in 0 .. Height - 4 /\ b[2] \in 0 .. Height - 4
    BY <1>2, <1>3
  <2>2. /\ f[a] = IF a[2] < row THEN <<a[1], a[2]>> ELSE <<a[1], a[2] + 1>>
        /\ f[b] = IF b[2] < row THEN <<b[1], b[2]>> ELSE <<b[1], b[2] + 1>>
    BY <2>1
  <2> HIDE DEF f
  <2>3. (IF a[2] < row THEN <<a[1], a[2]>> ELSE <<a[1], a[2] + 1>>)
        = (IF b[2] < row THEN <<b[1], b[2]>> ELSE <<b[1], b[2] + 1>>)
    BY <1>5, <2>2
  <2>4. a[1] = b[1] /\ a[2] = b[2]
    BY <2>1, <2>3, SameShift
  <2> QED BY <2>1, <2>4
<1>6. ASSUME NEW cell \in rest PROVE \E c \in new : f[c] = cell
  <2>1. /\ cell \in cells /\ cell[1] \in Columns /\ cell[2] \in 0 .. Height - 4
        /\ cell = <<cell[1], cell[2]>> /\ cell[2] # row /\ cell \in Cell
    BY <1>1
  <2>2. CASE cell[2] < row
    <3>1. cell \in new
      BY <2>1, <2>2 DEF new, Cleared, Cell
    <3> QED BY <2>2, <3>1
  <2>3. CASE cell[2] > row
    <3> DEFINE c == <<cell[1], cell[2] - 1>>
    <3>1. c \in Cell /\ c[1] = cell[1] /\ c[2] = cell[2] - 1 /\ c[2] \in row .. Height - 4
      BY <2>1, <2>3, BoardAssumption DEF Cell, Rows
    <3>2. <<c[1], c[2] + 1>> = cell
      BY <2>1, <3>1
    <3>3. c \in new
      BY <2>1, <3>1, <3>2 DEF new, Cleared, Cell
    <3>4. f[c] = cell
      BY <3>1, <3>2, <3>3
    <3> QED BY <3>3, <3>4
  <2> QED BY <2>1, <2>2, <2>3
<1>7. f \in Bijection(new, rest)
  <2>1. f \in [new -> rest]
    BY <1>4
  <2>2. f \in Injection(new, rest)
    BY <1>5, <2>1 DEF Injection, IsInjective
  <2>3. f \in Surjection(new, rest)
    BY <1>6, <2>1 DEF Surjection
  <2> QED BY <2>2, <2>3 DEF Bijection
<1>8. ExistsBijection(new, rest)
  BY <1>7 DEF ExistsBijection
<1>9. IsFiniteSet(new) /\ IsFiniteSet(cells)
  BY CellFinite DEF new, Cleared, Cell
<1>10. Cardinality(rest) = Cardinality(new)
  BY <1>8, <1>9, FS_Bijection
<1>11. line \subseteq cells
  OBVIOUS
<1>12. IsFiniteSet(line) /\ Cardinality(line) = Width
  BY RowSize
<1>13. Cardinality(rest) = Cardinality(cells) - Cardinality(cells \cap line)
  BY <1>9, FS_Difference
<1>14. cells \cap line = line
  BY <1>11
<1> QED BY <1>10, <1>12, <1>13, <1>14 DEF new

(* One row looked at: nothing below it changes, one line leaves at most,   *)
(* and there is one row less that may be complete.                         *)
LEMMA Scanned ==
  ASSUME NEW s, ScanOK(s), NEW n \in Nat, n > 0, OnlyAhead(s, n)
  PROVE  /\ ScanOK(Scan(s)) /\ OnlyAhead(Scan(s), n - 1)
         /\ Scan(s).row >= s.row
         /\ \A cell \in Cell :
              cell[2] < s.row => (cell \in Scan(s).cells <=> cell \in s.cells)
         /\ \/ Scan(s).cells = s.cells
            \/ Cardinality(Scan(s).cells) = Cardinality(s.cells) - Width
<1> DEFINE cells == s.cells
           row == s.row
<1>1. /\ s = [cells |-> cells, row |-> row] /\ cells \subseteq Cell
      /\ cells \cap (Columns \X Sky) = {} /\ row \in Int /\ row >= -1
  BY DEF ScanOK
<1>2. CASE Complete(cells, row)
  <2> DEFINE new == Cleared(cells, row)
  <2>1. row \in 0 .. Height - 4 /\ \A col \in Columns : <<col, row>> \in cells
    BY <1>2, CompleteBelow
  <2>2. Scan(s) = [cells |-> new, row |-> row]
    BY <1>1, <1>2 DEF Scan
  <2>3. new \subseteq Cell
    BY DEF Cleared, Cell
  <2>4. \A cell \in Cell : cell[2] \notin row .. Height - 4 => (cell \in new <=> cell \in cells)
    BY DEF Cleared, Cell
  <2>5. \A cell \in Cell :
          cell[2] \in row .. Height - 4 => (cell \in new <=> <<cell[1], cell[2] + 1>> \in cells)
    BY DEF Cleared, Cell
  <2>6. new \cap (Columns \X Sky) = {}
    <3> SUFFICES ASSUME NEW cell \in new, cell \in Columns \X Sky PROVE FALSE
      OBVIOUS
    <3>1. cell \in Cell /\ cell[2] \in Sky
      BY <2>3
    <3>2. cell[2] \notin row .. Height - 4
      BY <3>1, BoardAssumption DEF Sky
    <3>3. cell \in cells
      BY <2>4, <3>1, <3>2
    <3> QED BY <1>1, <3>3
  <2>7. ASSUME NEW r \in Rows, r < row \/ r >= row + (n - 1)
        PROVE  ~ Complete(new, r)
    <3>1. r \in 0 .. Height - 1 /\ row \in Int
      BY <2>1 DEF Rows
    <3>2. CASE r < row
      <4>1. \A col \in Columns : <<col, r>> \in new <=> <<col, r>> \in cells
        <5> TAKE col \in Columns
        <5>1. <<col, r>> \in Cell /\ <<col, r>>[2] \notin row .. Height - 4
          BY <3>1, <3>2 DEF Cell
        <5> QED BY <2>4, <5>1
      <4>2. ~ Complete(cells, r)
        BY <3>2 DEF OnlyAhead
      <4> QED BY <3>1, <4>1, <4>2 DEF Complete
    <3>3. CASE r >= row /\ r <= Height - 4
      <4>1. r + 1 \in Rows /\ r + 1 >= row + n
        BY <2>1, <2>7, <3>1, <3>3, BoardAssumption DEF Rows
      <4>2. ~ Complete(cells, r + 1)
        BY <4>1 DEF OnlyAhead
      <4>3. \A col \in Columns : <<col, r>> \in new <=> <<col, r + 1>> \in cells
        <5> TAKE col \in Columns
        <5>1. <<col, r>> \in Cell /\ <<col, r>>[2] \in row .. Height - 4
          BY <3>1, <3>3 DEF Cell
        <5> QED BY <2>5, <5>1
      <4>4. Complete(new, r) => Complete(cells, r + 1)
        <5>1. r \in Int /\ r >= 0 /\ r + 1 \in Int /\ r + 1 >= 0
          BY <3>1
        <5>2. Complete(new, r) <=> \A col \in Columns : <<col, r>> \in new
          BY <5>1, CompleteOnBoard
        <5>3. Complete(cells, r + 1) <=> \A col \in Columns : <<col, r + 1>> \in cells
          BY <5>1, CompleteOnBoard
        <5> QED BY <4>3, <5>2, <5>3
      <4> QED BY <4>2, <4>4
    <3>4. CASE r > Height - 4
      <4>1. 0 \in Columns /\ r \in Sky
        BY <3>1, <3>4, BoardAssumption DEF Columns, Sky
      <4>2. <<0, r>> \notin new
        BY <2>6, <4>1
      <4> QED BY <3>1, <4>1, <4>2 DEF Complete
    <3> QED BY <2>1, <2>7, <3>1, <3>2, <3>3, <3>4, BoardAssumption
  <2>8. Cardinality(new) = Cardinality(cells) - Width
    BY <1>1, <2>1, ClearedSize
  <2> HIDE DEF new
  <2>9. ScanOK(Scan(s))
    BY <1>1, <2>2, <2>3, <2>6 DEF ScanOK
  <2>10. OnlyAhead(Scan(s), n - 1)
    BY <2>2, <2>7 DEF OnlyAhead
  <2>11. \A cell \in Cell : cell[2] < row => (cell \in new <=> cell \in cells)
    <3> TAKE cell \in Cell
    <3> HAVE cell[2] < row
    <3>1. cell[2] \in Int
      BY DEF Cell, Rows
    <3>2. cell[2] \notin row .. Height - 4
      BY <1>1, <3>1
    <3> QED BY <2>4, <3>2
  <2> QED BY <1>1, <2>2, <2>8, <2>9, <2>10, <2>11
<1>3. CASE ~ Complete(cells, row)
  <2>1. Scan(s) = [cells |-> cells, row |-> row + 1]
    BY <1>1, <1>3 DEF Scan
  <2>2. ScanOK(Scan(s))
    BY <1>1, <2>1 DEF ScanOK
  <2>3. ASSUME NEW r \in Rows, r < row + 1 \/ r >= (row + 1) + (n - 1)
        PROVE  ~ Complete(cells, r)
    <3>1. r \in Int
      BY DEF Rows
    <3>2. CASE r = row
      BY <1>3, <3>2
    <3>3. CASE r < row \/ r >= row + n
      BY <3>3 DEF OnlyAhead
    <3> QED BY <1>1, <2>3, <3>1, <3>2, <3>3
  <2>4. OnlyAhead(Scan(s), n - 1)
    BY <2>1, <2>3 DEF OnlyAhead
  <2> QED BY <1>1, <2>1, <2>2, <2>4
<1> QED BY <1>2, <1>3

(* All three rows looked at: no row is complete any more, nothing below    *)
(* them has changed, and up to three lines have left.                      *)
LEMMA AllScanned ==
  ASSUME NEW cells \in SUBSET Cell, cells \cap (Columns \X Sky) = {},
         NEW row \in Rows,
         \A r \in Rows : r \notin row - 1 .. row + 1 => ~ Complete(cells, r)
  PROVE  LET new == LinesCleared(cells, row)
         IN  /\ new \subseteq Cell /\ new \cap (Columns \X Sky) = {}
             /\ \A r \in Rows : ~ Complete(new, r)
             /\ \A cell \in Cell : cell[2] < row - 1 => (cell \in new <=> cell \in cells)
             /\ \E lines \in 0 .. 3 : Cardinality(new) = Cardinality(cells) - Width * lines
<1> DEFINE s0 == [cells |-> cells, row |-> row - 1]
           s1 == Scan(s0)
           s2 == Scan(s1)
           s3 == Scan(s2)
<1>1. row \in Int /\ row >= 0
  BY BoardAssumption DEF Rows
<1>2. ScanOK(s0)
  BY <1>1 DEF ScanOK
<1>3. OnlyAhead(s0, 3)
  <2> SUFFICES ASSUME NEW r \in Rows, r < row - 1 \/ r >= (row - 1) + 3
               PROVE  ~ Complete(cells, r)
    BY DEF OnlyAhead
  <2>1. r \in Int
    BY DEF Rows
  <2> QED BY <1>1, <2>1
<1>4. s0.cells = cells /\ s0.row = row - 1
  OBVIOUS
<1>5. LinesCleared(cells, row) = s3.cells
  BY DEF LinesCleared
<1> HIDE DEF s0
<1>6. /\ ScanOK(s1) /\ OnlyAhead(s1, 2) /\ s1.row >= s0.row
      /\ \A cell \in Cell : cell[2] < s0.row => (cell \in s1.cells <=> cell \in s0.cells)
      /\ s1.cells = s0.cells \/ Cardinality(s1.cells) = Cardinality(s0.cells) - Width
  <2>1. 3 \in Nat /\ 3 > 0 /\ 3 - 1 = 2
    OBVIOUS
  <2> QED BY <1>2, <1>3, <2>1, Scanned
<1> HIDE DEF s1
<1>7. /\ ScanOK(s2) /\ OnlyAhead(s2, 1) /\ s2.row >= s1.row
      /\ \A cell \in Cell : cell[2] < s1.row => (cell \in s2.cells <=> cell \in s1.cells)
      /\ s2.cells = s1.cells \/ Cardinality(s2.cells) = Cardinality(s1.cells) - Width
  <2>1. 2 \in Nat /\ 2 > 0 /\ 2 - 1 = 1
    OBVIOUS
  <2> QED BY <1>6, <2>1, Scanned
<1> HIDE DEF s2
<1>8. /\ ScanOK(s3) /\ OnlyAhead(s3, 0) /\ s3.row >= s2.row
      /\ \A cell \in Cell : cell[2] < s2.row => (cell \in s3.cells <=> cell \in s2.cells)
      /\ s3.cells = s2.cells \/ Cardinality(s3.cells) = Cardinality(s2.cells) - Width
  <2>1. 1 \in Nat /\ 1 > 0 /\ 1 - 1 = 0
    OBVIOUS
  <2> QED BY <1>7, <2>1, Scanned
<1> HIDE DEF s3
<1>9. \A r \in Rows : ~ Complete(s3.cells, r)
  <2> TAKE r \in Rows
  <2>1. r \in Int /\ s3.row \in Int
    BY <1>8 DEF ScanOK, Rows
  <2>2. r < s3.row \/ r >= s3.row + 0
    BY <2>1
  <2> QED BY <1>8, <2>2 DEF OnlyAhead
<1>10. ASSUME NEW cell \in Cell, cell[2] < row - 1
       PROVE  cell \in s3.cells <=> cell \in cells
  <2>1. cell[2] \in Int
    BY DEF Cell, Rows
  <2>2. s1.row \in Int /\ s2.row \in Int
    BY <1>6, <1>7 DEF ScanOK
  <2>3. cell[2] < s0.row /\ cell[2] < s1.row /\ cell[2] < s2.row
    BY <1>1, <1>4, <1>6, <1>7, <1>10, <2>1, <2>2
  <2> QED BY <1>4, <1>6, <1>7, <1>8, <2>3
<1>11. \E lines \in 0 .. 3 : Cardinality(s3.cells) = Cardinality(cells) - Width * lines
  <2>1. Cardinality(cells) \in Nat /\ Width \in Nat
    BY CellFinite, FS_CardinalityType, BoardAssumption
  <2>2. \/ Cardinality(s1.cells) = Cardinality(cells)
        \/ Cardinality(s1.cells) = Cardinality(cells) - Width
    BY <1>4, <1>6
  <2>3. \/ Cardinality(s2.cells) = Cardinality(cells)
        \/ Cardinality(s2.cells) = Cardinality(cells) - Width
        \/ Cardinality(s2.cells) = Cardinality(cells) - Width - Width
    BY <1>7, <2>1, <2>2
  <2>4. \/ Cardinality(s3.cells) = Cardinality(cells)
        \/ Cardinality(s3.cells) = Cardinality(cells) - Width
        \/ Cardinality(s3.cells) = Cardinality(cells) - Width - Width
        \/ Cardinality(s3.cells) = Cardinality(cells) - Width - Width - Width
    BY <1>8, <2>1, <2>3
  <2>5. Width * 0 = 0 /\ Width * 1 = Width /\ Width * 2 = Width + Width
        /\ Width * 3 = Width + Width + Width
    BY <2>1
  <2>6. /\ Cardinality(cells) - Width * 0 = Cardinality(cells)
        /\ Cardinality(cells) - Width * 1 = Cardinality(cells) - Width
        /\ Cardinality(cells) - Width * 2 = Cardinality(cells) - Width - Width
        /\ Cardinality(cells) - Width * 3 = Cardinality(cells) - Width - Width - Width
    BY <2>1, <2>5
  <2>7. 0 \in 0 .. 3 /\ 1 \in 0 .. 3 /\ 2 \in 0 .. 3 /\ 3 \in 0 .. 3
    OBVIOUS
  <2>8. CASE Cardinality(s3.cells) = Cardinality(cells)
    <3>1. Cardinality(s3.cells) = Cardinality(cells) - Width * 0
      BY <2>6, <2>8
    <3> QED BY <2>7, <3>1
  <2>9. CASE Cardinality(s3.cells) = Cardinality(cells) - Width
    <3>1. Cardinality(s3.cells) = Cardinality(cells) - Width * 1
      BY <2>6, <2>9
    <3> QED BY <2>7, <3>1
  <2>10. CASE Cardinality(s3.cells) = Cardinality(cells) - Width - Width
    <3>1. Cardinality(s3.cells) = Cardinality(cells) - Width * 2
      BY <2>6, <2>10
    <3> QED BY <2>7, <3>1
  <2>11. CASE Cardinality(s3.cells) = Cardinality(cells) - Width - Width - Width
    <3>1. Cardinality(s3.cells) = Cardinality(cells) - Width * 3
      BY <2>6, <2>11
    <3> QED BY <2>7, <3>1
  <2> QED BY <2>4, <2>8, <2>9, <2>10, <2>11
<1>12. s3.cells \subseteq Cell /\ s3.cells \cap (Columns \X Sky) = {}
  BY <1>8 DEF ScanOK
<1> QED BY <1>5, <1>9, <1>10, <1>11, <1>12
-----------------------------------------------------------------------------
(* The invariant. *)

(* Where the loop of drop_pieces is. *)
PhaseOK ==
  /\ phase = "tick" => current = 0
  /\ phase = "drop" => current \in 1 .. Len(pieces) + 1

(* The centres of the falling pieces are three rows apart, four between a  *)
(* piece that this drop has lowered and one that it has still to lower.    *)
Spaced ==
  \A j, k \in DOMAIN pieces :
    j < k => pieces[k].row - pieces[j].row >= IF j < current /\ current <= k THEN 4 ELSE 3

(* The drops since the last new piece have taken all pieces down.          *)
Low ==
  ~ game_over =>
    \A k \in DOMAIN pieces :
      pieces[k].row <= Height - 2 - simpwait - (IF k < current THEN 1 ELSE 0)

Inv ==
  /\ TypeOK /\ PhaseOK
  /\ PiecesInside /\ Spaced /\ Low
  /\ SkyClear /\ NoCompleteRow

(* Pieces that are spaced do not overlap. *)
LEMMA SpacedApart == TypeOK /\ Spaced => PiecesApart
<1> SUFFICES ASSUME TypeOK, Spaced, NEW j \in DOMAIN pieces, NEW k \in DOMAIN pieces, j # k
             PROVE  Cells(pieces[j]) \cap Cells(pieces[k]) = {}
  BY DEF PiecesApart
<1>1. pieces[j] \in Pieces /\ pieces[k] \in Pieces /\ j \in Int /\ k \in Int
      /\ pieces[j].row \in Int /\ pieces[k].row \in Int
  <2>1. pieces[j] \in Pieces /\ pieces[k] \in Pieces /\ j \in Int /\ k \in Int
    BY DEF TypeOK
  <2> QED BY <2>1, PieceFields DEF Rows
<1>2. CASE j < k
  <2>1. pieces[k].row - pieces[j].row >= 3
    BY <1>1, <1>2 DEF Spaced
  <2> QED BY <1>1, <2>1, FarApart
<1>3. CASE k < j
  <2>1. pieces[j].row - pieces[k].row >= 3
    BY <1>1, <1>3 DEF Spaced
  <2>2. Cells(pieces[k]) \cap Cells(pieces[j]) = {}
    BY <1>1, <2>1, FarApart
  <2> QED BY <2>2
<1> QED BY <1>1, <1>2, <1>3

(* A piece lowered, when there is room. *)
LEMMA Lowering ==
  ASSUME NEW p \in Pieces,
         NEW q, q = [p EXCEPT !.row = @ - 1], Free(Cells(q), p)
  PROVE  /\ q \in Pieces /\ q.row = p.row - 1
         /\ Cells(q) \subseteq Cell /\ Cells(q) \cap board \subseteq Cells(p)
<1>1. p.type \in {"straight", "corner"} /\ p.orient \in Orients[p.type]
      /\ p.col \in Columns /\ p.col \in Int /\ p.row \in Int
      /\ p = [type |-> p.type, orient |-> p.orient, col |-> p.col, row |-> p.row]
  BY PieceFields DEF Columns, Rows
<1>2. q = [type |-> p.type, orient |-> p.orient, col |-> p.col, row |-> p.row - 1]
  BY <1>1
<1>3. <<p.col, p.row - 1>> \in Cells(q)
  BY <1>1, <1>2, CentreTaken
<1>4. Cells(q) \subseteq Cell /\ Cells(q) \cap board \subseteq Cells(p)
  BY DEF Free, Cell
<1>5. p.row - 1 \in Rows
  BY <1>3, <1>4 DEF Cell
<1>6. q \in Pieces
  BY <1>1, <1>2, <1>5, PieceMade
<1> QED BY <1>2, <1>4, <1>6

(* The list after a command: each piece as it was, or moved. *)
LEMMA CommandedPieces ==
  ASSUME TypeOK, PiecesInside, NEW list \in Commanded
  PROVE  /\ list \in Seq(Pieces) /\ DOMAIN list = DOMAIN pieces /\ Len(list) = Len(pieces)
         /\ \A k \in DOMAIN pieces : Moved(pieces[k], list[k])
<1>1. \A k \in DOMAIN pieces : pieces[k] \in Pieces /\ Cells(pieces[k]) \subseteq Cell
  BY DEF TypeOK, PiecesInside, Cell
<1>2. \A k \in DOMAIN pieces : Moved(pieces[k], pieces[k])
  BY <1>1 DEF Moved
<1>3. CASE list = pieces
  BY <1>2, <1>3 DEF TypeOK
<1>4. ASSUME NEW j \in DOMAIN pieces, NEW p, Moved(pieces[j], p),
             list = [pieces EXCEPT ![j] = p]
      PROVE  /\ list \in Seq(Pieces) /\ DOMAIN list = DOMAIN pieces /\ Len(list) = Len(pieces)
             /\ \A k \in DOMAIN pieces : Moved(pieces[k], list[k])
  <2>1. pieces \in Seq(Pieces) /\ j \in 1 .. Len(pieces) /\ p \in Pieces
    BY <1>4 DEF TypeOK, Moved
  <2>2. list \in Seq(Pieces) /\ Len(list) = Len(pieces) /\ DOMAIN list = DOMAIN pieces
    BY <1>4, <2>1, ExceptSeq
  <2>3. \A k \in DOMAIN pieces : list[k] = IF k = j THEN p ELSE pieces[k]
    BY <1>4
  <2> QED BY <1>2, <1>4, <2>2, <2>3
<1>5. CASE \E k \in DOMAIN pieces, dir \in Directions :
             list = [pieces EXCEPT ![k] = slide_piece(@, dir)]
  <2>1. PICK k \in DOMAIN pieces, dir \in Directions :
          list = [pieces EXCEPT ![k] = slide_piece(pieces[k], dir)]
    BY <1>5
  <2>2. Moved(pieces[k], slide_piece(pieces[k], dir))
    BY <1>1, SlideMoves
  <2> QED BY <1>4, <2>1, <2>2
<1>6. CASE \E k \in DOMAIN pieces, dir \in Directions :
             list = [pieces EXCEPT ![k] = rotate_piece(@, dir)]
  <2>1. PICK k \in DOMAIN pieces, dir \in Directions :
          list = [pieces EXCEPT ![k] = rotate_piece(pieces[k], dir)]
    BY <1>6
  <2>2. Moved(pieces[k], rotate_piece(pieces[k], dir))
    BY <1>1, TurnMoves
  <2> QED BY <1>4, <2>1, <2>2
<1> QED BY <1>3, <1>5, <1>6 DEF Commanded

(* A new piece is wholly in the sky. *)
LEMMA DrawnInSky ==
  ASSUME NEW p \in Drawn
  PROVE  p \in Pieces /\ p.row = Height - 2 /\ Cells(p) \subseteq Cell
         /\ Cells(p) \subseteq Columns \X Sky
<1>1. p \in Pieces /\ p.row = Height - 2 /\ Cells(p) \subseteq Cell
  BY DEF Drawn, Cell
<1>2. ASSUME NEW cell \in Cells(p) PROVE cell \in Columns \X Sky
  <2>1. cell \in Columns \X Rows
    BY <1>1 DEF Cell
  <2>2. cell[2] \in (Height - 2) - 1 .. (Height - 2) + 1
    BY <1>1, PieceCells
  <2>3. cell[2] \in Sky
    BY <2>2, BoardAssumption DEF Sky
  <2> QED BY <2>1, <2>3
<1> QED BY <1>1, <1>2

(* A list without its element c. *)
LEMMA Removed ==
  ASSUME NEW S, NEW list \in Seq(S), NEW c \in 1 .. Len(list)
  PROVE  LET new == SubSeq(list, 1, c - 1) \o SubSeq(list, c + 1, Len(list))
         IN  /\ new \in Seq(S) /\ Len(new) = Len(list) - 1
             /\ \A k \in 1 .. Len(new) : new[k] = list[IF k < c THEN k ELSE k + 1]
<1> DEFINE a == SubSeq(list, 1, c - 1)
           b == SubSeq(list, c + 1, Len(list))
           new == a \o b
           n == Len(list)
<1>1. /\ a \in Seq(S) /\ Len(a) = c - 1
      /\ \A k \in 1 .. c - 1 : a[k] = list[k]
  OBVIOUS
<1>2. /\ b \in Seq(S) /\ Len(b) = n - c
      /\ \A k \in 1 .. n - c : b[k] = list[c + k]
  OBVIOUS
<1>3. c \in Int /\ n \in Nat /\ c >= 1 /\ c <= n
  OBVIOUS
<1> HIDE DEF a, b, n
<1>4. /\ new \in Seq(S) /\ Len(new) = Len(a) + Len(b)
      /\ \A k \in 1 .. Len(a) + Len(b) : new[k] = IF k <= Len(a) THEN a[k] ELSE b[k - Len(a)]
  BY <1>1, <1>2, ConcatProperties
<1> HIDE DEF new
<1>5. Len(new) = n - 1 /\ Len(a) + Len(b) = n - 1
  BY <1>1, <1>2, <1>3, <1>4
<1>6. ASSUME NEW k \in 1 .. n - 1 PROVE new[k] = list[IF k < c THEN k ELSE k + 1]
  <2>1. new[k] = IF k <= c - 1 THEN a[k] ELSE b[k - (c - 1)]
    BY <1>1, <1>4, <1>5
  <2>2. CASE k < c
    <3>1. k \in 1 .. c - 1
      BY <1>3, <2>2
    <3> QED BY <1>1, <2>1, <2>2, <3>1
  <2>3. CASE ~ (k < c)
    <3>1. k - (c - 1) \in 1 .. n - c /\ ~ (k <= c - 1) /\ c + (k - (c - 1)) = k + 1
      BY <1>3, <2>3
    <3>2. b[k - (c - 1)] = list[c + (k - (c - 1))]
      BY <1>2, <3>1
    <3> QED BY <2>1, <2>3, <3>1, <3>2
  <2> QED BY <2>2, <2>3
<1> QED BY <1>4, <1>5, <1>6 DEF n, new, a, b

(* What a landing does to the board. *)
LEMMA Landing ==
  ASSUME Inv, LandPiece
  PROVE  LET p == pieces[current]
             all == board \cup Cells(p)
         IN  /\ current \in 1 .. Len(pieces)
             /\ p \in Pieces /\ Cells(p) \subseteq Cell /\ all \subseteq Cell
             /\ board' \subseteq Cell
             /\ game_over' \in BOOLEAN
             /\ ~ game_over' => /\ board' \cap (Columns \X Sky) = {}
                               /\ \A r \in Rows : ~ Complete(board', r)
             /\ \A cell \in Cell : cell[2] < p.row - 1 => (cell \in board' <=> cell \in all)
             /\ \E lines \in 0 .. 3 : Cardinality(board') = Cardinality(all) - Width * lines
<1> DEFINE p == pieces[current]
           all == board \cup Cells(p)
<1>1. current \in 1 .. Len(pieces)
  <2>1. current \in Nat /\ current <= Len(pieces) /\ pieces \in Seq(Pieces) /\ phase = "drop"
    BY DEF LandPiece, Dropping, Inv, TypeOK
  <2>2. current \in 1 .. Len(pieces) + 1
    BY <2>1 DEF Inv, PhaseOK
  <2> QED BY <2>1, <2>2
<1>2. p \in Pieces /\ Cells(p) \subseteq Cell /\ all \subseteq Cell
  <2>1. p \in Pieces /\ board \subseteq Cell
    BY <1>1 DEF Inv, TypeOK, Cell
  <2>2. Cells(p) \subseteq Cell
    BY <1>1 DEF Inv, TypeOK, PiecesInside, Cell
  <2> QED BY <2>1, <2>2
<1>3. p.row \in Rows /\ p.row \in Int
  BY <1>2, PieceFields DEF Rows
<1>4. /\ ~ game_over
      /\ game_over' = Overflows(all, p.row)
      /\ board' = IF game_over' THEN all ELSE LinesCleared(all, p.row)
  BY DEF LandPiece, Dropping
<1>5. game_over' \in BOOLEAN
  BY <1>4 DEF Overflows
<1>6. CASE game_over'
  <2>1. board' = all
    BY <1>4, <1>6
  <2>2. Cardinality(all) = Cardinality(all) - Width * 0
    BY <1>2, CellFinite, FS_CardinalityType, BoardAssumption
  <2>3. 0 \in 0 .. 3
    OBVIOUS
  <2> HIDE DEF p, all
  <2> QED BY <1>1, <1>2, <1>5, <1>6, <2>1, <2>2, <2>3 DEF p, all
<1>7. CASE ~ game_over'
  <2>1. board' = LinesCleared(all, p.row)
    BY <1>4, <1>7
  <2>2. ASSUME NEW cell \in Cells(p)
        PROVE  cell[2] \in p.row - 1 .. p.row + 1
    BY <1>2, PieceCells
  <2>3. all \cap (Columns \X Sky) = {}
    <3>1. board \cap (Columns \X Sky) = {}
      BY <1>4 DEF Inv, SkyClear
    <3>2. CASE p.row >= Height - 4
      BY <1>4, <1>7, <3>2 DEF Overflows
    <3>3. CASE ~ (p.row >= Height - 4)
      <4>1. ASSUME NEW cell \in Cells(p), cell \in Columns \X Sky PROVE FALSE
        <5>1. cell[2] \in p.row - 1 .. p.row + 1 /\ cell[2] \in Height - 3 .. Height - 1
          BY <2>2, <4>1 DEF Sky
        <5> QED BY <1>3, <3>3, <5>1, BoardAssumption
      <4> QED BY <3>1, <4>1
    <3> QED BY <3>2, <3>3
  <2>4. ASSUME NEW r \in Rows, r \notin p.row - 1 .. p.row + 1
        PROVE  ~ Complete(all, r)
    <3>1. r \in Int /\ r >= 0
      BY DEF Rows
    <3>2. \A col \in Columns : <<col, r>> \notin Cells(p)
      <4> SUFFICES ASSUME NEW col \in Columns, <<col, r>> \in Cells(p) PROVE FALSE
        OBVIOUS
      <4>1. <<col, r>>[2] \in p.row - 1 .. p.row + 1
        BY <2>2
      <4> QED BY <2>4, <4>1
    <3>3. ~ Complete(board, r)
      BY <1>4 DEF Inv, NoCompleteRow
    <3>4. PICK col \in Columns : <<col, r>> \notin board
      BY <3>1, <3>3, CompleteOnBoard
    <3>5. <<col, r>> \notin all
      BY <3>2, <3>4
    <3> HIDE DEF all
    <3> QED BY <3>1, <3>5, CompleteOnBoard
  <2> DEFINE row == p.row
  <2>5. row \in Rows /\ all \in SUBSET Cell
    BY <1>2, <1>3
  <2>6. \A r \in Rows : r \notin row - 1 .. row + 1 => ~ Complete(all, r)
    BY <2>4
  <2> HIDE DEF all, row, p
  <2>7. LET new == LinesCleared(all, row)
        IN  /\ new \subseteq Cell /\ new \cap (Columns \X Sky) = {}
            /\ \A r \in Rows : ~ Complete(new, r)
            /\ \A cell \in Cell : cell[2] < row - 1 => (cell \in new <=> cell \in all)
            /\ \E lines \in 0 .. 3 : Cardinality(new) = Cardinality(all) - Width * lines
    BY <2>3, <2>5, <2>6, AllScanned
  <2> QED BY <1>1, <1>2, <1>5, <1>7, <2>1, <2>7 DEF all, row, p
<1> QED BY <1>6, <1>7
-----------------------------------------------------------------------------
(* Every step keeps the invariant, and buries pieces only as stated. *)

(* What a call does to the list: pieces move, and one may come at the end. *)
LEMMA TickList ==
  ASSUME Inv, NEW drop \in BOOLEAN, Tick(drop)
  PROVE  /\ pieces' \in Seq(Pieces)
         /\ \A k \in 1 .. Len(pieces) : k \in 1 .. Len(pieces') /\ Moved(pieces[k], pieces'[k])
         /\ \/ Len(pieces') = Len(pieces) /\ simpwait' = simpwait
            \/ /\ Len(pieces') = Len(pieces) + 1 /\ simpwait = 3 /\ simpwait' = 0
               /\ pieces'[Len(pieces')] \in Drawn
<1>1. PICK list \in Commanded :
        \/ pieces' = list /\ simpwait' = simpwait
        \/ /\ Rested /\ simpwait' = 0
           /\ \E piece \in Drawn : pieces' = Append(list, piece)
  BY DEF Tick
<1>2. /\ list \in Seq(Pieces) /\ Len(list) = Len(pieces) /\ DOMAIN pieces = 1 .. Len(pieces)
      /\ \A k \in DOMAIN pieces : Moved(pieces[k], list[k])
  BY CommandedPieces DEF Inv, TypeOK
<1>3. CASE pieces' = list /\ simpwait' = simpwait
  BY <1>2, <1>3
<1>4. CASE Rested /\ simpwait' = 0 /\ \E piece \in Drawn : pieces' = Append(list, piece)
  <2>1. PICK piece \in Drawn : pieces' = Append(list, piece)
    BY <1>4
  <2>2. piece \in Pieces
    BY DrawnInSky
  <2>3. /\ pieces' \in Seq(Pieces) /\ Len(pieces') = Len(pieces) + 1
        /\ pieces'[Len(pieces')] = piece
        /\ \A k \in 1 .. Len(pieces) : pieces'[k] = list[k]
    BY <1>2, <2>1, <2>2
  <2>4. simpwait = 3
    BY <1>4 DEF Rested, Inv, TypeOK
  <2>5. \A k \in 1 .. Len(pieces) : k \in 1 .. Len(pieces')
    BY <1>2, <2>3
  <2> QED BY <1>2, <1>4, <2>3, <2>4, <2>5
<1> QED BY <1>1, <1>3, <1>4

(* Rows of the pieces as numbers. *)
LEMMA RowsInt ==
  ASSUME NEW list \in Seq(Pieces)
  PROVE  \A k \in 1 .. Len(list) : list[k] \in Pieces /\ list[k].row \in Int
<1> TAKE k \in 1 .. Len(list)
<1>1. list[k] \in Pieces
  OBVIOUS
<1> QED BY <1>1, PieceFields DEF Rows

(* A call that drops or does not. *)
LEMMA TickKeeps ==
  ASSUME Inv, NEW drop \in BOOLEAN, Tick(drop)
  PROVE  Inv' /\ OnlyLinesBury
<1> DEFINE n == Len(pieces)
           m == Len(pieces')
<1>1. /\ phase = "tick" /\ current = 0 /\ ~ game_over
      /\ board' = board /\ game_over' = game_over /\ touchdown' = touchdown
      /\ \/ phase' = "drop" /\ current' = 1
         \/ phase' = phase /\ current' = current
  BY DEF Tick, Inv, PhaseOK, firstpiece
<1>2. /\ pieces \in Seq(Pieces) /\ n \in Nat /\ DOMAIN pieces = 1 .. n
      /\ simpwait \in 0 .. 3 /\ board \subseteq Columns \X Rows
      /\ game_over \in BOOLEAN /\ touchdown \in BOOLEAN
  BY DEF Inv, TypeOK
<1>3. /\ pieces' \in Seq(Pieces) /\ m \in Nat /\ DOMAIN pieces' = 1 .. m
      /\ \A k \in 1 .. n : k \in 1 .. m /\ Moved(pieces[k], pieces'[k])
      /\ \/ m = n /\ simpwait' = simpwait
         \/ m = n + 1 /\ simpwait = 3 /\ simpwait' = 0 /\ pieces'[m] \in Drawn
  BY TickList
<1> HIDE DEF n, m
<1>16. \/ m = n /\ simpwait' = simpwait
       \/ m = n + 1 /\ simpwait = 3 /\ simpwait' = 0
  BY <1>3
<1>17. simpwait' \in 0 .. 3
  BY <1>2, <1>16
<1>4. /\ \A k \in 1 .. n : pieces[k].row \in Int
      /\ \A k \in 1 .. m : pieces'[k].row \in Int
  BY <1>2, <1>3, RowsInt DEF n, m
<1>5. \A k \in 1 .. n : pieces'[k].row = pieces[k].row
  BY <1>3 DEF Moved
<1>6. \A k \in 1 .. m : k \in 1 .. n \/ (k = n + 1 /\ m = n + 1)
  BY <1>2, <1>16
<1>7. m = n + 1 => /\ pieces'[m].row = Height - 2
                   /\ Cells(pieces'[m]) \subseteq Cell
                   /\ Cells(pieces'[m]) \subseteq Columns \X Sky
  <2>1. ASSUME m = n + 1 PROVE pieces'[m] \in Drawn
    BY <1>2, <1>3, <2>1
  <2> QED BY <2>1, DrawnInSky
<1>8. \A k \in 1 .. n : pieces[k].row <= Height - 2 - simpwait
  <2> SUFFICES ASSUME NEW k \in 1 .. n PROVE pieces[k].row <= Height - 2 - simpwait
    OBVIOUS
  <2>1. pieces[k].row <= Height - 2 - simpwait - (IF k < current THEN 1 ELSE 0)
    BY <1>1, <1>2 DEF Inv, Low
  <2>2. ~ (k < current)
    BY <1>1, <1>2
  <2> QED BY <1>2, <1>4, <2>1, <2>2, BoardAssumption
<1>9. TypeOK'
  <2>1. current' \in Nat /\ phase' \in {"tick", "drop"}
    BY <1>1
  <2> QED BY <1>1, <1>2, <1>3, <1>17, <2>1 DEF TypeOK
<1>10. PhaseOK'
  <2>1. CASE phase' = "drop" /\ current' = 1
    <3>1. current' \in 1 .. Len(pieces') + 1
      BY <1>3, <2>1 DEF m
    <3> QED BY <2>1, <3>1 DEF PhaseOK
  <2>2. CASE phase' = phase /\ current' = current
    BY <1>1, <2>2 DEF PhaseOK
  <2> QED BY <1>1, <2>1, <2>2
<1>11. PiecesInside'
  <2> SUFFICES ASSUME NEW k \in 1 .. m PROVE Cells(pieces'[k]) \subseteq Columns \X Rows
    BY <1>3 DEF PiecesInside
  <2>1. CASE k \in 1 .. n
    BY <1>3, <2>1 DEF Moved, Cell
  <2>2. CASE k = n + 1 /\ m = n + 1
    BY <1>7, <2>2 DEF Cell
  <2> QED BY <1>6, <2>1, <2>2
<1>12. Spaced'
  <2> SUFFICES ASSUME NEW j \in 1 .. m, NEW k \in 1 .. m, j < k
               PROVE  pieces'[k].row - pieces'[j].row
                      >= IF j < current' /\ current' <= k THEN 4 ELSE 3
    BY <1>3 DEF Spaced
  <2>1. ~ (j < current')
    BY <1>1
  <2>2. j \in 1 .. n
    BY <1>6
  <2>3. pieces'[k].row - pieces'[j].row >= 3
    <3>1. CASE k \in 1 .. n
      <4>1. pieces[k].row - pieces[j].row >= IF j < current /\ current <= k THEN 4 ELSE 3
        BY <1>2, <2>2, <3>1 DEF Inv, Spaced
      <4>2. ~ (j < current)
        BY <1>1
      <4> QED BY <1>5, <2>2, <3>1, <4>1, <4>2
    <3>2. CASE k = n + 1 /\ m = n + 1
      <4>1. simpwait = 3 /\ pieces'[k].row = Height - 2
        BY <1>2, <1>16, <1>7, <3>2
      <4>2. pieces'[j].row <= Height - 5
        BY <1>5, <1>4, <1>8, <2>2, <4>1, BoardAssumption
      <4> QED BY <1>4, <4>1, <4>2, BoardAssumption
    <3> QED BY <1>6, <3>1, <3>2
  <2> QED BY <2>1, <2>3
<1>13. Low'
  <2> SUFFICES ASSUME NEW k \in 1 .. m
               PROVE  pieces'[k].row <= Height - 2 - simpwait' - (IF k < current' THEN 1 ELSE 0)
    BY <1>3 DEF Low
  <2>1. ~ (k < current')
    BY <1>1
  <2>2. pieces'[k].row <= Height - 2 - simpwait'
    <3>1. CASE k \in 1 .. n
      <4>1. pieces'[k].row \in Int /\ pieces'[k].row <= Height - 2 - simpwait
        BY <1>4, <1>5, <1>8, <3>1
      <4> QED BY <1>2, <1>16, <4>1, BoardAssumption
    <3>2. CASE k = n + 1 /\ m = n + 1
      BY <1>2, <1>16, <1>7, <3>2, BoardAssumption
    <3> QED BY <1>6, <3>1, <3>2
  <2>3. simpwait' \in Int
    BY <1>17
  <2> QED BY <1>4, <2>1, <2>2, <2>3, BoardAssumption
<1>14. SkyClear' /\ NoCompleteRow'
  BY <1>1 DEF Inv, SkyClear, NoCompleteRow, Complete
<1>15. OnlyLinesBury
  <2>1. ~ LandPiece
    BY <1>1 DEF LandPiece, Dropping
  <2>2. ASSUME NEW k \in 1 .. m, Cells(pieces'[k]) \cap board' # {}
        PROVE  k \in 1 .. n /\ Cells(pieces[k]) \cap board # {}
    <3>1. CASE k \in 1 .. n
      BY <1>1, <1>3, <2>2, <3>1 DEF Moved
    <3>2. CASE k = n + 1 /\ m = n + 1
      <4>1. board \cap (Columns \X Sky) = {}
        BY <1>1 DEF Inv, SkyClear
      <4> QED BY <1>1, <1>7, <2>2, <3>2, <4>1
    <3> QED BY <1>6, <3>1, <3>2
  <2> QED BY <1>2, <1>3, <2>1, <2>2 DEF OnlyLinesBury, Buried
<1> QED BY <1>9, <1>10, <1>11, <1>12, <1>13, <1>14, <1>15 DEF Inv

(* One piece a row down. *)
LEMMA LowerKeeps ==
  ASSUME Inv, LowerPiece
  PROVE  Inv' /\ OnlyLinesBury
<1> DEFINE n == Len(pieces)
           c == current
           p == pieces[c]
           q == Lowered
<1>1. /\ phase = "drop" /\ ~ game_over /\ Free(Cells(q), p)
      /\ pieces' = [pieces EXCEPT ![c] = q] /\ current' = c + 1
      /\ board' = board /\ game_over' = game_over /\ simpwait' = simpwait
      /\ phase' = phase /\ touchdown' = touchdown /\ current <= Len(pieces)
  BY DEF LowerPiece, Dropping
<1>2. /\ pieces \in Seq(Pieces) /\ n \in Nat /\ DOMAIN pieces = 1 .. n
      /\ simpwait \in 0 .. 3 /\ board \subseteq Columns \X Rows
      /\ game_over \in BOOLEAN /\ touchdown \in BOOLEAN
  BY DEF Inv, TypeOK
<1>3. c \in 1 .. n /\ c \in Int
  BY <1>1, <1>2 DEF Inv, PhaseOK
<1>4. p \in Pieces
  BY <1>2, <1>3
<1>5. q = [p EXCEPT !.row = @ - 1]
  BY DEF Lowered
<1> HIDE DEF n, c, q
<1>6. /\ q \in Pieces /\ q.row = p.row - 1
      /\ Cells(q) \subseteq Cell /\ Cells(q) \cap board \subseteq Cells(p)
  <2> HIDE DEF p
  <2> QED BY <1>1, <1>4, <1>5, Lowering
<1> HIDE DEF p
<1>7. /\ pieces' \in Seq(Pieces) /\ Len(pieces') = n /\ DOMAIN pieces' = 1 .. n
      /\ pieces'[c] = q
      /\ \A k \in 1 .. n : k # c => pieces'[k] = pieces[k]
  <2>1. pieces' \in Seq(Pieces) /\ Len(pieces') = Len(pieces) /\ DOMAIN pieces' = DOMAIN pieces
    BY <1>1, <1>2, <1>3, <1>6, ExceptSeq DEF n
  <2>2. pieces'[c] = q /\ \A k \in 1 .. n : k # c => pieces'[k] = pieces[k]
    BY <1>1, <1>2, <1>3
  <2> QED BY <1>2, <2>1, <2>2 DEF n
<1>8. /\ \A k \in 1 .. n : pieces[k].row \in Int
      /\ pieces'[c].row = pieces[c].row - 1
      /\ \A k \in 1 .. n : k # c => pieces'[k].row = pieces[k].row
  <2>1. \A k \in 1 .. n : pieces[k].row \in Int
    BY <1>2, RowsInt DEF n
  <2> QED BY <1>3, <1>6, <1>7, <2>1 DEF p
<1>9. TypeOK'
  <2>1. current' \in Nat /\ phase' \in {"tick", "drop"}
    BY <1>1, <1>3
  <2> QED BY <1>1, <1>2, <1>7, <2>1 DEF TypeOK
<1>10. PhaseOK'
  <2>1. current' \in 1 .. Len(pieces') + 1
    BY <1>1, <1>2, <1>3, <1>7
  <2>2. phase' = "drop"
    BY <1>1
  <2> QED BY <2>1, <2>2 DEF PhaseOK
<1>11. PiecesInside'
  <2> SUFFICES ASSUME NEW k \in 1 .. n PROVE Cells(pieces'[k]) \subseteq Columns \X Rows
    BY <1>7 DEF PiecesInside
  <2>1. CASE k = c
    BY <1>6, <1>7, <2>1 DEF Cell
  <2>2. CASE k # c
    BY <1>2, <1>7, <2>2 DEF Inv, PiecesInside
  <2> QED BY <2>1, <2>2
<1>12. Spaced'
  <2> SUFFICES ASSUME NEW j \in 1 .. n, NEW k \in 1 .. n, j < k
               PROVE  pieces'[k].row - pieces'[j].row >= IF j < c + 1 /\ c + 1 <= k THEN 4 ELSE 3
    BY <1>1, <1>7 DEF Spaced
  <2>1. pieces[k].row - pieces[j].row >= IF j < c /\ c <= k THEN 4 ELSE 3
    BY <1>2 DEF Inv, Spaced, c
  <2>2. CASE j = c
    BY <1>3, <1>8, <2>1, <2>2
  <2>3. CASE k = c
    BY <1>3, <1>8, <2>1, <2>3
  <2>4. CASE j # c /\ k # c
    BY <1>3, <1>8, <2>1, <2>4
  <2> QED BY <2>2, <2>3, <2>4
<1>13. Low'
  <2> SUFFICES ASSUME NEW k \in 1 .. n
               PROVE  pieces'[k].row <= Height - 2 - simpwait - (IF k < c + 1 THEN 1 ELSE 0)
    BY <1>1, <1>7 DEF Low
  <2>1. pieces[k].row <= Height - 2 - simpwait - (IF k < c THEN 1 ELSE 0)
    BY <1>1, <1>2 DEF Inv, Low, c
  <2>2. simpwait \in Int /\ Height \in Int
    BY <1>2, BoardAssumption
  <2>3. CASE k = c
    BY <1>3, <1>8, <2>1, <2>2, <2>3
  <2>4. CASE k # c
    BY <1>3, <1>8, <2>1, <2>2, <2>4
  <2> QED BY <2>3, <2>4
<1>14. SkyClear' /\ NoCompleteRow'
  BY <1>1 DEF Inv, SkyClear, NoCompleteRow, Complete
<1>15. OnlyLinesBury
  <2>1. ~ LandPiece
    BY <1>1 DEF LandPiece, c, p, q
  <2>2. ASSUME NEW k \in 1 .. n, Cells(pieces'[k]) \cap board' # {}
        PROVE  Cells(pieces[k]) \cap board # {}
    <3>1. CASE k = c
      BY <1>1, <1>6, <1>7, <2>2, <3>1 DEF p
    <3>2. CASE k # c
      BY <1>1, <1>7, <2>2, <3>2
    <3> QED BY <3>1, <3>2
  <2> QED BY <1>2, <1>7, <2>1, <2>2 DEF OnlyLinesBury, Buried
<1> QED BY <1>9, <1>10, <1>11, <1>12, <1>13, <1>14, <1>15 DEF Inv

(* One piece landed. *)
LEMMA LandKeeps ==
  ASSUME Inv, LandPiece
  PROVE  Inv' /\ OnlyLinesBury
<1> DEFINE n == Len(pieces)
           c == current
           p == pieces[c]
           all == board \cup Cells(p)
           old(k) == IF k < c THEN k ELSE k + 1
<1>1. /\ phase = "drop" /\ ~ game_over
      /\ current' = c /\ simpwait' = simpwait
      /\ phase' = phase /\ touchdown' = TRUE
      /\ pieces' = SubSeq(pieces, 1, c - 1) \o SubSeq(pieces, c + 1, n)
  BY DEF LandPiece, Dropping
<1>2. /\ pieces \in Seq(Pieces) /\ n \in Nat /\ DOMAIN pieces = 1 .. n
      /\ simpwait \in 0 .. 3 /\ Height \in Int
  BY BoardAssumption DEF Inv, TypeOK
<1>3. /\ c \in 1 .. n /\ p \in Pieces
      /\ board' \subseteq Cell /\ game_over' \in BOOLEAN
      /\ ~ game_over' => /\ board' \cap (Columns \X Sky) = {}
                        /\ \A r \in Rows : ~ Complete(board', r)
      /\ \A cell \in Cell : cell[2] < p.row - 1 => (cell \in board' <=> cell \in all)
  BY Landing
<1>4. /\ pieces' \in Seq(Pieces) /\ Len(pieces') = n - 1 /\ DOMAIN pieces' = 1 .. n - 1
      /\ \A k \in 1 .. n - 1 : pieces'[k] = pieces[old(k)]
  <2>1. /\ pieces' \in Seq(Pieces) /\ Len(pieces') = n - 1
        /\ \A k \in 1 .. Len(pieces') : pieces'[k] = pieces[old(k)]
    BY <1>1, <1>2, <1>3, Removed
  <2> QED BY <2>1
<1>5. \A k \in 1 .. n : pieces[k] \in Pieces /\ pieces[k].row \in Int
  BY <1>2, RowsInt
<1> HIDE DEF n, p, all, c
<1>6. \A k \in 1 .. n - 1 : old(k) \in 1 .. n /\ old(k) # c
  BY <1>2, <1>3
<1>7. TypeOK'
  <2>1. current' \in Nat /\ phase' \in {"tick", "drop"}
    BY <1>1, <1>3
  <2> QED BY <1>1, <1>2, <1>3, <1>4, <2>1 DEF TypeOK, Cell
<1>8. PhaseOK'
  <2>1. current' \in 1 .. Len(pieces') + 1
    BY <1>1, <1>2, <1>3, <1>4
  <2>2. phase' = "drop"
    BY <1>1
  <2> QED BY <2>1, <2>2 DEF PhaseOK
<1>9. PiecesInside'
  <2> SUFFICES ASSUME NEW k \in 1 .. n - 1 PROVE Cells(pieces'[k]) \subseteq Columns \X Rows
    BY <1>4 DEF PiecesInside
  <2> DEFINE o == old(k)
  <2>1. o \in 1 .. n /\ pieces'[k] = pieces[o]
    BY <1>4, <1>6
  <2> HIDE DEF o
  <2> QED BY <1>2, <2>1 DEF Inv, PiecesInside
<1>10. Spaced'
  <2> SUFFICES ASSUME NEW j \in 1 .. n - 1, NEW k \in 1 .. n - 1, j < k
               PROVE  pieces'[k].row - pieces'[j].row >= IF j < c /\ c <= k THEN 4 ELSE 3
    BY <1>1, <1>4 DEF Spaced
  <2> DEFINE a == old(j)
             b == old(k)
  <2>1. /\ a \in 1 .. n /\ b \in 1 .. n /\ a < b
        /\ j < c => a < c
        /\ c <= k => c <= b
    BY <1>2, <1>3
  <2>2. pieces'[j] = pieces[a] /\ pieces'[k] = pieces[b]
    BY <1>4
  <2> HIDE DEF a, b
  <2>3. pieces[b].row - pieces[a].row >= IF a < c /\ c <= b THEN 4 ELSE 3
    BY <1>2, <2>1 DEF Inv, Spaced, c
  <2>4. pieces[b].row \in Int /\ pieces[a].row \in Int
    BY <1>5, <2>1
  <2> QED BY <2>1, <2>2, <2>3, <2>4
<1>11. Low'
  <2> SUFFICES ASSUME NEW k \in 1 .. n - 1
               PROVE  pieces'[k].row <= Height - 2 - simpwait - (IF k < c THEN 1 ELSE 0)
    BY <1>1, <1>4 DEF Low
  <2> DEFINE b == old(k)
  <2>1. b \in 1 .. n /\ pieces'[k] = pieces[b] /\ (k < c => b < c)
    BY <1>4, <1>6
  <2> HIDE DEF b
  <2>2. pieces[b].row <= Height - 2 - simpwait - (IF b < c THEN 1 ELSE 0)
    BY <1>1, <1>2, <2>1 DEF Inv, Low, c
  <2>3. pieces[b].row \in Int /\ simpwait \in Int
    BY <1>2, <1>5, <2>1
  <2> QED BY <1>2, <2>1, <2>2, <2>3
<1>12. SkyClear' /\ NoCompleteRow'
  BY <1>3 DEF SkyClear, NoCompleteRow
<1>13. OnlyLinesBury
  <2> SUFFICES ASSUME NEW k \in 1 .. n - 1, Cells(pieces'[k]) \cap board' # {}
               PROVE  Cells(pieces[old(k)]) \cap board # {} \/ (k >= c /\ board' # all)
    BY <1>4 DEF OnlyLinesBury, Buried, c, p, all
  <2> DEFINE b == old(k)
  <2>1. b \in 1 .. n /\ b # c /\ pieces'[k] = pieces[b]
    BY <1>4, <1>6
  <2>2. (k < c => b < c) /\ (~ (k < c) => c < b)
    BY <1>3
  <2> HIDE DEF b
  <2>3. pieces[b] \in Pieces /\ pieces[c] \in Pieces /\ p = pieces[c]
    BY <1>3, <1>5, <2>1 DEF p, c
  <2>4. Cells(pieces[b]) \cap Cells(p) = {}
    <3>1. PiecesApart
      BY SpacedApart DEF Inv
    <3> QED BY <1>2, <1>3, <2>1, <2>3, <3>1 DEF PiecesApart
  <2>5. PICK cell \in Cells(pieces[b]) : cell \in board'
    BY <2>1
  <2>6. CASE k < c
    <3>1. pieces[c].row - pieces[b].row >= 3
      <4>1. pieces[c].row - pieces[b].row >= IF b < c /\ c <= c THEN 4 ELSE 3
        BY <1>2, <1>3, <2>1, <2>2, <2>6 DEF Inv, Spaced, c
      <4>2. pieces[c].row \in Int /\ pieces[b].row \in Int
        BY <1>3, <1>5, <2>1
      <4> QED BY <4>1, <4>2
    <3>2. cell[2] \in pieces[b].row - 1 .. pieces[b].row + 1
      BY <2>3, <2>5, PieceCells
    <3>3. cell[2] < p.row - 1
      BY <1>3, <1>5, <2>1, <2>3, <3>1, <3>2
    <3>4. cell \in Cell
      BY <1>3, <2>5
    <3>5. cell \in all
      BY <1>3, <2>5, <3>3, <3>4
    <3>6. cell \in board
      BY <2>4, <2>5, <3>5 DEF all
    <3> QED BY <2>5, <3>6 DEF b
  <2>7. CASE ~ (k < c) /\ board' = all
    <3>1. cell \in board
      BY <2>4, <2>5, <2>7 DEF all
    <3> QED BY <2>5, <3>1 DEF b
  <2>8. CASE ~ (k < c) /\ board' # all
    BY <1>3, <2>8
  <2> QED BY <2>6, <2>7, <2>8
<1> QED BY <1>7, <1>8, <1>9, <1>10, <1>11, <1>12, <1>13 DEF Inv

(* The end of a drop. *)
LEMMA DoneKeeps ==
  ASSUME Inv, DropDone
  PROVE  Inv' /\ OnlyLinesBury
<1> DEFINE n == Len(pieces)
<1>1. /\ phase = "drop" /\ (current > n \/ game_over)
      /\ simpwait' = IF simpwait < 3 THEN simpwait + 1 ELSE 3
      /\ phase' = "tick" /\ current' = 0 /\ touchdown' = FALSE
      /\ board' = board /\ pieces' = pieces /\ game_over' = game_over
  BY DEF DropDone
<1>2. /\ pieces \in Seq(Pieces) /\ n \in Nat /\ DOMAIN pieces = 1 .. n
      /\ simpwait \in 0 .. 3 /\ Height \in Int /\ current \in Nat
      /\ \A k \in 1 .. n : pieces[k].row \in Int
  BY RowsInt, BoardAssumption DEF Inv, TypeOK
<1>3. TypeOK'
  <2>1. board \subseteq Columns \X Rows /\ game_over \in BOOLEAN
    BY DEF Inv, TypeOK
  <2>2. simpwait' \in 0 .. 3
    BY <1>1, <1>2
  <2>3. touchdown' \in BOOLEAN /\ phase' \in {"tick", "drop"} /\ current' \in Nat
    BY <1>1
  <2> QED BY <1>1, <1>2, <2>1, <2>2, <2>3 DEF TypeOK
<1>4. PhaseOK' /\ PiecesInside'
  BY <1>1 DEF Inv, PhaseOK, PiecesInside
<1>5. Spaced'
  <2> SUFFICES ASSUME NEW j \in 1 .. n, NEW k \in 1 .. n, j < k
               PROVE  pieces[k].row - pieces[j].row >= IF j < 0 /\ 0 <= k THEN 4 ELSE 3
    BY <1>1, <1>2 DEF Spaced
  <2>1. pieces[k].row - pieces[j].row >= IF j < current /\ current <= k THEN 4 ELSE 3
    BY <1>2 DEF Inv, Spaced
  <2> QED BY <1>2, <2>1
<1>6. Low'
  <2> SUFFICES ASSUME ~ game_over, NEW k \in 1 .. n
               PROVE  pieces[k].row <= Height - 2 - simpwait' - (IF k < 0 THEN 1 ELSE 0)
    BY <1>1, <1>2 DEF Low
  <2>1. pieces[k].row <= Height - 2 - simpwait - (IF k < current THEN 1 ELSE 0)
    BY <1>2 DEF Inv, Low
  <2>2. k < current
    BY <1>1, <1>2
  <2> QED BY <1>1, <1>2, <2>1, <2>2
<1>7. SkyClear' /\ NoCompleteRow'
  BY <1>1 DEF Inv, SkyClear, NoCompleteRow, Complete
<1>8. OnlyLinesBury
  <2>1. ~ LandPiece
    BY <1>1, <1>2 DEF LandPiece, Dropping
  <2> QED BY <1>1, <2>1 DEF OnlyLinesBury, Buried
<1> QED BY <1>3, <1>4, <1>5, <1>6, <1>7, <1>8 DEF Inv

(* A game that starts or ends, and a step in which nothing happens. *)
LEMMA GameKeeps ==
  ASSUME Inv, init_simptris \/ EndGame \/ UNCHANGED vars
  PROVE  Inv' /\ (init_simptris \/ EndGame => OnlyLinesBury)
<1>1. CASE init_simptris
  <2>1. /\ phase = "tick" /\ board' = {} /\ pieces' = <<>> /\ game_over' = FALSE
        /\ simpwait' = 0 /\ phase' = phase /\ current' = current /\ touchdown' = touchdown
    BY <1>1 DEF init_simptris
  <2>2. DOMAIN pieces' = {} /\ pieces' \in Seq(Pieces)
    BY <2>1
  <2>3. TypeOK' /\ PhaseOK'
    <3>1. board' \subseteq Columns \X Rows /\ simpwait' \in 0 .. 3
      BY <2>1
    <3>5. game_over' \in BOOLEAN
      BY <2>1
    <3>2. touchdown' \in BOOLEAN /\ phase' \in {"tick", "drop"} /\ current' \in Nat
      BY <2>1 DEF Inv, TypeOK
    <3>3. TypeOK'
      BY <2>2, <3>1, <3>2, <3>5 DEF TypeOK
    <3>4. PhaseOK'
      BY <2>1 DEF Inv, PhaseOK
    <3> QED BY <3>3, <3>4
  <2>4. PiecesInside' /\ Spaced' /\ Low' /\ SkyClear'
    BY <2>1, <2>2 DEF PiecesInside, Spaced, Low, SkyClear
  <2>5. NoCompleteRow'
    <3>1. 0 \in Columns
      BY BoardAssumption DEF Columns
    <3> QED BY <2>1, <3>1 DEF NoCompleteRow, Complete, Rows
  <2>6. OnlyLinesBury
    <3>1. ~ LandPiece
      BY <2>1 DEF LandPiece, Dropping
    <3> QED BY <2>2, <3>1 DEF OnlyLinesBury
  <2> QED BY <2>3, <2>4, <2>5, <2>6 DEF Inv
<1>2. CASE EndGame
  <2>1. /\ phase = "tick" /\ game_over' = TRUE
        /\ board' = board /\ pieces' = pieces /\ simpwait' = simpwait
        /\ phase' = phase /\ current' = current /\ touchdown' = touchdown
    BY <1>2 DEF EndGame
  <2>2. TypeOK' /\ PhaseOK' /\ PiecesInside' /\ Spaced'
    BY <2>1 DEF Inv, TypeOK, PhaseOK, PiecesInside, Spaced
  <2>3. Low' /\ SkyClear' /\ NoCompleteRow'
    BY <2>1 DEF Low, SkyClear, NoCompleteRow
  <2>4. OnlyLinesBury
    <3>1. ~ LandPiece
      BY <2>1 DEF LandPiece, Dropping
    <3> QED BY <2>1, <3>1 DEF OnlyLinesBury, Buried
  <2> QED BY <2>2, <2>3, <2>4 DEF Inv
<1>3. CASE UNCHANGED vars
  <2>1. Inv'
    BY <1>3 DEF vars, Inv, TypeOK, PhaseOK, PiecesInside, Spaced, Low, SkyClear, NoCompleteRow,
                Complete
  <2>2. init_simptris => OnlyLinesBury
    BY <1>1, <1>3
  <2>3. EndGame => OnlyLinesBury
    BY <1>2, <1>3
  <2> QED BY <2>1, <2>2, <2>3
<1> QED BY <1>1, <1>2, <1>3

(* The invariant holds at first. *)
LEMMA InitOK == Init => Inv
<1> SUFFICES ASSUME Init PROVE Inv
  OBVIOUS
<1>1. /\ board = {} /\ pieces = <<>> /\ game_over = TRUE /\ simpwait = 0
      /\ phase = "tick" /\ current = 0 /\ touchdown = FALSE
  BY DEF Init
<1>2. DOMAIN pieces = {} /\ pieces \in Seq(Pieces)
  BY <1>1
<1>3. TypeOK /\ PhaseOK
  <2>1. board \subseteq Columns \X Rows /\ game_over \in BOOLEAN /\ simpwait \in 0 .. 3
    BY <1>1
  <2>2. touchdown \in BOOLEAN /\ phase \in {"tick", "drop"} /\ current \in Nat
    BY <1>1
  <2>3. TypeOK
    BY <1>2, <2>1, <2>2 DEF TypeOK
  <2>4. PhaseOK
    BY <1>1 DEF PhaseOK
  <2> QED BY <2>3, <2>4
<1>4. PiecesInside /\ Spaced /\ Low /\ SkyClear /\ NoCompleteRow
  BY <1>1, <1>2 DEF PiecesInside, Spaced, Low, SkyClear, NoCompleteRow
<1> QED BY <1>3, <1>4 DEF Inv

(* And every step keeps it. *)
LEMMA StepOK == Inv /\ [Next]_vars => Inv' /\ [OnlyLinesBury]_vars
<1> SUFFICES ASSUME Inv, [Next]_vars PROVE Inv' /\ (OnlyLinesBury \/ UNCHANGED vars)
  OBVIOUS
<1>1. CASE \E drop \in BOOLEAN : Tick(drop)
  BY <1>1, TickKeeps
<1>2. CASE LowerPiece
  BY <1>2, LowerKeeps
<1>3. CASE LandPiece
  BY <1>3, LandKeeps
<1>4. CASE DropDone
  BY <1>4, DoneKeeps
<1>5. CASE init_simptris \/ EndGame \/ UNCHANGED vars
  BY <1>5, GameKeeps
<1> QED BY <1>1, <1>2, <1>3, <1>4, <1>5 DEF Next, drop_pieces
-----------------------------------------------------------------------------
(* The invariant holds in every state of every game. *)
LEMMA Invariance == Spec => []Inv
<1>1. Init => Inv
  BY InitOK
<1>2. Inv /\ [Next]_vars => Inv'
  BY StepOK
<1> QED BY <1>1, <1>2, PTL DEF Spec

(* The variables have their types. *)
THEOREM TypesKept == Spec => []TypeOK
BY Invariance, PTL DEF Inv

(* No slide, turn or drop takes a piece over a wall or through the floor,  *)
(* though the code never compares an index with the size of its array.     *)
THEOREM NeverOutside == Spec => []PiecesInside
BY Invariance, PTL DEF Inv

(* Falling pieces never overlap, though the code never compares them with  *)
(* each other, and only cleared lines bring a landed cell onto one.        *)
THEOREM NothingTakenTwice == Spec => NoCellTwice
<1>1. Inv => PiecesApart
  BY SpacedApart DEF Inv
<1>2. Inv /\ [Next]_vars => [OnlyLinesBury]_vars
  BY StepOK
<1>3. PiecesApart' /\ [OnlyLinesBury]_vars => [PiecesApart' /\ OnlyLinesBury]_vars
  OBVIOUS
<1> QED BY <1>1, <1>2, <1>3, Invariance, PTL DEF Spec, NoCellTwice

(* While the game runs the rows where pieces appear hold no landed cell.   *)
THEOREM SkyStaysClear == Spec => []SkyClear
BY Invariance, PTL DEF Inv

(* The three rows that are looked at after a landing are enough: no        *)
(* complete row is ever left.                                              *)
THEOREM EveryRowCleared == Spec => []NoCompleteRow
BY Invariance, PTL DEF Inv

(* A landing adds the cells that were free, and takes whole rows away.     *)
THEOREM OnlyWholeRowsLeave == Spec => CellsConserved
<1> DEFINE Counted == LandPiece => \E lines \in 0 .. 3 :
             Cardinality(board') =
               Cardinality(board) + Cardinality(Cells(pieces[current]) \ board) - Width * lines
<1>1. ASSUME Inv, LandPiece PROVE Counted
  <2> DEFINE p == pieces[current]
             added == Cells(p) \ board
             all == board \cup Cells(p)
  <2>1. /\ p \in Pieces /\ all \subseteq Cell
        /\ \E lines \in 0 .. 3 : Cardinality(board') = Cardinality(all) - Width * lines
    BY <1>1, Landing
  <2>2. IsFiniteSet(board) /\ IsFiniteSet(added)
    <3>1. board \subseteq Cell /\ added \subseteq Cell
      BY <2>1
    <3> QED BY <3>1, CellFinite
  <2>3. all = board \cup added /\ board \cap added = {}
    OBVIOUS
  <2>4. Cardinality(all) = Cardinality(board) + Cardinality(added)
    <3>1. Cardinality(board \cup added)
          = Cardinality(board) + Cardinality(added) - Cardinality(board \cap added)
      BY <2>2, FS_Union
    <3>2. Cardinality(board) \in Nat /\ Cardinality(added) \in Nat
      BY <2>2, FS_CardinalityType
    <3>3. Cardinality(board \cap added) = 0
      BY <2>3, FS_EmptySet
    <3> HIDE DEF added, all
    <3> QED BY <2>3, <3>1, <3>2, <3>3
  <2>5. PICK lines \in 0 .. 3 : Cardinality(board') = Cardinality(all) - Width * lines
    BY <2>1
  <2>6. Cardinality(board') = Cardinality(board) + Cardinality(added) - Width * lines
    <3>1. Cardinality(board) \in Nat /\ Cardinality(added) \in Nat
      BY <2>2, FS_CardinalityType
    <3>2. Width * lines \in Int
      BY BoardAssumption
    <3> HIDE DEF added, all
    <3> QED BY <2>4, <2>5, <3>1, <3>2
  <2> QED BY <2>6
<1>2. Inv /\ [Next]_vars => [Counted]_vars
  BY <1>1
<1> QED BY <1>2, Invariance, PTL DEF Spec, CellsConserved
=============================================================================
