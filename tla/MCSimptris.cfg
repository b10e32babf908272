SPECIFICATION FairSpec
CONSTANTS
  Width = 3
  Height = 7
INVARIANTS PiecesInside SkyClear NoCompleteRow
PROPERTIES NoCellTwice CellsConserved PiecesLand
