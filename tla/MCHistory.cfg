CONSTANTS
  Commands = {"step", "go", "exit"}
  Empty = ""
  HistorySize = 4
SPECIFICATION HistorySpec
PROPERTIES ImplementsLog KeysRecall
