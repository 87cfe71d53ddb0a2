SPECIFICATION Spec
CONSTANTS
  Blank = blank
  Between = between
  Other = other
  Unreadable = unreadable
  GapLimit = 84600
  Times = {0, 2, 3, 84604, blank, other}
  MaxLines = 3
  time = time
  lat = lat
  note = note
  Names <- FewNames
  Nodes <- FewNodes
  Files <- FewFiles
INVARIANT UtcTimesRead
CHECK_DEADLOCK FALSE
