SPECIFICATION MainSpec
CONSTANTS
  RawFiles = {r1, r2}
  FlatFiles = {j}
  Directories = {d}
  NoName = noName
  NoImage = noImage
  Rows = 1
  MemImageColors = {3}
  MaxRequests = 3
INVARIANTS MainTypeOK AnswerAccounting WorkerOnCurrentFile CurrentImage BarSettles PreviewOfSelection
PROPERTIES WindowIdles AnswersEveryRequest
CHECK_DEADLOCK FALSE
