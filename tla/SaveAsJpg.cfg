SPECIFICATION SaveSpec
CONSTANTS
  r1 = r1
  r2 = r2
  j = j
  d = d
  RawFiles = {r1, r2}
  FlatFiles = {j}
  Directories = {d}
  NoName = noName
  NoImage = noImage
  Rows = 1
  MemImageColors = {3}
  MaxRequests = 2
  Stems = {"a", "b", "d", ""}
  Stem <- StemOf
  Taken = {"a"}
  Bare = bare
INVARIANTS SaveTypeOK ExportedPicture BareIsLast
PROPERTIES NothingOverwritten RunReported
CHECK_DEADLOCK FALSE
