SPECIFICATION Spec
CONSTANTS
  f1 = f1
  f2 = f2
  lat = lat
  lon = lon
  dir = dir
  alt = alt
  Files = {f1}
  NoFile = noFile
  Keys <- Measures
  Signed = {alt}
  WithUnits = {dir}
  Zeroed = {dir}
  Numbers <- MeasureNumbers
  Range <- MeasureRange
  Stored <- MeasureStored
  Units = {magnetic}
  Absent = absent
  Invalid = invalid
  Dependency <- NoDependency
  Groups <- MeasureGroups
  KeyOrder <- MeasureKeyOrder
  Blank = blank
  Junk = junk
  NoUnit = noUnit
INVARIANTS NoHiddenEdit FallbackIsFile ExpectedIsThere
PROPERTY OnlyEditsAreCreated
