SPECIFICATION Spec
CONSTANTS
  f1 = f1
  f2 = f2
  lat = lat
  lon = lon
  dir = dir
  alt = alt
  Files <- TwoFiles
  NoFile = noFile
  Keys <- Coordinates
  Signed <- Coordinates
  WithUnits = {}
  Zeroed = {}
  Numbers <- CoordNumbers
  Range <- CoordRange
  Stored <- CoordStored
  Units = {}
  Absent = absent
  Invalid = invalid
  Dependency <- CoordDependency
  Groups <- CoordGroups
  KeyOrder <- CoordKeyOrder
  Blank = blank
  Junk = junk
  NoUnit = noUnit
INVARIANTS TypeOK SettingsMirrorBoxes PairsTogether FallbackIsFile
PROPERTIES NumberWithItsSign
SYMMETRY SwapFiles
