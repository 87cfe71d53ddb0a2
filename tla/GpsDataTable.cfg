SPECIFICATION Spec
CONSTANTS
  track = track
  list = list
  time = time
  lat = lat
  lon = lon
  h0 = h0
  h1 = h1
  h2 = h2
  other = other
  blank = blank
  Providers <- TwoFiles
  NoProvider = none
  ColumnHeaders <- TwoHeaders
  Records <- TwoRecords
  Fields = {time, lat, lon}
  Stamp = time
  Latitude = lat
  Longitude = lon
  Clear = clear
  Blank = blank
  Between = between
  Other = other
  Typed <- TwoTyped
  Offsets = {0, 1}
  GapLimit = 84600
INVARIANTS TypeOK HeadersConsistent ButtonsFollowHeaders
CHECK_DEADLOCK FALSE
