SPECIFICATION Spec
CONSTANTS
  night = night
  noon = noon
  late = late
  dateless = dateless
  bare = bare
  none = none
  Days <- DaysOf
  FirstDay = 1
  NoDay = none
  Pictures = {night, noon, late, dateless, bare}
  Stamp <- StampOf
  NoExif = noExif
  Undated = undated
  TypedTimes <- SomeTimes
  TypedOffsets <- SomeOffsets
INVARIANTS TypeOK OffsetIsDifference
PROPERTY AcceptedToTheMinute
