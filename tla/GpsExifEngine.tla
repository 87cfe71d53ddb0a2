--------------------------- MODULE GpsExifEngine ---------------------------
(***************************************************************************)
(* EgtGpsExifEngine (and its base, EgtExifEngine): the Egt keys of the GPS *)
(* header of one image file at a time.                                     *)
(*                                                                         *)
(* Exiv2 keeps the header in the file: every read begins by reading it and *)
(* every write ends by writing it, so the file is the only copy.  A key    *)
(* has a value tag, and some have a reference tag beside it: the sign of a *)
(* coordinate (Latitude and LatitudeRef), which the engine writes itself,  *)
(* or the unit of a measure (Speed and SpeedRef), which is a key of its    *)
(* own.  A header maps the two tags of every key to what they hold.        *)
(***************************************************************************)
EXTENDS Integers

CONSTANTS
  Files,        \* names of image files Exiv2 can open
  NoFile,       \* any other name: none, a directory, not an image
  Keys,         \* Egt keys
  Signed,       \* keys whose reference tag is a sign
  WithUnits,    \* keys whose reference tag is a unit
  Zeroed,       \* keys that read as 0 if absent: ImageDirection
  Numbers,      \* numbers that can be typed
  Range,        \* Range[k]: the numbers the writer of k accepts
  Stored,       \* Stored[n]: what the file's rational keeps of n
  Units,        \* units
  Absent,       \* no such tag in the header
  Invalid       \* a read that is not valid

Signs == {"minus", "plus"}

Magnitude(n) == IF n < 0 THEN 0 - n ELSE n
Magnitudes == {Magnitude(n) : n \in Numbers}

ASSUME KeysAssumption ==
  /\ Signed \subseteq Keys /\ WithUnits \subseteq Keys /\ Zeroed \subseteq Keys
  /\ Signed \cap WithUnits = {} /\ Signed \cap Zeroed = {}
  /\ NoFile \notin Files

ASSUME NumbersAssumption ==
  /\ Numbers \subseteq Int /\ 0 \in Numbers
  /\ Range \in [Keys -> SUBSET Numbers]
  /\ \A k \in Keys \ Signed : Range[k] \subseteq Nat
  /\ Stored \in [Magnitudes -> Magnitudes]
  /\ Absent \notin Int /\ Absent \notin Signs \cup Units
  /\ Invalid \notin Int /\ Invalid \notin Units

Refs(k) == IF k \in Signed THEN Signs
           ELSE IF k \in WithUnits THEN Units ELSE {}

Headers == {h \in [value : [Keys -> Magnitudes \cup {Absent}],
                   ref   : [Keys -> Signs \cup Units \cup {Absent}]] :
              \A k \in Keys : h.ref[k] \in Refs(k) \cup {Absent}}

VARIABLES
  disk,               \* disk[f]: the GPS header of file f
  cvImageFileName,
  cvIsValidImage,
  cvHasExpectedExif

engine == <<cvImageFileName, cvIsValidImage, cvHasExpectedExif>>

EngineTypeOK ==
  /\ disk \in [Files -> Headers]
  /\ cvImageFileName \in Files \cup {NoFile}
  /\ cvIsValidImage \in BOOLEAN /\ cvHasExpectedExif \in BOOLEAN
  /\ cvIsValidImage <=> cvImageFileName \in Files

-----------------------------------------------------------------------------
(* Reading.                                                                *)

header == disk[cvImageFileName]

\* hasKey( "Exif.GPSInfo" ): some tag of the header is there.
HasGps(h) == \E k \in Keys : h.value[k] # Absent \/ h.ref[k] # Absent

\* The value tag, and the sign if the key has one, are both there.
Present(h, k) == h.value[k] # Absent /\ (k \in Signed => h.ref[k] # Absent)

Reading(h, k) ==
  IF k \in Signed /\ h.ref[k] = "minus" THEN 0 - h.value[k] ELSE h.value[k]

\* read( key ): the number, or Invalid.  direction() calls a missing tag valid.
ReadIn(h, expected, k) ==
  IF ~expected THEN Invalid
  ELSE IF Present(h, k) THEN Reading(h, k)
  ELSE IF k \in Zeroed THEN 0
  ELSE Invalid

Read(k) == IF cvIsValidImage THEN ReadIn(header, cvHasExpectedExif, k)
           ELSE Invalid

\* read( key + "Ref" )
ReadUnitIn(h, expected, k) ==
  IF expected /\ h.ref[k] # Absent THEN h.ref[k] ELSE Invalid

ReadUnit(k) == IF cvIsValidImage
               THEN ReadUnitIn(header, cvHasExpectedExif, k) ELSE Invalid

-----------------------------------------------------------------------------
(* Opening.                                                                *)

\* Mutant: the flag of the last file is not reset.
SetFileKeepingFlag(f) ==
  /\ cvImageFileName' = f
  /\ cvIsValidImage' = (f \in Files)
  /\ cvHasExpectedExif' = (cvHasExpectedExif \/ (f \in Files /\ HasGps(disk[f])))

SetFile(f) ==
  /\ cvImageFileName' = f
  /\ cvIsValidImage' = (f \in Files)
  /\ cvHasExpectedExif' = (f \in Files /\ HasGps(disk[f]))

-----------------------------------------------------------------------------
(* Writing.  A tag is written, and the file with it, or writeTag() fails   *)
(* and the file is as it was.                                              *)

\* The writer of key k goes as far as its first tag.
Accepts(k, n) == cvIsValidImage /\ n \in Range[k]

SignOf(n) == IF n < 0 THEN "minus" ELSE "plus"

WriteRef(k, r) == disk' = [disk EXCEPT ![cvImageFileName].ref[k] = r]

WriteValue(k, n) ==
  disk' = [disk EXCEPT ![cvImageFileName].value[k] = Stored[Magnitude(n)]]

\* The flag is set when the last tag of a key is written.
Expected == /\ cvHasExpectedExif' = TRUE
            /\ UNCHANGED <<cvImageFileName, cvIsValidImage>>

=============================================================================
