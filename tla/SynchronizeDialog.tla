-------------------------- MODULE SynchronizeDialog --------------------------
(***************************************************************************)
(* EgtSynchronizeDialog: the offset of the GPS receiver's clock against    *)
(* the camera's.  With a picture of the receiver's screen the user enters  *)
(* the time it shows, and the dialog computes the offset from the time the *)
(* camera stored; without one the user enters the offset.  The time boxes  *)
(* act only when their value changes.                                      *)
(*                                                                         *)
(* The boxes for year, month and day are one, which holds the number of a  *)
(* day, or NoDay if there is no such date.  The preview of the picture is  *)
(* left out: the dialog is a client of the image factory like the main     *)
(* window.                                                                 *)
(***************************************************************************)
EXTENDS Integers

CONSTANTS
  Days,       \* the days the boxes can show
  FirstDay,   \* what they show when set to 0
  NoDay,      \* 31 February, and the like
  Pictures,   \* the files that can be opened
  Stamp,      \* the time stored in each, or NoExif, or Undated
  NoExif,
  Undated,    \* photo EXIF, but no DateTimeOriginal
  TypedTimes, \* times the user sets
  TypedOffsets

\* The ranges of the boxes.
Times == [day : Days, hour : 0..23, minute : 0..59, second : 0..59]
BoxTimes == [day : Days \cup {NoDay}, hour : 0..23, minute : 0..59, second : 0..59]
Offsets == [days : 0..99, hours : 0..23, minutes : 0..59, seconds : 0..59]

ASSUME SynchronizeAssumption ==
  /\ Days \subseteq Int /\ FirstDay \in Days /\ NoDay \notin Int
  /\ Stamp \in [Pictures -> Times \cup {NoExif, Undated}]
  /\ NoExif \notin Times /\ Undated \notin Times /\ NoExif # Undated
  /\ TypedTimes \subseteq BoxTimes
  /\ TypedOffsets \subseteq Offsets

\* The code counts in an int, which holds 68 years of seconds; the boxes allow
\* for more, and what overflows is not modelled.
ASSUME NoOverflow == \A d, e \in Days : d - e \in -24854..24854

VARIABLES
  shown,       \* the dialog is shown
  gbPreview,   \* with a picture
  exif,        \* the time stored in the picture that is open
  user,        \* the time boxes
  offset,      \* the offset boxes
  positive,    \* rbtnPositive
  cvOffset,    \* the table's offset
  computed     \* history: computed since the picture was opened

vars == <<shown, gbPreview, exif, user, offset, positive, cvOffset, computed>>

\* In seconds; the offset boxes hold less than HundredDays.
Hour == 3600
Day == 86400
HundredDays == 8640000

Seconds(t) == Hour * t.hour + 60 * t.minute + t.second

\* The user's time minus the stored one.
Difference(t, e) == Day * (t.day - e.day) + (Seconds(t) - Seconds(e))

\* What the offset boxes say.
Magnitude(o) == Day * o.days + Hour * o.hours + 60 * o.minutes + o.seconds
Signed(n, isPositive) == IF isPositive THEN n ELSE -n

TypeOK ==
  /\ shown \in BOOLEAN /\ gbPreview \in BOOLEAN
  /\ positive \in BOOLEAN /\ computed \in BOOLEAN
  /\ exif \in Times \cup {NoExif, Undated}
  /\ user \in BoxTimes
  /\ offset \in Offsets
  /\ cvOffset \in Int

First == [day |-> FirstDay, hour |-> 0, minute |-> 0, second |-> 0]
Zero == [days |-> 0, hours |-> 0, minutes |-> 0, seconds |-> 0]

Init ==
  /\ shown = FALSE /\ gbPreview = FALSE
  /\ exif = NoExif /\ user = First
  /\ offset = Zero /\ positive = TRUE /\ cvOffset = 0
  /\ computed = FALSE

-----------------------------------------------------------------------------

\* Mutant of Boxes: more than 99 days fit.
BoxesUnbounded(n) ==
  LET rest == n % Day IN
  [days    |-> n \div Day,
   hours   |-> rest \div Hour,
   minutes |-> (rest % Hour) \div 60,
   seconds |-> (rest % Hour) % 60]

\* The boxes for an offset of n seconds; more than 99 days do not fit.
Boxes(n) ==
  LET rest == n % Day IN
  [days    |-> IF n \div Day > 99 THEN 99 ELSE n \div Day,
   hours   |-> rest \div Hour,
   minutes |-> (rest % Hour) \div 60,
   seconds |-> (rest % Hour) % 60]

\* updateOffset().  From a date that is none the library makes any number.  One
\* of the two radio buttons is always checked: unchecking it has no effect.
UpdateOffset(t, e) ==
  IF e = NoExif
  THEN UNCHANGED <<offset, positive>>
  ELSE IF e = Undated \/ t.day = NoDay
  THEN offset' \in TypedOffsets /\ positive' \in BOOLEAN
  ELSE LET n == Difference(t, e) IN
       /\ positive' = (n >= 0)
       /\ offset' = Boxes(IF n < 0 THEN -n ELSE n)

\* showDialog( withImage ), for the two buttons of the GPS window.
ShowDialog(withImage) ==
  /\ shown' = TRUE
  /\ gbPreview' = withImage
  /\ UNCHANGED <<exif, user, offset, positive, cvOffset, computed>>

\* Mutant of SetTime: the offset is computed from the boxes as they were.
SetTimeLate(t) ==
  /\ user' = t
  /\ IF t = user
     THEN UNCHANGED <<offset, positive>>
     ELSE UpdateOffset(user, exif')
  /\ computed' = (t # user \/ (computed /\ exif' = exif))

\* The time boxes are set, and the offset is computed if one of them changes.
SetTime(t) ==
  /\ user' = t
  /\ IF t = user
     THEN UNCHANGED <<offset, positive>>
     ELSE UpdateOffset(t, exif')
  /\ computed' = (t # user \/ (computed /\ exif' = exif))

\* openImage().  Cancelling its file dialog opens the file without a name.
OpenImage(f) ==
  /\ shown /\ gbPreview
  /\ exif' = Stamp[f]
  /\ SetTime(IF exif' \in Times THEN exif' ELSE First)
  /\ UNCHANGED <<shown, gbPreview, cvOffset>>

\* The user sets the time boxes, one after the other: only what they show in
\* the end counts.
TypeTime(t) ==
  /\ shown /\ gbPreview
  /\ exif' = exif
  /\ SetTime(t)
  /\ UNCHANGED <<shown, gbPreview, cvOffset>>

\* Without a picture, the offset boxes are the user's.
TypeOffset(o) ==
  /\ shown /\ ~gbPreview
  /\ offset' = o /\ positive' \in BOOLEAN
  /\ computed' = FALSE
  /\ UNCHANGED <<shown, gbPreview, exif, user, cvOffset>>

\* Mutant of Accepted: the minutes and the seconds are forgotten.
AcceptedHours ==
  /\ shown
  /\ cvOffset' = Signed(Day * offset.days + Hour * offset.hours, positive)
  /\ shown' = FALSE
  /\ UNCHANGED <<gbPreview, exif, user, offset, positive, computed>>

\* accepted(): it adds the seconds of the time boxes.  A warning of an offset
\* of a day or more changes nothing.
Accepted ==
  /\ shown
  /\ cvOffset' = Signed(Day * offset.days + Hour * offset.hours
                          + 60 * offset.minutes + user.second, positive)
  /\ shown' = FALSE
  /\ UNCHANGED <<gbPreview, exif, user, offset, positive, computed>>

\* The dialog is cancelled, or closed with the GPS window.
Closed ==
  /\ shown
  /\ shown' = FALSE
  /\ UNCHANGED <<gbPreview, exif, user, offset, positive, cvOffset, computed>>

Next ==
  \/ \E withImage \in BOOLEAN : ShowDialog(withImage)
  \/ \E f \in Pictures : OpenImage(f)
  \/ \E t \in TypedTimes : TypeTime(t)
  \/ \E o \in TypedOffsets : TypeOffset(o)
  \/ Accepted \/ Closed

Spec == Init /\ [][Next]_vars

-----------------------------------------------------------------------------
(* Properties.                                                             *)

\* With a picture whose time is known, the offset boxes hold the difference of
\* the two clocks, its sign included, once a time box changed since the
\* picture was opened; what does not fit into 99 days is cut there.  (If the
\* boxes already showed the new picture's time they keep the old offset.)
OffsetIsDifference ==
  computed /\ exif \in Times /\ user.day # NoDay =>
    LET n == Difference(user, exif) IN
    \/ Signed(Magnitude(offset), positive) = n
    \/ offset.days = 99 /\ (n >= HundredDays \/ n <= -HundredDays)

\* The table gets what the boxes say to within a minute, and exactly that if
\* the two boxes for seconds agree.
AcceptedToTheMinute ==
  [][Accepted =>
       LET n == Signed(Magnitude(offset), positive) IN
       /\ cvOffset' - n \in -59..59
       /\ user.second = offset.seconds => cvOffset' = n]_vars

\* What the user guide says of the dialog: the time offset can be set.
AcceptedOffset ==
  [][Accepted => cvOffset' = Signed(Magnitude(offset), positive)]_vars
=============================================================================
