------------------------ MODULE MCSynchronizeDialog ------------------------
(***************************************************************************)
(* Pictures taken a second before midnight, at noon two days later, and    *)
(* half a year later; one whose EXIF header has no date, and one without   *)
(* EXIF.                                                                   *)
(***************************************************************************)
EXTENDS SynchronizeDialog, TLC

CONSTANTS night, noon, late, dateless, bare, none

At(d, h, m, s) == [day |-> d, hour |-> h, minute |-> m, second |-> s]
For(d, h, m, s) == [days |-> d, hours |-> h, minutes |-> m, seconds |-> s]

DaysOf == {1, 10, 12, 200}

StampOf == (night :> At(10, 23, 59, 59)) @@ (noon :> At(12, 12, 0, 0))
           @@ (late :> At(200, 0, 0, 0)) @@ (dateless :> Undated) @@ (bare :> NoExif)

SomeTimes == {At(12, 12, 30, 1), At(10, 0, 0, 59), At(none, 23, 0, 0)}
SomeOffsets == {For(1, 2, 3, 4), For(0, 0, 0, 30)}
=============================================================================
