---------------------------- MODULE MCExifEditor ----------------------------
(***************************************************************************)
(* Values for ExifEditor.  A number stands for itself; 0 is north or east. *)
(***************************************************************************)
EXTENDS ExifEditor, TLC

CONSTANTS f1, f2, lat, lon, dir, alt

\* The coordinates of the picture, which depend on each other.
Coordinates == {lat, lon}
CoordNumbers == {-1, 0}
CoordRange == [k \in Coordinates |-> CoordNumbers]
CoordStored == [n \in 0..1 |-> n]
CoordDependency == (lat :> lon) @@ (lon :> lat)
CoordGroups == {{lon}}
CoordKeyOrder == <<lat, lon>>

TwoFiles == {f1, f2}
SwapFiles == Permutations(TwoFiles)

\* The altitude, and the direction of the image, with its unit.  The file
\* keeps 2 as 1, as it rounds what has more digits than its rational.
Measures == {alt, dir}
MeasureNumbers == {-1, 0, 2}
MeasureRange == [k \in Measures |-> IF k = alt THEN {-1, 2} ELSE {0, 2}]
MeasureStored == [n \in 0..2 |-> IF n = 2 THEN 1 ELSE n]
NoDependency == [k \in {} |-> k]
MeasureGroups == {{dir}}
MeasureKeyOrder == <<alt, dir>>
=============================================================================
