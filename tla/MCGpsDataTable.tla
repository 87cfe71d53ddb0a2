--------------------------- MODULE MCGpsDataTable ---------------------------
(***************************************************************************)
(* Two files of GPS data.  The track has three columns and its rows are    *)
(* not in the order of their times; the list has one column.               *)
(***************************************************************************)
EXTENDS GpsDataTable

CONSTANTS track, list, time, lat, lon, h0, h1, h2, other, blank

TwoFiles == {track, list}

Row3(t, x, y) == [c \in 0..2 |-> CASE c = 0 -> t [] c = 1 -> x [] OTHER -> y]
Header3 == [c \in 0..2 |-> CASE c = 0 -> h0 [] c = 1 -> h1 [] OTHER -> h2]

TwoHeaders == [p \in TwoFiles |-> IF p = track THEN Header3 ELSE [c \in {0} |-> h0]]
TwoRecords == [p \in TwoFiles |->
  IF p = track THEN <<Row3(2, blank, blank), Row3(0, blank, blank)>>
  ELSE <<[c \in {0} |-> other]>>]

TwoTyped == [p \in TwoFiles |-> IF p = track THEN {} ELSE {other, blank}]
=============================================================================
