---------------------------- MODULE MCGpsImport ----------------------------
(***************************************************************************)
(* Texts of at most MaxLines lines and a few GPX documents.                *)
(***************************************************************************)
EXTENDS GpsImport

CONSTANTS Times, MaxLines, time, lat, note

\* Rows with the same time are told apart by their notes; a line may lack a
\* field or have one too many.
Lines == {<<t, Other, m>> : t \in Times, m \in {Other, Blank}}
           \cup {<<Other>>, <<Other, Other, Other, Other>>}
Texts == UNION {[1..n -> Lines] : n \in 0..MaxLines}
HeaderLines == {<<time, lat, note>>, <<time, note, note>>}

TextFiles ==
  [kind : {"text"}, hasHeaders : {FALSE}, content : Texts \cup {Unreadable}]
    \cup [kind : {"text"}, hasHeaders : {TRUE},
          content : {<<h>> \o t : h \in HeaderLines, t \in Texts} \cup {Unreadable}]

\* UTC, local time without zone, with a fraction, and a day without a time.
TimeLengths == {20, 19, 24, 10}
Points == {[h \in {"Latitude", "Longitude", Stamp} |->
              IF h = Stamp THEN <<t, n>> ELSE Other] : t \in {0, 3}, n \in TimeLengths}
            \cup {[h \in {"Latitude", "Longitude", "Name"} |-> Other]}
Comment == <<>>
FewNodes == Points \cup {Comment}
Segments2 == UNION {[1..n -> Points] : n \in 0..2}

FewDocuments == {[wpt |-> s, rte |-> <<>>, trk |-> <<>>] : s \in Segments2}
  \cup {[wpt |-> <<>>, rte |-> <<[name |-> Other, points |-> s]>>, trk |-> <<>>] : s \in Segments2}
  \cup {[wpt |-> <<>>, rte |-> <<>>,
         trk |-> <<[name |-> Blank, segments |-> <<s, <<>>, <<p>> >>],
                   [name |-> Other, segments |-> <<s>>]>>] :
           s \in Segments2, p \in Points \cup {Comment}}

GpxFiles ==
  [kind : {"gpx"}, feature : {"WayPoints", "Routes", "Tracks"},
   content : FewDocuments \cup {Unreadable}]

FewNames == {time, lat, note}
FewFiles == TextFiles \cup GpxFiles
=============================================================================
