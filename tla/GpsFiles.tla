------------------------------ MODULE GpsFiles ------------------------------
(***************************************************************************)
(* What the data providers make of a file, and what the table shows of it: *)
(* read() of the delimited text provider and of the GPS providers, with    *)
(* EgtGpxParser.                                                           *)
(*                                                                         *)
(* A record is a function on the names of its fields; a row of the table   *)
(* is one on the columns 1..n.  A line of a text is the sequence of its    *)
(* fields.  A header that is made up is the number it shows.               *)
(***************************************************************************)
EXTENDS Interpolation, SequencesExt

CONSTANT Unreadable  \* a file that cannot be opened

Result(valid, error, headers, records) ==
  [valid |-> valid, error |-> error, headers |-> headers, records |-> records]

\* The elements of s at the positions I, in their order.
Chosen(s, I) ==
  FlattenSeq([i \in 1..Len(s) |-> IF i \in I THEN <<s[i]>> ELSE <<>>])

-----------------------------------------------------------------------------
(* Delimited text.                                                         *)

\* The first line; an empty file has one, with one empty field.
FirstLine(lines) == IF lines = <<>> THEN <<Blank>> ELSE lines[1]

\* Made-up headers count from 1.
TextHeaders(lines, hasHeaders) ==
  IF hasHeaders THEN FirstLine(lines)
  ELSE [c \in 1..Len(FirstLine(lines)) |-> c]

\* The fields under their headers; of equal headers the last one counts.
Record(headers, fields) ==
  [h \in Range(headers) |->
     fields[Max({c \in 1..Len(headers) : headers[c] = h})]]

\* The first line as a record, without headers: the names count from 0.
FirstRecord(fields) == [h \in 0..Len(fields) - 1 |-> fields[h + 1]]

\* Mutant of Fits: only too few fields are too wrong.
FitsOrExceeds(fields, headers) == Len(fields) >= Len(headers)

\* A line with another number of fields is discarded.
Fits(fields, headers) == Len(fields) = Len(headers)

ReadText(lines, hasHeaders) ==
  IF lines = Unreadable THEN Result(FALSE, "Fatal", <<>>, <<>>)
  ELSE LET headers == TextHeaders(lines, hasHeaders)
           rest == SubSeq(lines, 2, Len(lines))
           kept == Chosen(rest, {i \in 1..Len(rest) : Fits(rest[i], headers)})
           read == [i \in 1..Len(kept) |-> Record(headers, kept[i])]
       IN  Result(TRUE, IF Len(kept) < Len(rest) THEN "Warning" ELSE "None",
                  headers,
                  IF hasHeaders THEN read
                  ELSE <<FirstRecord(FirstLine(lines))>> \o read)

-----------------------------------------------------------------------------
(* GPX.  A node is a function on those of its tags that are modelled, with *)
(* its coordinates; a node that is no point has none of them.  A time is a *)
(* pair: what it says and how many characters it has.                      *)

Stamp == "Date Time Stamp"

\* A text of 11 characters or more after the separators are written into it;
\* one of 19 loses its last.
SanitizedLength(n) ==
  LET m == IF n < 11 THEN 11 ELSE n IN IF m = 19 THEN 18 ELSE m

\* What the table's format "yyyy:MM:dd hh:mm:ss" reads of it.
Sanitized(time) == IF SanitizedLength(time[2]) = 19 THEN time[1] ELSE Other

\* parseWayPoint()
ParseWayPoint(node) ==
  [h \in DOMAIN node \cup {"Latitude", "Longitude"} |->
     IF h \notin DOMAIN node THEN Blank
     ELSE IF h = Stamp THEN Sanitized(node[h]) ELSE node[h]]

\* A point of a route or track is given its name.
Named(name, node, h) ==
  LET point == ParseWayPoint(node)
  IN  [g \in DOMAIN point \cup {h} |-> IF g = h THEN name ELSE point[g]]

WithName(name, nodes, h) == [i \in 1..Len(nodes) |-> Named(name, nodes[i], h)]

\* Mutant of Segments: the first segment of a track stands for it.
SegmentsFirst(track) ==
  IF track.segments = <<>> THEN <<>> ELSE track.segments[1]

\* The nodes of a track, whatever they are.
Segments(track) == FlattenSeq(track.segments)

\* parse()
Parse(document, feature) ==
  CASE feature = "WayPoints" ->
         [i \in 1..Len(document.wpt) |-> ParseWayPoint(document.wpt[i])]
    [] feature = "Routes" ->
         FlattenSeq([i \in 1..Len(document.rte) |->
           WithName(document.rte[i].name, document.rte[i].points, "Route Name")])
    [] feature = "Tracks" ->
         FlattenSeq([i \in 1..Len(document.trk) |->
           WithName(document.trk[i].name, Segments(document.trk[i]), "Track Name")])

\* headers(): what occurs, sorted.
HeaderOrder == <<Stamp, "Latitude", "Longitude", "Name", "Route Name", "Track Name">>
GpxHeaders(records) ==
  Chosen(HeaderOrder, {k \in 1..Len(HeaderOrder) :
                         \E i \in 1..Len(records) : HeaderOrder[k] \in DOMAIN records[i]})

\* readGpx(): an error of the parser is left with it.
ReadGpx(document, feature) ==
  LET records == IF document = Unreadable THEN <<>> ELSE Parse(document, feature)
  IN  Result(TRUE, "None", GpxHeaders(records), records)

-----------------------------------------------------------------------------

\* populateTable()
Table(result) ==
  [r \in 1..Len(result.records) |->
     [c \in 1..Len(result.headers) |->
        LET h == result.headers[c] IN
        IF h \in DOMAIN result.records[r] THEN result.records[r][h] ELSE Blank]]
=============================================================================
