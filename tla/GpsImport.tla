----------------------------- MODULE GpsImport -----------------------------
(***************************************************************************)
(* From a file to the interpolated table: a data provider reads the file,  *)
(* the table shows what it read, and the user names two columns and        *)
(* interpolates, once and once more after rows were deleted.               *)
(***************************************************************************)
EXTENDS GpsFiles

CONSTANTS
  Names,  \* the names in the first line of a text
  Nodes,  \* the nodes of GPX documents
  Files   \* the files that can be read, and how

\* A node has some of the tags that are modelled; a name is a text.
Tags == {"Latitude", "Longitude", "Name", Stamp}

ASSUME NodesAssumption ==
  \A node \in Nodes :
    /\ DOMAIN node \subseteq Tags
    /\ \A h \in DOMAIN node \ {Stamp} : node[h] \in Cells
    /\ Stamp \in DOMAIN node => node[Stamp] \in Cells \X Nat

Documents ==
  [wpt : Seq(Nodes),
   rte : Seq([name : Cells, points : Seq(Nodes)]),
   trk : Seq([name : Cells, segments : Seq(Seq(Nodes))])]

\* The fields of a text, but those of a line of headers, are texts.
IsText(f) ==
  f.content # Unreadable =>
    /\ f.content \in Seq(Seq(Names \cup Cells))
    /\ \A i \in 1..Len(f.content) :
         (f.hasHeaders /\ i = 1) \/ f.content[i] \in Seq(Cells)

IsGpx(f) ==
  /\ f.feature \in {"WayPoints", "Routes", "Tracks"}
  /\ f.content # Unreadable => f.content \in Documents

ASSUME FilesAssumption ==
  \A f \in Files :
    \/ f.kind = "text" /\ IsText(f)
    \/ f.kind = "gpx" /\ IsGpx(f)

VARIABLES
  file,
  result,   \* what the provider read
  rows,     \* the table
  presses   \* 0 before the file is read; presses of the interpolate button + 1

vars == <<file, result, rows, presses>>

Init ==
  /\ file \in Files
  /\ result = Result(FALSE, "None", <<>>, <<>>)
  /\ rows = <<>> /\ presses = 0

ReadFile ==
  /\ presses = 0
  /\ result' = IF file.kind = "text" THEN ReadText(file.content, file.hasHeaders)
                                     ELSE ReadGpx(file.content, file.feature)
  /\ rows' = IF result'.valid THEN Table(result') ELSE <<>>
  /\ presses' = 1
  /\ UNCHANGED file

\* The user names two columns.
ColumnOf(name) == SelectInSeq(result.headers, LAMBDA h : h = name)
StampColumn == IF file.kind = "text" THEN 1 ELSE ColumnOf(Stamp)
CoordinateColumn == 2
Columns == 1..Len(result.headers)

Interpolate ==
  /\ presses \in 1..2 /\ {StampColumn, CoordinateColumn} \subseteq Columns
  /\ presses' = presses + 1
  /\ rows' = Interpolated(rows, Columns, StampColumn, {CoordinateColumn})
  /\ UNCHANGED <<file, result>>

Delete ==
  /\ presses = 2
  /\ \E r \in 1..Len(rows) :
       rows' = [i \in 1..Len(rows) - 1 |-> IF i < r THEN rows[i] ELSE rows[i + 1]]
  /\ UNCHANGED <<file, result, presses>>

Next == ReadFile \/ Interpolate \/ Delete

Spec == Init /\ [][Next]_vars

-----------------------------------------------------------------------------
(* Properties.                                                             *)

\* After interpolate(), every second between two rows that are close enough
\* has a row, no row is lost, no time that had a row has another one, and
\* nothing else is added.
InterpolationComplete ==
  [][(Interpolate /\ Len(rows) >= 2) =>
       Complete(GapLimit, rows, rows', StampColumn)]_vars

\* The table shows every line with as many fields as the first one, in order,
\* and the user is warned of any other; with headers that are all different
\* every field is in its column.  Without headers the first row is off by one
\* column: its first field is not shown.
TextShown ==
  (presses = 1 /\ file.kind = "text" /\ file.content # Unreadable) =>
    LET width == Len(FirstLine(file.content))
        all == IF file.content = <<>> THEN <<FirstLine(<<>>)>> ELSE file.content
        lines == IF file.hasHeaders THEN Tail(all) ELSE all
        shown == Chosen(lines, {i \in 1..Len(lines) : Len(lines[i]) = width})
    IN  /\ Len(rows) = Len(shown)
        /\ (result.error = "Warning" <=>
              \E i \in 1..Len(all) : Len(all[i]) # width)
        /\ \A r \in 1..Len(rows) : \A c \in 1..width :
             \/ (file.hasHeaders /\ ~IsInjective(result.headers))
             \/ rows[r][c] = shown[r][c]
             \/ /\ ~file.hasHeaders /\ r = 1
                /\ rows[r][c] = IF c < width THEN shown[r][c + 1] ELSE Blank

\* The table has a row for every node of the feature asked for, in the order
\* of the document, with the coordinates that it has and the name of its track.
PointsShown ==
  (presses = 1 /\ file.kind = "gpx" /\ file.content # Unreadable) =>
    LET d == file.content
        parts == CASE file.feature = "WayPoints" -> <<[name |-> Blank, points |-> d.wpt]>>
                   [] file.feature = "Routes" -> d.rte
                   [] file.feature = "Tracks" ->
                        FlattenSeq([i \in 1..Len(d.trk) |->
                          [j \in 1..Len(d.trk[i].segments) |->
                             [name |-> d.trk[i].name, points |-> d.trk[i].segments[j]]]])
        all == FlattenSeq([i \in 1..Len(parts) |->
                 [j \in 1..Len(parts[i].points) |->
                    [name |-> parts[i].name, node |-> parts[i].points[j]]]])
        cell(r, h) == rows[r][ColumnOf(h)]
    IN  /\ Len(rows) = Len(all)
        /\ \A r \in 1..Len(rows) :
             /\ \A h \in {"Latitude", "Longitude"} :
                  cell(r, h) = IF h \in DOMAIN all[r].node THEN all[r].node[h] ELSE Blank
             /\ file.feature = "Tracks" => cell(r, "Track Name") = all[r].name

\* What the comment in parseWayPoint() says: times of the form
\* yyyy-mm-ddThh:mm:ssZ are made into the form of the table.
UtcTimesRead ==
  (presses = 1 /\ file.kind = "gpx" /\ file.content # Unreadable) =>
    \A r \in 1..Len(file.content.wpt) :
      LET node == file.content.wpt[r] IN
      file.feature = "WayPoints" /\ Stamp \in DOMAIN node /\ node[Stamp][2] = 20
        => rows[r][StampColumn] = node[Stamp][1]
=============================================================================
