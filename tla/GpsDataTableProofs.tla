------------------------- MODULE GpsDataTableProofs -------------------------
(***************************************************************************)
(* The types of the table's state, its headers, the buttons that follow    *)
(* them and what interpolating does to its rows, for any providers, tables *)
(* of any size, fields and offsets.                                        *)
(***************************************************************************)
EXTENDS GpsDataTable, InterpolationProofs

headers == <<cvDataProvider, header, cvColumnHeadersSet>>

\* A header is chosen for a column the table has.
HeaderSet(h) ==
  /\ h \in (Fields \cup {Clear}) \ DOMAIN cvColumnHeadersSet
  /\ cvColumnSelected \in Columns
  /\ SetColumnHeader(h)
  /\ UNCHANGED cvDataProvider

\* What a step can do to the headers, and what becomes of the buttons.
HeaderStep ==
  \/ \E p \in Providers :
       /\ cvDataProvider' = p
       /\ header' = ColumnHeaders[p]
       /\ cvColumnHeadersSet' = NoPairs
  \/ \E h : HeaderSet(h)
  \/ UNCHANGED headers

ButtonStep == EnableButtons \/ UNCHANGED <<cvColumnHeadersSet, buttons>>

\* Selections, edits, deletions, interpolation and sending touch no header.
LEMMA StepCases == [Next]_vars => HeaderStep /\ ButtonStep
<1> SUFFICES ASSUME [Next]_vars PROVE HeaderStep /\ ButtonStep
  OBVIOUS
<1> USE DEF HeaderStep, ButtonStep, headers, table, choice
<1>1. CASE UNCHANGED vars
  BY <1>1 DEF vars
<1>2. CASE BroadcastRow
  BY <1>2 DEF BroadcastRow
<1>3. ASSUME NEW p \in Providers, SetProvider(p)
      PROVE  HeaderStep /\ ButtonStep
  BY <1>3 DEF SetProvider
<1>4. ASSUME NEW c \in Columns, HorizontalHeaderClicked(c)
      PROVE  HeaderStep /\ ButtonStep
  BY <1>4 DEF HorizontalHeaderClicked
<1>5. ASSUME NEW h \in Fields \cup {Clear}, HeaderChosen(h)
      PROVE  HeaderStep /\ ButtonStep
  <2>1. CASE cvColumnSelected \in Columns
    <3>1. SetColumnHeader(h) /\ EnableButtons
      BY <1>5, <2>1 DEF HeaderChosen
    <3>2. HeaderSet(h)
      BY <1>5, <2>1, <3>1 DEF HeaderChosen, HeaderSet
    <3> QED
      BY <3>1, <3>2
  <2>2. CASE cvColumnSelected \notin Columns
    BY <1>5, <2>2 DEF HeaderChosen
  <2> QED
    BY <2>1, <2>2
<1>6. CASE HeaderCancelled
  BY <1>6 DEF HeaderCancelled
<1>7. ASSUME NEW r, SelectRow(r)
      PROVE  HeaderStep /\ ButtonStep
  BY <1>7 DEF SelectRow
<1>8. CASE CellSelected
  BY <1>8 DEF CellSelected
<1>9. ASSUME NEW r, NEW c, NEW t, EditCell(r, c, t)
      PROVE  HeaderStep /\ ButtonStep
  BY <1>9 DEF EditCell
<1>10. CASE DeleteClicked
  BY <1>10 DEF DeleteClicked, DeleteRow
<1>11. ASSUME NEW r, PopUpMenu(r)
       PROVE  HeaderStep /\ ButtonStep
  BY <1>11 DEF PopUpMenu, DeleteRow
<1>12. CASE Interpolate
  BY <1>12 DEF Interpolate
<1>13. ASSUME NEW o, SetOffset(o)
       PROVE  HeaderStep /\ ButtonStep
  BY <1>13 DEF SetOffset
<1> QED
  BY <1>1, <1>2, <1>3, <1>4, <1>5, <1>6, <1>7, <1>8, <1>9, <1>10, <1>11,
     <1>12, <1>13 DEF Next

-----------------------------------------------------------------------------
(* Fields, columns and labels.                                             *)

\* The fields that are set are fields of the table's columns.
HeaderTypes ==
  /\ DOMAIN cvColumnHeadersSet \subseteq Fields
  /\ \A f \in DOMAIN cvColumnHeadersSet : cvColumnHeadersSet[f] \in Columns

HeaderInv == HeaderTypes /\ HeadersConsistent

\* Without(c) keeps the fields of the other columns where they are.
LEMMA WithoutFact ==
  ASSUME NEW c
  PROVE  /\ DOMAIN Without(c) = {f \in DOMAIN cvColumnHeadersSet :
                                   cvColumnHeadersSet[f] # c}
         /\ \A f \in DOMAIN Without(c) : Without(c)[f] = cvColumnHeadersSet[f]
BY DEF Without

\* A field that is not set yet, or "( clear )", keeps the three in step:
\* setColumnHeader() first clears the column.
LEMMA HeaderSetFact ==
  ASSUME HeaderInv, NEW h, HeaderSet(h)
  PROVE  HeaderInv'
<1> DEFINE c == cvColumnSelected
           set == cvColumnHeadersSet
           rest == Without(c)
           over == IF h = Clear THEN ColumnHeaders[cvDataProvider][c] ELSE h
<1>1. /\ h \in Fields \cup {Clear} /\ h \notin DOMAIN set
      /\ c \in DOMAIN header /\ cvDataProvider' = cvDataProvider
      /\ Clear \notin Fields
  BY FieldsAssumption DEF HeaderSet, Columns
<1>2. /\ DOMAIN header' = DOMAIN header
      /\ header'[c] = over
      /\ \A d \in DOMAIN header : d # c => header'[d] = header[d]
  BY <1>1 DEF HeaderSet, SetColumnHeader
<1>3. /\ DOMAIN set' = DOMAIN rest \cup ({h} \ {Clear})
      /\ \A f \in DOMAIN set' : set'[f] = IF f = h THEN c ELSE rest[f]
  BY DEF HeaderSet, SetColumnHeader
<1>4. \A f : f \in DOMAIN set' =>
        \/ f = h /\ h # Clear /\ set'[f] = c
        \/ f # h /\ f \in DOMAIN set /\ set[f] # c /\ set'[f] = set[f]
  <2>1. /\ DOMAIN rest = {f \in DOMAIN set : set[f] # c}
        /\ \A f \in DOMAIN rest : rest[f] = set[f]
    BY WithoutFact
  <2> HIDE DEF rest
  <2> QED
    BY <1>1, <1>3, <2>1
<1>5. \A f \in DOMAIN set : set[f] # c => f \in DOMAIN set' /\ set'[f] = set[f]
  BY <1>1, <1>3, WithoutFact
<1>6. h # Clear => h \in DOMAIN set' /\ set'[h] = c
  BY <1>3
<1> HIDE DEF c, set, rest
<1>7. HeaderTypes'
  <2>1. DOMAIN set \subseteq Fields /\ \A f \in DOMAIN set : set[f] \in DOMAIN header
    BY DEF HeaderInv, HeaderTypes, Columns, set
  <2>2. DOMAIN set' \subseteq Fields /\ \A f \in DOMAIN set' : set'[f] \in DOMAIN header'
    BY <1>1, <1>2, <1>4, <2>1
  <2> QED
    BY <2>2 DEF HeaderTypes, Columns, set
<1>8. HeadersConsistent'
  <2>1. /\ \A f, g \in DOMAIN set : set[f] = set[g] => f = g
        /\ \A f \in DOMAIN set : header[set[f]] = f
        /\ \A d \in DOMAIN header :
             (\A f \in DOMAIN set : set[f] # d) =>
               header[d] = ColumnHeaders[cvDataProvider][d]
        /\ \A f \in DOMAIN set : set[f] \in DOMAIN header
    BY DEF HeaderInv, HeaderTypes, HeadersConsistent, Columns, set
  <2>2. \A f, g \in DOMAIN set' : set'[f] = set'[g] => f = g
    BY <1>4, <2>1
  <2>3. \A f \in DOMAIN set' : header'[set'[f]] = f
    BY <1>2, <1>4, <2>1
  <2>4. ASSUME NEW d \in DOMAIN header', \A f \in DOMAIN set' : set'[f] # d
        PROVE  header'[d] = ColumnHeaders[cvDataProvider'][d]
    <3>1. CASE d = c
      BY <1>1, <1>2, <1>6, <2>4, <3>1
    <3>2. CASE d # c
      <4>1. \A f \in DOMAIN set : set[f] # d
        BY <1>5, <2>4, <3>2
      <4> QED
        BY <1>1, <1>2, <2>1, <2>4, <3>2, <4>1
    <3> QED
      BY <3>1, <3>2
  <2> QED
    BY <2>2, <2>3, <2>4 DEF HeadersConsistent, Columns, set
<1> QED
  BY <1>7, <1>8 DEF HeaderInv

LEMMA HeaderInvStep == HeaderInv /\ HeaderStep => HeaderInv'
<1> SUFFICES ASSUME HeaderInv, HeaderStep PROVE HeaderInv'
  OBVIOUS
<1>1. ASSUME NEW p \in Providers, cvDataProvider' = p,
             header' = ColumnHeaders[p], cvColumnHeadersSet' = NoPairs
      PROVE  HeaderInv'
  BY <1>1 DEF HeaderInv, HeaderTypes, HeadersConsistent, NoPairs, Columns
<1>2. ASSUME NEW h, HeaderSet(h) PROVE HeaderInv'
  BY <1>2, HeaderSetFact
<1>3. CASE UNCHANGED headers
  BY <1>3 DEF headers, HeaderInv, HeaderTypes, HeadersConsistent, Columns
<1> QED
  BY <1>1, <1>2, <1>3 DEF HeaderStep

\* The fields that are set, their columns and the labels over these agree
\* whatever was chosen, cleared or loaded, in any order, while the header
\* dialog was open (setColumnHeader(), clearColumnHeader(), populateTable()).
THEOREM HeadersAgree == Spec => []HeadersConsistent
<1>1. Init => HeaderInv
  BY DEF Init, HeaderInv, HeaderTypes, HeadersConsistent, NoPairs, Columns
<1>2. HeaderInv /\ [Next]_vars => HeaderInv'
  BY StepCases, HeaderInvStep
<1>3. HeaderInv => HeadersConsistent
  BY DEF HeaderInv
<1> QED
  BY <1>1, <1>2, <1>3, PTL DEF Spec

-----------------------------------------------------------------------------
(* The buttons.                                                            *)

LEMMA ButtonsStep == ButtonsFollowHeaders /\ ButtonStep => ButtonsFollowHeaders'
<1> SUFFICES ASSUME ButtonsFollowHeaders, ButtonStep
             PROVE  ButtonsFollowHeaders'
  OBVIOUS
<1>1. CASE EnableButtons
  BY <1>1 DEF EnableButtons, ButtonsFollowHeaders
<1>2. CASE UNCHANGED <<cvColumnHeadersSet, buttons>>
  BY <1>2 DEF ButtonsFollowHeaders
<1> QED
  BY <1>1, <1>2 DEF ButtonStep

\* interpolate() and the time offset are only reachable when the columns they
\* read are set, and nothing is sent from a table without headers: the signals
\* of the table leave no gap (EgtGpsDisplayWidget::enableButtons()).
THEOREM ButtonsInStep == Spec => []ButtonsFollowHeaders
<1>1. Init => ButtonsFollowHeaders
  <2> SUFFICES ASSUME Init PROVE ButtonsFollowHeaders
    OBVIOUS
  <2>1. DOMAIN cvColumnHeadersSet = {}
    BY DEF Init, NoPairs
  <2>2. ~buttons.send /\ ~buttons.offset /\ ~buttons.interpolate
    BY DEF Init
  <2> QED
    BY <2>1, <2>2 DEF ButtonsFollowHeaders
<1>2. ButtonsFollowHeaders /\ [Next]_vars => ButtonsFollowHeaders'
  BY StepCases, ButtonsStep
<1> QED
  BY <1>1, <1>2, PTL DEF Spec

-----------------------------------------------------------------------------
(* Types.                                                                  *)

\* The table has the columns of its provider, and none before one is set.
ColumnsOfProvider ==
  /\ cvDataProvider \in Providers \cup {NoProvider}
  /\ Columns = IF cvDataProvider \in Providers
               THEN DOMAIN ColumnHeaders[cvDataProvider] ELSE {}

\* Typing into a cell and clicking a header need the columns, and
\* interpolate() the headers and the buttons.
TableInv == TypeOK /\ HeaderInv /\ ButtonsFollowHeaders /\ ColumnsOfProvider

ButtonsOK == buttons \in [send : BOOLEAN, delete : BOOLEAN, offset : BOOLEAN,
                          interpolate : BOOLEAN]

LEMMA ButtonsTyped == ButtonsOK /\ ButtonStep => ButtonsOK'
<1> SUFFICES ASSUME ButtonsOK, ButtonStep PROVE ButtonsOK'
  OBVIOUS
<1>1. CASE EnableButtons
  BY <1>1 DEF EnableButtons, ButtonsOK
<1>2. CASE UNCHANGED <<cvColumnHeadersSet, buttons>>
  BY <1>2 DEF ButtonsOK
<1> QED
  BY <1>1, <1>2 DEF ButtonStep

\* What is kept of a row of the table are texts that are not blank.
LEMMA RowDataTyped ==
  ASSUME TypeOK, NEW r \in 0..rowCount - 1
  PROVE  PartialMap(RowData(r), Fields, Cells \ {Blank})
<1> DEFINE text(f) == rows[r + 1][cvColumnHeadersSet[f]]
           G == {g \in DOMAIN cvColumnHeadersSet : text(g) # Blank}
<1>1. RowData(r) = [f \in G |-> text(f)]  BY DEF RowData
<1>2. rows[r + 1] \in [Columns -> Cells]
  BY DEF TypeOK, rowCount
<1>3. \A f \in G : text(f) \in Cells \ {Blank}
  BY <1>2 DEF TypeOK, PartialMap
<1>4. G \subseteq Fields  BY DEF TypeOK, PartialMap
<1> HIDE DEF G, text
<1> QED  BY <1>1, <1>3, <1>4 DEF PartialMap

LEMMA PairsTyped ==
  ASSUME TypeOK, validDateTimeStamp
  PROVE  PartialMap(Pairs(cvRowData), Fields, Cells \ {Blank})
<1>1. DOMAIN cvRowData \subseteq Fields
      /\ \A f \in DOMAIN cvRowData : cvRowData[f] \in Cells \ {Blank}
  BY DEF TypeOK, PartialMap
<1>2. ASSUME Stamp \in DOMAIN cvRowData
      PROVE  cvRowData[Stamp] + cvOffset \in Cells \ {Blank}
  <2>1. cvRowData[Stamp] \in Nat /\ cvOffset \in Nat
    BY <1>2, FieldsAssumption DEF TypeOK, validDateTimeStamp
  <2>2. cvRowData[Stamp] + cvOffset \in Nat  BY <2>1
  <2> QED  BY <2>2, TextsAssumption DEF Cells
<1>3. \A f \in DOMAIN cvRowData : Pairs(cvRowData)[f] \in Cells \ {Blank}
  BY <1>1, <1>2 DEF Pairs
<1>4. Pairs(cvRowData) = [f \in DOMAIN cvRowData |-> Pairs(cvRowData)[f]]
  BY DEF Pairs
<1> QED  BY <1>1, <1>3, <1>4 DEF PartialMap

LEMMA RemoveRowTyped ==
  ASSUME NEW S, rows \in Seq(S), NEW r \in Nat \cup {-1}, RemoveRow(r)
  PROVE  rows' \in Seq(S)
<1>1. Len(rows) \in Nat /\ \A i \in 1..Len(rows) : rows[i] \in S  OBVIOUS
<1>2. CASE r \in 0..rowCount - 1
  <2>1. rowCount - 1 \in Nat  BY <1>1, <1>2 DEF rowCount
  <2>2. rows' \in [1..rowCount - 1 -> S]
    BY <1>1, <1>2, <2>1 DEF RemoveRow, rowCount
  <2> QED  BY <2>1, <2>2
<1>3. CASE r \notin 0..rowCount - 1
  <2>1. rows' \in [1..rowCount -> S] /\ rowCount \in Nat
    BY <1>1, <1>3 DEF RemoveRow, rowCount
  <2> QED  BY <2>1
<1> QED  BY <1>2, <1>3

LEMMA DeleteRowTyped ==
  ASSUME TypeOK, NEW r \in Nat \cup {-1}, DeleteRow(r)
  PROVE  rows' \in Seq([Columns -> Cells]) /\ cvSelectedRow' \in Nat \cup {-1}
<1>1. rows \in Seq([Columns -> Cells])  BY DEF TypeOK
<1>2. CASE rowCount = 0  BY <1>1, <1>2 DEF DeleteRow
<1>3. CASE rowCount # 0
  <2>1. RemoveRow(r) /\ cvSelectedRow' = -1  BY <1>3 DEF DeleteRow
  <2> QED  BY <1>1, <2>1, RemoveRowTyped
<1> QED  BY <1>2, <1>3

LEMMA EditCellTyped ==
  ASSUME TypeOK, NEW r \in 0..rowCount - 1, NEW c \in Columns, NEW t \in Cells,
         EditCell(r, c, t)
  PROVE  rows' \in Seq([Columns -> Cells])
<1> DEFINE row == [rows[r + 1] EXCEPT ![c] = t]
<1>1. rows \in Seq([Columns -> Cells]) /\ r + 1 \in 1..Len(rows)
  BY DEF TypeOK, rowCount
<1>2. row \in [Columns -> Cells]  BY <1>1
<1>3. rows' = [rows EXCEPT ![r + 1] = row]  BY DEF EditCell
<1> HIDE DEF row
<1> QED  BY <1>1, <1>2, <1>3, ExceptSeq

\* The interpolate button is enabled: the three columns are columns.
LEMMA InterpolateColumns ==
  ASSUME TableInv, Interpolate
  PROVE  /\ cvColumnHeadersSet[Stamp] \in Columns
         /\ rows \in Seq([Columns -> Cells]) /\ Len(rows) >= 2
BY DEF TableInv, ButtonsFollowHeaders, HeaderInv, HeaderTypes, Interpolate,
       TypeOK, rowCount

\* What interpolating does to the rows of the table.
LEMMA InterpolateFacts ==
  ASSUME TableInv, Interpolate
  PROVE  /\ rows' \in Seq([Columns -> Cells])
         /\ Complete(GapLimit, rows, rows', cvColumnHeadersSet[Stamp])
<1> DEFINE c == cvColumnHeadersSet[Stamp]
           co == {cvColumnHeadersSet[Latitude], cvColumnHeadersSet[Longitude]}
<1>1. rows' = Interpolated(rows, Columns, c, co)  BY DEF Interpolate
<1>2. c \in Columns /\ rows \in Seq([Columns -> Cells]) /\ Len(rows) >= 2
  BY InterpolateColumns
<1> HIDE DEF c, co
<1>3. /\ Interpolated(rows, Columns, c, co) \in Seq([Columns -> Cells])
      /\ Complete(GapLimit, rows, Interpolated(rows, Columns, c, co), c)
  BY <1>2, InterpolatedComplete
<1> QED  BY <1>1, <1>3 DEF c

\* The map of headers stays a map to columns of the table.
LEMMA HeaderMapTyped ==
  ASSUME TableInv, HeaderStep, HeaderInv'
  PROVE  PartialMap(cvColumnHeadersSet, Fields, Columns)' /\ ColumnsOfProvider'
<1> DEFINE set == cvColumnHeadersSet
           IsMap == set' = [f \in DOMAIN set' |-> set'[f]]
<1>1. DOMAIN set' \subseteq Fields /\ \A f \in DOMAIN set' : set'[f] \in Columns'
  BY DEF HeaderInv, HeaderTypes
<1>2. ASSUME NEW p \in Providers, cvDataProvider' = p, set' = NoPairs,
             header' = ColumnHeaders[p]
      PROVE  IsMap /\ ColumnsOfProvider'
  BY <1>2, FieldsAssumption DEF NoPairs, ColumnsOfProvider, Columns
<1>3. ASSUME NEW h, HeaderSet(h)  PROVE IsMap /\ ColumnsOfProvider'
  <2>1. IsMap  BY <1>3 DEF HeaderSet, SetColumnHeader
  <2>2. cvDataProvider' = cvDataProvider /\ Columns' = Columns
    BY <1>3 DEF HeaderSet, SetColumnHeader, Columns
  <2> QED  BY <2>1, <2>2 DEF TableInv, ColumnsOfProvider
<1>4. ASSUME UNCHANGED headers  PROVE IsMap /\ ColumnsOfProvider'
  <2>1. ColumnsOfProvider'
    BY <1>4 DEF headers, TableInv, ColumnsOfProvider, Columns
  <2>2. set = [f \in DOMAIN set |-> set[f]]
    BY DEF TableInv, TypeOK, PartialMap
  <2>3. set' = set  BY <1>4 DEF headers
  <2> QED  BY <2>1, <2>2, <2>3
<1>5. IsMap /\ ColumnsOfProvider'
  BY <1>2, <1>3, <1>4 DEF HeaderStep
<1> QED  BY <1>1, <1>5 DEF PartialMap

\* What the other steps can do to the rows, the choice and what is sent.
RestOK ==
  /\ rows \in Seq([Columns -> Cells])
  /\ cvColumnSelected \in Nat \cup {NoColumn}
  /\ cvSelectedRow \in Nat \cup {-1}
  /\ PartialMap(cvRowData, Fields, Cells \ {Blank})
  /\ PartialMap(emitted, Fields, Cells \ {Blank})
  /\ cvOffset \in Offsets
  /\ undefined \in BOOLEAN

LEMMA ColumnsAreNumbers == TableInv => Columns \subseteq Nat
<1> SUFFICES ASSUME TableInv, NEW c \in Columns PROVE c \in Nat
  OBVIOUS
<1>1. cvDataProvider \in Providers /\ c \in DOMAIN ColumnHeaders[cvDataProvider]
  BY DEF TableInv, ColumnsOfProvider
<1> DEFINE D == DOMAIN ColumnHeaders[cvDataProvider]
           n == Cardinality(D) - 1
<1>2. D = 0..n  BY <1>1, ProvidersAssumption
<1> HIDE DEF n
<1> QED  BY <1>1, <1>2

LEMMA RestStep ==
  ASSUME TableInv, Next
  PROVE  RestOK'
<1>1. RestOK /\ Len(rows) \in Nat /\ PartialMap(NoPairs, Fields, Cells \ {Blank})
  BY DEF TableInv, TypeOK, RestOK, NoPairs, PartialMap
<1> USE DEF RestOK, table, choice
<1>2. CASE BroadcastRow
  <2>1. PartialMap(Pairs(cvRowData), Fields, Cells \ {Blank})
    BY <1>2, PairsTyped DEF BroadcastRow, TableInv
  <2> QED  BY <1>1, <1>2, <2>1 DEF BroadcastRow, Columns
<1>3. ASSUME emitted' = NoPairs, NEW p \in Providers, SetProvider(p)  PROVE RestOK'
  <2>1. Records[p] \in Seq([DOMAIN ColumnHeaders[p] -> Cells])
    BY ProvidersAssumption
  <2> QED  BY <1>1, <1>3, <2>1 DEF SetProvider, Columns
<1>4. ASSUME emitted' = NoPairs, NEW c \in Columns, HorizontalHeaderClicked(c)
      PROVE  RestOK'
  <2>1. c \in Nat  BY ColumnsAreNumbers
  <2> QED  BY <1>1, <1>4, <2>1 DEF HorizontalHeaderClicked, Columns
<1>5. ASSUME emitted' = NoPairs, NEW h, HeaderChosen(h)  PROVE RestOK'
  <2>1. Columns' = Columns
    BY <1>5 DEF HeaderChosen, SetColumnHeader, Columns
  <2> QED  BY <1>1, <1>5, <2>1 DEF HeaderChosen
<1>6. CASE emitted' = NoPairs /\ HeaderCancelled
  BY <1>1, <1>6 DEF HeaderCancelled, Columns
<1>7. ASSUME emitted' = NoPairs, NEW r \in 0..rowCount - 1, SelectRow(r)
      PROVE  RestOK'
  <2>1. PartialMap(RowData(r), Fields, Cells \ {Blank}) /\ r \in Nat
    BY RowDataTyped DEF TableInv
  <2> QED  BY <1>1, <1>7, <2>1 DEF SelectRow, Columns
<1>8. CASE emitted' = NoPairs /\ CellSelected
  BY <1>1, <1>8 DEF CellSelected, Columns
<1>9. ASSUME emitted' = NoPairs, NEW r \in 0..rowCount - 1, NEW c \in Columns,
             NEW t \in Typed[cvDataProvider], EditCell(r, c, t)
      PROVE  RestOK'
  <2>1. cvDataProvider \in Providers  BY DEF TableInv, ColumnsOfProvider
  <2>2. t \in Cells  BY <2>1, TypedAssumption
  <2>3. rows' \in Seq([Columns -> Cells])
    BY <1>9, <2>2, EditCellTyped DEF TableInv
  <2> QED  BY <1>1, <1>9, <2>3 DEF EditCell, Columns
<1>10. CASE emitted' = NoPairs /\ DeleteClicked
  <2>1. rows' \in Seq([Columns -> Cells]) /\ cvSelectedRow' \in Nat \cup {-1}
    BY <1>1, <1>10, DeleteRowTyped DEF DeleteClicked, TableInv
  <2> QED  BY <1>1, <1>10, <2>1 DEF DeleteClicked, Columns
<1>11. ASSUME emitted' = NoPairs, NEW r \in -1..rowCount - 1, PopUpMenu(r)
       PROVE  RestOK'
  <2>1. r \in Nat \cup {-1}  BY <1>1 DEF rowCount
  <2>2. rows' \in Seq([Columns -> Cells]) /\ cvSelectedRow' \in Nat \cup {-1}
    <3>1. CASE DeleteRow(r)  BY <2>1, <3>1, DeleteRowTyped DEF TableInv
    <3>2. CASE cvSelectedRow' = r /\ UNCHANGED <<rows, buttons>>
      BY <1>1, <2>1, <3>2
    <3> QED  BY <1>11, <3>1, <3>2 DEF PopUpMenu
  <2> QED  BY <1>1, <1>11, <2>2 DEF PopUpMenu, Columns
<1>12. CASE emitted' = NoPairs /\ Interpolate
  <2>1. rows' \in Seq([Columns -> Cells])  BY <1>12, InterpolateFacts
  <2> QED  BY <1>1, <1>12, <2>1 DEF Interpolate, Columns
<1>13. ASSUME emitted' = NoPairs, NEW o \in Offsets, SetOffset(o)  PROVE RestOK'
  BY <1>1, <1>13 DEF SetOffset, Columns
<1> QED
  BY <1>2, <1>3, <1>4, <1>5, <1>6, <1>7, <1>8, <1>9, <1>10, <1>11, <1>12,
     <1>13 DEF Next

LEMMA TableInvStep == TableInv /\ [Next]_vars => TableInv'
<1> SUFFICES ASSUME TableInv, [Next]_vars PROVE TableInv'
  OBVIOUS
<1>1. HeaderStep /\ ButtonStep  BY StepCases
<1>2. HeaderInv'  BY <1>1, HeaderInvStep DEF TableInv
<1>3. ButtonsFollowHeaders'  BY <1>1, ButtonsStep DEF TableInv
<1>4. ButtonsOK'  BY <1>1, ButtonsTyped DEF TableInv, TypeOK, ButtonsOK
<1>5. PartialMap(cvColumnHeadersSet, Fields, Columns)' /\ ColumnsOfProvider'
  BY <1>1, <1>2, HeaderMapTyped
<1>6. RestOK'
  <2>1. CASE UNCHANGED vars
    BY <2>1 DEF vars, table, choice, TableInv, TypeOK, RestOK, Columns
  <2> QED  BY <2>1, RestStep
<1> QED
  BY <1>2, <1>3, <1>4, <1>5, <1>6 DEF TableInv, TypeOK, ColumnsOfProvider,
     ButtonsOK, RestOK

LEMMA TableInvInit == Init => TableInv
<1> SUFFICES ASSUME Init PROVE TableInv
  OBVIOUS
<1>1. HeaderInv
  BY DEF Init, HeaderInv, HeaderTypes, HeadersConsistent, NoPairs, Columns
<1>2. ButtonsFollowHeaders
  BY DEF Init, ButtonsFollowHeaders, NoPairs
<1>3. Columns = {}  BY DEF Init, Columns
<1>4. TypeOK
  <2>1. rows \in Seq([Columns -> Cells])  BY DEF Init
  <2>2. \A D, R : PartialMap(NoPairs, D, R)  BY DEF PartialMap, NoPairs
  <2>3. cvOffset \in Offsets  BY FieldsAssumption DEF Init
  <2> QED  BY <2>1, <2>2, <2>3 DEF Init, TypeOK
<1>5. ColumnsOfProvider
  BY <1>3, FieldsAssumption DEF Init, ColumnsOfProvider
<1> QED  BY <1>1, <1>2, <1>4, <1>5 DEF TableInv

\* The rows always have the columns of the table and its cells are texts, what
\* was selected and what is sent has no blank text, and a time that is sent is
\* one, whatever offset is added (validDateTimeStamp(), broadcastRow()).
THEOREM TypeCorrect == Spec => []TypeOK
<1>1. TableInv => TypeOK  BY DEF TableInv
<1> QED  BY <1>1, TableInvInit, TableInvStep, PTL DEF Spec

\* Every press of the interpolate button leaves a table in which every second
\* between two rows that are close enough has a row and no row is lost,
\* although interpolate() itself tests only that some header is set.
THEOREM InterpolateFillsGaps ==
  Spec => [][Interpolate => Complete(GapLimit, rows, rows',
                                     cvColumnHeadersSet[Stamp])]_vars
<1>1. TableInv => (Interpolate => Complete(GapLimit, rows, rows',
                                           cvColumnHeadersSet[Stamp]))
  BY InterpolateFacts
<1> QED  BY <1>1, TableInvInit, TableInvStep, PTL DEF Spec
=============================================================================
