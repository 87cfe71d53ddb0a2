---------------------------- MODULE GpsDataTable ----------------------------
(***************************************************************************)
(* EgtGpsDataTable and the buttons of EgtGpsDisplayWidget.                 *)
(*                                                                         *)
(* The table shows the records of a data provider.  The user gives columns *)
(* the names of EXIF fields, selects a row, edits, deletes and             *)
(* interpolates rows, and sends the selected one to the editors.  What is  *)
(* sent is not read from the table then, but was when the row was          *)
(* selected.  The widget enables its buttons when the table signals a      *)
(* change of its headers or its selection.                                 *)
(*                                                                         *)
(* Rows and columns are numbered from 0, as in the source.                 *)
(***************************************************************************)
EXTENDS Interpolation

CONSTANTS
  Providers,      \* data providers that can be loaded
  NoProvider,
  ColumnHeaders,  \* ColumnHeaders[p]: p's headers, a function on its columns
  Records,        \* Records[p]: p's records, a sequence of functions on its columns
  Fields,         \* cvAvailableFields without "( clear )"
  Stamp, Latitude, Longitude,
  Clear,          \* "( clear )"
  Typed,          \* Typed[p]: texts the user may type into the table of p
  Offsets         \* time offsets, in seconds

ASSUME FieldsAssumption ==
  /\ {Stamp, Latitude, Longitude} \subseteq Fields
  /\ Cardinality({Stamp, Latitude, Longitude}) = 3
  /\ Clear \notin Fields
  /\ NoProvider \notin Providers
  /\ Offsets \subseteq Nat /\ 0 \in Offsets

ASSUME ProvidersAssumption ==
  \A p \in Providers :
    LET D == DOMAIN ColumnHeaders[p] IN
    /\ D = 0..Cardinality(D) - 1
    /\ Records[p] \in Seq([D -> Cells])

ASSUME TypedAssumption ==
  /\ DOMAIN Typed = Providers
  /\ \A p \in Providers : Typed[p] \subseteq Cells

VARIABLES
  cvDataProvider,
  rows,                \* the records in the table, in the order shown
  header,              \* the header shown over each column
  cvColumnHeadersSet,  \* the columns of the fields that are set
  cvColumnSelected,    \* the column cvHeaderSelectionDialog is shown for
  cvSelectedRow,
  cvRowData,           \* the fields of the row that was selected
  cvOffset,
  buttons,             \* the widget's buttons that are enabled
  emitted,             \* the pairs the last step sent
  undefined            \* a header was read past the last column

table == <<cvDataProvider, rows, header>>
choice == <<cvSelectedRow, cvRowData>>
vars == <<table, cvColumnHeadersSet, cvColumnSelected, choice, cvOffset,
          buttons, emitted, undefined>>

Columns == DOMAIN header
rowCount == Len(rows)
columnCount == Cardinality(Columns)

PartialMap(m, D, R) == DOMAIN m \subseteq D /\ m \in [DOMAIN m -> R]
NoColumn == -1
NoPairs == [f \in {} |-> Blank]

-----------------------------------------------------------------------------
(* Parts of the handlers.                                                  *)

\* EgtGpsDisplayWidget::enableButtons()
EnableButtons ==
  LET set == DOMAIN cvColumnHeadersSet'
      isRowSelected == cvSelectedRow' # -1
  IN  buttons' = [send        |-> isRowSelected /\ set # {},
                  delete      |-> isRowSelected,
                  offset      |-> Stamp \in set,
                  interpolate |-> {Stamp, Latitude, Longitude} \subseteq set]

\* The map without the field that is set to column c, if any.
Without(c) == [f \in {g \in DOMAIN cvColumnHeadersSet :
                        cvColumnHeadersSet[g] # c} |-> cvColumnHeadersSet[f]]

\* What selectRow() keeps of row r: its texts under the headers that are set.
RowData(r) ==
  LET text(f) == rows[r + 1][cvColumnHeadersSet[f]]
  IN  [f \in {g \in DOMAIN cvColumnHeadersSet : text(g) # Blank} |-> text(f)]

\* What broadcastRow() makes of it.
Pairs(data) == [f \in DOMAIN data |-> IF f = Stamp THEN data[f] + cvOffset
                                      ELSE data[f]]

validDateTimeStamp == Stamp \in DOMAIN cvRowData => cvRowData[Stamp] \in Nat

\* The rows but row r; removeRow() ignores a row the table does not have.
RemoveRow(r) ==
  rows' = [i \in 1..(IF r \in 0..rowCount - 1 THEN rowCount - 1 ELSE rowCount)
             |-> IF r \in 0..rowCount - 1 /\ i > r THEN rows[i + 1] ELSE rows[i]]

\* deleteRow( int ): its test of the row's range is always true.
DeleteRow(r) ==
  IF rowCount = 0
  THEN /\ cvSelectedRow' = r
       /\ UNCHANGED <<rows, buttons>>
  ELSE /\ RemoveRow(r)
       /\ cvSelectedRow' = -1
       /\ EnableButtons

-----------------------------------------------------------------------------
(* The operations.                                                         *)

Init ==
  /\ cvDataProvider = NoProvider
  /\ rows = <<>> /\ header = [c \in {} |-> Blank]
  /\ cvColumnHeadersSet = NoPairs
  /\ cvColumnSelected = NoColumn
  /\ cvSelectedRow = -1 /\ cvRowData = NoPairs
  /\ cvOffset = 0
  /\ buttons = [send |-> FALSE, delete |-> FALSE, offset |-> FALSE,
                interpolate |-> FALSE]
  /\ emitted = NoPairs
  /\ undefined = FALSE

\* Mutant: the widget is not told.
SetProviderSilently(p) ==
  /\ cvDataProvider' = p
  /\ rows' = Records[p] /\ header' = ColumnHeaders[p]
  /\ cvColumnHeadersSet' = NoPairs
  /\ UNCHANGED <<cvColumnSelected, choice, cvOffset, undefined, buttons>>

\* setProvider() and populateTable().  The selection stays.
SetProvider(p) ==
  /\ cvDataProvider' = p
  /\ rows' = Records[p] /\ header' = ColumnHeaders[p]
  /\ cvColumnHeadersSet' = NoPairs
  /\ UNCHANGED <<cvColumnSelected, choice, cvOffset, undefined>>
  /\ EnableButtons

HorizontalHeaderClicked(c) ==
  /\ cvColumnSelected' = c
  /\ cvSelectedRow' = -1
  /\ UNCHANGED <<table, cvColumnHeadersSet, cvRowData, cvOffset, undefined>>
  /\ EnableButtons

\* Mutant: the field the column had stays set.
SetColumnHeaderOver(h) ==
  /\ header' = [header EXCEPT ![cvColumnSelected] =
                  IF h = Clear THEN ColumnHeaders[cvDataProvider][cvColumnSelected]
                  ELSE h]
  /\ cvColumnHeadersSet' =
       [f \in DOMAIN cvColumnHeadersSet \cup ({h} \ {Clear}) |->
          IF f = h THEN cvColumnSelected ELSE cvColumnHeadersSet[f]]

\* setColumnHeader() and clearColumnHeader() on a column of the table.
SetColumnHeader(h) ==
  LET rest == Without(cvColumnSelected) IN
  /\ header' = [header EXCEPT ![cvColumnSelected] =
                  IF h = Clear THEN ColumnHeaders[cvDataProvider][cvColumnSelected]
                  ELSE h]
  /\ cvColumnHeadersSet' =
       [f \in DOMAIN rest \cup ({h} \ {Clear}) |->
          IF f = h THEN cvColumnSelected ELSE rest[f]]

\* on_pbtnOk_clicked().  The dialog is not modal: the table may have been
\* filled anew, with fewer columns, since the header was clicked.  A column
\* past the last one is refused, but not the first such column.
HeaderChosen(h) ==
  /\ cvColumnSelected # NoColumn
  /\ h \notin DOMAIN cvColumnHeadersSet
  /\ cvColumnSelected' = NoColumn
  /\ undefined' = (cvColumnSelected = columnCount)
  /\ UNCHANGED <<cvDataProvider, rows, choice, cvOffset>>
  /\ IF cvColumnSelected \in Columns
     THEN SetColumnHeader(h) /\ EnableButtons
     ELSE UNCHANGED <<header, cvColumnHeadersSet, buttons>>

HeaderCancelled ==
  /\ cvColumnSelected # NoColumn
  /\ cvColumnSelected' = NoColumn
  /\ UNCHANGED <<table, cvColumnHeadersSet, choice, cvOffset, buttons, undefined>>

\* Mutant: empty texts are kept.
SelectRowBlanks(r) ==
  /\ cvSelectedRow' = r
  /\ cvRowData' = [f \in DOMAIN cvColumnHeadersSet |->
                     rows[r + 1][cvColumnHeadersSet[f]]]
  /\ UNCHANGED <<table, cvColumnHeadersSet, cvColumnSelected, cvOffset, undefined>>
  /\ EnableButtons

\* verticalHeader_clicked() and selectRow().
SelectRow(r) ==
  /\ cvSelectedRow' = r
  /\ cvRowData' = RowData(r)
  /\ UNCHANGED <<table, cvColumnHeadersSet, cvColumnSelected, cvOffset, undefined>>
  /\ EnableButtons

\* cell_selected() signals as if the selection were gone.
CellSelected ==
  /\ rowCount > 0 /\ columnCount > 0
  /\ UNCHANGED <<table, cvColumnHeadersSet, cvColumnSelected, choice, cvOffset,
                 undefined>>
  /\ EnableButtons

\* The user types into a cell of the table.
EditCell(r, c, t) ==
  /\ rows' = [rows EXCEPT ![r + 1][c] = t]
  /\ UNCHANGED <<cvDataProvider, header, cvColumnHeadersSet, cvColumnSelected,
                 choice, cvOffset, buttons, undefined>>

\* The delete button.
DeleteClicked ==
  /\ buttons.delete
  /\ UNCHANGED <<cvDataProvider, header, cvColumnHeadersSet, cvColumnSelected,
                 cvRowData, cvOffset, undefined>>
  /\ DeleteRow(cvSelectedRow)

\* popUpMenu() on row r, or below the last row.  It selects the row but reads
\* nothing, and signals nothing unless the row is deleted.
PopUpMenu(r) ==
  /\ UNCHANGED <<cvDataProvider, header, cvColumnHeadersSet, cvColumnSelected,
                 cvRowData, cvOffset, undefined>>
  /\ \/ DeleteRow(r)
     \/ cvSelectedRow' = r /\ UNCHANGED <<rows, buttons>>

\* The interpolate button.  The table signals nothing.
Interpolate ==
  /\ buttons.interpolate
  /\ rowCount >= 2
  /\ rows' = Interpolated(rows, Columns, cvColumnHeadersSet[Stamp],
                          {cvColumnHeadersSet[Latitude],
                           cvColumnHeadersSet[Longitude]})
  /\ UNCHANGED <<cvDataProvider, header, cvColumnHeadersSet, cvColumnSelected,
                 choice, cvOffset, buttons, undefined>>

SetOffset(o) ==
  /\ cvOffset' = o
  /\ UNCHANGED <<table, cvColumnHeadersSet, cvColumnSelected, choice, buttons,
                 undefined>>

\* broadcastRow(): the send button.
BroadcastRow ==
  /\ buttons.send
  /\ validDateTimeStamp
  /\ emitted' = Pairs(cvRowData)
  /\ UNCHANGED <<table, cvColumnHeadersSet, cvColumnSelected, choice, cvOffset,
                 buttons, undefined>>

\* Nothing is modelled after an access past the end of a list.
Next ==
  /\ ~undefined
  /\ \/ BroadcastRow
     \/ /\ emitted' = NoPairs
        /\ \/ \E p \in Providers : SetProvider(p)
           \/ \E c \in Columns : HorizontalHeaderClicked(c)
           \/ \E h \in Fields \cup {Clear} : HeaderChosen(h)
           \/ HeaderCancelled
           \/ \E r \in 0..rowCount - 1 : SelectRow(r)
           \/ CellSelected
           \/ \E r \in 0..rowCount - 1, c \in Columns :
                \E t \in Typed[cvDataProvider] : EditCell(r, c, t)
           \/ DeleteClicked
           \/ \E r \in -1..rowCount - 1 : PopUpMenu(r)
           \/ Interpolate
           \/ \E o \in Offsets : SetOffset(o)

Spec == Init /\ [][Next]_vars

-----------------------------------------------------------------------------
(* Properties.                                                             *)

TypeOK ==
  /\ cvDataProvider \in Providers \cup {NoProvider}
  /\ rows \in Seq([Columns -> Cells])
  /\ PartialMap(cvColumnHeadersSet, Fields, Columns)
  /\ cvColumnSelected \in Nat \cup {NoColumn}
  /\ cvSelectedRow \in Nat \cup {-1}
  /\ PartialMap(cvRowData, Fields, Cells \ {Blank})
  /\ PartialMap(emitted, Fields, Cells \ {Blank})
  /\ cvOffset \in Offsets
  /\ undefined \in BOOLEAN
  /\ buttons \in [send : BOOLEAN, delete : BOOLEAN, offset : BOOLEAN,
                  interpolate : BOOLEAN]

\* No two fields are set to one column, and the label over each column is the
\* field that is set to it, or the provider's own header (setColumnHeader(),
\* clearColumnHeader(), populateTable()).
HeadersConsistent ==
  /\ \A f, g \in DOMAIN cvColumnHeadersSet :
       cvColumnHeadersSet[f] = cvColumnHeadersSet[g] => f = g
  /\ \A f \in DOMAIN cvColumnHeadersSet : header[cvColumnHeadersSet[f]] = f
  /\ \A c \in Columns :
       (\A f \in DOMAIN cvColumnHeadersSet : cvColumnHeadersSet[f] # c) =>
         header[c] = ColumnHeaders[cvDataProvider][c]

\* The buttons never lag behind the headers of the table: interpolate() looks
\* up three columns that its button alone guarantees, since its own test
\* fails only if none of them is set.
ButtonsFollowHeaders ==
  LET set == DOMAIN cvColumnHeadersSet IN
  /\ buttons.interpolate <=> {Stamp, Latitude, Longitude} \subseteq set
  /\ buttons.offset <=> Stamp \in set
  /\ buttons.send => set # {}

\* What egtgpsdatatable.h says of broadcastRow(): it broadcasts the pairs in
\* the currently selected row.
SendsSelectedRow ==
  emitted # NoPairs => /\ cvSelectedRow \in 0..rowCount - 1
                       /\ emitted = Pairs(RowData(cvSelectedRow))

=============================================================================
