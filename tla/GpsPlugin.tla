----------------------------- MODULE GpsPlugin -----------------------------
(***************************************************************************)
(* EgtGpsPlugin and its data providers.  The user chooses a type of        *)
(* provider; the plugin makes one, connects itself to dataProviderReady()  *)
(* and lets the provider ask for a file.  The provider then shows a dialog *)
(* that is not modal, so that more of them may be made and be open.  When  *)
(* a provider says it is ready, the plugin gives the one it made last to   *)
(* the table, which deletes the one it had.                                *)
(*                                                                         *)
(* A text provider reads its file at once and again whenever its dialog    *)
(* changes, to show a preview; a GPS provider (GPX, KML) reads it when its *)
(* dialog is confirmed.  Of a file only the number of its records counts.  *)
(***************************************************************************)
EXTENDS Integers, Sequences, FiniteSets

CONSTANTS
  MaxProviders,  \* bound on the providers made
  MaxRecords     \* bound on the records of a file

ASSUME BoundsAssumption == MaxProviders \in Nat /\ MaxRecords \in Nat \ {0}

VARIABLES
  typeDialog,      \* cvProviderTypeDialog is shown
  cvDataProvider,  \* the provider made last; 0: none
  providers,       \* the providers, in the order they were made
  table,           \* the table's provider
  rows,            \* the numbers of the records in the table
  preview,         \* the numbers of the records in the last preview
  undefined,       \* a deleted provider was used, or a record after the last read
  overlapped       \* history: one was made while another's dialog was open

vars == <<typeDialog, cvDataProvider, providers, table, rows, preview,
          undefined, overlapped>>

\* answer is history: how the provider's dialog was closed.
Provider == [kind : {"text", "gps"}, dialog : BOOLEAN, connected : BOOLEAN,
             deleted : BOOLEAN, cvValid : BOOLEAN, size : 0..MaxRecords,
             cvCurrentRecord : -1..MaxRecords - 1,
             answer : {"none", "accepted", "cancelled"}]

Made == DOMAIN providers

TypeOK ==
  /\ typeDialog \in BOOLEAN /\ undefined \in BOOLEAN /\ overlapped \in BOOLEAN
  /\ providers \in Seq(Provider) /\ Len(providers) <= MaxProviders
  /\ cvDataProvider = Len(providers)
  /\ table \in Made \cup {0}
  /\ rows \subseteq 0..MaxRecords - 1 /\ preview \subseteq 0..MaxRecords - 1

Init ==
  /\ typeDialog = FALSE /\ cvDataProvider = 0 /\ providers = <<>>
  /\ table = 0 /\ rows = {} /\ preview = {}
  /\ undefined = FALSE /\ overlapped = FALSE

-----------------------------------------------------------------------------
(* Parts of the handlers: what they make of a provider, or of the table.   *)

\* Mutant of Following: next() goes one past the end.
FollowingPastEnd(p, k) == {r \in 0..p.size : r > p.cvCurrentRecord
                                              /\ r <= p.cvCurrentRecord + k + 1}

\* Whether next() reads after the last record: it stops at that one, but not at
\* a current record that a shorter reading of the file has left behind.
PastEnd(p) == p.size # 0 /\ p.cvCurrentRecord >= p.size

\* What k calls of next() return, and where they leave the record, unless the
\* first of them is past the end.
Following(p, k) == {r \in 0..p.size - 1 : r > p.cvCurrentRecord
                                          /\ r <= p.cvCurrentRecord + k}
After(p, k) == IF p.size = 0 THEN p.cvCurrentRecord
               ELSE IF p.cvCurrentRecord + k < p.size THEN p.cvCurrentRecord + k
               ELSE p.size - 1
Reset(p) == [p EXCEPT !.cvCurrentRecord = -1]

\* read(): the file cannot be read, or has that many records.
Reads(p, n) == [p EXCEPT !.cvValid = TRUE, !.size = n]
Unread(p) == [p EXCEPT !.cvValid = FALSE, !.size = 0]
ReadOutcomes(p, least) == {Reads(p, n) : n \in least..MaxRecords} \cup {Unread(p)}

Fresh(kind) == [kind |-> kind, dialog |-> FALSE, connected |-> TRUE,
                deleted |-> FALSE, cvValid |-> FALSE, size |-> 0,
                cvCurrentRecord |-> -1, answer |-> "none"]

\* A provider's dialog is open.
Configuring == \E p \in Made : providers[p].dialog

\* The dialog closes with an answer.
Answered(p, answer) == [p EXCEPT !.dialog = FALSE, !.answer = answer]

\* Mutant of Cleared: initialized( false ) keeps the records.
ClearedNot(p) == p

\* initialized( false ) clears the records, and says ready all the same.
Cleared(p) == [p EXCEPT !.size = 0]

\* setProvider() deletes the table's provider; a GPS provider's dialog is a
\* part of it and goes with it, a text provider's dialog stays.
Deleted(p) == [p EXCEPT !.deleted = TRUE,
                        !.dialog = p.dialog /\ p.kind = "text"]

\* Mutant of Install: the plugin goes on listening.
InstallListening(ps, d) ==
  /\ table' = d
  /\ undefined' = (table = d)
  /\ rows' = Following(Reset(ps[d]), ps[d].size)
  /\ providers' = [q \in DOMAIN ps |-> IF q = table THEN Deleted(ps[q]) ELSE ps[q]]

\* setProvider() and populateTable().  If the table already has that provider
\* it is deleted, and used then.
Install(ps, d) ==
  /\ table' = d
  /\ undefined' = (table = d)
  /\ rows' = Following(Reset(ps[d]), ps[d].size)
  /\ providers' =
       [q \in DOMAIN ps |->
          IF q = table THEN Deleted(ps[q])
          ELSE IF q = d
          THEN [ps[q] EXCEPT !.connected = FALSE,
                             !.cvCurrentRecord = After(Reset(ps[q]), ps[q].size)]
          ELSE ps[q]]

\* Provider p says it is ready: if the plugin listens, setDataProvider() looks
\* at the provider made last.
Ready(ps, p) ==
  LET d == cvDataProvider' IN
  IF ~ps[p].connected
  THEN providers' = ps /\ UNCHANGED <<table, rows, undefined>>
  ELSE IF ps[d].deleted
  THEN undefined' = TRUE /\ providers' = ps /\ UNCHANGED <<table, rows>>
  ELSE IF ps[d].cvValid
  THEN Install(ps, d)
  ELSE providers' = ps /\ UNCHANGED <<table, rows, undefined>>

\* A dialog of a text provider calls a provider that is gone.
Dangling ==
  /\ undefined' = TRUE
  /\ UNCHANGED <<providers, table, rows, preview>>

-----------------------------------------------------------------------------
(* The operations.                                                         *)

\* showAvailableDataProviders()
ShowAvailableDataProviders ==
  /\ typeDialog' = TRUE
  /\ UNCHANGED <<cvDataProvider, providers, table, rows, preview, undefined,
                 overlapped>>

\* The dialog is cancelled, or confirmed without a choice.
NothingSelected ==
  /\ typeDialog
  /\ typeDialog' = FALSE
  /\ UNCHANGED <<cvDataProvider, providers, table, rows, preview, undefined,
                 overlapped>>

\* Mutant of SelectDataProvider: a text provider says it is ready once it has
\* read its file.
SelectDataProviderEarly(kind) ==
  /\ typeDialog /\ Len(providers) < MaxProviders
  /\ typeDialog' = FALSE
  /\ cvDataProvider' = cvDataProvider + 1
  /\ \E p \in IF kind = "text" THEN ReadOutcomes(Fresh(kind), 1) ELSE {Fresh(kind)} :
       Ready(Append(providers, [p EXCEPT !.dialog = TRUE]), cvDataProvider')
  /\ overlapped' = (overlapped \/ Configuring)
  /\ UNCHANGED preview

\* selectDataProvider(): a provider is made and configured; the file dialog,
\* which is modal, gives a file and the provider's own dialog is shown.
SelectDataProvider(kind) ==
  /\ typeDialog /\ Len(providers) < MaxProviders
  /\ typeDialog' = FALSE
  /\ cvDataProvider' = cvDataProvider + 1
  /\ \E p \in IF kind = "text" THEN ReadOutcomes(Fresh(kind), 1) ELSE {Fresh(kind)} :
       providers' = Append(providers, [p EXCEPT !.dialog = TRUE])
  /\ overlapped' = (overlapped \/ Configuring)
  /\ UNCHANGED <<table, rows, preview, undefined>>

\* The file dialog is cancelled.
NoFileSelected(kind) ==
  /\ typeDialog /\ Len(providers) < MaxProviders
  /\ typeDialog' = FALSE
  /\ cvDataProvider' = cvDataProvider + 1
  /\ overlapped' = (overlapped \/ Configuring)
  /\ Ready(Append(providers, Answered(Fresh(kind), "cancelled")), cvDataProvider')
  /\ UNCHANGED preview

\* The dialog shows up to three records.
Previewed(p) == IF p.size > 3 THEN 3 ELSE p.size

\* Mutant of DelimiterChanged: the provider is not reset after the preview.
DelimiterChangedNoReset(p) ==
  /\ providers[p].kind = "text" /\ providers[p].dialog
  /\ IF providers[p].deleted THEN Dangling
     ELSE \E q \in ReadOutcomes(providers[p], 0) :
            /\ providers' = [providers EXCEPT ![p] =
                 IF PastEnd(q) THEN q
                 ELSE [q EXCEPT !.cvCurrentRecord = After(q, Previewed(q))]]
            /\ preview' = IF PastEnd(q) THEN preview ELSE Following(q, Previewed(q))
            /\ undefined' = PastEnd(q)
            /\ UNCHANGED <<table, rows>>
  /\ UNCHANGED <<typeDialog, cvDataProvider, overlapped>>

\* delimiterChanged(): the file is read again, the current record is kept and
\* the preview follows it.  Another delimiter or a line of headers may leave
\* fewer records, or none.
DelimiterChanged(p) ==
  /\ providers[p].kind = "text" /\ providers[p].dialog
  /\ IF providers[p].deleted THEN Dangling
     ELSE \E q \in ReadOutcomes(providers[p], 0) :
            /\ providers' = [providers EXCEPT ![p] = IF PastEnd(q) THEN q ELSE Reset(q)]
            /\ preview' = IF PastEnd(q) THEN preview ELSE Following(q, Previewed(q))
            /\ undefined' = PastEnd(q)
            /\ UNCHANGED <<table, rows>>
  /\ UNCHANGED <<typeDialog, cvDataProvider, overlapped>>

\* accepted() of the text provider's dialog: without a record there is only a
\* message, but the dialog is closed.
TextAccepted(p) ==
  /\ providers[p].kind = "text" /\ providers[p].dialog
  /\ UNCHANGED <<typeDialog, cvDataProvider, preview, overlapped>>
  /\ IF providers[p].deleted THEN Dangling
     ELSE IF providers[p].size = 0
     THEN /\ providers' = [providers EXCEPT ![p].dialog = FALSE]
          /\ UNCHANGED <<table, rows, undefined>>
     ELSE Ready([providers EXCEPT ![p] = Answered(@, "accepted")], p)

\* finishConfiguration() of a GPS provider.
GpsAccepted(p) ==
  /\ providers[p].kind = "gps" /\ providers[p].dialog
  /\ UNCHANGED <<typeDialog, cvDataProvider, preview, overlapped>>
  /\ \E q \in ReadOutcomes(providers[p], 0) :
       LET r == Answered(q, "accepted") IN
       Ready([providers EXCEPT ![p] = IF q.cvValid THEN r ELSE Cleared(r)], p)

\* The dialog's cancel button: cancel(), rejected().
Cancelled(p) ==
  /\ providers[p].dialog
  /\ UNCHANGED <<typeDialog, cvDataProvider, preview, overlapped>>
  /\ IF providers[p].deleted THEN Dangling
     ELSE Ready([providers EXCEPT ![p] = Cleared(Answered(@, "cancelled"))], p)

\* The dialog's window is closed: nobody is told.
Closed(p) ==
  /\ providers[p].dialog
  /\ providers' = [providers EXCEPT ![p].dialog = FALSE]
  /\ UNCHANGED <<typeDialog, cvDataProvider, table, rows, preview, undefined,
                 overlapped>>

Next ==
  /\ ~undefined
  /\ \/ ShowAvailableDataProviders \/ NothingSelected
     \/ \E kind \in {"text", "gps"} : SelectDataProvider(kind) \/ NoFileSelected(kind)
     \/ \E p \in Made : \/ DelimiterChanged(p) \/ TextAccepted(p) \/ GpsAccepted(p)
                        \/ Cancelled(p) \/ Closed(p)

Spec == Init /\ [][Next]_vars

-----------------------------------------------------------------------------
(* Properties.                                                             *)

\* If no provider was made while another's dialog was open, the table shows
\* every record of the provider confirmed last; or none, and a text provider
\* that was cancelled after its file had been read.  No deleted provider is
\* used.
TableIsConfirmed ==
  ~overlapped =>
    /\ ~undefined
    /\ \A p \in Made : providers[p].answer = "accepted" /\ providers[p].cvValid
                         => p <= table
    /\ table # 0 =>
         LET p == providers[table] IN
         /\ ~p.deleted /\ rows = 0..p.size - 1
         /\ \/ p.answer = "accepted" /\ p.cvValid
            \/ p.answer = "cancelled" /\ p.kind = "text" /\ rows = {}

\* Nor does a preview then show other records of the file than its first ones,
\* however often it was read: read() keeps the current record, the preview
\* resets it.  What the table was given has its current record at its end; with
\* or without overlap a preview of any other provider starts before the first
\* record, so that only of the table's can a record after the last be read.
PreviewFromFirst ==
  /\ ~overlapped => preview \in {{}, {0}, {0, 1}, {0, 1, 2}}
  /\ \A p \in Made : ~providers[p].deleted /\ p # table
                       => providers[p].cvCurrentRecord = -1

\* A provider's dialog can be open after the plugin has stopped listening to
\* it only if another dialog was open with it: no answer is lost.
AnswerIsHeard ==
  \A p \in Made : providers[p].dialog /\ ~providers[p].connected => overlapped

\* What the table had is deleted, once, and nothing else is: of the providers
\* that were given to the table only the last is alive.
DeletedWhenReplaced ==
  \A p \in Made : providers[p].deleted =>
    ~providers[p].connected /\ (p # table \/ undefined)
=============================================================================
