# EasyGT in TLA+

EasyGT (EasyGeoTagger, `easygeotagger/`) is a Qt desktop program that writes
GPS positions into the EXIF headers of photographs. This directory is its
formal model: TLA+ modules translated from the source, TLC configurations that
check them on small instances, and proofs that TLAPS checks for every value of
the constants. All paths below are relative to `easygeotagger/src/`.

## 1. Inventory

### 1.1 The parts

| Part | State | Operations | Talks to |
|---|---|---|---|
| **Image factory** `core/egtimagefactory.cpp` | current name, original and scaled image, valid / resized / processing flags | `setFile`, `scaleImage`, `rawImageLoaded`, destructor | owns a reader; `imageLoaded` and `progress` signals to its clients |
| **Raw reader** `core/egtrawimagereader.cpp` | file name, image, abort / loaded / initialized flags, a thread | `run` and its stages, `setFile`, `abort`, `recycle`, `image` | LibRaw; queued signals to the factory |
| **Main window** `app/egtmainwindow.cpp` | its own factory, the preview, the tool box | select a file, draw the preview, refresh, exit | factory, plugins, plugin manager |
| **Application, interface** `app/egtapplication.cpp`, `app/egtapplicationinterface.cpp` | pointers | wires parts, forwards signals | everything |
| **Plugin and provider managers** `app/egtpluginmanager.cpp`, `egtdataprovidermanager.cpp` | displays by category and name, providers by name | load a directory or a file, initialize, update the GUI | plugins, providers, main window |
| **EXIF engines** `core/egtexifengine.cpp`, `egtgpsexifengine.cpp`, `egtphotoexifengine.cpp` | open file, valid flag, has-GPS flag; the file is the only copy of the data | `setFile`, `read`, `write` per key | Exiv2 |
| **EXIF editor form** `app/egtexifeditor.cpp`, `egtexiftagcontrol.cpp`, `egtexiftaggroup.cpp` | check boxes, line edits, cached values, discard buttons, units, settings on disk | load, save, toggle, group, discard, type | engine, `QSettings`, other plugins' key-value pairs |
| **GPS EXIF editor** `plugins/gps_exif_editor/` | the file shown | select, show, accept pairs | editor form |
| **GPS data table** `core/egtgpsdatatable.cpp`, `plugins/gps_plugin/egtgpsdisplaywidget.cpp` | rows, headers, selection, copied row, offset; buttons | set headers, select, edit, delete, interpolate, send | provider; `broadcastKeyValuePair` to the editors |
| **GPS plugin and providers** `plugins/gps_plugin/egtgpsplugin.cpp`, `core/egtdataprovider.cpp`, `providers/*` | a provider's data, its cursor, valid flag; dialogs | configure, read, next, previous, hand over to the table | data provider manager, table |
| **Synchronize dialog** `plugins/gps_plugin/egtsynchronizedialog.cpp` | an image, two time stamps, an offset | open, edit, accept | own factory, photo engine, table |
| **GPX parser, GPSBabel provider** `core/egtgpxparser.cpp`, `egtgpsprovider.cpp` | parsed way points; a child process | convert, parse | GPSBabel |
| **Save as JPEG, CSV export** `plugins/save_as_jpg`, `plugins/export_to_csv` | index of the file being exported | run, imageLoaded | factory, engines |
| Google plugin, Python console, QGIS plugins, test stubs, bindings | none of their own, or another program's | - | - |

### 1.2 How they interact, and what is hard

* **One real thread.** Everything runs in the GUI thread except the raw
  reader. Its signals are queued: a result may be delivered after the request
  it answers was overtaken. The two threads share plain members
  (`cvAbort`, `cvImage`, `cvImageLoaded`, `cvIsInitialized`) without a lock.
* **A blocking wait.** `EgtImageFactory::setFile()` aborts a running reader and
  blocks until it has stopped; so does the destructor.
* **Cascades.** A check box of the editor notifies a slot that checks another
  box, which notifies the slot again, and each round writes the settings. A
  restart replays the settings through the same slots.
* **Several tags per value.** A coordinate is two tags, written one after the
  other, each with a write of the file that may fail; the program may die
  between them.
* **Copies.** The table sends a copy of a row made at its selection; the
  editor falls back to a copy of what the file held; the buttons copy
  what the table's signals say. Each copy must be refreshed by every operation
  that changes the original.
* **Non-modal dialogs.** The header dialog, and the providers' configuration
  dialogs, stay open while other files are loaded.
* **Slots inside emitters.** `imageLoaded()` is emitted by the GUI thread, in
  the middle of a click or of the factory's slot; its slots call the factory
  back before the emitter has gone on.
* **Objects loaded twice, deleted early.** A library has one plugin object,
  however often it is loaded; a provider is deleted by the table that shows it.
* **Indexes that outlive their model.** A refresh of the file browser resets
  the model; plugins keep the `QModelIndex` of the last click. Two plugins
  refresh it, one of them when its picture comes, after other clicks perhaps.
* **Cursors that outlive their data.** A provider that reads its file again keeps
  its current record, which may be behind the new end.

`PROJECT.json` ("hazards") lists each of these at its line.

### 1.3 What makes each part correct

* Factory: every request gets one answer; no answer is lost or sent twice; the
  reader never works for a file other than the one asked for, unless it is being
  waited for; an image called valid is the whole image of the named file; the
  bar and the waits come to an end.
* Engine and form: what is shown, what a discard restores and what the file
  holds agree; a save writes only what is shown and typed, a number never
  without its sign; keys that depend on each other go together; the settings
  are those of the boxes, and are restored.
* Table: fields, columns and labels agree, the buttons follow them, what is
  sent is the selected row, and interpolation fills every gap and loses nothing.
* Main window: the preview in the end is of the selected file, and the window
  takes the next click.
* Save as JPEG, CSV export: pixels, header, name and directory of an export are
  of one selection; nothing is overwritten; every run ends with a word.
* Providers: the table shows the provider confirmed last, no answer is
  lost, and no provider is used after its deletion.
* Synchronize dialog: its boxes hold the difference of the two clocks, and the
  table gets it.
* Files: every line or point of a file is shown in its row and column.
* Managers: a button runs what it names, once per loading, and the tool box has
  every plugin.

## 2. The modules

    LoadRequests  <--implements--  ImageFactory
                                     ^      ^
                           MainWindow        SaveAsJpg
    GpsExifEngine <-- ExifEditor
    Interpolation <-- GpsDataTable
    Interpolation <-- GpsFiles <-- GpsImport
    GpsPlugin     SynchronizeDialog     PluginManager

An arrow points to the module that is extended. `MCMainWindow`, `MCSaveAsJpg`,
`MCExifEditor`, `MCGpsDataTable`, `MCGpsImport`, `MCSynchronizeDialog` and
`MCPluginManager` give the constants their values; `GpsPlugin` has two bounds
for constants and needs none. A proof module is named after the module it
is about (section 5); `ImageFactoryProofs` is about the factory's two clients as
well, and `GpsDataTableProofs` and `GpsImportProofs` extend `InterpolationProofs`.

**`ImageFactory`** models the factory and its reader together, since they
share memory. `gui` is where the GUI thread is inside the factory, `thread`
where `run()` is, `posted` the GUI's event queue as far as the reader posts to
it.
- `SetFile` is a call of `setFile()`: it runs to its end if the reader is
  at rest, otherwise it sets the abort flag and blocks; `WaitDone` is the
  rest of that call. `OpenFile` is split like the code into `ReadFlat`
  (`readJpeg`, `readTiff`), `ReadRaw` and `BailOut`.
- `Begin`, `Aborted`, `Stage`, `MakeImage`, `Bitmap`, `CopyRow`, `RowsDone`,
  `Report` and `CleanUp` are `run()` and `processRaw()`: one action between two
  points where the other thread can interfere.
- `RawImageLoaded`, `CopyImage`, `Recycle` are the slot `rawImageLoaded()`, in
  the three pieces in which it reads the reader's members.
- The pixels are abstracted to which file they show and whether all are set.
  A new `QImage` is not initialized, so it is not whole until its last row is
  copied.
- `asked`, `answered` and `clean` are history variables: calls, signals, and
  whether the last call found all earlier ones answered.

**`LoadRequests`** is what a client may rely on: calls and answers, without
thread or queue. `ImageFactory` implements it with `open` as
`gui \notin {"closing", "gone"}`; the run `main_window` checks it with its
liveness (`AnswersEveryRequest`).

**`MainWindow`** is the window as a client of its factory. `Clicked` is
`EgtPathBuilder` and `setFile()`, `MainFactoryStep` and `MainReaderStep` are
the factory's own steps, `LoadPreview` the slot of `imageLoaded()`, `MainExit` the
end of the program. While `LoadPreview` is due (`window = "loading"`) no other step of
the GUI thread happens, as the emitter is still on the stack; the reader's
thread goes on.

**`SaveAsJpg`** is the plugin, with a factory of its own: `SetIndex`,
`RunPlugin`, and the slot `ImageLoaded` with its ways out (`Refuse`,
`SavePicture`, `SaveBreaksOff`), then `CopyExif` or `Throw`: the program may die
between the picture and its header, as Exiv2's exceptions are not caught.
`NewName` is the collision-proof name; `disk` is what was saved under each. A
refresh of the browser makes the index the plugin kept stand for anything: its own
(`SavePicture`), or that of the CSV export (`RefreshFileBrowser`).

**`GpsExifEngine`** is the engine over the files: `disk[f]` maps every key to
what its value tag and its reference tag hold. Keys with a sign
(`GPSLatitude` and `GPSLatitudeRef`), with a unit, with neither, and the key
that reads as 0 when it is absent (`ImageDirection`) are told apart by the
constants. Numbers carry what the file's rational keeps of them (`Stored`).

**`ExifEditor`** is the form: cascades of check boxes (`Disable`, `Enable`,
`ActivateGroup`; `Follow` is the set of keys a cascade reaches), the settings,
the line edits with what they fall back to, and Save control by control, tag by
tag (`SkipControl`, `CheckText`, `WriteSign`, `WriteNumber`, `WriteFails`,
`WriteUnit`). `Restart` ends the program anywhere, in the middle of a save too,
and starts it from the settings.

**`Interpolation`** is `EgtGpsDataTable::interpolate()` as a function on tables:
sort (`SortItems`), compare neighbours, append a row per missing second
(`WithNewRows`), sort again. `Complete` says what the result should be, without
saying how it is computed.

**`GpsDataTable`** is the table with its header dialog, selection, menu, offset,
and the buttons of the widget around it. `undefined` becomes true when
`setColumnHeader()` lets the column just past the last one through, and
`clearColumnHeader()` reads a list out of bounds; nothing is modelled after.

**`GpsFiles`** is what the providers make of a file, and the table of that:
`ReadText` (the delimited text provider, with its headers and its discarded
lines), `ReadGpx` (`EgtGpxParser` for way points, routes and tracks, with the
time stamps' lengths) and `Table`.

**`GpsImport`** composes it with `Interpolation`: a file is read into the table
(`ReadFile`), the user names two columns and interpolates, deletes rows and
interpolates again. What can be read is a constant, `Files`: texts and documents
of any size for the proofs, those of `MCGpsImport` for TLC.

**`GpsPlugin`** is the life of a provider, from the choice of its type over its
dialog to the table and its deletion. `providers` is the sequence of all that
were made; `cvDataProvider` is always the last one, whichever dialog says
`dataProviderReady()`. Of a file only the number of records counts. `undefined`
becomes true when a deleted provider is used, or when `next()` is called with a
current record that is behind the last one (`PastEnd`): it stops only on the last
record, and indexes the list out of bounds. Nothing is modelled after.

**`SynchronizeDialog`** is the arithmetic of the offset: two times, four
boxes and a sign, and `accepted()`. Its boxes act only when their value changes.

**`PluginManager`** is both managers and what hangs on them: loading, one
library per step; initializing; the displays and the tool box; the buttons'
connections, one per loading (`display[k].runs`); the broadcast of a click; and
the two plugins that refresh the browser under all plugins, themselves included.
`RunCsv` is `EgtExportToCsv::run()`, which exports a directory, or fails to open its
output, and refreshes. `RunJpg` is the call of the image factory in
`EgtSaveAsJpg::run()`, `ImageLoaded` its answer, at once or after clicks and exports,
which refreshes if the picture was saved; `SaveAsJpg` has the details of
the picture. `stale` is the set of the plugins whose index a refresh has outdated.

## 3. The runs

| Run | Bounds | What it shows |
|---|---|---|
| `main_window` | 2 raw files, a JPEG, a directory, a root entry without a name; 3 clicks; one block of rows; three channels | no answer lost or doubled; reader and factory agree on the file; a click that overtook none ends with the whole image of its file, drawn, or an invalid one; the bar comes to rest; the window always gets idle; the factory implements `LoadRequests` |
| `save_as_jpg` | the same files, of which two share a name that is taken; 2 calls of `run()` | pixels, name and header belong to one file, the one selected; only the last picture can be without its header; nothing is overwritten; every run reports |
| `exif_coordinates` | latitude and longitude, which depend on each other; 2 symmetric files and one that cannot be opened; numbers -1 and 0 | boxes, settings and pairs agree after any toggling, group or restart; the form falls back to the file after failed and partial saves; a number is written after its sign only |
| `exif_measures` | altitude, and image direction with a unit; numbers -1, 0, 2, one of which the file rounds | no hidden edit; the fallback is the file; the has-GPS flag is never too optimistic; a save creates no number that nobody edited, the direction excepted |
| `gps_table` | a 3-column and a 1-column file; 3 fields; offsets 0 and 1; edits in the narrow file only | headers and buttons stay in step with the table while the header dialog is open and files change |
| `gps_table_send` | as `gps_table` | *violation*: what is sent is not the selected row |
| `gps_files` | texts of up to 3 lines over times 0, 2, 3, 84604, none, unreadable, with and without headers, fields missing or too many, equal headers; GPX documents of up to 5 points | every line or point is shown in its row and column; every second between close rows gets one row, no row is lost, no time gets a second row |
| `gpx_stamp` | as `gps_files` | *violation*: a UTC time keeps its zone |
| `gps_plugin` | 3 providers of 2 kinds, files of up to 4 records | dialogs one after the other: the table shows the provider confirmed last, previews start at the first record and none reads past the last; in any order: an answer is lost only to an overlapping dialog, only what the table had is deleted, and only of the table's provider can a record behind the end be read |
| `synchronize` | 5 pictures, over midnight, two days and half a year apart, without a date, without EXIF; 3 times, one of them 31 February | the boxes hold the difference, with its sign and cut at 99 days; the table gets it to the minute |
| `sync_seconds` | as `synchronize` | *violation*: the table gets other seconds than were set |
| `plugin_manager` | the start and 3 more loadings of files and directories; 5 libraries, two of one name, one with two categories, one a provider, one neither; up to 2 pictures that Save as JPG waits for; a root, a directory and a file | a click runs what the button names, once per loading; the tool box is complete; a CSV export is of the selection unless a refresh, an export's or a late picture's, outdated its index |

Deadlock is checked in `exif_coordinates`, `exif_measures`, `plugin_manager`,
`synchronize` and `sync_seconds`: there the user can always do something. It is
not in the others, where the system does stop: `main_window` and
`save_as_jpg` with the program, `gps_table`, `gps_table_send` and `gps_plugin`
after an undefined access, `gps_files` and `gpx_stamp` after two presses of the
button.

**Why the bounds are enough.** Three calls of `setFile()` let one call overtake
an unanswered one and be overtaken itself; at most one run decodes at a time, so
a fourth call adds posted results but no new order of call, run and slot. The
exports need two: the second overtakes the first, or finds its name taken by it.
One block of rows separates an image without pixels from a whole one. Two keys
make the smallest cascade, and two files tell the open file from another. The
table's two files differ in width, so that the column the header dialog was
opened for may be in the new file, just past its last column, or further out;
edits are confined to the narrow file, where two texts tell "edited" from
"emptied". The times of the interpolation are equal, one second apart (no row is
missing), two and three apart, and apart by 84601 seconds, the smallest gap over
the limit; a gap just below it would insert 84599 rows and is left out.
`GapLimit` is the code's own number. Three providers are one in the table, one
confirmed and one whose dialog is open; four records are one more than a preview
shows. Four loadings load a library twice, with another of its name between; of two
pictures one may come before an export and one after it. The
theorems of section 5 hold without these bounds.

**Fairness.** Only what a client waits for has any.
- `MainWindow`: weak fairness of `MainFactoryStep` (Qt's event loop delivers posted
  events, and the wait loop of `setFile()` polls `isRunning()`), of
  `LoadPreview` (a slot that has begun runs to its end) and of `MainReaderStep` (the
  operating system schedules the reader; every LibRaw call returns, with a result
  or an error).
- `SaveAsJpg`: the same for its factory, and for the slot's steps `ImageLoaded`
  and `CopyExif \/ Throw`: the copy of the header ends one way or the other.
- `ImageFactory` states the same two conditions for itself (`Fairness`);
  no run uses it directly.

Nothing is assumed of the user, who may never click again, and of no other
module: those make safety claims only.

## 4. The findings

Three statements of the repository are refuted by a run each; `PROJECT.json`
quotes them with their lines.
- `gps_table_send`: the table sends a copy that edits, interpolation, the context
  menu and a new file leave behind (`core/egtgpsdatatable.cpp:83`).
- `sync_seconds`: an offset set by hand loses its seconds, as `accepted()` adds
  those of the time boxes (`plugins/gps_plugin/egtsynchronizedialog.cpp:88`).
- `gpx_stamp`: the form of time the comment names is not the one that is cut
  (`core/egtgpxparser.cpp:242`).

The following was met while modelling. The models contain it, and the properties
are stated so that they hold beside it; it has no run of its own.
- `finished()` of an overtaken raw run is taken for the answer to the next
  request, and marks a JPEG's image with another file's
  (`core/egtimagefactory.cpp:290`). Hence `clean` in `CurrentImage`.
- One-channel raw images are reported loaded with unset pixels
  (`core/egtrawimagereader.cpp:202`). Hence `MemImageColors = {3}`.
- A dependency that goes one way is not restored with a session, as the replayed
  check boxes overwrite the settings (`app/egtexifeditor.cpp:114`).
- A missing image direction reads as 0, and a save writes it
  (`core/egtgpsexifengine.cpp:418`). Hence the exception in `OnlyEditsAreCreated`.
- The "24 hours" of a comment are 84600 seconds (`core/egtgpsdatatable.cpp:173`).
  Hence `GapLimit`.
- A refreshed browser leaves the plugins indexes that mean anything, or crash. Save
  as JPG refreshes it when its picture comes, so that a click made before that is
  lost to the other plugins (`plugins/save_as_jpg/egtsaveasjpg.cpp:125`). Hence `sure`
  in `ExportOfSelection`.
- A provider whose dialog is open when another dialog's answer gives it to the table has
  its cursor at its end; if its dialog then reads fewer records, the preview reads out
  of bounds (`core/egtdataprovider.cpp:46`). Hence `overlapped` in `TableIsConfirmed`
  and `PreviewFromFirst`.
- A text provider that is confirmed without records closes its dialog silently;
  one that is cancelled after a preview still goes to the table, empty.
- The first row of a text without headers is shown one column to the left.
- A GPX file that cannot be opened or parsed gives a valid, empty provider
  (`core/egtgpsprovider.cpp:167`).
- A new picture whose time the boxes already show keeps the old picture's offset.
- A library loaded twice runs twice per click; the GPS plugin makes a second
  window.

## 5. The proofs

TLAPS (SMT, Zenon, LS4) checks the following for every value of the constants
that the modules' assumptions admit. No fact is taken on trust.

**`ImageFactoryProofs`.**
- `TypeCorrect`: `TypeOK` is inductive; the step is split into what the reader's
  thread (`RunTypes`) and the GUI thread change.
- `AnswersAccounted`: `AnswerAccounting` is inductive with `TypeOK`. The
  lemmas `PendingAppend`, `PendingReport` and `PendingTail` say what an event
  queue operation does to the number of posted results.
- `WorkerHandshake`: the reader's name is only set when the thread is at rest.
- `CurrentImageCorrect`: needs `MemImageColors = {3}` (with other channel counts
  it is false, see section 4). `CurrentImage` is not inductive: one
  must know that an answer on its way is the only one and is for the current
  file. The inductive `IInv` adds `OneOutstanding` (where that answer can be, and
  that it is whole there) and `ResultWhole`, besides the three invariants above; the
  accounting is what excludes a second answer.
- `BarComesToRest`: by `ResetPrecedesResult`: once a run is over, the last two
  events in the queue are the bar's reset and the result.
- `FactoryImplementsRequests`: `SafeSpec => Requests!SafeSpec`, each step is a
  call, an answer, a close or a stutter. `Answer` needs `answered < asked`,
  which is the accounting again.

**`ImageFactoryProofs`, the window.** `MainImplementsFactory`: every step of the window is one of
the factory or a stutter, so the factory's invariant `IInv` holds in it without
a second proof, and so does `LoadRequests` (`MainImplementsRequests`). `MainTypeCorrect` is its types and the window's.
`PreviewCorrect`: `PreviewOfSelection` is inductive together with `IInv`. A step
that answers leaves the slot due, so only `LoadPreview` can make the claim true,
and it draws what `CurrentImage` says the factory has; `OneOutstanding` says that no
other slot changes it later. It needs `MemImageColors = {3}`, like
`CurrentImageCorrect`.

**`ImageFactoryProofs`, the plugin that saves JPEGs.**
- `SaverImplementsFactory`, `SaverImplementsRequests`: as for the window;
  `SaveTypeCorrect` likewise.
- `HeaderFollows`: `BareIsLast` is inductive with the types and `SlotInv`, which
  says what the slot relies on while it runs: the factory is at rest, its file
  is the one that was wanted, and the name being written is on the disk, still
  without a header.
- `ExportCorrect`: inductive with `SInv`, which is those three and the factory's
  `IInv`. Its `CurrentImage` is where an export relies on the factory, and
  why `MemImageColors = {3}` is needed.
- `CollisionProof`: `NewNameIsFree` says that the name that is chosen exists and is
  free. Of one number more than there are names one is free (`FreeNumber`, a
  pigeonhole argument), and of the free ones there is a least
  (`LeastNatural`, from the well-foundedness of the naturals).

**`ExifEditorProofs`.** Any keys, files, numbers, rounding, dependency function
and groups.
- `FollowFact`: `Follow(S, through)` contains `S` and is closed; cascades need
  nothing else about it. `SettingsMirror` and `PairsStayTogether` follow
  from it, the latter because a pair that depends on each other is
  inside or outside any closed set.
- `TypeCorrect`: `TypeInv` strengthens `TypeOK` with `SaveInProgress`: past the
  check of the text, what is being saved is in the key's range, in an
  open file. Without it a `WriteNumber` could store anything.
- `NumbersFollowTheirSign`: from `SaveInProgress` again, which also says that
  at the step "number" the sign in the file is that of the text.
- `FlagMeansTags`: `FlagInv` adds that no value tag is there while the flag is
  clear, so that setting it late never changes what another control reads.
- `FormFallsBackToFile`: `FallbackInv` extends the claim into a save: every
  enabled control falls back to the file, except the one whose number is due,
  as its new sign is in the file already.
- `EditsCanBeDiscarded`: inductive with the types.
- `NothingIsInvented`: `AbsentInv` says that a number about to be written for a
  key the file lacks falls back to the empty text, and so was edited; that needs
  `FallbackInv`, as the claim compares the text with the file through the fallback.

**`GpsDataTableProofs`.** Any providers, fields, texts and offsets.
- `StepCases` splits a step by what it does to the headers and to the buttons;
  most operations touch neither.
- `HeadersAgree`: `HeaderInv` adds to `HeadersConsistent` that the set fields
  are columns of the table. Setting a header first clears its column, and a
  field that is set already is refused; without either the map would name a
  column twice.
- `ButtonsInStep`: every operation that changes the headers signals it.
- `TypeCorrect`: `TableInv` is inductive: `TypeOK`, `HeaderInv`, `ButtonsFollowHeaders`
  and that the table has the columns of its provider.
  The table after `interpolate()` has texts in every column because
  `InterpolatedComplete` says so; that the columns used exist follows from the
  button, which is enabled only while all three headers are set.
- `InterpolateFillsGaps`: from `TableInv` and `InterpolatedComplete`.

**`InterpolationProofs`.** Tables of any length, any columns, any limit.
- `SortItemsSorts`: `Place` is injective, as two rows are always in one order or
  the other (`AheadOrder`) and the later one has more rows before it
  (`PlaceGrows`); an injection of `1..n` into itself is a permutation, and the
  sort applies its inverse.
- `InterpolatedComplete`: the rows appended pair by pair are followed by an
  invariant of the loop; that the pairs' gaps do not overlap, so that no second is
  inserted twice, is where the order of the sorted rows is used. Copies and
  times are counted by sets of positions, which a permutation leaves as large.
- `InterpolatedTwice`: a completed table has no two consecutive times between
  which a row could be inserted.

The provers cannot instantiate the library's induction theorems (they take an
operator). Where a loop is a recursive function, the proofs argue by the least
number instead: the set of the numbers at which the claim fails has a least
member, which is neither the first nor the successor of one where the claim holds
(`LeastNatural`, from the well-foundedness of the naturals).

**`GpsImportProofs`.** Any set of texts and documents.
- `ImportInv`: the rows are texts over the columns of the file; after reading,
  they are the table of what the provider read (lemma `ImportCorrect`).
- `InterpolationCorrect`: from `ImportInv` and `InterpolatedComplete`.
- `TextCorrect`, `PointsCorrect`: what `ReadText` and `ReadGpx` keep of a
  file is what the properties list, in order. The work is in the lemmas on
  `FlattenSeq` and `Chosen`: the lengths, the element types, and that
  flattening commutes with what is done to each element.

**`SynchronizeDialogProofs`.** `TypeCorrect`, `OffsetCorrect`, `AcceptedCorrect`: the
inductive `IInv` is the types and `OffsetIsDifference`. The work is in the
lemmas on quotients and remainders, that the four boxes filled from a magnitude below a
hundred days give it back.

**`PluginManagerProofs`.** Any libraries, names, categories and orders of loading.
- `TypeCorrect` and `ToolBoxCorrect`: `DisplayInv` says that the displays are those
  of the plugins initialized so far, and that the tool box has all of them unless
  a loading is under way.
- `ClicksCounted`: `LoadClicks`, from `AppendOccurrences`, counts what one more
  loading connects.
- `ExportCorrect`: `IndexInv` says that an index no refresh outdated is the item last
  clicked, or none. `run()` replaces the index by its directory's, but refreshes
  the browser in the same call; the refresh by a late picture only adds to what is
  outdated.

**`GpsPluginProofs`.** Any number of providers and records. The inductive `Inv` has a part
per provider (`EachInv`: an open dialog is unanswered, a GPS provider has read
nothing before its answer, the plugin does not listen to a deleted one), one for the table
(`TableInv`), and, for as long as no dialogs overlapped, `OpenInv`, `AcceptedInv`
and `Shows`: an open dialog is that of the provider made last, which the plugin
listens to and of which no record was used, so that an answer installs it whole. With
or without overlap, `RecordInv` says that only the table's provider has its
current record behind the first, so that no other can be read past its end. The lemmas
`MakeProvider`, `ChangeProvider`, `ReadyStep` and `ReadyAlone` say what the
actions share. `TypeCorrect`, `ConfirmedShown`, `PreviewCorrect`,
`AnswersHeard` and `DeletedOnce` follow from it.

**Only model-checked**: `WindowIdles`, `RunReported` and the liveness of
`AnswersEveryRequest` (fairness and `ENABLED` are out of TLAPS's reach here), and the
violations, which are counterexamples. Every other property of the runs is a
theorem.

## 6. Not modelled, and why

- **GPSBabel** (`gpsbabel/`) is vendored and makes up most of the lines under `src/`;
  the program runs it as a child process, and `GpsFiles` and `GpsPlugin` see its
  success or failure.
- **Spherical function engine**: great-circle arithmetic is floating point, which
  TLA+ has not; an interpolated coordinate is the fact that it was computed.
- **Google plugin, Python console, QGIS plugins** are driven by programs outside the
  repository, or embed one.
- **Path builder, delegate, application object** keep no state of their own but
  pointers; what they do is part of the clicks (`Clicked`, `IndexSelected`) and of
  the start of `PluginManager`.
- **Engine keys with a grammar of their own** (time and date stamp, status,
  version): the models have the writers' common shape, not their texts. The
  destination distance's unit, which may be empty, is one of these; the unit of the run is the
  direction's, which may not.
- **Photo engine**: what the synchronize dialog reads of it; nothing calls its
  writers.
- **Tests and Python bindings** are stubs and generated code.
- Within the modelled parts: the decoders, painting, message boxes (none
  changes any state), positions of windows. The synchronize dialog's preview is
  one more client of the factory, like `MainWindow`. Its years reach
  from 1825 to 3000, of which the code's `int` holds differences of 68
  (`NoOverflow`): what overflows is cut off by an assumption.

## 7. What remains

1. **Engine keys with a grammar**: date and time stamps, their parsing and their
   conversions, as pure operators beside `GpsExifEngine`.
2. **Table into editor**: the table's emitted pairs composed with
   `ExifEditor`'s `AcceptKeyValuePair`. Each side is modelled; sending a row
   whose columns are one of a dependent pair only is the case of interest.
