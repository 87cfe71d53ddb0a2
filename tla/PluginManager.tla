---------------------------- MODULE PluginManager ----------------------------
(***************************************************************************)
(* Plugins and data providers are shared libraries.  EgtPluginManager and  *)
(* EgtDataProviderManager load them, one after the other; the buttons of   *)
(* the tool box run plugins; a click in the file browser reaches every     *)
(* plugin that listens.  Two of the plugins refresh the browser under all  *)
(* the others: "EXIF to CSV", when it has exported the selected directory, *)
(* and "Save as JPG", when a picture that it asked for is there and saved. *)
(*                                                                         *)
(* A library has one plugin object, however often it is loaded; every      *)
(* loading initializes and connects it again.                              *)
(***************************************************************************)
EXTENDS Sequences, Naturals, FiniteSets

CONSTANTS
  Libraries,
  Plugins,       \* the libraries with an EgtPluginInterface
  Providers,     \* the libraries with an EgtDataProvider
  Title,         \* name(), by library
  Categories,    \* categories(), by library
  Configurable,  \* the plugins with a configuration panel
  Csv,           \* the plugin EgtExportToCsv
  Jpg,           \* the plugin EgtSaveAsJpg
  MaxAnswers,    \* bound: the pictures it waits for
  Default,       \* the libraries of the default directory, by name
  Paths,         \* the directories and files to load, as such sequences
  MaxLoads,      \* bound: the calls of loadPlugins()
  Items,         \* the files and directories of the browser
  Directories,   \* those that are directories; no file system root is
  Writable,      \* those that can be written
  Parent,        \* the directory of an item, NoItem for a root
  NoItem         \* the invalid QModelIndex

\* The displays a plugin gets.
Keys(l) == Categories[l] \X {Title[l]}
AllKeys == UNION {Keys(l) : l \in Plugins}

ASSUME PluginAssumption ==
  /\ Plugins \subseteq Libraries /\ Providers \subseteq Libraries
  /\ Configurable \subseteq Plugins /\ Csv \in Plugins
  /\ Jpg \in Plugins \ {Csv} /\ MaxAnswers \in Nat \ {0}
  /\ Default \in Seq(Libraries) /\ Paths \subseteq Seq(Libraries)
  /\ MaxLoads \in Nat \ {0}
  /\ Directories \subseteq Items /\ Writable \subseteq Directories
  /\ NoItem \notin Items
  /\ Parent \in [Items \cup {NoItem} -> Items \cup {NoItem}]
  /\ Parent[NoItem] = NoItem

VARIABLES
  loads,       \* calls of loadPlugins()
  manager,     \* "plugins" or "providers" while loading, then "idle"
  pending,     \* the libraries still to load
  initialized, \* how often each plugin was initialized
  display,     \* cvPluginDisplayCollection, by category and name
  toolBox,     \* the displays in the main window
  cvProviders, \* the provider of each name
  toRun,       \* the slots the last click has still to call
  index,       \* the index each plugin was last told of
  stale,       \* the plugins whose index was made before a refresh
  awaited,     \* the pictures Save as JPG has asked for, without an answer
  selected,    \* history: the item last clicked in the browser
  exported     \* history: what was exported

vars == <<loads, manager, pending, initialized, display, toolBox, cvProviders,
          toRun, index, stale, awaited, selected, exported>>

\* What an export was of; whether its index was a fresh one.
Exports == [of : Items \cup {NoItem}, selected : Items \cup {NoItem},
            sure : BOOLEAN]

\* EgtPluginDisplayWidget: the plugin it names, the plugins its button runs,
\* those its other button configures, and whether that button is shown.
Widgets == [shows : Plugins, runs : Seq(Plugins), configures : Seq(Plugins),
            button : BOOLEAN]

TypeOK ==
  /\ loads \in 0..MaxLoads
  /\ manager \in {"plugins", "providers", "idle"}
  /\ pending \in Seq(Libraries)
  /\ initialized \in [Plugins -> Nat]
  /\ DOMAIN display \subseteq AllKeys
  /\ \A k \in DOMAIN display : display[k] \in Widgets
  /\ toolBox \subseteq AllKeys
  /\ \A n \in DOMAIN cvProviders : cvProviders[n] \in Providers
  /\ toRun \in Seq(Plugins)
  /\ index \in [Plugins -> Items \cup {NoItem}]
  /\ stale \subseteq Plugins /\ awaited \in 0..MaxAnswers
  /\ selected \in Items \cup {NoItem}
  /\ exported \subseteq Exports

\* EgtApplication::init(): both managers load the directory of the build.
Init ==
  /\ loads = 1 /\ manager = "plugins"
  /\ pending = Default
  /\ initialized = [l \in Plugins |-> 0]
  /\ display = <<>> /\ toolBox = {} /\ cvProviders = <<>>
  /\ toRun = <<>>
  /\ index = [l \in Plugins |-> NoItem] /\ stale = {} /\ awaited = 0
  /\ selected = NoItem /\ exported = {}

browser == <<toRun, index, stale, awaited, selected, exported>>

-----------------------------------------------------------------------------
(* Loading.                                                                *)

\* update() of a display.  The button to configure is shown only if the
\* constructor did so.
Update(widget, l) ==
  [widget EXCEPT
     !.shows = l,
     !.runs = Append(@, l),
     !.configures = IF l \in Configurable THEN Append(@, l) ELSE @]

\* Mutant of NewWidget: the constructor connects the button, then update()
\* does.
NewWidgetTwice(l) ==
  Update([shows |-> l, runs |-> <<l>>, configures |-> <<>>,
          button |-> l \in Configurable], l)

NewWidget(l) ==
  Update([shows |-> l, runs |-> <<>>, configures |-> <<>>,
          button |-> l \in Configurable], l)

\* loadSinglePlugin(): another library is passed over.
LoadSinglePlugin ==
  /\ manager = "plugins" /\ pending # <<>>
  /\ LET l == Head(pending) IN
     IF l \in Plugins
     THEN /\ initialized' = [initialized EXCEPT ![l] = @ + 1]
          /\ display' = [k \in DOMAIN display \cup Keys(l) |->
                           IF k \notin Keys(l) THEN display[k]
                           ELSE IF k \in DOMAIN display THEN Update(display[k], l)
                           ELSE NewWidget(l)]
     ELSE UNCHANGED <<initialized, display>>
  /\ pending' = Tail(pending)
  /\ UNCHANGED <<loads, manager, toolBox, cvProviders, browser>>

\* At the start the providers of the same directory follow.
NextManager ==
  IF loads = 1
  THEN manager' = "providers" /\ pending' = Default
  ELSE manager' = "idle" /\ pending' = pending

\* Mutant of UpdateGui: nothing is updated when a single library was loaded.
UpdateGuiAtStart ==
  /\ manager = "plugins" /\ pending = <<>>
  /\ toolBox' = IF loads = 1 THEN DOMAIN display ELSE toolBox
  /\ NextManager
  /\ UNCHANGED <<loads, initialized, display, cvProviders, browser>>

\* updateGui(): a new tool box with every display.
UpdateGui ==
  /\ manager = "plugins" /\ pending = <<>>
  /\ toolBox' = DOMAIN display
  /\ NextManager
  /\ UNCHANGED <<loads, initialized, display, cvProviders, browser>>

\* Mutant of LoadSingleProvider: any library is taken for a provider.
LoadSingleProviderUnchecked ==
  /\ manager = "providers" /\ pending # <<>>
  /\ LET l == Head(pending) IN
     cvProviders' = [n \in DOMAIN cvProviders \cup {Title[l]} |->
                       IF n = Title[l] THEN l ELSE cvProviders[n]]
  /\ pending' = Tail(pending)
  /\ UNCHANGED <<loads, manager, initialized, display, toolBox, browser>>

\* loadSingleProvider(): the last provider of a name stays.
LoadSingleProvider ==
  /\ manager = "providers" /\ pending # <<>>
  /\ LET l == Head(pending) IN
     cvProviders' = IF l \in Providers
                    THEN [n \in DOMAIN cvProviders \cup {Title[l]} |->
                            IF n = Title[l] THEN l ELSE cvProviders[n]]
                    ELSE cvProviders
  /\ pending' = Tail(pending)
  /\ UNCHANGED <<loads, manager, initialized, display, toolBox, browser>>

ProvidersLoaded ==
  /\ manager = "providers" /\ pending = <<>>
  /\ manager' = "idle"
  /\ UNCHANGED <<loads, pending, initialized, display, toolBox, cvProviders,
                 browser>>

\* The menu's two actions: a directory or a file of plugins.
LoadPlugins(path) ==
  /\ manager = "idle" /\ toRun = <<>> /\ loads < MaxLoads
  /\ loads' = loads + 1
  /\ manager' = "plugins" /\ pending' = path
  /\ UNCHANGED <<initialized, display, toolBox, cvProviders, browser>>

-----------------------------------------------------------------------------
(* The browser and the buttons.                                            *)

\* A click in the browser reaches the plugins that were initialized.
IndexSelected(item) ==
  /\ manager = "idle" /\ toRun = <<>>
  /\ selected' = item
  /\ index' = [l \in Plugins |-> IF initialized[l] > 0 THEN item ELSE index[l]]
  /\ stale' = {l \in stale : initialized[l] = 0}
  /\ UNCHANGED <<loads, manager, pending, initialized, display, toolBox,
                 cvProviders, toRun, awaited, exported>>

\* A click on a run button calls the slots connected to it, one by one.
Clicked(key) ==
  /\ manager = "idle" /\ toRun = <<>>
  /\ key \in toolBox
  /\ toRun' = display[key].runs
  /\ UNCHANGED <<loads, manager, pending, initialized, display, toolBox,
                 cvProviders, index, stale, awaited, selected, exported>>

\* run() of a plugin with a module, or a window, of its own.
RunOther ==
  /\ toRun # <<>> /\ Head(toRun) \notin {Csv, Jpg}
  /\ toRun' = Tail(toRun)
  /\ UNCHANGED <<loads, manager, pending, initialized, display, toolBox,
                 cvProviders, index, stale, awaited, selected, exported>>

\* The directory of an item is the item itself, or what holds it.
DirectoryOf(item) == IF item \in Directories THEN item ELSE Parent[item]

\* What an index may stand for: after a refresh, anything (or the program
\* crashes, which ends the behaviour).
Meaning(l) ==
  IF l \in stale /\ index[l] # NoItem THEN Items \cup {NoItem} ELSE {index[l]}

\* refreshFileBrowser(): no plugin is told.
RefreshFileBrowser == stale' = Plugins

\* EgtSaveAsJpg::run(): the image factory is asked for the picture.
RunJpg ==
  /\ toRun # <<>> /\ Head(toRun) = Jpg /\ awaited < MaxAnswers
  /\ awaited' = awaited + 1
  /\ toRun' = Tail(toRun)
  /\ UNCHANGED <<loads, manager, pending, initialized, display, toolBox,
                 cvProviders, index, stale, selected, exported>>

\* EgtSaveAsJpg::imageLoaded(), at once or after other clicks: the picture is
\* saved and the browser refreshed; or it is not valid, or cannot be saved.
ImageLoaded ==
  /\ manager = "idle" /\ awaited > 0
  /\ awaited' = awaited - 1
  /\ RefreshFileBrowser \/ UNCHANGED stale
  /\ UNCHANGED <<loads, manager, pending, initialized, display, toolBox,
                 cvProviders, toRun, index, selected, exported>>

\* Mutant of RunCsv: the index is of the directory and not of its file.
RunCsvOfFile ==
  /\ toRun # <<>> /\ Head(toRun) = Csv
  /\ \E item \in Meaning(Csv) :
       /\ index' = [index EXCEPT ![Csv] = item]
       /\ \/ /\ DirectoryOf(item) \in Writable
             /\ exported' = exported \cup {[of |-> item, selected |-> selected,
                                            sure |-> Csv \notin stale]}
          \/ UNCHANGED exported
  /\ RefreshFileBrowser
  /\ toRun' = Tail(toRun)
  /\ UNCHANGED <<loads, manager, pending, initialized, display, toolBox,
                 cvProviders, awaited, selected>>

\* EgtExportToCsv::run().  The index is replaced by its directory's; a file
\* system root has no path and counts as a file.  Nothing is exported from a
\* directory that cannot be written, or when the output cannot be opened; the
\* browser is refreshed all the same.
RunCsv ==
  /\ toRun # <<>> /\ Head(toRun) = Csv
  /\ \E item \in Meaning(Csv) :
       LET directory == DirectoryOf(item) IN
       /\ index' = [index EXCEPT ![Csv] = directory]
       /\ \/ /\ directory \in Writable
             /\ exported' = exported \cup {[of |-> directory, selected |-> selected,
                                            sure |-> Csv \notin stale]}
          \/ UNCHANGED exported
  /\ RefreshFileBrowser
  /\ toRun' = Tail(toRun)
  /\ UNCHANGED <<loads, manager, pending, initialized, display, toolBox,
                 cvProviders, awaited, selected>>

Next ==
  \/ LoadSinglePlugin \/ UpdateGui \/ LoadSingleProvider \/ ProvidersLoaded
  \/ \E path \in Paths : LoadPlugins(path)
  \/ \E item \in Items : IndexSelected(item)
  \/ \E key \in AllKeys : Clicked(key)
  \/ RunOther \/ RunCsv \/ RunJpg \/ ImageLoaded

Spec == Init /\ [][Next]_vars

-----------------------------------------------------------------------------
(* Properties.                                                             *)

Occurrences(s, l) == Cardinality({i \in 1..Len(s) : s[i] = l})

\* A click on a button runs the plugin it names, each plugin as often as its
\* library was loaded, and none of another name or category: after the start,
\* and without two libraries of one name, a click runs one plugin once.
ClickRunsEachLoad ==
  \A k \in DOMAIN display :
    /\ display[k].runs[Len(display[k].runs)] = display[k].shows
    /\ \A l \in Plugins :
         Occurrences(display[k].runs, l)
           = IF k \in Keys(l) THEN initialized[l] ELSE 0

\* When a call of loadPlugins() ends, the tool box shows every plugin that was
\* ever loaded, and no button is without its plugin.
ToolBoxComplete ==
  /\ toolBox \subseteq DOMAIN display
  /\ manager # "plugins" =>
       toolBox = UNION {Keys(l) : l \in {p \in Plugins : initialized[p] > 0}}

\* An export with an index that no refresh outdated, be it by an export or by a
\* picture that came in the meantime, is of the directory of the item last
\* clicked, and that directory is one that can be written.
ExportOfSelection ==
  \A e \in exported : e.sure => /\ e.of = DirectoryOf(e.selected)
                                /\ e.of \in Writable
=============================================================================
