------------------------ MODULE PluginManagerProofs ------------------------
(***************************************************************************)
(* The managers' invariants, for any libraries, names, categories, files   *)
(* and number of loadings.                                                 *)
(***************************************************************************)
EXTENDS PluginManager, FiniteSetTheorems, TLAPS

\* The displays are those of the plugins that were initialized, and the tool
\* box has no others; it has all of them unless a loading is under way.
DisplayInv ==
  /\ DOMAIN display = UNION {Keys(l) : l \in {p \in Plugins : initialized[p] > 0}}
  /\ toolBox \subseteq DOMAIN display
  /\ manager # "plugins" => toolBox = DOMAIN display

\* An index that no refresh outdated is the item last clicked, if the CSV
\* export was there to be told of it.
IndexInv ==
  /\ initialized[Csv] = 0 => index[Csv] = NoItem
  /\ Csv \notin stale => index[Csv] \in {selected, NoItem}

TypeInv == TypeOK /\ DisplayInv

-----------------------------------------------------------------------------
(* Lemmas about the operators.                                             *)

LEMMA KeysIn == \A l \in Plugins : Keys(l) \subseteq AllKeys
  BY DEF AllKeys

LEMMA UpdateType ==
  ASSUME NEW widget \in Widgets, NEW l \in Plugins
  PROVE  /\ Update(widget, l) \in Widgets
         /\ Update(widget, l).shows = l
         /\ Update(widget, l).runs = Append(widget.runs, l)
  <1>1. widget.runs \in Seq(Plugins) /\ widget.configures \in Seq(Plugins)
    BY DEF Widgets
  <1>2. Append(widget.runs, l) \in Seq(Plugins) /\ Append(widget.configures, l) \in Seq(Plugins)
    BY <1>1
  <1> QED  BY <1>1, <1>2 DEF Update, Widgets

LEMMA NewWidgetType ==
  ASSUME NEW l \in Plugins
  PROVE  /\ NewWidget(l) \in Widgets
         /\ NewWidget(l).shows = l
         /\ NewWidget(l).runs = Append(<<>>, l)
  <1> DEFINE empty == [shows |-> l, runs |-> <<>>, configures |-> <<>>,
                       button |-> l \in Configurable]
  <1>1. empty \in Widgets /\ empty.runs = <<>>
    BY DEF Widgets
  <1>2. NewWidget(l) = Update(empty, l)
    BY DEF NewWidget
  <1> HIDE DEF empty
  <1> QED  BY <1>1, <1>2, UpdateType

LEMMA DirectoryType ==
  /\ \A item \in Items \cup {NoItem} : DirectoryOf(item) \in Items \cup {NoItem}
  /\ DirectoryOf(NoItem) = NoItem /\ NoItem \notin Writable
  BY PluginAssumption DEF DirectoryOf

-----------------------------------------------------------------------------
(* Types.                                                                  *)

LEMMA TypeInit == Init => TypeInv
  <1> SUFFICES ASSUME Init PROVE TypeInv
    OBVIOUS
  <1>1. DOMAIN <<>> = {}
    OBVIOUS
  <1>2. {p \in Plugins : initialized[p] > 0} = {}
    BY DEF Init
  <1>3. DisplayInv
    BY <1>1, <1>2 DEF Init, DisplayInv
  <1>4. TypeOK
    BY <1>1, PluginAssumption DEF Init, TypeOK
  <1> QED  BY <1>3, <1>4 DEF TypeInv

LEMMA LoadStep ==
  ASSUME TypeInv, LoadSinglePlugin
  PROVE  TypeInv'
  <1> DEFINE l == Head(pending)
  <1>1. /\ l \in Libraries /\ pending' \in Seq(Libraries)
        /\ manager = "plugins"
    BY DEF TypeInv, TypeOK, LoadSinglePlugin
  <1>2. CASE l \notin Plugins
    <2>1. UNCHANGED <<loads, manager, initialized, display, toolBox, cvProviders, browser>>
      BY <1>2 DEF LoadSinglePlugin
    <2> QED  BY <1>1, <2>1 DEF TypeInv, TypeOK, DisplayInv, browser
  <1>3. CASE l \in Plugins
    <2>1. /\ initialized' = [initialized EXCEPT ![l] = @ + 1]
          /\ display' = [k \in DOMAIN display \cup Keys(l) |->
                           IF k \notin Keys(l) THEN display[k]
                           ELSE IF k \in DOMAIN display THEN Update(display[k], l)
                           ELSE NewWidget(l)]
          /\ UNCHANGED <<loads, manager, toolBox, cvProviders, browser>>
      BY <1>3 DEF LoadSinglePlugin
    <2> HIDE DEF l
    <2>2. initialized' \in [Plugins -> Nat]
      BY <1>3, <2>1 DEF TypeInv, TypeOK
    <2>3. DOMAIN display' = DOMAIN display \cup Keys(l)
      BY <2>1
    <2>4. \A k \in DOMAIN display' : display'[k] \in Widgets
      BY <1>3, <2>1, <2>3, UpdateType, NewWidgetType DEF TypeInv, TypeOK
    <2>5. DOMAIN display' \subseteq AllKeys
      BY <1>3, <2>3, KeysIn DEF TypeInv, TypeOK
    <2>6. \A p \in Plugins : initialized'[p] > 0 <=> p = l \/ initialized[p] > 0
      BY <1>3, <2>1 DEF TypeInv, TypeOK
    <2>7. {p \in Plugins : initialized'[p] > 0} = {p \in Plugins : initialized[p] > 0} \cup {l}
      BY <1>3, <2>6
    <2>8. DisplayInv'
      BY <1>1, <2>1, <2>3, <2>7 DEF TypeInv, DisplayInv, Keys
    <2> QED  BY <1>1, <2>1, <2>2, <2>4, <2>5, <2>8 DEF TypeInv, TypeOK, browser
  <1> QED  BY <1>2, <1>3

LEMMA ClickedStep ==
  ASSUME TypeInv, NEW key \in AllKeys, Clicked(key)
  PROVE  TypeInv'
  <1>1. display[key] \in Widgets
    BY DEF TypeInv, TypeOK, DisplayInv, Clicked
  <1>2. toRun' \in Seq(Plugins)
    BY <1>1 DEF Clicked, Widgets
  <1> QED  BY <1>2 DEF TypeInv, TypeOK, DisplayInv, Clicked

LEMMA ExportType ==
  ASSUME NEW of \in Items \cup {NoItem}, NEW of2 \in Items \cup {NoItem}
  PROVE  [of |-> of, selected |-> of2, sure |-> Csv \notin stale] \in Exports
  BY Zenon DEF Exports

LEMMA RunCsvStep ==
  ASSUME TypeInv, RunCsv
  PROVE  TypeInv'
  <1>1. PICK item \in Meaning(Csv) :
          /\ index' = [index EXCEPT ![Csv] = DirectoryOf(item)]
          /\ \/ /\ DirectoryOf(item) \in Writable
                /\ exported' = exported \cup {[of |-> DirectoryOf(item), selected |-> selected,
                                               sure |-> Csv \notin stale]}
             \/ UNCHANGED exported
    BY DEF RunCsv
  <1>2. item \in Items \cup {NoItem}
    BY PluginAssumption DEF Meaning, TypeInv, TypeOK
  <1>3. DirectoryOf(item) \in Items \cup {NoItem}
    BY <1>2, DirectoryType
  <1>4. index' \in [Plugins -> Items \cup {NoItem}]
    BY <1>1, <1>3 DEF TypeInv, TypeOK
  <1>5. exported' \subseteq Exports
    <2>1. [of |-> DirectoryOf(item), selected |-> selected, sure |-> Csv \notin stale]
            \in Exports
      BY <1>3, ExportType DEF TypeInv, TypeOK
    <2> QED  BY <1>1, <2>1, Zenon DEF TypeInv, TypeOK
  <1>6. stale' \subseteq Plugins /\ toRun' \in Seq(Plugins)
    BY DEF RunCsv, RefreshFileBrowser, TypeInv, TypeOK
  <1> QED  BY <1>4, <1>5, <1>6 DEF RunCsv, TypeInv, TypeOK, DisplayInv

\* Save as JPG asks for a picture, or is given it.
LEMMA JpgStep ==
  ASSUME TypeInv, RunJpg \/ ImageLoaded
  PROVE  TypeInv'
  <1>1. awaited' \in 0..MaxAnswers
    BY PluginAssumption DEF RunJpg, ImageLoaded, TypeInv, TypeOK
  <1>2. toRun' \in Seq(Plugins)
    <2>1. toRun \in Seq(Plugins)
      BY DEF TypeInv, TypeOK
    <2>2. toRun' = toRun \/ (toRun # <<>> /\ toRun' = Tail(toRun))
      BY DEF RunJpg, ImageLoaded
    <2> QED  BY <2>1, <2>2
  <1>3. stale' \subseteq Plugins
    BY DEF RunJpg, ImageLoaded, RefreshFileBrowser, TypeInv, TypeOK
  <1>4. UNCHANGED <<loads, manager, pending, initialized, display, toolBox,
                    cvProviders, index, selected, exported>>
    BY DEF RunJpg, ImageLoaded
  <1> QED  BY <1>1, <1>2, <1>3, <1>4 DEF TypeInv, TypeOK, DisplayInv

LEMMA TypeStep == TypeInv /\ [Next]_vars => TypeInv'
  <1> SUFFICES ASSUME TypeInv, [Next]_vars PROVE TypeInv'
    OBVIOUS
  <1> USE DEF TypeInv, TypeOK, DisplayInv
  <1>1. CASE LoadSinglePlugin  BY <1>1, LoadStep
  <1>2. CASE UpdateGui
    <2>1. manager' \in {"providers", "idle"} /\ pending' \in Seq(Libraries)
      BY <1>2, PluginAssumption DEF UpdateGui, NextManager
    <2> QED  BY <1>2, <2>1 DEF UpdateGui, browser
  <1>3. CASE LoadSingleProvider
    <2>1. Head(pending) \in Libraries /\ pending' \in Seq(Libraries)
      BY <1>3 DEF LoadSingleProvider
    <2>2. \A n \in DOMAIN cvProviders' : cvProviders'[n] \in Providers
      BY <1>3 DEF LoadSingleProvider
    <2> QED  BY <1>3, <2>1, <2>2 DEF LoadSingleProvider, browser
  <1>4. CASE ProvidersLoaded  BY <1>4 DEF ProvidersLoaded, browser
  <1>5. ASSUME NEW path \in Paths, LoadPlugins(path) PROVE TypeInv'
    BY <1>5, PluginAssumption DEF LoadPlugins, browser
  <1>6. ASSUME NEW item \in Items, IndexSelected(item) PROVE TypeInv'
    BY <1>6 DEF IndexSelected
  <1>7. ASSUME NEW key \in AllKeys, Clicked(key) PROVE TypeInv'
    BY <1>7, ClickedStep
  <1>8. CASE RunOther
    <2>1. toRun' \in Seq(Plugins)
      BY <1>8 DEF RunOther
    <2> QED  BY <1>8, <2>1 DEF RunOther
  <1>9. CASE RunCsv  BY <1>9, RunCsvStep
  <1>10. CASE RunJpg \/ ImageLoaded  BY <1>10, JpgStep
  <1>11. CASE UNCHANGED vars  BY <1>11 DEF vars
  <1> QED
    BY <1>1, <1>2, <1>3, <1>4, <1>5, <1>6, <1>7, <1>8, <1>9, <1>10, <1>11 DEF Next

\* Every variable keeps its type, for any libraries, paths and files.
THEOREM TypeCorrect == Spec => []TypeOK
  <1>1. TypeInv => TypeOK  BY DEF TypeInv
  <1> QED  BY <1>1, TypeInit, TypeStep, PTL DEF Spec

\* When no loading is under way the tool box shows every plugin that was ever
\* loaded, and never a button without its plugin.
THEOREM ToolBoxCorrect == Spec => []ToolBoxComplete
  <1>1. TypeInv => ToolBoxComplete
    BY DEF TypeInv, DisplayInv, ToolBoxComplete
  <1> QED  BY <1>1, TypeInit, TypeStep, PTL DEF Spec

-----------------------------------------------------------------------------
(* The buttons.                                                            *)

LEMMA EmptyOccurrences == \A l : Occurrences(<<>>, l) = 0
  <1>1. \A l : {i \in 1..Len(<<>>) : <<>>[i] = l} = {}
    OBVIOUS
  <1> QED  BY <1>1, FS_EmptySet DEF Occurrences

LEMMA AppendOccurrences ==
  ASSUME NEW s \in Seq(Plugins), NEW x \in Plugins, NEW l
  PROVE  /\ Occurrences(s, l) \in Nat
         /\ Occurrences(Append(s, x), l)
              = IF x = l THEN Occurrences(s, l) + 1 ELSE Occurrences(s, l)
  <1> DEFINE t == Append(s, x)
             at(q) == {i \in 1..Len(q) : q[i] = l}
  <1>1. Len(s) \in Nat /\ Len(t) = Len(s) + 1 /\ t[Len(s) + 1] = x
        /\ \A i \in 1..Len(s) : t[i] = s[i]
    OBVIOUS
  <1>2. IsFiniteSet(at(s))
    <2>1. IsFiniteSet(1..Len(s))
      BY <1>1, FS_Interval
    <2>2. at(s) \in SUBSET (1..Len(s))
      OBVIOUS
    <2> QED  BY <2>1, <2>2, FS_Subset
  <1>3. Cardinality(at(s)) \in Nat
    BY <1>2, FS_CardinalityType
  <1>4. CASE x = l
    <2>1. at(t) = at(s) \cup {Len(s) + 1} /\ Len(s) + 1 \notin at(s)
      BY <1>1, <1>4
    <2> QED  BY <1>2, <1>3, <1>4, <2>1, FS_AddElement DEF Occurrences
  <1>5. CASE x # l
    <2>1. at(t) = at(s)
      BY <1>1, <1>5
    <2> QED  BY <1>3, <1>5, <2>1 DEF Occurrences
  <1> QED  BY <1>4, <1>5

LEMMA LoadClicks ==
  ASSUME TypeInv, ClickRunsEachLoad, LoadSinglePlugin
  PROVE  ClickRunsEachLoad'
  <1> DEFINE l == Head(pending)
  <1>1. CASE l \notin Plugins
    BY <1>1 DEF LoadSinglePlugin, ClickRunsEachLoad
  <1>2. CASE l \in Plugins
    <2>1. /\ initialized' = [initialized EXCEPT ![l] = @ + 1]
          /\ display' = [k \in DOMAIN display \cup Keys(l) |->
                           IF k \notin Keys(l) THEN display[k]
                           ELSE IF k \in DOMAIN display THEN Update(display[k], l)
                           ELSE NewWidget(l)]
      BY <1>2 DEF LoadSinglePlugin
    <2> HIDE DEF l
    <2>2. \A p \in Plugins : /\ initialized[p] \in Nat
                             /\ initialized'[p] = IF p = l THEN initialized[p] + 1
                                                  ELSE initialized[p]
      BY <1>2, <2>1 DEF TypeInv, TypeOK
    <2> SUFFICES ASSUME NEW k \in DOMAIN display'
                 PROVE  /\ display'[k].runs[Len(display'[k].runs)] = display'[k].shows
                        /\ \A p \in Plugins :
                             Occurrences(display'[k].runs, p)
                               = IF k \in Keys(p) THEN initialized'[p] ELSE 0
      BY DEF ClickRunsEachLoad, Keys
    <2>3. CASE k \notin Keys(l)
      <3>1. k \in DOMAIN display /\ display'[k] = display[k]
        BY <2>1, <2>3
      <3> QED  BY <2>2, <2>3, <3>1 DEF ClickRunsEachLoad
    <2>4. CASE k \in Keys(l) /\ k \in DOMAIN display
      <3>1. display[k] \in Widgets /\ display[k].runs \in Seq(Plugins)
        BY <2>4 DEF TypeInv, TypeOK, Widgets
      <3>2. display'[k].runs = Append(display[k].runs, l) /\ display'[k].shows = l
        BY <1>2, <2>1, <2>4, <3>1, UpdateType
      <3>3. \A p \in Plugins :
              Occurrences(display[k].runs, p) = IF k \in Keys(p) THEN initialized[p] ELSE 0
        BY <2>4 DEF ClickRunsEachLoad
      <3>4. display'[k].runs[Len(display'[k].runs)] = display'[k].shows
        BY <1>2, <3>1, <3>2
      <3>5. \A p \in Plugins :
              Occurrences(display'[k].runs, p) = IF k \in Keys(p) THEN initialized'[p] ELSE 0
        BY <1>2, <2>2, <2>4, <3>1, <3>2, <3>3, AppendOccurrences
      <3> QED  BY <3>4, <3>5
    <2>5. CASE k \in Keys(l) /\ k \notin DOMAIN display
      <3>1. display'[k].runs = Append(<<>>, l) /\ display'[k].shows = l
        BY <1>2, <2>1, <2>5, NewWidgetType
      <3>2. \A p \in Plugins : k \in Keys(p) => initialized[p] = 0
        BY <2>2, <2>5 DEF TypeInv, DisplayInv
      <3>3. <<>> \in Seq(Plugins) /\ Append(<<>>, l)[Len(Append(<<>>, l))] = l
        BY <1>2
      <3>4. \A p \in Plugins :
              Occurrences(Append(<<>>, l), p) = IF l = p THEN 1 ELSE 0
        <4> SUFFICES ASSUME NEW p \in Plugins
                     PROVE  Occurrences(Append(<<>>, l), p) = IF l = p THEN 1 ELSE 0
          OBVIOUS
        <4> DEFINE empty == <<>>
        <4>1. empty \in Seq(Plugins) /\ Occurrences(empty, p) = 0
          BY EmptyOccurrences
        <4> HIDE DEF empty
        <4>2. Occurrences(Append(empty, l), p)
                = IF l = p THEN Occurrences(empty, p) + 1 ELSE Occurrences(empty, p)
          BY <1>2, <4>1, AppendOccurrences
        <4>3. Occurrences(Append(empty, l), p) = IF l = p THEN 1 ELSE 0
          BY <4>1, <4>2
        <4> QED  BY <4>3 DEF empty
      <3>5. \A p \in Plugins :
              Occurrences(display'[k].runs, p) = IF k \in Keys(p) THEN initialized'[p] ELSE 0
        BY <2>2, <2>5, <3>1, <3>2, <3>4
      <3> QED  BY <3>1, <3>3, <3>5
    <2> QED  BY <2>3, <2>4, <2>5
  <1> QED  BY <1>1, <1>2

\* A button runs its plugins as often as their libraries were loaded, and the
\* one that it names last, for any libraries and names.
THEOREM ClicksCounted == Spec => []ClickRunsEachLoad
  <1>1. Init => ClickRunsEachLoad
    BY DEF Init, ClickRunsEachLoad
  <1>2. TypeInv /\ ClickRunsEachLoad /\ [Next]_vars => ClickRunsEachLoad'
    <2> SUFFICES ASSUME TypeInv, ClickRunsEachLoad, [Next]_vars
                 PROVE  ClickRunsEachLoad'
      OBVIOUS
    <2>1. CASE LoadSinglePlugin  BY <2>1, LoadClicks
    <2>2. CASE ~LoadSinglePlugin
      <3>1. UNCHANGED <<display, initialized>>
        BY <2>2 DEF Next, UpdateGui, LoadSingleProvider, ProvidersLoaded, LoadPlugins,
                    IndexSelected, Clicked, RunOther, RunCsv, RunJpg, ImageLoaded,
                    browser, vars
      <3> QED  BY <3>1 DEF ClickRunsEachLoad, Keys
    <2> QED  BY <2>1, <2>2
  <1> QED  BY <1>1, <1>2, TypeInit, TypeStep, PTL DEF Spec

-----------------------------------------------------------------------------
(* The export.                                                             *)

LEMMA ExportStep ==
  ASSUME TypeInv, IndexInv, ExportOfSelection, [Next]_vars
  PROVE  IndexInv' /\ ExportOfSelection'
  <1>0. index \in [Plugins -> Items \cup {NoItem}] /\ Csv \in Plugins
        /\ selected \in Items \cup {NoItem} /\ stale \subseteq Plugins
        /\ initialized \in [Plugins -> Nat]
    BY PluginAssumption DEF TypeInv, TypeOK
  <1>1. CASE RunCsv
    <2>1. PICK item \in Meaning(Csv) :
            /\ index' = [index EXCEPT ![Csv] = DirectoryOf(item)]
            /\ \/ /\ DirectoryOf(item) \in Writable
                  /\ exported' = exported \cup {[of |-> DirectoryOf(item), selected |-> selected,
                                                 sure |-> Csv \notin stale]}
               \/ UNCHANGED exported
      BY <1>1 DEF RunCsv
    <2>2. Csv \in stale' /\ UNCHANGED <<initialized, selected>>
      BY <1>0, <1>1 DEF RunCsv, RefreshFileBrowser
    <2>3. initialized[Csv] = 0 => item = NoItem
      BY DEF IndexInv, Meaning
    <2>4. IndexInv'
      BY <1>0, <2>1, <2>2, <2>3, DirectoryType DEF IndexInv
    <2>5. DirectoryOf(item) \in Writable /\ Csv \notin stale
            => DirectoryOf(item) = DirectoryOf(selected)
      BY DirectoryType DEF IndexInv, Meaning
    <2>6. ExportOfSelection'
      <3> SUFFICES ASSUME NEW e \in exported', e.sure
                   PROVE  e.of = DirectoryOf(e.selected) /\ e.of \in Writable
        BY DEF ExportOfSelection, DirectoryOf
      <3>1. CASE e \in exported
        BY <3>1, Zenon DEF ExportOfSelection
      <3>2. CASE e \notin exported
        <4>1. /\ DirectoryOf(item) \in Writable
              /\ e = [of |-> DirectoryOf(item), selected |-> selected,
                      sure |-> Csv \notin stale]
          BY <2>1, <3>2, Zenon
        <4>2. e.of = DirectoryOf(item) /\ e.selected = selected
          BY <4>1
        <4>3. e.sure = (Csv \notin stale)
          BY <4>1, Zenon
        <4> QED  BY <2>5, <4>1, <4>2, <4>3, Zenon
      <3> QED  BY <3>1, <3>2
    <2> QED  BY <2>4, <2>6
  <1>2. ASSUME NEW item \in Items, IndexSelected(item)
        PROVE  IndexInv' /\ ExportOfSelection'
    <2>1. ExportOfSelection'
      BY <1>2 DEF IndexSelected, ExportOfSelection, DirectoryOf
    <2>2. /\ selected' = item /\ initialized' = initialized
          /\ index' = [l \in Plugins |-> IF initialized[l] > 0 THEN item ELSE index[l]]
          /\ stale' = {l \in stale : initialized[l] = 0}
      BY <1>2 DEF IndexSelected
    <2>3. index'[Csv] = IF initialized[Csv] > 0 THEN item ELSE index[Csv]
      BY <1>0, <2>2
    <2>4. initialized[Csv] \in Nat
      BY <1>0
    <2>5. CASE initialized[Csv] > 0
      <3>1. index'[Csv] = item /\ initialized'[Csv] # 0
        BY <2>2, <2>3, <2>4, <2>5
      <3> QED  BY <2>1, <2>2, <3>1 DEF IndexInv
    <2>6. CASE initialized[Csv] = 0
      <3>1. index'[Csv] = NoItem
        BY <2>3, <2>6 DEF IndexInv
      <3> QED  BY <2>1, <3>1 DEF IndexInv
    <2> QED  BY <2>4, <2>5, <2>6
  <1>3. CASE LoadSinglePlugin
    <2>1. initialized'[Csv] = 0 => initialized[Csv] = 0
      BY <1>0, <1>3 DEF LoadSinglePlugin
    <2>2. UNCHANGED <<index, stale, selected, exported>>
      BY <1>3 DEF LoadSinglePlugin, browser
    <2> QED  BY <2>1, <2>2 DEF IndexInv, ExportOfSelection, DirectoryOf
  <1>4. CASE ImageLoaded
    <2>1. stale \subseteq stale' /\ UNCHANGED <<initialized, index, selected, exported>>
      BY <1>0, <1>4 DEF ImageLoaded, RefreshFileBrowser
    <2>2. IndexInv'
      BY <2>1 DEF IndexInv
    <2>3. ExportOfSelection'
      BY <2>1 DEF ExportOfSelection, DirectoryOf
    <2> QED  BY <2>2, <2>3
  <1>5. CASE /\ ~RunCsv /\ ~LoadSinglePlugin /\ ~ImageLoaded
             /\ ~\E item \in Items : IndexSelected(item)
    <2>1. UNCHANGED <<initialized, index, stale, selected, exported>>
      BY <1>5 DEF Next, UpdateGui, LoadSingleProvider, ProvidersLoaded, LoadPlugins,
                  Clicked, RunOther, RunJpg, browser, vars
    <2> QED  BY <2>1 DEF IndexInv, ExportOfSelection, DirectoryOf
  <1> QED  BY <1>1, <1>2, <1>3, <1>4, <1>5

\* Unless a refresh outdated its index, by an earlier export or by a picture
\* that Save as JPG was given and saved since the last click, the CSV export is of the directory of
\* the item last clicked, whenever its library was loaded.
THEOREM ExportCorrect == Spec => []ExportOfSelection
  <1>1. Init => IndexInv /\ ExportOfSelection
    BY PluginAssumption DEF Init, IndexInv, ExportOfSelection
  <1> QED  BY <1>1, TypeInit, TypeStep, ExportStep, PTL DEF Spec
=============================================================================
