----------------------------- MODULE ExifEditor -----------------------------
(***************************************************************************)
(* EgtExifEditor, its EgtExifTagControls and EgtGpsExifEditor: the form of *)
(* the GPS EXIF editor over the engine of GpsExifEngine.                   *)
(*                                                                         *)
(* Each key has a control: a line edit, the value it falls back to, a      *)
(* discard button, a unit, and a check box in the configuration dialog     *)
(* that shows or hides it.  Checking a box notifies the editor, which      *)
(* records the choice in the persistent settings and does the same to the  *)
(* key the engine says depends on it, whose box notifies the editor again. *)
(***************************************************************************)
EXTENDS GpsExifEngine, Sequences

CONSTANTS
  Dependency,   \* cvDependencies: a function from some keys to keys
  Groups,       \* the sets of keys of the tag groups
  KeyOrder,     \* the keys in the order of cvTagControls
  Blank,        \* the empty text
  Junk,         \* any text no writer accepts
  NoUnit        \* the empty unit, the first of every combo box

ASSUME EditorAssumption ==
  /\ DOMAIN Dependency \subseteq Keys
  /\ \A k \in DOMAIN Dependency : Dependency[k] \in Keys
  /\ \A g \in Groups : g \subseteq Keys
  /\ KeyOrder \in Seq(Keys)
  /\ {Blank, Junk} \cap Int = {}
  /\ NoUnit \notin Units

Texts == Int \cup {Blank, Junk}

VARIABLES
  cvEnabled,        \* the check boxes
  cvKeyValue,       \* the texts of the line edits
  cvCachedValue,    \* what they fall back to
  cvDiscardButton,  \* which discard buttons are enabled
  cvUnits,          \* the units shown
  settings,         \* the persistent settings
  saving            \* where cvSaveButton_clicked() is

controls == <<cvKeyValue, cvCachedValue, cvDiscardButton, cvUnits>>
vars == <<disk, engine, cvEnabled, controls, settings, saving>>

\* cvSaveButton_clicked() is at the i-th control, about to write the value,
\* the sign or the number of its key, or its unit.
NotSaving == [at |-> 0, step |-> "none"]
Saving == [at : 1..Len(KeyOrder), step : {"value", "sign", "number", "unit"}]
Idle == saving = NotSaving

TypeOK ==
  /\ EngineTypeOK
  /\ cvEnabled \in [Keys -> BOOLEAN] /\ settings \in [Keys -> BOOLEAN]
  /\ cvKeyValue \in [Keys -> Texts] /\ cvCachedValue \in [Keys -> Texts]
  /\ cvDiscardButton \in [Keys -> BOOLEAN]
  /\ cvUnits \in [Keys -> Units \cup {NoUnit}]
  /\ saving \in Saving \cup {NotSaving}

-----------------------------------------------------------------------------
(* The controls.                                                           *)

\* setValue() and setUnits() with what the engine reads.
ShownNumber(n) == IF n = Invalid THEN Blank ELSE n
ShownUnit(u) == IF u = Invalid THEN NoUnit ELSE u

\* The controls of the keys in S are set to what the engine reads after the
\* step, or emptied if they are not among those shown.  That text becomes
\* the one to fall back to, and the discard button is disabled.
ShowValue(S, shown) ==
  LET text(k) == IF k \in shown THEN ShownNumber(Read(k)') ELSE Blank IN
  /\ cvKeyValue' = [k \in Keys |-> IF k \in S THEN text(k) ELSE cvKeyValue[k]]
  /\ cvCachedValue' =
       [k \in Keys |-> IF k \in S THEN text(k) ELSE cvCachedValue[k]]
  /\ cvDiscardButton' = [k \in Keys |-> k \notin S /\ cvDiscardButton[k]]

ShowUnit(S, shown) ==
  cvUnits' = [k \in Keys |->
    IF k \notin S \cap WithUnits THEN cvUnits[k]
    ELSE IF k \in shown THEN ShownUnit(ReadUnit(k)') ELSE NoUnit]

\* Mutant: an emptied line edit is not taken for an edit.
SetTextIfAny(k, t) ==
  /\ cvKeyValue' = [cvKeyValue EXCEPT ![k] = t]
  /\ cvDiscardButton' = [cvDiscardButton EXCEPT ![k] = @ \/ t # Blank]
  /\ UNCHANGED <<cvCachedValue, cvUnits>>

\* setValue( text, false ), or typing: textChanged() enables the button.
SetText(k, t) ==
  /\ cvKeyValue' = [cvKeyValue EXCEPT ![k] = t]
  /\ cvDiscardButton' = [cvDiscardButton EXCEPT ![k] = @ \/ t # cvKeyValue[k]]
  /\ UNCHANGED <<cvCachedValue, cvUnits>>

\* The keys that follow from S by the dependencies, each key on the way being
\* one of `through`: a box that does not change notifies nobody.
Follow(S, through) ==
  LET Closed(T) == \A k \in T \cap DOMAIN Dependency :
                     Dependency[k] \in through => Dependency[k] \in T
  IN  {k \in Keys : \A T \in SUBSET Keys : S \subseteq T /\ Closed(T) => k \in T}

-----------------------------------------------------------------------------
(* A session: the constructors, before any file is selected.               *)

\* The boxes are checked and connected, then set from the settings; those
\* whose setting is false take the keys that depend on them with them.
Restored(s) == Keys \ Follow({k \in Keys : ~s[k]}, Keys)

Session(s) ==
  /\ cvEnabled' = [k \in Keys |-> k \in Restored(s)]
  /\ settings' = [k \in Keys |-> s[k] /\ k \in Restored(s)]
  /\ cvKeyValue' = [k \in Keys |-> Blank]
  /\ cvCachedValue' = [k \in Keys |-> Blank]
  /\ cvDiscardButton' = [k \in Keys |-> FALSE]
  /\ cvUnits' = [k \in Keys |-> NoUnit]
  /\ cvImageFileName' = NoFile /\ cvIsValidImage' = FALSE
  /\ cvHasExpectedExif' = FALSE
  /\ saving' = NotSaving

\* The program ends, or dies in the middle of a save, and is started again.
Restart ==
  /\ Session(settings)
  /\ UNCHANGED disk

\* Headers a camera writes: no GPS tags, or the signs and units of all values.
CameraHeaders ==
  {h \in [value : [Keys -> Magnitudes \cup {Absent}],
          ref : [Keys -> Signs \cup Units \cup {Absent}]] :
     \A k \in Keys :
       /\ h.ref[k] \in Refs(k) \cup {Absent}
       /\ Refs(k) # {} => (h.ref[k] = Absent <=> h.value[k] = Absent)}

Init ==
  /\ disk \in [Files -> CameraHeaders]
  /\ cvImageFileName = NoFile /\ cvIsValidImage = FALSE
  /\ cvHasExpectedExif = FALSE
  /\ cvEnabled = [k \in Keys |-> TRUE] /\ settings = [k \in Keys |-> TRUE]
  /\ cvKeyValue = [k \in Keys |-> Blank]
  /\ cvCachedValue = [k \in Keys |-> Blank]
  /\ cvDiscardButton = [k \in Keys |-> FALSE]
  /\ cvUnits = [k \in Keys |-> NoUnit]
  /\ saving = NotSaving

-----------------------------------------------------------------------------
(* The file browser and the configuration dialog.                          *)

\* A file is selected, or the dock of the editor is shown again:
\* loadExifData() fills the controls that are enabled.
LoadExifData(f) ==
  /\ Idle
  /\ SetFile(f)
  /\ UNCHANGED <<disk, cvEnabled, settings, saving>>
  /\ ShowValue(Keys, {k \in Keys : cvEnabled[k]})
  /\ ShowUnit(Keys, {k \in Keys : cvEnabled[k]})

\* controlDisabled() for the keys in off also records what depends on them,
\* whether or not its box changes.
Recorded(off) == off \cup {Dependency[x] : x \in off \cap DOMAIN Dependency}

\* Mutant: the cascade is not recorded.
DisableRecordingOne(k) ==
  LET off == Follow({k}, {x \in Keys : cvEnabled[x]}) IN
  /\ Idle
  /\ cvEnabled[k]
  /\ cvEnabled' = [x \in Keys |-> cvEnabled[x] /\ x \notin off]
  /\ settings' = [settings EXCEPT ![k] = FALSE]
  /\ UNCHANGED <<disk, engine, controls, saving>>

\* A box is unchecked.
Disable(k) ==
  LET off == Follow({k}, {x \in Keys : cvEnabled[x]}) IN
  /\ Idle
  /\ cvEnabled[k]
  /\ cvEnabled' = [x \in Keys |-> cvEnabled[x] /\ x \notin off]
  /\ settings' = [x \in Keys |-> settings[x] /\ x \notin Recorded(off)]
  /\ UNCHANGED <<disk, engine, controls, saving>>

\* Mutant: the control that is shown again keeps its old text.
EnableKeepingText(k) ==
  LET on == Follow({k}, {x \in Keys : ~cvEnabled[x]}) IN
  /\ Idle
  /\ ~cvEnabled[k]
  /\ cvEnabled' = [x \in Keys |-> cvEnabled[x] \/ x \in on]
  /\ settings' = [x \in Keys |-> settings[x] \/ x \in on]
  /\ UNCHANGED <<disk, engine, controls, saving>>

\* A box is checked: controlEnabled() reads the key again.
Enable(k) ==
  LET on == Follow({k}, {x \in Keys : ~cvEnabled[x]}) IN
  /\ Idle
  /\ ~cvEnabled[k]
  /\ cvEnabled' = [x \in Keys |-> cvEnabled[x] \/ x \in on]
  /\ settings' = [x \in Keys |-> settings[x] \/ x \in on]
  /\ UNCHANGED <<disk, engine, saving>>
  /\ ShowValue(on, on)
  /\ ShowUnit(on, on)

\* Mutant: the keys of the group alone are shown.
ActivateGroupAlone(g) ==
  /\ Idle
  /\ cvEnabled' = [x \in Keys |-> x \in g]
  /\ settings' = [x \in Keys |-> x \in g]
  /\ UNCHANGED <<disk, engine, saving>>
  /\ ShowValue(g, g)
  /\ ShowUnit(g, g)

\* A tag group is activated: all boxes are unchecked, then those of the group
\* are checked.  An edited control that stays enabled is read again.
ActivateGroup(g) ==
  LET on == Follow(g, Keys)
      off == {x \in Keys : cvEnabled[x]}
  IN
  /\ Idle
  /\ cvEnabled' = [x \in Keys |-> x \in on]
  /\ settings' =
       [x \in Keys |-> x \in on \/ (settings[x] /\ x \notin Recorded(off))]
  /\ UNCHANGED <<disk, engine, saving>>
  /\ ShowValue(on, on)
  /\ ShowUnit(on, on)

-----------------------------------------------------------------------------
(* Editing.                                                                *)

TypeText(k, t) ==
  /\ Idle
  /\ cvEnabled[k]
  /\ SetText(k, t)
  /\ UNCHANGED <<disk, engine, cvEnabled, settings, saving>>

\* Mutant of AcceptKeyValuePair: the value becomes the fallback, too.
AcceptKeyValuePairCaching(k, t) ==
  /\ Idle
  /\ cvIsValidImage
  /\ cvKeyValue' = [cvKeyValue EXCEPT ![k] = t]
  /\ cvCachedValue' = [cvCachedValue EXCEPT ![k] = t]
  /\ cvDiscardButton' = [cvDiscardButton EXCEPT ![k] = FALSE]
  /\ UNCHANGED <<disk, engine, cvEnabled, cvUnits, settings, saving>>

\* Another plugin sends a value; it reaches hidden controls as well.
AcceptKeyValuePair(k, t) ==
  /\ Idle
  /\ cvIsValidImage
  /\ SetText(k, t)
  /\ UNCHANGED <<disk, engine, cvEnabled, settings, saving>>

Discard(k) ==
  /\ Idle
  /\ cvEnabled[k] /\ cvDiscardButton[k]
  /\ cvKeyValue' = [cvKeyValue EXCEPT ![k] = cvCachedValue[k]]
  /\ cvDiscardButton' = [cvDiscardButton EXCEPT ![k] = FALSE]
  /\ UNCHANGED <<disk, engine, cvEnabled, cvCachedValue, cvUnits, settings,
                 saving>>

SelectUnit(k, u) ==
  /\ Idle
  /\ cvEnabled[k] /\ k \in WithUnits
  /\ cvUnits' = [cvUnits EXCEPT ![k] = u]
  /\ UNCHANGED <<disk, engine, cvEnabled, cvKeyValue, cvCachedValue,
                 cvDiscardButton, settings, saving>>

-----------------------------------------------------------------------------
(* Saving: each control in turn, and each of its tags in turn.             *)

key == KeyOrder[saving.at]
At(step) == saving # NotSaving /\ saving.step = step
Go(step) == saving' = [saving EXCEPT !.step = step]

\* Mutant: one control too many.
NextControlPastEnd == saving' = IF saving.at > Len(KeyOrder) THEN NotSaving
                                ELSE [at |-> saving.at + 1, step |-> "value"]

NextControl == saving' = IF saving.at = Len(KeyOrder) THEN NotSaving
                         ELSE [at |-> saving.at + 1, step |-> "value"]

SaveClicked ==
  /\ Idle
  /\ saving' = IF KeyOrder = <<>> THEN NotSaving ELSE [at |-> 1, step |-> "value"]
  /\ UNCHANGED <<disk, engine, cvEnabled, controls, settings>>

\* Mutant: nothing is read back.
ReadBackNothing ==
  /\ IF key \in WithUnits THEN Go("unit") ELSE NextControl
  /\ UNCHANGED <<cvEnabled, controls, settings>>

\* write() has returned, true or false; the control shows what it left.
ReadBack ==
  /\ ShowValue({key}, {key})
  /\ IF key \in WithUnits THEN Go("unit") ELSE NextControl
  /\ UNCHANGED <<cvEnabled, cvUnits, settings>>

SkipControl ==
  /\ At("value")
  /\ ~cvEnabled[key] \/ cvKeyValue[key] = Blank
  /\ NextControl
  /\ UNCHANGED <<disk, engine, cvEnabled, controls, settings>>

\* Mutant: the number is written without its sign.
CheckTextNoSign ==
  /\ At("value")
  /\ cvEnabled[key] /\ cvKeyValue[key] # Blank
  /\ UNCHANGED <<disk, engine>>
  /\ IF Accepts(key, cvKeyValue[key])
     THEN /\ Go("number")
          /\ UNCHANGED <<cvEnabled, controls, settings>>
     ELSE ReadBack

\* The text is checked before the first tag is written.
CheckText ==
  /\ At("value")
  /\ cvEnabled[key] /\ cvKeyValue[key] # Blank
  /\ UNCHANGED <<disk, engine>>
  /\ IF Accepts(key, cvKeyValue[key])
     THEN /\ Go(IF key \in Signed THEN "sign" ELSE "number")
          /\ UNCHANGED <<cvEnabled, controls, settings>>
     ELSE ReadBack

WriteSign ==
  /\ At("sign")
  /\ WriteRef(key, SignOf(cvKeyValue[key]))
  /\ Go("number")
  /\ UNCHANGED <<engine, cvEnabled, controls, settings>>

WriteNumber ==
  /\ At("number")
  /\ WriteValue(key, cvKeyValue[key])
  /\ Expected
  /\ ReadBack

\* writeTag() fails on the sign or on the number.
WriteFails ==
  /\ At("sign") \/ At("number")
  /\ UNCHANGED <<disk, engine>>
  /\ ReadBack

\* The writer of the direction's unit, as most writers of units, refuses the
\* empty one.
WriteUnit ==
  /\ At("unit")
  /\ \/ /\ cvIsValidImage /\ cvUnits[key] # NoUnit
        /\ WriteRef(key, cvUnits[key])
        /\ Expected
     \/ UNCHANGED <<disk, engine>>
  /\ ShowUnit({key}, {key})
  /\ NextControl
  /\ UNCHANGED <<cvEnabled, cvKeyValue, cvCachedValue, cvDiscardButton, settings>>

SaveStep == \/ SkipControl \/ CheckText \/ WriteSign \/ WriteNumber
            \/ WriteFails \/ WriteUnit

-----------------------------------------------------------------------------

Typed == Numbers \cup {Blank, Junk}

Next ==
  \/ \E f \in Files \cup {NoFile} : LoadExifData(f)
  \/ \E k \in Keys : Disable(k) \/ Enable(k) \/ Discard(k)
  \/ \E g \in Groups : ActivateGroup(g)
  \/ \E k \in Keys, t \in Typed : TypeText(k, t) \/ AcceptKeyValuePair(k, t)
  \/ \E k \in Keys, u \in Units \cup {NoUnit} : SelectUnit(k, u)
  \/ SaveClicked \/ SaveStep
  \/ Restart

Spec == Init /\ [][Next]_vars

-----------------------------------------------------------------------------
(* Properties.                                                             *)

\* The check boxes and the persistent settings agree after every cascade.
SettingsMirrorBoxes == settings = cvEnabled

\* Two keys that depend on each other, Latitude and Longitude, are edited and
\* saved together or not at all, whatever was toggled, grouped or restored.
PairsTogether ==
  \A k \in DOMAIN Dependency :
    LET d == Dependency[k] IN
    d \in DOMAIN Dependency /\ Dependency[d] = k => (cvEnabled[k] <=> cvEnabled[d])

\* A control whose discard button is disabled shows the text it would fall
\* back to: nobody's edit is hidden behind a disabled button.
NoHiddenEdit ==
  \A k \in Keys : ~cvDiscardButton[k] => cvKeyValue[k] = cvCachedValue[k]

\* Between saves, the text an enabled control falls back to is what the file
\* holds, after failed and partial writes as well.  Keys that read as 0 when
\* absent are excepted: they change when the file gets its first GPS tag.
FallbackIsFile ==
  Idle => \A k \in Keys \ Zeroed :
            cvEnabled[k] => cvCachedValue[k] = ShownNumber(Read(k))

\* The flag that lets the readers look at the file is only set when there is
\* something to read.
ExpectedIsThere == cvHasExpectedExif => cvIsValidImage /\ HasGps(header)

\* A number reaches the file only from the control that is saved, if it is
\* shown, and finds the sign of that number already there.
NumberWithItsSign ==
  [][\A f \in Files, k \in Keys :
       disk'[f].value[k] # disk[f].value[k] =>
         /\ f = cvImageFileName /\ ~Idle /\ k = key /\ cvEnabled[k]
         /\ k \in Signed => disk'[f].ref[k] = SignOf(cvKeyValue[k])]_vars

\* A save gives the picture no value that nobody edited: a number appears only
\* from a control whose text is not the one it was filled with.  (A direction
\* that is absent reads as 0 and is saved as one by any save.)
OnlyEditsAreCreated ==
  [][\A f \in Files, k \in Keys \ Zeroed :
       disk[f].value[k] = Absent /\ disk'[f].value[k] # Absent =>
         cvKeyValue[k] # cvCachedValue[k]]_vars
=============================================================================
