-------------------------- MODULE ExifEditorProofs --------------------------
(***************************************************************************)
(* Proofs about ExifEditor, for any keys, dependencies, groups, files and  *)
(* numbers.                                                                *)
(***************************************************************************)
EXTENDS ExifEditor, TLAPS

-----------------------------------------------------------------------------
(* Cascades.                                                               *)

\* A cascade starts with S, stays among the keys, and goes on to every
\* dependency that may move.
LEMMA FollowFact ==
  ASSUME NEW S \in SUBSET Keys, NEW through
  PROVE  /\ Follow(S, through) \subseteq Keys
         /\ S \subseteq Follow(S, through)
         /\ \A k \in Follow(S, through) \cap DOMAIN Dependency :
              Dependency[k] \in through => Dependency[k] \in Follow(S, through)
<1> USE EditorAssumption DEF Follow
<1>1. Follow(S, through) \subseteq Keys /\ S \subseteq Follow(S, through)
  OBVIOUS
<1>2. ASSUME NEW k \in Follow(S, through) \cap DOMAIN Dependency,
             Dependency[k] \in through
      PROVE  Dependency[k] \in Follow(S, through)
  <2>1. Dependency[k] \in Keys
    OBVIOUS
  <2>2. ASSUME NEW T \in SUBSET Keys, S \subseteq T,
               \A x \in T \cap DOMAIN Dependency :
                 Dependency[x] \in through => Dependency[x] \in T
        PROVE  Dependency[k] \in T
    <3>1. k \in T
      BY <2>2
    <3> QED BY <3>1, <2>2, <1>2
  <2> QED BY <2>1, <2>2
<1> QED BY <1>1, <1>2

\* The keys a session starts without take their dependencies with them.
LEMMA RestoredFact ==
  ASSUME NEW s \in [Keys -> BOOLEAN]
  PROVE  /\ Restored(s) \subseteq {k \in Keys : s[k]}
         /\ \A k \in DOMAIN Dependency :
              Dependency[k] \in Restored(s) => k \in Restored(s)
<1> DEFINE off == {k \in Keys : ~s[k]}
<1>1. /\ off \subseteq Follow(off, Keys)
      /\ \A k \in Follow(off, Keys) \cap DOMAIN Dependency :
           Dependency[k] \in Keys => Dependency[k] \in Follow(off, Keys)
  BY FollowFact
<1>2. Restored(s) = Keys \ Follow(off, Keys)
  BY DEF Restored
<1> QED BY <1>1, <1>2, EditorAssumption

\* What moves the check boxes.
Toggles == \/ \E k \in Keys : Disable(k) \/ Enable(k)
           \/ \E g \in Groups : ActivateGroup(g)
           \/ Restart

\* Nothing else touches a box or a setting.
LEMMA OnlyTogglesToggle ==
  ASSUME [Next]_vars
  PROVE  Toggles \/ UNCHANGED <<cvEnabled, settings>>
<1>1. CASE UNCHANGED vars
  BY <1>1 DEF vars
<1>2. CASE \E f \in Files \cup {NoFile} : LoadExifData(f)
  BY <1>2 DEF LoadExifData
<1>3. CASE \E k \in Keys : Discard(k)
  BY <1>3 DEF Discard
<1>4. CASE \E k \in Keys, t \in Typed : TypeText(k, t) \/ AcceptKeyValuePair(k, t)
  BY <1>4 DEF TypeText, AcceptKeyValuePair
<1>5. CASE \E k \in Keys, u \in Units \cup {NoUnit} : SelectUnit(k, u)
  BY <1>5 DEF SelectUnit
<1>6. CASE SaveClicked
  BY <1>6 DEF SaveClicked
<1>7. CASE SaveStep
  BY <1>7 DEF SaveStep, SkipControl, CheckText, WriteSign, WriteNumber,
              WriteFails, WriteUnit, ReadBack
<1> QED BY <1>1, <1>2, <1>3, <1>4, <1>5, <1>6, <1>7 DEF Next, Toggles

-----------------------------------------------------------------------------
(* The boxes, the settings and the dependencies.                           *)

BoxTypes == cvEnabled \in [Keys -> BOOLEAN] /\ settings \in [Keys -> BOOLEAN]

LEMMA BoxTypesStep ==
  ASSUME BoxTypes, [Next]_vars
  PROVE  BoxTypes'
<1>1. CASE UNCHANGED <<cvEnabled, settings>>
  BY <1>1 DEF BoxTypes
<1>2. ASSUME NEW k \in Keys, Disable(k) PROVE BoxTypes'
  BY <1>2 DEF BoxTypes, Disable
<1>3. ASSUME NEW k \in Keys, Enable(k) PROVE BoxTypes'
  BY <1>3 DEF BoxTypes, Enable
<1>4. ASSUME NEW g \in Groups, ActivateGroup(g) PROVE BoxTypes'
  BY <1>4 DEF BoxTypes, ActivateGroup
<1>5. CASE Restart
  BY <1>5 DEF BoxTypes, Restart, Session
<1> QED BY <1>1, <1>2, <1>3, <1>4, <1>5, OnlyTogglesToggle DEF Toggles

LEMMA BoxTypesInvariant == Spec => []BoxTypes
<1>1. Init => BoxTypes
  BY DEF Init, BoxTypes
<1>2. BoxTypes /\ [Next]_vars => BoxTypes'
  BY BoxTypesStep
<1> QED BY <1>1, <1>2, PTL DEF Spec

LEMMA MirrorStep ==
  ASSUME BoxTypes, SettingsMirrorBoxes, [Next]_vars
  PROVE  SettingsMirrorBoxes'
<1>0. BoxTypes'
  BY BoxTypesStep
<1> SUFFICES ASSUME NEW x \in Keys
             PROVE  settings'[x] <=> cvEnabled'[x]
  BY <1>0 DEF SettingsMirrorBoxes, BoxTypes
<1>1. settings[x] <=> cvEnabled[x]
  BY DEF SettingsMirrorBoxes
<1>2. CASE UNCHANGED <<cvEnabled, settings>>
  BY <1>1, <1>2
<1>3. ASSUME NEW k \in Keys, Disable(k) PROVE settings'[x] <=> cvEnabled'[x]
  <2> DEFINE on  == {y \in Keys : cvEnabled[y]}
             off == Follow({k}, on)
  <2>1. \A y \in off \cap DOMAIN Dependency :
          Dependency[y] \in on => Dependency[y] \in off
    BY FollowFact
  <2>2. /\ cvEnabled'[x] <=> cvEnabled[x] /\ x \notin off
        /\ settings'[x] <=> settings[x] /\ x \notin Recorded(off)
    BY <1>3 DEF Disable
  <2>3. x \in Recorded(off) /\ x \notin off => ~cvEnabled[x]
    BY <2>1 DEF Recorded
  <2>4. off \subseteq Recorded(off)
    BY DEF Recorded
  <2> QED BY <1>1, <2>2, <2>3, <2>4
<1>4. ASSUME NEW k \in Keys, Enable(k) PROVE settings'[x] <=> cvEnabled'[x]
  BY <1>1, <1>4 DEF Enable
<1>5. ASSUME NEW g \in Groups, ActivateGroup(g)
      PROVE  settings'[x] <=> cvEnabled'[x]
  <2> DEFINE on  == Follow(g, Keys)
             off == {y \in Keys : cvEnabled[y]}
  <2>1. /\ cvEnabled'[x] <=> x \in on
        /\ settings'[x] <=> x \in on \/ (settings[x] /\ x \notin Recorded(off))
    BY <1>5 DEF ActivateGroup
  <2>2. settings[x] => x \in Recorded(off)
    BY <1>1 DEF Recorded
  <2> QED BY <2>1, <2>2
<1>6. ASSUME Restart PROVE settings'[x] <=> cvEnabled'[x]
  <2>1. /\ cvEnabled'[x] <=> x \in Restored(settings)
        /\ settings'[x] <=> settings[x] /\ x \in Restored(settings)
    BY <1>6 DEF Restart, Session
  <2>2. x \in Restored(settings) => settings[x]
    BY RestoredFact DEF BoxTypes
  <2> QED BY <2>1, <2>2
<1> QED BY <1>2, <1>3, <1>4, <1>5, <1>6, OnlyTogglesToggle DEF Toggles

\* The check boxes and the persistent settings agree after every cascade of
\* controlDisabled() and controlEnabled().
THEOREM SettingsMirror == Spec => []SettingsMirrorBoxes
<1>1. Init => SettingsMirrorBoxes
  BY DEF Init, SettingsMirrorBoxes
<1>2. BoxTypes /\ SettingsMirrorBoxes /\ [Next]_vars => SettingsMirrorBoxes'
  BY MirrorStep
<1> QED BY <1>1, <1>2, BoxTypesInvariant, PTL DEF Spec

LEMMA PairsStep ==
  ASSUME BoxTypes, PairsTogether, [Next]_vars
  PROVE  PairsTogether'
<1> SUFFICES ASSUME NEW k \in DOMAIN Dependency, NEW d \in DOMAIN Dependency,
                    Dependency[k] = d, Dependency[d] = k
             PROVE  cvEnabled'[k] <=> cvEnabled'[d]
  BY DEF PairsTogether
<1>0. k \in Keys /\ d \in Keys
  BY EditorAssumption
<1>1. cvEnabled[k] <=> cvEnabled[d]
  BY DEF PairsTogether
<1>2. CASE UNCHANGED <<cvEnabled, settings>>
  BY <1>1, <1>2
<1>3. ASSUME NEW x \in Keys, Disable(x) PROVE cvEnabled'[k] <=> cvEnabled'[d]
  <2> DEFINE on  == {y \in Keys : cvEnabled[y]}
             off == Follow({x}, on)
  <2>1. \A y \in off \cap DOMAIN Dependency :
          Dependency[y] \in on => Dependency[y] \in off
    BY FollowFact
  <2>2. /\ cvEnabled'[k] <=> cvEnabled[k] /\ k \notin off
        /\ cvEnabled'[d] <=> cvEnabled[d] /\ d \notin off
    BY <1>0, <1>3 DEF Disable
  <2> QED BY <1>0, <1>1, <2>1, <2>2
<1>4. ASSUME NEW x \in Keys, Enable(x) PROVE cvEnabled'[k] <=> cvEnabled'[d]
  <2> DEFINE off == {y \in Keys : ~cvEnabled[y]}
             on  == Follow({x}, off)
  <2>1. \A y \in on \cap DOMAIN Dependency :
          Dependency[y] \in off => Dependency[y] \in on
    BY FollowFact
  <2>2. /\ cvEnabled'[k] <=> cvEnabled[k] \/ k \in on
        /\ cvEnabled'[d] <=> cvEnabled[d] \/ d \in on
    BY <1>0, <1>4 DEF Enable
  <2> QED BY <1>0, <1>1, <2>1, <2>2
<1>5. ASSUME NEW g \in Groups, ActivateGroup(g)
      PROVE  cvEnabled'[k] <=> cvEnabled'[d]
  <2> DEFINE on == Follow(g, Keys)
  <2>1. \A y \in on \cap DOMAIN Dependency :
          Dependency[y] \in Keys => Dependency[y] \in on
    BY FollowFact, EditorAssumption
  <2>2. /\ cvEnabled'[k] <=> k \in on
        /\ cvEnabled'[d] <=> d \in on
    BY <1>0, <1>5 DEF ActivateGroup
  <2> QED BY <1>0, <2>1, <2>2
<1>6. ASSUME Restart PROVE cvEnabled'[k] <=> cvEnabled'[d]
  <2>1. /\ cvEnabled'[k] <=> k \in Restored(settings)
        /\ cvEnabled'[d] <=> d \in Restored(settings)
    BY <1>0, <1>6 DEF Restart, Session
  <2>2. k \in Restored(settings) <=> d \in Restored(settings)
    BY RestoredFact DEF BoxTypes
  <2> QED BY <2>1, <2>2
<1> QED BY <1>2, <1>3, <1>4, <1>5, <1>6, OnlyTogglesToggle DEF Toggles

\* Two keys that depend on each other are shown, and so saved, together or not
\* at all, whatever dependencies the engine has besides.
THEOREM PairsStayTogether == Spec => []PairsTogether
<1>1. Init => PairsTogether
  BY EditorAssumption DEF Init, PairsTogether
<1>2. BoxTypes /\ PairsTogether /\ [Next]_vars => PairsTogether'
  BY PairsStep
<1> QED BY <1>1, <1>2, BoxTypesInvariant, PTL DEF Spec

-----------------------------------------------------------------------------
(* Types.                                                                  *)

\* The readers return a number or nothing, whatever tags are there.
LEMMA ReadingFact ==
  ASSUME NEW h \in Headers, NEW expected \in BOOLEAN, NEW k \in Keys
  PROVE  /\ ReadIn(h, expected, k) \in Int \cup {Invalid}
         /\ ShownNumber(ReadIn(h, expected, k)) \in Texts
         /\ k \in WithUnits =>
              ShownUnit(ReadUnitIn(h, expected, k)) \in Units \cup {NoUnit}
<1>1. h.value[k] \in Magnitudes \cup {Absent} /\ h.ref[k] \in Refs(k) \cup {Absent}
  BY DEF Headers
<1>2. Magnitudes \subseteq Int
  BY NumbersAssumption DEF Magnitudes, Magnitude
<1>3. ReadIn(h, expected, k) \in Int \cup {Invalid}
  <2>1. Present(h, k) => Reading(h, k) \in Int
    <3>1. Present(h, k) => h.value[k] \in Int
      BY <1>1, <1>2, Zenon DEF Present
    <3>2. \A n \in Int : 0 - n \in Int
      OBVIOUS
    <3> QED BY <3>1, <3>2, Zenon DEF Reading
  <2>2. 0 \in Int
    OBVIOUS
  <2> QED BY <2>1, <2>2, Zenon DEF ReadIn
<1>4. ShownNumber(ReadIn(h, expected, k)) \in Texts
  BY <1>3 DEF ShownNumber, Texts
<1>5. k \in WithUnits => ShownUnit(ReadUnitIn(h, expected, k)) \in Units \cup {NoUnit}
  BY <1>1, KeysAssumption DEF ShownUnit, ReadUnitIn, Refs
<1> QED BY <1>3, <1>4, <1>5

ValueTypes == /\ cvKeyValue \in [Keys -> Texts] /\ cvCachedValue \in [Keys -> Texts]
              /\ cvDiscardButton \in [Keys -> BOOLEAN]
UnitTypes == cvUnits \in [Keys -> Units \cup {NoUnit}]

\* What the engine reads after a step can be shown.
LEMMA ShownFact ==
  ASSUME EngineTypeOK', NEW k \in Keys
  PROVE  /\ ShownNumber(Read(k)') \in Texts
         /\ k \in WithUnits => ShownUnit(ReadUnit(k)') \in Units \cup {NoUnit}
<1>1. CASE cvIsValidImage'
  <2>1. header' \in Headers
    BY <1>1 DEF EngineTypeOK, header
  <2> QED BY <1>1, <2>1, ReadingFact DEF EngineTypeOK, Read, ReadUnit
<1>2. CASE ~cvIsValidImage'
  BY <1>2 DEF Read, ReadUnit, ShownNumber, ShownUnit, Texts
<1> QED BY <1>1, <1>2

LEMMA ShowValueTypes ==
  ASSUME EngineTypeOK', ValueTypes, NEW S, NEW shown, ShowValue(S, shown)
  PROVE  ValueTypes'
<1>1. \A k \in Keys : (IF k \in shown THEN ShownNumber(Read(k)') ELSE Blank) \in Texts
  BY ShownFact DEF Texts
<1>2. cvKeyValue' \in [Keys -> Texts] /\ cvCachedValue' \in [Keys -> Texts]
  BY <1>1 DEF ShowValue, ValueTypes
<1>3. cvDiscardButton' \in [Keys -> BOOLEAN]
  BY DEF ShowValue, ValueTypes
<1> QED BY <1>2, <1>3 DEF ValueTypes

LEMMA ShowUnitTypes ==
  ASSUME EngineTypeOK', UnitTypes, NEW S, NEW shown, ShowUnit(S, shown)
  PROVE  UnitTypes'
<1>1. \A k \in WithUnits : ShownUnit(ReadUnit(k)') \in Units \cup {NoUnit}
  BY ShownFact, KeysAssumption
<1> QED BY <1>1 DEF ShowUnit, UnitTypes

\* A header with one more tag is a header.
LEMMA HeaderFact ==
  ASSUME NEW h \in Headers, NEW k \in Keys
  PROVE  /\ \A r \in Refs(k) : [h EXCEPT !.ref[k] = r] \in Headers
         /\ \A n \in Magnitudes : [h EXCEPT !.value[k] = n] \in Headers
<1>1. /\ h = [value |-> h.value, ref |-> h.ref]
      /\ h.value \in [Keys -> Magnitudes \cup {Absent}]
      /\ h.ref \in [Keys -> Signs \cup Units \cup {Absent}]
      /\ \A x \in Keys : h.ref[x] \in Refs(x) \cup {Absent}
  BY DEF Headers
<1>2. ASSUME NEW r \in Refs(k) PROVE [h EXCEPT !.ref[k] = r] \in Headers
  <2>1. r \in Signs \cup Units
    BY DEF Refs
  <2> DEFINE ref == [h.ref EXCEPT ![k] = r]
  <2>2. ref \in [Keys -> Signs \cup Units \cup {Absent}]
    BY <1>1, <2>1
  <2>3. \A x \in Keys : ref[x] \in Refs(x) \cup {Absent}
    BY <1>1
  <2>4. [h EXCEPT !.ref[k] = r] = [value |-> h.value, ref |-> ref]
    BY <1>1
  <2> HIDE DEF ref
  <2> QED BY <1>1, <2>2, <2>3, <2>4 DEF Headers
<1>3. ASSUME NEW n \in Magnitudes PROVE [h EXCEPT !.value[k] = n] \in Headers
  <2> DEFINE value == [h.value EXCEPT ![k] = n]
  <2>1. value \in [Keys -> Magnitudes \cup {Absent}]
    BY <1>1
  <2>2. [h EXCEPT !.value[k] = n] = [value |-> value, ref |-> h.ref]
    BY <1>1
  <2> HIDE DEF value
  <2> QED BY <1>1, <2>1, <2>2 DEF Headers
<1> QED BY <1>2, <1>3

\* What a writer leaves on the disk.
LEMMA WrittenFact ==
  ASSUME disk \in [Files -> Headers], NEW k \in Keys
  PROVE  /\ \A r \in Refs(k) : WriteRef(k, r) => disk' \in [Files -> Headers]
         /\ \A n \in Numbers : WriteValue(k, n) => disk' \in [Files -> Headers]
<1>1. ASSUME NEW r \in Refs(k), WriteRef(k, r) PROVE disk' \in [Files -> Headers]
  <2>1. \A f \in Files : [disk[f] EXCEPT !.ref[k] = r] \in Headers
    BY HeaderFact
  <2> QED BY <1>1, <2>1 DEF WriteRef
<1>2. ASSUME NEW n \in Numbers, WriteValue(k, n) PROVE disk' \in [Files -> Headers]
  <2>1. Stored[Magnitude(n)] \in Magnitudes
    BY NumbersAssumption DEF Magnitudes
  <2>2. \A f \in Files : [disk[f] EXCEPT !.value[k] = Stored[Magnitude(n)]] \in Headers
    BY <2>1, HeaderFact
  <2> QED BY <1>2, <2>2 DEF WriteValue
<1> QED BY <1>1, <1>2

-----------------------------------------------------------------------------
(* Where a save is.                                                        *)

\* Between the steps of a save: a sign is only due for a signed key, a number
\* that is due was accepted, and finds its sign in the file.
Due == cvIsValidImage /\ cvEnabled[key] /\ cvKeyValue[key] \in Range[key]

SaveInProgress ==
  ~Idle => /\ saving.step = "sign" => key \in Signed /\ Due
           /\ saving.step = "number" => Due
           /\ saving.step = "number" /\ key \in Signed =>
                header.ref[key] = SignOf(cvKeyValue[key])
           /\ saving.step = "unit" => key \in WithUnits

LEMMA KeyFact ==
  ASSUME saving \in Saving
  PROVE  key \in Keys
<1>1. saving.at \in 1..Len(KeyOrder)
  BY DEF Saving
<1> QED BY <1>1, EditorAssumption DEF key

LEMMA GoFact ==
  ASSUME saving \in Saving, NEW step \in {"value", "sign", "number", "unit"},
         Go(step)
  PROVE  saving' \in Saving /\ saving'.step = step /\ key' = key
BY DEF Saving, Go, key

LEMMA NextControlFact ==
  ASSUME saving \in Saving, NextControl
  PROVE  saving' = NotSaving \/ (saving' \in Saving /\ saving'.step = "value")
<1>1. saving.at \in 1..Len(KeyOrder) /\ Len(KeyOrder) \in Nat
  BY EditorAssumption DEF Saving
<1>2. saving.at # Len(KeyOrder) => saving.at + 1 \in 1..Len(KeyOrder)
  BY <1>1
<1> QED BY <1>2 DEF NextControl, Saving

LEMMA AtFact ==
  ASSUME saving \in Saving \cup {NotSaving}, NEW step, At(step)
  PROVE  saving \in Saving /\ saving.step = step /\ ~Idle /\ key \in Keys
BY KeyFact DEF At, Idle

\* Everything the user does waits for the end of a save.
GuiAction ==
  \/ \E f \in Files \cup {NoFile} : LoadExifData(f)
  \/ \E k \in Keys : Disable(k) \/ Enable(k) \/ Discard(k)
  \/ \E g \in Groups : ActivateGroup(g)
  \/ \E k \in Keys, t \in Typed : TypeText(k, t) \/ AcceptKeyValuePair(k, t)
  \/ \E k \in Keys, u \in Units \cup {NoUnit} : SelectUnit(k, u)

LEMMA GuiActionIsIdle ==
  ASSUME GuiAction
  PROVE  Idle /\ UNCHANGED <<disk, saving>>
BY DEF GuiAction, LoadExifData, Disable, Enable, Discard, ActivateGroup, TypeText,
       AcceptKeyValuePair, SelectUnit

LEMMA NextCases ==
  ASSUME [Next]_vars
  PROVE  GuiAction \/ SaveClicked \/ SaveStep \/ Restart \/ UNCHANGED vars
BY DEF Next, GuiAction

EngineAndSave == EngineTypeOK /\ saving \in Saving \cup {NotSaving} /\ SaveInProgress

LEMMA SaveStepFact ==
  ASSUME EngineAndSave, UnitTypes, SaveStep
  PROVE  EngineAndSave'
<1> USE DEF EngineAndSave
<1>e. UNCHANGED <<disk, engine>> => EngineTypeOK'
  BY DEF EngineTypeOK, engine
\* The control is left, for its unit or for the next one.
<1>l. ASSUME saving \in Saving, key \in Keys,
             NextControl \/ (key \in WithUnits /\ Go("unit"))
      PROVE  saving' \in Saving \cup {NotSaving} /\ SaveInProgress'
  <2>1. CASE NextControl
    BY <1>l, <2>1, NextControlFact DEF SaveInProgress, Idle
  <2>2. CASE key \in WithUnits /\ Go("unit")
    <3>1. saving' \in Saving /\ saving'.step = "unit" /\ key' = key
      BY <1>l, <2>2, GoFact
    <3> QED BY <2>2, <3>1 DEF SaveInProgress
  <2> QED BY <1>l, <2>1, <2>2
<1>b. ReadBack => NextControl \/ (key \in WithUnits /\ Go("unit"))
  BY DEF ReadBack
<1>1. CASE SkipControl
  <2>1. saving \in Saving /\ key \in Keys
    BY <1>1, AtFact DEF SkipControl
  <2> QED BY <1>1, <2>1, <1>e, <1>l DEF SkipControl
<1>2. CASE CheckText
  <2>1. saving \in Saving /\ key \in Keys
    BY <1>2, AtFact DEF CheckText
  <2>2. EngineTypeOK'
    BY <1>2, <1>e DEF CheckText
  <2>3. CASE ReadBack
    BY <2>1, <2>2, <2>3, <1>b, <1>l
  <2>4. CASE /\ Accepts(key, cvKeyValue[key])
             /\ Go(IF key \in Signed THEN "sign" ELSE "number")
             /\ UNCHANGED <<cvEnabled, controls, settings>>
    <3>1. /\ saving' \in Saving /\ key' = key
          /\ saving'.step = IF key \in Signed THEN "sign" ELSE "number"
      BY <2>1, <2>4, GoFact
    <3>2. Due
      BY <1>2, <2>4 DEF CheckText, Accepts, Due
    <3>3. Due'
      BY <1>2, <2>4, <3>1, <3>2 DEF CheckText, Due, controls, engine
    <3> QED BY <2>2, <3>1, <3>3 DEF SaveInProgress
  <2> QED BY <1>2, <2>3, <2>4 DEF CheckText
<1>3. CASE WriteSign
  <2>1. saving \in Saving /\ key \in Keys /\ key \in Signed /\ Due
    BY <1>3, AtFact DEF WriteSign, SaveInProgress
  <2>2. saving' \in Saving /\ saving'.step = "number" /\ key' = key
    BY <1>3, <2>1, GoFact DEF WriteSign
  <2>3. SignOf(cvKeyValue[key]) \in Refs(key)
    BY <2>1 DEF SignOf, Refs, Signs
  <2>4. EngineTypeOK'
    BY <1>3, <2>1, <2>3, WrittenFact DEF WriteSign, EngineTypeOK, engine
  <2>5. Due'
    BY <1>3, <2>1, <2>2 DEF WriteSign, Due, controls, engine
  <2>6. header'.ref[key] = SignOf(cvKeyValue[key])
    <3>1. cvImageFileName \in Files
      BY <2>1 DEF Due, EngineTypeOK
    <3>2. disk[cvImageFileName] \in Headers
      BY <3>1 DEF EngineTypeOK
    <3> QED BY <1>3, <2>1, <3>1, <3>2
            DEF WriteSign, WriteRef, header, engine, EngineTypeOK, Headers
  <2>7. cvKeyValue' = cvKeyValue
    BY <1>3 DEF WriteSign, controls
  <2> QED BY <2>2, <2>4, <2>5, <2>6, <2>7 DEF SaveInProgress
<1>4. CASE WriteNumber
  <2>1. saving \in Saving /\ key \in Keys /\ Due
    BY <1>4, AtFact DEF WriteNumber, SaveInProgress
  <2>2. cvKeyValue[key] \in Numbers
    BY <2>1, NumbersAssumption DEF Due
  <2>3. EngineTypeOK'
    BY <1>4, <2>1, <2>2, WrittenFact DEF WriteNumber, Expected, EngineTypeOK
  <2> QED BY <1>4, <2>1, <2>3, <1>b, <1>l DEF WriteNumber
<1>5. CASE WriteFails
  <2>1. saving \in Saving /\ key \in Keys
    BY <1>5, AtFact DEF WriteFails
  <2> QED BY <1>5, <2>1, <1>e, <1>b, <1>l DEF WriteFails
<1>6. CASE WriteUnit
  <2>1. saving \in Saving /\ key \in Keys /\ key \in WithUnits
    BY <1>6, AtFact DEF WriteUnit, SaveInProgress
  <2>2. ASSUME cvUnits[key] # NoUnit, WriteRef(key, cvUnits[key]), Expected
        PROVE  EngineTypeOK'
    <3>1. cvUnits[key] \in Refs(key)
      BY <2>1, <2>2, KeysAssumption DEF UnitTypes, Refs
    <3> QED BY <2>1, <2>2, <3>1, WrittenFact DEF Expected, EngineTypeOK
  <2> QED BY <1>6, <2>1, <2>2, <1>e, <1>l DEF WriteUnit
<1> QED BY <1>1, <1>2, <1>3, <1>4, <1>5, <1>6 DEF SaveStep

LEMMA EngineAndSaveStep ==
  ASSUME EngineAndSave, UnitTypes, [Next]_vars
  PROVE  EngineAndSave'
<1>1. CASE GuiAction
  <2>1. Idle' /\ UNCHANGED <<disk, saving>>
    BY <1>1, GuiActionIsIdle DEF Idle, NotSaving
  <2>2. EngineTypeOK'
    <3>1. CASE UNCHANGED engine
      BY <2>1, <3>1 DEF EngineAndSave, EngineTypeOK, engine
    <3>2. ASSUME NEW f \in Files \cup {NoFile}, LoadExifData(f) PROVE EngineTypeOK'
      <4>1. /\ cvImageFileName' = f
            /\ cvIsValidImage' = (f \in Files)
            /\ cvHasExpectedExif' = (f \in Files /\ HasGps(disk[f]))
        BY <3>2 DEF LoadExifData, SetFile
      <4>2. cvHasExpectedExif' \in BOOLEAN /\ cvIsValidImage' \in BOOLEAN
        BY <4>1
      <4>3. cvIsValidImage' <=> cvImageFileName' \in Files
        BY <4>1
      <4> QED BY <2>1, <4>1, <4>2, <4>3, Zenon DEF EngineAndSave, EngineTypeOK
    <3> QED BY <1>1, <3>1, <3>2 DEF GuiAction, Disable, Enable, Discard,
               ActivateGroup, TypeText, AcceptKeyValuePair, SelectUnit
  <2> QED BY <2>1, <2>2 DEF EngineAndSave, SaveInProgress
<1>2. CASE SaveClicked
  <2>1. EngineTypeOK'
    BY <1>2 DEF EngineAndSave, EngineTypeOK, SaveClicked, engine
  <2>2. saving' = NotSaving \/ (saving' \in Saving /\ saving'.step = "value")
    <3>1. CASE KeyOrder = <<>>
      BY <1>2, <3>1 DEF SaveClicked
    <3>2. CASE KeyOrder # <<>>
      <4>1. 1 \in 1..Len(KeyOrder)
        BY <3>2, EditorAssumption
      <4> QED BY <1>2, <3>2, <4>1 DEF SaveClicked, Saving
    <3> QED BY <3>1, <3>2
  <2> QED BY <2>1, <2>2 DEF EngineAndSave, SaveInProgress, Idle
<1>3. CASE Restart
  <2>1. /\ disk' = disk /\ cvImageFileName' = NoFile
        /\ cvIsValidImage' = FALSE /\ cvHasExpectedExif' = FALSE
        /\ saving' = NotSaving
    BY <1>3 DEF Restart, Session
  <2>3. EngineTypeOK'
    BY <2>1, KeysAssumption DEF EngineAndSave, EngineTypeOK
  <2> QED BY <2>1, <2>3 DEF EngineAndSave, SaveInProgress, Idle
<1>4. CASE UNCHANGED vars
  BY <1>4 DEF vars, engine, controls, EngineAndSave, EngineTypeOK, SaveInProgress,
              Idle, Due, key, header
<1> QED BY <1>1, <1>2, <1>3, <1>4, SaveStepFact, NextCases

LEMMA ShownTypesStep ==
  ASSUME EngineAndSave, EngineAndSave', ValueTypes, UnitTypes, [Next]_vars
  PROVE  ValueTypes' /\ UnitTypes'
<1>e. EngineTypeOK'
  BY DEF EngineAndSave
<1>s. \A S, shown : /\ ShowValue(S, shown) => ValueTypes'
                    /\ ShowUnit(S, shown) => UnitTypes'
  BY <1>e, ShowValueTypes, ShowUnitTypes
<1>v. UNCHANGED <<cvKeyValue, cvCachedValue, cvDiscardButton>> => ValueTypes'
  BY DEF ValueTypes
<1>u. UNCHANGED cvUnits => UnitTypes'
  BY DEF UnitTypes
<1>t. Typed \subseteq Texts
  BY NumbersAssumption DEF Typed, Texts
<1>1. ASSUME NEW f \in Files \cup {NoFile}, LoadExifData(f)
      PROVE  ValueTypes' /\ UnitTypes'
  BY <1>1, <1>s DEF LoadExifData
<1>2. ASSUME NEW k \in Keys, Disable(k) PROVE ValueTypes' /\ UnitTypes'
  BY <1>2, <1>v, <1>u DEF Disable, controls
<1>3. ASSUME NEW k \in Keys, Enable(k) PROVE ValueTypes' /\ UnitTypes'
  BY <1>3, <1>s DEF Enable
<1>4. ASSUME NEW g \in Groups, ActivateGroup(g) PROVE ValueTypes' /\ UnitTypes'
  BY <1>4, <1>s DEF ActivateGroup
<1>5. ASSUME NEW k \in Keys, NEW t \in Typed, TypeText(k, t) \/ AcceptKeyValuePair(k, t)
      PROVE  ValueTypes' /\ UnitTypes'
  <2>1. SetText(k, t)
    BY <1>5 DEF TypeText, AcceptKeyValuePair
  <2>2. cvKeyValue' \in [Keys -> Texts] /\ cvCachedValue' \in [Keys -> Texts]
    BY <2>1, <1>t DEF SetText, ValueTypes
  <2>3. cvDiscardButton' \in [Keys -> BOOLEAN]
    BY <2>1 DEF SetText, ValueTypes
  <2> QED BY <2>1, <2>2, <2>3, <1>u DEF SetText, ValueTypes
<1>6. ASSUME NEW k \in Keys, Discard(k) PROVE ValueTypes' /\ UnitTypes'
  BY <1>6, <1>u DEF Discard, ValueTypes
<1>7. ASSUME NEW k \in Keys, NEW u \in Units \cup {NoUnit}, SelectUnit(k, u)
      PROVE  ValueTypes' /\ UnitTypes'
  BY <1>7, <1>v DEF SelectUnit, UnitTypes
<1>8. CASE SaveClicked
  BY <1>8, <1>v, <1>u DEF SaveClicked, controls
<1>9. CASE SaveStep
  <2>1. ReadBack => ValueTypes' /\ UnitTypes'
    BY <1>s, <1>u DEF ReadBack
  <2>2. CASE SkipControl \/ CheckText \/ WriteSign
    BY <2>1, <2>2, <1>v, <1>u DEF SkipControl, CheckText, WriteSign, controls
  <2>3. CASE WriteNumber \/ WriteFails
    BY <2>1, <2>3 DEF WriteNumber, WriteFails
  <2>4. CASE WriteUnit
    BY <2>4, <1>s, <1>v DEF WriteUnit
  <2> QED BY <1>9, <2>2, <2>3, <2>4 DEF SaveStep
<1>10. CASE Restart
  BY <1>10 DEF Restart, Session, ValueTypes, UnitTypes, Texts
<1>11. CASE UNCHANGED vars
  BY <1>11, <1>v, <1>u DEF vars, controls
<1> QED BY <1>1, <1>2, <1>3, <1>4, <1>5, <1>6, <1>7, <1>8, <1>9, <1>10, <1>11 DEF Next

TypeInv == EngineAndSave /\ BoxTypes /\ ValueTypes /\ UnitTypes

LEMMA TypeInvInvariant == Spec => []TypeInv
<1>1. Init => TypeInv
  <2>1. CameraHeaders \subseteq Headers
    BY DEF CameraHeaders, Headers
  <2> SUFFICES ASSUME Init PROVE TypeInv
    OBVIOUS
  <2>2. EngineTypeOK
    <3>1. disk \in [Files -> Headers]
      BY <2>1 DEF Init
    <3> QED BY <3>1, KeysAssumption DEF Init, EngineTypeOK
  <2>3. EngineAndSave
    BY <2>2 DEF Init, EngineAndSave, SaveInProgress, Idle
  <2>4. BoxTypes /\ ValueTypes /\ UnitTypes
    BY DEF Init, BoxTypes, ValueTypes, UnitTypes, Texts
  <2> QED BY <2>3, <2>4 DEF TypeInv
<1>2. TypeInv /\ [Next]_vars => TypeInv'
  BY EngineAndSaveStep, BoxTypesStep, ShownTypesStep DEF TypeInv
<1> QED BY <1>1, <1>2, PTL DEF Spec

\* Every variable keeps its type, for any keys, dependencies, groups, files
\* and numbers: what a save has accepted can be written and read back.
THEOREM TypeCorrect == Spec => []TypeOK
<1>1. TypeInv => TypeOK
  BY DEF TypeInv, EngineAndSave, BoxTypes, ValueTypes, UnitTypes, TypeOK
<1> QED BY <1>1, TypeInvInvariant, PTL

-----------------------------------------------------------------------------
(* Edits.                                                                  *)

LEMMA NoHiddenEditStep ==
  ASSUME TypeInv, NoHiddenEdit, [Next]_vars
  PROVE  NoHiddenEdit'
<1> SUFFICES ASSUME NEW k \in Keys, ~cvDiscardButton'[k]
             PROVE  cvKeyValue'[k] = cvCachedValue'[k]
  BY DEF NoHiddenEdit
<1>0. ~cvDiscardButton[k] => cvKeyValue[k] = cvCachedValue[k]
  BY DEF NoHiddenEdit
<1>s. ASSUME NEW S, NEW shown, ShowValue(S, shown)
      PROVE  cvKeyValue'[k] = cvCachedValue'[k]
  BY <1>s, <1>0 DEF ShowValue
<1>u. CASE UNCHANGED <<cvKeyValue, cvCachedValue, cvDiscardButton>>
  BY <1>u, <1>0
<1>1. CASE GuiAction
  <2>1. CASE \E f \in Files \cup {NoFile} : LoadExifData(f)
    BY <2>1, <1>s DEF LoadExifData
  <2>2. CASE \E x \in Keys : Disable(x)
    BY <2>2, <1>u DEF Disable, controls
  <2>3. CASE \E x \in Keys : Enable(x)
    BY <2>3, <1>s DEF Enable
  <2>4. CASE \E g \in Groups : ActivateGroup(g)
    BY <2>4, <1>s DEF ActivateGroup
  <2>5. ASSUME NEW x \in Keys, NEW t \in Typed,
               TypeText(x, t) \/ AcceptKeyValuePair(x, t)
        PROVE  cvKeyValue'[k] = cvCachedValue'[k]
    <3>1. SetText(x, t)
      BY <2>5 DEF TypeText, AcceptKeyValuePair
    <3>2. CASE x = k
      <4>1. cvDiscardButton'[k] <=> cvDiscardButton[k] \/ t # cvKeyValue[k]
        BY <3>1, <3>2 DEF SetText, TypeInv, ValueTypes
      <4>2. cvKeyValue'[k] = t /\ cvCachedValue'[k] = cvCachedValue[k]
        BY <3>1, <3>2 DEF SetText, TypeInv, ValueTypes
      <4> QED BY <1>0, <4>1, <4>2
    <3>3. CASE x # k
      BY <3>1, <3>3, <1>0 DEF SetText, TypeInv, ValueTypes
    <3> QED BY <3>2, <3>3
  <2>6. ASSUME NEW x \in Keys, Discard(x)
        PROVE  cvKeyValue'[k] = cvCachedValue'[k]
    BY <2>6, <1>0 DEF Discard, TypeInv, ValueTypes
  <2>7. CASE \E x \in Keys, u \in Units \cup {NoUnit} : SelectUnit(x, u)
    BY <2>7, <1>u DEF SelectUnit
  <2> QED BY <1>1, <2>1, <2>2, <2>3, <2>4, <2>5, <2>6, <2>7 DEF GuiAction
<1>2. CASE SaveClicked
  BY <1>2, <1>u DEF SaveClicked, controls
<1>3. CASE SaveStep
  BY <1>3, <1>s, <1>u DEF SaveStep, SkipControl, CheckText, WriteSign, WriteNumber,
     WriteFails, WriteUnit, ReadBack, controls
<1>4. CASE Restart
  BY <1>4 DEF Restart, Session
<1>5. CASE UNCHANGED vars
  BY <1>5, <1>u DEF vars, controls
<1> QED BY <1>1, <1>2, <1>3, <1>4, <1>5, NextCases

\* No line edit differs from the text it falls back to while its discard button
\* is disabled.
THEOREM EditsCanBeDiscarded == Spec => []NoHiddenEdit
<1>1. Init => NoHiddenEdit
  BY DEF Init, NoHiddenEdit
<1>2. TypeInv /\ NoHiddenEdit /\ [Next]_vars => NoHiddenEdit'
  BY NoHiddenEditStep
<1> QED BY <1>1, <1>2, TypeInvInvariant, PTL DEF Spec

-----------------------------------------------------------------------------
(* The engine's flag.                                                      *)

\* While the flag is clear there is no value to read; a sign may be there, if
\* writing its number failed.
NothingUnexpected ==
  cvIsValidImage /\ ~cvHasExpectedExif => \A k \in Keys : header.value[k] = Absent

\* What a step does to the file that is open, and to the flag.
EngineStep ==
  \/ UNCHANGED <<disk, engine>>
  \/ Idle /\ disk' = disk /\ \E f \in Files \cup {NoFile} : SetFile(f)
  \/ /\ key \in Keys /\ Due /\ At("sign")
     /\ WriteRef(key, SignOf(cvKeyValue[key])) /\ UNCHANGED engine
  \/ /\ key \in Keys /\ Due /\ At("number")
     /\ WriteValue(key, cvKeyValue[key]) /\ Expected
  \/ /\ key \in Keys /\ key \in WithUnits /\ cvIsValidImage
     /\ cvUnits[key] \in Units
     /\ WriteRef(key, cvUnits[key]) /\ Expected

LEMMA SaveEngineSteps ==
  ASSUME TypeInv, SaveStep
  PROVE  EngineStep
<1> USE DEF TypeInv, EngineAndSave
<1>1. CASE SkipControl \/ CheckText \/ WriteFails
  BY <1>1 DEF SkipControl, CheckText, WriteFails, EngineStep
<1>2. CASE WriteSign
  <2>1. Due /\ key \in Keys
    BY <1>2, AtFact DEF WriteSign, SaveInProgress
  <2> QED BY <1>2, <2>1 DEF WriteSign, EngineStep
<1>3. CASE WriteNumber
  <2>1. Due /\ key \in Keys
    BY <1>3, AtFact DEF WriteNumber, SaveInProgress
  <2> QED BY <1>3, <2>1 DEF WriteNumber, EngineStep
<1>4. CASE WriteUnit
  <2>1. key \in WithUnits /\ key \in Keys
    BY <1>4, AtFact DEF WriteUnit, SaveInProgress
  <2> QED BY <1>4, <2>1 DEF WriteUnit, EngineStep, UnitTypes
<1> QED BY <1>1, <1>2, <1>3, <1>4 DEF SaveStep

LEMMA EngineSteps ==
  ASSUME TypeInv, [Next]_vars
  PROVE  EngineStep \/ Restart
<1>1. CASE GuiAction
  <2>1. Idle /\ disk' = disk
    BY <1>1, GuiActionIsIdle
  <2> QED BY <1>1, <2>1 DEF GuiAction, LoadExifData, Disable, Enable, Discard,
         ActivateGroup, TypeText, AcceptKeyValuePair, SelectUnit, EngineStep
<1>2. CASE SaveClicked
  BY <1>2 DEF SaveClicked, EngineStep
<1>3. CASE UNCHANGED vars
  BY <1>3 DEF vars, EngineStep
<1> QED BY <1>1, <1>2, <1>3, SaveEngineSteps, NextCases

\* Writing a tag changes that tag of the open file.
LEMMA TagWritten ==
  ASSUME EngineTypeOK, cvIsValidImage, UNCHANGED cvImageFileName,
         NEW k \in Keys, NEW x \in Keys
  PROVE  /\ \A r : WriteRef(k, r) =>
              /\ header'.value[x] = header.value[x]
              /\ header'.ref[x] = IF x = k THEN r ELSE header.ref[x]
         /\ \A n : WriteValue(k, n) =>
              /\ header'.ref[x] = header.ref[x]
              /\ header'.value[x] =
                   IF x = k THEN Stored[Magnitude(n)] ELSE header.value[x]
<1>1. header \in Headers /\ cvImageFileName \in Files
  BY DEF EngineTypeOK, header
<1>2. header.value \in [Keys -> Magnitudes \cup {Absent}]
  BY <1>1 DEF Headers
<1>3. header.ref \in [Keys -> Signs \cup Units \cup {Absent}]
  BY <1>1 DEF Headers
<1>4. header = [value |-> header.value, ref |-> header.ref]
  BY <1>1 DEF Headers
<1>5. ASSUME NEW r, WriteRef(k, r)
      PROVE  /\ header'.value[x] = header.value[x]
             /\ header'.ref[x] = IF x = k THEN r ELSE header.ref[x]
  <2>1. header' = [header EXCEPT !.ref[k] = r]
    BY <1>1, <1>5 DEF WriteRef, header, EngineTypeOK
  <2>2. header'.value = header.value /\ header'.ref = [header.ref EXCEPT ![k] = r]
    BY <2>1, <1>4
  <2> QED BY <2>2, <1>3
<1>6. ASSUME NEW n, WriteValue(k, n)
      PROVE  /\ header'.ref[x] = header.ref[x]
             /\ header'.value[x] =
                  IF x = k THEN Stored[Magnitude(n)] ELSE header.value[x]
  <2> DEFINE v == Stored[Magnitude(n)]
  <2>1. header' = [header EXCEPT !.value[k] = v]
    BY <1>1, <1>6 DEF WriteValue, header, EngineTypeOK
  <2> HIDE DEF v
  <2>2. header'.ref = header.ref /\ header'.value = [header.value EXCEPT ![k] = v]
    BY <2>1, <1>4
  <2>3. header'.ref[x] = header.ref[x] /\ header'.value[x] = IF x = k THEN v ELSE header.value[x]
    BY <2>2, <1>2
  <2> QED BY <2>3 DEF v
<1> QED BY <1>5, <1>6

FlagInv == NothingUnexpected /\ ExpectedIsThere

LEMMA FlagStep ==
  ASSUME TypeInv, FlagInv, [Next]_vars
  PROVE  FlagInv'
<1>0. EngineTypeOK
  BY DEF TypeInv, EngineAndSave
<1>1. CASE UNCHANGED <<disk, engine>>
  BY <1>1 DEF FlagInv, NothingUnexpected, ExpectedIsThere, engine, header, HasGps
<1>2. ASSUME disk' = disk, NEW f \in Files \cup {NoFile}, SetFile(f)
      PROVE  FlagInv'
  BY <1>2 DEF FlagInv, NothingUnexpected, ExpectedIsThere, SetFile, header, HasGps
<1>3. ASSUME key \in Keys, Due, WriteRef(key, SignOf(cvKeyValue[key])),
             UNCHANGED engine
      PROVE  FlagInv'
  <2>1. cvIsValidImage /\ UNCHANGED <<cvIsValidImage, cvHasExpectedExif, cvImageFileName>>
    BY <1>3 DEF Due, engine
  <2>2. /\ \A x \in Keys : header'.value[x] = header.value[x]
        /\ header'.ref[key] = SignOf(cvKeyValue[key])
    BY <1>0, <1>3, <2>1, TagWritten
  <2>3. SignOf(cvKeyValue[key]) # Absent
    BY NumbersAssumption DEF SignOf, Signs
  <2>4. HasGps(header')
    BY <1>3, <2>2, <2>3 DEF HasGps
  <2>5. ExpectedIsThere'
    BY <2>1, <2>4 DEF ExpectedIsThere
  <2>6. NothingUnexpected'
    BY <2>1, <2>2 DEF FlagInv, NothingUnexpected
  <2> QED BY <2>5, <2>6 DEF FlagInv
<1>4. ASSUME key \in Keys, Due, WriteValue(key, cvKeyValue[key]), Expected
      PROVE  FlagInv'
  <2>1. cvIsValidImage /\ cvIsValidImage' /\ cvHasExpectedExif' /\ UNCHANGED cvImageFileName
    BY <1>4 DEF Due, Expected
  <2>2. header'.value[key] = Stored[Magnitude(cvKeyValue[key])]
    BY <1>0, <1>4, <2>1, TagWritten
  <2>3. cvKeyValue[key] \in Numbers
    BY <1>4, NumbersAssumption DEF Due
  <2>4. Stored[Magnitude(cvKeyValue[key])] # Absent
    <3>1. Stored[Magnitude(cvKeyValue[key])] \in Magnitudes
      BY <2>3, NumbersAssumption DEF Magnitudes
    <3>2. Magnitudes \subseteq Int
      BY NumbersAssumption DEF Magnitudes, Magnitude
    <3> QED BY <3>1, <3>2, NumbersAssumption
  <2>5. HasGps(header')
    BY <1>4, <2>2, <2>4 DEF HasGps
  <2> QED BY <2>1, <2>5 DEF FlagInv, NothingUnexpected, ExpectedIsThere
<1>5. ASSUME key \in Keys, cvIsValidImage, cvUnits[key] \in Units,
             WriteRef(key, cvUnits[key]), Expected
      PROVE  FlagInv'
  <2>1. cvIsValidImage' /\ cvHasExpectedExif' /\ UNCHANGED cvImageFileName
    BY <1>5 DEF Expected
  <2>2. header'.ref[key] = cvUnits[key]
    BY <1>0, <1>5, <2>1, TagWritten
  <2>3. cvUnits[key] # Absent
    BY <1>5, NumbersAssumption
  <2>4. HasGps(header')
    BY <1>5, <2>2, <2>3 DEF HasGps
  <2> QED BY <2>1, <2>4 DEF FlagInv, NothingUnexpected, ExpectedIsThere
<1>6. CASE Restart
  BY <1>6 DEF Restart, Session, FlagInv, NothingUnexpected, ExpectedIsThere
<1> QED BY <1>1, <1>2, <1>3, <1>4, <1>5, <1>6, EngineSteps DEF EngineStep

LEMMA FlagInvariant == Spec => []FlagInv
<1>1. Init => FlagInv
  BY DEF Init, FlagInv, NothingUnexpected, ExpectedIsThere
<1>2. TypeInv /\ FlagInv /\ [Next]_vars => FlagInv'
  BY FlagStep
<1> QED BY <1>1, <1>2, TypeInvInvariant, PTL DEF Spec

\* cvHasExpectedExif is set only while the open file has some GPS tag.
THEOREM FlagMeansTags == Spec => []ExpectedIsThere
BY FlagInvariant, PTL DEF FlagInv

-----------------------------------------------------------------------------
(* What reaches the file.                                                  *)

SignedWrite ==
  \A f \in Files, k \in Keys :
    disk'[f].value[k] # disk[f].value[k] =>
      /\ f = cvImageFileName /\ ~Idle /\ k = key /\ cvEnabled[k]
      /\ k \in Signed => disk'[f].ref[k] = SignOf(cvKeyValue[k])

\* Only WriteNumber changes a number in a file.
LEMMA ValueWriteStep ==
  ASSUME TypeInv, [Next]_vars, NEW f \in Files, NEW k \in Keys,
         disk'[f].value[k] # disk[f].value[k]
  PROVE  /\ f = cvImageFileName /\ k = key /\ Due /\ At("number")
         /\ disk'[f].ref[k] = header.ref[k]
<1>0. EngineTypeOK /\ disk \in [Files -> Headers]
  BY DEF TypeInv, EngineAndSave, EngineTypeOK
<1>1. disk' # disk
  OBVIOUS
<1>2. ASSUME key \in Keys, cvIsValidImage, UNCHANGED cvImageFileName,
             NEW r, WriteRef(key, r)
      PROVE  FALSE
  <2>1. CASE f = cvImageFileName
    BY <1>0, <1>2, <2>1, TagWritten DEF header
  <2>2. CASE f # cvImageFileName
    BY <1>0, <1>2, <2>2 DEF WriteRef
  <2> QED BY <2>1, <2>2
<1>3. ~Restart
  BY <1>1 DEF Restart
<1>4. key \in Keys /\ Due /\ At("number") /\ WriteValue(key, cvKeyValue[key]) /\ Expected
  BY <1>1, <1>2, <1>3, EngineSteps DEF EngineStep, Due, engine, Expected
<1>5. cvIsValidImage /\ UNCHANGED cvImageFileName
  BY <1>4 DEF Due, Expected
<1>6. f = cvImageFileName
  BY <1>0, <1>4 DEF WriteValue
<1>7. k = key
  BY <1>0, <1>4, <1>5, <1>6, TagWritten DEF header
<1>8. disk'[f].ref[k] = header.ref[k]
  BY <1>0, <1>4, <1>5, <1>6, <1>7, TagWritten DEF header
<1> QED BY <1>4, <1>6, <1>7, <1>8

LEMMA SignedWriteStep ==
  ASSUME TypeInv, [Next]_vars
  PROVE  SignedWrite
<1> SUFFICES ASSUME NEW f \in Files, NEW k \in Keys,
                    disk'[f].value[k] # disk[f].value[k]
             PROVE  /\ f = cvImageFileName /\ ~Idle /\ k = key /\ cvEnabled[k]
                    /\ k \in Signed => disk'[f].ref[k] = SignOf(cvKeyValue[k])
  BY DEF SignedWrite
<1>1. /\ f = cvImageFileName /\ k = key /\ Due /\ At("number")
      /\ disk'[f].ref[k] = header.ref[k]
  BY ValueWriteStep
<1>2. saving.step = "number" /\ ~Idle
  BY <1>1 DEF At, Idle
<1>3. k \in Signed => header.ref[k] = SignOf(cvKeyValue[k])
  BY <1>1, <1>2 DEF TypeInv, EngineAndSave, SaveInProgress
<1>4. cvEnabled[k]
  BY <1>1 DEF Due
<1> QED BY <1>1, <1>2, <1>3, <1>4

\* A number is written only from the shown control that is being saved, into the
\* open file, and finds its sign there: no crash or failed write leaves a new
\* number under the sign of the old one.
THEOREM NumbersFollowTheirSign == Spec => NumberWithItsSign
<1>1. TypeInv /\ [Next]_vars => [SignedWrite]_vars
  BY SignedWriteStep
<1> QED BY <1>1, TypeInvInvariant, PTL DEF Spec, NumberWithItsSign, SignedWrite

-----------------------------------------------------------------------------
(* What the form falls back to.                                            *)

\* During a save as well, but for the control whose number is due: its sign is
\* in the file already.
Shows(k) == cvCachedValue[k] = ShownNumber(Read(k))

FallbackInv ==
  \A k \in Keys \ Zeroed :
    cvEnabled[k] /\ ~(At("number") /\ k = key) => Shows(k)

\* A write that changes neither the sign nor the value of k, and sets the flag
\* if at all, does not change what is read for k.
LEMMA SameReading ==
  ASSUME TypeInv, FlagInv, cvIsValidImage, UNCHANGED <<cvImageFileName, cvIsValidImage>>,
         UNCHANGED cvHasExpectedExif \/ cvHasExpectedExif',
         NEW k \in Keys \ Zeroed,
         header'.value[k] = header.value[k],
         k \in Signed => header'.ref[k] = header.ref[k]
  PROVE  Read(k)' = Read(k)
<1>1. Present(header', k) <=> Present(header, k)
  BY DEF Present
<1>2. Reading(header', k) = Reading(header, k)
  BY DEF Reading
<1>3. CASE UNCHANGED cvHasExpectedExif
  BY <1>1, <1>2, <1>3 DEF Read, ReadIn
<1>4. CASE ~cvHasExpectedExif /\ cvHasExpectedExif'
  <2>1. ~Present(header, k)
    BY <1>4 DEF FlagInv, NothingUnexpected, Present
  <2> QED BY <1>1, <1>4, <2>1 DEF Read, ReadIn
<1> QED BY <1>3, <1>4

\* During a save, what is read for a key changes by the steps that write it.
LEMMA OtherReadings ==
  ASSUME TypeInv, FlagInv, EngineStep, NEW k \in Keys \ Zeroed
  PROVE  \/ Read(k)' = Read(k)
         \/ Idle
         \/ k = key /\ (At("sign") \/ At("number"))
<1>0. EngineTypeOK
  BY DEF TypeInv, EngineAndSave
<1>1. CASE UNCHANGED <<disk, engine>>
  BY <1>1 DEF engine, Read, header
<1>2. ASSUME key \in Keys, Due, At("sign"),
             WriteRef(key, SignOf(cvKeyValue[key])), UNCHANGED engine, k # key
      PROVE  Read(k)' = Read(k)
  <2>1. cvIsValidImage /\ UNCHANGED <<cvIsValidImage, cvHasExpectedExif, cvImageFileName>>
    BY <1>2 DEF Due, engine
  <2>2. header'.value[k] = header.value[k] /\ header'.ref[k] = header.ref[k]
    BY <1>0, <1>2, <2>1, TagWritten
  <2> QED BY <2>1, <2>2, SameReading
<1>3. ASSUME key \in Keys, Due, At("number"),
             WriteValue(key, cvKeyValue[key]), Expected, k # key
      PROVE  Read(k)' = Read(k)
  <2>1. /\ cvIsValidImage /\ cvHasExpectedExif'
        /\ UNCHANGED <<cvIsValidImage, cvImageFileName>>
    BY <1>3 DEF Due, Expected
  <2>2. header'.value[k] = header.value[k] /\ header'.ref[k] = header.ref[k]
    BY <1>0, <1>3, <2>1, TagWritten
  <2> QED BY <2>1, <2>2, SameReading
<1>4. ASSUME key \in Keys, key \in WithUnits, cvIsValidImage,
             WriteRef(key, cvUnits[key]), Expected
      PROVE  Read(k)' = Read(k)
  <2>1. cvHasExpectedExif' /\ UNCHANGED <<cvIsValidImage, cvImageFileName>>
    BY <1>4 DEF Expected
  <2>2. /\ header'.value[k] = header.value[k]
        /\ k # key => header'.ref[k] = header.ref[k]
    BY <1>0, <1>4, <2>1, TagWritten
  <2>3. k \in Signed => k # key
    BY <1>4, KeysAssumption
  <2> QED BY <1>4, <2>1, <2>2, <2>3, SameReading
<1> QED BY <1>1, <1>2, <1>3, <1>4 DEF EngineStep

LEMMA FallbackStep ==
  ASSUME TypeInv, FlagInv, FallbackInv, [Next]_vars
  PROVE  FallbackInv'
<1> SUFFICES ASSUME NEW k \in Keys \ Zeroed, cvEnabled'[k], ~(At("number") /\ k = key)'
             PROVE  Shows(k)'
  BY DEF FallbackInv
\* The control is set to what is read after the step.
<1>s. ASSUME NEW S, NEW shown, ShowValue(S, shown), k \in S, k \in shown
      PROVE  Shows(k)'
  <2>1. cvCachedValue'[k] = ShownNumber(Read(k)')
    BY <1>s DEF ShowValue
  <2>2. ShownNumber(Read(k)') = ShownNumber(Read(k))'
    BY DEF ShownNumber
  <2> QED BY <2>1, <2>2 DEF Shows
\* Or neither the control nor what is read changes.
<1>u. ASSUME cvCachedValue'[k] = cvCachedValue[k], Read(k)' = Read(k), cvEnabled[k],
             ~(At("number") /\ k = key)
      PROVE  Shows(k)'
  <2>1. Shows(k)
    BY <1>u DEF FallbackInv
  <2> QED BY <1>u, <2>1 DEF Shows, ShownNumber
<1>1. CASE GuiAction
  <2>0. ~At("number") /\ Idle
    BY <1>1, GuiActionIsIdle DEF At, Idle
  <2>1. ASSUME NEW f \in Files \cup {NoFile}, LoadExifData(f) PROVE Shows(k)'
    <3>1. k \in {x \in Keys : cvEnabled[x]}
      BY <2>1 DEF LoadExifData
    <3> QED BY <2>1, <3>1, <1>s DEF LoadExifData
  <2>2. ASSUME UNCHANGED <<disk, engine>>, cvCachedValue'[k] = cvCachedValue[k], cvEnabled[k]
        PROVE  Shows(k)'
    <3>1. Read(k)' = Read(k)
      BY <2>2 DEF engine, Read, header
    <3> QED BY <2>0, <2>2, <3>1, <1>u
  <2>3. ASSUME NEW x \in Keys, Disable(x) PROVE Shows(k)'
    <3>1. cvEnabled[k]
      BY <2>3 DEF Disable
    <3> QED BY <2>2, <2>3, <3>1 DEF Disable, controls
  <2>4. ASSUME NEW x \in Keys, Enable(x) PROVE Shows(k)'
    <3> DEFINE on == Follow({x}, {y \in Keys : ~cvEnabled[y]})
    <3>1. ShowValue(on, on) /\ UNCHANGED <<disk, engine>>
      BY <2>4 DEF Enable
    <3>2. CASE k \in on
      BY <3>1, <3>2, <1>s
    <3>3. CASE k \notin on
      <4>1. cvEnabled[k]
        BY <2>4, <3>3 DEF Enable
      <4>2. cvCachedValue'[k] = cvCachedValue[k]
        BY <3>1, <3>3 DEF ShowValue
      <4> QED BY <3>1, <4>1, <4>2, <2>2
    <3> QED BY <3>2, <3>3
  <2>5. ASSUME NEW g \in Groups, ActivateGroup(g) PROVE Shows(k)'
    <3>1. k \in Follow(g, Keys)
      BY <2>5 DEF ActivateGroup
    <3> QED BY <2>5, <3>1, <1>s DEF ActivateGroup
  <2>6. ASSUME NEW x \in Keys, NEW t \in Typed,
               TypeText(x, t) \/ AcceptKeyValuePair(x, t)
        PROVE  Shows(k)'
    BY <2>2, <2>6 DEF TypeText, AcceptKeyValuePair, SetText
  <2>7. ASSUME NEW x \in Keys, Discard(x) PROVE Shows(k)'
    BY <2>2, <2>7 DEF Discard
  <2>8. CASE \E x \in Keys, u \in Units \cup {NoUnit} : SelectUnit(x, u)
    BY <2>2, <2>8 DEF SelectUnit
  <2> QED BY <1>1, <2>1, <2>3, <2>4, <2>5, <2>6, <2>7, <2>8 DEF GuiAction
<1>2. CASE SaveClicked
  <2>1. Read(k)' = Read(k)
    BY <1>2 DEF SaveClicked, engine, Read, header
  <2>2. ~At("number")
    BY <1>2 DEF SaveClicked, At, Idle
  <2> QED BY <1>2, <2>1, <2>2, <1>u DEF SaveClicked, controls
<1>3. CASE SaveStep
  <2>0. cvEnabled[k]
    BY <1>3 DEF SaveStep, SkipControl, CheckText, WriteSign, WriteNumber, WriteFails,
       WriteUnit, ReadBack
  <2>1. k # key => cvCachedValue'[k] = cvCachedValue[k]
    BY <1>3 DEF SaveStep, SkipControl, CheckText, WriteSign, WriteNumber, WriteFails,
       WriteUnit, ReadBack, ShowValue, controls
  <2>2. (~At("sign") /\ ~At("number")) \/ k # key => Read(k)' = Read(k)
    <3>1. ~Idle
      BY <1>3 DEF SaveStep, SkipControl, CheckText, WriteSign, WriteNumber, WriteFails,
         WriteUnit, At, Idle
    <3> QED BY <1>3, <3>1, SaveEngineSteps, OtherReadings
  <2>3. CASE k # key
    BY <2>0, <2>1, <2>2, <2>3, <1>u
  <2>4. CASE k = key
    <3>1. ASSUME ReadBack PROVE Shows(k)'
      BY <2>4, <3>1, <1>s DEF ReadBack
    <3>2. ASSUME SkipControl \/ WriteUnit PROVE Shows(k)'
      <4>1. ~At("sign") /\ ~At("number")
        BY <3>2 DEF SkipControl, WriteUnit, At
      <4> QED BY <2>0, <2>2, <3>2, <4>1, <1>u DEF SkipControl, WriteUnit, controls
    <3>3. ASSUME CheckText, ~ReadBack PROVE Shows(k)'
      <4>1. ~At("sign") /\ ~At("number") /\ UNCHANGED controls
        BY <3>3 DEF CheckText, At
      <4> QED BY <2>0, <2>2, <4>1, <1>u DEF controls
    <3>4. ASSUME WriteSign PROVE FALSE
      <4>1. saving \in Saving /\ Go("number")
        BY <3>4, AtFact DEF WriteSign, TypeInv, EngineAndSave
      <4>2. saving' \in Saving /\ saving'.step = "number" /\ key' = key
        BY <4>1, GoFact
      <4>3. saving' # NotSaving
        BY <4>2 DEF Saving, NotSaving
      <4>4. (At("number") /\ k = key)'
        BY <2>4, <4>2, <4>3 DEF At, NotSaving
      <4> QED BY <4>4
    <3> QED BY <1>3, <3>1, <3>2, <3>3, <3>4 DEF SaveStep, WriteNumber, WriteFails
  <2> QED BY <2>3, <2>4
<1>4. CASE Restart
  <2>1. cvCachedValue'[k] = Blank /\ cvIsValidImage' = FALSE
    BY <1>4 DEF Restart, Session
  <2> QED BY <2>1 DEF Shows, Read, ShownNumber
<1>5. CASE UNCHANGED vars
  <2>1. Read(k)' = Read(k) /\ (At("number") /\ k = key)' = (At("number") /\ k = key)
    BY <1>5 DEF vars, engine, Read, header, At, key
  <2> QED BY <1>5, <2>1, <1>u DEF vars, controls
<1> QED BY <1>1, <1>2, <1>3, <1>4, <1>5, NextCases

\* Between saves, the text an enabled control falls back to is what the file
\* holds for its key, keys that read as 0 when absent excepted.
THEOREM FormFallsBackToFile == Spec => []FallbackIsFile
<1>1. Init => FallbackInv
  BY DEF Init, FallbackInv, Shows, Read, ShownNumber
<1>2. TypeInv /\ FlagInv /\ FallbackInv /\ [Next]_vars => FallbackInv'
  BY FallbackStep
<1>3. FallbackInv => FallbackIsFile
  BY DEF FallbackInv, FallbackIsFile, Shows, At, Idle
<1> QED BY <1>1, <1>2, <1>3, TypeInvInvariant, FlagInvariant, PTL DEF Spec

-----------------------------------------------------------------------------
(* What a save creates.                                                    *)

\* A number about to be written for a key that the file lacks is not what its
\* control falls back to: that text is empty, and stays so while the sign is
\* written.
AbsentInv ==
  At("number") /\ key \notin Zeroed /\ header.value[key] = Absent
    => cvCachedValue[key] = Blank

LEMMA AbsentStep ==
  ASSUME TypeInv, FallbackInv, AbsentInv, [Next]_vars
  PROVE  AbsentInv'
<1> SUFFICES ASSUME At("number")', key' \notin Zeroed, header'.value[key'] = Absent
             PROVE  cvCachedValue'[key'] = Blank
  BY DEF AbsentInv
<1>0. EngineTypeOK /\ saving' # NotSaving /\ saving'.step = "number"
  BY DEF TypeInv, EngineAndSave, At
<1>1. CASE UNCHANGED vars
  BY <1>1 DEF vars, engine, controls, AbsentInv, At, key, header
<1>2. CASE GuiAction
  BY <1>0, <1>2, GuiActionIsIdle DEF Idle
<1>3. CASE SaveClicked
  BY <1>0, <1>3 DEF SaveClicked
<1>4. CASE Restart
  BY <1>0, <1>4 DEF Restart, Session
<1>5. CASE SaveStep
  <2>0. saving \in Saving /\ key \in Keys /\ cvIsValidImage \in BOOLEAN
    BY <1>5, AtFact DEF SaveStep, SkipControl, CheckText, WriteSign, WriteNumber,
       WriteFails, WriteUnit, TypeInv, EngineAndSave, EngineTypeOK
  <2>1. ~NextControl /\ ~Go("unit")
    BY <1>0, <2>0, NextControlFact, GoFact
  <2>2. CheckText \/ WriteSign
    BY <1>5, <2>1 DEF SaveStep, SkipControl, WriteNumber, WriteFails, WriteUnit, ReadBack
  <2>3. /\ cvEnabled[key] /\ ~At("number") /\ UNCHANGED <<engine, controls>>
        /\ key' = key /\ header'.value[key] = header.value[key]
    <3>1. CASE CheckText
      <4>1. /\ cvEnabled[key] /\ At("value") /\ UNCHANGED <<disk, engine, controls>>
            /\ Go(IF key \in Signed THEN "sign" ELSE "number")
        BY <2>1, <3>1 DEF CheckText, ReadBack
      <4>2. key' = key
        BY <2>0, <4>1, GoFact
      <4> QED BY <4>1, <4>2 DEF At, engine, header
    <3>2. CASE WriteSign
      <4>1. /\ At("sign") /\ Go("number") /\ UNCHANGED <<engine, controls>>
            /\ WriteRef(key, SignOf(cvKeyValue[key]))
        BY <3>2 DEF WriteSign
      <4>2. Due /\ key' = key
        BY <2>0, <4>1, GoFact DEF At, Idle, TypeInv, EngineAndSave, SaveInProgress
      <4>3. header'.value[key] = header.value[key]
        BY <1>0, <2>0, <4>1, <4>2, TagWritten DEF Due, engine
      <4> QED BY <4>1, <4>2, <4>3 DEF At, Due
    <3> QED BY <2>2, <3>1, <3>2
  <2>4. ~Present(header, key)
    BY <2>3 DEF Present
  <2>5. Read(key) = Invalid
    BY <2>3, <2>4 DEF Read, ReadIn
  <2>6. cvCachedValue[key] = ShownNumber(Read(key))
    BY <2>0, <2>3 DEF FallbackInv, Shows
  <2> QED BY <2>3, <2>5, <2>6 DEF ShownNumber, controls
<1> QED BY <1>1, <1>2, <1>3, <1>4, <1>5, NextCases

OnlyEdited ==
  \A f \in Files, k \in Keys \ Zeroed :
    disk[f].value[k] = Absent /\ disk'[f].value[k] # Absent =>
      cvKeyValue[k] # cvCachedValue[k]

LEMMA OnlyEditedStep ==
  ASSUME TypeInv, AbsentInv, [Next]_vars
  PROVE  OnlyEdited
<1> SUFFICES ASSUME NEW f \in Files, NEW k \in Keys \ Zeroed,
                    disk[f].value[k] = Absent, disk'[f].value[k] # Absent
             PROVE  cvKeyValue[k] # cvCachedValue[k]
  BY DEF OnlyEdited
<1>1. f = cvImageFileName /\ k = key /\ Due /\ At("number")
  BY ValueWriteStep
<1>2. cvCachedValue[k] = Blank
  BY <1>1 DEF AbsentInv, header
<1>3. cvKeyValue[k] \in Int /\ Blank \notin Int
  BY <1>1, NumbersAssumption, EditorAssumption DEF Due
<1> QED BY <1>2, <1>3

\* A save gives a picture no number that nobody edited: one appears only from a
\* control whose text is not the one it falls back to, for any keys and units,
\* after failed and partial writes and crashes as well.
THEOREM NothingIsInvented == Spec => OnlyEditsAreCreated
<1>1. Init => FallbackInv /\ AbsentInv
  BY DEF Init, FallbackInv, Shows, Read, ShownNumber, AbsentInv, At
<1>2. TypeInv /\ FlagInv /\ FallbackInv /\ AbsentInv /\ [Next]_vars
        => FallbackInv' /\ AbsentInv'
  BY FallbackStep, AbsentStep
<1>3. TypeInv /\ AbsentInv /\ [Next]_vars => [OnlyEdited]_vars
  BY OnlyEditedStep
<1> QED BY <1>1, <1>2, <1>3, TypeInvInvariant, FlagInvariant, PTL
        DEF Spec, OnlyEditsAreCreated, OnlyEdited
=============================================================================
