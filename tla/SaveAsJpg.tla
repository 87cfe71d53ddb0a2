------------------------------ MODULE SaveAsJpg ------------------------------
(***************************************************************************)
(* EgtSaveAsJpg, a plugin with an image factory of its own.  run() asks    *)
(* the factory for the selected file; the slot of imageLoaded() saves the  *)
(* picture under a name that is not taken and copies the EXIF header of    *)
(* the factory's file into it.                                             *)
(*                                                                         *)
(* A target is a pair: <<s, 1>> stands for the name s.jpg, <<s, n>> for    *)
(* s( n ).jpg.                                                             *)
(***************************************************************************)
EXTENDS ImageFactory

CONSTANTS
  Stems,  \* names without what follows their last point
  Stem,   \* the name of a file up to its last point
  Taken,  \* the stems s for which a file s.jpg is there from the start
  Bare    \* no EXIF header

ASSUME StemAssumption ==
  /\ Stem \in [Files -> Stems]
  /\ Taken \subseteq Stems /\ IsFiniteSet(Taken)
  /\ Bare \notin Files

VARIABLES
  cvCurrentIndex,   \* the file last selected in the browser
  fresh,            \* the browser's model was not refreshed since
  plugin,           \* "idle", in the slot ("loaded", "copying"), or "dead"
  console,          \* the last line of the output console
  target,           \* the name being written
  disk,             \* what was saved, by target
  wanted            \* history: what was selected at the last run(); NoName
                    \* if the selection had no meaning any more

saver == <<cvCurrentIndex, fresh, plugin, console, target, disk, wanted>>
saveVars == <<vars, saver>>

Outcomes == {"invalid", "not writable", "failed", "done"}

\* A saved picture: its pixels and the file its EXIF header came from; what
\* was wanted, and whether the run overtook no other (history).
Saved == [pixels : Images, exif : Files \cup {Bare}, wanted : Files,
          sure : BOOLEAN]

Targets == Stems \X (Nat \ {0})

SaveTypeOK ==
  /\ TypeOK
  /\ cvCurrentIndex \in Files /\ wanted \in Files /\ fresh \in BOOLEAN
  /\ plugin \in {"idle", "loaded", "copying", "dead"}
  /\ console \in {"empty", "processing", "saving"} \cup Outcomes
  /\ target \in Targets
  /\ DOMAIN disk \subseteq Targets
  /\ \A t \in DOMAIN disk : disk[t] \in Saved

\* A picture of somebody else.
Foreign == [pixels |-> NoImage, exif |-> NoName, wanted |-> NoName,
            sure |-> FALSE]

SaveInit ==
  /\ Init
  /\ cvCurrentIndex = NoName /\ wanted = NoName /\ fresh = TRUE
  /\ plugin = "idle" /\ console = "empty"
  /\ target = <<Stem[NoName], 1>>
  /\ disk = [t \in Taken \X {1} |-> Foreign]

-----------------------------------------------------------------------------

\* indexSelected() of the application interface.
SetIndex(f) ==
  /\ gui = "idle" /\ plugin = "idle"
  /\ cvCurrentIndex' = f
  /\ fresh' = TRUE
  /\ UNCHANGED <<vars, plugin, console, target, disk, wanted>>

\* Another plugin, the CSV export, was run and refreshes the browser.
RefreshFileBrowser ==
  /\ gui = "idle" /\ plugin = "idle"
  /\ fresh' = FALSE
  /\ UNCHANGED <<vars, cvCurrentIndex, plugin, console, target, disk, wanted>>

\* imageLoaded() is emitted: the slot starts before the emitter goes on.
SaveEmitted == plugin' = IF answered' # answered THEN "loaded" ELSE plugin

\* run().  The selection is a QModelIndex; a refresh of the model leaves it
\* without meaning, unless it is the invalid one the plugin starts with.
RunPlugin ==
  /\ plugin = "idle"
  /\ console' = "processing"
  /\ \E f \in Files :
       /\ fresh \/ cvCurrentIndex = NoName => f = cvCurrentIndex
       /\ SetFile(f)
  /\ wanted' = IF fresh THEN cvCurrentIndex ELSE NoName
  /\ SaveEmitted
  /\ UNCHANGED <<cvCurrentIndex, fresh, target, disk>>

SaveFactoryStep ==
  /\ plugin = "idle"
  /\ EventLoop
  /\ SaveEmitted
  /\ UNCHANGED <<cvCurrentIndex, fresh, console, target, disk, wanted>>

SaveReaderStep == plugin # "dead" /\ Run /\ UNCHANGED saver

-----------------------------------------------------------------------------
(* The slot imageLoaded().                                                 *)

\* Mutant of Refuse: it returns without a word.
RefuseSilently(line) ==
  /\ plugin = "loaded"
  /\ plugin' = "idle"
  /\ UNCHANGED <<vars, cvCurrentIndex, fresh, console, target, disk, wanted>>

\* It ends without a picture.
Refuse(line) ==
  /\ plugin = "loaded"
  /\ plugin' = "idle"
  /\ console' = line
  /\ UNCHANGED <<vars, cvCurrentIndex, fresh, target, disk, wanted>>

\* Mutant of NewName: the names with a number are not looked up.
NewNameUnchecked(s) ==
  IF <<s, 1>> \notin DOMAIN disk THEN <<s, 1>> ELSE <<s, 2>>

\* Mutant of NewName: the numbers begin with 0.
NewNameFromZero(s) ==
  IF <<s, 1>> \notin DOMAIN disk THEN <<s, 1>>
  ELSE <<s, CHOOSE n \in 0..Cardinality(DOMAIN disk) : <<s, n>> \notin DOMAIN disk>>

\* The first name that does not exist: s.jpg, s( 2 ).jpg, s( 3 ).jpg ...
NewName(s) ==
  IF <<s, 1>> \notin DOMAIN disk THEN <<s, 1>>
  ELSE <<s, CHOOSE n \in 2..Cardinality(DOMAIN disk) + 2 :
              /\ <<s, n>> \notin DOMAIN disk
              /\ \A i \in 2..n - 1 : <<s, i>> \in DOMAIN disk>>

\* A file of that name is there now, and the browser shows it.
Write(picture) ==
  LET t == NewName(Stem[cvFileName]) IN
  /\ target' = t
  /\ disk' = [u \in DOMAIN disk \cup {t} |-> IF u = t THEN picture ELSE disk[u]]

Picture(pixels, whole) ==
  [pixels |-> pixels, exif |-> Bare, wanted |-> wanted, sure |-> clean /\ whole]

\* saveOriginalImageAsJpeg() succeeds, and the browser is refreshed.
SavePicture ==
  /\ plugin = "loaded"
  /\ cvIsValidImage /\ cvOriginalImage # NoImage
  /\ Write(Picture(cvOriginalImage, TRUE))
  /\ fresh' = FALSE
  /\ plugin' = "copying" /\ console' = "saving"
  /\ UNCHANGED <<vars, cvCurrentIndex, wanted>>

\* It breaks off, and leaves what was written.
SaveBreaksOff ==
  /\ plugin = "loaded"
  /\ cvIsValidImage /\ cvOriginalImage # NoImage
  /\ Write(Picture(NoImage, FALSE))
  /\ plugin' = "idle" /\ console' = "failed"
  /\ UNCHANGED <<vars, cvCurrentIndex, fresh, wanted>>

ImageLoaded ==
  \/ ~cvIsValidImage /\ Refuse("invalid")
  \/ cvIsValidImage /\ Refuse("not writable")
  \/ cvIsValidImage /\ Refuse("failed")
  \/ SavePicture \/ SaveBreaksOff

\* Mutant of CopyExif: what cannot be copied is passed over.
CopyExifOrNot ==
  /\ plugin = "copying"
  /\ disk' \in {disk, [disk EXCEPT ![target].exif = cvFileName]}
  /\ plugin' = "idle" /\ console' = "done"
  /\ UNCHANGED <<vars, cvCurrentIndex, fresh, target, wanted>>

\* Mutant of CopyExif: the header of the selected file is copied.
CopyExifOfSelection ==
  /\ plugin = "copying"
  /\ disk' = [disk EXCEPT ![target].exif = cvCurrentIndex]
  /\ plugin' = "idle" /\ console' = "done"
  /\ UNCHANGED <<vars, cvCurrentIndex, fresh, target, wanted>>

\* The header is copied from the factory's current file.
CopyExif ==
  /\ plugin = "copying"
  /\ disk' = [disk EXCEPT ![target].exif = cvFileName]
  /\ plugin' = "idle" /\ console' = "done"
  /\ UNCHANGED <<vars, cvCurrentIndex, fresh, target, wanted>>

\* Exiv2 throws, in a slot: nobody catches it, and the program ends.
Throw ==
  /\ plugin = "copying"
  /\ plugin' = "dead"
  /\ UNCHANGED <<vars, cvCurrentIndex, fresh, console, target, disk, wanted>>

\* The user leaves the program.
SaveExit == plugin = "idle" /\ Destroy /\ UNCHANGED saver

SaveNext ==
  \/ \E f \in Files : SetIndex(f)
  \/ RefreshFileBrowser
  \/ RunPlugin \/ SaveFactoryStep \/ SaveReaderStep
  \/ ImageLoaded \/ CopyExif \/ Throw \/ SaveExit

SaveSafeSpec == SaveInit /\ [][SaveNext]_saveVars

\* The GUI thread goes on with a slot it has begun, and handles its events;
\* the reader's thread is scheduled.
SaveSpec ==
  /\ SaveSafeSpec
  /\ WF_saveVars(SaveFactoryStep) /\ WF_saveVars(SaveReaderStep)
  /\ WF_saveVars(ImageLoaded) /\ WF_saveVars(CopyExif \/ Throw)

-----------------------------------------------------------------------------
(* Properties.                                                             *)

\* A picture saved by a run that overtook no other shows, whole, the file
\* whose EXIF header it got or is about to get, has that file's name, and that
\* is the file that was selected when run() was called, whatever was selected
\* since (imageLoaded() works with the factory's file name throughout).
ExportedPicture ==
  \A t \in DOMAIN disk : disk[t].sure =>
    LET f == IF disk[t].exif = Bare THEN cvFileName ELSE disk[t].exif IN
    /\ disk[t].pixels = Whole(f)
    /\ t[1] = Stem[f]
    /\ disk[t].wanted # NoName => f = disk[t].wanted

\* A picture without its EXIF header is the one being written, or the one the
\* program died over: nothing else stops between the two writes.
BareIsLast ==
  \A t \in DOMAIN disk : disk[t].exif = Bare /\ disk[t].pixels # NoImage =>
    t = target /\ plugin \in {"copying", "dead"}

\* What is on the disk stays as it is, except that the picture just saved gets
\* its header: what the user guide calls collision proof.
NothingOverwritten ==
  [][\A t \in DOMAIN disk :
       /\ t \in DOMAIN disk'
       /\ disk'[t] # disk[t] =>
            /\ t = target /\ disk[t].exif = Bare
            /\ disk'[t].pixels = disk[t].pixels]_saveVars

\* Every run ends with a line that tells how, unless the program was left.
RunReported ==
  console = "processing" ~> (console \in Outcomes \/ plugin = "dead" \/ gui = "gone")

=============================================================================
