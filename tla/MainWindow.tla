----------------------------- MODULE MainWindow -----------------------------
(***************************************************************************)
(* EgtMainWindow as the client of its image factory: a click in the file   *)
(* browser asks the factory for the file, and the slot of imageLoaded()    *)
(* draws the preview.                                                      *)
(*                                                                         *)
(* imageLoaded() is emitted by the GUI thread, so its slot runs inside the *)
(* code that emits it: while it does, the window is not idle and neither   *)
(* the user nor the event loop acts.  The reader's thread may.             *)
(***************************************************************************)
EXTENDS ImageFactory

VARIABLES
  labelPreview,   \* the picture the preview label shows
  window          \* "idle", or "loading" while loadPreview() runs

mainVars == <<vars, labelPreview, window>>

MainTypeOK ==
  TypeOK /\ labelPreview \in Images /\ window \in {"idle", "loading"}

MainInit == Init /\ labelPreview = NoImage /\ window = "idle"

\* imageLoaded() is emitted: the slot starts before the emitter goes on.
MainEmitted == window' = IF answered' # answered THEN "loading" ELSE window

\* The user clicks an entry of the file browser.  buildPath() gives a root
\* entry an empty name.
Clicked(f) ==
  /\ window = "idle"
  /\ SetFile(f)
  /\ MainEmitted
  /\ UNCHANGED labelPreview

\* The rest of a click that had to wait, and the factory's own slots.
MainFactoryStep ==
  /\ window = "idle"
  /\ EventLoop
  /\ MainEmitted
  /\ UNCHANGED labelPreview

MainReaderStep == Run /\ UNCHANGED <<labelPreview, window>>

\* Mutant of LoadPreview: the scaled image of the last call is drawn.
LoadPreviewOld ==
  /\ window = "loading"
  /\ window' = "idle"
  /\ IF cvIsValidImage
       THEN ScaleImage /\ labelPreview' = cvResizedImage
       ELSE UNCHANGED <<vars, labelPreview>>

\* loadPreview(): an image that did not load leaves the label as it was.
LoadPreview ==
  /\ window = "loading"
  /\ window' = "idle"
  /\ IF cvIsValidImage
       THEN ScaleImage /\ labelPreview' = cvResizedImage'
       ELSE UNCHANGED <<vars, labelPreview>>

MainExit == window = "idle" /\ Destroy /\ UNCHANGED <<labelPreview, window>>

MainNext ==
  (\E f \in Files : Clicked(f)) \/ MainFactoryStep \/ LoadPreview \/ MainExit
    \/ MainReaderStep

MainFairness ==
  /\ WF_mainVars(MainFactoryStep)
  /\ WF_mainVars(LoadPreview)
  /\ WF_mainVars(MainReaderStep)

MainSafeSpec == MainInit /\ [][MainNext]_mainVars
MainSpec == MainSafeSpec /\ MainFairness

-----------------------------------------------------------------------------
(* Properties.                                                             *)

\* Once everything is answered and drawn, the preview belongs to the selected
\* file whenever that file is a valid image, if the last click overtook
\* none: what the user sees is what a plugin started now works on (clicked(),
\* loadPreview()).
PreviewOfSelection ==
  /\ clean /\ asked = answered /\ gui = "idle" /\ window = "idle"
  /\ cvIsValidImage
  => labelPreview = Whole(cvFileName)

\* Every click is followed by a preview that is drawn or left alone, and the
\* window takes the next click, unless the program was left.
WindowIdles ==
  (gui # "idle" \/ window # "idle") ~> (gui \in {"idle", "gone"} /\ window = "idle")

=============================================================================
