---------------------------- MODULE ImageFactory ----------------------------
(***************************************************************************)
(* EgtImageFactory and its EgtRawImageReader.                              *)
(*                                                                         *)
(* The factory lives in the GUI thread.  setFile() opens a JPEG or a TIFF  *)
(* synchronously, and hands every other file to the reader, a QThread that *)
(* decodes it with LibRaw.  The reader's signals are emitted in its own    *)
(* thread, so they reach the factory as posted events, which the GUI's     *)
(* event loop delivers in order, at some later time.                       *)
(*                                                                         *)
(* Members of the two objects keep the source's names; a name both classes *)
(* use has the prefix rd for the reader's.                                 *)
(***************************************************************************)
EXTENDS Integers, Sequences, FiniteSets

CONSTANTS
  RawFiles,        \* names of files LibRaw is asked to decode
  FlatFiles,       \* names ending in jpg, jpeg, tif or tiff
  Directories,     \* names of directories
  NoName,          \* the empty name: an invalid index, a cancelled file dialog
  NoImage,         \* the null QImage
  Rows,            \* height of a decoded raw image, in blocks of rows
  MemImageColors,  \* channel counts LibRaw's memory images may have
  MaxRequests      \* bound on the calls of setFile()

Files == RawFiles \cup FlatFiles \cup Directories \cup {NoName}

ASSUME FilesAssumption ==
  /\ RawFiles \cap FlatFiles = {}
  /\ Directories \cap (RawFiles \cup FlatFiles) = {}
  /\ NoName \notin RawFiles \cup FlatFiles \cup Directories

ASSUME BoundsAssumption ==
  /\ Rows \in Nat \ {0}
  /\ MemImageColors \subseteq Nat
  /\ MaxRequests \in Nat

\* What an image shows: the file it was decoded from, and whether all of its
\* pixels were set.
Pixels == [of : Files, whole : BOOLEAN]
Images == Pixels \cup {NoImage}

ASSUME ImageAssumption == NoImage \notin Pixels

VARIABLES
  \* EgtImageFactory
  cvFileName, cvOriginalImage, cvResizedImage, cvIsValidImage,
  cvHasBeenResized, cvIsProcessing,
  gui,             \* where the GUI thread is, in the code of the factory
  slotLoaded,      \* what image() read of cvImageLoaded, in rawImageLoaded()
  bar,             \* the last progress() signal emitted by the factory
  \* EgtRawImageReader
  cvAbort, rdFileName, rdImage, cvImageLoaded, cvIsInitialized,
  thread,          \* where run() is; "idle" when the thread is not running
  row,             \* rows of the image whose pixels are set
  \* the event queue of the GUI thread, as far as the reader posts to it
  posted,
  \* history: setFile() calls, imageLoaded() signals, and whether the last
  \* call of setFile() found every earlier one answered
  asked, answered, clean

factory == <<cvFileName, cvOriginalImage, cvResizedImage, cvIsValidImage,
             cvHasBeenResized, cvIsProcessing>>
reader  == <<rdFileName, rdImage, cvImageLoaded, cvIsInitialized>>
history == <<asked, answered, clean>>
vars == <<factory, gui, slotLoaded, bar, cvAbort, reader, thread, row, posted,
          history>>

-----------------------------------------------------------------------------
(* The values of the variables.                                            *)

\* progress( 0, 0, 0 ), ( 0, 1, 0 ), ( 0, n, i ) and ( 0, n, n )
Bars == {"busy", "start", "row", "full"}

ProgressEvents == [sig : {"progress"}, value : Bars]
FinishedEvents == [sig : {"finished"}, value : BOOLEAN]
Events == ProgressEvents \cup FinishedEvents

Progress(v) == [sig |-> "progress", value |-> v]
Finished(b) == [sig |-> "finished", value |-> b]

Decoding  == {"open", "unpack", "process", "memimage", "bitmap", "rows"}
Unreported == {"begin", "loaded", "failed"} \cup Decoding
Threads == {"idle", "cleanup"} \cup Unreported
Guis == {"idle", "waiting", "copying", "recycling", "closing", "gone"}

isRunning == thread # "idle"

TypeOK ==
  /\ cvFileName \in Files /\ rdFileName \in Files
  /\ cvOriginalImage \in Images /\ cvResizedImage \in Images
  /\ rdImage \in Images
  /\ cvIsValidImage \in BOOLEAN /\ cvHasBeenResized \in BOOLEAN
  /\ cvIsProcessing \in BOOLEAN /\ slotLoaded \in BOOLEAN
  /\ cvAbort \in BOOLEAN /\ cvImageLoaded \in BOOLEAN
  /\ cvIsInitialized \in BOOLEAN
  /\ gui \in Guis /\ bar \in Bars /\ thread \in Threads
  /\ row \in 0..Rows
  /\ posted \in Seq(Events)
  /\ asked \in Nat /\ answered \in Nat /\ clean \in BOOLEAN

\* The constructors; init() leaves cvIsProcessing unset.
Init ==
  /\ cvFileName = NoName /\ cvOriginalImage = NoImage
  /\ cvResizedImage = NoImage
  /\ cvIsValidImage = FALSE /\ cvHasBeenResized = FALSE
  /\ cvIsProcessing \in BOOLEAN
  /\ gui = "idle" /\ slotLoaded = FALSE /\ bar = "start"
  /\ cvAbort = FALSE /\ rdFileName = NoName /\ rdImage = NoImage
  /\ cvImageLoaded = FALSE /\ cvIsInitialized = FALSE
  /\ thread = "idle" /\ row = 0
  /\ posted = <<>>
  /\ asked = 0 /\ answered = 0 /\ clean = TRUE

-----------------------------------------------------------------------------
(* The GUI thread: setFile().                                              *)

\* readJpeg() and readTiff(): the image is read before setFile() returns.
ReadFlat(f) ==
  /\ f \in FlatFiles
  /\ \E image \in {NoImage, [of |-> f, whole |-> TRUE]} :
        /\ cvOriginalImage' = image
        /\ cvIsValidImage' = (image # NoImage)
  /\ cvIsProcessing' = FALSE
  /\ bar' = "full"
  /\ answered' = answered + 1
  /\ UNCHANGED <<cvAbort, reader, thread>>

\* readRaw(): EgtRawImageReader::setFile() and start().  An empty name leaves
\* the reader uninitialized, and its abort flag as it was.
ReadRaw(f) ==
  /\ f \in RawFiles \cup {NoName}
  /\ cvIsValidImage' = FALSE
  /\ cvIsProcessing' = TRUE
  /\ cvOriginalImage' = NoImage
  /\ bar' = "busy"
  /\ rdFileName' = f
  /\ cvIsInitialized' = (cvIsInitialized \/ f # NoName)
  /\ cvAbort' = (cvAbort /\ f = NoName)
  /\ thread' = "begin"
  /\ UNCHANGED <<rdImage, cvImageLoaded, answered>>

BailOut(f) ==
  /\ f \in Directories
  /\ cvIsValidImage' = FALSE
  /\ answered' = answered + 1
  /\ UNCHANGED <<cvOriginalImage, cvIsProcessing, bar, cvAbort, reader, thread>>

\* Mutant of OpenFile: the scaled image of the last file stays handed out.
OpenFileKeepingResized(f) ==
  /\ ReadFlat(f) \/ ReadRaw(f) \/ BailOut(f)
  /\ gui' = "idle"
  /\ UNCHANGED <<cvHasBeenResized, cvResizedImage, slotLoaded, row, posted>>

\* setFile() from the line that resets the flags to its end.
OpenFile(f) ==
  /\ cvHasBeenResized' = FALSE
  /\ ReadFlat(f) \/ ReadRaw(f) \/ BailOut(f)
  /\ gui' = "idle"
  /\ UNCHANGED <<cvResizedImage, slotLoaded, row, posted>>

\* Mutant of SetFile: the reader is told to abort but not waited for.
SetFileNoWait(f) ==
  /\ gui = "idle"
  /\ asked < MaxRequests
  /\ cvFileName' = f
  /\ asked' = asked + 1
  /\ clean' = (asked = answered)
  /\ OpenFile(f)

\* setFile() is called: at once if the reader is at rest, otherwise the call
\* asks the reader to abort and blocks the GUI thread until it has stopped.
SetFile(f) ==
  /\ gui = "idle"
  /\ asked < MaxRequests
  /\ cvFileName' = f
  /\ asked' = asked + 1
  /\ clean' = (asked = answered)
  /\ \/ /\ ~isRunning
        /\ OpenFile(f)
     \/ /\ isRunning
        /\ cvAbort' = TRUE
        /\ gui' = "waiting"
        /\ UNCHANGED <<cvOriginalImage, cvResizedImage, cvIsValidImage,
                       cvHasBeenResized, cvIsProcessing, slotLoaded, bar,
                       reader, thread, row, posted, answered>>

\* The wait loop of setFile() is left, and the call goes on.
WaitDone ==
  /\ gui = "waiting"
  /\ ~isRunning
  /\ OpenFile(cvFileName)
  /\ UNCHANGED <<cvFileName, asked, clean>>

-----------------------------------------------------------------------------
(* The GUI thread: scaleImage(), the reader's signals, the destructor.     *)

\* A client scales the image: the preview of the main window, or the resize
\* event of the synchronize dialog.
ScaleImage ==
  /\ gui = "idle"
  /\ cvIsValidImage
  /\ cvResizedImage' = cvOriginalImage
  /\ cvHasBeenResized' = (cvOriginalImage # NoImage)
  /\ UNCHANGED <<cvFileName, cvOriginalImage, cvIsValidImage, cvIsProcessing,
                 gui, slotLoaded, bar, cvAbort, reader, thread, row, posted,
                 history>>

ReEmitProgress ==
  /\ gui = "idle"
  /\ posted # <<>>
  /\ Head(posted).sig = "progress"
  /\ bar' = Head(posted).value
  /\ posted' = Tail(posted)
  /\ UNCHANGED <<factory, gui, slotLoaded, cvAbort, reader, thread, row, history>>

\* rawImageLoaded() runs beside the reader's thread, which may already work
\* for a later call of setFile().  It is three steps: up to the test in
\* image(), the copy of the image, and recycle() with the signal.
RawImageLoaded ==
  /\ gui = "idle"
  /\ posted # <<>>
  /\ Head(posted).sig = "finished"
  /\ cvIsProcessing' = FALSE
  /\ cvIsValidImage' = Head(posted).value
  /\ posted' = Tail(posted)
  /\ slotLoaded' = cvImageLoaded
  /\ gui' = "copying"
  /\ UNCHANGED <<cvFileName, cvOriginalImage, cvResizedImage, cvHasBeenResized,
                 bar, cvAbort, reader, thread, row, history>>

CopyImage ==
  /\ gui = "copying"
  /\ cvOriginalImage' = IF slotLoaded THEN rdImage ELSE NoImage
  /\ gui' = "recycling"
  /\ UNCHANGED <<cvFileName, cvResizedImage, cvIsValidImage, cvHasBeenResized,
                 cvIsProcessing, slotLoaded, bar, cvAbort, reader, thread, row,
                 posted, history>>

\* Mutant of Recycle: the signal is emitted only if the reader was at rest.
RecycleIdle ==
  /\ gui = "recycling"
  /\ rdImage' = IF isRunning THEN rdImage ELSE NoImage
  /\ answered' = IF isRunning THEN answered ELSE answered + 1
  /\ gui' = "idle"
  /\ UNCHANGED <<factory, slotLoaded, bar, cvAbort, rdFileName, cvImageLoaded,
                 cvIsInitialized, thread, row, posted, asked, clean>>

Recycle ==
  /\ gui = "recycling"
  /\ rdImage' = IF isRunning THEN rdImage ELSE NoImage
  /\ answered' = answered + 1
  /\ gui' = "idle"
  /\ UNCHANGED <<factory, slotLoaded, bar, cvAbort, rdFileName, cvImageLoaded,
                 cvIsInitialized, thread, row, posted, asked, clean>>

\* The destructor aborts a running reader and waits for it.
Destroy ==
  /\ gui = "idle"
  /\ gui' = IF isRunning THEN "closing" ELSE "gone"
  /\ cvAbort' = (cvAbort \/ isRunning)
  /\ UNCHANGED <<factory, slotLoaded, bar, reader, thread, row, posted, history>>

DestroyDone ==
  /\ gui = "closing"
  /\ ~isRunning
  /\ gui' = "gone"
  /\ UNCHANGED <<factory, slotLoaded, bar, cvAbort, reader, thread, row, posted,
                 history>>

-----------------------------------------------------------------------------
(* The reader's thread.                                                    *)

\* The variables only the GUI thread writes.
guiSide == <<factory, gui, slotLoaded, bar, cvAbort, rdFileName, history>>

Begin ==
  /\ thread = "begin"
  /\ cvImageLoaded' = FALSE
  /\ thread' = IF cvIsInitialized THEN "open" ELSE "failed"
  /\ UNCHANGED <<guiSide, rdImage, cvIsInitialized, row, posted>>

\* Every stage of processRaw() first tests the abort flag.
Aborted ==
  /\ thread \in Decoding
  /\ cvAbort
  /\ thread = "rows" => row < Rows
  /\ thread' = "failed"
  /\ UNCHANGED <<guiSide, reader, row, posted>>

\* open_file(), unpack() and dcraw_process() succeed or return an error.
Stage(at, next) ==
  /\ thread = at
  /\ ~cvAbort
  /\ thread' \in {next, "failed"}
  /\ UNCHANGED <<guiSide, reader, row, posted>>

\* dcraw_make_mem_image() and the allocation of cvImage.  The pixels of a new
\* QImage are not initialized.
MakeImage ==
  /\ thread = "memimage"
  /\ ~cvAbort
  /\ \/ /\ thread' = "failed"                  \* no memory image
        /\ UNCHANGED rdImage
     \/ /\ thread' = "failed"                  \* cvImage.isNull( )
        /\ rdImage' = NoImage
     \/ /\ thread' \in {"bitmap", "failed"}    \* failed: an embedded JPEG
        /\ rdImage' = [of |-> rdFileName, whole |-> FALSE]
  /\ row' = 0
  /\ UNCHANGED <<guiSide, cvImageLoaded, cvIsInitialized, posted>>

\* Only an image of three channels is copied.
Bitmap ==
  /\ thread = "bitmap"
  /\ ~cvAbort
  /\ \E colors \in MemImageColors :
        thread' = IF colors = 3 THEN "rows" ELSE "loaded"
  /\ UNCHANGED <<guiSide, reader, row, posted>>

\* Mutant of CopyRow: lvY <= height.
CopyRowPastEnd ==
  /\ thread = "rows"
  /\ ~cvAbort
  /\ row' = row + 1
  /\ rdImage' = [of |-> rdFileName, whole |-> (row + 1 = Rows)]
  /\ posted' = Append(posted, Progress("row"))
  /\ UNCHANGED <<guiSide, cvImageLoaded, cvIsInitialized, thread>>

CopyRow ==
  /\ thread = "rows"
  /\ row < Rows
  /\ ~cvAbort
  /\ row' = row + 1
  /\ rdImage' = [of |-> rdFileName, whole |-> (row + 1 = Rows)]
  /\ posted' = Append(posted, Progress("row"))
  /\ UNCHANGED <<guiSide, cvImageLoaded, cvIsInitialized, thread>>

RowsDone ==
  /\ thread = "rows"
  /\ row = Rows
  /\ posted' = Append(posted, Progress("full"))
  /\ thread' = "loaded"
  /\ UNCHANGED <<guiSide, reader, row>>

\* Mutants of Report: an aborted run reports nothing; the bar is not reset;
\* the signals wait for their slots (a blocking connection).
ReportSuccess ==
  /\ thread \in {"loaded", "failed"}
  /\ cvImageLoaded' = (thread = "loaded")
  /\ posted' = IF thread = "loaded"
               THEN posted \o <<Progress("start"), Finished(TRUE)>> ELSE posted
  /\ thread' = "cleanup"
  /\ UNCHANGED <<guiSide, rdImage, cvIsInitialized, row>>

ReportNoReset ==
  /\ thread \in {"loaded", "failed"}
  /\ cvImageLoaded' = (thread = "loaded")
  /\ posted' = Append(posted, Finished(thread = "loaded"))
  /\ thread' = "cleanup"
  /\ UNCHANGED <<guiSide, rdImage, cvIsInitialized, row>>

ReportBlocking ==
  /\ thread \in {"loaded", "failed"}
  /\ gui = "idle"
  /\ cvImageLoaded' = (thread = "loaded")
  /\ posted' = posted \o <<Progress("start"), Finished(thread = "loaded")>>
  /\ thread' = "cleanup"
  /\ UNCHANGED <<guiSide, rdImage, cvIsInitialized, row>>

\* run() emits its two last signals; the thread is still running after them.
Report ==
  /\ thread \in {"loaded", "failed"}
  /\ cvImageLoaded' = (thread = "loaded")
  /\ posted' = posted \o <<Progress("start"), Finished(thread = "loaded")>>
  /\ thread' = "cleanup"
  /\ UNCHANGED <<guiSide, rdImage, cvIsInitialized, row>>

CleanUp ==
  /\ thread = "cleanup"
  /\ cvIsInitialized' = FALSE
  /\ thread' = "idle"
  /\ UNCHANGED <<guiSide, rdImage, cvImageLoaded, row, posted>>

-----------------------------------------------------------------------------

User == (\E f \in Files : SetFile(f)) \/ ScaleImage \/ Destroy

EventLoop ==
  \/ WaitDone \/ ReEmitProgress \/ RawImageLoaded \/ CopyImage \/ Recycle
  \/ DestroyDone

Run ==
  \/ Begin \/ Aborted
  \/ Stage("open", "unpack") \/ Stage("unpack", "process")
  \/ Stage("process", "memimage")
  \/ MakeImage \/ Bitmap \/ CopyRow \/ RowsDone \/ Report \/ CleanUp

Next == User \/ EventLoop \/ Run

\* The operating system runs the reader's thread; the GUI thread returns to
\* its event loop.  Nothing obliges the user.
Fairness == WF_vars(EventLoop) /\ WF_vars(Run)

SafeSpec == Init /\ [][Next]_vars
Spec == SafeSpec /\ Fairness

-----------------------------------------------------------------------------
(* Properties.                                                             *)

\* The finished() signals that wait in the event queue.
Pending(q) == {i \in 1..Len(q) : q[i].sig = "finished"}

One(b) == IF b THEN 1 ELSE 0

Whole(f) == [of |-> f, whole |-> TRUE]

\* Every call of setFile() that has not been answered by imageLoaded() is
\* waiting for the reader to stop, or being decoded, or its result is posted,
\* or its slot runs.  No answer is lost and none is sent twice, whatever calls
\* overtook it (setFile(), run(), rawImageLoaded()).
AnswerAccounting ==
  asked - answered = Cardinality(Pending(posted))
                     + One(thread \in Unreported)
                     + One(gui = "waiting")
                     + One(gui \in {"copying", "recycling"})

\* While the GUI thread is not waiting for it to stop, a running reader works
\* for the file the factory was last asked for: setFile() never hands a name
\* to a running thread.
WorkerOnCurrentFile == isRunning /\ gui # "waiting" => rdFileName = cvFileName

\* If setFile() was called with no answer outstanding, then an image that the
\* factory calls valid is the whole image of that file, and so is the scaled
\* one it hands out: what the preview and the exporters rely on.
CurrentImage ==
  clean /\ gui = "idle" /\ cvIsValidImage =>
    /\ cvOriginalImage = Whole(cvFileName)
    /\ cvHasBeenResized => cvResizedImage = cvOriginalImage

\* When nothing is running and no event waits, the progress bar is not left
\* busy or in the middle of the rows of an aborted image, although the events
\* of an aborted run reach the bar after the next one was announced.
BarSettles ==
  gui = "idle" /\ ~isRunning /\ posted = <<>> => bar \in {"start", "full"}

\* The parts CurrentImage rests on.  A result is whole before it is reported,
\* and as long as no call overtook another, at most one answer is outstanding:
\* the one for cvFileName, wherever it is on its way from the reader's thread
\* to the client.
ResultWhole ==
  /\ thread = "bitmap" => row = 0
  /\ thread = "loaded" \/ (thread = "rows" /\ row = Rows) =>
       rdImage = Whole(rdFileName)

OneOutstanding ==
  clean =>
    /\ asked - answered \in {0, 1}
    /\ \A i \in Pending(posted) : posted[i].value =>
         cvImageLoaded /\ rdImage = Whole(cvFileName)
    /\ gui = "copying" /\ cvIsValidImage =>
         slotLoaded /\ rdImage = Whole(cvFileName)
    /\ gui = "recycling" /\ cvIsValidImage =>
         cvOriginalImage = Whole(cvFileName)
    /\ asked # answered /\ gui # "waiting" =>
         /\ ~cvHasBeenResized
         /\ gui = "idle" => ~cvIsValidImage

\* What BarSettles rests on: once run() has emitted its last signals, the last
\* two events in the queue are the bar's reset and the result.
Settled == bar \in {"start", "full"}

ResetPrecedesResult ==
  thread \in {"idle", "cleanup"} =>
    LET n == Len(posted) IN
    /\ n = 0 => Settled
    /\ n > 0 => posted[n].sig = "finished"
    /\ n = 1 => Settled
    /\ n > 1 => posted[n - 1] = Progress("start")

\* The requests and answers alone.
Requests == INSTANCE LoadRequests WITH open <- gui \notin {"closing", "gone"}
AnswersEveryRequest == Requests!Spec

=============================================================================
