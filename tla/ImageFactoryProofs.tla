------------------------- MODULE ImageFactoryProofs -------------------------
(***************************************************************************)
(* Theorems about ImageFactory and about its two clients, the main window  *)
(* and the plugin that saves JPEGs: for any set of files and of names, any *)
(* image height, any number of requests and an event queue of any length.  *)
(***************************************************************************)
EXTENDS MainWindow, SaveAsJpg, SequenceTheorems, FiniteSetTheorems,
        WellFoundedInduction, TLAPS

-----------------------------------------------------------------------------
(* The event queue.                                                        *)

LEMMA HeadKind ==
  ASSUME NEW q \in Seq(Events), q # <<>>
  PROVE  /\ Tail(q) \in Seq(Events)
         /\ Head(q).sig \in {"progress", "finished"}
         /\ Head(q).sig = "progress" => Head(q).value \in Bars
         /\ Head(q).sig = "finished" => Head(q).value \in BOOLEAN
<1>1. Head(q) \in Events /\ Tail(q) \in Seq(Events)
  BY HeadTailProperties
<1>2. CASE Head(q) \in ProgressEvents
  <2>1. Head(q).sig = "progress" /\ Head(q).value \in Bars
    BY <1>2 DEF ProgressEvents
  <2> QED  BY <1>1, <2>1
<1>3. CASE Head(q) \in FinishedEvents
  <2>1. Head(q).sig = "finished" /\ Head(q).value \in BOOLEAN
    BY <1>3, Zenon DEF FinishedEvents
  <2> QED  BY <1>1, <2>1
<1> QED  BY <1>1, <1>2, <1>3 DEF Events

LEMMA EventTypes ==
  /\ \A v \in Bars : Progress(v) \in Events /\ Progress(v).sig = "progress"
  /\ \A b \in BOOLEAN : /\ Finished(b) \in Events
                        /\ Finished(b).sig = "finished"
                        /\ Finished(b).value = b
<1>1. \A v \in Bars : Progress(v) \in ProgressEvents
                      /\ Progress(v).sig = "progress"
  BY DEF Progress, ProgressEvents
<1>2. \A b \in BOOLEAN : Finished(b) \in FinishedEvents
                         /\ Finished(b).sig = "finished"
                         /\ Finished(b).value = b
  BY Zenon DEF Finished, FinishedEvents
<1> QED  BY <1>1, <1>2 DEF Events

\* The number of finished() signals in the queue is a number.
LEMMA PendingFinite ==
  ASSUME NEW q \in Seq(Events)
  PROVE  /\ IsFiniteSet(Pending(q))
         /\ Cardinality(Pending(q)) \in Nat
<1>1. Len(q) \in Nat  BY LenProperties
<1>2. IsFiniteSet(1..Len(q))  BY <1>1, FS_Interval
<1>3. Pending(q) \in SUBSET (1..Len(q))  BY DEF Pending
<1>4. IsFiniteSet(Pending(q))  BY <1>2, <1>3, FS_Subset
<1> QED  BY <1>4, FS_CardinalityType

\* A progress() signal adds none.
LEMMA PendingAppend ==
  ASSUME NEW q \in Seq(Events), NEW v \in Bars
  PROVE  /\ Append(q, Progress(v)) \in Seq(Events)
         /\ Pending(Append(q, Progress(v))) = Pending(q)
<1> DEFINE e == Progress(v)
<1>1. e \in Events /\ e.sig = "progress"  BY EventTypes
<1> HIDE DEF e
<1>2. /\ Append(q, e) \in Seq(Events)
      /\ Len(Append(q, e)) = Len(q) + 1
      /\ \A i \in 1..Len(q) : Append(q, e)[i] = q[i]
      /\ Append(q, e)[Len(q) + 1] = e
  BY <1>1, AppendProperties
<1>3. Len(q) \in Nat  BY LenProperties
<1>4. Pending(Append(q, e)) = Pending(q)
  BY <1>1, <1>2, <1>3 DEF Pending
<1> QED  BY <1>2, <1>4 DEF e

\* The end of run() adds one.
LEMMA PendingReport ==
  ASSUME NEW q \in Seq(Events), NEW b \in BOOLEAN
  PROVE  LET r == q \o <<Progress("start"), Finished(b)>>
         IN  /\ r \in Seq(Events)
             /\ Len(r) = Len(q) + 2
             /\ \A i \in 1..Len(q) : r[i] = q[i]
             /\ r[Len(q) + 1] = Progress("start")
             /\ r[Len(q) + 2] = Finished(b)
             /\ Pending(r) = Pending(q) \cup {Len(q) + 2}
             /\ Cardinality(Pending(r)) = Cardinality(Pending(q)) + 1
<1> DEFINE p == Progress("start")
           f == Finished(b)
           t == <<p, f>>
           r == q \o t
<1>1. /\ p \in Events /\ p.sig = "progress"
      /\ f \in Events /\ f.sig = "finished"
  BY EventTypes DEF Bars
<1> HIDE DEF p, f
<1>2. t \in Seq(Events) /\ Len(t) = 2 /\ t[1] = p /\ t[2] = f
  BY <1>1
<1> HIDE DEF t
<1>3. Len(q) \in Nat  BY LenProperties
<1>4. /\ r \in Seq(Events)
      /\ Len(r) = Len(q) + 2
      /\ \A i \in 1..Len(q) + 2 : r[i] = IF i <= Len(q) THEN q[i]
                                         ELSE t[i - Len(q)]
  <2>1. /\ r \in Seq(Events)
        /\ Len(r) = Len(q) + Len(t)
        /\ \A i \in 1..Len(q) + Len(t) : r[i] = IF i <= Len(q) THEN q[i]
                                                ELSE t[i - Len(q)]
    BY <1>2, ConcatProperties, Zenon
  <2> QED  BY <1>2, <2>1
<1> HIDE DEF r
<1>5. /\ \A i \in 1..Len(q) : r[i] = q[i]
      /\ r[Len(q) + 1] = p /\ r[Len(q) + 2] = f
  BY <1>2, <1>3, <1>4
<1>6. Pending(r) = Pending(q) \cup {Len(q) + 2}
  BY <1>1, <1>3, <1>4, <1>5 DEF Pending
<1>7. Len(q) + 2 \notin Pending(q)  BY <1>3 DEF Pending
<1>8. Cardinality(Pending(r)) = Cardinality(Pending(q)) + 1
  BY <1>6, <1>7, PendingFinite, FS_AddElement
<1> QED  BY <1>4, <1>5, <1>6, <1>8 DEF r, t, p, f

\* The delivery of an event takes it away if it is a finished() signal.
LEMMA PendingTail ==
  ASSUME NEW q \in Seq(Events), q # <<>>
  PROVE  Cardinality(Pending(q)) =
           Cardinality(Pending(Tail(q))) + One(Head(q).sig = "finished")
<1> DEFINE S == Pending(Tail(q))
           T == Pending(q) \ {1}
           g == [i \in S |-> i + 1]
<1>1. /\ Tail(q) \in Seq(Events)
      /\ Len(Tail(q)) = Len(q) - 1
      /\ \A i \in 1..Len(Tail(q)) : Tail(q)[i] = q[i + 1]
  BY HeadTailProperties
<1>2. Len(q) \in Nat /\ Len(q) > 0  BY LenProperties, EmptySeq
<1>3. \A i \in S : i \in Nat /\ i + 1 \in T
  BY <1>1, <1>2 DEF Pending
<1>4. \A j \in T : j - 1 \in S /\ j = (j - 1) + 1
  BY <1>1, <1>2 DEF Pending
<1>5. g \in Bijection(S, T)
  <2>1. g \in [S -> T]  BY <1>3
  <2>2. \A i, k \in S : g[i] = g[k] => i = k  BY <1>3
  <2>3. \A j \in T : \E i \in S : g[i] = j  BY <1>4
  <2> QED  BY <2>1, <2>2, <2>3 DEF Bijection, Injection, Surjection,
                                   IsInjective
<1>6. IsFiniteSet(S) /\ IsFiniteSet(Pending(q))
  BY <1>1, PendingFinite
<1>7. Cardinality(T) = Cardinality(S)
  BY <1>5, <1>6, FS_Bijection DEF ExistsBijection
<1>8. Cardinality(T) = IF 1 \in Pending(q) THEN Cardinality(Pending(q)) - 1
                       ELSE Cardinality(Pending(q))
  BY <1>6, FS_RemoveElement
<1>9. 1 \in Pending(q) <=> Head(q).sig = "finished"
  BY <1>2 DEF Pending
<1>10. Cardinality(Pending(q)) \in Nat  BY PendingFinite
<1> QED  BY <1>7, <1>8, <1>9, <1>10 DEF One

-----------------------------------------------------------------------------
(* Type correctness.                                                       *)

LEMMA TypeInit == Init => TypeOK
<1>1. NoName \in Files /\ NoImage \in Images  BY DEF Files, Images
<1>2. 0 \in 0..Rows /\ 0 \in Nat  BY BoundsAssumption
<1>3. <<>> \in Seq(Events)  BY EmptySeq
<1> QED  BY <1>1, <1>2, <1>3 DEF Init, TypeOK, Guis, Bars, Threads

\* An image of a known file is an image.
LEMMA ImageTypes ==
  /\ NoImage \in Images
  /\ \A f \in Files, b \in BOOLEAN : [of |-> f, whole |-> b] \in Images
<1>1. \A f \in Files, b \in BOOLEAN : [of |-> f, whole |-> b] \in Pixels
  BY Zenon DEF Pixels
<1> QED  BY <1>1 DEF Images

LEMMA OpenFileType ==
  ASSUME TypeOK, NEW f \in Files, OpenFile(f)
  PROVE  /\ cvOriginalImage' \in Images /\ cvIsValidImage' \in BOOLEAN
         /\ cvHasBeenResized' \in BOOLEAN /\ cvIsProcessing' \in BOOLEAN
         /\ cvAbort' \in BOOLEAN /\ cvIsInitialized' \in BOOLEAN
         /\ rdFileName' \in Files /\ thread' \in Threads /\ bar' \in Bars
         /\ gui' \in Guis /\ answered' \in Nat
         /\ UNCHANGED <<cvResizedImage, slotLoaded, row, posted, rdImage,
                        cvImageLoaded>>
<1>1. CASE ReadFlat(f)
  <2>1. cvOriginalImage' \in Images /\ cvIsValidImage' \in BOOLEAN
    BY <1>1, ImageTypes DEF ReadFlat
  <2>2. /\ answered' \in Nat /\ bar' \in Bars /\ gui' \in Guis
        /\ cvHasBeenResized' \in BOOLEAN /\ cvIsProcessing' \in BOOLEAN
    <3>1. answered' \in Nat  BY <1>1 DEF ReadFlat, TypeOK
    <3>2. cvHasBeenResized' = FALSE /\ cvIsProcessing' = FALSE
      BY <1>1, Zenon DEF OpenFile, ReadFlat
    <3>3. gui' = "idle" /\ bar' = "full"  BY <1>1 DEF OpenFile, ReadFlat
    <3> QED  BY <3>1, <3>2, <3>3 DEF Guis, Bars
  <2>3. UNCHANGED <<cvAbort, reader, thread, cvResizedImage, slotLoaded, row,
                    posted>>
    BY <1>1 DEF OpenFile, ReadFlat
  <2> QED  BY <2>1, <2>2, <2>3 DEF TypeOK, reader
<1>2. CASE ReadRaw(f)
  BY <1>2, ImageTypes DEF OpenFile, ReadRaw, TypeOK, Bars, Guis, Threads,
                          Unreported
<1>3. CASE BailOut(f)
  <2>1. /\ answered' \in Nat /\ gui' \in Guis
        /\ cvHasBeenResized' \in BOOLEAN /\ cvIsValidImage' \in BOOLEAN
    <3>1. answered' \in Nat  BY <1>3 DEF BailOut, TypeOK
    <3>2. cvHasBeenResized' = FALSE /\ cvIsValidImage' = FALSE
      BY <1>3, Zenon DEF OpenFile, BailOut
    <3>3. gui' = "idle"  BY DEF OpenFile
    <3> QED  BY <3>1, <3>2, <3>3 DEF Guis
  <2>2. UNCHANGED <<cvOriginalImage, cvIsProcessing, bar, cvAbort, reader,
                    thread, cvResizedImage, slotLoaded, row, posted>>
    BY <1>3 DEF OpenFile, BailOut
  <2> QED  BY <2>1, <2>2 DEF TypeOK, reader
<1> QED  BY <1>1, <1>2, <1>3 DEF OpenFile

\* What run() writes, and the rest of the state, have types of their own.
WorkerTypes ==
  /\ rdImage \in Images
  /\ thread \in Threads
  /\ row \in 0..Rows
  /\ posted \in Seq(Events)
  /\ cvImageLoaded \in BOOLEAN
  /\ cvIsInitialized \in BOOLEAN

GuiTypes ==
  /\ cvFileName \in Files /\ rdFileName \in Files
  /\ cvOriginalImage \in Images /\ cvResizedImage \in Images
  /\ cvIsValidImage \in BOOLEAN /\ cvHasBeenResized \in BOOLEAN
  /\ cvIsProcessing \in BOOLEAN /\ slotLoaded \in BOOLEAN
  /\ cvAbort \in BOOLEAN
  /\ gui \in Guis /\ bar \in Bars
  /\ asked \in Nat /\ answered \in Nat /\ clean \in BOOLEAN

LEMMA TypesSplit == TypeOK <=> WorkerTypes /\ GuiTypes
  BY Zenon DEF TypeOK, WorkerTypes, GuiTypes

LEMMA GuiSideTypes ==
  ASSUME TypeOK, UNCHANGED guiSide, WorkerTypes'
  PROVE  TypeOK'
<1>1. GuiTypes'
  <2>1. UNCHANGED <<cvFileName, cvOriginalImage, cvResizedImage,
                    cvIsValidImage, cvHasBeenResized, cvIsProcessing>>
    BY DEF guiSide, factory
  <2>2. UNCHANGED <<gui, slotLoaded, bar, cvAbort, rdFileName>>
    BY DEF guiSide
  <2>3. UNCHANGED <<asked, answered, clean>>
    BY DEF guiSide, history
  <2>4. GuiTypes  BY TypesSplit
  <2> QED  BY <2>1, <2>2, <2>3, <2>4, Zenon DEF GuiTypes
<1>2. TypeOK' <=> WorkerTypes' /\ GuiTypes'
  BY Zenon DEF TypeOK, WorkerTypes, GuiTypes
<1> QED  BY <1>1, <1>2

LEMMA RunTypes ==
  ASSUME TypeOK, Run
  PROVE  UNCHANGED guiSide /\ WorkerTypes'
<1>0. /\ rdImage \in Images /\ thread \in Threads /\ row \in 0..Rows
      /\ posted \in Seq(Events)
      /\ cvImageLoaded \in BOOLEAN /\ cvIsInitialized \in BOOLEAN
  BY TypesSplit DEF WorkerTypes
<1> DEFINE next == {"idle", "cleanup", "open", "unpack", "process", "memimage",
                    "bitmap", "rows", "loaded", "failed"}
<1>t. thread' \in next => thread' \in Threads
  BY DEF Threads, Unreported, Decoding
<1>1. CASE Begin
  <2>1. thread' \in next  BY <1>1 DEF Begin
  <2>2. UNCHANGED <<guiSide, rdImage, cvIsInitialized, row, posted>>
    BY <1>1 DEF Begin
  <2>3. cvImageLoaded' = FALSE  BY <1>1, Zenon DEF Begin
  <2>4. cvImageLoaded' \in BOOLEAN /\ cvIsInitialized' \in BOOLEAN
    BY <1>0, <2>2, <2>3, Zenon
  <2>5. UNCHANGED guiSide /\ rdImage' \in Images /\ row' \in 0..Rows
        /\ posted' \in Seq(Events)
    BY <1>0, <2>2
  <2> QED  BY <1>t, <2>1, <2>4, <2>5, Zenon DEF WorkerTypes
\* The steps that leave the reader's members and the queue alone.
<1>a. ASSUME UNCHANGED <<guiSide, reader, row, posted>>, thread' \in next
      PROVE  UNCHANGED guiSide /\ WorkerTypes'
  <2>1. UNCHANGED <<rdImage, cvImageLoaded, cvIsInitialized>>
    BY <1>a DEF reader
  <2> QED  BY <1>0, <1>t, <1>a, <2>1, Zenon DEF WorkerTypes
<1>2. CASE Aborted  BY <1>2, <1>a DEF Aborted
<1>3. CASE \/ Stage("open", "unpack") \/ Stage("unpack", "process")
           \/ Stage("process", "memimage")
  BY <1>3, <1>a DEF Stage
<1>4. CASE Bitmap
  <2>1. thread' \in next  BY <1>4 DEF Bitmap
  <2> QED  BY <1>4, <1>a, <2>1 DEF Bitmap
\* The steps on the image.
<1>b. ASSUME UNCHANGED <<guiSide, cvImageLoaded, cvIsInitialized>>,
             thread' \in Threads, rdImage' \in Images, row' \in 0..Rows,
             posted' \in Seq(Events)
      PROVE  UNCHANGED guiSide /\ WorkerTypes'
  BY <1>0, <1>b, Zenon DEF WorkerTypes
<1>5. CASE MakeImage
  <2>1. UNCHANGED <<guiSide, cvImageLoaded, cvIsInitialized>>
        /\ posted' = posted /\ row' = 0 /\ thread' \in next
    BY <1>5 DEF MakeImage
  <2>2. rdFileName \in Files  BY DEF TypeOK
  <2>3. rdImage' \in Images  BY <1>0, <1>5, <2>2, ImageTypes DEF MakeImage
  <2>4. row' \in 0..Rows  BY <2>1, BoundsAssumption
  <2> QED  BY <1>0, <1>b, <1>t, <2>1, <2>3, <2>4
<1>6. CASE CopyRow
  <2>1. UNCHANGED <<guiSide, cvImageLoaded, cvIsInitialized, thread>>
        /\ rdImage' = [of |-> rdFileName, whole |-> (row + 1 = Rows)]
        /\ row < Rows /\ row' = row + 1
        /\ posted' = Append(posted, Progress("row"))
    BY <1>6 DEF CopyRow
  <2>2. rdFileName \in Files  BY DEF TypeOK
  <2>3. rdImage' \in Images
    <3>1. (row + 1 = Rows) \in BOOLEAN  OBVIOUS
    <3> QED  BY <2>1, <2>2, <3>1, ImageTypes, Zenon
  <2>4. row' \in 0..Rows  BY <1>0, <2>1, BoundsAssumption
  <2>5. posted' \in Seq(Events)  BY <1>0, <2>1, PendingAppend DEF Bars
  <2> QED  BY <1>0, <1>b, <2>1, <2>3, <2>4, <2>5
<1>7. CASE RowsDone
  <2>1. UNCHANGED <<guiSide, reader, row>> /\ thread' \in next
        /\ posted' = Append(posted, Progress("full"))
    BY <1>7 DEF RowsDone
  <2>2. posted' \in Seq(Events)  BY <1>0, <2>1, PendingAppend DEF Bars
  <2> QED  BY <1>0, <1>b, <1>t, <2>1, <2>2 DEF reader
<1>8. CASE Report
  <2>1. UNCHANGED <<guiSide, rdImage, cvIsInitialized, row>>
        /\ thread' \in next
    BY <1>8 DEF Report
  <2>2. \E b \in BOOLEAN : /\ cvImageLoaded' = b
                           /\ posted' = posted \o <<Progress("start"), Finished(b)>>
    <3>1. (thread = "loaded") \in BOOLEAN  OBVIOUS
    <3> QED  BY <1>8, <3>1, Zenon DEF Report
  <2>3. cvImageLoaded' \in BOOLEAN /\ posted' \in Seq(Events)
    BY <1>0, <2>2, PendingReport, Zenon
  <2> QED  BY <1>0, <1>t, <2>1, <2>3, Zenon DEF WorkerTypes
<1>9. CASE CleanUp
  <2>1. thread' \in next  BY <1>9 DEF CleanUp
  <2>2. UNCHANGED <<guiSide, rdImage, cvImageLoaded, row, posted>>
        /\ cvIsInitialized' = FALSE
    BY <1>9, Zenon DEF CleanUp
  <2> QED  BY <1>0, <1>t, <2>1, <2>2, Zenon DEF WorkerTypes
<1> QED  BY <1>1, <1>2, <1>3, <1>4, <1>5, <1>6, <1>7, <1>8, <1>9 DEF Run

LEMMA TypeStep == TypeOK /\ [Next]_vars => TypeOK'
<1> SUFFICES ASSUME TypeOK, [Next]_vars
             PROVE  TypeOK'
  OBVIOUS
<1> USE DEF Guis, Bars, Threads
<1>1. ASSUME NEW f \in Files, SetFile(f)
      PROVE  TypeOK'
  <2>0. cvFileName' \in Files /\ asked' \in Nat /\ clean' \in BOOLEAN
    <3>1. clean' \in BOOLEAN  BY <1>1, Zenon DEF SetFile
    <3> QED  BY <1>1, <3>1 DEF SetFile, TypeOK
  <2>1. CASE OpenFile(f)
    BY <1>1, <2>0, <2>1, OpenFileType DEF TypeOK
  <2>2. CASE ~OpenFile(f)
    <3>1. /\ cvAbort' = TRUE /\ gui' = "waiting"
          /\ UNCHANGED <<cvOriginalImage, cvResizedImage, cvIsValidImage,
                         cvHasBeenResized, cvIsProcessing, slotLoaded, bar,
                         reader, thread, row, posted, answered>>
      BY <1>1, <2>2 DEF SetFile
    <3> QED  BY <2>0, <3>1 DEF TypeOK, reader
  <2> QED  BY <2>1, <2>2
<1>2. CASE ScaleImage
  BY <1>2 DEF ScaleImage, TypeOK, reader, history
<1>3. CASE Destroy
  BY <1>3 DEF Destroy, TypeOK, factory, reader, history
<1>4. CASE WaitDone
  <2>1. cvFileName \in Files  BY DEF TypeOK
  <2> QED  BY <1>4, <2>1, OpenFileType DEF WaitDone, TypeOK
<1>5. CASE ReEmitProgress
  <2>1. posted \in Seq(Events) /\ posted # <<>>  BY <1>5 DEF TypeOK, ReEmitProgress
  <2> QED  BY <1>5, <2>1, HeadKind
           DEF ReEmitProgress, TypeOK, factory, reader, history
<1>6. CASE RawImageLoaded
  <2>1. posted \in Seq(Events) /\ posted # <<>>  BY <1>6 DEF TypeOK, RawImageLoaded
  <2> QED  BY <1>6, <2>1, HeadKind
           DEF RawImageLoaded, TypeOK, reader, history
<1>7. CASE CopyImage
  BY <1>7, ImageTypes DEF CopyImage, TypeOK, reader, history
<1>8. CASE Recycle
  BY <1>8, ImageTypes DEF Recycle, TypeOK, factory
<1>9. CASE DestroyDone
  BY <1>9 DEF DestroyDone, TypeOK, factory, reader, history
<1>10. CASE Run
  <2>1. UNCHANGED guiSide /\ WorkerTypes'  BY <1>10, RunTypes
  <2> QED  BY <2>1, GuiSideTypes
<1>11. CASE UNCHANGED vars
  BY <1>11 DEF TypeOK, vars, factory, reader, history
<1> QED  BY <1>1, <1>2, <1>3, <1>4, <1>5, <1>6, <1>7, <1>8, <1>9, <1>10, <1>11
         DEF Next, User, EventLoop

\* Every variable keeps its type.
THEOREM TypeCorrect == Spec => []TypeOK
<1>1. SafeSpec => []TypeOK
  BY TypeInit, TypeStep, PTL DEF SafeSpec
<1> QED  BY <1>1, PTL DEF Spec

-----------------------------------------------------------------------------
(* No answer is lost or sent twice.                                        *)

\* What one action does to the three places an answer can be in.
LEMMA OpenFileAccounting ==
  ASSUME TypeOK, NEW f \in Files, OpenFile(f), ~isRunning
  PROVE  /\ posted' = posted /\ gui' = "idle" /\ thread = "idle"
         /\ \/ answered' = answered + 1 /\ thread' = "idle"
            \/ answered' = answered /\ thread' = "begin"
<1>1. posted' = posted /\ gui' = "idle" /\ thread = "idle"
  BY DEF OpenFile, isRunning
<1>2. CASE ReadFlat(f)  BY <1>1, <1>2 DEF ReadFlat
<1>3. CASE ReadRaw(f)  BY <1>1, <1>3 DEF ReadRaw
<1>4. CASE BailOut(f)  BY <1>1, <1>4 DEF BailOut
<1> QED  BY <1>1, <1>2, <1>3, <1>4 DEF OpenFile

LEMMA AccountingInit == Init => AnswerAccounting
<1> SUFFICES ASSUME Init PROVE AnswerAccounting
  OBVIOUS
<1>1. Pending(posted) = {}  BY DEF Init, Pending
<1>2. Cardinality(Pending(posted)) = 0  BY <1>1, FS_EmptySet
<1> QED  BY <1>2 DEF Init, AnswerAccounting, One, Unreported, Decoding

LEMMA AccountingStep ==
  TypeOK /\ AnswerAccounting /\ [Next]_vars => AnswerAccounting'
<1> SUFFICES ASSUME TypeOK, AnswerAccounting, [Next]_vars
             PROVE  AnswerAccounting'
  OBVIOUS
<1> DEFINE n == Cardinality(Pending(posted))
<1>0. /\ posted \in Seq(Events) /\ asked \in Nat /\ answered \in Nat
      /\ n \in Nat
  BY PendingFinite DEF TypeOK
<1> USE DEF AnswerAccounting, One, Unreported, Decoding
\* What leaves the answers, the queue and the two threads' places alone
\* leaves the account alone.
<1>a. ASSUME UNCHANGED <<asked, answered, posted>>,
             thread' \in Unreported <=> thread \in Unreported,
             gui' = "waiting" <=> gui = "waiting",
             gui' \in {"copying", "recycling"} <=> gui \in {"copying", "recycling"}
      PROVE  AnswerAccounting'
  BY <1>a
<1>1. ASSUME NEW f \in Files, SetFile(f)
      PROVE  AnswerAccounting'
  <2>1. asked' = asked + 1 /\ gui = "idle"  BY <1>1 DEF SetFile
  <2>2. CASE ~isRunning /\ OpenFile(f)
    BY <1>0, <2>1, <2>2, OpenFileAccounting
  <2>3. CASE isRunning /\ gui' = "waiting"
             /\ UNCHANGED <<thread, posted, answered>>
    BY <1>0, <2>1, <2>3
  <2> QED  BY <1>1, <2>2, <2>3 DEF SetFile
<1>2. CASE WaitDone
  <2>1. cvFileName \in Files  BY DEF TypeOK
  <2> QED  BY <1>0, <1>2, <2>1, OpenFileAccounting DEF WaitDone
<1>3. CASE ScaleImage  BY <1>a, <1>3 DEF ScaleImage, history
<1>4. CASE Destroy  BY <1>a, <1>4 DEF Destroy, history
<1>5. CASE DestroyDone  BY <1>a, <1>5 DEF DestroyDone, history
<1>6. CASE ReEmitProgress
  <2>1. posted # <<>> /\ posted' = Tail(posted) /\ Head(posted).sig = "progress"
        /\ UNCHANGED <<asked, answered, gui, thread>>
    BY <1>6 DEF ReEmitProgress, history
  <2>2. n = Cardinality(Pending(Tail(posted)))
    <3>1. Tail(posted) \in Seq(Events)  BY <1>0, <2>1, HeadTailProperties
    <3>2. Cardinality(Pending(Tail(posted))) \in Nat  BY <3>1, PendingFinite
    <3>3. n = Cardinality(Pending(Tail(posted)))
              + One(Head(posted).sig = "finished")
      BY <1>0, <2>1, PendingTail
    <3> QED  BY <2>1, <3>2, <3>3
  <2> QED  BY <2>1, <2>2
<1>7. CASE RawImageLoaded
  <2>1. posted # <<>> /\ posted' = Tail(posted) /\ Head(posted).sig = "finished"
        /\ gui = "idle" /\ gui' = "copying" /\ UNCHANGED <<asked, answered, thread>>
    BY <1>7 DEF RawImageLoaded, history
  <2>2. n = Cardinality(Pending(Tail(posted))) + 1
        /\ Cardinality(Pending(Tail(posted))) \in Nat
    BY <1>0, <2>1, PendingTail, HeadTailProperties, PendingFinite
  <2> QED  BY <1>0, <2>1, <2>2
<1>8. CASE CopyImage  BY <1>a, <1>8 DEF CopyImage, history
<1>9. CASE Recycle
  <2>1. gui = "recycling" /\ gui' = "idle" /\ answered' = answered + 1
        /\ UNCHANGED <<asked, posted, thread>>
    BY <1>9 DEF Recycle
  <2> QED  BY <1>0, <2>1
<1>10. CASE Run
  <2>0. UNCHANGED <<asked, answered, gui>>
    BY <1>10 DEF Run, Begin, Aborted, Stage, MakeImage, Bitmap, CopyRow,
                 RowsDone, Report, CleanUp, guiSide, history
  <2>1. CASE Begin  BY <1>a, <2>0, <2>1 DEF Begin
  <2>2. CASE Aborted  BY <1>a, <2>0, <2>2 DEF Aborted
  <2>3. CASE \/ Stage("open", "unpack") \/ Stage("unpack", "process")
             \/ Stage("process", "memimage")
    BY <1>a, <2>0, <2>3 DEF Stage
  <2>4. CASE MakeImage  BY <1>a, <2>0, <2>4 DEF MakeImage
  <2>5. CASE Bitmap  BY <1>a, <2>0, <2>5 DEF Bitmap
  <2>6. CASE CopyRow
    <3>1. Pending(posted') = Pending(posted) /\ thread' = thread
      BY <1>0, <2>6, PendingAppend DEF CopyRow, Bars
    <3> QED  BY <2>0, <3>1
  <2>7. CASE RowsDone
    <3>1. Pending(posted') = Pending(posted)
      BY <1>0, <2>7, PendingAppend DEF RowsDone, Bars
    <3> QED  BY <2>0, <2>7, <3>1 DEF RowsDone
  <2>8. CASE Report
    <3>1. Cardinality(Pending(posted')) = n + 1
      BY <1>0, <2>8, PendingReport DEF Report
    <3>2. thread \in Unreported /\ thread' \notin Unreported
      BY <2>8 DEF Report
    <3> QED  BY <1>0, <2>0, <3>1, <3>2
  <2>9. CASE CleanUp  BY <1>a, <2>0, <2>9 DEF CleanUp
  <2> QED  BY <1>10, <2>1, <2>2, <2>3, <2>4, <2>5, <2>6, <2>7, <2>8, <2>9
           DEF Run
<1>11. CASE UNCHANGED vars  BY <1>a, <1>11 DEF vars, history
<1> QED  BY <1>1, <1>2, <1>3, <1>4, <1>5, <1>6, <1>7, <1>8, <1>9, <1>10, <1>11
         DEF Next, User, EventLoop

\* Every call of setFile() is answered exactly once, or its answer is on its
\* way.
THEOREM AnswersAccounted == Spec => []AnswerAccounting
<1>1. SafeSpec => [](TypeOK /\ AnswerAccounting)
  BY TypeInit, TypeStep, AccountingInit, AccountingStep, PTL DEF SafeSpec
<1> QED  BY <1>1, PTL DEF Spec

-----------------------------------------------------------------------------
(* The handshake between setFile() and the reader's thread.                *)

LEMMA WorkerStep ==
  TypeOK /\ WorkerOnCurrentFile /\ [Next]_vars => WorkerOnCurrentFile'
<1> SUFFICES ASSUME TypeOK, WorkerOnCurrentFile, [Next]_vars
             PROVE  WorkerOnCurrentFile'
  OBVIOUS
<1> USE DEF WorkerOnCurrentFile, isRunning
<1>1. ASSUME NEW f \in Files, OpenFile(f), thread = "idle", cvFileName' = f
      PROVE  WorkerOnCurrentFile'
  BY <1>1 DEF OpenFile, ReadFlat, ReadRaw, BailOut
<1>2. ASSUME NEW f \in Files, SetFile(f)
      PROVE  WorkerOnCurrentFile'
  BY <1>1, <1>2 DEF SetFile
<1>3. CASE WaitDone
  <2>1. cvFileName \in Files  BY DEF TypeOK
  <2> QED  BY <1>1, <1>3, <2>1 DEF WaitDone
<1>4. CASE \/ ScaleImage \/ Destroy \/ ReEmitProgress \/ RawImageLoaded
           \/ CopyImage \/ Recycle \/ DestroyDone
  BY <1>4 DEF ScaleImage, Destroy, ReEmitProgress, RawImageLoaded, CopyImage,
              Recycle, DestroyDone, factory, reader
<1>5. CASE Run
  <2>1. UNCHANGED <<rdFileName, cvFileName, gui>>
    BY <1>5 DEF Run, Begin, Aborted, Stage, MakeImage, Bitmap, CopyRow,
                RowsDone, Report, CleanUp, guiSide, factory
  <2>2. thread # "idle"
    BY <1>5 DEF Run, Begin, Aborted, Decoding, Stage, MakeImage, Bitmap,
                CopyRow, RowsDone, Report, CleanUp
  <2> QED  BY <2>1, <2>2
<1>6. CASE UNCHANGED vars
  BY <1>6 DEF vars, factory, reader
<1> QED  BY <1>2, <1>3, <1>4, <1>5, <1>6 DEF Next, User, EventLoop

\* A running reader works for the file last asked for, unless the GUI thread
\* waits for it to stop.
THEOREM WorkerHandshake == Spec => []WorkerOnCurrentFile
<1>1. Init => WorkerOnCurrentFile  BY DEF Init, WorkerOnCurrentFile, isRunning
<1>2. SafeSpec => [](TypeOK /\ WorkerOnCurrentFile)
  BY <1>1, TypeInit, TypeStep, WorkerStep, PTL DEF SafeSpec
<1> QED  BY <1>2, PTL DEF Spec

-----------------------------------------------------------------------------
(* The image of a call that overtook no other.                             *)

LEMMA ResultWholeStep ==
  ASSUME MemImageColors \subseteq {3}
  PROVE  TypeOK /\ ResultWhole /\ [Next]_vars => ResultWhole'
<1> SUFFICES ASSUME TypeOK, ResultWhole, [Next]_vars
             PROVE  ResultWhole'
  OBVIOUS
<1> USE DEF ResultWhole, isRunning
<1>1. ASSUME NEW f \in Files, OpenFile(f), thread = "idle"
      PROVE  ResultWhole'
  BY <1>1 DEF OpenFile, ReadFlat, ReadRaw, BailOut
<1>2. ASSUME NEW f \in Files, SetFile(f)
      PROVE  ResultWhole'
  BY <1>1, <1>2 DEF SetFile, reader, Whole
<1>3. CASE WaitDone
  <2>1. cvFileName \in Files  BY DEF TypeOK
  <2> QED  BY <1>1, <1>3, <2>1 DEF WaitDone
<1>4. CASE \/ ScaleImage \/ Destroy \/ ReEmitProgress \/ RawImageLoaded
           \/ CopyImage \/ Recycle \/ DestroyDone
  BY <1>4 DEF ScaleImage, Destroy, ReEmitProgress, RawImageLoaded, CopyImage,
              Recycle, DestroyDone, reader, Whole
<1>5. CASE Run
  <2>0. row \in 0..Rows /\ Rows \in Nat \ {0}
    BY BoundsAssumption DEF TypeOK
  <2>1. UNCHANGED rdFileName
    BY <1>5 DEF Run, Begin, Aborted, Stage, MakeImage, Bitmap, CopyRow,
                RowsDone, Report, CleanUp, guiSide, reader
  <2>2. CASE \/ Begin \/ Aborted \/ Stage("open", "unpack")
             \/ Stage("unpack", "process") \/ Stage("process", "memimage")
             \/ Report \/ CleanUp
    BY <2>2 DEF Begin, Aborted, Stage, Report, CleanUp
  <2>3. CASE MakeImage
    <3>1. row' = 0 /\ thread' \in {"failed", "bitmap"}  BY <2>3 DEF MakeImage
    <3> QED  BY <3>1
  <2>4. CASE Bitmap
    <3>1. thread' = "rows" /\ row' = 0
      BY <2>4 DEF Bitmap
    <3> QED  BY <2>0, <3>1
  <2>5. CASE CopyRow
    <3>1. thread' = "rows" /\ row' = row + 1
          /\ rdImage' = [of |-> rdFileName, whole |-> (row + 1 = Rows)]
      BY <2>5 DEF CopyRow
    <3>2. row' = Rows => rdImage' = [of |-> rdFileName, whole |-> TRUE]
      BY <3>1
    <3> QED  BY <2>1, <3>1, <3>2 DEF Whole
  <2>6. CASE RowsDone  BY <2>1, <2>6 DEF RowsDone, reader, Whole
  <2> QED  BY <1>5, <2>2, <2>3, <2>4, <2>5, <2>6 DEF Run
<1>6. CASE UNCHANGED vars
  BY <1>6 DEF vars, reader, Whole
<1> QED  BY <1>2, <1>3, <1>4, <1>5, <1>6 DEF Next, User, EventLoop

\* Where an answer is that is outstanding: in one place only, if there is one.
LEMMA Places ==
  ASSUME TypeOK, AnswerAccounting, asked - answered \in {0, 1}
  PROVE  /\ asked = answered =>
              /\ Pending(posted) = {}
              /\ thread \notin Unreported
              /\ gui \notin {"waiting", "copying", "recycling"}
         /\ thread \in Unreported =>
              /\ asked = answered + 1
              /\ Pending(posted) = {}
              /\ gui \notin {"waiting", "copying", "recycling"}
         /\ gui \in {"waiting", "copying", "recycling"} =>
              /\ asked = answered + 1
              /\ Pending(posted) = {}
              /\ thread \notin Unreported
         /\ Pending(posted) # {} =>
              /\ asked = answered + 1
              /\ Cardinality(Pending(posted)) = 1
              /\ thread \notin Unreported
              /\ gui \notin {"waiting", "copying", "recycling"}
<1> DEFINE n == Cardinality(Pending(posted))
<1>1. posted \in Seq(Events) /\ asked \in Nat /\ answered \in Nat
  BY DEF TypeOK
<1>2. n \in Nat /\ (n = 0 <=> Pending(posted) = {})
  BY <1>1, PendingFinite, FS_EmptySet
<1> HIDE DEF n
<1>3. asked - answered = n + One(thread \in Unreported) + One(gui = "waiting")
                         + One(gui \in {"copying", "recycling"})
  BY DEF AnswerAccounting, n
<1> QED  BY <1>1, <1>2, <1>3 DEF One, n

IInv ==
  /\ TypeOK /\ AnswerAccounting /\ WorkerOnCurrentFile /\ ResultWhole
  /\ OneOutstanding /\ CurrentImage

\* A call of setFile(), once the reader is at rest.
LEMMA OpenFileImage ==
  ASSUME TypeOK, NEW f \in Files, OpenFile(f), thread = "idle",
         Pending(posted) = {}, cvFileName' = f,
         asked' = answered + 1
  PROVE  OneOutstanding' /\ CurrentImage'
<1>1. /\ gui' = "idle" /\ posted' = posted /\ cvHasBeenResized' = FALSE
      /\ Pending(posted') = {}
  BY Zenon DEF OpenFile
<1>2. answered' = answered + 1 => asked' = answered'
                                  /\ asked' - answered' \in {0, 1}
  BY DEF TypeOK
<1>3. CASE ReadFlat(f)
  <2>0. answered' = answered + 1  BY <1>3 DEF ReadFlat
  <2>1. /\ cvIsValidImage' = (cvOriginalImage' # NoImage)
        /\ cvOriginalImage' \in {NoImage, Whole(f)}
    BY <1>3 DEF ReadFlat, Whole
  <2>2. cvIsValidImage' => cvOriginalImage' = Whole(cvFileName')
    BY <2>1
  <2>3. asked' = answered' /\ asked' - answered' \in {0, 1}  BY <1>2, <2>0
  <2> QED  BY <1>1, <2>2, <2>3 DEF OneOutstanding, CurrentImage, Whole
<1>4. CASE ReadRaw(f)
  <2>1. cvIsValidImage' = FALSE  BY <1>4, Zenon DEF ReadRaw
  <2>2. answered' = answered  BY <1>4 DEF ReadRaw
  <2>3. asked' - answered' \in {0, 1}  BY <2>2 DEF TypeOK
  <2> QED  BY <1>1, <2>1, <2>3 DEF OneOutstanding, CurrentImage
<1>5. CASE BailOut(f)
  <2>1. cvIsValidImage' = FALSE  BY <1>5, Zenon DEF BailOut
  <2>2. answered' = answered + 1  BY <1>5 DEF BailOut
  <2>3. asked' = answered' /\ asked' - answered' \in {0, 1}  BY <1>2, <2>2
  <2> QED  BY <1>1, <2>1, <2>3 DEF OneOutstanding, CurrentImage
<1> QED  BY <1>3, <1>4, <1>5 DEF OpenFile

LEMMA ImageStep ==
  IInv /\ [Next]_vars => OneOutstanding' /\ CurrentImage'
<1> SUFFICES ASSUME IInv, [Next]_vars
             PROVE  OneOutstanding' /\ CurrentImage'
  OBVIOUS
<1>0. /\ TypeOK /\ AnswerAccounting /\ WorkerOnCurrentFile /\ ResultWhole
      /\ OneOutstanding /\ CurrentImage
      /\ posted \in Seq(Events) /\ asked \in Nat /\ answered \in Nat
  BY DEF IInv, TypeOK
<1>a. clean => asked - answered \in {0, 1}
  BY <1>0 DEF OneOutstanding
<1>1. ASSUME NEW f \in Files, SetFile(f)
      PROVE  OneOutstanding' /\ CurrentImage'
  <2>1. /\ gui = "idle" /\ asked' = asked + 1 /\ cvFileName' = f
        /\ clean' = (asked = answered)
    BY <1>1 DEF SetFile
  <2>2. CASE asked # answered
    <3>1. ~clean'  BY <2>1, <2>2
    <3> QED  BY <3>1 DEF OneOutstanding, CurrentImage
  <2>3. CASE asked = answered
    <3>1. Pending(posted) = {}
      BY <1>0, <2>3, Places
    <3>2. CASE ~isRunning /\ OpenFile(f)
      <4>1. thread = "idle"  BY <3>2 DEF isRunning
      <4>2. asked' = answered + 1  BY <1>0, <2>1, <2>3
      <4> QED  BY <1>0, <2>1, <3>1, <3>2, <4>1, <4>2, OpenFileImage
    <3>3. CASE gui' = "waiting" /\ UNCHANGED <<posted, answered>>
      <4>1. Pending(posted') = {}  BY <3>1, <3>3
      <4>2. asked' - answered' \in {0, 1}  BY <1>0, <2>1, <2>3, <3>3
      <4> QED  BY <3>3, <4>1, <4>2 DEF OneOutstanding, CurrentImage
    <3> QED  BY <1>1, <3>2, <3>3 DEF SetFile
  <2> QED  BY <2>2, <2>3
<1>2. CASE WaitDone
  <2>1. /\ gui = "waiting" /\ thread = "idle" /\ OpenFile(cvFileName)
        /\ cvFileName' = cvFileName /\ asked' = asked /\ clean' = clean
    BY <1>2 DEF WaitDone, isRunning
  <2>2. CASE clean
    <3>1. Pending(posted) = {} /\ asked = answered + 1
      BY <1>0, <1>a, <2>1, <2>2, Places
    <3>2. asked' = answered + 1  BY <2>1, <3>1
    <3>3. cvFileName \in Files  BY <1>0 DEF TypeOK
    <3> QED  BY <1>0, <2>1, <3>1, <3>2, <3>3, OpenFileImage
  <2>3. CASE ~clean  BY <2>1, <2>3 DEF OneOutstanding, CurrentImage
  <2> QED  BY <2>2, <2>3
<1>3. CASE ScaleImage
  BY <1>0, <1>3 DEF ScaleImage, OneOutstanding, CurrentImage, history, reader
<1>4. CASE Destroy \/ DestroyDone
  BY <1>0, <1>4 DEF Destroy, DestroyDone, OneOutstanding, CurrentImage,
                    factory, history, reader
<1>5. CASE ReEmitProgress
  <2>1. /\ posted # <<>> /\ posted' = Tail(posted)
        /\ UNCHANGED <<factory, gui, slotLoaded, reader, thread, history>>
    BY <1>5 DEF ReEmitProgress
  <2>2. /\ Len(Tail(posted)) = Len(posted) - 1
        /\ \A i \in 1..Len(Tail(posted)) : Tail(posted)[i] = posted[i + 1]
        /\ Len(posted) \in Nat /\ Len(posted) > 0
    BY <1>0, <2>1, HeadTailProperties, LenProperties, EmptySeq
  <2>3. \A i \in Pending(posted') : i + 1 \in Pending(posted)
                                    /\ posted'[i] = posted[i + 1]
    BY <2>1, <2>2 DEF Pending
  <2> QED  BY <1>0, <2>1, <2>3 DEF OneOutstanding, CurrentImage, factory,
                                   reader, history
<1>6. CASE RawImageLoaded
  <2>1. /\ posted # <<>> /\ posted' = Tail(posted)
        /\ Head(posted).sig = "finished"
        /\ cvIsValidImage' = Head(posted).value
        /\ slotLoaded' = cvImageLoaded
        /\ gui' = "copying"
        /\ UNCHANGED <<cvFileName, cvOriginalImage, cvHasBeenResized, reader,
                       thread, history>>
    BY <1>6 DEF RawImageLoaded
  <2>2. CASE clean
    <3>1. 1 \in Pending(posted) /\ posted[1] = Head(posted)
      BY <1>0, <2>1, LenProperties, EmptySeq DEF Pending
    <3>2. asked = answered + 1 /\ Cardinality(Pending(posted)) = 1
          /\ gui # "waiting"
      BY <1>0, <1>a, <2>2, <3>1, Places
    <3>3. Pending(posted') = {}
      <4>1. /\ Tail(posted) \in Seq(Events)
            /\ Cardinality(Pending(Tail(posted))) \in Nat
            /\ IsFiniteSet(Pending(Tail(posted)))
        BY <1>0, <2>1, HeadTailProperties, PendingFinite
      <4>2. Cardinality(Pending(posted)) = Cardinality(Pending(Tail(posted))) + 1
        BY <1>0, <2>1, PendingTail DEF One
      <4>3. Cardinality(Pending(Tail(posted))) = 0  BY <3>2, <4>1, <4>2
      <4> QED  BY <2>1, <4>1, <4>3, FS_EmptySet
    <3>4. cvIsValidImage' => cvImageLoaded /\ rdImage = Whole(cvFileName)
      BY <1>0, <2>1, <2>2, <3>1 DEF OneOutstanding
    <3>5. ~cvHasBeenResized  BY <1>0, <2>2, <3>2 DEF OneOutstanding
    <3> QED  BY <1>0, <1>a, <2>1, <2>2, <3>2, <3>3, <3>4, <3>5
             DEF OneOutstanding, CurrentImage, reader, history, Whole
  <2>3. CASE ~clean  BY <2>1, <2>3 DEF OneOutstanding, CurrentImage, history
  <2> QED  BY <2>2, <2>3
<1>7. CASE CopyImage
  <2>1. /\ gui = "copying" /\ gui' = "recycling"
        /\ cvOriginalImage' = IF slotLoaded THEN rdImage ELSE NoImage
        /\ UNCHANGED <<cvFileName, cvIsValidImage, cvHasBeenResized, posted,
                       reader, history>>
    BY <1>7 DEF CopyImage
  <2> QED  BY <1>0, <2>1 DEF OneOutstanding, CurrentImage, reader, history, Whole
<1>8. CASE Recycle
  <2>1. /\ gui = "recycling" /\ gui' = "idle" /\ answered' = answered + 1
        /\ UNCHANGED <<factory, posted, asked, clean>>
    BY <1>8 DEF Recycle
  <2>2. CASE clean
    <3>1. asked = answered + 1 /\ Pending(posted) = {}
      BY <1>0, <1>a, <2>1, <2>2, Places
    <3>2. asked' = answered' /\ asked' - answered' \in {0, 1}
      BY <1>0, <2>1, <3>1
    <3>3. ~cvHasBeenResized
          /\ (cvIsValidImage => cvOriginalImage = Whole(cvFileName))
      BY <1>0, <2>1, <2>2, <3>1 DEF OneOutstanding
    <3>4. Pending(posted') = {}  BY <2>1, <3>1
    <3> QED  BY <2>1, <3>2, <3>3, <3>4
             DEF OneOutstanding, CurrentImage, factory, Whole
  <2>3. CASE ~clean  BY <2>1, <2>3 DEF OneOutstanding, CurrentImage
  <2> QED  BY <2>2, <2>3
<1>9. CASE Run
  <2>0. UNCHANGED <<factory, gui, slotLoaded, rdFileName, history>>
    BY <1>9 DEF Run, Begin, Aborted, Stage, MakeImage, Bitmap, CopyRow,
                RowsDone, Report, CleanUp, guiSide, reader
  <2>a. ~clean => OneOutstanding'
    <3>1. clean' = clean  BY <2>0, Zenon DEF history
    <3> QED  BY <3>1 DEF OneOutstanding
  <2>1. CurrentImage'
    BY <1>0, <2>0 DEF CurrentImage, factory, history, Whole
  \* While a run is on that is not reported, nothing waits in the queue.
  <2>2. ASSUME thread \in Unreported, Pending(posted') = {}
        PROVE  OneOutstanding'
    BY <1>0, <1>a, <2>0, <2>2, Places
       DEF OneOutstanding, factory, history, Whole
  <2>3. CASE Begin \/ Aborted \/ MakeImage \/ Bitmap
             \/ Stage("open", "unpack") \/ Stage("unpack", "process")
             \/ Stage("process", "memimage")
    <3>1. thread \in Unreported /\ posted' = posted
      BY <2>3 DEF Begin, Aborted, MakeImage, Bitmap, Stage, Unreported, Decoding
    <3>2. CASE clean
      <4>1. Pending(posted) = {}  BY <1>0, <1>a, <3>1, <3>2, Places
      <4>2. Pending(posted') = {}  BY <3>1, <4>1
      <4> QED  BY <2>1, <2>2, <3>1, <4>2
    <3> QED  BY <2>1, <2>a, <3>2
  <2>4. CASE CopyRow \/ RowsDone
    <3>1. thread \in Unreported /\ Pending(posted') = Pending(posted)
      BY <1>0, <2>4, PendingAppend DEF CopyRow, RowsDone, Bars, Unreported,
                                       Decoding
    <3>2. CASE clean
      <4>1. Pending(posted) = {}  BY <1>0, <1>a, <3>1, <3>2, Places
      <4>2. Pending(posted') = {}  BY <3>1, <4>1
      <4> QED  BY <2>1, <2>2, <3>1, <4>2
    <3> QED  BY <2>1, <2>a, <3>2
  <2>5. CASE Report
    <3>1. /\ thread \in {"loaded", "failed"}
          /\ cvImageLoaded' = (thread = "loaded")
          /\ posted' = posted \o <<Progress("start"), Finished(thread = "loaded")>>
          /\ UNCHANGED rdImage
      BY <2>5 DEF Report
    <3>2. CASE clean
      <4>1. /\ Pending(posted) = {}
            /\ asked = answered + 1
            /\ gui \notin {"waiting", "copying", "recycling"}
        BY <1>0, <1>a, <3>1, <3>2, Places DEF Unreported
      <4>2. /\ Pending(posted') = {Len(posted) + 2}
            /\ posted'[Len(posted) + 2] = Finished(thread = "loaded")
        BY <1>0, <3>1, <4>1, PendingReport
      <4>3. thread = "loaded" => rdImage = Whole(cvFileName)
        BY <1>0, <4>1 DEF ResultWhole, WorkerOnCurrentFile, isRunning
      <4>4. \A i \in Pending(posted') : posted'[i].value =>
              cvImageLoaded' /\ rdImage' = Whole(cvFileName)
        <5>1. (thread = "loaded") \in BOOLEAN  OBVIOUS
        <5>2. Finished(thread = "loaded").value = (thread = "loaded")
          BY <5>1, EventTypes
        <5> QED  BY <3>1, <4>2, <4>3, <5>2
      <4> QED  BY <1>0, <2>0, <2>1, <3>2, <4>1, <4>4
               DEF OneOutstanding, factory, history, Whole
    <3> QED  BY <2>1, <2>a, <3>2
  <2>6. CASE CleanUp
    BY <1>0, <2>0, <2>1, <2>6 DEF CleanUp, OneOutstanding, factory, history, Whole
  <2> QED  BY <1>9, <2>1, <2>3, <2>4, <2>5, <2>6 DEF Run
<1>10. CASE UNCHANGED vars
  BY <1>0, <1>10 DEF OneOutstanding, CurrentImage, vars, factory, reader,
                     history, Whole
<1> QED  BY <1>1, <1>2, <1>3, <1>4, <1>5, <1>6, <1>7, <1>8, <1>9, <1>10
         DEF Next, User, EventLoop

LEMMA ImageInit == Init => IInv
<1>1. Init => ResultWhole /\ CurrentImage /\ WorkerOnCurrentFile
  BY DEF Init, ResultWhole, CurrentImage, WorkerOnCurrentFile, isRunning
<1>2. Init => OneOutstanding
  <2> SUFFICES ASSUME Init PROVE OneOutstanding
    OBVIOUS
  <2>1. Pending(posted) = {}  BY DEF Init, Pending
  <2> QED  BY <2>1 DEF Init, OneOutstanding
<1> QED  BY <1>1, <1>2, TypeInit, AccountingInit DEF IInv

LEMMA ImageInductive ==
  ASSUME MemImageColors \subseteq {3}
  PROVE  IInv /\ [Next]_vars => IInv'
BY TypeStep, AccountingStep, WorkerStep, ResultWholeStep, ImageStep DEF IInv

\* If LibRaw's memory images have three channels, the image that answers a
\* call which overtook no other is the whole image of the file it named.
THEOREM CurrentImageCorrect ==
  ASSUME MemImageColors \subseteq {3}
  PROVE  Spec => []CurrentImage
<1>1. IInv => CurrentImage  BY DEF IInv
<1>2. SafeSpec => []CurrentImage
  BY <1>1, ImageInit, ImageInductive, PTL DEF SafeSpec
<1> QED  BY <1>2, PTL DEF Spec

-----------------------------------------------------------------------------
(* The factory implements LoadRequests.                                    *)

LEMMA RequestsStep ==
  TypeOK /\ AnswerAccounting /\ [Next]_vars => [Requests!Next]_Requests!vars
<1> SUFFICES ASSUME TypeOK, AnswerAccounting, [Next]_vars
             PROVE  [Requests!Next]_Requests!vars
  OBVIOUS
<1> DEFINE open == gui \notin {"closing", "gone"}
<1>0. posted \in Seq(Events) /\ asked \in Nat /\ answered \in Nat
  BY DEF TypeOK
\* What leaves the two counters and the factory's existence alone stutters.
<1>a. ASSUME UNCHANGED <<asked, answered>>, open' <=> open
      PROVE  [Requests!Next]_Requests!vars
  <2>1. open' = open  BY <1>a
  <2> QED  BY <1>a, <2>1, Zenon DEF Requests!vars
<1>1. ASSUME NEW f \in Files, SetFile(f)
      PROVE  [Requests!Next]_Requests!vars
  <2>1. asked' = asked + 1 /\ gui = "idle" /\ gui' \in {"idle", "waiting"}
    BY <1>1 DEF SetFile, OpenFile
  <2>2. answered' = answered \/ answered' = answered + 1
    BY <1>1, OpenFileAccounting DEF SetFile
  <2>3. open /\ open' = open
    BY <2>1
  <2>4. Requests!Ask \/ Requests!AskAndAnswer
    BY <2>1, <2>2, <2>3, Zenon DEF Requests!Ask, Requests!AskAndAnswer
  <2> QED  BY <2>4 DEF Requests!Next
<1>2. CASE WaitDone
  <2>1. /\ gui = "waiting" /\ gui' = "idle" /\ asked' = asked
        /\ answered' = answered \/ answered' = answered + 1
    <3>1. cvFileName \in Files  BY DEF TypeOK
    <3> QED  BY <1>2, <3>1, OpenFileAccounting DEF WaitDone
  <2>2. CASE answered' = answered  BY <1>a, <2>1, <2>2
  <2>3. CASE answered' = answered + 1
    <3>1. answered < asked
      BY <1>0, <2>1, PendingFinite DEF AnswerAccounting, One
    <3>2. open /\ open' = open  BY <2>1
    <3>3. Requests!Answer  BY <2>1, <2>3, <3>1, <3>2, Zenon DEF Requests!Answer
    <3> QED  BY <3>3 DEF Requests!Next
  <2> QED  BY <2>1, <2>2, <2>3
<1>3. CASE Recycle
  <2>1. /\ gui = "recycling" /\ gui' = "idle" /\ asked' = asked
        /\ answered' = answered + 1
    BY <1>3 DEF Recycle
  <2>2. answered < asked
    BY <1>0, <2>1, PendingFinite DEF AnswerAccounting, One
  <2>3. open /\ open' = open  BY <2>1
  <2>4. Requests!Answer  BY <2>1, <2>2, <2>3, Zenon DEF Requests!Answer
  <2> QED  BY <2>4 DEF Requests!Next
<1>4. CASE Destroy
  <2>1. gui = "idle" /\ gui' \in {"closing", "gone"}
        /\ UNCHANGED <<asked, answered>>
    BY <1>4 DEF Destroy, history
  <2>2. open /\ open' = FALSE  BY <2>1
  <2>3. Requests!Close  BY <2>1, <2>2, Zenon DEF Requests!Close
  <2> QED  BY <2>3 DEF Requests!Next
<1>5. CASE \/ ScaleImage \/ ReEmitProgress \/ RawImageLoaded \/ CopyImage
           \/ DestroyDone
  BY <1>a, <1>5 DEF ScaleImage, ReEmitProgress, RawImageLoaded, CopyImage,
                    DestroyDone, history
<1>6. CASE Run
  <2>1. UNCHANGED <<gui, history>>
    BY <1>6 DEF Run, Begin, Aborted, Stage, MakeImage, Bitmap, CopyRow,
                RowsDone, Report, CleanUp, guiSide
  <2> QED  BY <1>a, <2>1 DEF history
<1>7. CASE UNCHANGED vars
  BY <1>a, <1>7 DEF vars, history
<1> QED  BY <1>1, <1>2, <1>3, <1>4, <1>5, <1>6, <1>7 DEF Next, User, EventLoop

\* Seen from its clients, the factory only ever takes a request, or answers
\* one that is not answered, or goes away; the safety part of the promise
\* AnswersEveryRequest states.
THEOREM FactoryImplementsRequests == SafeSpec => Requests!SafeSpec
<1>1. Init => Requests!Init
  <2> SUFFICES ASSUME Init PROVE Requests!Init
    OBVIOUS
  <2>1. gui = "idle" /\ asked = 0 /\ answered = 0  BY DEF Init
  <2>2. (gui \notin {"closing", "gone"}) = TRUE  BY <2>1
  <2> QED  BY <2>1, <2>2, Zenon DEF Requests!Init
<1>2. Init => TypeOK /\ AnswerAccounting  BY TypeInit, AccountingInit
<1>3. TypeOK /\ AnswerAccounting /\ [Next]_vars => (TypeOK /\ AnswerAccounting)'
  BY TypeStep, AccountingStep
<1> QED
  BY <1>1, <1>2, <1>3, RequestsStep, PTL DEF SafeSpec, Requests!SafeSpec
-----------------------------------------------------------------------------
(* The progress bar.                                                       *)

LEMMA ResetStep ==
  TypeOK /\ ResetPrecedesResult /\ [Next]_vars => ResetPrecedesResult'
<1> SUFFICES ASSUME TypeOK, ResetPrecedesResult, [Next]_vars
             PROVE  ResetPrecedesResult'
  OBVIOUS
<1> USE DEF ResetPrecedesResult, Settled
<1>0. posted \in Seq(Events) /\ Len(posted) \in Nat
  BY LenProperties DEF TypeOK
<1>a. ASSUME UNCHANGED <<posted, bar>>,
             thread' \in {"idle", "cleanup"} => thread \in {"idle", "cleanup"}
      PROVE  ResetPrecedesResult'
  BY <1>a
<1>b. ASSUME posted' = posted, bar' = "full" \/ bar' = bar, thread' = thread
      PROVE  ResetPrecedesResult'
  BY <1>b
<1>1. ASSUME NEW f \in Files, OpenFile(f)
      PROVE  ResetPrecedesResult'
  <2>1. posted' = posted  BY <1>1 DEF OpenFile
  <2>2. CASE ReadFlat(f)
    <3>1. bar' = "full" /\ thread' = thread  BY <2>2 DEF ReadFlat
    <3> QED  BY <1>b, <2>1, <3>1
  <2>3. CASE ReadRaw(f)
    <3>1. thread' = "begin"  BY <2>3 DEF ReadRaw
    <3> QED  BY <3>1
  <2>4. CASE BailOut(f)
    <3>1. bar' = bar /\ thread' = thread  BY <2>4 DEF BailOut
    <3> QED  BY <1>b, <2>1, <3>1
  <2> QED  BY <1>1, <2>2, <2>3, <2>4 DEF OpenFile
<1>2. ASSUME NEW f \in Files, SetFile(f)
      PROVE  ResetPrecedesResult'
  <2>1. OpenFile(f) \/ UNCHANGED <<posted, bar, thread>>
    BY <1>2 DEF SetFile
  <2> QED  BY <1>1, <1>a, <2>1
<1>3. CASE WaitDone
  <2>1. cvFileName \in Files  BY DEF TypeOK
  <2> QED  BY <1>1, <1>3, <2>1 DEF WaitDone
<1>4. CASE \/ ScaleImage \/ Destroy \/ CopyImage \/ Recycle \/ DestroyDone
  BY <1>a, <1>4 DEF ScaleImage, Destroy, CopyImage, Recycle, DestroyDone
<1>5. CASE ReEmitProgress \/ RawImageLoaded
  <2>1. posted # <<>> /\ posted' = Tail(posted) /\ thread' = thread
    BY <1>5 DEF ReEmitProgress, RawImageLoaded
  <2>2. /\ Len(posted') = Len(posted) - 1
        /\ \A i \in 1..Len(posted') : posted'[i] = posted[i + 1]
        /\ Len(posted) > 0
        /\ Head(posted) = posted[1]
    BY <1>0, <2>1, HeadTailProperties, EmptySeq
  <2>3. CASE thread \notin {"idle", "cleanup"}
    BY <2>1, <2>3
  <2>4. CASE thread \in {"idle", "cleanup"} /\ Len(posted) > 2
    BY <1>0, <2>2, <2>4
  <2>5. CASE thread \in {"idle", "cleanup"} /\ Len(posted) = 2
    <3>1. posted[1] = Progress("start") /\ posted[2].sig = "finished"
      BY <2>5
    <3>2. posted[1].sig = "progress" /\ posted[1].value = "start"
      BY <3>1 DEF Progress
    <3>3. bar' = "start"
      BY <1>5, <2>2, <3>2 DEF ReEmitProgress, RawImageLoaded
    <3> QED  BY <2>2, <2>5, <3>1, <3>3
  <2>6. CASE thread \in {"idle", "cleanup"} /\ Len(posted) = 1
    <3>1. posted[1].sig = "finished" /\ Settled  BY <2>6
    <3>2. bar' = bar
      BY <1>5, <2>2, <3>1 DEF ReEmitProgress, RawImageLoaded
    <3> QED  BY <2>2, <2>6, <3>1, <3>2
  <2> QED  BY <1>0, <2>2, <2>3, <2>4, <2>5, <2>6
<1>6. CASE Run
  <2>1. bar' = bar
    BY <1>6 DEF Run, Begin, Aborted, Stage, MakeImage, Bitmap, CopyRow,
                RowsDone, Report, CleanUp, guiSide
  <2>2. CASE \/ Begin \/ Aborted \/ Stage("open", "unpack")
             \/ Stage("unpack", "process") \/ Stage("process", "memimage")
             \/ MakeImage \/ Bitmap \/ CopyRow \/ RowsDone
    <3>1. thread' \notin {"idle", "cleanup"}
      BY <2>2 DEF Begin, Aborted, Stage, MakeImage, Bitmap, CopyRow, RowsDone
    <3> QED  BY <3>1
  <2>3. CASE Report
    <3> DEFINE b == thread = "loaded"
               r == posted \o <<Progress("start"), Finished(b)>>
    <3>1. b \in BOOLEAN  OBVIOUS
    <3>2. posted' = r  BY <2>3 DEF Report
    <3>3. Finished(b).sig = "finished"  BY <3>1, EventTypes
    <3>4. /\ Len(r) = Len(posted) + 2
          /\ r[Len(posted) + 1] = Progress("start")
          /\ r[Len(posted) + 2] = Finished(b)
      BY <1>0, <3>1, PendingReport
    <3> HIDE DEF b, r
    <3> QED  BY <1>0, <3>2, <3>3, <3>4
  <2>4. CASE CleanUp
    <3>1. thread = "cleanup" /\ posted' = posted  BY <2>4 DEF CleanUp
    <3> QED  BY <1>a, <2>1, <3>1
  <2> QED  BY <1>6, <2>2, <2>3, <2>4 DEF Run
<1>7. CASE UNCHANGED vars
  BY <1>a, <1>7 DEF vars
<1> QED  BY <1>2, <1>3, <1>4, <1>5, <1>6, <1>7 DEF Next, User, EventLoop

\* The bar ends at rest however many aborted runs had their rows posted.
THEOREM BarComesToRest == Spec => []BarSettles
<1>1. Init => TypeOK /\ ResetPrecedesResult
  <2>1. Init => ResetPrecedesResult
    BY DEF Init, ResetPrecedesResult, Settled
  <2> QED  BY <2>1, TypeInit
<1>2. TypeOK /\ ResetPrecedesResult /\ [Next]_vars
        => (TypeOK /\ ResetPrecedesResult)'
  BY TypeStep, ResetStep
<1>3. ResetPrecedesResult => BarSettles
  BY DEF ResetPrecedesResult, BarSettles, Settled, isRunning
<1>4. SafeSpec => []BarSettles
  BY <1>1, <1>2, <1>3, PTL DEF SafeSpec
<1> QED  BY <1>4, PTL DEF Spec

-----------------------------------------------------------------------------
(* The main window.                                                        *)

\* Every step of the window is a step of the factory, or leaves it alone.
LEMMA MainIsFactoryStep == [MainNext]_mainVars => [Next]_vars
<1>1. ASSUME NEW f \in Files, Clicked(f)  PROVE Next
  BY <1>1, Zenon DEF Clicked, Next, User
<1>2. CASE MainFactoryStep  BY <1>2, Zenon DEF MainFactoryStep, Next
<1>3. CASE LoadPreview  BY <1>3, Zenon DEF LoadPreview, Next, User, mainVars
<1>4. CASE MainExit         BY <1>4, Zenon DEF MainExit, Next, User
<1>5. CASE MainReaderStep   BY <1>5, Zenon DEF MainReaderStep, Next
<1>6. CASE UNCHANGED mainVars  BY <1>6, Zenon DEF mainVars
<1> QED  BY <1>1, <1>2, <1>3, <1>4, <1>5, <1>6, Zenon DEF MainNext

\* What holds of the factory holds of the window's.
THEOREM MainImplementsFactory == MainSafeSpec => SafeSpec
<1>1. MainInit => Init  BY DEF MainInit
<1> QED  BY <1>1, MainIsFactoryStep, PTL DEF MainSafeSpec, SafeSpec

\* The window's clicks are served as the abstract specification of the
\* factory's requests promises (clicked(), setFile(), loadPreview()).
THEOREM MainImplementsRequests == MainSafeSpec => Requests!SafeSpec
  BY MainImplementsFactory, FactoryImplementsRequests

LEMMA MainTypeStep == MainTypeOK /\ [MainNext]_mainVars => MainTypeOK'
<1> SUFFICES ASSUME MainTypeOK, [MainNext]_mainVars  PROVE MainTypeOK'
  OBVIOUS
<1>1. TypeOK'  BY MainIsFactoryStep, TypeStep DEF MainTypeOK
<1>2. CASE LoadPreview
  <2>1. window' = "idle"  BY <1>2 DEF LoadPreview
  <2>2. labelPreview' = labelPreview \/ labelPreview' = cvResizedImage'
    BY <1>2, Zenon DEF LoadPreview
  <2>3. cvResizedImage' \in Images  BY <1>1 DEF TypeOK
  <2> QED  BY <1>1, <2>1, <2>2, <2>3 DEF MainTypeOK
<1>3. CASE ~LoadPreview
  <2>1. labelPreview' = labelPreview
        /\ window' \in {window, "loading"}
    BY <1>3 DEF MainNext, Clicked, MainFactoryStep, MainExit, MainReaderStep, MainEmitted, mainVars
  <2> QED  BY <1>1, <2>1 DEF MainTypeOK
<1> QED  BY <1>2, <1>3

\* The window's variables keep their types, for every value of the constants.
THEOREM MainTypeCorrect == MainSpec => []MainTypeOK
<1>1. MainInit => MainTypeOK
  BY TypeInit, ImageTypes DEF MainInit, MainTypeOK
<1>2. MainSafeSpec => []MainTypeOK
  BY <1>1, MainTypeStep, PTL DEF MainSafeSpec
<1> QED  BY <1>2, PTL DEF MainSpec

LEMMA PreviewStep ==
  IInv /\ PreviewOfSelection /\ [MainNext]_mainVars => PreviewOfSelection'
<1> SUFFICES ASSUME IInv, PreviewOfSelection, [MainNext]_mainVars,
                    clean', asked' = answered', gui' = "idle",
                    window' = "idle", cvIsValidImage'
             PROVE  labelPreview' = Whole(cvFileName')
  BY DEF PreviewOfSelection
<1>0. /\ TypeOK /\ AnswerAccounting /\ OneOutstanding /\ CurrentImage
      /\ asked \in Nat /\ answered \in Nat
  BY DEF IInv, TypeOK
\* A step that emits imageLoaded() ends with its slot running, not idle.
<1>a. MainEmitted => answered' = answered  BY DEF MainEmitted
<1>1. ASSUME NEW f \in Files, Clicked(f)  PROVE FALSE
  <2>1. asked' = asked + 1 /\ clean' = (asked = answered) /\ answered' = answered
    BY <1>1, <1>a DEF Clicked, SetFile
  <2>2. asked = answered /\ asked + 1 = answered  BY <2>1, Zenon
  <2> QED  BY <1>0, <2>2
<1>2. CASE MainFactoryStep
  <2>1. EventLoop /\ answered' = answered /\ labelPreview' = labelPreview
    BY <1>2, <1>a DEF MainFactoryStep
  <2>2. asked' = asked /\ clean' = clean /\ cvFileName' = cvFileName
    BY <2>1 DEF EventLoop, WaitDone, ReEmitProgress, RawImageLoaded, CopyImage,
                Recycle, DestroyDone, factory, history
  <2>3. asked = answered /\ clean  BY <2>1, <2>2
  <2>4. gui \notin {"waiting", "copying", "recycling"}
    BY <1>0, <2>3, Places
  <2>5. ReEmitProgress
    BY <2>1, <2>4 DEF EventLoop, WaitDone, RawImageLoaded, CopyImage, Recycle,
                      DestroyDone
  <2>6. gui = "idle" /\ cvIsValidImage' = cvIsValidImage
    BY <2>5 DEF ReEmitProgress, factory
  <2>7. window = "idle"  BY <1>2 DEF MainFactoryStep
  <2> QED  BY <2>1, <2>2, <2>3, <2>6, <2>7 DEF PreviewOfSelection, Whole
<1>3. CASE LoadPreview
  <2>1. CASE cvIsValidImage
    <3>1. ScaleImage /\ labelPreview' = cvResizedImage'
      BY <1>3, <2>1 DEF LoadPreview
    <3>2. /\ gui = "idle" /\ cvResizedImage' = cvOriginalImage
          /\ clean' = clean /\ cvFileName' = cvFileName
      BY <3>1 DEF ScaleImage, history
    <3>3. cvOriginalImage = Whole(cvFileName)
      BY <1>0, <2>1, <3>2 DEF CurrentImage
    <3> QED  BY <3>1, <3>2, <3>3 DEF Whole
  <2>2. CASE ~cvIsValidImage
    <3>1. cvIsValidImage' = cvIsValidImage
      BY <1>3, <2>2 DEF LoadPreview, vars, factory
    <3> QED  BY <2>2, <3>1
  <2> QED  BY <2>1, <2>2
<1>4. CASE MainExit
  <2>1. gui' # "idle"  BY <1>4 DEF MainExit, Destroy
  <2> QED  BY <2>1
<1>5. CASE MainReaderStep \/ UNCHANGED mainVars
  <2>1. UNCHANGED <<factory, gui, history, labelPreview, window>>
    BY <1>5 DEF MainReaderStep, Run, Begin, Aborted, Stage, MakeImage, Bitmap,
                CopyRow, RowsDone, Report, CleanUp, guiSide, mainVars, vars
  <2>2. /\ cvIsValidImage' = cvIsValidImage /\ cvFileName' = cvFileName
        /\ asked' = asked /\ answered' = answered /\ clean' = clean
    BY <2>1 DEF factory, history
  <2> QED  BY <2>1, <2>2 DEF PreviewOfSelection, Whole
<1> QED  BY <1>1, <1>2, <1>3, <1>4, <1>5 DEF MainNext

\* If LibRaw's images have three channels, the preview is the selected file's
\* once all is answered and drawn, unless its click overtook another.
THEOREM PreviewCorrect ==
  ASSUME MemImageColors \subseteq {3}
  PROVE  MainSpec => []PreviewOfSelection
<1>1. MainInit => IInv /\ PreviewOfSelection
  BY ImageInit DEF MainInit, Init, PreviewOfSelection
<1>2. IInv /\ PreviewOfSelection /\ [MainNext]_mainVars
      => (IInv /\ PreviewOfSelection)'
  BY MainIsFactoryStep, ImageInductive, PreviewStep
<1>3. MainSafeSpec => []PreviewOfSelection
  BY <1>1, <1>2, PTL DEF MainSafeSpec
<1> QED  BY <1>3, PTL DEF MainSpec

-----------------------------------------------------------------------------
(* The plugin that saves JPEGs.                                            *)

-----------------------------------------------------------------------------
(* A free name exists.                                                     *)

LEMMA LeastIn ==
  ASSUME NEW R, IsWellFoundedOn(R, Nat),
         \A x, y \in Nat : x < y => <<x, y>> \in R,
         NEW T \in SUBSET Nat, T # {}
  PROVE  \E x \in T : \A y \in T : x <= y
<1>1. T \subseteq Nat  OBVIOUS
<1>2. \E x \in T : \A y \in T : ~ (<<y, x>> \in R)
  BY ONLY <1>1, IsWellFoundedOn(R, Nat), T # {}, WFMin
<1>3. PICK x \in T : \A y \in T : ~ (<<y, x>> \in R)  BY <1>2
<1>4. \A y \in T : ~(y < x)  BY <1>3
<1> QED  BY <1>4

LEMMA LeastNatural ==
  ASSUME NEW T \in SUBSET Nat, T # {}
  PROVE  \E x \in T : \A y \in T : x <= y
<1>1. \A x, y \in Nat : x < y => <<x, y>> \in OpToRel(<, Nat)  BY DEF OpToRel
<1> QED  BY <1>1, NatLessThanWellFounded, LeastIn, Zenon

\* One of the first n + 1 numbered names of a stem is free if n names are not.
LEMMA FreeNumber ==
  ASSUME NEW D, IsFiniteSet(D), NEW s
  PROVE  \E n \in 2..Cardinality(D) + 2 : <<s, n>> \notin D
<1> DEFINE N == Cardinality(D)
           f == [i \in 2..N + 2 |-> <<s, i>>]
<1>0. N \in Nat  BY FS_CardinalityType
<1>1. SUFFICES ASSUME \A n \in 2..N + 2 : <<s, n>> \in D  PROVE FALSE
  OBVIOUS
<1>2. f \in Injection(2..N + 2, D)
  <2>1. f \in [2..N + 2 -> D]  BY <1>1
  <2>2. ASSUME NEW a \in 2..N + 2, NEW b \in 2..N + 2, f[a] = f[b]  PROVE a = b
    BY <2>2
  <2> QED  BY <2>1, <2>2 DEF Injection, IsInjective
<1>3. Cardinality(2..N + 2) <= N  BY <1>2, FS_Injection
<1> HIDE DEF N, f
<1>4. 2 \in Int /\ N + 2 \in Int /\ ~(2 > N + 2)  BY <1>0
<1>5. Cardinality(2..N + 2) = IF 2 > N + 2 THEN 0 ELSE (N + 2) - 2 + 1
  BY <1>4, FS_Interval, Zenon
<1> QED  BY <1>0, <1>3, <1>4, <1>5

\* The name that is chosen is one, and it is not taken.
LEMMA NewNameIsFree ==
  ASSUME IsFiniteSet(DOMAIN disk), NEW s \in Stems
  PROVE  /\ NewName(s) \in Targets
         /\ NewName(s) \notin DOMAIN disk
         /\ NewName(s)[1] = s
<1> DEFINE D == DOMAIN disk
           N == Cardinality(D)
           Free == {n \in 2..N + 2 : <<s, n>> \notin D}
           P(n) == /\ <<s, n>> \notin D
                   /\ \A i \in 2..n - 1 : <<s, i>> \in D
<1>0. N \in Nat  BY FS_CardinalityType
<1>a. \E k \in 2..N + 2 : <<s, k>> \notin D  BY FreeNumber
<1> HIDE DEF N
<1>1. CASE <<s, 1>> \notin D
  <2>1. NewName(s) = <<s, 1>>  BY <1>1 DEF NewName
  <2>2. <<s, 1>> \in Targets  BY DEF Targets
  <2> QED  BY <1>1, <2>1, <2>2
<1>2. CASE <<s, 1>> \in D
  <2>1. Free \in SUBSET Nat /\ Free # {}
    BY <1>0, <1>a
  <2>2. PICK m \in Free : \A y \in Free : m <= y  BY <2>1, LeastNatural
  <2>3. P(m) /\ m \in 2..N + 2
    <3>1. ASSUME NEW i \in 2..m - 1  PROVE <<s, i>> \in D
      <4>1. i \in 2..N + 2 /\ ~(m <= i)  BY <1>0, <2>2
      <4> QED  BY <2>2, <4>1
    <3> QED  BY <2>2, <3>1
  <2> DEFINE n == CHOOSE k \in 2..N + 2 : P(k)
  <2>4. n \in 2..N + 2 /\ P(n)  BY <2>3
  <2>5. NewName(s) = <<s, n>>  BY <1>2 DEF NewName, N
  <2> HIDE DEF n
  <2>6. n \in Nat \ {0}  BY <1>0, <2>4
  <2>7. <<s, n>> \in Targets  BY <2>6 DEF Targets
  <2> QED  BY <2>4, <2>5, <2>7
<1> QED  BY <1>1, <1>2

-----------------------------------------------------------------------------
(* Types.                                                                  *)

\* Every step of the plugin is a step of its factory, or leaves it alone.
LEMMA SaverIsFactoryStep == [SaveNext]_saveVars => [Next]_vars
<1>1. CASE (\E f \in Files : SetIndex(f)) \/ RefreshFileBrowser
  BY <1>1, Zenon DEF SetIndex, RefreshFileBrowser
<1>2. CASE RunPlugin    BY <1>2, Zenon DEF RunPlugin, Next, User
<1>3. CASE SaveFactoryStep  BY <1>3, Zenon DEF SaveFactoryStep, Next
<1>4. CASE SaveReaderStep   BY <1>4, Zenon DEF SaveReaderStep, Next
<1>5. CASE ImageLoaded
  BY <1>5, Zenon DEF ImageLoaded, Refuse, SavePicture, SaveBreaksOff
<1>6. CASE CopyExif \/ Throw  BY <1>6, Zenon DEF CopyExif, Throw
<1>7. CASE SaveExit  BY <1>7, Zenon DEF SaveExit, Next, User
<1>8. CASE UNCHANGED saveVars  BY <1>8, Zenon DEF saveVars
<1> QED
  BY <1>1, <1>2, <1>3, <1>4, <1>5, <1>6, <1>7, <1>8, Zenon DEF SaveNext

\* What the plugin relies on besides its types: its slot runs while the GUI
\* thread is outside the factory; the factory's file is what was wanted; the
\* disk is finite; a picture that waits for its header is there.
SlotInv ==
  /\ plugin # "idle" => gui = "idle"
  /\ wanted # NoName => cvFileName = wanted
  /\ IsFiniteSet(DOMAIN disk)
  /\ plugin \in {"copying", "dead"} =>
       target \in DOMAIN disk /\ disk[target].exif = Bare

\* A step writes a picture under a free name, or a header, or leaves the disk.
Writes(p) == /\ Write(p)
             /\ plugin = "loaded" /\ plugin' \in {"copying", "idle"}
             /\ UNCHANGED <<vars, cvCurrentIndex, wanted>>

Steps ==
  \/ \E b \in BOOLEAN, p \in {cvOriginalImage, NoImage} :
       /\ Writes(Picture(p, b)) /\ cvIsValidImage
       /\ b => p = cvOriginalImage
       /\ plugin' = IF p = NoImage THEN "idle" ELSE "copying"
  \/ CopyExif
  \/ /\ UNCHANGED <<disk, target>>
     /\ plugin \in {"copying", "dead"} <=> plugin' \in {"copying", "dead"}
     /\ plugin # "idle" => UNCHANGED cvFileName

LEMMA SaveCases == [SaveNext]_saveVars => Steps
<1> SUFFICES ASSUME [SaveNext]_saveVars  PROVE Steps
  OBVIOUS
<1>1. CASE SavePicture
  <2>1. Writes(Picture(cvOriginalImage, TRUE)) /\ cvIsValidImage
        /\ plugin' = IF cvOriginalImage = NoImage THEN "idle" ELSE "copying"
    BY <1>1 DEF SavePicture, Writes
  <2> QED  BY <2>1, Zenon DEF Steps
<1>2. CASE SaveBreaksOff
  <2>1. Writes(Picture(NoImage, FALSE)) /\ cvIsValidImage /\ plugin' = "idle"
    BY <1>2 DEF SaveBreaksOff, Writes
  <2> QED  BY <2>1, Zenon DEF Steps
<1>3. CASE CopyExif  BY <1>3, Zenon DEF Steps
<1>4. CASE \/ (\E f \in Files : SetIndex(f)) \/ RefreshFileBrowser
           \/ RunPlugin \/ SaveFactoryStep \/ SaveExit
  BY <1>4 DEF SetIndex, RefreshFileBrowser, RunPlugin, SaveFactoryStep, SaveExit,
              SaveEmitted, Steps, saver
<1>5. CASE SaveReaderStep \/ Throw \/ UNCHANGED saveVars \/ (\E l \in Outcomes : Refuse(l))
  <2>1. UNCHANGED <<disk, target, cvFileName>>
    BY <1>5 DEF SaveReaderStep, Throw, saveVars, saver, Refuse, Run, Begin, Aborted,
                Stage, MakeImage, Bitmap, CopyRow, RowsDone, Report, CleanUp,
                guiSide, factory, vars
  <2>2. plugin \in {"copying", "dead"} <=> plugin' \in {"copying", "dead"}
    BY <1>5 DEF SaveReaderStep, Throw, saveVars, saver, Refuse
  <2> QED  BY <2>1, <2>2 DEF Steps
<1> QED  BY <1>1, <1>2, <1>3, <1>4, <1>5 DEF SaveNext, ImageLoaded, Outcomes

\* Writing under a free name keeps what is there.
LEMMA WriteFact ==
  ASSUME SaveTypeOK, SlotInv, NEW p \in Saved, Writes(p)
  PROVE  /\ target' \in Targets /\ target' \notin DOMAIN disk
         /\ target'[1] = Stem[cvFileName]
         /\ DOMAIN disk' = DOMAIN disk \cup {target'}
         /\ disk'[target'] = p
         /\ \A t \in DOMAIN disk : disk'[t] = disk[t]
<1> DEFINE t == NewName(Stem[cvFileName])
<1>1. cvFileName \in Files  BY DEF SaveTypeOK, TypeOK
<1>2. Stem[cvFileName] \in Stems  BY <1>1, StemAssumption
<1>3. IsFiniteSet(DOMAIN disk)  BY DEF SlotInv
<1>4. t \in Targets /\ t \notin DOMAIN disk /\ t[1] = Stem[cvFileName]
  BY <1>2, <1>3, NewNameIsFree
<1>5. /\ target' = t
      /\ disk' = [u \in DOMAIN disk \cup {t} |-> IF u = t THEN p ELSE disk[u]]
  BY DEF Writes, Write
<1> HIDE DEF t
<1> QED  BY <1>4, <1>5

LEMMA SavedTypes ==
  ASSUME SaveTypeOK, NEW b \in BOOLEAN, NEW p \in {cvOriginalImage, NoImage}
  PROVE  Picture(p, b) \in Saved
<1>1. p \in Images /\ wanted \in Files
  BY ImageTypes DEF SaveTypeOK, TypeOK
<1>2. (clean /\ b) \in BOOLEAN  OBVIOUS
<1>3. Bare \in Files \cup {Bare}  OBVIOUS
<1> QED  BY <1>1, <1>2, <1>3, Zenon DEF Picture, Saved

LEMMA CopyFact ==
  ASSUME SaveTypeOK, SlotInv, CopyExif
  PROVE  /\ DOMAIN disk' = DOMAIN disk /\ target' = target
         /\ target \in DOMAIN disk /\ disk[target].exif = Bare
         /\ disk'[target] \in Saved
         /\ disk'[target].exif = cvFileName
         /\ disk'[target].pixels = disk[target].pixels
         /\ disk'[target].wanted = disk[target].wanted
         /\ disk'[target].sure = disk[target].sure
         /\ \A t \in DOMAIN disk : t # target => disk'[t] = disk[t]
<1>1. target \in DOMAIN disk /\ disk[target].exif = Bare
  BY DEF SlotInv, CopyExif
<1>2. disk[target] \in Saved /\ cvFileName \in Files
  BY <1>1 DEF SaveTypeOK, TypeOK
<1>3. /\ disk' = [disk EXCEPT ![target] = [disk[target] EXCEPT !.exif = cvFileName]]
      /\ target' = target
  BY DEF CopyExif
<1>4. [disk[target] EXCEPT !.exif = cvFileName] \in Saved
  BY <1>2 DEF Saved
<1> QED  BY <1>1, <1>2, <1>3, <1>4 DEF Saved

LEMMA DiskTypeStep ==
  SaveTypeOK /\ SlotInv /\ [SaveNext]_saveVars =>
    /\ target' \in Targets
    /\ DOMAIN disk' \subseteq Targets
    /\ \A t \in DOMAIN disk' : disk'[t] \in Saved
<1> SUFFICES ASSUME SaveTypeOK, SlotInv, Steps
             PROVE  /\ target' \in Targets
                    /\ DOMAIN disk' \subseteq Targets
                    /\ \A t \in DOMAIN disk' : disk'[t] \in Saved
  BY SaveCases
<1>1. ASSUME NEW b \in BOOLEAN, NEW p \in {cvOriginalImage, NoImage},
             Writes(Picture(p, b))
      PROVE  /\ target' \in Targets
             /\ DOMAIN disk' \subseteq Targets
             /\ \A t \in DOMAIN disk' : disk'[t] \in Saved
  <2>1. Picture(p, b) \in Saved  BY SavedTypes
  <2> QED  BY <1>1, <2>1, WriteFact DEF SaveTypeOK
<1>2. CASE CopyExif
  BY <1>2, CopyFact DEF SaveTypeOK
<1>3. CASE UNCHANGED <<disk, target>>  BY <1>3 DEF SaveTypeOK
<1> QED  BY <1>1, <1>2, <1>3 DEF Steps

LEMMA SaveTypeStep ==
  SaveTypeOK /\ SlotInv /\ [SaveNext]_saveVars => SaveTypeOK'
<1> SUFFICES ASSUME SaveTypeOK, SlotInv, [SaveNext]_saveVars
             PROVE  SaveTypeOK'
  OBVIOUS
<1>1. TypeOK'  BY SaverIsFactoryStep, TypeStep DEF SaveTypeOK
<1>2. cvCurrentIndex' \in Files /\ wanted' \in Files
  <2>1. NoName \in Files  BY DEF Files
  <2> QED
    BY <2>1 DEF SaveTypeOK, SaveNext, SetIndex, RefreshFileBrowser, RunPlugin, SaveFactoryStep,
           SaveReaderStep,
           ImageLoaded, Refuse, SavePicture, SaveBreaksOff, CopyExif, Throw,
           SaveExit, saver, saveVars
<1>3. fresh' \in BOOLEAN
  BY Zenon DEF SaveTypeOK, SaveNext, SetIndex, RefreshFileBrowser, RunPlugin, SaveFactoryStep,
           SaveReaderStep,
         ImageLoaded, Refuse, SavePicture, SaveBreaksOff, CopyExif, Throw,
         SaveExit, saver, saveVars
<1>4. plugin' \in {"idle", "loaded", "copying", "dead"}
  BY DEF SaveTypeOK, SaveNext, SetIndex, RefreshFileBrowser, RunPlugin, SaveFactoryStep,
           SaveReaderStep,
         ImageLoaded, Refuse, SavePicture, SaveBreaksOff, CopyExif, Throw,
         SaveExit, SaveEmitted, saver, saveVars
<1>5. console' \in {"empty", "processing", "saving"} \cup Outcomes
  BY DEF SaveTypeOK, SaveNext, SetIndex, RefreshFileBrowser, RunPlugin, SaveFactoryStep,
           SaveReaderStep,
         ImageLoaded, Refuse, SavePicture, SaveBreaksOff, CopyExif, Throw,
         SaveExit, saver, saveVars, Outcomes
<1> QED  BY <1>1, <1>2, <1>3, <1>4, <1>5, DiskTypeStep DEF SaveTypeOK

-----------------------------------------------------------------------------
(* The slot.                                                               *)

LEMMA SlotGui ==
  SlotInv /\ [SaveNext]_saveVars => (plugin' # "idle" => gui' = "idle")
<1> SUFFICES ASSUME SlotInv, [SaveNext]_saveVars, plugin' # "idle"
             PROVE  gui' = "idle"
  OBVIOUS
<1>0. plugin # "idle" => gui = "idle"  BY DEF SlotInv
<1>1. CASE RunPlugin
  <2>1. PICK f \in Files : SetFile(f)  BY <1>1 DEF RunPlugin
  <2>2. answered' # answered  BY <1>1 DEF RunPlugin, SaveEmitted
  <2> QED  BY <2>1, <2>2 DEF SetFile, OpenFile
<1>2. CASE SaveFactoryStep
  <2>1. EventLoop /\ answered' # answered  BY <1>2 DEF SaveFactoryStep, SaveEmitted
  <2>2. WaitDone \/ Recycle
    BY <2>1 DEF EventLoop, ReEmitProgress, RawImageLoaded, CopyImage,
                DestroyDone, history
  <2> QED  BY <2>2 DEF WaitDone, OpenFile, Recycle
<1>3. CASE SaveReaderStep
  <2>1. gui' = gui /\ plugin' = plugin
    BY <1>3 DEF SaveReaderStep, saver, Run, Begin, Aborted, Stage, MakeImage, Bitmap,
                CopyRow, RowsDone, Report, CleanUp, guiSide
  <2> QED  BY <1>0, <2>1
<1>4. CASE ImageLoaded \/ CopyExif \/ Throw
  <2>1. plugin # "idle" /\ gui' = gui
    BY <1>4 DEF ImageLoaded, Refuse, SavePicture, SaveBreaksOff, CopyExif,
                Throw, vars
  <2> QED  BY <1>0, <2>1
<1>5. CASE (\E f \in Files : SetIndex(f)) \/ RefreshFileBrowser \/ UNCHANGED saveVars
  BY <1>0, <1>5 DEF SetIndex, RefreshFileBrowser, saveVars, saver, vars
<1>6. CASE SaveExit  BY <1>6 DEF SaveExit, saver
<1> QED  BY <1>1, <1>2, <1>3, <1>4, <1>5, <1>6 DEF SaveNext

LEMMA SlotWanted ==
  SlotInv /\ [SaveNext]_saveVars => (wanted' # NoName => cvFileName' = wanted')
<1> SUFFICES ASSUME SlotInv, [SaveNext]_saveVars
             PROVE  wanted' # NoName => cvFileName' = wanted'
  OBVIOUS
<1>1. CASE RunPlugin
  <2>1. PICK f \in Files : /\ fresh \/ cvCurrentIndex = NoName => f = cvCurrentIndex
                           /\ SetFile(f)
    BY <1>1 DEF RunPlugin
  <2>2. cvFileName' = f  BY <2>1 DEF SetFile
  <2>3. wanted' = IF fresh THEN cvCurrentIndex ELSE NoName  BY <1>1 DEF RunPlugin
  <2> QED  BY <2>1, <2>2, <2>3
<1>2. CASE ~RunPlugin
  <2>1. wanted' = wanted
    BY <1>2 DEF SaveNext, SetIndex, RefreshFileBrowser, SaveFactoryStep, SaveReaderStep,
           ImageLoaded, Refuse,
           SavePicture, SaveBreaksOff, CopyExif, Throw, SaveExit, saver, saveVars
  <2>2. cvFileName' = cvFileName
    BY <1>2 DEF SaveNext, SetIndex, RefreshFileBrowser, SaveFactoryStep, SaveReaderStep,
           ImageLoaded, Refuse,
           SavePicture, SaveBreaksOff, CopyExif, Throw, SaveExit, saver, saveVars,
           EventLoop, WaitDone, ReEmitProgress, RawImageLoaded, CopyImage,
           Recycle, Destroy, DestroyDone, factory, vars, guiSide,
           Run, Begin, Aborted, Stage, MakeImage, Bitmap, CopyRow, RowsDone,
           Report, CleanUp
  <2> QED  BY <2>1, <2>2 DEF SlotInv
<1> QED  BY <1>1, <1>2

LEMMA SlotStep ==
  SaveTypeOK /\ SlotInv /\ [SaveNext]_saveVars => SlotInv'
<1> SUFFICES ASSUME SaveTypeOK, SlotInv, [SaveNext]_saveVars
             PROVE  SlotInv'
  OBVIOUS
<1> DEFINE Disk == /\ IsFiniteSet(DOMAIN disk)
                   /\ plugin \in {"copying", "dead"} =>
                        target \in DOMAIN disk /\ disk[target].exif = Bare
<1>0. Disk  BY DEF SlotInv
<1>1. ASSUME NEW b \in BOOLEAN, NEW p \in {cvOriginalImage, NoImage},
             Writes(Picture(p, b))
      PROVE  Disk'
  <2>1. Picture(p, b) \in Saved /\ Picture(p, b).exif = Bare
    BY SavedTypes DEF Picture
  <2>2. /\ DOMAIN disk' = DOMAIN disk \cup {target'}
        /\ disk'[target'] = Picture(p, b)
    BY <1>1, <2>1, WriteFact
  <2>3. IsFiniteSet(DOMAIN disk')  BY <1>0, <2>2, FS_AddElement
  <2> QED  BY <2>1, <2>2, <2>3
<1>2. ASSUME CopyExif  PROVE Disk'
  <2>1. plugin' = "idle" /\ DOMAIN disk' = DOMAIN disk
    BY <1>2, CopyFact DEF CopyExif
  <2> QED  BY <1>0, <2>1
<1>3. ASSUME UNCHANGED <<disk, target>>,
             plugin \in {"copying", "dead"} <=> plugin' \in {"copying", "dead"}
      PROVE  Disk'
  <2>1. disk' = disk /\ target' = target  BY <1>3
  <2>2. plugin' \in {"copying", "dead"} => plugin \in {"copying", "dead"}  BY <1>3
  <2>3. IsFiniteSet(DOMAIN disk')  BY <1>0, <2>1
  <2> QED  BY <1>0, <2>1, <2>2, <2>3
<1>4. Disk'
  <2>1. Steps  BY SaveCases
  <2> HIDE DEF Disk
  <2> QED  BY <1>1, <1>2, <1>3, <2>1, Zenon DEF Steps
<1> QED  BY <1>4, SlotGui, SlotWanted DEF SlotInv

-----------------------------------------------------------------------------
(* What is on the disk.                                                    *)

LEMMA BareStep ==
  SaveTypeOK /\ SlotInv /\ BareIsLast /\ [SaveNext]_saveVars => BareIsLast'
<1> SUFFICES ASSUME SaveTypeOK, SlotInv, BareIsLast, Steps,
                    NEW t \in DOMAIN disk', disk'[t].exif = Bare,
                    disk'[t].pixels # NoImage
             PROVE  t = target' /\ plugin' \in {"copying", "dead"}
  BY SaveCases DEF BareIsLast
<1>1. ASSUME NEW b \in BOOLEAN, NEW p \in {cvOriginalImage, NoImage},
             Writes(Picture(p, b)),
             plugin' = IF p = NoImage THEN "idle" ELSE "copying"
      PROVE  t = target' /\ plugin' \in {"copying", "dead"}
  <2>1. Picture(p, b) \in Saved /\ Picture(p, b).pixels = p
    BY SavedTypes DEF Picture
  <2>2. CASE t = target'
    <3>1. p # NoImage  BY <1>1, <2>1, <2>2, WriteFact
    <3> QED  BY <1>1, <2>2, <3>1
  <2>3. CASE t # target'
    <3>1. t \in DOMAIN disk /\ disk'[t] = disk[t]
      BY <1>1, <2>1, <2>3, WriteFact
    <3>2. plugin \in {"copying", "dead"}  BY <3>1 DEF BareIsLast
    <3> QED  BY <1>1, <3>2 DEF Writes
  <2> QED  BY <2>2, <2>3
<1>2. CASE CopyExif
  <2>1. cvFileName # Bare  BY StemAssumption DEF SaveTypeOK, TypeOK
  <2>2. t # target  BY <1>2, <2>1, CopyFact
  <2>3. t \in DOMAIN disk /\ disk'[t] = disk[t]  BY <1>2, <2>2, CopyFact
  <2> QED  BY <2>2, <2>3 DEF BareIsLast
<1>3. CASE /\ UNCHANGED <<disk, target>>
           /\ plugin \in {"copying", "dead"} <=> plugin' \in {"copying", "dead"}
  BY <1>3 DEF BareIsLast
<1> QED  BY <1>1, <1>2, <1>3 DEF Steps

LEMMA WholeIsImage == \A f \in Files : Whole(f) # NoImage
<1>1. \A f \in Files : Whole(f) \in Pixels  BY Zenon DEF Whole, Pixels
<1> QED  BY <1>1, ImageAssumption

LEMMA ExportStep ==
  /\ IInv /\ SaveTypeOK /\ SlotInv /\ BareIsLast /\ ExportedPicture
  /\ [SaveNext]_saveVars
  => ExportedPicture'
<1> DEFINE F(t) == IF disk[t].exif = Bare THEN cvFileName ELSE disk[t].exif
           Right(t) == /\ disk[t].pixels = Whole(F(t))
                       /\ t[1] = Stem[F(t)]
                       /\ disk[t].wanted # NoName => F(t) = disk[t].wanted
<1> SUFFICES ASSUME IInv, SaveTypeOK, SlotInv, BareIsLast, ExportedPicture, Steps,
                    NEW t \in DOMAIN disk', disk'[t].sure
             PROVE  Right(t)'
  BY SaveCases DEF ExportedPicture
<1>0. cvFileName \in Files /\ cvFileName # Bare
  BY StemAssumption DEF SaveTypeOK, TypeOK
\* What was there and is not touched.
<1>a. ASSUME t \in DOMAIN disk, disk'[t] = disk[t],
             disk[t].exif = Bare => cvFileName' = cvFileName
      PROVE  Right(t)'
  <2>1. Right(t)  BY <1>a DEF ExportedPicture
  <2>2. F(t)' = F(t)  BY <1>a
  <2> QED  BY <1>a, <2>1, <2>2 DEF Whole
<1>1. ASSUME NEW b \in BOOLEAN, NEW p \in {cvOriginalImage, NoImage},
             Writes(Picture(p, b)), cvIsValidImage, b => p = cvOriginalImage
      PROVE  Right(t)'
  <2>1. Picture(p, b) \in Saved  BY SavedTypes
  <2>2. cvFileName' = cvFileName  BY <1>1 DEF Writes, vars, factory
  <2>3. CASE t # target'
    BY <1>1, <1>a, <2>1, <2>2, <2>3, WriteFact
  <2>4. CASE t = target'
    <3>1. disk'[t] = Picture(p, b) /\ t[1] = Stem[cvFileName]
      BY <1>1, <2>1, <2>4, WriteFact
    <3>2. /\ disk'[t].pixels = p /\ disk'[t].exif = Bare
          /\ disk'[t].wanted = wanted
      BY <3>1 DEF Picture
    <3>a. Picture(p, b).sure = (clean /\ b)  BY Zenon DEF Picture
    <3>b. clean /\ b  BY <3>1, <3>a, Zenon
    <3>3. clean /\ p = cvOriginalImage  BY <1>1, <3>b, Zenon
    <3>4. gui = "idle"  BY <1>1 DEF Writes, SlotInv
    <3>5. p = Whole(cvFileName)  BY <1>1, <3>3, <3>4 DEF IInv, CurrentImage
    <3>6. wanted # NoName => cvFileName = wanted  BY DEF SlotInv
    <3> QED  BY <2>2, <3>1, <3>2, <3>5, <3>6 DEF Whole
  <2> QED  BY <2>3, <2>4
<1>2. CASE CopyExif
  <2>1. cvFileName' = cvFileName  BY <1>2 DEF CopyExif, vars, factory
  <2>2. t \in DOMAIN disk  BY <1>2, CopyFact
  <2>3. CASE t # target  BY <1>2, <1>a, <2>1, <2>2, <2>3, CopyFact
  <2>4. CASE t = target
    <3>1. /\ disk[t].exif = Bare /\ disk'[t].exif = cvFileName
          /\ disk'[t].pixels = disk[t].pixels
          /\ disk'[t].wanted = disk[t].wanted
          /\ disk[t].sure
      BY <1>2, <2>4, CopyFact
    <3>2. Right(t)  BY <2>2, <3>1 DEF ExportedPicture
    <3>3. F(t) = cvFileName /\ F(t)' = cvFileName  BY <1>0, <3>1
    <3> QED  BY <3>1, <3>2, <3>3 DEF Whole
  <2> QED  BY <2>3, <2>4
<1>3. CASE UNCHANGED <<disk, target>> /\ (plugin # "idle" => UNCHANGED cvFileName)
  <2>1. t \in DOMAIN disk /\ disk'[t] = disk[t] /\ disk[t].sure  BY <1>3
  <2>2. ASSUME disk[t].exif = Bare  PROVE cvFileName' = cvFileName
    <3>1. disk[t].pixels = Whole(cvFileName)  BY <2>1, <2>2 DEF ExportedPicture
    <3>2. disk[t].pixels # NoImage  BY <1>0, <3>1, WholeIsImage
    <3>3. plugin \in {"copying", "dead"}  BY <2>1, <2>2, <3>2 DEF BareIsLast
    <3> QED  BY <1>3, <3>3
  <2> QED  BY <1>a, <2>1, <2>2
<1> QED  BY <1>1, <1>2, <1>3 DEF Steps

-----------------------------------------------------------------------------
(* The theorems.                                                           *)

SInv == IInv /\ SaveTypeOK /\ SlotInv /\ BareIsLast

LEMMA SaveInitFacts == SaveInit => SInv /\ ExportedPicture
<1> SUFFICES ASSUME SaveInit PROVE SInv /\ ExportedPicture
  OBVIOUS
<1>0. NoName \in Files /\ NoName # Bare  BY StemAssumption DEF Files
<1>1. Init /\ disk = [t \in Taken \X {1} |-> Foreign]  BY DEF SaveInit
<1>2. DOMAIN disk = Taken \X {1} /\ \A t \in DOMAIN disk : disk[t] = Foreign
  BY <1>1
<1>3. Foreign \in Saved
  <2>1. NoImage \in Images  BY ImageTypes
  <2> QED  BY <1>0, <2>1 DEF Foreign, Saved
<1>4. SaveTypeOK
  <2>1. TypeOK  BY <1>1, TypeInit
  <2>2. Stem[NoName] \in Stems /\ Taken \subseteq Stems  BY <1>0, StemAssumption
  <2>3. <<Stem[NoName], 1>> \in Targets /\ Taken \X {1} \subseteq Targets
    BY <2>2 DEF Targets
  <2> QED  BY <1>0, <1>2, <1>3, <2>1, <2>3 DEF SaveInit, SaveTypeOK
<1>5. SlotInv
  <2>1. IsFiniteSet(Taken) /\ IsFiniteSet({1})
    BY StemAssumption, FS_Singleton
  <2>2. IsFiniteSet(Taken \X {1})  BY <2>1, FS_Product
  <2> QED  BY <1>2, <2>2 DEF SaveInit, SlotInv
<1>6. BareIsLast  BY <1>0, <1>2 DEF BareIsLast, Foreign
<1>7. ExportedPicture
  <2>1. Foreign.sure = FALSE  BY DEF Foreign
  <2>2. \A t \in DOMAIN disk : ~disk[t].sure  BY <1>2, <2>1, Zenon
  <2> QED  BY <2>2, Zenon DEF ExportedPicture
<1> QED  BY <1>1, <1>4, <1>5, <1>6, <1>7, ImageInit DEF SInv

\* The plugin uses its factory as any client may: what the factory promises,
\* it promises to the plugin.
THEOREM SaverImplementsFactory == SaveSafeSpec => SafeSpec
<1>1. SaveInit => Init  BY DEF SaveInit
<1> QED  BY <1>1, SaverIsFactoryStep, PTL DEF SaveSafeSpec, SafeSpec

\* The plugin's runs are served as the abstract specification of the
\* factory's requests promises (run(), setFile(), imageLoaded()).
THEOREM SaverImplementsRequests == SaveSafeSpec => Requests!SafeSpec
  BY SaverImplementsFactory, FactoryImplementsRequests

\* Every variable keeps its type.
THEOREM SaveTypeCorrect == SaveSpec => []SaveTypeOK
<1>1. SaveInit => SaveTypeOK /\ SlotInv  BY SaveInitFacts DEF SInv
<1>2. SaveTypeOK /\ SlotInv /\ [SaveNext]_saveVars => (SaveTypeOK /\ SlotInv)'
  BY SaveTypeStep, SlotStep
<1>3. SaveSafeSpec => []SaveTypeOK  BY <1>1, <1>2, PTL DEF SaveSafeSpec
<1> QED  BY <1>3, PTL DEF SaveSpec

\* A picture stays without its header only if the program dies between the
\* two writes.
THEOREM HeaderFollows == SaveSpec => []BareIsLast
<1>1. SaveInit => SaveTypeOK /\ SlotInv /\ BareIsLast
  BY SaveInitFacts DEF SInv
<1>2. SaveTypeOK /\ SlotInv /\ BareIsLast /\ [SaveNext]_saveVars
        => (SaveTypeOK /\ SlotInv /\ BareIsLast)'
  BY SaveTypeStep, SlotStep, BareStep
<1>3. SaveSafeSpec => []BareIsLast  BY <1>1, <1>2, PTL DEF SaveSafeSpec
<1> QED  BY <1>3, PTL DEF SaveSpec

\* If LibRaw's images have three channels, a run that overtook no other saves
\* the picture, the name and the header of the file selected when it began.
THEOREM ExportCorrect ==
  ASSUME MemImageColors \subseteq {3}
  PROVE  SaveSpec => []ExportedPicture
<1>1. SaveInit => SInv /\ ExportedPicture  BY SaveInitFacts
<1>2. SInv /\ ExportedPicture /\ [SaveNext]_saveVars
        => (SInv /\ ExportedPicture)'
  BY SaverIsFactoryStep, ImageInductive, SaveTypeStep, SlotStep, BareStep,
     ExportStep DEF SInv
<1>3. SaveSafeSpec => []ExportedPicture  BY <1>1, <1>2, PTL DEF SaveSafeSpec
<1> QED  BY <1>3, PTL DEF SaveSpec

\* One step: what was on the disk is there, and only the header of the picture
\* just saved is new.
LEMMA DiskStep ==
  SaveTypeOK /\ SlotInv /\ [SaveNext]_saveVars =>
    [\A t \in DOMAIN disk :
       /\ t \in DOMAIN disk'
       /\ disk'[t] # disk[t] =>
            /\ t = target /\ disk[t].exif = Bare
            /\ disk'[t].pixels = disk[t].pixels]_saveVars
<1> SUFFICES ASSUME SaveTypeOK, SlotInv, Steps, NEW t \in DOMAIN disk
             PROVE  /\ t \in DOMAIN disk'
                    /\ disk'[t] # disk[t] =>
                         /\ t = target /\ disk[t].exif = Bare
                         /\ disk'[t].pixels = disk[t].pixels
  BY SaveCases
<1>1. ASSUME NEW b \in BOOLEAN, NEW p \in {cvOriginalImage, NoImage},
             Writes(Picture(p, b))
      PROVE  t \in DOMAIN disk' /\ disk'[t] = disk[t]
  <2>1. Picture(p, b) \in Saved  BY SavedTypes
  <2> QED  BY <1>1, <2>1, WriteFact
<1>2. CASE CopyExif  BY <1>2, CopyFact
<1>3. CASE UNCHANGED <<disk, target>>  BY <1>3
<1> QED  BY <1>1, <1>2, <1>3 DEF Steps

\* The names it chooses are free, however many are taken: nothing that was
\* there is written over.
THEOREM CollisionProof == SaveSpec => NothingOverwritten
<1>1. SaveInit => SaveTypeOK /\ SlotInv  BY SaveInitFacts DEF SInv
<1>2. SaveTypeOK /\ SlotInv /\ [SaveNext]_saveVars => (SaveTypeOK /\ SlotInv)'
  BY SaveTypeStep, SlotStep
<1>3. SaveSafeSpec => NothingOverwritten
  BY <1>1, <1>2, DiskStep, PTL DEF SaveSafeSpec, NothingOverwritten
<1> QED  BY <1>3, PTL DEF SaveSpec

=============================================================================
