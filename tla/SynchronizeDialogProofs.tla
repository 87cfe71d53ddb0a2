---------------------- MODULE SynchronizeDialogProofs ----------------------
(***************************************************************************)
(* The arithmetic of the synchronize dialog, for any times.                *)
(***************************************************************************)
EXTENDS SynchronizeDialog, TLAPS

\* Division with a remainder, by the three divisors of the code.
LEMMA DayDivision == \A n \in Nat : \E q \in Nat, r \in Nat :
               /\ q = n \div Day /\ r = n % Day
               /\ r < Day /\ n - Day * q = r
  BY SMTT(30) DEF Day
LEMMA HourDivision == \A n \in Nat : n < Day => \E h \in Nat, s \in Nat :
                /\ h = n \div Hour /\ s = n % Hour
                /\ h < 24 /\ s < Hour /\ n - Hour * h = s
  BY SMTT(30) DEF Day, Hour
LEMMA MinuteDivision == \A n \in Nat : n < Hour => \E m \in Nat, t \in Nat :
                  /\ m = n \div 60 /\ t = n % 60
                  /\ m < 60 /\ t < 60 /\ n - 60 * m = t
  BY SMTT(30) DEF Hour

\* The ranges of the boxes.
LEMMA TimeFields ==
  ASSUME NEW t \in Times
  PROVE  t.day \in Int /\ t.hour \in Int /\ t.minute \in Int /\ t.second \in Int
<1>1. t.day \in Days  BY Zenon DEF Times
<1>2. t.day \in Int  BY <1>1, SynchronizeAssumption, Zenon
<1>3. t.hour \in Int /\ t.minute \in Int /\ t.second \in Int  BY SMT DEF Times
<1> QED  BY <1>2, <1>3, Zenon

LEMMA BoxTimeFields ==
  ASSUME NEW t \in BoxTimes
  PROVE  /\ t.day # NoDay => t.day \in Int
         /\ t.hour \in Int /\ t.minute \in Int /\ t.second \in 0..59
<1>1. t.day \in Days \cup {NoDay}  BY Zenon DEF BoxTimes
<1>2. t.day # NoDay => t.day \in Int  BY <1>1, SynchronizeAssumption, Zenon
<1>3. t.hour \in Int /\ t.minute \in Int /\ t.second \in 0..59
  BY SMT DEF BoxTimes
<1> QED  BY <1>2, <1>3, Zenon

LEMMA OffsetFields ==
  ASSUME NEW o \in Offsets
  PROVE  o.days \in Int /\ o.hours \in Int /\ o.minutes \in Int /\ o.seconds \in 0..59
  BY SMT DEF Offsets

LEMMA InBoxes ==
  ASSUME NEW d \in 0..99, NEW h \in 0..23, NEW m \in 0..59, NEW s \in 0..59
  PROVE  [days |-> d, hours |-> h, minutes |-> m, seconds |-> s] \in Offsets
  BY SMT DEF Offsets

\* The boxes hold the offset, if it is of less than a hundred days.
LEMMA BoxesHold ==
  ASSUME NEW n \in Nat
  PROVE  /\ Boxes(n) \in Offsets
         /\ \/ Magnitude(Boxes(n)) = n
            \/ Boxes(n).days = 99 /\ n >= HundredDays
<1>1. PICK q \in Nat, r \in Nat :
        /\ q = n \div Day /\ r = n % Day /\ r < Day /\ n - Day * q = r
  BY DayDivision, Zenon
<1>2. PICK h \in Nat, s \in Nat :
        /\ h = r \div Hour /\ s = r % Hour
        /\ h < 24 /\ s < Hour /\ r - Hour * h = s
  BY <1>1, HourDivision, Zenon
<1>3. PICK m \in Nat, t \in Nat :
        /\ m = s \div 60 /\ t = s % 60 /\ m < 60 /\ t < 60 /\ s - 60 * m = t
  BY <1>2, MinuteDivision, Zenon
<1> DEFINE d == IF q > 99 THEN 99 ELSE q
           b == [days |-> d, hours |-> h, minutes |-> m, seconds |-> t]
<1>4. Boxes(n) = b  BY <1>1, <1>2, <1>3, Zenon DEF Boxes
<1>5. d \in 0..99  BY SMT
<1>6. q > 99 => n >= HundredDays  BY <1>1, SMT DEF Day, HundredDays
<1>7. (q > 99 /\ d = 99) \/ (~(q > 99) /\ d = q)  BY Zenon
<1> HIDE DEF d
<1>8. h \in 0..23 /\ m \in 0..59 /\ t \in 0..59  BY <1>2, <1>3, SMT DEF Hour
<1>9. b \in Offsets  BY <1>5, <1>8, InBoxes, Zenon
<1>10. Magnitude(b) = Day * d + Hour * h + 60 * m + t  BY Zenon DEF Magnitude
<1>11. b.days = d  BY Zenon
<1>12. Day * q + Hour * h + 60 * m + t = n  BY <1>1, <1>2, <1>3, SMT DEF Day, Hour
<1> HIDE DEF b
<1> QED  BY <1>4, <1>6, <1>7, <1>9, <1>10, <1>11, <1>12, Zenon

LEMMA DifferenceIsInteger ==
  ASSUME NEW t \in BoxTimes, t.day # NoDay, NEW e \in Times
  PROVE  Difference(t, e) \in Int
<1> DEFINE D == t.day - e.day
<1>1. t.day \in Int /\ e.day \in Int  BY BoxTimeFields, TimeFields, Zenon
<1>2. D \in Int  BY <1>1, SMT
<1> HIDE DEF D
<1>3. t.hour \in Int /\ t.minute \in Int /\ t.second \in Int
  BY BoxTimeFields, SMT
<1>4. Seconds(t) \in Int  BY <1>3, SMT DEF Seconds, Hour
<1>5. e.hour \in Int /\ e.minute \in Int /\ e.second \in Int
  BY TimeFields, Zenon
<1>6. Seconds(e) \in Int  BY <1>5, SMT DEF Seconds, Hour
<1>7. Difference(t, e) = Day * D + (Seconds(t) - Seconds(e))
  BY Zenon DEF Difference, D
<1> QED  BY <1>2, <1>4, <1>6, <1>7, SMT DEF Day

\* What updateOffset() leaves in the boxes.
LEMMA Updated ==
  ASSUME NEW t \in BoxTimes, NEW e \in Times \cup {NoExif, Undated},
         TypeOK, UpdateOffset(t, e)
  PROVE  /\ offset' \in Offsets /\ positive' \in BOOLEAN
         /\ e \in Times /\ t.day # NoDay =>
              LET n == Difference(t, e) IN
              \/ Signed(Magnitude(offset'), positive') = n
              \/ offset'.days = 99 /\ (n >= HundredDays \/ n <= -HundredDays)
<1>1. CASE e = NoExif
  BY <1>1, SynchronizeAssumption DEF UpdateOffset, TypeOK
<1>2. CASE e # NoExif /\ (e = Undated \/ t.day = NoDay)
  BY <1>2, SynchronizeAssumption DEF UpdateOffset
<1>3. CASE e # NoExif /\ ~(e = Undated \/ t.day = NoDay)
  <2> DEFINE n == Difference(t, e)
             a == IF n < 0 THEN -n ELSE n
  <2>1. e \in Times /\ t.day # NoDay  BY <1>3
  <2>2. n \in Int  BY <2>1, DifferenceIsInteger
  <2>3. positive' = (n >= 0) /\ offset' = Boxes(a)
    BY <1>3, Zenon DEF UpdateOffset
  <2> HIDE DEF n
  <2>4. a \in Nat  BY <2>2
  <2> HIDE DEF a
  <2>5. Boxes(a) \in Offsets /\ (\/ Magnitude(Boxes(a)) = a
                                 \/ Boxes(a).days = 99 /\ a >= HundredDays)
    BY <2>4, BoxesHold, Zenon
  <2>6. Signed(a, n >= 0) = n  BY <2>2 DEF Signed, a
  <2>7. a >= HundredDays => n >= HundredDays \/ n <= -HundredDays
    BY <2>2, SMT DEF a, HundredDays
  <2>8. \/ Signed(Magnitude(offset'), positive') = n
        \/ offset'.days = 99 /\ (n >= HundredDays \/ n <= -HundredDays)
    BY <2>3, <2>5, <2>6, <2>7, Zenon
  <2>9. (n >= 0) \in BOOLEAN  BY <2>2, SMT
  <2> QED  BY <2>3, <2>5, <2>8, <2>9, Zenon DEF n
<1> QED  BY <1>1, <1>2, <1>3, Zenon

-----------------------------------------------------------------------------

\* The types make the other invariant's arithmetic that of integers.
IInv == TypeOK /\ OffsetIsDifference

LEMMA InitHolds == Init => IInv
<1> SUFFICES ASSUME Init PROVE IInv  OBVIOUS
<1>1. First \in BoxTimes
  BY SynchronizeAssumption, SMT DEF First, BoxTimes
<1>2. Zero \in Offsets  BY SMT DEF Zero, Offsets
<1>3. 0 \in Int  BY SMT
<1>4. TypeOK  BY <1>1, <1>2, <1>3, Zenon DEF Init, TypeOK
<1>5. OffsetIsDifference  BY Zenon DEF Init, OffsetIsDifference
<1> QED  BY <1>4, <1>5, Zenon DEF IInv

\* A change of the boxes, by the user or by the picture that is opened.
LEMMA SetTimeHolds ==
  ASSUME IInv, NEW t \in BoxTimes, SetTime(t),
         exif' \in Times \cup {NoExif, Undated},
         UNCHANGED <<shown, gbPreview, cvOffset>>
  PROVE  IInv'
<1>1. user' = t  BY Zenon DEF SetTime
<1>2. computed' = (t # user \/ (computed /\ exif' = exif))  BY Zenon DEF SetTime
<1>3. CASE t = user
  <2>1. UNCHANGED <<user, offset, positive>>
    BY <1>1, <1>3, Zenon DEF SetTime
  <2>2. TypeOK'
    <3>1. computed' \in BOOLEAN  BY <1>2, Zenon
    <3> QED  BY <2>1, <3>1 DEF IInv, TypeOK
  <2>3. computed' => computed /\ exif' = exif  BY <1>2, <1>3, Zenon
  <2>4. OffsetIsDifference'
    BY <2>1, <2>3, Zenon DEF IInv, OffsetIsDifference
  <2> QED  BY <2>2, <2>4, Zenon DEF IInv
<1>4. CASE t # user
  <2>1. UpdateOffset(t, exif')  BY <1>4, Zenon DEF SetTime
  <2>2. TypeOK  BY Zenon DEF IInv
  <2>3. /\ offset' \in Offsets /\ positive' \in BOOLEAN
        /\ exif' \in Times /\ t.day # NoDay =>
             LET n == Difference(t, exif') IN
             \/ Signed(Magnitude(offset'), positive') = n
             \/ offset'.days = 99 /\ (n >= HundredDays \/ n <= -HundredDays)
    BY <2>1, <2>2, Updated, Zenon
  <2>4. TypeOK'
    <3>1. computed' \in BOOLEAN  BY <1>2, Zenon
    <3> QED  BY <1>1, <2>2, <2>3, <3>1 DEF TypeOK
  <2>5. OffsetIsDifference'  BY <1>1, <2>3, Zenon DEF OffsetIsDifference
  <2> QED  BY <2>4, <2>5, Zenon DEF IInv
<1> QED  BY <1>3, <1>4, Zenon

LEMMA StepHolds == IInv /\ [Next]_vars => IInv'
<1> SUFFICES ASSUME IInv, [Next]_vars PROVE IInv'  OBVIOUS
<1> USE DEF IInv
<1>1. ASSUME NEW withImage \in BOOLEAN, ShowDialog(withImage) PROVE IInv'
  <2>1. TypeOK'  BY <1>1 DEF ShowDialog, TypeOK
  <2>2. OffsetIsDifference'  BY <1>1, Zenon DEF ShowDialog, OffsetIsDifference
  <2> QED  BY <2>1, <2>2, Zenon
<1>2. ASSUME NEW f \in Pictures, OpenImage(f) PROVE IInv'
  <2>1. exif' \in Times \cup {NoExif, Undated}
    BY <1>2, SynchronizeAssumption DEF OpenImage
  <2>2. First \in BoxTimes /\ Times \subseteq BoxTimes
    BY SynchronizeAssumption DEF First, BoxTimes, Times
  <2>3. PICK t \in BoxTimes : SetTime(t)
    BY <1>2, <2>2, Zenon DEF OpenImage
  <2> QED  BY <1>2, <2>1, <2>3, SetTimeHolds, Zenon DEF OpenImage
<1>3. ASSUME NEW t \in TypedTimes, TypeTime(t) PROVE IInv'
  <2>1. t \in BoxTimes  BY SynchronizeAssumption
  <2>2. exif' \in Times \cup {NoExif, Undated}  BY <1>3 DEF TypeTime, TypeOK
  <2> QED  BY <1>3, <2>1, <2>2, SetTimeHolds, Zenon DEF TypeTime
<1>4. ASSUME NEW o \in TypedOffsets, TypeOffset(o) PROVE IInv'
  <2>1. TypeOK'  BY <1>4, SynchronizeAssumption DEF TypeOffset, TypeOK
  <2>2. OffsetIsDifference'  BY <1>4, Zenon DEF TypeOffset, OffsetIsDifference
  <2> QED  BY <2>1, <2>2, Zenon
<1>5. CASE Accepted
  <2>1. cvOffset' \in Int
    BY <1>5 DEF Accepted, Signed, TypeOK, Offsets, BoxTimes
  <2>2. TypeOK'  BY <1>5, <2>1 DEF Accepted, TypeOK
  <2>3. OffsetIsDifference'  BY <1>5, Zenon DEF Accepted, OffsetIsDifference
  <2> QED  BY <2>2, <2>3, Zenon
<1>6. CASE Closed
  <2>1. TypeOK'  BY <1>6 DEF Closed, TypeOK
  <2>2. OffsetIsDifference'  BY <1>6, Zenon DEF Closed, OffsetIsDifference
  <2> QED  BY <2>1, <2>2, Zenon
<1>7. CASE UNCHANGED vars
  <2>1. TypeOK'  BY <1>7 DEF vars, TypeOK
  <2>2. OffsetIsDifference'  BY <1>7, Zenon DEF vars, OffsetIsDifference
  <2> QED  BY <2>1, <2>2, Zenon
<1> QED  BY <1>1, <1>2, <1>3, <1>4, <1>5, <1>6, <1>7, Zenon DEF Next

LEMMA Invariant == Spec => []IInv
  BY InitHolds, StepHolds, PTL DEF Spec

\* Every box keeps its range: whatever the difference of the clocks, its parts
\* fit into the offset boxes.
THEOREM TypeCorrect == Spec => []TypeOK
<1>1. IInv => TypeOK  BY Zenon DEF IInv
<1> QED  BY Invariant, <1>1, PTL

\* The offset boxes hold the difference of the user's and the camera's clock,
\* for all times the boxes can show, and not only those of the run.
THEOREM OffsetCorrect == Spec => []OffsetIsDifference
<1>1. IInv => OffsetIsDifference  BY Zenon DEF IInv
<1> QED  BY Invariant, <1>1, PTL

\* The sum that accepted() makes is off by less than a minute, and right if
\* the two boxes for seconds agree.
THEOREM AcceptedCorrect == Spec => AcceptedToTheMinute
<1>1. ASSUME IInv, Accepted
      PROVE  LET n == Signed(Magnitude(offset), positive) IN
             /\ cvOffset' - n \in -59..59
             /\ user.second = offset.seconds => cvOffset' = n
  <2> DEFINE B == Day * offset.days + Hour * offset.hours + 60 * offset.minutes
  <2>1. /\ offset.days \in Int /\ offset.hours \in Int /\ offset.minutes \in Int
        /\ offset.seconds \in 0..59 /\ user.second \in 0..59
    BY <1>1, OffsetFields, BoxTimeFields, Zenon DEF IInv, TypeOK
  <2>2. B \in Int  BY <2>1, SMT DEF Day, Hour
  <2>3. cvOffset' = Signed(B + user.second, positive)
    BY <1>1, Zenon DEF Accepted
  <2>4. Magnitude(offset) = B + offset.seconds  BY Zenon DEF Magnitude
  <2> HIDE DEF B
  <2>5. positive => Signed(B + user.second, positive) = B + user.second
                    /\ Signed(B + offset.seconds, positive) = B + offset.seconds
    BY Zenon DEF Signed
  <2>6. ~positive => Signed(B + user.second, positive) = -(B + user.second)
                     /\ Signed(B + offset.seconds, positive) = -(B + offset.seconds)
    BY Zenon DEF Signed
  <2>7. \A b \in Int : \A u, o \in 0..59 : /\ (b + u) - (b + o) \in -59..59
                                         /\ -(b + u) - (-(b + o)) \in -59..59
    BY SMT
  <2>8. cvOffset' - Signed(Magnitude(offset), positive) \in -59..59
    BY <2>1, <2>2, <2>3, <2>4, <2>5, <2>6, <2>7, Zenon
  <2>9. user.second = offset.seconds =>
          cvOffset' = Signed(Magnitude(offset), positive)
    BY <2>3, <2>4, Zenon
  <2> QED  BY <2>8, <2>9, Zenon
<1>2. IInv /\ [Next]_vars =>
        [Accepted =>
           LET n == Signed(Magnitude(offset), positive) IN
           /\ cvOffset' - n \in -59..59
           /\ user.second = offset.seconds => cvOffset' = n]_vars
  BY <1>1, Zenon
<1> QED  BY Invariant, <1>2, PTL DEF Spec, AcceptedToTheMinute
=============================================================================
