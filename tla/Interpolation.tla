--------------------------- MODULE Interpolation ---------------------------
(***************************************************************************)
(* EgtGpsDataTable::interpolate(): a row for every second between the rows *)
(* of a table, on the texts of its column of dates and times.              *)
(*                                                                         *)
(* A row is a function on the columns.  A date and time is its number of   *)
(* seconds; a computed coordinate is abstracted to the fact that it was    *)
(* computed.                                                               *)
(***************************************************************************)
EXTENDS Integers, Sequences, FiniteSets

CONSTANTS
  Blank,     \* the empty text
  Between,   \* a coordinate the interpolation computed
  Other,     \* any other text that is no date and time
  GapLimit   \* 84600

ASSUME TextsAssumption ==
  /\ {Blank, Between, Other} \cap Nat = {}
  /\ Blank \notin {Between, Other}
  /\ GapLimit \in Nat

Cells == Nat \cup {Blank, Between, Other}

\* The order of texts: the empty one, dates, others.
Before(s, t) ==
  \/ s = Blank /\ t # Blank
  \/ s \in Nat /\ t \in Nat /\ s < t
  \/ s \in Nat /\ t \notin Nat \cup {Blank}

\* sortItems() is stable: where the i-th row of s goes when column c is sorted.
Place(s, c, i) ==
  Cardinality({j \in 1..Len(s) : \/ Before(s[j][c], s[i][c])
                                 \/ j <= i /\ ~Before(s[i][c], s[j][c])})

SortItems(s, c) ==
  [k \in 1..Len(s) |-> s[CHOOSE i \in 1..Len(s) : Place(s, c, i) = k]]

\* A new row: all other columns stay blank.
NewRow(columns, stamp, coordinates, time) ==
  [c \in columns |-> IF c = stamp THEN time
                     ELSE IF c \in coordinates THEN Between ELSE Blank]

\* The two rows are compared only if both times are valid.
Close(start, end) == start \in Nat /\ end \in Nat /\ end - start <= GapLimit

\* Mutant: lvIterator <= lvDeltaTime.
NewTimesTooFar(start, end) == IF Close(start, end) THEN 1..end - start ELSE {}

\* How many seconds after start a row is inserted.
NewTimes(start, end) == IF Close(start, end) THEN 1..end - start - 1 ELSE {}

\* The rows inserted after the i-th row of s, which is sorted.
NewRows(s, columns, stamp, coordinates, i) ==
  LET start == s[i][stamp] IN
  [k \in NewTimes(start, s[i + 1][stamp]) |->
     NewRow(columns, stamp, coordinates, start + k)]

\* They are appended to the table, pair by pair.
WithNewRows(s, columns, stamp, coordinates) ==
  LET filled[i \in 0..Len(s) - 1] ==
        IF i = 0 THEN s
        ELSE filled[i - 1] \o NewRows(s, columns, stamp, coordinates, i)
  IN  filled[Len(s) - 1]

\* The table is sorted before and after.
Interpolated(s, columns, stamp, coordinates) ==
  IF Len(s) < 2 THEN s
  ELSE SortItems(WithNewRows(SortItems(s, stamp), columns, stamp, coordinates), stamp)

-----------------------------------------------------------------------------
(* What the result is.                                                     *)

Copies(s, r) == Cardinality({i \in 1..Len(s) : s[i] = r})
At(s, c, t) == Cardinality({i \in 1..Len(s) : s[i][c] = t})

\* Rows in the order of their times, consecutive times at most a second apart
\* or further apart than the limit.
Filled(limit, s, c) ==
  \A i \in 1..Len(s) - 1 :
    ~Before(s[i + 1][c], s[i][c]) /\
    (s[i][c] \in Nat /\ s[i + 1][c] \in Nat =>
      s[i + 1][c] - s[i][c] \in {0, 1} \/ s[i + 1][c] - s[i][c] > limit)

\* t lies between two times of s that are close enough.
InGap(limit, s, c, t) ==
  \E i, j \in 1..Len(s) :
    /\ {s[i][c], t, s[j][c]} \subseteq Nat
    /\ s[i][c] < t /\ t < s[j][c] /\ s[j][c] - s[i][c] <= limit

\* new is s with its gaps filled: every second between two rows that are close
\* enough has a row, no row is lost, and no time that had a row has another
\* one, nor has any time outside such a gap.
Complete(limit, s, new, c) ==
  /\ Filled(limit, new, c)
  /\ \A i \in 1..Len(s) : Copies(new, s[i]) >= Copies(s, s[i])
  /\ \A i \in 1..Len(new) :
       LET t == new[i][c] IN
       \/ At(new, c, t) = At(s, c, t)
       \/ At(s, c, t) = 0 /\ At(new, c, t) = 1 /\ InGap(limit, s, c, t)

=============================================================================
