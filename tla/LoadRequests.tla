---------------------------- MODULE LoadRequests ----------------------------
(***************************************************************************)
(* What EgtImageFactory promises its clients, without its thread: every    *)
(* call of setFile() is answered by exactly one imageLoaded() signal, at   *)
(* once or later, as long as the factory exists.                           *)
(***************************************************************************)
EXTENDS Naturals

VARIABLES
  asked,     \* calls of setFile()
  answered,  \* imageLoaded() signals
  open       \* the factory exists

vars == <<asked, answered, open>>

Init == asked = 0 /\ answered = 0 /\ open = TRUE

Ask ==
  /\ open
  /\ asked' = asked + 1
  /\ UNCHANGED <<answered, open>>

\* The request is answered before the call returns.
AskAndAnswer ==
  /\ open
  /\ asked' = asked + 1
  /\ answered' = answered + 1
  /\ UNCHANGED open

Answer ==
  /\ open
  /\ answered < asked
  /\ answered' = answered + 1
  /\ UNCHANGED <<asked, open>>

Close ==
  /\ open
  /\ open' = FALSE
  /\ UNCHANGED <<asked, answered>>

Next == Ask \/ AskAndAnswer \/ Answer \/ Close

SafeSpec == Init /\ [][Next]_vars
Spec == SafeSpec /\ WF_vars(Answer)
=============================================================================
