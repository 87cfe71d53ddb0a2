---------------------------- MODULE MCMainWindow ----------------------------
(***************************************************************************)
(* The main window with two raw files, one JPEG, a directory and a root    *)
(* entry.  Three clicks are enough for a click to overtake an unanswered   *)
(* one and be overtaken itself.                                            *)
(***************************************************************************)
EXTENDS MainWindow
=============================================================================
