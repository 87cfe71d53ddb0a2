---------------------------- MODULE MCSaveAsJpg ----------------------------
(***************************************************************************)
(* Saving a raw file and the JPEG the camera wrote beside it, under the    *)
(* same name, and another raw file whose name is free.                     *)
(***************************************************************************)
EXTENDS SaveAsJpg, TLC

CONSTANTS r1, r2, j, d

StemOf == (r1 :> "a") @@ (r2 :> "b") @@ (j :> "a") @@ (d :> "d") @@ (NoName :> "")
=============================================================================
