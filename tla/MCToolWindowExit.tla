-------------------------- MODULE MCToolWindowExit --------------------------
EXTENDS ToolWindowExit, TLC

CONSTANTS o1, o2, o3

(* o1 and o2 are two clicks on the same entry. *)
MCTargetOf == (o1 :> "host") @@ (o2 :> "host") @@ (o3 :> "file")
=============================================================================
