--------------------------- MODULE MCPromiseQueue ---------------------------
(***************************************************************************)
(* Four tasks on two slots: the list is emptied and refilled (#last goes   *)
(* stale), and two tasks can wait at once.                                 *)
(***************************************************************************)
EXTENDS PromiseQueue
=============================================================================
