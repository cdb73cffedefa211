---------------------------- MODULE MCResetLock -----------------------------
(***************************************************************************)
(* Two activity workers, a call that manages them, and the two calls that  *)
(* reset the activity pool: of the goroutine that answers exits and of the *)
(* RPC.                                                                    *)
(***************************************************************************)
EXTENDS ResetLock
=============================================================================
