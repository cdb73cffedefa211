----------------------------- MODULE MCActivity -----------------------------
(***************************************************************************)
(* Three activity attempts on a pool of one worker and a local activity.   *)
(* One attempt carries heartbeat details and arguments, one details and no *)
(* arguments, one neither.                                                 *)
(***************************************************************************)
EXTENDS Activity
=============================================================================
