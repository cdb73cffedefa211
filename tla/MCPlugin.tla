------------------------------ MODULE MCPlugin ------------------------------
(***************************************************************************)
(* The plugin with one or two task queues.  The text of pid 7 contains     *)
(* that of pid 2, the first workflow worker.                               *)
(***************************************************************************)
EXTENDS Plugin

SomeText == {<<p, p>> : p \in Pids} \cup ({<<7, 2>>} \cap (Pids \X Pids))
=============================================================================
