---------------------------- MODULE MCInstances -----------------------------
(***************************************************************************)
(* Two runs whose objects are made, evicted and closed in any order, while *)
(* the process is replaced.                                                *)
(***************************************************************************)
EXTENDS Instances
=============================================================================
