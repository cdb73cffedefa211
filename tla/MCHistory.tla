----------------------------- MODULE MCHistory ------------------------------
(***************************************************************************)
(* Two callers; one run the code reproduces and one whose second event it  *)
(* does not; one path, so that calls meet there.                           *)
(***************************************************************************)
EXTENDS History

BreaksAtTwo == [r \in Runs |-> IF r = "changed" THEN 2 ELSE 0]
=============================================================================
