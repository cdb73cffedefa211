----------------------------- MODULE MCWorkflow -----------------------------
(***************************************************************************)
(* Workflow on small instances: a worker with every kind of command, and   *)
(* one with few commands for a run that also gets updates.                 *)
(***************************************************************************)
EXTENDS Workflow

(***************************************************************************)
(* Every command but three, which no action tells from another one: they   *)
(* are handled like ExecuteActivity, SignalExternalWorkflow and            *)
(* CompleteWorkflow.                                                       *)
(***************************************************************************)
EveryKind ==
    (Decodable \cup {NoCommand}) \
        {"ExecuteLocalActivity", "CancelExternalWorkflow", "ContinueAsNew"}
UpdateCommands == {"ExecuteActivity", "GetVersion", "CompleteWorkflow", "Panic"}

NoUpdates == [u \in {} |-> ""]
TwoNames == [u \in {"u1", "u2", "u3"} |-> IF u = "u3" THEN "b" ELSE "a"]
=============================================================================
