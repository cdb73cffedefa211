------------------------------- MODULE MCWire -------------------------------
(***************************************************************************)
(* Two calls over two frames: answers, commands whose name differs from    *)
(* their type, and commands one of the two tables has no entry for.        *)
(***************************************************************************)
EXTENDS Wire, TLC

MCSent ==
    {[id |-> 1, cmd |-> NoCommand],
     [id |-> 2, cmd |-> "GetStackTrace"],
     [id |-> 3, cmd |-> "UndefinedResponse"]}

MCReceived ==
    {[id |-> 0, cmd |-> NoCommand, options |-> "null"],
     [id |-> 1, cmd |-> "StackTrace", options |-> "object"],
     [id |-> 2, cmd |-> "InvokeLocalActivity", options |-> "object"],
     [id |-> 3, cmd |-> "Cancel", options |-> "null"]}

Symmetry == Permutations(Calls) \cup Permutations(Frames)
=============================================================================
