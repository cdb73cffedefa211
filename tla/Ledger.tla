------------------------------- MODULE Ledger -------------------------------
(***************************************************************************)
(* What the host promises a PHP worker about the commands of one workflow  *)
(* run.  The worker numbers its commands 1, 2, 3, ... as it sends them.    *)
(* The host takes them up one at a time and in that order, passes over     *)
(* none of them but those sent in a reply where it looks for no command,   *)
(* answers only what it has taken up, never takes an answer back, and      *)
(* takes up and answers nothing once the run is over.                      *)
(***************************************************************************)
EXTENDS Naturals

VARIABLES
    sent,       \* how many commands the worker has sent
    taken,      \* the commands the host has taken up
    passed,     \* the commands the host never looks at
    answered,   \* the commands the worker has an answer to
    over        \* the run has ended

vars == <<sent, taken, passed, answered, over>>

Init ==
    /\ sent = 0
    /\ taken = {}
    /\ passed = {}
    /\ answered = {}
    /\ over = FALSE

Open == (1 .. sent) \ (taken \cup passed)

(***************************************************************************)
(* The first open command is taken up, or none is.                         *)
(***************************************************************************)
Take ==
    \/ UNCHANGED taken
    \/ \E id \in Open :
          /\ \A other \in Open : id <= other
          /\ taken' = taken \cup {id}

Answer ==
    /\ answered \subseteq answered'
    /\ answered' \subseteq taken'

(***************************************************************************)
(* A step of the host, which may exchange messages with the worker; it may *)
(* be the last.                                                            *)
(***************************************************************************)
Work ==
    /\ ~over
    /\ Take
    /\ Answer
    /\ sent' >= sent
    /\ over' \in BOOLEAN
    /\ UNCHANGED passed

(***************************************************************************)
(* The host asks something of the worker: what the worker sends along is   *)
(* passed over.  The last thing asked is that it forget the run.           *)
(***************************************************************************)
Ask ==
    /\ sent' >= sent
    /\ passed' = passed \cup (sent + 1 .. sent')
    /\ over => over'
    /\ UNCHANGED <<taken, answered>>

Next == Work \/ Ask

Spec == Init /\ [][Next]_vars
=============================================================================
