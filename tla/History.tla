------------------------------ MODULE History -------------------------------
(***************************************************************************)
(* The RPC calls that save and replay workflow histories (rpc.go):         *)
(* ReplayWorkflow, DownloadWorkflowHistory, ReplayFromJSON and             *)
(* ReplayWorkflowHistory.  They may be made before Serve has connected to  *)
(* Temporal, run concurrently, and share the files they are told to write  *)
(* or read.                                                                *)
(*                                                                         *)
(* External: the Temporal server, whose runs grow; the replayer of the     *)
(* SDK, which runs the worker's code over the events of a history and      *)
(* fails at the first the code does not reproduce; the file system.  A     *)
(* file holds cells: one per event, named for the run, and the end of the  *)
(* JSON document.                                                          *)
(***************************************************************************)
EXTENDS Naturals, Sequences

CONSTANTS
    Callers,    \* the calls that may be in progress
    Runs,       \* the workflow runs of the server
    Breaks,     \* the event of each run the code does not reproduce, 0 if none
    Paths,      \* the save paths
    MaxEvents,  \* bound: events of a run
    MaxCalls    \* bound: calls in all

ASSUME BoundsAssumption ==
    /\ MaxEvents \in Nat \ {0}
    /\ MaxCalls \in Nat
    /\ Breaks \in [Runs -> 0 .. MaxEvents]
ASSUME NamesAssumption == "none" \notin Runs \cup Paths

VARIABLES
    client,         \* temporal.client is set
    rrWorkflowDef,  \* temporal.rrWorkflowDef is set
    length,         \* server: the events each run has
    file,           \* the content of the file at each path
    call,           \* the call in progress of each caller, or its answer
    saved,          \* history: the history a path was last reported to hold
    count           \* history: calls made

vars == <<client, rrWorkflowDef, length, file, call, saved, count>>

Operations == {"ReplayWorkflow", "DownloadWorkflowHistory", "ReplayFromJSON",
               "ReplayWorkflowHistory"}
Codes == {"OK", "InvalidArgument", "Internal", "FailedPrecondition"}
Steps == {"idle", "create", "fetch", "write", "definition", "replay", "answered",
          "panicked"}
Nothing == [run |-> "none", n |-> 0]

(***************************************************************************)
(* The arguments a call may not leave empty.  Without an execution or a    *)
(* type, their fields are empty.                                           *)
(***************************************************************************)
Required ==
    [ReplayWorkflow          |-> {"run_id", "workflow_id", "workflow_name"},
     DownloadWorkflowHistory |-> {"run_id", "workflow_id", "workflow_name", "save_path"},
     ReplayFromJSON          |-> {"workflow_name", "save_path"},
     ReplayWorkflowHistory   |-> {"workflow_name", "history"}]

(***************************************************************************)
(* The JSON text of the first n events of a run; what a file that held old *)
(* holds when new is written to it from its beginning.                     *)
(***************************************************************************)
Json(run, n) == [i \in 1 .. n + 1 |-> IF i <= n THEN run ELSE "end"]

Overwrite(old, new) ==
    [i \in DOMAIN old \cup DOMAIN new |-> IF i \in DOMAIN new THEN new[i] ELSE old[i]]

Histories == [run : Runs, n : 1 .. MaxEvents]

Init ==
    /\ client = FALSE
    /\ rrWorkflowDef = FALSE
    /\ length = [r \in Runs |-> 1]
    /\ file = [p \in Paths |-> <<>>]
    /\ call = [c \in Callers |->
                  [step |-> "idle", op |-> "none", path |-> "none", last |-> 0,
                   hist |-> Nothing, upto |-> 0, alone |-> FALSE, code |-> "none"]]
    /\ saved = [p \in Paths |-> Nothing]
    /\ count = 0

-----------------------------------------------------------------------------
Goto(c, step) == call' = [call EXCEPT ![c] = [@ EXCEPT !.step = step]]

Answer(c, code) ==
    call' = [call EXCEPT ![c] = [@ EXCEPT !.step = "answered", !.code = code]]

Refusal(op) == IF op = "ReplayWorkflowHistory" THEN "FailedPrecondition" ELSE "InvalidArgument"

FirstStep(op) ==
    CASE op = "ReplayWorkflow" -> "fetch"
      [] op = "DownloadWorkflowHistory" -> "create"
      [] OTHER -> "definition"

(***************************************************************************)
(* The requests: each operation has the arguments it looks at, and one of  *)
(* them may be empty.                                                      *)
(***************************************************************************)
Requests ==
    {r \in [op : Operations, run : Runs \cup {"none"}, path : Paths \cup {"none"},
            last : 0 .. MaxEvents, empty : {{}, {"workflow_name"}}] :
        /\ (r.path = "none") <=> ("save_path" \notin Required[r.op])
        /\ (r.run = "none") <=> (r.op = "ReplayFromJSON" \/ r.empty # {})
        /\ r.last = 0 \/ (r.op = "ReplayFromJSON" /\ r.empty = {})}

(***************************************************************************)
(* A call: a request that leaves out what it needs is refused.  The caller *)
(* of ReplayWorkflowHistory sends the events itself.                       *)
(***************************************************************************)
Call(c, r) ==
    /\ call[c].step \in {"idle", "answered"}
    /\ count < MaxCalls
    /\ count' = count + 1
    /\ LET refused == r.empty \cap Required[r.op] # {}
           events == IF r.run \in Runs THEN length[r.run] ELSE 0
           sent == IF r.op = "ReplayWorkflowHistory" THEN events ELSE 0
       IN call' = [call EXCEPT ![c] =
             [step |-> IF refused THEN "answered" ELSE FirstStep(r.op),
              op |-> r.op, path |-> r.path, last |-> r.last,
              hist |-> [run |-> r.run, n |-> sent], upto |-> events, alone |-> FALSE,
              code |-> IF refused THEN Refusal(r.op) ELSE "none"]]
    /\ UNCHANGED <<client, rrWorkflowDef, length, file, saved>>

(***************************************************************************)
(* A download in progress at a path, with the file open.                   *)
(***************************************************************************)
Downloading(p) ==
    {c \in Callers : /\ call[c].op = "DownloadWorkflowHistory"
                     /\ call[c].path = p
                     /\ call[c].step \in {"fetch", "write"}}

(***************************************************************************)
(* The file is open; alone says that no other download has it open in the  *)
(* meantime.                                                               *)
(***************************************************************************)
Opened(c) ==
    LET others == Downloading(call[c].path) IN
    [d \in Callers |->
        IF d = c THEN [call[c] EXCEPT !.step = "fetch", !.alone = (others = {})]
        ELSE IF d \in others THEN [call[d] EXCEPT !.alone = FALSE]
        ELSE call[d]]

(* Mutant: the file is opened and not truncated. *)
OpenFile(c) ==
    /\ call[c].step = "create"
    /\ \/ /\ saved' = [saved EXCEPT ![call[c].path] = Nothing]
          /\ call' = Opened(c)
       \/ Answer(c, "Internal") /\ UNCHANGED saved
    /\ UNCHANGED <<client, rrWorkflowDef, length, file, count>>

(***************************************************************************)
(* os.Create truncates a file that is there.                               *)
(***************************************************************************)
CreateFile(c) ==
    /\ call[c].step = "create"
    /\ \/ /\ file' = [file EXCEPT ![call[c].path] = <<>>]
          /\ saved' = [saved EXCEPT ![call[c].path] = Nothing]
          /\ call' = Opened(c)
       \/ Answer(c, "Internal") /\ UNCHANGED <<file, saved>>
    /\ UNCHANGED <<client, rrWorkflowDef, length, count>>

(* Mutant: after an error of the iterator the history is fetched again. *)
FetchAgain(c) ==
    /\ call[c].step = "fetch"
    /\ client
    /\ \/ /\ call[c].hist.n < call[c].upto
          /\ call' = [call EXCEPT ![c].hist.n = @ + 1]
       \/ /\ call[c].hist.n = call[c].upto
          /\ Goto(c, IF call[c].op = "ReplayWorkflow" THEN "definition" ELSE "write")
       \/ call' = [call EXCEPT ![c].hist.n = 0]
    /\ UNCHANGED <<client, rrWorkflowDef, length, file, saved, count>>

(* Mutant: whether there is a next event is not asked. *)
FetchPastEnd(c) ==
    /\ call[c].step = "fetch"
    /\ client
    /\ \/ call' = [call EXCEPT ![c].hist.n = @ + 1]
       \/ Answer(c, "Internal")
    /\ UNCHANGED <<client, rrWorkflowDef, length, file, saved, count>>

(***************************************************************************)
(* One iteration over the history the server had when the call was made;   *)
(* an error, the timeout of a minute included, ends the call.              *)
(***************************************************************************)
FetchEvent(c) ==
    /\ call[c].step = "fetch"
    /\ client
    /\ \/ /\ call[c].hist.n < call[c].upto
          /\ call' = [call EXCEPT ![c] =
                         [@ EXCEPT !.hist = [call[c].hist EXCEPT !.n = @ + 1]]]
       \/ /\ call[c].hist.n = call[c].upto
          /\ Goto(c, IF call[c].op = "ReplayWorkflow" THEN "definition" ELSE "write")
       \/ Answer(c, "Internal")
    /\ UNCHANGED <<client, rrWorkflowDef, length, file, saved, count>>

(***************************************************************************)
(* The client is used without a look at it: a call made before it is there *)
(* panics.                                                                 *)
(***************************************************************************)
NilClient(c) ==
    /\ call[c].step = "fetch"
    /\ ~client
    /\ Goto(c, "panicked")
    /\ UNCHANGED <<client, rrWorkflowDef, length, file, saved, count>>

(***************************************************************************)
(* The events are written as JSON.  Encoding may fail, and so may the      *)
(* write, having written some of the text.                                 *)
(***************************************************************************)
WriteFile(c) ==
    /\ call[c].step = "write"
    /\ LET p == call[c].path
           text == Json(call[c].hist.run, call[c].hist.n)
       IN
       \/ /\ file' = [file EXCEPT ![p] = Overwrite(@, text)]
          /\ saved' = [saved EXCEPT ![p] =
                          IF call[c].alone THEN call[c].hist ELSE Nothing]
          /\ Answer(c, "OK")
       \/ /\ \E k \in 0 .. Len(text) - 1 :
                file' = [file EXCEPT ![p] = Overwrite(@, SubSeq(text, 1, k))]
          /\ Answer(c, "Internal")
          /\ UNCHANGED saved
    /\ UNCHANGED <<client, rrWorkflowDef, length, count>>

GetDefinition(c) ==
    /\ call[c].step = "definition"
    /\ IF rrWorkflowDef THEN Goto(c, "replay") ELSE Answer(c, "FailedPrecondition")
    /\ UNCHANGED <<client, rrWorkflowDef, length, file, saved, count>>

(***************************************************************************)
(* The histories a call may hand to the replayer: the events it has, or    *)
(* those of the file, up to the last event asked for if there is one.      *)
(***************************************************************************)
Prefix(h, last) ==
    [h EXCEPT !.n = IF last = 0 \/ last > @ THEN @ ELSE last]

Given(c) ==
    IF call[c].op = "ReplayFromJSON"
    THEN {Prefix(h, call[c].last) :
             h \in {g \in Histories : file[call[c].path] = Json(g.run, g.n)}}
    ELSE {call[c].hist}

Reproduced(h) == Breaks[h.run] = 0 \/ Breaks[h.run] > h.n

(* Mutant: having answered the error, ReplayFromJSON does not return. *)
ReplayFallsThrough(c) ==
    /\ call[c].step = "replay"
    /\ \/ \E h \in Given(c) :
             call' = [call EXCEPT ![c].step = "answered", ![c].hist = h, ![c].code = "OK"]
       \/ Answer(c, "OK")
    /\ UNCHANGED <<client, rrWorkflowDef, length, file, saved, count>>

(***************************************************************************)
(* The replayer runs, and may fail for reasons of its own (no such         *)
(* workflow, a worker that dies).                                          *)
(***************************************************************************)
Replay(c) ==
    /\ call[c].step = "replay"
    /\ \/ \E h \in Given(c) :
             /\ Reproduced(h)
             /\ call' = [call EXCEPT ![c] =
                           [@ EXCEPT !.step = "answered", !.hist = h, !.code = "OK"]]
       \/ Answer(c, "FailedPrecondition")
    /\ UNCHANGED <<client, rrWorkflowDef, length, file, saved, count>>

-----------------------------------------------------------------------------
(***************************************************************************)
(* The environment: initPool connects the client, then sets the            *)
(* definition; a run gets an event.                                        *)
(***************************************************************************)
ClientSet ==
    /\ ~client
    /\ client' = TRUE
    /\ UNCHANGED <<rrWorkflowDef, length, file, call, saved, count>>

DefinitionSet ==
    /\ client
    /\ ~rrWorkflowDef
    /\ rrWorkflowDef' = TRUE
    /\ UNCHANGED <<client, length, file, call, saved, count>>

EventAdded(r) ==
    /\ length[r] < MaxEvents
    /\ length' = [length EXCEPT ![r] = @ + 1]
    /\ UNCHANGED <<client, rrWorkflowDef, file, call, saved, count>>

CallStep(c) ==
    \/ CreateFile(c) \/ FetchEvent(c) \/ NilClient(c) \/ WriteFile(c)
    \/ GetDefinition(c) \/ Replay(c)

Next ==
    \/ \E c \in Callers :
          \/ \E r \in Requests : Call(c, r)
          \/ CallStep(c)
    \/ ClientSet \/ DefinitionSet
    \/ \E r \in Runs : EventAdded(r)

Spec == Init /\ [][Next]_vars

(***************************************************************************)
(* Fetching has a timeout of a minute and the file is local, so the        *)
(* goroutine of a call gets through them.  Nothing of the kind is assumed  *)
(* of the wait for p.mu and of the replay, which have no timeout.          *)
(***************************************************************************)
FairSpec ==
    /\ Spec
    /\ \A c \in Callers :
          WF_vars(CreateFile(c) \/ FetchEvent(c) \/ NilClient(c) \/ WriteFile(c))

-----------------------------------------------------------------------------
CallSet ==
    [step : Steps, op : Operations \cup {"none"}, path : Paths \cup {"none"},
     last : 0 .. MaxEvents, hist : [run : Runs \cup {"none"}, n : 0 .. MaxEvents],
     upto : 0 .. MaxEvents, alone : BOOLEAN, code : Codes \cup {"none"}]

TypeOK ==
    /\ client \in BOOLEAN
    /\ rrWorkflowDef \in BOOLEAN
    /\ length \in [Runs -> 1 .. MaxEvents]
    /\ file \in [Paths -> Seq(Runs \cup {"end"})]
    /\ call \in [Callers -> CallSet]
    /\ saved \in [Paths -> Histories \cup {Nothing}]
    /\ count \in 0 .. MaxCalls

(***************************************************************************)
(* A history that was reported saved is in its file, whole and with        *)
(* nothing behind it, whatever the file held before, until the next        *)
(* download opens the file.  Downloads that share a path at the same time  *)
(* are given no such promise.                                              *)
(***************************************************************************)
SavedWhole ==
    \A p \in Paths :
        saved[p] # Nothing => file[p] = Json(saved[p].run, saved[p].n)

(***************************************************************************)
(* A replay answered with OK ran over events the code reproduces: over all *)
(* the events of the history, or all up to the last event asked for.  What *)
(* a download that failed, or was mixed with another, left behind is never *)
(* answered with OK.                                                       *)
(***************************************************************************)
ReplayTrusted ==
    \A c \in Callers :
        /\ call[c].step = "answered"
        /\ call[c].code = "OK"
        /\ call[c].op # "DownloadWorkflowHistory"
        => /\ call[c].hist \in Histories
           /\ \A i \in 1 .. call[c].hist.n : Breaks[call[c].hist.run] # i
           /\ call[c].op = "ReplayFromJSON" \/ call[c].hist.n = call[c].upto

(***************************************************************************)
(* Fetching a history comes to an end, also when the server stops          *)
(* answering halfway: a download is answered and a replay goes on to the   *)
(* definition, unless the call was made before the client was there.       *)
(***************************************************************************)
FetchEnds ==
    \A c \in Callers :
        call[c].step \in {"create", "fetch", "write"} ~>
            call[c].step \in {"definition", "answered", "panicked"}

(***************************************************************************)
(* A call made before the plugin is ready is answered, with                *)
(* FailedPrecondition: "retry in a second".                                *)
(***************************************************************************)
ReplayAnswered ==
    \A c \in Callers : call[c].op = "ReplayWorkflow" => call[c].step # "panicked"
=============================================================================
