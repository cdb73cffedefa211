-------------------------------- MODULE Wire --------------------------------
(***************************************************************************)
(* The codec (internal/codec/proto/proto.go).  One codec serves every      *)
(* workflow task and activity of the plugin at once; what the calls share  *)
(* is the pool of frames (sync.Pool).  A call takes a frame, fills it      *)
(* message by message and reads it, and puts it back when it returns, on   *)
(* every path.  Payloads, headers and failures are left out; a message is  *)
(* its identifier and its command, and one that is received has options.   *)
(***************************************************************************)
EXTENDS Protocol

CONSTANTS
    Calls,      \* the goroutines that call the codec; also the run of each
    Frames,     \* bound: the frames that are ever made
    Sent,       \* the messages the host encodes
    Received,   \* the messages a worker answers with, by command name
    MaxLen,     \* bound: the messages of a call
    None        \* nil: no frame, no body

ASSUME NilAssumption == None \notin Frames
ASSUME LengthAssumption == MaxLen \in Nat

VARIABLES
    call,       \* what each goroutine does
    pool,       \* Codec.frPool: the frames put back
    content     \* the messages in each frame

vars == <<call, pool, content>>

Messages(S) == UNION {[1..n -> S] : n \in 0..MaxLen}

Begun(op, msgs, at, frame, out) ==
    [op |-> op, msgs |-> msgs, at |-> at, frame |-> frame, out |-> out, err |-> FALSE]

Init ==
    /\ call = [c \in Calls |-> Begun("idle", <<>>, "returned", None, None)]
    /\ pool = {}
    /\ content = [f \in Frames |-> <<>>]

-----------------------------------------------------------------------------
(***************************************************************************)
(* CommandName and InitCommand: the type of a command and its name on the  *)
(* wire, which differ for GetStackTrace; neither table has all of them.    *)
(***************************************************************************)
CommandTypes ==
    ((HostCommands \ {"StackTrace"}) \cup WorkerCommands \cup {"GetStackTrace"})
        \ {"UndefinedResponse"}

CommandName(type) == IF type = "GetStackTrace" THEN "StackTrace" ELSE type

InitCommand(name) == IF name = "StackTrace" THEN "GetStackTrace" ELSE name

Held == {call[c].frame : c \in Calls} \ {None}

(***************************************************************************)
(* getFrame: one that was put back, or a new one.                          *)
(***************************************************************************)
getFrame(c, op, msgs) ==
    \E f \in pool \cup (Frames \ (Held \cup pool)) :
        /\ pool' = pool \ {f}
        /\ call' = [call EXCEPT ![c] = Begun(op, msgs, "frame", f, None)]
        /\ UNCHANGED content

(***************************************************************************)
(* The deferred putFrame, and the call's return.                           *)
(***************************************************************************)
putFrame(c, at, out, err) ==
    LET f == call[c].frame IN
    /\ content' = [content EXCEPT ![f] = <<>>]
    /\ pool' = pool \cup {f}
    /\ call' = [call EXCEPT ![c] = [@ EXCEPT !.at = at, !.frame = None, !.out = out, !.err = err]]

(***************************************************************************)
(* Encode of no message and Decode of an empty body return at once.        *)
(***************************************************************************)
Encode(c, msgs) ==
    /\ call[c].at = "returned"
    /\ \/ msgs # <<>> /\ getFrame(c, "Encode", msgs)
       \/ /\ msgs = <<>>
          /\ call' = [call EXCEPT ![c] = Begun("Encode", <<>>, "returned", None, None)]
          /\ UNCHANGED <<pool, content>>

Decode(c, op, body) ==
    /\ call[c].at = "returned"
    /\ \/ body # <<>> /\ getFrame(c, op, body)
       \/ /\ body = <<>>
          /\ call' = [call EXCEPT ![c] =
                Begun(op, <<>>, IF op = "Decode" THEN "returned" ELSE "info", None, <<>>)]
          /\ UNCHANGED <<pool, content>>

-----------------------------------------------------------------------------
Packed(c, msg) ==
    [id |-> msg.id, run |-> c,
     name |-> IF IsCommand(msg) THEN CommandName(msg.cmd) ELSE NoCommand]

Filled(c) == Len(content[call[c].frame])

(* Mutant: the frame is put back once it is filled, and then read. *)
FilledAndPut(c) ==
    LET f == call[c].frame
        msg == call[c].msgs[Filled(c) + 1] IN
    /\ call[c].op = "Encode" /\ call[c].at = "frame"
    /\ Filled(c) < Len(call[c].msgs)
    /\ content' = [content EXCEPT ![f] = Append(@, Packed(c, msg))]
    /\ pool' = IF Filled(c) + 1 = Len(call[c].msgs) THEN pool \cup {f} ELSE pool
    /\ UNCHANGED call

(* Mutant: the error of CommandName is not looked at. *)
PackUnnamed(c) ==
    LET f == call[c].frame
        msg == call[c].msgs[Filled(c) + 1] IN
    /\ call[c].op = "Encode" /\ call[c].at = "frame"
    /\ Filled(c) < Len(call[c].msgs)
    /\ content' = [content EXCEPT ![f] = Append(@,
           IF msg.cmd \in CommandTypes THEN Packed(c, msg)
           ELSE [Packed(c, msg) EXCEPT !.name = NoCommand])]
    /\ UNCHANGED <<call, pool>>

(***************************************************************************)
(* A command CommandName does not know, or whose options cannot be         *)
(* written, ends Encode with an error.                                     *)
(***************************************************************************)
packMessage(c) ==
    LET f == call[c].frame
        msg == call[c].msgs[Filled(c) + 1] IN
    /\ call[c].op = "Encode" /\ call[c].at = "frame"
    /\ Filled(c) < Len(call[c].msgs)
    /\ \/ IsCommand(msg) /\ putFrame(c, "returned", None, TRUE)
       \/ /\ IsCommand(msg) => msg.cmd \in CommandTypes
          /\ content' = [content EXCEPT ![f] = Append(@, Packed(c, msg))]
          /\ UNCHANGED <<call, pool>>

(***************************************************************************)
(* The context and the frame are marshalled into the payload.  Either may  *)
(* fail; the body is assigned before the error is looked at, and then is a *)
(* beginning of the frame.                                                 *)
(***************************************************************************)
Marshal(c) ==
    /\ call[c].op = "Encode" /\ call[c].at = "frame"
    /\ Filled(c) = Len(call[c].msgs)
    /\ \/ putFrame(c, "returned", content[call[c].frame], FALSE)
       \/ putFrame(c, "returned", None, TRUE)
       \/ \E k \in 0 .. Filled(c) :
             putFrame(c, "returned", SubSeq(content[call[c].frame], 1, k), TRUE)

-----------------------------------------------------------------------------
Unmarshal(c) ==
    /\ call[c].op # "Encode" /\ call[c].at = "frame"
    /\ \/ putFrame(c, "returned", <<>>, TRUE)
       \/ /\ content' = [content EXCEPT ![call[c].frame] = call[c].msgs]
          /\ call' = [call EXCEPT ![c] = [@ EXCEPT !.at = "parse", !.out = <<>>]]
          /\ UNCHANGED pool

(***************************************************************************)
(* Options that are the JSON null turn the command into none.              *)
(***************************************************************************)
Parsed(msg) ==
    [id |-> msg.id,
     cmd |-> IF IsCommand(msg) /\ msg.options # "null" THEN InitCommand(msg.cmd) ELSE NoCommand]

(* Mutant: a message that cannot be read is passed over. *)
ParseKnown(c) ==
    /\ call[c].at = "parse"
    /\ LET known == SelectSeq(content[call[c].frame],
                         LAMBDA m : ~IsCommand(m) \/ m.cmd \in Decodable) IN
       /\ Len(call[c].out) < Len(known)
       /\ call' = [call EXCEPT ![c].out = Append(@, Parsed(known[Len(@) + 1]))]
       /\ UNCHANGED <<pool, content>>

(***************************************************************************)
(* A name InitCommand does not know, or options that cannot be read, end   *)
(* Decode with an error and the messages before.                           *)
(***************************************************************************)
parseMessage(c) ==
    LET frame == content[call[c].frame]
        out == call[c].out IN
    /\ call[c].at = "parse"
    /\ Len(out) < Len(frame)
    /\ LET msg == frame[Len(out) + 1] IN
       \/ /\ IsCommand(msg)
          /\ putFrame(c, "returned", out, TRUE)
       \/ /\ IsCommand(msg) => msg.cmd \in Decodable
          /\ call' = [call EXCEPT ![c] = [@ EXCEPT !.out = Append(out, Parsed(msg))]]
          /\ UNCHANGED <<pool, content>>

Decoded(c) ==
    /\ call[c].at = "parse"
    /\ Len(call[c].out) = Len(content[call[c].frame])
    /\ putFrame(c, IF call[c].op = "Decode" THEN "returned" ELSE "info", call[c].out, FALSE)

(* Mutant: the first message is taken, whatever follows it. *)
FirstInfo(c) ==
    /\ call[c].at = "info"
    /\ call' = [call EXCEPT ![c].at = "returned",
                            ![c].err = call[c].out = <<>> \/ call[c].out[1].id # 0]
    /\ UNCHANGED <<pool, content>>

(***************************************************************************)
(* DecodeWorkerInfo: exactly one message, with the identifier 0, whose     *)
(* payloads may still fail to be read.                                     *)
(***************************************************************************)
DecodeWorkerInfo(c) ==
    /\ call[c].at = "info"
    /\ \E err \in BOOLEAN :
           /\ err \/ (Len(call[c].out) = 1 /\ call[c].out[1].id = 0)
           /\ call' = [call EXCEPT ![c] = [@ EXCEPT !.at = "returned", !.err = err]]
    /\ UNCHANGED <<pool, content>>

(***************************************************************************)
(* The garbage collector empties the pool.                                 *)
(***************************************************************************)
Collected ==
    /\ pool # {}
    /\ pool' = {}
    /\ UNCHANGED <<call, content>>

Next ==
    \/ \E c \in Calls :
        \/ \E msgs \in Messages(Sent) : Encode(c, msgs)
        \/ \E op \in {"Decode", "DecodeWorkerInfo"}, body \in Messages(Received) :
               Decode(c, op, body)
        \/ packMessage(c) \/ Marshal(c)
        \/ Unmarshal(c) \/ parseMessage(c) \/ Decoded(c)
        \/ DecodeWorkerInfo(c)
    \/ Collected

Spec == Init /\ [][Next]_vars

-----------------------------------------------------------------------------
(***************************************************************************)
(* No two calls of the codec ever work on the same frame, and no frame is  *)
(* handed out while a call still reads it, whichever path a call returns   *)
(* by.                                                                     *)
(***************************************************************************)
FramesOwned ==
    /\ \A c, d \in Calls : c # d /\ call[c].frame # None => call[c].frame # call[d].frame
    /\ Held \cap pool = {}

(***************************************************************************)
(* What Encode puts into the payload is every message of its caller and    *)
(* no other, in order, under the name CommandName gives and stamped with   *)
(* the caller's run.  When it fails, the payload has no body or a          *)
(* beginning of these messages, never one of another caller's.             *)
(***************************************************************************)
EncodedOwn ==
    \A c \in Calls : call[c].op = "Encode" /\ call[c].at = "returned" =>
        \/ call[c].out = None /\ (call[c].err \/ call[c].msgs = <<>>)
        \/ /\ Len(call[c].out) <= Len(call[c].msgs)
           /\ \A i \in DOMAIN call[c].out : call[c].out[i] = Packed(c, call[c].msgs[i])
           /\ ~call[c].err => Len(call[c].out) = Len(call[c].msgs)

(***************************************************************************)
(* What Decode appends is always a beginning of what its caller was sent,  *)
(* and all of it if there is no error: an unknown command hides itself and *)
(* what follows, never a message in between.                               *)
(***************************************************************************)
DecodedOwn ==
    \A c \in Calls : call[c].op \notin {"Encode", "idle"} /\ call[c].at # "frame" =>
        /\ Len(call[c].out) <= Len(call[c].msgs)
        /\ \A i \in DOMAIN call[c].out : call[c].out[i] = Parsed(call[c].msgs[i])
        /\ call[c].at = "returned" /\ ~call[c].err => Len(call[c].out) = Len(call[c].msgs)

(***************************************************************************)
(* Worker information is taken from a frame of exactly one message, the    *)
(* answer to the command 0 that WorkerInfo sent.                           *)
(***************************************************************************)
InfoConfirmed ==
    \A c \in Calls :
        call[c].op = "DecodeWorkerInfo" /\ call[c].at = "returned" /\ ~call[c].err =>
            Len(call[c].msgs) = 1 /\ call[c].msgs[1].id = 0
=============================================================================
