----------------------------- MODULE WireProofs -----------------------------
(***************************************************************************)
(* The codec for any number of callers, frames and messages: no two calls  *)
(* share a frame, a call encodes and decodes its own messages and nothing  *)
(* else, and worker information is the answer that was asked for.          *)
(*                                                                         *)
(* A frame belongs to the call that holds it, so the argument is made call *)
(* by call: what a step does to its own call and frame leaves the others   *)
(* as they are.                                                            *)
(***************************************************************************)
EXTENDS Wire, SequenceTheorems, TLAPS

(***************************************************************************)
(* What frames and payloads hold.                                          *)
(***************************************************************************)
Written == {Packed(c, msg) : c \in Calls, msg \in Sent}
Read == {Parsed(msg) : msg \in Received}

CallSet ==
    [op : {"idle", "Encode", "Decode", "DecodeWorkerInfo"},
     msgs : Seq(Sent) \cup Seq(Received),
     at : {"returned", "frame", "parse", "info"},
     frame : Frames \cup {None},
     out : {None} \cup Seq(Written) \cup Seq(Read),
     err : BOOLEAN]

Types ==
    /\ call \in [Calls -> CallSet]
    /\ pool \subseteq Frames
    /\ content \in [Frames -> Seq(Written) \cup Seq(Received)]

(***************************************************************************)
(* A call works on a frame from getFrame to putFrame, and a frame no call  *)
(* works on is empty, also one that is made or was collected.              *)
(***************************************************************************)
Holding == \A c \in Calls : call[c].at \in {"frame", "parse"} <=> call[c].frame # None

Clean == \A f \in Frames \ Held : content[f] = <<>>

(***************************************************************************)
(* The beginning of msgs, as it is packed for c or parsed.                 *)
(***************************************************************************)
PackedUpTo(c, packed, msgs) ==
    /\ packed \in Seq(Written)
    /\ Len(packed) <= Len(msgs)
    /\ \A i \in 1 .. Len(packed) : packed[i] = Packed(c, msgs[i])

ParsedUpTo(out, msgs) ==
    /\ out \in Seq(Read)
    /\ Len(out) <= Len(msgs)
    /\ \A i \in 1 .. Len(out) : out[i] = Parsed(msgs[i])

(***************************************************************************)
(* An Encode in progress has packed the beginning of its messages into its *)
(* frame; one that has returned has them all, or an error and a beginning  *)
(* of them or no body.                                                     *)
(***************************************************************************)
Encoding(c) ==
    call[c].op = "Encode" =>
        /\ call[c].msgs \in Seq(Sent)
        /\ call[c].at \in {"frame", "returned"}
        /\ call[c].at = "frame" =>
              /\ call[c].msgs # <<>>
              /\ PackedUpTo(c, content[call[c].frame], call[c].msgs)
        /\ call[c].at = "returned" =>
              \/ call[c].out = None /\ (call[c].err \/ call[c].msgs = <<>>)
              \/ /\ PackedUpTo(c, call[c].out, call[c].msgs)
                 /\ ~call[c].err => Len(call[c].out) = Len(call[c].msgs)

(***************************************************************************)
(* A Decode that has read its frame holds the messages it was given, and   *)
(* has parsed the beginning of them; DecodeWorkerInfo looks at them only   *)
(* once it has parsed them all.                                            *)
(***************************************************************************)
Decoding(c) ==
    call[c].op \in {"Decode", "DecodeWorkerInfo"} =>
        /\ call[c].msgs \in Seq(Received)
        /\ call[c].at # "frame" => ParsedUpTo(call[c].out, call[c].msgs)
        /\ call[c].at = "parse" => content[call[c].frame] = call[c].msgs
        /\ call[c].at = "info" \/ (call[c].at = "returned" /\ ~call[c].err) =>
              Len(call[c].out) = Len(call[c].msgs)
        /\ call[c].at = "info" => call[c].op = "DecodeWorkerInfo"
        /\ call[c].op = "DecodeWorkerInfo" /\ call[c].at = "returned" /\ ~call[c].err =>
              Len(call[c].msgs) = 1 /\ call[c].msgs[1].id = 0

Idling(c) == call[c].op = "idle" => call[c].at = "returned"

CallOK(c) == Encoding(c) /\ Decoding(c) /\ Idling(c)

WireInv ==
    /\ Types
    /\ FramesOwned
    /\ Holding
    /\ Clean
    /\ \A c \in Calls : CallOK(c)

-----------------------------------------------------------------------------
(***************************************************************************)
(* The messages of a call are a sequence.                                  *)
(***************************************************************************)
LEMMA MessagesAreSeq ==
    ASSUME NEW S, NEW msgs \in Messages(S)
    PROVE  msgs \in Seq(S)
<1>1. PICK n \in 0 .. MaxLen : msgs \in [1 .. n -> S]
  BY DEF Messages
<1>2. n \in Nat
  BY LengthAssumption
<1> QED BY <1>1, <1>2, SeqDef

(***************************************************************************)
(* A step of one call that changes no frame but its own leaves every other *)
(* call as it was.                                                         *)
(***************************************************************************)
LEMMA OthersKept ==
    ASSUME WireInv, NEW c \in Calls,
           \A d \in Calls \ {c} : call'[d] = call[d],
           \A f \in Frames \ {call[c].frame} : content'[f] = content[f]
    PROVE  \A d \in Calls \ {c} : CallOK(d)'
<1> SUFFICES ASSUME NEW d \in Calls \ {c} PROVE CallOK(d)'
  OBVIOUS
<1>1. call'[d] = call[d]
  OBVIOUS
<1>2. call[d].at \in {"frame", "parse"} => content'[call[d].frame] = content[call[d].frame]
  BY DEF WireInv, Types, CallSet, Holding, FramesOwned
<1>3. CallOK(d)
  BY DEF WireInv
<1>4. Encoding(d)'
  BY <1>1, <1>2, <1>3 DEF CallOK, Encoding, PackedUpTo
<1>5. Decoding(d)'
  BY <1>1, <1>2, <1>3 DEF CallOK, Decoding, ParsedUpTo
<1>6. Idling(d)'
  BY <1>1, <1>3 DEF CallOK, Idling
<1> QED BY <1>4, <1>5, <1>6 DEF CallOK

(***************************************************************************)
(* getFrame hands out a frame that no call holds and that is empty.        *)
(***************************************************************************)
LEMMA FrameTaken ==
    ASSUME WireInv, NEW c \in Calls, call[c].at = "returned",
           NEW op \in {"Encode", "Decode", "DecodeWorkerInfo"},
           NEW msgs \in Seq(Sent) \cup Seq(Received),
           getFrame(c, op, msgs)
    PROVE  /\ Types' /\ FramesOwned' /\ Holding' /\ Clean'
           /\ \A d \in Calls \ {c} : CallOK(d)'
           /\ call'[c].op = op /\ call'[c].msgs = msgs /\ call'[c].at = "frame"
           /\ content'[call'[c].frame] = <<>>
<1>1. PICK f \in pool \cup (Frames \ (Held \cup pool)) :
         /\ pool' = pool \ {f}
         /\ call' = [call EXCEPT ![c] = [op |-> op, msgs |-> msgs, at |-> "frame",
                                         frame |-> f, out |-> None, err |-> FALSE]]
         /\ UNCHANGED content
  BY Zenon DEF getFrame, Begun
<1>2. f \in Frames \ Held
  BY DEF WireInv, Types, FramesOwned
<1>3. /\ call'[c] = [op |-> op, msgs |-> msgs, at |-> "frame",
                     frame |-> f, out |-> None, err |-> FALSE]
      /\ \A d \in Calls \ {c} : call'[d] = call[d]
  BY <1>1 DEF WireInv, Types
<1>4. Types'
  BY <1>1, <1>2 DEF WireInv, Types, CallSet
<1>5. Held' = Held \cup {f}
  BY <1>2, <1>3, NilAssumption DEF Held, WireInv, Holding
<1>6. FramesOwned'
  BY <1>1, <1>2, <1>3, <1>5 DEF WireInv, FramesOwned, Held
<1>7. Holding'
  BY <1>2, <1>3, NilAssumption DEF WireInv, Holding
<1>8. Clean'
  BY <1>1, <1>5 DEF WireInv, Clean
<1>9. content[f] = <<>>
  BY <1>2 DEF WireInv, Clean
<1> QED BY <1>1, <1>3, <1>4, <1>6, <1>7, <1>8, <1>9, OthersKept

(***************************************************************************)
(* putFrame empties the frame of the call and gives it up.                 *)
(***************************************************************************)
LEMMA FramePut ==
    ASSUME WireInv, NEW c \in Calls, call[c].at \in {"frame", "parse"},
           NEW at \in {"returned", "info"},
           NEW out \in {None} \cup Seq(Written) \cup Seq(Read),
           NEW err \in BOOLEAN,
           putFrame(c, at, out, err)
    PROVE  /\ Types' /\ FramesOwned' /\ Holding' /\ Clean'
           /\ \A d \in Calls \ {c} : CallOK(d)'
           /\ call'[c].op = call[c].op /\ call'[c].msgs = call[c].msgs
           /\ call'[c].at = at /\ call'[c].out = out /\ call'[c].err = err
<1> DEFINE f == call[c].frame
<1>1. /\ content' = [content EXCEPT ![f] = <<>>]
      /\ pool' = pool \cup {f}
      /\ call' = [call EXCEPT ![c] = [call[c] EXCEPT !.at = at, !.frame = None, !.out = out, !.err = err]]
  BY DEF putFrame
<1>2. f \in Frames
  BY DEF WireInv, Types, CallSet, Holding
<1>3. /\ call'[c].op = call[c].op /\ call'[c].msgs = call[c].msgs
      /\ call'[c].at = at /\ call'[c].out = out /\ call'[c].err = err
      /\ call'[c].frame = None
      /\ \A d \in Calls \ {c} : call'[d] = call[d]
  BY <1>1 DEF WireInv, Types, CallSet
<1>4. Types'
  <2>1. [call[c] EXCEPT !.at = at, !.frame = None, !.out = out, !.err = err] \in CallSet
    BY ZenonT(60) DEF WireInv, Types, CallSet
  <2>2. call' \in [Calls -> CallSet]
    BY <1>1, <2>1 DEF WireInv, Types
  <2>3. content' \in [Frames -> Seq(Written) \cup Seq(Received)]
    BY <1>1, EmptySeq, Zenon DEF WireInv, Types
  <2> QED BY <1>1, <1>2, <2>2, <2>3 DEF WireInv, Types
<1>5. Held' = Held \ {f}
  BY <1>2, <1>3, NilAssumption DEF Held, WireInv, FramesOwned
<1>6. FramesOwned'
  BY <1>1, <1>3, <1>5 DEF WireInv, FramesOwned
<1>7. Holding'
  BY <1>3 DEF WireInv, Holding
<1>8. Clean'
  BY <1>1, <1>2, <1>5 DEF WireInv, Types, Clean
<1>9. \A g \in Frames \ {f} : content'[g] = content[g]
  BY <1>1 DEF WireInv, Types
<1> HIDE DEF f
<1> QED BY <1>3, <1>4, <1>6, <1>7, <1>8, <1>9, OthersKept DEF f

(***************************************************************************)
(* A step within a call that keeps its frame, or has none, and leaves the  *)
(* pool alone.                                                             *)
(***************************************************************************)
LEMMA FrameKept ==
    ASSUME WireInv, NEW c \in Calls, NEW x \in CallSet,
           x.frame = call[c].frame,
           x.at \in {"frame", "parse"} <=> call[c].at \in {"frame", "parse"},
           call' = [call EXCEPT ![c] = x],
           content' \in [Frames -> Seq(Written) \cup Seq(Received)],
           \A f \in Frames \ {call[c].frame} : content'[f] = content[f],
           UNCHANGED pool
    PROVE  /\ Types' /\ FramesOwned' /\ Holding' /\ Clean'
           /\ \A d \in Calls \ {c} : CallOK(d)'
           /\ call'[c] = x
<1>1. call'[c] = x /\ \A d \in Calls \ {c} : call'[d] = call[d]
  BY DEF WireInv, Types
<1>2. Types'
  BY DEF WireInv, Types
<1>3. Held' = Held
  BY <1>1 DEF Held
<1>4. FramesOwned'
  BY <1>1, <1>3 DEF WireInv, FramesOwned
<1>5. Holding'
  BY <1>1 DEF WireInv, Holding
<1>6. Clean'
  <2> SUFFICES ASSUME NEW f \in Frames \ Held PROVE content'[f] = <<>>
    BY <1>3 DEF Clean
  <2>1. f # call[c].frame
    BY NilAssumption DEF Held
  <2> QED BY <2>1 DEF WireInv, Clean
<1> QED BY <1>1, <1>2, <1>4, <1>5, <1>6, OthersKept

(***************************************************************************)
(* Appending the next message keeps a beginning a beginning.               *)
(***************************************************************************)
LEMMA PackedNext ==
    ASSUME NEW c \in Calls, NEW msgs \in Seq(Sent), NEW packed,
           PackedUpTo(c, packed, msgs), Len(packed) < Len(msgs)
    PROVE  PackedUpTo(c, Append(packed, Packed(c, msgs[Len(packed) + 1])), msgs)
<1>1. packed \in Seq(Written) /\ Len(packed) \in Nat /\ Len(msgs) \in Nat
  BY LenProperties DEF PackedUpTo
<1>2. msgs[Len(packed) + 1] \in Sent
  BY <1>1, ElementOfSeq
<1>3. Packed(c, msgs[Len(packed) + 1]) \in Written
  BY <1>2 DEF Written
<1> QED BY <1>1, <1>3, AppendProperties DEF PackedUpTo

(***************************************************************************)
(* The same of what is parsed.                                             *)
(***************************************************************************)
LEMMA ParsedNext ==
    ASSUME NEW msgs \in Seq(Received), NEW out,
           ParsedUpTo(out, msgs), Len(out) < Len(msgs)
    PROVE  ParsedUpTo(Append(out, Parsed(msgs[Len(out) + 1])), msgs)
<1>1. out \in Seq(Read) /\ Len(out) \in Nat /\ Len(msgs) \in Nat
  BY LenProperties DEF ParsedUpTo
<1>2. msgs[Len(out) + 1] \in Received
  BY <1>1, ElementOfSeq
<1>3. Parsed(msgs[Len(out) + 1]) \in Read
  BY <1>2 DEF Read
<1> QED BY <1>1, <1>3, AppendProperties DEF ParsedUpTo

(***************************************************************************)
(* Nothing packed, or nothing parsed, is a beginning.                      *)
(***************************************************************************)
LEMMA NothingYet ==
    /\ \A c \in Calls : \A msgs \in Seq(Sent) : PackedUpTo(c, <<>>, msgs)
    /\ \A msgs \in Seq(Received) : ParsedUpTo(<<>>, msgs)
<1>1. <<>> \in Seq(Written) /\ <<>> \in Seq(Read) /\ Len(<<>>) = 0
  BY EmptySeq
<1>2. \A S : \A msgs \in Seq(S) : Len(msgs) \in Nat
  BY LenProperties
<1> QED BY <1>1, <1>2 DEF PackedUpTo, ParsedUpTo

-----------------------------------------------------------------------------
(***************************************************************************)
(* One lemma per operation: each keeps WireInv.                            *)
(***************************************************************************)
LEMMA EncodeStep ==
    ASSUME WireInv, NEW c \in Calls, NEW msgs \in Messages(Sent), Encode(c, msgs)
    PROVE  WireInv'
<1>1. msgs \in Seq(Sent)
  BY MessagesAreSeq
<1>2. CASE msgs # <<>> /\ getFrame(c, "Encode", msgs)
  <2>1. /\ Types' /\ FramesOwned' /\ Holding' /\ Clean'
        /\ \A d \in Calls \ {c} : CallOK(d)'
        /\ call'[c].op = "Encode" /\ call'[c].msgs = msgs /\ call'[c].at = "frame"
        /\ content'[call'[c].frame] = <<>>
    BY <1>1, <1>2, FrameTaken DEF Encode
  <2>2. CallOK(c)'
    BY <1>1, <1>2, <2>1, NothingYet DEF CallOK, Encoding, Decoding, Idling
  <2> QED BY <2>1, <2>2 DEF WireInv
<1>3. CASE /\ msgs = <<>>
           /\ call' = [call EXCEPT ![c] = Begun("Encode", <<>>, "returned", None, None)]
           /\ UNCHANGED <<pool, content>>
  <2> DEFINE x == Begun("Encode", <<>>, "returned", None, None)
  <2>1. x = [op |-> "Encode", msgs |-> <<>>, at |-> "returned", frame |-> None,
             out |-> None, err |-> FALSE]
    BY DEF Begun
  <2>2. x \in CallSet
    <3>1. <<>> \in Seq(Sent) /\ <<>> \in Seq(Read)
      BY EmptySeq
    <3> QED BY <3>1 DEF CallSet, Begun
  <2>3. call[c].at = "returned" /\ call[c].frame = None
    BY DEF Encode, WireInv, Holding
  <2>4. /\ Types' /\ FramesOwned' /\ Holding' /\ Clean'
        /\ \A d \in Calls \ {c} : CallOK(d)'
        /\ call'[c] = x
    <3> HIDE DEF x
    <3>1. x.frame = None /\ x.at = "returned"
      BY <2>1
    <3>2. content' \in [Frames -> Seq(Written) \cup Seq(Received)]
      BY <1>3, ZenonT(60) DEF WireInv, Types
    <3> QED BY <1>3, <2>2, <2>3, <3>1, <3>2, FrameKept, Zenon DEF x
  <2>5. CallOK(c)'
    <3>1. /\ call'[c].op = "Encode" /\ call'[c].msgs = <<>> /\ call'[c].at = "returned"
          /\ call'[c].out = None
      BY <2>1, <2>4
    <3> QED BY <1>1, <1>3, <3>1, Zenon DEF CallOK, Encoding, Decoding, Idling
  <2> QED BY <2>4, <2>5 DEF WireInv
<1> QED BY <1>2, <1>3 DEF Encode

(***************************************************************************)
(* Decode and DecodeWorkerInfo begin.                                      *)
(***************************************************************************)
LEMMA DecodeStep ==
    ASSUME WireInv, NEW c \in Calls, NEW op \in {"Decode", "DecodeWorkerInfo"},
           NEW body \in Messages(Received), Decode(c, op, body)
    PROVE  WireInv'
<1>1. body \in Seq(Received)
  BY MessagesAreSeq
<1>2. CASE body # <<>> /\ getFrame(c, op, body)
  <2>1. /\ Types' /\ FramesOwned' /\ Holding' /\ Clean'
        /\ \A d \in Calls \ {c} : CallOK(d)'
        /\ call'[c].op = op /\ call'[c].msgs = body /\ call'[c].at = "frame"
    BY <1>1, <1>2, FrameTaken, ZenonT(60) DEF Decode
  <2>2. CallOK(c)'
    BY <1>1, <2>1 DEF CallOK, Encoding, Decoding, Idling
  <2> QED BY <2>1, <2>2 DEF WireInv
<1>3. CASE /\ body = <<>>
           /\ call' = [call EXCEPT ![c] =
                 Begun(op, <<>>, IF op = "Decode" THEN "returned" ELSE "info", None, <<>>)]
           /\ UNCHANGED <<pool, content>>
  <2> DEFINE x ==
        Begun(op, <<>>, IF op = "Decode" THEN "returned" ELSE "info", None, <<>>)
  <2>1. x = [op |-> op, msgs |-> <<>>,
             at |-> IF op = "Decode" THEN "returned" ELSE "info",
             frame |-> None, out |-> <<>>, err |-> FALSE]
    BY DEF Begun
  <2>2. x \in CallSet
    <3>1. <<>> \in Seq(Sent) /\ <<>> \in Seq(Read)
      BY EmptySeq
    <3> QED BY <3>1 DEF CallSet, Begun
  <2>3. call[c].at = "returned" /\ call[c].frame = None
    BY DEF Decode, WireInv, Holding
  <2>4. /\ Types' /\ FramesOwned' /\ Holding' /\ Clean'
        /\ \A d \in Calls \ {c} : CallOK(d)'
        /\ call'[c] = x
    <3> HIDE DEF x
    <3>1. x.frame = None /\ x.at \in {"returned", "info"}
      BY <2>1
    <3>2. content' \in [Frames -> Seq(Written) \cup Seq(Received)]
      BY <1>3 DEF WireInv, Types
    <3> QED BY <1>3, <2>2, <2>3, <3>1, <3>2, FrameKept, Zenon DEF x
  <2>5. CallOK(c)'
    <3>1. /\ call'[c].op = op /\ call'[c].msgs = <<>> /\ call'[c].out = <<>>
          /\ call'[c].at = IF op = "Decode" THEN "returned" ELSE "info"
      BY <2>1, <2>4
    <3> HIDE DEF x
    <3>2. Encoding(c)' /\ Idling(c)'
      BY <3>1 DEF Encoding, Idling
    <3>3. Decoding(c)'
      <4>1. /\ call'[c].msgs \in Seq(Received) /\ ParsedUpTo(call'[c].out, call'[c].msgs)
            /\ Len(call'[c].out) = Len(call'[c].msgs)
        BY <1>1, <1>3, <3>1, NothingYet
      <4>2. \/ op = "Decode" /\ call'[c].at = "returned"
            \/ op = "DecodeWorkerInfo" /\ call'[c].at = "info"
        BY <3>1
      <4> QED BY <3>1, <4>1, <4>2, Zenon DEF Decoding
    <3> QED BY <3>2, <3>3 DEF CallOK
  <2> QED BY <2>4, <2>5 DEF WireInv
<1> QED BY <1>2, <1>3 DEF Decode

(***************************************************************************)
(* A message is packed, or ends Encode with an error.                      *)
(***************************************************************************)
LEMMA PackStep ==
    ASSUME WireInv, NEW c \in Calls, packMessage(c)
    PROVE  WireInv'
<1> DEFINE f == call[c].frame
           next == call[c].msgs[Filled(c) + 1]
<1>1. /\ call[c].op = "Encode" /\ call[c].at = "frame"
      /\ Filled(c) < Len(call[c].msgs)
  BY DEF packMessage
<1>2. /\ call[c].msgs \in Seq(Sent) /\ call[c].msgs # <<>>
      /\ PackedUpTo(c, content[f], call[c].msgs)
  BY <1>1, Zenon DEF WireInv, CallOK, Encoding
<1>3. f \in Frames
  BY <1>1 DEF WireInv, Types, CallSet, Holding
<1>4. CASE putFrame(c, "returned", None, TRUE)
  <2>1. /\ Types' /\ FramesOwned' /\ Holding' /\ Clean'
        /\ \A d \in Calls \ {c} : CallOK(d)'
        /\ call'[c].op = call[c].op /\ call'[c].msgs = call[c].msgs
        /\ call'[c].at = "returned" /\ call'[c].out = None /\ call'[c].err = TRUE
    BY <1>1, <1>4, FramePut, Zenon
  <2>2. CallOK(c)'
    BY <1>1, <1>2, <2>1 DEF CallOK, Encoding, Decoding, Idling
  <2> QED BY <2>1, <2>2 DEF WireInv
<1>5. CASE /\ content' = [content EXCEPT ![f] = Append(@, Packed(c, next))]
           /\ UNCHANGED <<call, pool>>
  <2>1. PackedUpTo(c, Append(content[f], Packed(c, next)), call[c].msgs)
    BY <1>1, <1>2, PackedNext DEF Filled
  <2>2. Append(content[f], Packed(c, next)) \in Seq(Written)
    BY <2>1 DEF PackedUpTo
  <2>3. /\ content' \in [Frames -> Seq(Written) \cup Seq(Received)]
        /\ content'[f] = Append(content[f], Packed(c, next))
        /\ \A g \in Frames \ {f} : content'[g] = content[g]
    BY <1>3, <1>5, <2>2 DEF WireInv, Types
  <2>4. call[c] \in CallSet /\ call' = [call EXCEPT ![c] = call[c]]
    BY <1>5, Zenon DEF WireInv, Types
  <2>5. /\ Types' /\ FramesOwned' /\ Holding' /\ Clean'
        /\ \A d \in Calls \ {c} : CallOK(d)'
        /\ call'[c] = call[c]
    BY <1>5, <2>3, <2>4, FrameKept, ZenonT(60)
  <2>6. PackedUpTo(c, content'[call'[c].frame], call'[c].msgs)
    BY <2>1, <2>3, <2>5, Zenon
  <2>7. CallOK(c)'
    <3> HIDE DEF f, next
    <3> QED BY <1>1, <1>2, <2>5, <2>6, ZenonT(60) DEF CallOK, Encoding, Decoding, Idling,
               PackedUpTo
  <2> QED BY <2>5, <2>7 DEF WireInv
<1> QED BY <1>4, <1>5, Zenon DEF packMessage

(***************************************************************************)
(* The frame that is marshalled holds all the messages.                    *)
(***************************************************************************)
LEMMA MarshalStep ==
    ASSUME WireInv, NEW c \in Calls, Marshal(c)
    PROVE  WireInv'
<1> DEFINE packed == content[call[c].frame]
<1>1. /\ call[c].op = "Encode" /\ call[c].at = "frame"
      /\ Len(packed) = Len(call[c].msgs)
  BY DEF Marshal, Filled
<1>2. /\ call[c].msgs \in Seq(Sent) /\ call[c].msgs # <<>>
      /\ PackedUpTo(c, packed, call[c].msgs)
  BY <1>1, Zenon DEF WireInv, CallOK, Encoding
<1>3. ASSUME NEW k \in 0 .. Filled(c)
      PROVE  PackedUpTo(c, SubSeq(packed, 1, k), call[c].msgs)
  <2>1. packed \in Seq(Written) /\ k \in 0 .. Len(packed) /\ Len(packed) \in Nat
    BY <1>2, LenProperties, Zenon DEF PackedUpTo, Filled
  <2> HIDE DEF packed
  <2>2. /\ SubSeq(packed, 1, k) \in Seq(Written) /\ Len(SubSeq(packed, 1, k)) = k
        /\ \A i \in 1 .. k : SubSeq(packed, 1, k)[i] = packed[i]
    BY <2>1
  <2> QED BY <1>1, <1>2, <2>1, <2>2 DEF PackedUpTo
<1>4. CASE putFrame(c, "returned", packed, FALSE)
  <2>1. packed \in Seq(Written)
    BY <1>2 DEF PackedUpTo
  <2>2. /\ Types' /\ FramesOwned' /\ Holding' /\ Clean'
        /\ \A d \in Calls \ {c} : CallOK(d)'
        /\ call'[c].op = call[c].op /\ call'[c].msgs = call[c].msgs
        /\ call'[c].at = "returned" /\ call'[c].out = packed /\ call'[c].err = FALSE
    BY <1>1, <1>4, <2>1, FramePut, Zenon
  <2> HIDE DEF packed
  <2>3. CallOK(c)'
    BY <1>1, <1>2, <2>2 DEF CallOK, Encoding, Decoding, Idling
  <2> QED BY <2>2, <2>3 DEF WireInv
<1>5. CASE putFrame(c, "returned", None, TRUE)
  <2>1. /\ Types' /\ FramesOwned' /\ Holding' /\ Clean'
        /\ \A d \in Calls \ {c} : CallOK(d)'
        /\ call'[c].op = call[c].op /\ call'[c].msgs = call[c].msgs
        /\ call'[c].at = "returned" /\ call'[c].out = None /\ call'[c].err = TRUE
    BY <1>1, <1>5, FramePut, Zenon
  <2>2. CallOK(c)'
    BY <1>1, <1>2, <2>1 DEF CallOK, Encoding, Decoding, Idling
  <2> QED BY <2>1, <2>2 DEF WireInv
<1>6. ASSUME NEW k \in 0 .. Filled(c), putFrame(c, "returned", SubSeq(packed, 1, k), TRUE)
      PROVE  WireInv'
  <2> DEFINE body == SubSeq(packed, 1, k)
  <2>1. PackedUpTo(c, body, call[c].msgs)
    BY <1>3, <1>6, Zenon
  <2> HIDE DEF packed, body
  <2>2. body \in Seq(Written)
    BY <2>1 DEF PackedUpTo
  <2>3. /\ Types' /\ FramesOwned' /\ Holding' /\ Clean'
        /\ \A d \in Calls \ {c} : CallOK(d)'
        /\ call'[c].op = call[c].op /\ call'[c].msgs = call[c].msgs
        /\ call'[c].at = "returned" /\ call'[c].out = body /\ call'[c].err = TRUE
    BY <1>1, <1>6, <2>2, FramePut, Zenon DEF body
  <2>4. CallOK(c)'
    BY <1>1, <1>2, <2>1, <2>3 DEF CallOK, Encoding, Decoding, Idling
  <2> QED BY <2>3, <2>4 DEF WireInv
<1> QED BY <1>4, <1>5, <1>6, Zenon DEF Marshal

(***************************************************************************)
(* The body becomes the content of the frame, or Decode ends with an       *)
(* error.                                                                  *)
(***************************************************************************)
LEMMA UnmarshalStep ==
    ASSUME WireInv, NEW c \in Calls, Unmarshal(c)
    PROVE  WireInv'
<1> DEFINE f == call[c].frame
<1>1. call[c].op \in {"Decode", "DecodeWorkerInfo"} /\ call[c].at = "frame"
  BY DEF Unmarshal, WireInv, Types, CallSet, CallOK, Idling
<1>2. call[c].msgs \in Seq(Received)
  BY <1>1 DEF WireInv, CallOK, Decoding
<1>3. f \in Frames
  BY <1>1 DEF WireInv, Types, CallSet, Holding
<1>4. <<>> \in Seq(Read)
  BY EmptySeq
<1>5. CASE putFrame(c, "returned", <<>>, TRUE)
  <2>1. /\ Types' /\ FramesOwned' /\ Holding' /\ Clean'
        /\ \A d \in Calls \ {c} : CallOK(d)'
        /\ call'[c].op = call[c].op /\ call'[c].msgs = call[c].msgs
        /\ call'[c].at = "returned" /\ call'[c].out = <<>> /\ call'[c].err = TRUE
    BY <1>1, <1>4, <1>5, FramePut, Zenon
  <2>2. CallOK(c)'
    BY <1>1, <1>2, <2>1, NothingYet, Zenon DEF CallOK, Encoding, Decoding, Idling
  <2> QED BY <2>1, <2>2 DEF WireInv
<1>6. CASE /\ content' = [content EXCEPT ![f] = call[c].msgs]
           /\ call' = [call EXCEPT ![c] = [@ EXCEPT !.at = "parse", !.out = <<>>]]
           /\ UNCHANGED pool
  <2> DEFINE x == [call[c] EXCEPT !.at = "parse", !.out = <<>>]
  <2>1. /\ x \in CallSet /\ x.frame = f /\ x.at = "parse" /\ x.out = <<>>
        /\ x.op = call[c].op /\ x.msgs = call[c].msgs
    BY <1>4, ZenonT(60) DEF WireInv, Types, CallSet
  <2>2. /\ content' \in [Frames -> Seq(Written) \cup Seq(Received)]
        /\ content'[f] = call[c].msgs
        /\ \A g \in Frames \ {f} : content'[g] = content[g]
    BY <1>2, <1>3, <1>6 DEF WireInv, Types
  <2>3. call' = [call EXCEPT ![c] = x]
    BY <1>6
  <2> HIDE DEF x
  <2>4. /\ Types' /\ FramesOwned' /\ Holding' /\ Clean'
        /\ \A d \in Calls \ {c} : CallOK(d)'
        /\ call'[c] = x
    BY <1>1, <1>6, <2>1, <2>2, <2>3, FrameKept, Zenon
  <2>5. CallOK(c)'
    BY <1>1, <1>2, <2>1, <2>2, <2>4, NothingYet, Zenon DEF CallOK, Encoding, Decoding,
       Idling
  <2> QED BY <2>4, <2>5 DEF WireInv
<1> QED BY <1>5, <1>6, Zenon DEF Unmarshal

(***************************************************************************)
(* A message is parsed, or ends Decode with an error and those before it.  *)
(***************************************************************************)
LEMMA ParseStep ==
    ASSUME WireInv, NEW c \in Calls, parseMessage(c)
    PROVE  WireInv'
<1> DEFINE out == call[c].out
           msgs == call[c].msgs
           next == msgs[Len(out) + 1]
<1>1. call[c].at = "parse"
  BY DEF parseMessage
<1>2. call[c].op \in {"Decode", "DecodeWorkerInfo"}
  BY <1>1, ZenonT(60) DEF WireInv, Types, CallSet, CallOK, Encoding, Idling
<1>3. /\ msgs \in Seq(Received) /\ ParsedUpTo(out, msgs)
      /\ content[call[c].frame] = msgs
  BY <1>1, <1>2 DEF WireInv, CallOK, Decoding
<1>4. out \in Seq(Read) /\ Len(out) < Len(msgs)
  BY <1>3 DEF ParsedUpTo, parseMessage
<1>5. CASE putFrame(c, "returned", out, TRUE)
  <2>1. /\ Types' /\ FramesOwned' /\ Holding' /\ Clean'
        /\ \A d \in Calls \ {c} : CallOK(d)'
        /\ call'[c].op = call[c].op /\ call'[c].msgs = call[c].msgs
        /\ call'[c].at = "returned" /\ call'[c].out = out /\ call'[c].err = TRUE
    BY <1>1, <1>4, <1>5, FramePut, ZenonT(60)
  <2>2. CallOK(c)'
    BY <1>2, <1>3, <2>1 DEF CallOK, Encoding, Decoding, Idling
  <2> QED BY <2>1, <2>2, Zenon DEF WireInv
<1>6. CASE /\ call' = [call EXCEPT ![c] = [@ EXCEPT !.out = Append(out, Parsed(next))]]
           /\ UNCHANGED <<pool, content>>
  <2> DEFINE more == Append(out, Parsed(next))
             x == [call[c] EXCEPT !.out = more]
  <2>1. ParsedUpTo(more, msgs)
    BY <1>3, <1>4, ParsedNext, Zenon
  <2>2. more \in Seq(Read)
    BY <2>1 DEF ParsedUpTo
  <2>3. call' = [call EXCEPT ![c] = x]
    BY <1>6
  <2> HIDE DEF more
  <2>4. /\ x \in CallSet /\ x.frame = call[c].frame /\ x.at = "parse"
        /\ x.out = more /\ x.op = call[c].op /\ x.msgs = msgs
    BY <1>1, <2>2, Zenon DEF WireInv, Types, CallSet
  <2> HIDE DEF x
  <2>5. content' \in [Frames -> Seq(Written) \cup Seq(Received)]
    BY <1>6 DEF WireInv, Types
  <2>6. /\ Types' /\ FramesOwned' /\ Holding' /\ Clean'
        /\ \A d \in Calls \ {c} : CallOK(d)'
        /\ call'[c] = x
    BY <1>1, <1>6, <2>3, <2>4, <2>5, FrameKept, Zenon
  <2>7. CallOK(c)'
    BY <1>2, <1>3, <1>6, <2>1, <2>4, <2>6, ZenonT(60) DEF CallOK, Encoding, Decoding, Idling
  <2> QED BY <2>6, <2>7 DEF WireInv
<1> QED BY <1>3, <1>5, <1>6, Zenon DEF parseMessage

(***************************************************************************)
(* All messages are parsed: Decode returns.                                *)
(***************************************************************************)
LEMMA DecodedStep ==
    ASSUME WireInv, NEW c \in Calls, Decoded(c)
    PROVE  WireInv'
<1> DEFINE at == IF call[c].op = "Decode" THEN "returned" ELSE "info"
<1>1. call[c].at = "parse" /\ putFrame(c, at, call[c].out, FALSE)
  BY Zenon DEF Decoded
<1>2. call[c].op \in {"Decode", "DecodeWorkerInfo"}
  BY <1>1, Zenon DEF WireInv, Types, CallSet, CallOK, Encoding, Idling
<1>3. /\ call[c].msgs \in Seq(Received) /\ ParsedUpTo(call[c].out, call[c].msgs)
      /\ Len(call[c].out) = Len(call[c].msgs)
  BY <1>1, <1>2 DEF WireInv, CallOK, Decoding, Decoded
<1>4. call[c].out \in Seq(Read) /\ at \in {"returned", "info"}
  BY <1>3 DEF ParsedUpTo
<1>5. at = "info" <=> call[c].op = "DecodeWorkerInfo"
  BY <1>2, Zenon
<1> HIDE DEF at
<1>6. /\ Types' /\ FramesOwned' /\ Holding' /\ Clean'
      /\ \A d \in Calls \ {c} : CallOK(d)'
      /\ call'[c].op = call[c].op /\ call'[c].msgs = call[c].msgs
      /\ call'[c].at = at /\ call'[c].out = call[c].out /\ call'[c].err = FALSE
  BY <1>1, <1>4, FramePut, Zenon
<1>7. CallOK(c)'
  BY <1>2, <1>3, <1>4, <1>5, <1>6, Zenon DEF CallOK, Encoding, Decoding, Idling
<1> QED BY <1>6, <1>7 DEF WireInv

(***************************************************************************)
(* DecodeWorkerInfo accepts one message with the identifier 0.             *)
(***************************************************************************)
LEMMA InfoStep ==
    ASSUME WireInv, NEW c \in Calls, DecodeWorkerInfo(c)
    PROVE  WireInv'
<1>1. PICK err \in BOOLEAN :
         /\ err \/ (Len(call[c].out) = 1 /\ call[c].out[1].id = 0)
         /\ call' = [call EXCEPT ![c] = [call[c] EXCEPT !.at = "returned", !.err = err]]
  BY Zenon DEF DecodeWorkerInfo
<1>2. call[c].at = "info" /\ UNCHANGED <<pool, content>>
  BY DEF DecodeWorkerInfo
<1>3. call[c].op \in {"Decode", "DecodeWorkerInfo"}
  BY <1>2, Zenon DEF WireInv, Types, CallSet, CallOK, Encoding, Idling
<1>4. /\ call[c].msgs \in Seq(Received) /\ ParsedUpTo(call[c].out, call[c].msgs)
      /\ Len(call[c].out) = Len(call[c].msgs) /\ call[c].op = "DecodeWorkerInfo"
  BY <1>2, <1>3 DEF WireInv, CallOK, Decoding
<1> DEFINE x == [call[c] EXCEPT !.at = "returned", !.err = err]
<1>5. /\ x \in CallSet /\ x.frame = call[c].frame /\ x.at = "returned" /\ x.err = err
      /\ x.out = call[c].out /\ x.op = call[c].op /\ x.msgs = call[c].msgs
  BY ZenonT(60) DEF WireInv, Types, CallSet
<1>6. content' \in [Frames -> Seq(Written) \cup Seq(Received)]
  BY <1>2 DEF WireInv, Types
<1>7. call' = [call EXCEPT ![c] = x]
  BY <1>1
<1> HIDE DEF x
<1>8. /\ Types' /\ FramesOwned' /\ Holding' /\ Clean'
      /\ \A d \in Calls \ {c} : CallOK(d)'
      /\ call'[c] = x
  BY <1>2, <1>5, <1>6, <1>7, FrameKept, Zenon
<1>9. ~err => Len(call[c].msgs) = 1 /\ call[c].msgs[1].id = 0
  <2> SUFFICES ASSUME ~err PROVE Len(call[c].msgs) = 1 /\ call[c].msgs[1].id = 0
    OBVIOUS
  <2>1. Len(call[c].out) = 1 /\ call[c].out[1].id = 0
    BY <1>1
  <2>2. call[c].out[1] = Parsed(call[c].msgs[1])
    BY <1>4, <2>1 DEF ParsedUpTo
  <2>3. \A msg : Parsed(msg).id = msg.id
    BY ZenonT(60) DEF Parsed
  <2> QED BY <1>4, <2>1, <2>2, <2>3, Zenon
<1>10. CallOK(c)'
  BY <1>3, <1>4, <1>5, <1>8, <1>9 DEF CallOK, Encoding, Decoding, Idling
<1> QED BY <1>8, <1>10, Zenon DEF WireInv

-----------------------------------------------------------------------------
(***************************************************************************)
(* Every step of the codec, and the emptying of the pool, keeps WireInv.   *)
(***************************************************************************)
LEMMA WireInvStep == WireInv /\ [Next]_vars => WireInv'
<1> SUFFICES ASSUME WireInv, [Next]_vars PROVE WireInv'
  OBVIOUS
<1>1. ASSUME UNCHANGED <<call, content>>, pool' \subseteq pool PROVE WireInv'
  <2>1. Types' /\ FramesOwned' /\ Holding' /\ Clean'
    BY <1>1, ZenonT(60) DEF WireInv, Types, FramesOwned, Holding, Clean, Held
  <2>2. \A c \in Calls : CallOK(c)'
    BY <1>1 DEF WireInv, CallOK, Encoding, Decoding, Idling, PackedUpTo, ParsedUpTo
  <2> QED BY <2>1, <2>2, Zenon DEF WireInv
<1>2. CASE UNCHANGED vars
  BY <1>1, <1>2 DEF vars
<1>3. CASE Collected
  BY <1>1, <1>3 DEF Collected
<1>4. ASSUME NEW c \in Calls, NEW msgs \in Messages(Sent), Encode(c, msgs)
      PROVE  WireInv'
  BY <1>4, EncodeStep
<1>5. ASSUME NEW c \in Calls, NEW op \in {"Decode", "DecodeWorkerInfo"},
             NEW body \in Messages(Received), Decode(c, op, body)
      PROVE  WireInv'
  BY <1>5, DecodeStep
<1>6. ASSUME NEW c \in Calls, packMessage(c) \/ Marshal(c) PROVE WireInv'
  BY <1>6, PackStep, MarshalStep
<1>7. ASSUME NEW c \in Calls, Unmarshal(c) \/ parseMessage(c) \/ Decoded(c)
      PROVE  WireInv'
  BY <1>7, UnmarshalStep, ParseStep, DecodedStep
<1>8. ASSUME NEW c \in Calls, DecodeWorkerInfo(c) PROVE WireInv'
  BY <1>8, InfoStep
<1> QED BY <1>2, <1>3, <1>4, <1>5, <1>6, <1>7, <1>8 DEF Next

(***************************************************************************)
(* The codec starts with idle calls and an empty pool.                     *)
(***************************************************************************)
LEMMA WireInvariant == Spec => []WireInv
<1>1. Init => WireInv
  <2> SUFFICES ASSUME Init PROVE WireInv
    OBVIOUS
  <2>1. <<>> \in Seq(Sent) /\ <<>> \in Seq(Written)
    BY EmptySeq
  <2>2. \A c \in Calls : call[c] = [op |-> "idle", msgs |-> <<>>, at |-> "returned",
                                   frame |-> None, out |-> None, err |-> FALSE]
    BY DEF Init, Begun
  <2>3. Types
    BY <2>1 DEF Init, Types, Begun, CallSet
  <2>4. FramesOwned /\ Holding /\ Clean
    BY <2>2, SMTT(60) DEF Init, FramesOwned, Holding, Clean, Held
  <2>5. \A c \in Calls : CallOK(c)
    BY <2>2 DEF CallOK, Encoding, Decoding, Idling
  <2> QED BY <2>3, <2>4, <2>5 DEF WireInv
<1> QED BY <1>1, WireInvStep, PTL DEF Spec

(***************************************************************************)
(* However many goroutines use the codec and whenever the pool is emptied, *)
(* no two of them work on one frame, and no frame that is worked on can be *)
(* handed out.                                                             *)
(***************************************************************************)
THEOREM FramesAreOwned == Spec => []FramesOwned
<1>1. WireInv => FramesOwned
  BY Zenon DEF WireInv
<1> QED BY <1>1, WireInvariant, PTL

(***************************************************************************)
(* The payload of Encode is its caller's messages, all of them and in      *)
(* order, or after an error no body or a beginning of them.                *)
(***************************************************************************)
THEOREM EncodesItsOwn == Spec => []EncodedOwn
<1>1. WireInv => EncodedOwn
  <2> SUFFICES ASSUME WireInv, NEW c \in Calls, call[c].op = "Encode",
                      call[c].at = "returned", PackedUpTo(c, call[c].out, call[c].msgs)
               PROVE  /\ Len(call[c].out) <= Len(call[c].msgs)
                      /\ \A i \in DOMAIN call[c].out :
                            call[c].out[i] = Packed(c, call[c].msgs[i])
    BY ZenonT(60) DEF WireInv, CallOK, Encoding, EncodedOwn
  <2>1. DOMAIN call[c].out = 1 .. Len(call[c].out)
    BY LenProperties, Zenon DEF PackedUpTo
  <2> QED BY <2>1 DEF PackedUpTo
<1> QED BY <1>1, WireInvariant, PTL

(***************************************************************************)
(* Decode appends a beginning of the messages its caller was sent, and all *)
(* of them when it returns no error.                                       *)
(***************************************************************************)
THEOREM DecodesItsOwn == Spec => []DecodedOwn
<1>1. WireInv => DecodedOwn
  <2> SUFFICES ASSUME WireInv, NEW c \in Calls,
                      call[c].op \notin {"Encode", "idle"}, call[c].at # "frame"
               PROVE  /\ Len(call[c].out) <= Len(call[c].msgs)
                      /\ \A i \in DOMAIN call[c].out : call[c].out[i] = Parsed(call[c].msgs[i])
                      /\ call[c].at = "returned" /\ ~call[c].err =>
                            Len(call[c].out) = Len(call[c].msgs)
    BY DEF DecodedOwn
  <2>1. call[c].op \in {"Decode", "DecodeWorkerInfo"} /\ Decoding(c)
    BY DEF WireInv, Types, CallSet, CallOK
  <2>2. ParsedUpTo(call[c].out, call[c].msgs)
    BY <2>1 DEF Decoding
  <2>3. DOMAIN call[c].out = 1 .. Len(call[c].out)
    BY <2>2, LenProperties, Zenon DEF ParsedUpTo
  <2> QED BY <2>1, <2>2, <2>3 DEF Decoding, ParsedUpTo
<1> QED BY <1>1, WireInvariant, PTL

(***************************************************************************)
(* Worker information is the one answer to the command 0.                  *)
(***************************************************************************)
THEOREM InfoIsConfirmed == Spec => []InfoConfirmed
<1>1. WireInv => InfoConfirmed
  BY DEF WireInv, CallOK, Decoding, InfoConfirmed
<1> QED BY <1>1, WireInvariant, PTL
=============================================================================
