--------------------------- MODULE HistoryProofs ----------------------------
(***************************************************************************)
(* Downloads and replays for any number of calls, runs and paths: a        *)
(* history reported saved is in its file, and a replay answered with OK    *)
(* ran over events the code reproduces.                                    *)
(***************************************************************************)
EXTENDS History, SequenceTheorems, TLAPS

(***************************************************************************)
(* A call that has the file of its path open for a download.               *)
(***************************************************************************)
Open(c) ==
    /\ call[c].op = "DownloadWorkflowHistory"
    /\ call[c].step \in {"fetch", "write"}

(***************************************************************************)
(* What a call knows at each of its steps: who may be there, that it       *)
(* fetches no more than the events there were, and that what it writes or  *)
(* replays is a history.                                                   *)
(***************************************************************************)
Fetching(c) ==
    call[c].step \in {"create", "fetch"} =>
        /\ call[c].hist.run \in Runs
        /\ call[c].upto >= 1
        /\ call[c].hist.n <= call[c].upto
        /\ call[c].op \in {"ReplayWorkflow", "DownloadWorkflowHistory"}

Writing(c) ==
    /\ call[c].step \in {"create", "write"} => call[c].op = "DownloadWorkflowHistory"
    /\ call[c].step = "create" \/ Open(c) => call[c].path \in Paths
    /\ call[c].step = "write" => call[c].hist \in Histories

Replaying(c) ==
    call[c].step \in {"definition", "replay"} =>
        /\ call[c].op \in Operations \ {"DownloadWorkflowHistory"}
        /\ call[c].op # "ReplayFromJSON" =>
              call[c].hist \in Histories /\ call[c].hist.n = call[c].upto

Trusted(c) ==
    /\ call[c].step = "answered"
    /\ call[c].code = "OK"
    /\ call[c].op # "DownloadWorkflowHistory"
    => /\ call[c].hist \in Histories
       /\ \A i \in 1 .. call[c].hist.n : Breaks[call[c].hist.run] # i
       /\ call[c].op = "ReplayFromJSON" \/ call[c].hist.n = call[c].upto

CallOK(c) == Fetching(c) /\ Writing(c) /\ Replaying(c) /\ Trusted(c)

(***************************************************************************)
(* A download that is alone shares its file with no other, and the file is *)
(* empty until it writes; a path with an open file is not reported saved.  *)
(***************************************************************************)
Alone ==
    \A c, d \in Callers :
        Open(c) /\ Open(d) /\ call[c].path = call[d].path /\ call[c].alone => c = d

StillEmpty ==
    \A c \in Callers : Open(c) /\ call[c].alone => file[call[c].path] = <<>>

Unreported ==
    \A c \in Callers : Open(c) => saved[call[c].path] = Nothing

Sharing == Alone /\ StillEmpty /\ Unreported /\ SavedWhole

HistoryInv ==
    /\ TypeOK
    /\ \A c \in Callers : CallOK(c)
    /\ Sharing

-----------------------------------------------------------------------------
(***************************************************************************)
(* The text of a history, and what a write leaves of a file.               *)
(***************************************************************************)
Cells == Runs \cup {"end"}

(***************************************************************************)
(* A row of cells is a text.                                               *)
(***************************************************************************)
LEMMA CellsAreText ==
    ASSUME NEW n \in Nat, NEW text \in [1 .. n -> Cells]
    PROVE  text \in Seq(Cells)
BY SeqDef

(***************************************************************************)
(* The JSON of a history is a text of one cell more than it has events.    *)
(***************************************************************************)
LEMMA JsonIsText ==
    ASSUME NEW h \in Histories
    PROVE  /\ Json(h.run, h.n) \in Seq(Cells)
           /\ Len(Json(h.run, h.n)) = h.n + 1
<1> DEFINE text == Json(h.run, h.n)
<1>1. h.n \in Nat /\ h.run \in Runs
  BY BoundsAssumption DEF Histories
<1>2. text \in [1 .. h.n + 1 -> Cells]
  BY <1>1 DEF Json, Cells
<1>3. text \in Seq(Cells)
  <2> HIDE DEF text
  <2> QED
    BY <1>1, <1>2, CellsAreText
<1>4. Len(text) = h.n + 1
  BY <1>1, <1>2, <1>3, LenProperties
<1> QED
  BY <1>3, <1>4

(***************************************************************************)
(* Writing a text over another gives a text.                               *)
(***************************************************************************)
LEMMA OverwriteIsText ==
    ASSUME NEW old \in Seq(Cells), NEW new \in Seq(Cells)
    PROVE  Overwrite(old, new) \in Seq(Cells)
<1> DEFINE m == IF Len(old) < Len(new) THEN Len(new) ELSE Len(old)
<1>1. /\ DOMAIN old = 1 .. Len(old) /\ Len(old) \in Nat
      /\ DOMAIN new = 1 .. Len(new) /\ Len(new) \in Nat
  BY LenProperties
<1>2. DOMAIN old \cup DOMAIN new = 1 .. m /\ m \in Nat
  BY <1>1
<1>3. \A i \in 1 .. m :
         (IF i \in DOMAIN new THEN new[i] ELSE old[i]) \in Cells
  BY <1>1, <1>2, ElementOfSeq
<1>4. Overwrite(old, new) \in [1 .. m -> Cells]
  BY <1>2, <1>3 DEF Overwrite
<1> HIDE DEF m
<1> QED
  BY <1>2, <1>4, CellsAreText

(***************************************************************************)
(* Writing a text to an empty file leaves that text.                       *)
(***************************************************************************)
LEMMA OverwriteEmpty ==
    ASSUME NEW new \in Seq(Cells)
    PROVE  Overwrite(<<>>, new) = new
<1>1. DOMAIN new = 1 .. Len(new) /\ new \in [1 .. Len(new) -> Cells]
  BY LenProperties
<1>2. DOMAIN <<>> = {}
  OBVIOUS
<1> QED
  BY <1>1, <1>2 DEF Overwrite

(***************************************************************************)
(* The part of a text that a failing write has written is a text.          *)
(***************************************************************************)
LEMMA PartIsText ==
    ASSUME NEW text \in Seq(Cells), NEW k \in 0 .. Len(text) - 1
    PROVE  SubSeq(text, 1, k) \in Seq(Cells)
BY SubSeqProperties, LenProperties

(***************************************************************************)
(* The events up to the last one asked for are a history.                  *)
(***************************************************************************)
LEMMA PrefixIsHistory ==
    ASSUME NEW h \in Histories, NEW last \in 0 .. MaxEvents
    PROVE  Prefix(h, last) \in Histories
BY BoundsAssumption DEF Prefix, Histories

-----------------------------------------------------------------------------
(***************************************************************************)
(* A call at another step is a call.                                       *)
(***************************************************************************)
LEMMA StepChanged ==
    ASSUME NEW x \in CallSet, NEW step \in Steps
    PROVE  [x EXCEPT !.step = step] \in CallSet
BY DEF CallSet

(***************************************************************************)
(* A step of one call leaves what the others know.                         *)
(***************************************************************************)
LEMMA OthersKept ==
    ASSUME HistoryInv, NEW c \in Callers, NEW x \in CallSet,
           call' = [call EXCEPT ![c] = x], CallOK(c)'
    PROVE  /\ call' \in [Callers -> CallSet]
           /\ \A d \in Callers : CallOK(d)'
<1>1. call \in [Callers -> CallSet]
  BY DEF HistoryInv, TypeOK
<1>2. \A d \in Callers : d # c => call'[d] = call[d]
  BY <1>1
<1>3. ASSUME NEW d \in Callers, d # c PROVE CallOK(d)'
  <2>1. CallOK(d) /\ call'[d] = call[d]
    BY <1>2, <1>3 DEF HistoryInv
  <2> QED
    BY <2>1 DEF CallOK, Fetching, Writing, Replaying, Trusted, Open
<1> QED
  BY <1>1, <1>3

(***************************************************************************)
(* A step that touches no file and opens none leaves what the calls share. *)
(***************************************************************************)
LEMMA SharingKept ==
    ASSUME HistoryInv, NEW c \in Callers, NEW x \in CallSet,
           call' = [call EXCEPT ![c] = x], UNCHANGED <<file, saved>>,
           Open(c)' => Open(c) /\ x.path = call[c].path /\ x.alone = call[c].alone
    PROVE  Sharing'
<1>1. call \in [Callers -> CallSet]
  BY DEF HistoryInv, TypeOK
<1>2. /\ call'[c] = x
      /\ \A d \in Callers : d # c => call'[d] = call[d]
  BY <1>1
<1>3. \A d \in Callers :
         Open(d)' => /\ Open(d)
                     /\ call'[d].path = call[d].path
                     /\ call'[d].alone = call[d].alone
  BY <1>2 DEF Open
<1>4. Alone'
  BY <1>3 DEF HistoryInv, Sharing, Alone
<1>5. StillEmpty' /\ Unreported'
  BY <1>3 DEF HistoryInv, Sharing, StillEmpty, Unreported
<1>6. SavedWhole'
  BY DEF HistoryInv, Sharing, SavedWhole
<1> QED
  BY <1>4, <1>5, <1>6 DEF Sharing

(***************************************************************************)
(* An answer that is an error, or the answer to a download, needs nothing. *)
(***************************************************************************)
LEMMA AnswerStep ==
    ASSUME HistoryInv, NEW c \in Callers, NEW code \in Codes, Answer(c, code),
           code # "OK" \/ call[c].op = "DownloadWorkflowHistory"
    PROVE  /\ call' \in [Callers -> CallSet]
           /\ \A d \in Callers : CallOK(d)'
           /\ ~Open(c)'
           /\ \A d \in Callers \ {c} : call'[d] = call[d]
           /\ UNCHANGED <<file, saved>> => Sharing'
<1> DEFINE x == [call[c] EXCEPT !.step = "answered", !.code = code]
<1>1. call \in [Callers -> CallSet] /\ call[c] \in CallSet
  BY DEF HistoryInv, TypeOK
<1>2. /\ x \in CallSet
      /\ x.step = "answered" /\ x.code = code /\ x.op = call[c].op
  BY <1>1, Zenon DEF CallSet, Steps
<1>3. call' = [call EXCEPT ![c] = x]
  BY DEF Answer
<1> HIDE DEF x
<1>4. call'[c] = x /\ \A d \in Callers \ {c} : call'[d] = call[d]
  BY <1>1, <1>3
<1>5. CallOK(c)' /\ ~Open(c)'
  BY <1>2, <1>4 DEF CallOK, Fetching, Writing, Replaying, Trusted, Open
<1> QED
  BY <1>2, <1>3, <1>4, <1>5, OthersKept, SharingKept, Zenon

(***************************************************************************)
(* A call is made: it holds no file, and fetches events there are.         *)
(***************************************************************************)
LEMMA CallMade ==
    ASSUME HistoryInv, NEW c \in Callers, NEW r \in Requests, Call(c, r)
    PROVE  HistoryInv'
<1> DEFINE refused == r.empty \cap Required[r.op] # {}
           events == IF r.run \in Runs THEN length[r.run] ELSE 0
           sent == IF r.op = "ReplayWorkflowHistory" THEN events ELSE 0
           hist == [run |-> r.run, n |-> sent]
           step == IF refused THEN "answered" ELSE FirstStep(r.op)
           code == IF refused THEN Refusal(r.op) ELSE "none"
           x == [step |-> step, op |-> r.op, path |-> r.path, last |-> r.last,
                 hist |-> hist, upto |-> events, alone |-> FALSE, code |-> code]
<1>1. /\ r.op \in Operations
      /\ r.run \in Runs \cup {"none"}
      /\ r.path \in Paths \cup {"none"}
      /\ r.last \in 0 .. MaxEvents
      /\ r.empty \in {{}, {"workflow_name"}}
      /\ (r.path = "none") <=> ("save_path" \notin Required[r.op])
      /\ (r.run = "none") <=> (r.op = "ReplayFromJSON" \/ r.empty # {})
  BY DEF Requests
<1>2. events \in 0 .. MaxEvents /\ (r.run \in Runs => events >= 1)
  BY BoundsAssumption DEF HistoryInv, TypeOK
<1>3. ~refused => r.empty = {}
  BY <1>1 DEF Required, Operations
<1>4. /\ hist \in [run : Runs \cup {"none"}, n : 0 .. MaxEvents]
      /\ hist.run = r.run /\ hist.n = sent
  BY <1>1, <1>2, BoundsAssumption
<1>5. /\ step \in {"answered", "fetch", "create", "definition"}
      /\ step = "answered" <=> refused
      /\ step = "fetch" => r.op = "ReplayWorkflow"
      /\ step = "create" => r.op = "DownloadWorkflowHistory"
      /\ step = "definition" => r.op \in {"ReplayFromJSON", "ReplayWorkflowHistory"}
  BY <1>1 DEF FirstStep, Operations
<1>6. /\ code \in Codes \cup {"none"}
      /\ code # "OK"
  BY DEF Refusal, Codes
<1>7. r.op = "DownloadWorkflowHistory" => r.path \in Paths
  BY <1>1 DEF Required
<1>8. /\ call' = [call EXCEPT ![c] = x]
      /\ count' = count + 1 /\ count < MaxCalls
      /\ UNCHANGED <<client, rrWorkflowDef, length, file, saved>>
  BY DEF Call
<1>9. ~refused /\ r.op # "ReplayFromJSON" => r.run \in Runs /\ events >= 1
  BY <1>1, <1>2, <1>3, NamesAssumption
<1>10. r.op = "ReplayWorkflowHistory" => sent = events
  OBVIOUS
<1>11. r.op # "ReplayWorkflowHistory" => sent = 0
  OBVIOUS
<1> HIDE DEF refused, events, sent, hist, step, code
<1>12. x \in CallSet
  BY <1>1, <1>2, <1>4, <1>5, <1>6 DEF CallSet, Steps
<1>13. /\ x.step = step /\ x.op = r.op /\ x.path = r.path
       /\ x.hist = hist /\ x.upto = events /\ x.code = code
  OBVIOUS
<1> HIDE DEF x
<1>14. call'[c] = x
  BY <1>8 DEF HistoryInv, TypeOK
<1>15. ~Open(c)'
  BY <1>5, <1>13, <1>14 DEF Open
<1>16. Fetching(c)'
  BY <1>2, <1>4, <1>5, <1>9, <1>11, <1>13, <1>14 DEF Fetching
<1>17. Writing(c)'
  BY <1>5, <1>7, <1>13, <1>14, <1>15 DEF Writing
<1>18. Replaying(c)'
  <2>1. CASE step # "definition"
    BY <2>1, <1>5, <1>13, <1>14 DEF Replaying
  <2>2. CASE step = "definition" /\ r.op = "ReplayFromJSON"
    BY <2>2, <1>13, <1>14 DEF Replaying, Operations
  <2>3. CASE step = "definition" /\ r.op = "ReplayWorkflowHistory"
    <3>1. hist \in Histories /\ hist.n = events
      BY <2>3, <1>2, <1>4, <1>5, <1>9, <1>10, BoundsAssumption DEF hist, Histories
    <3> QED
      BY <2>3, <3>1, <1>13, <1>14 DEF Replaying, Operations
  <2> QED
    BY <2>1, <2>2, <2>3, <1>5
<1>19. Trusted(c)'
  BY <1>6, <1>13, <1>14 DEF Trusted
<1>20. call' \in [Callers -> CallSet] /\ \A d \in Callers : CallOK(d)'
  BY <1>8, <1>12, <1>16, <1>17, <1>18, <1>19, OthersKept, Zenon DEF CallOK
<1>21. Sharing'
  BY <1>8, <1>12, <1>15, SharingKept, Zenon
<1>22. TypeOK'
  BY <1>8, <1>20, BoundsAssumption DEF HistoryInv, TypeOK
<1> QED
  BY <1>20, <1>21, <1>22 DEF HistoryInv

(***************************************************************************)
(* The file is created: the call is alone if no download has it open, and  *)
(* those that have it open no longer are.                                  *)
(***************************************************************************)
LEMMA CreateStep ==
    ASSUME HistoryInv, NEW c \in Callers, CreateFile(c)
    PROVE  HistoryInv'
<1> DEFINE p == call[c].path
           others == Downloading(p)
<1>1. /\ call \in [Callers -> CallSet]
      /\ file \in [Paths -> Seq(Cells)]
      /\ saved \in [Paths -> Histories \cup {Nothing}]
  BY DEF HistoryInv, TypeOK, Cells
<1>2. /\ call[c].step = "create" /\ call[c].op = "DownloadWorkflowHistory"
      /\ p \in Paths
      /\ CallOK(c)
  BY DEF HistoryInv, CreateFile, CallOK, Writing
<1>3. UNCHANGED <<client, rrWorkflowDef, length, count>>
  BY DEF CreateFile
<1>4. CASE Answer(c, "Internal") /\ UNCHANGED <<file, saved>>
  <2>1. call' \in [Callers -> CallSet] /\ (\A d \in Callers : CallOK(d)') /\ Sharing'
    BY <1>4, AnswerStep DEF Codes
  <2> QED
    BY <1>3, <1>4, <2>1 DEF HistoryInv, TypeOK
<1>5. CASE /\ file' = [file EXCEPT ![p] = <<>>]
           /\ saved' = [saved EXCEPT ![p] = Nothing]
           /\ call' = Opened(c)
  <2> DEFINE x == [call[c] EXCEPT !.step = "fetch", !.alone = (others = {})]
  <2>1. x \in CallSet
    <3> DEFINE y == [call[c] EXCEPT !.step = "fetch"]
               b == (others = {})
    <3>1. b \in BOOLEAN
      OBVIOUS
    <3>2. y \in CallSet
      <4>1. call[c] \in CallSet /\ "fetch" \in Steps
        BY <1>1 DEF Steps
      <4> QED
        BY <4>1, StepChanged
    <3>3. x = [y EXCEPT !.alone = b]
      BY <1>1 DEF CallSet
    <3> HIDE DEF y, b
    <3>4. [y EXCEPT !.alone = b] \in CallSet
      BY <3>1, <3>2 DEF CallSet
    <3> QED
      BY <3>3, <3>4
  <2>2. /\ x.step = "fetch" /\ x.op = call[c].op /\ x.path = p
        /\ x.hist = call[c].hist /\ x.upto = call[c].upto
    BY <1>1 DEF CallSet
  <2>3. x.alone <=> others = {}
    BY <1>1, Zenon DEF CallSet
  <2>4. call'[c] = x
    BY <1>5, Zenon DEF Opened
  <2> HIDE DEF x
  <2>5. ASSUME NEW d \in Callers, d # c
        PROVE  /\ call'[d] \in CallSet
               /\ call'[d].step = call[d].step /\ call'[d].op = call[d].op
               /\ call'[d].path = call[d].path /\ call'[d].hist = call[d].hist
               /\ call'[d].upto = call[d].upto /\ call'[d].code = call[d].code
               /\ d \in others => call'[d].alone = FALSE
               /\ d \notin others => call'[d].alone = call[d].alone
    <3> DEFINE y == [call[d] EXCEPT !.alone = FALSE]
    <3>1. /\ y \in CallSet
          /\ y.step = call[d].step /\ y.op = call[d].op /\ y.path = call[d].path
          /\ y.hist = call[d].hist /\ y.upto = call[d].upto /\ y.code = call[d].code
          /\ y.alone = FALSE
      BY <1>1, ZenonT(60) DEF CallSet
    <3>2. call'[d] = IF d \in others THEN y ELSE call[d]
      BY <1>5, <2>5, Zenon DEF Opened
    <3> HIDE DEF y, others
    <3>3. CASE d \in others
      BY <3>1, <3>2, <3>3
    <3>4. CASE d \notin others
      BY <1>1, <3>2, <3>4
    <3> QED
      BY <3>3, <3>4, Zenon
  <2>6. call' \in [Callers -> CallSet]
    <3>1. call' = [d \in Callers |-> call'[d]]
      BY <1>5, Zenon DEF Opened
    <3>2. \A d \in Callers : call'[d] \in CallSet
      BY <2>1, <2>4, <2>5, Zenon
    <3> HIDE DEF others
    <3> QED
      BY <3>1, <3>2
  <2>7. ASSUME NEW d \in Callers PROVE CallOK(d)'
    <3>1. CASE d = c
      BY <3>1, <1>2, <2>2, <2>4
      DEF CallOK, Fetching, Writing, Replaying, Trusted, Open
    <3>2. CASE d # c
      <4>1. CallOK(d)
        BY DEF HistoryInv
      <4> HIDE DEF others
      <4> QED
        BY <4>1, <3>2, <2>5, Zenon DEF CallOK, Fetching, Writing, Replaying, Trusted, Open
    <3> QED
      BY <3>1, <3>2
  <2>8. \A d \in Callers \ {c} :
           /\ Open(d)' <=> Open(d)
           /\ call'[d].path = call[d].path
           /\ d \in others <=> Open(d) /\ call[d].path = p
    BY <2>5, ZenonT(60) DEF Open, Downloading
  <2>9. Open(c)' /\ call'[c].path = p
    BY <1>2, <2>2, <2>4 DEF Open
  <2>10. \A d \in Callers \ {c} : Open(d)' /\ call'[d].alone =>
            call[d].path # p /\ call[d].alone
    BY <2>5, <2>8, Zenon
  <2>11. Alone'
    <3> SUFFICES ASSUME NEW d \in Callers, NEW e \in Callers, Open(d)', Open(e)',
                        call'[d].path = call'[e].path, call'[d].alone
                 PROVE  d = e
      BY DEF Alone
    <3>1. CASE d = c /\ e # c
      <4>1. others = {}
        BY <3>1, <2>3, <2>4
      <4>2. e \in others
        BY <3>1, <2>8, <2>9
      <4> QED
        BY <4>1, <4>2
    <3>2. CASE d # c /\ e = c
      BY <3>2, <2>8, <2>9, <2>10
    <3>3. CASE d # c /\ e # c
      BY <3>3, <2>8, <2>10 DEF HistoryInv, Sharing, Alone
    <3> QED
      BY <3>1, <3>2, <3>3
  <2>12. file'[p] = <<>> /\ \A q \in Paths \ {p} : file'[q] = file[q]
    BY <1>1, <1>2, <1>5
  <2>13. saved'[p] = Nothing /\ \A q \in Paths \ {p} : saved'[q] = saved[q]
    BY <1>1, <1>2, <1>5
  <2>14. \A d \in Callers : Open(d) => call[d].path \in Paths
    BY DEF HistoryInv, CallOK, Writing
  <2> HIDE DEF p, others
  <2>15. StillEmpty'
    <3> SUFFICES ASSUME NEW d \in Callers, Open(d)', call'[d].alone
                 PROVE  file'[call'[d].path] = <<>>
      BY DEF StillEmpty
    <3>1. CASE d = c
      BY <3>1, <2>9, <2>12
    <3>2. CASE d # c
      <4>1. /\ Open(d) /\ call'[d].path = call[d].path /\ call[d].path # p
            /\ call[d].alone /\ call[d].path \in Paths
        BY <3>2, <2>8, <2>10, <2>14
      <4>2. file[call[d].path] = <<>>
        BY <4>1 DEF HistoryInv, Sharing, StillEmpty
      <4> QED
        BY <4>1, <4>2, <2>12
    <3> QED
      BY <3>1, <3>2
  <2>16. Unreported'
    <3> SUFFICES ASSUME NEW d \in Callers, Open(d)'
                 PROVE  saved'[call'[d].path] = Nothing
      BY DEF Unreported
    <3>1. CASE call'[d].path = p
      BY <3>1, <2>13
    <3>2. CASE call'[d].path # p
      <4>1. Open(d) /\ call'[d].path = call[d].path /\ call[d].path \in Paths
        BY <3>2, <2>8, <2>9, <2>14
      <4>2. saved[call[d].path] = Nothing
        BY <4>1 DEF HistoryInv, Sharing, Unreported
      <4> QED
        BY <3>2, <4>1, <4>2, <2>13
    <3> QED
      BY <3>1, <3>2
  <2>17. SavedWhole'
    BY <2>12, <2>13 DEF HistoryInv, Sharing, SavedWhole
  <2>18. file' \in [Paths -> Seq(Cells)]
    BY <1>1, <1>5, EmptySeq, Zenon
  <2>19. saved' \in [Paths -> Histories \cup {Nothing}]
    BY <1>1, <1>5, Zenon
  <2> QED
    BY <1>3, <2>6, <2>7, <2>11, <2>15, <2>16, <2>17, <2>18, <2>19
    DEF HistoryInv, TypeOK, Sharing, Cells
<1> QED
  BY <1>4, <1>5 DEF CreateFile

(***************************************************************************)
(* A call that only moves on to another step keeps everything but that.    *)
(***************************************************************************)
LEMMA GotoStep ==
    ASSUME HistoryInv, NEW c \in Callers, NEW step \in Steps, Goto(c, step),
           UNCHANGED <<file, saved>>,
           call[c].op = "DownloadWorkflowHistory" /\ step \in {"fetch", "write"} => Open(c)
    PROVE  /\ call'[c] = [call[c] EXCEPT !.step = step]
           /\ [call[c] EXCEPT !.step = step] \in CallSet
           /\ call' = [call EXCEPT ![c] = [call[c] EXCEPT !.step = step]]
           /\ call'[c].step = step /\ call'[c].op = call[c].op
           /\ call'[c].path = call[c].path /\ call'[c].hist = call[c].hist
           /\ call'[c].upto = call[c].upto /\ call'[c].code = call[c].code
           /\ Sharing'
<1> DEFINE x == [call[c] EXCEPT !.step = step]
<1>1. call \in [Callers -> CallSet] /\ call[c] \in CallSet
  BY DEF HistoryInv, TypeOK
<1>2. x \in CallSet
  BY <1>1 DEF CallSet
<1>3. /\ x.step = step /\ x.op = call[c].op /\ x.path = call[c].path
      /\ x.hist = call[c].hist /\ x.upto = call[c].upto /\ x.code = call[c].code
      /\ x.alone = call[c].alone
  BY <1>1 DEF CallSet
<1>4. call' = [call EXCEPT ![c] = x]
  BY DEF Goto
<1> HIDE DEF x
<1>5. call'[c] = x
  BY <1>1, <1>4
<1>6. Open(c)' => Open(c)
  BY <1>3, <1>5 DEF Open
<1>7. Sharing'
  BY <1>2, <1>3, <1>4, <1>6, SharingKept, Zenon
<1> QED
  BY <1>2, <1>3, <1>4, <1>5, <1>7, Zenon DEF x

(***************************************************************************)
(* An event is fetched, or all of them are there, or fetching fails.       *)
(***************************************************************************)
LEMMA FetchStep ==
    ASSUME HistoryInv, NEW c \in Callers, FetchEvent(c)
    PROVE  HistoryInv'
<1>1. call \in [Callers -> CallSet] /\ call[c] \in CallSet
  BY DEF HistoryInv, TypeOK
<1>2. /\ call[c].hist \in [run : Runs \cup {"none"}, n : 0 .. MaxEvents]
      /\ call[c].upto \in 0 .. MaxEvents
  BY <1>1 DEF CallSet
<1>3. /\ call[c].step = "fetch" /\ CallOK(c)
      /\ call[c].hist.run \in Runs /\ call[c].upto >= 1
      /\ call[c].hist.n <= call[c].upto
      /\ call[c].op \in {"ReplayWorkflow", "DownloadWorkflowHistory"}
  BY DEF HistoryInv, FetchEvent, CallOK, Fetching
<1>4. UNCHANGED <<client, rrWorkflowDef, length, file, saved, count>>
  BY DEF FetchEvent
<1>5. SUFFICES /\ call' \in [Callers -> CallSet]
               /\ \A d \in Callers : CallOK(d)'
               /\ Sharing'
  BY <1>4 DEF HistoryInv, TypeOK
<1>6. CASE Answer(c, "Internal")
  BY <1>4, <1>6, AnswerStep, Zenon DEF Codes
<1>7. CASE /\ call[c].hist.n < call[c].upto
           /\ call' = [call EXCEPT ![c] =
                         [@ EXCEPT !.hist = [call[c].hist EXCEPT !.n = @ + 1]]]
  <2> DEFINE h == [call[c].hist EXCEPT !.n = @ + 1]
             x == [call[c] EXCEPT !.hist = h]
  <2>1. /\ h \in [run : Runs \cup {"none"}, n : 0 .. MaxEvents]
        /\ h.run = call[c].hist.run /\ h.n <= call[c].upto
    BY <1>2, <1>7, BoundsAssumption
  <2>2. call' = [call EXCEPT ![c] = x]
    BY <1>7
  <2> HIDE DEF h
  <2>3. /\ x \in CallSet
        /\ x.step = "fetch" /\ x.op = call[c].op /\ x.path = call[c].path
        /\ x.hist = h /\ x.upto = call[c].upto /\ x.alone = call[c].alone
    BY <1>1, <1>3, <2>1 DEF CallSet
  <2> HIDE DEF x
  <2>4. call'[c] = x
    BY <1>1, <2>2, Zenon
  <2>5. CallOK(c)' /\ (Open(c)' => Open(c))
    BY <1>3, <2>1, <2>3, <2>4, Zenon DEF CallOK, Fetching, Writing, Replaying, Trusted,
       Open
  <2> QED
    BY <1>4, <2>2, <2>3, <2>5, OthersKept, SharingKept, Zenon
<1>8. CASE /\ call[c].hist.n = call[c].upto
           /\ Goto(c, IF call[c].op = "ReplayWorkflow" THEN "definition" ELSE "write")
  <2> DEFINE step == IF call[c].op = "ReplayWorkflow" THEN "definition" ELSE "write"
             x == [call[c] EXCEPT !.step = step]
  <2>1. step \in Steps /\ Goto(c, step)
    BY <1>8 DEF Steps
  <2>2. call[c].op = "DownloadWorkflowHistory" => Open(c)
    BY <1>3 DEF Open
  <2>3. /\ call'[c] = x /\ x \in CallSet
        /\ call' = [call EXCEPT ![c] = x]
        /\ call'[c].step = step /\ call'[c].op = call[c].op
        /\ call'[c].path = call[c].path /\ call'[c].hist = call[c].hist
        /\ call'[c].upto = call[c].upto
        /\ Sharing'
    <3> HIDE DEF step
    <3> QED
      BY <1>4, <2>1, <2>2, GotoStep
  <2>4. call[c].hist \in Histories
    BY <1>2, <1>3, <1>8, BoundsAssumption, SMTT(60) DEF Histories
  <2> HIDE DEF x
  <2>5. CallOK(c)'
    <3>1. CASE call[c].op = "ReplayWorkflow"
      BY <3>1, <1>3, <1>8, <2>3, <2>4, ZenonT(60) DEF CallOK, Fetching, Writing, Replaying,
         Trusted, Open, Operations
    <3>2. CASE call[c].op = "DownloadWorkflowHistory"
      BY <3>2, <1>3, <1>8, <2>3, <2>4, Zenon DEF CallOK, Fetching, Writing, Replaying,
         Trusted, Open
    <3> QED
      BY <3>1, <3>2, <1>3, Zenon
  <2> QED
    BY <2>3, <2>5, OthersKept, ZenonT(60)
<1> QED
  BY <1>6, <1>7, <1>8 DEF FetchEvent

(***************************************************************************)
(* A call made before the client is there ends; its file stays as it is.   *)
(***************************************************************************)
LEMMA NilClientStep ==
    ASSUME HistoryInv, NEW c \in Callers, NilClient(c)
    PROVE  HistoryInv'
<1> DEFINE x == [call[c] EXCEPT !.step = "panicked"]
<1>1. /\ Goto(c, "panicked")
      /\ UNCHANGED <<client, rrWorkflowDef, length, file, saved, count>>
  BY DEF NilClient
<1>2. "panicked" \in Steps
  BY DEF Steps
<1>3. /\ x \in CallSet /\ call' = [call EXCEPT ![c] = x]
      /\ call'[c].step = "panicked"
      /\ Sharing'
  BY <1>1, <1>2, GotoStep, Zenon
<1> HIDE DEF x
<1>4. CallOK(c)'
  BY <1>3 DEF CallOK, Fetching, Writing, Replaying, Trusted, Open
<1>5. call' \in [Callers -> CallSet] /\ \A d \in Callers : CallOK(d)'
  BY <1>3, <1>4, OthersKept, ZenonT(60)
<1> QED
  BY <1>1, <1>3, <1>5 DEF HistoryInv, TypeOK

(***************************************************************************)
(* A write to the file of an open download: the others that have the file  *)
(* open are not alone, so nothing is promised of it.                       *)
(***************************************************************************)
LEMMA WriteStep ==
    ASSUME HistoryInv, NEW c \in Callers, WriteFile(c)
    PROVE  HistoryInv'
<1> DEFINE p == call[c].path
           text == Json(call[c].hist.run, call[c].hist.n)
<1>1. /\ call \in [Callers -> CallSet] /\ call[c] \in CallSet
      /\ file \in [Paths -> Seq(Cells)]
      /\ saved \in [Paths -> Histories \cup {Nothing}]
  BY DEF HistoryInv, TypeOK, Cells
<1>2. /\ call[c].op = "DownloadWorkflowHistory"
      /\ Open(c) /\ p \in Paths /\ call[c].hist \in Histories
  BY DEF HistoryInv, WriteFile, CallOK, Writing, Open
<1>3. text \in Seq(Cells)
  BY <1>2, JsonIsText
<1>4. saved[p] = Nothing
  BY <1>2 DEF HistoryInv, Sharing, Unreported
<1>5. UNCHANGED <<client, rrWorkflowDef, length, count>>
  BY Zenon DEF WriteFile
<1> HIDE DEF text
<1>6. PICK new \in Seq(Cells), code \in {"OK", "Internal"} :
         /\ file' = [file EXCEPT ![p] = Overwrite(@, new)]
         /\ Answer(c, code)
         /\ \/ /\ new = text
               /\ saved' = [saved EXCEPT ![p] =
                               IF call[c].alone THEN call[c].hist ELSE Nothing]
            \/ UNCHANGED saved
  <2>1. CASE /\ file' = [file EXCEPT ![p] = Overwrite(@, text)]
             /\ saved' = [saved EXCEPT ![p] =
                             IF call[c].alone THEN call[c].hist ELSE Nothing]
             /\ Answer(c, "OK")
    BY <2>1, <1>3, Zenon
  <2>2. CASE /\ \E k \in 0 .. Len(text) - 1 :
                   file' = [file EXCEPT ![p] = Overwrite(@, SubSeq(text, 1, k))]
             /\ Answer(c, "Internal")
             /\ UNCHANGED saved
    <3>1. PICK k \in 0 .. Len(text) - 1 :
             file' = [file EXCEPT ![p] = Overwrite(@, SubSeq(text, 1, k))]
      BY <2>2, Zenon
    <3>2. SubSeq(text, 1, k) \in Seq(Cells)
      BY <1>3, PartIsText
    <3> QED
      BY <2>2, <3>1, <3>2, Zenon
  <2> QED
    BY <2>1, <2>2, ZenonT(60) DEF WriteFile, text
<1>7. /\ call' \in [Callers -> CallSet]
      /\ \A d \in Callers : CallOK(d)'
      /\ ~Open(c)'
      /\ \A d \in Callers \ {c} : call'[d] = call[d]
  BY <1>2, <1>6, AnswerStep DEF Codes
<1>8. /\ file'[p] = Overwrite(file[p], new)
      /\ \A q \in Paths \ {p} : file'[q] = file[q]
      /\ file' \in [Paths -> Seq(Cells)]
  BY <1>1, <1>2, <1>6, OverwriteIsText
<1>9. /\ \A q \in Paths \ {p} : saved'[q] = saved[q]
      /\ saved' \in [Paths -> Histories \cup {Nothing}]
  BY <1>1, <1>2, <1>6, ZenonT(60)
<1>10. saved'[p] # Nothing => call[c].alone /\ saved'[p] = call[c].hist /\ new = text
  BY <1>1, <1>2, <1>4, <1>6
<1>11. \A d \in Callers : Open(d)' => d # c /\ Open(d) /\ call'[d] = call[d]
  BY <1>7 DEF Open
<1>12. \A d \in Callers : Open(d) => call[d].path \in Paths
  BY DEF HistoryInv, CallOK, Writing
<1> HIDE DEF p
<1>13. \A d \in Callers : Open(d)' /\ call[d].path = p =>
          ~call[d].alone /\ ~call[c].alone
  BY <1>2, <1>11 DEF HistoryInv, Sharing, Alone, p
<1>14. Alone'
  BY <1>11, Zenon DEF HistoryInv, Sharing, Alone
<1>15. StillEmpty'
  <2> SUFFICES ASSUME NEW d \in Callers, Open(d)', call'[d].alone
               PROVE  file'[call'[d].path] = <<>>
    BY DEF StillEmpty
  <2>1. /\ Open(d) /\ call'[d] = call[d] /\ call[d].path # p
        /\ call[d].path \in Paths
    BY <1>11, <1>12, <1>13
  <2>2. file[call[d].path] = <<>>
    BY <2>1 DEF HistoryInv, Sharing, StillEmpty
  <2> QED
    BY <2>1, <2>2, <1>8, Zenon
<1>16. Unreported'
  <2> SUFFICES ASSUME NEW d \in Callers, Open(d)'
               PROVE  saved'[call'[d].path] = Nothing
    BY DEF Unreported
  <2>1. Open(d) /\ call'[d] = call[d] /\ call[d].path \in Paths
    BY <1>11, <1>12, Zenon
  <2>2. CASE call[d].path = p
    BY <2>1, <2>2, <1>10, <1>13, Zenon
  <2>3. CASE call[d].path # p
    BY <2>1, <2>3, <1>9 DEF HistoryInv, Sharing, Unreported
  <2> QED
    BY <2>2, <2>3
<1>17. SavedWhole'
  <2> SUFFICES ASSUME NEW q \in Paths, saved'[q] # Nothing
               PROVE  file'[q] = Json(saved'[q].run, saved'[q].n)
    BY Zenon DEF SavedWhole
  <2>1. CASE q = p
    <3>1. call[c].alone /\ saved'[p] = call[c].hist /\ new = text
      BY <2>1, <1>10, Zenon
    <3>2. file[p] = <<>>
      BY <3>1, <1>2, Zenon DEF HistoryInv, Sharing, StillEmpty, p
    <3>3. file'[p] = text
      BY <3>1, <3>2, <1>3, <1>8, OverwriteEmpty, Zenon
    <3> QED
      BY <2>1, <3>1, <3>3, Zenon DEF text
  <2>2. CASE q # p
    BY <2>2, <1>8, <1>9, Zenon DEF HistoryInv, Sharing, SavedWhole
  <2> QED
    BY <2>1, <2>2, Zenon
<1> QED
  BY <1>5, <1>7, <1>8, <1>9, <1>14, <1>15, <1>16, <1>17
  DEF HistoryInv, TypeOK, Sharing, Cells

(***************************************************************************)
(* The definition is looked up, or the call is refused.                    *)
(***************************************************************************)
LEMMA DefinitionStep ==
    ASSUME HistoryInv, NEW c \in Callers, GetDefinition(c)
    PROVE  HistoryInv'
<1>1. call[c].step = "definition" /\ CallOK(c)
  BY DEF HistoryInv, GetDefinition
<1>2. UNCHANGED <<client, rrWorkflowDef, length, file, saved, count>>
  BY Zenon DEF GetDefinition
<1>3. SUFFICES /\ call' \in [Callers -> CallSet]
               /\ \A d \in Callers : CallOK(d)'
               /\ Sharing'
  BY <1>2 DEF HistoryInv, TypeOK
<1>4. CASE Answer(c, "FailedPrecondition")
  BY <1>2, <1>4, AnswerStep, Zenon DEF Codes
<1>5. CASE Goto(c, "replay")
  <2> DEFINE x == [call[c] EXCEPT !.step = "replay"]
  <2>1. "replay" \in Steps
    BY DEF Steps
  <2>2. /\ x \in CallSet /\ call' = [call EXCEPT ![c] = x]
        /\ call'[c].step = "replay" /\ call'[c].op = call[c].op
        /\ call'[c].hist = call[c].hist /\ call'[c].upto = call[c].upto
        /\ Sharing'
    BY <1>2, <1>5, <2>1, GotoStep, Zenon
  <2> HIDE DEF x
  <2>3. CallOK(c)'
    BY <1>1, <2>2, Zenon DEF CallOK, Fetching, Writing, Replaying, Trusted, Open
  <2> QED
    BY <2>2, <2>3, OthersKept, Zenon
<1> QED
  BY <1>4, <1>5 DEF GetDefinition

(***************************************************************************)
(* The replayer succeeds over a history the code reproduces, or fails.     *)
(***************************************************************************)
LEMMA ReplayStep ==
    ASSUME HistoryInv, NEW c \in Callers, Replay(c)
    PROVE  HistoryInv'
<1>1. call \in [Callers -> CallSet] /\ call[c] \in CallSet
  BY DEF HistoryInv, TypeOK
<1>2. call[c].step = "replay" /\ Replaying(c)
  BY ZenonT(60) DEF HistoryInv, Replay, CallOK
<1>3. UNCHANGED <<client, rrWorkflowDef, length, file, saved, count>>
  BY ZenonT(60) DEF Replay
<1>4. SUFFICES /\ call' \in [Callers -> CallSet]
               /\ \A d \in Callers : CallOK(d)'
               /\ Sharing'
  BY <1>3 DEF HistoryInv, TypeOK
<1>5. CASE Answer(c, "FailedPrecondition")
  BY <1>3, <1>5, AnswerStep DEF Codes
<1>6. ASSUME NEW h \in Given(c), Reproduced(h),
             call' = [call EXCEPT ![c] =
                         [@ EXCEPT !.step = "answered", !.hist = h, !.code = "OK"]]
      PROVE  /\ call' \in [Callers -> CallSet]
             /\ \A d \in Callers : CallOK(d)'
             /\ Sharing'
  <2> DEFINE x == [call[c] EXCEPT !.step = "answered", !.hist = h, !.code = "OK"]
  <2>1. h \in Histories /\ (call[c].op # "ReplayFromJSON" => h.n = call[c].upto)
    <3>1. CASE call[c].op = "ReplayFromJSON"
      <4>1. PICK g \in Histories : h = Prefix(g, call[c].last)
        BY <1>6, <3>1 DEF Given
      <4>2. call[c].last \in 0 .. MaxEvents
        BY <1>1, Zenon DEF CallSet
      <4> QED
        BY <3>1, <4>1, <4>2, PrefixIsHistory
    <3>2. CASE call[c].op # "ReplayFromJSON"
      BY <1>2, <3>2 DEF Given, Replaying
    <3> QED
      BY <3>1, <3>2
  <2>2. \A i \in 1 .. h.n : Breaks[h.run] # i
    BY <1>6, <2>1, BoundsAssumption DEF Reproduced, Histories
  <2>3. h \in [run : Runs \cup {"none"}, n : 0 .. MaxEvents]
    BY <2>1, BoundsAssumption DEF Histories
  <2>4. /\ x \in CallSet
        /\ x.step = "answered" /\ x.op = call[c].op
        /\ x.hist = h /\ x.upto = call[c].upto
    BY <1>1, <2>3, ZenonT(60) DEF CallSet, Steps, Codes
  <2>5. call' = [call EXCEPT ![c] = x]
    BY <1>6
  <2> HIDE DEF x
  <2>6. call'[c] = x
    BY <1>1, <2>5
  <2>7. CallOK(c)' /\ ~Open(c)'
    BY <2>1, <2>2, <2>4, <2>6 DEF CallOK, Fetching, Writing, Replaying, Trusted, Open
  <2> QED
    BY <1>3, <2>4, <2>5, <2>7, OthersKept, SharingKept, Zenon
<1> QED
  BY <1>5, <1>6, ZenonT(60) DEF Replay

(***************************************************************************)
(* The client, the definition and the runs of the server: no call moves.   *)
(***************************************************************************)
LEMMA EnvironmentStep ==
    ASSUME HistoryInv, UNCHANGED <<file, call, saved, count>>,
           client' \in BOOLEAN, rrWorkflowDef' \in BOOLEAN,
           length' \in [Runs -> 1 .. MaxEvents]
    PROVE  HistoryInv'
<1>1. TypeOK'
  BY DEF HistoryInv, TypeOK
<1>2. \A c \in Callers : (CallOK(c)' <=> CallOK(c)) /\ (Open(c)' <=> Open(c))
  BY SMTT(60) DEF CallOK, Fetching, Writing, Replaying, Trusted, Open
<1>3. Sharing'
  BY <1>2 DEF HistoryInv, Sharing, Alone, StillEmpty, Unreported, SavedWhole
<1> QED
  BY <1>1, <1>2, <1>3 DEF HistoryInv

-----------------------------------------------------------------------------
(***************************************************************************)
(* The invariant holds before any call is made.                            *)
(***************************************************************************)
LEMMA HistoryInit == Init => HistoryInv
<1> SUFFICES ASSUME Init PROVE HistoryInv
  OBVIOUS
<1>1. \A c \in Callers :
         /\ call[c].step = "idle"
         /\ call[c] \in CallSet
  <2> DEFINE x == [step |-> "idle", op |-> "none", path |-> "none", last |-> 0,
                   hist |-> Nothing, upto |-> 0, alone |-> FALSE, code |-> "none"]
  <2>1. 0 \in 0 .. MaxEvents
    BY BoundsAssumption
  <2>2. Nothing \in [run : Runs \cup {"none"}, n : 0 .. MaxEvents]
    BY <2>1 DEF Nothing
  <2>3. x \in CallSet /\ x.step = "idle"
    BY <2>1, <2>2 DEF CallSet, Steps
  <2>4. \A c \in Callers : call[c] = x
    BY Zenon DEF Init
  <2> HIDE DEF x
  <2> QED
    BY <2>3, <2>4, Zenon
<1>2. TypeOK
  <2>1. call \in [Callers -> CallSet]
    BY <1>1, ZenonT(60) DEF Init
  <2>2. file \in [Paths -> Seq(Runs \cup {"end"})]
    BY EmptySeq DEF Init
  <2>3. length \in [Runs -> 1 .. MaxEvents] /\ count \in 0 .. MaxCalls
    BY BoundsAssumption DEF Init
  <2> QED
    BY <2>1, <2>2, <2>3, Zenon DEF Init, TypeOK
<1>3. \A c \in Callers : CallOK(c) /\ ~Open(c)
  BY <1>1, Zenon DEF CallOK, Fetching, Writing, Replaying, Trusted, Open
<1>4. \A p \in Paths : saved[p] = Nothing
  BY Zenon DEF Init
<1>5. Sharing
  BY <1>3, <1>4 DEF Sharing, Alone, StillEmpty, Unreported, SavedWhole
<1> QED
  BY <1>2, <1>3, <1>5 DEF HistoryInv

(***************************************************************************)
(* Every step keeps the invariant.                                         *)
(***************************************************************************)
LEMMA HistoryStep == HistoryInv /\ [Next]_vars => HistoryInv'
<1> SUFFICES ASSUME HistoryInv, [Next]_vars PROVE HistoryInv'
  OBVIOUS
<1>1. ASSUME NEW c \in Callers, NEW r \in Requests, Call(c, r) PROVE HistoryInv'
  BY <1>1, CallMade
<1>2. ASSUME NEW c \in Callers, CallStep(c) PROVE HistoryInv'
  BY <1>2, CreateStep, FetchStep, NilClientStep, WriteStep, DefinitionStep, ReplayStep,
     Zenon DEF CallStep
<1>3. CASE ClientSet
  BY <1>3, EnvironmentStep DEF ClientSet, HistoryInv, TypeOK
<1>4. CASE DefinitionSet
  BY <1>4, EnvironmentStep DEF DefinitionSet, HistoryInv, TypeOK
<1>5. ASSUME NEW r \in Runs, EventAdded(r) PROVE HistoryInv'
  <2>1. length' \in [Runs -> 1 .. MaxEvents]
    BY <1>5, BoundsAssumption DEF EventAdded, HistoryInv, TypeOK
  <2> QED
    BY <1>5, <2>1, EnvironmentStep DEF EventAdded, HistoryInv, TypeOK
<1>6. CASE UNCHANGED vars
  BY <1>6, EnvironmentStep DEF vars, HistoryInv, TypeOK
<1> QED
  BY <1>1, <1>2, <1>3, <1>4, <1>5, <1>6 DEF Next

(***************************************************************************)
(* The invariant holds in every state.                                     *)
(***************************************************************************)
LEMMA HistoryInvariant == Spec => []HistoryInv
BY HistoryInit, HistoryStep, PTL DEF Spec

(***************************************************************************)
(* The variables of the history calls keep their types; in particular no   *)
(* fetch runs past the events the run had, and what is left of a file is   *)
(* always a text of events and ends.                                       *)
(***************************************************************************)
THEOREM HistoryTypes == Spec => []TypeOK
<1>1. HistoryInv => TypeOK
  BY DEF HistoryInv
<1> QED
  BY <1>1, HistoryInvariant, PTL

(***************************************************************************)
(* SavedWhole, for any number of calls and paths: a history that           *)
(* DownloadWorkflowHistory reported saved is in its file, whole and with   *)
(* nothing behind it, until the next download opens the file.              *)
(***************************************************************************)
THEOREM SavedIsWhole == Spec => []SavedWhole
<1>1. HistoryInv => SavedWhole
  BY DEF HistoryInv, Sharing
<1> QED
  BY <1>1, HistoryInvariant, PTL

(***************************************************************************)
(* ReplayTrusted, for any number of calls: a replay answered with OK ran   *)
(* over a history the code reproduces to its end.                          *)
(***************************************************************************)
THEOREM ReplayIsTrusted == Spec => []ReplayTrusted
<1>1. HistoryInv => ReplayTrusted
  BY DEF HistoryInv, CallOK, Trusted, ReplayTrusted
<1> QED
  BY <1>1, HistoryInvariant, PTL
=============================================================================
