-------------------------- MODULE TelemetryProofs --------------------------
(***************************************************************************)
(* Proofs about Telemetry, for any number of events, tries, exporters and  *)
(* faults.                                                                 *)
(*                                                                         *)
(* The inductive invariant says of the stream that what lies between the   *)
(* last event the browser saw and the cursor of the stream is on the wire, *)
(* in order and without a gap, and that no end is on the wire before what  *)
(* led to it; and of the export that nobody holds a batch of a run that is *)
(* not over.                                                               *)
(***************************************************************************)
EXTENDS Telemetry, SequenceTheorems, TLAPS

(* The runtime's calls: how many there can be before event e. *)

CallsBefore(e) ==
  IF e <= LastEvent THEN e - 1
  ELSE IF e = Report THEN LastEvent - 1 + ATTEMPTS
  ELSE LastEvent - 1 + 2 * ATTEMPTS

PaceOfCalls ==
  /\ reporter.waiting => ~Over
  /\ ~Over => /\ reporter.tries <= Tries(reporter.event)
              /\ ~reporter.waiting => reporter.tries < Tries(reporter.event)
  /\ reporter.sent <= CallsBefore(reporter.event) + reporter.tries

(* The stream. *)

Frame == [id     : Nat,
          event  : {"plugins", "feed", "status", "end"},
          status : Live \cup Terminal \cup {"none", "reported"}]

\* Event s is among the first n of the frames w.
OnWire(w, s, n) == \E j \in 1 .. n : w[j].id = s

InPlace(w, i) ==
  /\ w[i].id # 0 =>
       /\ w[i].id \in view.last + 1 .. Len(log)
       /\ w[i].event = log[w[i].id].kind
       /\ \A s \in view.last + 1 .. w[i].id - 1 : OnWire(w, s, i - 1)
       /\ \A j \in 1 .. i - 1 : w[j].id < w[i].id
  /\ w[i].id = 0 => w[i].event \in {"status", "end"}

FramesFollowLog(w) == \A i \in 1 .. Len(w) : InPlace(w, i)

\* What the browser has not seen up to event upto is in w, and nothing later.
Reaches(w, upto) ==
  /\ upto \in view.last .. Len(log)
  /\ \A i \in 1 .. Len(w) : w[i].id <= upto
  /\ \A s \in view.last + 1 .. upto : OnWire(w, s, Len(w))

EndFollowsCut(w) ==
  \A i \in 1 .. Len(w) :
    w[i].event = "end" =>
      /\ w[i].id = 0 /\ status \in Terminal
      /\ \A s \in view.last + 1 .. cut : OnWire(w, s, i - 1)

TailFollowsLog ==
  tail.pc # "none" =>
    /\ Reaches(wire, tail.cursor)
    /\ tail.pc = "drain" => status \in Terminal

CutIsInLog == status \in Terminal => cut <= Len(log)

EndIsSeen == view.closed = "end" => status \in Terminal /\ view.last >= cut

FeedFollowsLog ==
  /\ view.last <= Len(log)
  /\ \A i \in 1 .. Len(view.feed) :
       /\ view.feed[i].seq \in 1 .. view.last
       /\ view.feed[i].kind = "feed" => log[view.feed[i].seq].kind = "feed"
  /\ \A s \in 1 .. view.last : log[s].kind = "feed" =>
       \E i \in 1 .. Len(view.feed) :
         view.feed[i].kind = "feed" /\ view.feed[i].seq = s
  /\ \A j \in 1 .. Len(view.feed) : \A i \in 1 .. j - 1 :
       view.feed[i].kind = "feed" /\ view.feed[j].kind = "feed" =>
         view.feed[i].seq < view.feed[j].seq

Followed ==
  /\ FramesFollowLog(wire)
  /\ EndFollowsCut(wire)
  /\ TailFollowsLog
  /\ CutIsInLog
  /\ EndIsSeen
  /\ FeedFollowsLog

StreamInv ==
  /\ wire \in Seq(Frame)
  /\ status # "gone" => Followed

(* The export. *)

ExporterInv(c) ==
  /\ exporter[c].pc = "read" => status \notin Live /\ exporter[c].claim # 0
  /\ exporter[c].batch # << >> => status \notin Live /\ exporter[c].upto >= cut
  /\ exporter[c].pc \in {"send", "mark"} => exporter[c].batch # << >>
  /\ exporter[c].pc = "mark" => sent >= cut

ExportInv ==
  /\ enqueue => status \notin Live
  /\ export.status # "none" => status \in Terminal
  /\ export.status = "exported" => sent >= cut
  /\ \A c \in Exporters : ExporterInv(c)

IInv == TypeOK /\ PaceOfCalls /\ StreamInv /\ ExportInv

-----------------------------------------------------------------------------
(* The calls and the log. *)

USE EventsAssumption, LogFaultsAssumption, ExportAssumption
    DEF Report, Live, Terminal, E!Terminal

\* What the steps of the runtime and of its handlers may do to the log.
LogMoves ==
  \/ UNCHANGED <<status, log, cut>>
  \/ status' = status /\ cut' = cut /\ \E e \in Entry : log' = Append(log, e)
  \/ status \in Live /\ log' = log /\ status' \in Live /\ cut' = cut
  \/ status \in Live /\ log' = log /\ status' \in Terminal /\ cut' = Len(log)

LogInv == LogTypeOK /\ PaceOfCalls

LEMMA LogMovesTypes ==
  ASSUME LogInv, LogMoves
  PROVE  /\ status' \in Live \cup Terminal \cup {"gone"}
         /\ log' \in Seq(Entry) /\ cut' \in Nat
<1>1. log \in Seq(Entry) /\ Len(log) \in Nat /\ cut \in Nat
  BY LenProperties DEF LogInv, LogTypeOK
<1>2. log' \in Seq(Entry)
  <2>1. ASSUME NEW e \in Entry, log' = Append(log, e) PROVE log' \in Seq(Entry)
    BY <1>1, <2>1, AppendProperties
  <2>2. QED
    BY <1>1, <2>1 DEF LogMoves
<1>3. cut' \in Nat /\ status' \in Live \cup Terminal \cup {"gone"}
  BY <1>1 DEF LogMoves, LogInv, LogTypeOK
<1>4. QED
  BY <1>2, <1>3

\* The parts of the reporter, for arithmetic.
LEMMA ReporterIs ==
  ASSUME LogInv
  PROVE  /\ reporter = [event |-> reporter.event, tries |-> reporter.tries,
                        sent |-> reporter.sent, waiting |-> reporter.waiting]
         /\ reporter.event \in 1 .. Report + 1 /\ reporter.tries \in 0 .. ATTEMPTS
         /\ reporter.sent \in 0 .. LastEvent - 1 + 2 * ATTEMPTS
         /\ reporter.waiting \in BOOLEAN
  BY DEF LogInv, LogTypeOK

LEMMA PostKeeps == ASSUME LogInv, Post PROVE LogInv' /\ LogMoves
<1>1. LogMoves
  BY DEF Post, LogMoves
<1>2. PICK e \in 1 .. Report : e = reporter.event
  BY ReporterIs DEF Post, Over
<1>3. PICK t \in Nat, n \in Nat : t = reporter.tries /\ n = reporter.sent
  BY ReporterIs
<1>4. t < Tries(e) /\ n <= CallsBefore(e) + t
  BY <1>2, <1>3 DEF Post, Over, LogInv, PaceOfCalls
<1>5. t + 1 <= ATTEMPTS /\ n + 1 <= LastEvent - 1 + 2 * ATTEMPTS
  BY <1>2, <1>4 DEF CallsBefore, Tries
<1>6. /\ reporter' = [event |-> e, tries |-> t + 1, sent |-> n + 1, waiting |-> TRUE]
      /\ call' = [call EXCEPT ![n + 1] = [of |-> e, at |-> "received"]]
      /\ UNCHANGED <<watched, tail, view, faults>>
  BY <1>2, <1>3, ReporterIs DEF Post, streamVars
<1>7. reporter' \in [event : 1 .. Report + 1, tries : 0 .. ATTEMPTS,
                     sent : 0 .. LastEvent - 1 + 2 * ATTEMPTS, waiting : BOOLEAN]
  BY <1>2, <1>5, <1>6
<1>8. PaceOfCalls'
  BY <1>2, <1>4, <1>5, <1>6 DEF PaceOfCalls, Over, CallsBefore, Tries
<1>9. call' \in [Calls -> [of : 0 .. Report, at : CallState]]
  <2>1. call \in [Calls -> [of : 0 .. Report, at : CallState]]
    BY DEF LogInv, LogTypeOK
  <2>2. [of |-> e, at |-> "received"] \in [of : 0 .. Report, at : CallState]
    BY <1>2 DEF CallState
  <2>3. QED
    BY <1>6, <2>1, <2>2
<1>10. /\ status' \in Live \cup Terminal \cup {"gone"}
       /\ log' \in Seq(Entry) /\ cut' \in Nat
  BY <1>1, LogMovesTypes
<1>11. LogTypeOK'
  BY <1>6, <1>7, <1>9, <1>10 DEF LogInv, LogTypeOK
<1>12. QED
  BY <1>1, <1>8, <1>11 DEF LogInv

\* The answers that the runtime may get or miss.
LEMMA RepliesKeep ==
  ASSUME LogInv, NEW reply, reply \in {Proceeding, Refused}, reporter.waiting, reporter' = reply
  PROVE  /\ reporter' \in [event : 1 .. Report + 1, tries : 0 .. ATTEMPTS,
                           sent : 0 .. LastEvent - 1 + 2 * ATTEMPTS, waiting : BOOLEAN]
         /\ PaceOfCalls'
<1>1. PICK e \in 1 .. Report : e = reporter.event
  BY DEF Over, LogInv, LogTypeOK, PaceOfCalls
<1>2. /\ reporter.tries \in Nat /\ reporter.tries <= Tries(e)
      /\ reporter.sent <= CallsBefore(e) + reporter.tries
      /\ CallsBefore(e) + Tries(e) = CallsBefore(e + 1)
  <2>1. CallsBefore(e) + Tries(e) = CallsBefore(e + 1)
    BY DEF CallsBefore, Tries
  <2>2. QED
    BY <1>1, <2>1, ReporterIs DEF Over, LogInv, PaceOfCalls
<1>3. PICK r : r = reporter'
  OBVIOUS
<1>4. CASE r = Proceeding
  <2>1. r = [event |-> e + 1, tries |-> 0, sent |-> reporter.sent, waiting |-> FALSE]
    BY <1>1, <1>4 DEF Proceeding, LogInv, LogTypeOK
  <2>2. reporter.sent <= CallsBefore(e + 1)
    <3>1. CallsBefore(e) \in Nat /\ Tries(e) \in Nat
      BY <1>1 DEF CallsBefore, Tries
    <3>2. reporter.sent \in Nat
      BY ReporterIs
    <3>3. QED
      BY <1>2, <3>1, <3>2
  <2>3. PaceOfCalls'
    BY <1>1, <1>3, <2>1, <2>2 DEF PaceOfCalls, Over, Tries, CallsBefore, LogInv, LogTypeOK
  <2>4. QED
    BY <1>1, <1>3, <2>1, <2>3 DEF LogInv, LogTypeOK
<1>5. CASE r = [reporter EXCEPT !.waiting = FALSE] /\ reporter.tries < Tries(e)
  <2>1. r = [event |-> e, tries |-> reporter.tries, sent |-> reporter.sent, waiting |-> FALSE]
    BY <1>1, <1>5 DEF LogInv, LogTypeOK
  <2>2. PaceOfCalls'
    BY <1>1, <1>2, <1>3, <1>5, <2>1 DEF PaceOfCalls, Over, Tries, CallsBefore, LogInv, LogTypeOK
  <2>3. QED
    BY <1>1, <1>3, <2>1, <2>2 DEF LogInv, LogTypeOK
<1>6. QED
  BY <1>1, <1>3, <1>4, <1>5 DEF Refused

LEMMA AnswersKeep ==
  ASSUME LogInv, LogMoves, UNCHANGED <<streamVars, faults>>, NEW k, NEW reply,
         reply \in {Proceeding, Refused}, Answers(k, reply)
  PROVE  LogInv'
<1>1. call' \in [Calls -> [of : 0 .. Report, at : CallState]]
  <2>1. call \in [Calls -> [of : 0 .. Report, at : CallState]]
    BY DEF LogInv, LogTypeOK
  <2>2. Answered \in [of : 0 .. Report, at : CallState]
    BY DEF Answered, CallState
  <2>3. QED
    BY <2>1, <2>2 DEF Answers
<1>2. CASE reporter' = reporter
  BY <1>1, <1>2, LogMovesTypes DEF LogInv, LogTypeOK, PaceOfCalls, Over, streamVars
<1>3. CASE reporter.waiting /\ reporter' = reply
  BY <1>1, <1>3, RepliesKeep, LogMovesTypes DEF LogInv, LogTypeOK, streamVars
<1>4. QED
  BY <1>2, <1>3 DEF Answers

LEMMA FaultCounts ==
  ASSUME NEW kind, faults \in 0 .. MaxFaults, Fault(kind) \/ UNCHANGED faults
  PROVE  faults' \in 0 .. MaxFaults
  BY DEF Fault

LEMMA LogStepKeeps ==
  ASSUME LogInv,
         \/ Start \/ Cancel \/ Post \/ TimesOut \/ RuntimeEnds
         \/ \E k \in Calls :
              HandleEvent(k) \/ RecordReport(k) \/ CompleteRun(k) \/ HandlerDies(k)
  PROVE  LogInv' /\ LogMoves /\ UNCHANGED streamVars
<1>1. CASE Start
  <2>1. LogMoves /\ UNCHANGED <<streamVars, reporter, call, faults>>
    BY <1>1 DEF Start, LogMoves
  <2>2. QED
    BY <2>1, LogMovesTypes DEF LogInv, LogTypeOK, PaceOfCalls, Over, streamVars
<1>2. CASE Cancel
  <2>1. LogMoves /\ UNCHANGED <<streamVars, reporter, call, faults>>
    BY <1>2 DEF Cancel, Decided, LogMoves
  <2>2. QED
    BY <2>1, LogMovesTypes DEF LogInv, LogTypeOK, PaceOfCalls, Over, streamVars
<1>3. CASE Post
  BY <1>3, PostKeeps DEF Post
<1>4. CASE TimesOut
  <2>1. /\ UNCHANGED <<status, log, call, cut, streamVars>>
        /\ reporter.waiting /\ reporter' = Refused
    BY <1>4 DEF TimesOut
  <2>2. faults' \in 0 .. MaxFaults
    BY <1>4, FaultCounts DEF TimesOut, LogInv, LogTypeOK
  <2>3. QED
    <3>1. /\ reporter' \in [event : 1 .. Report + 1, tries : 0 .. ATTEMPTS,
                             sent : 0 .. LastEvent - 1 + 2 * ATTEMPTS, waiting : BOOLEAN]
          /\ PaceOfCalls'
      BY <2>1, RepliesKeep
    <3>2. LogTypeOK'
      BY <2>1, <2>2, <3>1 DEF LogInv, LogTypeOK, streamVars
    <3>3. QED
      BY <2>1, <3>1, <3>2 DEF LogInv, LogMoves
<1>5. CASE RuntimeEnds
  <2>1. UNCHANGED <<status, log, call, cut, streamVars, faults>>
    BY <1>5 DEF RuntimeEnds
  <2>2. PICK n \in Nat : n = reporter.sent
    BY ReporterIs
  <2>3. reporter' = [event |-> Report + 1, tries |-> 0, sent |-> n, waiting |-> FALSE]
    BY <1>5, <2>2, ReporterIs DEF RuntimeEnds
  <2>4. n <= LastEvent - 1 + 2 * ATTEMPTS
    BY <2>2, ReporterIs
  <2>5. PaceOfCalls'
    BY <2>2, <2>3, <2>4 DEF PaceOfCalls, Over, CallsBefore
  <2>6. reporter' \in [event : 1 .. Report + 1, tries : 0 .. ATTEMPTS,
                       sent : 0 .. LastEvent - 1 + 2 * ATTEMPTS, waiting : BOOLEAN]
    BY <2>2, <2>3, <2>4
  <2>7. QED
    BY <2>1, <2>5, <2>6 DEF LogInv, LogTypeOK, LogMoves, streamVars
<1>6. ASSUME NEW k \in Calls, HandleEvent(k) \/ RecordReport(k) \/ CompleteRun(k) \/ HandlerDies(k)
      PROVE  LogInv' /\ LogMoves /\ UNCHANGED streamVars
  <2>1. call \in [Calls -> [of : 0 .. Report, at : CallState]]
    BY DEF LogInv, LogTypeOK
  <2>2. CASE HandleEvent(k)
    <3>1. LogMoves
      <4>1. [kind |-> "feed", of |-> call[k].of] \in Entry
        BY <2>1 DEF Entry
      <4>2. QED
        BY <2>2, <4>1 DEF HandleEvent, AppendEvent, LogMoves
    <3>2. QED
      BY <2>2, <3>1, AnswersKeep DEF HandleEvent, streamVars
  <2>3. CASE RecordReport(k)
    <3>1. LogMoves
      <4>1. [kind |-> "status", of |-> Report] \in Entry
        BY DEF Entry
      <4>2. QED
        BY <2>3, <4>1 DEF RecordReport, AppendEvent, LogMoves
    <3>2. CASE status = "gone"
      BY <2>3, <3>1, <3>2, AnswersKeep DEF RecordReport, streamVars
    <3>3. CASE status # "gone"
      <4>1. UNCHANGED <<reporter, faults, streamVars>>
        BY <2>3, <3>3 DEF RecordReport
      <4>2. call' = [call EXCEPT ![k].at = "recorded"]
        BY <2>3, <3>3 DEF RecordReport
      <4>3. call' \in [Calls -> [of : 0 .. Report, at : CallState]]
        BY <2>1, <4>2 DEF CallState
      <4>4. QED
        BY <3>1, <4>1, <4>3, LogMovesTypes DEF LogInv, LogTypeOK, PaceOfCalls, Over, streamVars
    <3>4. QED
      BY <3>2, <3>3
  <2>4. CASE CompleteRun(k)
    <3>1. LogMoves
      BY <2>4 DEF CompleteRun, Decided, LogMoves
    <3>2. QED
      BY <2>4, <3>1, AnswersKeep DEF CompleteRun, streamVars
  <2>5. CASE HandlerDies(k)
    <3>1. /\ call' = [call EXCEPT ![k] = Answered] /\ Fault("crash")
          /\ UNCHANGED <<status, log, reporter, cut, streamVars>>
      BY <2>5 DEF HandlerDies
    <3>2. call' \in [Calls -> [of : 0 .. Report, at : CallState]]
      BY <2>1, <3>1 DEF Answered, CallState
    <3>3. faults' \in 0 .. MaxFaults
      BY <3>1, FaultCounts DEF LogInv, LogTypeOK
    <3>4. QED
      BY <3>1, <3>2, <3>3 DEF LogInv, LogTypeOK, PaceOfCalls, Over, LogMoves, streamVars
  <2>6. QED
    BY <1>6, <2>2, <2>3, <2>4, <2>5
<1>7. QED
  BY <1>1, <1>2, <1>3, <1>4, <1>5, <1>6

-----------------------------------------------------------------------------
(* The stream: what is written to the log puts nothing out of place. *)

\* The parts of a log, its readers and its frames, for arithmetic.
LEMMA StreamIs ==
  ASSUME LogInv, StreamInv
  PROVE  /\ Len(log) \in Nat /\ cut \in Nat /\ view.last \in Nat /\ tail.cursor \in Nat
         /\ Len(wire) \in Nat /\ \A i \in 1 .. Len(wire) : wire[i] \in Frame
         /\ Len(view.feed) \in Nat
         /\ \A i \in 1 .. Len(view.feed) : view.feed[i] \in [seq : Nat, kind : {"feed", "status"}]
         /\ \A s \in 1 .. Len(log) : log[s] \in Entry
  BY LenProperties, ElementOfSeq DEF LogInv, LogTypeOK, StreamInv

LEMMA LogGrows ==
  ASSUME LogInv, LogMoves
  PROVE  /\ Len(log') \in Nat /\ Len(log) <= Len(log')
         /\ \A s \in 1 .. Len(log) : log'[s] = log[s]
<1>1. log \in Seq(Entry) /\ Len(log) \in Nat
  BY LenProperties DEF LogInv, LogTypeOK
<1>2. ASSUME NEW e \in Entry, log' = Append(log, e)
      PROVE  Len(log') = Len(log) + 1 /\ \A s \in 1 .. Len(log) : log'[s] = log[s]
  BY <1>1, <1>2, AppendProperties
<1>3. CASE log' = log
  BY <1>1, <1>3
<1>4. QED
  BY <1>1, <1>2, <1>3 DEF LogMoves

LEMMA LogMovesKeepStream ==
  ASSUME LogInv, StreamInv, LogMoves, UNCHANGED streamVars
  PROVE  StreamInv'
<1>1. SUFFICES ASSUME status' # "gone" PROVE Followed'
  BY DEF StreamInv, streamVars
<1>2. status # "gone" /\ Followed
  BY <1>1 DEF LogMoves, StreamInv
<1>3. wire' = wire /\ view' = view /\ tail' = tail
  BY DEF streamVars
<1>4. \A s, n : OnWire(wire, s, n)' <=> OnWire(wire, s, n)
  BY <1>3 DEF OnWire
<1>5. FramesFollowLog(wire)'
  <2>1. ASSUME NEW i \in 1 .. Len(wire), wire[i].id # 0
        PROVE  /\ wire[i].id \in view.last + 1 .. Len(log')
               /\ wire[i].event = log'[wire[i].id].kind
    <3>1. wire[i].id \in view.last + 1 .. Len(log) /\ wire[i].event = log[wire[i].id].kind
      BY <1>2, <2>1 DEF Followed, FramesFollowLog, InPlace
    <3>2. wire[i].id \in 1 .. Len(log)
      BY <3>1, StreamIs
    <3>3. QED
      BY <3>1, <3>2, LogGrows, StreamIs
  <2>2. QED
    BY <1>2, <1>3, <1>4, <2>1 DEF Followed, FramesFollowLog, InPlace
<1>6. TailFollowsLog'
  <2>1. status \in Terminal => status' \in Terminal
    BY DEF LogMoves
  <2>2. tail.cursor \in view.last .. Len(log) => tail.cursor \in view.last .. Len(log')
    BY LogGrows, StreamIs
  <2>3. QED
    BY <1>2, <1>3, <1>4, <2>1, <2>2 DEF Followed, TailFollowsLog, Reaches
<1>7. (EndFollowsCut(wire) /\ CutIsInLog /\ EndIsSeen)'
  <2>1. CASE status \in Terminal
    <3>1. status' = status /\ cut' = cut
      BY <2>1 DEF LogMoves
    <3>2. cut' <= Len(log')
      BY <1>2, <2>1, <3>1, LogGrows, StreamIs DEF Followed, CutIsInLog
    <3>3. QED
      BY <1>2, <1>3, <1>4, <3>1, <3>2 DEF Followed, EndFollowsCut, CutIsInLog, EndIsSeen
  <2>2. CASE status \notin Terminal
    <3>1. status' \in Terminal => cut' <= Len(log')
      BY <2>2, StreamIs DEF LogMoves
    <3>2. QED
      BY <1>2, <1>3, <1>4, <2>2, <3>1 DEF Followed, EndFollowsCut, CutIsInLog, EndIsSeen
  <2>3. QED
    BY <2>1, <2>2
<1>8. FeedFollowsLog'
  <2>1. view.last <= Len(log) /\ \A s \in 1 .. view.last : log'[s] = log[s]
    BY <1>2, LogGrows, StreamIs DEF Followed, FeedFollowsLog
  <2>2. view.last <= Len(log')
    BY <2>1, LogGrows, StreamIs
  <2>3. QED
    BY <1>2, <1>3, <2>1, <2>2 DEF Followed, FeedFollowsLog
<1>9. QED
  BY <1>5, <1>6, <1>7, <1>8 DEF Followed

-----------------------------------------------------------------------------
(* The stream: frames that are sent. *)

NewFrames(from) == IF Len(log) > from THEN EventFrames(from) ELSE << >>

LEMMA FramesOfLog ==
  ASSUME LogInv, StreamInv, NEW from \in Nat
  PROVE  /\ NewFrames(from) \in Seq(Frame)
         /\ Len(NewFrames(from)) = IF Len(log) > from THEN Len(log) - from ELSE 0
         /\ \A i \in 1 .. Len(NewFrames(from)) :
              /\ from + i \in 1 .. Len(log)
              /\ NewFrames(from)[i].id = from + i
              /\ NewFrames(from)[i].event = log[from + i].kind
<1>1. CASE Len(log) > from
  <2>1. PICK n \in Nat : n = Len(log) - from
    <3>1. Len(log) \in Nat
      BY StreamIs
    <3>2. Len(log) - from \in Nat
      BY <1>1, <3>1
    <3>3. QED
      BY <3>2
  <2>2. NewFrames(from) = [i \in 1 .. n |->
          [id |-> from + i, event |-> log[from + i].kind, status |-> "reported"]]
    BY <1>1, <2>1 DEF NewFrames, EventFrames
  <2>3. \A i \in 1 .. n : from + i \in 1 .. Len(log) /\ from + i \in Nat
    BY <2>1, StreamIs
  <2>4. \A i \in 1 .. n :
          [id |-> from + i, event |-> log[from + i].kind, status |-> "reported"] \in Frame
    BY <2>3, StreamIs DEF Frame, Entry
  <2>5. NewFrames(from) \in [1 .. n -> Frame]
    BY <2>2, <2>4
  <2>6. NewFrames(from) \in Seq(Frame)
    BY <2>5, SeqDef
  <2>7. Len(NewFrames(from)) = n
    BY <2>5, <2>6, LenProperties
  <2>8. \A i \in 1 .. n : NewFrames(from)[i] =
          [id |-> from + i, event |-> log[from + i].kind, status |-> "reported"]
    BY <2>2
  <2>9. Len(NewFrames(from)) = IF Len(log) > from THEN Len(log) - from ELSE 0
    BY <1>1, <2>1, <2>7
  <2>10. \A i \in 1 .. Len(NewFrames(from)) :
           /\ NewFrames(from)[i].id = from + i
           /\ NewFrames(from)[i].event = log[from + i].kind
    BY <2>7, <2>8
  <2>11. \A i \in 1 .. Len(NewFrames(from)) : from + i \in 1 .. Len(log)
    BY <2>3, <2>7
  <2>12. QED
    BY <2>6, <2>9, <2>10, <2>11
<1>2. CASE ~(Len(log) > from)
  BY <1>2, EmptySeq DEF NewFrames
<1>3. QED
  BY <1>1, <1>2

LEMMA EventsSent ==
  ASSUME LogInv, StreamInv, NEW w \in Seq(Frame), NEW from \in Nat,
         FramesFollowLog(w), EndFollowsCut(w), Reaches(w, from)
  PROVE  LET v == w \o NewFrames(from)
         IN  v \in Seq(Frame) /\ FramesFollowLog(v) /\ EndFollowsCut(v) /\ Reaches(v, Len(log))
<1>1. PICK t \in Seq(Frame), v \in Seq(Frame) : t = NewFrames(from) /\ v = w \o t
  BY FramesOfLog, ConcatProperties
<1>2. PICK n \in Nat, m \in Nat : n = Len(w) /\ m = Len(t)
  BY LenProperties
<1>3. from <= Len(log) /\ view.last <= from /\ m = Len(log) - from
  <2>1. from <= Len(log) /\ view.last <= from
    BY StreamIs DEF Reaches
  <2>2. m = IF Len(log) > from THEN Len(log) - from ELSE 0
    BY <1>1, <1>2, FramesOfLog
  <2>3. QED
    BY <2>1, <2>2, StreamIs
<1>4. /\ Len(v) = n + m
      /\ \A i \in 1 .. n : v[i] = w[i]
      /\ \A i \in 1 .. m : v[n + i] = t[i]
  BY <1>1, <1>2, ConcatProperties
<1>5. \A i \in 1 .. m : v[n + i].id = from + i /\ v[n + i].event = log[from + i].kind
                        /\ from + i \in 1 .. Len(log)
  <2>1. \A i \in 1 .. m : t[i].id = from + i /\ t[i].event = log[from + i].kind
                          /\ from + i \in 1 .. Len(log)
    BY <1>1, <1>2, FramesOfLog
  <2>2. QED
    BY <1>4, <2>1
<1>6. \A s : \A k \in 0 .. n : OnWire(v, s, k) <=> OnWire(w, s, k)
  <2>1. SUFFICES ASSUME NEW s, NEW k \in 0 .. n PROVE OnWire(v, s, k) <=> OnWire(w, s, k)
    OBVIOUS
  <2>2. \A j \in 1 .. k : v[j] = w[j]
    <3>1. \A j \in 1 .. k : j \in 1 .. n
      OBVIOUS
    <3>2. QED
      BY <1>4, <3>1
  <2>3. QED
    BY <2>2 DEF OnWire
<1>7. \A s \in view.last + 1 .. from : \A k \in n .. n + m : OnWire(v, s, k)
  <2>1. \A s \in view.last + 1 .. from : OnWire(v, s, n)
    BY <1>2, <1>6 DEF Reaches
  <2>2. QED
    BY <2>1 DEF OnWire
<1>8. \A k \in 0 .. m : \A s \in from + 1 .. from + k : OnWire(v, s, n + k)
  <2>1. ASSUME NEW k \in 0 .. m, NEW s \in from + 1 .. from + k
        PROVE  OnWire(v, s, n + k)
    <3>1. PICK i \in 1 .. m : i = s - from /\ s = from + i /\ n + i \in 1 .. n + k
      BY <2>1
    <3>2. v[n + i].id = s
      BY <1>5, <3>1
    <3>3. QED
      BY <3>1, <3>2 DEF OnWire
  <2>2. QED
    BY <2>1
<1>9. \A i \in 1 .. Len(v) : i \in 1 .. n \/ \E k \in 1 .. m : i = n + k
  <2>1. ASSUME NEW i \in 1 .. Len(v), i \notin 1 .. n PROVE i - n \in 1 .. m /\ i = n + (i - n)
    BY <1>4, <2>1
  <2>2. QED
    BY <2>1
<1>10. FramesFollowLog(v)
  <2>1. ASSUME NEW i \in 1 .. n PROVE InPlace(v, i)
    <3>1. InPlace(w, i) /\ v[i] = w[i]
      BY <1>2, <1>4, <2>1 DEF FramesFollowLog
    <3>2. i - 1 \in 0 .. n /\ \A j \in 1 .. i - 1 : v[j] = w[j]
      BY <1>4, <2>1
    <3>3. QED
      BY <1>6, <3>1, <3>2 DEF InPlace
  <2>2. ASSUME NEW i \in 1 .. m PROVE InPlace(v, n + i)
    <3>1. v[n + i].id = from + i /\ v[n + i].event = log[from + i].kind
          /\ from + i \in 1 .. Len(log)
      BY <1>5, <2>2
    <3>2. from + i \in view.last + 1 .. Len(log)
      BY <1>3, <3>1, StreamIs
    <3>3. ASSUME NEW s \in view.last + 1 .. from + i - 1 PROVE OnWire(v, s, n + i - 1)
      <4>1. CASE s <= from
        BY <1>7, <3>3, <4>1, StreamIs
      <4>2. CASE s > from
        <5>1. i - 1 \in 0 .. m /\ s \in from + 1 .. from + (i - 1) /\ n + (i - 1) = n + i - 1
          BY <3>3, <4>2, StreamIs
        <5>2. QED
          BY <1>8, <5>1
      <4>3. QED
        BY <3>3, <4>1, <4>2, StreamIs
    <3>4. ASSUME NEW j \in 1 .. n + i - 1 PROVE v[j].id < from + i
      <4>1. CASE j <= n
        <5>1. v[j] = w[j] /\ w[j] \in Frame /\ w[j].id <= from
          BY <1>2, <1>4, <3>4, <4>1, ElementOfSeq DEF Reaches
        <5>2. QED
          BY <5>1 DEF Frame
      <4>2. CASE j > n
        <5>1. j - n \in 1 .. m /\ j - n < i /\ n + (j - n) = j
          BY <3>4, <4>2
        <5>2. v[j].id = from + (j - n)
          BY <1>5, <5>1
        <5>3. QED
          BY <5>1, <5>2
      <4>3. QED
        BY <4>1, <4>2
    <3>5. from + i # 0
      BY <3>1
    <3>6. PICK k \in Nat, x \in Nat : k = n + i /\ x = from + i
      BY <2>2
    <3>7. /\ v[k].id = x /\ x # 0 /\ x \in view.last + 1 .. Len(log) /\ v[k].event = log[x].kind
          /\ \A s \in view.last + 1 .. x - 1 : OnWire(v, s, k - 1)
          /\ \A j \in 1 .. k - 1 : v[j].id < x
      BY <3>1, <3>2, <3>3, <3>4, <3>5, <3>6
    <3>8. InPlace(v, k)
      BY <3>7 DEF InPlace
    <3>9. QED
      BY <3>6, <3>8
  <2>3. QED
    BY <1>9, <2>1, <2>2 DEF FramesFollowLog
<1>11. EndFollowsCut(v)
  <2>1. ASSUME NEW i \in 1 .. Len(v), v[i].event = "end"
        PROVE  i \in 1 .. n
    <3>1. ASSUME NEW k \in 1 .. m, i = n + k PROVE FALSE
      <4>1. v[i].event = log[from + k].kind /\ log[from + k] \in Entry
        BY <1>5, <3>1, StreamIs
      <4>2. QED
        BY <2>1, <4>1 DEF Entry
    <3>2. QED
      BY <1>9, <3>1
  <2>2. ASSUME NEW i \in 1 .. n, v[i].event = "end"
        PROVE  /\ v[i].id = 0 /\ status \in Terminal
               /\ \A s \in view.last + 1 .. cut : OnWire(v, s, i - 1)
    <3>1. /\ w[i].id = 0 /\ status \in Terminal
          /\ \A s \in view.last + 1 .. cut : OnWire(w, s, i - 1)
      BY <1>2, <1>4, <2>2 DEF EndFollowsCut
    <3>2. i - 1 \in 0 .. n
      OBVIOUS
    <3>3. QED
      BY <1>4, <1>6, <3>1, <3>2
  <2>3. QED
    BY <2>1, <2>2 DEF EndFollowsCut
<1>12. Reaches(v, Len(log))
  <2>1. Len(log) \in view.last .. Len(log)
    BY <1>3, StreamIs
  <2>2. \A i \in 1 .. Len(v) : v[i].id <= Len(log)
    <3>1. \A i \in 1 .. n : w[i] \in Frame /\ w[i].id <= from
      BY <1>2, ElementOfSeq DEF Reaches
    <3>2. \A i \in 1 .. n : v[i].id <= Len(log)
      <4>1. \A k \in Nat : k <= from => k <= Len(log)
        BY <1>3, StreamIs
      <4>2. QED
        BY <1>4, <3>1, <4>1 DEF Frame
    <3>3. \A i \in 1 .. m : v[n + i].id <= Len(log)
      <4>1. \A k \in 1 .. Len(log) : k <= Len(log)
        BY StreamIs
      <4>2. QED
        BY <1>5, <4>1
    <3>4. QED
      BY <1>9, <3>2, <3>3
  <2>3. \A s \in view.last + 1 .. Len(log) : OnWire(v, s, Len(v))
    <3>1. \A s \in view.last + 1 .. Len(log) : s \in view.last + 1 .. from \/ s \in from + 1 .. from + m
      <4>1. PICK z \in Nat, y \in Nat : z = Len(log) /\ y = view.last
        BY StreamIs
      <4>2. z = from + m
        BY <1>3, <4>1
      <4>3. QED
        BY <4>1, <4>2
    <3>2. n + m \in n .. n + m /\ m \in 0 .. m /\ Len(v) = n + m
      BY <1>4
    <3>3. QED
      BY <1>7, <1>8, <3>1, <3>2
  <2>4. QED
    BY <2>1, <2>2, <2>3 DEF Reaches
<1>13. QED
  BY <1>1, <1>10, <1>11, <1>12

\* A frame without an id: a status, or the end when all is on its way.
LEMMA NoticeSent ==
  ASSUME LogInv, StreamInv, NEW w \in Seq(Frame), NEW f \in Frame, f.id = 0,
         FramesFollowLog(w), EndFollowsCut(w),
         \/ f.event = "status"
         \/ f.event = "end" /\ status \in Terminal /\ CutIsInLog /\ Reaches(w, Len(log))
  PROVE  LET v == Append(w, f)
         IN  /\ v \in Seq(Frame) /\ FramesFollowLog(v) /\ EndFollowsCut(v)
             /\ \A upto \in Nat : Reaches(w, upto) => Reaches(v, upto)
<1>1. PICK v \in Seq(Frame) : v = Append(w, f)
  BY AppendProperties
<1>2. PICK n \in Nat : n = Len(w)
  BY LenProperties
<1>3. Len(v) = n + 1 /\ v[n + 1] = f /\ \A i \in 1 .. n : v[i] = w[i]
  BY <1>1, <1>2, AppendProperties
<1>4. \A s : \A k \in 0 .. n : OnWire(v, s, k) <=> OnWire(w, s, k)
  <2>1. SUFFICES ASSUME NEW s, NEW k \in 0 .. n PROVE OnWire(v, s, k) <=> OnWire(w, s, k)
    OBVIOUS
  <2>2. \A j \in 1 .. k : v[j] = w[j]
    <3>1. \A j \in 1 .. k : j \in 1 .. n
      OBVIOUS
    <3>2. QED
      BY <1>3, <3>1
  <2>3. QED
    BY <2>2 DEF OnWire
<1>5. \A i \in 1 .. Len(v) : i \in 1 .. n \/ i = n + 1
  BY <1>3
<1>6. FramesFollowLog(v)
  <2>1. ASSUME NEW i \in 1 .. n PROVE InPlace(v, i)
    BY <1>2, <1>3, <1>4, <2>1 DEF FramesFollowLog, InPlace
  <2>2. InPlace(v, n + 1)
    BY <1>3 DEF InPlace
  <2>3. QED
    BY <1>5, <2>1, <2>2 DEF FramesFollowLog
<1>7. EndFollowsCut(v)
  <2>1. ASSUME NEW i \in 1 .. n, v[i].event = "end"
        PROVE  /\ v[i].id = 0 /\ status \in Terminal
               /\ \A s \in view.last + 1 .. cut : OnWire(v, s, i - 1)
    BY <1>2, <1>3, <1>4, <2>1 DEF EndFollowsCut
  <2>2. ASSUME f.event = "end"
        PROVE  status \in Terminal /\ \A s \in view.last + 1 .. cut : OnWire(v, s, n)
    <3>1. \A s \in view.last + 1 .. cut : s \in view.last + 1 .. Len(log)
      BY <2>2, StreamIs DEF CutIsInLog
    <3>2. QED
      BY <1>2, <1>4, <2>2, <3>1 DEF Reaches
  <2>3. QED
    BY <1>3, <1>5, <2>1, <2>2 DEF EndFollowsCut
<1>8. ASSUME NEW upto \in Nat, Reaches(w, upto) PROVE Reaches(v, upto)
  <2>1. \A i \in 1 .. Len(v) : v[i].id <= upto
    BY <1>2, <1>3, <1>5, <1>8 DEF Reaches
  <2>2. \A s \in view.last + 1 .. upto : OnWire(v, s, Len(v))
    <3>1. \A s \in view.last + 1 .. upto : OnWire(v, s, n)
      BY <1>2, <1>4, <1>8 DEF Reaches
    <3>2. QED
      BY <1>3, <3>1 DEF OnWire
  <2>3. QED
    BY <1>8, <2>1, <2>2 DEF Reaches
<1>9. QED
  BY <1>1, <1>6, <1>7, <1>8

-----------------------------------------------------------------------------
(* The stream: its steps. *)

\* What a step of the stream leaves alone.
LEMMA StreamTypes ==
  ASSUME LogInv, UNCHANGED <<logVars, watched>>,
         faults' \in 0 .. MaxFaults,
         tail' \in [pc : {"none", "flush", "read", "drain"}, cursor : Nat,
                   status : Live \cup Terminal \cup {"none"}],
         view' \in [feed : Seq([seq : Nat, kind : {"feed", "status"}]), last : Nat,
                   status : Live \cup Terminal \cup {"none", "reported"},
                   closed : {"no", "end", "missing"}]
  PROVE  LogInv'
  BY DEF LogInv, LogTypeOK, PaceOfCalls, Over, logVars

\* A step that only sends.
LEMMA SendingKeeps ==
  ASSUME LogInv, StreamInv, UNCHANGED <<logVars, view>>, NEW v \in Seq(Frame), wire' = v,
         status # "gone" =>
           /\ FramesFollowLog(v) /\ EndFollowsCut(v)
           /\ tail'.pc # "none" =>
                Reaches(v, tail'.cursor) /\ (tail'.pc = "drain" => status \in Terminal)
  PROVE  StreamInv'
<1>1. \A w, s, n : OnWire(w, s, n)' <=> OnWire(w', s, n)
  BY DEF OnWire
<1>2. SUFFICES ASSUME status # "gone" PROVE Followed'
  BY DEF StreamInv, logVars
<1>3. Followed
  BY <1>2 DEF StreamInv
<1>4. QED
  BY <1>1, <1>2, <1>3 DEF Followed, FramesFollowLog, InPlace, EndFollowsCut, TailFollowsLog, Reaches,
     CutIsInLog, EndIsSeen, FeedFollowsLog, OnWire, logVars

LEMMA FlushKeeps == ASSUME LogInv, StreamInv, Flush PROVE LogInv' /\ StreamInv'
<1>1. PICK from \in Nat : from = tail.cursor
  BY StreamIs
<1>2. PICK v : v = wire \o NewFrames(from)
  OBVIOUS
<1>3. /\ tail.pc = "flush" /\ wire' = v /\ UNCHANGED <<logVars, watched, view, faults>>
      /\ tail' = [tail EXCEPT !.pc = "read",
                             !.cursor = IF Len(log) > from THEN Len(log) ELSE from]
  BY <1>1, <1>2 DEF Flush, NewFrames
<1>4. v \in Seq(Frame)
  BY <1>2, FramesOfLog, ConcatProperties DEF StreamInv
<1>5. tail'.pc = "read" /\ tail'.cursor = IF Len(log) > from THEN Len(log) ELSE from
  BY <1>3 DEF LogInv, LogTypeOK
<1>6. LogInv'
  <2>1. tail' \in [pc : {"none", "flush", "read", "drain"}, cursor : Nat,
                  status : Live \cup Terminal \cup {"none"}]
    BY <1>3, StreamIs DEF LogInv, LogTypeOK
  <2>2. QED
    BY <1>3, <2>1, StreamTypes DEF LogInv, LogTypeOK
<1>7. ASSUME status # "gone"
      PROVE  FramesFollowLog(v) /\ EndFollowsCut(v) /\ Reaches(v, tail'.cursor)
  <2>1. FramesFollowLog(wire) /\ EndFollowsCut(wire) /\ Reaches(wire, from)
    BY <1>1, <1>3, <1>7 DEF StreamInv, Followed, TailFollowsLog
  <2>2. tail'.cursor = Len(log)
    BY <1>5, <2>1, StreamIs DEF Reaches
  <2>3. QED
    BY <1>2, <2>1, <2>2, EventsSent DEF StreamInv
<1>8. QED
  BY <1>3, <1>4, <1>5, <1>6, <1>7, SendingKeeps

LEMMA ReadRunKeeps == ASSUME LogInv, StreamInv, ReadRun PROVE LogInv' /\ StreamInv'
<1>1. tail.pc = "read" /\ UNCHANGED <<logVars, watched, view, faults>>
  BY DEF ReadRun
<1>2. CASE status = "gone"
  <2>1. tail' = NoTail /\ wire' = wire
    BY <1>2 DEF ReadRun
  <2>2. LogInv'
    BY <1>1, <2>1, StreamTypes DEF LogInv, LogTypeOK, NoTail
  <2>3. QED
    BY <1>1, <1>2, <2>1, <2>2, SendingKeeps DEF StreamInv
<1>3. CASE status # "gone"
  <2>1. status \in Live \cup Terminal
    BY <1>3 DEF LogInv, LogTypeOK
  <2>2. /\ tail' = [tail EXCEPT !.status = status,
                               !.pc = IF status \in Terminal THEN "drain" ELSE "flush"]
        /\ wire' = IF status = tail.status THEN wire ELSE Append(wire, StatusFrame)
    BY <1>3 DEF ReadRun
  <2>3. LogInv'
    <3>1. tail' \in [pc : {"none", "flush", "read", "drain"}, cursor : Nat,
                    status : Live \cup Terminal \cup {"none"}]
      BY <2>1, <2>2 DEF LogInv, LogTypeOK
    <3>2. QED
      BY <1>1, <3>1, StreamTypes DEF LogInv, LogTypeOK
  <2>4. PICK from \in Nat : from = tail.cursor /\ tail'.cursor = from
    BY <2>2, StreamIs DEF LogInv, LogTypeOK
  <2>5. tail'.pc = "drain" => status \in Terminal
    BY <2>2 DEF LogInv, LogTypeOK
  <2>6. FramesFollowLog(wire) /\ EndFollowsCut(wire) /\ Reaches(wire, from) /\ wire \in Seq(Frame)
    BY <1>1, <1>3, <2>4 DEF StreamInv, Followed, TailFollowsLog
  <2>7. CASE wire' = wire
    BY <1>1, <2>3, <2>4, <2>5, <2>6, <2>7, SendingKeeps
  <2>8. CASE wire' = Append(wire, StatusFrame)
    <3>1. PICK f \in Frame : f = StatusFrame /\ f.id = 0 /\ f.event = "status"
      <4>1. StatusFrame \in Frame
        BY <2>1 DEF StatusFrame, Frame
      <4>2. StatusFrame.id = 0 /\ StatusFrame.event = "status"
        BY DEF StatusFrame
      <4>3. QED
        BY <4>1, <4>2
    <3>2. PICK v \in Seq(Frame) : v = Append(wire, f)
      BY <2>6, AppendProperties
    <3>3. FramesFollowLog(v) /\ EndFollowsCut(v) /\ Reaches(v, from)
      BY <2>6, <3>1, <3>2, NoticeSent
    <3>4. QED
      BY <1>1, <2>3, <2>4, <2>5, <2>8, <3>1, <3>2, <3>3, SendingKeeps
  <2>9. QED
    BY <2>2, <2>7, <2>8
<1>4. QED
  BY <1>2, <1>3

LEMMA DrainKeeps == ASSUME LogInv, StreamInv, Drain PROVE LogInv' /\ StreamInv'
<1>1. PICK from \in Nat : from = tail.cursor
  BY StreamIs
<1>2. PICK v \in Seq(Frame) : v = wire \o NewFrames(from)
  BY <1>1, FramesOfLog, ConcatProperties DEF StreamInv
<1>3. PICK f \in Frame : f = EndFrame /\ f.id = 0 /\ f.event = "end"
  <2>1. tail.status \in Live \cup Terminal \cup {"none"}
    BY DEF LogInv, LogTypeOK
  <2>2. EndFrame \in Frame
    BY <2>1 DEF EndFrame, Frame
  <2>3. EndFrame.id = 0 /\ EndFrame.event = "end"
    BY DEF EndFrame
  <2>4. QED
    BY <2>2, <2>3
<1>4. PICK u \in Seq(Frame) : u = Append(v, f)
  BY <1>2, AppendProperties
<1>5. wire' = u
  <2>1. wire' = v \o <<f>>
    BY <1>1, <1>2, <1>3 DEF Drain, NewFrames
  <2>2. QED
    BY <1>2, <1>4, <2>1, AppendIsConcat
<1>6. tail.pc = "drain" /\ tail' = NoTail /\ UNCHANGED <<logVars, watched, view, faults>>
  BY DEF Drain
<1>7. LogInv'
  BY <1>6, StreamTypes DEF LogInv, LogTypeOK, NoTail
<1>8. ASSUME status # "gone" PROVE FramesFollowLog(u) /\ EndFollowsCut(u)
  <2>1. /\ FramesFollowLog(wire) /\ EndFollowsCut(wire) /\ Reaches(wire, from)
        /\ CutIsInLog /\ status \in Terminal
    BY <1>1, <1>6, <1>8 DEF StreamInv, Followed, TailFollowsLog
  <2>2. FramesFollowLog(v) /\ EndFollowsCut(v) /\ Reaches(v, Len(log))
    BY <1>2, <2>1, EventsSent DEF StreamInv
  <2>3. QED
    BY <1>3, <1>4, <2>1, <2>2, NoticeSent
<1>9. QED
  BY <1>5, <1>6, <1>7, <1>8, SendingKeeps DEF NoTail

LEMMA ConnectKeeps == ASSUME LogInv, StreamInv, Connect PROVE LogInv' /\ StreamInv'
<1>1. wire = << >> /\ wire' = wire /\ UNCHANGED <<logVars, watched, faults>> /\ Len(wire) = 0
  BY DEF Connect
<1>2. CASE status = "gone"
  <2>1. view' = [view EXCEPT !.closed = "missing"] /\ tail' = tail
    BY <1>2 DEF Connect
  <2>2. LogInv'
    BY <1>1, <2>1, StreamTypes DEF LogInv, LogTypeOK
  <2>3. QED
    BY <1>1, <1>2, <2>2 DEF StreamInv, logVars
<1>3. CASE status # "gone"
  <2>1. tail' = [pc |-> "flush", cursor |-> view.last, status |-> "none"] /\ view' = view
    BY <1>3 DEF Connect
  <2>2. LogInv'
    BY <1>1, <2>1, StreamIs, StreamTypes DEF LogInv, LogTypeOK
  <2>3. Followed
    BY <1>3 DEF StreamInv
  <2>4. Reaches(wire, view.last)
    BY <1>1, <2>3, StreamIs DEF Reaches, Followed, FeedFollowsLog
  <2>5. QED
    BY <1>1, <1>3, <2>1, <2>2, <2>3, <2>4, SendingKeeps DEF Followed, StreamInv
<1>4. QED
  BY <1>2, <1>3

LEMMA DisconnectKeeps == ASSUME LogInv, StreamInv, Disconnect PROVE LogInv' /\ StreamInv'
<1>1. tail' = NoTail /\ wire' = << >> /\ UNCHANGED <<logVars, watched, view>> /\ Fault("disconnect")
  BY DEF Disconnect
<1>2. LogInv'
  BY <1>1, StreamTypes, FaultCounts DEF LogInv, LogTypeOK, NoTail
<1>3. << >> \in Seq(Frame) /\ Len(<< >>) = 0
  BY EmptySeq
<1>4. FramesFollowLog(<< >>) /\ EndFollowsCut(<< >>)
  BY <1>3 DEF FramesFollowLog, EndFollowsCut
<1>5. QED
  BY <1>1, <1>2, <1>3, <1>4, SendingKeeps DEF NoTail

-----------------------------------------------------------------------------
(* The browser. *)

FeedEntry == [seq : Nat, kind : {"feed", "status"}]

LastSeen == IF Head(wire).id = 0 THEN view.last ELSE Head(wire).id

LEMMA WireIs ==
  ASSUME LogInv, StreamInv, wire # << >>
  PROVE  /\ Head(wire) \in Frame /\ Head(wire) = wire[1] /\ 1 \in 1 .. Len(wire)
         /\ Tail(wire) \in Seq(Frame) /\ Len(Tail(wire)) = Len(wire) - 1
         /\ \A i \in 1 .. Len(Tail(wire)) : i + 1 \in 1 .. Len(wire) /\ Tail(wire)[i] = wire[i + 1]
         /\ LastSeen \in Nat
<1>1. /\ wire \in Seq(Frame) /\ Head(wire) \in Frame /\ Tail(wire) \in Seq(Frame)
      /\ Len(Tail(wire)) = Len(wire) - 1
      /\ \A i \in 1 .. Len(Tail(wire)) : Tail(wire)[i] = wire[i + 1]
  BY HeadTailProperties DEF StreamInv
<1>2. Len(wire) \in Nat \ {0}
  BY <1>1, EmptySeq
<1>3. Head(wire) = wire[1]
  OBVIOUS
<1>4. LastSeen \in Nat
  BY <1>1, StreamIs DEF LastSeen, Frame
<1>5. QED
  BY <1>1, <1>2, <1>3, <1>4

\* What Receive makes of the feed: nothing, or one entry for the last event.
LEMMA ReceiveIs ==
  ASSUME LogInv, StreamInv, Receive
  PROVE  /\ wire # << >> /\ wire' = Tail(wire) /\ UNCHANGED <<logVars, watched, tail, faults>>
         /\ view'.last = LastSeen \/ (Head(wire).event = "end" /\ view'.last = view.last)
         /\ \/ view'.feed = view.feed /\ Head(wire).event # "feed"
            \/ \E kind \in {"feed", "status"} :
                 /\ view'.feed = Append(view.feed, [seq |-> LastSeen, kind |-> kind])
                 /\ Head(wire).event = kind /\ ~Seen(LastSeen) /\ LastSeen # 0
            \/ Head(wire).event = "feed" /\ (Seen(LastSeen) \/ LastSeen = 0)
         /\ view'.closed = view.closed \/ (Head(wire).event = "end" /\ view'.closed = "end")
         /\ view' \in [feed : Seq(FeedEntry), last : Nat,
                      status : Live \cup Terminal \cup {"none", "reported"},
                      closed : {"no", "end", "missing"}]
<1>1. wire # << >> /\ wire' = Tail(wire) /\ UNCHANGED <<logVars, watched, tail, faults>>
  BY DEF Receive
<1>2. PICK f \in Frame, last \in Nat : f = Head(wire) /\ last = LastSeen
  BY <1>1, WireIs
<1>3. view \in [feed : Seq(FeedEntry), last : Nat,
               status : Live \cup Terminal \cup {"none", "reported"},
               closed : {"no", "end", "missing"}]
  BY DEF LogInv, LogTypeOK, FeedEntry
<1>4. \A kind \in {"feed", "status"} :
        /\ Shown(last, kind) \in Seq(FeedEntry)
        /\ IF Seen(last) THEN Shown(last, kind) = view.feed
           ELSE Shown(last, kind) = Append(view.feed, [seq |-> last, kind |-> kind])
  <2>1. \A kind \in {"feed", "status"} : [seq |-> last, kind |-> kind] \in FeedEntry
    BY DEF FeedEntry
  <2>2. QED
    BY <1>3, <2>1, AppendProperties DEF Shown
<1>5. CASE f.event = "feed"
  <2>1. view' = [view EXCEPT !.last = last, !.feed = Shown(last, "feed")]
    BY <1>2, <1>5 DEF Receive, LastSeen
  <2>2. /\ view'.last = last /\ view'.feed = Shown(last, "feed") /\ view'.closed = view.closed
        /\ view' \in [feed : Seq(FeedEntry), last : Nat,
                     status : Live \cup Terminal \cup {"none", "reported"},
                     closed : {"no", "end", "missing"}]
    BY <1>3, <1>4, <2>1
  <2>3. QED
    BY <1>1, <1>2, <1>4, <1>5, <2>2
<1>6. CASE f.event = "status"
  <2>1. view' = [view EXCEPT !.last = last, !.status = f.status,
                             !.feed = IF last = 0 THEN @ ELSE Shown(last, "status")]
    BY <1>2, <1>6 DEF Receive, LastSeen
  <2>2. f.status \in Live \cup Terminal \cup {"none", "reported"}
    BY DEF Frame
  <2>3. /\ view'.last = last /\ view'.closed = view.closed
        /\ view'.feed = IF last = 0 THEN view.feed ELSE Shown(last, "status")
        /\ view' \in [feed : Seq(FeedEntry), last : Nat,
                     status : Live \cup Terminal \cup {"none", "reported"},
                     closed : {"no", "end", "missing"}]
    BY <1>3, <1>4, <2>1, <2>2
  <2>4. QED
    BY <1>1, <1>2, <1>4, <1>6, <2>3
<1>7. CASE f.event = "end"
  <2>1. view' = [view EXCEPT !.closed = "end"]
    BY <1>2, <1>7 DEF Receive
  <2>2. QED
    BY <1>1, <1>2, <1>3, <1>7, <2>1
<1>8. CASE f.event = "plugins"
  <2>1. view' = [view EXCEPT !.last = last]
    BY <1>2, <1>8 DEF Receive, LastSeen
  <2>2. QED
    BY <1>1, <1>2, <1>3, <1>8, <2>1
<1>9. QED
  BY <1>5, <1>6, <1>7, <1>8 DEF Frame

\* The next event is at the head, so nothing is missed.
LEMMA NextAtHead ==
  ASSUME LogInv, StreamInv, status # "gone", wire # << >>
  PROVE  /\ Head(wire).id # 0 =>
              /\ LastSeen = view.last + 1 /\ LastSeen <= Len(log)
              /\ Head(wire).event = log[LastSeen].kind
         /\ Head(wire).id = 0 => LastSeen = view.last /\ Head(wire).event \in {"status", "end"}
         /\ Head(wire).event = "end" => Head(wire).id = 0 /\ status \in Terminal /\ view.last >= cut
<1>1. PICK f \in Frame : f = Head(wire) /\ f = wire[1]
  BY WireIs
<1>2. \A s : ~OnWire(wire, s, 0)
  BY DEF OnWire
<1>3. InPlace(wire, 1)
  BY WireIs DEF StreamInv, Followed, FramesFollowLog
<1>4. ASSUME f.id # 0
      PROVE  LastSeen = view.last + 1 /\ LastSeen <= Len(log) /\ f.event = log[LastSeen].kind
  <2>1. f.id \in view.last + 1 .. Len(log) /\ f.event = log[f.id].kind
    BY <1>1, <1>3, <1>4 DEF InPlace
  <2>2. ~(view.last + 1 \in view.last + 1 .. f.id - 1)
    BY <1>1, <1>2, <1>3, <1>4 DEF InPlace
  <2>3. f.id = view.last + 1
    BY <2>1, <2>2, StreamIs DEF Frame
  <2>4. QED
    BY <1>1, <1>4, <2>1, <2>3, StreamIs DEF LastSeen
<1>5. f.id = 0 => LastSeen = view.last /\ f.event \in {"status", "end"}
  BY <1>1, <1>3 DEF InPlace, LastSeen
<1>6. ASSUME f.event = "end" PROVE f.id = 0 /\ status \in Terminal /\ view.last >= cut
  <2>1. /\ f.id = 0 /\ status \in Terminal
        /\ \A s \in view.last + 1 .. cut : OnWire(wire, s, 0)
    BY <1>1, <1>6, WireIs DEF StreamInv, Followed, EndFollowsCut
  <2>2. ~(view.last + 1 \in view.last + 1 .. cut)
    BY <1>2, <2>1
  <2>3. QED
    BY <2>1, <2>2, StreamIs
<1>7. QED
  BY <1>1, <1>4, <1>5, <1>6

\* The frames behind the head, for a browser that has taken the head.
LEMMA TailKeeps ==
  ASSUME LogInv, StreamInv, status # "gone", Receive
  PROVE  FramesFollowLog(wire)' /\ EndFollowsCut(wire)' /\ TailFollowsLog'
<1>1. /\ wire # << >> /\ wire' = Tail(wire) /\ UNCHANGED <<logVars, watched, tail, faults>>
      /\ Followed
  BY ReceiveIs DEF StreamInv
<1>2. PICK t \in Seq(Frame), m \in Nat : t = Tail(wire) /\ m = Len(t) /\ m + 1 = Len(wire)
  <2>1. Tail(wire) \in Seq(Frame) /\ Len(Tail(wire)) = Len(wire) - 1 /\ 1 \in 1 .. Len(wire)
    BY <1>1, WireIs
  <2>2. Len(wire) - 1 \in Nat /\ (Len(wire) - 1) + 1 = Len(wire)
    BY <2>1, StreamIs
  <2>3. QED
    BY <2>1, <2>2
<1>3. \A i \in 1 .. m : t[i] = wire[i + 1] /\ t[i] \in Frame /\ wire[i + 1] \in Frame
                        /\ i + 1 \in 1 .. Len(wire)
  BY <1>1, <1>2, WireIs, ElementOfSeq
<1>4. PICK f \in Frame, last \in Nat, old \in Nat :
        f = wire[1] /\ f = Head(wire) /\ last = LastSeen /\ old = view.last
  BY <1>1, WireIs, StreamIs
<1>5. /\ f.id # 0 => last = old + 1 /\ f.id = last
      /\ f.id = 0 => last = old
      /\ view'.last = last
  BY <1>1, <1>4, NextAtHead, ReceiveIs DEF LastSeen
<1>6. ASSUME NEW s \in last + 1 .. Len(log) + cut + 1, NEW n \in 0 .. m, OnWire(wire, s, n + 1)
      PROVE  OnWire(t, s, n)
  <2>1. PICK j \in 1 .. n + 1 : wire[j].id = s
    BY <1>6 DEF OnWire
  <2>2. j # 1
    BY <1>4, <1>5, <2>1, <1>6, StreamIs
  <2>3. PICK k \in 1 .. n : j = k + 1
    <3>1. j - 1 \in 1 .. n /\ j = (j - 1) + 1
      BY <2>1, <2>2
    <3>2. QED
      BY <3>1
  <2>4. t[k].id = s
    BY <1>3, <2>1, <2>3
  <2>5. QED
    BY <2>3, <2>4 DEF OnWire
<1>7. ASSUME NEW i \in 1 .. m
      PROVE  /\ t[i].id # 0 =>
                  /\ t[i].id \in last + 1 .. Len(log)
                  /\ t[i].event = log[t[i].id].kind
                  /\ \A s \in last + 1 .. t[i].id - 1 : OnWire(t, s, i - 1)
                  /\ \A j \in 1 .. i - 1 : t[j].id < t[i].id
             /\ t[i].id = 0 => t[i].event \in {"status", "end"}
  <2>1. PICK x \in Nat, k \in 1 .. Len(wire) :
          x = t[i].id /\ k = i + 1 /\ t[i] = wire[k] /\ wire[k].id = x
    BY <1>3, <1>7 DEF Frame
  <2>2. InPlace(wire, k)
    BY <1>1, <2>1 DEF Followed, FramesFollowLog
  <2>3. CASE x = 0
    BY <2>1, <2>2, <2>3 DEF InPlace
  <2>4. CASE x # 0
    <3>1. /\ x \in old + 1 .. Len(log) /\ t[i].event = log[x].kind
          /\ \A s \in old + 1 .. x - 1 : OnWire(wire, s, k - 1)
          /\ \A j \in 1 .. k - 1 : wire[j].id < x
      BY <1>4, <2>1, <2>2, <2>4 DEF InPlace
    <3>2. f.id < x
      BY <1>4, <2>1, <3>1
    <3>3. x \in last + 1 .. Len(log)
      BY <1>5, <3>1, <3>2, StreamIs DEF Frame
    <3>4. ASSUME NEW s \in last + 1 .. x - 1 PROVE OnWire(t, s, i - 1)
      <4>1. s \in old + 1 .. x - 1 /\ s \in last + 1 .. Len(log) + cut + 1
        BY <1>5, <3>3, <3>4, StreamIs
      <4>2. OnWire(wire, s, (i - 1) + 1) /\ i - 1 \in 0 .. m
        BY <2>1, <3>1, <4>1
      <4>3. QED
        BY <1>6, <4>1, <4>2
    <3>5. ASSUME NEW j \in 1 .. i - 1 PROVE t[j].id < x
      <4>1. j \in 1 .. m /\ j + 1 \in 1 .. k - 1
        BY <2>1, <3>5
      <4>2. QED
        BY <1>3, <3>1, <4>1
    <3>6. QED
      BY <2>1, <2>4, <3>1, <3>3, <3>4, <3>5
  <2>5. QED
    BY <2>3, <2>4
<1>8. \A s, n : OnWire(wire, s, n)' <=> OnWire(t, s, n)
  BY <1>1, <1>2 DEF OnWire
<1>9. log' = log /\ status' = status /\ cut' = cut /\ tail' = tail /\ wire' = t
  BY <1>1, <1>2 DEF logVars
<1>10. FramesFollowLog(wire)'
  BY <1>2, <1>5, <1>7, <1>8, <1>9 DEF FramesFollowLog, InPlace
<1>11. EndFollowsCut(wire)'
  <2>1. ASSUME NEW i \in 1 .. m, t[i].event = "end"
        PROVE  /\ t[i].id = 0 /\ status \in Terminal
               /\ \A s \in last + 1 .. cut : OnWire(t, s, i - 1)
    <3>1. /\ t[i].id = 0 /\ status \in Terminal
          /\ \A s \in old + 1 .. cut : OnWire(wire, s, i)
      BY <1>1, <1>3, <1>4, <2>1 DEF Followed, EndFollowsCut
    <3>2. ASSUME NEW s \in last + 1 .. cut PROVE OnWire(t, s, i - 1)
      <4>1. s \in old + 1 .. cut /\ s \in last + 1 .. Len(log) + cut + 1
        BY <1>5, <3>2, StreamIs
      <4>2. OnWire(wire, s, (i - 1) + 1) /\ i - 1 \in 0 .. m
        BY <3>1, <4>1
      <4>3. QED
        BY <1>6, <4>1, <4>2
    <3>3. QED
      BY <3>1, <3>2
  <2>2. QED
    BY <1>2, <1>5, <1>8, <1>9, <2>1 DEF EndFollowsCut
<1>12. TailFollowsLog'
  <2>1. ASSUME NEW upto \in Nat, Reaches(wire, upto)
        PROVE  /\ upto \in last .. Len(log)
               /\ \A i \in 1 .. m : t[i].id <= upto
               /\ \A s \in last + 1 .. upto : OnWire(t, s, m)
    <3>1. /\ upto \in old .. Len(log) /\ \A i \in 1 .. Len(wire) : wire[i].id <= upto
          /\ \A s \in old + 1 .. upto : OnWire(wire, s, m + 1)
      BY <1>2, <1>4, <2>1 DEF Reaches
    <3>2. upto \in last .. Len(log)
      <4>1. f.id <= upto
        BY <1>2, <1>4, <3>1
      <4>2. QED
        BY <1>5, <3>1, <4>1, StreamIs
    <3>3. ASSUME NEW s \in last + 1 .. upto PROVE OnWire(t, s, m)
      <4>1. s \in old + 1 .. upto /\ s \in last + 1 .. Len(log) + cut + 1
        BY <1>5, <3>2, <3>3, StreamIs
      <4>2. QED
        BY <1>6, <3>1, <4>1
    <3>4. QED
      BY <1>3, <3>1, <3>2, <3>3
  <2>2. tail.pc # "none" => Reaches(wire, tail.cursor) /\ (tail.pc = "drain" => status \in Terminal)
    BY <1>1 DEF Followed, TailFollowsLog
  <2>3. QED
    BY <1>2, <1>5, <1>8, <1>9, <2>1, <2>2, StreamIs DEF TailFollowsLog, Reaches
<1>13. QED
  BY <1>10, <1>11, <1>12

\* What the browser has taken.
LEMMA FeedKeeps ==
  ASSUME LogInv, StreamInv, status # "gone", Receive
  PROVE  FeedFollowsLog' /\ EndIsSeen' /\ CutIsInLog'
<1>1. wire # << >> /\ UNCHANGED logVars /\ Followed
  BY ReceiveIs DEF StreamInv
<1>2. PICK last \in Nat, old \in Nat, size \in Nat :
        last = LastSeen /\ old = view.last /\ size = Len(log)
  BY <1>1, WireIs, StreamIs
<1>3. /\ Head(wire).id # 0 => last = old + 1 /\ last <= size /\ Head(wire).event = log[last].kind
      /\ Head(wire).id = 0 => last = old /\ Head(wire).event \in {"status", "end"}
      /\ old <= size /\ last <= size /\ old <= last
      /\ view'.last = last
  BY <1>1, <1>2, NextAtHead, ReceiveIs, StreamIs DEF Followed, FeedFollowsLog
<1>4. (EndIsSeen /\ CutIsInLog)'
  <2>1. view.closed = "end" => status \in Terminal /\ view.last >= cut
    BY <1>1 DEF Followed, EndIsSeen
  <2>2. Head(wire).event = "end" => status \in Terminal /\ view.last >= cut
    BY <1>1, NextAtHead
  <2>3. view'.closed = "end" => view.closed = "end" \/ Head(wire).event = "end"
    BY ReceiveIs
  <2>4. UNCHANGED <<log, status, cut>>
    BY <1>1 DEF logVars
  <2>5. view'.closed = "end" => status \in Terminal /\ view'.last >= cut
    BY <1>2, <1>3, <2>1, <2>2, <2>3, StreamIs
  <2>6. QED
    BY <1>1, <2>4, <2>5 DEF Followed, EndIsSeen, CutIsInLog
<1>5. PICK feed \in Seq(FeedEntry), n \in Nat : feed = view.feed /\ n = Len(feed)
  BY LenProperties DEF LogInv, LogTypeOK, FeedEntry
<1>6. /\ \A i \in 1 .. n :
           /\ feed[i].seq \in 1 .. old
           /\ feed[i].kind = "feed" => log[feed[i].seq].kind = "feed"
      /\ \A s \in 1 .. old : log[s].kind = "feed" =>
           \E i \in 1 .. n : feed[i].kind = "feed" /\ feed[i].seq = s
      /\ \A j \in 1 .. n : \A i \in 1 .. j - 1 :
           feed[i].kind = "feed" /\ feed[j].kind = "feed" => feed[i].seq < feed[j].seq
  BY <1>1, <1>2, <1>5 DEF Followed, FeedFollowsLog
<1>7. \A s \in 1 .. last : s \in 1 .. old \/ (s = last /\ last = old + 1 /\ Head(wire).id # 0)
  BY <1>3
<1>8. log' = log
  BY <1>1 DEF logVars
<1>9. CASE view'.feed = feed /\ Head(wire).event # "feed"
  <2>1. \A s \in 1 .. last : log[s].kind = "feed" => s \in 1 .. old
    BY <1>3, <1>7, <1>9
  <2>2. QED
    BY <1>2, <1>3, <1>4, <1>5, <1>6, <1>8, <1>9, <2>1 DEF FeedFollowsLog
<1>10. ASSUME NEW kind \in {"feed", "status"}, LastSeen # 0,
              view'.feed = Append(feed, [seq |-> LastSeen, kind |-> kind]), Head(wire).event = kind
       PROVE  FeedFollowsLog'
  <2>1. PICK e \in FeedEntry : e = [seq |-> last, kind |-> kind] /\ e.seq = last /\ e.kind = kind
    <3>1. [seq |-> last, kind |-> kind] \in FeedEntry
      BY DEF FeedEntry
    <3>2. QED
      BY <3>1
  <2>2. PICK g \in Seq(FeedEntry) : g = view'.feed /\ g = Append(feed, e)
    BY <1>2, <1>10, <2>1, AppendProperties
  <2>3. Len(g) = n + 1 /\ g[n + 1] = e /\ \A i \in 1 .. n : g[i] = feed[i]
    BY <1>5, <2>2, AppendProperties
  <2>4. last # 0 /\ (kind = "feed" => last = old + 1 /\ log[last].kind = "feed")
    BY <1>2, <1>3, <1>10
  <2>5. ASSUME NEW i \in 1 .. n + 1
        PROVE  /\ g[i].seq \in 1 .. last
               /\ g[i].kind = "feed" => log[g[i].seq].kind = "feed"
    <3>1. CASE i \in 1 .. n
      <4>1. g[i].seq \in 1 .. old /\ (g[i].kind = "feed" => log[g[i].seq].kind = "feed")
        BY <1>6, <2>3, <3>1
      <4>2. \A s \in 1 .. old : s \in 1 .. last
        BY <1>3
      <4>3. QED
        BY <4>1, <4>2
    <3>2. CASE i = n + 1
      BY <2>1, <2>3, <2>4, <3>2
    <3>3. QED
      BY <2>5, <3>1, <3>2
  <2>6. ASSUME NEW s \in 1 .. last, log[s].kind = "feed"
        PROVE  \E i \in 1 .. n + 1 : g[i].kind = "feed" /\ g[i].seq = s
    <3>1. CASE s \in 1 .. old
      <4>1. PICK i \in 1 .. n : feed[i].kind = "feed" /\ feed[i].seq = s
        BY <1>6, <2>6, <3>1
      <4>2. QED
        BY <2>3, <4>1
    <3>2. CASE s = last /\ last = old + 1 /\ Head(wire).id # 0
      <4>1. kind = "feed"
        BY <1>3, <1>10, <2>6, <3>2
      <4>2. g[n + 1].kind = "feed" /\ g[n + 1].seq = s
        BY <2>1, <2>3, <3>2, <4>1
      <4>3. QED
        BY <4>2
    <3>3. QED
      BY <1>7, <2>6, <3>1, <3>2
  <2>7. ASSUME NEW j \in 1 .. n + 1, NEW i \in 1 .. j - 1, g[i].kind = "feed", g[j].kind = "feed"
        PROVE  g[i].seq < g[j].seq
    <3>1. i \in 1 .. n /\ g[i] = feed[i]
      BY <2>3, <2>7
    <3>2. CASE j \in 1 .. n
      BY <1>6, <2>3, <2>7, <3>1, <3>2
    <3>3. CASE j = n + 1
      <4>1. g[j].seq = old + 1
        BY <2>1, <2>3, <2>4, <2>7, <3>3
      <4>2. g[i].seq \in 1 .. old
        BY <1>6, <3>1
      <4>3. QED
        BY <4>1, <4>2
    <3>4. QED
      BY <2>7, <3>2, <3>3
  <2>8. QED
    BY <1>2, <1>3, <1>8, <2>2, <2>3, <2>5, <2>6, <2>7 DEF FeedFollowsLog
<1>11. CASE Head(wire).event = "feed" /\ (Seen(LastSeen) \/ LastSeen = 0)
  <2>1. last = old + 1 /\ Seen(last)
    BY <1>2, <1>3, <1>11
  <2>2. PICK i \in 1 .. n : feed[i].seq = last
    BY <1>5, <2>1 DEF Seen
  <2>3. QED
    BY <1>6, <2>1, <2>2
<1>12. QED
  BY <1>4, <1>5, <1>9, <1>10, <1>11, ReceiveIs

LEMMA ReceiveKeeps == ASSUME LogInv, StreamInv, Receive PROVE LogInv' /\ StreamInv'
<1>1. LogInv'
  BY ReceiveIs, StreamTypes DEF LogInv, LogTypeOK, FeedEntry
<1>2. wire' \in Seq(Frame)
  BY ReceiveIs, WireIs
<1>3. status' = status
  BY ReceiveIs DEF logVars
<1>4. QED
  BY <1>1, <1>2, <1>3, TailKeeps, FeedKeeps DEF StreamInv, Followed

-----------------------------------------------------------------------------
(* The export. *)

USE DEF E!Idle

\* Nothing of the log matters to the export but the end of the run.
LEMMA LogMovesKeepExport ==
  ASSUME LogInv, StreamInv, LogMoves, ExportInv, UNCHANGED <<export, exporter, sent>>,
         enqueue' = enqueue \/ status' \notin Live
  PROVE  ExportInv'
<1>1. /\ status \notin Live => status' = status /\ cut' = cut
      /\ status \in Terminal => status' \in Terminal
      /\ status' \in Live => status \in Live
  BY DEF LogMoves, LogInv, LogTypeOK
<1>2. \A c \in Exporters : ExporterInv(c)'
  BY <1>1 DEF ExportInv, ExporterInv, LogInv, LogTypeOK
<1>3. QED
  BY <1>1, <1>2 DEF ExportInv, LogInv, LogTypeOK

\* An exporter's step, and what it does to the row.
ExporterMoves(c, x) ==
  /\ UNCHANGED <<status, log, cut, enabled, enqueue>>
  /\ x \in E!DrainState /\ exporter' = [exporter EXCEPT ![c] = x]
  /\ sent' \in Nat /\ sent <= sent'
  /\ x.pc = "read" => status \notin Live /\ x.claim # 0
  /\ x.batch # << >> => status \notin Live /\ x.upto >= cut
  /\ x.pc \in {"send", "mark"} => x.batch # << >>
  /\ x.pc = "mark" => sent' >= cut
  /\ export' \in E!ExportRow
  /\ export'.status # "none" => status \in Terminal
  /\ export'.status = "exported" => sent' >= cut

LEMMA ExportStepKeeps ==
  ASSUME E!ExportTypeOK, LogInv, ExportInv, NEW c \in Exporters, NEW x, ExporterMoves(c, x)
  PROVE  E!ExportTypeOK' /\ ExportInv'
<1> USE DEF ExporterMoves
<1>1. /\ exporter \in [Exporters -> E!DrainState] /\ sent \in Nat /\ cut \in Nat
      /\ {enabled, enqueue} \subseteq BOOLEAN
  BY DEF E!ExportTypeOK, LogInv, LogTypeOK
<1>2. exporter'[c] = x /\ \A d \in Exporters \ {c} : exporter'[d] = exporter[d]
  BY <1>1
<1>3. E!ExportTypeOK'
  BY <1>1 DEF E!ExportTypeOK
<1>4. ASSUME NEW d \in Exporters PROVE ExporterInv(d)'
  <2>1. CASE d = c
    BY <1>2, <2>1 DEF ExporterInv
  <2>2. CASE d # c
    <3>1. ExporterInv(d) /\ exporter'[d] = exporter[d]
      BY <1>2, <2>2 DEF ExportInv
    <3>2. sent >= cut => sent' >= cut
      BY <1>1
    <3>3. QED
      BY <3>1, <3>2 DEF ExporterInv
  <2>3. QED
    BY <2>1, <2>2
<1>5. QED
  BY <1>3, <1>4 DEF ExportInv

LEMMA RowIsUpdated ==
  ASSUME E!ExportTypeOK, ExportInv, NEW to \in {"pending", "exported", "failed"}
  PROVE  /\ E!Updated(to) \in E!ExportRow
         /\ E!Updated(to).status # "none" => status \in Terminal
         /\ E!Updated(to).status = "exported" => to = "exported" \/ sent >= cut
<1>1. export \in E!ExportRow
  BY DEF E!ExportTypeOK
<1>2. CASE export.status = "processing"
  BY <1>1, <1>2 DEF E!Updated, E!ExportRow, ExportInv
<1>3. CASE export.status # "processing"
  BY <1>1, <1>3 DEF E!Updated, ExportInv
<1>4. QED
  BY <1>2, <1>3

LEMMA RowIsSeeded ==
  ASSUME E!ExportTypeOK, ExportInv, status \notin Live
  PROVE  /\ E!Seeded \in E!ExportRow
         /\ status # "gone" /\ E!Seeded.status # "none" => status \notin Live
         /\ status = "gone" => E!Seeded = export
         /\ E!Seeded.status = "exported" => sent >= cut
  BY DEF E!ExportTypeOK, E!Seeded, E!NewExport, E!NoExport, E!ExportRow, ExportInv

LEMMA ExporterKeeps ==
  ASSUME E!ExportTypeOK, LogInv, StreamInv, ExportInv, UNCHANGED cut, NEW c \in Exporters,
         E!Draining(c) \/ E!MarkFails(c) \/ E!DrainFails(c) \/ E!ControllerDies(c)
  PROVE  /\ \E x : ExporterMoves(c, x)
         /\ faults' \in 0 .. MaxFaults
<1> DEFINE Row(r) == /\ r \in E!ExportRow
                     /\ r.status # "none" => status \in Terminal
                     /\ r.status = "exported" => sent >= cut
<1>1. PICK e \in E!DrainState : e = exporter[c] /\ exporter = [exporter EXCEPT ![c] = e]
  BY DEF E!ExportTypeOK
<1>2. /\ e.pc = "read" => status \notin Live /\ e.claim # 0
      /\ e.batch # << >> => status \notin Live /\ e.upto >= cut
      /\ e.pc \in {"send", "mark"} => e.batch # << >>
      /\ e.pc = "mark" => sent >= cut
  BY <1>1 DEF ExportInv, ExporterInv
<1>3. /\ export \in E!ExportRow /\ Row(export) /\ sent \in Nat /\ cut \in Nat /\ Len(log) \in Nat
      /\ exporter \in [Exporters -> E!DrainState] /\ status \in Live \cup Terminal \cup {"gone"}
  BY StreamIs DEF E!ExportTypeOK, ExportInv, LogInv, LogTypeOK
<1>4. E!Idle \in E!DrainState /\ E!Idle.batch = << >> /\ E!Idle.pc = "idle"
  BY EmptySeq DEF E!DrainState
<1>5. \A pc \in {"claim", "send", "undo", "mark"} :
        /\ [e EXCEPT !.pc = pc] \in E!DrainState
        /\ [e EXCEPT !.pc = pc].pc = pc
        /\ [e EXCEPT !.pc = pc].batch = e.batch /\ [e EXCEPT !.pc = pc].upto = e.upto
  BY DEF E!DrainState
<1>6. faults' \in 0 .. MaxFaults
  <2>1. faults \in 0 .. MaxFaults
    BY DEF LogInv, LogTypeOK
  <2>2. QED
    BY <2>1 DEF E!Draining, E!MarkFails, E!DrainFails, E!ControllerDies, E!EnsurePending,
       E!ClaimExport, E!NothingToClaim, E!ReadLog, E!ReadFails, E!SendTrace, E!SendFails,
       E!MarkExported, E!GiveBack, E!Fault
<1>7. UNCHANGED <<status, log, cut, enabled, enqueue>>
  BY DEF E!Draining, E!MarkFails, E!DrainFails, E!ControllerDies, E!EnsurePending,
     E!ClaimExport, E!NothingToClaim, E!ReadLog, E!ReadFails, E!SendTrace, E!SendFails,
     E!MarkExported, E!GiveBack
<1> SUFFICES \E x : ExporterMoves(c, x)
  BY <1>6
<1> HIDE DEF E!Idle
<1>8. CASE E!EnsurePending(c)
  <2>1. /\ exporter' = [exporter EXCEPT ![c] = [e EXCEPT !.pc = "claim"]] /\ sent' = sent
        /\ export' = IF status \in Terminal THEN E!Seeded ELSE export
    BY <1>1, <1>8 DEF E!EnsurePending
  <2>2. Row(export')
    BY <1>3, <2>1, RowIsSeeded
  <2>3. ExporterMoves(c, [e EXCEPT !.pc = "claim"])
    BY <1>2, <1>3, <1>5, <1>7, <2>1, <2>2 DEF ExporterMoves
  <2>4. QED
    BY <2>3
<1>9. CASE E!ClaimExport(c)
  <2>1. PICK a \in Nat \ {0} : a = export.attempt + 1
    BY <1>3 DEF E!ExportRow
  <2>2. PICK x \in E!DrainState : x = [e EXCEPT !.pc = "read", !.claim = a]
                                /\ x.pc = "read" /\ x.claim = a /\ x.batch = e.batch /\ x.upto = e.upto
    <3>1. [e EXCEPT !.pc = "read", !.claim = a] \in E!DrainState
      BY DEF E!DrainState
    <3>2. QED
      BY <3>1 DEF E!DrainState
  <2>3. /\ exporter' = [exporter EXCEPT ![c] = x] /\ sent' = sent
        /\ export' = [status |-> "processing", attempt |-> a, old |-> FALSE]
        /\ export.status # "none"
    BY <1>1, <1>9, <2>1, <2>2 DEF E!ClaimExport, E!Claimable
  <2>4. export' \in E!ExportRow /\ export'.status = "processing" /\ status \in Terminal
    BY <1>3, <2>3 DEF E!ExportRow
  <2>5. ExporterMoves(c, x)
    BY <1>2, <1>3, <1>7, <2>1, <2>2, <2>3, <2>4 DEF ExporterMoves
  <2>6. QED
    BY <2>5
<1>10. CASE E!NothingToClaim(c)
  <2>1. UNCHANGED <<export, sent>>
    BY <1>10 DEF E!NothingToClaim
  <2>2. CASE e.batch = << >> /\ exporter' = [exporter EXCEPT ![c] = E!Idle]
    <3>1. ExporterMoves(c, E!Idle)
      BY <1>2, <1>3, <1>4, <1>7, <2>1, <2>2 DEF ExporterMoves
    <3>2. QED
      BY <3>1
  <2>3. CASE e.batch # << >> /\ exporter' = [exporter EXCEPT ![c] = [e EXCEPT !.pc = "send"]]
    <3>1. ExporterMoves(c, [e EXCEPT !.pc = "send"])
      BY <1>2, <1>3, <1>5, <1>7, <2>1, <2>3 DEF ExporterMoves
    <3>2. QED
      BY <3>1
  <2>4. QED
    BY <1>1, <1>10, <2>2, <2>3 DEF E!NothingToClaim
<1>11. CASE E!ReadLog(c)
  <2>1. PICK x : x = [pc |-> "claim", claim |-> 0, upto |-> Len(log), batch |-> Append(e.batch, e.claim)]
    OBVIOUS
  <2>2. exporter' = [exporter EXCEPT ![c] = x] /\ UNCHANGED <<export, sent>>
        /\ e.pc = "read" /\ status # "gone"
    BY <1>1, <1>11, <2>1 DEF E!ReadLog
  <2>3. e.claim \in Nat \ {0} /\ e.batch \in Seq(Nat \ {0})
    BY <1>2, <2>2 DEF E!DrainState
  <2>4. Append(e.batch, e.claim) \in Seq(Nat \ {0})
    BY <2>3, AppendProperties
  <2>5. x \in E!DrainState /\ x.pc = "claim" /\ x.upto = Len(log)
    BY <1>3, <2>1, <2>4 DEF E!DrainState
  <2>6. status \in Terminal /\ Len(log) >= cut
    BY <1>2, <1>3, <2>2 DEF StreamInv, Followed, CutIsInLog
  <2>7. ExporterMoves(c, x)
    BY <1>3, <1>7, <2>2, <2>5, <2>6 DEF ExporterMoves
  <2>8. QED
    BY <2>7
<1>12. CASE E!ReadFails(c)
  <2>1. PICK x \in E!DrainState : x = [e EXCEPT !.pc = "claim", !.claim = 0]
                                /\ x.pc = "claim" /\ x.batch = e.batch /\ x.upto = e.upto
    <3>1. [e EXCEPT !.pc = "claim", !.claim = 0] \in E!DrainState
      BY DEF E!DrainState
    <3>2. QED
      BY <3>1 DEF E!DrainState
  <2>2. PICK to \in {"pending", "failed"} : export' = E!Updated(to)
    BY <1>12 DEF E!ReadFails, E!Retried
  <2>3. exporter' = [exporter EXCEPT ![c] = x] /\ sent' = sent
    BY <1>1, <1>12, <2>1 DEF E!ReadFails
  <2>4. Row(export')
    BY <2>2, RowIsUpdated
  <2>5. ExporterMoves(c, x)
    BY <1>2, <1>3, <1>7, <2>1, <2>3, <2>4 DEF ExporterMoves
  <2>6. QED
    BY <2>5
<1>13. CASE E!SendTrace(c)
  <2>1. PICK pc \in {"mark", "undo"} : exporter' = [exporter EXCEPT ![c] = [e EXCEPT !.pc = pc]]
    BY <1>1, <1>13 DEF E!SendTrace
  <2>2. /\ export' = export /\ e.pc = "send"
        /\ sent' = IF e.upto > sent THEN e.upto ELSE sent
    BY <1>1, <1>13 DEF E!SendTrace
  <2>3. e.upto \in Nat
    BY DEF E!DrainState
  <2>4. sent' \in Nat /\ sent <= sent' /\ sent' >= cut
    BY <1>2, <1>3, <2>2, <2>3
  <2>5. ExporterMoves(c, [e EXCEPT !.pc = pc])
    BY <1>2, <1>3, <1>5, <1>7, <2>1, <2>2, <2>4 DEF ExporterMoves
  <2>6. QED
    BY <2>5
<1>14. CASE E!SendFails(c) \/ E!MarkFails(c)
  <2>1. exporter' = [exporter EXCEPT ![c] = [e EXCEPT !.pc = "undo"]] /\ UNCHANGED <<export, sent>>
    BY <1>1, <1>14 DEF E!SendFails, E!MarkFails
  <2>2. ExporterMoves(c, [e EXCEPT !.pc = "undo"])
    BY <1>2, <1>3, <1>5, <1>7, <2>1 DEF ExporterMoves
  <2>3. QED
    BY <2>2
<1>15. CASE E!MarkExported(c)
  <2>1. /\ exporter' = [exporter EXCEPT ![c] = E!Idle] /\ sent' = sent /\ e.pc = "mark"
        /\ export' = E!Updated("exported")
    BY <1>1, <1>15 DEF E!MarkExported
  <2>2. Row(export')
    BY <1>2, <2>1, RowIsUpdated
  <2>3. ExporterMoves(c, E!Idle)
    BY <1>3, <1>4, <1>7, <2>1, <2>2 DEF ExporterMoves
  <2>4. QED
    BY <2>3
<1>16. CASE E!GiveBack(c)
  <2>1. PICK to \in {"pending", "failed"} : export' = E!Updated(to)
    BY <1>16 DEF E!GiveBack, E!Retried
  <2>2. exporter' = [exporter EXCEPT ![c] = E!Idle] /\ sent' = sent
    BY <1>16 DEF E!GiveBack
  <2>3. Row(export')
    BY <2>1, RowIsUpdated
  <2>4. ExporterMoves(c, E!Idle)
    BY <1>3, <1>4, <1>7, <2>2, <2>3 DEF ExporterMoves
  <2>5. QED
    BY <2>4
<1>17. CASE E!DrainFails(c) \/ E!ControllerDies(c)
  <2>1. exporter' = [exporter EXCEPT ![c] = E!Idle] /\ UNCHANGED <<export, sent>>
    BY <1>17 DEF E!DrainFails, E!ControllerDies
  <2>2. ExporterMoves(c, E!Idle)
    BY <1>3, <1>4, <1>7, <2>1 DEF ExporterMoves
  <2>3. QED
    BY <2>2
<1>18. QED
  BY <1>8, <1>9, <1>10, <1>11, <1>12, <1>13, <1>14, <1>15, <1>16, <1>17 DEF E!Draining

LEMMA RowKeeps ==
  ASSUME E!ExportTypeOK, LogInv, ExportInv, UNCHANGED cut,
         E!EnqueueExport \/ E!EnqueueIsLost \/ E!LeaseExpires
  PROVE  E!ExportTypeOK' /\ ExportInv' /\ faults' \in 0 .. MaxFaults
<1>1. /\ exporter \in [Exporters -> E!DrainState] /\ sent \in Nat /\ export \in E!ExportRow
      /\ {enabled, enqueue} \subseteq BOOLEAN
      /\ faults \in 0 .. MaxFaults /\ status \in Live \cup Terminal \cup {"gone"}
  BY DEF E!ExportTypeOK, LogInv, LogTypeOK
<1>2. UNCHANGED <<status, log, enabled, exporter, sent>>
  BY DEF E!EnqueueExport, E!EnqueueIsLost, E!LeaseExpires
<1>3. faults' \in 0 .. MaxFaults
  BY <1>1 DEF E!EnqueueExport, E!EnqueueIsLost, E!LeaseExpires, E!Fault
<1>4. \A c \in Exporters : ExporterInv(c)'
  BY <1>2 DEF ExportInv, ExporterInv
<1>5. CASE E!EnqueueExport
  <2>1. status \notin Live /\ enqueue' = FALSE /\ export' = E!Seeded
    BY <1>5 DEF E!EnqueueExport, ExportInv
  <2>2. /\ export' \in E!ExportRow
        /\ export'.status # "none" => status \in Terminal
        /\ export'.status = "exported" => sent >= cut
    BY <1>1, <2>1, RowIsSeeded DEF ExportInv
  <2>3. QED
    BY <1>1, <1>2, <1>3, <1>4, <2>1, <2>2 DEF E!ExportTypeOK, ExportInv
<1>6. CASE E!EnqueueIsLost
  <2>1. enqueue' = FALSE /\ export' = export
    BY <1>6 DEF E!EnqueueIsLost
  <2>2. QED
    BY <1>1, <1>2, <1>3, <1>4, <2>1 DEF E!ExportTypeOK, ExportInv
<1>7. CASE E!LeaseExpires
  <2>1. enqueue' = enqueue /\ export' = [export EXCEPT !.old = TRUE]
    BY <1>7 DEF E!LeaseExpires
  <2>2. export' \in E!ExportRow /\ export'.status = export.status
    BY <1>1, <2>1 DEF E!ExportRow
  <2>3. QED
    BY <1>1, <1>2, <1>3, <1>4, <2>1, <2>2 DEF E!ExportTypeOK, ExportInv
<1>8. QED
  BY <1>5, <1>6, <1>7

-----------------------------------------------------------------------------
(* The steps of the composition. *)

LEMMA InitInv == ASSUME Init PROVE IInv
<1>1. LogInit /\ E!ExportInit /\ watched \in BOOLEAN /\ enabled \in BOOLEAN
  BY DEF Init
<1>2. LogTypeOK
  <2>1. log \in Seq(Entry)
    <3>1. [kind |-> "plugins", of |-> 0] \in Entry
      BY DEF Entry
    <3>2. \A e \in Entry : << >> \in Seq(Entry) /\ <<e>> \in Seq(Entry)
      OBVIOUS
    <3>3. QED
      BY <1>1, <3>1, <3>2 DEF LogInit
  <2>2. view.feed \in Seq([seq : Nat, kind : {"feed", "status"}])
    BY <1>1 DEF LogInit
  <2>3. QED
    BY <1>1, <2>1, <2>2 DEF LogInit, LogTypeOK, NoTail, CallState
<1>3. PaceOfCalls
  BY <1>1 DEF LogInit, PaceOfCalls, Over, Tries, CallsBefore
<1>4. StreamInv
  <2>1. /\ wire = << >> /\ wire \in Seq(Frame) /\ Len(wire) = 0 /\ Len(view.feed) = 0
        /\ view.last = 0 /\ view.closed = "no" /\ tail.pc = "none" /\ status = "provisioning"
    BY <1>1 DEF LogInit, NoTail
  <2>2. Len(log) \in Nat
    BY <1>2, LenProperties DEF LogTypeOK
  <2>3. FramesFollowLog(wire) /\ EndFollowsCut(wire)
    BY <2>1 DEF FramesFollowLog, EndFollowsCut
  <2>4. TailFollowsLog /\ CutIsInLog /\ EndIsSeen
    BY <2>1 DEF TailFollowsLog, CutIsInLog, EndIsSeen
  <2>5. FeedFollowsLog
    BY <2>1, <2>2 DEF FeedFollowsLog
  <2>6. QED
    BY <2>1, <2>3, <2>4, <2>5 DEF StreamInv, Followed
<1>5. E!ExportTypeOK /\ ExportInv
  <2>1. E!Idle \in E!DrainState
    BY EmptySeq DEF E!DrainState
  <2>2. QED
    BY <1>1, <2>1 DEF E!ExportInit, E!ExportTypeOK, E!NoExport, E!ExportRow, ExportInv, ExporterInv
<1>6. QED
  BY <1>2, <1>3, <1>4, <1>5 DEF IInv, TypeOK

\* The invariant by its parts.
LEMMA Parts == IInv <=> LogInv /\ StreamInv /\ E!ExportTypeOK /\ ExportInv
  BY DEF IInv, TypeOK, LogInv

LEMMA FollowingKeeps == ASSUME IInv, Following PROVE IInv'
<1>1. LogInv /\ StreamInv /\ E!ExportTypeOK /\ ExportInv
  BY Parts
<1>2. UNCHANGED <<enabled, enqueue, export, exporter, sent>>
  BY DEF Following, exportVars
<1>3. E!ExportTypeOK'
  BY <1>1, <1>2 DEF E!ExportTypeOK
<1>4. CASE \/ Start \/ Cancel \/ Post \/ TimesOut \/ RuntimeEnds
           \/ \E k \in Calls : HandleEvent(k) \/ RecordReport(k) \/ HandlerDies(k)
  <2>1. LogInv' /\ LogMoves /\ UNCHANGED streamVars
    BY <1>1, <1>4, LogStepKeeps
  <2>2. StreamInv' /\ ExportInv'
    BY <1>1, <1>2, <2>1, LogMovesKeepStream, LogMovesKeepExport
  <2>3. QED
    BY <1>3, <2>1, <2>2 DEF IInv, TypeOK, LogInv
<1>5. CASE Connect \/ Flush \/ ReadRun \/ Drain \/ Disconnect \/ Receive
  <2>1. LogInv' /\ StreamInv'
    BY <1>1, <1>5, ConnectKeeps, FlushKeeps, ReadRunKeeps, DrainKeeps, DisconnectKeeps, ReceiveKeeps
  <2>2. UNCHANGED <<status, log, cut>>
    BY <1>5 DEF Connect, Flush, ReadRun, Drain, Disconnect, Receive, logVars
  <2>3. ExportInv'
    BY <1>1, <1>2, <2>2, LogMovesKeepExport DEF LogMoves
  <2>4. QED
    BY <1>3, <2>1, <2>3 DEF IInv, TypeOK, LogInv
<1>6. QED
  BY <1>4, <1>5 DEF Following, LogNext

LEMMA CompletingKeeps == ASSUME IInv, Completing PROVE IInv'
<1>1. LogInv /\ StreamInv /\ E!ExportTypeOK /\ ExportInv
  BY Parts
<1>2. PICK k \in Calls : CompleteRun(k)
  BY DEF Completing
<1>3. enqueue' = enabled /\ UNCHANGED <<enabled, export, exporter, sent>>
  BY DEF Completing
<1>4. LogInv' /\ LogMoves /\ UNCHANGED streamVars
  BY <1>1, <1>2, LogStepKeeps
<1>5. status' \notin Live
  BY <1>2 DEF CompleteRun, Decided
<1>6. StreamInv' /\ ExportInv'
  BY <1>1, <1>3, <1>4, <1>5, LogMovesKeepStream, LogMovesKeepExport
<1>7. E!ExportTypeOK'
  BY <1>1, <1>3 DEF E!ExportTypeOK
<1>8. QED
  BY <1>4, <1>6, <1>7 DEF IInv, TypeOK, LogInv

LEMMA DeletingKeeps == ASSUME IInv, Deleting PROVE IInv'
<1>1. LogInv /\ StreamInv /\ E!ExportTypeOK /\ ExportInv
  BY Parts
<1>2. /\ status' = "gone" /\ log' = << >>
      /\ UNCHANGED <<reporter, call, cut, streamVars, faults>>
      /\ status \in Terminal
  BY DEF Deleting, Delete
<1>3. export' = E!NoExport /\ UNCHANGED <<enabled, enqueue, exporter, sent>>
  BY DEF Deleting, E!Cascade
<1>4. LogInv'
  BY <1>1, <1>2 DEF LogInv, LogTypeOK, PaceOfCalls, Over, streamVars
<1>5. StreamInv'
  BY <1>1, <1>2 DEF StreamInv, streamVars
<1>6. E!ExportTypeOK' /\ ExportInv'
  BY <1>1, <1>2, <1>3 DEF E!ExportTypeOK, E!NoExport, E!ExportRow, ExportInv, ExporterInv
<1>7. QED
  BY <1>4, <1>5, <1>6 DEF IInv, TypeOK, LogInv

\* What an export does cannot disturb the log, nor whoever follows it.
LEMMA LogIsLeft ==
  ASSUME LogInv, StreamInv, UNCHANGED <<status, log, reporter, call, cut, streamVars>>,
         faults' \in 0 .. MaxFaults
  PROVE  LogInv' /\ StreamInv'
<1>1. LogInv'
  BY DEF LogInv, LogTypeOK, PaceOfCalls, Over, streamVars
<1>2. StreamInv'
  BY LogMovesKeepStream DEF LogMoves
<1>3. QED
  BY <1>1, <1>2

LEMMA ExportingKeeps == ASSUME IInv, Exporting PROVE IInv'
<1>1. LogInv /\ StreamInv /\ E!ExportTypeOK /\ ExportInv
  BY Parts
<1>2. UNCHANGED <<reporter, call, cut, streamVars>>
  BY DEF Exporting
<1>3. CASE E!EnqueueExport \/ E!EnqueueIsLost \/ E!LeaseExpires
  <2>1. UNCHANGED <<status, log>>
    BY <1>3 DEF E!EnqueueExport, E!EnqueueIsLost, E!LeaseExpires
  <2>2. E!ExportTypeOK' /\ ExportInv' /\ faults' \in 0 .. MaxFaults
    BY <1>1, <1>2, <1>3, RowKeeps
  <2>3. QED
    BY <1>1, <1>2, <2>1, <2>2, LogIsLeft DEF IInv, TypeOK, LogInv
<1>4. ASSUME NEW c \in Exporters,
             E!Draining(c) \/ E!MarkFails(c) \/ E!DrainFails(c) \/ E!ControllerDies(c)
      PROVE  IInv'
  <2>1. /\ \E x : ExporterMoves(c, x)
        /\ faults' \in 0 .. MaxFaults
    BY <1>1, <1>2, <1>4, ExporterKeeps
  <2>2. PICK x : ExporterMoves(c, x)
    BY <2>1
  <2>3. E!ExportTypeOK' /\ ExportInv'
    BY <1>1, <2>2, ExportStepKeeps
  <2>4. UNCHANGED <<status, log>>
    BY <2>2 DEF ExporterMoves
  <2>5. QED
    BY <1>1, <1>2, <2>1, <2>3, <2>4, LogIsLeft DEF IInv, TypeOK, LogInv
<1>5. QED
  BY <1>3, <1>4 DEF Exporting, E!ExportNext

LEMMA NextInv == ASSUME IInv, [Next]_vars PROVE IInv'
<1>1. CASE UNCHANGED vars
  <2>1. UNCHANGED <<status, log, reporter, call, cut, streamVars, faults>>
    BY <1>1 DEF vars, logVars
  <2>2. UNCHANGED <<enabled, enqueue, export, exporter, sent>>
    BY <1>1 DEF vars, exportVars
  <2>3. LogInv' /\ StreamInv'
    BY <2>1, LogIsLeft, Parts DEF LogInv, LogTypeOK
  <2>4. E!ExportTypeOK' /\ ExportInv'
    BY <2>1, <2>2, Parts DEF E!ExportTypeOK, ExportInv, ExporterInv
  <2>5. QED
    BY <2>3, <2>4 DEF IInv, TypeOK, LogInv
<1>2. QED
  BY <1>1, FollowingKeeps, CompletingKeeps, DeletingKeeps, ExportingKeeps DEF Next

-----------------------------------------------------------------------------

\* What was written to the log, is on the wire and has been shown hangs
\* together in every state.
THEOREM IInvHolds == Spec => []IInv
<1>1. Init => IInv
  BY InitInv
<1>2. IInv /\ [Next]_vars => IInv'
  BY NextInv
<1>3. QED
  BY <1>1, <1>2, PTL DEF Spec

\* The runtime's calls stay within their bounds, and the records of the
\* stream and of the export within their types.
THEOREM TypesHold == Spec => []TypeOK
<1>1. IInv => TypeOK
  BY DEF IInv
<1>2. QED
  BY <1>1, IInvHolds, PTL

LEMMA FeedIsPrefix == ASSUME IInv PROVE FeedIsLogPrefix
<1>1. SUFFICES ASSUME status # "gone" PROVE FeedIsLogPrefix
  BY DEF FeedIsLogPrefix
<1>2. LogInv /\ StreamInv
  BY Parts
<1>3. PICK feed \in Seq(FeedEntry), n \in Nat : feed = view.feed /\ n = Len(feed)
  BY <1>2, LenProperties DEF LogInv, LogTypeOK, FeedEntry
<1>4. DOMAIN view.feed = 1 .. n
  BY <1>3, LenProperties
<1>5. /\ \A i \in 1 .. n :
           /\ feed[i].seq \in 1 .. view.last
           /\ feed[i].kind = "feed" => log[feed[i].seq].kind = "feed"
      /\ \A s \in 1 .. view.last : log[s].kind = "feed" =>
           \E i \in 1 .. n : feed[i].kind = "feed" /\ feed[i].seq = s
      /\ \A j \in 1 .. n : \A i \in 1 .. j - 1 :
           feed[i].kind = "feed" /\ feed[j].kind = "feed" => feed[i].seq < feed[j].seq
  BY <1>1, <1>2, <1>3 DEF StreamInv, Followed, FeedFollowsLog
<1>6. PICK shown : shown = {i \in 1 .. n : feed[i].kind = "feed"}
  OBVIOUS
<1>7. {feed[i].seq : i \in shown} = {s \in 1 .. view.last : log[s].kind = "feed"}
  BY <1>5, <1>6
<1>8. \A i, j \in shown : i < j => feed[i].seq < feed[j].seq
  <2>1. SUFFICES ASSUME NEW i \in shown, NEW j \in shown, i < j
                 PROVE  feed[i].seq < feed[j].seq
    OBVIOUS
  <2>2. j \in 1 .. n /\ i \in 1 .. j - 1
    BY <1>6, <2>1
  <2>3. QED
    BY <1>5, <1>6, <2>1, <2>2
<1>9. QED
  BY <1>3, <1>4, <1>6, <1>7, <1>8 DEF FeedIsLogPrefix

\* However often the stream breaks and resumes, and however long a handler
\* goes on after the runtime gave it up, the browser shows the events of the
\* log in order, without a gap and once, and is not told the end before it has
\* what the runtime wrote until the run was decided.
THEOREM BrowserFollows == Spec => []BrowserSeesTheLog
<1>1. IInv => BrowserSeesTheLog
  <2>1. SUFFICES ASSUME IInv PROVE EndMeansComplete
    BY FeedIsPrefix DEF BrowserSeesTheLog
  <2>2. QED
    BY <2>1, Parts DEF StreamInv, Followed, EndIsSeen, EndMeansComplete
<1>2. QED
  BY <1>1, IInvHolds, PTL

\* Whoever of several controllers sent it, and however their leases ran out,
\* a run that counts as exported was sent with everything the runtime wrote
\* before the run was decided.
THEOREM ExportsAreComplete == Spec => []ExportIsComplete
<1>1. IInv => ExportIsComplete
  BY DEF IInv, ExportInv, ExportIsComplete
<1>2. QED
  BY <1>1, IInvHolds, PTL
=============================================================================
