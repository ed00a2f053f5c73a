------------------------------ MODULE EventLog ------------------------------
(***************************************************************************)
(* The event log of one run, and a browser that follows it.                *)
(*                                                                         *)
(* The runtime reports its events one after the other and then, as often   *)
(* as needed, its outcome.  A call that is not answered in time is given   *)
(* up or repeated while its handler may still be at work.  The controller  *)
(* appends to the log and decides the run; the operator and the            *)
(* reconcilers may decide it as well.  The browser's EventSource reads a   *)
(* stream of frames, reconnects with the id of the last one it saw, and    *)
(* leaves when it is told the end.                                         *)
(***************************************************************************)
EXTENDS Naturals, Sequences

CONSTANTS
  LastEvent,       \* events the runtime reports; the last one is its diff
  ATTEMPTS,        \* DIFF_EVENT_ATTEMPTS and STATUS_ATTEMPTS
  FaultKinds,      \* which of the kinds in AllFaults may happen
  MaxFaults        \* bound: number of faults

AllFaults == {
  "timeout",       \* the runtime gives up a call whose handler goes on
  "crash",         \* a controller disappears in the middle of a handler
  "disconnect",    \* the stream breaks and what is on its way is lost
  "error",         \* a statement of an export fails
  "pause"}         \* an export outlives its lease

ASSUME EventsAssumption == LastEvent \in Nat \ {0} /\ ATTEMPTS \in Nat \ {0}
ASSUME LogFaultsAssumption == FaultKinds \subseteq AllFaults /\ MaxFaults \in Nat

VARIABLES
  status,      \* of the run; "gone" when its session was deleted
  log,         \* run_events: the position is the sequence number
  reporter,    \* the runtime's side of the calls
  call,        \* call[k]: where the handler of the k-th call stands
  cut,         \* how long the log was when the run was decided
  watched,     \* the browser shows the run
  tail,        \* the handler of the stream
  wire,        \* frames on their way to the browser
  view,        \* what the browser has
  faults

logVars == <<status, log, reporter, call, cut>>
streamVars == <<watched, tail, wire, view>>

Live == {"provisioning", "running"}
Terminal == {"succeeded", "failed"}     \* cancelled counts as failed

Report == LastEvent + 1                 \* what follows the last event
Calls == 1 .. LastEvent - 1 + 2 * ATTEMPTS

\* kind: "plugins" is written while the run is provisioned, "feed" stands for
\* the runtime's token, tool_call and log events.
Entry == [kind : {"plugins", "feed", "status"}, of : 0 .. Report]

CallState == {"none", "received", "recorded", "answered"}

LogTypeOK ==
  /\ status \in Live \cup Terminal \cup {"gone"}
  /\ log \in Seq(Entry)
  /\ reporter \in [event : 1 .. Report + 1, tries : 0 .. ATTEMPTS,
                   sent : 0 .. LastEvent - 1 + 2 * ATTEMPTS, waiting : BOOLEAN]
  /\ call \in [Calls -> [of : 0 .. Report, at : CallState]]
  /\ cut \in Nat
  /\ watched \in BOOLEAN
  /\ tail \in [pc : {"none", "flush", "read", "drain"}, cursor : Nat,
               status : Live \cup Terminal \cup {"none"}]
  /\ view \in [feed : Seq([seq : Nat, kind : {"feed", "status"}]), last : Nat,
               status : Live \cup Terminal \cup {"none", "reported"},
               closed : {"no", "end", "missing"}]
  /\ faults \in 0 .. MaxFaults

NoTail == [pc |-> "none", cursor |-> 0, status |-> "none"]

LogInit ==
  /\ status = "provisioning"
  /\ log \in {<< >>, <<[kind |-> "plugins", of |-> 0]>>}
  /\ reporter = [event |-> 1, tries |-> 0, sent |-> 0, waiting |-> FALSE]
  /\ call = [k \in Calls |-> [of |-> 0, at |-> "none"]]
  /\ cut = 0
  /\ tail = NoTail
  /\ wire = << >>
  /\ view = [feed |-> << >>, last |-> 0, status |-> "none", closed |-> "no"]
  /\ faults = 0

Fault(kind) ==
  /\ kind \in FaultKinds
  /\ faults < MaxFaults
  /\ faults' = faults + 1

-----------------------------------------------------------------------------
(* The run. *)

Start ==
  /\ status = "provisioning"
  /\ status' = "running"
  /\ UNCHANGED <<log, reporter, call, cut, streamVars, faults>>

\* The first terminal status stays.
Decided(outcome) ==
  IF status \in Live
  THEN status' = outcome /\ cut' = Len(log)
  ELSE UNCHANGED <<status, cut>>

\* The operator cancels, or a reconciler finds the run overdue or silent.
Cancel ==
  /\ status \in Live
  /\ Decided("failed")
  /\ UNCHANGED <<log, reporter, call, streamVars, faults>>

\* The session is deleted, and the events go with it.
Delete ==
  /\ status \in Terminal
  /\ status' = "gone"
  /\ log' = << >>
  /\ UNCHANGED <<reporter, call, cut, streamVars, faults>>

-----------------------------------------------------------------------------
(* The reporter. *)

Over == reporter.event > Report

\* Only the diff and the report are repeated.
Tries(event) == IF event < LastEvent THEN 1 ELSE ATTEMPTS

\* The queue: one call at a time.
Post ==
  /\ ~Over /\ ~reporter.waiting
  /\ reporter' = [reporter EXCEPT !.tries = @ + 1, !.sent = @ + 1,
                                  !.waiting = TRUE]
  /\ call' = [call EXCEPT ![reporter.sent + 1] =
                [of |-> reporter.event, at |-> "received"]]
  /\ UNCHANGED <<status, log, cut, streamVars, faults>>

Proceeding == [reporter EXCEPT !.event = @ + 1, !.tries = 0, !.waiting = FALSE]

Refused == IF reporter.tries < Tries(reporter.event)
           THEN [reporter EXCEPT !.waiting = FALSE]
           ELSE Proceeding

Answered == [of |-> 0, at |-> "answered"]

\* The handler of call k is through; the runtime hears it if it still waits.
Answers(k, reply) ==
  /\ call' = [call EXCEPT ![k] = Answered]
  /\ reporter' = IF reporter.waiting /\ reporter.sent = k THEN reply ELSE reporter

\* TELEMETRY_TIMEOUT_MS, or the connection is gone with the controller.
TimesOut ==
  /\ reporter.waiting
  /\ reporter' = Refused
  /\ IF call[reporter.sent].at = "answered"
     THEN UNCHANGED faults
     ELSE Fault("timeout")
  /\ UNCHANGED <<status, log, call, cut, streamVars>>

\* The sandbox is stopped or dies.
RuntimeEnds ==
  /\ ~Over
  /\ reporter' = [reporter EXCEPT !.event = Report + 1, !.tries = 0,
                                  !.waiting = FALSE]
  /\ UNCHANGED <<status, log, call, cut, streamVars, faults>>

-----------------------------------------------------------------------------
(* The handlers. *)

\* appendEvent: the counter and the row in one transaction.
AppendEvent(kind, of) == log' = Append(log, [kind |-> kind, of |-> of])

HandleEvent(k) ==
  /\ call[k].at = "received" /\ call[k].of < Report
  /\ IF status = "gone"
     THEN Answers(k, Refused) /\ UNCHANGED log
     ELSE Answers(k, Proceeding) /\ AppendEvent("feed", call[k].of)
  /\ UNCHANGED <<status, cut, streamVars, faults>>

\* The reason first ...
RecordReport(k) ==
  /\ call[k].at = "received" /\ call[k].of = Report
  /\ IF status = "gone"
     THEN Answers(k, Refused) /\ UNCHANGED log
     ELSE /\ AppendEvent("status", Report)
          /\ call' = [call EXCEPT ![k].at = "recorded"]
          /\ UNCHANGED reporter
  /\ UNCHANGED <<status, cut, streamVars, faults>>

\* ... then the outcome.
CompleteRun(k) ==
  /\ call[k].at = "recorded"
  /\ \E outcome \in Terminal : Decided(outcome)
  /\ Answers(k, Proceeding)
  /\ UNCHANGED <<log, streamVars, faults>>

HandlerDies(k) ==
  /\ call[k].at \in {"received", "recorded"}
  /\ call' = [call EXCEPT ![k] = Answered]
  /\ Fault("crash")
  /\ UNCHANGED <<status, log, reporter, cut, streamVars>>

-----------------------------------------------------------------------------
(* The stream. *)

\* EventSource sends the last id it saw; without a run it gives up for good.
Connect ==
  /\ watched
  /\ view.closed = "no" /\ tail.pc = "none" /\ wire = << >>
  /\ IF status = "gone"
     THEN view' = [view EXCEPT !.closed = "missing"] /\ UNCHANGED tail
     ELSE /\ tail' = [pc |-> "flush", cursor |-> view.last, status |-> "none"]
          /\ UNCHANGED view
  /\ UNCHANGED <<logVars, watched, wire, faults>>

\* Frames carry the id, or 0 for none.
EventFrames(from) ==
  [i \in 1 .. Len(log) - from |->
     [id |-> from + i, event |-> log[from + i].kind, status |-> "reported"]]

StatusFrame == [id |-> 0, event |-> "status", status |-> status]
EndFrame    == [id |-> 0, event |-> "end", status |-> tail.status]

Flush ==
  /\ tail.pc = "flush"
  /\ wire' = wire \o (IF Len(log) > tail.cursor THEN EventFrames(tail.cursor)
                                                ELSE << >>)
  /\ tail' = [tail EXCEPT !.pc = "read",
                          !.cursor = IF Len(log) > @ THEN Len(log) ELSE @]
  /\ UNCHANGED <<logVars, watched, view, faults>>

\* The run row is read after the log: what is in it decides whether to go on.
ReadRun ==
  /\ tail.pc = "read"
  /\ IF status = "gone"
     THEN tail' = NoTail /\ UNCHANGED wire
     ELSE /\ wire' = IF status = tail.status THEN wire
                                             ELSE Append(wire, StatusFrame)
          /\ tail' = [tail EXCEPT !.status = status,
                                  !.pc = IF status \in Terminal THEN "drain"
                                                                ELSE "flush"]
  /\ UNCHANGED <<logVars, watched, view, faults>>

\* Mutated: the end is sent without another look at the log.
DrainNothing ==
  /\ tail.pc = "drain"
  /\ wire' = Append(wire, EndFrame)
  /\ tail' = NoTail
  /\ UNCHANGED <<logVars, watched, view, faults>>

Drain ==
  /\ tail.pc = "drain"
  /\ wire' = wire \o (IF Len(log) > tail.cursor THEN EventFrames(tail.cursor)
                                                ELSE << >>)
                  \o <<EndFrame>>
  /\ tail' = NoTail
  /\ UNCHANGED <<logVars, watched, view, faults>>

\* The connection breaks.
Disconnect ==
  /\ tail.pc # "none" \/ wire # << >>
  /\ tail' = NoTail
  /\ wire' = << >>
  /\ Fault("disconnect")
  /\ UNCHANGED <<logVars, watched, view>>

-----------------------------------------------------------------------------
(* The browser.  A frame without an id leaves the last id as it is, and the   *)
(* handlers see the last id, not the frame's.                                 *)

Seen(seq) == \E i \in 1 .. Len(view.feed) : view.feed[i].seq = seq

Shown(seq, kind) == IF Seen(seq) THEN view.feed
                                 ELSE Append(view.feed, [seq |-> seq, kind |-> kind])

Receive ==
  /\ wire # << >>
  /\ wire' = Tail(wire)
  /\ LET frame == Head(wire)
         last  == IF frame.id = 0 THEN view.last ELSE frame.id
     IN view' =
          CASE frame.event = "feed" ->
                 [view EXCEPT !.last = last, !.feed = Shown(last, "feed")]
            [] frame.event = "status" ->
                 [view EXCEPT !.last = last, !.status = frame.status,
                              !.feed = IF last = 0 THEN @ ELSE Shown(last, "status")]
            [] frame.event = "end" ->
                 [view EXCEPT !.closed = "end"]
            [] frame.event = "plugins" ->      \* nobody listens
                 [view EXCEPT !.last = last]
  /\ UNCHANGED <<logVars, watched, tail, faults>>

-----------------------------------------------------------------------------

\* Every step but CompleteRun, which also hands the run to the export.
LogNext ==
  \/ Start
  \/ Cancel
  \/ Post
  \/ TimesOut
  \/ RuntimeEnds
  \/ \E k \in Calls :
       \/ HandleEvent(k)
       \/ RecordReport(k)
       \/ HandlerDies(k)
  \/ Connect
  \/ Flush
  \/ ReadRun
  \/ Drain
  \/ Disconnect
  \/ Receive

StreamStep == Connect \/ Flush \/ ReadRun \/ Drain \/ Receive
=============================================================================
