----------------------------- MODULE AgentEvents -----------------------------
(***************************************************************************)
(* What one run tells about itself: the agent's turns with their text and  *)
(* tool calls, the handler that turns them into events (runtime/agent.ts), *)
(* and the queue that posts them one after the other and never stops the   *)
(* agent for one that fails (runtime/reporter.ts).                         *)
(*                                                                         *)
(* A post that fails is an event the log never has.  A post that the       *)
(* runtime gives up while its handler is still at work is one the log has  *)
(* later, behind events that were reported after it.                       *)
(*                                                                         *)
(* The queue lags behind the agent.  It keeps the order, so that an event  *)
(* that will be posted is here in the log as soon as it is reported, and   *)
(* what the database has by then is a prefix of the log.  Only one thing   *)
(* depends on how long that prefix is: the time at which a turn began,     *)
(* which is the sandbox's own and is among the times of the log's rows.    *)
(***************************************************************************)
EXTENDS Naturals, SequencesExt

CONSTANTS
  Tools,        \* what the agent may call: a tool with the file it works on
  MaxTurns, MaxTexts, MaxCalls,   \* bounds of one run
  FaultKinds,   \* which of "lost" and "late" may happen
  MaxFaults,    \* bound: events that are lost or late
  MaxWaiting    \* bound: events that wait to be posted when a turn begins

ASSUME AgentAssumption ==
  /\ MaxTurns \in Nat /\ MaxTexts \in Nat /\ MaxCalls \in Nat /\ MaxFaults \in Nat
  /\ MaxWaiting \in Nat
  /\ FaultKinds \subseteq {"lost", "late"}

VARIABLES
  agent,    \* the agent and the handler's own turn number
  debug,    \* the runtime reports debug events
  log,      \* run_events: the position is the sequence number
  late,     \* an event whose handler is still at work
  faults

vars == <<agent, debug, log, late, faults>>

Calls == 1 .. MaxCalls
Turns == 1 .. MaxTurns
NoEvent == [type |-> "none"]

\* id: in which order the events were reported.  turn: the number the handler
\* gave, where the event carries it.  blank: the text is white space, and the
\* thoughts of a turn may be, too.  started: the newest row of the log when the
\* turn began, or the first one when there was none yet.
Event ==
       [type : {"token"}, id : Nat, turn : Turns, blank : BOOLEAN]
  \cup [type : {"tool_call"}, id : Nat, turn : Turns, call : Calls, tool : Tools,
        status : {"running", "ended"}, args : BOOLEAN]
  \cup [type : {"turn_start"}, id : Nat, turn : Turns]
  \cup [type : {"turn_end"}, id : Nat, turn : Turns, started : Nat \ {0},
        thinking : {"none", "blank", "words"}, asks : BOOLEAN]
  \cup [type : {"note"}, id : Nat, turn : {0} \cup Turns]
  \cup [type : {"status"}, id : Nat, turn : {0} \cup Turns, status : {"done", "error"}]

\* The log holds what was reported and nothing else, each event once.
TypeOK ==
  /\ agent \in [phase : {"between", "answering", "calling", "reported"},
                turn : 0 .. MaxTurns, started : Nat \ {0}, texts : 0 .. MaxTexts,
                calls : Seq(Tools), before : 0 .. MaxCalls, open : SUBSET Calls, posted : Nat]
  /\ debug \in BOOLEAN
  /\ log \in Seq(Event)
  /\ late \in {NoEvent} \cup Event
  /\ faults \in 0 .. MaxFaults
  /\ Len(log) <= agent.posted
  /\ \A i, j \in 1 .. Len(log) : log[i].id = log[j].id => i = j

Init ==
  /\ agent = [phase |-> "between", turn |-> 0, started |-> 1, texts |-> 0,
              calls |-> << >>, before |-> 0, open |-> {}, posted |-> 0]
  /\ debug \in BOOLEAN
  /\ log = << >>
  /\ late = NoEvent
  /\ faults = 0

Fault(kind) ==
  /\ kind \in FaultKinds /\ faults < MaxFaults
  /\ faults' = faults + 1

\* The event goes to the log; or it is dropped; or the queue goes on without it.
Report(event) ==
  \/ log' = Append(log, event) /\ UNCHANGED <<late, faults>>
  \/ Fault("lost") /\ UNCHANGED <<log, late>>
  \/ late = NoEvent /\ late' = event /\ Fault("late") /\ UNCHANGED log

\* The handler of an event that the runtime gave up gets to its statement.
Arrive ==
  /\ late # NoEvent
  /\ log' = Append(log, late)
  /\ late' = NoEvent
  /\ UNCHANGED <<agent, debug, faults>>

Id == agent.posted + 1
Posted == [agent EXCEPT !.posted = Id]

-----------------------------------------------------------------------------
(* The agent.  A turn is a message, and the calls that the message asks for;   *)
(* calls run at the same time and have ended when the turn ends.               *)

\* The working copy is there.
Note ==
  /\ agent.posted = 0
  /\ agent' = Posted
  /\ Report([type |-> "note", id |-> Id, turn |-> 0])
  /\ UNCHANGED debug

\* The handler takes the time.  What was reported before may still wait to be
\* posted.  agent.turn_start is one of the events that only debug runs report.
TurnStart ==
  /\ agent.phase = "between" /\ agent.turn < MaxTurns
  /\ \E started \in {agent.started} \cup (agent.started .. Len(log)) :
       /\ Len(log) <= started + MaxWaiting
       /\ LET starts == [agent EXCEPT !.phase = "answering", !.turn = @ + 1,
                           !.started = started, !.before = Len(agent.calls)]
          IN IF debug
             THEN /\ agent' = [starts EXCEPT !.posted = Id]
                  /\ Report([type |-> "turn_start", id |-> Id, turn |-> agent.turn + 1])
             ELSE agent' = starts /\ UNCHANGED <<log, late, faults>>
  /\ UNCHANGED debug

TextDelta ==
  /\ agent.phase = "answering" /\ agent.texts < MaxTexts
  /\ agent' = [Posted EXCEPT !.texts = @ + 1]
  /\ \E blank \in BOOLEAN :
       Report([type |-> "token", id |-> Id, turn |-> agent.turn, blank |-> blank])
  /\ UNCHANGED debug

ToolCall(call, tool, status) ==
  Report([type |-> "tool_call", id |-> Id, turn |-> agent.turn, call |-> call,
          tool |-> tool, status |-> status, args |-> status = "running"])

ToolStart ==
  /\ agent.phase \in {"answering", "calling"} /\ Len(agent.calls) < MaxCalls
  /\ \E tool \in Tools :
       /\ agent' = [Posted EXCEPT !.phase = "calling", !.calls = Append(@, tool),
                                  !.open = @ \cup {Len(agent.calls) + 1}]
       /\ ToolCall(Len(agent.calls) + 1, tool, "running")
  /\ UNCHANGED debug

\* Completed or failed.
ToolEnd ==
  /\ \E call \in agent.open :
       /\ agent' = [Posted EXCEPT !.open = @ \ {call}]
       /\ ToolCall(call, agent.calls[call], "ended")
  /\ UNCHANGED debug

TurnEnd ==
  /\ agent.phase \in {"answering", "calling"} /\ agent.open = {}
  /\ agent' = [Posted EXCEPT !.phase = "between"]
  /\ \E thinking \in {"none", "blank", "words"} :
       Report([type |-> "turn_end", id |-> Id, turn |-> agent.turn,
               started |-> agent.started, thinking |-> thinking,
               asks |-> Len(agent.calls) > agent.before])
  /\ UNCHANGED debug

\* The outcome comes last.
ReportStatus ==
  /\ agent.phase = "between" /\ agent.turn > 0
  /\ agent' = [Posted EXCEPT !.phase = "reported"]
  /\ \E status \in {"done", "error"} :
       Report([type |-> "status", id |-> Id, turn |-> agent.turn, status |-> status])
  /\ UNCHANGED debug

Next ==
  \/ Arrive
  \/ Note
  \/ TurnStart
  \/ TextDelta
  \/ ToolStart
  \/ ToolEnd
  \/ TurnEnd
  \/ ReportStatus

Spec == Init /\ [][Next]_vars
=============================================================================
