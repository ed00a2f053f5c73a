------------------------------ MODULE RunTrace ------------------------------
(***************************************************************************)
(* How the export tells the events of a run (observability-projection.ts): *)
(* a fold over the log that opens a span for every step and tool call, and *)
(* closes a step when its turn is over and its calls have ended.           *)
(***************************************************************************)
EXTENDS Naturals, SequencesExt

\* output: the turn whose output the run shows as its own, or 0 for its text.
EmptyTrace == [spans |-> << >>, output |-> 0, tokens |-> 0]

\* of: the position of the span it is in, 0 for the run.  to: 0 while it is
\* open.  tools, awaiting: what a step waits for.
Span(name, turn, call, of, from) ==
  [name |-> name, turn |-> turn, call |-> call, of |-> of, from |-> from, to |-> 0,
   tools |-> 0, awaiting |-> FALSE]

OpenSteps(trace, turn) ==
  {i \in DOMAIN trace.spans : /\ trace.spans[i].name = "step" /\ trace.spans[i].to = 0
                              /\ trace.spans[i].turn = turn}
OpenTools(trace, call) ==
  {i \in DOMAIN trace.spans : /\ trace.spans[i].name = "tool" /\ trace.spans[i].to = 0
                              /\ trace.spans[i].call = call}
The(set) == CHOOSE i \in set : TRUE

EnsureStep(trace, turn, from) ==
  IF OpenSteps(trace, turn) # {} THEN trace
  ELSE [trace EXCEPT !.spans = Append(@, Span("step", turn, 0, 0, from))]

\* finishStep: a step with open calls stays open.
Finished(spans, i, at) == IF spans[i].tools > 0 THEN spans ELSE [spans EXCEPT ![i].to = at]

HandleToolStart(trace, at, event) ==
  LET stepped == EnsureStep(trace, event.turn, at)
      step    == The(OpenSteps(stepped, event.turn))
  IN  [stepped EXCEPT !.spans =
         Append([stepped.spans EXCEPT ![step].tools = @ + 1],
                Span("tool", event.turn, event.call, step, at))]

\* The end of a call whose start is not in the log says nothing.
HandleToolEnd(trace, at, event) ==
  IF OpenTools(trace, event.call) = {} THEN trace
  ELSE LET tool  == The(OpenTools(trace, event.call))
           step  == trace.spans[tool].of
           ended == [trace.spans EXCEPT ![tool].to = at, ![step].tools = @ - 1]
       IN [trace EXCEPT !.spans =
             IF ended[step].awaiting /\ ended[step].tools = 0
             THEN Finished(ended, step, at) ELSE ended]

\* Mutated: whatever their calls are doing.
CloseAllEarlierSteps(trace, turn, at) ==
  [trace EXCEPT !.spans =
     [i \in DOMAIN @ |->
        IF @[i].name = "step" /\ @[i].to = 0 /\ @[i].turn < turn
        THEN [@[i] EXCEPT !.to = at] ELSE @[i]]]

CloseEarlierSteps(trace, turn, at) ==
  [trace EXCEPT !.spans =
     [i \in DOMAIN @ |->
        IF @[i].name = "step" /\ @[i].to = 0 /\ @[i].turn < turn /\ @[i].tools = 0
        THEN [@[i] EXCEPT !.to = at] ELSE @[i]]]

HandleTurnEnd(trace, at, event) ==
  LET stepped == EnsureStep(CloseEarlierSteps(trace, event.turn, event.started),
                            event.turn, event.started)
      step    == The(OpenSteps(stepped, event.turn))
      waiting == [stepped.spans EXCEPT ![step].awaiting = event.asks]
      turn    == [Span("turn", event.turn, 0, step, event.started) EXCEPT !.to = at]
  IN  [stepped EXCEPT
         !.spans  = Append(IF event.asks THEN waiting ELSE Finished(waiting, step, at), turn),
         !.output = event.turn]

ProcessEvent(trace, at, event) ==
  CASE event.type = "token"     -> [trace EXCEPT !.tokens = @ + 1]
    [] event.type = "tool_call" -> IF event.status = "running"
                                   THEN HandleToolStart(trace, at, event)
                                   ELSE HandleToolEnd(trace, at, event)
    [] event.type = "turn_end"  -> HandleTurnEnd(trace, at, event)
    [] OTHER                    -> trace

\* projectRun: what is open when the run is over ends with it.
Finish(trace, end) ==
  [trace EXCEPT !.spans =
     [i \in DOMAIN @ |-> IF @[i].to = 0 THEN [@[i] EXCEPT !.to = end] ELSE @[i]]]
=============================================================================
