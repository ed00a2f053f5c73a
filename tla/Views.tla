-------------------------------- MODULE Views --------------------------------
(***************************************************************************)
(* One log and what is made of it: the feed that the browser shows while   *)
(* the run goes on, and the trace that is exported when it is over.  Both  *)
(* are folds over the same events, and neither reads the other.  They are  *)
(* computed anew from the whole log in the code; here each event of the    *)
(* log is folded once.                                                     *)
(***************************************************************************)
EXTENDS AgentEvents, ActivityFeed, RunTrace

VARIABLES feed, trace

views == <<feed, trace>>

ViewsInit == Init /\ feed = EmptyFeed /\ trace = EmptyTrace

Folded ==
  IF log' = log THEN UNCHANGED views
  ELSE LET seq == Len(log') IN
       /\ feed'  = FoldEvent(feed, seq, log'[seq])
       /\ trace' = ProcessEvent(trace, seq, log'[seq])

-----------------------------------------------------------------------------
(* Properties *)

\* Nothing in the log is behind what was reported after it.
InOrder == \A i, j \in DOMAIN log : i < j => log[i].id < log[j].id

Logged(type, turn) == \E i \in DOMAIN log : log[i].type = type /\ log[i].turn = turn

Starts(call) ==
  {i \in DOMAIN log : /\ log[i].type = "tool_call" /\ log[i].call = call
                      /\ log[i].status = "running"}
Ends(call) ==
  {i \in DOMAIN log : /\ log[i].type = "tool_call" /\ log[i].call = call
                      /\ log[i].status # "running"}
LinesOfCall(call) == LinesOf(feed, "tool", call) \cup LinesOf(feed, "review", call)

TextsOf(turn) ==
  LET ids == {log[j].id : j \in {j \in DOMAIN log : log[j].type = "token" /\ log[j].turn = turn}}
  IN  {i \in DOMAIN feed.blocks : /\ feed.blocks[i].kind = "assistant"
                                  /\ ids \cap ToSet(feed.blocks[i].text) # {}}

\* The pieces of text that an event brings, and that a block shows.
TextOfEvent(e) == IF e.type = "token" THEN <<e.id>> ELSE << >>
TextOfBlock(block) == IF block.kind = "assistant" THEN block.text ELSE << >>

\* The blocks have each piece of text of the log once, and in its order, and
\* those that the browser does not show are white space from end to end.
TextIsWhole ==
  /\ FlattenSeq([b \in DOMAIN feed.blocks |-> TextOfBlock(feed.blocks[b])]) =
       FlattenSeq([i \in DOMAIN log |-> TextOfEvent(log[i])])
  /\ \A b \in DOMAIN feed.blocks, i \in DOMAIN log :
       /\ ~Visible(feed.blocks[b])
       /\ log[i].type = "token" /\ log[i].id \in ToSet(TextOfBlock(feed.blocks[b]))
       => log[i].blank

\* Each call is on one line; a review whose start came after its end is on two.
CallsAreShown ==
  \A call \in Calls :
    LET lines == Cardinality(LinesOfCall(call)) IN
    IF Starts(call) \cup Ends(call) = {} THEN lines = 0
    ELSE \/ lines = 1
         \/ lines = 2 /\ \E i \in Starts(call), j \in Ends(call) : j < i

ChangesOf(path) ==
  {i \in DOMAIN feed.blocks : ChangesFile(feed.blocks[i]) /\ feed.blocks[i].tool.path = path}

\* The summary has each file that a line changed, once, with all its changes.
ChangesAreSummed ==
  LET merged == CollectFileChanges(GroupWork(feed.blocks)) IN
  /\ \A i, j \in DOMAIN merged : merged[i].path = merged[j].path => i = j
  /\ \A i \in DOMAIN merged : merged[i].edits = Cardinality(ChangesOf(merged[i].path))
  /\ \A i \in DOMAIN feed.blocks : ChangesFile(feed.blocks[i]) =>
       \E j \in DOMAIN merged : merged[j].path = feed.blocks[i].tool.path

\* Whatever is lost or late, the browser shows each piece of text of the log
\* once and in its order, each call on its line, and every change of a file
\* once in the summary.
FeedHasEverything == TextIsWhole /\ CallsAreShown /\ ChangesAreSummed

\* Where each thing is shown: alone, or in a group.
Places(shown) ==
  FlattenSeq([i \in DOMAIN shown |->
    IF shown[i].kind # "work" THEN << <<shown[i].key, shown[i].key>> >>
    ELSE [j \in DOMAIN shown[i].items |-> <<shown[i].key, shown[i].items[j].key>>]])

\* The line at k is in a group that begins behind thoughts that were not there.
Parted(old, new, k) ==
  \E l \in 1 .. k - 1 :
    /\ new[l][2][1] = "thinking" /\ \A i \in DOMAIN old : old[i][2] # new[l][2]
    /\ new[k][1] = <<"work", new[l + 1][2][1], new[l + 1][2][2]>>

\* All that was there still is, in the same order and group, and nothing is there
\* twice; where a group may be parted, lines may be in its second part.
Grown(old, new, parts) ==
  /\ \A k, l \in DOMAIN new : new[k][2] = new[l][2] => k = l
  /\ \A i \in DOMAIN old : \E k \in DOMAIN new :
       /\ new[k][2] = old[i][2]
       /\ \A j \in 1 .. i - 1 : \E l \in 1 .. k - 1 : new[l][2] = old[j][2]
       /\ \/ new[k][1] = old[i][1]
          \/ parts /\ Parted(old, new, k)

\* The text of the turn began with white space, which is not shown and parts
\* no lines, but has the thoughts of the turn before it.
TextIsHidden == feed.start # 0 /\ ~Visible(feed.blocks[feed.start])

\* What the browser shows stays where it is, in the group that the reader may
\* have opened, while the run goes on: things come in between, none moves.  Only
\* the thoughts of a turn part the group that they come into, and that only
\* when there is text of the turn in it that is not shown.
FeedOnlyGrows ==
  [][\E before \in {GroupWork(feed.blocks)}, after \in {GroupWork(feed'.blocks)} :
       \E old \in {Places(before)}, new \in {Places(after)} :
         Grown(old, new, TextIsHidden)]_feed

\* Where nothing came late and no turn's end was lost (or the run reports the
\* turns' beginnings as well), the thoughts of a turn are shown before its
\* text and after the text of every turn before it.
ThoughtsPrecedeAnswers ==
  InOrder => \A i \in DOMAIN feed.blocks : feed.blocks[i].kind = "thinking" =>
    LET turn == feed.blocks[i].turn IN
    (\A t \in 1 .. turn - 1 : Logged("turn_end", t) \/ Logged("turn_start", t + 1))
    => /\ \A j \in TextsOf(turn) : i < j
       /\ \A t \in 1 .. turn - 1 : \A j \in TextsOf(t) : j < i

\* The step was over when a later turn began, or so the later turn's end said
\* when the log had the end of the call.
EndedByLater(step, tool) ==
  \E j \in DOMAIN log : /\ log[j].type = "turn_end" /\ log[j].turn > tool.turn
                        /\ log[j].started = step.to /\ tool.to < j

\* In the trace a turn is one step, and every call is in its turn's step, which
\* begins before it and does not end while the call is under way: it ends with
\* the call or later, or once the call has ended at the time when the next
\* turn began, as long as nothing came late; events may be lost.
StepsHoldTheirTools ==
  InOrder =>
    LET spans == Finish(trace, Len(log) + 1).spans IN
    /\ \A i \in DOMAIN spans : spans[i].name = "tool" =>
         LET step == spans[spans[i].of] IN
         /\ step.turn = spans[i].turn /\ step.from <= spans[i].from
         /\ spans[i].to <= step.to \/ EndedByLater(step, spans[i])
    /\ \A i, j \in DOMAIN spans :
         spans[i].name = "step" /\ spans[j].name = "step" /\ spans[i].turn = spans[j].turn => i = j
=============================================================================
