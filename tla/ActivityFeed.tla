---------------------------- MODULE ActivityFeed ----------------------------
(***************************************************************************)
(* How the browser shows the events of a run (web/lib/foldActivityEvents): *)
(* a fold over the log that makes blocks of text, thoughts, lines of tool  *)
(* calls and logs, and statuses; consecutive lines become one group, and   *)
(* the files that calls changed are summed up below.                       *)
(***************************************************************************)
EXTENDS Naturals, SequencesExt

\* blocks: the flat list.  start: where the text of the turn begins, or 0.
EmptyFeed == [blocks |-> << >>, start |-> 0]

Push(feed, block) == [feed EXCEPT !.blocks = Append(@, block)]

Longer(block, event) ==
  [block EXCEPT !.text = Append(@, event.id), !.blank = @ /\ event.blank]

FoldToken(feed, seq, event) ==
  LET last == Len(feed.blocks) IN
  IF last > 0 /\ feed.blocks[last].kind = "assistant" /\ feed.start # 0
  THEN [feed EXCEPT !.blocks[last] = Longer(@, event)]
  ELSE [Push(feed, [key |-> <<"assistant", seq>>, kind |-> "assistant",
                    text |-> <<event.id>>, blank |-> event.blank])
        EXCEPT !.start = IF @ = 0 THEN last + 1 ELSE @]

LinesOf(feed, kind, call) ==
  {i \in DOMAIN feed.blocks : feed.blocks[i].kind = kind /\ feed.blocks[i].call = call}

Updated(feed, lines, event) ==
  [feed EXCEPT !.blocks =
     [i \in DOMAIN @ |-> IF i \in lines THEN [@[i] EXCEPT !.status = event.status]
                                        ELSE @[i]]]

Line(kind, event) ==
  [key |-> <<kind, event.call>>, kind |-> kind, call |-> event.call,
   tool |-> event.tool, args |-> event.args, status |-> event.status]

\* The arguments tell whether it is a review, and the end of a call has none.
IsReview(event) == event.tool.name = "review" /\ event.args

\* Mutated: every event of a call is a line of its own.
FoldToolAlways(feed, event) ==
  Push(feed, Line(IF IsReview(event) THEN "review" ELSE "tool", event))

FoldTool(feed, event) ==
  LET reviews == LinesOf(feed, "review", event.call)
      tools   == LinesOf(feed, "tool", event.call)
  IN  IF reviews # {} THEN Updated(feed, reviews, event)
      ELSE IF IsReview(event) THEN Push(feed, Line("review", event))
      ELSE IF tools # {} THEN Updated(feed, tools, event)
      ELSE Push(feed, Line("tool", event))

\* A run that succeeded says so elsewhere.
FoldStatus(feed, seq, event) ==
  IF event.status = "done" THEN feed
  ELSE Push(feed, [key |-> <<"status", seq>>, kind |-> "status"])

Thoughts(seq, event) ==
  [key |-> <<"thinking", seq>>, kind |-> "thinking", turn |-> event.turn,
   blank |-> event.thinking = "blank"]

BeforeText(feed) == IF feed.start = 0 THEN Len(feed.blocks) + 1 ELSE feed.start

\* Mutated: the next turn's thoughts look for the same text.
FoldTurnThinkingKeepsStart(feed, seq, event) ==
  IF event.thinking = "none" THEN feed
  ELSE [feed EXCEPT !.blocks = InsertAt(@, BeforeText(feed), Thoughts(seq, event))]

\* The thoughts of a turn come with its end, and belong before its text.
FoldTurnThinking(feed, seq, event) ==
  [blocks |-> IF event.thinking = "none" THEN feed.blocks
              ELSE InsertAt(feed.blocks, BeforeText(feed), Thoughts(seq, event)),
   start  |-> 0]

FoldEvent(feed, seq, event) ==
  CASE event.type = "token"      -> FoldToken(feed, seq, event)
    [] event.type = "tool_call"  -> FoldTool(feed, event)
    [] event.type = "status"     -> FoldStatus(feed, seq, event)
    [] event.type = "turn_start" -> [feed EXCEPT !.start = 0]
    [] event.type = "turn_end"   -> FoldTurnThinking(feed, seq, event)
    [] event.type = "note"       -> Push(feed, [key |-> <<"log", seq>>, kind |-> "log"])

-----------------------------------------------------------------------------

\* Text and thoughts that are white space are not shown.
Visible(block) == block.kind \in {"assistant", "thinking"} => ~block.blank

IsWork(block) == block.kind \in {"tool", "log"}

\* Mutated: a group is known by its newest line.
GroupedByNewest(groups, block) ==
  LET last == Len(groups)
      key  == <<"work", block.key[1], block.key[2]>>
  IN  IF ~Visible(block) THEN groups
      ELSE IF ~IsWork(block) THEN Append(groups, block)
      ELSE IF last > 0 /\ groups[last].kind = "work"
      THEN [groups EXCEPT ![last] = [key |-> key, kind |-> "work", items |-> Append(@.items, block)]]
      ELSE Append(groups, [key |-> key, kind |-> "work", items |-> <<block>>])

\* What is not shown is left out first, so that it parts no lines.
Grouped(groups, block) ==
  LET last == Len(groups) IN
  IF ~Visible(block) THEN groups
  ELSE IF ~IsWork(block) THEN Append(groups, block)
  ELSE IF last > 0 /\ groups[last].kind = "work"
  THEN [groups EXCEPT ![last].items = Append(@, block)]
  ELSE Append(groups, [key |-> <<"work", block.key[1], block.key[2]>>, kind |-> "work",
                       items |-> <<block>>])

GroupWork(blocks) == FoldLeft(Grouped, << >>, blocks)

\* A line that changed a file; how its call ended is not asked.
ChangesFile(line) == line.kind = "tool" /\ line.args /\ line.tool.name \in {"edit", "write"}

Items(blocks) ==
  FlattenSeq([i \in DOMAIN blocks |->
                IF blocks[i].kind = "work" THEN blocks[i].items ELSE << >>])

MergeFileStat(files, line) ==
  LET same == {i \in DOMAIN files : files[i].path = line.tool.path} IN
  IF ~ChangesFile(line) THEN files
  ELSE IF same = {} THEN Append(files, [path |-> line.tool.path, edits |-> 1])
  ELSE [i \in DOMAIN files |-> IF i \in same THEN [files[i] EXCEPT !.edits = @ + 1]
                                             ELSE files[i]]

CollectFileChanges(blocks) == FoldLeft(MergeFileStat, << >>, Items(blocks))

AppendChangeStats(blocks) ==
  LET files == CollectFileChanges(blocks) IN
  IF files = << >> THEN blocks
  ELSE Append(blocks, [key |-> <<"changes", 0>>, kind |-> "changes", files |-> files])

Shown(feed) == AppendChangeStats(GroupWork(feed.blocks))
=============================================================================
