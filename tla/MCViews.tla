------------------------------- MODULE MCViews -------------------------------
(***************************************************************************)
(* Display for TLC.  Two tools: one that changes a file and one that       *)
(* submits a review.                                                       *)
(***************************************************************************)
EXTENDS Display

MCTools == {[name |-> "edit", path |-> "f"], [name |-> "review", path |-> "none"]}

\* Bound: a text that goes on or begins anew, with notes and the events of debug
\* runs; lines of two calls and a text between them; or two calls alone, whose
\* events wait to be posted and keep their order.
VARIABLE scope

Scopes ==
  {[about |-> "feed", notes |-> 1, texts |-> 2, calls |-> 1, waiting |-> 0],
   [about |-> "feed", notes |-> 0, texts |-> 1, calls |-> 2, waiting |-> 0],
   [about |-> "feed", notes |-> 0, texts |-> 0, calls |-> 2, waiting |-> 3],
   [about |-> "page", notes |-> 0, texts |-> 0, calls |-> 0, waiting |-> 0]}

InScope ==
  /\ agent'.turn = 0 => agent'.posted <= scope.notes
  /\ agent'.texts <= scope.texts /\ Len(agent'.calls) <= scope.calls
  /\ scope.waiting > 0 => late' = NoEvent
  /\ agent'.turn # agent.turn => Len(log) <= agent'.started + scope.waiting

MCInit ==
  /\ DisplayInit
  /\ scope \in {s \in Scopes : s.about = concern /\ (debug => s.notes > 0)}

MCNext == (Feed \/ Page) /\ InScope /\ UNCHANGED scope

MCSpec == MCInit /\ [][MCNext]_<<concern, vars, views, pageVars, scope>>
=============================================================================
