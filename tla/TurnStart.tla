----------------------------- MODULE TurnStart -----------------------------
(***************************************************************************)
(* What a turn starts from: the image and the plugins its machine is given *)
(* (Preparation), the workspace, the conversation and the baseline of its  *)
(* diff (Conversation).  The two parts write different columns and do not  *)
(* wait for each other, so that a behaviour may be about one of them.      *)
(***************************************************************************)
EXTENDS Preparation, SequencesExt

CONSTANTS Concerns,   \* bound: which of "machine" and "conversation" it is about
          ATTEMPTS, FaultKinds, MaxFaults

VARIABLES concern, chat, turn, machine, wire, diffs, faults

C == INSTANCE Conversation WITH session <- chat

ASSUME ConcernAssumption ==
  /\ C!ConversationAssumption
  /\ Concerns \subseteq {"machine", "conversation"}

conversationVars == <<chat, turn, machine, wire, diffs, faults>>

AllTypeOK == TypeOK /\ C!ConversationTypeOK

StartInit ==
  /\ Init /\ C!ConversationInit
  /\ concern \in Concerns
  /\ concern = "conversation" =>
       scope = [about |-> "plugins", workers |-> {}, changes |-> 0]
  /\ concern = "machine" => scope.workers # {}

Machine ==
  /\ concern = "machine"
  /\ Next
  /\ UNCHANGED <<concern, conversationVars>>

Talk ==
  /\ concern = "conversation"
  /\ C!ConversationNext
  /\ UNCHANGED <<concern, vars>>

StartNext == Machine \/ Talk

StartSpec == StartInit /\ [][StartNext]_<<concern, vars, conversationVars>>

-----------------------------------------------------------------------------
\* No turn takes away what an earlier one added to the conversation: not by a
\* save that arrives when the next turn is under way, nor by one made from a
\* conversation that could not be restored.
TalkMovesForward == [][IsPrefix(chat.talk, chat'.talk)]_chat

\* A turn that succeeded is remembered: by the session and by the agent of
\* every later turn.
SuccessIsRemembered == \A t \in Turns : turn[t].status = "succeeded" =>
  /\ t \in ToSet(chat.talk)
  /\ machine.turn > t /\ machine.stage \in {"save", "diff"} => t \in ToSet(machine.talk)

\* A diff shows every edit in the workspace, whichever turn made and committed
\* it - unless an agent began before the controller had a baseline: its report
\* was lost, or the turn was already being parked.
DiffShowsEveryEdit == \A d \in diffs :
  d.hidden # {} => \E t \in d.hidden : turn[t].early
=============================================================================
