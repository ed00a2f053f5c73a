------------------------------- MODULE Display -------------------------------
(***************************************************************************)
(* What a browser shows of a session: the page with its turns              *)
(* (SessionPage), and within the page the feed of one turn, which is also  *)
(* what the exported trace is made of (Views).  The page decides whose     *)
(* events there are, the feed what is made of them; a behaviour is about   *)
(* one of them.                                                            *)
(***************************************************************************)
EXTENDS Views

CONSTANTS Concerns,             \* bound: which of "feed" and "page" it is about
          LastTurn, MaxEvents

VARIABLES concern, server, detail, history, live, refresh, requests, meant

P == INSTANCE SessionPage

ASSUME DisplayAssumption == P!PageAssumption /\ Concerns \subseteq {"feed", "page"}

pageVars == <<server, detail, history, live, refresh, requests, meant>>

AllTypeOK == TypeOK /\ P!PageTypeOK

DisplayInit == ViewsInit /\ P!PageInit /\ concern \in Concerns /\ (concern = "page" => ~debug)

Feed ==
  /\ concern = "feed"
  /\ Next /\ Folded
  /\ UNCHANGED <<concern, pageVars>>

Page ==
  /\ concern = "page"
  /\ P!PageNext
  /\ UNCHANGED <<concern, vars, views>>

DisplaySpec == DisplayInit /\ [][Feed \/ Page]_<<concern, vars, views, pageVars>>

-----------------------------------------------------------------------------
\* The message that the user wants to be sent next is never cancelled in place
\* of the turn that it should have interrupted, however old the page is.
InterruptSparesNext ==
  \A t \in P!Turns : meant[t] = "sent" => server.status[t] \notin {"cancelled", "removed"}

\* What the page shows of a turn stays when the turn is no longer followed and
\* its events come with the history: all but what was logged when the session
\* had left the turn.  (A page that begins to follow a turn replays it.)
NothingVanishes ==
  [][\A t \in P!Turns :
       \/ P!Shown(t)' >= P!Shown(t)
       \/ detail.active = t /\ P!Shown(t)' >= server.atEnd[t]
       \/ detail'.active = t /\ detail.active # t]_<<detail, history, live>>
=============================================================================
