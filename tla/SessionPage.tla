----------------------------- MODULE SessionPage -----------------------------
(***************************************************************************)
(* The page of one session, as a browser shows it while the session goes   *)
(* on.  Once a second the page asks for the session and for the events of  *)
(* its inactive turns; the events of the active turn come over its stream. *)
(* The session is read by several statements, one request after the other, *)
(* so that what is on the page was never true at one time, and a click is  *)
(* about turns that may have moved on.                                     *)
(*                                                                         *)
(* The stream itself is EventLog's subject, and is here always connected.  *)
(* A message that is removed before its turn began has no events.          *)
(***************************************************************************)
EXTENDS Naturals

CONSTANTS
  LastTurn,     \* the session's turns are 1 .. LastTurn
  MaxEvents     \* bound: events of a turn while it is active, and after that

PageAssumption == LastTurn \in Nat \ {0} /\ MaxEvents \in Nat

VARIABLES
  server,     \* the session row, the rows of its turns and how long their logs are
  detail,     \* useSession: the session as last read
  history,    \* useSession: how many events of each inactive turn it has
  live,       \* useRun: the turn whose stream it reads, and the events it has
  refresh,    \* the refresh under way
  requests,   \* cancellations on their way, with the message to be sent next
  meant       \* what the user wanted of each message

pageVars == <<server, detail, history, live, refresh, requests, meant>>

Turns == 1 .. LastTurn
TurnOrNone == 0 .. LastTurn
Ended == {"ended", "cancelled", "removed"}   \* removed: before it began
Rows == [Turns -> {"absent", "queued", "running"} \cup Ended]
Counts == [Turns -> Nat]

\* What the page tells apart of the rows it reads.
RowsRead == [Turns -> {"absent", "queued", "begun"}]
Reading == [t \in Turns |-> IF server.status[t] \in {"absent", "queued"}
                             THEN server.status[t] ELSE "begun"]

\* A client is not ahead of the log, nor a page of its session.
PageTypeOK ==
  /\ server \in [active : TurnOrNone, status : Rows, log : Counts, atEnd : Counts]
  /\ detail \in [active : TurnOrNone, status : RowsRead]
  /\ history \in Counts
  /\ live \in [turn : TurnOrNone, events : Nat, over : BOOLEAN]
  /\ refresh \in [at : {"none", "session", "runs", "events"}, active : TurnOrNone,
                  status : RowsRead, got : Counts, asking : SUBSET Turns]
  /\ requests \subseteq [from : {"queue", "stop"}, turn : Turns, next : TurnOrNone]
  /\ meant \in [Turns -> {"nothing", "sent", "dropped"}]
  /\ \A t \in Turns : history[t] <= server.log[t]
  /\ live.turn # 0 => live.events <= server.log[live.turn]

NoRows == [t \in Turns |-> "absent"]
None == [t \in Turns |-> 0]
NoRefresh == [at |-> "none", active |-> 0, status |-> NoRows, got |-> None, asking |-> {}]

PageInit ==
  /\ server = [active |-> 0, status |-> NoRows, log |-> None, atEnd |-> None]
  /\ detail = [active |-> 0, status |-> NoRows]
  /\ history = None
  /\ live = [turn |-> 0, events |-> 0, over |-> FALSE]
  /\ refresh = NoRefresh
  /\ requests = {}
  /\ meant = [t \in Turns |-> "nothing"]

client == <<detail, history, live, refresh>>

-----------------------------------------------------------------------------
(* The session. *)

\* POST /sessions/:id/turns: an idle session begins with the turn at once.
QueueTurn(t) ==
  server' = [server EXCEPT !.status[t] = "queued", !.active = IF @ = 0 THEN t ELSE @]

\* This page's user sends a message, or somebody else does: another page, the
\* forge.
Submit ==
  /\ \E t \in Turns :
       /\ server.status[t] = "absent"
       /\ t > 1 => server.status[t - 1] # "absent"
       /\ QueueTurn(t)
  /\ UNCHANGED <<client, requests, meant>>

Advance ==
  /\ \E t \in Turns \cap {server.active} :
       \/ /\ server.status[t] = "queued"
          /\ server' = [server EXCEPT !.status[t] = "running"]
       \/ /\ server.status[t] = "running"
          /\ server' = [server EXCEPT !.status[t] = "ended"]
  /\ UNCHANGED <<client, requests, meant>>

\* A turn tells something, which may reach the log when the turn is over.
LogEvent ==
  /\ \E t \in Turns :
       /\ server.status[t] \in {"running", "ended", "cancelled"}
       /\ server.log[t] < MaxEvents + (IF server.active = t THEN 0 ELSE server.atEnd[t])
       /\ server' = [server EXCEPT !.log[t] = @ + 1]
  /\ UNCHANGED <<client, requests, meant>>

\* The turn is parked and the oldest that waits takes over.  atEnd: what was
\* in its log.
Park ==
  /\ \E t \in Turns \cap {server.active} :
       /\ server.status[t] \in Ended
       /\ LET waiting == {u \in Turns : u > t /\ server.status[u] = "queued"} IN
          server' = [server EXCEPT
            !.atEnd[t] = server.log[t],
            !.active = IF waiting = {} THEN 0
                       ELSE CHOOSE u \in waiting : \A v \in waiting : u <= v]
  /\ UNCHANGED <<client, requests, meant>>

\* Mutated: a turn is interrupted by cancelling what the session is at.
TargetOfSession(request) ==
  IF request.next # 0 /\ server.active # 0 THEN server.active ELSE request.turn

Target(request) == request.turn

\* POST /runs/:runId/cancel: what has ended stays as it is.
HandleCancel ==
  /\ \E request \in requests :
       LET t == Target(request) IN
       /\ requests' = requests \ {request}
       /\ server' = [server EXCEPT !.status[t] =
                       CASE @ = "queued"  -> "removed"
                         [] @ = "running" -> "cancelled"
                         [] OTHER         -> @]
  /\ UNCHANGED <<client, meant>>

-----------------------------------------------------------------------------
(* The page.  One refresh at a time. *)

\* GET /sessions/:id reads the session ...
ReadSession ==
  /\ refresh.at = "none"
  /\ refresh' = [refresh EXCEPT !.at = "runs", !.active = server.active]
  /\ UNCHANGED <<server, detail, history, live, requests, meant>>

\* Mutated: a turn whose stream was read needs nothing more.
InactiveBefore(rows, active) ==
  {t \in Turns : rows[t] # "absent" /\ t \notin {active, live.turn}}

Inactive(rows, active) == {t \in Turns : rows[t] # "absent" /\ t # active}

\* ... and then its turns.
ReadRuns ==
  /\ refresh.at = "runs"
  /\ refresh' = [refresh EXCEPT !.at = "events", !.status = Reading,
                                !.asking = Inactive(Reading, refresh.active)]
  /\ UNCHANGED <<server, detail, history, live, requests, meant>>

\* GET /runs/:runId/events, for all inactive turns at the same time: what is
\* new is merged with what the page has.
ReadEvents ==
  /\ refresh.at = "events"
  /\ \E t \in refresh.asking :
       refresh' = [refresh EXCEPT !.got[t] = server.log[t], !.asking = @ \ {t}]
  /\ UNCHANGED <<server, detail, history, live, requests, meant>>

\* Another turn's stream is read from its beginning.
Followed(turn) ==
  IF live.turn = turn THEN live ELSE [turn |-> turn, events |-> 0, over |-> FALSE]

Refreshed ==
  /\ refresh.at = "events" /\ refresh.asking = {}
  /\ detail' = [active |-> refresh.active, status |-> refresh.status]
  /\ history' = refresh.got
  /\ live' = Followed(refresh.active)
  /\ refresh' = NoRefresh
  /\ UNCHANGED <<server, requests, meant>>

\* One request fails, and the page stays as it is.
RefreshFails ==
  /\ refresh.at # "none"
  /\ refresh' = NoRefresh
  /\ UNCHANGED <<server, detail, history, live, requests, meant>>

\* useRun: the stream sends what the log has; of a turn that has ended it sends
\* the rest and ends.
Stream ==
  /\ live.turn # 0 /\ ~live.over
  /\ \/ live.events < server.log[live.turn] /\ live' = [live EXCEPT !.events = @ + 1]
     \/ /\ server.status[live.turn] \in Ended
        /\ live' = [live EXCEPT !.events = server.log[live.turn], !.over = TRUE]
  /\ UNCHANGED <<server, detail, history, refresh, requests, meant>>

\* sessionRunView: the messages that wait, as far as the page knows.
QueuedRuns == {t \in Turns : detail.status[t] = "queued" /\ t # detail.active}

Shown(t) == IF t = detail.active THEN live.events ELSE history[t]

\* A button waits for the answer to its last request (busyId, cancelling).
Ask(from, turn, next) ==
  /\ \A request \in requests : request.from # from
  /\ requests' = requests \cup {[from |-> from, turn |-> turn, next |-> next]}

\* The button that stops the turn.
Stop ==
  /\ detail.active # 0
  /\ Ask("stop", detail.active, 0)
  /\ meant' = [meant EXCEPT ![detail.active] = "dropped"]
  /\ UNCHANGED <<server, client>>

\* "Remove from queue".
Remove ==
  /\ \E t \in QueuedRuns :
       /\ Ask("queue", t, 0)
       /\ meant' = [meant EXCEPT ![t] = "dropped"]
  /\ UNCHANGED <<server, client>>

\* "Interrupt and send next", at the first message of the queue.
Interrupt ==
  /\ detail.active # 0
  /\ \E t \in QueuedRuns :
       /\ \A u \in QueuedRuns : t <= u
       /\ Ask("queue", detail.active, t)
       /\ meant' = [meant EXCEPT ![t] = IF @ = "dropped" THEN @ ELSE "sent",
                                 ![detail.active] = "dropped"]
  /\ UNCHANGED <<server, client>>

PageNext ==
  \/ Submit \/ Advance \/ LogEvent \/ Park \/ HandleCancel
  \/ ReadSession \/ ReadRuns \/ ReadEvents \/ Refreshed \/ RefreshFails
  \/ Stream
  \/ Stop \/ Remove \/ Interrupt
=============================================================================
