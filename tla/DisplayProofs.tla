---------------------------- MODULE DisplayProofs ----------------------------
(***************************************************************************)
(* Proofs about what a browser and an exported trace show of a session     *)
(* (Display), in the order of what they rest on: the page, which rests on   *)
(* nothing; what the agent reports (AgentInv); the trace of it (TraceInv);  *)
(* the text and the thoughts of the feed (FeedInv); its lines (LinesHold).  *)
(***************************************************************************)
EXTENDS Display, WellFoundedInduction, FiniteSetTheorems, TLAPS

\* A step is of the feed or of the page.
DisplayNext == Feed \/ Page

-----------------------------------------------------------------------------
(* The page. *)

\* What the server, the page and the requests under way may be.
PageTypes ==
  /\ server \in [active : P!TurnOrNone, status : P!Rows, log : P!Counts, atEnd : P!Counts]
  /\ detail \in [active : P!TurnOrNone, status : P!RowsRead]
  /\ history \in P!Counts
  /\ live \in [turn : P!TurnOrNone, events : Nat, over : BOOLEAN]
  /\ refresh \in [at : {"none", "session", "runs", "events"}, active : P!TurnOrNone,
                  status : P!RowsRead, got : P!Counts, asking : SUBSET P!Turns]
  /\ requests \subseteq [from : {"queue", "stop"}, turn : P!Turns, next : P!TurnOrNone]
  /\ meant \in [P!Turns -> {"nothing", "sent", "dropped"}]

\* A cancellation is of a turn that the user gave up, whatever became of the turn.
SpareInv ==
  /\ \A request \in requests : meant[request.turn] = "dropped"
  /\ \A t \in P!Turns : server.status[t] \in {"cancelled", "removed"} => meant[t] = "dropped"

\* Turn t was the session's once and is not to be its again.
Over(t) == server.status[t] \in P!Ended /\ t # server.active

\* A turn that a client knows as active is that, or over.
Came(t) == t = 0 \/ t = server.active \/ server.status[t] \in P!Ended

\* The log has what a page may have read of it, and only of turns that exist.
CountInv == \A t \in P!Turns :
  /\ history[t] <= server.log[t]
  /\ refresh.got[t] <= server.log[t]
  /\ server.atEnd[t] <= server.log[t]
  /\ server.log[t] > 0 => server.status[t] # "absent"
  /\ t = live.turn => live.events <= server.log[t]

\* The stream is the active turn's.  A refresh that found another turn active came
\* after the end of the one that the page follows, and reads all of its log.
RefreshInv ==
  /\ live.turn = detail.active
  /\ server.active # 0 => server.status[server.active] # "absent"
  /\ Came(detail.active)
  /\ refresh.at # "none" => Came(refresh.active)
  /\ refresh.at # "none" /\ detail.active \notin {0, refresh.active} => Over(detail.active)
  /\ refresh.at = "events" => \A t \in P!Turns \ refresh.asking : t # refresh.active =>
       /\ refresh.got[t] >= history[t]
       /\ t = detail.active => refresh.got[t] >= server.atEnd[t]

\* The invariant of the page.
PageInv == PageTypes /\ SpareInv /\ CountInv /\ RefreshInv

-----------------------------------------------------------------------------
\* What the constants are.
LEMMA TurnsAre ==
  /\ LastTurn \in Nat \ {0} /\ P!Turns \subseteq Nat \ {0} /\ P!TurnOrNone = {0} \cup P!Turns
BY DisplayAssumption DEF P!PageAssumption, P!Turns, P!TurnOrNone

\* Numbers by size.
NatLess == {p \in Nat \X Nat : p[1] < p[2]}

\* A set of numbers that is not empty has a least one.
LEMMA LeastOf ==
  ASSUME NEW S \in SUBSET Nat, S # {}
  PROVE  \E u \in S : \A w \in S : u <= w
<1>1. IsWellFoundedOn(NatLess, Nat)
  BY NatLessThanWellFounded DEF OpToRel, NatLess
<1>2. PICK x \in S : \A y \in S : ~ (<<y, x>> \in NatLess)
  BY <1>1, WFMin
<1>3. ASSUME NEW w \in S PROVE x <= w
  <2>1. w \in Nat /\ x \in Nat
    OBVIOUS
  <2>2. ~ (w < x)
    BY <1>2, <2>1 DEF NatLess
  <2>. QED BY <2>1, <2>2
<1>. QED BY <1>3

\* A session without turns, and a page that has read nothing of it.
LEMMA PageStarts ==
  ASSUME P!PageInit
  PROVE  PageInv
<1>. USE TurnsAre DEF P!PageInit, P!NoRefresh, P!None, P!NoRows
<1>1. PageTypes
  BY DEF PageTypes, P!Rows, P!RowsRead, P!Counts
<1>2. SpareInv
  BY DEF SpareInv
<1>3. CountInv
  BY DEF CountInv
<1>4. RefreshInv
  BY DEF RefreshInv, Came, Over
<1>. QED BY <1>1, <1>2, <1>3, <1>4 DEF PageInv

\* The row of the session when a message is queued.
LEMMA SubmitKeeps ==
  ASSUME PageInv, P!Submit
  PROVE  PageInv'
<1>. USE TurnsAre DEF P!client
<1>1. PICK t \in P!Turns : server.status[t] = "absent" /\ P!QueueTurn(t)
  BY DEF P!Submit
<1>2. UNCHANGED <<detail, history, live, refresh, requests, meant>>
  BY DEF P!Submit
<1>3. /\ server' = [server EXCEPT !.status[t] = "queued",
                                  !.active = IF server.active = 0 THEN t ELSE server.active]
      /\ server'.status = [server.status EXCEPT ![t] = "queued"]
      /\ server'.active = IF server.active = 0 THEN t ELSE server.active
      /\ server'.log = server.log /\ server'.atEnd = server.atEnd
  BY <1>1 DEF P!QueueTurn, PageInv, PageTypes
<1>4. \A u \in P!Turns : server'.status[u] = IF u = t THEN "queued" ELSE server.status[u]
  BY <1>3 DEF PageInv, PageTypes, P!Rows
<1>5. PageTypes'
  BY <1>2, <1>3 DEF PageInv, PageTypes, P!Rows
<1>6. SpareInv'
  BY <1>2, <1>4 DEF PageInv, PageTypes, SpareInv
<1>7. CountInv'
  BY <1>2, <1>3, <1>4 DEF PageInv, CountInv
<1>8. ASSUME NEW x \in P!TurnOrNone, Came(x) PROVE Came(x)'
  BY <1>1, <1>3, <1>4, <1>8 DEF Came, P!Ended
<1>9. ASSUME NEW x \in P!Turns, Over(x) PROVE Over(x)'
  BY <1>1, <1>3, <1>4, <1>9 DEF Over, P!Ended
<1>10. detail.active \in P!TurnOrNone /\ refresh.active \in P!TurnOrNone
  BY DEF PageInv, PageTypes
<1>11. server'.active # 0 => server'.status[server'.active] # "absent"
  BY <1>1, <1>3, <1>4 DEF PageInv, PageTypes, RefreshInv
<1>12. RefreshInv'
  BY <1>2, <1>3, <1>8, <1>9, <1>10, <1>11 DEF PageInv, RefreshInv
<1>. QED BY <1>5, <1>6, <1>7, <1>12 DEF PageInv

\* The active turn is claimed, or ends.
LEMMA AdvanceKeeps ==
  ASSUME PageInv, P!Advance
  PROVE  PageInv'
<1>. USE TurnsAre DEF P!client
<1>1. PICK t \in P!Turns \cap {server.active}, s \in {"running", "ended"} :
        /\ server.status[t] \in {"queued", "running"}
        /\ server' = [server EXCEPT !.status[t] = s]
  BY DEF P!Advance
<1>2. UNCHANGED <<detail, history, live, refresh, requests, meant>>
  BY DEF P!Advance
<1>3. /\ server'.status = [server.status EXCEPT ![t] = s]
      /\ server'.active = server.active
      /\ server'.log = server.log /\ server'.atEnd = server.atEnd
      /\ \A u \in P!Turns : server'.status[u] = IF u = t THEN s ELSE server.status[u]
  BY <1>1 DEF PageInv, PageTypes, P!Rows
<1>4. PageTypes'
  BY <1>1, <1>2, <1>3 DEF PageInv, PageTypes, P!Rows, P!Ended
<1>5. SpareInv'
  BY <1>2, <1>3 DEF PageInv, PageTypes, SpareInv
<1>6. CountInv'
  BY <1>1, <1>2, <1>3 DEF PageInv, CountInv
<1>7. ASSUME NEW x \in P!TurnOrNone, Came(x) PROVE Came(x)'
  BY <1>1, <1>3, <1>7 DEF Came, P!Ended
<1>8. ASSUME NEW x \in P!Turns, Over(x) PROVE Over(x)'
  BY <1>1, <1>3, <1>8 DEF Over, P!Ended
<1>9. detail.active \in P!TurnOrNone /\ refresh.active \in P!TurnOrNone
      /\ server.active \in P!TurnOrNone
  BY DEF PageInv, PageTypes
<1>10. RefreshInv'
  BY <1>1, <1>2, <1>3, <1>7, <1>8, <1>9 DEF PageInv, RefreshInv
<1>. QED BY <1>4, <1>5, <1>6, <1>10 DEF PageInv

\* A turn tells something, perhaps when it is over.
LEMMA LogEventKeeps ==
  ASSUME PageInv, P!LogEvent
  PROVE  PageInv'
<1>. USE TurnsAre DEF P!client
<1>1. PICK t \in P!Turns :
        /\ server.status[t] \in {"running", "ended", "cancelled"}
        /\ server' = [server EXCEPT !.log[t] = server.log[t] + 1]
  BY DEF P!LogEvent
<1>2. UNCHANGED <<detail, history, live, refresh, requests, meant>>
  BY DEF P!LogEvent
<1>3. /\ server'.log = [server.log EXCEPT ![t] = server.log[t] + 1]
      /\ server'.status = server.status /\ server'.active = server.active
      /\ server'.atEnd = server.atEnd
      /\ \A u \in P!Turns : server'.log[u] = IF u = t THEN server.log[t] + 1 ELSE server.log[u]
  BY <1>1 DEF PageInv, PageTypes, P!Counts
<1>4. PageTypes'
  BY <1>1, <1>2, <1>3 DEF PageInv, PageTypes, P!Counts
<1>5. SpareInv'
  BY <1>2, <1>3 DEF PageInv, SpareInv
<1>6. CountInv'
  BY <1>1, <1>2, <1>3 DEF PageInv, PageTypes, P!Counts, CountInv
<1>7. RefreshInv'
  BY <1>2, <1>3 DEF PageInv, RefreshInv, Came, Over
<1>. QED BY <1>4, <1>5, <1>6, <1>7 DEF PageInv

\* The turn is parked and the oldest that waits takes over.
LEMMA ParkKeeps ==
  ASSUME PageInv, P!Park
  PROVE  PageInv'
<1>. USE TurnsAre DEF P!client
<1>. DEFINE waiting(t) == {u \in P!Turns : u > t /\ server.status[u] = "queued"}
            next(t) == IF waiting(t) = {} THEN 0
                       ELSE CHOOSE u \in waiting(t) : \A v \in waiting(t) : u <= v
<1>1. PICK t \in P!Turns \cap {server.active} :
        /\ server.status[t] \in P!Ended
        /\ server' = [server EXCEPT !.atEnd[t] = server.log[t], !.active = next(t)]
  BY Zenon DEF P!Park
<1>2. UNCHANGED <<detail, history, live, refresh, requests, meant>>
  BY DEF P!Park
<1>3. \/ next(t) = 0
      \/ next(t) \in P!Turns /\ server.status[next(t)] = "queued"
  <2>. SUFFICES ASSUME waiting(t) # {}
                PROVE  (CHOOSE u \in waiting(t) : \A v \in waiting(t) : u <= v) \in waiting(t)
    OBVIOUS
  <2>1. PICK u \in waiting(t) : \A v \in waiting(t) : u <= v
    BY LeastOf, waiting(t) \in SUBSET Nat
  <2>. QED BY <2>1
<1>. HIDE DEF next
<1>4. /\ server'.atEnd = [server.atEnd EXCEPT ![t] = server.log[t]]
      /\ server'.status = server.status /\ server'.active = next(t)
      /\ server'.log = server.log
      /\ \A u \in P!Turns : server'.atEnd[u] = IF u = t THEN server.log[t] ELSE server.atEnd[u]
  BY <1>1 DEF PageInv, PageTypes, P!Counts
<1>5. PageTypes'
  BY <1>1, <1>2, <1>3, <1>4 DEF PageInv, PageTypes, P!Counts
<1>6. SpareInv'
  BY <1>2, <1>4 DEF PageInv, SpareInv
<1>7. CountInv'
  BY <1>1, <1>2, <1>4 DEF PageInv, PageTypes, P!Counts, CountInv
<1>8. ASSUME NEW x \in P!TurnOrNone, Came(x) PROVE Came(x)'
  BY <1>1, <1>4, <1>8 DEF Came
<1>9. ASSUME NEW x \in P!Turns, Over(x) PROVE Over(x)' /\ x # t
  BY <1>1, <1>3, <1>4, <1>9 DEF Over, P!Ended
<1>10. detail.active \in P!TurnOrNone /\ refresh.active \in P!TurnOrNone
  BY DEF PageInv, PageTypes
<1>11. server'.active # 0 => server'.status[server'.active] # "absent"
  BY <1>3, <1>4
<1>12. RefreshInv'
  <2>1. /\ live'.turn = detail'.active
        /\ Came(detail.active)'
        /\ refresh'.at # "none" => Came(refresh.active)'
        /\ refresh'.at # "none" /\ detail'.active \notin {0, refresh'.active} => Over(detail.active)'
    BY <1>2, <1>8, <1>9, <1>10 DEF PageInv, RefreshInv
  <2>2. ASSUME refresh.at = "events", NEW u \in P!Turns \ refresh.asking, u # refresh.active
        PROVE  /\ refresh.got[u] >= history[u]
               /\ u = detail.active => refresh.got[u] >= server'.atEnd[u]
    BY <2>2, <1>4, <1>9, <1>10 DEF PageInv, RefreshInv
  <2>. QED BY <2>1, <2>2, <1>2, <1>11 DEF RefreshInv, Came
<1>. QED BY <1>5, <1>6, <1>7, <1>12 DEF PageInv

\* A cancellation arrives, of the turn that the page meant (handleCancel).
LEMMA HandleCancelKeeps ==
  ASSUME PageInv, P!HandleCancel
  PROVE  PageInv'
<1>. USE TurnsAre DEF P!client
<1>1. PICK request \in requests :
        /\ requests' = requests \ {request}
        /\ server' = [server EXCEPT !.status[request.turn] =
                        CASE @ = "queued"  -> "removed"
                          [] @ = "running" -> "cancelled"
                          [] OTHER         -> @]
  BY DEF P!HandleCancel, P!Target
<1>2. UNCHANGED <<detail, history, live, refresh, meant>>
  BY DEF P!HandleCancel
<1>. DEFINE t == request.turn
            s == CASE server.status[t] = "queued"  -> "removed"
                   [] server.status[t] = "running" -> "cancelled"
                   [] OTHER -> server.status[t]
<1>3. t \in P!Turns /\ meant[t] = "dropped"
  BY <1>1 DEF PageInv, PageTypes, SpareInv
<1>4. /\ \/ server.status[t] \in {"queued", "running"} /\ s \in P!Ended
         \/ s = server.status[t]
      /\ s \in {"absent", "queued", "running"} \cup P!Ended
  BY <1>3 DEF PageInv, PageTypes, P!Rows, P!Ended
<1>5. server' = [server EXCEPT !.status[t] = s]
  BY <1>1
<1>. HIDE DEF s, t
<1>6. /\ server'.status = [server.status EXCEPT ![t] = s]
      /\ server'.active = server.active
      /\ server'.log = server.log /\ server'.atEnd = server.atEnd
      /\ \A u \in P!Turns : server'.status[u] = IF u = t THEN s ELSE server.status[u]
  BY <1>3, <1>5 DEF PageInv, PageTypes, P!Rows
<1>7. PageTypes'
  BY <1>1, <1>2, <1>4, <1>6 DEF PageInv, PageTypes, P!Rows
<1>8. SpareInv'
  BY <1>1, <1>2, <1>3, <1>4, <1>6 DEF PageInv, SpareInv
<1>9. CountInv'
  BY <1>2, <1>4, <1>6 DEF PageInv, CountInv, P!Ended
<1>10. ASSUME NEW x \in P!TurnOrNone, Came(x) PROVE Came(x)'
  BY <1>4, <1>6, <1>10 DEF Came
<1>11. ASSUME NEW x \in P!Turns, Over(x) PROVE Over(x)'
  BY <1>4, <1>6, <1>11 DEF Over
<1>12. detail.active \in P!TurnOrNone /\ refresh.active \in P!TurnOrNone
       /\ server.active \in P!TurnOrNone
  BY DEF PageInv, PageTypes
<1>13. RefreshInv'
  BY <1>2, <1>4, <1>6, <1>10, <1>11, <1>12 DEF PageInv, RefreshInv, P!Ended
<1>. QED BY <1>7, <1>8, <1>9, <1>13 DEF PageInv

\* A refresh reads the session, then the runs, then events turn by turn.
LEMMA ReadSessionKeeps ==
  ASSUME PageInv, P!ReadSession
  PROVE  PageInv'
<1>. USE TurnsAre DEF P!ReadSession
<1>1. /\ refresh'.at = "runs" /\ refresh'.active = server.active
      /\ refresh'.status = refresh.status
      /\ refresh'.got = refresh.got /\ refresh'.asking = refresh.asking
  BY DEF PageInv, PageTypes
<1>2. PageTypes'
  BY DEF PageInv, PageTypes
<1>3. SpareInv' /\ CountInv'
  BY <1>1 DEF PageInv, SpareInv, CountInv
<1>4. RefreshInv'
  BY <1>1 DEF PageInv, PageTypes, RefreshInv, Came, Over
<1>. QED BY <1>2, <1>3, <1>4 DEF PageInv

\* A refresh reads the rows of the runs, which may be newer than the session it read.
LEMMA ReadRunsKeeps ==
  ASSUME PageInv, P!ReadRuns
  PROVE  PageInv'
<1>. USE TurnsAre DEF P!ReadRuns
<1>1. /\ refresh'.at = "events" /\ refresh'.active = refresh.active
      /\ refresh'.status = P!Reading /\ refresh'.got = refresh.got
      /\ refresh'.asking = P!Inactive(P!Reading, refresh.active)
  BY DEF PageInv, PageTypes
<1>2. P!Reading \in P!RowsRead
  BY DEF P!Reading, P!RowsRead
<1>3. PageTypes'
  BY <1>1, <1>2 DEF PageInv, PageTypes, P!Inactive
<1>4. SpareInv' /\ CountInv'
  BY <1>1 DEF PageInv, SpareInv, CountInv
<1>5. \A t \in P!Turns \ P!Inactive(P!Reading, refresh.active) :
        t # refresh.active => server.status[t] = "absent"
  BY DEF P!Reading, P!Inactive
<1>6. RefreshInv'
  BY <1>1, <1>5 DEF PageInv, PageTypes, RefreshInv, CountInv, Came, Over, P!Counts, P!Ended
<1>. QED BY <1>3, <1>4, <1>6 DEF PageInv

\* A refresh reads the events of a turn that is not active.
LEMMA ReadEventsKeeps ==
  ASSUME PageInv, P!ReadEvents
  PROVE  PageInv'
<1>. USE TurnsAre
<1>1. PICK t \in refresh.asking :
        refresh' = [refresh EXCEPT !.got[t] = server.log[t], !.asking = refresh.asking \ {t}]
  BY DEF P!ReadEvents
<1>2. UNCHANGED <<server, detail, history, live, requests, meant>> /\ refresh.at = "events"
  BY DEF P!ReadEvents
<1>3. /\ refresh'.at = refresh.at /\ refresh'.active = refresh.active
      /\ refresh'.status = refresh.status
      /\ refresh'.got = [refresh.got EXCEPT ![t] = server.log[t]]
      /\ refresh'.asking = refresh.asking \ {t}
      /\ \A u \in P!Turns : refresh'.got[u] = IF u = t THEN server.log[t] ELSE refresh.got[u]
  BY <1>1 DEF PageInv, PageTypes, P!Counts
<1>4. PageTypes'
  BY <1>1, <1>2, <1>3 DEF PageInv, PageTypes, P!Counts
<1>5. SpareInv'
  BY <1>2 DEF PageInv, SpareInv
<1>6. CountInv'
  <2>1. \A u \in P!Turns : server.log[u] \in Nat
    BY DEF PageInv, PageTypes, P!Counts
  <2>2. \A u \in P!Turns : refresh'.got[u] <= server.log[u]
    BY <1>3, <2>1 DEF PageInv, CountInv
  <2>. QED BY <1>2, <2>2 DEF PageInv, CountInv
<1>7. RefreshInv'
  BY <1>2, <1>3 DEF PageInv, PageTypes, CountInv, RefreshInv, Came, Over
<1>. QED BY <1>4, <1>5, <1>6, <1>7 DEF PageInv

\* What the page takes over from a refresh.
LEMMA RefreshedIs ==
  ASSUME PageInv, P!Refreshed
  PROVE  /\ detail'.active = refresh.active /\ live'.turn = refresh.active
         /\ live' \in [turn : P!TurnOrNone, events : Nat, over : BOOLEAN]
         /\ live.turn = refresh.active => live' = live
         /\ live.turn # refresh.active => live'.events = 0
BY TurnsAre DEF P!Refreshed, P!Followed, PageInv, PageTypes

\* The page takes over what a refresh brought.
LEMMA RefreshedKeeps ==
  ASSUME PageInv, P!Refreshed
  PROVE  PageInv'
<1>. USE TurnsAre, RefreshedIs
<1>1. /\ UNCHANGED <<server, requests, meant>> /\ refresh' = P!NoRefresh
      /\ history' = refresh.got /\ detail' = [active |-> refresh.active, status |-> refresh.status]
      /\ refresh.at = "events"
  BY DEF P!Refreshed
<1>2. PageTypes'
  BY <1>1 DEF PageInv, PageTypes, P!NoRefresh, P!NoRows, P!None, P!RowsRead, P!Counts
<1>3. SpareInv'
  BY <1>1 DEF PageInv, SpareInv
<1>4. CountInv'
  BY <1>1 DEF PageInv, PageTypes, CountInv, P!NoRefresh, P!None, P!Counts
<1>5. RefreshInv'
  BY <1>1 DEF PageInv, RefreshInv, Came, P!NoRefresh
<1>. QED BY <1>2, <1>3, <1>4, <1>5 DEF PageInv

\* A refresh fails and leaves the page as it is.
LEMMA RefreshFailsKeeps ==
  ASSUME PageInv, P!RefreshFails
  PROVE  PageInv'
<1>. USE TurnsAre DEF P!RefreshFails, P!NoRefresh, P!NoRows, P!None
<1>1. PageTypes'
  BY DEF PageInv, PageTypes, P!RowsRead, P!Counts
<1>2. SpareInv' /\ CountInv'
  BY DEF PageInv, PageTypes, SpareInv, CountInv, P!Counts
<1>3. RefreshInv'
  BY DEF PageInv, RefreshInv, Came
<1>. QED BY <1>1, <1>2, <1>3 DEF PageInv

\* The stream of the followed turn brings one more event, or says that it is over.
LEMMA StreamKeeps ==
  ASSUME PageInv, P!Stream
  PROVE  PageInv' /\ live'.turn = live.turn /\ live'.events >= live.events
<1>. USE TurnsAre
<1>1. UNCHANGED <<server, detail, history, refresh, requests, meant>> /\ live.turn \in P!Turns
  BY DEF P!Stream, PageInv, PageTypes
<1>2. /\ live' \in [turn : P!TurnOrNone, events : Nat, over : BOOLEAN]
      /\ live'.turn = live.turn
      /\ live'.events >= live.events /\ live'.events <= server.log[live.turn]
  <2>1. /\ live \in [turn : P!TurnOrNone, events : Nat, over : BOOLEAN]
        /\ server.log[live.turn] \in Nat /\ live.events <= server.log[live.turn]
        /\ live.events \in Nat
    BY <1>1 DEF PageInv, PageTypes, CountInv, P!Counts
  <2>2. \/ live.events < server.log[live.turn] /\ live' = [live EXCEPT !.events = @ + 1]
        \/ live' = [live EXCEPT !.events = server.log[live.turn], !.over = TRUE]
    BY DEF P!Stream
  <2>3. CASE live.events < server.log[live.turn] /\ live' = [live EXCEPT !.events = live.events + 1]
    <3>1. live'.turn = live.turn /\ live'.events = live.events + 1
      BY <2>1, <2>3
    <3>. QED BY <2>1, <2>3, <3>1
  <2>4. CASE live' = [live EXCEPT !.events = server.log[live.turn], !.over = TRUE]
    <3>1. live'.turn = live.turn /\ live'.events = server.log[live.turn]
      BY <2>1, <2>4
    <3>2. live' \in [turn : P!TurnOrNone, events : Nat, over : BOOLEAN]
      <4>. DEFINE n == server.log[live.turn]
      <4>1. n \in Nat /\ TRUE \in BOOLEAN
        BY <2>1
      <4>. HIDE DEF n
      <4>2. [live EXCEPT !.events = n, !.over = TRUE]
              \in [turn : P!TurnOrNone, events : Nat, over : BOOLEAN]
        BY <2>1, <4>1
      <4>. QED BY <4>2, <2>4 DEF n
    <3>. QED BY <2>1, <3>1, <3>2
  <2>. QED BY <2>2, <2>3, <2>4
<1>3. PageTypes'
  BY <1>1, <1>2 DEF PageInv, PageTypes
<1>4. SpareInv'
  BY <1>1 DEF PageInv, SpareInv
<1>5. CountInv'
  BY <1>1, <1>2 DEF PageInv, CountInv
<1>6. RefreshInv'
  BY <1>1, <1>2 DEF PageInv, RefreshInv, Came, Over
<1>. QED BY <1>2, <1>3, <1>4, <1>5, <1>6 DEF PageInv

\* A click: what it asks to cancel the user gave up, and nothing is taken back.
LEMMA ClickKeeps ==
  ASSUME PageInv, P!Stop \/ P!Remove \/ P!Interrupt
  PROVE  PageInv'
<1>. USE TurnsAre
<1>1. UNCHANGED <<server, detail, history, live, refresh>>
  BY DEF P!Stop, P!Remove, P!Interrupt, P!client
<1>2. PICK request \in [from : {"queue", "stop"}, turn : P!Turns, next : P!TurnOrNone] :
        /\ requests' = requests \cup {request}
        /\ meant' \in [P!Turns -> {"nothing", "sent", "dropped"}]
        /\ meant'[request.turn] = "dropped"
        /\ \A t \in P!Turns : meant[t] = "dropped" => meant'[t] = "dropped"
  <2>1. /\ meant \in [P!Turns -> {"nothing", "sent", "dropped"}]
        /\ detail.active \in P!TurnOrNone /\ (detail.active # 0 => detail.active \in P!Turns)
    BY DEF PageInv, PageTypes
  <2>2. CASE P!Stop
    <3>1. requests' = requests \cup {[from |-> "stop", turn |-> detail.active, next |-> 0]}
      BY <2>2 DEF P!Stop, P!Ask
    <3>2. detail.active \in P!Turns /\ meant' = [meant EXCEPT ![detail.active] = "dropped"]
      BY <2>1, <2>2 DEF P!Stop
    <3>. QED BY <2>1, <3>1, <3>2
  <2>3. CASE P!Remove
    <3>1. PICK t \in P!QueuedRuns :
            /\ P!Ask("queue", t, 0)
            /\ meant' = [meant EXCEPT ![t] = "dropped"]
      BY <2>3 DEF P!Remove
    <3>2. requests' = requests \cup {[from |-> "queue", turn |-> t, next |-> 0]} /\ t \in P!Turns
      BY <3>1 DEF P!Ask, P!QueuedRuns
    <3>. QED BY <2>1, <3>1, <3>2
  <2>4. CASE P!Interrupt
    <3>1. PICK t \in P!QueuedRuns :
            /\ P!Ask("queue", detail.active, t)
            /\ meant' = [meant EXCEPT ![t] = IF @ = "dropped" THEN @ ELSE "sent",
                                      ![detail.active] = "dropped"]
      BY <2>4 DEF P!Interrupt
    <3>2. /\ requests' = requests \cup {[from |-> "queue", turn |-> detail.active, next |-> t]}
          /\ t \in P!Turns /\ t # detail.active /\ detail.active \in P!Turns
      BY <2>1, <2>4, <3>1 DEF P!Interrupt, P!Ask, P!QueuedRuns
    <3>3. /\ meant' \in [P!Turns -> {"nothing", "sent", "dropped"}]
          /\ meant'[detail.active] = "dropped"
          /\ \A u \in P!Turns : meant[u] = "dropped" => meant'[u] = "dropped"
      BY <2>1, <3>1, <3>2
    <3>4. [from |-> "queue", turn |-> detail.active, next |-> t]
            \in [from : {"queue", "stop"}, turn : P!Turns, next : P!TurnOrNone]
      BY <3>2
    <3>. QED BY <3>2, <3>3, <3>4
  <2>. QED BY <2>2, <2>3, <2>4
<1>3. PageTypes'
  BY <1>1, <1>2 DEF PageInv, PageTypes
<1>4. SpareInv'
  BY <1>1, <1>2 DEF PageInv, PageTypes, SpareInv
<1>5. CountInv' /\ RefreshInv'
  BY <1>1 DEF PageInv, CountInv, RefreshInv, Came, Over
<1>. QED BY <1>3, <1>4, <1>5 DEF PageInv

\* Every step of server, page and requests keeps the invariant of the page.
LEMMA PageKeeps ==
  ASSUME PageInv, [DisplayNext]_<<concern, vars, views, pageVars>>
  PROVE  PageInv'
<1>1. CASE UNCHANGED pageVars
  BY <1>1 DEF pageVars, PageInv, PageTypes, SpareInv, CountInv, RefreshInv, Came, Over
<1>2. CASE P!PageNext
  BY <1>2, SubmitKeeps, AdvanceKeeps, LogEventKeeps, ParkKeeps, HandleCancelKeeps,
     ReadSessionKeeps, ReadRunsKeeps, ReadEventsKeeps, RefreshedKeeps, RefreshFailsKeeps,
     StreamKeeps, ClickKeeps DEF P!PageNext
<1>. QED BY <1>1, <1>2 DEF DisplayNext, Feed, Page

\* The invariant of the page holds, however old what it knows.
THEOREM PageHolds == DisplaySpec => []PageInv
<1>1. DisplayInit => PageInv
  BY PageStarts DEF DisplayInit
<1>2. PageInv /\ [DisplayNext]_<<concern, vars, views, pageVars>> => PageInv'
  BY PageKeeps
<1>. QED BY <1>1, <1>2, PTL DEF DisplaySpec, DisplayNext

\* The message that was to be sent next is never cancelled (interruptAndSendNext).
THEOREM NextIsSpared == DisplaySpec => []InterruptSparesNext
<1>1. PageInv => InterruptSparesNext
  BY DEF PageInv, PageTypes, SpareInv, InterruptSparesNext
<1>. QED BY <1>1, PageHolds, PTL

\* What a step may do to the turns that the page shows.
KeepsShown ==
  \A t \in P!Turns :
    \/ P!Shown(t)' >= P!Shown(t)
    \/ detail.active = t /\ P!Shown(t)' >= server.atEnd[t]
    \/ detail'.active = t /\ detail.active # t

\* What one step leaves of what the page shows.
LEMMA PageShows ==
  ASSUME PageInv, [DisplayNext]_<<concern, vars, views, pageVars>>
  PROVE  [KeepsShown]_<<detail, history, live>>
<1>. USE TurnsAre DEF P!Shown
<1>1. CASE P!Refreshed
  <2>. SUFFICES ASSUME NEW t \in P!Turns, t # refresh.active, detail.active # t \/ Over(t)
                PROVE  \/ P!Shown(t)' >= P!Shown(t)
                       \/ detail.active = t /\ P!Shown(t)' >= server.atEnd[t]
    BY <1>1, RefreshedIs DEF KeepsShown, P!Refreshed, PageInv, PageTypes, RefreshInv, CountInv
  <2>1. P!Shown(t)' = refresh.got[t] /\ refresh.at = "events" /\ t \notin refresh.asking
    BY <1>1, RefreshedIs DEF P!Refreshed
  <2>. QED BY <2>1 DEF PageInv, RefreshInv
<1>2. CASE P!Stream
  BY <1>2, StreamKeeps DEF KeepsShown, P!Stream, PageInv, PageTypes, P!Counts
<1>3. CASE UNCHANGED <<detail, history, live>>
  BY <1>3
<1>. QED BY <1>1, <1>2, <1>3
     DEF DisplayNext, Feed, Page, pageVars, P!PageNext, P!Submit, P!Advance, P!LogEvent, P!Park,
         P!HandleCancel, P!ReadSession, P!ReadRuns, P!ReadEvents, P!RefreshFails, P!Stop,
         P!Remove, P!Interrupt, P!client

\* What the page shows of a turn stays, whichever request or stream brings it
\* (useSession, useRun).
THEOREM NothingIsHidden == DisplaySpec => NothingVanishes
<1>1. PageInv /\ [DisplayNext]_<<concern, vars, views, pageVars>>
        => [KeepsShown]_<<detail, history, live>>
  BY PageShows
<1>. QED BY <1>1, PageHolds, PTL DEF DisplaySpec, DisplayNext, NothingVanishes, KeepsShown

-----------------------------------------------------------------------------
(* What the agent reports. *)

\* Every event that there is or may still be in the log.
Known == ToSet(log) \cup ({late} \ {NoEvent})

\* The agent process: where it is in its turn, and how much of it there was.
AgentRow ==
  [phase : {"between", "answering", "calling", "reported"}, turn : 0 .. MaxTurns,
   started : Nat \ {0}, texts : 0 .. MaxTexts, calls : Seq(Tools), before : 0 .. MaxCalls,
   open : SUBSET Calls, posted : Nat]

\* What the agent and the log may be.
AgentTypes ==
  /\ agent \in AgentRow
  /\ debug \in BOOLEAN
  /\ log \in Seq(Event)
  /\ late \in {NoEvent} \cup Event
  /\ faults \in 0 .. MaxFaults
  /\ Len(agent.calls) <= MaxCalls /\ agent.before <= Len(agent.calls)

\* Each event is in one place, and was reported.
OnceInv ==
  /\ Len(log) <= agent.posted /\ (late # NoEvent => Len(log) < agent.posted)
  /\ \A i, j \in DOMAIN log : log[i].id = log[j].id => i = j
  /\ late # NoEvent => \A i \in DOMAIN log : log[i].id # late.id
  /\ \A e \in Known : e.id \in 1 .. agent.posted /\ e.turn <= agent.turn

\* Turns are reported one after the other, from their beginning to their end.
Follows(e, f) ==
  e.id < f.id =>
    /\ e.turn <= f.turn
    /\ e.turn = f.turn => /\ f.type # "turn_start"
                          /\ e.type = "turn_end" => f.type = "status"

\* A call is of one turn.
ProtocolInv ==
  /\ \A e, f \in Known : Follows(e, f)
  /\ \A e \in Known : e.type = "turn_end" /\ e.turn = agent.turn =>
       agent.phase \in {"between", "reported"}
  /\ agent.open \subseteq 1 .. Len(agent.calls)
  /\ agent.phase \in {"between", "reported"} => agent.open = {}
  /\ agent.phase \in {"answering", "calling"} => agent.turn # 0
  /\ \A e \in Known : e.type = "tool_call" =>
       /\ e.call <= Len(agent.calls)
       /\ e.call \in agent.open => e.turn = agent.turn
  /\ \A e, f \in Known : e.type = "tool_call" /\ f.type = "tool_call" /\ e.call = f.call =>
       e.turn = f.turn
  /\ agent.started <= Len(log) + 1
  /\ \A i \in DOMAIN log : log[i].type = "turn_end" => log[i].started <= i
  /\ late # NoEvent /\ late.type = "turn_end" => late.started <= Len(log) + 1

\* The invariant of what is reported.
AgentInv == AgentTypes /\ OnceInv /\ ProtocolInv

-----------------------------------------------------------------------------
\* The bounds are numbers.
LEMMA BoundsAre ==
  /\ MaxTurns \in Nat /\ MaxTexts \in Nat /\ MaxCalls \in Nat /\ MaxFaults \in Nat
  /\ MaxWaiting \in Nat
  /\ Turns = 1 .. MaxTurns /\ Calls = 1 .. MaxCalls
BY AgentAssumption DEF Turns, Calls

\* What every event has.
LEMMA EventIs ==
  ASSUME NEW e \in Event
  PROVE  /\ e.id \in Nat /\ e.turn \in 0 .. MaxTurns /\ e # NoEvent
         /\ e.type \in {"token", "tool_call", "turn_start", "turn_end", "note", "status"}
         /\ e.type \in {"token", "tool_call", "turn_start", "turn_end"} => e.turn \in Turns
         /\ e.type = "tool_call" => /\ e.call \in Calls /\ e.tool \in Tools
                                    /\ e.status \in {"running", "ended"} /\ e.args \in BOOLEAN
         /\ e.type = "token" => e.blank \in BOOLEAN
         /\ e.type = "turn_end" => /\ e.started \in Nat \ {0} /\ e.asks \in BOOLEAN
                                   /\ e.thinking \in {"none", "blank", "words"}
         /\ e.type = "status" => e.status \in {"done", "error"}
<1>. USE BoundsAre
<1>1. e # NoEvent /\ e.type \in {"token", "tool_call", "turn_start", "turn_end", "note", "status"}
  BY DEF Event, NoEvent
<1>2. CASE e \in [type : {"token"}, id : Nat, turn : Turns, blank : BOOLEAN]
  BY <1>1, <1>2
<1>3. CASE e \in [type : {"tool_call"}, id : Nat, turn : Turns, call : Calls, tool : Tools,
                  status : {"running", "ended"}, args : BOOLEAN]
  BY <1>1, <1>3
<1>4. CASE e \in [type : {"turn_start"}, id : Nat, turn : Turns]
  BY <1>1, <1>4
<1>5. CASE e \in [type : {"turn_end"}, id : Nat, turn : Turns, started : Nat \ {0},
                  thinking : {"none", "blank", "words"}, asks : BOOLEAN]
  BY <1>1, <1>5
<1>6. CASE e \in [type : {"note"}, id : Nat, turn : {0} \cup Turns]
  BY <1>1, <1>6
<1>7. CASE e \in [type : {"status"}, id : Nat, turn : {0} \cup Turns, status : {"done", "error"}]
  BY <1>1, <1>7
<1>. QED BY <1>2, <1>3, <1>4, <1>5, <1>6, <1>7 DEF Event

\* One more event in the log.
LEMMA AppendIs ==
  ASSUME NEW S, NEW s \in Seq(S), NEW e \in S
  PROVE  /\ Append(s, e) \in Seq(S) /\ Len(Append(s, e)) = Len(s) + 1 /\ Len(s) \in Nat
         /\ DOMAIN s = 1 .. Len(s) /\ DOMAIN Append(s, e) = 1 .. (Len(s) + 1)
         /\ \A i \in DOMAIN s : Append(s, e)[i] = s[i] /\ s[i] \in S
         /\ Append(s, e)[Len(s) + 1] = e
         /\ ToSet(Append(s, e)) = ToSet(s) \cup {e}
<1>1. /\ Append(s, e) \in Seq(S) /\ Len(Append(s, e)) = Len(s) + 1 /\ Len(s) \in Nat
      /\ DOMAIN s = 1 .. Len(s) /\ DOMAIN Append(s, e) = 1 .. (Len(s) + 1)
      /\ \A i \in DOMAIN s : Append(s, e)[i] = s[i] /\ s[i] \in S
      /\ Append(s, e)[Len(s) + 1] = e
  OBVIOUS
<1>. QED BY <1>1 DEF ToSet

\* An agent that has reported nothing.
LEMMA AgentStarts ==
  ASSUME Init
  PROVE  AgentInv
<1>1. Known = {}
  BY DEF Init, Known, ToSet
<1>2. AgentTypes
  BY BoundsAre DEF Init, AgentTypes, AgentRow
<1>. QED BY <1>1, <1>2 DEF Init, AgentInv, OnceInv, ProtocolInv

\* Where a reported event goes.
LEMMA ReportIs ==
  ASSUME AgentTypes, NEW event \in Event, Report(event)
  PROVE  /\ log' \in Seq(Event) /\ late' \in {NoEvent} \cup Event /\ faults' \in 0 .. MaxFaults
         /\ Known' \subseteq Known \cup {event}
         /\ \/ log' = Append(log, event) /\ late' = late
            \/ log' = log /\ late' \in {late, event}
<1>. USE BoundsAre
<1>1. CASE log' = Append(log, event) /\ UNCHANGED <<late, faults>>
  BY <1>1, AppendIs DEF AgentTypes, Known
<1>2. CASE Fault("lost") /\ UNCHANGED <<log, late>>
  BY <1>2 DEF AgentTypes, Known, Fault
<1>3. CASE late = NoEvent /\ late' = event /\ Fault("late") /\ UNCHANGED log
  BY <1>3 DEF AgentTypes, Known, Fault
<1>. QED BY <1>1, <1>2, <1>3 DEF Report

\* The events that are known are events.
LEMMA KnownAre ==
  ASSUME AgentTypes
  PROVE  /\ Known \subseteq Event
         /\ \A i \in DOMAIN log : log[i] \in Known
         /\ late # NoEvent => late \in Known
         /\ log \in Seq(Event) /\ Len(log) \in Nat /\ DOMAIN log = 1 .. Len(log)
BY DEF AgentTypes, Known, ToSet

\* The newest row of the log when the turn began is in the log, if the log has any.
LEMMA StartedIs ==
  ASSUME AgentInv
  PROVE  agent.started \in 1 .. Len(log) + 1
<1>1. agent.started \in Nat \ {0} /\ Len(log) \in Nat /\ agent.started <= Len(log) + 1
  BY DEF AgentInv, AgentTypes, AgentRow, ProtocolInv
<1>. QED BY <1>1

\* The agent's turn, phase and open calls leave room for what is reported next.
Fitting(event) ==
  /\ event \in Event
  /\ event.id = agent.posted + 1 /\ agent'.posted = agent.posted + 1
  /\ agent.turn <= agent'.turn /\ event.turn <= agent'.turn
  /\ \A e \in Known : Follows(e, event)
  /\ \A e \in Known : e.type = "tool_call" /\ event.type = "tool_call" /\ e.call = event.call =>
       e.turn = event.turn
  /\ event.type = "turn_end" => event.started <= Len(log) + 1

\* An event that is newer than all that is known keeps the order of turns.
LEMMA FittingKeeps ==
  ASSUME AgentInv, NEW event, Fitting(event), Report(event), agent'.turn \in Nat,
         agent'.posted \in Nat, agent'.started \in 1 .. Len(log) + 1
  PROVE  /\ OnceInv'
         /\ Known' \subseteq Known \cup {event}
         /\ \A e, f \in Known' : Follows(e, f)
         /\ \A e, f \in Known' : e.type = "tool_call" /\ f.type = "tool_call" /\ e.call = f.call =>
              e.turn = f.turn
         /\ agent'.started <= Len(log') + 1
         /\ \A i \in DOMAIN log' : log'[i].type = "turn_end" => log'[i].started <= i
         /\ late' # NoEvent /\ late'.type = "turn_end" => late'.started <= Len(log') + 1
<1>. USE BoundsAre
<1>1. event \in Event /\ event.id = agent.posted + 1 /\ agent'.posted = agent.posted + 1
  BY DEF Fitting
<1>2. /\ log' \in Seq(Event) /\ late' \in {NoEvent} \cup Event
      /\ Known' \subseteq Known \cup {event}
      /\ \/ log' = Append(log, event) /\ late' = late
         \/ log' = log /\ late' \in {late, event}
  BY <1>1, ReportIs DEF AgentInv
<1>3. /\ Known \subseteq Event /\ log \in Seq(Event) /\ Len(log) \in Nat
      /\ \A i \in DOMAIN log : log[i] \in Known
      /\ late # NoEvent => late \in Known
      /\ agent.posted \in Nat /\ agent.turn \in Nat /\ agent.started \in Nat
  BY KnownAre DEF AgentInv, AgentTypes, AgentRow
<1>4. /\ Append(log, event) \in Seq(Event) /\ Len(Append(log, event)) = Len(log) + 1
      /\ DOMAIN log = 1 .. Len(log) /\ DOMAIN Append(log, event) = 1 .. (Len(log) + 1)
      /\ \A i \in DOMAIN log : Append(log, event)[i] = log[i]
      /\ Append(log, event)[Len(log) + 1] = event
  BY <1>1, <1>3, AppendIs
<1>5. \A e \in Known : e.id \in 1 .. agent.posted /\ e.turn <= agent.turn /\ e.turn \in Nat
  BY <1>3, EventIs DEF AgentInv, OnceInv
<1>6. event.turn \in Nat /\ event # NoEvent
  BY <1>1, EventIs
<1>7. OnceInv'
  <2>1. ASSUME NEW e \in Known'
        PROVE  e.id \in 1 .. agent'.posted /\ e.turn <= agent'.turn
    <3>1. CASE e = event
      BY <1>1, <1>3, <3>1 DEF Fitting
    <3>2. CASE e \in Known
      <4>1. e.id \in 1 .. agent.posted /\ e.turn <= agent.turn /\ e.turn \in Nat
        BY <1>5, <3>2
      <4>2. agent.turn <= agent'.turn
        BY DEF Fitting
      <4>. QED BY <1>1, <1>3, <4>1, <4>2
    <3>. QED BY <1>2, <3>1, <3>2
  <2>2. Len(log') <= agent'.posted /\ (late' # NoEvent => Len(log') < agent'.posted)
    BY <1>1, <1>2, <1>3, <1>4 DEF AgentInv, OnceInv
  <2>3. \A i \in DOMAIN log : log[i].id \in 1 .. agent.posted
    BY <1>3, <1>5
  <2>4. \A i, j \in DOMAIN log' : log'[i].id = log'[j].id => i = j
    <3>1. \A i, j \in DOMAIN log : log[i].id = log[j].id => i = j
      BY DEF AgentInv, OnceInv
    <3>2. CASE log' = log
      BY <3>1, <3>2
    <3>3. CASE log' = Append(log, event)
      <4>. SUFFICES ASSUME NEW i \in DOMAIN log', NEW j \in DOMAIN log', log'[i].id = log'[j].id
                    PROVE  i = j
        OBVIOUS
      <4>1. i \in 1 .. (Len(log) + 1) /\ j \in 1 .. (Len(log) + 1)
        BY <3>3, <1>4
      <4>2. CASE i \in DOMAIN log /\ j \in DOMAIN log
        BY <4>2, <3>1, <3>3, <1>4
      <4>3. CASE i = Len(log) + 1 /\ j \in DOMAIN log
        BY <4>3, <3>3, <1>1, <1>3, <1>4, <2>3
      <4>4. CASE j = Len(log) + 1 /\ i \in DOMAIN log
        BY <4>4, <3>3, <1>1, <1>3, <1>4, <2>3
      <4>. QED BY <4>1, <4>2, <4>3, <4>4, <1>3, <1>4
    <3>. QED BY <3>2, <3>3, <1>2
  <2>5. late # NoEvent => late.id \in 1 .. agent.posted
    BY <1>3, <1>5
  <2>6. late' # NoEvent => \A i \in DOMAIN log' : log'[i].id # late'.id
    <3>1. late # NoEvent => \A i \in DOMAIN log : log[i].id # late.id
      BY DEF AgentInv, OnceInv
    <3>2. CASE log' = log /\ late' = late
      BY <3>1, <3>2
    <3>3. CASE log' = log /\ late' = event
      BY <3>3, <1>1, <1>3, <2>3
    <3>4. CASE log' = Append(log, event) /\ late' = late
      BY <3>1, <3>4, <1>1, <1>3, <1>4, <2>5
    <3>. QED BY <3>2, <3>3, <3>4, <1>2
  <2>. QED BY <2>1, <2>2, <2>4, <2>6 DEF OnceInv
<1>8. ASSUME NEW e \in Known', NEW f \in Known' PROVE Follows(e, f)
  <2>1. CASE e \in Known /\ f \in Known
    BY <2>1 DEF AgentInv, ProtocolInv
  <2>2. CASE f = event /\ e \in Known
    BY <2>2 DEF Fitting
  <2>3. CASE e = event
    <3>1. f.id \in 1 .. agent.posted \/ f = event
      BY <1>2, <1>5
    <3>2. ~ (e.id < f.id)
      BY <2>3, <3>1, <1>1, <1>3
    <3>. QED BY <3>2 DEF Follows
  <2>. QED BY <1>2, <2>1, <2>2, <2>3
<1>9. ASSUME NEW e \in Known', NEW f \in Known',
             e.type = "tool_call", f.type = "tool_call", e.call = f.call
      PROVE  e.turn = f.turn
  <2>1. CASE e \in Known /\ f \in Known
    BY <2>1, <1>9 DEF AgentInv, ProtocolInv
  <2>2. CASE f = event /\ e \in Known
    BY <2>2, <1>9 DEF Fitting
  <2>3. CASE e = event /\ f \in Known
    BY <2>3, <1>9 DEF Fitting
  <2>. QED BY <1>2, <2>1, <2>2, <2>3
<1>10. agent'.started <= Len(log') + 1
  BY <1>2, <1>3, <1>4 DEF AgentInv, ProtocolInv
<1>11. ASSUME NEW i \in DOMAIN log', log'[i].type = "turn_end" PROVE log'[i].started <= i
  <2>1. event.type = "turn_end" => event.started \in Nat /\ event.started <= Len(log) + 1
    BY <1>1, EventIs DEF Fitting
  <2>2. \A k \in DOMAIN log : log[k].type = "turn_end" => log[k].started <= k
    BY DEF AgentInv, ProtocolInv
  <2>. QED BY <1>2, <1>3, <1>4, <1>11, <2>1, <2>2
<1>12. ASSUME late' # NoEvent, late'.type = "turn_end" PROVE late'.started <= Len(log') + 1
  <2>1. CASE late' = event
    BY <1>1, <1>2, <1>3, <1>4, <1>12, <2>1, EventIs DEF Fitting
  <2>2. CASE late' = late
    <3>1. late \in Event /\ late.started \in Nat /\ late.started <= Len(log) + 1
      BY <1>12, <2>2, <1>3, EventIs DEF AgentInv, ProtocolInv
    <3>. QED BY <1>2, <1>3, <1>4, <2>2, <3>1
  <2>. QED BY <1>2, <2>1, <2>2
<1>. QED BY <1>2, <1>7, <1>8, <1>9, <1>10, <1>11, <1>12

\* The agent's steps. Only the fields that a step names change.
LEMMA PostedIs ==
  ASSUME AgentTypes
  PROVE  /\ Posted \in AgentRow
         /\ Posted.posted = agent.posted + 1
         /\ Posted.phase = agent.phase /\ Posted.turn = agent.turn
         /\ Posted.started = agent.started /\ Posted.texts = agent.texts
         /\ Posted.calls = agent.calls /\ Posted.before = agent.before
         /\ Posted.open = agent.open
<1>. DEFINE id == Id
<1>1. agent \in AgentRow /\ id \in Nat /\ Posted = [agent EXCEPT !.posted = id] /\ id = agent.posted + 1
  BY DEF AgentTypes, AgentRow, Posted, Id
<1>. HIDE DEF id
<1>. QED BY <1>1 DEF AgentRow

\* Nothing known is as late as what is reported now, nor of a later turn.
LEMMA KnownBefore ==
  ASSUME AgentInv, NEW e \in Known
  PROVE  /\ e \in Event /\ e.id \in Nat /\ e.id < Id /\ Id \in Nat
         /\ e.turn \in Nat /\ e.turn <= agent.turn /\ agent.turn \in 0 .. MaxTurns
BY BoundsAre, KnownAre, EventIs DEF AgentInv, AgentTypes, AgentRow, OnceInv, Id

\* The rest of the agent's invariant, when the calls and the open ones stay.
Quiet ==
  /\ agent'.calls = agent.calls /\ agent'.before <= Len(agent.calls)
  /\ agent'.open = agent.open

\* An event that is neither of a call nor the end of a turn leaves calls as they were.
LEMMA QuietKeeps ==
  ASSUME AgentInv, NEW event, Fitting(event), Report(event), Quiet, UNCHANGED debug,
         event.type # "tool_call",
         agent' \in AgentRow,
         agent'.started \in 1 .. Len(log) + 1,
         event.type = "turn_end" /\ event.turn = agent'.turn => agent'.phase \in {"between", "reported"},
         \A e \in Known : e.type = "turn_end" /\ e.turn = agent'.turn =>
           agent'.phase \in {"between", "reported"},
         agent'.phase \in {"between", "reported"} => agent.open = {},
         agent'.phase \in {"answering", "calling"} => agent'.turn # 0,
         agent'.turn = agent.turn \/ agent.open = {}
  PROVE  AgentInv'
<1>. USE BoundsAre
<1>1. event \in Event /\ agent'.turn \in Nat /\ agent'.posted \in Nat
  BY DEF Fitting, AgentRow
<1>2. /\ log' \in Seq(Event) /\ late' \in {NoEvent} \cup Event /\ faults' \in 0 .. MaxFaults
      /\ Known' \subseteq Known \cup {event}
  BY <1>1, ReportIs DEF AgentInv
<1>3. /\ OnceInv'
      /\ \A e, f \in Known' : Follows(e, f)
      /\ \A e, f \in Known' : e.type = "tool_call" /\ f.type = "tool_call" /\ e.call = f.call =>
           e.turn = f.turn
      /\ agent'.started <= Len(log') + 1
      /\ \A i \in DOMAIN log' : log'[i].type = "turn_end" => log'[i].started <= i
      /\ late' # NoEvent /\ late'.type = "turn_end" => late'.started <= Len(log') + 1
  BY <1>1, FittingKeeps
<1>4. AgentTypes'
  BY <1>2 DEF AgentInv, AgentTypes, Quiet
<1>5. \A e \in Known' : e.type = "turn_end" /\ e.turn = agent'.turn =>
        agent'.phase \in {"between", "reported"}
  BY <1>2
<1>6. \A e \in Known' : e.type = "tool_call" =>
        /\ e.call <= Len(agent'.calls)
        /\ e.call \in agent'.open => e.turn = agent'.turn
  BY <1>2 DEF AgentInv, ProtocolInv, Quiet
<1>7. /\ agent'.open \subseteq 1 .. Len(agent'.calls)
      /\ agent'.phase \in {"between", "reported"} => agent'.open = {}
  BY DEF AgentInv, ProtocolInv, Quiet
<1>8. ProtocolInv'
  BY <1>3, <1>5, <1>6, <1>7 DEF ProtocolInv
<1>. QED BY <1>3, <1>4, <1>8 DEF AgentInv

\* A line of the log is reported (note).
LEMMA NoteKeeps ==
  ASSUME AgentInv, Note
  PROVE  AgentInv'
<1>. DEFINE event == [type |-> "note", id |-> Id, turn |-> 0]
<1>1. /\ agent.posted = 0 /\ agent' = Posted /\ Report(event) /\ UNCHANGED debug
  BY DEF Note
<1>2. Known = {}
  <2>1. agent.posted \in Nat
    BY DEF AgentInv, AgentTypes, AgentRow
  <2>2. \A e \in Known : e.id \in Nat /\ e.id < Id /\ e.id # 0
    BY KnownBefore DEF AgentInv, OnceInv
  <2>. QED BY <1>1, <2>1, <2>2 DEF Id
<1>3. event \in Event /\ event.id = Id /\ event.turn = 0 /\ event.type = "note"
  BY <1>1 DEF Event, Id
<1>4. Fitting(event)
  BY <1>1, <1>2, <1>3, PostedIs, BoundsAre DEF AgentInv, AgentTypes, AgentRow, Fitting, Id
<1>. HIDE DEF event
<1>5. agent'.started \in 1 .. Len(log) + 1
  BY <1>1, StartedIs, PostedIs DEF AgentInv
<1>. QED BY <1>1, <1>2, <1>3, <1>4, <1>5, QuietKeeps, PostedIs
          DEF Quiet, AgentInv, AgentTypes, AgentRow, ProtocolInv

\* A piece of the answer is reported (message_update).
LEMMA TextDeltaKeeps ==
  ASSUME AgentInv, TextDelta
  PROVE  AgentInv'
<1>1. /\ agent.phase = "answering" /\ agent.texts < MaxTexts
      /\ agent' = [Posted EXCEPT !.texts = Posted.texts + 1]
      /\ UNCHANGED debug
  BY DEF TextDelta
<1>. PICK blank \in BOOLEAN :
            Report([type |-> "token", id |-> Id, turn |-> agent.turn, blank |-> blank])
  BY DEF TextDelta
<1>. DEFINE event == [type |-> "token", id |-> Id, turn |-> agent.turn, blank |-> blank]
<1>2. /\ agent' \in AgentRow
      /\ agent'.posted = agent.posted + 1 /\ agent'.phase = agent.phase
      /\ agent'.turn = agent.turn /\ agent'.started = agent.started
      /\ agent'.calls = agent.calls /\ agent'.before = agent.before /\ agent'.open = agent.open
  <2>0. AgentTypes /\ agent.texts \in 0 .. MaxTexts
    BY DEF AgentInv, AgentTypes, AgentRow
  <2>1. AgentTypes /\ Posted \in AgentRow /\ Posted.texts + 1 \in 0 .. MaxTexts
    BY <1>1, <2>0, PostedIs, BoundsAre
  <2>. DEFINE texts == Posted.texts + 1
  <2>. HIDE DEF texts
  <2>2. texts \in 0 .. MaxTexts /\ agent' = [Posted EXCEPT !.texts = texts]
    BY <1>1, <2>1 DEF texts
  <2>. QED BY <2>1, <2>2, PostedIs DEF AgentRow
<1>3. agent.turn \in Turns /\ Id \in Nat
  BY <1>1, BoundsAre DEF AgentInv, AgentTypes, AgentRow, ProtocolInv, Id
<1>4. /\ event \in Event /\ event.id = Id /\ event.turn = agent.turn /\ event.type = "token"
      /\ Report(event)
  BY <1>3 DEF Event
<1>. HIDE DEF event
<1>5. \A e \in Known : Follows(e, event)
  BY <1>1, <1>4, KnownBefore DEF AgentInv, ProtocolInv, Follows
<1>6. Fitting(event)
  BY <1>2, <1>3, <1>4, <1>5, BoundsAre DEF Fitting, Id
<1>7. agent'.started \in 1 .. Len(log) + 1
  BY <1>2, StartedIs
<1>8. agent.before <= Len(agent.calls) /\ agent.turn # 0
  BY <1>1 DEF AgentInv, AgentTypes, ProtocolInv
<1>9. \A e \in Known : e.type = "turn_end" /\ e.turn = agent'.turn =>
        agent'.phase \in {"between", "reported"}
  BY <1>2 DEF AgentInv, ProtocolInv
<1>. QED BY <1>1, <1>2, <1>4, <1>6, <1>7, <1>8, <1>9, QuietKeeps DEF Quiet

\* A turn ends: no later event of it but a status.
LEMMA TurnEndKeeps ==
  ASSUME AgentInv, TurnEnd
  PROVE  AgentInv'
<1>. DEFINE event(thinking) ==
       [type |-> "turn_end", id |-> Id, turn |-> agent.turn, started |-> agent.started,
        thinking |-> thinking, asks |-> Len(agent.calls) > agent.before]
<1>1. /\ agent.phase \in {"answering", "calling"} /\ agent.open = {}
      /\ agent' = [Posted EXCEPT !.phase = "between"] /\ UNCHANGED debug
  BY DEF TurnEnd
<1>2. PICK thinking \in {"none", "blank", "words"} : Report(event(thinking))
  BY DEF TurnEnd
<1>3. /\ agent' \in AgentRow
      /\ agent'.posted = agent.posted + 1 /\ agent'.phase = "between"
      /\ agent'.turn = agent.turn /\ agent'.started = agent.started
      /\ agent'.calls = agent.calls /\ agent'.before = agent.before /\ agent'.open = agent.open
  BY <1>1, PostedIs, BoundsAre DEF AgentInv, AgentTypes, AgentRow
<1>4. agent.turn \in Turns /\ Id \in Nat /\ agent.started \in Nat \ {0}
  BY <1>1, BoundsAre DEF AgentInv, AgentTypes, AgentRow, ProtocolInv, Id
<1>. DEFINE new == event(thinking)
<1>5. /\ new \in Event /\ new.id = Id /\ new.turn = agent.turn /\ new.type = "turn_end"
      /\ new.started = agent.started
  <2>. DEFINE asks == Len(agent.calls) > agent.before
  <2>1. asks \in BOOLEAN
    OBVIOUS
  <2>. HIDE DEF asks
  <2>2. [type |-> "turn_end", id |-> Id, turn |-> agent.turn, started |-> agent.started,
         thinking |-> thinking, asks |-> asks]
          \in [type : {"turn_end"}, id : Nat, turn : Turns, started : Nat \ {0},
               thinking : {"none", "blank", "words"}, asks : BOOLEAN]
    BY <1>4, <2>1
  <2>. QED BY <2>2 DEF asks, Event
<1>6. Report(new)
  BY <1>2
<1>. HIDE DEF new
<1>7. \A e \in Known : Follows(e, new)
  BY <1>1, <1>5, KnownBefore DEF AgentInv, ProtocolInv, Follows
<1>8. Fitting(new)
  BY <1>3, <1>4, <1>5, <1>7, BoundsAre DEF Fitting, Id, AgentInv, ProtocolInv
<1>9. agent'.started \in 1 .. Len(log) + 1 /\ agent.before <= Len(agent.calls)
  BY <1>3, StartedIs DEF AgentInv, AgentTypes
<1>10. agent'.phase \in {"between", "reported"} => agent.open = {}
  BY <1>1 DEF AgentInv, ProtocolInv
<1>. QED BY <1>1, <1>3, <1>5, <1>6, <1>8, <1>9, <1>10, QuietKeeps DEF Quiet

\* The status of a turn that has ended is reported.
LEMMA ReportStatusKeeps ==
  ASSUME AgentInv, ReportStatus
  PROVE  AgentInv'
<1>. DEFINE event(status) == [type |-> "status", id |-> Id, turn |-> agent.turn, status |-> status]
<1>1. /\ agent.phase = "between" /\ agent' = [Posted EXCEPT !.phase = "reported"] /\ UNCHANGED debug
  BY DEF ReportStatus
<1>2. PICK status \in {"done", "error"} : Report(event(status))
  BY DEF ReportStatus
<1>3. /\ agent' \in AgentRow
      /\ agent'.posted = agent.posted + 1 /\ agent'.phase = "reported"
      /\ agent'.turn = agent.turn /\ agent'.started = agent.started
      /\ agent'.calls = agent.calls /\ agent'.before = agent.before /\ agent'.open = agent.open
  BY <1>1, PostedIs, BoundsAre DEF AgentInv, AgentTypes, AgentRow
<1>4. agent.turn \in {0} \cup Turns /\ Id \in Nat
  BY <1>1, BoundsAre DEF AgentInv, AgentTypes, AgentRow, ProtocolInv, Id
<1>. DEFINE new == event(status)
<1>5. new \in Event /\ new.id = Id /\ new.turn = agent.turn /\ new.type = "status"
  BY <1>4 DEF Event
<1>6. Report(new)
  BY <1>2
<1>. HIDE DEF new
<1>7. \A e \in Known : Follows(e, new)
  BY <1>1, <1>5, KnownBefore DEF AgentInv, ProtocolInv, Follows
<1>8. Fitting(new)
  BY <1>3, <1>4, <1>5, <1>7, BoundsAre DEF Fitting, Id
<1>9. agent'.started \in 1 .. Len(log) + 1 /\ agent.before <= Len(agent.calls)
  BY <1>3, StartedIs DEF AgentInv, AgentTypes
<1>10. agent'.phase \in {"between", "reported"} => agent.open = {}
  BY <1>1 DEF AgentInv, ProtocolInv
<1>. QED BY <1>1, <1>3, <1>5, <1>6, <1>8, <1>9, <1>10, QuietKeeps DEF Quiet

\* A turn begins, whether that is reported or not.
LEMMA TurnStartKeeps ==
  ASSUME AgentInv, TurnStart
  PROVE  AgentInv'
<1>. USE BoundsAre
<1>. DEFINE begins(started) ==
              [agent EXCEPT !.phase = "answering", !.turn = agent.turn + 1,
                            !.started = started, !.before = Len(agent.calls)]
            event == [type |-> "turn_start", id |-> Id, turn |-> agent.turn + 1]
<1>0. PICK started \in {agent.started} \cup (agent.started .. Len(log)) :
        \/ agent' = [begins(started) EXCEPT !.posted = Id] /\ Report(event)
        \/ agent' = begins(started) /\ UNCHANGED <<log, late, faults>>
  BY Zenon DEF TurnStart
<1>. DEFINE starts == begins(started)
<1>1. /\ agent.phase = "between" /\ agent.turn < MaxTurns /\ UNCHANGED debug
      /\ \/ agent' = [starts EXCEPT !.posted = Id] /\ Report(event)
         \/ agent' = starts /\ UNCHANGED <<log, late, faults>>
  BY <1>0 DEF TurnStart
<1>2. /\ agent \in AgentRow /\ Len(log) \in Nat /\ Len(agent.calls) \in 0 .. MaxCalls
      /\ Id \in Nat /\ agent.turn + 1 \in Turns /\ agent.turn \in Nat /\ agent.open = {}
      /\ started \in 1 .. Len(log) + 1
  BY <1>1, KnownAre DEF AgentInv, AgentTypes, AgentRow, ProtocolInv, Id
<1>3. /\ starts \in AgentRow
      /\ starts.phase = "answering" /\ starts.turn = agent.turn + 1 /\ starts.started = started
      /\ starts.before = Len(agent.calls) /\ starts.calls = agent.calls
      /\ starts.open = agent.open /\ starts.posted = agent.posted
  <2>. DEFINE turn == agent.turn + 1
              before == Len(agent.calls)
  <2>1. turn \in 0 .. MaxTurns /\ started \in Nat \ {0} /\ before \in 0 .. MaxCalls
    BY <1>2
  <2>2. starts = [agent EXCEPT !.phase = "answering", !.turn = turn, !.started = started,
                               !.before = before]
    OBVIOUS
  <2>. HIDE DEF turn, before, starts, begins
  <2>3. /\ starts \in AgentRow
        /\ starts.phase = "answering" /\ starts.turn = turn /\ starts.started = started
        /\ starts.before = before /\ starts.calls = agent.calls
        /\ starts.open = agent.open /\ starts.posted = agent.posted
    BY <1>2, <2>1, <2>2 DEF AgentRow
  <2>. QED BY <2>3 DEF turn, before
<1>. HIDE DEF starts, begins
<1>4. CASE agent' = [starts EXCEPT !.posted = Id] /\ Report(event)
  <2>1. /\ agent' \in AgentRow
        /\ agent'.phase = "answering" /\ agent'.turn = agent.turn + 1 /\ agent'.started = started
        /\ agent'.before = Len(agent.calls) /\ agent'.calls = agent.calls
        /\ agent'.open = agent.open /\ agent'.posted = Id
    BY <1>2, <1>3, <1>4 DEF AgentRow
  <2>2. event \in Event /\ event.id = Id /\ event.turn = agent.turn + 1 /\ event.type = "turn_start"
    BY <1>2 DEF Event
  <2>. HIDE DEF event
  <2>3. \A e \in Known : Follows(e, event) /\ e.turn < event.turn
    BY <1>2, <2>2, KnownBefore DEF Follows
  <2>4. Fitting(event)
    BY <1>2, <2>1, <2>2, <2>3 DEF Fitting, Id
  <2>5. \A e \in Known : e.turn # agent'.turn
    BY <1>2, <2>1, KnownBefore
  <2>6. /\ agent'.started \in 1 .. Len(log) + 1 /\ agent'.before <= Len(agent.calls)
        /\ agent'.turn # 0
    BY <1>2, <2>1
  <2>. QED BY <1>1, <1>2, <1>4, <2>1, <2>2, <2>4, <2>5, <2>6, QuietKeeps DEF Quiet
<1>5. CASE agent' = starts /\ UNCHANGED <<log, late, faults>>
  <2>1. Known' = Known
    BY <1>5 DEF Known
  <2>2. AgentTypes'
    BY <1>1, <1>2, <1>3, <1>5 DEF AgentInv, AgentTypes
  <2>3. \A e \in Known : e.turn < agent'.turn /\ e.turn <= agent'.turn
    BY <1>2, <1>3, <1>5, KnownBefore
  <2>4. OnceInv'
    BY <1>3, <1>5, <2>1, <2>3 DEF AgentInv, OnceInv
  <2>5. \A e \in Known : e.turn \in Nat
    BY KnownBefore
  <2>6. \A e \in Known : e.turn # agent'.turn
    BY <2>3, <2>5, <1>2, <1>3, <1>5
  <2>7. ProtocolInv'
    BY <1>2, <1>3, <1>5, <2>1, <2>6 DEF AgentInv, ProtocolInv
  <2>. QED BY <2>2, <2>4, <2>7 DEF AgentInv
<1>. QED BY <1>1, <1>4, <1>5

\* A call of its own, in the turn that the agent is at.
LEMMA ToolStartKeeps ==
  ASSUME AgentInv, ToolStart
  PROVE  AgentInv'
<1>. USE BoundsAre
<1>1. /\ agent.phase \in {"answering", "calling"} /\ Len(agent.calls) < MaxCalls /\ UNCHANGED debug
  BY DEF ToolStart
<1>. DEFINE new == Len(agent.calls) + 1
<1>2. PICK tool \in Tools :
        /\ agent' = [Posted EXCEPT !.phase = "calling", !.calls = Append(Posted.calls, tool),
                                   !.open = Posted.open \cup {new}]
        /\ ToolCall(new, tool, "running")
  BY DEF ToolStart
<1>. DEFINE event == [type |-> "tool_call", id |-> Id, turn |-> agent.turn, call |-> new,
                      tool |-> tool, status |-> "running", args |-> "running" = "running"]
<1>3. Report(event)
  BY <1>2 DEF ToolCall
<1>4. /\ agent \in AgentRow /\ agent.calls \in Seq(Tools) /\ Len(agent.calls) \in Nat
      /\ new \in Calls /\ Id \in Nat /\ agent.turn \in Turns
  BY <1>1 DEF AgentInv, AgentTypes, AgentRow, ProtocolInv, Id
<1>5. /\ Append(agent.calls, tool) \in Seq(Tools) /\ Len(Append(agent.calls, tool)) = new
  BY <1>4
<1>6. event \in Event /\ event.id = Id /\ event.turn = agent.turn /\ event.type = "tool_call"
      /\ event.call = new
  <2>. DEFINE args == "running" = "running"
  <2>1. args \in BOOLEAN
    OBVIOUS
  <2>. HIDE DEF args, new
  <2>2. [type |-> "tool_call", id |-> Id, turn |-> agent.turn, call |-> new,
         tool |-> tool, status |-> "running", args |-> args]
           \in [type : {"tool_call"}, id : Nat, turn : Turns, call : Calls, tool : Tools,
                status : {"running", "ended"}, args : BOOLEAN]
    BY <1>4, <2>1
  <2>. QED BY <2>2 DEF args, Event
<1>7. /\ agent' \in AgentRow
      /\ agent'.posted = agent.posted + 1 /\ agent'.phase = "calling"
      /\ agent'.turn = agent.turn /\ agent'.started = agent.started
      /\ agent'.calls = Append(agent.calls, tool) /\ agent'.before = agent.before
      /\ agent'.open = agent.open \cup {new}
  <2>. DEFINE calls == Append(agent.calls, tool)
              open == agent.open \cup {new}
  <2>1. calls \in Seq(Tools) /\ open \in SUBSET Calls
    BY <1>4, <1>5 DEF AgentRow
  <2>2. agent' = [Posted EXCEPT !.phase = "calling", !.calls = calls, !.open = open]
    BY <1>2, PostedIs DEF AgentInv
  <2>. HIDE DEF calls, open
  <2>3. /\ agent' \in AgentRow
        /\ agent'.posted = agent.posted + 1 /\ agent'.phase = "calling"
        /\ agent'.turn = agent.turn /\ agent'.started = agent.started
        /\ agent'.calls = calls /\ agent'.before = agent.before /\ agent'.open = open
    BY <2>1, <2>2, PostedIs DEF AgentInv, AgentRow
  <2>. QED BY <2>3 DEF calls, open
<1>. HIDE DEF event
<1>8. \A e \in Known : Follows(e, event) /\ (e.type = "tool_call" => e.call # new)
  <2>1. \A e \in Known : Follows(e, event)
    BY <1>1, <1>6, KnownBefore DEF AgentInv, ProtocolInv, Follows
  <2>2. \A e \in Known : e.type = "tool_call" => e.call # new
    BY <1>4, KnownBefore, EventIs DEF AgentInv, ProtocolInv
  <2>. QED BY <2>1, <2>2
<1>9. Fitting(event)
  BY <1>4, <1>6, <1>7, <1>8 DEF Fitting, Id
<1>10. /\ log' \in Seq(Event) /\ late' \in {NoEvent} \cup Event /\ faults' \in 0 .. MaxFaults
       /\ Known' \subseteq Known \cup {event}
  BY <1>3, <1>6, ReportIs DEF AgentInv
<1>11. /\ OnceInv'
       /\ \A e, f \in Known' : Follows(e, f)
       /\ \A e, f \in Known' : e.type = "tool_call" /\ f.type = "tool_call" /\ e.call = f.call =>
            e.turn = f.turn
       /\ agent'.started <= Len(log') + 1
       /\ \A i \in DOMAIN log' : log'[i].type = "turn_end" => log'[i].started <= i
       /\ late' # NoEvent /\ late'.type = "turn_end" => late'.started <= Len(log') + 1
  <2>1. agent'.turn \in Nat /\ agent'.posted \in Nat
    BY <1>4, <1>7 DEF AgentRow
  <2>2. agent'.started \in 1 .. Len(log) + 1
    BY <1>7, StartedIs
  <2>. QED BY <1>3, <1>9, <2>1, <2>2, FittingKeeps
<1>12. AgentTypes'
  BY <1>1, <1>4, <1>5, <1>7, <1>10 DEF AgentInv, AgentTypes, AgentRow
<1>13. \A e \in Known' : e.type = "turn_end" /\ e.turn = agent'.turn =>
         agent'.phase \in {"between", "reported"}
  BY <1>1, <1>6, <1>7, <1>10 DEF AgentInv, ProtocolInv
<1>14. \A e \in Known' : e.type = "tool_call" =>
         /\ e.call <= Len(agent'.calls)
         /\ e.call \in agent'.open => e.turn = agent'.turn
  <2>1. \A e \in Known : e.type = "tool_call" => e.call \in Nat
    BY KnownBefore, EventIs
  <2>. QED BY <1>4, <1>5, <1>6, <1>7, <1>8, <1>10, <2>1 DEF AgentInv, ProtocolInv
<1>15. agent'.open \subseteq 1 .. Len(agent'.calls)
  BY <1>4, <1>5, <1>7 DEF AgentInv, ProtocolInv
<1>16. ProtocolInv'
  BY <1>4, <1>7, <1>11, <1>13, <1>14, <1>15 DEF ProtocolInv
<1>. QED BY <1>11, <1>12, <1>16 DEF AgentInv

\* A call ends, and is open no more (tool_execution_end).
LEMMA ToolEndKeeps ==
  ASSUME AgentInv, ToolEnd
  PROVE  AgentInv'
<1>. USE BoundsAre
<1>1. PICK call \in agent.open :
        /\ agent' = [Posted EXCEPT !.open = Posted.open \ {call}]
        /\ ToolCall(call, agent.calls[call], "ended")
  BY DEF ToolEnd
<1>. DEFINE tool == agent.calls[call]
            event == [type |-> "tool_call", id |-> Id, turn |-> agent.turn, call |-> call,
                      tool |-> tool, status |-> "ended", args |-> "ended" = "running"]
<1>2. Report(event) /\ UNCHANGED debug
  BY <1>1 DEF ToolCall, ToolEnd
<1>3. /\ agent \in AgentRow /\ agent.calls \in Seq(Tools) /\ Len(agent.calls) \in Nat
      /\ call \in Calls /\ call \in 1 .. Len(agent.calls) /\ Id \in Nat
      /\ agent.phase \in {"answering", "calling"} /\ agent.turn \in Turns
  <2>1. /\ agent \in AgentRow /\ agent.calls \in Seq(Tools) /\ agent.turn \in 0 .. MaxTurns
        /\ Id \in Nat /\ agent.open \subseteq Calls
        /\ agent.phase \in {"between", "answering", "calling", "reported"}
    BY DEF AgentInv, AgentTypes, AgentRow, Id
  <2>2. /\ agent.open \subseteq 1 .. Len(agent.calls) /\ agent.open # {}
        /\ agent.phase \in {"between", "reported"} => agent.open = {}
        /\ agent.phase \in {"answering", "calling"} => agent.turn # 0
    BY <1>1 DEF AgentInv, ProtocolInv
  <2>. QED BY <1>1, <2>1, <2>2
<1>4. tool \in Tools
  BY <1>3
<1>5. event \in Event /\ event.id = Id /\ event.turn = agent.turn /\ event.type = "tool_call"
      /\ event.call = call
  <2>. DEFINE args == "ended" = "running"
  <2>1. args \in BOOLEAN
    OBVIOUS
  <2>. HIDE DEF args, tool
  <2>2. [type |-> "tool_call", id |-> Id, turn |-> agent.turn, call |-> call,
         tool |-> tool, status |-> "ended", args |-> args]
           \in [type : {"tool_call"}, id : Nat, turn : Turns, call : Calls, tool : Tools,
                status : {"running", "ended"}, args : BOOLEAN]
    BY <1>3, <1>4, <2>1
  <2>. QED BY <2>2 DEF args, Event
<1>6. /\ agent' \in AgentRow
      /\ agent'.posted = agent.posted + 1 /\ agent'.phase = agent.phase
      /\ agent'.turn = agent.turn /\ agent'.started = agent.started
      /\ agent'.calls = agent.calls /\ agent'.before = agent.before
      /\ agent'.open = agent.open \ {call}
  <2>. DEFINE open == agent.open \ {call}
  <2>1. open \in SUBSET Calls
    BY <1>3 DEF AgentRow
  <2>2. agent' = [Posted EXCEPT !.open = open]
    BY <1>1, PostedIs DEF AgentInv
  <2>. HIDE DEF open
  <2>3. /\ agent' \in AgentRow
        /\ agent'.posted = agent.posted + 1 /\ agent'.phase = agent.phase
        /\ agent'.turn = agent.turn /\ agent'.started = agent.started
        /\ agent'.calls = agent.calls /\ agent'.before = agent.before /\ agent'.open = open
    BY <2>1, <2>2, PostedIs DEF AgentInv, AgentRow
  <2>. QED BY <2>3 DEF open
<1>. HIDE DEF event
<1>7. \A e \in Known : Follows(e, event) /\ (e.type = "tool_call" /\ e.call = call => e.turn = agent.turn)
  BY <1>1, <1>3, <1>5, KnownBefore DEF AgentInv, ProtocolInv, Follows
<1>8. Fitting(event)
  BY <1>3, <1>5, <1>6, <1>7 DEF Fitting, Id
<1>9. /\ log' \in Seq(Event) /\ late' \in {NoEvent} \cup Event /\ faults' \in 0 .. MaxFaults
      /\ Known' \subseteq Known \cup {event}
  BY <1>2, <1>5, ReportIs DEF AgentInv
<1>10. /\ OnceInv'
       /\ \A e, f \in Known' : Follows(e, f)
       /\ \A e, f \in Known' : e.type = "tool_call" /\ f.type = "tool_call" /\ e.call = f.call =>
            e.turn = f.turn
       /\ agent'.started <= Len(log') + 1
       /\ \A i \in DOMAIN log' : log'[i].type = "turn_end" => log'[i].started <= i
       /\ late' # NoEvent /\ late'.type = "turn_end" => late'.started <= Len(log') + 1
  <2>1. agent'.turn \in Nat /\ agent'.posted \in Nat
    BY <1>3, <1>6 DEF AgentRow
  <2>2. agent'.started \in 1 .. Len(log) + 1
    BY <1>6, StartedIs
  <2>. QED BY <1>2, <1>8, <2>1, <2>2, FittingKeeps
<1>11. AgentTypes'
  BY <1>2, <1>6, <1>9 DEF AgentInv, AgentTypes
<1>12. ProtocolInv'
  BY <1>3, <1>5, <1>6, <1>9, <1>10 DEF AgentInv, ProtocolInv
<1>. QED BY <1>10, <1>11, <1>12 DEF AgentInv

\* What was late is in the log, where it is known as before.
LEMMA ArriveKeeps ==
  ASSUME AgentInv, Arrive
  PROVE  AgentInv' /\ late \in Event /\ log' = Append(log, late)
<1>. USE BoundsAre
<1>1. /\ late # NoEvent /\ log' = Append(log, late) /\ late' = NoEvent
      /\ UNCHANGED <<agent, debug, faults>>
  BY DEF Arrive
<1>2. /\ late \in Event /\ late \in Known /\ log \in Seq(Event) /\ Len(log) \in Nat
      /\ \A i \in DOMAIN log : log[i] \in Known
  BY <1>1, KnownAre DEF AgentInv, AgentTypes
<1>3. /\ log' \in Seq(Event) /\ Len(log') = Len(log) + 1
      /\ DOMAIN log = 1 .. Len(log) /\ DOMAIN log' = 1 .. (Len(log) + 1)
      /\ \A i \in DOMAIN log : log'[i] = log[i]
      /\ log'[Len(log) + 1] = late
      /\ ToSet(log') = ToSet(log) \cup {late}
  BY <1>1, <1>2, AppendIs
<1>4. Known' = Known
  BY <1>1, <1>3 DEF Known
<1>5. AgentTypes'
  BY <1>1, <1>3 DEF AgentInv, AgentTypes
<1>6. OnceInv'
  <2>1. \A i, j \in DOMAIN log' : log'[i].id = log'[j].id => i = j
    <3>1. \A i, j \in DOMAIN log : log[i].id = log[j].id => i = j
      BY DEF AgentInv, OnceInv
    <3>2. \A i \in DOMAIN log : log[i].id # late.id
      BY <1>1 DEF AgentInv, OnceInv
    <3>3. ASSUME NEW i \in DOMAIN log', NEW j \in DOMAIN log', log'[i].id = log'[j].id
          PROVE  i = j
      <4>1. CASE i \in DOMAIN log /\ j \in DOMAIN log
        BY <4>1, <3>1, <3>3, <1>3
      <4>2. CASE i = Len(log) + 1 /\ j \in DOMAIN log
        BY <4>2, <3>2, <3>3, <1>3
      <4>3. CASE j = Len(log) + 1 /\ i \in DOMAIN log
        BY <4>3, <3>2, <3>3, <1>3
      <4>. QED BY <4>1, <4>2, <4>3, <1>2, <1>3
    <3>. QED BY <3>3
  <2>2. Len(log') <= agent'.posted
    BY <1>1, <1>2, <1>3 DEF AgentInv, OnceInv, AgentTypes, AgentRow
  <2>. QED BY <2>1, <2>2, <1>1, <1>4 DEF AgentInv, OnceInv
<1>7. late.type = "turn_end" => late.started \in Nat /\ late.started <= Len(log) + 1
  BY <1>1, <1>2, EventIs DEF AgentInv, ProtocolInv
<1>8. \A i \in DOMAIN log' : log'[i].type = "turn_end" => log'[i].started <= i
  BY <1>2, <1>3, <1>7 DEF AgentInv, ProtocolInv
<1>9. agent.started <= Len(log') + 1
  BY <1>2, <1>3 DEF AgentInv, AgentTypes, AgentRow, ProtocolInv
<1>10. ProtocolInv'
  BY <1>1, <1>4, <1>8, <1>9 DEF AgentInv, ProtocolInv
<1>. QED BY <1>1, <1>2, <1>5, <1>6, <1>10 DEF AgentInv

\* The log is as it was, or has one more event.
LEMMA LogGrows ==
  ASSUME AgentInv, Next
  PROVE  log' = log \/ \E event \in Event : log' = Append(log, event)
<1>1. CASE Arrive
  BY <1>1, ArriveKeeps
<1>2. CASE Note \/ TurnStart \/ TextDelta \/ ToolStart \/ ToolEnd \/ TurnEnd \/ ReportStatus
  <2>1. log' = log \/ \E event : log' = Append(log, event)
    BY <1>2 DEF Note, TurnStart, TextDelta, ToolStart, ToolEnd, ToolCall, TurnEnd, ReportStatus, Report
  <2>2. AgentInv'
    BY <1>2, NoteKeeps, TurnStartKeeps, TextDeltaKeeps, ToolStartKeeps, ToolEndKeeps, TurnEndKeeps,
       ReportStatusKeeps
  <2>3. ASSUME NEW event, log' = Append(log, event) PROVE event \in Event
    <3>1. log' \in Seq(Event) /\ log \in Seq(Event)
      BY <2>2 DEF AgentInv, AgentTypes
    <3>2. Len(log) + 1 \in DOMAIN log' /\ log'[Len(log) + 1] = event
      BY <2>3, <3>1
    <3>. QED BY <3>1, <3>2
  <2>. QED BY <2>1, <2>3
<1>. QED BY <1>1, <1>2 DEF Next

\* Every step of the agent and of the network keeps the invariant of what is reported.
LEMMA AgentKeeps ==
  ASSUME AgentInv, [DisplayNext]_<<concern, vars, views, pageVars>>
  PROVE  AgentInv'
<1>1. CASE UNCHANGED vars
  BY <1>1 DEF vars, AgentInv, AgentTypes, OnceInv, ProtocolInv, Known
<1>2. CASE Next
  BY <1>2, NoteKeeps, TurnStartKeeps, TextDeltaKeeps, ToolStartKeeps, ToolEndKeeps, TurnEndKeeps,
     ReportStatusKeeps, ArriveKeeps DEF Next
<1>. QED BY <1>1, <1>2 DEF DisplayNext, Feed, Page

-----------------------------------------------------------------------------
(* The trace. *)

\* A span: a turn, a step or a call, the step it is of, and where in the log it began and ended.
SpanRow ==
  [name : {"step", "tool", "turn"}, turn : Turns, call : {0} \cup Calls, of : Nat, from : Nat,
   to : Nat, tools : Nat, awaiting : BOOLEAN]

\* The spans of open calls in the step at i.
Inside(spans, i) ==
  {k \in DOMAIN spans : spans[k].name = "tool" /\ spans[k].of = i /\ spans[k].to = 0}

\* A step counts its open calls.  A call is in a step of its turn, where it was asked
\* for, and its end is in the log.
WellMade(S, L) ==
  /\ S \in Seq(SpanRow)
  /\ \A i \in DOMAIN S : S[i].from <= Len(L) /\ S[i].to <= Len(L)
  /\ \A i \in DOMAIN S : S[i].name = "step" =>
       S[i].tools = Cardinality(Inside(S, i)) /\ (S[i].to # 0 => S[i].tools = 0)
  /\ \A i \in DOMAIN S : S[i].name = "tool" =>
       /\ S[i].of \in DOMAIN S
       /\ S[S[i].of].name = "step" /\ S[S[i].of].turn = S[i].turn
       /\ S[S[i].of].from <= S[i].from
       /\ \E k \in DOMAIN L : /\ L[k].type = "tool_call" /\ L[k].turn = S[i].turn
                              /\ L[k].call = S[i].call
       /\ S[i].to # 0 => S[i].to \in DOMAIN L /\ L[S[i].to].turn = S[i].turn

\* A later turn began at that time, and its end came when the call had ended.
AfterTurn(L, tool, at) ==
  \E j \in DOMAIN L : /\ L[j].type = "turn_end" /\ L[j].turn > tool.turn
                      /\ L[j].started = at /\ tool.to < j

\* A step waits for its calls or ends because its turn, or a later one, has ended,
\* and no earlier than its calls or when the later turn began; so there is no second
\* step of that turn.
Timely(S, L) ==
  /\ \A i \in DOMAIN S : S[i].name = "step" /\ S[i].awaiting =>
       \E k \in DOMAIN L : L[k].type = "turn_end" /\ L[k].turn = S[i].turn
  /\ \A i \in DOMAIN S : S[i].name = "step" /\ S[i].to # 0 =>
       \E k \in DOMAIN L : L[k].type = "turn_end" /\ L[k].turn >= S[i].turn
  /\ \A i \in DOMAIN S : S[i].name = "tool" /\ S[i].to # 0 /\ S[S[i].of].to # 0 =>
       S[i].to <= S[S[i].of].to \/ AfterTurn(L, S[i], S[S[i].of].to)
  /\ \A i, j \in DOMAIN S :
       S[i].name = "step" /\ S[j].name = "step" /\ S[i].turn = S[j].turn => i = j

\* The invariant of the trace: it is well made whatever comes late, and timely when nothing does.
TraceInv ==
  /\ trace \in [spans : Seq(SpanRow), output : 0 .. MaxTurns, tokens : Nat]
  /\ WellMade(trace.spans, log)
  /\ InOrder => Timely(trace.spans, log)

-----------------------------------------------------------------------------
\* A span that ends is otherwise the same.
LEMMA SpanEnds ==
  ASSUME NEW row \in SpanRow, NEW at \in Nat
  PROVE  /\ [row EXCEPT !.to = at] \in SpanRow
         /\ [row EXCEPT !.to = at].to = at
         /\ [row EXCEPT !.to = at].name = row.name
         /\ [row EXCEPT !.to = at].turn = row.turn
         /\ [row EXCEPT !.to = at].call = row.call
         /\ [row EXCEPT !.to = at].of = row.of
         /\ [row EXCEPT !.to = at].from = row.from
         /\ [row EXCEPT !.to = at].tools = row.tools
         /\ [row EXCEPT !.to = at].awaiting = row.awaiting
BY DEF SpanRow

\* A span that counts its calls is otherwise the same.
LEMMA SpanCounts ==
  ASSUME NEW row \in SpanRow, NEW n \in Nat
  PROVE  /\ [row EXCEPT !.tools = n] \in SpanRow
         /\ [row EXCEPT !.tools = n].tools = n
         /\ [row EXCEPT !.tools = n].name = row.name
         /\ [row EXCEPT !.tools = n].turn = row.turn
         /\ [row EXCEPT !.tools = n].call = row.call
         /\ [row EXCEPT !.tools = n].of = row.of
         /\ [row EXCEPT !.tools = n].from = row.from
         /\ [row EXCEPT !.tools = n].to = row.to
         /\ [row EXCEPT !.tools = n].awaiting = row.awaiting
BY DEF SpanRow

\* A span that awaits its calls is otherwise the same.
LEMMA SpanAwaits ==
  ASSUME NEW row \in SpanRow, NEW flag \in BOOLEAN
  PROVE  /\ [row EXCEPT !.awaiting = flag] \in SpanRow
         /\ [row EXCEPT !.awaiting = flag].awaiting = flag
         /\ [row EXCEPT !.awaiting = flag].name = row.name
         /\ [row EXCEPT !.awaiting = flag].turn = row.turn
         /\ [row EXCEPT !.awaiting = flag].call = row.call
         /\ [row EXCEPT !.awaiting = flag].of = row.of
         /\ [row EXCEPT !.awaiting = flag].from = row.from
         /\ [row EXCEPT !.awaiting = flag].to = row.to
         /\ [row EXCEPT !.awaiting = flag].tools = row.tools
BY DEF SpanRow

\* A step has finitely many open calls.
LEMMA InsideFinite ==
  ASSUME NEW S \in Seq(SpanRow), NEW i
  PROVE  IsFiniteSet(Inside(S, i)) /\ Cardinality(Inside(S, i)) \in Nat
<1>1. IsFiniteSet(1 .. Len(S))
  BY FS_Interval
<1>2. Inside(S, i) \subseteq 1 .. Len(S)
  BY DEF Inside
<1>. QED BY <1>1, <1>2, FS_Subset, FS_CardinalityType

\* A longer log changes nothing.
LEMMA LongerLog ==
  ASSUME NEW e \in Event, NEW L \in Seq(Event), NEW S, WellMade(S, L)
  PROVE  /\ WellMade(S, Append(L, e))
         /\ Timely(S, L) => Timely(S, Append(L, e))
<1>. DEFINE M == Append(L, e)
<1>1. /\ Len(L) \in Nat /\ Len(M) = Len(L) + 1 /\ DOMAIN L \subseteq DOMAIN M
      /\ \A k \in DOMAIN L : M[k] = L[k]
  BY AppendIs
<1>. HIDE DEF M
<1>2. \A i \in DOMAIN S : S[i] \in SpanRow
  BY DEF WellMade
<1>3. \A i \in DOMAIN S : S[i].from <= Len(M) /\ S[i].to <= Len(M)
  <2>1. \A i \in DOMAIN S : S[i].from \in Nat /\ S[i].to \in Nat
    BY <1>2 DEF SpanRow
  <2>2. \A i \in DOMAIN S : S[i].from <= Len(L) /\ S[i].to <= Len(L)
    BY DEF WellMade
  <2>. QED BY <1>1, <2>1, <2>2
<1>4. \A i \in DOMAIN S : S[i].name = "tool" =>
        /\ S[i].of \in DOMAIN S
        /\ S[S[i].of].name = "step" /\ S[S[i].of].turn = S[i].turn
        /\ S[S[i].of].from <= S[i].from
        /\ \E k \in DOMAIN M : /\ M[k].type = "tool_call" /\ M[k].turn = S[i].turn
                               /\ M[k].call = S[i].call
        /\ S[i].to # 0 => S[i].to \in DOMAIN M /\ M[S[i].to].turn = S[i].turn
  BY <1>1 DEF WellMade
<1>5. WellMade(S, M)
  BY <1>3, <1>4 DEF WellMade
<1>6. Timely(S, L) => Timely(S, M)
  <2>1. \A i \in DOMAIN S : \A at : AfterTurn(L, S[i], at) => AfterTurn(M, S[i], at)
    BY <1>1 DEF AfterTurn
  <2>. QED BY <1>1, <2>1 DEF Timely
<1>. QED BY <1>5, <1>6 DEF M

\* A span is added that is no call.
LEMMA SpanAdded ==
  ASSUME NEW L, Len(L) \in Nat, NEW S, WellMade(S, L), NEW span \in SpanRow,
         span.name # "tool", span.from <= Len(L), span.to <= Len(L),
         span.tools = 0
  PROVE  /\ WellMade(Append(S, span), L)
         /\ Timely(S, L) /\ (span.name = "step" => span.to = 0 /\ ~span.awaiting)
            /\ (span.name = "step" =>
                  \A i \in DOMAIN S : S[i].name = "step" => S[i].turn # span.turn)
              => Timely(Append(S, span), L)
<1>. DEFINE T == Append(S, span)
            new == Len(S) + 1
<1>1. S \in Seq(SpanRow) /\ Len(S) \in Nat
  BY DEF WellMade
<1>2. /\ T \in Seq(SpanRow) /\ DOMAIN S = 1 .. Len(S) /\ DOMAIN T = DOMAIN S \cup {new}
      /\ new \notin DOMAIN S
      /\ \A i \in DOMAIN S : T[i] = S[i] /\ T[i] \in SpanRow
      /\ T[new] = span
  BY <1>1
<1>. HIDE DEF T, new
<1>3. \A i \in DOMAIN S : S[i].name = "tool" => S[i].of \in DOMAIN S
  BY DEF WellMade
<1>4. \A i \in DOMAIN S : Inside(T, i) = Inside(S, i)
  BY <1>2 DEF Inside
<1>5. Inside(T, new) = {}
  BY <1>2, <1>3 DEF Inside
<1>6. Cardinality(Inside(T, new)) = 0
  BY <1>5, FS_EmptySet
<1>7. WellMade(T, L)
  <2>1. \A i \in DOMAIN T : T[i].from <= Len(L) /\ T[i].to <= Len(L)
    BY <1>2 DEF WellMade
  <2>2. \A i \in DOMAIN T : T[i].name = "step" =>
          T[i].tools = Cardinality(Inside(T, i)) /\ (T[i].to # 0 => T[i].tools = 0)
    BY <1>2, <1>4, <1>6 DEF WellMade
  <2>3. \A i \in DOMAIN T : T[i].name = "tool" => i \in DOMAIN S /\ T[i].of \in DOMAIN S
    BY <1>2, <1>3
  <2>4. \A i \in DOMAIN T : T[i].name = "tool" =>
          /\ T[i].of \in DOMAIN T
          /\ T[T[i].of].name = "step" /\ T[T[i].of].turn = T[i].turn
          /\ T[T[i].of].from <= T[i].from
          /\ \E k \in DOMAIN L : /\ L[k].type = "tool_call" /\ L[k].turn = T[i].turn
                                 /\ L[k].call = T[i].call
          /\ T[i].to # 0 => T[i].to \in DOMAIN L /\ L[T[i].to].turn = T[i].turn
    BY <1>2, <2>3 DEF WellMade
  <2>. QED BY <1>2, <2>1, <2>2, <2>4 DEF WellMade
<1>8. ASSUME Timely(S, L), span.name = "step" => span.to = 0 /\ ~span.awaiting,
             span.name = "step" => \A i \in DOMAIN S : S[i].name = "step" => S[i].turn # span.turn
      PROVE  Timely(T, L)
  <2>1. \A i \in DOMAIN T : T[i].name = "tool" => i \in DOMAIN S /\ T[i].of \in DOMAIN S
    BY <1>2, <1>3
  <2>2. \A i \in DOMAIN T : T[i].name = "step" /\ (T[i].awaiting \/ T[i].to # 0) => i \in DOMAIN S
    BY <1>2, <1>8
  <2>3. \A i \in DOMAIN T : T[i].name = "step" /\ T[i].awaiting =>
          \E k \in DOMAIN L : L[k].type = "turn_end" /\ L[k].turn = T[i].turn
    BY <1>2, <1>8, <2>2 DEF Timely
  <2>4. \A i \in DOMAIN T : T[i].name = "step" /\ T[i].to # 0 =>
          \E k \in DOMAIN L : L[k].type = "turn_end" /\ L[k].turn >= T[i].turn
    BY <1>2, <1>8, <2>2 DEF Timely
  <2>5. \A i \in DOMAIN T : T[i].name = "tool" /\ T[i].to # 0 /\ T[T[i].of].to # 0 =>
          T[i].to <= T[T[i].of].to \/ AfterTurn(L, T[i], T[T[i].of].to)
    BY <1>2, <1>8, <2>1 DEF Timely
  <2>6. \A i, j \in DOMAIN T :
          T[i].name = "step" /\ T[j].name = "step" /\ T[i].turn = T[j].turn => i = j
    BY <1>2, <1>8 DEF Timely
  <2>. QED BY <2>3, <2>4, <2>5, <2>6 DEF Timely
<1>. QED BY <1>7, <1>8 DEF T

\* Steps without open calls end.
Closed(S, I, at) == [i \in DOMAIN S |-> IF i \in I THEN [S[i] EXCEPT !.to = at] ELSE S[i]]

\* Steps end of which no call is open (closeStep).
LEMMA StepsEnd ==
  ASSUME NEW L, Len(L) \in Nat, NEW S, WellMade(S, L), NEW at \in Nat, at <= Len(L),
         NEW I \in SUBSET DOMAIN S, \A i \in I : S[i].name = "step" /\ S[i].tools = 0
  PROVE  /\ WellMade(Closed(S, I, at), L)
         /\ DOMAIN Closed(S, I, at) = DOMAIN S
         /\ Timely(S, L)
            /\ (\A i \in I : S[i].to = 0 /\ \E k \in DOMAIN L : L[k].type = "turn_end" /\ L[k].turn >= S[i].turn)
            /\ (\A k \in DOMAIN S : S[k].name = "tool" /\ S[k].of \in I /\ S[k].to # 0 =>
                  S[k].to <= at \/ AfterTurn(L, S[k], at))
              => Timely(Closed(S, I, at), L)
<1>. DEFINE T == Closed(S, I, at)
<1>1. S \in Seq(SpanRow) /\ \A i \in DOMAIN S : S[i] \in SpanRow
  BY DEF WellMade
<1>2. /\ T \in Seq(SpanRow) /\ DOMAIN T = DOMAIN S
      /\ \A i \in DOMAIN S :
           /\ T[i].name = S[i].name /\ T[i].turn = S[i].turn /\ T[i].call = S[i].call
           /\ T[i].of = S[i].of /\ T[i].from = S[i].from /\ T[i].tools = S[i].tools
           /\ T[i].awaiting = S[i].awaiting
           /\ T[i].to = IF i \in I THEN at ELSE S[i].to
  <2>1. \A i \in DOMAIN S : [S[i] EXCEPT !.to = at] \in SpanRow
    BY <1>1 DEF SpanRow
  <2>2. DOMAIN T = DOMAIN S /\ \A i \in DOMAIN S : T[i] \in SpanRow
    BY <1>1, <2>1 DEF Closed
  <2>3. DOMAIN S = 1 .. Len(S) /\ Len(S) \in Nat
    BY <1>1
  <2>4. T = [i \in 1 .. Len(S) |-> T[i]]
    BY <2>3 DEF Closed
  <2>5. T \in Seq(SpanRow)
    BY <2>2, <2>3, <2>4
  <2>. QED BY <1>1, <2>2, <2>5 DEF Closed, SpanRow
<1>. HIDE DEF T
<1>3. \A i \in DOMAIN S : Inside(T, i) = Inside(S, i)
  BY <1>2 DEF Inside
<1>4. WellMade(T, L)
  <2>1. \A i \in DOMAIN T : T[i].from <= Len(L) /\ T[i].to <= Len(L)
    BY <1>2 DEF WellMade
  <2>2. \A i \in DOMAIN T : T[i].name = "step" =>
          T[i].tools = Cardinality(Inside(T, i)) /\ (T[i].to # 0 => T[i].tools = 0)
    BY <1>2, <1>3 DEF WellMade
  <2>3. \A i \in DOMAIN T : T[i].name = "tool" =>
          /\ T[i].of \in DOMAIN T
          /\ T[T[i].of].name = "step" /\ T[T[i].of].turn = T[i].turn
          /\ T[T[i].of].from <= T[i].from
          /\ \E k \in DOMAIN L : /\ L[k].type = "tool_call" /\ L[k].turn = T[i].turn
                                 /\ L[k].call = T[i].call
          /\ T[i].to # 0 => T[i].to \in DOMAIN L /\ L[T[i].to].turn = T[i].turn
    <3>1. \A i \in DOMAIN T : T[i].name = "tool" =>
            i \in DOMAIN S /\ S[i].name = "tool" /\ i \notin I /\ T[i].to = S[i].to
      BY <1>2
    <3>2. \A i \in DOMAIN S : S[i].name = "tool" =>
            /\ S[i].of \in DOMAIN S
            /\ S[S[i].of].name = "step" /\ S[S[i].of].turn = S[i].turn
            /\ S[S[i].of].from <= S[i].from
            /\ \E k \in DOMAIN L : /\ L[k].type = "tool_call" /\ L[k].turn = S[i].turn
                                   /\ L[k].call = S[i].call
            /\ S[i].to # 0 => S[i].to \in DOMAIN L /\ L[S[i].to].turn = S[i].turn
      BY DEF WellMade
    <3>. QED BY <1>2, <3>1, <3>2
  <2>. QED BY <1>2, <2>1, <2>2, <2>3 DEF WellMade
<1>5. ASSUME Timely(S, L),
             \A i \in I : S[i].to = 0 /\ \E k \in DOMAIN L : L[k].type = "turn_end" /\ L[k].turn >= S[i].turn,
             \A k \in DOMAIN S : S[k].name = "tool" /\ S[k].of \in I /\ S[k].to # 0 =>
               S[k].to <= at \/ AfterTurn(L, S[k], at)
      PROVE  Timely(T, L)
  <2>1. \A i \in DOMAIN T : T[i].name = "step" /\ T[i].awaiting =>
          \E k \in DOMAIN L : L[k].type = "turn_end" /\ L[k].turn = T[i].turn
    BY <1>2, <1>5 DEF Timely
  <2>2. \A i \in DOMAIN T : T[i].name = "step" /\ T[i].to # 0 =>
          \E k \in DOMAIN L : L[k].type = "turn_end" /\ L[k].turn >= T[i].turn
    BY <1>2, <1>5 DEF Timely
  <2>3. \A i \in DOMAIN T : T[i].name = "tool" /\ T[i].to # 0 /\ T[T[i].of].to # 0 =>
          T[i].to <= T[T[i].of].to \/ AfterTurn(L, T[i], T[T[i].of].to)
    <3>1. \A i \in DOMAIN S : \A to : AfterTurn(L, S[i], to) => i \in I \/ AfterTurn(L, T[i], to)
      BY <1>2 DEF AfterTurn
    <3>2. \A i \in DOMAIN S : S[i].name = "tool" =>
            i \notin I /\ S[i].of \in DOMAIN S /\ T[i].to = S[i].to
      BY <1>2 DEF WellMade
    <3>. QED BY <1>2, <1>5, <3>1, <3>2 DEF Timely
  <2>4. \A i, j \in DOMAIN T :
          T[i].name = "step" /\ T[j].name = "step" /\ T[i].turn = T[j].turn => i = j
    BY <1>2, <1>5 DEF Timely
  <2>. QED BY <2>1, <2>2, <2>3, <2>4 DEF Timely
<1>. QED BY <1>2, <1>4, <1>5 DEF T

\* A call begins in an open step.
LEMMA ToolAdded ==
  ASSUME NEW L, Len(L) \in Nat, NEW S, WellMade(S, L), NEW step \in DOMAIN S,
         S[step].name = "step", S[step].to = 0,
         NEW call \in Calls, NEW k0 \in DOMAIN L, L[k0].type = "tool_call",
         L[k0].turn = S[step].turn, L[k0].call = call,
         NEW at \in Nat, at <= Len(L), S[step].from <= at
  PROVE  LET T == Append([S EXCEPT ![step].tools = @ + 1],
                         Span("tool", S[step].turn, call, step, at))
         IN  WellMade(T, L) /\ (Timely(S, L) => Timely(T, L))
<1>. DEFINE M == [S EXCEPT ![step].tools = @ + 1]
            span == Span("tool", S[step].turn, call, step, at)
            T == Append(M, span)
            new == Len(S) + 1
<1>1. S \in Seq(SpanRow) /\ Len(S) \in Nat /\ DOMAIN S = 1 .. Len(S)
      /\ \A i \in DOMAIN S : S[i] \in SpanRow
  BY DEF WellMade
<1>2. [S[step] EXCEPT !.tools = @ + 1] \in SpanRow
  <2>1. S[step] \in SpanRow /\ S[step].tools + 1 \in Nat
    BY <1>1 DEF SpanRow
  <2>. QED BY <2>1 DEF SpanRow
<1>3. /\ M \in Seq(SpanRow) /\ DOMAIN M = DOMAIN S /\ Len(M) = Len(S)
      /\ \A i \in DOMAIN S : i # step => M[i] = S[i]
      /\ M[step] = [S[step] EXCEPT !.tools = S[step].tools + 1]
  BY <1>1, <1>2
<1>4. span \in SpanRow
  <2>1. S[step].turn \in Turns /\ step \in Nat
    BY <1>1 DEF SpanRow
  <2>. QED BY <2>1 DEF SpanRow, Span
<1>5. /\ span.name = "tool" /\ span.turn = S[step].turn /\ span.call = call /\ span.of = step
      /\ span.from = at /\ span.to = 0 /\ span.tools = 0 /\ ~span.awaiting
  BY DEF Span
<1>. HIDE DEF M, span
<1>6. /\ T \in Seq(SpanRow) /\ DOMAIN T = DOMAIN S \cup {new} /\ new \notin DOMAIN S
      /\ \A i \in DOMAIN S : T[i] = M[i]
      /\ T[new] = span
  BY <1>1, <1>3, <1>4
<1>. HIDE DEF T, new
<1>7. /\ \A i \in DOMAIN S :
           /\ T[i].name = S[i].name /\ T[i].turn = S[i].turn /\ T[i].call = S[i].call
           /\ T[i].of = S[i].of /\ T[i].from = S[i].from /\ T[i].to = S[i].to
           /\ T[i].awaiting = S[i].awaiting
           /\ i # step => T[i].tools = S[i].tools
      /\ T[step].tools = S[step].tools + 1
  <2>1. S[step] \in SpanRow /\ S[step].tools + 1 \in Nat
    BY <1>1 DEF SpanRow
  <2>. DEFINE changed == [S[step] EXCEPT !.tools = S[step].tools + 1]
  <2>2. /\ changed.tools = S[step].tools + 1
        /\ changed.name = S[step].name /\ changed.turn = S[step].turn /\ changed.call = S[step].call
        /\ changed.of = S[step].of /\ changed.from = S[step].from /\ changed.to = S[step].to
        /\ changed.awaiting = S[step].awaiting
    BY <2>1, SpanCounts
  <2>3. T[step] = changed
    BY <1>3, <1>6
  <2>. HIDE DEF changed
  <2>4. \A i \in DOMAIN S : i # step => T[i] = S[i]
    BY <1>3, <1>6
  <2>. QED BY <2>2, <2>3, <2>4
<1>8. \A i \in DOMAIN S : S[i].name = "tool" => S[i].of \in DOMAIN S
  BY DEF WellMade
<1>9. Inside(T, step) = Inside(S, step) \cup {new} /\ new \notin Inside(S, step)
  BY <1>5, <1>6, <1>7 DEF Inside
<1>10. \A i \in DOMAIN S : i # step => Inside(T, i) = Inside(S, i)
  BY <1>5, <1>6, <1>7 DEF Inside
<1>11. Cardinality(Inside(T, step)) = Cardinality(Inside(S, step)) + 1
  <2>1. IsFiniteSet(Inside(S, step))
    BY <1>1, InsideFinite
  <2>. QED BY <1>9, <2>1, FS_AddElement
<1>12. WellMade(T, L)
  <2>1. \A i \in DOMAIN T : T[i].from <= Len(L) /\ T[i].to <= Len(L)
    BY <1>5, <1>6, <1>7 DEF WellMade
  <2>2. \A i \in DOMAIN T : T[i].name = "step" =>
          T[i].tools = Cardinality(Inside(T, i)) /\ (T[i].to # 0 => T[i].tools = 0)
    <3>1. \A i \in DOMAIN T : T[i].name = "step" => i \in DOMAIN S
      BY <1>5, <1>6
    <3>2. T[step].tools = Cardinality(Inside(T, step)) /\ T[step].to = 0
      BY <1>7, <1>11 DEF WellMade
    <3>3. \A i \in DOMAIN S : i # step /\ S[i].name = "step" =>
            T[i].tools = Cardinality(Inside(T, i)) /\ (T[i].to # 0 => T[i].tools = 0)
      BY <1>7, <1>10 DEF WellMade
    <3>. QED BY <1>7, <3>1, <3>2, <3>3
  <2>3. ASSUME NEW i \in DOMAIN T, T[i].name = "tool"
        PROVE  /\ T[i].of \in DOMAIN T
               /\ T[T[i].of].name = "step" /\ T[T[i].of].turn = T[i].turn
               /\ T[T[i].of].from <= T[i].from
               /\ \E k \in DOMAIN L : /\ L[k].type = "tool_call" /\ L[k].turn = T[i].turn
                                      /\ L[k].call = T[i].call
               /\ T[i].to # 0 => T[i].to \in DOMAIN L /\ L[T[i].to].turn = T[i].turn
    <3>1. CASE i = new
      BY <1>5, <1>6, <1>7, <3>1
    <3>2. CASE i \in DOMAIN S
      <4>1. S[i].name = "tool" /\ S[i].of \in DOMAIN S
        BY <1>7, <1>8, <2>3, <3>2
      <4>2. /\ S[S[i].of].name = "step" /\ S[S[i].of].turn = S[i].turn
            /\ S[S[i].of].from <= S[i].from
            /\ \E k \in DOMAIN L : /\ L[k].type = "tool_call" /\ L[k].turn = S[i].turn
                                   /\ L[k].call = S[i].call
            /\ S[i].to # 0 => S[i].to \in DOMAIN L /\ L[S[i].to].turn = S[i].turn
        BY <3>2, <4>1 DEF WellMade
      <4>. QED BY <1>6, <1>7, <3>2, <4>1, <4>2
    <3>. QED BY <1>6, <3>1, <3>2
  <2>. QED BY <1>6, <2>1, <2>2, <2>3 DEF WellMade
<1>13. ASSUME Timely(S, L)
       PROVE  Timely(T, L)
  <2>1. \A i \in DOMAIN T : T[i].name = "step" => i \in DOMAIN S /\ S[i].name = "step"
    BY <1>5, <1>6, <1>7
  <2>2. \A i \in DOMAIN T : T[i].name = "tool" /\ T[i].to # 0 =>
          i \in DOMAIN S /\ S[i].name = "tool" /\ S[i].of \in DOMAIN S
    BY <1>5, <1>6, <1>7, <1>8
  <2>3. \A i \in DOMAIN T : T[i].name = "step" /\ T[i].awaiting =>
          \E k \in DOMAIN L : L[k].type = "turn_end" /\ L[k].turn = T[i].turn
    BY <1>7, <1>13, <2>1 DEF Timely
  <2>4. \A i \in DOMAIN T : T[i].name = "step" /\ T[i].to # 0 =>
          \E k \in DOMAIN L : L[k].type = "turn_end" /\ L[k].turn >= T[i].turn
    BY <1>7, <1>13, <2>1 DEF Timely
  <2>5. \A i \in DOMAIN T : T[i].name = "tool" /\ T[i].to # 0 /\ T[T[i].of].to # 0 =>
          T[i].to <= T[T[i].of].to \/ AfterTurn(L, T[i], T[T[i].of].to)
    <3>1. \A i \in DOMAIN S : \A to : AfterTurn(L, S[i], to) => AfterTurn(L, T[i], to)
      BY <1>7 DEF AfterTurn
    <3>. QED BY <1>7, <1>13, <2>2, <3>1 DEF Timely
  <2>6. \A i, j \in DOMAIN T :
          T[i].name = "step" /\ T[j].name = "step" /\ T[i].turn = T[j].turn => i = j
    BY <1>7, <1>13, <2>1 DEF Timely
  <2>. QED BY <2>3, <2>4, <2>5, <2>6 DEF Timely
<1>. QED BY <1>12, <1>13 DEF T, M, span

\* A call ends, and its step counts one less.
LEMMA ToolEnded ==
  ASSUME NEW L, Len(L) \in Nat, NEW S, WellMade(S, L), NEW tool \in DOMAIN S,
         S[tool].name = "tool", S[tool].to = 0,
         NEW at \in DOMAIN L, at \in Nat \ {0}, at <= Len(L), L[at].turn = S[tool].turn
  PROVE  LET step == S[tool].of
             T == [S EXCEPT ![tool].to = at, ![step].tools = @ - 1]
         IN  /\ WellMade(T, L) /\ (Timely(S, L) => Timely(T, L))
             /\ DOMAIN T = DOMAIN S /\ step \in DOMAIN S
             /\ T[step].name = "step" /\ T[step].to = 0
             /\ T[step].tools \in Nat
<1>. DEFINE step == S[tool].of
            T == [S EXCEPT ![tool].to = at, ![step].tools = @ - 1]
<1>1. S \in Seq(SpanRow) /\ Len(S) \in Nat /\ DOMAIN S = 1 .. Len(S)
      /\ \A i \in DOMAIN S : S[i] \in SpanRow
  BY DEF WellMade
<1>2. step \in DOMAIN S /\ S[step].name = "step" /\ step # tool
  BY DEF WellMade
<1>3. tool \in Inside(S, step)
  BY DEF Inside
<1>4. /\ IsFiniteSet(Inside(S, step)) /\ Cardinality(Inside(S, step)) \in Nat
      /\ Cardinality(Inside(S, step) \ {tool}) = Cardinality(Inside(S, step)) - 1
      /\ Cardinality(Inside(S, step) \ {tool}) \in Nat
  BY <1>1, <1>3, InsideFinite, FS_RemoveElement, FS_CardinalityType, FS_Subset
<1>5. S[step].tools = Cardinality(Inside(S, step)) /\ S[step].tools - 1 \in Nat
  BY <1>2, <1>4 DEF WellMade
<1>6. S[step].to = 0
  <2>1. S[step].to # 0 => S[step].tools = 0
    BY <1>2 DEF WellMade
  <2>. QED BY <1>4, <1>5, <2>1
<1>. HIDE DEF step
<1>. DEFINE over == [S[tool] EXCEPT !.to = at]
            fewer == [S[step] EXCEPT !.tools = S[step].tools - 1]
<1>7. /\ over \in SpanRow /\ over.to = at
      /\ over.name = S[tool].name /\ over.turn = S[tool].turn /\ over.call = S[tool].call
      /\ over.of = S[tool].of /\ over.from = S[tool].from /\ over.tools = S[tool].tools
      /\ over.awaiting = S[tool].awaiting
  BY <1>1, SpanEnds
<1>20. /\ fewer \in SpanRow /\ fewer.tools = S[step].tools - 1
       /\ fewer.name = S[step].name /\ fewer.turn = S[step].turn /\ fewer.call = S[step].call
       /\ fewer.of = S[step].of /\ fewer.from = S[step].from /\ fewer.to = S[step].to
       /\ fewer.awaiting = S[step].awaiting
  BY <1>1, <1>2, <1>5, SpanCounts
<1>8. /\ T \in Seq(SpanRow) /\ DOMAIN T = DOMAIN S
      /\ T[tool] = over /\ T[step] = fewer
      /\ \A i \in DOMAIN S : i # tool /\ i # step => T[i] = S[i]
  <2>1. T = [[S EXCEPT ![tool] = over] EXCEPT ![step] = fewer]
    BY <1>1, <1>2
  <2>. HIDE DEF over, fewer
  <2>2. [S EXCEPT ![tool] = over] \in Seq(SpanRow)
    BY <1>1, <1>7
  <2>. QED BY <1>1, <1>2, <1>7, <1>20, <2>1, <2>2
<1>. HIDE DEF T, over, fewer
<1>9. /\ \A i \in DOMAIN S :
           /\ T[i].name = S[i].name /\ T[i].turn = S[i].turn /\ T[i].call = S[i].call
           /\ T[i].of = S[i].of /\ T[i].from = S[i].from /\ T[i].awaiting = S[i].awaiting
           /\ i # tool => T[i].to = S[i].to
           /\ i # step => T[i].tools = S[i].tools
      /\ T[tool].to = at /\ T[step].tools = S[step].tools - 1
  BY <1>2, <1>7, <1>20, <1>8
<1>10. Inside(T, step) = Inside(S, step) \ {tool}
  <2>1. T[tool].to # 0
    BY <1>9
  <2>2. tool \notin Inside(T, step)
    BY <2>1 DEF Inside
  <2>3. \A k : k # tool => (k \in Inside(T, step) <=> k \in Inside(S, step))
    BY <1>8, <1>9 DEF Inside
  <2>. QED BY <2>2, <2>3
<1>11. \A i \in DOMAIN S : i # step => Inside(T, i) = Inside(S, i)
  <2>1. S[tool].of = step /\ T[tool].of = step
    BY <1>9 DEF step
  <2>2. ASSUME NEW i \in DOMAIN S, i # step
        PROVE  Inside(T, i) = Inside(S, i)
    <3>1. tool \notin Inside(T, i) /\ tool \notin Inside(S, i)
      BY <2>1, <2>2 DEF Inside
    <3>2. ASSUME NEW k, k # tool
          PROVE  k \in Inside(T, i) <=> k \in Inside(S, i)
      <4>1. k \in DOMAIN S => T[k].name = S[k].name /\ T[k].of = S[k].of /\ T[k].to = S[k].to
        BY <1>9, <3>2
      <4>2. k \in Inside(T, i) <=> k \in DOMAIN T /\ T[k].name = "tool" /\ T[k].of = i /\ T[k].to = 0
        BY DEF Inside
      <4>3. k \in Inside(S, i) <=> k \in DOMAIN S /\ S[k].name = "tool" /\ S[k].of = i /\ S[k].to = 0
        BY DEF Inside
      <4>. QED BY <1>8, <4>1, <4>2, <4>3
    <3>3. \A k : k \in Inside(T, i) <=> k \in Inside(S, i)
      BY <3>1, <3>2
    <3>. QED BY <3>3
  <2>. QED BY <2>2
<1>12. WellMade(T, L)
  <2>1. \A i \in DOMAIN T : T[i].from <= Len(L) /\ T[i].to <= Len(L)
    BY <1>8, <1>9 DEF WellMade
  <2>2. \A i \in DOMAIN T : T[i].name = "step" =>
          T[i].tools = Cardinality(Inside(T, i)) /\ (T[i].to # 0 => T[i].tools = 0)
    <3>1. T[step].tools = Cardinality(Inside(T, step)) /\ T[step].to = 0
      BY <1>2, <1>4, <1>5, <1>6, <1>9, <1>10
    <3>2. \A i \in DOMAIN S : i # step /\ S[i].name = "step" =>
            T[i].tools = Cardinality(Inside(T, i)) /\ (T[i].to # 0 => T[i].tools = 0)
      BY <1>9, <1>11 DEF WellMade
    <3>. QED BY <1>8, <1>9, <3>1, <3>2
  <2>3. ASSUME NEW i \in DOMAIN T, T[i].name = "tool"
        PROVE  /\ T[i].of \in DOMAIN T
               /\ T[T[i].of].name = "step" /\ T[T[i].of].turn = T[i].turn
               /\ T[T[i].of].from <= T[i].from
               /\ \E k \in DOMAIN L : /\ L[k].type = "tool_call" /\ L[k].turn = T[i].turn
                                      /\ L[k].call = T[i].call
               /\ T[i].to # 0 => T[i].to \in DOMAIN L /\ L[T[i].to].turn = T[i].turn
    <3>1. i \in DOMAIN S /\ S[i].name = "tool"
      BY <1>8, <1>9, <2>3
    <3>2. /\ S[i].of \in DOMAIN S
          /\ S[S[i].of].name = "step" /\ S[S[i].of].turn = S[i].turn
          /\ S[S[i].of].from <= S[i].from
          /\ \E k \in DOMAIN L : /\ L[k].type = "tool_call" /\ L[k].turn = S[i].turn
                                 /\ L[k].call = S[i].call
          /\ S[i].to # 0 => S[i].to \in DOMAIN L /\ L[S[i].to].turn = S[i].turn
      BY <3>1 DEF WellMade
    <3>3. T[i].to # 0 => T[i].to \in DOMAIN L /\ L[T[i].to].turn = T[i].turn
      BY <1>9, <3>1, <3>2
    <3>4. /\ T[i].of = S[i].of /\ T[i].from = S[i].from /\ T[i].turn = S[i].turn
          /\ T[i].call = S[i].call /\ DOMAIN T = DOMAIN S
      BY <1>8, <1>9, <3>1
    <3>5. /\ T[S[i].of].name = S[S[i].of].name /\ T[S[i].of].turn = S[S[i].of].turn
          /\ T[S[i].of].from = S[S[i].of].from
      BY <1>9, <3>2
    <3>. QED BY <3>2, <3>3, <3>4, <3>5
  <2>. QED BY <1>8, <2>1, <2>2, <2>3 DEF WellMade
<1>13. ASSUME Timely(S, L)
       PROVE  Timely(T, L)
  <2>1. \A i \in DOMAIN T : T[i].name = "step" => i # tool /\ S[i].name = "step"
    BY <1>8, <1>9
  <2>2. \A i \in DOMAIN S : S[i].name = "tool" => S[i].of \in DOMAIN S /\ S[S[i].of].name = "step"
    BY DEF WellMade
  <2>3. \A i \in DOMAIN T : T[i].name = "step" /\ T[i].awaiting =>
          \E k \in DOMAIN L : L[k].type = "turn_end" /\ L[k].turn = T[i].turn
    BY <1>8, <1>9, <1>13 DEF Timely
  <2>4. \A i \in DOMAIN T : T[i].name = "step" /\ T[i].to # 0 =>
          \E k \in DOMAIN L : L[k].type = "turn_end" /\ L[k].turn >= T[i].turn
    BY <1>8, <1>9, <1>13, <2>1 DEF Timely
  <2>5. \A i \in DOMAIN T : T[i].name = "tool" /\ T[i].to # 0 /\ T[T[i].of].to # 0 =>
          T[i].to <= T[T[i].of].to \/ AfterTurn(L, T[i], T[T[i].of].to)
    <3>1. T[T[tool].of].to = 0
      BY <1>2, <1>6, <1>9 DEF step
    <3>2. \A i \in DOMAIN S : \A to : i # tool /\ AfterTurn(L, S[i], to) => AfterTurn(L, T[i], to)
      BY <1>9 DEF AfterTurn
    <3>. QED BY <1>8, <1>9, <1>13, <2>2, <3>1, <3>2 DEF Timely
  <2>6. \A i, j \in DOMAIN T :
          T[i].name = "step" /\ T[j].name = "step" /\ T[i].turn = T[j].turn => i = j
    BY <1>8, <1>9, <1>13, <2>1 DEF Timely
  <2>. QED BY <2>3, <2>4, <2>5, <2>6 DEF Timely
<1>14. T[step].name = "step" /\ T[step].to = 0 /\ T[step].tools \in Nat
  BY <1>2, <1>5, <1>6, <1>9
<1>. QED BY <1>2, <1>8, <1>12, <1>13, <1>14 DEF T, step

\* A step that awaits its calls is otherwise the same.
LEMMA StepAwaits ==
  ASSUME NEW L, Len(L) \in Nat, NEW S, WellMade(S, L), NEW step \in DOMAIN S,
         S[step].name = "step", NEW asks \in BOOLEAN
  PROVE  LET T == [S EXCEPT ![step].awaiting = asks]
         IN  /\ WellMade(T, L)
             /\ Timely(S, L)
                /\ (\E k \in DOMAIN L : L[k].type = "turn_end" /\ L[k].turn = S[step].turn)
                  => Timely(T, L)
             /\ DOMAIN T = DOMAIN S
             /\ T[step].name = "step" /\ T[step].to = S[step].to /\ T[step].turn = S[step].turn
             /\ T[step].tools = S[step].tools
             /\ \A i \in DOMAIN S : i # step => T[i] = S[i]
<1>. DEFINE T == [S EXCEPT ![step].awaiting = asks]
            row == [S[step] EXCEPT !.awaiting = asks]
<1>1. S \in Seq(SpanRow) /\ Len(S) \in Nat /\ DOMAIN S = 1 .. Len(S)
      /\ \A i \in DOMAIN S : S[i] \in SpanRow
  BY DEF WellMade
<1>2. /\ row \in SpanRow /\ row.awaiting = asks
      /\ row.name = S[step].name /\ row.turn = S[step].turn /\ row.call = S[step].call
      /\ row.of = S[step].of /\ row.from = S[step].from /\ row.to = S[step].to
      /\ row.tools = S[step].tools
  BY <1>1, SpanAwaits
<1>3. T = [S EXCEPT ![step] = row]
  BY <1>1
<1>. HIDE DEF row, T
<1>4. /\ T \in Seq(SpanRow) /\ DOMAIN T = DOMAIN S /\ T[step] = row
      /\ \A i \in DOMAIN S : i # step => T[i] = S[i]
  BY <1>1, <1>2, <1>3
<1>5. \A i \in DOMAIN S :
        /\ T[i].name = S[i].name /\ T[i].turn = S[i].turn /\ T[i].call = S[i].call
        /\ T[i].of = S[i].of /\ T[i].from = S[i].from /\ T[i].to = S[i].to
        /\ T[i].tools = S[i].tools
        /\ i # step => T[i].awaiting = S[i].awaiting
  BY <1>2, <1>4
<1>6. \A i \in DOMAIN S : Inside(T, i) = Inside(S, i)
  BY <1>4, <1>5 DEF Inside
<1>7. WellMade(T, L)
  <2>1. \A i \in DOMAIN T : T[i].from <= Len(L) /\ T[i].to <= Len(L)
    BY <1>4, <1>5 DEF WellMade
  <2>2. \A i \in DOMAIN T : T[i].name = "step" =>
          T[i].tools = Cardinality(Inside(T, i)) /\ (T[i].to # 0 => T[i].tools = 0)
    BY <1>4, <1>5, <1>6 DEF WellMade
  <2>3. ASSUME NEW i \in DOMAIN T, T[i].name = "tool"
        PROVE  /\ T[i].of \in DOMAIN T
               /\ T[T[i].of].name = "step" /\ T[T[i].of].turn = T[i].turn
               /\ T[T[i].of].from <= T[i].from
               /\ \E k \in DOMAIN L : /\ L[k].type = "tool_call" /\ L[k].turn = T[i].turn
                                      /\ L[k].call = T[i].call
               /\ T[i].to # 0 => T[i].to \in DOMAIN L /\ L[T[i].to].turn = T[i].turn
    <3>1. i \in DOMAIN S /\ S[i].name = "tool"
      BY <1>4, <1>5, <2>3
    <3>2. /\ S[i].of \in DOMAIN S
          /\ S[S[i].of].name = "step" /\ S[S[i].of].turn = S[i].turn
          /\ S[S[i].of].from <= S[i].from
          /\ \E k \in DOMAIN L : /\ L[k].type = "tool_call" /\ L[k].turn = S[i].turn
                                 /\ L[k].call = S[i].call
          /\ S[i].to # 0 => S[i].to \in DOMAIN L /\ L[S[i].to].turn = S[i].turn
      BY <3>1 DEF WellMade
    <3>. QED BY <1>4, <1>5, <3>1, <3>2
  <2>. QED BY <1>4, <2>1, <2>2, <2>3 DEF WellMade
<1>8. ASSUME Timely(S, L), \E k \in DOMAIN L : L[k].type = "turn_end" /\ L[k].turn = S[step].turn
      PROVE  Timely(T, L)
  <2>1. \A i \in DOMAIN S : S[i].name = "tool" => S[i].of \in DOMAIN S
    BY DEF WellMade
  <2>2. \A i \in DOMAIN T : T[i].name = "step" /\ T[i].awaiting =>
          \E k \in DOMAIN L : L[k].type = "turn_end" /\ L[k].turn = T[i].turn
    <3>1. \A i \in DOMAIN S : i # step /\ S[i].name = "step" /\ S[i].awaiting =>
            \E k \in DOMAIN L : L[k].type = "turn_end" /\ L[k].turn = S[i].turn
      BY <1>8 DEF Timely
    <3>. QED BY <1>4, <1>5, <1>8, <3>1
  <2>3. \A i \in DOMAIN T : T[i].name = "step" /\ T[i].to # 0 =>
          \E k \in DOMAIN L : L[k].type = "turn_end" /\ L[k].turn >= T[i].turn
    BY <1>4, <1>5, <1>8 DEF Timely
  <2>4. \A i \in DOMAIN T : T[i].name = "tool" /\ T[i].to # 0 /\ T[T[i].of].to # 0 =>
          T[i].to <= T[T[i].of].to \/ AfterTurn(L, T[i], T[T[i].of].to)
    <3>1. \A i \in DOMAIN S : \A to : AfterTurn(L, S[i], to) => AfterTurn(L, T[i], to)
      BY <1>5 DEF AfterTurn
    <3>. QED BY <1>4, <1>5, <1>8, <2>1, <3>1 DEF Timely
  <2>5. \A i, j \in DOMAIN T :
          T[i].name = "step" /\ T[j].name = "step" /\ T[i].turn = T[j].turn => i = j
    BY <1>4, <1>5, <1>8 DEF Timely
  <2>. QED BY <2>2, <2>3, <2>4, <2>5 DEF Timely
<1>. QED BY <1>4, <1>5, <1>7, <1>8 DEF T

\* There is no ended step of the turn.
Unended(S, turn) == \A i \in DOMAIN S : S[i].name = "step" /\ S[i].turn = turn => S[i].to = 0

\* A step of the turn is open, if need be a new one.
LEMMA StepThere ==
  ASSUME NEW L, Len(L) \in Nat, NEW tr, WellMade(tr.spans, L), NEW turn \in Turns,
         tr = [spans |-> tr.spans, output |-> tr.output, tokens |-> tr.tokens],
         NEW from \in Nat, from <= Len(L)
  PROVE  LET stepped == EnsureStep(tr, turn, from)
             step    == The(OpenSteps(stepped, turn))
         IN  /\ stepped = [spans |-> stepped.spans, output |-> tr.output, tokens |-> tr.tokens]
             /\ WellMade(stepped.spans, L)
             /\ Timely(tr.spans, L) /\ Unended(tr.spans, turn) => Timely(stepped.spans, L)
             /\ step \in DOMAIN stepped.spans /\ stepped.spans[step].name = "step"
             /\ stepped.spans[step].to = 0 /\ stepped.spans[step].turn = turn
             /\ Unended(tr.spans, turn) => Unended(stepped.spans, turn)
<1>. DEFINE S == tr.spans
            stepped == EnsureStep(tr, turn, from)
            step    == The(OpenSteps(stepped, turn))
            span == Span("step", turn, 0, 0, from)
<1>1. S \in Seq(SpanRow) /\ Len(S) \in Nat /\ DOMAIN S = 1 .. Len(S)
  BY DEF WellMade
<1>2. /\ span \in SpanRow /\ span.name = "step" /\ span.to = 0 /\ ~span.awaiting /\ span.tools = 0
      /\ span.from = from /\ span.turn = turn
  BY DEF Span, SpanRow
<1>. HIDE DEF span
<1>3. CASE OpenSteps(tr, turn) # {}
  <2>1. stepped = tr
    BY <1>3 DEF EnsureStep
  <2>2. step \in OpenSteps(tr, turn)
    BY <1>3, <2>1 DEF The
  <2>. HIDE DEF step, stepped
  <2>. QED BY <2>1, <2>2 DEF OpenSteps, step, stepped
<1>4. CASE OpenSteps(tr, turn) = {}
  <2>1. stepped = [tr EXCEPT !.spans = Append(S, span)]
    BY <1>4 DEF EnsureStep, span
  <2>2. /\ stepped = [spans |-> stepped.spans, output |-> tr.output, tokens |-> tr.tokens]
        /\ stepped.spans = Append(S, span)
    BY <2>1
  <2>3. /\ DOMAIN Append(S, span) = 1 .. (Len(S) + 1)
        /\ \A i \in DOMAIN S : Append(S, span)[i] = S[i]
        /\ Append(S, span)[Len(S) + 1] = span
    BY <1>1, <1>2
  <2>. HIDE DEF stepped
  <2>4. Len(S) + 1 \in OpenSteps(stepped, turn)
    BY <1>1, <1>2, <2>2, <2>3 DEF OpenSteps
  <2>5. step \in OpenSteps(stepped, turn)
    BY <2>4 DEF The
  <2>. HIDE DEF step
  <2>6. /\ step \in DOMAIN stepped.spans /\ stepped.spans[step].name = "step"
        /\ stepped.spans[step].to = 0 /\ stepped.spans[step].turn = turn
    BY <2>5 DEF OpenSteps
  <2>7. Unended(S, turn) => Unended(stepped.spans, turn)
    BY <1>1, <1>2, <2>2, <2>3 DEF Unended
  <2>8. WellMade(stepped.spans, L)
    BY <1>2, <2>2, SpanAdded
  <2>9. ASSUME Timely(S, L), Unended(S, turn)
        PROVE  Timely(stepped.spans, L)
    <3>1. \A i \in DOMAIN S : S[i].name = "step" => S[i].turn # span.turn
      BY <1>2, <1>4, <2>9 DEF Unended, OpenSteps
    <3>. HIDE DEF S
    <3>2. WellMade(S, L)
      BY DEF S
    <3>. QED BY <1>2, <2>2, <2>9, <3>1, <3>2, SpanAdded DEF S
  <2>. QED BY <2>2, <2>6, <2>7, <2>8, <2>9 DEF step, stepped
<1>. QED BY <1>3, <1>4

\* What the handlers are told: a log that ends with the event, and a trace of the log
\* before it.
Told(L, e) ==
  /\ L \in Seq(Event) /\ Len(L) \in Nat \ {0} /\ L[Len(L)] = e /\ e \in Event
  /\ Len(L) \in DOMAIN L

\* The trace while the log is read.
TraceRow == [spans : Seq(SpanRow), output : 0 .. MaxTurns, tokens : Nat]

\* A call begins.
LEMMA ToolStartKeepsTrace ==
  ASSUME NEW L, NEW e, Told(L, e), e.type = "tool_call",
         NEW tr \in TraceRow, WellMade(tr.spans, L)
  PROVE  LET new == HandleToolStart(tr, Len(L), e)
         IN  /\ new \in TraceRow /\ WellMade(new.spans, L)
             /\ Timely(tr.spans, L) /\ Unended(tr.spans, e.turn) => Timely(new.spans, L)
<1>. DEFINE at == Len(L)
            stepped == EnsureStep(tr, e.turn, at)
            step    == The(OpenSteps(stepped, e.turn))
            T == Append([stepped.spans EXCEPT ![step].tools = @ + 1],
                        Span("tool", e.turn, e.call, step, at))
            new == HandleToolStart(tr, Len(L), e)
<1>1. /\ Len(L) \in Nat /\ at \in Nat /\ at # 0 /\ at <= Len(L) /\ at \in DOMAIN L /\ L[at] = e
      /\ e.turn \in Turns /\ e.call \in Calls
  BY EventIs DEF Told
<1>2. tr = [spans |-> tr.spans, output |-> tr.output, tokens |-> tr.tokens]
  BY DEF TraceRow
<1>3. /\ stepped = [spans |-> stepped.spans, output |-> tr.output, tokens |-> tr.tokens]
      /\ WellMade(stepped.spans, L)
      /\ Timely(tr.spans, L) /\ Unended(tr.spans, e.turn) => Timely(stepped.spans, L)
      /\ step \in DOMAIN stepped.spans /\ stepped.spans[step].name = "step"
      /\ stepped.spans[step].to = 0 /\ stepped.spans[step].turn = e.turn
  BY <1>1, <1>2, StepThere
<1>4. new = [stepped EXCEPT !.spans = T]
  BY DEF HandleToolStart
<1>. HIDE DEF stepped, step, T, new
<1>5. /\ new.spans = T
      /\ new = [spans |-> T, output |-> tr.output, tokens |-> tr.tokens]
  BY <1>3, <1>4
<1>6. stepped.spans[step].from <= at
  BY <1>3 DEF WellMade
<1>7. WellMade(T, L) /\ (Timely(stepped.spans, L) => Timely(T, L))
  <2>. DEFINE S == stepped.spans
  <2>1. /\ WellMade(S, L) /\ step \in DOMAIN S /\ S[step].name = "step" /\ S[step].to = 0
        /\ S[step].turn = e.turn /\ S[step].from <= at
    BY <1>3, <1>6
  <2>4. L[at].type = "tool_call" /\ L[at].turn = S[step].turn /\ L[at].call = e.call
    BY <1>1, <2>1
  <2>2. T = Append([S EXCEPT ![step].tools = @ + 1], Span("tool", S[step].turn, e.call, step, at))
    BY <2>1 DEF T
  <2>. HIDE DEF S
  <2>3. WellMade(T, L) /\ (Timely(S, L) => Timely(T, L))
    BY <1>1, <2>1, <2>2, <2>4, ToolAdded
  <2>. QED BY <2>3 DEF S
<1>8. T \in Seq(SpanRow)
  BY <1>7 DEF WellMade
<1>9. new \in TraceRow
  BY <1>5, <1>8 DEF TraceRow
<1>. QED BY <1>3, <1>5, <1>7, <1>9 DEF new

\* A call ends, and with it perhaps its step.
LEMMA ToolEndKeepsTrace ==
  ASSUME NEW L, NEW e, Told(L, e), e.type = "tool_call",
         \A k \in DOMAIN L : L[k].type = "tool_call" /\ L[k].call = e.call => L[k].turn = e.turn,
         NEW tr \in TraceRow, WellMade(tr.spans, L)
  PROVE  LET new == HandleToolEnd(tr, Len(L), e)
         IN  /\ new \in TraceRow /\ WellMade(new.spans, L)
             /\ Timely(tr.spans, L) => Timely(new.spans, L)
<1>1. CASE OpenTools(tr, e.call) = {}
  BY <1>1 DEF HandleToolEnd
<1>2. CASE OpenTools(tr, e.call) # {}
  <2>. DEFINE at == Len(L)
              S == tr.spans
              tool == The(OpenTools(tr, e.call))
              step == S[tool].of
              T == [S EXCEPT ![tool].to = at, ![step].tools = @ - 1]
              new == HandleToolEnd(tr, Len(L), e)
              U == IF T[step].awaiting /\ T[step].tools = 0 THEN Finished(T, step, at) ELSE T
  <2>1. /\ Len(L) \in Nat /\ at \in Nat \ {0} /\ at \in DOMAIN L /\ at <= Len(L) /\ L[at] = e
    BY DEF Told
  <2>2. tool \in OpenTools(tr, e.call)
    BY <1>2 DEF The
  <2>3. new = [tr EXCEPT !.spans = U]
    BY <1>2 DEF HandleToolEnd
  <2>4. /\ tool \in DOMAIN S /\ S[tool].name = "tool" /\ S[tool].to = 0 /\ S[tool].call = e.call
    BY <2>2 DEF OpenTools
  <2>. HIDE DEF tool
  <2>5. S[tool].turn = e.turn
    BY <2>4 DEF WellMade
  <2>6. /\ WellMade(T, L) /\ (Timely(S, L) => Timely(T, L))
        /\ DOMAIN T = DOMAIN S /\ step \in DOMAIN S
        /\ T[step].name = "step" /\ T[step].to = 0 /\ T[step].tools \in Nat
    <3>. HIDE DEF S
    <3>1. WellMade(S, L) /\ L[at].turn = S[tool].turn
      BY <2>1, <2>5 DEF S
    <3>. HIDE DEF at
    <3>. QED BY <2>1, <2>4, <2>5, <3>1, ToolEnded
  <2>. HIDE DEF T, step
  <2>7. WellMade(U, L) /\ (Timely(S, L) => Timely(U, L))
    <3>1. CASE ~(T[step].awaiting /\ T[step].tools = 0)
      BY <2>6, <3>1
    <3>2. CASE T[step].awaiting /\ T[step].tools = 0
      <4>1. U = [T EXCEPT ![step].to = at]
        BY <3>2 DEF Finished
      <4>2. U = Closed(T, {step}, at)
        BY <2>6, <4>1 DEF Closed, WellMade
      <4>. HIDE DEF U
      <4>3. WellMade(U, L)
        BY <2>1, <2>6, <3>2, <4>2, StepsEnd
      <4>4. ASSUME Timely(S, L)
            PROVE  Timely(U, L)
        <5>1. Timely(T, L)
          BY <2>6, <4>4
        <5>2. \E k \in DOMAIN L : L[k].type = "turn_end" /\ L[k].turn = T[step].turn
          BY <2>6, <3>2, <5>1 DEF Timely
        <5>3. T[step].turn \in Nat
          <6>1. T \in Seq(SpanRow) /\ step \in DOMAIN T
            BY <2>6 DEF WellMade
          <6>2. T[step] \in SpanRow
            BY <6>1
          <6>. QED BY <6>2, BoundsAre DEF SpanRow
        <5>4. \E k \in DOMAIN L : L[k].type = "turn_end" /\ L[k].turn >= T[step].turn
          BY <5>2, <5>3
        <5>5. \A k \in DOMAIN T : T[k].to <= at
          BY <2>1, <2>6 DEF WellMade
        <5>. QED BY <2>1, <2>6, <3>2, <4>2, <5>1, <5>4, <5>5, StepsEnd
      <4>. QED BY <4>3, <4>4
    <3>. QED BY <3>1, <3>2
  <2>8. U \in Seq(SpanRow)
    BY <2>7 DEF WellMade
  <2>. HIDE DEF U, S
  <2>9. new \in TraceRow /\ new.spans = U
    BY <2>3, <2>8 DEF TraceRow
  <2>. QED BY <2>7, <2>9 DEF S
<1>. QED BY <1>1, <1>2

\* A turn ends: steps before it end, its own step ends or awaits its calls.
LEMMA TurnEndKeepsTrace ==
  ASSUME NEW L, NEW e, Told(L, e), e.type = "turn_end", e.started <= Len(L),
         NEW tr \in TraceRow, WellMade(tr.spans, L)
  PROVE  LET new == HandleTurnEnd(tr, Len(L), e)
         IN  /\ new \in TraceRow /\ WellMade(new.spans, L)
             /\ Timely(tr.spans, L) /\ Unended(tr.spans, e.turn) => Timely(new.spans, L)
<1>. DEFINE at == Len(L)
            S == tr.spans
            I == {i \in DOMAIN S : S[i].name = "step" /\ S[i].to = 0 /\ S[i].turn < e.turn
                                   /\ S[i].tools = 0}
            closed  == CloseEarlierSteps(tr, e.turn, e.started)
            stepped == EnsureStep(closed, e.turn, e.started)
            step    == The(OpenSteps(stepped, e.turn))
            waiting == [stepped.spans EXCEPT ![step].awaiting = e.asks]
            kept    == IF e.asks THEN waiting ELSE Finished(waiting, step, at)
            span    == [Span("turn", e.turn, 0, step, e.started) EXCEPT !.to = at]
            new     == HandleTurnEnd(tr, Len(L), e)
<1>1. /\ Len(L) \in Nat /\ at \in Nat /\ at # 0 /\ at <= Len(L) /\ at \in DOMAIN L /\ L[at] = e
      /\ L \in Seq(Event) /\ e.turn \in Turns /\ e.turn \in Nat
      /\ e.started \in Nat /\ e.started <= Len(L) /\ e.asks \in BOOLEAN
  BY EventIs, BoundsAre DEF Told
<1>2. /\ S \in Seq(SpanRow) /\ \A i \in DOMAIN S : S[i] \in SpanRow
      /\ \A i \in DOMAIN S : S[i].turn \in Nat
      /\ tr = [spans |-> S, output |-> tr.output, tokens |-> tr.tokens]
      /\ tr.output \in 0 .. MaxTurns /\ tr.tokens \in Nat
  <2>1. /\ S \in Seq(SpanRow)
        /\ tr = [spans |-> S, output |-> tr.output, tokens |-> tr.tokens]
        /\ tr.output \in 0 .. MaxTurns /\ tr.tokens \in Nat
    BY DEF TraceRow
  <2>2. \A i \in DOMAIN S : S[i] \in SpanRow
    BY <2>1
  <2>. QED BY <2>1, <2>2, BoundsAre DEF SpanRow
<1>3. new = [stepped EXCEPT !.spans = Append(kept, span), !.output = e.turn]
  BY DEF HandleTurnEnd
<1>4. /\ closed = [tr EXCEPT !.spans = Closed(S, I, e.started)]
  BY DEF CloseEarlierSteps, Closed
<1>5. /\ closed = [spans |-> closed.spans, output |-> tr.output, tokens |-> tr.tokens]
      /\ closed.spans = Closed(S, I, e.started)
  BY <1>2, <1>4
<1>6. I \subseteq DOMAIN S /\ \A i \in I : S[i].name = "step" /\ S[i].tools = 0 /\ S[i].to = 0
                                             /\ S[i].turn < e.turn
  OBVIOUS
<1>. HIDE DEF closed, I
<1>7. WellMade(closed.spans, L)
  BY <1>1, <1>5, <1>6, StepsEnd
<1>8. ASSUME Timely(S, L)
      PROVE  Timely(closed.spans, L)
  <2>1. \A i \in I : S[i].to = 0 /\ \E k \in DOMAIN L : L[k].type = "turn_end" /\ L[k].turn >= S[i].turn
    BY <1>1, <1>2, <1>6
  <2>2. ASSUME NEW k \in DOMAIN S, S[k].name = "tool", S[k].of \in I,
               S[k].to # 0
        PROVE  AfterTurn(L, S[k], e.started)
    <3>1. /\ S[S[k].of].turn = S[k].turn
          /\ S[k].to \in DOMAIN L /\ L[S[k].to].turn = S[k].turn
      BY <2>2 DEF WellMade
    <3>2. S[k].turn < e.turn /\ S[k].turn \in Nat
      BY <1>2, <1>6, <2>2, <3>1
    <3>3. S[k].to \in 1 .. at /\ S[k].to # at
      BY <1>1, <3>1, <3>2
    <3>. QED BY <1>1, <3>2, <3>3 DEF AfterTurn
  <2>. QED BY <1>1, <1>5, <1>6, <1>8, <2>1, <2>2, StepsEnd
<1>9. Unended(S, e.turn) => Unended(closed.spans, e.turn)
  <2>1. \A i \in DOMAIN S : i \in I => closed.spans[i].turn = S[i].turn /\ S[i].turn # e.turn
    BY <1>1, <1>2, <1>5, <1>6, SpanEnds DEF Closed
  <2>2. DOMAIN closed.spans = DOMAIN S /\ \A i \in DOMAIN S : i \notin I => closed.spans[i] = S[i]
    BY <1>5 DEF Closed
  <2>. QED BY <2>1, <2>2 DEF Unended
<1>10. /\ stepped = [spans |-> stepped.spans, output |-> tr.output, tokens |-> tr.tokens]
       /\ WellMade(stepped.spans, L)
       /\ Timely(closed.spans, L) /\ Unended(closed.spans, e.turn) => Timely(stepped.spans, L)
       /\ step \in DOMAIN stepped.spans /\ stepped.spans[step].name = "step"
       /\ stepped.spans[step].to = 0 /\ stepped.spans[step].turn = e.turn
  <2>1. closed = [spans |-> closed.spans, output |-> closed.output, tokens |-> closed.tokens]
        /\ closed.output = tr.output /\ closed.tokens = tr.tokens
    BY <1>5
  <2>. QED BY <1>1, <1>7, <2>1, StepThere
<1>. HIDE DEF stepped, step
<1>11. \E k \in DOMAIN L : L[k].type = "turn_end" /\ L[k].turn = e.turn
  BY <1>1
<1>12. /\ WellMade(waiting, L)
       /\ Timely(stepped.spans, L) => Timely(waiting, L)
       /\ DOMAIN waiting = DOMAIN stepped.spans
       /\ waiting[step].name = "step" /\ waiting[step].to = 0 /\ waiting[step].turn = e.turn
       /\ waiting[step].tools = stepped.spans[step].tools
  BY <1>1, <1>10, <1>11, StepAwaits
<1>. HIDE DEF waiting
<1>13. WellMade(kept, L) /\ (Timely(waiting, L) => Timely(kept, L))
  <2>1. CASE e.asks
    BY <1>12, <2>1
  <2>2. CASE waiting[step].tools > 0
    BY <1>12, <2>2 DEF Finished
  <2>3. CASE ~e.asks /\ ~(waiting[step].tools > 0)
    <3>1. kept = [waiting EXCEPT ![step].to = at]
      BY <2>3 DEF Finished
    <3>2. waiting \in Seq(SpanRow) /\ step \in DOMAIN waiting
      BY <1>10, <1>12 DEF WellMade
    <3>3. waiting[step] \in SpanRow
      BY <3>2
    <3>4. waiting[step].tools = 0
      BY <2>3, <3>3 DEF SpanRow
    <3>5. kept = Closed(waiting, {step}, at)
      BY <3>1, <3>2 DEF Closed
    <3>. HIDE DEF kept
    <3>6. WellMade(kept, L)
      BY <1>1, <1>12, <3>2, <3>4, <3>5, StepsEnd
    <3>7. \E k \in DOMAIN L : L[k].type = "turn_end" /\ L[k].turn >= waiting[step].turn
      BY <1>1, <1>12
    <3>8. \A k \in DOMAIN waiting : waiting[k].to <= at
      BY <1>12 DEF WellMade
    <3>9. Timely(waiting, L) => Timely(kept, L)
      BY <1>1, <1>12, <3>2, <3>4, <3>5, <3>7, <3>8, StepsEnd
    <3>. QED BY <3>6, <3>9
  <2>. QED BY <2>1, <2>2, <2>3
<1>14. /\ span \in SpanRow /\ span.name = "turn" /\ span.from = e.started /\ span.to = at
       /\ span.tools = 0
  <2>1. step \in Nat
    BY <1>10 DEF WellMade
  <2>. QED BY <1>1, <2>1 DEF Span, SpanRow
<1>. HIDE DEF kept, span
<1>15. /\ WellMade(Append(kept, span), L)
       /\ Timely(kept, L) => Timely(Append(kept, span), L)
  BY <1>1, <1>13, <1>14, SpanAdded
<1>16. new = [spans |-> Append(kept, span), output |-> e.turn, tokens |-> tr.tokens]
  <2>. HIDE DEF new
  <2>1. PICK s : stepped = [spans |-> s, output |-> tr.output, tokens |-> tr.tokens]
    BY <1>10
  <2>. QED BY <1>3, <2>1
<1>17. new \in TraceRow /\ new.spans = Append(kept, span)
  <2>1. Append(kept, span) \in Seq(SpanRow) /\ e.turn \in 0 .. MaxTurns
    BY <1>1, <1>15, BoundsAre DEF WellMade
  <2>. QED BY <1>2, <1>16, <2>1 DEF TraceRow
<1>18. Timely(S, L) /\ Unended(S, e.turn) => Timely(new.spans, L)
  BY <1>8, <1>9, <1>10, <1>12, <1>13, <1>15, <1>17
<1>. QED BY <1>15, <1>17, <1>18

-----------------------------------------------------------------------------
\* What is in order was so before.
LEMMA InOrderBefore ==
  ASSUME NEW event \in Event, log \in Seq(Event), log' = Append(log, event), InOrder'
  PROVE  InOrder /\ \A i \in DOMAIN log : log[i].id < event.id
<1>1. /\ Len(log) \in Nat /\ DOMAIN log = 1 .. Len(log) /\ DOMAIN log' = 1 .. (Len(log) + 1)
      /\ \A i \in DOMAIN log : log'[i] = log[i]
      /\ log'[Len(log) + 1] = event
  BY AppendIs
<1>. QED BY <1>1 DEF InOrder

\* In order, no step of the turn has ended when a call begins or the turn ends.
LEMMA NoneEnded ==
  ASSUME AgentInv', AgentInv, NEW event \in Event, log' = Append(log, event), InOrder',
         event.type \in {"tool_call", "turn_end"},
         NEW S \in Seq(SpanRow), Timely(S, log)
  PROVE  Unended(S, event.turn)
<1>1. \A i \in DOMAIN log : log[i].id < event.id
  BY InOrderBefore DEF AgentInv, AgentTypes
<1>2. log \in Seq(Event) /\ log' \in Seq(Event) /\ \A i \in DOMAIN log : log[i] \in Event
  BY DEF AgentInv, AgentTypes
<1>3. event \in Known' /\ \A i \in DOMAIN log : log[i] \in Known'
  <2>1. ToSet(log') = ToSet(log) \cup {event}
    BY <1>2, AppendIs
  <2>2. \A i \in DOMAIN log : log[i] \in ToSet(log)
    BY DEF ToSet
  <2>. QED BY <2>1, <2>2 DEF Known
<1>4. ASSUME NEW i \in DOMAIN S, S[i].name = "step", S[i].turn = event.turn, S[i].to # 0
      PROVE  FALSE
  <2>1. PICK k \in DOMAIN log : log[k].type = "turn_end" /\ log[k].turn >= event.turn
    BY <1>4 DEF Timely
  <2>2. Follows(log[k], event)
    BY <1>3 DEF AgentInv, ProtocolInv
  <2>3. log[k].turn <= event.turn /\ log[k].turn \in Nat /\ event.turn \in Nat
    BY <1>1, <1>2, <2>2, EventIs, BoundsAre DEF Follows
  <2>4. log[k].turn = event.turn
    BY <2>1, <2>3
  <2>. QED BY <1>1, <2>1, <2>2, <2>4 DEF Follows
<1>. QED BY <1>4 DEF Unended

\* An event is folded, or nothing changes.
LEMMA FoldedIs ==
  ASSUME AgentInv, Next, Folded
  PROVE  \/ log' = log /\ feed' = feed /\ trace' = trace
         \/ /\ log' # log
            /\ \E event \in Event :
                 /\ log' = Append(log, event) /\ Len(log') = Len(log) + 1
                 /\ Told(log', event)
                 /\ feed'  = FoldEvent(feed, Len(log) + 1, event)
                 /\ trace' = ProcessEvent(trace, Len(log) + 1, event)
<1>1. CASE log' = log
  BY <1>1 DEF Folded, views
<1>2. CASE log' # log
  <2>1. PICK event \in Event : log' = Append(log, event)
    BY <1>2, LogGrows
  <2>2. log \in Seq(Event)
    BY DEF AgentInv, AgentTypes
  <2>3. /\ Len(log') = Len(log) + 1 /\ Len(log) \in Nat /\ log'[Len(log) + 1] = event
        /\ log' \in Seq(Event) /\ DOMAIN log' = 1 .. (Len(log) + 1)
    BY <2>1, <2>2, AppendIs
  <2>4. Told(log', event)
    BY <2>3 DEF Told
  <2>5. /\ feed'  = FoldEvent(feed, Len(log) + 1, event)
        /\ trace' = ProcessEvent(trace, Len(log) + 1, event)
    BY <1>2, <2>3 DEF Folded
  <2>. QED BY <1>2, <2>1, <2>3, <2>4, <2>5
<1>. QED BY <1>1, <1>2

\* A trace of an empty log.
LEMMA TraceStarts ==
  ASSUME DisplayInit
  PROVE  TraceInv
<1>1. trace = [spans |-> << >>, output |-> 0, tokens |-> 0]
  BY DEF DisplayInit, ViewsInit, EmptyTrace
<1>2. log = << >>
  BY DEF DisplayInit, ViewsInit, Init
<1>3. << >> \in Seq(SpanRow) /\ DOMAIN << >> = {}
  OBVIOUS
<1>. QED BY <1>1, <1>2, <1>3, BoundsAre DEF TraceInv, WellMade, Timely

\* An event is told to the trace.
LEMMA ProcessEventKeeps ==
  ASSUME AgentInv, AgentInv', TraceInv, NEW event \in Event, log' = Append(log, event),
         Len(log') = Len(log) + 1, Told(log', event),
         trace' = ProcessEvent(trace, Len(log) + 1, event)
  PROVE  TraceInv'
<1>. DEFINE at == Len(log')
<1>1. log \in Seq(Event) /\ Len(log) + 1 = at
  BY DEF AgentInv, AgentTypes
<1>2. /\ trace \in TraceRow /\ WellMade(trace.spans, log') /\ trace.spans \in Seq(SpanRow)
      /\ Timely(trace.spans, log) => Timely(trace.spans, log')
  <2>1. trace \in TraceRow /\ WellMade(trace.spans, log)
    BY DEF TraceInv, TraceRow
  <2>. QED BY <1>1, <2>1, LongerLog DEF TraceRow
<1>3. InOrder' => Timely(trace.spans, log)
  BY <1>1, InOrderBefore DEF TraceInv
<1>4. InOrder' /\ event.type \in {"tool_call", "turn_end"} => Unended(trace.spans, event.turn)
  BY <1>2, <1>3, NoneEnded
<1>5. SUFFICES trace' \in TraceRow /\ WellMade(trace'.spans, log')
               /\ (InOrder' => Timely(trace'.spans, log'))
  BY DEF TraceInv, TraceRow
<1>6. CASE event.type = "token"
  <2>1. trace' = [trace EXCEPT !.tokens = @ + 1]
    BY <1>6 DEF ProcessEvent
  <2>2. trace' \in TraceRow /\ trace'.spans = trace.spans
    BY <1>2, <2>1 DEF TraceRow
  <2>. QED BY <1>2, <1>3, <2>2
<1>7. CASE event.type = "tool_call" /\ event.status = "running"
  <2>1. trace' = HandleToolStart(trace, at, event)
    BY <1>1, <1>7 DEF ProcessEvent
  <2>. QED BY <1>2, <1>3, <1>4, <1>7, <2>1, ToolStartKeepsTrace
<1>8. CASE event.type = "tool_call" /\ event.status # "running"
  <2>1. trace' = HandleToolEnd(trace, at, event)
    BY <1>1, <1>8 DEF ProcessEvent
  <2>2. ASSUME NEW k \in DOMAIN log', log'[k].type = "tool_call", log'[k].call = event.call
        PROVE  log'[k].turn = event.turn
    <3>1. event \in Known' /\ log'[k] \in Known'
      <4>1. log'[k] \in ToSet(log') /\ event \in ToSet(log')
        BY DEF ToSet, Told
      <4>. QED BY <4>1 DEF Known
    <3>. QED BY <1>8, <2>2, <3>1 DEF AgentInv, ProtocolInv
  <2>. QED BY <1>2, <1>3, <1>8, <2>1, <2>2, ToolEndKeepsTrace
<1>9. CASE event.type = "turn_end"
  <2>1. trace' = HandleTurnEnd(trace, at, event)
    BY <1>1, <1>9 DEF ProcessEvent
  <2>2. event.started <= Len(log')
    <3>1. at \in DOMAIN log' /\ log'[at] = event /\ at \in Nat
      BY DEF Told
    <3>2. event.started <= at /\ event.started \in Nat
      BY <1>9, <3>1, EventIs DEF AgentInv, ProtocolInv
    <3>. QED BY <3>1, <3>2
  <2>. QED BY <1>2, <1>3, <1>4, <1>9, <2>1, <2>2, TurnEndKeepsTrace
<1>10. CASE event.type \notin {"token", "tool_call", "turn_end"}
  <2>1. trace' = trace
    BY <1>10 DEF ProcessEvent
  <2>. QED BY <1>2, <1>3, <2>1
<1>. QED BY <1>6, <1>7, <1>8, <1>9, <1>10

\* Every step that folds an event into the trace keeps its invariant.
LEMMA TraceKeeps ==
  ASSUME AgentInv, AgentInv', TraceInv, [DisplayNext]_<<concern, vars, views, pageVars>>
  PROVE  TraceInv'
<1>1. CASE log' = log /\ trace' = trace
  BY <1>1 DEF TraceInv, InOrder
<1>2. CASE Feed
  <2>1. Next /\ Folded
    BY <1>2 DEF Feed
  <2>. QED BY <1>1, <2>1, FoldedIs, ProcessEventKeeps
<1>3. CASE Page \/ UNCHANGED <<concern, vars, views, pageVars>>
  BY <1>1, <1>3 DEF Page, vars, views
<1>. QED BY <1>2, <1>3 DEF DisplayNext

\* What the finished trace shows.
LEMMA TraceShows ==
  ASSUME AgentTypes, TraceInv
  PROVE  StepsHoldTheirTools
<1>. DEFINE end == Len(log) + 1
            S == trace.spans
            spans == Finish(trace, end).spans
<1>. SUFFICES ASSUME InOrder
              PROVE  /\ \A i \in DOMAIN spans : spans[i].name = "tool" =>
                         LET step == spans[spans[i].of] IN
                         /\ step.turn = spans[i].turn /\ step.from <= spans[i].from
                         /\ spans[i].to <= step.to \/ EndedByLater(step, spans[i])
                     /\ \A i, j \in DOMAIN spans :
                          spans[i].name = "step" /\ spans[j].name = "step"
                          /\ spans[i].turn = spans[j].turn => i = j
  BY DEF StepsHoldTheirTools
<1>1. /\ Len(log) \in Nat /\ end \in Nat
      /\ WellMade(S, log) /\ Timely(S, log)
      /\ S \in Seq(SpanRow) /\ \A i \in DOMAIN S : S[i] \in SpanRow
      /\ trace \in TraceRow
  BY DEF AgentTypes, TraceInv, WellMade, TraceRow
<1>2. spans = [i \in DOMAIN S |-> IF S[i].to = 0 THEN [S[i] EXCEPT !.to = end] ELSE S[i]]
  BY <1>1 DEF Finish, TraceRow
<1>. HIDE DEF spans, S
<1>3. /\ DOMAIN spans = DOMAIN S
      /\ \A i \in DOMAIN S :
           /\ spans[i].name = S[i].name /\ spans[i].turn = S[i].turn /\ spans[i].of = S[i].of
           /\ spans[i].from = S[i].from
           /\ S[i].to = 0 => spans[i].to = end
           /\ S[i].to # 0 => spans[i].to = S[i].to
  <2>1. \A i \in DOMAIN S : S[i].to = 0 =>
           /\ spans[i].name = S[i].name /\ spans[i].turn = S[i].turn /\ spans[i].of = S[i].of
           /\ spans[i].from = S[i].from /\ spans[i].to = end
    BY <1>1, <1>2, SpanEnds
  <2>2. \A i \in DOMAIN S : S[i].to # 0 => spans[i] = S[i]
    BY <1>2
  <2>. QED BY <1>2, <2>1, <2>2
<1>4. ASSUME NEW i \in DOMAIN spans, spans[i].name = "tool"
      PROVE  LET step == spans[spans[i].of] IN
             /\ step.turn = spans[i].turn /\ step.from <= spans[i].from
             /\ spans[i].to <= step.to \/ EndedByLater(step, spans[i])
  <2>. DEFINE of == S[i].of
  <2>1. /\ i \in DOMAIN S /\ S[i].name = "tool" /\ of \in DOMAIN S /\ S[of].name = "step"
        /\ S[of].turn = S[i].turn /\ S[of].from <= S[i].from
    BY <1>1, <1>3, <1>4 DEF WellMade
  <2>2. spans[i].of = of
    BY <1>3, <2>1
  <2>3. S[i].to \in Nat /\ S[i].to <= Len(log)
    BY <1>1, <2>1 DEF WellMade, SpanRow
  <2>4. S[i].to = 0 => S[of].to = 0
    <3>1. IsFiniteSet(Inside(S, of)) /\ Cardinality(Inside(S, of)) \in Nat
      BY <1>1, InsideFinite
    <3>2. S[i].to = 0 => i \in Inside(S, of)
      BY <2>1 DEF Inside
    <3>3. S[i].to = 0 => Cardinality(Inside(S, of)) # 0
      BY <3>1, <3>2, FS_EmptySet
    <3>4. S[of].to # 0 => S[of].tools = 0 /\ S[of].tools = Cardinality(Inside(S, of))
      BY <1>1, <2>1 DEF WellMade
    <3>. QED BY <3>3, <3>4
  <2>5. S[i].to # 0 /\ S[of].to # 0 => S[i].to <= S[of].to \/ AfterTurn(log, S[i], S[of].to)
    BY <1>1, <2>1 DEF Timely
  <2>6. spans[i].to <= spans[of].to \/ EndedByLater(spans[of], spans[i])
    <3>1. CASE S[i].to # 0 /\ S[of].to # 0
      BY <1>3, <2>1, <2>5, <3>1 DEF AfterTurn, EndedByLater
    <3>2. CASE S[of].to = 0
      BY <1>1, <1>3, <2>1, <2>3, <3>2
    <3>. QED BY <2>4, <3>1, <3>2
  <2>. QED BY <1>3, <2>1, <2>2, <2>6
<1>5. \A i, j \in DOMAIN spans :
        spans[i].name = "step" /\ spans[j].name = "step" /\ spans[i].turn = spans[j].turn => i = j
  BY <1>1, <1>3 DEF Timely
<1>. QED BY <1>4, <1>5

\* What the agent reports of its turns is in order, whatever is lost or comes late: a turn
\* begins before all that is of it and ends behind it, and a call is of one turn (reporter.ts).
THEOREM AgentHolds == DisplaySpec => []AgentInv
<1>1. DisplayInit => AgentInv
  BY AgentStarts DEF DisplayInit, ViewsInit
<1>2. AgentInv /\ [DisplayNext]_<<concern, vars, views, pageVars>> => AgentInv'
  BY AgentKeeps
<1>. QED BY <1>1, <1>2, PTL DEF DisplaySpec, DisplayNext

\* A step of the exported trace has the calls of its turn and ends no earlier than they do, or
\* when a later turn began whose end came behind them, whatever is lost and however long the
\* queue is (closeEarlierSteps, handleToolEnd, handleTurnEnd).
THEOREM CallsAreHeld == DisplaySpec => []StepsHoldTheirTools
<1>1. DisplayInit => TraceInv
  BY TraceStarts
<1>2. AgentInv /\ AgentInv' /\ TraceInv /\ [DisplayNext]_<<concern, vars, views, pageVars>> => TraceInv'
  BY TraceKeeps
<1>3. AgentInv /\ TraceInv => StepsHoldTheirTools
  BY TraceShows DEF AgentInv
<1>. QED BY <1>1, <1>2, <1>3, AgentHolds, PTL DEF DisplaySpec, DisplayNext

-----------------------------------------------------------------------------
(* The feed. *)

\* What the feed may show: text, thoughts, lines of calls, of states and of the log.
Block ==
       [key : {"assistant"} \X Nat, kind : {"assistant"}, text : Seq(Nat), blank : BOOLEAN]
  \cup [key : {"thinking"} \X Nat, kind : {"thinking"}, turn : Turns, blank : BOOLEAN]
  \cup [key : {"tool", "review"} \X Calls, kind : {"tool", "review"}, call : Calls, tool : Tools,
        args : BOOLEAN, status : {"running", "ended"}]
  \cup [key : {"status", "log"} \X Nat, kind : {"status", "log"}]

\* The feed is made of blocks.
FeedTypes == feed \in [blocks : Seq(Block), start : Nat]

\* The block at i has the piece x of text.
Has(B, i, x) == B[i].kind = "assistant" /\ x \in ToSet(B[i].text)

\* A turn begins or ends.
Resets(L) == {j \in DOMAIN L : L[j].type \in {"turn_start", "turn_end"}}

\* The text in the blocks is that of the log.  Where the text of the turn begins, or 0, is
\* known from what was logged since a turn began or ended.
TextInv(B, start, L) ==
  /\ \A i \in DOMAIN B : \A x : Has(B, i, x) => \E k \in DOMAIN L : L[k].type = "token" /\ L[k].id = x
  /\ \A k \in DOMAIN L : L[k].type = "token" => \E i \in DOMAIN B : Has(B, i, L[k].id)
  /\ start = 0 => \A k \in DOMAIN L : L[k].type = "token" => \E j \in Resets(L) : k < j
  /\ start # 0 =>
       /\ start \in DOMAIN B
       /\ \A i \in DOMAIN B, k \in DOMAIN L : L[k].type = "token" /\ Has(B, i, L[k].id) =>
            /\ i < start => \E j \in Resets(L) : k < j
            /\ i >= start => \A j \in Resets(L) : j < k

\* Of each turn before this one the log says that it is over.
OverBefore(L, turn) ==
  \A t \in 1 .. turn - 1 : \E i \in DOMAIN L :
    \/ L[i].type = "turn_end" /\ L[i].turn = t
    \/ L[i].type = "turn_start" /\ L[i].turn = t + 1

\* The block at i has text of the turn.
TextOf(B, L, turn, i) ==
  \E k \in DOMAIN L : L[k].type = "token" /\ L[k].turn = turn /\ Has(B, i, L[k].id)

\* The thoughts at i are where they belong.
Placed(B, L, i) ==
  OverBefore(L, B[i].turn) =>
    \A j \in DOMAIN B :
      /\ TextOf(B, L, B[i].turn, j) => i < j
      /\ \A t \in 1 .. B[i].turn - 1 : TextOf(B, L, t, j) => j < i

\* Where the thoughts are.
ThoughtsAt(B) == {i \in DOMAIN B : B[i].kind = "thinking"}

\* The invariant of the feed.
FeedInv ==
  /\ FeedTypes
  /\ TextInv(feed.blocks, feed.start, log)
  /\ \A i \in ThoughtsAt(feed.blocks) : \E k \in DOMAIN log :
       log[k].type = "turn_end" /\ log[k].turn = feed.blocks[i].turn
  /\ InOrder => \A i \in ThoughtsAt(feed.blocks) : Placed(feed.blocks, log, i)

-----------------------------------------------------------------------------
\* What every block has.
LEMMA BlockIs ==
  ASSUME NEW b \in Block
  PROVE  /\ b.kind \in {"assistant", "thinking", "tool", "review", "status", "log"}
         /\ b.kind = "assistant" =>
              /\ b.text \in Seq(Nat)
              /\ b.blank \in BOOLEAN
              /\ \A x \in Nat, w \in BOOLEAN :
                   [b EXCEPT !.text = Append(@, x), !.blank = w] \in Block
         /\ b.kind = "thinking" => b.turn \in Turns /\ b.blank \in BOOLEAN
         /\ b.kind \in {"tool", "review"} =>
              /\ b.call \in Calls
              /\ \A s \in {"running", "ended"} : [b EXCEPT !.status = s] \in Block
<1>1. CASE b \in [key : {"assistant"} \X Nat, kind : {"assistant"}, text : Seq(Nat), blank : BOOLEAN]
  <2>1. b.kind = "assistant" /\ b.text \in Seq(Nat) /\ b.blank \in BOOLEAN
    BY <1>1
  <2>2. ASSUME NEW x \in Nat, NEW w \in BOOLEAN
        PROVE  [b EXCEPT !.text = Append(b.text, x), !.blank = w] \in Block
    <3>1. Append(b.text, x) \in Seq(Nat)
      BY <2>1
    <3>. QED BY <1>1, <3>1 DEF Block
  <2>. QED BY <2>1, <2>2
<1>2. CASE b \in [key : {"thinking"} \X Nat, kind : {"thinking"}, turn : Turns, blank : BOOLEAN]
  BY <1>2
<1>3. CASE b \in [key : {"tool", "review"} \X Calls, kind : {"tool", "review"}, call : Calls,
                  tool : Tools, args : BOOLEAN, status : {"running", "ended"}]
  <2>1. b.kind \in {"tool", "review"} /\ b.call \in Calls
    BY <1>3
  <2>2. ASSUME NEW s \in {"running", "ended"}
        PROVE  [b EXCEPT !.status = s] \in Block
    BY <1>3 DEF Block
  <2>. QED BY <2>1, <2>2
<1>4. CASE b \in [key : {"status", "log"} \X Nat, kind : {"status", "log"}]
  BY <1>4
<1>. QED BY <1>1, <1>2, <1>3, <1>4 DEF Block

\* Text with one more piece.
LEMMA PieceAdded ==
  ASSUME NEW b \in Block, b.kind = "assistant", NEW event \in Event, event.type = "token"
  PROVE  LET row == Longer(b, event)
         IN  /\ row \in Block /\ row.kind = "assistant" /\ row.key = b.key
             /\ row.text = Append(b.text, event.id) /\ row.blank = (b.blank /\ event.blank)
<1>1. b \in [key : {"assistant"} \X Nat, kind : {"assistant"}, text : Seq(Nat), blank : BOOLEAN]
  BY DEF Block
<1>2. event.id \in Nat /\ event.blank \in BOOLEAN
  BY EventIs
<1>3. ASSUME NEW v
      PROVE  LET row == [b EXCEPT !.text = Append(@, event.id), !.blank = v]
             IN  /\ row.kind = "assistant" /\ row.key = b.key
                 /\ row.text = Append(b.text, event.id) /\ row.blank = v
  BY <1>1
<1>4. (b.blank /\ event.blank) \in BOOLEAN
  OBVIOUS
<1>5. Longer(b, event) \in Block
  BY <1>2, <1>4, BlockIs DEF Longer
<1>. QED BY <1>3, <1>5, Zenon DEF Longer

\* A block comes in between.
LEMMA Inserted ==
  ASSUME NEW S, NEW s \in Seq(S), NEW at \in 1 .. Len(s) + 1, NEW e \in S
  PROVE  LET t == InsertAt(s, at, e)
         IN  /\ t \in Seq(S) /\ Len(t) = Len(s) + 1 /\ DOMAIN t = 1 .. (Len(s) + 1)
             /\ \A i \in 1 .. at - 1 : t[i] = s[i]
             /\ t[at] = e
             /\ \A i \in at .. Len(s) : t[i + 1] = s[i]
<1>. DEFINE a == SubSeq(s, 1, at - 1)
            c == SubSeq(s, at, Len(s))
            t == InsertAt(s, at, e)
<1>1. Len(s) \in Nat /\ at \in Nat /\ at >= 1 /\ at <= Len(s) + 1
  OBVIOUS
<1>2. /\ a \in Seq(S) /\ Len(a) = at - 1
      /\ \A i \in 1 .. at - 1 : a[i] = s[i]
  BY <1>1
<1>3. /\ c \in Seq(S) /\ Len(c) = Len(s) - at + 1
      /\ \A i \in 1 .. Len(s) - at + 1 : c[i] = s[at + i - 1]
  BY <1>1
<1>4. t = (a \o <<e>>) \o c
  BY DEF InsertAt
<1>. HIDE DEF a, c, t
<1>5. <<e>> \in Seq(S) /\ Len(<<e>>) = 1 /\ <<e>>[1] = e
  OBVIOUS
<1>6. /\ a \o <<e>> \in Seq(S) /\ Len(a \o <<e>>) = at
      /\ \A i \in 1 .. at - 1 : (a \o <<e>>)[i] = s[i]
      /\ (a \o <<e>>)[at] = e
  BY <1>1, <1>2, <1>5
<1>7. /\ t \in Seq(S) /\ Len(t) = Len(s) + 1
      /\ \A i \in 1 .. at : t[i] = (a \o <<e>>)[i]
      /\ \A i \in 1 .. Len(s) - at + 1 : t[at + i] = c[i]
  <2>1. PICK m \in Seq(S) : m = a \o <<e>>
    BY <1>6
  <2>2. t = m \o c /\ Len(m) = at
    BY <1>4, <1>6, <2>1
  <2>3. /\ t \in Seq(S) /\ Len(t) = Len(s) + 1
        /\ \A i \in 1 .. at : t[i] = m[i]
    BY <1>1, <1>3, <2>2
  <2>4. ASSUME NEW i \in 1 .. Len(s) - at + 1
        PROVE  t[at + i] = c[i]
    <3>1. at + i \in 1 .. Len(m) + Len(c) /\ ~(at + i <= Len(m)) /\ at + i - Len(m) = i
      BY <1>1, <1>3, <2>2
    <3>2. t[at + i] = c[at + i - Len(m)]
      BY <1>3, <2>2, <3>1
    <3>. QED BY <3>1, <3>2
  <2>. QED BY <2>1, <2>3, <2>4
<1>8. ASSUME NEW i \in at .. Len(s)
      PROVE  t[i + 1] = s[i]
  <2>1. i - at + 1 \in 1 .. Len(s) - at + 1 /\ at + (i - at + 1) = i + 1 /\ at + (i - at + 1) - 1 = i
    BY <1>1
  <2>2. t[at + (i - at + 1)] = c[i - at + 1] /\ c[i - at + 1] = s[at + (i - at + 1) - 1]
    BY <1>3, <1>7, <2>1
  <2>. QED BY <2>1, <2>2
<1>9. DOMAIN t = 1 .. (Len(s) + 1)
  BY <1>7
<1>. QED BY <1>1, <1>6, <1>7, <1>8, <1>9 DEF t

\* In order, turns are over when the next ones begin.
LEMMA OneAfterTheOther ==
  ASSUME AgentInv', InOrder', NEW j \in DOMAIN log', NEW k \in DOMAIN log', j < k
  PROVE  /\ log'[j].turn <= log'[k].turn
         /\ log'[j].turn = log'[k].turn =>
              /\ log'[k].type # "turn_start"
              /\ log'[j].type = "turn_end" => log'[k].type = "status"
<1>1. log'[j] \in Known' /\ log'[k] \in Known'
  BY DEF Known, ToSet
<1>2. log'[j].id < log'[k].id
  BY DEF InOrder
<1>3. Follows(log'[j], log'[k])
  BY <1>1 DEF AgentInv, ProtocolInv
<1>. QED BY <1>2, <1>3 DEF Follows

\* The log has one more event.
More(L, M, e) ==
  /\ L \in Seq(Event) /\ e \in Event /\ Len(L) \in Nat
  /\ DOMAIN L = 1 .. Len(L) /\ DOMAIN M = 1 .. (Len(L) + 1)
  /\ \A k \in DOMAIN L : M[k] = L[k] /\ L[k].id \in Nat /\ L[k].id # e.id
  /\ M[Len(L) + 1] = e

\* A log that grows by an event of its own has one more event.
LEMMA MoreIs ==
  ASSUME AgentInv, AgentInv', NEW event \in Event, log' = Append(log, event)
  PROVE  More(log, log', event)
<1>1. log \in Seq(Event) /\ log' \in Seq(Event)
  BY DEF AgentInv, AgentTypes
<1>2. /\ Len(log) \in Nat /\ DOMAIN log = 1 .. Len(log) /\ DOMAIN log' = 1 .. (Len(log) + 1)
      /\ \A i \in DOMAIN log : log'[i] = log[i] /\ log[i] \in Event
      /\ log'[Len(log) + 1] = event
  BY <1>1, AppendIs
<1>3. \A i \in DOMAIN log : log[i].id # event.id
  <2>1. \A i, j \in DOMAIN log' : log'[i].id = log'[j].id => i = j
    BY DEF AgentInv, OnceInv
  <2>2. Len(log) + 1 \in DOMAIN log' /\ \A i \in DOMAIN log : i \in DOMAIN log' /\ i # Len(log) + 1
    BY <1>2
  <2>. QED BY <1>2, <2>1, <2>2
<1>. QED BY <1>1, <1>2, <1>3, EventIs DEF More

\* The same text in the same order, though perhaps at other places.
SameText(B, C, place) ==
  /\ DOMAIN B \subseteq Nat /\ DOMAIN C \subseteq Nat
  /\ place \in [DOMAIN B -> DOMAIN C]
  /\ \A i, j \in DOMAIN B : i < j => place[i] < place[j]
  /\ \A i \in DOMAIN B : \A x : Has(B, i, x) <=> Has(C, place[i], x)
  /\ \A j \in DOMAIN C : \A x : Has(C, j, x) => \E i \in DOMAIN B : j = place[i]

\* Text of a turn that is there after an event was there before it.
LEMMA TextIsFound ==
  ASSUME NEW L, NEW M, NEW e, More(L, M, e), e.type # "token",
         NEW B, NEW C, NEW place, SameText(B, C, place)
  PROVE  \A t, j : j \in DOMAIN C /\ TextOf(C, M, t, j) =>
           \E i \in DOMAIN B : j = place[i] /\ TextOf(B, L, t, i)
<1>1. SUFFICES ASSUME NEW t, NEW j, j \in DOMAIN C, TextOf(C, M, t, j)
               PROVE  \E i \in DOMAIN B : j = place[i] /\ TextOf(B, L, t, i)
  OBVIOUS
<1>2. PICK k \in DOMAIN M : M[k].type = "token" /\ M[k].turn = t /\ Has(C, j, M[k].id)
  BY <1>1 DEF TextOf
<1>3. k \in DOMAIN L /\ M[k] = L[k]
  BY <1>2 DEF More
<1>4. PICK i \in DOMAIN B : j = place[i]
  BY <1>1, <1>2 DEF SameText
<1>5. Has(B, i, L[k].id)
  BY <1>2, <1>3, <1>4 DEF SameText
<1>. QED BY <1>2, <1>3, <1>4, <1>5 DEF TextOf

\* Thoughts stay where they belong when no text is added.
LEMMA StillPlaced ==
  ASSUME NEW L, NEW M, NEW e, More(L, M, e), e.type # "token",
         NEW B, NEW C, NEW place, SameText(B, C, place),
         NEW i \in DOMAIN B, C[place[i]].turn = B[i].turn, Placed(B, L, i),
         OverBefore(M, B[i].turn) => OverBefore(L, B[i].turn)
  PROVE  Placed(C, M, place[i])
<1>. DEFINE turn == B[i].turn
<1>1. SUFFICES ASSUME OverBefore(L, turn), NEW j \in DOMAIN C
               PROVE  /\ TextOf(C, M, turn, j) => place[i] < j
                      /\ \A t \in 1 .. turn - 1 : TextOf(C, M, t, j) => j < place[i]
  BY DEF Placed
<1>2. \A k \in DOMAIN B :
        /\ TextOf(B, L, turn, k) => i < k
        /\ \A t \in 1 .. turn - 1 : TextOf(B, L, t, k) => k < i
  BY <1>1 DEF Placed
<1>. HIDE DEF turn
<1>3. \A t : TextOf(C, M, t, j) => \E k \in DOMAIN B : j = place[k] /\ TextOf(B, L, t, k)
  BY TextIsFound
<1>4. TextOf(C, M, turn, j) => place[i] < j
  BY <1>2, <1>3 DEF SameText
<1>5. ASSUME NEW t \in 1 .. turn - 1, TextOf(C, M, t, j)
      PROVE  j < place[i]
  <2>1. PICK k \in DOMAIN B : j = place[k] /\ TextOf(B, L, t, k)
    BY <1>3, <1>5
  <2>2. k < i
    BY <1>2, <2>1
  <2>. QED BY <2>1, <2>2 DEF SameText
<1>. QED BY <1>4, <1>5

\* An event of another kind adds no text.
LEMMA TextStays ==
  ASSUME NEW L, NEW M, NEW e, More(L, M, e), e.type # "token",
         NEW B, NEW C, NEW place, SameText(B, C, place), NEW start, TextInv(B, start, L)
  PROVE  /\ \A i \in DOMAIN C : \A x : Has(C, i, x) => \E k \in DOMAIN M : M[k].type = "token" /\ M[k].id = x
         /\ \A k \in DOMAIN M : M[k].type = "token" => \E i \in DOMAIN C : Has(C, i, M[k].id)
<1>1. ASSUME NEW i \in DOMAIN C, NEW x, Has(C, i, x)
      PROVE  \E k \in DOMAIN M : M[k].type = "token" /\ M[k].id = x
  <2>1. PICK j \in DOMAIN B : i = place[j]
    BY <1>1 DEF SameText
  <2>2. Has(B, j, x)
    BY <1>1, <2>1 DEF SameText
  <2>3. PICK k \in DOMAIN L : L[k].type = "token" /\ L[k].id = x
    BY <2>2 DEF TextInv
  <2>. QED BY <2>3 DEF More
<1>2. ASSUME NEW k \in DOMAIN M, M[k].type = "token"
      PROVE  \E i \in DOMAIN C : Has(C, i, M[k].id)
  <2>1. k \in DOMAIN L /\ M[k] = L[k]
    BY <1>2 DEF More
  <2>2. PICK i \in DOMAIN B : Has(B, i, L[k].id)
    BY <1>2, <2>1 DEF TextInv
  <2>. QED BY <2>1, <2>2 DEF SameText
<1>. QED BY <1>1, <1>2

\* An event that is neither text nor the beginning or the end of a turn.
LEMMA QuietText ==
  ASSUME NEW L, NEW M, NEW e, More(L, M, e), e.type \notin {"token", "turn_start", "turn_end"},
         NEW B, NEW C, SameText(B, C, [i \in DOMAIN B |-> i]), NEW start, TextInv(B, start, L)
  PROVE  TextInv(C, start, M)
<1>. DEFINE place == [i \in DOMAIN B |-> i]
<1>1. Resets(M) = Resets(L)
  BY DEF Resets, More
<1>2. \A k \in DOMAIN M : M[k].type = "token" => k \in DOMAIN L /\ M[k] = L[k]
  BY DEF More
<1>3. \A i, x : Has(C, i, x) /\ i \in DOMAIN C => i \in DOMAIN B /\ Has(B, i, x)
  BY DEF SameText
<1>4. /\ \A i \in DOMAIN C : \A x : Has(C, i, x) => \E k \in DOMAIN M : M[k].type = "token" /\ M[k].id = x
      /\ \A k \in DOMAIN M : M[k].type = "token" => \E i \in DOMAIN C : Has(C, i, M[k].id)
  BY TextStays
<1>5. start = 0 => \A k \in DOMAIN M : M[k].type = "token" => \E j \in Resets(M) : k < j
  BY <1>1, <1>2 DEF TextInv
<1>6. ASSUME start # 0
      PROVE  start \in DOMAIN C
  BY <1>6 DEF TextInv, SameText
<1>7. ASSUME start # 0, NEW i \in DOMAIN C, NEW k \in DOMAIN M, M[k].type = "token",
             Has(C, i, M[k].id)
      PROVE  /\ i < start => \E j \in Resets(M) : k < j
             /\ i >= start => \A j \in Resets(M) : j < k
  BY <1>1, <1>2, <1>3, <1>7 DEF TextInv
<1>. QED BY <1>4, <1>5, <1>6, <1>7 DEF TextInv

\* A turn begins or ends: the text of the next one is a block of its own.
LEMMA ResetText ==
  ASSUME NEW L, NEW M, NEW e, More(L, M, e), e.type \in {"turn_start", "turn_end"},
         NEW B, NEW C, NEW place, SameText(B, C, place), NEW start, TextInv(B, start, L)
  PROVE  TextInv(C, 0, M)
<1>1. Len(L) + 1 \in Resets(M)
  BY DEF Resets, More
<1>2. \A k \in DOMAIN M : M[k].type = "token" => k < Len(L) + 1
  BY DEF More
<1>. QED BY <1>1, <1>2, TextStays DEF TextInv

\* A piece of text comes into the block at last.
TextComes(B, C, last, x) ==
  /\ DOMAIN B \subseteq Nat /\ last \in Nat /\ DOMAIN C = DOMAIN B \cup {last}
  /\ \A i \in DOMAIN B : i <= last
  /\ \A i \in DOMAIN C : \A y :
       Has(C, i, y) <=> (i \in DOMAIN B /\ Has(B, i, y)) \/ (i = last /\ y = x)

\* A piece of text in the last block keeps the text that of the log.
LEMMA TokenText ==
  ASSUME NEW L, NEW M, NEW e, More(L, M, e), e.type = "token",
         NEW B, NEW C, NEW last \in Nat \ {0}, TextComes(B, C, last, e.id),
         NEW start \in Nat, NEW begin, TextInv(B, start, L),
         start = 0 => begin = last /\ last \notin DOMAIN B,
         start # 0 => begin = start
  PROVE  TextInv(C, begin, M)
<1>. DEFINE n == Len(L) + 1
<1>1. Resets(M) = Resets(L) /\ \A j \in Resets(M) : j < n
  BY DEF Resets, More
<1>2. n \in DOMAIN M /\ M[n] = e /\ n \notin DOMAIN L
  BY DEF More
<1>3. \A k \in DOMAIN M : k # n => k \in DOMAIN L /\ M[k] = L[k] /\ L[k].id # e.id
  BY DEF More
<1>4. \A i \in DOMAIN B : ~Has(B, i, e.id)
  BY DEF TextInv, More
<1>. HIDE DEF n
<1>5. ASSUME NEW i \in DOMAIN C, NEW x, Has(C, i, x)
      PROVE  \E k \in DOMAIN M : M[k].type = "token" /\ M[k].id = x
  <2>1. CASE i \in DOMAIN B /\ Has(B, i, x)
    <3>1. PICK k \in DOMAIN L : L[k].type = "token" /\ L[k].id = x
      BY <2>1 DEF TextInv
    <3>. QED BY <3>1 DEF More
  <2>2. CASE x = e.id
    BY <1>2, <2>2
  <2>. QED BY <1>5, <2>1, <2>2 DEF TextComes
<1>6. ASSUME NEW k \in DOMAIN M, M[k].type = "token"
      PROVE  \E i \in DOMAIN C : Has(C, i, M[k].id)
  <2>1. CASE k = n
    BY <1>2, <2>1 DEF TextComes
  <2>2. CASE k # n
    <3>1. PICK i \in DOMAIN B : Has(B, i, L[k].id)
      BY <1>3, <1>6, <2>2 DEF TextInv
    <3>. QED BY <1>3, <2>2, <3>1 DEF TextComes
  <2>. QED BY <2>1, <2>2
<1>7. begin # 0 /\ begin \in DOMAIN C /\ begin \in Nat
  BY DEF TextComes, TextInv
<1>8. ASSUME NEW i \in DOMAIN C, NEW k \in DOMAIN M, M[k].type = "token", Has(C, i, M[k].id)
      PROVE  /\ i < begin => \E j \in Resets(M) : k < j
             /\ i >= begin => \A j \in Resets(M) : j < k
  <2>1. CASE k = n
    <3>1. i = last
      BY <1>2, <1>4, <1>8, <2>1 DEF TextComes
    <3>2. begin <= last
      <4>1. start # 0 => start \in DOMAIN B
        BY DEF TextInv
      <4>. QED BY <4>1 DEF TextComes
    <3>. QED BY <1>1, <1>7, <2>1, <3>1, <3>2
  <2>2. CASE k # n
    <3>1. k \in DOMAIN L /\ M[k] = L[k] /\ L[k].id # e.id
      BY <1>3, <2>2
    <3>2. i \in DOMAIN B /\ Has(B, i, L[k].id)
      BY <1>8, <3>1 DEF TextComes
    <3>3. CASE start = 0
      <4>1. i < begin
        BY <3>2, <3>3 DEF TextComes
      <4>2. \E j \in Resets(M) : k < j
        BY <1>1, <1>8, <3>1, <3>3 DEF TextInv
      <4>3. i \in Nat
        BY <3>2 DEF TextComes
      <4>. QED BY <1>7, <4>1, <4>2, <4>3
    <3>4. CASE start # 0
      BY <1>1, <1>8, <3>1, <3>2, <3>4 DEF TextInv
    <3>. QED BY <3>3, <3>4
  <2>. QED BY <2>1, <2>2
<1>. QED BY <1>5, <1>6, <1>7, <1>8 DEF TextInv

\* A turn of which thoughts are shown is over: what comes then is of a later turn.
LEMMA LaterTurn ==
  ASSUME AgentInv', InOrder', NEW event, More(log, log', event),
         NEW k \in DOMAIN log, log[k].type = "turn_end", event.type # "status"
  PROVE  /\ log[k].turn < event.turn /\ log[k].turn \in Turns /\ event.turn \in Nat
         /\ OverBefore(log', log[k].turn) => OverBefore(log, log[k].turn)
<1>. DEFINE n == Len(log) + 1
            turn == log[k].turn
<1>1. /\ k \in DOMAIN log' /\ n \in DOMAIN log' /\ k < n /\ log'[k] = log[k] /\ log'[n] = event
      /\ log[k] \in Event /\ event \in Event
  BY DEF More
<1>2. turn \in Turns /\ event.turn \in Nat /\ turn \in Nat
  BY <1>1, EventIs, BoundsAre
<1>3. turn < event.turn
  BY <1>1, <1>2, OneAfterTheOther
<1>4. ASSUME OverBefore(log', turn), NEW t \in 1 .. turn - 1
      PROVE  \E i \in DOMAIN log : \/ log[i].type = "turn_end" /\ log[i].turn = t
                                   \/ log[i].type = "turn_start" /\ log[i].turn = t + 1
  <2>. HIDE DEF turn
  <2>1. PICK i \in DOMAIN log' : \/ log'[i].type = "turn_end" /\ log'[i].turn = t
                                 \/ log'[i].type = "turn_start" /\ log'[i].turn = t + 1
    BY <1>4 DEF OverBefore
  <2>2. i # n
    BY <1>1, <1>2, <1>3, <2>1
  <2>3. i \in DOMAIN log /\ log'[i] = log[i]
    BY <2>2 DEF More
  <2>. QED BY <2>1, <2>3
<1>5. OverBefore(log', turn) => OverBefore(log, turn)
  BY <1>4 DEF OverBefore
<1>. QED BY <1>2, <1>3, <1>5

\* The thoughts that are there stay where they belong, when an event comes that is no text ...
LEMMA OldThoughtsStay ==
  ASSUME AgentInv', InOrder', NEW event, More(log, log', event),
         event.type \notin {"token", "status"},
         NEW B, NEW C, NEW place, SameText(B, C, place),
         NEW i \in DOMAIN B, C[place[i]].turn = B[i].turn, Placed(B, log, i),
         NEW k \in DOMAIN log, log[k].type = "turn_end", log[k].turn = B[i].turn
  PROVE  Placed(C, log', place[i])
BY StillPlaced, LaterTurn

\* ... or a status ...
LEMMA ThoughtsStayAtStatus ==
  ASSUME NEW event, More(log, log', event), event.type = "status",
         NEW B, NEW C, NEW place, SameText(B, C, place),
         NEW i \in DOMAIN B, C[place[i]].turn = B[i].turn, Placed(B, log, i)
  PROVE  Placed(C, log', place[i])
<1>1. OverBefore(log', B[i].turn) => OverBefore(log, B[i].turn)
  BY DEF OverBefore, More
<1>. QED BY <1>1, StillPlaced

\* ... or text.
LEMMA ThoughtsStayAtText ==
  ASSUME AgentInv', InOrder', NEW event, More(log, log', event), event.type = "token",
         NEW B, NEW C, NEW last, TextComes(B, C, last, event.id),
         NEW i \in DOMAIN B, C[i].turn = B[i].turn, Placed(B, log, i),
         NEW k \in DOMAIN log, log[k].type = "turn_end", log[k].turn = B[i].turn
  PROVE  Placed(C, log', i)
<1>. DEFINE turn == B[i].turn
<1>1. /\ turn < event.turn /\ turn \in Nat
      /\ OverBefore(log', turn) => OverBefore(log, turn)
  BY LaterTurn, BoundsAre
<1>2. ASSUME NEW t \in 1 .. turn, NEW j \in DOMAIN C, TextOf(C, log', t, j)
      PROVE  j \in DOMAIN B /\ TextOf(B, log, t, j)
  <2>1. PICK m \in DOMAIN log' : log'[m].type = "token" /\ log'[m].turn = t /\ Has(C, j, log'[m].id)
    BY <1>2 DEF TextOf
  <2>2. t < event.turn
    BY <1>1, LaterTurn
  <2>3. m # Len(log) + 1
    BY <2>1, <2>2, LaterTurn DEF More
  <2>4. m \in DOMAIN log /\ log'[m] = log[m] /\ log[m].id # event.id
    BY <2>3 DEF More
  <2>5. j \in DOMAIN B /\ Has(B, j, log[m].id)
    BY <2>1, <2>4 DEF TextComes
  <2>. QED BY <2>1, <2>4, <2>5 DEF TextOf
<1>3. ASSUME OverBefore(log', turn), NEW j \in DOMAIN C
      PROVE  /\ TextOf(C, log', turn, j) => i < j
             /\ \A t \in 1 .. turn - 1 : TextOf(C, log', t, j) => j < i
  <2>1. OverBefore(log, turn)
    BY <1>1, <1>3
  <2>2. \A m \in DOMAIN B : /\ TextOf(B, log, turn, m) => i < m
                            /\ \A t \in 1 .. turn - 1 : TextOf(B, log, t, m) => m < i
    BY <2>1 DEF Placed
  <2>3. turn \in 1 .. turn /\ \A t \in 1 .. turn - 1 : t \in 1 .. turn
    BY <1>1, LaterTurn, BoundsAre
  <2>. QED BY <1>2, <1>3, <2>2, <2>3
<1>. QED BY <1>3 DEF Placed

\* The thoughts of the turn that ends come before its text, behind all that was before.
LEMMA NewThoughts ==
  ASSUME AgentInv', InOrder', NEW event, More(log, log', event), event.type = "turn_end",
         NEW B, NEW start \in Nat, TextInv(B, start, log),
         NEW C, NEW at \in Nat, NEW place, SameText(B, C, place),
         \A i \in DOMAIN B : IF i < at THEN place[i] = i ELSE place[i] = i + 1,
         start = 0 => \A i \in DOMAIN B : i < at,
         start # 0 => at = start,
         C[at].turn = event.turn
  PROVE  Placed(C, log', at)
<1>. DEFINE n == Len(log) + 1
            turn == event.turn
<1>1. /\ n \in DOMAIN log' /\ log'[n] = event /\ event \in Event /\ turn \in Turns /\ turn \in Nat
      /\ \A k \in DOMAIN log : k \in DOMAIN log' /\ k < n /\ log'[k] = log[k] /\ log[k] \in Event
                               /\ k \in Nat
  BY EventIs, BoundsAre DEF More
<1>2. \A k \in DOMAIN log : log[k].turn \in Nat /\ log[k].turn <= turn
  BY <1>1, OneAfterTheOther, EventIs
<1>3. \A j, k \in DOMAIN log : j < k =>
        /\ log[j].turn <= log[k].turn
        /\ log[j].turn = log[k].turn => /\ log[k].type # "turn_start"
                                        /\ log[j].type = "turn_end" => log[k].type = "status"
  BY <1>1, OneAfterTheOther
<1>4. \A k \in DOMAIN log : ~(log[k].type = "turn_end" /\ log[k].turn = turn)
  BY <1>1, OneAfterTheOther
<1>. HIDE DEF n
<1>5. ASSUME NEW k \in DOMAIN log, log[k].type = "token", log[k].turn = turn,
             NEW j \in Resets(log), k < j
      PROVE  FALSE
  <2>1. log[j].turn = turn
    BY <1>2, <1>3, <1>5 DEF Resets
  <2>. QED BY <1>3, <1>4, <1>5, <2>1 DEF Resets
<1>6. ASSUME NEW j \in DOMAIN C, TextOf(C, log', turn, j)
      PROVE  at < j
  <2>1. PICK i \in DOMAIN B : j = place[i] /\ TextOf(B, log, turn, i)
    BY <1>6, TextIsFound
  <2>2. PICK k \in DOMAIN log : log[k].type = "token" /\ log[k].turn = turn /\ Has(B, i, log[k].id)
    BY <2>1 DEF TextOf
  <2>3. start # 0
    BY <1>5, <2>2 DEF TextInv
  <2>4. ~(i < start) /\ i \in Nat
    BY <1>5, <2>2, <2>3 DEF TextInv, SameText
  <2>. QED BY <2>1, <2>3, <2>4
<1>7. ASSUME OverBefore(log', turn), NEW t \in 1 .. turn - 1, NEW j \in DOMAIN C, TextOf(C, log', t, j)
      PROVE  j < at
  <2>1. PICK i \in DOMAIN B : j = place[i] /\ TextOf(B, log, t, i)
    BY <1>7, TextIsFound
  <2>2. i \in Nat
    BY DEF SameText
  <2>3. CASE start = 0
    BY <2>1, <2>2, <2>3
  <2>4. CASE start # 0
    <3>1. PICK k \in DOMAIN log : log[k].type = "token" /\ log[k].turn = t /\ Has(B, i, log[k].id)
      BY <2>1 DEF TextOf
    <3>2. turn - 1 \in 1 .. turn - 1 /\ t <= turn - 1
      BY <1>1
    <3>3. PICK m \in DOMAIN log' : \/ log'[m].type = "turn_end" /\ log'[m].turn = turn - 1
                                   \/ log'[m].type = "turn_start" /\ log'[m].turn = turn - 1 + 1
      BY <1>7, <3>2 DEF OverBefore
    <3>4. m \in DOMAIN log /\ log'[m] = log[m]
      <4>1. m # n
        BY <1>1, <3>3
      <4>. QED BY <4>1 DEF More, n
    <3>5. m \in Resets(log) /\ m \in Nat /\ k \in Nat
      BY <1>1, <3>3, <3>4 DEF Resets
    <3>6. ~(m < k)
      BY <1>1, <1>3, <3>1, <3>2, <3>3, <3>4
    <3>7. ~(i >= start)
      BY <2>4, <3>1, <3>5, <3>6 DEF TextInv
    <3>. QED BY <2>1, <2>2, <2>4, <3>7
  <2>. QED BY <2>3, <2>4
<1>. QED BY <1>6, <1>7 DEF Placed

\* Lines come or change; text and thoughts stay.
LinesOnly(B, C) ==
  /\ C \in Seq(Block)
  /\ \A i \in DOMAIN B :
       /\ i \in DOMAIN C /\ C[i].kind = B[i].kind
       /\ B[i].kind = "assistant" => C[i].text = B[i].text
       /\ B[i].kind = "thinking" => C[i].turn = B[i].turn
  /\ \A i \in DOMAIN C : i \notin DOMAIN B => C[i].kind \notin {"assistant", "thinking"}

\* When only lines change, text and thoughts stay at their places.
LEMMA LinesOnlyIs ==
  ASSUME NEW B \in Seq(Block), NEW C, LinesOnly(B, C)
  PROVE  /\ SameText(B, C, [i \in DOMAIN B |-> i])
         /\ ThoughtsAt(C) = ThoughtsAt(B)
         /\ \A i \in ThoughtsAt(B) : C[i].turn = B[i].turn
<1>1. DOMAIN B \subseteq Nat /\ DOMAIN C \subseteq Nat
  BY DEF LinesOnly
<1>2. \A i \in DOMAIN B : \A x : Has(B, i, x) <=> Has(C, i, x)
  BY DEF LinesOnly, Has
<1>3. \A i \in DOMAIN C : \A x : Has(C, i, x) => i \in DOMAIN B
  BY DEF LinesOnly, Has
<1>4. SameText(B, C, [i \in DOMAIN B |-> i])
  BY <1>1, <1>2, <1>3 DEF SameText, LinesOnly
<1>5. ThoughtsAt(C) = ThoughtsAt(B)
  BY DEF LinesOnly, ThoughtsAt
<1>. QED BY <1>4, <1>5 DEF LinesOnly, ThoughtsAt

\* A line is added.
LEMMA LineAdded ==
  ASSUME NEW B \in Seq(Block), NEW b \in Block, b.kind \notin {"assistant", "thinking"}
  PROVE  LinesOnly(B, Append(B, b))
<1>. DEFINE C == Append(B, b)
<1>1. /\ C \in Seq(Block) /\ Len(B) \in Nat /\ DOMAIN B = 1 .. Len(B)
      /\ DOMAIN C = 1 .. (Len(B) + 1) /\ \A i \in DOMAIN B : C[i] = B[i]
      /\ C[Len(B) + 1] = b
  BY AppendIs
<1>2. \A i \in DOMAIN C : i \notin DOMAIN B => i = Len(B) + 1
  BY <1>1
<1>. HIDE DEF C
<1>. QED BY <1>1, <1>2 DEF LinesOnly, C

\* A call's line changes.
LEMMA LineChanged ==
  ASSUME NEW F, F.blocks \in Seq(Block), NEW event, event.status \in {"running", "ended"},
         NEW lines, \A i \in lines : F.blocks[i].kind \in {"tool", "review"},
         F = [blocks |-> F.blocks, start |-> F.start]
  PROVE  LET B == F.blocks
             new == Updated(F, lines, event)
         IN  /\ LinesOnly(B, new.blocks)
             /\ new = [blocks |-> new.blocks, start |-> F.start]
             /\ DOMAIN new.blocks = DOMAIN B
             /\ \A i \in DOMAIN B :
                  B[i].kind \in {"tool", "review"} => new.blocks[i].call = B[i].call
<1>. DEFINE B == F.blocks
            C == [i \in DOMAIN B |-> IF i \in lines THEN [B[i] EXCEPT !.status = event.status] ELSE B[i]]
<1>1. Updated(F, lines, event) = [blocks |-> C, start |-> F.start]
  <2>1. Updated(F, lines, event) = [F EXCEPT !.blocks = C]
    BY DEF Updated
  <2>. HIDE DEF C
  <2>2. PICK b, s : F = [blocks |-> b, start |-> s] /\ F.start = s
    OBVIOUS
  <2>. QED BY <2>1, <2>2
<1>2. \A i \in DOMAIN B : B[i] \in Block
  OBVIOUS
<1>3. ASSUME NEW i \in DOMAIN B
      PROVE  /\ C[i] \in Block /\ C[i].kind = B[i].kind
             /\ B[i].kind = "assistant" => C[i] = B[i]
             /\ B[i].kind = "thinking" => C[i] = B[i]
             /\ B[i].kind \in {"tool", "review"} => C[i].call = B[i].call
  <2>1. CASE i \in lines
    <3>1. B[i].kind \in {"tool", "review"} /\ C[i] = [B[i] EXCEPT !.status = event.status]
      BY <2>1
    <3>2. C[i] \in Block
      BY <1>2, <3>1, BlockIs
    <3>3. C[i].kind = B[i].kind /\ C[i].call = B[i].call
      <4>1. B[i] \in [key : {"tool", "review"} \X Calls, kind : {"tool", "review"}, call : Calls,
                      tool : Tools, args : BOOLEAN, status : {"running", "ended"}]
        BY <1>2, <3>1 DEF Block
      <4>. QED BY <3>1, <4>1
    <3>. QED BY <3>1, <3>2, <3>3
  <2>2. CASE i \notin lines
    BY <1>2, <2>2
  <2>. QED BY <2>1, <2>2
<1>4. C \in Seq(Block) /\ DOMAIN C = DOMAIN B
  <2>1. DOMAIN B = 1 .. Len(B) /\ Len(B) \in Nat
    OBVIOUS
  <2>2. C = [i \in 1 .. Len(B) |-> C[i]]
    BY <2>1
  <2>. QED BY <1>3, <2>1, <2>2
<1>. HIDE DEF C
<1>5. LinesOnly(B, C)
  BY <1>3, <1>4 DEF LinesOnly
<1>. QED BY <1>1, <1>3, <1>4, <1>5

\* The feed after an event of a call, a note or a status.
LEMMA LinesFold ==
  ASSUME FeedTypes, NEW seq \in Nat, NEW event \in Event,
         event.type \in {"tool_call", "note", "status"}
  PROVE  LET new == FoldEvent(feed, seq, event)
         IN  /\ LinesOnly(feed.blocks, new.blocks)
             /\ new = [blocks |-> new.blocks, start |-> feed.start]
<1>. DEFINE B == feed.blocks
<1>1. B \in Seq(Block) /\ feed = [blocks |-> B, start |-> feed.start]
  BY DEF FeedTypes
<1>2. ASSUME NEW b \in Block, b.kind \notin {"assistant", "thinking"}
      PROVE  /\ LinesOnly(B, Push(feed, b).blocks)
             /\ Push(feed, b) = [blocks |-> Push(feed, b).blocks, start |-> feed.start]
  <2>1. Push(feed, b) = [blocks |-> Append(B, b), start |-> feed.start]
    BY <1>1 DEF Push
  <2>. QED BY <1>1, <1>2, <2>1, LineAdded
<1>3. LinesOnly(B, B)
  BY <1>1 DEF LinesOnly
<1>4. CASE event.type = "note"
  <2>1. [key |-> <<"log", seq>>, kind |-> "log"] \in Block
    BY DEF Block
  <2>. QED BY <1>2, <1>4, <2>1 DEF FoldEvent
<1>5. CASE event.type = "status"
  <2>1. [key |-> <<"status", seq>>, kind |-> "status"] \in Block
    BY DEF Block
  <2>2. FoldEvent(feed, seq, event) = FoldStatus(feed, seq, event)
    BY <1>5 DEF FoldEvent
  <2>. QED BY <1>1, <1>2, <1>3, <2>1, <2>2 DEF FoldStatus
<1>6. CASE event.type = "tool_call"
  <2>1. FoldEvent(feed, seq, event) = FoldTool(feed, event)
    BY <1>6 DEF FoldEvent
  <2>2. /\ event.call \in Calls /\ event.tool \in Tools /\ event.args \in BOOLEAN
        /\ event.status \in {"running", "ended"}
    BY <1>6, EventIs
  <2>3. \A kind \in {"tool", "review"} : Line(kind, event) \in Block /\ Line(kind, event).kind = kind
    BY <2>2 DEF Line, Block
  <2>4. \A kind \in {"tool", "review"} : \A i \in LinesOf(feed, kind, event.call) :
          B[i].kind \in {"tool", "review"}
    BY DEF LinesOf
  <2>5. \A kind \in {"tool", "review"} :
          LET new == Push(feed, Line(kind, event))
          IN  LinesOnly(B, new.blocks) /\ new = [blocks |-> new.blocks, start |-> feed.start]
    BY <1>2, <2>3
  <2>6. \A kind \in {"tool", "review"} :
          LET new == Updated(feed, LinesOf(feed, kind, event.call), event)
          IN  LinesOnly(B, new.blocks) /\ new = [blocks |-> new.blocks, start |-> feed.start]
    BY <1>1, <2>2, <2>4, LineChanged
  <2>. QED BY <2>1, <2>5, <2>6 DEF FoldTool
<1>. QED BY <1>4, <1>5, <1>6

\* A feed of an empty log.
LEMMA FeedStarts ==
  ASSUME DisplayInit
  PROVE  FeedInv
<1>1. feed = [blocks |-> << >>, start |-> 0] /\ log = << >>
  BY DEF DisplayInit, ViewsInit, EmptyFeed, Init
<1>2. << >> \in Seq(Block) /\ DOMAIN << >> = {}
  OBVIOUS
<1>. QED BY <1>1, <1>2 DEF FeedInv, FeedTypes, TextInv, ThoughtsAt

\* What is asked of the feed after an event.
FeedThen(new) ==
  /\ new \in [blocks : Seq(Block), start : Nat]
  /\ TextInv(new.blocks, new.start, log')
  /\ \A i \in ThoughtsAt(new.blocks) : \E k \in DOMAIN log' :
       log'[k].type = "turn_end" /\ log'[k].turn = new.blocks[i].turn
  /\ InOrder' => \A i \in ThoughtsAt(new.blocks) : Placed(new.blocks, log', i)

\* What is known of the feed, the log and the event that is folded.
LEMMA FeedWas ==
  ASSUME AgentInv, AgentInv', FeedInv, NEW event \in Event, log' = Append(log, event)
  PROVE  /\ More(log, log', event) /\ Len(log) + 1 \in Nat
         /\ feed.blocks \in Seq(Block) /\ feed.start \in Nat
         /\ feed = [blocks |-> feed.blocks, start |-> feed.start]
         /\ TextInv(feed.blocks, feed.start, log)
         /\ \A i \in ThoughtsAt(feed.blocks) : \E k \in DOMAIN log :
              log[k].type = "turn_end" /\ log[k].turn = feed.blocks[i].turn
         /\ InOrder' => \A i \in ThoughtsAt(feed.blocks) : Placed(feed.blocks, log, i)
<1>1. More(log, log', event)
  BY MoreIs
<1>2. InOrder' => InOrder
  BY InOrderBefore DEF AgentInv, AgentTypes
<1>3. Len(log) + 1 \in Nat
  BY <1>1 DEF More
<1>. QED BY <1>1, <1>2, <1>3 DEF FeedInv, FeedTypes

\* Lines change and the text stays.
LEMMA LinesKeep ==
  ASSUME AgentInv, AgentInv', FeedInv, NEW event \in Event, log' = Append(log, event),
         event.type \in {"tool_call", "note", "status"}
  PROVE  FeedThen(FoldEvent(feed, Len(log) + 1, event))
<1>. DEFINE B == feed.blocks
            new == FoldEvent(feed, Len(log) + 1, event)
            C == new.blocks
            same == [i \in DOMAIN B |-> i]
<1>1. /\ More(log, log', event) /\ Len(log) + 1 \in Nat /\ B \in Seq(Block) /\ feed.start \in Nat
      /\ TextInv(B, feed.start, log)
      /\ \A i \in ThoughtsAt(B) : \E k \in DOMAIN log :
           log[k].type = "turn_end" /\ log[k].turn = B[i].turn
      /\ InOrder' => \A i \in ThoughtsAt(B) : Placed(B, log, i)
  BY FeedWas
<1>2. LinesOnly(B, C) /\ new = [blocks |-> C, start |-> feed.start]
  BY <1>1, LinesFold DEF FeedInv
<1>. HIDE DEF B, new
<1>3. /\ SameText(B, C, same) /\ ThoughtsAt(C) = ThoughtsAt(B)
      /\ \A i \in ThoughtsAt(B) : C[i].turn = B[i].turn /\ i \in DOMAIN B /\ same[i] = i
  BY <1>1, <1>2, LinesOnlyIs DEF ThoughtsAt
<1>. HIDE DEF C
<1>4. TextInv(C, feed.start, log')
  BY <1>1, <1>3, QuietText
<1>5. \A i \in ThoughtsAt(C) : \E k \in DOMAIN log' :
        log'[k].type = "turn_end" /\ log'[k].turn = C[i].turn
  <2>1. ASSUME NEW i \in ThoughtsAt(C)
        PROVE  \E k \in DOMAIN log' : log'[k].type = "turn_end" /\ log'[k].turn = C[i].turn
    <3>1. i \in ThoughtsAt(B) /\ C[i].turn = B[i].turn
      BY <1>3, <2>1
    <3>2. PICK k \in DOMAIN log : log[k].type = "turn_end" /\ log[k].turn = B[i].turn
      BY <1>1, <3>1
    <3>3. k \in DOMAIN log' /\ log'[k] = log[k]
      BY <1>1 DEF More
    <3>. QED BY <3>1, <3>2, <3>3
  <2>. QED BY <2>1
<1>6. ASSUME InOrder', NEW i \in ThoughtsAt(B)
      PROVE  Placed(C, log', i)
  <2>. HIDE DEF same
  <2>1. Placed(B, log, i) /\ i \in DOMAIN B /\ same[i] = i /\ C[same[i]].turn = B[i].turn
    BY <1>1, <1>3, <1>6
  <2>2. PICK k \in DOMAIN log : log[k].type = "turn_end" /\ log[k].turn = B[i].turn
    BY <1>1, <1>6
  <2>3. CASE event.type = "status"
    <3>1. Placed(C, log', same[i])
      BY <1>1, <1>3, <2>1, <2>3, ThoughtsStayAtStatus
    <3>. QED BY <2>1, <3>1
  <2>4. CASE event.type # "status"
    <3>1. Placed(C, log', same[i])
      BY <1>1, <1>3, <1>6, <2>1, <2>2, <2>4, OldThoughtsStay
    <3>. QED BY <2>1, <3>1
  <2>. QED BY <2>3, <2>4
<1>7. C \in Seq(Block)
  BY <1>2 DEF LinesOnly
<1>8. /\ new.blocks = C /\ new.start = feed.start
      /\ new \in [blocks : Seq(Block), start : Nat]
  BY <1>1, <1>2, <1>7
<1>9. FeedThen(new)
  BY <1>3, <1>4, <1>5, <1>6, <1>8 DEF FeedThen
<1>. QED BY <1>9 DEF new

\* Text goes on where the last block is text of the turn, or begins another block.
LEMMA TokenKeeps ==
  ASSUME AgentInv, AgentInv', FeedInv, NEW event \in Event, log' = Append(log, event),
         event.type = "token"
  PROVE  FeedThen(FoldEvent(feed, Len(log) + 1, event))
<1>. DEFINE B == feed.blocks
            start == feed.start
            new == FoldToken(feed, Len(log) + 1, event)
            last == Len(B)
            block == [key |-> <<"assistant", Len(log) + 1>>, kind |-> "assistant",
                      text |-> <<event.id>>, blank |-> event.blank]
            GoesOn == last > 0 /\ B[last].kind = "assistant" /\ start # 0
<1>1. /\ More(log, log', event) /\ Len(log) + 1 \in Nat /\ B \in Seq(Block) /\ start \in Nat
      /\ feed = [blocks |-> B, start |-> start]
      /\ TextInv(B, start, log)
      /\ \A i \in ThoughtsAt(B) : \E k \in DOMAIN log :
           log[k].type = "turn_end" /\ log[k].turn = B[i].turn
      /\ InOrder' => \A i \in ThoughtsAt(B) : Placed(B, log, i)
  BY FeedWas
<1>2. FoldEvent(feed, Len(log) + 1, event) = new
  BY DEF FoldEvent
<1>3. event.id \in Nat /\ last \in Nat /\ DOMAIN B = 1 .. last /\ \A i \in DOMAIN B : B[i] \in Block
  BY <1>1, EventIs
<1>4. ASSUME NEW C \in Seq(Block), NEW at \in Nat \ {0}, NEW begin \in Nat,
             TextComes(B, C, at, event.id),
             start = 0 => begin = at /\ at \notin DOMAIN B,
             start # 0 => begin = start,
             ThoughtsAt(C) = ThoughtsAt(B), \A i \in ThoughtsAt(B) : C[i] = B[i],
             new = [blocks |-> C, start |-> begin]
      PROVE  FeedThen(new)
  <2>. HIDE DEF B, start, new, last
  <2>1. TextInv(C, begin, log')
    BY <1>1, <1>4, TokenText
  <2>2. \A i \in ThoughtsAt(C) : \E k \in DOMAIN log' :
          log'[k].type = "turn_end" /\ log'[k].turn = C[i].turn
    BY <1>1, <1>4 DEF More
  <2>3. ASSUME InOrder', NEW i \in ThoughtsAt(C)
        PROVE  Placed(C, log', i)
    <3>1. i \in DOMAIN B /\ C[i].turn = B[i].turn /\ Placed(B, log, i)
      BY <1>1, <1>4, <2>3 DEF ThoughtsAt
    <3>2. PICK k \in DOMAIN log : log[k].type = "turn_end" /\ log[k].turn = B[i].turn
      BY <1>1, <1>4, <2>3
    <3>. QED BY <1>1, <1>4, <2>3, <3>1, <3>2, ThoughtsStayAtText
  <2>. QED BY <1>4, <2>1, <2>2, <2>3 DEF FeedThen
<1>5. CASE GoesOn
  <2>. DEFINE row == Longer(B[last], event)
              C == [B EXCEPT ![last] = row]
  <2>1. last \in DOMAIN B /\ B[last] \in Block /\ B[last].kind = "assistant" /\ last # 0
    BY <1>3, <1>5
  <2>2. B[last].text \in Seq(Nat) /\ row \in Block
    BY <1>3, <2>1, BlockIs, PieceAdded
  <2>3. row.kind = "assistant" /\ row.text = Append(B[last].text, event.id)
    BY <2>1, PieceAdded
  <2>4. new = [feed EXCEPT !.blocks = C]
    BY <1>5 DEF FoldToken
  <2>. HIDE DEF row
  <2>5. /\ C \in Seq(Block) /\ DOMAIN C = DOMAIN B /\ C[last] = row
        /\ \A i \in DOMAIN B : i # last => C[i] = B[i]
    BY <1>1, <2>1, <2>2
  <2>. HIDE DEF C, new
  <2>6. new = [blocks |-> C, start |-> start]
    BY <1>1, <2>4
  <2>7. ToSet(row.text) = ToSet(B[last].text) \cup {event.id}
    <3>1. PICK t \in Seq(Nat) : t = B[last].text
      BY <2>2
    <3>2. ToSet(Append(t, event.id)) = ToSet(t) \cup {event.id}
      BY <1>3, AppendIs
    <3>. QED BY <2>3, <3>1, <3>2
  <2>8. TextComes(B, C, last, event.id)
    <3>1. ASSUME NEW i \in DOMAIN C, NEW y
          PROVE  Has(C, i, y) <=> (i \in DOMAIN B /\ Has(B, i, y)) \/ (i = last /\ y = event.id)
      BY <2>1, <2>3, <2>5, <2>7 DEF Has
    <3>. QED BY <1>3, <2>1, <2>5, <3>1 DEF TextComes
  <2>9. ThoughtsAt(C) = ThoughtsAt(B) /\ \A i \in ThoughtsAt(B) : C[i] = B[i]
    BY <2>1, <2>3, <2>5 DEF ThoughtsAt
  <2>10. FeedThen(new)
    BY <1>1, <1>3, <1>4, <1>5, <2>1, <2>5, <2>6, <2>8, <2>9
  <2>. QED BY <1>2, <2>10
<1>6. CASE ~GoesOn
  <2>. DEFINE C == Append(B, block)
              begin == IF start = 0 THEN last + 1 ELSE start
  <2>1. block \in Block /\ block.kind = "assistant" /\ block.text = <<event.id>>
    <3>1. event.blank \in BOOLEAN /\ <<event.id>> \in Seq(Nat)
      BY <1>3, EventIs
    <3>. QED BY <1>1, <3>1 DEF Block
  <2>2. new = [[feed EXCEPT !.blocks = Append(feed.blocks, block)] EXCEPT !.start = begin]
    BY <1>1, <1>6 DEF FoldToken, Push
  <2>. HIDE DEF block
  <2>3. /\ C \in Seq(Block) /\ DOMAIN C = 1 .. (last + 1)
        /\ C[last + 1] = block /\ \A i \in DOMAIN B : C[i] = B[i]
    BY <1>1, <1>3, <2>1, AppendIs
  <2>. HIDE DEF C, begin, new
  <2>4. new = [blocks |-> C, start |-> begin]
    BY <1>1, <2>2 DEF C
  <2>5. ToSet(block.text) = {event.id}
    BY <1>3, <2>1 DEF ToSet
  <2>6. DOMAIN C = DOMAIN B \cup {last + 1} /\ last + 1 \notin DOMAIN B /\ last + 1 \in Nat \ {0}
    BY <1>3, <2>3
  <2>7. TextComes(B, C, last + 1, event.id)
    <3>1. ASSUME NEW i \in DOMAIN C, NEW y
          PROVE  Has(C, i, y) <=> (i \in DOMAIN B /\ Has(B, i, y)) \/ (i = last + 1 /\ y = event.id)
      BY <2>1, <2>3, <2>5, <2>6 DEF Has
    <3>. QED BY <1>3, <2>6, <3>1 DEF TextComes
  <2>8. ThoughtsAt(C) = ThoughtsAt(B) /\ \A i \in ThoughtsAt(B) : C[i] = B[i]
    BY <2>1, <2>3, <2>6 DEF ThoughtsAt
  <2>9. begin \in Nat /\ (start = 0 => begin = last + 1) /\ (start # 0 => begin = start)
    BY <1>1, <1>3 DEF begin
  <2>10. FeedThen(new)
    BY <1>4, <2>3, <2>4, <2>6, <2>7, <2>8, <2>9
  <2>. QED BY <1>2, <2>10
<1>. QED BY <1>5, <1>6

\* A turn begins: its text will be a block of its own.
LEMMA TurnStartKeepsFeed ==
  ASSUME AgentInv, AgentInv', FeedInv, NEW event \in Event, log' = Append(log, event),
         event.type = "turn_start"
  PROVE  FeedThen(FoldEvent(feed, Len(log) + 1, event))
<1>. DEFINE B == feed.blocks
            new == FoldEvent(feed, Len(log) + 1, event)
            same == [i \in DOMAIN B |-> i]
<1>1. /\ More(log, log', event) /\ B \in Seq(Block)
      /\ feed = [blocks |-> B, start |-> feed.start]
      /\ TextInv(B, feed.start, log)
      /\ \A i \in ThoughtsAt(B) : \E k \in DOMAIN log :
           log[k].type = "turn_end" /\ log[k].turn = B[i].turn
      /\ InOrder' => \A i \in ThoughtsAt(B) : Placed(B, log, i)
  BY FeedWas
<1>2. new = [blocks |-> B, start |-> 0]
  <2>1. new = [feed EXCEPT !.start = 0]
    BY DEF FoldEvent
  <2>. QED BY <1>1, <2>1
<1>. HIDE DEF B, new
<1>3. LinesOnly(B, B)
  BY <1>1 DEF LinesOnly
<1>4. SameText(B, B, same)
  BY <1>1, <1>3, LinesOnlyIs
<1>5. TextInv(B, 0, log')
  BY <1>1, <1>4, ResetText
<1>6. ASSUME NEW i \in ThoughtsAt(B)
      PROVE  /\ \E k \in DOMAIN log' : log'[k].type = "turn_end" /\ log'[k].turn = B[i].turn
             /\ InOrder' => Placed(B, log', i)
  <2>1. PICK k \in DOMAIN log : log[k].type = "turn_end" /\ log[k].turn = B[i].turn
    BY <1>1
  <2>2. k \in DOMAIN log' /\ log'[k] = log[k]
    BY <1>1 DEF More
  <2>3. i \in DOMAIN B /\ same[i] = i
    BY DEF ThoughtsAt
  <2>. HIDE DEF same
  <2>4. InOrder' => Placed(B, log', same[i])
    BY <1>1, <1>4, <2>1, <2>3, OldThoughtsStay
  <2>. QED BY <2>1, <2>2, <2>3, <2>4
<1>7. FeedThen(new)
  BY <1>1, <1>2, <1>5, <1>6 DEF FeedThen
<1>. QED BY <1>7 DEF new

\* A turn ends: its thoughts come before its text.
LEMMA TurnEndKeepsFeed ==
  ASSUME AgentInv, AgentInv', FeedInv, NEW event \in Event, log' = Append(log, event),
         event.type = "turn_end"
  PROVE  FeedThen(FoldEvent(feed, Len(log) + 1, event))
<1>. DEFINE B == feed.blocks
            start == feed.start
            new == FoldTurnThinking(feed, Len(log) + 1, event)
            block == Thoughts(Len(log) + 1, event)
            at == BeforeText(feed)
            C == IF event.thinking # "none" THEN InsertAt(B, at, block) ELSE B
            n == Len(log) + 1
<1>1. /\ More(log, log', event) /\ n \in Nat /\ B \in Seq(Block) /\ start \in Nat
      /\ feed = [blocks |-> B, start |-> start]
      /\ TextInv(B, start, log)
      /\ \A i \in ThoughtsAt(B) : \E k \in DOMAIN log :
           log[k].type = "turn_end" /\ log[k].turn = B[i].turn
      /\ InOrder' => \A i \in ThoughtsAt(B) : Placed(B, log, i)
  BY FeedWas
<1>2. FoldEvent(feed, Len(log) + 1, event) = new
  BY DEF FoldEvent
<1>3. new = [blocks |-> C, start |-> 0]
  BY DEF FoldTurnThinking
<1>4. n \in DOMAIN log' /\ log'[n] = event /\ event.turn \in Turns
      /\ \A k \in DOMAIN log : k \in DOMAIN log' /\ log'[k] = log[k]
  BY <1>1, EventIs DEF More
<1>5. Len(B) \in Nat /\ DOMAIN B = 1 .. Len(B) /\ \A i \in DOMAIN B : B[i] \in Block
  BY <1>1
<1>6. at \in 1 .. Len(B) + 1 /\ (start # 0 => at = start) /\ (start = 0 => at = Len(B) + 1)
  <2>1. start # 0 => start \in DOMAIN B
    BY <1>1 DEF TextInv
  <2>. QED BY <1>1, <1>5, <2>1 DEF BeforeText
<1>7. block \in Block /\ block.kind = "thinking" /\ block.turn = event.turn
  <2>1. (event.thinking = "blank") \in BOOLEAN
    OBVIOUS
  <2>. QED BY <1>1, <1>4, <2>1 DEF Block, Thoughts
<1>. HIDE DEF B, start, new, at, block, n
<1>8. CASE event.thinking # "none"
  <2>. DEFINE place == [i \in DOMAIN B |-> IF i < at THEN i ELSE i + 1]
  <2>1. /\ C \in Seq(Block) /\ DOMAIN C = 1 .. (Len(B) + 1)
        /\ \A i \in 1 .. at - 1 : C[i] = B[i]
        /\ C[at] = block
        /\ \A i \in at .. Len(B) : C[i + 1] = B[i]
    BY <1>1, <1>6, <1>7, <1>8, Inserted
  <2>. HIDE DEF C
  <2>2. \A i \in DOMAIN B : place[i] \in DOMAIN C /\ place[i] # at /\ C[place[i]] = B[i]
    BY <1>5, <1>6, <2>1
  <2>3. ASSUME NEW j \in DOMAIN C, j # at
        PROVE  \E i \in DOMAIN B : j = place[i]
    <3>1. CASE j < at
      <4>1. j \in DOMAIN B /\ place[j] = j
        BY <1>5, <1>6, <2>1, <3>1
      <4>. QED BY <4>1
    <3>2. CASE j > at
      <4>1. j - 1 \in DOMAIN B /\ place[j - 1] = j
        BY <1>5, <1>6, <2>1, <3>2
      <4>. QED BY <4>1
    <3>. QED BY <1>6, <2>1, <2>3, <3>1, <3>2
  <2>4. \A i, j \in DOMAIN B : i < j => place[i] < place[j]
    BY <1>5, <1>6
  <2>5. place \in [DOMAIN B -> DOMAIN C]
    BY <2>2
  <2>6. /\ \A i \in DOMAIN B : IF i < at THEN place[i] = i ELSE place[i] = i + 1
        /\ start = 0 => \A i \in DOMAIN B : i < at
        /\ at \in Nat /\ at \in DOMAIN C
    BY <1>5, <1>6, <2>1
  <2>. HIDE DEF place
  <2>7. SameText(B, C, place)
    <3>1. \A i \in DOMAIN B : \A x : Has(B, i, x) <=> Has(C, place[i], x)
      BY <2>2 DEF Has
    <3>2. \A j \in DOMAIN C : \A x : Has(C, j, x) => j # at
      BY <1>7, <2>1 DEF Has
    <3>3. DOMAIN B \subseteq Nat /\ DOMAIN C \subseteq Nat
      BY <1>5, <2>1
    <3>. QED BY <2>3, <2>4, <2>5, <3>1, <3>2, <3>3 DEF SameText
  <2>8. TextInv(C, 0, log')
    BY <1>1, <2>7, ResetText
  <2>9. ASSUME NEW j \in ThoughtsAt(C), j # at
        PROVE  /\ \E k \in DOMAIN log' : log'[k].type = "turn_end" /\ log'[k].turn = C[j].turn
               /\ InOrder' => Placed(C, log', j)
    <3>1. PICK i \in DOMAIN B : j = place[i] /\ C[j] = B[i]
      BY <2>2, <2>3, <2>9 DEF ThoughtsAt
    <3>2. i \in ThoughtsAt(B)
      BY <2>9, <3>1 DEF ThoughtsAt
    <3>3. PICK k \in DOMAIN log : log[k].type = "turn_end" /\ log[k].turn = B[i].turn
      BY <1>1, <3>2
    <3>4. InOrder' => Placed(C, log', place[i])
      BY <1>1, <2>7, <3>1, <3>2, <3>3, OldThoughtsStay
    <3>. QED BY <1>4, <3>1, <3>3, <3>4
  <2>10. /\ \E k \in DOMAIN log' : log'[k].type = "turn_end" /\ log'[k].turn = C[at].turn
         /\ InOrder' => Placed(C, log', at)
    <3>1. C[at].turn = event.turn
      BY <1>7, <2>1
    <3>2. InOrder' => Placed(C, log', at)
      BY <1>1, <1>6, <2>6, <2>7, <3>1, NewThoughts
    <3>. QED BY <1>4, <3>1, <3>2
  <2>11. FeedThen(new)
    BY <1>3, <2>1, <2>8, <2>9, <2>10 DEF FeedThen
  <2>. QED BY <1>2, <2>11
<1>9. CASE event.thinking = "none"
  <2>. DEFINE same == [i \in DOMAIN B |-> i]
  <2>1. C = B
    BY <1>9
  <2>2. LinesOnly(B, B)
    BY <1>1 DEF LinesOnly
  <2>3. SameText(B, B, same)
    BY <1>1, <2>2, LinesOnlyIs
  <2>4. TextInv(B, 0, log')
    BY <1>1, <2>3, ResetText
  <2>5. ASSUME NEW i \in ThoughtsAt(B)
        PROVE  /\ \E k \in DOMAIN log' : log'[k].type = "turn_end" /\ log'[k].turn = B[i].turn
               /\ InOrder' => Placed(B, log', i)
    <3>1. PICK k \in DOMAIN log : log[k].type = "turn_end" /\ log[k].turn = B[i].turn
      BY <1>1
    <3>2. i \in DOMAIN B /\ same[i] = i
      BY DEF ThoughtsAt
    <3>. HIDE DEF same
    <3>3. InOrder' => Placed(B, log', same[i])
      BY <1>1, <2>3, <3>1, <3>2, OldThoughtsStay
    <3>. QED BY <1>4, <3>1, <3>2, <3>3
  <2>6. FeedThen(new)
    BY <1>1, <1>3, <2>1, <2>4, <2>5 DEF FeedThen
  <2>. QED BY <1>2, <2>6
<1>. QED BY <1>4, <1>8, <1>9

\* Every step that folds an event into the feed keeps its invariant.
LEMMA FeedKeeps ==
  ASSUME AgentInv, AgentInv', FeedInv, [DisplayNext]_<<concern, vars, views, pageVars>>
  PROVE  FeedInv'
<1>1. CASE log' = log /\ feed' = feed
  BY <1>1 DEF FeedInv, FeedTypes, InOrder
<1>2. CASE Feed
  <2>1. Next /\ Folded
    BY <1>2 DEF Feed
  <2>2. ASSUME NEW event \in Event, log' = Append(log, event),
               feed' = FoldEvent(feed, Len(log) + 1, event)
        PROVE  FeedInv'
    <3>1. FeedThen(feed')
      BY <2>2, EventIs, LinesKeep, TokenKeeps, TurnStartKeepsFeed, TurnEndKeepsFeed
    <3>. QED BY <3>1 DEF FeedThen, FeedInv, FeedTypes
  <2>. QED BY <1>1, <2>1, <2>2, FoldedIs
<1>3. CASE Page \/ UNCHANGED <<concern, vars, views, pageVars>>
  BY <1>1, <1>3 DEF Page, vars, views
<1>. QED BY <1>2, <1>3 DEF DisplayNext

\* What the feed shows of thoughts.
LEMMA FeedShows ==
  ASSUME FeedInv
  PROVE  ThoughtsPrecedeAnswers
<1>. DEFINE B == feed.blocks
<1>1. SUFFICES ASSUME InOrder, NEW i \in DOMAIN B, B[i].kind = "thinking",
                      \A t \in 1 .. B[i].turn - 1 : Logged("turn_end", t) \/ Logged("turn_start", t + 1)
               PROVE  /\ \A j \in TextsOf(B[i].turn) : i < j
                      /\ \A t \in 1 .. B[i].turn - 1 : \A j \in TextsOf(t) : j < i
  BY DEF ThoughtsPrecedeAnswers
<1>2. Placed(B, log, i)
  BY <1>1 DEF FeedInv, ThoughtsAt
<1>3. OverBefore(log, B[i].turn)
  BY <1>1 DEF OverBefore, Logged
<1>4. \A t : \A j \in TextsOf(t) : j \in DOMAIN B /\ TextOf(B, log, t, j)
  <2>1. ASSUME NEW t, NEW j \in TextsOf(t)
        PROVE  j \in DOMAIN B /\ TextOf(B, log, t, j)
    <3>. DEFINE ids == {log[k].id : k \in {k \in DOMAIN log : log[k].type = "token" /\ log[k].turn = t}}
    <3>1. j \in DOMAIN B /\ B[j].kind = "assistant" /\ ids \cap ToSet(B[j].text) # {}
      BY <2>1 DEF TextsOf
    <3>2. PICK x : x \in ids /\ x \in ToSet(B[j].text)
      BY <3>1
    <3>3. PICK k \in DOMAIN log : log[k].type = "token" /\ log[k].turn = t /\ x = log[k].id
      BY <3>2
    <3>. QED BY <3>1, <3>2, <3>3 DEF TextOf, Has
  <2>. QED BY <2>1
<1>. QED BY <1>2, <1>3, <1>4 DEF Placed

-----------------------------------------------------------------------------
(* The lines of calls. *)

\* The event says that a call begins.
Started(e) == e.type = "tool_call" /\ e.status = "running"

\* A call begins once, and only its beginning has its arguments.
CallsInv ==
  /\ \A e, f \in Known : Started(e) /\ Started(f) /\ e.call = f.call => e.id = f.id
  /\ \A e \in Known : e.type = "tool_call" /\ e.args => Started(e)

\* The lines of a kind that the blocks have of a call.
LinesIn(B, kind, call) == {i \in DOMAIN B : B[i].kind = kind /\ B[i].call = call}
\* Where the log has the beginning ...
StartsIn(L, call) == {k \in DOMAIN L : Started(L[k]) /\ L[k].call = call}
\* ... and the end of a call.
EndsIn(L, call) ==
  {k \in DOMAIN L : L[k].type = "tool_call" /\ L[k].call = call /\ L[k].status # "running"}

\* What is shown of a call: one line of a kind at most, one when the log has any of the
\* call, and two only when it began after its end.
LinesInv(B, L) ==
  \A call \in Calls :
    /\ \A kind \in {"tool", "review"} : \A i, j \in LinesIn(B, kind, call) : i = j
    /\ LinesIn(B, "tool", call) \cup LinesIn(B, "review", call) = {} <=>
         StartsIn(L, call) \cup EndsIn(L, call) = {}
    /\ LinesIn(B, "tool", call) # {} /\ LinesIn(B, "review", call) # {} =>
         \E i \in StartsIn(L, call), j \in EndsIn(L, call) : j < i

\* A report adds the event to what is known, or nothing.
LEMMA ReportAdds ==
  ASSUME AgentInv, AgentInv', NEW event, Report(event)
  PROVE  Known' \subseteq Known \cup {event}
<1>1. CASE log' = Append(log, event) /\ UNCHANGED <<late, faults>>
  <2>1. log' \in Seq(Event) /\ log \in Seq(Event)
    BY DEF AgentInv, AgentTypes
  <2>2. Len(log) + 1 \in DOMAIN log' /\ log'[Len(log) + 1] = event
    BY <1>1, <2>1
  <2>3. event \in Event
    BY <2>1, <2>2
  <2>. QED BY <2>3, ReportIs DEF AgentInv
<1>2. CASE Fault("lost") /\ UNCHANGED <<log, late>>
  BY <1>2 DEF Known
<1>3. CASE late = NoEvent /\ late' = event /\ Fault("late") /\ UNCHANGED log
  BY <1>3 DEF Known
<1>. QED BY <1>1, <1>2, <1>3 DEF Report

\* Every step keeps that a call begins once.
LEMMA CallsKeep ==
  ASSUME AgentInv, AgentInv', CallsInv, Next
  PROVE  CallsInv'
<1>1. ASSUME NEW event, Known' \subseteq Known \cup {event},
             Started(event) => \A e \in Known : e.type = "tool_call" => e.call # event.call,
             event.type = "tool_call" /\ event.args => Started(event)
      PROVE  CallsInv'
  BY <1>1 DEF CallsInv, Started
<1>2. ASSUME NEW event, Report(event), event.type # "tool_call"
      PROVE  CallsInv'
  BY <1>1, <1>2, ReportAdds DEF Started
<1>3. CASE Arrive
  <2>1. Known' \subseteq Known
    <3>1. log' = Append(log, late) /\ late \in Event /\ late \in Known /\ log \in Seq(Event)
      BY <1>3, ArriveKeeps, KnownAre DEF Arrive, AgentInv
    <3>2. ToSet(log') = ToSet(log) \cup {late} /\ late' = NoEvent
      BY <1>3, <3>1, AppendIs DEF Arrive
    <3>. QED BY <3>1, <3>2 DEF Known
  <2>. QED BY <2>1 DEF CallsInv
<1>4. CASE Note
  BY <1>2, <1>4 DEF Note
<1>5. CASE TurnStart
  <2>1. CASE UNCHANGED <<log, late>>
    BY <2>1 DEF CallsInv, Known
  <2>2. CASE Report([type |-> "turn_start", id |-> Id, turn |-> agent.turn + 1])
    BY <1>2, <2>2
  <2>. QED BY <1>5, <2>1, <2>2 DEF TurnStart
<1>6. CASE TextDelta
  BY <1>2, <1>6 DEF TextDelta
<1>7. CASE ToolStart
  <2>1. PICK tool \in Tools : ToolCall(Len(agent.calls) + 1, tool, "running")
    BY <1>7 DEF ToolStart
  <2>. DEFINE event == [type |-> "tool_call", id |-> Id, turn |-> agent.turn,
                        call |-> Len(agent.calls) + 1, tool |-> tool, status |-> "running",
                        args |-> "running" = "running"]
  <2>2. Known' \subseteq Known \cup {event}
    BY <2>1, ReportAdds DEF ToolCall
  <2>3. event.call = Len(agent.calls) + 1 /\ Len(agent.calls) \in Nat
    BY DEF AgentInv, AgentTypes, AgentRow
  <2>4. \A e \in Known : e.type = "tool_call" => e.call <= Len(agent.calls) /\ e.call \in Nat
    BY KnownAre, EventIs, BoundsAre DEF AgentInv, ProtocolInv
  <2>5. Started(event)
    BY DEF Started
  <2>. HIDE DEF event
  <2>. QED BY <1>1, <2>2, <2>3, <2>4, <2>5
<1>8. CASE ToolEnd
  <2>1. PICK call \in agent.open : ToolCall(call, agent.calls[call], "ended")
    BY <1>8 DEF ToolEnd
  <2>. DEFINE event == [type |-> "tool_call", id |-> Id, turn |-> agent.turn, call |-> call,
                        tool |-> agent.calls[call], status |-> "ended",
                        args |-> "ended" = "running"]
  <2>2. Known' \subseteq Known \cup {event}
    BY <2>1, ReportAdds DEF ToolCall
  <2>3. ~Started(event) /\ ~event.args
    BY DEF Started
  <2>. HIDE DEF event
  <2>. QED BY <1>1, <2>2, <2>3
<1>9. CASE TurnEnd
  BY <1>2, <1>9 DEF TurnEnd
<1>10. CASE ReportStatus
  BY <1>2, <1>10 DEF ReportStatus
<1>. QED BY <1>3, <1>4, <1>5, <1>6, <1>7, <1>8, <1>9, <1>10 DEF Next

\* The lines are the same, though perhaps at other places.
SameLines(B, C, place) ==
  /\ place \in [DOMAIN B -> DOMAIN C]
  /\ \A i, j \in DOMAIN B : place[i] = place[j] => i = j
  /\ \A kind \in {"tool", "review"}, call \in Calls :
       /\ \A i \in DOMAIN B : i \in LinesIn(B, kind, call) <=> place[i] \in LinesIn(C, kind, call)
       /\ \A j \in LinesIn(C, kind, call) : \E i \in DOMAIN B : j = place[i]

\* An event that is not of a call changes nothing about the lines.
LEMMA LinesStay ==
  ASSUME NEW L, NEW M, NEW e, More(L, M, e), e.type # "tool_call",
         NEW B, NEW C, NEW place, SameLines(B, C, place), LinesInv(B, L)
  PROVE  LinesInv(C, M)
<1>1. \A call \in Calls : StartsIn(M, call) = StartsIn(L, call) /\ EndsIn(M, call) = EndsIn(L, call)
  BY DEF StartsIn, EndsIn, Started, More
<1>2. ASSUME NEW call \in Calls, NEW kind \in {"tool", "review"}
      PROVE  /\ \A i, j \in LinesIn(C, kind, call) : i = j
             /\ LinesIn(C, kind, call) = {} <=> LinesIn(B, kind, call) = {}
  <2>1. \A j \in LinesIn(C, kind, call) : \E i \in LinesIn(B, kind, call) : j = place[i]
    BY DEF SameLines
  <2>2. \A i \in LinesIn(B, kind, call) : place[i] \in LinesIn(C, kind, call)
    BY DEF SameLines, LinesIn
  <2>3. \A i, j \in LinesIn(B, kind, call) : i = j
    BY DEF LinesInv
  <2>4. \A i, j \in LinesIn(C, kind, call) : i = j
    BY <2>1, <2>3
  <2>. QED BY <2>1, <2>2, <2>4
<1>3. ASSUME NEW call \in Calls
      PROVE  /\ \A kind \in {"tool", "review"} : \A i, j \in LinesIn(C, kind, call) : i = j
             /\ LinesIn(C, "tool", call) \cup LinesIn(C, "review", call) = {} <=>
                  StartsIn(M, call) \cup EndsIn(M, call) = {}
             /\ LinesIn(C, "tool", call) # {} /\ LinesIn(C, "review", call) # {} =>
                  \E i \in StartsIn(M, call), j \in EndsIn(M, call) : j < i
  <2>1. /\ LinesIn(C, "tool", call) = {} <=> LinesIn(B, "tool", call) = {}
        /\ LinesIn(C, "review", call) = {} <=> LinesIn(B, "review", call) = {}
        /\ \A kind \in {"tool", "review"} : \A i, j \in LinesIn(C, kind, call) : i = j
    BY <1>2
  <2>2. /\ LinesIn(B, "tool", call) \cup LinesIn(B, "review", call) = {} <=>
             StartsIn(L, call) \cup EndsIn(L, call) = {}
        /\ LinesIn(B, "tool", call) # {} /\ LinesIn(B, "review", call) # {} =>
             \E i \in StartsIn(L, call), j \in EndsIn(L, call) : j < i
    BY DEF LinesInv
  <2>. QED BY <1>1, <2>1, <2>2
<1>. QED BY <1>3 DEF LinesInv

\* A block that is no line is added, ...
LEMMA AddedLines ==
  ASSUME NEW B \in Seq(Block), NEW b \in Block, b.kind \notin {"tool", "review"}
  PROVE  SameLines(B, Append(B, b), [i \in DOMAIN B |-> i])
<1>. DEFINE C == Append(B, b)
            place == [i \in DOMAIN B |-> i]
<1>1. /\ DOMAIN B = 1 .. Len(B) /\ Len(B) \in Nat /\ DOMAIN C = 1 .. (Len(B) + 1)
      /\ \A i \in DOMAIN B : C[i] = B[i]
      /\ C[Len(B) + 1] = b
  BY AppendIs
<1>. HIDE DEF C
<1>2. place \in [DOMAIN B -> DOMAIN C] /\ \A i \in DOMAIN B : place[i] = i
  BY <1>1
<1>. HIDE DEF place
<1>3. ASSUME NEW kind \in {"tool", "review"}, NEW call \in Calls
      PROVE  LinesIn(C, kind, call) = LinesIn(B, kind, call)
  BY <1>1 DEF LinesIn
<1>4. SameLines(B, C, place)
  BY <1>2, <1>3 DEF SameLines, LinesIn
<1>. QED BY <1>4 DEF C, place

\* ... changes, ...
LEMMA ChangedLines ==
  ASSUME NEW B \in Seq(Block), NEW at \in DOMAIN B, B[at].kind \notin {"tool", "review"},
         NEW row, row.kind \notin {"tool", "review"}
  PROVE  SameLines(B, [B EXCEPT ![at] = row], [i \in DOMAIN B |-> i])
<1>. DEFINE C == [B EXCEPT ![at] = row]
            place == [i \in DOMAIN B |-> i]
<1>1. /\ DOMAIN C = DOMAIN B
      /\ \A i \in DOMAIN B : i # at => C[i] = B[i]
      /\ C[at] = row
  OBVIOUS
<1>. HIDE DEF C
<1>2. place \in [DOMAIN B -> DOMAIN C] /\ \A i \in DOMAIN B : place[i] = i
  BY <1>1
<1>. HIDE DEF place
<1>3. ASSUME NEW kind \in {"tool", "review"}, NEW call \in Calls
      PROVE  LinesIn(C, kind, call) = LinesIn(B, kind, call)
  BY <1>1 DEF LinesIn
<1>4. SameLines(B, C, place)
  BY <1>2, <1>3 DEF SameLines, LinesIn
<1>. QED BY <1>4 DEF C, place

\* ... or comes in between.
LEMMA ShiftedLines ==
  ASSUME NEW B \in Seq(Block), NEW at \in 1 .. Len(B) + 1, NEW b \in Block,
         b.kind \notin {"tool", "review"}
  PROVE  \E place : SameLines(B, InsertAt(B, at, b), place)
<1>. DEFINE C == InsertAt(B, at, b)
            place == [i \in DOMAIN B |-> IF i < at THEN i ELSE i + 1]
<1>1. /\ DOMAIN C = 1 .. (Len(B) + 1) /\ Len(B) \in Nat /\ DOMAIN B = 1 .. Len(B)
      /\ \A i \in 1 .. at - 1 : C[i] = B[i]
      /\ C[at] = b
      /\ \A i \in at .. Len(B) : C[i + 1] = B[i]
  BY Inserted
<1>. HIDE DEF C
<1>2. \A i \in DOMAIN B : place[i] \in DOMAIN C /\ place[i] # at /\ C[place[i]] = B[i]
  BY <1>1
<1>3. ASSUME NEW j \in DOMAIN C, j # at
      PROVE  \E i \in DOMAIN B : j = place[i]
  <2>1. CASE j < at
    <3>1. j \in DOMAIN B /\ place[j] = j
      BY <1>1, <2>1
    <3>. QED BY <3>1
  <2>2. CASE j > at
    <3>1. j - 1 \in DOMAIN B /\ place[j - 1] = j
      BY <1>1, <2>2
    <3>. QED BY <3>1
  <2>. QED BY <1>1, <1>3, <2>1, <2>2
<1>4. \A i, j \in DOMAIN B : place[i] = place[j] => i = j
  BY <1>1
<1>5. place \in [DOMAIN B -> DOMAIN C]
  BY <1>2
<1>. HIDE DEF place
<1>6. ASSUME NEW kind \in {"tool", "review"}, NEW call \in Calls
      PROVE  /\ \A i \in DOMAIN B : i \in LinesIn(B, kind, call) <=> place[i] \in LinesIn(C, kind, call)
             /\ \A j \in LinesIn(C, kind, call) : \E i \in DOMAIN B : j = place[i]
  <2>1. \A i \in DOMAIN B : i \in LinesIn(B, kind, call) <=> place[i] \in LinesIn(C, kind, call)
    BY <1>2 DEF LinesIn
  <2>2. \A j \in LinesIn(C, kind, call) : j # at /\ j \in DOMAIN C
    BY <1>1 DEF LinesIn
  <2>. QED BY <1>3, <2>1, <2>2
<1>7. SameLines(B, C, place)
  BY <1>4, <1>5, <1>6 DEF SameLines
<1>. QED BY <1>7 DEF C

\* A call's line is added.
LEMMA LinePushed ==
  ASSUME NEW B \in Seq(Block), NEW b \in Block, b.kind \in {"tool", "review"}
  PROVE  \A kind, call :
           LinesIn(Append(B, b), kind, call) =
             IF kind = b.kind /\ call = b.call THEN LinesIn(B, kind, call) \cup {Len(B) + 1}
             ELSE LinesIn(B, kind, call)
<1>. DEFINE C == Append(B, b)
<1>1. /\ DOMAIN B = 1 .. Len(B) /\ Len(B) \in Nat /\ DOMAIN C = 1 .. (Len(B) + 1)
      /\ \A i \in DOMAIN B : C[i] = B[i]
      /\ C[Len(B) + 1] = b
  BY AppendIs
<1>. HIDE DEF C
<1>2. DOMAIN C = DOMAIN B \cup {Len(B) + 1}
  BY <1>1
<1>3. ASSUME NEW kind, NEW call
      PROVE  LinesIn(C, kind, call) =
               IF kind = b.kind /\ call = b.call THEN LinesIn(B, kind, call) \cup {Len(B) + 1}
               ELSE LinesIn(B, kind, call)
  BY <1>1, <1>2 DEF LinesIn
<1>. QED BY <1>3 DEF C

\* An event of a call changes its line, or is one.
LEMMA CallLines ==
  ASSUME FeedTypes, NEW event \in Event, event.type = "tool_call", NEW M, More(log, M, event),
         Started(event) => StartsIn(log, event.call) = {}, event.args => Started(event),
         LinesInv(feed.blocks, log)
  PROVE  LinesInv(FoldTool(feed, event).blocks, M)
<1>. DEFINE B == feed.blocks
            C == FoldTool(feed, event).blocks
            n == Len(log) + 1
            own == event.call
            reviews == LinesOf(feed, "review", own)
            tools   == LinesOf(feed, "tool", own)
<1>1. /\ B \in Seq(Block) /\ feed = [blocks |-> feed.blocks, start |-> feed.start]
      /\ own \in Calls /\ event.tool \in Tools /\ event.args \in BOOLEAN
      /\ event.status \in {"running", "ended"}
  BY EventIs DEF FeedTypes
<1>2. reviews = LinesIn(B, "review", own) /\ tools = LinesIn(B, "tool", own)
  BY DEF LinesOf, LinesIn
<1>3. /\ n \in DOMAIN M /\ M[n] = event /\ n \in Nat /\ \A k \in DOMAIN log : k < n
      /\ \A k \in DOMAIN log : k \in DOMAIN M /\ M[k] = log[k]
      /\ \A k \in DOMAIN M : k # n => k \in DOMAIN log
  BY DEF More
<1>4. \A call : /\ StartsIn(log, call) \subseteq StartsIn(M, call)
                /\ EndsIn(log, call) \subseteq EndsIn(M, call)
                /\ call # own => StartsIn(M, call) = StartsIn(log, call)
                                 /\ EndsIn(M, call) = EndsIn(log, call)
  BY <1>3 DEF StartsIn, EndsIn, Started
<1>5. /\ StartsIn(M, own) \cup EndsIn(M, own) # {}
      /\ Started(event) => n \in StartsIn(M, own)
  BY <1>1, <1>3 DEF StartsIn, EndsIn, Started
<1>. HIDE DEF n, own, reviews, tools, B
<1>6. \A call \in Calls :
        /\ \A kind \in {"tool", "review"} : \A i, j \in LinesIn(B, kind, call) : i = j
        /\ LinesIn(B, "tool", call) \cup LinesIn(B, "review", call) = {} <=>
             StartsIn(log, call) \cup EndsIn(log, call) = {}
        /\ LinesIn(B, "tool", call) # {} /\ LinesIn(B, "review", call) # {} =>
             \E i \in StartsIn(log, call), j \in EndsIn(log, call) : j < i
  BY DEF LinesInv, B
<1>7. ASSUME tools # {} \/ reviews # {},
             \A kind \in {"tool", "review"}, call \in Calls :
               LinesIn(C, kind, call) = LinesIn(B, kind, call)
      PROVE  LinesInv(C, M)
  <2>. HIDE DEF C
  <2>1. ASSUME NEW call \in Calls
        PROVE  /\ \A kind \in {"tool", "review"} : \A i, j \in LinesIn(C, kind, call) : i = j
               /\ LinesIn(C, "tool", call) \cup LinesIn(C, "review", call) = {} <=>
                    StartsIn(M, call) \cup EndsIn(M, call) = {}
               /\ LinesIn(C, "tool", call) # {} /\ LinesIn(C, "review", call) # {} =>
                    \E i \in StartsIn(M, call), j \in EndsIn(M, call) : j < i
    <3>1. /\ LinesIn(C, "tool", call) = LinesIn(B, "tool", call)
          /\ LinesIn(C, "review", call) = LinesIn(B, "review", call)
      BY <1>7
    <3>2. \A kind \in {"tool", "review"} : \A i, j \in LinesIn(C, kind, call) : i = j
      BY <1>6, <1>7
    <3>3. LinesIn(C, "tool", call) \cup LinesIn(C, "review", call) = {} <=>
            StartsIn(M, call) \cup EndsIn(M, call) = {}
      BY <1>2, <1>4, <1>5, <1>6, <1>7, <3>1
    <3>4. LinesIn(C, "tool", call) # {} /\ LinesIn(C, "review", call) # {} =>
            \E i \in StartsIn(M, call), j \in EndsIn(M, call) : j < i
      BY <1>4, <1>6, <3>1
    <3>. QED BY <3>2, <3>3, <3>4
  <2>. QED BY <2>1 DEF LinesInv
<1>8. ASSUME NEW lines, lines = tools \/ lines = reviews, lines # {},
             FoldTool(feed, event) = Updated(feed, lines, event)
      PROVE  LinesInv(C, M)
  <2>1. \A i \in lines : feed.blocks[i].kind \in {"tool", "review"}
    BY <1>2, <1>8 DEF LinesIn, B
  <2>2. /\ LinesOnly(B, C) /\ DOMAIN C = DOMAIN B
        /\ \A i \in DOMAIN B : B[i].kind \in {"tool", "review"} => C[i].call = B[i].call
    BY <1>1, <1>8, <2>1, LineChanged DEF B
  <2>. HIDE DEF C
  <2>3. \A i \in DOMAIN B : C[i].kind = B[i].kind
    BY <2>2 DEF LinesOnly
  <2>4. \A kind \in {"tool", "review"}, call \in Calls :
          LinesIn(C, kind, call) = LinesIn(B, kind, call)
    BY <2>2, <2>3 DEF LinesIn
  <2>5. tools # {} \/ reviews # {}
    BY <1>8
  <2>. QED BY <1>7, <2>4, <2>5 DEF C
<1>9. ASSUME NEW kind \in {"tool", "review"}, LinesIn(B, kind, own) = {},
             FoldTool(feed, event) = Push(feed, Line(kind, event)),
             kind = "tool" => LinesIn(B, "review", own) = {},
             kind = "review" => Started(event)
      PROVE  LinesInv(C, M)
  <2>. DEFINE b == Line(kind, event)
  <2>1. b \in Block /\ b.kind = kind /\ b.call = own
    BY <1>1 DEF Line, Block, own
  <2>2. C = Append(B, b)
    BY <1>1, <1>9 DEF Push, B
  <2>. HIDE DEF b, C
  <2>3. \A k \in {"tool", "review"}, call \in Calls :
          LinesIn(C, k, call) = IF k = kind /\ call = own THEN LinesIn(B, k, call) \cup {Len(B) + 1}
                                ELSE LinesIn(B, k, call)
    BY <1>1, <2>1, <2>2, LinePushed
  <2>4. LinesIn(C, kind, own) = {Len(B) + 1}
    BY <1>1, <1>9, <2>3
  <2>5. ASSUME NEW call \in Calls, call # own
        PROVE  /\ \A k \in {"tool", "review"} : \A i, j \in LinesIn(C, k, call) : i = j
               /\ LinesIn(C, "tool", call) \cup LinesIn(C, "review", call) = {} <=>
                    StartsIn(M, call) \cup EndsIn(M, call) = {}
               /\ LinesIn(C, "tool", call) # {} /\ LinesIn(C, "review", call) # {} =>
                    \E i \in StartsIn(M, call), j \in EndsIn(M, call) : j < i
    <3>1. \A k \in {"tool", "review"} : LinesIn(C, k, call) = LinesIn(B, k, call)
      BY <2>3, <2>5
    <3>. QED BY <1>4, <1>6, <2>5, <3>1
  <2>6. \A k \in {"tool", "review"} : \A i, j \in LinesIn(C, k, own) : i = j
    BY <1>1, <1>6, <2>3, <2>4
  <2>7. LinesIn(C, "tool", own) \cup LinesIn(C, "review", own) # {}
    BY <2>4
  <2>8. ASSUME LinesIn(C, "tool", own) # {}, LinesIn(C, "review", own) # {}
        PROVE  \E i \in StartsIn(M, own), j \in EndsIn(M, own) : j < i
    <3>1. CASE kind = "tool"
      <4>1. LinesIn(C, "review", own) = LinesIn(B, "review", own)
        BY <1>1, <2>3, <3>1
      <4>. QED BY <1>9, <2>8, <3>1, <4>1
    <3>2. CASE kind = "review"
      <4>1. LinesIn(B, "tool", own) # {}
        BY <1>1, <2>3, <2>8, <3>2
      <4>2. StartsIn(log, own) = {}
        BY <1>9, <3>2 DEF own
      <4>3. PICK j : j \in EndsIn(log, own)
        BY <1>1, <1>6, <4>1, <4>2
      <4>4. j \in EndsIn(M, own) /\ j < n
        BY <1>3, <1>4, <4>3 DEF EndsIn
      <4>. QED BY <1>5, <1>9, <3>2, <4>4
    <3>. QED BY <3>1, <3>2
  <2>. QED BY <1>5, <2>5, <2>6, <2>7, <2>8 DEF LinesInv
<1>10. CASE reviews # {}
  BY <1>8, <1>10 DEF FoldTool, reviews, own
<1>11. CASE reviews = {} /\ IsReview(event)
  <2>1. FoldTool(feed, event) = Push(feed, Line("review", event))
    BY <1>11 DEF FoldTool, reviews, own
  <2>2. Started(event)
    BY <1>11 DEF IsReview
  <2>. QED BY <1>2, <1>9, <1>11, <2>1, <2>2
<1>12. CASE reviews = {} /\ ~IsReview(event) /\ tools # {}
  BY <1>8, <1>12 DEF FoldTool, reviews, tools, own
<1>13. CASE reviews = {} /\ ~IsReview(event) /\ tools = {}
  <2>1. FoldTool(feed, event) = Push(feed, Line("tool", event))
    BY <1>13 DEF FoldTool, reviews, tools, own
  <2>. QED BY <1>2, <1>9, <1>13, <2>1
<1>. QED BY <1>10, <1>11, <1>12, <1>13

\* The lines after an event.
LEMMA LinesAfter ==
  ASSUME AgentInv, AgentInv', FeedTypes, CallsInv', LinesInv(feed.blocks, log),
         NEW event \in Event, log' = Append(log, event),
         feed.start # 0 => feed.start \in DOMAIN feed.blocks,
         NEW seq, seq = Len(log) + 1, NEW B, B = feed.blocks,
         NEW C, C = FoldEvent(feed, seq, event).blocks
  PROVE  LinesInv(C, log')
<1>1. /\ More(log, log', event) /\ seq \in Nat /\ B \in Seq(Block)
      /\ feed = [blocks |-> B, start |-> feed.start] /\ feed.start \in Nat
      /\ Len(B) \in Nat /\ DOMAIN B = 1 .. Len(B)
  BY MoreIs DEF FeedTypes, More
<1>2. ASSUME NEW place, SameLines(B, C, place), event.type # "tool_call"
      PROVE  LinesInv(C, log')
  BY <1>1, <1>2, LinesStay
<1>3. SameLines(B, B, [i \in DOMAIN B |-> i])
  BY DEF SameLines, LinesIn
<1>4. CASE event.type = "tool_call"
  <2>1. C = FoldTool(feed, event).blocks
    BY <1>4 DEF FoldEvent
  <2>2. /\ seq \in DOMAIN log' /\ log'[seq] = event
        /\ \A k \in DOMAIN log : k \in DOMAIN log' /\ log'[k] = log[k] /\ log[k].id # event.id
    BY <1>1 DEF More
  <2>3. event \in Known' /\ \A k \in DOMAIN log : log[k] \in Known'
    BY <2>2 DEF Known, ToSet
  <2>4. Started(event) => StartsIn(log, event.call) = {}
    BY <2>2, <2>3 DEF CallsInv, StartsIn
  <2>5. event.args => Started(event)
    BY <1>4, <2>3 DEF CallsInv
  <2>. QED BY <1>1, <1>4, <2>1, <2>4, <2>5, CallLines
<1>5. CASE event.type = "token"
  <2>. DEFINE last == Len(B)
              row == Longer(B[last], event)
              block == [key |-> <<"assistant", seq>>, kind |-> "assistant", text |-> <<event.id>>,
                        blank |-> event.blank]
  <2>1. C = FoldToken(feed, seq, event).blocks
    BY <1>5 DEF FoldEvent
  <2>2. CASE last > 0 /\ B[last].kind = "assistant" /\ feed.start # 0
    <3>1. C = [B EXCEPT ![last] = row]
      BY <1>1, <2>1, <2>2 DEF FoldToken
    <3>2. last \in DOMAIN B /\ B[last] \in Block
      BY <1>1, <2>2
    <3>3. row.kind = "assistant"
      BY <1>5, <2>2, <3>2, PieceAdded
    <3>4. B[last].kind \notin {"tool", "review"} /\ row.kind \notin {"tool", "review"}
      BY <2>2, <3>3
    <3>. HIDE DEF row, last
    <3>5. SameLines(B, C, [i \in DOMAIN B |-> i])
      <4>1. ASSUME NEW at \in DOMAIN B, NEW changed, B[at].kind \notin {"tool", "review"},
                   changed.kind \notin {"tool", "review"}, C = [B EXCEPT ![at] = changed]
            PROVE  SameLines(B, C, [i \in DOMAIN B |-> i])
        <5>1. SameLines(B, [B EXCEPT ![at] = changed], [i \in DOMAIN B |-> i])
          BY <1>1, <4>1, ChangedLines, Zenon
        <5>. QED BY <4>1, <5>1
      <4>. QED BY <3>1, <3>2, <3>4, <4>1, Zenon
    <3>. QED BY <1>2, <1>5, <3>5
  <2>3. CASE ~(last > 0 /\ B[last].kind = "assistant" /\ feed.start # 0)
    <3>1. C = Append(B, block)
      BY <1>1, <2>1, <2>3 DEF FoldToken, Push
    <3>2. block \in Block /\ block.kind = "assistant"
      <4>1. event.blank \in BOOLEAN /\ <<event.id>> \in Seq(Nat)
        BY <1>5, EventIs
      <4>. QED BY <1>1, <4>1 DEF Block
    <3>. HIDE DEF block
    <3>. QED BY <1>1, <1>2, <1>5, <3>1, <3>2, AddedLines
  <2>. QED BY <2>2, <2>3
<1>6. CASE event.type = "turn_end"
  <2>. DEFINE block == Thoughts(seq, event)
              at == BeforeText(feed)
  <2>1. C = IF event.thinking # "none" THEN InsertAt(B, at, block) ELSE B
    BY <1>6 DEF FoldEvent, FoldTurnThinking
  <2>2. block \in Block /\ block.kind = "thinking"
    <3>1. (event.thinking = "blank") \in BOOLEAN
      OBVIOUS
    <3>. QED BY <1>1, <1>6, <3>1, EventIs DEF Block, Thoughts
  <2>3. at \in 1 .. Len(B) + 1
    BY <1>1 DEF BeforeText
  <2>. HIDE DEF block, at
  <2>4. CASE event.thinking # "none"
    <3>1. PICK place : SameLines(B, C, place)
      BY <1>1, <2>1, <2>2, <2>3, <2>4, ShiftedLines
    <3>. QED BY <1>2, <1>6, <3>1
  <2>5. CASE event.thinking = "none"
    BY <1>2, <1>3, <1>6, <2>1, <2>5
  <2>. QED BY <2>4, <2>5
<1>7. CASE event.type = "turn_start"
  <2>1. C = B
    BY <1>1, <1>7 DEF FoldEvent
  <2>. QED BY <1>2, <1>3, <1>7, <2>1
<1>8. CASE event.type = "note"
  <2>. DEFINE block == [key |-> <<"log", seq>>, kind |-> "log"]
  <2>1. C = Append(B, block)
    BY <1>1, <1>8 DEF FoldEvent, Push
  <2>2. block \in Block /\ block.kind = "log"
    BY <1>1 DEF Block
  <2>. HIDE DEF block
  <2>. QED BY <1>1, <1>2, <1>8, <2>1, <2>2, AddedLines
<1>9. CASE event.type = "status"
  <2>. DEFINE block == [key |-> <<"status", seq>>, kind |-> "status"]
  <2>1. C = FoldStatus(feed, seq, event).blocks
    BY <1>9 DEF FoldEvent
  <2>2. C = B \/ C = Append(B, block)
    BY <1>1, <2>1 DEF FoldStatus, Push
  <2>3. block \in Block /\ block.kind = "status"
    BY <1>1 DEF Block
  <2>. HIDE DEF block
  <2>. QED BY <1>1, <1>2, <1>3, <1>9, <2>2, <2>3, AddedLines
<1>10. event.type \in {"token", "tool_call", "turn_start", "turn_end", "note", "status"}
  BY EventIs
<1>. QED BY <1>4, <1>5, <1>6, <1>7, <1>8, <1>9, <1>10

\* The invariant of the lines.
LinesHold == CallsInv /\ LinesInv(feed.blocks, log)

\* An empty log has no calls and an empty feed no lines.
LEMMA LinesStart ==
  ASSUME DisplayInit
  PROVE  LinesHold
<1>1. feed.blocks = << >> /\ log = << >> /\ late = NoEvent
  BY DEF DisplayInit, ViewsInit, EmptyFeed, Init
<1>2. Known = {} /\ DOMAIN << >> = {}
  BY <1>1 DEF Known, ToSet
<1>. QED BY <1>1, <1>2 DEF LinesHold, CallsInv, LinesInv, LinesIn, StartsIn, EndsIn

\* Every step keeps the invariant of the lines.
LEMMA LinesHoldOn ==
  ASSUME AgentInv, AgentInv', FeedInv, LinesHold,
         [DisplayNext]_<<concern, vars, views, pageVars>>
  PROVE  LinesHold'
<1>1. CASE Feed
  <2>1. Next /\ Folded
    BY <1>1 DEF Feed
  <2>2. CallsInv'
    BY <2>1, CallsKeep DEF LinesHold
  <2>3. CASE log' = log /\ feed' = feed
    BY <2>2, <2>3 DEF LinesHold
  <2>4. ASSUME NEW event \in Event, log' = Append(log, event),
               feed' = FoldEvent(feed, Len(log) + 1, event)
        PROVE  LinesHold'
    <3>1. FeedTypes /\ (feed.start # 0 => feed.start \in DOMAIN feed.blocks)
      BY DEF FeedInv, TextInv
    <3>2. LinesInv(FoldEvent(feed, Len(log) + 1, event).blocks, log')
      BY <2>2, <2>4, <3>1, LinesAfter DEF LinesHold
    <3>. QED BY <2>2, <2>4, <3>2 DEF LinesHold
  <2>. QED BY <2>1, <2>3, <2>4, FoldedIs
<1>2. CASE Page \/ UNCHANGED <<concern, vars, views, pageVars>>
  BY <1>2 DEF Page, vars, views, LinesHold, CallsInv, Known
<1>. QED BY <1>1, <1>2 DEF DisplayNext

\* What the lines show of the calls.
LEMMA LinesShow ==
  ASSUME LinesHold
  PROVE  CallsAreShown
<1>1. ASSUME NEW call \in Calls
      PROVE  LET lines == Cardinality(LinesOfCall(call)) IN
             IF Starts(call) \cup Ends(call) = {} THEN lines = 0
             ELSE \/ lines = 1
                  \/ lines = 2 /\ \E i \in Starts(call), j \in Ends(call) : j < i
  <2>. DEFINE tools == LinesIn(feed.blocks, "tool", call)
              reviews == LinesIn(feed.blocks, "review", call)
  <2>1. LinesOfCall(call) = tools \cup reviews
    BY DEF LinesOfCall, LinesOf, LinesIn
  <2>2. Starts(call) = StartsIn(log, call) /\ Ends(call) = EndsIn(log, call)
    BY DEF Starts, Ends, StartsIn, EndsIn, Started
  <2>3. /\ \A i, j \in tools : i = j
        /\ \A i, j \in reviews : i = j
        /\ tools \cup reviews = {} <=> Starts(call) \cup Ends(call) = {}
        /\ tools # {} /\ reviews # {} => \E i \in Starts(call), j \in Ends(call) : j < i
    BY <2>2 DEF LinesHold, LinesInv
  <2>4. \A i \in tools : i \notin reviews
    BY DEF LinesIn
  <2>. HIDE DEF tools, reviews
  <2>5. CASE tools = {} /\ reviews = {}
    BY <2>1, <2>3, <2>5, FS_EmptySet
  <2>6. ASSUME NEW one, tools \cup reviews = {one}
        PROVE  Cardinality(LinesOfCall(call)) = 1
    BY <2>1, <2>6, FS_Singleton
  <2>7. CASE tools # {} /\ reviews = {}
    <3>1. \E one : tools \cup reviews = {one}
      BY <2>3, <2>7
    <3>. QED BY <2>3, <2>6, <2>7, <3>1
  <2>8. CASE tools = {} /\ reviews # {}
    <3>1. \E one : tools \cup reviews = {one}
      BY <2>3, <2>8
    <3>. QED BY <2>3, <2>6, <2>8, <3>1
  <2>9. CASE tools # {} /\ reviews # {}
    <3>1. PICK one, other : tools = {one} /\ reviews = {other} /\ one # other
      BY <2>3, <2>4, <2>9
    <3>2. IsFiniteSet({one}) /\ Cardinality({one}) = 1
      BY FS_Singleton
    <3>3. Cardinality({one} \cup {other}) = 2
      BY <3>1, <3>2, FS_AddElement
    <3>. QED BY <2>1, <2>3, <2>9, <3>1, <3>3
  <2>. QED BY <2>5, <2>7, <2>8, <2>9
<1>. QED BY <1>1 DEF CallsAreShown

\* The text of the feed is that of the log, piece by piece, and thoughts are where they belong,
\* whatever was lost or came late (foldToken, foldTurnThinking).
THEOREM FeedHolds == DisplaySpec => []FeedInv
<1>1. DisplayInit => FeedInv
  BY FeedStarts
<1>2. AgentInv /\ AgentInv' /\ FeedInv /\ [DisplayNext]_<<concern, vars, views, pageVars>> => FeedInv'
  BY FeedKeeps
<1>. QED BY <1>1, <1>2, AgentHolds, PTL DEF DisplaySpec, DisplayNext

\* Every call that the log tells of has its line in the feed, and no other; two, one of a tool
\* and one of a review, only if it began behind its end (foldTool).
THEOREM CallsHaveTheirLines == DisplaySpec => []CallsAreShown
<1>1. DisplayInit => LinesHold
  BY LinesStart
<1>2. AgentInv /\ AgentInv' /\ FeedInv /\ LinesHold
        /\ [DisplayNext]_<<concern, vars, views, pageVars>> => LinesHold'
  BY LinesHoldOn
<1>3. LinesHold => CallsAreShown
  BY LinesShow
<1>. QED BY <1>1, <1>2, <1>3, AgentHolds, FeedHolds, PTL DEF DisplaySpec, DisplayNext

\* The thoughts of a turn come before its answer and behind those before it, when the log is
\* in order (foldTurnThinking).
THEOREM ThoughtsComeFirst == DisplaySpec => []ThoughtsPrecedeAnswers
<1>1. FeedInv => ThoughtsPrecedeAnswers
  BY FeedShows
<1>. QED BY <1>1, FeedHolds, PTL
=============================================================================
