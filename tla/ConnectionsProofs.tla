-------------------------- MODULE ConnectionsProofs --------------------------
(***************************************************************************)
(* Proofs about Connections, for any number of sign-ins, runs, users,      *)
(* flows, requests, tries and faults.                                      *)
(*                                                                         *)
(* Of the model connections the inductive invariant says who has which     *)
(* credential.  A turn that refreshed its own either finds it in the row,  *)
(* or has the newest one, which alone will replace what the row has:       *)
(* whatever else was given to runs is older (Ahead).                       *)
(*                                                                         *)
(* Of the services it says that a connection, and every copy a request     *)
(* has of one, comes from a flow which one request took and saved, for the *)
(* user who owns it (Backed); that a grant has one row (IdInv); and that   *)
(* with a provider that rotates, a request with a newer token than the     *)
(* row's is alone with it (WriteInv).                                      *)
(***************************************************************************)
EXTENDS Connections, TLAPS

-----------------------------------------------------------------------------
(* The invariants of the model connections. *)

\* A sign-in has no row before it has stored one, and a dialog that is open
\* follows one in memory.
SignInInv == \A f \in Flows :
  /\ flow[f].phase \in {"idle", "login", "authorized", "found"} => connection[f].state = "none"
  /\ dialog[f] = "open" => flow[f].phase \in InMemory
  /\ dialog[f] = "asked" => flow[f].phase # "idle"

\* A row holds a credential of its own sign-in, which is no newer than the
\* newest.
RowInv == \A f \in Flows :
  connection[f].state # "none" =>
    /\ connection[f].grant = f
    /\ connection[f].version <= refreshed[f]

\* A turn that has a connection, a run that was submitted with it, and one that
\* was given its credential.
Chosen == {"chosen", "queued", "working", "reporting", "done"}
Submitted == {"queued", "working", "reporting", "done"}
Running == {"working", "reporting", "done"}

\* A turn's connection is its grant. What it was given is no newer than what the
\* row has, and what it has is no older than what it was given and no newer than
\* the newest.
TurnInv == \A r \in Runs :
  /\ turn[r].connection = turn[r].grant
  /\ turn[r].phase \in Chosen => turn[r].connection \in Flows
  /\ turn[r].connection \in Flows =>
       /\ connection[turn[r].connection].state # "none"
       /\ turn[r].held <= connection[turn[r].connection].version
       /\ turn[r].held <= turn[r].file
       /\ turn[r].file <= refreshed[turn[r].connection]
  /\ turn[r].phase \in Submitted => Stored(turn[r].connection)
  /\ turn[r].phase \in {"none", "chosen", "queued"} => turn[r].held = 0 /\ turn[r].file = 0
  /\ Pending(r) => turn[r].phase \in {"reporting", "done"}

\* What a turn that refreshed its credential has is in the row, or is the only
\* copy of the newest one, which the row will take.
Ahead(r) ==
  turn[r].phase \in Running /\ turn[r].held # turn[r].file =>
    LET i == turn[r].connection IN
    \/ connection[i].version >= turn[r].file /\ turn[r].phase # "working"
    \/ /\ connection[i].version = turn[r].held
       /\ turn[r].file = refreshed[i]
       /\ \A s \in Runs : s # r /\ turn[s].connection = i => turn[s].file <= turn[r].held

\* The inductive invariant of the model connections, but for the types.
CredentialInv ==
  /\ SignInInv /\ RowInv /\ TurnInv /\ (\A r \in Runs : Ahead(r)) /\ NewestIsCarried

-----------------------------------------------------------------------------
(* The invariants of the services. *)

\* What a request of each task has in hand.
RequestInv == \A q \in Requests :
  /\ request[q].phase = "idle" => request[q] = A!Idle
  /\ request[q].phase \in {"client", "register"} =>
       request[q].task \in {"begin", "callback", "resolve"}
  /\ request[q].phase = "issue" => request[q].task = "begin"
  /\ request[q].phase \in {"consume", "exchange", "save"} => request[q].task = "callback"
  /\ request[q].phase \in {"refresh", "write"} => request[q].task = "resolve"
  /\ request[q].phase \notin {"save", "write"} => request[q].refresh = A!None
  /\ request[q].phase \in {"issue", "exchange", "refresh"} =>
       request[q].client = client /\ client # A!None

\* A state was issued to the client that there is one of.
StateInv == \A f \in Flows :
  state[f].row # "none" => state[f].client = client /\ client # A!None

\* The requests that took the state of f and have not saved its connection.
Took(q, f) ==
  /\ request[q].task = "callback" /\ request[q].flow = f
  /\ request[q].phase # "consume"

\* A callback is that of a flow which has a row and an account; only one request
\* takes a state, and the grant it saves was not refreshed yet.
CallbackInv ==
  /\ \A q \in Requests : request[q].task = "callback" =>
       LET f == request[q].flow IN
       /\ f \in Flows /\ state[f].row # "none"
       /\ request[q].purpose = state[f].purpose /\ state[f].account \in Users
       /\ request[q].purpose = "connect" => request[q].user \in Users
       /\ Took(q, f) => state[f].row = "gone"
       /\ request[q].phase = "save" => request[q].refresh = 1 /\ newest[f] = 1
  /\ \A q, p \in Requests, f \in Flows : Took(q, f) /\ Took(p, f) => q = p

\* Every flow a connection can still come from has been saved.
Settled(f) == f \in Flows /\ state[f].row = "gone" /\ \A q \in Requests : ~Took(q, f)

\* The user u is the one the grant f may belong to.
Owned(u, f) ==
  IF state[f].purpose = "login" THEN state[f].account = u ELSE state[f].user = u

\* A connection, or the copy a request has of one.
Backed(u, c) ==
  IF c.grant = A!None THEN c.refresh = A!None
  ELSE Settled(c.grant) /\ Owned(u, c.grant) /\ c.refresh <= newest[c.grant] /\ 1 <= newest[c.grant]

\* Request q finds or refreshes the token of a connection it has a copy of.
Resolving(q) == request[q].task = "resolve"

\* Every connection and every copy of one is backed by a flow of its user.
BackedInv ==
  /\ \A u \in Users : Backed(u, account[u])
  /\ \A q \in Requests : Resolving(q) =>
       /\ request[q].user \in Users /\ request[q].snapshot.grant \in Flows
       /\ Backed(request[q].user, request[q].snapshot)

\* A grant has one row, whoever holds a copy of it.
IdInv ==
  /\ \A u \in Users, q \in Requests :
       Resolving(q) /\ account[u].grant = request[q].snapshot.grant =>
         account[u].id = request[q].snapshot.id
  /\ \A p, q \in Requests :
       Resolving(q) /\ Resolving(p) /\ request[p].snapshot.grant = request[q].snapshot.grant =>
         request[p].snapshot.id = request[q].snapshot.id

\* Request q has an answer of the provider that is not stored yet.
Writing(q) == request[q].phase = "write"

\* The request with the newest token of a grant that rotates is alone with it.
WriteInv == \A q \in Requests : Writing(q) =>
  LET f == request[q].snapshot.grant IN
  IF A!Rotating
  THEN /\ request[q].refresh = newest[f]
       /\ \A u \in Users : account[u].grant = f => account[u].refresh < newest[f]
       /\ \A p \in Requests : p # q /\ Resolving(p) /\ request[p].snapshot.grant = f =>
            request[p].snapshot.refresh < newest[f] /\ ~Writing(p)
  ELSE request[q].refresh = A!None

\* A provider that does not rotate has one refresh token for each grant, which
\* nobody replaces.
OneTokenInv == ~A!Rotating =>
  /\ \A f \in Flows : newest[f] <= 1
  /\ \A u \in Users : account[u].grant # A!None => account[u].refresh = 1
  /\ \A q \in Requests : Resolving(q) => request[q].snapshot.refresh = 1

\* The inductive invariant of the services.
ServiceInv ==
  /\ A!ConnectionTypeOK /\ RequestInv /\ StateInv /\ CallbackInv /\ BackedInv /\ IdInv
  /\ WriteInv /\ OneTokenInv /\ TokensAreNewest

-----------------------------------------------------------------------------
(* The types of the model connections. *)

\* The types hold at the beginning.
LEMMA CredentialTypesBegin == CredentialInit => CredentialTypeOK
<1> SUFFICES ASSUME CredentialInit PROVE CredentialTypeOK
  OBVIOUS
<1>1. PICK s \in Scopes :
        /\ flow = [f \in Flows |-> [phase |-> IF f \in s.flows THEN "idle" ELSE "gone",
                                    aborted |-> FALSE, existing |-> NoFlow]]
        /\ dialog = [f \in Flows |-> IF f \in s.dialogs THEN "none" ELSE "closed"]
        /\ turn = [r \in Runs |->
             IF r \in s.runs THEN NoTurn ELSE [NoTurn EXCEPT !.phase = "deleted"]]
  BY DEF CredentialInit
<1>2. flow \in [Flows -> FlowRecord]
  BY <1>1 DEF FlowRecord, InMemory
<1>3. turn \in [Runs -> Turn]
  <2>1. NoTurn \in Turn /\ [NoTurn EXCEPT !.phase = "deleted"] \in Turn
    BY DEF NoTurn, Turn, NoFlow
  <2> QED  BY <1>1, <2>1
<1>4. dialog \in [Flows -> {"none", "asked", "open", "told", "failed", "closed"}]
  BY <1>1
<1>5. connection \in [Flows -> Row]
  BY DEF CredentialInit, NoRow, Row
<1>6. report \in [Runs -> [sent : 0 .. ATTEMPTS, waiting : BOOLEAN,
                           arrived : Nat, checked : Nat]]
  BY CredentialAssumption DEF CredentialInit
<1>7. purging \in BOOLEAN
  BY DEF CredentialInit
<1>8. /\ refreshed \in [Flows -> Nat] /\ lost \subseteq Flows
      /\ faults \in 0 .. MaxFaults
  BY CredentialAssumption DEF CredentialInit
<1> QED  BY <1>2, <1>3, <1>4, <1>5, <1>6, <1>7, <1>8, Zenon DEF CredentialTypeOK

\* A report on its way.
Report == [sent : 0 .. ATTEMPTS, waiting : BOOLEAN, arrived : Nat, checked : Nat]

\* Its fields may be set.
LEMMA ReportFields ==
  ASSUME NEW rep \in Report, NEW n \in Nat
  PROVE  /\ [rep EXCEPT !.arrived = n] \in Report
         /\ [rep EXCEPT !.checked = n] \in Report
         /\ [rep EXCEPT !.waiting = FALSE] \in Report
  BY DEF Report

\* The count of faults stays within its bound.
LEMMA FaultTypes == ASSUME CredentialTypeOK, NEW k, Fault(k) PROVE faults' \in 0 .. MaxFaults
  BY CredentialAssumption DEF CredentialTypeOK, Fault

\* Purging keeps the rows' types,
LEMMA PurgedTypes ==
  ASSUME connection \in [Flows -> Row] PROVE Purged(connection) \in [Flows -> Row]
<1>1. ASSUME NEW f \in Flows PROVE [connection[f] EXCEPT !.state = "purged"] \in Row
  BY DEF Row
<1> QED  BY <1>1 DEF Purged

\* and ending a sign-in those of the sign-ins and dialogs.
LEMMA EndTypes ==
  ASSUME CredentialTypeOK, NEW f \in Flows, NEW o \in Ended, End(f, o)
  PROVE  /\ flow' \in [Flows -> FlowRecord]
         /\ dialog' \in [Flows -> {"none", "asked", "open", "told", "failed", "closed"}]
<1>1. [flow[f] EXCEPT !.phase = o] \in FlowRecord
  BY DEF CredentialTypeOK, FlowRecord, Ended
<1>2. flow' \in [Flows -> FlowRecord]
  BY <1>1 DEF CredentialTypeOK, End
<1> QED  BY <1>2 DEF End, CredentialTypeOK

\* The steps of a sign-in and its dialog keep the types.
LEMMA SignInTypes ==
  ASSUME CredentialTypeOK, NEW f \in Flows,
         Start(f) \/ Login(f) \/ SignInStep(f) \/ Forget(f) \/ Close(f) \/ Disconnect(f)
         \/ DeleteConnection(f)
  PROVE  CredentialTypeOK'
<1> USE DEF signInVars, turnVars
<1>r. ASSUME NEW p \in {"gone"} \cup InMemory \cup Ended PROVE [flow[f] EXCEPT !.phase = p] \in FlowRecord
  BY DEF CredentialTypeOK, FlowRecord
<1>a. ASSUME NEW g \in Flows, NEW b \in BOOLEAN PROVE [flow[g] EXCEPT !.aborted = b] \in FlowRecord
  BY DEF CredentialTypeOK, FlowRecord
<1>g. ASSUME connection' \in [Flows -> Row], UNCHANGED <<purging, turnVars, faults>>,
             flow' \in [Flows -> FlowRecord],
             dialog' \in [Flows -> {"none", "asked", "open", "told", "failed", "closed"}]
      PROVE CredentialTypeOK'
  BY <1>g DEF CredentialTypeOK
<1>s. Granted(f) \in Row
  BY DEF Granted, Row, CredentialTypeOK
<1>1. CASE Start(f)
  <2>1. flow' \in [Flows -> FlowRecord]
    BY <1>1, <1>r, <1>a DEF Start, InMemory
  <2> QED  BY <1>1, <2>1 DEF Start, CredentialTypeOK
<1>2. CASE Login(f)
  BY <1>2, <1>r DEF Login, CredentialTypeOK, InMemory
<1>3. CASE LoginFails(f)
  BY <1>3, <1>g, EndTypes DEF LoginFails, CredentialTypeOK, Ended
<1>4. CASE Expire(f)
  <2>1. flow' \in [Flows -> FlowRecord]
    BY <1>4, <1>a DEF Expire, CredentialTypeOK
  <2> QED  BY <1>4, <2>1 DEF Expire, CredentialTypeOK
<1>5. CASE FindExisting(f)
  <2>1. PICK i \in Flows \cup {NoFlow} : flow' = [flow EXCEPT ![f].phase = "found", ![f].existing = i]
    BY <1>5 DEF FindExisting, Live
  <2>2. [flow[f] EXCEPT !.phase = "found", !.existing = i] \in FlowRecord
    <3>1. ASSUME NEW row \in FlowRecord PROVE [row EXCEPT !.existing = i] \in FlowRecord
      BY DEF FlowRecord
    <3> QED  BY <1>r, <3>1 DEF InMemory
  <2>3. flow' = [flow EXCEPT ![f] = [flow[f] EXCEPT !.phase = "found", !.existing = i]]
    BY <2>1 DEF CredentialTypeOK
  <2> QED  BY <1>5, <2>2, <2>3 DEF FindExisting, CredentialTypeOK
<1>6. CASE Create(f)
  BY <1>6, <1>s, <1>g, EndTypes DEF Create, CredentialTypeOK, Ended
<1>7. CASE Rotate(f)
  <2>1. flow[f].existing \in Flows
    BY <1>7 DEF Rotate, Live
  <2>2. [connection[flow[f].existing] EXCEPT !.state = "retired"] \in Row
    BY <2>1 DEF CredentialTypeOK, Row
  <2>3. connection' \in [Flows -> Row]
    BY <1>7, <1>s, <2>1, <2>2 DEF Rotate, Rotated, CredentialTypeOK
  <2>4. flow' \in [Flows -> FlowRecord]
    BY <1>7, <1>r DEF Rotate, CredentialTypeOK, InMemory
  <2> QED  BY <1>7, <1>g, <2>3, <2>4 DEF Rotate, CredentialTypeOK
<1>8. CASE RotateFails(f)
  BY <1>8, <1>g, EndTypes DEF RotateFails, CredentialTypeOK, Ended
<1>9. CASE PurgeRotated(f)
  BY <1>9, <1>g, EndTypes, PurgedTypes DEF PurgeRotated, CredentialTypeOK, Ended
<1>10. CASE Subscribe(f)
  BY <1>10 DEF Subscribe, CredentialTypeOK
<1>11. CASE Forget(f)
  BY <1>11, <1>r DEF Forget, CredentialTypeOK
<1>12. CASE Close(f)
  <2>1. flow' \in [Flows -> FlowRecord]
    BY <1>12, <1>a DEF Close, CredentialTypeOK, InMemory
  <2> QED  BY <1>12, <2>1 DEF Close, CredentialTypeOK
<1>13. CASE Disconnect(f)
  BY <1>13, FaultTypes DEF Disconnect, CredentialTypeOK
<1>14. CASE DeleteConnection(f)
  <2>1. [connection[f] EXCEPT !.state = "retired"] \in Row
    BY DEF CredentialTypeOK, Row
  <2> QED  BY <1>14, <2>1 DEF DeleteConnection, CredentialTypeOK
<1> QED  BY <1>1, <1>2, <1>3, <1>4, <1>5, <1>6, <1>7, <1>8, <1>9, <1>10, <1>11, <1>12, <1>13,
            <1>14 DEF SignInStep

\* An answer to a report keeps the types.
LEMMA AnswerTypes ==
  ASSUME CredentialTypeOK, NEW r \in Runs, NEW handled \in Report, Answer(r, handled)
  PROVE  turn' \in [Runs -> Turn] /\ report' \in [Runs -> Report]
<1>1. PICK heard \in BOOLEAN :
        /\ report' = [report EXCEPT ![r] = [handled EXCEPT !.waiting = @ /\ ~heard]]
        /\ turn' = IF heard THEN [turn EXCEPT ![r].phase = "done"] ELSE turn
  BY DEF Answer
<1>2. [handled EXCEPT !.waiting = @ /\ ~heard] \in Report
  <2>1. ASSUME NEW b \in BOOLEAN PROVE [handled EXCEPT !.waiting = b] \in Report
    BY DEF Report
  <2> QED  BY <2>1
<1>3. [turn[r] EXCEPT !.phase = "done"] \in Turn
  <2>1. turn[r] \in Turn
    BY DEF CredentialTypeOK
  <2> QED  BY <2>1 DEF Turn
<1>4. report' \in [Runs -> Report]
  BY <1>1, <1>2 DEF CredentialTypeOK, Report
<1>5. turn' \in [Runs -> Turn]
  BY <1>1, <1>3 DEF CredentialTypeOK
<1> QED  BY <1>4, <1>5

\* The steps of a turn keep the types.
LEMMA TurnTypes ==
  ASSUME CredentialTypeOK, TurnInv, NEW r \in Runs, TurnStep(r)
  PROVE  CredentialTypeOK'
<1> USE DEF signInVars, turnVars
<1>c. /\ turn[r].phase \in Chosen => turn[r].connection \in Flows /\ turn[r].grant \in Flows
      /\ Pending(r) => turn[r].phase \in Chosen
  BY DEF TurnInv, Chosen
<1>o. /\ connection \in [Flows -> Row] /\ turn \in [Runs -> Turn] /\ turn[r] \in Turn
      /\ report \in [Runs -> Report] /\ report[r] \in Report /\ refreshed \in [Flows -> Nat]
      /\ lost \subseteq Flows
  BY DEF CredentialTypeOK, Report
<1>p. ASSUME NEW p \in {"none", "chosen", "queued", "working", "reporting", "done", "deleted"}
      PROVE [turn[r] EXCEPT !.phase = p] \in Turn
  BY <1>o DEF Turn
<1>g. ASSUME connection' \in [Flows -> Row], turn' \in [Runs -> Turn], report' \in [Runs -> Report],
             refreshed' \in [Flows -> Nat], lost' \subseteq Flows, faults' \in 0 .. MaxFaults,
             UNCHANGED <<signInVars, purging>>
      PROVE CredentialTypeOK'
  BY <1>g DEF CredentialTypeOK, Report
<1>f. faults \in 0 .. MaxFaults
  BY DEF CredentialTypeOK
<1>n. NoTurn \in Turn
  BY DEF NoTurn, Turn, NoFlow
<1>q. ASSUME turn' \in [Runs -> Turn],
             UNCHANGED <<connection, signInVars, purging, report, refreshed, lost, faults>>
      PROVE CredentialTypeOK'
  BY <1>o, <1>f, <1>g, <1>q
<1>1. CASE ChooseModel(r)
  <2>1. PICK i \in Flows : turn' = [turn EXCEPT
       ![r] = [@ EXCEPT !.phase = "chosen", !.connection = i, !.grant = connection[i].grant]]
    BY <1>1 DEF ChooseModel, Live
  <2>2. [turn[r] EXCEPT !.phase = "chosen", !.connection = i, !.grant = connection[i].grant] \in Turn
    BY <1>o DEF Turn, Row
  <2> QED  BY <1>1, <1>o, <1>q, <2>1, <2>2 DEF ChooseModel
<1>2. CASE Submit(r)
  BY <1>2, <1>o, <1>p, <1>q, <1>n DEF Submit
<1>3. CASE MintForRun(r)
  <2> DEFINE v == connection[turn[r].connection].version
  <2>1. v \in Nat
    <3>1. turn[r].connection \in Flows
      BY <1>3, <1>c DEF MintForRun, Chosen
    <3> QED  BY <3>1, <1>o DEF Row
  <2>2. [turn[r] EXCEPT !.phase = "working", !.held = v, !.file = v] \in Turn
    <3> HIDE DEF v
    <3> QED  BY <1>o, <2>1 DEF Turn
  <2>3. turn' = [turn EXCEPT ![r] = [turn[r] EXCEPT !.phase = "working", !.held = v, !.file = v]]
    BY <1>3, <1>o DEF MintForRun
  <2> HIDE DEF v
  <2> QED  BY <1>3, <1>o, <1>q, <2>2, <2>3 DEF MintForRun
<1>4. CASE Refresh(r)
  <2>1. [turn[r] EXCEPT !.file = @ + 1] \in Turn
    BY <1>o DEF Turn
  <2>2. turn' = [turn EXCEPT ![r] = [turn[r] EXCEPT !.file = @ + 1]]
    BY <1>4, <1>o DEF Refresh
  <2>3. turn' \in [Runs -> Turn]
    BY <1>o, <2>1, <2>2
  <2>4. refreshed' \in [Flows -> Nat]
    BY <1>4, <1>c, <1>o DEF Refresh, Chosen
  <2> QED  BY <1>4, <1>o, <1>f, <1>g, <2>3, <2>4 DEF Refresh
<1>5. CASE EndTurn(r)
  BY <1>5, <1>o, <1>p, <1>q DEF EndTurn
<1>6. CASE Stopped(r)
  <2>1. turn[r].grant \in Flows
    BY <1>6, <1>c DEF Stopped, Chosen
  <2> QED  BY <1>6, <1>o, <1>p, <1>g, <2>1, FaultTypes DEF Stopped
<1>7. CASE Send(r)
  <2>1. [sent |-> report[r].sent + 1, waiting |-> TRUE, arrived |-> report[r].arrived + 1,
         checked |-> report[r].checked] \in Report
    BY <1>7, <1>o, CredentialAssumption DEF Send, Report
  <2>2. report' \in [Runs -> Report]
    BY <1>7, <1>o, <2>1 DEF Send
  <2> QED  BY <1>7, <1>o, <1>f, <1>g, <2>2 DEF Send
<1>8. CASE TimesOut(r)
  <2>1. [report[r] EXCEPT !.waiting = FALSE] \in Report
    BY <1>o DEF Report
  <2>2. report' \in [Runs -> Report]
    BY <1>8, <1>o, <2>1 DEF TimesOut
  <2> QED  BY <1>8, <1>o, <1>f, <1>g, <2>2 DEF TimesOut
<1>9. CASE GiveUp(r)
  <2>1. turn' \in [Runs -> Turn] /\ lost' \subseteq Flows
    BY <1>9, <1>c, <1>o, <1>p DEF GiveUp, Chosen
  <2> QED  BY <1>9, <1>o, <1>f, <1>g, <2>1 DEF GiveUp
<1>10. CASE Check(r)
  <2> DEFINE handled == [report[r] EXCEPT !.arrived = @ - 1]
  <2>1. handled \in Report /\ [handled EXCEPT !.checked = @ + 1] \in Report
    <3>1. report[r].arrived - 1 \in Nat
      BY <1>10, <1>o DEF Check, Report
    <3>2. handled \in Report
      BY <1>o, <3>1, ReportFields
    <3>3. handled.checked + 1 \in Nat
      BY <3>2 DEF Report
    <3> HIDE DEF handled
    <3> QED  BY <3>2, <3>3, ReportFields
  <2>2. CASE Answer(r, handled)
    <3> HIDE DEF handled
    <3> QED  BY <1>10, <1>o, <1>f, <1>g, <2>1, <2>2, AnswerTypes DEF Check
  <2>3. CASE report' = [report EXCEPT ![r] = [handled EXCEPT !.checked = @ + 1]] /\ UNCHANGED turn
    <3> HIDE DEF handled
    <3>1. report' \in [Runs -> Report]
      BY <1>o, <2>1, <2>3
    <3> QED  BY <1>10, <1>o, <1>f, <1>g, <2>3, <3>1 DEF Check
  <2> QED  BY <1>10, <2>2, <2>3 DEF Check
<1>11. CASE Persist(r)
  <2> DEFINE handled == [report[r] EXCEPT !.checked = @ - 1]
  <2>1. handled \in Report
    BY <1>11, <1>o DEF Persist, Report
  <2>2. Answer(r, handled)
    BY <1>11 DEF Persist
  <2>3. connection' \in [Flows -> Row]
    <3>1. connection' = CompareAndSet(turn[r].connection, turn[r].held, turn[r].file)
      BY <1>11 DEF Persist
    <3>2. ASSUME NEW i \in Flows, NEW v \in Nat PROVE [connection[i] EXCEPT !.version = v] \in Row
      BY <1>o DEF Row
    <3>3. turn[r].file \in Nat
      BY <1>o DEF Turn
    <3> QED  BY <1>o, <3>1, <3>2, <3>3 DEF CompareAndSet, Row
  <2> HIDE DEF handled
  <2> QED  BY <1>11, <1>o, <1>f, <1>g, <2>1, <2>2, <2>3, AnswerTypes DEF Persist
<1>12. CASE HandlerFails(r)
  <2>1. [report[r] EXCEPT !.arrived = @ - 1, !.waiting = FALSE] \in Report
    <3> DEFINE handled == [report[r] EXCEPT !.arrived = @ - 1]
    <3>1. report[r].arrived - 1 \in Nat
      BY <1>12, <1>o DEF HandlerFails, Report
    <3>2. handled \in Report
      BY <1>o, <3>1, ReportFields
    <3>3. [handled EXCEPT !.waiting = FALSE] \in Report
      <4> HIDE DEF handled
      <4> QED  BY <3>2, ReportFields
    <3> QED  BY <3>3
  <2>2. report' = [report EXCEPT ![r] = [report[r] EXCEPT !.arrived = @ - 1, !.waiting = FALSE]]
    BY <1>12, <1>o DEF HandlerFails
  <2>3. report' \in [Runs -> Report]
    BY <1>o, <2>1, <2>2
  <2>4. lost' \subseteq Flows
    <3>1. turn[r].grant \in Flows
      BY <1>12, <1>c, <1>o DEF HandlerFails, Pending, Report
    <3> QED  BY <1>12, <1>o, <3>1 DEF HandlerFails
  <2> QED  BY <1>12, <1>o, <1>g, <2>3, <2>4, FaultTypes DEF HandlerFails
<1>13. CASE DeleteRun(r)
  BY <1>13, <1>o, <1>p, <1>q DEF DeleteRun
<1> QED  BY <1>1, <1>2, <1>3, <1>4, <1>5, <1>6, <1>7, <1>8, <1>9, <1>10, <1>11, <1>12, <1>13
         DEF TurnStep

\* So do a restart and a purge.
LEMMA RestartTypes ==
  ASSUME CredentialTypeOK, TurnInv, Restart \/ PurgeDeleted
  PROVE  CredentialTypeOK'
<1> USE DEF signInVars, turnVars
<1>1. CASE Restart
  <2>1. ASSUME NEW f \in Flows PROVE [flow[f] EXCEPT !.phase = "gone"] \in FlowRecord
    BY DEF CredentialTypeOK, FlowRecord
  <2>2. flow' \in [Flows -> FlowRecord]
    BY <1>1, <2>1 DEF Restart, CredentialTypeOK
  <2>3. dialog' \in [Flows -> {"none", "asked", "open", "told", "failed", "closed"}]
    BY <1>1 DEF Restart, CredentialTypeOK
  <2>4. report' \in [Runs -> Report]
    <3>1. ASSUME NEW r \in Runs
          PROVE [report[r] EXCEPT !.waiting = FALSE, !.arrived = 0, !.checked = 0] \in Report
      BY DEF CredentialTypeOK, Report
    <3> QED  BY <1>1, <3>1 DEF Restart
  <2>5. lost' \subseteq Flows
    <3>1. ASSUME NEW r \in Runs, Pending(r) PROVE turn[r].grant \in Flows
      BY <3>1 DEF TurnInv, Chosen
    <3>2. lost' = lost \cup {turn[r].grant : r \in {s \in Runs : Pending(s) /\ turn[s].phase = "done"}}
      BY <1>1 DEF Restart
    <3> QED  BY <3>1, <3>2 DEF CredentialTypeOK
  <2>6. purging' \in BOOLEAN
    BY <1>1 DEF Restart
  <2>7. faults' \in 0 .. MaxFaults
    BY <1>1, FaultTypes DEF Restart
  <2>8. UNCHANGED <<connection, turn, refreshed>>
    BY <1>1 DEF Restart
  <2> QED  BY <2>2, <2>3, <2>4, <2>5, <2>6, <2>7, <2>8 DEF CredentialTypeOK, Report
<1>2. CASE PurgeDeleted
  <2>1. purging' \in BOOLEAN
    BY <1>2 DEF PurgeDeleted
  <2>2. connection' \in [Flows -> Row]
    BY <1>2, PurgedTypes DEF PurgeDeleted, CredentialTypeOK
  <2>3. UNCHANGED <<signInVars, turnVars, faults>>
    BY <1>2 DEF PurgeDeleted
  <2> QED  BY <2>1, <2>2, <2>3 DEF CredentialTypeOK
<1> QED  BY <1>1, <1>2

-----------------------------------------------------------------------------
(* The rows. *)

\* The invariant holds at the beginning.
LEMMA CredentialBegins == CredentialInit => CredentialInv
<1> SUFFICES ASSUME CredentialInit PROVE CredentialInv
  OBVIOUS
<1>1. PICK s \in Scopes :
        /\ flow = [f \in Flows |-> [phase |-> IF f \in s.flows THEN "idle" ELSE "gone",
                                    aborted |-> FALSE, existing |-> NoFlow]]
        /\ dialog = [f \in Flows |-> IF f \in s.dialogs THEN "none" ELSE "closed"]
        /\ turn = [r \in Runs |->
             IF r \in s.runs THEN NoTurn ELSE [NoTurn EXCEPT !.phase = "deleted"]]
  BY DEF CredentialInit
<1>2. \A f \in Flows : connection[f].state = "none" /\ dialog[f] \in {"none", "closed"}
  BY <1>1 DEF CredentialInit, NoRow
<1>3. \A r \in Runs : /\ turn[r].phase \in {"none", "deleted"} /\ turn[r].connection = NoFlow
                      /\ turn[r].grant = NoFlow /\ turn[r].held = 0 /\ turn[r].file = 0
  BY <1>1 DEF NoTurn
<1>4. \A r \in Runs : ~Pending(r)
  BY DEF CredentialInit, Pending
<1>5. NoFlow \notin Flows
  BY CredentialAssumption
<1>6. SignInInv
  BY <1>2 DEF SignInInv
<1>7. RowInv
  BY <1>2 DEF RowInv
<1>8. TurnInv
  BY <1>3, <1>4, <1>5 DEF TurnInv, Chosen, Submitted
<1>9. \A r \in Runs : Ahead(r)
  BY <1>3 DEF Ahead, Running
<1>10. NewestIsCarried
  BY <1>2 DEF NewestIsCarried, Stored
<1> QED  BY <1>6, <1>7, <1>8, <1>9, <1>10 DEF CredentialInv

-----------------------------------------------------------------------------
\* What a sign-in, a deletion or a purge does to the row g.
RowStep(g) ==
  \/ connection'[g] = connection[g]
  \/ /\ Stored(g) /\ ~Stored(g)' => ~Referenced(g)
     /\ connection[g].state # "none" /\ connection'[g].state # "none"
     /\ connection'[g].grant = connection[g].grant
     /\ connection'[g].version = connection[g].version
     /\ Stored(g)' => Stored(g)
  \/ /\ connection[g].state = "none" /\ flow[g].phase = "found"
     /\ flow'[g].phase \notin {"idle", "login", "authorized", "found"}
     /\ connection'[g] = Granted(g)

\* Purging does no more than that.
LEMMA PurgeStep ==
  ASSUME CredentialTypeOK, connection' = Purged(connection), NEW g \in Flows
  PROVE  RowStep(g)
<1>1. connection'[g] = IF connection[g].state = "retired" /\ ~Referenced(g)
                       THEN [connection[g] EXCEPT !.state = "purged"] ELSE connection[g]
  BY DEF Purged
<1>2. connection[g] \in Row
  BY DEF CredentialTypeOK
<1> QED  BY <1>1, <1>2 DEF RowStep, Stored, Row

\* Nor does retiring.
LEMMA RetireStep ==
  ASSUME CredentialTypeOK, NEW f \in Flows, connection[f].state = "live",
         NEW g \in Flows, connection'[g] = IF g = f THEN [connection[f] EXCEPT !.state = "retired"] ELSE connection[g]
  PROVE  RowStep(g)
<1>1. connection[g] \in Row
  BY DEF CredentialTypeOK
<1> QED  BY <1>1 DEF RowStep, Stored, Row

\* The steps of a sign-in and of whoever looks at it.
SignIn(f) == \/ Start(f) \/ Login(f) \/ SignInStep(f) \/ Forget(f) \/ Close(f) \/ Disconnect(f)
             \/ DeleteConnection(f)

\* Nor does a step of a sign-in.
LEMMA RowsStep ==
  ASSUME CredentialTypeOK, SignInInv, NEW f \in Flows, SignIn(f), NEW g \in Flows
  PROVE  RowStep(g)
<1> USE DEF signInVars, turnVars
<1>t. /\ connection \in [Flows -> Row] /\ flow \in [Flows -> FlowRecord]
  BY DEF CredentialTypeOK
<1>1. CASE UNCHANGED connection
  BY <1>1 DEF RowStep
<1>2. CASE Create(f)
  <2>1. connection[f].state = "none"
    BY <1>2 DEF SignInInv, Create
  <2>2. flow'[f].phase = "complete" /\ connection' = [connection EXCEPT ![f] = Granted(f)]
    BY <1>2, <1>t DEF Create, End, FlowRecord
  <2> QED  BY <1>2, <1>t, <2>1, <2>2 DEF Create, RowStep
<1>3. CASE Rotate(f)
  <2> DEFINE old == flow[f].existing
  <2>1. old \in Flows /\ connection[old].state = "live" /\ connection[f].state = "none" /\ old # f
    BY <1>3 DEF Rotate, Live, SignInInv
  <2>2. connection'[f] = Granted(f) /\ flow'[f].phase = "rotated"
    BY <1>3, <1>t, <2>1 DEF Rotate, Rotated, FlowRecord
  <2>3. g # f => connection'[g] = IF g = old THEN [connection[old] EXCEPT !.state = "retired"] ELSE connection[g]
    BY <1>3, <1>t, <2>1 DEF Rotate, Rotated
  <2> HIDE DEF old
  <2>4. CASE g = f
    BY <1>3, <2>1, <2>2, <2>4 DEF RowStep, Rotate
  <2>5. CASE g # f
    BY <2>1, <2>3, <2>5, RetireStep
  <2> QED  BY <2>4, <2>5
<1>4. CASE PurgeRotated(f)
  BY <1>4, PurgeStep DEF PurgeRotated
<1>5. CASE DeleteConnection(f)
  <2>1. connection[f].state = "live" /\ connection' = [connection EXCEPT ![f].state = "retired"]
    BY <1>5 DEF DeleteConnection
  <2>2. connection'[g] = IF g = f THEN [connection[f] EXCEPT !.state = "retired"] ELSE connection[g]
    BY <1>t, <2>1
  <2> QED  BY <2>1, <2>2, RetireStep
<1>6. UNCHANGED connection \/ Create(f) \/ Rotate(f) \/ PurgeRotated(f) \/ DeleteConnection(f)
  BY DEF SignIn, SignInStep, Start, Login, LoginFails, Expire, FindExisting, RotateFails, Subscribe,
     Forget, Close, Disconnect
<1> QED  BY <1>1, <1>2, <1>3, <1>4, <1>5, <1>6

\* What the rows, the turns and the reports know of each other.
CarryInv == RowInv /\ TurnInv /\ (\A r \in Runs : Ahead(r)) /\ NewestIsCarried

\* Steps that only do this to the rows keep what is carried: a row that is new
\* has the newest credential.
LEMMA RowStepCarries ==
  ASSUME CredentialTypeOK, CarryInv, \A g \in Flows : RowStep(g),
         UNCHANGED <<turn, report, lost>>,
         \A g \in Flows : connection[g].state # "none" \/ flow[g].phase = "found"
                          => refreshed'[g] = refreshed[g]
  PROVE  CarryInv'
<1>t. /\ connection \in [Flows -> Row] /\ turn \in [Runs -> Turn] /\ refreshed \in [Flows -> Nat]
  BY DEF CredentialTypeOK
<1>k. ASSUME NEW g \in Flows, connection[g].state # "none"
      PROVE  /\ connection'[g].state # "none"
             /\ connection'[g].grant = connection[g].grant
             /\ connection'[g].version = connection[g].version
             /\ Stored(g)' => Stored(g)
             /\ Stored(g) /\ ~Stored(g)' => ~Referenced(g)
             /\ refreshed'[g] = refreshed[g]
  BY <1>k DEF RowStep, Stored
<1>n. ASSUME NEW g \in Flows, connection[g].state = "none", connection'[g].state # "none"
      PROVE  connection'[g].grant = g /\ connection'[g].version = refreshed'[g]
  <2>1. connection'[g] = Granted(g) /\ flow[g].phase = "found"
    BY <1>n DEF RowStep
  <2> QED  BY <2>1 DEF Granted
<1>1. RowInv'
  <2>1. ASSUME NEW g \in Flows, connection'[g].state # "none"
        PROVE  connection'[g].grant = g /\ connection'[g].version <= refreshed'[g]
    <3>1. CASE connection[g].state # "none"
      BY <1>t, <1>k, <3>1 DEF CarryInv, RowInv
    <3>2. CASE connection[g].state = "none"
      <4>1. connection'[g] = Granted(g) /\ flow[g].phase = "found"
        BY <2>1, <3>2 DEF RowStep
      <4>2. refreshed'[g] = refreshed[g]
        BY <4>1
      <4> QED  BY <1>t, <4>1, <4>2 DEF Granted
    <3> QED  BY <3>1, <3>2
  <2> QED  BY <2>1 DEF RowInv
<1>2. TurnInv'
  <2> SUFFICES ASSUME NEW r \in Runs
               PROVE  /\ turn[r].connection = turn[r].grant
                      /\ turn[r].phase \in Chosen => turn[r].connection \in Flows
                      /\ turn[r].connection \in Flows =>
                           /\ connection'[turn[r].connection].state # "none"
                           /\ turn[r].held <= connection'[turn[r].connection].version
                           /\ turn[r].held <= turn[r].file
                           /\ turn[r].file <= refreshed'[turn[r].connection]
                      /\ turn[r].phase \in Submitted => Stored(turn[r].connection)'
                      /\ turn[r].phase \in {"none", "chosen", "queued"} => turn[r].held = 0 /\ turn[r].file = 0
                      /\ Pending(r) => turn[r].phase \in {"reporting", "done"}
    BY DEF TurnInv, Pending, Stored
  <2>1. turn[r].phase \in Submitted => Stored(turn[r].connection)'
    <3> SUFFICES ASSUME turn[r].phase \in Submitted PROVE Stored(turn[r].connection)'
      OBVIOUS
    <3>1. /\ turn[r].connection \in Flows /\ connection[turn[r].connection].state # "none"
          /\ Stored(turn[r].connection)
      BY DEF CarryInv, TurnInv, Submitted, Chosen
    <3>2. Referenced(turn[r].connection)
      BY DEF Referenced, Submitted
    <3> QED  BY <1>k, <3>1, <3>2
  <2> QED  BY <1>k, <2>1 DEF CarryInv, TurnInv
<1>3. ASSUME NEW r \in Runs PROVE Ahead(r)'
  <2> SUFFICES ASSUME turn[r].phase \in Running, turn[r].held # turn[r].file
               PROVE  LET i == turn[r].connection IN
                      \/ connection'[i].version >= turn[r].file /\ turn[r].phase # "working"
                      \/ /\ connection'[i].version = turn[r].held
                         /\ turn[r].file = refreshed'[i]
                         /\ \A s \in Runs : s # r /\ turn[s].connection = i => turn[s].file <= turn[r].held
    BY DEF Ahead
  <2>1. turn[r].connection \in Flows /\ connection[turn[r].connection].state # "none"
    BY DEF CarryInv, TurnInv, Chosen, Running
  <2>2. Ahead(r)
    BY DEF CarryInv
  <2> QED  BY <1>k, <2>1, <2>2 DEF Ahead
<1>4. NewestIsCarried'
  <2> SUFFICES ASSUME NEW i \in Flows, Stored(i)', connection'[i].grant \notin lost
               PROVE  \/ connection'[i].version = refreshed'[connection'[i].grant]
                      \/ \E r \in Runs :
                           /\ turn[r].grant = connection'[i].grant
                           /\ turn[r].file = refreshed'[connection'[i].grant]
                           /\ turn[r].phase \in {"working", "reporting"} \/ Pending(r)
    BY DEF NewestIsCarried, Pending
  <2>1. CASE connection[i].state = "none"
    BY <1>n, <2>1 DEF Stored
  <2>2. CASE connection[i].state # "none"
    <3>1. connection[i].grant = i
      BY <2>2 DEF CarryInv, RowInv
    <3> QED  BY <1>k, <2>2, <3>1 DEF CarryInv, NewestIsCarried
  <2> QED  BY <2>1, <2>2
<1> QED  BY <1>1, <1>2, <1>3, <1>4 DEF CarryInv

\* So do the steps of a sign-in.
LEMMA SignInCarries ==
  ASSUME CredentialTypeOK, SignInInv, CarryInv, NEW f \in Flows, SignIn(f)
  PROVE  CarryInv'
<1> USE DEF signInVars, turnVars
<1>1. UNCHANGED <<turn, report, lost>>
  BY DEF SignIn, SignInStep, Start, Login, LoginFails, Expire, FindExisting, Create, Rotate,
     RotateFails, PurgeRotated, Subscribe, Forget, Close, Disconnect, DeleteConnection
<1>2. ASSUME NEW g \in Flows, connection[g].state # "none" \/ flow[g].phase = "found"
      PROVE  refreshed'[g] = refreshed[g]
  <2>1. CASE Login(f)
    <3>1. f # g
      BY <1>2, <2>1 DEF Login, SignInInv
    <3> QED  BY <2>1, <3>1 DEF Login, CredentialTypeOK
  <2>2. CASE ~Login(f)
    BY <2>2 DEF SignIn, SignInStep, Start, LoginFails, Expire, FindExisting, Create, Rotate,
       RotateFails, PurgeRotated, Subscribe, Forget, Close, Disconnect, DeleteConnection
  <2> QED  BY <2>1, <2>2
<1>3. \A g \in Flows : RowStep(g)
  BY RowsStep
<1> QED  BY <1>1, <1>2, <1>3, RowStepCarries

\* So does the purge after a deletion.
LEMMA PurgeCarries ==
  ASSUME CredentialTypeOK, CarryInv, PurgeDeleted PROVE CarryInv'
  BY PurgeStep, RowStepCarries DEF PurgeDeleted, turnVars

\* A step of r that leaves the rows and what the provider takes alone.
LEMMA TurnMovesOn ==
  ASSUME CredentialTypeOK, CarryInv, NEW r \in Runs,
         UNCHANGED <<connection, refreshed>>, lost \subseteq lost',
         \A s \in Runs \ {r} : turn'[s] = turn[s] /\ (Pending(s)' <=> Pending(s)),
         /\ turn'[r].connection = turn[r].connection /\ turn'[r].grant = turn[r].grant
         /\ turn'[r].held = turn[r].held /\ turn'[r].file = turn[r].file,
         turn[r].phase \in Running,
         \/ turn'[r].phase = turn[r].phase
         \/ turn'[r].phase \in {"done", "reporting"}
         \/ turn'[r].phase = "deleted",
         Pending(r)' => turn'[r].phase \in {"reporting", "done"},
         \* r was not needed, or still is there, or its credential is known to be lost
         \/ turn[r].phase \in {"working", "reporting"} \/ Pending(r)
            => \/ turn'[r].phase \in {"working", "reporting"} \/ Pending(r)'
               \/ turn[r].grant \in lost'
               \/ connection[turn[r].connection].version = refreshed[turn[r].connection]
               \/ ~Stored(turn[r].connection)
               \/ turn[r].file # refreshed[turn[r].connection]
  PROVE  CarryInv'
<1>1. RowInv'
  BY DEF CarryInv, RowInv
<1>2. TurnInv'
  <2> SUFFICES ASSUME NEW s \in Runs
               PROVE  /\ turn'[s].connection = turn'[s].grant
                      /\ turn'[s].phase \in Chosen => turn'[s].connection \in Flows
                      /\ turn'[s].connection \in Flows =>
                           /\ connection[turn'[s].connection].state # "none"
                           /\ turn'[s].held <= connection[turn'[s].connection].version
                           /\ turn'[s].held <= turn'[s].file
                           /\ turn'[s].file <= refreshed[turn'[s].connection]
                      /\ turn'[s].phase \in Submitted => Stored(turn'[s].connection)
                      /\ turn'[s].phase \in {"none", "chosen", "queued"} => turn'[s].held = 0 /\ turn'[s].file = 0
                      /\ Pending(s)' => turn'[s].phase \in {"reporting", "done"}
    BY DEF TurnInv, Stored
  <2>1. CASE s = r
    BY <2>1 DEF CarryInv, TurnInv, Chosen, Submitted, Running
  <2>2. CASE s # r
    BY <2>2 DEF CarryInv, TurnInv
  <2> QED  BY <2>1, <2>2
<1>3. ASSUME NEW s \in Runs PROVE Ahead(s)'
  <2>1. Ahead(s)
    BY DEF CarryInv
  <2>2. \A q \in Runs : turn'[q].connection = turn[q].connection /\ turn'[q].file = turn[q].file
                        /\ turn'[q].held = turn[q].held
    OBVIOUS
  <2>3. /\ turn'[s].phase \in Running => turn[s].phase \in Running
        /\ turn'[s].phase = "working" => turn[s].phase = "working"
    OBVIOUS
  <2> QED  BY <2>1, <2>2, <2>3 DEF Ahead
<1>4. NewestIsCarried'
  <2> SUFFICES ASSUME NEW i \in Flows, Stored(i), connection[i].grant \notin lost'
               PROVE  \/ connection[i].version = refreshed[connection[i].grant]
                      \/ \E s \in Runs :
                           /\ turn'[s].grant = connection[i].grant
                           /\ turn'[s].file = refreshed[connection[i].grant]
                           /\ turn'[s].phase \in {"working", "reporting"} \/ Pending(s)'
    BY DEF NewestIsCarried, Stored
  <2>1. connection[i].grant = i
    BY DEF CarryInv, RowInv, Stored
  <2>2. CASE connection[i].version = refreshed[i]
    BY <2>1, <2>2
  <2>3. ASSUME NEW s \in Runs, turn[s].grant = i, turn[s].file = refreshed[i],
               turn[s].phase \in {"working", "reporting"} \/ Pending(s)
        PROVE  \/ connection[i].version = refreshed[i]
               \/ turn'[s].phase \in {"working", "reporting"} \/ Pending(s)'
    <3>1. turn[r].connection = turn[r].grant
      BY DEF CarryInv, TurnInv
    <3> QED  BY <2>1, <2>3, <3>1
  <2>4. \/ connection[i].version = refreshed[i]
        \/ \E s \in Runs : /\ turn[s].grant = i /\ turn[s].file = refreshed[i]
                           /\ turn[s].phase \in {"working", "reporting"} \/ Pending(s)
    BY <2>1 DEF CarryInv, NewestIsCarried
  <2>5. \A s \in Runs : turn'[s].grant = turn[s].grant /\ turn'[s].file = turn[s].file
    OBVIOUS
  <2> QED  BY <2>1, <2>3, <2>4, <2>5
<1> QED  BY <1>1, <1>2, <1>3, <1>4 DEF CarryInv

\* A report in an answer's place, and the turn that hears it.
LEMMA Answered ==
  ASSUME CredentialTypeOK, NEW r \in Runs, NEW handled \in Report, Answer(r, handled)
  PROVE  /\ \A s \in Runs \ {r} : turn'[s] = turn[s] /\ report'[s] = report[s]
         /\ turn'[r] = turn[r] \/ turn'[r] = [turn[r] EXCEPT !.phase = "done"]
         /\ report'[r].arrived = handled.arrived /\ report'[r].checked = handled.checked
<1>1. PICK heard \in BOOLEAN :
        /\ report' = [report EXCEPT ![r] = [handled EXCEPT !.waiting = @ /\ ~heard]]
        /\ turn' = IF heard THEN [turn EXCEPT ![r].phase = "done"] ELSE turn
  BY DEF Answer
<1>2. report'[r] = [handled EXCEPT !.waiting = @ /\ ~heard]
  BY <1>1 DEF CredentialTypeOK
<1>3. report'[r].arrived = handled.arrived /\ report'[r].checked = handled.checked
  BY <1>2 DEF Report
<1>4. turn'[r] = turn[r] \/ turn'[r] = [turn[r] EXCEPT !.phase = "done"]
  BY <1>1 DEF CredentialTypeOK
<1>5. \A s \in Runs \ {r} : turn'[s] = turn[s] /\ report'[s] = report[s]
  BY <1>1 DEF CredentialTypeOK
<1> QED  BY <1>3, <1>4, <1>5

\* The steps of a turn that only move it on.
LEMMA TurnStepCarries ==
  ASSUME CredentialTypeOK, CarryInv, NEW r \in Runs,
         \/ EndTurn(r) \/ Stopped(r) \/ Send(r) \/ GiveUp(r) \/ Check(r) \/ HandlerFails(r)
         \/ DeleteRun(r)
  PROVE  CarryInv'
<1> USE DEF signInVars
<1>t. /\ turn \in [Runs -> Turn] /\ turn[r] \in Turn /\ report \in [Runs -> Report]
      /\ report[r] \in Report /\ connection \in [Flows -> Row] /\ refreshed \in [Flows -> Nat]
  BY DEF CredentialTypeOK, Report
<1>n. ASSUME NEW s \in Runs PROVE report[s].arrived \in Nat /\ report[s].checked \in Nat
  BY <1>t DEF Report
<1>c. turn[r].phase \in Running =>
        LET i == turn[r].connection IN
        /\ i \in Flows /\ i = turn[r].grant
        /\ turn[r].held <= connection[i].version /\ connection[i].version <= refreshed[i]
        /\ connection[i].version \in Nat /\ refreshed[i] \in Nat
        /\ turn[r].held \in Nat /\ turn[r].file \in Nat
        /\ connection[i].grant = i
        /\ Pending(r) => turn[r].phase \in {"reporting", "done"}
  BY <1>t DEF CarryInv, TurnInv, RowInv, Chosen, Running, Row, Turn
<1>p. turn[r].phase \in Running /\ Pending(r) /\ Stored(turn[r].connection)
        /\ connection[turn[r].connection].version # turn[r].held
        /\ turn[r].file = refreshed[turn[r].connection]
        => connection[turn[r].connection].version = refreshed[turn[r].connection]
  BY <1>c DEF CarryInv, Ahead
<1>1. CASE EndTurn(r)
  <2>1. /\ turn[r].phase = "working" /\ turn' = [turn EXCEPT ![r].phase =
             IF turn[r].file # turn[r].held THEN "reporting" ELSE "done"]
        /\ UNCHANGED <<connection, report, refreshed, lost>>
    BY <1>1 DEF EndTurn
  <2>2. /\ turn'[r] = [turn[r] EXCEPT !.phase = IF turn[r].file # turn[r].held THEN "reporting" ELSE "done"]
        /\ \A s \in Runs \ {r} : turn'[s] = turn[s]
    BY <1>t, <2>1
  <2>3. /\ turn'[r].connection = turn[r].connection /\ turn'[r].grant = turn[r].grant
        /\ turn'[r].held = turn[r].held /\ turn'[r].file = turn[r].file
        /\ turn'[r].phase = IF turn[r].file # turn[r].held THEN "reporting" ELSE "done"
    BY <1>t, <2>2 DEF Turn
  <2>4. \A s \in Runs : Pending(s)' <=> Pending(s)
    BY <2>1 DEF Pending
  <2>5. turn[r].file = turn[r].held => \/ turn[r].file # refreshed[turn[r].connection]
                                      \/ connection[turn[r].connection].version
                                           = refreshed[turn[r].connection]
    BY <1>c, <2>1 DEF Running
  <2>6. ~Pending(r)
    BY <2>1 DEF CarryInv, TurnInv
  <2> QED  BY <2>1, <2>2, <2>3, <2>4, <2>5, <2>6, TurnMovesOn DEF Running
<1>2. CASE Stopped(r)
  <2>1. /\ turn[r].phase \in {"working", "reporting"} /\ turn' = [turn EXCEPT ![r].phase = "done"]
        /\ lost' = IF turn[r].file # turn[r].held THEN lost \cup {turn[r].grant} ELSE lost
        /\ UNCHANGED <<connection, report, refreshed>>
    BY <1>2 DEF Stopped
  <2>2. /\ turn'[r] = [turn[r] EXCEPT !.phase = "done"]
        /\ \A s \in Runs \ {r} : turn'[s] = turn[s]
    BY <1>t, <2>1
  <2>3. /\ turn'[r].connection = turn[r].connection /\ turn'[r].grant = turn[r].grant
        /\ turn'[r].held = turn[r].held /\ turn'[r].file = turn[r].file
        /\ turn'[r].phase = "done"
    BY <1>t, <2>2 DEF Turn
  <2>4. \A s \in Runs : Pending(s)' <=> Pending(s)
    BY <2>1 DEF Pending
  <2>5. lost \subseteq lost' /\ (turn[r].file # turn[r].held => turn[r].grant \in lost')
    BY <2>1
  <2>6. turn[r].file = turn[r].held => \/ turn[r].file # refreshed[turn[r].connection]
                                      \/ connection[turn[r].connection].version
                                           = refreshed[turn[r].connection]
    BY <1>c, <2>1 DEF Running
  <2> QED  BY <2>1, <2>2, <2>3, <2>4, <2>5, <2>6, TurnMovesOn DEF Running
<1>3. CASE Send(r)
  <2>1. /\ turn[r].phase = "reporting" /\ UNCHANGED <<connection, turn, refreshed, lost>>
        /\ \A s \in Runs \ {r} : report'[s] = report[s]
    BY <1>3, <1>t DEF Send
  <2> QED  BY <1>t, <1>c, <2>1, TurnMovesOn DEF Running, Pending
<1>4. CASE GiveUp(r)
  <2>1. /\ turn[r].phase = "reporting" /\ turn' = [turn EXCEPT ![r].phase = "done"]
        /\ lost' = IF Pending(r) \/ ~Alone(r) THEN lost ELSE lost \cup {turn[r].grant}
        /\ UNCHANGED <<connection, report, refreshed>>
    BY <1>4 DEF GiveUp
  <2>2. /\ turn'[r] = [turn[r] EXCEPT !.phase = "done"]
        /\ \A s \in Runs \ {r} : turn'[s] = turn[s]
    BY <1>t, <2>1
  <2> QED  BY <1>t, <1>c, <2>1, <2>2, TurnMovesOn DEF Running, Turn, Pending, Alone
<1>5. CASE Check(r)
  <2> DEFINE handled == [report[r] EXCEPT !.arrived = @ - 1]
             i == turn[r].connection
  <2>1. report[r].arrived > 0 /\ UNCHANGED <<connection, refreshed, lost>>
    BY <1>5 DEF Check
  <2>2. /\ Pending(r) /\ turn[r].phase \in {"reporting", "done"} /\ handled \in Report
        /\ handled.arrived = report[r].arrived - 1 /\ handled.checked = report[r].checked
    <3>1. report[r].arrived - 1 \in Nat
      BY <1>n, <2>1
    <3>2. Pending(r)
      BY <1>n, <2>1 DEF Pending
    <3>3. turn[r].phase \in {"reporting", "done"}
      BY <3>2 DEF CarryInv, TurnInv
    <3>4. handled.arrived = report[r].arrived - 1 /\ handled.checked = report[r].checked
      BY <1>t DEF Report
    <3> QED  BY <1>t, <3>1, <3>2, <3>3, <3>4, ReportFields
  <2>3. CASE /\ report' = [report EXCEPT ![r] = [handled EXCEPT !.checked = @ + 1]]
             /\ UNCHANGED turn
    <3> HIDE DEF handled
    <3>1. report'[r] = [handled EXCEPT !.checked = @ + 1]
      BY <1>t, <2>3
    <3>2. report'[r].arrived = handled.arrived /\ report'[r].checked = handled.checked + 1
      BY <2>2, <3>1 DEF Report
    <3>3. \A s \in Runs \ {r} : report'[s] = report[s]
      BY <1>t, <2>3
    <3>4. Pending(r)'
      BY <1>n, <2>1, <2>2, <3>2 DEF Pending
    <3> HIDE DEF i
    <3> QED  BY <1>t, <1>c, <2>1, <2>2, <2>3, <3>3, <3>4, TurnMovesOn DEF Running, Pending
  <2>4. CASE /\ Answer(r, handled)
             /\ ~(Stored(i) /\ connection[i].grant = turn[r].grant /\ connection[i].version = turn[r].held)
    <3> HIDE DEF handled
    <3>1. /\ \A s \in Runs \ {r} : turn'[s] = turn[s] /\ report'[s] = report[s]
          /\ turn'[r] = turn[r] \/ turn'[r] = [turn[r] EXCEPT !.phase = "done"]
      BY <2>2, <2>4, Answered
    <3>2. ~Stored(i) \/ connection[i].version # turn[r].held
      BY <1>c, <2>2, <2>4 DEF Running
    <3>3. turn'[r].phase \in {"reporting", "done"}
      BY <1>t, <2>2, <3>1 DEF Turn
    <3>4. /\ turn'[r].connection = turn[r].connection /\ turn'[r].grant = turn[r].grant
          /\ turn'[r].held = turn[r].held /\ turn'[r].file = turn[r].file
      BY <1>t, <3>1 DEF Turn
    <3> QED  BY <1>p, <2>1, <2>2, <3>1, <3>2, <3>3, <3>4, TurnMovesOn DEF Running, Pending
  <2> QED  BY <1>5, <2>3, <2>4 DEF Check
<1>6. CASE HandlerFails(r)
  <2>1. /\ report[r].arrived > 0 /\ UNCHANGED <<connection, turn, refreshed>>
        /\ lost' = IF turn[r].phase = "reporting" THEN lost ELSE lost \cup {turn[r].grant}
        /\ \A s \in Runs \ {r} : report'[s] = report[s]
    BY <1>6, <1>t DEF HandlerFails
  <2>2. Pending(r)
    BY <1>n, <2>1 DEF Pending
  <2>3. turn[r].phase \in {"reporting", "done"}
    BY <2>2 DEF CarryInv, TurnInv
  <2> QED  BY <2>1, <2>2, <2>3, TurnMovesOn DEF Running, Pending
<1>7. CASE DeleteRun(r)
  <2>1. /\ turn[r].phase = "done" /\ ~Pending(r) /\ turn' = [turn EXCEPT ![r].phase = "deleted"]
        /\ UNCHANGED <<connection, report, refreshed, lost>>
    BY <1>7 DEF DeleteRun
  <2>2. /\ turn'[r] = [turn[r] EXCEPT !.phase = "deleted"]
        /\ \A s \in Runs \ {r} : turn'[s] = turn[s]
    BY <1>t, <2>1
  <2> QED  BY <1>t, <2>1, <2>2, TurnMovesOn DEF Running, Turn, Pending
<1> QED  BY <1>1, <1>2, <1>3, <1>4, <1>5, <1>6, <1>7

\* What TurnInv says of one turn.
TurnIs(r) ==
  /\ turn[r].connection = turn[r].grant
  /\ turn[r].phase \in Chosen => turn[r].connection \in Flows
  /\ turn[r].connection \in Flows =>
       /\ connection[turn[r].connection].state # "none"
       /\ turn[r].held <= connection[turn[r].connection].version
       /\ turn[r].held <= turn[r].file
       /\ turn[r].file <= refreshed[turn[r].connection]
  /\ turn[r].phase \in Submitted => Stored(turn[r].connection)
  /\ turn[r].phase \in {"none", "chosen", "queued"} => turn[r].held = 0 /\ turn[r].file = 0
  /\ Pending(r) => turn[r].phase \in {"reporting", "done"}

\* TurnInv is that of each.
LEMMA TurnIsSo == TurnInv <=> \A r \in Runs : TurnIs(r)
  BY DEF TurnInv, TurnIs

\* A step of a turn that has not refreshed its credential, before it runs.
LEMMA TurnBegins ==
  ASSUME CredentialTypeOK, CarryInv, NEW r \in Runs,
         UNCHANGED <<connection, report, refreshed, lost>>,
         \A s \in Runs \ {r} : turn'[s] = turn[s],
         turn[r].phase \in {"none", "chosen", "queued"},
         TurnIs(r)',
         turn'[r].held = turn'[r].file,
         \A s \in Runs \ {r} : turn'[r].connection \in Flows /\ turn[s].connection = turn'[r].connection
                               /\ connection[turn[s].connection].version = turn[s].held
                               => turn'[r].file <= turn[s].held
  PROVE  CarryInv'
<1>1. RowInv'
  BY DEF CarryInv, RowInv
<1>2. TurnInv'
  <2>1. ASSUME NEW s \in Runs \ {r} PROVE TurnIs(s)'
    <3>1. TurnIs(s)
      BY TurnIsSo DEF CarryInv
    <3> QED  BY <3>1 DEF TurnIs, Stored, Pending
  <2>2. \A s \in Runs : TurnIs(s)'
    BY <2>1
  <2> QED  BY <2>2 DEF TurnInv, TurnIs
<1>3. ASSUME NEW s \in Runs PROVE Ahead(s)'
  <2>1. CASE s = r
    BY <2>1 DEF Ahead
  <2>2. CASE s # r
    <3>1. Ahead(s) /\ TurnIs(s)
      BY TurnIsSo DEF CarryInv
    <3>2. turn'[s] = turn[s]
      BY <2>2
    <3> QED  BY <2>2, <3>1, <3>2 DEF Ahead, TurnIs, Chosen, Running
  <2> QED  BY <2>1, <2>2
<1>4. NewestIsCarried'
  <2> SUFFICES ASSUME NEW i \in Flows, Stored(i), connection[i].grant \notin lost
               PROVE  \/ connection[i].version = refreshed[connection[i].grant]
                      \/ \E s \in Runs :
                           /\ turn'[s].grant = connection[i].grant
                           /\ turn'[s].file = refreshed[connection[i].grant]
                           /\ turn'[s].phase \in {"working", "reporting"} \/ Pending(s)'
    BY DEF NewestIsCarried, Stored
  <2>1. ~Pending(r)
    BY DEF CarryInv, TurnInv
  <2>2. \A s \in Runs : Pending(s)' <=> Pending(s)
    BY DEF Pending
  <2> QED  BY <2>1, <2>2 DEF CarryInv, NewestIsCarried
<1> QED  BY <1>1, <1>2, <1>3, <1>4 DEF CarryInv

\* A run is given what the row has.
LEMMA TurnBeginsCarries ==
  ASSUME CredentialTypeOK, CarryInv, NEW r \in Runs,
         ChooseModel(r) \/ Submit(r) \/ MintForRun(r)
  PROVE  CarryInv'
<1> USE DEF signInVars
<1>t. /\ turn \in [Runs -> Turn] /\ turn[r] \in Turn
      /\ connection \in [Flows -> Row] /\ refreshed \in [Flows -> Nat]
  BY DEF CredentialTypeOK
<1>f. UNCHANGED <<connection, report, refreshed, lost>>
  BY DEF ChooseModel, Submit, MintForRun
<1>i. TurnIs(r) /\ RowInv
  BY TurnIsSo DEF CarryInv
<1>h. ASSUME NEW s \in Runs PROVE turn[s].held \in Nat /\ turn[s].file \in Nat
  BY <1>t DEF Turn
<1>1. CASE ChooseModel(r)
  <2>1. PICK i \in Live : turn' = [turn EXCEPT
       ![r] = [@ EXCEPT !.phase = "chosen", !.connection = i, !.grant = connection[i].grant]]
    BY <1>1 DEF ChooseModel
  <2>2. i \in Flows /\ connection[i].state = "live" /\ connection[i].grant = i
    BY <1>i DEF Live, RowInv
  <2>3. /\ turn'[r].phase = "chosen" /\ turn'[r].connection = i /\ turn'[r].grant = i
        /\ turn'[r].held = turn[r].held /\ turn'[r].file = turn[r].file
    BY <1>t, <2>1, <2>2 DEF Turn
  <2>4. \A s \in Runs \ {r} : turn'[s] = turn[s]
    BY <1>t, <2>1
  <2>5. turn[r].phase = "none" /\ turn[r].held = 0 /\ turn[r].file = 0 /\ ~Pending(r)
    BY <1>1, <1>i DEF ChooseModel, TurnIs
  <2>6. connection[i].version \in Nat /\ refreshed[i] \in Nat
    BY <1>t, <2>2 DEF Row
  <2>7. TurnIs(r)'
    BY <1>f, <2>2, <2>3, <2>5, <2>6 DEF TurnIs, Chosen, Submitted, Pending
  <2> QED  BY <1>f, <1>h, <2>3, <2>4, <2>5, <2>7, TurnBegins
<1>2. CASE Submit(r)
  <2>1. CASE Stored(turn[r].connection)
    <3>1. turn' = [turn EXCEPT ![r] = [@ EXCEPT !.phase = "queued"]] /\ turn[r].phase = "chosen"
      BY <1>2, <2>1 DEF Submit
    <3>2. /\ turn'[r].phase = "queued" /\ turn'[r].connection = turn[r].connection
          /\ turn'[r].grant = turn[r].grant
          /\ turn'[r].held = turn[r].held /\ turn'[r].file = turn[r].file
      BY <1>t, <3>1 DEF Turn
    <3>3. \A s \in Runs \ {r} : turn'[s] = turn[s]
      BY <1>t, <3>1
    <3>4. TurnIs(r)'
      BY <1>f, <1>i, <2>1, <3>1, <3>2 DEF TurnIs, Chosen, Submitted, Pending, Stored
    <3>5. turn[r].held = 0 /\ turn[r].file = 0
      BY <1>i, <3>1 DEF TurnIs
    <3> QED  BY <1>f, <1>h, <3>1, <3>2, <3>3, <3>4, <3>5, TurnBegins
  <2>2. CASE ~Stored(turn[r].connection)
    <3>1. turn' = [turn EXCEPT ![r] = NoTurn] /\ turn[r].phase = "chosen"
      BY <1>2, <2>2 DEF Submit
    <3>2. turn'[r] = NoTurn /\ \A s \in Runs \ {r} : turn'[s] = turn[s]
      BY <1>t, <3>1
    <3>3. NoFlow \notin Flows
      BY CredentialAssumption
    <3>4. TurnIs(r)'
      BY <1>f, <1>i, <3>1, <3>2, <3>3 DEF TurnIs, Chosen, Submitted, Pending, NoTurn
    <3> QED  BY <1>f, <3>1, <3>2, <3>3, <3>4, TurnBegins DEF NoTurn
  <2> QED  BY <2>1, <2>2
<1>3. CASE MintForRun(r)
  <2> DEFINE i == turn[r].connection
             v == connection[i].version
  <2>1. turn[r].phase = "queued" /\ Stored(i) /\ i \in Flows
    BY <1>3, <1>i DEF MintForRun, TurnIs, Chosen
  <2>2. turn' = [turn EXCEPT ![r].phase = "working", ![r].held = v, ![r].file = v]
    BY <1>3 DEF MintForRun
  <2>3. /\ turn'[r].phase = "working" /\ turn'[r].connection = i
        /\ turn'[r].grant = turn[r].grant
        /\ turn'[r].held = v /\ turn'[r].file = v
    <3> HIDE DEF v
    <3> QED  BY <1>t, <2>2 DEF Turn
  <2>4. \A s \in Runs \ {r} : turn'[s] = turn[s]
    BY <1>t, <2>2
  <2>5. v \in Nat /\ v <= refreshed[i] /\ refreshed[i] \in Nat /\ connection[i].state # "none"
    BY <1>t, <1>i, <2>1 DEF Row, RowInv, Stored
  <2>6. TurnIs(r)'
    BY <1>f, <1>i, <2>1, <2>3, <2>5 DEF TurnIs, Chosen, Submitted, Pending, Stored
  <2> QED  BY <1>f, <1>h, <2>1, <2>3, <2>4, <2>5, <2>6, TurnBegins
<1> QED  BY <1>1, <1>2, <1>3

\* A refresh leaves the newest credential with the turn that did it, and its old
\* one everywhere else.
LEMMA RefreshCarries ==
  ASSUME CredentialTypeOK, CarryInv, NEW r \in Runs, Refresh(r)
  PROVE  CarryInv'
<1> USE DEF signInVars
<1> DEFINE i == turn[r].connection
<1>t. /\ turn \in [Runs -> Turn] /\ turn[r] \in Turn
      /\ connection \in [Flows -> Row] /\ refreshed \in [Flows -> Nat]
  BY DEF CredentialTypeOK
<1>h. ASSUME NEW s \in Runs PROVE turn[s].held \in Nat /\ turn[s].file \in Nat
  BY <1>t DEF Turn
<1>i. ASSUME NEW s \in Runs PROVE TurnIs(s)
  BY TurnIsSo DEF CarryInv
<1>f. /\ UNCHANGED <<connection, report, lost>>
      /\ turn[r].phase = "working" /\ i = turn[r].grant /\ i \in Flows
      /\ turn[r].file = refreshed[i]
  BY <1>i DEF Refresh, TurnIs, Chosen
<1>v. connection[i].version \in Nat /\ refreshed[i] \in Nat /\ connection[i].version <= refreshed[i]
      /\ connection[i].grant = i /\ connection[i].state # "none"
  BY <1>t, <1>f, <1>i DEF Row, CarryInv, RowInv, TurnIs
<1>r. /\ refreshed'[i] = refreshed[i] + 1
      /\ \A g \in Flows \ {i} : refreshed'[g] = refreshed[g]
  BY <1>t, <1>f DEF Refresh
<1>s. /\ turn'[r].phase = "working" /\ turn'[r].connection = i /\ turn'[r].grant = i
      /\ turn'[r].held = turn[r].held /\ turn'[r].file = turn[r].file + 1
      /\ \A s \in Runs \ {r} : turn'[s] = turn[s]
  BY <1>t, <1>f DEF Refresh, Turn
<1>a. /\ connection[i].version = turn[r].held
      /\ \A s \in Runs \ {r} : turn[s].connection = i => turn[s].file <= turn[r].held
  <2>1. CASE turn[r].held # turn[r].file
    <3>1. Ahead(r)
      BY DEF CarryInv
    <3> QED  BY <1>f, <2>1, <3>1 DEF Ahead, Running
  <2>2. CASE turn[r].held = turn[r].file
    <3>1. turn[r].held <= connection[i].version
      BY <1>f, <1>i DEF TurnIs
    <3>2. connection[i].version = turn[r].held
      BY <1>f, <1>v, <1>h, <2>2, <3>1
    <3>3. ASSUME NEW s \in Runs \ {r}, turn[s].connection = i PROVE turn[s].file <= turn[r].held
      BY <1>f, <1>i, <2>2, <3>3 DEF TurnIs
    <3> QED  BY <3>2, <3>3
  <2> QED  BY <2>1, <2>2
<1> HIDE DEF i
<1>1. RowInv'
  <2>1. ASSUME NEW g \in Flows, connection[g].state # "none"
        PROVE  connection[g].grant = g /\ connection[g].version <= refreshed'[g]
    <3>1. /\ connection[g].grant = g /\ connection[g].version <= refreshed[g]
          /\ connection[g].version \in Nat /\ refreshed[g] \in Nat
      BY <1>t, <2>1 DEF CarryInv, RowInv, Row
    <3> QED  BY <1>r, <1>v, <3>1
  <2> QED  BY <1>f, <2>1 DEF RowInv
<1>2. TurnInv'
  <2>1. TurnIs(r)'
    <3>1. TurnIs(r)
      BY <1>i
    <3> QED  BY <1>f, <1>h, <1>r, <1>s, <1>v, <3>1 DEF TurnIs, Chosen, Submitted, Pending, Stored, i
  <2>2. ASSUME NEW s \in Runs \ {r} PROVE TurnIs(s)'
    <3>1. TurnIs(s) /\ turn'[s] = turn[s]
      BY <1>i, <1>s
    <3>2. turn[s].connection \in Flows => turn[s].file <= refreshed'[turn[s].connection]
      <4>1. turn[s].connection \in Flows => refreshed[turn[s].connection] \in Nat
        BY <1>t
      <4> QED  BY <1>h, <1>r, <1>v, <3>1, <4>1 DEF TurnIs
    <3> QED  BY <1>f, <3>1, <3>2 DEF TurnIs, Pending, Stored
  <2>3. \A s \in Runs : TurnIs(s)'
    BY <2>1, <2>2
  <2> QED  BY <2>3 DEF TurnInv, TurnIs
<1>3. ASSUME NEW s \in Runs PROVE Ahead(s)'
  <2>1. CASE s = r
    <3>1. /\ connection[i].version = turn[r].held /\ turn'[r].file = refreshed'[i]
          /\ \A q \in Runs : q # r /\ turn'[q].connection = i => turn'[q].file <= turn[r].held
      BY <1>a, <1>f, <1>r, <1>s
    <3> QED  BY <1>f, <1>s, <2>1, <3>1 DEF Ahead
  <2>2. CASE s # r
    <3>1. Ahead(s) /\ TurnIs(s) /\ turn'[s] = turn[s]
      BY <1>i, <1>s, <2>2 DEF CarryInv
    <3> SUFFICES ASSUME turn[s].phase \in Running, turn[s].held # turn[s].file
                 PROVE  LET g == turn[s].connection IN
                        \/ connection[g].version >= turn[s].file /\ turn[s].phase # "working"
                        \/ /\ connection[g].version = turn[s].held
                           /\ turn[s].file = refreshed'[g]
                           /\ \A q \in Runs : q # s /\ turn'[q].connection = g => turn'[q].file <= turn[s].held
      BY <1>f, <3>1 DEF Ahead
    <3>2. CASE turn[s].connection = i
      <4>1. turn[s].file <= turn[r].held
        BY <1>a, <2>2, <3>2
      <4>2. turn[s].held <= connection[i].version /\ turn[s].held <= turn[s].file
        BY <1>f, <3>1, <3>2 DEF TurnIs
      <4>3. ~(connection[i].version = turn[s].held)
        BY <1>a, <1>h, <4>1, <4>2
      <4> QED  BY <3>1, <3>2, <4>3 DEF Ahead
    <3>3. CASE turn[s].connection # i
      <4>1. turn[s].connection \in Flows
        BY <3>1 DEF TurnIs, Running, Chosen
      <4>2. refreshed'[turn[s].connection] = refreshed[turn[s].connection]
        BY <1>r, <3>3, <4>1
      <4>3. \A q \in Runs : turn'[q].connection = turn[s].connection => q # r /\ turn'[q] = turn[q]
        BY <1>s, <3>3
      <4> QED  BY <3>1, <4>2, <4>3 DEF Ahead
    <3> QED  BY <3>2, <3>3
  <2> QED  BY <2>1, <2>2
<1>4. NewestIsCarried'
  <2> SUFFICES ASSUME NEW g \in Flows, Stored(g), connection[g].grant \notin lost
               PROVE  \/ connection[g].version = refreshed'[connection[g].grant]
                      \/ \E s \in Runs :
                           /\ turn'[s].grant = connection[g].grant
                           /\ turn'[s].file = refreshed'[connection[g].grant]
                           /\ turn'[s].phase \in {"working", "reporting"} \/ Pending(s)'
    BY <1>f DEF NewestIsCarried, Stored
  <2>1. connection[g].grant = g
    BY DEF CarryInv, RowInv, Stored
  <2>2. CASE g = i
    BY <1>f, <1>r, <1>s, <2>1, <2>2
  <2>3. CASE g # i
    <3>1. \/ connection[g].version = refreshed[g]
          \/ \E s \in Runs : /\ turn[s].grant = g /\ turn[s].file = refreshed[g]
                             /\ turn[s].phase \in {"working", "reporting"} \/ Pending(s)
      BY <2>1 DEF CarryInv, NewestIsCarried
    <3>2. refreshed'[g] = refreshed[g]
      BY <1>r, <2>3
    <3>3. \A s \in Runs : turn[s].grant = g => s # r /\ turn'[s] = turn[s]
      BY <1>f, <1>s, <2>3
    <3>4. \A s \in Runs : Pending(s)' <=> Pending(s)
      BY <1>f DEF Pending
    <3> QED  BY <2>1, <3>1, <3>2, <3>3, <3>4
  <2> QED  BY <2>2, <2>3
<1> QED  BY <1>1, <1>2, <1>3, <1>4 DEF CarryInv

\* The report of r is handled: what a compare-and-set that fails means.
LEMMA PersistCarries ==
  ASSUME CredentialTypeOK, CarryInv, NEW r \in Runs, Persist(r)
  PROVE  CarryInv'
<1> USE DEF signInVars
<1> DEFINE i == turn[r].connection
           handled == [report[r] EXCEPT !.checked = @ - 1]
<1>t. /\ turn \in [Runs -> Turn] /\ turn[r] \in Turn /\ report \in [Runs -> Report]
      /\ report[r] \in Report
      /\ connection \in [Flows -> Row] /\ refreshed \in [Flows -> Nat]
  BY DEF CredentialTypeOK, Report
<1>h. ASSUME NEW s \in Runs PROVE turn[s].held \in Nat /\ turn[s].file \in Nat
  BY <1>t DEF Turn
<1>i. ASSUME NEW s \in Runs PROVE TurnIs(s) /\ Ahead(s)
  BY TurnIsSo DEF CarryInv
<1>f. UNCHANGED <<refreshed, lost>>
  BY DEF Persist
<1>p. Pending(r) /\ turn[r].phase \in {"reporting", "done"} /\ handled \in Report
  <2>1. report[r].checked > 0 /\ report[r].arrived \in Nat /\ report[r].checked \in Nat
    BY <1>t DEF Persist, Report
  <2>2. Pending(r)
    BY <2>1 DEF Pending
  <2>3. report[r].checked - 1 \in Nat
    BY <2>1
  <2> QED  BY <1>t, <1>i, <2>2, <2>3, ReportFields DEF TurnIs
<1>v. /\ i \in Flows /\ turn[r].grant = i
      /\ connection[i].version \in Nat /\ refreshed[i] \in Nat /\ connection[i].version <= refreshed[i]
      /\ connection[i].grant = i /\ connection[i].state # "none"
      /\ turn[r].held <= connection[i].version /\ turn[r].held <= turn[r].file
      /\ turn[r].file <= refreshed[i] /\ Stored(i)
  BY <1>t, <1>i, <1>p DEF Row, CarryInv, RowInv, TurnIs, Chosen, Submitted
<1>a. /\ \A s \in Runs \ {r} : turn'[s] = turn[s] /\ report'[s] = report[s]
      /\ turn'[r] = turn[r] \/ turn'[r] = [turn[r] EXCEPT !.phase = "done"]
  <2> HIDE DEF handled
  <2>1. Answer(r, handled)
    BY DEF Persist, handled
  <2> QED  BY <1>p, <2>1, Answered
<1>s. /\ turn'[r].phase \in {"reporting", "done"} /\ turn'[r].connection = i /\ turn'[r].grant = i
      /\ turn'[r].held = turn[r].held /\ turn'[r].file = turn[r].file
      /\ \A s \in Runs \ {r} : turn'[s] = turn[s]
  BY <1>a, <1>p, <1>t, <1>v DEF Turn
<1>o. \A s \in Runs \ {r} : Pending(s)' <=> Pending(s)
  BY <1>a DEF Pending
<1>c. connection' = CompareAndSet(i, turn[r].held, turn[r].file)
  BY DEF Persist
<1> HIDE DEF i, handled
<1>1. CASE connection[i].version # turn[r].held
  <2>1. connection' = connection
    BY <1>1, <1>c, <1>t, <1>v DEF CompareAndSet, Row
  <2>2. turn[r].file = refreshed[i] => connection[i].version = refreshed[i]
    BY <1>1, <1>h, <1>i, <1>p, <1>v DEF Ahead, Running, i
  <2> QED  BY <1>a, <1>f, <1>o, <1>p, <1>s, <1>v, <2>1, <2>2, TurnMovesOn DEF Running, i
<1>2. CASE connection[i].version = turn[r].held
  <2>1. /\ connection'[i].state = connection[i].state /\ connection'[i].grant = i
        /\ connection'[i].version = turn[r].file
        /\ \A g \in Flows \ {i} : connection'[g] = connection[g]
    BY <1>2, <1>c, <1>t, <1>v DEF CompareAndSet, Row
  <2>s. \A g \in Flows : /\ Stored(g)' <=> Stored(g)
                         /\ connection'[g].state = "none" <=> connection[g].state = "none"
                         /\ connection'[g].grant = connection[g].grant
    BY <1>v, <2>1 DEF Stored
  <2>m. ASSUME NEW g \in Flows, connection[g].state # "none"
        PROVE  /\ connection[g].version <= connection'[g].version
               /\ connection'[g].version <= refreshed[g] /\ connection'[g].grant = g
               /\ connection[g].version \in Nat /\ connection'[g].version \in Nat
    <3>1. connection[g].version \in Nat /\ connection[g].version <= refreshed[g] /\ connection[g].grant = g
      BY <1>t, <2>m DEF Row, CarryInv, RowInv
    <3> QED  BY <1>2, <1>h, <1>v, <2>1, <3>1
  <2>2. RowInv'
    BY <1>f, <2>m, <2>s DEF RowInv
  <2>3. TurnInv'
    <3>1. ASSUME NEW s \in Runs PROVE TurnIs(s)'
      <4>1. TurnIs(s)
        BY <1>i
      <4>2. /\ turn'[s].connection = turn[s].connection /\ turn'[s].grant = turn[s].grant
            /\ turn'[s].held = turn[s].held /\ turn'[s].file = turn[s].file
        BY <1>s, <1>v DEF i
      <4>3. turn[s].connection \in Flows => turn[s].held <= connection'[turn[s].connection].version
        BY <1>h, <2>m, <4>1 DEF TurnIs
      <4>4. /\ turn'[s].phase \in Chosen <=> turn[s].phase \in Chosen
            /\ turn'[s].phase \in Submitted <=> turn[s].phase \in Submitted
            /\ turn'[s].phase \in {"none", "chosen", "queued"} => turn[s].phase \in {"none", "chosen", "queued"}
            /\ Pending(s)' => turn'[s].phase \in {"reporting", "done"}
        BY <1>o, <1>p, <1>s, <4>1 DEF Chosen, Submitted, TurnIs
      <4>5. turn[s].phase \in Submitted => turn[s].connection \in Flows
        BY <4>1 DEF TurnIs, Submitted, Chosen
      <4> QED  BY <1>f, <2>s, <4>1, <4>2, <4>3, <4>4, <4>5 DEF TurnIs
    <3> QED  BY <3>1 DEF TurnInv, TurnIs
  <2>4. ASSUME NEW s \in Runs PROVE Ahead(s)'
    <3>1. CASE s = r
      BY <1>s, <1>h, <2>1, <3>1 DEF Ahead
    <3>2. CASE s # r
      <4>1. Ahead(s) /\ TurnIs(s) /\ turn'[s] = turn[s]
        BY <1>i, <1>s, <3>2
      <4> SUFFICES ASSUME turn[s].phase \in Running, turn[s].held # turn[s].file
                   PROVE  LET g == turn[s].connection IN
                          \/ connection'[g].version >= turn[s].file /\ turn[s].phase # "working"
                          \/ /\ connection'[g].version = turn[s].held
                             /\ turn[s].file = refreshed[g]
                             /\ \A q \in Runs : q # s /\ turn'[q].connection = g => turn'[q].file <= turn[s].held
        BY <1>f, <4>1 DEF Ahead
      <4>2. turn[s].connection \in Flows /\ connection[turn[s].connection].state # "none"
        BY <4>1 DEF TurnIs, Running, Chosen
      <4>3. CASE connection[turn[s].connection].version >= turn[s].file /\ turn[s].phase # "working"
        BY <1>h, <2>m, <4>2, <4>3
      <4>4. CASE /\ connection[turn[s].connection].version = turn[s].held
                 /\ turn[s].file = refreshed[turn[s].connection]
                 /\ \A q \in Runs : q # s /\ turn[q].connection = turn[s].connection
                                    => turn[q].file <= turn[s].held
        <5>1. connection'[turn[s].connection].version = turn[s].held
          <6>1. CASE turn[s].connection = i
            <7>1. turn[r].file <= turn[s].held
              BY <3>2, <4>4, <6>1 DEF i
            <7> QED  BY <1>2, <1>h, <1>v, <2>1, <4>4, <6>1, <7>1
          <6>2. CASE turn[s].connection # i
            BY <2>1, <4>2, <4>4, <6>2
          <6> QED  BY <6>1, <6>2
        <5>2. \A q \in Runs : turn'[q].connection = turn[q].connection /\ turn'[q].file = turn[q].file
          BY <1>s DEF i
        <5> QED  BY <4>4, <5>1, <5>2
      <4> QED  BY <4>1, <4>3, <4>4 DEF Ahead
    <3> QED  BY <3>1, <3>2
  <2>5. NewestIsCarried'
    <3> SUFFICES ASSUME NEW g \in Flows, Stored(g), g \notin lost
                 PROVE  \/ connection'[g].version = refreshed[g]
                        \/ \E s \in Runs : /\ turn'[s].grant = g /\ turn'[s].file = refreshed[g]
                                           /\ turn'[s].phase \in {"working", "reporting"} \/ Pending(s)'
      <4>1. ASSUME NEW g \in Flows, Stored(g) PROVE connection'[g].grant = g
        BY <2>m, <4>1 DEF Stored
      <4> QED  BY <1>f, <2>s, <4>1 DEF NewestIsCarried
    <3>1. connection[g].grant = g /\ connection[g].state # "none"
      BY DEF CarryInv, RowInv, Stored
    <3>2. \/ connection[g].version = refreshed[g]
          \/ \E s \in Runs : /\ turn[s].grant = g /\ turn[s].file = refreshed[g]
                             /\ turn[s].phase \in {"working", "reporting"} \/ Pending(s)
      BY <3>1 DEF CarryInv, NewestIsCarried
    <3>3. CASE connection[g].version = refreshed[g]
      <4>1. refreshed[g] \in Nat
        BY <1>t
      <4> QED  BY <2>m, <3>1, <3>3, <4>1
    <3>4. ASSUME NEW s \in Runs, turn[s].grant = g, turn[s].file = refreshed[g],
                 turn[s].phase \in {"working", "reporting"} \/ Pending(s)
          PROVE  \/ connection'[g].version = refreshed[g]
                 \/ /\ turn'[s].grant = g /\ turn'[s].file = refreshed[g]
                    /\ turn'[s].phase \in {"working", "reporting"} \/ Pending(s)'
      <4>1. CASE s = r
        BY <1>v, <2>1, <3>4, <4>1
      <4>2. CASE s # r
        BY <1>o, <1>s, <3>4, <4>2
      <4> QED  BY <4>1, <4>2
    <3> QED  BY <3>2, <3>3, <3>4
  <2> QED  BY <2>2, <2>3, <2>4, <2>5 DEF CarryInv
<1> QED  BY <1>1, <1>2

\* A runtime that does not wait any more leaves its report with the controller.
LEMMA TimeOutCarries ==
  ASSUME CredentialTypeOK, CarryInv, NEW r \in Runs, TimesOut(r)
  PROVE  CarryInv'
<1>1. UNCHANGED <<connection, turn, refreshed, lost>>
  BY DEF TimesOut, signInVars
<1>2. ASSUME NEW s \in Runs PROVE Pending(s)' <=> Pending(s)
  <2>1. report'[s].arrived = report[s].arrived /\ report'[s].checked = report[s].checked
    BY DEF TimesOut, CredentialTypeOK
  <2> QED  BY <2>1 DEF Pending
<1>3. RowInv'
  BY <1>1 DEF CarryInv, RowInv
<1>4. TurnInv'
  BY <1>1, <1>2 DEF CarryInv, TurnInv, Stored
<1>5. ASSUME NEW s \in Runs PROVE Ahead(s)'
  BY <1>1 DEF CarryInv, Ahead
<1>6. NewestIsCarried'
  BY <1>1, <1>2 DEF CarryInv, NewestIsCarried, Stored
<1> QED  BY <1>3, <1>4, <1>5, <1>6 DEF CarryInv

\* A controller that dies takes the reports along, and the credentials of the
\* turns that are over.
LEMMA RestartCarries ==
  ASSUME CredentialTypeOK, CarryInv, Restart
  PROVE  CarryInv'
<1>1. /\ UNCHANGED <<connection, turn, refreshed>>
      /\ lost' = lost \cup {turn[r].grant : r \in {s \in Runs : Pending(s) /\ turn[s].phase = "done"}}
  BY DEF Restart
<1>2. ASSUME NEW s \in Runs PROVE ~Pending(s)'
  <2>1. report'[s].arrived = 0 /\ report'[s].checked = 0
    BY DEF Restart, CredentialTypeOK
  <2> QED  BY <2>1 DEF Pending
<1>3. RowInv'
  BY <1>1 DEF CarryInv, RowInv
<1>4. TurnInv'
  BY <1>1, <1>2 DEF CarryInv, TurnInv, Stored
<1>5. ASSUME NEW s \in Runs PROVE Ahead(s)'
  BY <1>1 DEF CarryInv, Ahead
<1>6. NewestIsCarried'
  <2> SUFFICES ASSUME NEW i \in Flows, Stored(i), connection[i].grant \notin lost'
               PROVE  \/ connection[i].version = refreshed[connection[i].grant]
                      \/ \E s \in Runs :
                           /\ turn[s].grant = connection[i].grant
                           /\ turn[s].file = refreshed[connection[i].grant]
                           /\ turn[s].phase \in {"working", "reporting"}
    BY <1>1 DEF NewestIsCarried, Stored
  <2>1. ASSUME NEW s \in Runs, Pending(s), turn[s].grant = connection[i].grant
        PROVE  turn[s].phase = "reporting"
    <3>1. turn[s].phase \in {"reporting", "done"}
      BY <2>1 DEF CarryInv, TurnInv
    <3> QED  BY <1>1, <2>1, <3>1
  <2> QED  BY <1>1, <2>1 DEF CarryInv, NewestIsCarried
<1> QED  BY <1>3, <1>4, <1>5, <1>6 DEF CarryInv

-----------------------------------------------------------------------------
(* The sign-ins. *)

\* A sign-in that has not stored its row yet.
Before == {"idle", "login", "authorized", "found"}

\* The steps of a sign-in keep SignInInv.
LEMMA SignInWaits ==
  ASSUME CredentialTypeOK, SignInInv, NEW f \in Flows, SignIn(f)
  PROVE  SignInInv'
<1> USE DEF signInVars, turnVars
<1>t. /\ flow \in [Flows -> FlowRecord] /\ dialog \in [Flows -> {"none", "asked", "open", "told", "failed", "closed"}]
      /\ Flows \subseteq Nat
  BY CredentialAssumption DEF CredentialTypeOK
<1>s. ASSUME NEW g \in Flows
      PROVE  /\ flow[g].phase \in Before => connection[g].state = "none"
             /\ dialog[g] = "open" => flow[g].phase \in InMemory
             /\ dialog[g] = "asked" => flow[g].phase # "idle"
  BY DEF SignInInv, Before
\* The phase of a sign-in, and what its dialog shows.
<1>p. ASSUME NEW g \in Flows
      PROVE  /\ flow'[g].phase \in Before => flow[g].phase \in Before
             /\ dialog'[g] = "open" => flow'[g].phase \in InMemory
             /\ dialog'[g] = "asked" => flow'[g].phase # "idle"
  <2>1. CASE Start(f)
    <3>1. flow[f].phase = "idle" /\ flow'[f].phase = "login"
      BY <1>t, <2>1 DEF Start, FlowRecord
    <3>2. g # f => flow'[g].phase = flow[g].phase
      BY <1>t, <2>1 DEF Start, FlowRecord
    <3>3. dialog'[g] # dialog[g] => g = f
      BY <1>t, <2>1 DEF Start
    <3> QED  BY <1>s, <3>1, <3>2, <3>3 DEF Before, InMemory
  <2>2. CASE Login(f)
    <3>1. /\ flow[f].phase = "login" /\ flow'[f].phase = "authorized" /\ dialog' = dialog
          /\ g # f => flow'[g] = flow[g]
      BY <1>t, <2>2 DEF Login, FlowRecord
    <3> QED  BY <1>s, <3>1 DEF Before, InMemory
  <2>3. ASSUME NEW o \in Ended, End(f, o)
        PROVE  /\ flow'[g].phase \in Before => flow[g].phase \in Before
               /\ dialog'[g] = "open" => flow'[g].phase \in InMemory
               /\ dialog'[g] = "asked" => flow'[g].phase # "idle"
    <3>1. flow'[f].phase = o /\ (g # f => flow'[g] = flow[g])
      BY <1>t, <2>3 DEF End, FlowRecord
    <3>2. /\ dialog[f] = "open" => dialog'[f] = "told"
          /\ dialog'[f] # "open"
          /\ dialog'[g] \in {dialog[g], "told"}
      BY <1>t, <2>3 DEF End
    <3> QED  BY <1>s, <3>1, <3>2 DEF Before, InMemory, Ended
  <2>4. CASE LoginFails(f) \/ Create(f) \/ RotateFails(f) \/ PurgeRotated(f)
    BY <2>3, <2>4 DEF LoginFails, Create, RotateFails, PurgeRotated, Ended
  <2>5. CASE Expire(f)
    <3>1. flow'[g].phase = flow[g].phase /\ dialog' = dialog
      BY <1>t, <2>5 DEF Expire, FlowRecord
    <3> QED  BY <1>s, <3>1
  <2>6. CASE FindExisting(f)
    <3>1. PICK i : flow' = [flow EXCEPT ![f].phase = "found", ![f].existing = i]
      BY <2>6 DEF FindExisting
    <3>2. /\ flow[f].phase = "authorized" /\ flow'[f].phase = "found" /\ dialog' = dialog
          /\ g # f => flow'[g] = flow[g]
      BY <1>t, <2>6, <3>1 DEF FindExisting, FlowRecord
    <3> QED  BY <1>s, <3>2 DEF Before, InMemory
  <2>7. CASE Rotate(f)
    <3>1. /\ flow[f].phase = "found" /\ flow'[f].phase = "rotated" /\ dialog' = dialog
          /\ g # f => flow'[g] = flow[g]
      BY <1>t, <2>7 DEF Rotate, FlowRecord
    <3> QED  BY <1>s, <3>1 DEF Before, InMemory
  <2>8. CASE Subscribe(f)
    <3>1. /\ flow' = flow /\ dialog[f] = "asked"
          /\ dialog'[f] = IF flow[f].phase = "gone" THEN "failed"
                          ELSE IF flow[f].phase \in Ended THEN "told" ELSE "open"
          /\ g # f => dialog'[g] = dialog[g]
      BY <1>t, <2>8 DEF Subscribe
    <3>2. flow[f].phase \in {"idle", "gone"} \cup InMemory \cup Ended
      BY <1>t DEF FlowRecord
    <3> QED  BY <1>s, <3>1, <3>2
  <2>9. CASE Forget(f)
    <3>1. /\ flow[f].phase \in Ended /\ flow'[f].phase = "gone" /\ dialog' = dialog
          /\ g # f => flow'[g] = flow[g]
      BY <1>t, <2>9 DEF Forget, FlowRecord
    <3> QED  BY <1>s, <3>1 DEF Before, InMemory, Ended
  <2>10. CASE Close(f)
    <3>1. flow'[g].phase = flow[g].phase /\ dialog'[g] \in {dialog[g], "closed"}
      BY <1>t, <2>10 DEF Close, FlowRecord
    <3> QED  BY <1>s, <3>1
  <2>11. CASE Disconnect(f) \/ DeleteConnection(f)
    <3>1. flow' = flow /\ dialog'[g] \in {dialog[g], "failed"}
      BY <1>t, <2>11 DEF Disconnect, DeleteConnection
    <3> QED  BY <1>s, <3>1
  <2> QED  BY <2>1, <2>2, <2>4, <2>5, <2>6, <2>7, <2>8, <2>9, <2>10, <2>11 DEF SignIn, SignInStep
<1>r. ASSUME NEW g \in Flows, flow'[g].phase \in Before
      PROVE  connection'[g].state = "none"
  <2>1. RowStep(g) /\ connection[g].state = "none"
    BY <1>p, <1>r, <1>s, RowsStep
  <2> QED  BY <1>r, <2>1 DEF RowStep, Before
<1> QED  BY <1>p, <1>r DEF SignInInv, Before

\* Turns do not disturb the sign-ins.
LEMMA TurnsSpareSignIns ==
  ASSUME CredentialTypeOK, SignInInv, CarryInv, NEW r \in Runs, TurnStep(r)
  PROVE  SignInInv'
<1> USE DEF signInVars
<1>1. UNCHANGED <<flow, dialog>>
  BY DEF TurnStep, ChooseModel, Submit, MintForRun, Refresh, EndTurn, Stopped, Send, TimesOut, GiveUp,
     Check, Persist, HandlerFails, DeleteRun
<1>2. ASSUME NEW g \in Flows PROVE connection'[g].state = connection[g].state
  <2>1. CASE Persist(r)
    BY <2>1 DEF Persist, CompareAndSet, CredentialTypeOK, Row
  <2>2. CASE ~Persist(r)
    BY <2>2 DEF TurnStep, ChooseModel, Submit, MintForRun, Refresh, EndTurn, Stopped, Send, TimesOut,
       GiveUp, Check, HandlerFails, DeleteRun
  <2> QED  BY <2>1, <2>2
<1> QED  BY <1>1, <1>2 DEF SignInInv

\* A restart ends them, and their dialogs.
LEMMA RestartEndsSignIns ==
  ASSUME CredentialTypeOK, SignInInv, Restart \/ PurgeDeleted
  PROVE  SignInInv'
<1>1. CASE Restart
  <2>1. ASSUME NEW g \in Flows
        PROVE  /\ flow'[g].phase = IF flow[g].phase = "idle" THEN "idle" ELSE "gone"
               /\ dialog'[g] = IF dialog[g] = "open" THEN "failed" ELSE dialog[g]
    BY <1>1 DEF Restart, CredentialTypeOK, FlowRecord
  <2>2. UNCHANGED connection
    BY <1>1 DEF Restart
  <2> QED  BY <2>1, <2>2 DEF SignInInv, InMemory
<1>2. CASE PurgeDeleted
  <2>1. UNCHANGED <<flow, dialog>> /\ \A g \in Flows : RowStep(g)
    BY <1>2, PurgeStep DEF PurgeDeleted, signInVars
  <2> QED  BY <2>1 DEF SignInInv, RowStep
<1> QED  BY <1>1, <1>2

\* The inductive invariant of the model connections.
CredentialIInv == CredentialTypeOK /\ CredentialInv

\* It is inductive.
LEMMA CredentialStep == CredentialIInv /\ CredentialNext => CredentialIInv'
<1> SUFFICES ASSUME CredentialIInv, CredentialNext PROVE CredentialIInv'
  OBVIOUS
<1>1. CredentialTypeOK /\ SignInInv /\ TurnInv /\ CarryInv
  BY DEF CredentialIInv, CredentialInv, CarryInv
<1>2. ASSUME NEW f \in Flows, SignIn(f) PROVE CredentialIInv'
  <2>1. CredentialTypeOK'
    BY <1>1, <1>2, SignInTypes DEF SignIn
  <2> QED  BY <1>1, <1>2, <2>1, SignInWaits, SignInCarries DEF CredentialIInv, CredentialInv, CarryInv
<1>3. ASSUME NEW r \in Runs, TurnStep(r) PROVE CredentialIInv'
  <2>1. CredentialTypeOK' /\ SignInInv'
    BY <1>1, <1>3, TurnTypes, TurnsSpareSignIns
  <2>2. CarryInv'
    BY <1>1, <1>3, TurnStepCarries, TurnBeginsCarries, RefreshCarries, PersistCarries, TimeOutCarries
       DEF TurnStep
  <2> QED  BY <2>1, <2>2 DEF CredentialIInv, CredentialInv, CarryInv
<1>4. ASSUME Restart \/ PurgeDeleted PROVE CredentialIInv'
  <2>1. CredentialTypeOK' /\ SignInInv' /\ CarryInv'
    BY <1>1, <1>4, RestartTypes, RestartEndsSignIns, RestartCarries, PurgeCarries
  <2> QED  BY <2>1 DEF CredentialIInv, CredentialInv, CarryInv
<1> QED  BY <1>2, <1>3, <1>4 DEF CredentialNext, SignIn

-----------------------------------------------------------------------------
(* The tokens of the services. *)

\* The invariant of the services holds at the beginning.
LEMMA ServiceBegins == A!ConnectionInit => ServiceInv
<1> SUFFICES ASSUME A!ConnectionInit PROVE ServiceInv
  OBVIOUS
<1> USE DEF A!ConnectionInit
<1>a. /\ A!ConnectionAssumption
      /\ A!None = 0
  BY AccountAssumption DEF A!None
<1>1. A!ConnectionTypeOK
  <2>1. A!NoConnection \in A!Connection /\ A!Idle \in A!Request
    BY <1>a DEF A!NoConnection, A!Connection, A!Idle, A!Request, A!Purposes
  <2>2. state \in [Flows -> A!State]
    BY <1>a DEF A!State, A!Purposes
  <2>3. cookie \in [A!Purposes -> Flows \cup {A!None}] /\ client \in Nat /\ service \in Services
    BY <1>a DEF A!Plugin
  <2>4. newest \in [Flows -> 0 .. MaxVersion]
    <3>1. MaxVersion \in Nat
      BY AccountAssumption DEF A!ConnectionAssumption
    <3> QED  BY <3>1
  <2>5. died \subseteq Flows
    OBVIOUS
  <2>6. account \in [Users -> A!Connection] /\ request \in [Requests -> A!Request]
    BY <2>1
  <2> QED  BY <2>2, <2>3, <2>4, <2>5, <2>6 DEF A!ConnectionTypeOK
<1>2. /\ \A q \in Requests : request[q] = A!Idle
      /\ \A u \in Users : account[u] = A!NoConnection
      /\ \A f \in Flows : state[f].row = "none" /\ newest[f] = 0
  OBVIOUS
<1>3. RequestInv /\ StateInv
  BY <1>2 DEF RequestInv, StateInv, A!Idle
<1>4. CallbackInv /\ BackedInv
  BY <1>2 DEF CallbackInv, BackedInv, Took, Resolving, Backed, A!NoConnection, A!Idle
<1>5. IdInv /\ WriteInv
  BY <1>2 DEF IdInv, WriteInv, Resolving, Writing, A!Idle
<1>6. OneTokenInv /\ TokensAreNewest
  BY <1>2 DEF OneTokenInv, TokensAreNewest, Resolving, A!Idle, A!NoConnection
<1> QED  BY <1>1, <1>3, <1>4, <1>5, <1>6 DEF ServiceInv

-----------------------------------------------------------------------------
\* The parts of the invariant that are about tokens, and those about flows.
TokenInv == BackedInv /\ IdInv /\ WriteInv /\ OneTokenInv /\ TokensAreNewest

FlowInv == RequestInv /\ StateInv /\ CallbackInv

\* A step of q that leaves the connections and their grants alone.
LEMMA TokensKept ==
  ASSUME A!ConnectionTypeOK, FlowInv, TokenInv, NEW q \in Requests,
         UNCHANGED <<service, account>>, died \subseteq died',
         \A p \in Requests \ {q} : request'[p] = request[p],
         \A g \in Flows : state[g].row = "gone" =>
           /\ state'[g].row = "gone" /\ state'[g].purpose = state[g].purpose
           /\ state'[g].user = state[g].user
           /\ state'[g].account = state[g].account \/ state[g].account = Nobody
           /\ Took(q, g)' => Took(q, g),
         \A g \in Flows : newest'[g] = newest[g] \/ (newest'[g] = 1 /\ Took(q, g)),
         Resolving(q)' =>
           \/ /\ Resolving(q) /\ request'[q].user = request[q].user
              /\ request'[q].snapshot = request[q].snapshot
              /\ request'[q].refresh = request[q].refresh
              /\ Writing(q)' => Writing(q)
           \/ /\ request'[q].user \in Users /\ request'[q].snapshot = account[request'[q].user]
              /\ account[request'[q].user].grant # A!None
              /\ ~Writing(q)',
         Writing(q)' => Resolving(q)',
         Writing(q) => \/ Writing(q)' /\ Resolving(q)' /\ request'[q].snapshot = request[q].snapshot
                       \/ request[q].snapshot.grant \in died'
  PROVE  TokenInv'
<1>t. /\ state \in [Flows -> A!State] /\ account \in [Users -> A!Connection]
      /\ newest \in [Flows -> 0 .. MaxVersion] /\ request \in [Requests -> A!Request]
      /\ A!ConnectionAssumption
  BY AccountAssumption DEF A!ConnectionTypeOK
<1>n. A!None \notin Flows /\ Nobody \notin Users
  BY <1>t DEF A!ConnectionAssumption
<1>s. ASSUME NEW g, Settled(g) PROVE Settled(g)' /\ newest'[g] = newest[g]
  BY <1>s DEF Settled, Took
<1>o. ASSUME NEW g, Settled(g), NEW u \in Users, Owned(u, g) PROVE Owned(u, g)'
  BY <1>o, <1>n DEF Settled, Owned
<1>b. ASSUME NEW u \in Users, NEW c, Backed(u, c)
      PROVE  /\ Backed(u, c)'
             /\ c.grant # A!None => newest'[c.grant] = newest[c.grant] /\ c.grant \in Flows
  BY <1>b, <1>s, <1>o DEF Backed, Settled
<1>r. ASSUME NEW p \in Requests, Resolving(p)'
      PROVE  \/ /\ Resolving(p) /\ request'[p].user = request[p].user
                /\ request'[p].snapshot = request[p].snapshot
                /\ request'[p].refresh = request[p].refresh
                /\ Writing(p)' => Writing(p)
             \/ /\ request'[p].user \in Users /\ request'[p].snapshot = account[request'[p].user]
                /\ account[request'[p].user].grant # A!None
                /\ ~Writing(p)'
  <2>1. CASE p = q
    BY <1>r, <2>1
  <2>2. CASE p # q
    BY <1>r, <2>2 DEF Resolving, Writing
  <2> QED  BY <2>1, <2>2
<1>w. ASSUME NEW p \in Requests, Writing(p)' PROVE Resolving(p)' /\ Writing(p)
  <2>1. CASE p = q
    BY <1>w, <2>1
  <2>2. CASE p # q
    BY <1>w, <2>2 DEF FlowInv, RequestInv, Resolving, Writing
  <2> QED  BY <2>1, <2>2
<1>1. BackedInv'
  <2>1. ASSUME NEW u \in Users PROVE Backed(u, account[u])'
    BY <1>b DEF TokenInv, BackedInv, Backed, Settled, Owned, Took
  <2>2. ASSUME NEW p \in Requests, Resolving(p)'
        PROVE  /\ request'[p].user \in Users /\ request'[p].snapshot.grant \in Flows
               /\ Backed(request[p].user, request[p].snapshot)'
    <3>1. PICK v \in Users, g \in Flows :
            /\ v = request'[p].user /\ g = request'[p].snapshot.grant
            /\ Settled(g) /\ Owned(v, g) /\ request'[p].snapshot.refresh <= newest[g]
            /\ 1 <= newest[g]
      <4>1. CASE /\ Resolving(p) /\ request'[p].user = request[p].user
                 /\ request'[p].snapshot = request[p].snapshot
        <5>1. /\ request[p].user \in Users /\ request[p].snapshot.grant \in Flows
              /\ Backed(request[p].user, request[p].snapshot)
          BY <4>1 DEF TokenInv, BackedInv
        <5> QED  BY <1>n, <4>1, <5>1 DEF Backed
      <4>2. CASE /\ request'[p].user \in Users /\ request'[p].snapshot = account[request'[p].user]
                 /\ account[request'[p].user].grant # A!None
        BY <4>2 DEF TokenInv, BackedInv, Backed, Settled
      <4> QED  BY <1>r, <2>2, <4>1, <4>2
    <3>2. Settled(g)' /\ newest'[g] = newest[g] /\ Owned(v, g)'
      BY <1>s, <1>o, <3>1
    <3> QED  BY <1>n, <3>1, <3>2 DEF Backed, Settled, Owned, Took
  <2> QED  BY <2>1, <2>2 DEF BackedInv
<1>g. ASSUME NEW u \in Users, account[u].grant # A!None
      PROVE  account[u].grant \in Flows /\ newest'[account[u].grant] = newest[account[u].grant]
  <2>1. Backed(u, account[u])
    BY DEF TokenInv, BackedInv
  <2> QED  BY <1>b, <1>g, <2>1
<1>h. ASSUME NEW p \in Requests, Resolving(p)
      PROVE  newest'[request[p].snapshot.grant] = newest[request[p].snapshot.grant]
  <2>1. Backed(request[p].user, request[p].snapshot) /\ request[p].user \in Users
        /\ request[p].snapshot.grant \in Flows
    BY <1>h DEF TokenInv, BackedInv
  <2> QED  BY <1>b, <1>n, <2>1
<1>2. IdInv'
  <2>1. ASSUME NEW u \in Users, NEW p \in Requests, Resolving(p)',
               account[u].grant = request'[p].snapshot.grant
        PROVE  account[u].id = request'[p].snapshot.id
    <3>1. ASSUME NEW v \in Users, account[u].grant = account[v].grant, account[u].grant # A!None
          PROVE  u = v
      <4>1. Backed(u, account[u]) /\ Backed(v, account[v])
        BY DEF TokenInv, BackedInv
      <4> QED  BY <3>1, <4>1 DEF Backed, Owned
    <3> QED  BY <1>r, <2>1, <3>1 DEF TokenInv, IdInv
  <2>2. ASSUME NEW p \in Requests, NEW s \in Requests, Resolving(p)', Resolving(s)',
               request'[p].snapshot.grant = request'[s].snapshot.grant
        PROVE  request'[p].snapshot.id = request'[s].snapshot.id
    <3>1. CASE Resolving(p) /\ request'[p].snapshot = request[p].snapshot
               /\ Resolving(s) /\ request'[s].snapshot = request[s].snapshot
      BY <2>2, <3>1 DEF TokenInv, IdInv
    <3>2. CASE request'[p].user \in Users /\ request'[p].snapshot = account[request'[p].user]
      BY <2>1, <2>2, <3>2
    <3>3. CASE request'[s].user \in Users /\ request'[s].snapshot = account[request'[s].user]
      BY <2>1, <2>2, <3>3
    <3> QED  BY <1>r, <2>2, <3>1, <3>2, <3>3
  <2> QED  BY <2>1, <2>2 DEF IdInv
<1>3. WriteInv'
  <2> SUFFICES ASSUME NEW p \in Requests, Writing(p)'
               PROVE  LET f == request'[p].snapshot.grant IN
                      IF A!Rotating
                      THEN /\ request'[p].refresh = newest'[f]
                           /\ \A u \in Users : account[u].grant = f => account[u].refresh < newest'[f]
                           /\ \A s \in Requests : s # p /\ Resolving(s)' /\ request'[s].snapshot.grant = f =>
                                request'[s].snapshot.refresh < newest'[f] /\ ~Writing(s)'
                      ELSE request'[p].refresh = A!None
    BY DEF WriteInv, A!Rotating
  <2> DEFINE f == request[p].snapshot.grant
  <2>1. /\ Writing(p) /\ Resolving(p) /\ request'[p].snapshot = request[p].snapshot
        /\ request'[p].refresh = request[p].refresh /\ newest'[f] = newest[f]
    BY <1>r, <1>w, <1>h
  <2>2. CASE A!Rotating
    <3>1. /\ request[p].refresh = newest[f]
          /\ \A u \in Users : account[u].grant = f => account[u].refresh < newest[f]
          /\ \A s \in Requests : s # p /\ Resolving(s) /\ request[s].snapshot.grant = f =>
                     request[s].snapshot.refresh < newest[f] /\ ~Writing(s)
      BY <2>1, <2>2 DEF TokenInv, WriteInv
    <3>2. ASSUME NEW s \in Requests, s # p, Resolving(s)', request'[s].snapshot.grant = f
          PROVE  request'[s].snapshot.refresh < newest[f] /\ ~Writing(s)'
      BY <1>r, <3>1, <3>2
    <3> QED  BY <2>1, <2>2, <3>1, <3>2
  <2>3. CASE ~A!Rotating
    BY <2>1, <2>3 DEF TokenInv, WriteInv
  <2> QED  BY <2>2, <2>3
<1>4. OneTokenInv'
  <2> SUFFICES ASSUME ~A!Rotating
               PROVE  /\ \A g \in Flows : newest'[g] <= 1
                      /\ \A u \in Users : account[u].grant # A!None => account[u].refresh = 1
                      /\ \A p \in Requests : Resolving(p)' => request'[p].snapshot.refresh = 1
    BY DEF OneTokenInv, A!Rotating
  <2>1. \A g \in Flows : newest'[g] <= 1
    BY DEF TokenInv, OneTokenInv
  <2> QED  BY <1>r, <2>1 DEF TokenInv, OneTokenInv
<1>5. TokensAreNewest'
  <2> SUFFICES ASSUME NEW u \in Users, account[u].grant \notin died' \cup {A!None}
               PROVE  \/ account[u].refresh = newest'[account[u].grant]
                      \/ \E p \in Requests : /\ request'[p].phase = "write"
                                             /\ request'[p].snapshot.grant = account[u].grant
                                             /\ request'[p].refresh = newest'[account[u].grant]
    BY DEF TokensAreNewest
  <2> DEFINE f == account[u].grant
  <2>1. newest'[f] = newest[f]
    BY <1>g
  <2>2. \/ account[u].refresh = newest[f]
        \/ \E p \in Requests : Writing(p) /\ request[p].snapshot.grant = f /\ request[p].refresh = newest[f]
    BY DEF TokenInv, TokensAreNewest, Writing
  <2>3. ASSUME NEW p \in Requests, Writing(p), request[p].snapshot.grant = f, request[p].refresh = newest[f]
        PROVE  Writing(p)' /\ request'[p].snapshot.grant = f /\ request'[p].refresh = newest[f]
    <3>1. CASE p = q
      BY <1>r, <2>3, <3>1
    <3>2. CASE p # q
      BY <2>3, <3>2 DEF Writing
    <3> QED  BY <3>1, <3>2
  <2> QED  BY <2>1, <2>2, <2>3 DEF Writing
<1> QED  BY <1>1, <1>2, <1>3, <1>4, <1>5 DEF TokenInv

\* Nobody else has a connection or a copy of one with the grant of a user.
LEMMA GrantOfOne ==
  ASSUME BackedInv, NEW u \in Users, NEW v \in Users, NEW c, Backed(u, c),
         account[v].grant = c.grant, c.grant # A!None
  PROVE  u = v
<1>1. Backed(v, account[v])
  BY DEF BackedInv
<1> QED  BY <1>1 DEF Backed, Owned

\* A user who disconnects takes a connection away.
LEMMA DisconnectKeeps ==
  ASSUME A!ConnectionTypeOK, FlowInv, TokenInv, NEW u \in Users, A!Disconnect(u)
  PROVE  TokenInv'
<1>1. /\ UNCHANGED <<service, state, newest, request, died>>
      /\ account'[u] = A!NoConnection
      /\ \A v \in Users \ {u} : account'[v] = account[v]
  BY DEF A!Disconnect, A!ConnectionTypeOK
<1>2. account'[u].grant = A!None /\ account'[u].refresh = A!None
  BY <1>1 DEF A!NoConnection
<1>n. A!None \notin Flows
  BY AccountAssumption DEF A!ConnectionAssumption
<1>b. \A q \in Requests : Resolving(q) => request[q].snapshot.grant \in Flows
  BY DEF TokenInv, BackedInv
<1>w. \A q \in Requests : Writing(q) => Resolving(q)
  BY DEF FlowInv, RequestInv, Writing, Resolving
<1>3. BackedInv'
  <2>1. ASSUME NEW v \in Users PROVE Backed(v, account[v])'
    <3>1. Backed(v, account[v])
      BY DEF TokenInv, BackedInv
    <3>2. CASE v = u
      BY <1>2, <3>2 DEF Backed
    <3>3. CASE v # u
      <4>1. account'[v] = account[v]
        BY <1>1, <3>3
      <4> QED  BY <1>1, <3>1, <4>1 DEF Backed, Settled, Owned, Took
    <3> QED  BY <3>2, <3>3
  <2>2. ASSUME NEW q \in Requests, Resolving(q)
        PROVE  /\ request[q].user \in Users /\ request[q].snapshot.grant \in Flows
               /\ Backed(request[q].user, request[q].snapshot)'
    <3>1. /\ request[q].user \in Users /\ request[q].snapshot.grant \in Flows
          /\ Backed(request[q].user, request[q].snapshot)
      BY <2>2 DEF TokenInv, BackedInv
    <3> QED  BY <1>1, <3>1 DEF Backed, Settled, Owned, Took
  <2> QED  BY <1>1, <2>1, <2>2 DEF BackedInv, Resolving
<1>4. IdInv'
  BY <1>1, <1>2, <1>b, <1>n DEF TokenInv, IdInv, Resolving
<1>5. WriteInv'
  BY <1>1, <1>2, <1>b, <1>n, <1>w DEF TokenInv, WriteInv, Writing, Resolving, A!Rotating
<1>6. OneTokenInv'
  BY <1>1, <1>2 DEF TokenInv, OneTokenInv, Resolving, A!Rotating
<1>7. TokensAreNewest'
  BY <1>1, <1>2 DEF TokenInv, TokensAreNewest
<1> QED  BY <1>3, <1>4, <1>5, <1>6, <1>7 DEF TokenInv

\* A callback that saves its connection is the only one with the grant, whose
\* first token it has.
LEMMA SaveKeeps ==
  ASSUME A!ConnectionTypeOK, FlowInv, TokenInv, NEW q \in Requests, A!Save(q)
  PROVE  TokenInv'
<1>t. /\ request \in [Requests -> A!Request] /\ account \in [Users -> A!Connection]
      /\ newest \in [Flows -> 0 .. MaxVersion] /\ state \in [Flows -> A!State]
  BY DEF A!ConnectionTypeOK
<1>n. A!None \notin Flows /\ Nobody \notin Users /\ A!None = 0
  BY AccountAssumption DEF A!ConnectionAssumption, A!None
<1>f. PICK f \in Flows :
      /\ f = request[q].flow /\ request[q].phase = "save" /\ request[q].task = "callback"
      /\ Took(q, f) /\ state[f].row = "gone" /\ request[q].refresh = 1 /\ newest[f] = 1
      /\ request[q].purpose = state[f].purpose /\ state[f].account \in Users
      /\ request[q].purpose = "connect" => request[q].user \in Users
  BY DEF A!Save, FlowInv, RequestInv, CallbackInv, Took
<1>s. /\ UNCHANGED <<service, state, newest, died>>
      /\ request'[q] = A!Idle /\ \A p \in Requests \ {q} : request'[p] = request[p]
  BY <1>t DEF A!Save, A!Finished, A!Go
<1>u. PICK u \in Users : u = A!Owner(q)
  BY <1>f, <1>t DEF A!Owner, A!Request, A!Purposes
<1>q. ~Resolving(q) /\ ~Resolving(q)' /\ ~Writing(q) /\ ~Writing(q)'
  BY <1>f, <1>s DEF Resolving, Writing, A!Idle
<1>p. ASSUME NEW p \in Requests, Resolving(p)' \/ Writing(p)'
      PROVE  p # q /\ request'[p] = request[p] /\ Resolving(p)
  BY <1>q, <1>s, <1>p DEF Resolving, Writing, FlowInv, RequestInv
<1>o. \A g \in Flows : Settled(g) => Settled(g)' /\ g # f
  <2>1. \A g \in Flows : ~Took(q, g)'
    BY <1>s DEF Took, A!Idle
  <2> QED  BY <1>f, <1>s, <2>1 DEF Settled, Took
<1>d. Settled(f)'
  <2>1. ASSUME NEW p \in Requests PROVE ~Took(p, f)'
    <3>1. CASE p = q
      BY <1>s, <3>1 DEF Took, A!Idle
    <3>2. CASE p # q
      <4>1. ~Took(p, f)
        BY <1>f, <3>2 DEF FlowInv, CallbackInv
      <4> QED  BY <1>s, <3>2, <4>1 DEF Took
    <3> QED  BY <3>1, <3>2
  <2> QED  BY <1>f, <1>s, <2>1 DEF Settled, Took
<1>a. \/ account' = account
      \/ /\ \A v \in Users \ {u} : account'[v] = account[v]
         /\ account'[u].grant = f /\ account'[u].refresh = 1
         /\ A!Admitted(q)
  BY <1>f, <1>t, <1>u DEF A!Save
<1>w. A!Admitted(q) => Owned(u, f)
  BY <1>f, <1>u DEF A!Admitted, A!Owner, Owned
<1>r. ASSUME NEW p \in Requests, Resolving(p)
      PROVE  /\ request[p].user \in Users /\ Settled(request[p].snapshot.grant)
             /\ request[p].snapshot.grant \in Flows /\ request[p].snapshot.grant # f
             /\ Backed(request[p].user, request[p].snapshot)
  <2>1. /\ request[p].user \in Users /\ request[p].snapshot.grant \in Flows
        /\ Backed(request[p].user, request[p].snapshot)
    BY <1>r DEF TokenInv, BackedInv
  <2> QED  BY <1>n, <1>o, <2>1 DEF Backed
<1>3. BackedInv'
  <2>1. ASSUME NEW v \in Users PROVE Backed(v, account[v])'
    <3>1. Backed(v, account[v])
      BY DEF TokenInv, BackedInv
    <3>2. CASE account'[v] = account[v]
      <4>1. CASE account[v].grant = A!None
        BY <3>1, <3>2, <4>1 DEF Backed
      <4>2. CASE account[v].grant # A!None
        <5>1. PICK g \in Flows : g = account[v].grant /\ Settled(g)
          BY <3>1, <4>2 DEF Backed, Settled
        <5>2. Settled(g)'
          BY <1>o, <5>1
        <5> QED  BY <1>s, <3>1, <3>2, <4>2, <5>1, <5>2 DEF Backed, Owned, Settled, Took
      <4> QED  BY <4>1, <4>2
    <3>3. CASE v = u /\ account'[u].grant = f /\ account'[u].refresh = 1 /\ A!Admitted(q)
      BY <1>s, <1>d, <1>f, <1>n, <1>w, <3>3 DEF Backed, Owned, Settled, Took
    <3> QED  BY <1>a, <3>2, <3>3
  <2>2. ASSUME NEW p \in Requests, Resolving(p)'
        PROVE  /\ request'[p].user \in Users /\ request'[p].snapshot.grant \in Flows
               /\ Backed(request[p].user, request[p].snapshot)'
    <3>1. /\ request[p].user \in Users /\ request[p].snapshot.grant \in Flows
          /\ Backed(request[p].user, request[p].snapshot) /\ request'[p] = request[p]
      BY <1>p, <1>r, <2>2
    <3>2. PICK g \in Flows : g = request[p].snapshot.grant /\ Settled(g)
      BY <1>n, <3>1 DEF Backed
    <3>3. Settled(g)'
      BY <1>o, <3>2
    <3> QED  BY <1>s, <1>n, <3>1, <3>2, <3>3 DEF Backed, Settled, Owned, Took
  <2> QED  BY <2>1, <2>2 DEF BackedInv
<1>4. IdInv'
  <2>1. ASSUME NEW v \in Users, NEW p \in Requests, Resolving(p)',
               account'[v].grant = request'[p].snapshot.grant
        PROVE  account'[v].id = request'[p].snapshot.id
    BY <1>a, <1>p, <1>r, <2>1 DEF TokenInv, IdInv
  <2>2. ASSUME NEW p \in Requests, NEW s \in Requests, Resolving(p)', Resolving(s)',
               request'[p].snapshot.grant = request'[s].snapshot.grant
        PROVE  request'[p].snapshot.id = request'[s].snapshot.id
    BY <1>p, <2>2 DEF TokenInv, IdInv
  <2> QED  BY <2>1, <2>2 DEF IdInv
<1>5. WriteInv'
  <2> SUFFICES ASSUME NEW p \in Requests, Writing(p)'
               PROVE  LET g == request'[p].snapshot.grant IN
                      IF A!Rotating
                      THEN /\ request'[p].refresh = newest[g]
                           /\ \A v \in Users : account'[v].grant = g => account'[v].refresh < newest[g]
                           /\ \A s \in Requests : s # p /\ Resolving(s)' /\ request'[s].snapshot.grant = g =>
                                request'[s].snapshot.refresh < newest[g] /\ ~Writing(s)'
                      ELSE request'[p].refresh = A!None
    BY <1>s DEF WriteInv, A!Rotating
  <2>1. request'[p] = request[p] /\ Resolving(p) /\ Writing(p)
    BY <1>p DEF Writing
  <2>2. \A s \in Requests : Resolving(s)' => request'[s] = request[s] /\ Resolving(s) /\ (Writing(s)' => Writing(s))
    BY <1>p DEF Writing
  <2> QED  BY <1>a, <1>r, <2>1, <2>2 DEF TokenInv, WriteInv
<1>6. OneTokenInv'
  <2> SUFFICES ASSUME ~A!Rotating
               PROVE  /\ \A g \in Flows : newest[g] <= 1
                      /\ \A v \in Users : account'[v].grant # A!None => account'[v].refresh = 1
                      /\ \A p \in Requests : Resolving(p)' => request'[p].snapshot.refresh = 1
    BY <1>s DEF OneTokenInv, A!Rotating
  <2> QED  BY <1>a, <1>p DEF TokenInv, OneTokenInv
<1>7. TokensAreNewest'
  <2> SUFFICES ASSUME NEW v \in Users, account'[v].grant \notin died \cup {A!None}
               PROVE  \/ account'[v].refresh = newest[account'[v].grant]
                      \/ \E p \in Requests : /\ Writing(p)'
                                             /\ request'[p].snapshot.grant = account'[v].grant
                                             /\ request'[p].refresh = newest[account'[v].grant]
    BY <1>s DEF TokensAreNewest, Writing
  <2>1. CASE account'[v] = account[v]
    <3>1. \/ account[v].refresh = newest[account[v].grant]
          \/ \E p \in Requests : /\ Writing(p) /\ request[p].snapshot.grant = account[v].grant
                                 /\ request[p].refresh = newest[account[v].grant]
      BY <2>1 DEF TokenInv, TokensAreNewest, Writing
    <3>2. \A p \in Requests : Writing(p) => request'[p] = request[p] /\ Writing(p)'
      BY <1>q, <1>s DEF Writing
    <3> QED  BY <2>1, <3>1, <3>2
  <2>2. CASE account'[v].grant = f /\ account'[v].refresh = 1
    BY <1>f, <2>2
  <2> QED  BY <1>a, <2>1, <2>2
<1> QED  BY <1>3, <1>4, <1>5, <1>6, <1>7 DEF TokenInv

\* The grant of a request that refreshes is settled and its row has one owner.
LEMMA Resolves ==
  ASSUME A!ConnectionTypeOK, BackedInv, NEW q \in Requests, Resolving(q)
  PROVE  \E f \in Flows, u \in Users :
           /\ f = request[q].snapshot.grant /\ u = request[q].user
           /\ Settled(f) /\ Owned(u, f) /\ request[q].snapshot.refresh <= newest[f]
           /\ 1 <= newest[f] /\ newest[f] \in Nat
           /\ f # A!None /\ \A v \in Users : account[v].grant = f => v = u
<1>1. /\ request[q].user \in Users /\ request[q].snapshot.grant \in Flows
      /\ Backed(request[q].user, request[q].snapshot)
  BY DEF BackedInv
<1>2. A!None \notin Flows
  BY AccountAssumption DEF A!ConnectionAssumption
<1>3. newest[request[q].snapshot.grant] \in Nat
  <2>1. MaxVersion \in Nat
    BY AccountAssumption DEF A!ConnectionAssumption
  <2>2. newest[request[q].snapshot.grant] \in 0 .. MaxVersion
    BY <1>1 DEF A!ConnectionTypeOK
  <2> QED  BY <2>1, <2>2
<1>4. \A v \in Users : account[v].grant = request[q].snapshot.grant => v = request[q].user
  BY <1>1, <1>2, GrantOfOne
<1> QED  BY <1>1, <1>2, <1>3, <1>4 DEF Backed

\* A refresh takes the newest token of a grant: with a provider that rotates
\* nobody else can do so until this one is stored.
LEMMA RefreshKeeps ==
  ASSUME A!ConnectionTypeOK, FlowInv, TokenInv, NEW q \in Requests, A!Refresh(q)
  PROVE  TokenInv'
<1>t. /\ request \in [Requests -> A!Request] /\ account \in [Users -> A!Connection]
      /\ newest \in [Flows -> 0 .. MaxVersion]
  BY DEF A!ConnectionTypeOK
<1>n. A!None \notin Flows /\ A!None = 0 /\ MaxVersion \in Nat
  BY AccountAssumption DEF A!ConnectionAssumption, A!None
<1>q. request[q].phase = "refresh" /\ Resolving(q) /\ ~Writing(q) /\ request[q].refresh = A!None
  BY DEF A!Refresh, FlowInv, RequestInv, Resolving, Writing
<1>f. PICK f \in Flows, u \in Users :
        /\ f = request[q].snapshot.grant /\ u = request[q].user
        /\ Settled(f) /\ Owned(u, f) /\ 1 <= newest[f] /\ newest[f] \in Nat
        /\ \A v \in Users : account[v].grant = f => v = u
  BY <1>q, Resolves DEF TokenInv
<1>s. /\ UNCHANGED <<service, cookie, state, client, account, died>>
      /\ request[q].snapshot.refresh = newest[f]
      /\ \A p \in Requests \ {q} : request'[p] = request[p]
  BY <1>f, <1>t DEF A!Refresh, A!Go
<1>k. /\ request'[q].phase = "write" /\ request'[q].task = request[q].task
      /\ request'[q].user = request[q].user /\ request'[q].snapshot = request[q].snapshot
      /\ request'[q].flow = request[q].flow
      /\ A!Rotating => /\ newest' = [newest EXCEPT ![f] = @ + 1]
                       /\ newest[f] < MaxVersion /\ request'[q].refresh = newest[f] + 1
      /\ ~A!Rotating => newest' = newest /\ request'[q].refresh = A!None
  <2>1. CASE A!Rotating
    <3>1. /\ newest' = [newest EXCEPT ![f] = @ + 1] /\ newest[f] < MaxVersion
          /\ request' = [request EXCEPT ![q] =
               [request[q] EXCEPT !.phase = "write", !.refresh = newest[f] + 1]]
      BY <1>f, <2>1 DEF A!Refresh, A!Go
    <3>2. request'[q] = [request[q] EXCEPT !.phase = "write", !.refresh = newest[f] + 1]
      BY <1>t, <3>1
    <3> QED  BY <1>t, <2>1, <3>1, <3>2 DEF A!Request
  <2>2. CASE ~A!Rotating
    <3>1. /\ newest' = newest /\ request' = [request EXCEPT ![q] = [request[q] EXCEPT !.phase = "write"]]
      BY <2>2 DEF A!Refresh, A!Go
    <3>2. request'[q] = [request[q] EXCEPT !.phase = "write"]
      BY <1>t, <3>1
    <3> QED  BY <1>q, <1>t, <2>2, <3>1, <3>2 DEF A!Request
  <2> QED  BY <2>1, <2>2
<1>r. /\ A!Rotating => /\ newest' = [newest EXCEPT ![f] = @ + 1]
                       /\ newest[f] < MaxVersion /\ request'[q].refresh = newest[f] + 1
      /\ ~A!Rotating => newest' = newest /\ request'[q].refresh = A!None
  BY <1>k
<1>m. ASSUME NEW g \in Flows
      PROVE  /\ newest[g] \in Nat /\ newest'[g] \in Nat /\ newest[g] <= newest'[g]
             /\ g # f => newest'[g] = newest[g]
             /\ A!Rotating => newest'[f] = newest[f] + 1
  BY <1>f, <1>n, <1>r, <1>t
<1>o. ASSUME NEW p \in Requests
      PROVE  /\ Resolving(p)' <=> Resolving(p)
             /\ request'[p].snapshot = request[p].snapshot /\ request'[p].user = request[p].user
             /\ p # q => (Writing(p)' <=> Writing(p)) /\ request'[p].refresh = request[p].refresh
  BY <1>k, <1>q, <1>s DEF Resolving, Writing
<1>d. ASSUME NEW g \in Flows PROVE Settled(g)' <=> Settled(g)
  <2>1. ASSUME NEW p \in Requests PROVE Took(p, g)' <=> Took(p, g)
    BY <1>k, <1>q, <1>s DEF Took, Resolving
  <2> QED  BY <1>s, <2>1 DEF Settled, Took
<1>x. ASSUME NEW p \in Requests, Resolving(p)
      PROVE  request[p].snapshot.grant \in Flows /\ request[p].snapshot.refresh \in Nat
             /\ request[p].snapshot.refresh <= newest[request[p].snapshot.grant]
  <2>1. request[p].snapshot.refresh \in Nat
    BY <1>t DEF A!Request, A!Connection
  <2> QED  BY <1>x, <2>1, Resolves DEF TokenInv
<1>y. ASSUME NEW v \in Users
      PROVE  /\ account[v].refresh \in Nat
             /\ account[v].grant = f => account[v].refresh <= newest[f]
  <2>1. account[v].refresh \in Nat
    BY <1>t DEF A!Connection
  <2>2. Backed(v, account[v])
    BY DEF TokenInv, BackedInv
  <2> QED  BY <1>n, <2>1, <2>2 DEF Backed
<1>3. BackedInv'
  <2>1. ASSUME NEW v \in Users PROVE Backed(v, account[v])'
    <3>1. Backed(v, account[v])
      BY DEF TokenInv, BackedInv
    <3>2. CASE account[v].grant = A!None
      BY <1>s, <3>1, <3>2 DEF Backed
    <3>3. CASE account[v].grant # A!None
      <4>1. PICK g \in Flows : g = account[v].grant /\ Settled(g)
        BY <3>1, <3>3 DEF Backed, Settled
      <4>2. Settled(g)' /\ newest[g] \in Nat /\ newest'[g] \in Nat /\ newest[g] <= newest'[g]
        BY <1>d, <1>m, <4>1
      <4> QED  BY <1>s, <1>y, <3>1, <3>3, <4>1, <4>2 DEF Backed, Settled, Owned, Took
    <3> QED  BY <3>2, <3>3
  <2>2. ASSUME NEW p \in Requests, Resolving(p)'
        PROVE  /\ request'[p].user \in Users /\ request'[p].snapshot.grant \in Flows
               /\ Backed(request[p].user, request[p].snapshot)'
    <3>1. /\ request[p].user \in Users /\ request[p].snapshot.grant \in Flows
          /\ Backed(request[p].user, request[p].snapshot)
          /\ request'[p].user = request[p].user /\ request'[p].snapshot = request[p].snapshot
          /\ request[p].snapshot.refresh \in Nat
      BY <1>o, <1>x, <2>2 DEF TokenInv, BackedInv
    <3>2. PICK g \in Flows : g = request[p].snapshot.grant /\ Settled(g)
      BY <1>n, <3>1 DEF Backed
    <3>3. Settled(g)' /\ newest[g] \in Nat /\ newest'[g] \in Nat /\ newest[g] <= newest'[g]
      BY <1>d, <1>m, <3>2
    <3> QED  BY <1>s, <1>n, <3>1, <3>2, <3>3 DEF Backed, Settled, Owned, Took
  <2> QED  BY <2>1, <2>2 DEF BackedInv
<1>4. IdInv'
  BY <1>o, <1>s DEF TokenInv, IdInv
<1>5. WriteInv'
  <2> SUFFICES ASSUME NEW p \in Requests, Writing(p)'
               PROVE  LET g == request'[p].snapshot.grant IN
                      IF A!Rotating
                      THEN /\ request'[p].refresh = newest'[g]
                           /\ \A v \in Users : account[v].grant = g => account[v].refresh < newest'[g]
                           /\ \A s \in Requests : s # p /\ Resolving(s)' /\ request'[s].snapshot.grant = g =>
                                request'[s].snapshot.refresh < newest'[g] /\ ~Writing(s)'
                      ELSE request'[p].refresh = A!None
    BY <1>s DEF WriteInv, A!Rotating
  <2>1. CASE p = q
    <3>1. CASE A!Rotating
      <4>1. ASSUME NEW s \in Requests, s # q, Resolving(s), request[s].snapshot.grant = f
            PROVE  request[s].snapshot.refresh < newest'[f] /\ ~Writing(s)
        <5>1. request[s].snapshot.refresh < newest'[f]
          BY <1>f, <1>m, <1>x, <3>1, <4>1
        <5>2. ~Writing(s)
          BY <1>f, <1>m, <1>q, <1>s, <3>1, <4>1 DEF TokenInv, WriteInv
        <5> QED  BY <5>1, <5>2
      <4>2. \A v \in Users : account[v].grant = f => account[v].refresh < newest'[f]
        BY <1>f, <1>m, <1>y, <3>1
      <4> QED  BY <1>f, <1>k, <1>m, <1>o, <1>r, <2>1, <3>1, <4>1, <4>2
    <3>2. CASE ~A!Rotating
      BY <1>r, <2>1, <3>2
    <3> QED  BY <3>1, <3>2
  <2>2. CASE p # q
    <3>1. /\ Writing(p) /\ Resolving(p) /\ request'[p] = request[p]
      BY <1>o, <1>s, <2>2 DEF FlowInv, RequestInv, Resolving, Writing
    <3>2. CASE A!Rotating
      <4>1. request[p].snapshot.grant # f
        BY <1>f, <1>m, <1>q, <1>s, <2>2, <3>1, <3>2 DEF TokenInv, WriteInv
      <4>2. newest'[request[p].snapshot.grant] = newest[request[p].snapshot.grant]
        BY <1>m, <1>x, <3>1, <4>1
      <4>3. ASSUME NEW s \in Requests, s # p, Resolving(s), request[s].snapshot.grant = request[p].snapshot.grant
            PROVE  request[s].snapshot.refresh < newest[request[p].snapshot.grant] /\ ~Writing(s)'
        BY <1>f, <1>o, <3>1, <3>2, <4>1, <4>3 DEF TokenInv, WriteInv
      <4> QED  BY <1>o, <3>1, <3>2, <4>2, <4>3 DEF TokenInv, WriteInv
    <3>3. CASE ~A!Rotating
      BY <3>1, <3>3 DEF TokenInv, WriteInv
    <3> QED  BY <3>2, <3>3
  <2> QED  BY <2>1, <2>2
<1>6. OneTokenInv'
  BY <1>o, <1>r, <1>s DEF TokenInv, OneTokenInv, A!Rotating
<1>7. TokensAreNewest'
  <2> SUFFICES ASSUME NEW v \in Users, account[v].grant \notin died \cup {A!None}
               PROVE  \/ account[v].refresh = newest'[account[v].grant]
                      \/ \E p \in Requests : /\ Writing(p)'
                                             /\ request'[p].snapshot.grant = account[v].grant
                                             /\ request'[p].refresh = newest'[account[v].grant]
    BY <1>s DEF TokensAreNewest, Writing
  <2>1. \/ account[v].refresh = newest[account[v].grant]
        \/ \E p \in Requests : /\ Writing(p) /\ request[p].snapshot.grant = account[v].grant
                               /\ request[p].refresh = newest[account[v].grant]
    BY DEF TokenInv, TokensAreNewest, Writing
  <2>2. CASE account[v].grant = f /\ A!Rotating
    BY <1>f, <1>k, <1>m, <1>r, <2>2 DEF Writing
  <2>3. CASE ~(account[v].grant = f /\ A!Rotating)
    <3>1. account[v].grant \in Flows
      BY DEF TokenInv, BackedInv, Backed, Settled
    <3>2. newest'[account[v].grant] = newest[account[v].grant]
      BY <1>m, <1>r, <2>3, <3>1
    <3> QED  BY <1>o, <1>q, <2>1, <3>2
  <2> QED  BY <2>2, <2>3
<1> QED  BY <1>3, <1>4, <1>5, <1>6, <1>7 DEF TokenInv

\* A write stores the newest token in the row of the grant, or nowhere when the
\* row has another.
LEMMA WriteKeeps ==
  ASSUME A!ConnectionTypeOK, FlowInv, TokenInv, NEW q \in Requests, A!Write(q)
  PROVE  TokenInv'
<1>t. /\ request \in [Requests -> A!Request] /\ account \in [Users -> A!Connection]
      /\ newest \in [Flows -> 0 .. MaxVersion]
  BY DEF A!ConnectionTypeOK
<1>n. A!None \notin Flows /\ A!None = 0 /\ MaxVersion \in Nat
  BY AccountAssumption DEF A!ConnectionAssumption, A!None
<1>q. request[q].phase = "write" /\ Resolving(q) /\ Writing(q)
  BY DEF A!Write, FlowInv, RequestInv, Resolving, Writing
<1>f. PICK f \in Flows, u \in Users :
        /\ f = request[q].snapshot.grant /\ u = request[q].user
        /\ Settled(f) /\ Owned(u, f) /\ request[q].snapshot.refresh <= newest[f]
        /\ 1 <= newest[f] /\ newest[f] \in Nat
        /\ \A v \in Users : account[v].grant = f => v = u
  BY <1>q, Resolves DEF TokenInv
<1>s. /\ UNCHANGED <<service, state, client, newest, died>>
      /\ request'[q] = A!Idle
      /\ \A p \in Requests \ {q} : request'[p] = request[p]
  BY <1>t DEF A!Write, A!Finished, A!Go
<1>k. /\ A!Tokens(q).id = request[q].snapshot.id /\ A!Tokens(q).grant = f
      /\ A!Tokens(q).refresh = newest[f]
  <2>1. request[q].snapshot \in A!Connection
    BY <1>t DEF A!Request
  <2>2. /\ A!Tokens(q).id = request[q].snapshot.id /\ A!Tokens(q).grant = f
        /\ A!Tokens(q).refresh = IF request[q].refresh # A!None \/ A!Plugin THEN request[q].refresh
                                 ELSE request[q].snapshot.refresh
    BY <1>f, <2>1 DEF A!Tokens, A!Connection
  <2>3. CASE A!Rotating
    <3>1. request[q].refresh = newest[f]
      BY <1>f, <1>q, <2>3 DEF TokenInv, WriteInv
    <3> QED  BY <1>f, <1>n, <2>2, <3>1
  <2>4. CASE ~A!Rotating
    <3>1. request[q].refresh = A!None /\ request[q].snapshot.refresh = 1 /\ newest[f] <= 1
      BY <1>f, <1>q, <2>4 DEF TokenInv, WriteInv, OneTokenInv
    <3>2. ~A!Plugin
      BY <2>4 DEF A!Plugin, A!Rotating
    <3> QED  BY <1>f, <2>2, <3>1, <3>2
  <2> QED  BY <2>3, <2>4
<1>a. \/ /\ account' = account /\ \A v \in Users : account[v].grant # f
      \/ /\ \A v \in Users \ {u} : account'[v] = account[v]
         /\ account'[u] = A!Tokens(q)
  <2>1. CASE A!Plugin \/ account[u].id = request[q].snapshot.id
    BY <1>f, <1>t, <2>1 DEF A!Write
  <2>2. CASE ~(A!Plugin \/ account[u].id = request[q].snapshot.id)
    <3>1. account' = account
      BY <1>f, <2>2 DEF A!Write
    <3>2. account[u].grant # f
      BY <1>f, <1>q, <2>2 DEF TokenInv, IdInv
    <3> QED  BY <1>f, <3>1, <3>2
  <2> QED  BY <2>1, <2>2
<1>i. ~Resolving(q)' /\ ~Writing(q)'
  BY <1>s DEF Resolving, Writing, A!Idle
<1>p. ASSUME NEW p \in Requests, Resolving(p)'
      PROVE  p # q /\ request'[p] = request[p] /\ Resolving(p) /\ (Writing(p)' => Writing(p))
  BY <1>i, <1>s, <1>p DEF Resolving, Writing
<1>w. ASSUME NEW p \in Requests, Writing(p)' PROVE Resolving(p)'
  BY <1>i, <1>s, <1>w DEF FlowInv, RequestInv, Resolving, Writing
<1>d. ASSUME NEW g \in Flows, Settled(g) PROVE Settled(g)'
  <2>1. ASSUME NEW p \in Requests, ~Took(p, g) PROVE ~Took(p, g)'
    BY <1>s, <2>1 DEF Took, A!Idle
  <2>2. \A p \in Requests : ~Took(p, g)
    BY <1>d DEF Settled
  <2>3. \A p \in Requests : ~Took(p, g)'
    BY <2>1, <2>2
  <2> QED  BY <1>d, <1>s, <2>3 DEF Settled, Took
<1>3. BackedInv'
  <2>1. ASSUME NEW v \in Users PROVE Backed(v, account[v])'
    <3>1. Backed(v, account[v])
      BY DEF TokenInv, BackedInv
    <3>2. CASE account'[v] = account[v]
      <4>1. CASE account[v].grant = A!None
        BY <3>1, <3>2, <4>1 DEF Backed
      <4>2. CASE account[v].grant # A!None
        <5>1. PICK g \in Flows : g = account[v].grant /\ Settled(g)
          BY <3>1, <4>2 DEF Backed, Settled
        <5>2. Settled(g)'
          BY <1>d, <5>1
        <5> QED  BY <1>s, <3>1, <3>2, <4>2, <5>1, <5>2 DEF Backed, Owned, Settled, Took
      <4> QED  BY <4>1, <4>2
    <3>3. CASE v = u /\ account'[u] = A!Tokens(q)
      <4>1. Settled(f)'
        BY <1>d, <1>f
      <4>2. account'[v].grant = f /\ account'[v].refresh = newest[f]
        BY <1>k, <3>3
      <4> QED  BY <1>s, <1>f, <1>n, <3>3, <4>1, <4>2 DEF Backed, Owned, Settled, Took
    <3> QED  BY <1>a, <3>2, <3>3
  <2>2. ASSUME NEW p \in Requests, Resolving(p)'
        PROVE  /\ request'[p].user \in Users /\ request'[p].snapshot.grant \in Flows
               /\ Backed(request[p].user, request[p].snapshot)'
    <3>1. /\ request[p].user \in Users /\ request[p].snapshot.grant \in Flows
          /\ Backed(request[p].user, request[p].snapshot) /\ request'[p] = request[p]
      BY <1>p, <2>2 DEF TokenInv, BackedInv
    <3>2. PICK g \in Flows : g = request[p].snapshot.grant /\ Settled(g)
      BY <1>n, <3>1 DEF Backed
    <3>3. Settled(g)'
      BY <1>d, <3>2
    <3> QED  BY <1>s, <1>n, <3>1, <3>2, <3>3 DEF Backed, Settled, Owned, Took
  <2> QED  BY <2>1, <2>2 DEF BackedInv
<1>4. IdInv'
  <2>1. ASSUME NEW v \in Users, NEW p \in Requests, Resolving(p)',
               account'[v].grant = request'[p].snapshot.grant
        PROVE  account'[v].id = request'[p].snapshot.id
    <3>1. CASE account'[v] = account[v]
      BY <1>p, <2>1, <3>1 DEF TokenInv, IdInv
    <3>2. CASE v = u /\ account'[u] = A!Tokens(q)
      BY <1>f, <1>k, <1>p, <1>q, <2>1, <3>2 DEF TokenInv, IdInv
    <3> QED  BY <1>a, <3>1, <3>2
  <2>2. ASSUME NEW p \in Requests, NEW s \in Requests, Resolving(p)', Resolving(s)',
               request'[p].snapshot.grant = request'[s].snapshot.grant
        PROVE  request'[p].snapshot.id = request'[s].snapshot.id
    BY <1>p, <2>2 DEF TokenInv, IdInv
  <2> QED  BY <2>1, <2>2 DEF IdInv
<1>5. WriteInv'
  <2> SUFFICES ASSUME NEW p \in Requests, Writing(p)'
               PROVE  LET g == request'[p].snapshot.grant IN
                      IF A!Rotating
                      THEN /\ request'[p].refresh = newest[g]
                           /\ \A v \in Users : account'[v].grant = g => account'[v].refresh < newest[g]
                           /\ \A s \in Requests : s # p /\ Resolving(s)' /\ request'[s].snapshot.grant = g =>
                                request'[s].snapshot.refresh < newest[g] /\ ~Writing(s)'
                      ELSE request'[p].refresh = A!None
    BY <1>s DEF WriteInv, A!Rotating
  <2>1. p # q /\ request'[p] = request[p] /\ Resolving(p) /\ Writing(p)
    BY <1>p, <1>w
  <2>2. CASE ~A!Rotating
    BY <2>1, <2>2 DEF TokenInv, WriteInv
  <2>3. CASE A!Rotating
    <3>1. request[p].snapshot.grant # f
      BY <1>f, <1>q, <2>1, <2>3 DEF TokenInv, WriteInv
    <3>2. ASSUME NEW v \in Users, account'[v].grant = request[p].snapshot.grant
          PROVE  account'[v] = account[v]
      BY <1>a, <1>k, <3>1, <3>2
    <3>3. ASSUME NEW s \in Requests, s # p, Resolving(s)',
                 request'[s].snapshot.grant = request[p].snapshot.grant
          PROVE  request'[s].snapshot.refresh < newest[request[p].snapshot.grant] /\ ~Writing(s)'
      BY <1>p, <2>1, <2>3, <3>3 DEF TokenInv, WriteInv
    <3>4. /\ request[p].refresh = newest[request[p].snapshot.grant]
          /\ \A v \in Users : account[v].grant = request[p].snapshot.grant
                              => account[v].refresh < newest[request[p].snapshot.grant]
      BY <2>1, <2>3 DEF TokenInv, WriteInv
    <3> QED  BY <2>1, <2>3, <3>2, <3>3, <3>4
  <2> QED  BY <2>2, <2>3
<1>6. OneTokenInv'
  <2> SUFFICES ASSUME ~A!Rotating
               PROVE  /\ \A g \in Flows : newest[g] <= 1
                      /\ \A v \in Users : account'[v].grant # A!None => account'[v].refresh = 1
                      /\ \A p \in Requests : Resolving(p)' => request'[p].snapshot.refresh = 1
    BY <1>s DEF OneTokenInv, A!Rotating
  <2>1. newest[f] = 1
    BY <1>f DEF TokenInv, OneTokenInv
  <2>2. ASSUME NEW v \in Users, account'[v].grant # A!None PROVE account'[v].refresh = 1
    <3>1. CASE account'[v] = account[v]
      BY <2>2, <3>1 DEF TokenInv, OneTokenInv
    <3>2. CASE v = u /\ account'[u] = A!Tokens(q)
      BY <1>k, <2>1, <3>2
    <3> QED  BY <1>a, <3>1, <3>2
  <2> QED  BY <1>p, <2>2 DEF TokenInv, OneTokenInv
<1>7. TokensAreNewest'
  <2> SUFFICES ASSUME NEW v \in Users, account'[v].grant \notin died \cup {A!None}
               PROVE  \/ account'[v].refresh = newest[account'[v].grant]
                      \/ \E p \in Requests : /\ Writing(p)'
                                             /\ request'[p].snapshot.grant = account'[v].grant
                                             /\ request'[p].refresh = newest[account'[v].grant]
    BY <1>s DEF TokensAreNewest, Writing
  <2>1. CASE account'[v].grant = f
    BY <1>a, <1>f, <1>k, <2>1
  <2>2. CASE account'[v].grant # f
    <3>1. account'[v] = account[v]
      BY <1>a, <1>k, <2>2
    <3>2. \/ account[v].refresh = newest[account[v].grant]
          \/ \E p \in Requests : /\ Writing(p) /\ request[p].snapshot.grant = account[v].grant
                                 /\ request[p].refresh = newest[account[v].grant]
      BY <3>1 DEF TokenInv, TokensAreNewest, Writing
    <3>3. \A p \in Requests : request[p].snapshot.grant = account[v].grant /\ Writing(p)
                              => request'[p] = request[p] /\ Writing(p)'
      BY <1>f, <1>s, <2>2, <3>1 DEF Writing
    <3> QED  BY <3>1, <3>2, <3>3
  <2> QED  BY <2>1, <2>2
<1> QED  BY <1>3, <1>4, <1>5, <1>6, <1>7 DEF TokenInv

-----------------------------------------------------------------------------
(* The flows of the services. *)

\* What RequestInv and CallbackInv say of one request.
RequestIs(q) ==
  /\ request[q].phase = "idle" => request[q] = A!Idle
  /\ request[q].phase \in {"client", "register"} =>
       request[q].task \in {"begin", "callback", "resolve"}
  /\ request[q].phase = "issue" => request[q].task = "begin"
  /\ request[q].phase \in {"consume", "exchange", "save"} => request[q].task = "callback"
  /\ request[q].phase \in {"refresh", "write"} => request[q].task = "resolve"
  /\ request[q].phase \notin {"save", "write"} => request[q].refresh = A!None
  /\ request[q].phase \in {"issue", "exchange", "refresh"} =>
       request[q].client = client /\ client # A!None

CallbackIs(q) ==
  request[q].task = "callback" =>
    LET f == request[q].flow IN
    /\ f \in Flows /\ state[f].row # "none"
    /\ request[q].purpose = state[f].purpose /\ state[f].account \in Users
    /\ request[q].purpose = "connect" => request[q].user \in Users
    /\ Took(q, f) => state[f].row = "gone"
    /\ request[q].phase = "save" => request[q].refresh = 1 /\ newest[f] = 1

\* The invariants are those of each request.
LEMMA FlowIsSo ==
  /\ RequestInv <=> \A q \in Requests : RequestIs(q)
  /\ CallbackInv <=> /\ \A q \in Requests : CallbackIs(q)
                     /\ \A q, p \in Requests, f \in Flows : Took(q, f) /\ Took(p, f) => q = p
  BY DEF RequestInv, CallbackInv, RequestIs, CallbackIs

\* A step of the request q keeps what there is to know of the flows, if it does
\* of its own.
LEMMA FlowKept ==
  ASSUME A!ConnectionTypeOK, FlowInv, NEW q \in Requests,
         \A p \in Requests \ {q} : request'[p] = request[p],
         RequestIs(q)', CallbackIs(q)', StateInv',
         client' = client \/ client = A!None,
         \A g \in Flows : state[g].row = "gone" => state'[g].row = "gone",
         \A g \in Flows : state[g].row # "none" =>
           /\ state'[g].row # "none" /\ state'[g].purpose = state[g].purpose
           /\ state[g].account \in Users => state'[g].account \in Users,
         \A p \in Requests \ {q} : request[p].phase = "save"
           => newest'[request[p].flow] = newest[request[p].flow],
         \A g \in Flows : Took(q, g)' => Took(q, g) \/ state[g].row # "gone"
  PROVE  FlowInv'
<1>r. ASSUME NEW p \in Requests PROVE RequestIs(p)'
  <2>1. CASE p = q
    BY <2>1
  <2>2. CASE p # q
    <3>1. RequestIs(p)
      BY FlowIsSo DEF FlowInv
    <3> QED  BY <2>2, <3>1 DEF RequestIs
  <2> QED  BY <2>1, <2>2
<1>c. ASSUME NEW p \in Requests PROVE CallbackIs(p)'
  <2>1. CASE p = q
    BY <2>1
  <2>2. CASE p # q
    <3>1. CallbackIs(p) /\ request'[p] = request[p]
      BY <2>2, FlowIsSo DEF FlowInv
    <3> QED  BY <2>2, <3>1 DEF CallbackIs, Took
  <2> QED  BY <2>1, <2>2
<1>t. ASSUME NEW p \in Requests, NEW s \in Requests, NEW g \in Flows, Took(p, g)', Took(s, g)'
      PROVE  p = s
  <2>1. ASSUME NEW o \in Requests \ {q}, Took(o, g)' PROVE Took(o, g) /\ state[g].row = "gone"
    <3>1. Took(o, g)
      BY <2>1 DEF Took
    <3> QED  BY <3>1 DEF FlowInv, CallbackInv, Took
  <2>2. \A o1 \in Requests, o2 \in Requests : Took(o1, g) /\ Took(o2, g) => o1 = o2
    BY DEF FlowInv, CallbackInv
  <2>3. Took(q, g)' => Took(q, g) \/ state[g].row # "gone"
    OBVIOUS
  <2>4. CASE p = q
    BY <1>t, <2>1, <2>2, <2>3, <2>4
  <2>5. CASE s = q
    BY <1>t, <2>1, <2>2, <2>3, <2>5
  <2>6. CASE p # q /\ s # q
    BY <1>t, <2>1, <2>2, <2>6
  <2> QED  BY <2>4, <2>5, <2>6
<1>1. RequestInv'
  BY <1>r DEF RequestInv, RequestIs
<1>2. CallbackInv'
  BY <1>c, <1>t DEF CallbackInv, CallbackIs, Took
<1> QED  BY <1>1, <1>2 DEF FlowInv

\* A request that is over.
LEMMA IdleIs ==
  ASSUME NEW q \in Requests, request'[q] = A!Idle
  PROVE  /\ RequestIs(q)' /\ CallbackIs(q)' /\ ~Resolving(q)' /\ ~Writing(q)'
         /\ \A g \in Flows : ~Took(q, g)'
  BY DEF RequestIs, CallbackIs, Resolving, Writing, Took, A!Idle

\* A request that is over leaves its cookie at most.
LEMMA FinishedIs ==
  ASSUME A!ConnectionTypeOK, NEW q \in Requests, A!Finished(q)
  PROVE  /\ request'[q] = A!Idle /\ \A p \in Requests \ {q} : request'[p] = request[p]
         /\ request' \in [Requests -> A!Request]
         /\ cookie' \in [A!Purposes -> Flows \cup {A!None}]
<1>1. A!Idle \in A!Request
  <2>1. A!None = 0
    BY DEF A!None
  <2> QED  BY <2>1 DEF A!Idle, A!Request, A!NoConnection, A!Connection, A!Purposes
<1> QED  BY <1>1 DEF A!Finished, A!Go, A!ConnectionTypeOK

\* A request that goes on, with what it takes along.
LEMMA GoesOn ==
  ASSUME A!ConnectionTypeOK, NEW q \in Requests, NEW new \in A!Request, A!Go(q, new)
  PROVE  /\ request'[q] = new /\ \A p \in Requests \ {q} : request'[p] = request[p]
         /\ request' \in [Requests -> A!Request]
  BY DEF A!Go, A!ConnectionTypeOK

\* A request that fails or dies with a token.
LEMMA EndKeeps ==
  ASSUME A!ConnectionTypeOK, FlowInv, TokenInv, NEW q \in Requests, A!Fails(q) \/ A!Dies(q)
  PROVE  A!ConnectionTypeOK' /\ FlowInv' /\ TokenInv'
<1>1. /\ A!Finished(q) /\ UNCHANGED <<service, state, client, account, newest>>
      /\ died \subseteq died' /\ (Writing(q) => request[q].snapshot.grant \in died')
  BY DEF A!Fails, A!Dies, Writing
<1>2. /\ request'[q] = A!Idle /\ \A p \in Requests \ {q} : request'[p] = request[p]
      /\ request' \in [Requests -> A!Request]
      /\ cookie' \in [A!Purposes -> Flows \cup {A!None}]
  BY <1>1, FinishedIs
<1>3. /\ RequestIs(q)' /\ CallbackIs(q)' /\ ~Resolving(q)' /\ ~Writing(q)'
      /\ \A g \in Flows : ~Took(q, g)'
  BY <1>2, IdleIs
<1>4. died' \subseteq Flows
  <2>1. A!Dies(q) => request[q].snapshot.grant \in Flows
    BY DEF A!Dies, FlowInv, RequestInv, TokenInv, BackedInv, Resolving
  <2> QED  BY <2>1 DEF A!Fails, A!Dies, A!ConnectionTypeOK
<1>5. StateInv'
  BY <1>1 DEF FlowInv, StateInv
<1>6. FlowInv'
  BY <1>1, <1>2, <1>3, <1>5, FlowKept
<1>7. TokenInv'
  BY <1>1, <1>2, <1>3, TokensKept
<1>8. A!ConnectionTypeOK'
  BY <1>1, <1>2, <1>4 DEF A!ConnectionTypeOK
<1> QED  BY <1>6, <1>7, <1>8

\* What is assumed of the constants.
LEMMA Constants ==
  /\ A!None = 0 /\ A!None \notin Flows /\ A!None \notin Requests /\ Nobody \notin Users
  /\ Requests \subseteq Nat /\ Flows \subseteq Nat /\ MaxVersion \in Nat /\ 1 <= MaxVersion
<1>1. A!None = 0
  BY DEF A!None
<1>2. /\ Nobody \notin Users /\ Flows \subseteq Nat \ {A!None} /\ Requests \subseteq Nat \ {A!None}
      /\ MaxVersion \in Nat \ {0}
  BY AccountAssumption DEF A!ConnectionAssumption
<1> QED  BY <1>1, <1>2

\* A request finds the client or registers it: the first one to do so is the
\* client of all.
LEMMA FindClientKeeps ==
  ASSUME A!ConnectionTypeOK, FlowInv, TokenInv, NEW q \in Requests,
         A!FindClient(q) \/ A!RegisterClient(q)
  PROVE  A!ConnectionTypeOK' /\ FlowInv' /\ TokenInv'
<1>t. request[q] \in A!Request /\ client \in Nat
  BY DEF A!ConnectionTypeOK
<1>i. /\ RequestIs(q) /\ CallbackIs(q) /\ request[q].phase \in {"client", "register"}
      /\ request[q].task \in {"begin", "callback", "resolve"} /\ request[q].refresh = A!None
  <2>1. request[q].phase \in {"client", "register"} /\ RequestIs(q) /\ CallbackIs(q)
    BY FlowIsSo DEF FlowInv, A!FindClient, A!RegisterClient
  <2> QED  BY <2>1 DEF RequestIs
<1>u. UNCHANGED <<service, cookie, state, account, newest, died>>
  BY DEF A!FindClient, A!RegisterClient
<1>c. client' = client \/ (client = A!None /\ client' = q)
  BY DEF A!FindClient, A!RegisterClient
<1>n. client' \in Nat
  BY <1>c, <1>t, Constants
<1>1. PICK new \in A!Request :
        /\ A!Go(q, new) /\ new.task = request[q].task /\ new.flow = request[q].flow
        /\ new.user = request[q].user /\ new.purpose = request[q].purpose
        /\ new.snapshot = request[q].snapshot /\ new.refresh = A!None
        /\ \/ new.phase = "register"
           \/ new.phase = A!AfterClient(q) /\ new.client = client' /\ client' # A!None
  <2>1. CASE A!FindClient(q) /\ client = A!None
    <3>1. A!Go(q, [request[q] EXCEPT !.phase = "register"])
      BY <2>1 DEF A!FindClient
    <3> QED  BY <1>i, <1>t, <3>1 DEF A!Request
  <2>2. CASE A!FindClient(q) /\ client # A!None
    <3>1. A!Go(q, [request[q] EXCEPT !.phase = A!AfterClient(q), !.client = client]) /\ client' = client
      BY <2>2 DEF A!FindClient
    <3>2. A!AfterClient(q) \in {"issue", "exchange", "refresh"}
      BY <1>i DEF A!AfterClient
    <3> DEFINE new == [request[q] EXCEPT !.phase = A!AfterClient(q), !.client = client]
    <3>3. /\ new \in A!Request
          /\ new.task = request[q].task /\ new.flow = request[q].flow
          /\ new.user = request[q].user /\ new.purpose = request[q].purpose
          /\ new.snapshot = request[q].snapshot /\ new.refresh = A!None
          /\ new.phase = A!AfterClient(q) /\ new.client = client
      BY <1>i, <1>t, <1>n, <3>2 DEF A!Request
    <3> HIDE DEF new
    <3> QED  BY <2>2, <3>1, <3>3 DEF new
  <2>3. CASE A!RegisterClient(q)
    <3>1. /\ A!Go(q, [request[q] EXCEPT !.phase = A!AfterClient(q), !.client = client'])
          /\ client' = IF client = A!None THEN q ELSE client
      BY <2>3 DEF A!RegisterClient
    <3>2. A!AfterClient(q) \in {"issue", "exchange", "refresh"}
      BY <1>i DEF A!AfterClient
    <3>3. client' # A!None
      BY <3>1, Constants
    <3> DEFINE new == [request[q] EXCEPT !.phase = A!AfterClient(q), !.client = client']
    <3>4. /\ new \in A!Request
          /\ new.task = request[q].task /\ new.flow = request[q].flow
          /\ new.user = request[q].user /\ new.purpose = request[q].purpose
          /\ new.snapshot = request[q].snapshot /\ new.refresh = A!None
          /\ new.phase = A!AfterClient(q) /\ new.client = client'
      BY <1>i, <1>t, <1>n, <3>2 DEF A!Request
    <3> HIDE DEF new
    <3> QED  BY <3>1, <3>3, <3>4 DEF new
  <2> QED  BY <2>1, <2>2, <2>3
<1>p. new.phase \in {"register", "issue", "exchange", "refresh"}
      /\ (new.phase = "issue" => new.task = "begin")
      /\ (new.phase = "exchange" => new.task = "callback")
      /\ (new.phase = "refresh" => new.task = "resolve")
  BY <1>1, <1>i DEF A!AfterClient
<1>2. /\ request'[q] = new /\ \A p \in Requests \ {q} : request'[p] = request[p]
      /\ request' \in [Requests -> A!Request]
  BY <1>1, GoesOn
<1>3. RequestIs(q)'
  BY <1>1, <1>2, <1>p, <1>i DEF RequestIs
<1>4. \A g \in Flows : Took(q, g)' <=> Took(q, g)
  BY <1>1, <1>2, <1>p, <1>i DEF Took
<1>5. CallbackIs(q)'
  BY <1>1, <1>2, <1>p, <1>i, <1>u DEF CallbackIs, Took
<1>6. StateInv'
  BY <1>c, <1>u DEF FlowInv, StateInv
<1>7. FlowInv'
  BY <1>2, <1>3, <1>4, <1>5, <1>6, <1>c, <1>u, FlowKept
<1>8. /\ ~Writing(q) /\ ~Writing(q)' /\ (Resolving(q)' <=> Resolving(q))
      /\ request'[q].user = request[q].user /\ request'[q].snapshot = request[q].snapshot
      /\ request'[q].refresh = request[q].refresh
  BY <1>1, <1>2, <1>p, <1>i DEF Writing, Resolving
<1>9. TokenInv'
  BY <1>2, <1>4, <1>8, <1>u, TokensKept
<1>10. A!ConnectionTypeOK'
  BY <1>2, <1>n, <1>u DEF A!ConnectionTypeOK
<1> QED  BY <1>7, <1>9, <1>10

\* A request begins a flow or a refresh.
LEMMA BeginKeeps ==
  ASSUME A!ConnectionTypeOK, FlowInv, TokenInv, NEW q \in Requests,
         (\E p \in A!Purposes : A!Begin(q, p)) \/ (\E u \in Users : A!Resolve(q, u))
  PROVE  A!ConnectionTypeOK' /\ FlowInv' /\ TokenInv'
<1>i. request[q] = A!Idle /\ ~Writing(q) /\ \A g \in Flows : ~Took(q, g)
  <2>1. request[q] = A!Idle
    BY DEF A!Begin, A!Resolve
  <2> QED  BY <2>1 DEF A!Idle, Writing, Took
<1>a. A!Idle \in A!Request /\ A!Idle.refresh = A!None
  BY Constants DEF A!Idle, A!Request, A!NoConnection, A!Connection, A!Purposes
<1>u. UNCHANGED <<service, cookie, state, client, account, newest, died>>
  BY DEF A!Begin, A!Resolve
<1>1. PICK new \in A!Request :
        /\ A!Go(q, new) /\ new.phase = "client" /\ new.refresh = A!None
        /\ \/ new.task = "begin"
           \/ /\ new.task = "resolve" /\ new.user \in Users /\ new.snapshot = account[new.user]
              /\ account[new.user].grant # A!None
  <2>1. ASSUME NEW p \in A!Purposes, A!Begin(q, p)
        PROVE  \E new \in A!Request :
                 A!Go(q, new) /\ new.phase = "client" /\ new.refresh = A!None /\ new.task = "begin"
    <3>1. PICK u \in A!Session(p) :
            A!Go(q, [A!Idle EXCEPT !.phase = "client", !.task = "begin", !.purpose = p, !.user = u])
      BY <2>1 DEF A!Begin
    <3>2. u \in Users \cup {Nobody}
      BY DEF A!Session
    <3> DEFINE new == [A!Idle EXCEPT !.phase = "client", !.task = "begin", !.purpose = p, !.user = u]
    <3>3. new \in A!Request /\ new.phase = "client" /\ new.refresh = A!None /\ new.task = "begin"
      BY <1>a, <3>2 DEF A!Request
    <3> QED  BY <3>1, <3>3
  <2>2. ASSUME NEW u \in Users, A!Resolve(q, u)
        PROVE  \E new \in A!Request :
                 /\ A!Go(q, new) /\ new.phase = "client" /\ new.refresh = A!None
                 /\ new.task = "resolve" /\ new.user \in Users /\ new.snapshot = account[new.user]
                 /\ account[new.user].grant # A!None
    <3>1. A!Go(q, [A!Idle EXCEPT !.phase = "client", !.task = "resolve", !.user = u, !.snapshot = account[u]])
      BY <2>2 DEF A!Resolve
    <3> DEFINE new == [A!Idle EXCEPT !.phase = "client", !.task = "resolve", !.user = u,
                                     !.snapshot = account[u]]
    <3>2. account[u] \in A!Connection
      BY DEF A!ConnectionTypeOK
    <3>3. /\ new \in A!Request /\ new.phase = "client" /\ new.refresh = A!None /\ new.task = "resolve"
          /\ new.user = u /\ new.snapshot = account[u]
      BY <1>a, <3>2 DEF A!Request
    <3>4. account[u].grant # A!None
      BY <2>2 DEF A!Resolve, TokenInv, BackedInv, Backed
    <3> HIDE DEF new
    <3> QED  BY <3>1, <3>3, <3>4 DEF new
  <2> QED  BY <2>1, <2>2
<1>2. /\ request'[q] = new /\ \A p \in Requests \ {q} : request'[p] = request[p]
      /\ request' \in [Requests -> A!Request]
  BY <1>1, GoesOn
<1>3. RequestIs(q)' /\ CallbackIs(q)' /\ ~Writing(q)' /\ \A g \in Flows : ~Took(q, g)'
  BY <1>1, <1>2 DEF RequestIs, CallbackIs, Writing, Took
<1>4. StateInv'
  BY <1>u DEF FlowInv, StateInv
<1>5. FlowInv'
  BY <1>2, <1>3, <1>4, <1>u, FlowKept
<1>6. Resolving(q)' => /\ request'[q].user \in Users /\ request'[q].snapshot = account[request'[q].user]
                       /\ account[request'[q].user].grant # A!None
  BY <1>1, <1>2 DEF Resolving
<1>7. TokenInv'
  BY <1>i, <1>2, <1>3, <1>6, <1>u, TokensKept
<1>8. A!ConnectionTypeOK'
  BY <1>2, <1>u DEF A!ConnectionTypeOK
<1> QED  BY <1>5, <1>7, <1>8

\* A state is issued.
LEMMA IssueKeeps ==
  ASSUME A!ConnectionTypeOK, FlowInv, TokenInv, NEW q \in Requests, A!Issue(q)
  PROVE  A!ConnectionTypeOK' /\ FlowInv' /\ TokenInv'
<1>t. /\ request[q] \in A!Request /\ client \in Nat /\ state \in [Flows -> A!State]
      /\ cookie \in [A!Purposes -> Flows \cup {A!None}] /\ request \in [Requests -> A!Request]
  BY DEF A!ConnectionTypeOK
<1>i. /\ request[q].phase = "issue" /\ request[q].client = client /\ client # A!None
      /\ ~Writing(q)
  BY DEF A!Issue, FlowInv, RequestInv, Writing
<1>u. UNCHANGED <<service, client, account, newest, died>> /\ A!Go(q, A!Idle)
  BY DEF A!Issue
<1>1. PICK f \in Flows :
        /\ state[f].row = "none"
        /\ state' = [state EXCEPT ![f] = [@ EXCEPT !.row = "open", !.user = request[q].user,
             !.purpose = request[q].purpose, !.client = request[q].client]]
        /\ cookie' = [cookie EXCEPT ![request[q].purpose] = f]
  BY DEF A!Issue
<1>a. A!Idle \in A!Request
  BY Constants DEF A!Idle, A!Request, A!NoConnection, A!Connection, A!Purposes
<1>2. /\ request'[q] = A!Idle /\ \A p \in Requests \ {q} : request'[p] = request[p]
      /\ request' \in [Requests -> A!Request]
  BY <1>a, <1>u, GoesOn
<1>3. /\ RequestIs(q)' /\ CallbackIs(q)' /\ ~Resolving(q)' /\ ~Writing(q)'
      /\ \A g \in Flows : ~Took(q, g)'
  BY <1>2, IdleIs
<1>s. /\ state' \in [Flows -> A!State] /\ state'[f].row = "open"
      /\ state'[f].client = client
      /\ \A g \in Flows \ {f} : state'[g] = state[g]
  <2> DEFINE new == [state[f] EXCEPT !.row = "open", !.user = request[q].user,
                       !.purpose = request[q].purpose, !.client = request[q].client]
  <2>1. new \in A!State /\ new.row = "open" /\ new.client = request[q].client
    <3>1. request[q].user \in Users \cup {Nobody} /\ request[q].purpose \in A!Purposes /\ request[q].client \in Nat
      BY <1>t DEF A!Request
    <3> QED  BY <1>t, <3>1 DEF A!State
  <2>2. state' = [state EXCEPT ![f] = new]
    BY <1>1, <1>t
  <2> HIDE DEF new
  <2> QED  BY <1>i, <1>t, <2>1, <2>2
<1>4. StateInv'
  BY <1>i, <1>s, <1>u DEF FlowInv, StateInv
<1>5. FlowInv'
  BY <1>1, <1>2, <1>3, <1>4, <1>s, <1>u, FlowKept
<1>6. TokenInv'
  BY <1>1, <1>2, <1>3, <1>i, <1>s, <1>u, TokensKept
<1>7. cookie' \in [A!Purposes -> Flows \cup {A!None}]
  BY <1>1, <1>t
<1> QED  BY <1>2, <1>5, <1>6, <1>7, <1>s, <1>u DEF A!ConnectionTypeOK

\* The browser comes back with a cookie it has.
LEMMA CallbackKeeps ==
  ASSUME A!ConnectionTypeOK, FlowInv, TokenInv, NEW q \in Requests, NEW f \in Flows,
         A!Callback(q, f)
  PROVE  A!ConnectionTypeOK' /\ FlowInv' /\ TokenInv'
<1>t. /\ client \in Nat /\ state \in [Flows -> A!State] /\ request \in [Requests -> A!Request]
      /\ state[f] \in A!State
  BY DEF A!ConnectionTypeOK
<1>i. /\ request[q] = A!Idle /\ state[f].row # "none" /\ ~Writing(q) /\ \A g \in Flows : ~Took(q, g)
  <2>1. request[q] = A!Idle /\ state[f].row # "none"
    BY DEF A!Callback
  <2> QED  BY <2>1 DEF A!Idle, Writing, Took
<1>u. UNCHANGED <<service, cookie, client, account, newest, died>>
  BY DEF A!Callback
<1>1. PICK a \in Users : /\ state[f].account = Nobody \/ a = state[f].account
                         /\ state' = [state EXCEPT ![f].account = a]
  <2>1. PICK a \in IF state[f].account = Nobody THEN Users ELSE {state[f].account} :
          state' = [state EXCEPT ![f].account = a]
    BY DEF A!Callback
  <2>2. state[f].account \in Users \cup {Nobody}
    BY <1>t DEF A!State
  <2> QED  BY <2>1, <2>2
<1>2. PICK u \in A!Session(state[f].purpose) :
        A!Go(q, [A!Idle EXCEPT !.phase = "consume", !.task = "callback", !.flow = f,
                               !.purpose = state[f].purpose, !.user = u])
  BY DEF A!Callback
<1>s. /\ state' \in [Flows -> A!State] /\ \A g \in Flows \ {f} : state'[g] = state[g]
      /\ state'[f].account = a /\ state'[f].row = state[f].row /\ state'[f].user = state[f].user
      /\ state'[f].purpose = state[f].purpose /\ state'[f].client = state[f].client
  <2>1. [state[f] EXCEPT !.account = a] \in A!State
    BY <1>t DEF A!State
  <2> QED  BY <1>1, <1>t, <2>1 DEF A!State
<1> DEFINE new == [A!Idle EXCEPT !.phase = "consume", !.task = "callback", !.flow = f,
                                 !.purpose = state[f].purpose, !.user = u]
<1>n. /\ new \in A!Request /\ new.phase = "consume" /\ new.task = "callback" /\ new.flow = f
      /\ new.purpose = state[f].purpose /\ new.user = u /\ new.refresh = A!None
  <2>1. A!Idle \in A!Request /\ A!Idle.refresh = A!None
    BY Constants DEF A!Idle, A!Request, A!NoConnection, A!Connection, A!Purposes
  <2>2. u \in Users \cup {Nobody} /\ state[f].purpose \in A!Purposes
    BY <1>t DEF A!Session, A!State
  <2> QED  BY <2>1, <2>2 DEF A!Request
<1>3. /\ request'[q] = new /\ \A p \in Requests \ {q} : request'[p] = request[p]
      /\ request' \in [Requests -> A!Request]
  BY <1>2, <1>n, GoesOn
<1> HIDE DEF new
<1>4. /\ RequestIs(q)' /\ ~Resolving(q)' /\ ~Writing(q)' /\ \A g \in Flows : ~Took(q, g)'
  BY <1>3, <1>n DEF RequestIs, Resolving, Writing, Took
<1>5. CallbackIs(q)'
  <2>1. state[f].purpose = "connect" => u \in Users
    BY <1>2 DEF A!Session
  <2> QED  BY <1>3, <1>n, <1>s, <1>i, <2>1 DEF CallbackIs, Took
<1>6. StateInv'
  BY <1>s, <1>u DEF FlowInv, StateInv
<1>7. \A g \in Flows : /\ state'[g].row = state[g].row /\ state'[g].purpose = state[g].purpose
                       /\ state'[g].user = state[g].user
                       /\ state'[g].account = state[g].account \/ state[g].account = Nobody
                       /\ state[g].account \in Users => state'[g].account \in Users
  BY <1>1, <1>s
<1>8. FlowInv'
  BY <1>3, <1>4, <1>5, <1>6, <1>7, <1>u, FlowKept
<1>9. TokenInv'
  BY <1>3, <1>4, <1>7, <1>i, <1>u, TokensKept
<1> QED  BY <1>3, <1>8, <1>9, <1>s, <1>u DEF A!ConnectionTypeOK

\* The state of a flow is taken once.
LEMMA ConsumeKeeps ==
  ASSUME A!ConnectionTypeOK, FlowInv, TokenInv, NEW q \in Requests, A!Consume(q)
  PROVE  A!ConnectionTypeOK' /\ FlowInv' /\ TokenInv'
<1>t. /\ client \in Nat /\ state \in [Flows -> A!State] /\ request \in [Requests -> A!Request]
      /\ request[q] \in A!Request /\ cookie \in [A!Purposes -> Flows \cup {A!None}]
  BY DEF A!ConnectionTypeOK
<1>i. /\ request[q].phase = "consume" /\ request[q].task = "callback" /\ request[q].refresh = A!None
      /\ CallbackIs(q) /\ ~Writing(q) /\ ~Resolving(q)
  <2>1. request[q].phase = "consume" /\ RequestIs(q) /\ CallbackIs(q)
    BY FlowIsSo DEF FlowInv, A!Consume
  <2> QED  BY <2>1 DEF RequestIs, Writing, Resolving
<1>f. PICK f \in Flows :
        /\ f = request[q].flow /\ state[f].row = "open"
        /\ state' = [state EXCEPT ![f].row = "gone"]
        /\ \/ A!Finished(q)
           \/ A!Go(q, [request[q] EXCEPT !.phase = "client"]) /\ UNCHANGED cookie
  BY <1>i DEF A!Consume, CallbackIs
<1>u. UNCHANGED <<service, client, account, newest, died>>
  BY DEF A!Consume
<1>s. /\ state' \in [Flows -> A!State] /\ \A g \in Flows \ {f} : state'[g] = state[g]
      /\ state'[f].row = "gone" /\ state'[f].account = state[f].account /\ state'[f].user = state[f].user
      /\ state'[f].purpose = state[f].purpose /\ state'[f].client = state[f].client
  <2>1. [state[f] EXCEPT !.row = "gone"] \in A!State
    BY <1>t DEF A!State
  <2> QED  BY <1>f, <1>t, <2>1 DEF A!State
<1>1. /\ \A p \in Requests \ {q} : request'[p] = request[p]
      /\ request' \in [Requests -> A!Request]
      /\ cookie' \in [A!Purposes -> Flows \cup {A!None}]
      /\ RequestIs(q)' /\ CallbackIs(q)' /\ ~Resolving(q)' /\ ~Writing(q)'
      /\ \A g \in Flows : Took(q, g)' => g = f
  <2>1. CASE A!Finished(q)
    BY <2>1, FinishedIs, IdleIs
  <2>2. CASE A!Go(q, [request[q] EXCEPT !.phase = "client"]) /\ UNCHANGED cookie
    <3> DEFINE new == [request[q] EXCEPT !.phase = "client"]
    <3>1. /\ new \in A!Request /\ new.phase = "client" /\ new.task = "callback" /\ new.flow = f
          /\ new.purpose = request[q].purpose /\ new.user = request[q].user /\ new.refresh = A!None
      BY <1>f, <1>i, <1>t DEF A!Request
    <3>2. /\ request'[q] = new /\ \A p \in Requests \ {q} : request'[p] = request[p]
          /\ request' \in [Requests -> A!Request]
      BY <2>2, <3>1, GoesOn
    <3> HIDE DEF new
    <3>3. RequestIs(q)' /\ ~Resolving(q)' /\ ~Writing(q)' /\ \A g \in Flows : Took(q, g)' => g = f
      BY <3>1, <3>2 DEF RequestIs, Resolving, Writing, Took
    <3>4. CallbackIs(q)'
      BY <1>f, <1>i, <1>s, <3>1, <3>2 DEF CallbackIs, Took
    <3> QED  BY <1>t, <2>2, <3>2, <3>3, <3>4
  <2> QED  BY <1>f, <2>1, <2>2
<1>2. \A g \in Flows : /\ state[g].row = "gone" => state'[g].row = "gone" /\ g # f
                       /\ state[g].row # "none" => state'[g].row # "none"
                       /\ state'[g].purpose = state[g].purpose /\ state'[g].user = state[g].user
                       /\ state'[g].account = state[g].account
  BY <1>f, <1>s
<1>3. StateInv'
  BY <1>f, <1>s, <1>u DEF FlowInv, StateInv
<1>4. FlowInv'
  BY <1>1, <1>2, <1>3, <1>f, <1>u, FlowKept
<1>5. TokenInv'
  BY <1>1, <1>2, <1>i, <1>u, TokensKept
<1> QED  BY <1>1, <1>4, <1>5, <1>s, <1>u DEF A!ConnectionTypeOK

\* The code is exchanged by whoever took the state.
LEMMA ExchangeKeeps ==
  ASSUME A!ConnectionTypeOK, FlowInv, TokenInv, NEW q \in Requests, A!Exchange(q)
  PROVE  A!ConnectionTypeOK' /\ FlowInv' /\ TokenInv'
<1>t. /\ client \in Nat /\ state \in [Flows -> A!State] /\ request \in [Requests -> A!Request]
      /\ request[q] \in A!Request /\ newest \in [Flows -> 0 .. MaxVersion]
  BY DEF A!ConnectionTypeOK
<1>i. /\ request[q].phase = "exchange" /\ request[q].task = "callback"
      /\ CallbackIs(q) /\ ~Writing(q) /\ ~Resolving(q)
  <2>1. request[q].phase = "exchange" /\ RequestIs(q) /\ CallbackIs(q)
    BY FlowIsSo DEF FlowInv, A!Exchange
  <2> QED  BY <2>1 DEF RequestIs, Writing, Resolving
<1>f. PICK f \in Flows :
        /\ f = request[q].flow /\ Took(q, f) /\ state[f].row = "gone"
        /\ state' = [state EXCEPT ![f].exchanged = @ + 1]
        /\ newest' = [newest EXCEPT ![f] = 1]
  BY <1>i DEF A!Exchange, CallbackIs, Took
<1>u. /\ UNCHANGED <<service, cookie, client, account, died>>
      /\ A!Go(q, [request[q] EXCEPT !.phase = "save", !.refresh = 1])
  BY DEF A!Exchange
<1>s. /\ state' \in [Flows -> A!State] /\ \A g \in Flows \ {f} : state'[g] = state[g]
      /\ state'[f].row = "gone" /\ state'[f].account = state[f].account /\ state'[f].user = state[f].user
      /\ state'[f].purpose = state[f].purpose /\ state'[f].client = state[f].client
  <2>1. state[f].exchanged + 1 \in Nat
    BY <1>t DEF A!State
  <2>2. [state[f] EXCEPT !.exchanged = @ + 1] \in A!State
    BY <1>t, <2>1 DEF A!State
  <2> QED  BY <1>f, <1>t, <2>2 DEF A!State
<1>w. /\ newest' \in [Flows -> 0 .. MaxVersion] /\ newest'[f] = 1
      /\ \A g \in Flows \ {f} : newest'[g] = newest[g]
  <2>1. 1 \in 0 .. MaxVersion
    BY Constants
  <2> QED  BY <1>f, <1>t, <2>1
<1> DEFINE new == [request[q] EXCEPT !.phase = "save", !.refresh = 1]
<1>1. /\ new \in A!Request /\ new.phase = "save" /\ new.task = "callback" /\ new.flow = f
      /\ new.purpose = request[q].purpose /\ new.user = request[q].user /\ new.refresh = 1
  BY <1>f, <1>i, <1>t DEF A!Request
<1>2. /\ request'[q] = new /\ \A p \in Requests \ {q} : request'[p] = request[p]
      /\ request' \in [Requests -> A!Request]
  BY <1>1, <1>u, GoesOn
<1> HIDE DEF new
<1>3. /\ RequestIs(q)' /\ ~Resolving(q)' /\ ~Writing(q)'
      /\ \A g \in Flows : Took(q, g)' <=> Took(q, g)
  BY <1>1, <1>2, <1>f DEF RequestIs, Resolving, Writing, Took
<1>4. CallbackIs(q)'
  BY <1>1, <1>2, <1>f, <1>i, <1>s, <1>w DEF CallbackIs, Took
<1>5. StateInv'
  BY <1>f, <1>s, <1>u DEF FlowInv, StateInv
<1>6. \A g \in Flows : /\ state'[g].row = state[g].row /\ state'[g].purpose = state[g].purpose
                       /\ state'[g].user = state[g].user /\ state'[g].account = state[g].account
  BY <1>f, <1>s
<1>7. ASSUME NEW p \in Requests \ {q}, request[p].phase = "save"
      PROVE  newest'[request[p].flow] = newest[request[p].flow]
  <2>1. request[p].task = "callback" /\ request[p].flow \in Flows /\ Took(p, request[p].flow)
    BY <1>7 DEF FlowInv, RequestInv, CallbackInv, Took
  <2>2. request[p].flow # f
    BY <1>f, <2>1 DEF FlowInv, CallbackInv
  <2> QED  BY <1>w, <2>1, <2>2
<1>8. FlowInv'
  BY <1>2, <1>3, <1>4, <1>5, <1>6, <1>7, <1>u, FlowKept
<1>9. \A g \in Flows : newest'[g] = newest[g] \/ (newest'[g] = 1 /\ Took(q, g))
  BY <1>f, <1>w
<1>10. TokenInv'
  BY <1>2, <1>3, <1>6, <1>9, <1>i, <1>u, TokensKept
<1> QED  BY <1>2, <1>8, <1>10, <1>s, <1>u, <1>w DEF A!ConnectionTypeOK

\* The same of the requests that end with a save or a write,
LEMMA SaveEnds ==
  ASSUME A!ConnectionTypeOK, FlowInv, TokenInv, NEW q \in Requests, A!Save(q)
  PROVE  A!ConnectionTypeOK' /\ FlowInv' /\ TokenInv'
<1>t. /\ account \in [Users -> A!Connection] /\ request[q] \in A!Request
  BY DEF A!ConnectionTypeOK
<1>u. UNCHANGED <<service, state, client, newest, died>> /\ A!Finished(q)
  BY DEF A!Save
<1>1. /\ request'[q] = A!Idle /\ \A p \in Requests \ {q} : request'[p] = request[p]
      /\ request' \in [Requests -> A!Request]
      /\ cookie' \in [A!Purposes -> Flows \cup {A!None}]
  BY <1>u, FinishedIs
<1>2. RequestIs(q)' /\ CallbackIs(q)' /\ \A g \in Flows : ~Took(q, g)'
  BY <1>1, IdleIs
<1>3. StateInv'
  BY <1>u DEF FlowInv, StateInv
<1>4. FlowInv'
  BY <1>1, <1>2, <1>3, <1>u, FlowKept
<1>5. account' \in [Users -> A!Connection]
  <2>1. request[q].flow \in Flows
    BY DEF A!Save, FlowInv, RequestInv, CallbackInv
  <2>2. request[q].refresh \in Nat
    BY <1>t DEF A!Request
  <2>3. PICK id \in Flows \cup {A!None}, u \in Users :
          \/ account' = account
          \/ account' = [account EXCEPT ![u] =
               [id |-> id, grant |-> request[q].flow, refresh |-> request[q].refresh]]
    <3> DEFINE u == A!Owner(q)
               id == IF account[u] = A!NoConnection THEN request[q].flow ELSE account[u].id
    <3>1. u \in Users
      BY <1>t DEF A!Owner, A!Save, FlowInv, RequestInv, CallbackInv, A!Request, A!Purposes
    <3>2. id \in Flows \cup {A!None}
      BY <1>t, <2>1, <3>1 DEF A!Connection
    <3>3. \/ account' = account
          \/ account' = [account EXCEPT ![u] =
               [id |-> id, grant |-> request[q].flow, refresh |-> request[q].refresh]]
      BY DEF A!Save
    <3> HIDE DEF u, id
    <3> QED  BY <3>1, <3>2, <3>3
  <2>4. [id |-> id, grant |-> request[q].flow, refresh |-> request[q].refresh] \in A!Connection
    BY <2>1, <2>2 DEF A!Connection
  <2> QED  BY <1>t, <2>3, <2>4
<1> QED  BY <1>1, <1>4, <1>5, <1>u, SaveKeeps DEF A!ConnectionTypeOK

\* by whatever they store,
LEMMA WriteEnds ==
  ASSUME A!ConnectionTypeOK, FlowInv, TokenInv, NEW q \in Requests, A!Write(q)
  PROVE  A!ConnectionTypeOK' /\ FlowInv' /\ TokenInv'
<1>t. /\ account \in [Users -> A!Connection] /\ request[q] \in A!Request
  BY DEF A!ConnectionTypeOK
<1>u. UNCHANGED <<service, state, client, newest, died>> /\ A!Finished(q)
  BY DEF A!Write
<1>1. /\ request'[q] = A!Idle /\ \A p \in Requests \ {q} : request'[p] = request[p]
      /\ request' \in [Requests -> A!Request]
      /\ cookie' \in [A!Purposes -> Flows \cup {A!None}]
  BY <1>u, FinishedIs
<1>2. RequestIs(q)' /\ CallbackIs(q)' /\ \A g \in Flows : ~Took(q, g)'
  BY <1>1, IdleIs
<1>3. StateInv'
  BY <1>u DEF FlowInv, StateInv
<1>4. FlowInv'
  BY <1>1, <1>2, <1>3, <1>u, FlowKept
<1>5. A!Tokens(q) \in A!Connection
  BY <1>t DEF A!Tokens, A!Request, A!Connection
<1>6. account' \in [Users -> A!Connection]
  BY <1>t, <1>5 DEF A!Write
<1> QED  BY <1>1, <1>4, <1>6, <1>u, WriteKeeps DEF A!ConnectionTypeOK

\* of a refresh,
LEMMA RefreshGoesOn ==
  ASSUME A!ConnectionTypeOK, FlowInv, TokenInv, NEW q \in Requests, A!Refresh(q)
  PROVE  A!ConnectionTypeOK' /\ FlowInv' /\ TokenInv'
<1>t. /\ request[q] \in A!Request /\ newest \in [Flows -> 0 .. MaxVersion]
  BY DEF A!ConnectionTypeOK
<1>q. request[q].phase = "refresh" /\ Resolving(q) /\ RequestIs(q)
  BY FlowIsSo DEF A!Refresh, FlowInv, RequestInv, Resolving
<1>f. PICK f \in Flows : f = request[q].snapshot.grant /\ Settled(f) /\ newest[f] \in Nat
  BY <1>q, Resolves DEF TokenInv
<1>u. UNCHANGED <<service, cookie, state, client, account, died>>
  BY DEF A!Refresh
<1>n. /\ newest' \in [Flows -> 0 .. MaxVersion]
      /\ \A g \in Flows \ {f} : newest'[g] = newest[g]
  <2>1. CASE A!Rotating
    <3>1. newest[f] < MaxVersion /\ newest' = [newest EXCEPT ![f] = newest[f] + 1]
      BY <1>f, <2>1 DEF A!Refresh
    <3>2. newest[f] + 1 \in 0 .. MaxVersion
      BY <1>f, <3>1, Constants
    <3> QED  BY <1>t, <3>1, <3>2
  <2>2. CASE ~A!Rotating
    BY <1>t, <2>2 DEF A!Refresh
  <2> QED  BY <2>1, <2>2
<1>1. PICK new \in A!Request :
        A!Go(q, new) /\ new.phase = "write" /\ new.task = "resolve" /\ new.client = request[q].client
  <2>1. CASE A!Rotating
    <3>1. A!Go(q, [request[q] EXCEPT !.phase = "write", !.refresh = newest[f] + 1])
      BY <1>f, <2>1 DEF A!Refresh
    <3>2. newest[f] + 1 \in Nat
      BY <1>f
    <3> DEFINE new == [request[q] EXCEPT !.phase = "write", !.refresh = newest[f] + 1]
    <3>3. new \in A!Request /\ new.phase = "write" /\ new.task = "resolve" /\ new.client = request[q].client
      BY <1>q, <1>t, <3>2 DEF A!Request, Resolving
    <3> QED  BY <3>1, <3>3
  <2>2. CASE ~A!Rotating
    <3>1. A!Go(q, [request[q] EXCEPT !.phase = "write"])
      BY <2>2 DEF A!Refresh
    <3> DEFINE new == [request[q] EXCEPT !.phase = "write"]
    <3>2. new \in A!Request /\ new.phase = "write" /\ new.task = "resolve" /\ new.client = request[q].client
      BY <1>q, <1>t DEF A!Request, Resolving
    <3> QED  BY <3>1, <3>2
  <2> QED  BY <2>1, <2>2
<1>2. /\ request'[q] = new /\ \A p \in Requests \ {q} : request'[p] = request[p]
      /\ request' \in [Requests -> A!Request]
  BY <1>1, GoesOn
<1>3. RequestIs(q)' /\ CallbackIs(q)' /\ \A g \in Flows : ~Took(q, g)'
  BY <1>1, <1>2 DEF RequestIs, CallbackIs, Took
<1>4. StateInv'
  BY <1>u DEF FlowInv, StateInv
<1>5. ASSUME NEW p \in Requests \ {q}, request[p].phase = "save"
      PROVE  newest'[request[p].flow] = newest[request[p].flow]
  <2>1. request[p].flow \in Flows /\ Took(p, request[p].flow)
    BY <1>5 DEF FlowInv, RequestInv, CallbackInv, Took
  <2>2. request[p].flow # f
    BY <1>f, <2>1 DEF Settled
  <2> QED  BY <1>n, <2>1, <2>2
<1>6. FlowInv'
  BY <1>2, <1>3, <1>4, <1>5, <1>u, FlowKept
<1> QED  BY <1>2, <1>6, <1>n, <1>u, RefreshKeeps DEF A!ConnectionTypeOK

\* and of a user who disconnects.
LEMMA UserDisconnects ==
  ASSUME A!ConnectionTypeOK, FlowInv, TokenInv, NEW u \in Users, A!Disconnect(u)
  PROVE  A!ConnectionTypeOK' /\ FlowInv' /\ TokenInv'
<1>1. UNCHANGED <<service, cookie, state, client, newest, request, died>>
  BY DEF A!Disconnect
<1>2. account' \in [Users -> A!Connection]
  <2>1. A!NoConnection \in A!Connection
    BY Constants DEF A!NoConnection, A!Connection
  <2> QED  BY <2>1 DEF A!Disconnect, A!ConnectionTypeOK
<1>3. FlowInv'
  BY <1>1 DEF FlowInv, RequestInv, StateInv, CallbackInv, Took
<1> QED  BY <1>1, <1>2, <1>3, DisconnectKeeps DEF A!ConnectionTypeOK

\* Only the cookies of the browser differ.
LEMMA CookiesDoNotMatter ==
  ASSUME FlowInv, TokenInv,
         UNCHANGED <<service, state, client, account, newest, request, died>>
  PROVE  FlowInv' /\ TokenInv'
<1>1. FlowInv'
  BY DEF FlowInv, RequestInv, StateInv, CallbackInv, Took
<1>2. BackedInv'
  BY DEF TokenInv, BackedInv, Backed, Settled, Owned, Took, Resolving
<1>3. IdInv' /\ OneTokenInv' /\ TokensAreNewest'
  BY DEF TokenInv, IdInv, OneTokenInv, TokensAreNewest, Resolving, A!Rotating
<1>4. WriteInv'
  BY DEF TokenInv, WriteInv, Writing, Resolving, A!Rotating
<1> QED  BY <1>1, <1>2, <1>3, <1>4 DEF TokenInv

\* ServiceInv is inductive.
LEMMA ServiceStep == ServiceInv /\ A!ConnectionNext => ServiceInv'
<1> SUFFICES ASSUME A!ConnectionTypeOK, FlowInv, TokenInv, A!ConnectionNext
             PROVE  A!ConnectionTypeOK' /\ FlowInv' /\ TokenInv'
  BY DEF ServiceInv, FlowInv, TokenInv
<1>1. ASSUME NEW q \in Requests, A!RequestStep(q)
      PROVE  A!ConnectionTypeOK' /\ FlowInv' /\ TokenInv'
  <2>1. CASE A!FindClient(q) \/ A!RegisterClient(q)
    BY <2>1, FindClientKeeps
  <2>2. CASE (\E p \in A!Purposes : A!Begin(q, p)) \/ (\E u \in Users : A!Resolve(q, u))
    BY <2>2, BeginKeeps
  <2>3. CASE A!Issue(q)
    BY <2>3, IssueKeeps
  <2>4. CASE A!Consume(q)
    BY <2>4, ConsumeKeeps
  <2>5. CASE A!Exchange(q)
    BY <2>5, ExchangeKeeps
  <2>6. CASE A!Save(q)
    BY <2>6, SaveEnds
  <2>7. CASE A!Refresh(q)
    BY <2>7, RefreshGoesOn
  <2>8. CASE A!Write(q)
    BY <2>8, WriteEnds
  <2>9. CASE A!Fails(q) \/ A!Dies(q)
    BY <2>9, EndKeeps
  <2>10. CASE \E f \in Flows : A!Callback(q, f)
    BY <2>10, CallbackKeeps
  <2> QED  BY <1>1, <2>1, <2>2, <2>3, <2>4, <2>5, <2>6, <2>7, <2>8, <2>9, <2>10 DEF A!RequestStep
<1>2. ASSUME NEW p \in A!Purposes, A!CallbackRefused(p)
      PROVE  A!ConnectionTypeOK' /\ FlowInv' /\ TokenInv'
  <2>1. UNCHANGED <<service, state, client, account, newest, request, died>>
    BY <1>2 DEF A!CallbackRefused
  <2>2. cookie' \in [A!Purposes -> Flows \cup {A!None}]
    BY <1>2 DEF A!CallbackRefused, A!ConnectionTypeOK
  <2> QED  BY <2>1, <2>2, CookiesDoNotMatter DEF A!ConnectionTypeOK
<1>3. ASSUME NEW u \in Users, A!Disconnect(u)
      PROVE  A!ConnectionTypeOK' /\ FlowInv' /\ TokenInv'
  BY <1>3, UserDisconnects
<1> QED  BY <1>1, <1>2, <1>3 DEF A!ConnectionNext

\* Every state, code and token is that of the one client.
LEMMA ClientsOfTheFlow == ServiceInv => ClientsAgree
<1> SUFFICES ASSUME ServiceInv, NEW q \in Requests
             PROVE  /\ request[q].phase = "exchange" => request[q].client = state[request[q].flow].client
                    /\ request[q].phase = "refresh" =>
                         request[q].client = state[request[q].snapshot.grant].client
  BY DEF ClientsAgree
<1>1. ASSUME request[q].phase = "exchange"
      PROVE  request[q].client = state[request[q].flow].client
  BY <1>1 DEF ServiceInv, RequestInv, CallbackInv, StateInv, Took
<1>2. ASSUME request[q].phase = "refresh"
      PROVE  request[q].client = state[request[q].snapshot.grant].client
  <2>1. Resolving(q) /\ request[q].client = client
    BY <1>2 DEF ServiceInv, RequestInv, Resolving
  <2>2. request[q].snapshot.grant \in Flows /\ Settled(request[q].snapshot.grant)
    BY <2>1, Resolves DEF ServiceInv
  <2> QED  BY <2>1, <2>2 DEF ServiceInv, StateInv, Settled
<1> QED  BY <1>1, <1>2

-----------------------------------------------------------------------------
(* The whole. *)

\* The services are kept by the steps of the others,
LEMMA ServiceKept == ServiceInv /\ UNCHANGED accountVars => ServiceInv'
<1> SUFFICES ASSUME ServiceInv, UNCHANGED accountVars PROVE ServiceInv'
  OBVIOUS
<1>1. /\ UNCHANGED <<service, cookie, state, client, account, newest, request, died>>
      /\ FlowInv /\ TokenInv /\ A!ConnectionTypeOK
  BY DEF accountVars, ServiceInv, FlowInv, TokenInv
<1>2. FlowInv' /\ TokenInv'
  BY <1>1, CookiesDoNotMatter
<1>3. A!ConnectionTypeOK'
  BY <1>1 DEF A!ConnectionTypeOK
<1> QED  BY <1>2, <1>3 DEF ServiceInv, FlowInv, TokenInv

\* and the others by those of the services.
LEMMA CredentialKept == CredentialIInv /\ UNCHANGED credentialVars => CredentialIInv'
<1> SUFFICES ASSUME CredentialIInv, UNCHANGED credentialVars PROVE CredentialIInv'
  OBVIOUS
<1>1. UNCHANGED <<connection, flow, dialog, purging, turn, report, refreshed, lost, faults>>
  BY DEF credentialVars, signInVars, turnVars
<1>2. CredentialTypeOK'
  BY <1>1 DEF CredentialIInv, CredentialTypeOK
<1>3. SignInInv' /\ RowInv'
  BY <1>1 DEF CredentialIInv, CredentialInv, SignInInv, RowInv
<1>4. TurnInv'
  BY <1>1 DEF CredentialIInv, CredentialInv, TurnInv, Stored, Pending
<1>5. \A r \in Runs : Ahead(r)'
  BY <1>1 DEF CredentialIInv, CredentialInv, Ahead
<1>6. NewestIsCarried'
  BY <1>1 DEF CredentialIInv, CredentialInv, NewestIsCarried, Stored, Pending
<1> QED  BY <1>2, <1>3, <1>4, <1>5, <1>6 DEF CredentialIInv, CredentialInv

\* The inductive invariant.
ConnectionsInv == CredentialIInv /\ ServiceInv

\* It holds at the beginning,
LEMMA ConnectionsBegin == Init => ConnectionsInv
  BY CredentialTypesBegin, CredentialBegins, ServiceBegins DEF Init, ConnectionsInv, CredentialIInv

\* is kept by every step,
LEMMA ConnectionsStep == ConnectionsInv /\ [Next]_vars => ConnectionsInv'
<1> SUFFICES ASSUME ConnectionsInv, [Next]_vars PROVE ConnectionsInv'
  OBVIOUS
<1>1. CASE Model
  BY <1>1, CredentialStep, ServiceKept DEF Model, ConnectionsInv
<1>2. CASE Service
  BY <1>2, CredentialKept, ServiceStep DEF Service, ConnectionsInv
<1>3. CASE UNCHANGED vars
  BY <1>3, CredentialKept, ServiceKept DEF vars, ConnectionsInv
<1> QED  BY <1>1, <1>2, <1>3 DEF Next

\* and so holds always.
LEMMA ConnectionsHold == Spec => []ConnectionsInv
  BY ConnectionsBegin, ConnectionsStep, PTL DEF Spec

\* Type correctness of Connections: the rows, sign-ins, dialogs, turns, reports,
\* states, connections and requests keep their types.
THEOREM ConnectionTypes == Spec => []TypeOK
<1>1. ConnectionsInv => TypeOK
  BY DEF ConnectionsInv, CredentialIInv, ServiceInv, TypeOK
<1> QED  BY <1>1, ConnectionsHold, PTL

\* The newest credential of a grant is in its row, or with a turn or a handler
\* that will store it there, unless the fault that lost it is known: whatever
\* order refreshes, reports, time-outs, retries, rotations and deletions come
\* in, for every number of sign-ins, runs, tries and faults
\* (oauth-credential.ts, compareAndSetLlmCredential).
THEOREM NoCredentialIsLost == Spec => []NewestIsCarried
<1>1. ConnectionsInv => NewestIsCarried
  BY DEF ConnectionsInv, CredentialIInv, CredentialInv
<1> QED  BY <1>1, ConnectionsHold, PTL

\* A run that waits will get a credential of the sign-in it was submitted with,
\* however often the connection is rotated, deleted and purged before it starts
\* (rotateLlmConnection, purgeDeletedLlmConnections).
THEOREM RevisionsAreKept == Spec => []RunsKeepTheirRevision
<1>1. ConnectionsInv => RunsKeepTheirRevision
  <2> SUFFICES ASSUME ConnectionsInv, NEW r \in Runs, turn[r].phase = "queued"
               PROVE  /\ Stored(turn[r].connection)
                      /\ connection[turn[r].connection].grant = turn[r].grant
    BY DEF RunsKeepTheirRevision
  <2>1. RowInv /\ TurnInv
    BY DEF ConnectionsInv, CredentialIInv, CredentialInv
  <2>2. /\ turn[r].connection = turn[r].grant /\ turn[r].connection \in Flows
        /\ Stored(turn[r].connection)
    BY <2>1 DEF TurnInv, Chosen, Submitted
  <2> QED  BY <2>1, <2>2 DEF RowInv, Stored
<1> QED  BY <1>1, ConnectionsHold, PTL

\* A dialog that waits follows a sign-in that is going on: no order of
\* subscribing, ending, closing, forgetting and restarting leaves it behind
\* (OAuthFlowManager.subscribe).
THEOREM DialogsAreAnswered == Spec => []SignInIsAnswered
<1>1. ConnectionsInv => SignInIsAnswered
  BY DEF ConnectionsInv, CredentialIInv, CredentialInv, SignInInv, SignInIsAnswered
<1> QED  BY <1>1, ConnectionsHold, PTL

\* A connection belongs to the user who began its flow, or to the account that
\* logged in with it, although users share a browser, cookies are overwritten by
\* later flows and flows overlap (finishVcsConnection, finishGithubLogin,
\* finishPluginOAuth).
THEOREM ConnectionsAreOwned == Spec => []ConnectionOwned
<1>1. ConnectionsInv => ConnectionOwned
  BY DEF ConnectionsInv, ServiceInv, BackedInv, Backed, Owned, ConnectionOwned
<1> QED  BY <1>1, ConnectionsHold, PTL

\* A stored connection can be used and refreshed, as a client and with a token
\* its provider knows, whoever else registers the client, refreshes the token or
\* connects again meanwhile, unless a request died with the newest token
\* (ensureRegisteredClient, getVcsAccessToken, resolvePluginOAuthToken).
THEOREM ConnectionsCanBeUsed == Spec => []ConnectionUsable
<1>1. ConnectionsInv => ConnectionUsable
  BY ClientsOfTheFlow DEF ConnectionsInv, ServiceInv, ConnectionUsable
<1> QED  BY <1>1, ConnectionsHold, PTL

\* What CredentialMovesForward says of the row i.
Forward(i) ==
  Stored(i) /\ connection'[i].state \in {"live", "retired"} =>
    /\ connection'[i].grant = connection[i].grant
    /\ connection'[i].version >= connection[i].version

\* Compare-and-set replaces what the run was given by what it has, which is no
\* older.
LEMMA RowsMoveForward ==
  ASSUME CredentialIInv, CredentialNext, NEW i \in Flows
  PROVE  Forward(i)
<1>t. connection \in [Flows -> Row] /\ connection[i] \in Row /\ connection[i].version \in Nat
  BY DEF CredentialIInv, CredentialTypeOK, Row
<1>1. ASSUME connection' = connection \/ RowStep(i) PROVE Forward(i)
  BY <1>1, <1>t DEF Forward, RowStep, Stored
<1>2. ASSUME NEW f \in Flows, SignIn(f) PROVE Forward(i)
  BY <1>1, <1>2, RowsStep DEF CredentialIInv, CredentialInv
<1>3. ASSUME NEW r \in Runs, Persist(r) PROVE Forward(i)
  <2>1. turn[r].file \in Nat /\ turn[r].held \in Nat
    BY DEF CredentialIInv, CredentialTypeOK, Turn
  <2>2. connection' = CompareAndSet(turn[r].connection, turn[r].held, turn[r].file)
    BY <1>3 DEF Persist
  <2>3. CASE i = turn[r].connection
    <3>1. turn[r].held <= turn[r].file
      BY <2>3 DEF CredentialIInv, CredentialInv, TurnInv
    <3>2. connection'[i].grant = connection[i].grant
      BY <1>t, <2>2, <2>3 DEF CompareAndSet, Row
    <3>3. \/ connection'[i].version = connection[i].version
          \/ connection[i].version = turn[r].held /\ connection'[i].version = turn[r].file
      BY <1>t, <2>2, <2>3 DEF CompareAndSet, Row
    <3> QED  BY <1>t, <2>1, <3>1, <3>2, <3>3 DEF Forward
  <2>4. CASE i # turn[r].connection
    <3>1. connection'[i] = connection[i]
      BY <1>t, <2>2, <2>4 DEF CompareAndSet
    <3> QED  BY <1>t, <3>1 DEF Forward
  <2> QED  BY <2>3, <2>4
<1>4. ASSUME NEW r \in Runs, TurnStep(r), ~Persist(r) PROVE Forward(i)
  <2>1. connection' = connection
    BY <1>4 DEF TurnStep, ChooseModel, Submit, MintForRun, Refresh, EndTurn, Stopped, Send, TimesOut,
       GiveUp, Check, HandlerFails, DeleteRun
  <2> QED  BY <1>1, <2>1
<1>5. ASSUME PurgeDeleted PROVE Forward(i)
  <2>1. RowStep(i)
    BY <1>5, PurgeStep DEF PurgeDeleted, CredentialIInv
  <2> QED  BY <1>1, <2>1
<1>6. ASSUME Restart PROVE Forward(i)
  BY <1>1, <1>6 DEF Restart
<1> QED  BY <1>2, <1>3, <1>4, <1>5, <1>6 DEF CredentialNext, SignIn, TurnStep

\* A row never goes back to an older credential nor to one of another sign-in,
\* whichever turns report late (compareAndSetLlmCredential).
THEOREM CredentialsMoveForward == Spec => CredentialMovesForward
<1>1. ConnectionsInv /\ [Next]_vars => [\A i \in Flows : Forward(i)]_credentialVars
  <2> SUFFICES ASSUME ConnectionsInv, [Next]_vars, ~UNCHANGED credentialVars, NEW i \in Flows
               PROVE  Forward(i)
    OBVIOUS
  <2>1. CredentialNext
    BY DEF Next, Model, Service, vars
  <2> QED  BY <2>1, RowsMoveForward DEF ConnectionsInv
<1>2. Spec => [][\A i \in Flows : Forward(i)]_credentialVars
  BY <1>1, ConnectionsHold, PTL DEF Spec
<1> QED  BY <1>2 DEF CredentialMovesForward, Forward
=============================================================================
