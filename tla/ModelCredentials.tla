-------------------------- MODULE ModelCredentials --------------------------
(***************************************************************************)
(* The OAuth connection of one user to a model provider, from the sign-in  *)
(* that creates it to the turns that use it and refresh it.                *)
(*                                                                         *)
(* A sign-in runs in the memory of the controller while a dialog follows   *)
(* it.  It stores the credential in a row of its own and retires the row   *)
(* of the sign-in before; runs keep the row they were submitted with.  A   *)
(* turn gets a copy of the row's credential.  Its agent may refresh it,    *)
(* which spends the copy everybody else has, and reports the new one when  *)
(* the turn ends; the handler stores it by compare-and-set.                *)
(*                                                                         *)
(* A credential is the sign-in that granted it and how often it has been   *)
(* refreshed since.  Which row is the default is left out: whoever needs a *)
(* model without a choice takes the first live row if there is no default. *)
(***************************************************************************)
EXTENDS Naturals, FiniteSetsExt

CONSTANTS
  Flows,          \* bound: the sign-ins, 1 .. n in the order they are started
  Runs,
  Scopes,         \* bound: the sign-ins, dialogs and runs of a behaviour
  ATTEMPTS,       \* STATUS_ATTEMPTS: how often a report is sent
  MaxRefreshes,   \* bound: refreshes of a grant
  FaultKinds,     \* of "restart", "disconnect", "stopped", "error"
  MaxFaults       \* bound: faults in a behaviour

NoFlow == 0

ASSUME CredentialAssumption ==
  /\ Flows \subseteq Nat \ {NoFlow}
  /\ Scopes \subseteq [flows : SUBSET Flows, dialogs : SUBSET Flows, runs : SUBSET Runs]
  /\ ATTEMPTS \in Nat \ {0} /\ MaxRefreshes \in Nat /\ MaxFaults \in Nat

VARIABLES
  connection,   \* connection[f]: the row the sign-in f inserts
  flow,         \* flow[f]: the sign-in in the controller's memory
  dialog,       \* dialog[f]: the browser that follows it
  purging,      \* the handler of a deletion has yet to purge
  turn,         \* turn[r]: a run and its runtime
  report,       \* report[r]: the refreshed credential on its way
  refreshed,    \* refreshed[f]: the newest credential of the grant f
  lost,         \* grants whose newest credential died with its machine
  faults

signInVars == <<flow, dialog>>
turnVars == <<turn, report, refreshed, lost>>
credentialVars == <<connection, signInVars, purging, turnVars, faults>>

Row == [state : {"none", "live", "retired", "purged"}, grant : Flows \cup {NoFlow},
        version : Nat]
NoRow == [state |-> "none", grant |-> NoFlow, version |-> 0]

InMemory == {"login", "authorized", "found", "rotated"}
Ended == {"complete", "error"}

FlowRecord == [phase : {"idle", "gone"} \cup InMemory \cup Ended,
               aborted : BOOLEAN, existing : Flows \cup {NoFlow}]

Turn == [phase : {"none", "chosen", "queued", "working", "reporting", "done", "deleted"},
         connection : Flows \cup {NoFlow},
         grant : Flows \cup {NoFlow},   \* of the connection when it was chosen
         held : Nat,                    \* LLM_AUTH_JSON
         file : Nat]                    \* the agent's own copy

NoTurn == [phase |-> "none", connection |-> NoFlow, grant |-> NoFlow,
           held |-> 0, file |-> 0]

CredentialTypeOK ==
  /\ connection \in [Flows -> Row]
  /\ flow \in [Flows -> FlowRecord]
  /\ dialog \in [Flows -> {"none", "asked", "open", "told", "failed", "closed"}]
  /\ purging \in BOOLEAN
  /\ turn \in [Runs -> Turn]
  /\ report \in [Runs -> [sent : 0 .. ATTEMPTS, waiting : BOOLEAN,
                          arrived : Nat, checked : Nat]]
  /\ refreshed \in [Flows -> Nat]
  /\ lost \subseteq Flows
  /\ faults \in 0 .. MaxFaults

\* What a behaviour leaves out is over before it begins.
CredentialInit ==
  /\ \E s \in Scopes :
       /\ flow = [f \in Flows |-> [phase |-> IF f \in s.flows THEN "idle" ELSE "gone",
                                  aborted |-> FALSE, existing |-> NoFlow]]
       /\ dialog = [f \in Flows |-> IF f \in s.dialogs THEN "none" ELSE "closed"]
       /\ turn = [r \in Runs |->
            IF r \in s.runs THEN NoTurn ELSE [NoTurn EXCEPT !.phase = "deleted"]]
  /\ connection = [f \in Flows |-> NoRow]
  /\ purging = FALSE
  /\ report = [r \in Runs |-> [sent |-> 0, waiting |-> FALSE, arrived |-> 0, checked |-> 0]]
  /\ refreshed = [f \in Flows |-> 0]
  /\ lost = {}
  /\ faults = 0

Fault(kind) ==
  /\ kind \in FaultKinds
  /\ faults < MaxFaults
  /\ faults' = faults + 1

-----------------------------------------------------------------------------
(* The rows. *)

Stored(i) == connection[i].state \in {"live", "retired"}

Live == {f \in Flows : connection[f].state = "live"}

\* A run keeps its row until it is deleted with its session.
Referenced(i) ==
  \E r \in Runs : turn[r].connection = i
                  /\ turn[r].phase \in {"queued", "working", "reporting", "done"}

Purged(rows) == [f \in Flows |->
  IF rows[f].state = "retired" /\ ~Referenced(f)
  THEN [rows[f] EXCEPT !.state = "purged"] ELSE rows[f]]

Granted(f) == [state |-> "live", grant |-> f, version |-> refreshed[f]]

\* Mutated: the row of the sign-in before gets the new credential.
RotatedInPlace(old, f) == [connection EXCEPT ![old].grant = f, ![old].version = refreshed[f]]

Rotated(old, f) == [connection EXCEPT ![old].state = "retired", ![f] = Granted(f)]

CompareAndSet(i, previous, new) ==
  [connection EXCEPT ![i].version =
     IF Stored(i) /\ @ = previous THEN new ELSE @]

\* The handler of a deletion by the user.
DeleteConnection(i) ==
  /\ connection[i].state = "live"
  /\ connection' = [connection EXCEPT ![i].state = "retired"]
  /\ purging' = TRUE
  /\ UNCHANGED <<signInVars, turnVars, faults>>

PurgeDeleted ==
  /\ purging
  /\ connection' = Purged(connection)
  /\ purging' = FALSE
  /\ UNCHANGED <<signInVars, turnVars, faults>>

-----------------------------------------------------------------------------
(* A sign-in and its dialog. *)

\* Terminal events go to the listeners and into the buffer for later ones.
End(f, outcome) ==
  /\ flow' = [flow EXCEPT ![f].phase = outcome]
  /\ dialog' = IF dialog[f] = "open" THEN [dialog EXCEPT ![f] = "told"] ELSE dialog

Start(f) ==
  /\ flow[f].phase = "idle"
  /\ \A g \in Flows : g < f => flow[g].phase # "idle"
  /\ flow' = [g \in Flows |->
       IF g = f THEN [flow[f] EXCEPT !.phase = "login"]
       ELSE [flow[g] EXCEPT !.aborted = @ \/ flow[g].phase \in InMemory]]
  /\ dialog' = [dialog EXCEPT ![f] = IF @ = "none" THEN "asked" ELSE @]
  /\ UNCHANGED <<connection, purging, turnVars, faults>>

Login(f) ==
  /\ flow[f].phase = "login" /\ ~flow[f].aborted
  /\ flow' = [flow EXCEPT ![f].phase = "authorized"]
  /\ refreshed' = [refreshed EXCEPT ![f] = 1]
  /\ UNCHANGED <<connection, dialog, purging, turn, report, lost, faults>>

\* The code was not entered, or the sign-in was cancelled, superseded or timed out.
LoginFails(f) ==
  /\ flow[f].phase = "login"
  /\ End(f, "error")
  /\ UNCHANGED <<connection, purging, turnVars, faults>>

\* FLOW_TIMEOUT_MS
Expire(f) ==
  /\ flow[f].phase \in InMemory /\ ~flow[f].aborted
  /\ flow' = [flow EXCEPT ![f].aborted = TRUE]
  /\ UNCHANGED <<connection, dialog, purging, turnVars, faults>>

\* Nobody looks at the signal any more: a sign-in that is aborted from here on
\* is stored all the same.
FindExisting(f) ==
  /\ flow[f].phase = "authorized"
  /\ \E i \in IF Live = {} THEN {NoFlow} ELSE Live :
       flow' = [flow EXCEPT ![f].phase = "found", ![f].existing = i]
  /\ UNCHANGED <<connection, dialog, purging, turnVars, faults>>

Create(f) ==
  /\ flow[f].phase = "found" /\ flow[f].existing = NoFlow
  /\ connection' = [connection EXCEPT ![f] = Granted(f)]
  /\ End(f, "complete")
  /\ UNCHANGED <<purging, turnVars, faults>>

Rotate(f) ==
  /\ flow[f].phase = "found" /\ flow[f].existing \in Live
  /\ connection' = Rotated(flow[f].existing, f)
  /\ flow' = [flow EXCEPT ![f].phase = "rotated"]
  /\ UNCHANGED <<dialog, purging, turnVars, faults>>

\* Somebody else retired the row meanwhile: the transaction is rolled back.
RotateFails(f) ==
  /\ flow[f].phase = "found" /\ flow[f].existing \notin Live \cup {NoFlow}
  /\ End(f, "error")
  /\ UNCHANGED <<connection, purging, turnVars, faults>>

PurgeRotated(f) ==
  /\ flow[f].phase = "rotated"
  /\ connection' = Purged(connection)
  /\ End(f, "complete")
  /\ UNCHANGED <<purging, turnVars, faults>>

\* TERMINAL_RETENTION_MS
Forget(f) ==
  /\ flow[f].phase \in Ended
  /\ flow' = [flow EXCEPT ![f].phase = "gone"]
  /\ UNCHANGED <<connection, dialog, purging, turnVars, faults>>

\* Mutated: the events before the subscription are not replayed.
SubscribeFromNow(f) ==
  /\ dialog[f] = "asked"
  /\ dialog' = [dialog EXCEPT ![f] = IF flow[f].phase = "gone" THEN "failed" ELSE "open"]
  /\ UNCHANGED <<connection, flow, purging, turnVars, faults>>

Subscribe(f) ==
  /\ dialog[f] = "asked"
  /\ dialog' = [dialog EXCEPT ![f] =
       IF flow[f].phase = "gone" THEN "failed"
       ELSE IF flow[f].phase \in Ended THEN "told" ELSE "open"]
  /\ UNCHANGED <<connection, flow, purging, turnVars, faults>>

\* Closing the dialog cancels the sign-in.
Close(f) ==
  /\ dialog[f] \in {"asked", "open"}
  /\ dialog' = [dialog EXCEPT ![f] = "closed"]
  /\ flow' = [flow EXCEPT ![f].aborted = @ \/ flow[f].phase \in InMemory]
  /\ UNCHANGED <<connection, purging, turnVars, faults>>

\* The stream breaks: the dialog says so, and the sign-in goes on without it.
Disconnect(f) ==
  /\ Fault("disconnect")
  /\ dialog[f] = "open"
  /\ dialog' = [dialog EXCEPT ![f] = "failed"]
  /\ UNCHANGED <<connection, flow, purging, turnVars>>

-----------------------------------------------------------------------------
(* A run and the credential it is given. *)

\* The command resolves the model with its connection and inserts the run later.
ChooseModel(r) ==
  /\ turn[r].phase = "none"
  /\ \E i \in Live : turn' = [turn EXCEPT
       ![r] = [@ EXCEPT !.phase = "chosen", !.connection = i, !.grant = connection[i].grant]]
  /\ UNCHANGED <<connection, signInVars, purging, report, refreshed, lost, faults>>

\* The foreign key refuses a run whose row was purged meanwhile.
Submit(r) ==
  /\ turn[r].phase = "chosen"
  /\ turn' = [turn EXCEPT ![r] =
       IF Stored(turn[r].connection) THEN [@ EXCEPT !.phase = "queued"] ELSE NoTurn]
  /\ UNCHANGED <<connection, signInVars, purging, report, refreshed, lost, faults>>

MintForRun(r) ==
  /\ turn[r].phase = "queued"
  /\ Stored(turn[r].connection)
  /\ LET version == connection[turn[r].connection].version
     IN  turn' = [turn EXCEPT ![r].phase = "working", ![r].held = version, ![r].file = version]
  /\ UNCHANGED <<connection, signInVars, purging, report, refreshed, lost, faults>>

\* The provider takes the newest credential of a grant only, and replaces it.
Refresh(r) ==
  /\ turn[r].phase = "working"
  /\ turn[r].file = refreshed[turn[r].grant]
  /\ refreshed[turn[r].grant] <= MaxRefreshes
  /\ refreshed' = [refreshed EXCEPT ![turn[r].grant] = @ + 1]
  /\ turn' = [turn EXCEPT ![r].file = @ + 1]
  /\ UNCHANGED <<connection, signInVars, purging, report, lost, faults>>

\* Mutated: a turn that fails does not report.
EndTurnOnSuccess(r) ==
  /\ turn[r].phase = "working"
  /\ \E succeeded \in BOOLEAN :
       turn' = [turn EXCEPT ![r].phase =
         IF succeeded /\ turn[r].file # turn[r].held THEN "reporting" ELSE "done"]
  /\ UNCHANGED <<connection, signInVars, purging, report, refreshed, lost, faults>>

\* However the turn ended, a credential that changed is reported.
EndTurn(r) ==
  /\ turn[r].phase = "working"
  /\ turn' = [turn EXCEPT ![r].phase =
       IF turn[r].file # turn[r].held THEN "reporting" ELSE "done"]
  /\ UNCHANGED <<connection, signInVars, purging, report, refreshed, lost, faults>>

\* The newest credential of the grant is the one this run alone has.
Alone(r) == turn[r].file # connection[turn[r].connection].version

\* The machine is stopped before its turn has reported: cancelled, past its
\* deadline or silent.
Stopped(r) ==
  /\ Fault("stopped")
  /\ turn[r].phase \in {"working", "reporting"}
  /\ turn' = [turn EXCEPT ![r].phase = "done"]
  /\ lost' = IF turn[r].file # turn[r].held THEN lost \cup {turn[r].grant} ELSE lost
  /\ UNCHANGED <<connection, signInVars, purging, report, refreshed>>

Send(r) ==
  /\ turn[r].phase = "reporting"
  /\ ~report[r].waiting /\ report[r].sent < ATTEMPTS
  /\ report' = [report EXCEPT ![r] =
       [sent |-> @.sent + 1, waiting |-> TRUE, arrived |-> @.arrived + 1, checked |-> @.checked]]
  /\ UNCHANGED <<connection, signInVars, purging, turn, refreshed, lost, faults>>

\* No answer within TELEMETRY_TIMEOUT_MS.
TimesOut(r) ==
  /\ report[r].waiting
  /\ report' = [report EXCEPT ![r].waiting = FALSE]
  /\ UNCHANGED <<connection, signInVars, purging, turn, refreshed, lost, faults>>

Pending(r) == report[r].arrived + report[r].checked > 0

\* The error is logged and the file removed.
GiveUp(r) ==
  /\ turn[r].phase = "reporting"
  /\ ~report[r].waiting /\ report[r].sent = ATTEMPTS
  /\ turn' = [turn EXCEPT ![r].phase = "done"]
  /\ lost' = IF Pending(r) \/ ~Alone(r) THEN lost ELSE lost \cup {turn[r].grant}
  /\ UNCHANGED <<connection, signInVars, purging, report, refreshed, faults>>

\* An answer, which the runtime hears if it is the one it waits for.
Answer(r, handled) ==
  \E heard \in BOOLEAN :
    /\ heard => report[r].waiting
    /\ report' = [report EXCEPT ![r] = [handled EXCEPT !.waiting = @ /\ ~heard]]
    /\ turn' = IF heard THEN [turn EXCEPT ![r].phase = "done"] ELSE turn

\* The handler reads the row and compares it with what the run was given.
Check(r) ==
  /\ report[r].arrived > 0
  /\ LET i == turn[r].connection
         handled == [report[r] EXCEPT !.arrived = @ - 1]
     IN  IF /\ Stored(i)
            /\ connection[i].grant = turn[r].grant /\ connection[i].version = turn[r].held
         THEN /\ report' = [report EXCEPT ![r] = [handled EXCEPT !.checked = @ + 1]]
              /\ UNCHANGED turn
         ELSE Answer(r, handled)
  /\ UNCHANGED <<connection, signInVars, purging, refreshed, lost, faults>>

Persist(r) ==
  /\ report[r].checked > 0
  /\ connection' = CompareAndSet(turn[r].connection, turn[r].held, turn[r].file)
  /\ Answer(r, [report[r] EXCEPT !.checked = @ - 1])
  /\ UNCHANGED <<signInVars, purging, refreshed, lost, faults>>

\* The database fails the handler.
HandlerFails(r) ==
  /\ Fault("error")
  /\ report[r].arrived > 0
  /\ report' = [report EXCEPT ![r].arrived = @ - 1, ![r].waiting = FALSE]
  /\ lost' = IF turn[r].phase = "reporting" THEN lost ELSE lost \cup {turn[r].grant}
  /\ UNCHANGED <<connection, signInVars, purging, turn, refreshed>>

\* The session is deleted, with its runs.
DeleteRun(r) ==
  /\ turn[r].phase = "done" /\ ~Pending(r)
  /\ turn' = [turn EXCEPT ![r].phase = "deleted"]
  /\ UNCHANGED <<connection, signInVars, purging, report, refreshed, lost, faults>>

-----------------------------------------------------------------------------
(* Sign-ins and handlers live in the controller's memory. *)

Restart ==
  /\ Fault("restart")
  /\ flow' = [f \in Flows |->
       IF flow[f].phase = "idle" THEN flow[f] ELSE [flow[f] EXCEPT !.phase = "gone"]]
  /\ dialog' = [f \in Flows |-> IF dialog[f] = "open" THEN "failed" ELSE dialog[f]]
  /\ purging' = FALSE
  /\ report' = [r \in Runs |->
       [report[r] EXCEPT !.waiting = FALSE, !.arrived = 0, !.checked = 0]]
  /\ lost' = lost \cup {turn[r].grant : r \in {s \in Runs : Pending(s) /\ turn[s].phase = "done"}}
  /\ UNCHANGED <<connection, turn, refreshed>>

SignInStep(f) ==
  \/ LoginFails(f) \/ Expire(f) \/ FindExisting(f) \/ Create(f) \/ Rotate(f)
  \/ RotateFails(f) \/ PurgeRotated(f) \/ Subscribe(f)

TurnStep(r) ==
  \/ ChooseModel(r) \/ Submit(r) \/ MintForRun(r) \/ Refresh(r) \/ EndTurn(r) \/ Stopped(r)
  \/ Send(r) \/ TimesOut(r) \/ GiveUp(r) \/ Check(r) \/ Persist(r) \/ HandlerFails(r)
  \/ DeleteRun(r)

CredentialNext ==
  \/ \E f \in Flows : \/ Start(f) \/ Login(f) \/ SignInStep(f) \/ Forget(f) \/ Close(f)
                      \/ Disconnect(f) \/ DeleteConnection(f)
  \/ \E r \in Runs : TurnStep(r)
  \/ PurgeDeleted \/ Restart

-----------------------------------------------------------------------------
\* A stale turn cannot overwrite a newer credential, nor one of another
\* sign-in (compareAndSetLlmCredential; docs/model-connections.md).
CredentialMovesForward == [][\A i \in Flows :
  Stored(i) /\ connection'[i].state \in {"live", "retired"} =>
    /\ connection'[i].grant = connection[i].grant
    /\ connection'[i].version >= connection[i].version]_credentialVars

\* The newest credential of a grant is in its row, or on its way there with a
\* turn that will still report, unless the fault that lost it is known: no
\* ending of a turn and no order of reports drops it (oauth-credential.ts).
NewestIsCarried == \A i \in Flows :
  Stored(i) /\ connection[i].grant \notin lost =>
    \/ connection[i].version = refreshed[connection[i].grant]
    \/ \E r \in Runs :
         /\ turn[r].grant = connection[i].grant
         /\ turn[r].file = refreshed[connection[i].grant]
         /\ turn[r].phase \in {"working", "reporting"} \/ Pending(r)

\* A run that has not started yet will be given a credential of the sign-in it
\* was submitted with, whatever was rotated, deleted and purged meanwhile.
RunsKeepTheirRevision == \A r \in Runs :
  turn[r].phase = "queued" =>
    /\ Stored(turn[r].connection)
    /\ connection[turn[r].connection].grant = turn[r].grant

\* A dialog that waits, waits for a sign-in that is going on and will end at
\* the latest by its timer: it has missed neither the end of the sign-in, nor
\* the sign-in before it subscribed, nor that the controller died.
SignInIsAnswered == \A f \in Flows : dialog[f] = "open" => flow[f].phase \in InMemory
=============================================================================
