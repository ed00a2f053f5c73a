---------------------------- MODULE Conversation ----------------------------
(***************************************************************************)
(* What a session carries from turn to turn: the conversation, which the   *)
(* controller keeps, the workspace, which the provider keeps, and the      *)
(* revision all diffs are taken from.  The runtime of a turn (main) makes  *)
(* or reuses the checkout, reports the baseline, restores the conversation,*)
(* runs the agent, saves the conversation, reports the diff and then its   *)
(* status.  Each report may fail, be repeated, or arrive long after the    *)
(* runtime gave it up; the turn may be cancelled, and its machine parked,  *)
(* at any step.                                                            *)
(*                                                                         *)
(* Parking is SessionParking's subject and is here a claim and a commit;   *)
(* a revision is the set of turns whose edits it contains.                 *)
(***************************************************************************)
EXTENDS Naturals, Sequences, SequencesExt, FiniteSets

CONSTANTS
  LastTurn,     \* the session's turns are 1 .. LastTurn
  ATTEMPTS,     \* CHECKPOINT_ATTEMPTS, DIFF_EVENT_ATTEMPTS, STATUS_ATTEMPTS
  FaultKinds,   \* which of the kinds in AllFaults may happen
  MaxFaults     \* bound: number of faults

AllFaults == {
  "error",     \* a request fails before the controller handles it
  "late",      \* the runtime gives up a request that is handled later, or never
  "clone",     \* git cannot clone or fetch
  "suspend"}   \* the provider cannot suspend the machine

ConversationAssumption ==
  /\ {LastTurn, ATTEMPTS} \subseteq Nat \ {0}
  /\ FaultKinds \subseteq AllFaults /\ MaxFaults \in Nat

VARIABLES
  session,   \* what the row says of turns, operation, conversation and workspace
  turn,      \* the rows of the turns; early: see DiffShowsEveryEdit
  machine,   \* the machine of the active turn and its runtime
  wire,      \* requests the runtime has given up
  diffs,     \* the git.diff events in the logs
  faults

conversationVars == <<session, turn, machine, wire, diffs, faults>>

Turns == 1 .. LastTurn
Terminal == {"succeeded", "failed", "cancelled"}
Stages == {"off", "prepare", "cloning", "baseline", "restore", "agent", "save",
           "diff", "done", "error", "exit"}

\* A revision that may be absent is a set with one revision or none.
Revisions == SUBSET Turns
Optional(S) == {{}} \cup {{x} : x \in S}

\* git: whether .git is there, and whether the clone was completed; head: the
\* edits that are committed; tree: all edits.
Checkouts == [git : {"none", "partial", "whole"}, head : Revisions, tree : Revisions]
NoCheckout == [git |-> "none", head |-> {}, tree |-> {}]
Clone == [NoCheckout EXCEPT !.git = "whole"]

Off == [turn |-> 0, stage |-> "off", resumed |-> FALSE, checkout |-> NoCheckout,
        given |-> {}, base |-> {}, talk |-> <<>>, tries |-> 0]

Talks == {s \in UNION {[1 .. n -> Turns] : n \in 0 .. LastTurn} :
            \A i, j \in DOMAIN s : i < j => s[i] < s[j]}

ConversationTypeOK ==
  /\ session \in [active : {0} \cup Turns, operation : {"none", "parking"},
                  talk : Talks, base : Optional(Revisions), workspace : Optional(Checkouts)]
  /\ turn \in [Turns -> [status : {"unasked", "queued", "running"} \cup Terminal,
                         source : {"manual", "github"}, early : BOOLEAN]]
  /\ machine.stage \in Stages /\ machine.turn \in {0} \cup Turns
  /\ machine.checkout \in Checkouts /\ machine.talk \in Talks
  /\ machine.given \in Optional(Revisions) /\ machine.base \in Optional(Revisions)
  /\ machine.tries \in 0 .. ATTEMPTS - 1
  /\ \A m \in wire : m.turn \in Turns /\ m.talk \in Talks
  /\ diffs \subseteq [turn : Turns, hidden : Revisions]
  /\ faults \in 0 .. MaxFaults

ConversationInit ==
  /\ session = [active |-> 0, operation |-> "none", talk |-> <<>>, base |-> {},
                workspace |-> {}]
  /\ turn = [t \in Turns |-> [status |-> "unasked", source |-> "manual",
                              early |-> FALSE]]
  /\ machine = Off
  /\ wire = {} /\ diffs = {} /\ faults = 0

Now == machine.turn

Fault(kind) ==
  /\ kind \in FaultKinds
  /\ faults < MaxFaults
  /\ faults' = faults + 1

-----------------------------------------------------------------------------
(* The controller's handlers.  A request m is handled when the runtime waits *)
(* for it, or later.                                                         *)

\* Only the active turn writes, and nobody while an operation is claimed.
\* Mutated: the active turn is not asked for.
MayWriteAny(t) == session.operation = "none"

MayWrite(t) == session.active = t /\ session.operation = "none"

\* The first baseline stays (saveSessionDiffBaseSha).
SaveDiffBase(m) ==
  session' = IF MayWrite(m.turn) /\ session.base = {}
               THEN [session EXCEPT !.base = m.base] ELSE session

\* A success without a stored conversation is none.
NormalizeStatus(m) == IF m.ok /\ session.talk # <<>> THEN "succeeded" ELSE "failed"

Handle(m) ==
  \/ /\ m.kind = "baseline"
     /\ SaveDiffBase(m)
     /\ UNCHANGED <<turn, diffs>>
  \/ /\ m.kind = "diff"
     /\ SaveDiffBase(m)
     /\ diffs' = diffs \cup {[turn |-> m.turn, hidden |-> m.tree \cap UNION m.base]}
     /\ UNCHANGED turn
  \/ /\ m.kind = "save"
     /\ session' = IF MayWrite(m.turn) THEN [session EXCEPT !.talk = m.talk] ELSE session
     /\ UNCHANGED <<turn, diffs>>
  \/ /\ m.kind = "status"
     /\ turn' = IF turn[m.turn].status = "running"
                  THEN [turn EXCEPT ![m.turn].status = NormalizeStatus(m)] ELSE turn
     /\ UNCHANGED <<session, diffs>>

\* Events and a status are always accepted, if only to be logged.
Accepted(m) == m.kind = "save" => MayWrite(m.turn)

\* A request that was given up reaches its handler.
HandleLate ==
  \E m \in wire :
    /\ Handle(m)
    /\ wire' = wire \ {m}
    /\ UNCHANGED <<machine, faults>>

-----------------------------------------------------------------------------
(* The runtime. *)

To(stage) == machine' = [machine EXCEPT !.stage = stage, !.tries = 0]

Retry(stage) ==
  IF machine.tries + 1 < ATTEMPTS
    THEN machine' = [machine EXCEPT !.tries = @ + 1]
    ELSE To(stage)

\* Send m until it is answered, and go on to stage next; after the last
\* attempt, go on to stage given up.
Send(m, next, givenUp) ==
  \/ /\ Handle(m)
     /\ IF Accepted(m) THEN To(next) ELSE Retry(givenUp)
     /\ UNCHANGED <<wire, faults>>
  \/ /\ Fault("error")
     /\ Retry(givenUp)
     /\ UNCHANGED <<session, turn, wire, diffs>>
  \/ /\ Fault("late")
     /\ wire' = wire \cup {m}
     /\ Retry(givenUp)
     /\ UNCHANGED <<session, turn, diffs>>

Request(kind) ==
  [kind |-> kind, turn |-> Now, ok |-> FALSE, base |-> {}, tree |-> {}, talk |-> <<>>]

\* A checkpoint must bring its checkout; otherwise the repository is cloned
\* into an empty directory.
PrepareCheckout ==
  /\ machine.stage = "prepare"
  /\ IF machine.resumed
       THEN To(IF machine.checkout.git = "none" THEN "error" ELSE "baseline")
       ELSE machine' = [machine EXCEPT !.stage = "cloning",
                                       !.checkout = [NoCheckout EXCEPT !.git = "partial"]]
  /\ UNCHANGED <<session, turn, wire, diffs, faults>>

\* git removes what it cannot complete.
CloneFreshCheckout ==
  /\ machine.stage = "cloning"
  /\ \/ /\ machine' = [machine EXCEPT !.stage = "baseline", !.checkout = Clone]
        /\ UNCHANGED faults
     \/ /\ Fault("clone")
        /\ machine' = [machine EXCEPT !.stage = "error", !.checkout = NoCheckout]
  /\ UNCHANGED <<session, turn, wire, diffs>>

\* Mutated: every turn starts from its own HEAD.
BaselineOfTurn == {machine.checkout.head}

\* The session's baseline if the controller sent one, otherwise HEAD.
Baseline == IF machine.given # {} THEN machine.given ELSE {machine.checkout.head}

\* What the runtime reports goes through its queue, which it waits for.
ReportBaseline ==
  /\ machine.stage = "baseline" /\ machine.base = {}
  /\ machine' = [machine EXCEPT !.base = Baseline]
  /\ UNCHANGED <<session, turn, wire, diffs, faults>>

SendBaseline ==
  /\ machine.stage = "baseline" /\ machine.base # {}
  /\ Send([Request("baseline") EXCEPT !.base = machine.base], "restore", "restore")

CannotRestore == "error"

\* The stored conversation, or a new one (loadSessionManager).
LoadSessionManager ==
  /\ machine.stage = "restore"
  /\ \/ /\ session.active = Now
        /\ machine' = [machine EXCEPT !.stage = "agent", !.talk = session.talk, !.tries = 0]
        /\ UNCHANGED faults
     \/ Fault("error") /\ Retry(CannotRestore)
  /\ UNCHANGED <<session, turn, wire, diffs>>

\* The agent edits files and may commit them.
Prompt ==
  /\ machine.stage = "agent"
  /\ \E committed \in BOOLEAN :
       machine' = [machine EXCEPT
         !.stage = "save",
         !.talk = Append(@, Now),
         !.checkout.tree = @ \cup {Now},
         !.checkout.head = IF committed THEN machine.checkout.tree \cup {Now} ELSE @]
  /\ turn' = [turn EXCEPT ![Now].early = session.base = {}]
  /\ UNCHANGED <<session, wire, diffs, faults>>

\* A session that ended in an error is not saved.
AgentFails ==
  /\ machine.stage = "save" /\ machine.tries = 0
  /\ To("error")
  /\ UNCHANGED <<session, turn, wire, diffs, faults>>

\* Mutated: the turn succeeds although its conversation could not be saved.
CannotSaveSilently == "diff"

CannotSave == "error"

SaveSessionCheckpoint ==
  /\ machine.stage = "save"
  /\ Send([Request("save") EXCEPT !.talk = machine.talk], "diff", CannotSave)

GitDiff ==
  /\ machine.stage = "diff"
  /\ Send([Request("diff") EXCEPT !.base = machine.base, !.tree = machine.checkout.tree],
          "done", "done")

\* A status that cannot be reported leaves the run to the reconciler.
Status ==
  /\ machine.stage \in {"done", "error"}
  /\ Send([Request("status") EXCEPT !.ok = machine.stage = "done"], "exit", "exit")

Runtime ==
  \/ PrepareCheckout \/ CloneFreshCheckout \/ ReportBaseline \/ SendBaseline
  \/ LoadSessionManager \/ Prompt \/ AgentFails \/ SaveSessionCheckpoint
  \/ GitDiff \/ Status

-----------------------------------------------------------------------------
(* The session around its turns. *)

\* createSession, createSessionTurn and the reviews of a pull request.
CreateTurn ==
  /\ session.operation = "none"
  /\ \E t \in Turns :
       /\ turn[t].status = "unasked"
       /\ t > 1 => turn[t - 1].status # "unasked"
       /\ \E source \in {"manual", "github"} :
            turn' = [turn EXCEPT ![t].status = "queued", ![t].source = source]
       /\ session' = [session EXCEPT !.active = IF @ = 0 THEN t ELSE @]
  /\ UNCHANGED <<machine, wire, diffs, faults>>

\* What the machine of turn t starts with: its disk, and what the runtime is told.
Booted(t, resumed, base) == [Off EXCEPT
  !.turn = t, !.stage = "prepare", !.resumed = resumed, !.given = base,
  !.checkout = IF resumed THEN CHOOSE c \in session.workspace : TRUE ELSE @]

\* provisionRun: only a turn of the chat resumes the workspace, and is told
\* the baseline (sessionResumeState).
Provision ==
  /\ machine.stage = "off" /\ session.active # 0
  /\ session.operation = "none"
  /\ LET t == session.active
         allowResume == turn[t].source # "github"
     IN
       /\ turn[t].status = "queued"
       /\ turn' = [turn EXCEPT ![t].status = "running"]
       /\ machine' = Booted(t, allowResume /\ session.workspace # {},
                            IF allowResume THEN session.base ELSE {})
  /\ UNCHANGED <<session, wire, diffs, faults>>

\* A turn is cancelled, or fails by its deadline or by the silence of its
\* runtime.
CancelOrExpire ==
  /\ \E t \in Turns :
       \/ /\ turn[t].status \in {"queued", "running"}
          /\ turn' = [turn EXCEPT ![t].status = "cancelled"]
       \/ /\ turn[t].status = "running"
          /\ turn' = [turn EXCEPT ![t].status = "failed"]
  /\ UNCHANGED <<session, machine, wire, diffs, faults>>

Ended == session.active # 0 /\ turn[session.active].status \in Terminal

BeginParking ==
  /\ session.operation = "none" /\ Ended
  /\ machine # Off
  /\ session' = [session EXCEPT !.operation = "parking"]
  /\ UNCHANGED <<turn, machine, wire, diffs, faults>>

\* The oldest turn that is still queued, or none.
Following ==
  LET queued == {t \in Turns : turn[t].status = "queued" /\ t > session.active} IN
  IF queued = {} THEN 0 ELSE CHOOSE t \in queued : \A u \in queued : t <= u

Parked(workspace) ==
  [session EXCEPT !.workspace = workspace, !.active = Following, !.operation = "none"]

\* A turn that never had a machine leaves the workspace as it is.
ParkUnstarted ==
  /\ session.operation = "none" /\ Ended
  /\ machine = Off
  /\ session' = Parked(session.workspace)
  /\ UNCHANGED <<turn, machine, wire, diffs, faults>>

\* The machine is suspended with whatever its disk holds; when that fails, the
\* workspace before it is retained.
EndParking ==
  /\ session.operation = "parking"
  /\ \/ session' = Parked({machine.checkout}) /\ UNCHANGED faults
     \/ session' = Parked(session.workspace) /\ Fault("suspend")
  /\ machine' = Off
  /\ UNCHANGED <<turn, wire, diffs>>

\* Retention ends, or the provider no longer has the checkpoint.
ForgetWorkspace ==
  /\ session.workspace # {} /\ session.operation = "none"
  /\ machine = Off
  /\ session' = [session EXCEPT !.workspace = {}]
  /\ UNCHANGED <<turn, machine, wire, diffs, faults>>

ConversationNext ==
  \/ Runtime \/ HandleLate
  \/ CreateTurn \/ Provision \/ CancelOrExpire
  \/ BeginParking \/ ParkUnstarted \/ EndParking
  \/ ForgetWorkspace
=============================================================================
