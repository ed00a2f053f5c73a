--------------------------- MODULE SessionParking ---------------------------
(***************************************************************************)
(* One session: its queue of turns, of which only the active one may own a *)
(* machine, and the workspace checkpoint that is handed from turn to turn. *)
(*                                                                         *)
(* When a turn ends, a reconciler claims the session ("parking"), suspends *)
(* the turn's machine into a checkpoint, commits the checkpoint and        *)
(* promotes the next turn in one transaction, and then removes what the    *)
(* commit made superfluous.  "replacing" deletes a superseded checkpoint   *)
(* of an idle session, "expiring" deletes an old one.  The claim is a      *)
(* token with a heartbeat; a claim whose heartbeat is stale may be taken.  *)
(*                                                                         *)
(* The provider is the one that snapshots (microsandbox): the machine of   *)
(* turn t and the checkpoint made from it are two artifacts, and the path  *)
(* of the checkpoint depends on t only.  Both are therefore named t.       *)
(*                                                                         *)
(* Every action is one database statement or transaction, or one provider  *)
(* call, with the code up to the next await.                               *)
(***************************************************************************)
EXTENDS Naturals

CONSTANTS
  LastTurn,      \* turns are numbered 1 .. LastTurn
  Reconcilers,   \* controller processes that run the loop
  FaultKinds,    \* which of the kinds in AllFaults may happen
  MaxFaults      \* bound: number of faults

AllFaults == {
  "crash",       \* a reconciler or a provisioning worker disappears
  "pause",       \* a live holder's heartbeats are late or lost
  "race",        \* a turn ends between the attach and markRunning
  "refused",     \* the provider cannot suspend a machine that exists
  "rollback",    \* the parking transaction fails
  "lostreply"}   \* it commits, but the reconciler sees an error

ASSUME TurnsAssumption == LastTurn \in Nat \ {0}
ASSUME FaultsAssumption == FaultKinds \subseteq AllFaults /\ MaxFaults \in Nat
ASSUME ReconcilersAssumption == {"nobody", "user"} \cap Reconcilers = {}

VARIABLES
  session,   \* the row of the session
  run,       \* run[t]: the row of turn t
  worker,    \* worker[t]: where provisionRun of turn t stands
  source,    \* source[t]: the machine of turn t
  snapshot,  \* snapshot[t]: the checkpoint taken of that machine
  job,       \* job[c]: what reconciler c is doing
  faults

vars == <<session, run, worker, source, snapshot, job, faults>>

Turns == 1 .. LastTurn
None == 0

Status == {"absent", "queued", "provisioning", "running", "ended"}
Work == {"parking", "replacing", "expiring"}
Operation == {"none", "archiving"} \cup Work   \* archiving: SessionDeletion

SessionRow == [
  active    : {None} \cup Turns,             \* activeRunId
  workspace : {None} \cup Turns,             \* sandboxId
  expiry    : {"none", "ahead", "past"},     \* workspaceExpiresAt
  op        : Operation,                     \* sessionOperation
  holder    : Reconcilers \cup {"nobody", "user"},  \* sessionOperationAt: whose token
  beat      : {"none", "fresh", "stale"}]    \* sessionOperationHeartbeatAt

RunRow == [
  status   : Status,
  attached : BOOLEAN,                 \* sandboxId is set
  stopped  : BOOLEAN,                 \* sandboxStoppedAt is set
  finalize : {None} \cup Turns,       \* sandboxFinalizationWorkspaceId
  replaced : {None} \cup Turns]       \* sandboxReplacementWorkspaceId

WorkerState == {"none", "claimed", "attached", "lost", "stamp"}

\* pc: the next statement or call; turn: the batch row; previous: the session's
\* workspace read before suspending; made: suspend has returned; target: the
\* checkpoint deleteMarkedWorkspace is about; then: where it returns to;
\* pending: replacementPending.
JobState == [
  kind     : {"idle", "finalizing"} \cup Work,
  pc       : {"idle", "picked", "prepare", "recheck", "read", "suspend",
              "commit", "unowned", "check", "erase", "unmark", "uncommitted",
              "discard", "verify", "stop", "fallback", "finalize",
              "finalized", "clear", "release"},
  turn     : {None} \cup Turns,
  previous : {None} \cup Turns,
  target   : {None} \cup Turns,
  then     : {"none", "recheck", "verify", "finalize", "release"},
  pending  : BOOLEAN]

IdleJob == [kind |-> "idle", pc |-> "idle", turn |-> None, previous |-> None,
            target |-> None, then |-> "none", pending |-> FALSE]

TypeOK ==
  /\ session \in SessionRow
  /\ run \in [Turns -> RunRow]
  /\ worker \in [Turns -> WorkerState]
  /\ source \in [Turns -> {"none", "up", "down", "gone"}]
  /\ snapshot \in [Turns -> {"none", "whole"}]
  /\ job \in [Reconcilers -> JobState]
  /\ faults \in 0 .. MaxFaults

Init ==
  /\ session = [active |-> None, workspace |-> None, expiry |-> "none",
                op |-> "none", holder |-> "nobody", beat |-> "none"]
  /\ run = [t \in Turns |-> [status |-> "absent", attached |-> FALSE,
                             stopped |-> FALSE, finalize |-> None,
                             replaced |-> None]]
  /\ worker = [t \in Turns |-> "none"]
  /\ source = [t \in Turns |-> "none"]
  /\ snapshot = [t \in Turns |-> "none"]
  /\ job = [c \in Reconcilers |-> IdleJob]
  /\ faults = 0

Fault(kind) ==
  /\ kind \in FaultKinds
  /\ faults < MaxFaults
  /\ faults' = faults + 1

InFlight(t) == run[t].status \in {"provisioning", "running"}
Ended(t) == run[t].status = "ended"

-----------------------------------------------------------------------------
(* The claim on the session. *)

Released(row) == [row EXCEPT !.op = "none", !.holder = "nobody", !.beat = "none"]

\* claimSessionOperation: free, or held for the same operation and stale.
MayClaim(operation) ==
  \/ session.op = "none"
  \/ session.op = operation /\ session.beat = "stale"

Claimed(row, operation, c) ==
  [row EXCEPT !.op = operation, !.holder = c, !.beat = "fresh"]

\* The token in the row is the one c was given.
Owns(c) == session.op = job[c].kind /\ session.holder = c

\* Mutated: a stale parking claim is left to whoever parks next.
ReleaseStaleReplacingOnly(c) ==
  /\ job[c].pc = "idle"
  /\ session.op = "replacing" /\ session.beat = "stale"
  /\ session' = Released(session)
  /\ UNCHANGED <<run, worker, source, snapshot, job, faults>>

\* releaseStaleReconcilerOperations, at the start of a tick.
ReleaseStale(c) ==
  /\ job[c].pc = "idle"
  /\ session.op \in {"parking", "replacing"} /\ session.beat = "stale"
  /\ session' = Released(session)
  /\ UNCHANGED <<run, worker, source, snapshot, job, faults>>

\* A reconciler that claimed the session is still working under its token.
Held == \E c \in Reconcilers : Owns(c) /\ job[c].pc \notin {"idle", "picked"}

\* Ten minutes without a heartbeat, because the holder is gone ...
HolderGone ==
  /\ session.op \in Work /\ session.beat = "fresh" /\ ~Held
  /\ session' = [session EXCEPT !.beat = "stale"]
  /\ UNCHANGED <<run, worker, source, snapshot, job, faults>>

\* ... or although it is alive: a blocked process, or renewals that failed.
HolderPaused ==
  /\ session.op \in Work /\ session.beat = "fresh" /\ Held
  /\ Fault("pause")
  /\ session' = [session EXCEPT !.beat = "stale"]
  /\ UNCHANGED <<run, worker, source, snapshot, job>>

\* A renewal that arrives late after all: renewSessionOperation only asks for
\* the token.
BeatResumes(c) ==
  /\ Owns(c) /\ job[c].pc \notin {"idle", "picked"}
  /\ session.beat = "stale"
  /\ session' = [session EXCEPT !.beat = "fresh"]
  /\ UNCHANGED <<run, worker, source, snapshot, job, faults>>

-----------------------------------------------------------------------------
(* The user. *)

Latest(t) ==
  /\ run[t].status = "absent"
  /\ \A u \in Turns : u < t => run[u].status # "absent"

\* createSessionWithRun and createSessionTurn: SessionBusyError unless nobody
\* holds the session or the holder is stale.
CreateTurn(t) ==
  /\ Latest(t)
  /\ session.op = "none" \/ session.beat = "stale"
  /\ run' = [run EXCEPT ![t].status = "queued"]
  /\ session' = [Released(session) EXCEPT
                   !.active = IF @ = None THEN t ELSE @]
  /\ UNCHANGED <<worker, source, snapshot, job, faults>>

\* completeRun by cancellation, the runtime's report, the deadline or silence.
\* Between the attach and markRunning it is a race with the worker.
EndTurn(t) ==
  /\ run[t].status \in {"queued", "provisioning", "running"}
  /\ IF worker[t] = "attached" THEN Fault("race") ELSE UNCHANGED faults
  /\ run' = [run EXCEPT ![t].status = "ended"]
  /\ UNCHANGED <<session, worker, source, snapshot, job>>

-----------------------------------------------------------------------------
(* Provisioning a turn. Attempts and leases are RunLifecycle's subject.      *)

\* claimNextRun: only the active turn of a session nobody operates on.
ClaimTurn(t) ==
  /\ run[t].status = "queued" /\ session.active = t /\ session.op = "none"
  /\ run' = [run EXCEPT ![t].status = "provisioning"]
  /\ worker' = [worker EXCEPT ![t] = "claimed"]
  /\ UNCHANGED <<session, source, snapshot, job, faults>>

\* The stored checkpoint cannot be resumed from.
WorkspaceMissing ==
  session.workspace # None /\ snapshot[session.workspace] = "none"

\* startSandbox: a turn resumes from the session's checkpoint; when that is
\* missing its reference is cleared first, and the turn starts cold.
WorkspaceGone(t) ==
  /\ worker[t] = "claimed"
  /\ WorkspaceMissing /\ session.active = t /\ session.op = "none"
  /\ session' = [session EXCEPT !.workspace = None, !.expiry = "none"]
  /\ UNCHANGED <<run, worker, source, snapshot, job, faults>>

\* Mutated: the attach does not ask whether the run has ended.
StartMachineAnyway(t) ==
  /\ worker[t] = "claimed"
  /\ run' = [run EXCEPT ![t].attached = TRUE]
  /\ source' = [source EXCEPT ![t] = "up"]
  /\ worker' = [worker EXCEPT ![t] = "attached"]
  /\ UNCHANGED <<session, snapshot, job, faults>>

\* The machine is there: the attach.  It is refused when the run has ended,
\* and the provider removes the machine.  A turn GitHub triggered does not
\* resume, so it gets here whatever became of the checkpoint.
StartMachine(t) ==
  /\ worker[t] = "claimed"
  /\ IF run[t].status = "provisioning" /\ ~run[t].attached
       THEN /\ run' = [run EXCEPT ![t].attached = TRUE]
            /\ source' = [source EXCEPT ![t] = "up"]
            /\ worker' = [worker EXCEPT ![t] = "attached"]
       ELSE /\ worker' = [worker EXCEPT ![t] = "none"]
            /\ UNCHANGED <<run, source>>
  /\ UNCHANGED <<session, snapshot, job, faults>>

\* Requeued or failed by its worker before anything was attached.
ProvisionFails(t) ==
  /\ worker[t] = "claimed"
  /\ \E next \in {"queued", "ended"} :
       run' = [run EXCEPT ![t].status =
                 IF @ = "provisioning" THEN next ELSE @]
  /\ worker' = [worker EXCEPT ![t] = "none"]
  /\ UNCHANGED <<session, source, snapshot, job, faults>>

\* The runtime cannot be installed or started: the provider removes the
\* machine, and an attached run is never requeued.
LaunchFails(t) ==
  /\ worker[t] = "attached"
  /\ run' = [run EXCEPT ![t].status =
               IF @ = "provisioning" THEN "ended" ELSE @]
  /\ source' = [source EXCEPT ![t] = "gone"]
  /\ worker' = [worker EXCEPT ![t] = "none"]
  /\ UNCHANGED <<session, snapshot, job, faults>>

MarkRunning(t) ==
  /\ worker[t] = "attached"
  /\ IF run[t].status = "provisioning"
       THEN /\ run' = [run EXCEPT ![t].status = "running"]
            /\ worker' = [worker EXCEPT ![t] = "none"]
       ELSE /\ worker' = [worker EXCEPT ![t] = "lost"]
            /\ UNCHANGED run
  /\ UNCHANGED <<session, source, snapshot, job, faults>>

\* stopAfterLostOwnership, session turn or not: stop, then stamp.
StopLost(t) ==
  /\ worker[t] = "lost"
  /\ \/ /\ source' = [source EXCEPT ![t] = "gone"]
        /\ worker' = [worker EXCEPT ![t] = "stamp"]
     \/ /\ worker' = [worker EXCEPT ![t] = "none"]
        /\ UNCHANGED source
  /\ UNCHANGED <<session, run, snapshot, job, faults>>

StampLost(t) ==
  /\ worker[t] = "stamp"
  /\ run' = [run EXCEPT ![t].stopped = TRUE]
  /\ worker' = [worker EXCEPT ![t] = "none"]
  /\ UNCHANGED <<session, source, snapshot, job, faults>>

WorkerDies(t) ==
  /\ worker[t] # "none"
  /\ Fault("crash")
  /\ worker' = [worker EXCEPT ![t] = "none"]
  /\ UNCHANGED <<session, run, source, snapshot, job>>

\* findReclaimableClaims: the lease of a dead worker runs out.
LeaseExpires(t) ==
  /\ run[t].status = "provisioning" /\ ~run[t].attached
  /\ worker[t] = "none"
  /\ run' = [run EXCEPT ![t].status = "queued"]
  /\ UNCHANGED <<session, worker, source, snapshot, job, faults>>

\* The machine is lost outside the controller's doing.
MachineDies(t) ==
  /\ source[t] = "up"
  /\ source' = [source EXCEPT ![t] = "gone"]
  /\ UNCHANGED <<session, run, worker, snapshot, job, faults>>

ExpiryPasses ==
  /\ session.workspace # None /\ session.expiry = "ahead"
  /\ session' = [session EXCEPT !.expiry = "past"]
  /\ UNCHANGED <<run, worker, source, snapshot, job, faults>>

-----------------------------------------------------------------------------
(* The reconciler reads a batch; the row it works on is a copy.              *)

At(c, pc) == job[c].pc = pc
Go(c, pc) == job' = [job EXCEPT ![c].pc = pc]

Pick(c, kind, t, target) ==
  /\ At(c, "idle")
  /\ job' = [job EXCEPT ![c] = [IdleJob EXCEPT
       !.kind = kind, !.pc = "picked", !.turn = t, !.target = target]]
  /\ UNCHANGED <<session, run, worker, source, snapshot, faults>>

PickParking(c, t) ==        \* findSessionRunsToPark, a parkable run
  /\ Ended(t) /\ ~run[t].stopped /\ session.active = t /\ run[t].attached
  /\ Pick(c, "parking", t, None)

PickReplaced(c, t) ==       \* findSessionSandboxReplacementsToDelete
  /\ Ended(t) /\ run[t].replaced # None
  /\ Pick(c, "replacing", t, run[t].replaced)

\* Mutated: only the run that is still active.
PickFinalizeActive(c, t) ==
  /\ Ended(t) /\ run[t].attached /\ run[t].stopped /\ run[t].finalize # None
  /\ session.active = t
  /\ Pick(c, "finalizing", t, run[t].finalize)

PickFinalize(c, t) ==       \* findSessionSandboxesToFinalize
  /\ Ended(t) /\ run[t].attached /\ run[t].stopped /\ run[t].finalize # None
  /\ Pick(c, "finalizing", t, run[t].finalize)

PickExpired(c) ==           \* findExpiredSessionWorkspaces
  /\ session.active = None /\ session.workspace # None
  /\ session.expiry = "past" /\ session.op \in {"none", "expiring"}
  /\ Pick(c, "expiring", None, session.workspace)

\* withSessionOperation and expireWorkspace: what the copy promised must still
\* hold when the claim is made; otherwise the row is skipped.
Expected(c) ==
  CASE job[c].kind = "parking" -> session.active = job[c].turn
    [] job[c].kind = "replacing" -> session.active = None
    [] job[c].kind = "expiring" -> /\ session.active = None
                                   /\ session.workspace = job[c].target

ClaimSession(c) ==
  /\ At(c, "picked") /\ job[c].kind # "finalizing"
  /\ IF Expected(c) /\ MayClaim(job[c].kind)
       THEN /\ session' = Claimed(session, job[c].kind, c)
            /\ job' = [job EXCEPT
                 ![c].pc = CASE job[c].kind = "parking" -> "prepare"
                             [] job[c].kind = "replacing" -> "check"
                             [] job[c].kind = "expiring" -> "erase",
                 ![c].then = IF job[c].kind = "replacing" THEN "release"
                                                          ELSE @]
       ELSE /\ job' = [job EXCEPT ![c] = IdleJob]
            /\ UNCHANGED session
  /\ UNCHANGED <<run, worker, source, snapshot, faults>>

Release(c) ==
  /\ At(c, "release")
  /\ session' = IF Owns(c) THEN Released(session) ELSE session
  /\ job' = [job EXCEPT ![c] = IdleJob]
  /\ UNCHANGED <<run, worker, source, snapshot, faults>>

Crash(c) ==
  /\ ~At(c, "idle")
  /\ Fault("crash")
  /\ job' = [job EXCEPT ![c] = IdleJob]
  /\ UNCHANGED <<session, run, worker, source, snapshot>>

-----------------------------------------------------------------------------
(* deleteMarkedWorkspace: re-read the marker and the session, delete at the  *)
(* provider, clear the marker.  Errors are logged and keep the marker.       *)

Check(c) ==
  /\ At(c, "check")
  /\ IF /\ run[job[c].turn].replaced = job[c].target
        /\ session.workspace # job[c].target
       THEN Go(c, "erase")
       ELSE Go(c, job[c].then)
  /\ UNCHANGED <<session, run, worker, source, snapshot, faults>>

\* Also the deletion of an expired checkpoint.
Erase(c) ==
  /\ At(c, "erase")
  /\ snapshot' = [snapshot EXCEPT ![job[c].target] = "none"]
  /\ Go(c, IF job[c].kind = "expiring" THEN "clear" ELSE "unmark")
  /\ UNCHANGED <<session, run, worker, source, faults>>

\* Mutated: a failed deletion of a superseded checkpoint is forgotten.
EraseFailsUnmarked(c) ==
  /\ At(c, "erase")
  /\ Go(c, IF job[c].kind = "expiring" THEN "release" ELSE "unmark")
  /\ UNCHANGED <<session, run, worker, source, snapshot, faults>>

EraseFails(c) ==
  /\ At(c, "erase")
  /\ Go(c, IF job[c].kind = "expiring" THEN "release" ELSE job[c].then)
  /\ UNCHANGED <<session, run, worker, source, snapshot, faults>>

Unmark(c) ==                \* markSessionSandboxReplacementDeleted
  /\ At(c, "unmark")
  /\ run' = IF run[job[c].turn].replaced = job[c].target
              THEN [run EXCEPT ![job[c].turn].replaced = None]
              ELSE run
  /\ Go(c, job[c].then)
  /\ UNCHANGED <<session, worker, source, snapshot, faults>>

\* Mutated: the statement's default, nobody operates on the session.
ClearUnclaimed(c) ==
  /\ At(c, "clear")
  /\ session' = IF /\ session.workspace = job[c].target
                   /\ session.active = None /\ session.op = "none"
                  THEN [session EXCEPT !.workspace = None, !.expiry = "none"]
                  ELSE session
  /\ Go(c, "release")
  /\ UNCHANGED <<run, worker, source, snapshot, faults>>

Clear(c) ==                 \* clearSessionWorkspace, after an expiry
  /\ At(c, "clear")
  /\ session' = IF /\ session.workspace = job[c].target
                   /\ session.active = None /\ Owns(c)
                  THEN [session EXCEPT !.workspace = None, !.expiry = "none"]
                  ELSE session
  /\ Go(c, "release")
  /\ UNCHANGED <<run, worker, source, snapshot, faults>>

-----------------------------------------------------------------------------
(* Parking. *)

\* parkSession's choice of the turn to promote.
Following(t) ==
  LET queued == {u \in Turns : u > t /\ run[u].status = "queued"}
  IN  IF queued = {} THEN None
      ELSE CHOOSE u \in queued : \A w \in queued : u <= w

\* The session half of parkSession's transaction; "keep" is undefined.
ParkedSession(t, workspace) ==
  [session EXCEPT
     !.active = Following(t),
     !.workspace = IF workspace = "keep" THEN @
                   ELSE IF workspace = "cold" THEN None ELSE t,
     !.expiry = IF workspace = "keep" THEN @
                ELSE IF workspace = "cold" THEN "none" ELSE "ahead"]

\* The run half: nothing is written to a run that is already stamped.
ParkedRun(t, workspace, replaced) ==
  IF run[t].stopped THEN run
  ELSE [run EXCEPT
          ![t].stopped = TRUE,
          ![t].finalize = IF workspace = "keep" THEN @
                          ELSE IF workspace = "cold" THEN None ELSE t,
          ![t].replaced = IF replaced = "keep" THEN @
                          ELSE IF replaced = "clear" THEN None
                          ELSE session.workspace]

\* parkSessionRun of a turn that never owned a machine.
ParkPlain(c, t) ==
  /\ At(c, "idle")
  /\ Ended(t) /\ ~run[t].stopped /\ session.active = t /\ ~run[t].attached
  /\ session.op = "none"
  /\ session' = ParkedSession(t, "keep")
  /\ run' = ParkedRun(t, "keep", "keep")
  /\ UNCHANGED <<worker, source, snapshot, job, faults>>

\* prepareSessionParking.
Prepare(c) ==
  LET t == job[c].turn IN
  /\ At(c, "prepare")
  /\ job' = [job EXCEPT ![c] =
       IF run[t].stopped THEN [@ EXCEPT !.pc = "release"]
       ELSE IF run[t].replaced # None
         THEN [@ EXCEPT !.pc = "check", !.target = run[t].replaced,
                        !.then = "recheck"]
         ELSE [@ EXCEPT !.pc = "read"]]
  /\ UNCHANGED <<session, run, worker, source, snapshot, faults>>

Recheck(c) ==
  /\ At(c, "recheck")
  /\ Go(c, IF run[job[c].turn].replaced # None THEN "release" ELSE "read")
  /\ UNCHANGED <<session, run, worker, source, snapshot, faults>>

ReadPrevious(c) ==
  /\ At(c, "read")
  /\ job' = [job EXCEPT ![c].previous = session.workspace, ![c].pc = "suspend",
                        ![c].target = None, ![c].then = "none"]
  /\ UNCHANGED <<session, run, worker, source, snapshot, faults>>

Suspend(c) ==
  LET t == job[c].turn IN
  /\ At(c, "suspend")
  /\ source[t] \in {"up", "down"}
  /\ source' = [source EXCEPT ![t] = "down"]
  /\ snapshot' = [snapshot EXCEPT ![t] = "whole"]
  /\ Go(c, "commit")
  /\ UNCHANGED <<session, run, worker, faults>>

\* Before or after the machine was stopped, or because there is none.
SuspendFails(c) ==
  LET t == job[c].turn IN
  /\ At(c, "suspend")
  /\ IF source[t] \in {"up", "down"}
       THEN /\ Fault("refused")
            /\ source' \in {source, [source EXCEPT ![t] = "down"]}
       ELSE UNCHANGED <<source, faults>>
  /\ Go(c, "stop")
  /\ UNCHANGED <<session, run, worker, snapshot>>

OwnsParkLease(c) == Owns(c) /\ session.active = job[c].turn

\* previousWorkspace: nothing to replace when the path is the same.
Replaces(c) == job[c].previous \notin {None, job[c].turn}

\* The parking transaction; "lostreply" commits it and reports an error.
Commit(c) ==
  LET t == job[c].turn IN
  /\ At(c, "commit")
  /\ IF OwnsParkLease(c)
       THEN /\ session' = ParkedSession(t, "made")
            /\ run' = ParkedRun(t, "made",
                                IF Replaces(c) THEN "previous" ELSE "clear")
            /\ \/ /\ job' = [job EXCEPT ![c] =
                       IF Replaces(c)
                         THEN [@ EXCEPT !.pc = "check", !.then = "finalize",
                                        !.target = job[c].previous]
                         ELSE [@ EXCEPT !.pc = "finalize"]]
                  /\ UNCHANGED faults
               \/ Fault("lostreply") /\ Go(c, "uncommitted")
       ELSE /\ Go(c, "unowned")
            /\ UNCHANGED <<session, run, faults>>
  /\ UNCHANGED <<worker, source, snapshot>>

CommitFails(c) ==
  /\ At(c, "commit")
  /\ Fault("rollback")
  /\ Go(c, "uncommitted")
  /\ UNCHANGED <<session, run, worker, source, snapshot>>

\* markSessionSandboxReplacementPending: one marker at a time.
MarkReplaced(t) ==
  run' = IF run[t].replaced = None THEN [run EXCEPT ![t].replaced = t] ELSE run

DeleteOwn(c, then) ==
  job' = [job EXCEPT ![c].pc = "check", ![c].target = job[c].turn,
                     ![c].then = then]

\* cleanupUnownedWorkspace, up to its delete.
Unowned(c) ==
  LET t == job[c].turn IN
  /\ At(c, "unowned")
  /\ IF session.workspace # t /\ run[t].replaced = None
       THEN MarkReplaced(t) /\ DeleteOwn(c, "release")
       ELSE Go(c, "release") /\ UNCHANGED run
  /\ UNCHANGED <<session, worker, source, snapshot, faults>>

\* cleanupUncommittedWorkspace: with a marker if there is room for one.
Uncommitted(c) ==
  LET t == job[c].turn IN
  /\ At(c, "uncommitted")
  /\ IF run[t].replaced = None
       THEN MarkReplaced(t) /\ DeleteOwn(c, "verify")
       ELSE Go(c, "discard") /\ UNCHANGED run
  /\ UNCHANGED <<session, worker, source, snapshot, faults>>

\* The best-effort delete without a marker.
Discard(c) ==
  /\ At(c, "discard")
  /\ \/ snapshot' = [snapshot EXCEPT ![job[c].turn] = "none"]
     \/ UNCHANGED snapshot
  /\ Go(c, "verify")
  /\ UNCHANGED <<session, run, worker, source, faults>>

Verify(c) ==
  /\ At(c, "verify")
  /\ job' = [job EXCEPT ![c].pending = run[job[c].turn].replaced # None,
                        ![c].pc = "stop"]
  /\ UNCHANGED <<session, run, worker, source, snapshot, faults>>

\* provider.stop in the catch branch; an error of its own leaves the branch.
StopSource(c) ==
  /\ At(c, "stop")
  /\ \/ /\ source' = [source EXCEPT ![job[c].turn] = "gone"]
        /\ Go(c, "fallback")
     \/ Go(c, "release") /\ UNCHANGED source
  /\ UNCHANGED <<session, run, worker, snapshot, faults>>

\* Mutated: parked with the checkpoint that has just been discarded.
FallbackDiscarded(c) ==
  LET t == job[c].turn IN
  /\ At(c, "fallback")
  /\ IF OwnsParkLease(c)
       THEN session' = ParkedSession(t, "made") /\ run' = ParkedRun(t, "made", "clear")
       ELSE UNCHANGED <<session, run>>
  /\ Go(c, "release")
  /\ UNCHANGED <<worker, source, snapshot, faults>>

\* parkSession without a checkpoint: the separate previous one is retained.
Fallback(c) ==
  LET t == job[c].turn
      workspace == IF job[c].previous = None THEN "cold" ELSE "keep" IN
  /\ At(c, "fallback")
  /\ IF OwnsParkLease(c)
       THEN /\ session' = ParkedSession(t, workspace)
            /\ run' = ParkedRun(t, workspace,
                                IF job[c].pending THEN "keep" ELSE "clear")
       ELSE UNCHANGED <<session, run>>
  /\ Go(c, "release")
  /\ UNCHANGED <<worker, source, snapshot, faults>>

\* finalizeSuspendedSource: after a commit, or as the retry of a marker.
Finalize(c) ==
  LET t == job[c].turn IN
  /\ \/ At(c, "finalize")
     \/ At(c, "picked") /\ job[c].kind = "finalizing"
  /\ \/ /\ source' = [source EXCEPT ![t] = "gone"]
        /\ Go(c, "finalized")
     \/ Go(c, "release") /\ UNCHANGED source
  /\ UNCHANGED <<session, run, worker, snapshot, faults>>

MarkFinalized(c) ==
  LET t == job[c].turn
      marker == IF job[c].kind = "finalizing" THEN job[c].target ELSE t IN
  /\ At(c, "finalized")
  /\ run' = IF run[t].finalize = marker
              THEN [run EXCEPT ![t].finalize = None] ELSE run
  /\ Go(c, "release")
  /\ UNCHANGED <<session, worker, source, snapshot, faults>>

-----------------------------------------------------------------------------

WorkerStep(t) ==
  \/ StartMachine(t) \/ ProvisionFails(t) \/ LaunchFails(t)
  \/ MarkRunning(t) \/ StopLost(t) \/ StampLost(t)

JobStep(c) ==
  \/ ClaimSession(c) \/ Release(c) \/ Check(c) \/ Erase(c) \/ EraseFails(c)
  \/ Unmark(c) \/ Clear(c) \/ Prepare(c) \/ Recheck(c) \/ ReadPrevious(c)
  \/ Suspend(c) \/ SuspendFails(c) \/ Commit(c) \/ Unowned(c)
  \/ Uncommitted(c) \/ Discard(c) \/ Verify(c) \/ StopSource(c)
  \/ Fallback(c) \/ Finalize(c) \/ MarkFinalized(c)

PickTurn(c, t) ==
  \/ PickParking(c, t) \/ PickReplaced(c, t) \/ PickFinalize(c, t)
  \/ ParkPlain(c, t)

\* Nothing is left to do: every turn has ended and been parked, and neither
\* a machine nor a checkpoint is owed a deletion.
Idle ==
  /\ session.active = None /\ session.workspace = None
  /\ \/ session.op = "none"
     \/ session.op = "expiring" /\ ~Held   \* left by a crash; a turn clears it
  /\ \A t \in Turns : /\ Ended(t)
                      /\ run[t].finalize = None /\ run[t].replaced = None
  /\ UNCHANGED vars

Next ==
  \/ HolderGone \/ HolderPaused \/ ExpiryPasses \/ Idle
  \/ \E t \in Turns :
       \/ CreateTurn(t) \/ EndTurn(t) \/ ClaimTurn(t) \/ WorkspaceGone(t)
       \/ WorkerStep(t) \/ WorkerDies(t) \/ LeaseExpires(t) \/ MachineDies(t)
  \/ \E c \in Reconcilers :
       \/ ReleaseStale(c) \/ BeatResumes(c) \/ PickExpired(c)
       \/ JobStep(c) \/ CommitFails(c) \/ Crash(c)
       \/ \E t \in Turns : PickTurn(c, t)

Spec == Init /\ [][Next]_vars

\* The deadline ends an attached turn nobody is launching any more.
Deadline(t) == InFlight(t) /\ run[t].attached /\ worker[t] = "none" /\ EndTurn(t)

\* Attempts are bounded (RunLifecycle): a turn is not requeued for ever.
ProvisioningDecided(t) ==
  \/ StartMachine(t)
  \/ ProvisionFails(t) /\ run'[t].status # "queued"

\* A provider call succeeds.
Answered(c) ==
  \/ Erase(c)
  \/ StopSource(c) /\ job'[c].pc = "fallback"
  \/ Finalize(c) /\ job'[c].pc = "finalized"

\* Each tick works through every batch and time passes; a provider call that
\* is retried for ever is not refused for ever (SF of Answered).
Fairness ==
  /\ WF_vars(HolderGone) /\ WF_vars(ExpiryPasses)
  /\ SF_vars(\E t \in Turns : ClaimTurn(t))
  /\ SF_vars(\E t \in Turns : ProvisioningDecided(t))
  /\ WF_vars(\E t \in Turns : WorkerStep(t) \/ LeaseExpires(t) \/ Deadline(t))
  /\ \A c \in Reconcilers :
       /\ SF_vars(ReleaseStale(c)) /\ SF_vars(PickExpired(c))
       /\ SF_vars(\E t \in Turns : PickReplaced(c, t))
       /\ SF_vars(\E t \in Turns : \/ PickParking(c, t) \/ ParkPlain(c, t)
                                   \/ PickFinalize(c, t))
       /\ WF_vars(JobStep(c)) /\ SF_vars(Answered(c))

FairSpec == Spec /\ Fairness

-----------------------------------------------------------------------------
(* Properties. *)

\* Until it has expired, the checkpoint the session points to is there to
\* resume from: no deletion, of an older checkpoint, of an uncommitted one or
\* by a crashed predecessor's retry, hits the one that is in use
\* (deleteMarkedWorkspace, expireWorkspace).
UnexpiredCheckpointExists ==
  (session.workspace # None /\ session.expiry = "ahead")
    => snapshot[session.workspace] = "whole"

\* Only the active turn has a machine that runs, whatever was lost between
\* suspending, committing and promoting (parkSession, claimNextRun).
OnlyActiveTurnRuns ==
  \A t \in Turns : source[t] = "up" => session.active = t

\* Turns are served in order and none is left behind: the active turn is the
\* oldest that has not ended, and only it is in flight (createSessionTurn,
\* parkSession's choice, claimNextRun's guard).
TurnsInOrder ==
  \A t \in Turns :
    /\ run[t].status = "queued" => session.active \in 1 .. t
    /\ InFlight(t) => session.active = t

\* A session's turns run one at a time, each in its place.
TurnsTakeTurns == OnlyActiveTurnRuns /\ TurnsInOrder

\* No checkpoint is lost from sight: each one that exists is the session's, is
\* marked for deletion, belongs to a turn still to be parked, which makes it
\* again at the same path, or is in the hands of a reconciler that marks it.
CheckpointTracked ==
  \A t \in Turns : snapshot[t] = "whole" =>
    \/ session.workspace = t
    \/ \E u \in Turns : run[u].replaced = t
    \/ session.active = t /\ ~run[t].stopped
    \/ \E c \in Reconcilers :
         /\ job[c].turn = t
         /\ job[c].pc \in {"commit", "unowned", "uncommitted", "discard"}

\* No machine is lost from sight: one that may still run or is stopped on disk
\* belongs to a turn that is in flight, still to be parked, or marked for
\* finalization, or to a worker that is about to stop it.
SourceTracked ==
  \A t \in Turns : source[t] \in {"up", "down"} =>
    \/ InFlight(t)
    \/ session.active = t /\ ~run[t].stopped
    \/ run[t].finalize = t

\* So whatever crashes, whoever comes next knows what there is to delete.
NothingIsLeaked == CheckpointTracked /\ SourceTracked

\* The active turn has ended and was stamped by its worker: nobody parks it
\* (findSessionRunsToPark, prepareSessionParking).
Stuck == \E t \in Turns : session.active = t /\ Ended(t) /\ run[t].stopped

\* A follow-up is never forgotten: every queued turn is claimed or cancelled,
\* unless the launch race leaves the session with the turn before it.
QueuedTurnStarts ==
  \A t \in Turns : run[t].status = "queued" ~> (run[t].status # "queued" \/ Stuck)

\* An ended turn gives the session up in the end, whatever fails on the way
\* (docs/resumability.md, the reconciler's table: "terminal session run":
\* "Suspend checkpoint, then promote oldest queued turn").
EndedTurnIsParked ==
  \A t \in Turns : (Ended(t) /\ session.active = t) ~> (session.active # t)

\* The stopped machine that a committed checkpoint was taken of is removed in
\* the end (retryPendingSessionFinalizations).
SuspendedSourcesGo ==
  \A t \in Turns : (run[t].finalize # None) ~> (run[t].finalize = None)

\* An idle session does not keep an expired checkpoint (expireWorkspace).
ExpiredCheckpointGoes ==
  (session.active = None /\ session.expiry = "past")
    ~> (session.workspace = None \/ session.active # None)

=============================================================================
