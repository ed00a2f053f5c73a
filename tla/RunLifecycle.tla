---------------------------- MODULE RunLifecycle ----------------------------
(***************************************************************************)
(* The life of a standalone run: its row in the `runs` table, the          *)
(* provisioning worker of every attempt (provisionRun), the machine that   *)
(* attempt allocates, the runtime inside it that calls back over HTTP, the *)
(* operator who may cancel, and the reconcilers that repair what is left.  *)
(*                                                                         *)
(* Everybody coordinates through guarded UPDATEs of the row only.  Each    *)
(* action below is one database statement or one provider call together    *)
(* with the code that runs up to the next await, so every interleaving the *)
(* awaits permit is a behaviour.                                           *)
(*                                                                         *)
(* Time is abstracted: a timestamp is kept as what the queries can tell of *)
(* it (a lease that is fresh, due for renewal or expired; a last event     *)
(* that is recent or older than the silence timeout; a deadline ahead or   *)
(* past), and separate actions let it age.                                 *)
(***************************************************************************)
EXTENDS Naturals, FiniteSets

CONSTANTS
  Runs,                     \* naturals: a run's position in created_at order
  Reconcilers,              \* controller processes that run the loop
  MaxAttempts,              \* MAX_ATTEMPTS of provision.ts
  MaxConcurrentProvisions,  \* provisioning slots of drainQueue
  MaxClaims,                \* bound: claims of one run
  MaxFaults                 \* bound: worker deaths, missed heartbeats, leaks

ASSUME RunsAssumption == Runs \subseteq Nat
ASSUME BoundsAssumption ==
  /\ MaxAttempts \in Nat \ {0}
  /\ MaxClaims \in Nat \ {0}
  /\ MaxConcurrentProvisions \in Nat \ {0}
  /\ MaxFaults \in Nat

VARIABLES
  runs,     \* the runs table
  worker,   \* worker[r][a]: where provisionRun of attempt a of run r stands
  machine,  \* machine[r][a]: the machine that attempt allocated
  job,      \* job[c][r]: what reconciler c is doing with its copy of row r
  faults    \* number of faults so far

vars == <<runs, worker, machine, job, faults>>

Attempts == 1 .. MaxClaims
NoSandbox == 0              \* a sandbox id is the number of its attempt

Terminal == {"succeeded", "failed", "cancelled"}
InFlight == {"provisioning", "running"}
Status == {"absent", "queued"} \cup InFlight \cup Terminal

Error == {"none", "provisioning", "deadline", "silent", "agent", "operator"}

RunRow == [
  status   : Status,
  attempt  : 0 .. MaxClaims,
  lease    : {"none", "fresh", "due", "expired"},    \* claimExpiresAt
  claimed  : {"none", "recent", "old"},              \* claimedAt
  heard    : {"never", "recent", "old"},             \* lastEventAt
  deadline : {"none", "ahead", "past"},              \* deadlineAt
  sandbox  : {NoSandbox} \cup Attempts,              \* sandboxId
  stopped  : BOOLEAN,                                \* sandboxStoppedAt set
  error    : Error]

\* "prepare": resolving plugins; "resolve": credentials, image, provider call;
\* "allocated": onAllocated is about to attach; "install": attached, runtime
\* not started; "started": runtime started, create/resume not yet returned;
\* "cleanup": provider removes its machine after a failure; "retry"/"fail":
\* handleFailure with a retryable/permanent error; "lost"/"stamp":
\* stopAfterLostOwnership before and after the provider call.
WorkerState == {"idle", "prepare", "resolve", "allocated", "install",
                "started", "launched", "cleanup", "retry", "fail", "lost",
                "stamp", "done", "dead"}

\* "booted": the VM is up, no runtime in it; "active": the runtime runs and
\* calls back; "exited": the VM is up, the runtime has ended.
MachineState == {"none", "booted", "active", "exited", "gone"}
Live == {"booted", "active", "exited"}

JobState == {"none", "expired", "silent", "stop", "stamp"}

TypeOK ==
  /\ runs \in [Runs -> RunRow]
  /\ worker \in [Runs -> [Attempts -> WorkerState]]
  /\ machine \in [Runs -> [Attempts -> MachineState]]
  /\ job \in [Reconcilers -> [Runs -> JobState]]
  /\ faults \in 0 .. MaxFaults

Init ==
  /\ runs = [r \in Runs |->
       [status |-> "absent", attempt |-> 0, lease |-> "none",
        claimed |-> "none", heard |-> "never", deadline |-> "none",
        sandbox |-> NoSandbox, stopped |-> FALSE, error |-> "none"]]
  /\ worker = [r \in Runs |-> [a \in Attempts |-> "idle"]]
  /\ machine = [r \in Runs |-> [a \in Attempts |-> "none"]]
  /\ job = [c \in Reconcilers |-> [r \in Runs |-> "none"]]
  /\ faults = 0

-----------------------------------------------------------------------------
(* Statements on the runs table. *)

\* Mutated: only the status is asked for.
OwnsRow(r, a) == runs[r].status = "provisioning"

\* attachSandbox: the attempt still owns an unexpired, unattached claim.
OwnsClaim(r, a) ==
  /\ runs[r].status = "provisioning"
  /\ runs[r].sandbox = NoSandbox
  /\ runs[r].attempt = a
  /\ runs[r].lease \in {"fresh", "due"}

\* requeueRun with the attempt of a failed worker: an expired lease will do.
MayRequeue(r, a) ==
  /\ runs[r].status = "provisioning"
  /\ runs[r].sandbox = NoSandbox
  /\ runs[r].attempt = a

\* failProvisioningAttempt.
MayFail(r, a) == runs[r].status = "provisioning" /\ runs[r].attempt = a

\* Mutated: the last decision wins.
MayCompleteAgain(r) == runs[r].status # "absent"

\* completeRun: the first terminal decision wins.
MayComplete(r) == runs[r].status \notin Terminal \cup {"absent"}

\* Mutated: no lease is taken.
ClaimedUnleased(row) ==
  [row EXCEPT !.status = "provisioning", !.claimed = "recent",
              !.attempt = @ + 1]

Claimed(row) ==
  [row EXCEPT !.status = "provisioning", !.claimed = "recent",
              !.lease = "fresh", !.attempt = @ + 1]

Attached(row, a) == [row EXCEPT !.sandbox = a, !.deadline = "ahead"]

MarkedRunning(row) == [row EXCEPT !.status = "running", !.heard = "recent"]

\* Mutated: the attempt is counted when the run is requeued, too.
RequeuedCounted(row) ==
  [row EXCEPT !.status = "queued", !.claimed = "none", !.lease = "none",
              !.attempt = @ + 1]

Requeued(row) ==
  [row EXCEPT !.status = "queued", !.claimed = "none", !.lease = "none"]

Completed(row, status, error) ==
  [row EXCEPT !.status = status, !.error = error]

\* appendEvent is not guarded by the status.
Heard(row) == [row EXCEPT !.heard = "recent"]

CompleteRun(r, status, error) ==
  runs' = IF MayComplete(r)
            THEN [runs EXCEPT ![r] = Completed(@, status, error)]
            ELSE runs

GoTo(r, a, state) == worker' = [worker EXCEPT ![r][a] = state]
Becomes(r, a, state) == machine' = [machine EXCEPT ![r][a] = state]

-----------------------------------------------------------------------------
(* The queue. *)

CreateRun(r) ==
  /\ runs[r].status = "absent"
  /\ \A q \in Runs : q < r => runs[q].status # "absent"
  /\ runs' = [runs EXCEPT ![r].status = "queued"]
  /\ UNCHANGED <<worker, machine, job, faults>>

Busy == {w \in Runs \X Attempts :
           worker[w[1]][w[2]] \notin {"idle", "done", "dead"}}

\* claimNextRun hands out the oldest queued run while drainQueue has a slot.
Claim(r) ==
  LET a == runs[r].attempt + 1 IN
  /\ runs[r].status = "queued"
  /\ \A q \in Runs : runs[q].status = "queued" => r <= q
  /\ Cardinality(Busy) < MaxConcurrentProvisions
  /\ a <= MaxClaims
  /\ runs' = [runs EXCEPT ![r] = Claimed(@)]
  /\ GoTo(r, a, "prepare")
  /\ UNCHANGED <<machine, job, faults>>

-----------------------------------------------------------------------------
(* provisionRun, attempt a of run r. *)

\* setRunPlugins, and a plugins.attached event when the run has plugins.
Prepare(r, a) ==
  /\ worker[r][a] = "prepare"
  /\ \E attached \in BOOLEAN :
       runs' = IF attached THEN [runs EXCEPT ![r] = Heard(@)] ELSE runs
  /\ GoTo(r, a, "resolve")
  /\ UNCHANGED <<machine, job, faults>>

\* The provider reports the allocated machine before it launches anything.
Allocate(r, a) ==
  /\ worker[r][a] = "resolve"
  /\ Becomes(r, a, "booted")
  /\ GoTo(r, a, "allocated")
  /\ UNCHANGED <<runs, job, faults>>

\* Plugins, credentials, image resolution or the create call throw.
ResolveFails(r, a) ==
  /\ worker[r][a] \in {"prepare", "resolve"}
  /\ \E next \in {"retry", "fail"} : GoTo(r, a, next)
  /\ UNCHANGED <<runs, machine, job, faults>>

\* Mutated: a refused attach leaves the machine to somebody else.
AttachRefusedLeaks(r, a) ==
  /\ worker[r][a] = "allocated"
  /\ IF OwnsClaim(r, a)
       THEN /\ runs' = [runs EXCEPT ![r] = Attached(@, a)]
            /\ GoTo(r, a, "install")
       ELSE /\ GoTo(r, a, "fail")
            /\ UNCHANGED runs
  /\ UNCHANGED <<machine, job, faults>>

\* attachOwnedSandbox throws inside the provider when ownership is lost.
Attach(r, a) ==
  /\ worker[r][a] = "allocated"
  /\ IF OwnsClaim(r, a)
       THEN /\ runs' = [runs EXCEPT ![r] = Attached(@, a)]
            /\ GoTo(r, a, "install")
       ELSE /\ GoTo(r, a, "cleanup")
            /\ UNCHANGED runs
  /\ UNCHANGED <<machine, job, faults>>

StartRuntime(r, a) ==
  /\ worker[r][a] = "install"
  /\ machine[r][a] = "booted"
  /\ Becomes(r, a, "active")
  /\ GoTo(r, a, "started")
  /\ UNCHANGED <<runs, job, faults>>

\* create/resume returns to provisionRun.
Launched(r, a) ==
  /\ worker[r][a] = "started"
  /\ GoTo(r, a, "launched")
  /\ UNCHANGED <<runs, machine, job, faults>>

\* Installing, starting or detaching throws; a machine somebody else stopped
\* meanwhile always makes it throw.
LaunchFails(r, a) ==
  /\ worker[r][a] \in {"install", "started"}
  /\ GoTo(r, a, "cleanup")
  /\ UNCHANGED <<runs, machine, job, faults>>

\* The provider removes the machine it cannot use; the error it then throws is
\* retryable or not, whatever the cause was.
Cleanup(r, a) ==
  /\ worker[r][a] = "cleanup"
  /\ \E next \in {"retry", "fail"} : GoTo(r, a, next)
  /\ Becomes(r, a, "gone")
  /\ UNCHANGED <<runs, job, faults>>

\* cleanupCreatedSandbox and Sandbox.kill swallow their errors.
CleanupLeaks(r, a) ==
  /\ worker[r][a] = "cleanup"
  /\ faults < MaxFaults
  /\ faults' = faults + 1
  /\ \E next \in {"retry", "fail"} : GoTo(r, a, next)
  /\ UNCHANGED <<runs, machine, job>>

\* handleFailure, retryable: requeue only what this attempt still owns.
Retry(r, a) ==
  /\ worker[r][a] = "retry"
  /\ IF a < MaxAttempts /\ MayRequeue(r, a)
       THEN /\ runs' = [runs EXCEPT ![r] = Requeued(@)]
            /\ GoTo(r, a, "done")
       ELSE /\ GoTo(r, a, "fail")
            /\ UNCHANGED runs
  /\ UNCHANGED <<machine, job, faults>>

FailAttempt(r, a) ==
  /\ worker[r][a] = "fail"
  /\ runs' = IF MayFail(r, a)
               THEN [runs EXCEPT ![r] = Completed(@, "failed", "provisioning")]
               ELSE runs
  /\ GoTo(r, a, "done")
  /\ UNCHANGED <<machine, job, faults>>

MarkRunning(r, a) ==
  /\ worker[r][a] = "launched"
  /\ IF runs[r].status = "provisioning"
       THEN /\ runs' = [runs EXCEPT ![r] = MarkedRunning(@)]
            /\ GoTo(r, a, "done")
       ELSE /\ GoTo(r, a, "lost")
            /\ UNCHANGED runs
  /\ UNCHANGED <<machine, job, faults>>

\* stopAfterLostOwnership: provider.stop, then the stamp; an error is logged
\* and left to the reconciler.
StopLost(r, a) ==
  /\ worker[r][a] = "lost"
  /\ \/ Becomes(r, a, "gone") /\ GoTo(r, a, "stamp")
     \/ GoTo(r, a, "done") /\ UNCHANGED machine
  /\ UNCHANGED <<runs, job, faults>>

StampLost(r, a) ==
  /\ worker[r][a] = "stamp"
  /\ runs' = [runs EXCEPT ![r].stopped = TRUE]
  /\ GoTo(r, a, "done")
  /\ UNCHANGED <<machine, job, faults>>

\* The controller crashes, or an unhandled error ends the detached worker.
WorkerDies(r, a) ==
  /\ worker[r][a] \notin {"idle", "done", "dead"}
  /\ faults < MaxFaults
  /\ faults' = faults + 1
  /\ GoTo(r, a, "dead")
  /\ UNCHANGED <<runs, machine, job>>

-----------------------------------------------------------------------------
(* The sandbox and the operator. *)

PostEvent(r, a) ==
  /\ machine[r][a] = "active"
  /\ runs' = [runs EXCEPT ![r] = Heard(@)]
  /\ UNCHANGED <<worker, machine, job, faults>>

\* POST /status: the reason as an event first, then completeRun.  A response
\* that is lost leaves the runtime running, to report again.
PostStatus(r, a) ==
  /\ machine[r][a] = "active"
  /\ \E done, delivered \in BOOLEAN :
       /\ runs' = [runs EXCEPT ![r] =
            IF MayComplete(r)
              THEN Completed(Heard(@), IF done THEN "succeeded" ELSE "failed",
                             IF done THEN "none" ELSE "agent")
              ELSE Heard(@)]
       /\ Becomes(r, a, IF delivered THEN "exited" ELSE "active")
  /\ UNCHANGED <<worker, job, faults>>

\* The runtime ends without a word, or the whole machine disappears.
MachineDies(r, a) ==
  /\ \/ machine[r][a] = "active" /\ Becomes(r, a, "exited")
     \/ machine[r][a] \in Live /\ Becomes(r, a, "gone")
  /\ UNCHANGED <<runs, worker, job, faults>>

Cancel(r) ==
  /\ MayComplete(r)
  /\ CompleteRun(r, "cancelled", "operator")
  /\ UNCHANGED <<worker, machine, job, faults>>

-----------------------------------------------------------------------------
(* Time. Each timestamp ages while some query still reads it. *)

\* The provisioning heartbeat runs until the attach succeeds or provisionRun
\* ends.
HasHeartbeat(r) ==
  \E a \in Attempts :
    /\ a = runs[r].attempt
    /\ worker[r][a] \in {"prepare", "resolve", "allocated", "cleanup",
                         "retry", "fail"}

LeaseDue(r) ==
  /\ runs[r].status = "provisioning" /\ runs[r].sandbox = NoSandbox
  /\ runs[r].lease = "fresh"
  /\ runs' = [runs EXCEPT ![r].lease = "due"]
  /\ UNCHANGED <<worker, machine, job, faults>>

\* renewProvisioningClaim: expiry cannot be revived.
Renew(r, a) ==
  /\ worker[r][a] \in {"prepare", "resolve", "allocated", "cleanup", "retry",
                       "fail"}
  /\ OwnsClaim(r, a)
  /\ runs[r].lease # "fresh"
  /\ runs' = [runs EXCEPT ![r].lease = "fresh"]
  /\ UNCHANGED <<worker, machine, job, faults>>

LeaseExpires(r) ==
  /\ runs[r].status = "provisioning" /\ runs[r].sandbox = NoSandbox
  /\ runs[r].lease = "due"
  /\ ~HasHeartbeat(r)
  /\ runs' = [runs EXCEPT ![r].lease = "expired"]
  /\ UNCHANGED <<worker, machine, job, faults>>

\* The owner is alive but its heartbeats were late or their UPDATEs failed.
HeartbeatMissed(r) ==
  /\ runs[r].status = "provisioning" /\ runs[r].sandbox = NoSandbox
  /\ runs[r].lease = "due"
  /\ HasHeartbeat(r)
  /\ faults < MaxFaults
  /\ faults' = faults + 1
  /\ runs' = [runs EXCEPT ![r].lease = "expired"]
  /\ UNCHANGED <<worker, machine, job>>

SilenceGrows(r) ==
  /\ runs[r].status \in InFlight
  /\ \/ /\ runs[r].heard = "recent"
        /\ runs' = [runs EXCEPT ![r].heard = "old"]
     \/ /\ runs[r].heard = "never" /\ runs[r].claimed = "recent"
        /\ runs' = [runs EXCEPT ![r].claimed = "old"]
  /\ UNCHANGED <<worker, machine, job, faults>>

DeadlinePasses(r) ==
  /\ runs[r].status \in InFlight
  /\ runs[r].deadline = "ahead"
  /\ runs' = [runs EXCEPT ![r].deadline = "past"]
  /\ UNCHANGED <<worker, machine, job, faults>>

-----------------------------------------------------------------------------
(* The reconciler.  A branch reads a batch of rows and then works through    *)
(* the copies, so a copy may be stale by the time it is acted on.            *)

\* Mutated: cancelled runs are forgotten.
SandboxToStopDecided(r) ==
  /\ runs[r].status \in {"succeeded", "failed"}
  /\ runs[r].sandbox # NoSandbox
  /\ ~runs[r].stopped

SandboxToStop(r) ==      \* findSandboxesToStop
  /\ runs[r].status \in Terminal
  /\ runs[r].sandbox # NoSandbox
  /\ ~runs[r].stopped

Overdue(r) ==            \* findExpiredRuns
  runs[r].status \in InFlight /\ runs[r].deadline = "past"

Silent(r) ==             \* findSilentRuns
  /\ runs[r].status \in InFlight
  /\ runs[r].sandbox # NoSandbox
  /\ \/ runs[r].heard = "old"
     \/ runs[r].heard = "never" /\ runs[r].claimed = "old"

Pick(c, r) ==
  /\ job[c][r] = "none"
  /\ \E next \in {"stop", "expired", "silent"} :
       /\ \/ next = "stop" /\ SandboxToStop(r)
          \/ next = "expired" /\ Overdue(r)
          \/ next = "silent" /\ Silent(r)
       /\ job' = [job EXCEPT ![c][r] = next]
  /\ UNCHANGED <<runs, worker, machine, faults>>

\* failAndReclaim goes on to the machine whether or not completeRun won.
FailRun(c, r) ==
  /\ job[c][r] \in {"expired", "silent"}
  /\ CompleteRun(r, "failed",
                 IF job[c][r] = "expired" THEN "deadline" ELSE "silent")
  /\ job' = [job EXCEPT ![c][r] = "stop"]
  /\ UNCHANGED <<worker, machine, faults>>

\* Mutated: an error of the provider counts as a stop.
StopSandboxAnyway(c, r) ==
  /\ job[c][r] = "stop"
  /\ \E a \in Attempts :
       /\ a = runs[r].sandbox
       /\ Becomes(r, a, "gone") \/ UNCHANGED machine
  /\ job' = [job EXCEPT ![c][r] = "stamp"]
  /\ UNCHANGED <<runs, worker, faults>>

\* reclaim: provider.stop.
StopSandbox(c, r) ==
  /\ job[c][r] = "stop"
  /\ \E a \in Attempts : a = runs[r].sandbox /\ Becomes(r, a, "gone")
  /\ job' = [job EXCEPT ![c][r] = "stamp"]
  /\ UNCHANGED <<runs, worker, faults>>

\* A provider error leaves the row as it is; so does a controller that dies
\* or a tick that is aborted anywhere in the batch.
JobAbandoned(c, r) ==
  /\ job[c][r] # "none"
  /\ job' = [job EXCEPT ![c][r] = "none"]
  /\ UNCHANGED <<runs, worker, machine, faults>>

\* markSandboxStopped.
Stamp(c, r) ==
  /\ job[c][r] = "stamp"
  /\ runs' = [runs EXCEPT ![r].stopped = TRUE]
  /\ job' = [job EXCEPT ![c][r] = "none"]
  /\ UNCHANGED <<worker, machine, faults>>

\* findReclaimableClaims and requeueRun: the UPDATE repeats every condition of
\* the query, so a stale copy changes nothing and the pair is one step.
ReclaimClaim(r) ==
  /\ MayRequeue(r, runs[r].attempt)
  /\ runs[r].lease = "expired"
  /\ runs' = [runs EXCEPT ![r] = Requeued(@)]
  /\ UNCHANGED <<worker, machine, job, faults>>

-----------------------------------------------------------------------------

WorkerStep(r, a) ==
  \/ Prepare(r, a) \/ Allocate(r, a) \/ ResolveFails(r, a) \/ Attach(r, a)
  \/ StartRuntime(r, a) \/ Launched(r, a) \/ LaunchFails(r, a)
  \/ Cleanup(r, a) \/ Retry(r, a) \/ FailAttempt(r, a) \/ MarkRunning(r, a)
  \/ StopLost(r, a) \/ StampLost(r, a)

Settled(r) ==
  /\ runs[r].status \in Terminal
  /\ runs[r].sandbox = NoSandbox \/ runs[r].stopped

\* Nothing left to do: the loop keeps polling and finds no row.
Idle == (\A r \in Runs : Settled(r)) /\ UNCHANGED vars

Next ==
  \/ \E r \in Runs :
       \/ CreateRun(r) \/ Claim(r) \/ Cancel(r)
       \/ LeaseDue(r) \/ LeaseExpires(r) \/ HeartbeatMissed(r)
       \/ SilenceGrows(r) \/ DeadlinePasses(r) \/ ReclaimClaim(r)
  \/ \E r \in Runs, a \in Attempts :
       \/ WorkerStep(r, a) \/ CleanupLeaks(r, a) \/ WorkerDies(r, a)
       \/ Renew(r, a)
       \/ PostEvent(r, a) \/ PostStatus(r, a) \/ MachineDies(r, a)
  \/ \E c \in Reconcilers, r \in Runs :
       \/ Pick(c, r) \/ FailRun(c, r) \/ StopSandbox(c, r)
       \/ JobAbandoned(c, r) \/ Stamp(c, r)
  \/ Idle

Spec == Init /\ [][Next]_vars

\* The loop polls for ever and works through every batch; provider calls
\* return; a stop that is retried for ever is not refused for ever (SF); time
\* passes.  Nothing is assumed of the runtime, the operator or the faults.
Fairness ==
  /\ \A r \in Runs :
       /\ WF_vars(Claim(r) \/ ReclaimClaim(r) \/ LeaseDue(r) \/ LeaseExpires(r))
       /\ WF_vars(DeadlinePasses(r))
       /\ WF_vars(\E a \in Attempts : WorkerStep(r, a))
  /\ \A c \in Reconcilers, r \in Runs :
       /\ WF_vars(Pick(c, r)) /\ SF_vars(StopSandbox(c, r))
       /\ SF_vars(FailRun(c, r) \/ Stamp(c, r))

FairSpec == Spec /\ Fairness

-----------------------------------------------------------------------------
(* Properties. *)

\* At most one machine of a run ever carries its agent, and it is the one the
\* row names, so teardown can find it whatever crashes: an attempt whose lease
\* expired while it was slow cannot launch beside its successor (attachSandbox).
OneRecordedRuntime ==
  \A r \in Runs, a \in Attempts :
    machine[r][a] \in {"active", "exited"} => runs[r].sandbox = a

\* sandbox_stopped_at is evidence, not hope: once it is set the run's machine
\* is gone and nobody will look for it again (reclaim, stopAfterLostOwnership).
StampedMeansGone ==
  \A r \in Runs :
    runs[r].stopped => /\ runs[r].sandbox # NoSandbox
                       /\ machine[r][runs[r].sandbox] = "gone"

\* As long as nobody crashed, no machine is lost: each one that is up is named
\* by its row or in the hands of the worker that is about to attach or remove
\* it (provisionRun and the providers' failure paths).
NoOrphanWithoutFault ==
  faults = 0 =>
    \A r \in Runs, a \in Attempts :
      machine[r][a] \in Live =>
        runs[r].sandbox = a \/ worker[r][a] \in {"allocated", "cleanup"}

\* An attempt is ended only by its own worker or by the expiry of its lease: a
\* slow old worker neither fails nor requeues a newer attempt
\* (failProvisioningAttempt, requeueRun).
AttemptsEndThemselves ==
  [][\A r \in Runs :
       LET row == runs[r]
           own == row.attempt \in Attempts
                  /\ worker[r][row.attempt] \in {"retry", "fail"}
                  /\ worker'[r][row.attempt] = "done"
       IN /\ (row.error = "none" /\ runs'[r].error = "provisioning") => own
          /\ (row.status = "provisioning" /\ runs'[r].status = "queued")
               => own \/ row.lease = "expired"]_vars

\* An expired lease is never extended; only a new claim, with a new attempt
\* number, starts another (renewProvisioningClaim).
ExpiryIsFinal ==
  [][\A r \in Runs :
       (runs[r].lease = "expired" /\ runs'[r].lease \in {"fresh", "due"})
         => runs'[r].attempt > runs[r].attempt]_vars

\* Every run that is queued ends: lost workers, silent sandboxes and failing
\* providers only delay the decision.
QueuedRunEnds ==
  \A r \in Runs : runs[r].status = "queued" ~> runs[r].status \in Terminal

\* Every machine a run recorded is reclaimed after the run has ended, through
\* crashes of the reconciler and refused stop calls.
RecordedMachineIsReclaimed ==
  \A r \in Runs :
    (runs[r].status \in Terminal /\ runs[r].sandbox # NoSandbox)
      ~> runs[r].stopped

\* What the promise sees of a run: whether it is under way, and how the machine
\* fares that carries its runtime.
phase ==
  [r \in Runs |-> IF runs[r].status \in {"queued", "provisioning"} THEN "waiting"
                  ELSE runs[r].status]

runtime ==
  [r \in Runs |->
     IF \E a \in Attempts : machine[r][a] = "active" THEN "up"
     ELSE IF \E a \in Attempts : /\ a = runs[r].sandbox
                                  /\ machine[r][a] \in {"exited", "gone"}
            THEN "down" ELSE "none"]

reclaimed == [r \in Runs |-> runs[r].stopped]

\* The detailed life of a run implements what the controller promises of it.
Promise == INSTANCE RunPromise

ImplementsPromise == Promise!Spec
=============================================================================
