------------------------- MODULE RunLifecycleProofs -------------------------
(***************************************************************************)
(* Proofs about RunLifecycle for any set of runs, any reconcilers and any  *)
(* bounds.  The inductive invariant adds to the properties what the row    *)
(* and the worker know of each other: an attached sandbox is the current   *)
(* attempt's, a worker past its attach is the one the row names, machines  *)
(* of attempts that were never claimed do not exist, and every reconciler  *)
(* or worker about to stamp the row has seen the machine go.               *)
(* From it follows that RunLifecycle implements RunPromise, and what an    *)
(* attempt may do to another one: the machine that carries the runtime is  *)
(* the one the row names, so what becomes of other machines is invisible   *)
(* to the promise.                                                         *)
(***************************************************************************)
EXTENDS RunLifecycle, TLAPS

AttachedIsCurrent ==
  \A r \in Runs :
    runs[r].sandbox # NoSandbox =>
      /\ runs[r].sandbox = runs[r].attempt
      /\ runs[r].status \notin {"absent", "queued"}

UnclaimedIsUntouched ==
  \A r \in Runs, a \in Attempts :
    /\ a > runs[r].attempt => worker[r][a] = "idle"
    /\ worker[r][a] \in {"idle", "prepare", "resolve"}
         => machine[r][a] = "none"

Launching == {"install", "started", "launched"}
PastAttach == Launching \cup {"lost", "stamp"}

AttachedWorkerIsRecorded ==
  \A r \in Runs, a \in Attempts :
    /\ worker[r][a] \in PastAttach => runs[r].sandbox = a
    /\ worker[r][a] \in Launching => runs[r].status # "running"
    /\ worker[r][a] \in {"started", "launched"}
         => machine[r][a] \in {"active", "exited", "gone"}
    /\ runs[r].sandbox = a => worker[r][a] \notin {"idle", "prepare", "resolve"}

StampFollowsStop ==
  /\ \A r \in Runs, a \in Attempts :
       worker[r][a] = "stamp" => machine[r][a] = "gone"
  /\ \A c \in Reconcilers, r \in Runs :
       job[c][r] = "stamp" =>
         runs[r].sandbox \in Attempts /\ machine[r][runs[r].sandbox] = "gone"

JobHasSandbox ==
  /\ \A r \in Runs : runs[r].deadline # "none" => runs[r].sandbox # NoSandbox
  /\ \A c \in Reconcilers, r \in Runs :
       job[c][r] # "none" => runs[r].sandbox # NoSandbox

OnlyEndedRunsStop ==
  /\ \A r \in Runs : runs[r].stopped => runs[r].status \in Terminal
  /\ \A r \in Runs, a \in Attempts :
       worker[r][a] \in {"lost", "stamp"} => runs[r].status \in Terminal
  /\ \A c \in Reconcilers, r \in Runs :
       job[c][r] \in {"stop", "stamp"} => runs[r].status \in Terminal

IInv ==
  /\ TypeOK
  /\ AttachedIsCurrent
  /\ UnclaimedIsUntouched
  /\ AttachedWorkerIsRecorded
  /\ OneRecordedRuntime
  /\ StampFollowsStop
  /\ JobHasSandbox
  /\ OnlyEndedRunsStop
  /\ StampedMeansGone

USE DEF NoSandbox, Attempts

LEMMA InitIInv == Init => IInv
<1> SUFFICES ASSUME Init PROVE IInv
  OBVIOUS
<1> USE BoundsAssumption DEF Init
<1>1. TypeOK
  BY DEF TypeOK, RunRow, Error, Status, InFlight, Terminal, WorkerState,
         MachineState, JobState
<1>2. AttachedIsCurrent /\ UnclaimedIsUntouched /\ AttachedWorkerIsRecorded
  BY DEF AttachedIsCurrent, UnclaimedIsUntouched, AttachedWorkerIsRecorded,
         PastAttach, Launching
<1>3. OneRecordedRuntime /\ StampFollowsStop /\ JobHasSandbox
  BY DEF OneRecordedRuntime, StampFollowsStop, JobHasSandbox
<1>4. StampedMeansGone /\ OnlyEndedRunsStop
  BY DEF StampedMeansGone, OnlyEndedRunsStop
<1>5. QED
  BY <1>1, <1>2, <1>3, <1>4 DEF IInv

-----------------------------------------------------------------------------
(* What an update of a row keeps: which machine is attached, to which       *)
(* attempt, whether it is stamped, and the outcome once there is one.       *)

Keeps(old, new) ==
  /\ new \in RunRow
  /\ new.sandbox = old.sandbox
  /\ new.attempt = old.attempt
  /\ new.stopped = old.stopped
  /\ new.deadline # "none" => old.deadline # "none"
  /\ old.status \in Terminal => new.status = old.status
  /\ new.status = "running" => old.status = "running"
  /\ old.sandbox # NoSandbox /\ old.status \notin {"absent", "queued"}
       => new.status \notin {"absent", "queued"}

LEMMA KeepsItself == ASSUME NEW row \in RunRow PROVE Keeps(row, row)
BY DEF Keeps

LEMMA KeepsCompleted ==
  ASSUME NEW row \in RunRow, NEW status \in Terminal, NEW error \in Error,
         row.status \notin Terminal
  PROVE  Keeps(row, Completed(row, status, error))
<1>1. Completed(row, status, error) \in RunRow
  BY DEF Completed, RunRow, Status
<1>2. QED
  BY <1>1 DEF Keeps, Completed, RunRow, Terminal

LEMMA KeepsHeard == ASSUME NEW row \in RunRow PROVE Keeps(row, Heard(row))
<1>1. Heard(row) \in RunRow
  BY DEF Heard, RunRow
<1>2. QED
  BY <1>1 DEF Keeps, Heard, RunRow

LEMMA KeepsRequeued ==
  ASSUME NEW row \in RunRow, row.sandbox = NoSandbox,
         row.status = "provisioning"
  PROVE  Keeps(row, Requeued(row))
<1>1. Requeued(row) \in RunRow
  BY DEF Requeued, RunRow, Status
<1>2. QED
  BY <1>1 DEF Keeps, Requeued, RunRow, Terminal

\* An update of one row is an update of the table.
LEMMA KeepsTable ==
  ASSUME TypeOK, NEW r \in Runs, NEW new, Keeps(runs[r], new),
         runs' = [runs EXCEPT ![r] = new]
  PROVE  runs' \in [Runs -> RunRow] /\ \A q \in Runs : Keeps(runs[q], runs'[q])
<1>1. runs' \in [Runs -> RunRow]
  BY DEF TypeOK, Keeps
<1>2. \A q \in Runs : q # r => runs'[q] = runs[q]
  BY DEF TypeOK
<1>3. \A q \in Runs : runs[q] \in RunRow
  BY DEF TypeOK
<1>4. runs'[r] = new
  BY DEF TypeOK
<1>5. QED
  BY <1>1, <1>2, <1>3, <1>4, KeepsItself

LEMMA UnchangedTable ==
  ASSUME TypeOK, runs' = runs
  PROVE  runs' \in [Runs -> RunRow] /\ \A q \in Runs : Keeps(runs[q], runs'[q])
BY KeepsItself DEF TypeOK

\* The steps of a worker, a machine and a job that need no fact about the row
\* beyond those the row keeps.
WorkerMoves(q, a) ==
  \/ worker'[q][a] = worker[q][a]
  \/ /\ worker[q][a] # "idle"
     /\ worker'[q][a] \notin {"idle", "prepare"}
     /\ worker'[q][a] \in PastAttach => worker[q][a] \in PastAttach
     /\ worker'[q][a] \in Launching => worker[q][a] \in Launching
     /\ worker'[q][a] = "resolve" => worker[q][a] = "prepare"
     /\ worker'[q][a] \in {"lost", "stamp"} => runs'[q].status \in Terminal
     /\ worker'[q][a] = "stamp" => machine'[q][a] = "gone"
     /\ worker'[q][a] = "launched" => worker[q][a] = "started"
     /\ worker'[q][a] # "started"

MachineMoves(q, a) ==
  \/ machine'[q][a] = machine[q][a]
  \/ /\ machine'[q][a] = "gone"
     /\ \/ machine[q][a] # "none"
        \/ worker'[q][a] \notin {"idle", "prepare", "resolve"}
  \/ machine[q][a] = "active" /\ machine'[q][a] = "exited"

JobMoves(c, q) ==
  \/ job'[c][q] = job[c][q]
  \/ job'[c][q] = "none"
  \/ /\ runs[q].sandbox # NoSandbox
     /\ job'[c][q] \in {"stop", "stamp"} => runs'[q].status \in Terminal
     /\ job'[c][q] = "stamp" => machine'[q][runs[q].sandbox] = "gone"

LEMMA FrameIInv ==
  ASSUME IInv, TypeOK',
         \A q \in Runs : Keeps(runs[q], runs'[q]),
         \A q \in Runs, a \in Attempts : WorkerMoves(q, a),
         \A q \in Runs, a \in Attempts : MachineMoves(q, a),
         \A c \in Reconcilers, q \in Runs : JobMoves(c, q)
  PROVE  IInv'
<1> USE DEF IInv, Keeps
<1>0. \A q \in Runs : runs[q] \in RunRow /\ runs'[q] \in RunRow
  BY DEF TypeOK
<1>1. AttachedIsCurrent'
  BY DEF AttachedIsCurrent
<1>2. UnclaimedIsUntouched'
  BY DEF UnclaimedIsUntouched, WorkerMoves, MachineMoves, PastAttach, Launching
<1>3. AttachedWorkerIsRecorded'
  BY DEF AttachedWorkerIsRecorded, WorkerMoves, MachineMoves, PastAttach,
         Launching
<1>4. OneRecordedRuntime'
  BY DEF OneRecordedRuntime, MachineMoves
<1>5. StampFollowsStop'
  <2>1. ASSUME NEW q \in Runs, NEW a \in Attempts, worker'[q][a] = "stamp"
        PROVE  machine'[q][a] = "gone"
    BY <2>1 DEF StampFollowsStop, WorkerMoves, MachineMoves
  <2>2. ASSUME NEW c \in Reconcilers, NEW q \in Runs, job'[c][q] = "stamp"
        PROVE  runs'[q].sandbox \in Attempts
               /\ machine'[q][runs'[q].sandbox] = "gone"
    <3>1. CASE job[c][q] = "stamp"
      <4>1. runs[q].sandbox \in Attempts
            /\ machine[q][runs[q].sandbox] = "gone"
        BY <3>1 DEF StampFollowsStop
      <4>2. QED
        BY <4>1 DEF MachineMoves
    <3>2. CASE job[c][q] # "stamp"
      <4>1. runs[q].sandbox # NoSandbox
            /\ machine'[q][runs[q].sandbox] = "gone"
        BY <2>2, <3>2 DEF JobMoves
      <4>2. runs[q].sandbox \in Attempts
        BY <1>0, <4>1 DEF RunRow
      <4>3. QED
        BY <4>1, <4>2
    <3>3. QED
      BY <3>1, <3>2
  <2>3. QED
    BY <2>1, <2>2 DEF StampFollowsStop
<1>6. JobHasSandbox'
  BY DEF JobHasSandbox, JobMoves
<1>7. OnlyEndedRunsStop'
  BY DEF OnlyEndedRunsStop, WorkerMoves, JobMoves
<1>8. StampedMeansGone'
  <2>1. ASSUME NEW q \in Runs, runs'[q].stopped
        PROVE  /\ runs'[q].sandbox # NoSandbox
               /\ machine'[q][runs'[q].sandbox] = "gone"
    <3>1. runs[q].sandbox # NoSandbox /\ machine[q][runs[q].sandbox] = "gone"
      BY <2>1 DEF StampedMeansGone
    <3>2. runs[q].sandbox \in Attempts
      BY <1>0, <3>1 DEF RunRow
    <3>3. QED
      BY <3>1, <3>2 DEF MachineMoves
  <2>2. QED
    BY <2>1 DEF StampedMeansGone
<1>9. QED
  BY <1>1, <1>2, <1>3, <1>4, <1>5, <1>6, <1>7, <1>8

\* A step that rewrites one row and nothing else.
LEMMA RowStep ==
  ASSUME IInv, NEW r \in Runs, NEW new, Keeps(runs[r], new),
         runs' = [runs EXCEPT ![r] = new],
         UNCHANGED <<worker, machine, job>>, faults' \in 0 .. MaxFaults
  PROVE  IInv'
<1>1. runs' \in [Runs -> RunRow] /\ \A q \in Runs : Keeps(runs[q], runs'[q])
  BY KeepsTable DEF IInv
<1>2. TypeOK'
  BY <1>1 DEF IInv, TypeOK
<1>3. QED
  BY <1>1, <1>2, FrameIInv DEF WorkerMoves, MachineMoves, JobMoves

\* A step of one worker that may also rewrite the row of its run.
LEMMA WorkerStepKeeps ==
  ASSUME IInv, NEW r \in Runs, NEW a \in Attempts, NEW state \in WorkerState,
         GoTo(r, a, state),
         worker[r][a] # "idle", state \notin {"idle", "prepare"},
         state \in PastAttach => worker[r][a] \in PastAttach,
         state \in {"lost", "stamp"} => runs'[r].status \in Terminal,
         state = "stamp" => machine'[r][a] = "gone",
         state # "started", state # "install",
         state = "resolve" => worker[r][a] = "prepare",
         state = "launched" => worker[r][a] = "started",
         runs' \in [Runs -> RunRow],
         \A q \in Runs : Keeps(runs[q], runs'[q]),
         machine' \in [Runs -> [Attempts -> MachineState]],
         \A q \in Runs, b \in Attempts : MachineMoves(q, b),
         UNCHANGED job, faults' \in 0 .. MaxFaults
  PROVE  IInv'
<1>1. TypeOK'
  BY DEF IInv, TypeOK, GoTo
<1>2. \A q \in Runs, b \in Attempts : WorkerMoves(q, b)
  <2> TAKE q \in Runs, b \in Attempts
  <2>1. CASE q = r /\ b = a
    <3>1. worker'[q][b] = state
      BY <2>1 DEF IInv, TypeOK, GoTo
    <3>2. QED
      BY <2>1, <3>1 DEF WorkerMoves, PastAttach, Launching
  <2>2. CASE q # r \/ b # a
    BY <2>2 DEF WorkerMoves, IInv, TypeOK, GoTo
  <2>3. QED
    BY <2>1, <2>2
<1>3. QED
  BY <1>1, <1>2, FrameIInv DEF JobMoves

-----------------------------------------------------------------------------
(* Steps that rewrite one row. *)

LEMMA RowSteps ==
  ASSUME IInv, NEW r \in Runs,
         \/ CreateRun(r) \/ Cancel(r)
         \/ LeaseDue(r) \/ LeaseExpires(r) \/ HeartbeatMissed(r)
         \/ SilenceGrows(r) \/ DeadlinePasses(r) \/ ReclaimClaim(r)
         \/ \E a \in Attempts : Renew(r, a) \/ PostEvent(r, a)
  PROVE  IInv'
<1> USE BoundsAssumption
<1>0. runs[r] \in RunRow /\ faults \in 0 .. MaxFaults
  BY DEF IInv, TypeOK
<1>a. ASSUME NEW lease \in {"fresh", "due", "expired"},
             runs' = [runs EXCEPT ![r].lease = lease],
             UNCHANGED <<worker, machine, job>>, faults' \in 0 .. MaxFaults
      PROVE  IInv'
  <2> DEFINE new == [runs[r] EXCEPT !.lease = lease]
  <2>1. new \in RunRow
    BY <1>0 DEF RunRow
  <2>2. Keeps(runs[r], new)
    BY <1>0, <2>1 DEF Keeps, RunRow
  <2>3. runs' = [runs EXCEPT ![r] = new]
    BY <1>a
  <2> HIDE DEF new
  <2>4. QED
    BY <1>a, <2>2, <2>3, RowStep
<1>1. CASE CreateRun(r)
  <2> DEFINE new == [runs[r] EXCEPT !.status = "queued"]
  <2>1. new \in RunRow
    BY <1>0 DEF RunRow, Status
  <2>2. Keeps(runs[r], new)
    BY <1>0, <1>1, <2>1 DEF Keeps, RunRow, CreateRun, Terminal
  <2>3. runs' = [runs EXCEPT ![r] = new]
    BY <1>1 DEF CreateRun
  <2> HIDE DEF new
  <2>4. QED
    BY <1>0, <1>1, <2>2, <2>3, RowStep DEF CreateRun
<1>2. CASE Cancel(r)
  BY <1>0, <1>2, KeepsCompleted, RowStep
     DEF Cancel, CompleteRun, MayComplete, Terminal, Error
<1>3. CASE LeaseDue(r)
  BY <1>0, <1>3, <1>a DEF LeaseDue
<1>4. CASE LeaseExpires(r)
  BY <1>0, <1>4, <1>a DEF LeaseExpires
<1>5. CASE HeartbeatMissed(r)
  BY <1>0, <1>5, <1>a DEF HeartbeatMissed
<1>6. CASE SilenceGrows(r)
  <2>1. CASE runs' = [runs EXCEPT ![r].heard = "old"]
    <3> DEFINE new == [runs[r] EXCEPT !.heard = "old"]
    <3>1. new \in RunRow
      BY <1>0 DEF RunRow
    <3>2. Keeps(runs[r], new)
      BY <1>0, <3>1 DEF Keeps, RunRow
    <3>3. runs' = [runs EXCEPT ![r] = new]
      BY <2>1
    <3> HIDE DEF new
    <3>4. QED
      BY <1>0, <1>6, <3>2, <3>3, RowStep DEF SilenceGrows
  <2>2. CASE runs' = [runs EXCEPT ![r].claimed = "old"]
    <3> DEFINE new == [runs[r] EXCEPT !.claimed = "old"]
    <3>1. new \in RunRow
      BY <1>0 DEF RunRow
    <3>2. Keeps(runs[r], new)
      BY <1>0, <3>1 DEF Keeps, RunRow
    <3>3. runs' = [runs EXCEPT ![r] = new]
      BY <2>2
    <3> HIDE DEF new
    <3>4. QED
      BY <1>0, <1>6, <3>2, <3>3, RowStep DEF SilenceGrows
  <2>3. QED
    BY <1>6, <2>1, <2>2 DEF SilenceGrows
<1>7. CASE DeadlinePasses(r)
  <2> DEFINE new == [runs[r] EXCEPT !.deadline = "past"]
  <2>1. new \in RunRow
    BY <1>0 DEF RunRow
  <2>2. Keeps(runs[r], new)
    BY <1>0, <1>7, <2>1 DEF Keeps, RunRow, DeadlinePasses
  <2>3. runs' = [runs EXCEPT ![r] = new]
    BY <1>7 DEF DeadlinePasses
  <2> HIDE DEF new
  <2>4. QED
    BY <1>0, <1>7, <2>2, <2>3, RowStep DEF DeadlinePasses
<1>8. CASE ReclaimClaim(r)
  BY <1>0, <1>8, KeepsRequeued, RowStep DEF ReclaimClaim, MayRequeue
<1>9. ASSUME NEW a \in Attempts, Renew(r, a) PROVE IInv'
  BY <1>0, <1>9, <1>a DEF Renew
<1>10. ASSUME NEW a \in Attempts, PostEvent(r, a) PROVE IInv'
  BY <1>0, <1>10, KeepsHeard, RowStep DEF PostEvent
<1>11. QED
  BY <1>1, <1>2, <1>3, <1>4, <1>5, <1>6, <1>7, <1>8, <1>9, <1>10

-----------------------------------------------------------------------------
(* Steps of a worker that attach nothing and stop nothing. *)

LEMMA PlainWorkerSteps ==
  ASSUME IInv, NEW r \in Runs, NEW a \in Attempts,
         \/ Prepare(r, a) \/ ResolveFails(r, a) \/ Launched(r, a)
         \/ LaunchFails(r, a) \/ Cleanup(r, a) \/ CleanupLeaks(r, a)
         \/ Retry(r, a) \/ FailAttempt(r, a) \/ WorkerDies(r, a)
  PROVE  IInv'
<1> USE BoundsAssumption DEF PastAttach, Launching
<1>0. /\ runs[r] \in RunRow /\ faults \in 0 .. MaxFaults
      /\ machine \in [Runs -> [Attempts -> MachineState]]
      /\ TypeOK
  BY DEF IInv, TypeOK
<1>t. ASSUME runs' = runs
      PROVE  runs' \in [Runs -> RunRow]
             /\ \A q \in Runs : Keeps(runs[q], runs'[q])
  BY <1>0, <1>t, UnchangedTable
<1>m. ASSUME machine' = machine
      PROVE  /\ machine' \in [Runs -> [Attempts -> MachineState]]
             /\ \A q \in Runs, b \in Attempts : MachineMoves(q, b)
  BY <1>0, <1>m DEF MachineMoves
<1>1. CASE Prepare(r, a)
  <2>1. runs' \in [Runs -> RunRow] /\ \A q \in Runs : Keeps(runs[q], runs'[q])
    BY <1>0, <1>1, <1>t, KeepsHeard, KeepsTable DEF Prepare
  <2>2. QED
    BY <1>0, <1>1, <1>m, <2>1, WorkerStepKeeps DEF Prepare, WorkerState
<1>2. CASE ResolveFails(r, a)
  BY <1>0, <1>2, <1>t, <1>m, WorkerStepKeeps DEF ResolveFails, WorkerState
<1>3. CASE Launched(r, a)
  BY <1>0, <1>3, <1>t, <1>m, WorkerStepKeeps DEF Launched, WorkerState
<1>4. CASE LaunchFails(r, a)
  BY <1>0, <1>4, <1>t, <1>m, WorkerStepKeeps DEF LaunchFails, WorkerState
<1>5. CASE Cleanup(r, a)
  <2>1. machine' \in [Runs -> [Attempts -> MachineState]]
    BY <1>0, <1>5 DEF Cleanup, Becomes, MachineState
  <2>2. worker'[r][a] \in {"retry", "fail"}
    BY <1>0, <1>5 DEF Cleanup, GoTo, TypeOK
  <2>3. machine'[r][a] = "gone"
    BY <1>0, <1>5 DEF Cleanup, Becomes
  <2>4. ASSUME NEW q \in Runs, NEW b \in Attempts, q # r \/ b # a
        PROVE  machine'[q][b] = machine[q][b]
    BY <1>0, <1>5, <2>4 DEF Cleanup, Becomes
  <2>5. \A q \in Runs, b \in Attempts : MachineMoves(q, b)
    BY <2>2, <2>3, <2>4 DEF MachineMoves
  <2>6. QED
    BY <1>0, <1>5, <1>t, <2>1, <2>5, WorkerStepKeeps DEF Cleanup, WorkerState
<1>6. CASE CleanupLeaks(r, a)
  BY <1>0, <1>6, <1>t, <1>m, WorkerStepKeeps DEF CleanupLeaks, WorkerState
<1>7. CASE Retry(r, a)
  <2>1. runs' \in [Runs -> RunRow] /\ \A q \in Runs : Keeps(runs[q], runs'[q])
    BY <1>0, <1>7, <1>t, KeepsRequeued, KeepsTable DEF Retry, MayRequeue
  <2>2. QED
    BY <1>0, <1>7, <1>m, <2>1, WorkerStepKeeps DEF Retry, WorkerState
<1>8. CASE FailAttempt(r, a)
  <2>1. runs' \in [Runs -> RunRow] /\ \A q \in Runs : Keeps(runs[q], runs'[q])
    <3>1. CASE MayFail(r, a)
      <4>1. PICK new : new = Completed(runs[r], "failed", "provisioning")
        OBVIOUS
      <4>2. Keeps(runs[r], new)
        BY <1>0, <3>1, <4>1, KeepsCompleted DEF MayFail, Terminal, Error
      <4>3. runs' = [runs EXCEPT ![r] = new]
        BY <1>8, <3>1, <4>1 DEF FailAttempt
      <4>4. QED
        BY <1>0, <4>2, <4>3, KeepsTable
    <3>2. CASE ~MayFail(r, a)
      BY <1>8, <1>t, <3>2 DEF FailAttempt
    <3>3. QED
      BY <3>1, <3>2
  <2>2. QED
    BY <1>0, <1>8, <1>m, <2>1, WorkerStepKeeps DEF FailAttempt, WorkerState
<1>9. CASE WorkerDies(r, a)
  BY <1>0, <1>9, <1>t, <1>m, WorkerStepKeeps DEF WorkerDies, WorkerState
<1>10. QED
  BY <1>1, <1>2, <1>3, <1>4, <1>5, <1>6, <1>7, <1>8, <1>9

-----------------------------------------------------------------------------
(* The machine leaves without the worker's doing, and reconciler steps that  *)
(* stop nothing.                                                             *)

LEMMA SandboxSteps ==
  ASSUME IInv, NEW r \in Runs, NEW a \in Attempts,
         PostStatus(r, a) \/ MachineDies(r, a)
  PROVE  IInv'
<1>0. /\ runs[r] \in RunRow /\ faults' \in 0 .. MaxFaults
      /\ machine \in [Runs -> [Attempts -> MachineState]]
      /\ TypeOK
  BY DEF IInv, TypeOK, PostStatus, MachineDies
<1>1. runs' \in [Runs -> RunRow] /\ \A q \in Runs : Keeps(runs[q], runs'[q])
  <2>1. CASE PostStatus(r, a)
    <3>1. Heard(runs[r]) \in RunRow /\ Heard(runs[r]).status = runs[r].status
      BY <1>0, KeepsHeard DEF Heard, RunRow, Keeps
    <3>2. \A status \in Terminal, error \in Error :
            MayComplete(r) =>
              Keeps(runs[r], Completed(Heard(runs[r]), status, error))
      <4> TAKE status \in Terminal, error \in Error
      <4>1. MayComplete(r) =>
              Keeps(Heard(runs[r]), Completed(Heard(runs[r]), status, error))
        BY <3>1, KeepsCompleted DEF MayComplete
      <4>2. QED
        BY <1>0, <3>1, <4>1, KeepsHeard DEF Keeps
    <3>3. PICK new \in RunRow : /\ Keeps(runs[r], new)
                                /\ runs' = [runs EXCEPT ![r] = new]
      <4>1. PICK done \in BOOLEAN :
              runs' = [runs EXCEPT ![r] =
                IF MayComplete(r)
                  THEN Completed(Heard(@), IF done THEN "succeeded" ELSE "failed",
                                 IF done THEN "none" ELSE "agent")
                  ELSE Heard(@)]
        BY <2>1 DEF PostStatus
      <4>2. CASE MayComplete(r) /\ done
        <5>1. runs' = [runs EXCEPT ![r] =
                         Completed(Heard(runs[r]), "succeeded", "none")]
          BY <4>1, <4>2
        <5>2. QED
          BY <3>2, <4>2, <5>1 DEF Keeps, Terminal, Error
      <4>3. CASE MayComplete(r) /\ ~done
        <5>1. runs' = [runs EXCEPT ![r] =
                         Completed(Heard(runs[r]), "failed", "agent")]
          BY <4>1, <4>3
        <5>2. QED
          BY <3>2, <4>3, <5>1 DEF Keeps, Terminal, Error
      <4>4. CASE ~MayComplete(r)
        BY <1>0, <3>1, <4>1, <4>4, KeepsHeard
      <4>5. QED
        BY <4>2, <4>3, <4>4
    <3>4. QED
      BY <1>0, <3>3, KeepsTable
  <2>2. CASE MachineDies(r, a)
    BY <1>0, <2>2, UnchangedTable DEF MachineDies
  <2>3. QED
    BY <2>1, <2>2
<1>a. PICK state \in {"exited", "gone", "active"} :
        machine' = [machine EXCEPT ![r][a] = state]
  <2>1. CASE PostStatus(r, a)
    <3>1. PICK delivered \in BOOLEAN :
            machine' = [machine EXCEPT ![r][a] =
                          IF delivered THEN "exited" ELSE "active"]
      BY <2>1 DEF PostStatus, Becomes
    <3>2. (IF delivered THEN "exited" ELSE "active") \in {"exited", "active"}
      OBVIOUS
    <3>3. QED
      BY <3>1, <3>2
  <2>2. CASE MachineDies(r, a)
    BY <2>2 DEF MachineDies, Becomes
  <2>3. QED
    BY <2>1, <2>2
<1>2. machine' \in [Runs -> [Attempts -> MachineState]]
  <2>1. [machine[r] EXCEPT ![a] = state] \in [Attempts -> MachineState]
    BY <1>0 DEF MachineState
  <2>2. QED
    BY <1>0, <1>a, <2>1
<1>3. \A q \in Runs, b \in Attempts : MachineMoves(q, b)
  <2>1. ASSUME NEW q \in Runs, NEW b \in Attempts, q # r \/ b # a
        PROVE  machine'[q][b] = machine[q][b]
    BY <1>0, <1>a, <2>1
  <2>2. MachineMoves(r, a)
    <3>1. CASE PostStatus(r, a)
      <4>1. PICK delivered \in BOOLEAN :
              machine' = [machine EXCEPT ![r][a] =
                            IF delivered THEN "exited" ELSE "active"]
        BY <3>1 DEF PostStatus, Becomes
      <4>2. machine'[r][a] = IF delivered THEN "exited" ELSE "active"
        BY <1>0, <4>1
      <4>3. QED
        BY <3>1, <4>2 DEF PostStatus, MachineMoves
    <3>2. CASE MachineDies(r, a)
      BY <1>0, <3>2 DEF MachineDies, Becomes, MachineMoves, Live
    <3>3. QED
      BY <3>1, <3>2
  <2>3. QED
    BY <2>1, <2>2 DEF MachineMoves
<1>4. QED
  <2>1. TypeOK'
    BY <1>0, <1>1, <1>2 DEF TypeOK, PostStatus, MachineDies
  <2>2. QED
    BY <1>1, <1>3, <2>1, FrameIInv
       DEF WorkerMoves, JobMoves, PostStatus, MachineDies

LEMMA AbandonStep ==
  ASSUME IInv, NEW c \in Reconcilers, NEW r \in Runs, JobAbandoned(c, r)
  PROVE  IInv'
<1>1. runs' \in [Runs -> RunRow] /\ \A q \in Runs : Keeps(runs[q], runs'[q])
  BY UnchangedTable DEF IInv, JobAbandoned
<1>2. TypeOK'
  BY <1>1 DEF IInv, TypeOK, JobAbandoned, JobState
<1>3. \A d \in Reconcilers, q \in Runs : JobMoves(d, q)
  BY DEF IInv, TypeOK, JobAbandoned, JobMoves
<1>4. QED
  BY <1>1, <1>2, <1>3, FrameIInv
     DEF JobAbandoned, WorkerMoves, MachineMoves

-----------------------------------------------------------------------------
(* The steps that claim, attach, launch, stop and stamp. *)

LEMMA ClaimStep == ASSUME IInv, NEW r \in Runs, Claim(r) PROVE IInv'
<1> USE BoundsAssumption
<1>0. /\ TypeOK /\ AttachedIsCurrent /\ UnclaimedIsUntouched
      /\ AttachedWorkerIsRecorded /\ OneRecordedRuntime /\ StampFollowsStop
      /\ JobHasSandbox /\ OnlyEndedRunsStop /\ StampedMeansGone
      /\ \A q \in Runs : runs[q] \in RunRow
  BY DEF IInv, TypeOK
<1>a. /\ runs[r].attempt + 1 \in Attempts
      /\ runs[r].status = "queued" /\ runs[r].sandbox = NoSandbox
      /\ ~runs[r].stopped /\ runs[r].status \notin Terminal
      /\ runs[r].attempt + 1 \in 0 .. MaxClaims
  BY <1>0 DEF Claim, AttachedIsCurrent, RunRow, OnlyEndedRunsStop, Terminal
<1>b. /\ Claimed(runs[r]) \in RunRow
      /\ Claimed(runs[r]).sandbox = runs[r].sandbox
      /\ Claimed(runs[r]).stopped = runs[r].stopped
      /\ Claimed(runs[r]).deadline = runs[r].deadline
      /\ Claimed(runs[r]).attempt = runs[r].attempt + 1
      /\ Claimed(runs[r]).status = "provisioning"
  <2>1. Claimed(runs[r]) \in RunRow
    <3>1. \A row \in RunRow :
            row.attempt + 1 \in 0 .. MaxClaims => Claimed(row) \in RunRow
      <4>1. ASSUME NEW row \in RunRow, NEW n \in 0 .. MaxClaims
            PROVE  [row EXCEPT !.status = "provisioning", !.claimed = "recent",
                               !.lease = "fresh", !.attempt = n] \in RunRow
        BY DEF RunRow, Status, InFlight
      <4>2. QED
        BY <4>1 DEF Claimed
    <3>2. QED
      BY <1>0, <1>a, <3>1
  <2>2. QED
    BY <1>0, <2>1 DEF Claimed, RunRow
<1>1. TypeOK'
  BY <1>0, <1>a, <1>b DEF Claim, TypeOK, GoTo, WorkerState
<1>c. /\ \A q \in Runs : q # r => runs'[q] = runs[q]
      /\ runs'[r] = Claimed(runs[r])
      /\ \A q \in Runs, b \in Attempts :
           worker'[q][b] = IF q = r /\ b = runs[r].attempt + 1
                             THEN "prepare" ELSE worker[q][b]
      /\ machine' = machine /\ job' = job
  BY <1>0, <1>a DEF Claim, TypeOK, GoTo
<1>d. runs'[r].status = "provisioning" /\ runs'[r].sandbox = NoSandbox
      /\ runs'[r].attempt = runs[r].attempt + 1 /\ ~runs'[r].stopped
      /\ runs'[r].deadline = runs[r].deadline /\ runs[r].attempt \in Nat
      /\ runs'[r].status \notin Terminal
  BY <1>0, <1>a, <1>b, <1>c DEF RunRow, Terminal
<1>2. AttachedIsCurrent'
  BY <1>0, <1>a, <1>c, <1>d DEF AttachedIsCurrent
<1>3. UnclaimedIsUntouched'
  BY <1>0, <1>a, <1>c, <1>d DEF UnclaimedIsUntouched
<1>4. AttachedWorkerIsRecorded'
  BY <1>0, <1>a, <1>c, <1>d DEF AttachedWorkerIsRecorded, PastAttach, Launching
<1>5. OneRecordedRuntime'
  BY <1>0, <1>a, <1>c, <1>d DEF OneRecordedRuntime
<1>6. StampFollowsStop'
  BY <1>0, <1>a, <1>c, <1>d DEF StampFollowsStop
<1>7. JobHasSandbox'
  BY <1>0, <1>a, <1>c, <1>d DEF JobHasSandbox
<1>8. OnlyEndedRunsStop'
  BY <1>0, <1>a, <1>c, <1>d DEF OnlyEndedRunsStop
<1>9. StampedMeansGone'
  BY <1>0, <1>a, <1>c, <1>d DEF StampedMeansGone
<1>10. QED
  BY <1>1, <1>2, <1>3, <1>4, <1>5, <1>6, <1>7, <1>8, <1>9 DEF IInv

LEMMA AllocateStep ==
  ASSUME IInv, NEW r \in Runs, NEW a \in Attempts, Allocate(r, a) PROVE IInv'
<1> USE BoundsAssumption
<1>0. /\ TypeOK /\ AttachedIsCurrent /\ UnclaimedIsUntouched
      /\ AttachedWorkerIsRecorded /\ OneRecordedRuntime /\ StampFollowsStop
      /\ JobHasSandbox /\ OnlyEndedRunsStop /\ StampedMeansGone
      /\ \A q \in Runs : runs[q] \in RunRow
  BY DEF IInv, TypeOK
<1>1. TypeOK'
  BY <1>0 DEF Allocate, TypeOK, GoTo, Becomes, WorkerState, MachineState
<1>c. /\ \A q \in Runs, b \in Attempts :
           /\ worker'[q][b] = IF q = r /\ b = a THEN "allocated"
                                                ELSE worker[q][b]
           /\ machine'[q][b] = IF q = r /\ b = a THEN "booted"
                                                 ELSE machine[q][b]
      /\ runs' = runs /\ job' = job
      /\ worker[r][a] = "resolve" /\ machine[r][a] = "none"
  BY <1>0 DEF Allocate, TypeOK, GoTo, Becomes, UnclaimedIsUntouched
<1>d. \A q \in Runs : runs[q].sandbox # NoSandbox => runs[q].sandbox \in Attempts
  BY <1>0 DEF RunRow
<1>2. AttachedIsCurrent'
  BY <1>0, <1>c, <1>d DEF AttachedIsCurrent
<1>3. UnclaimedIsUntouched'
  BY <1>0, <1>c, <1>d DEF UnclaimedIsUntouched
<1>4. AttachedWorkerIsRecorded'
  BY <1>0, <1>c, <1>d DEF AttachedWorkerIsRecorded, PastAttach, Launching
<1>5. OneRecordedRuntime'
  BY <1>0, <1>c, <1>d DEF OneRecordedRuntime
<1>6. StampFollowsStop'
  BY <1>0, <1>c, <1>d DEF StampFollowsStop
<1>7. JobHasSandbox'
  BY <1>0, <1>c, <1>d DEF JobHasSandbox
<1>8. OnlyEndedRunsStop'
  BY <1>0, <1>c, <1>d DEF OnlyEndedRunsStop
<1>9. StampedMeansGone'
  BY <1>0, <1>c, <1>d DEF StampedMeansGone
<1>10. QED
  BY <1>1, <1>2, <1>3, <1>4, <1>5, <1>6, <1>7, <1>8, <1>9 DEF IInv

LEMMA StartStep ==
  ASSUME IInv, NEW r \in Runs, NEW a \in Attempts, StartRuntime(r, a)
  PROVE  IInv'
<1> USE BoundsAssumption
<1>0. /\ TypeOK /\ AttachedIsCurrent /\ UnclaimedIsUntouched
      /\ AttachedWorkerIsRecorded /\ OneRecordedRuntime /\ StampFollowsStop
      /\ JobHasSandbox /\ OnlyEndedRunsStop /\ StampedMeansGone
      /\ \A q \in Runs : runs[q] \in RunRow
  BY DEF IInv, TypeOK
<1>1. TypeOK'
  BY <1>0 DEF StartRuntime, TypeOK, GoTo, Becomes, WorkerState, MachineState
<1>c. /\ \A q \in Runs, b \in Attempts :
           /\ worker'[q][b] = IF q = r /\ b = a THEN "started"
                                                ELSE worker[q][b]
           /\ machine'[q][b] = IF q = r /\ b = a THEN "active"
                                                 ELSE machine[q][b]
      /\ runs' = runs /\ job' = job
      /\ worker[r][a] = "install" /\ machine[r][a] = "booted"
  BY <1>0 DEF StartRuntime, TypeOK, GoTo, Becomes
<1>d. \A q \in Runs : runs[q].sandbox # NoSandbox => runs[q].sandbox \in Attempts
  BY <1>0 DEF RunRow
<1>e. runs[r].sandbox = a
  BY <1>0, <1>c DEF AttachedWorkerIsRecorded, PastAttach, Launching
<1>2. AttachedIsCurrent'
  BY <1>0, <1>c, <1>d, <1>e DEF AttachedIsCurrent
<1>3. UnclaimedIsUntouched'
  BY <1>0, <1>c, <1>d, <1>e DEF UnclaimedIsUntouched
<1>4. AttachedWorkerIsRecorded'
  BY <1>0, <1>c, <1>d, <1>e DEF AttachedWorkerIsRecorded, PastAttach, Launching
<1>5. OneRecordedRuntime'
  BY <1>0, <1>c, <1>d, <1>e DEF OneRecordedRuntime
<1>6. StampFollowsStop'
  BY <1>0, <1>c, <1>d, <1>e DEF StampFollowsStop
<1>7. JobHasSandbox'
  BY <1>0, <1>c, <1>d, <1>e DEF JobHasSandbox
<1>8. OnlyEndedRunsStop'
  BY <1>0, <1>c, <1>d, <1>e DEF OnlyEndedRunsStop
<1>9. StampedMeansGone'
  BY <1>0, <1>c, <1>d, <1>e DEF StampedMeansGone
<1>10. QED
  BY <1>1, <1>2, <1>3, <1>4, <1>5, <1>6, <1>7, <1>8, <1>9 DEF IInv

\* Attaching: the claim is still owned, so no machine was attached before.
LEMMA AttachedStep ==
  ASSUME IInv, NEW r \in Runs, NEW a \in Attempts, Attach(r, a),
         OwnsClaim(r, a)
  PROVE  IInv'
<1> USE BoundsAssumption
<1>0. /\ TypeOK /\ AttachedIsCurrent /\ UnclaimedIsUntouched
      /\ AttachedWorkerIsRecorded /\ OneRecordedRuntime /\ StampFollowsStop
      /\ JobHasSandbox /\ OnlyEndedRunsStop /\ StampedMeansGone
      /\ \A q \in Runs : runs[q] \in RunRow
  BY DEF IInv, TypeOK
<1>a. /\ runs[r].attempt = a /\ runs[r].status = "provisioning"
      /\ runs[r].sandbox = NoSandbox /\ worker[r][a] = "allocated"
      /\ ~runs[r].stopped
  BY <1>0 DEF Attach, OwnsClaim, StampedMeansGone
<1>b. /\ Attached(runs[r], a) \in RunRow
      /\ Attached(runs[r], a).sandbox = a
      /\ Attached(runs[r], a).stopped = runs[r].stopped
      /\ Attached(runs[r], a).attempt = runs[r].attempt
      /\ Attached(runs[r], a).status = runs[r].status
  <2>1. Attached(runs[r], a) \in RunRow
    BY <1>0 DEF Attached, RunRow
  <2>2. QED
    BY <1>0, <2>1 DEF Attached, RunRow
<1>1. TypeOK'
  <2>1. /\ runs' = [runs EXCEPT ![r] = Attached(runs[r], a)]
        /\ GoTo(r, a, "install") /\ UNCHANGED <<machine, job, faults>>
    BY <1>0 DEF Attach
  <2>2. runs' \in [Runs -> RunRow]
    BY <1>0, <1>b, <2>1 DEF TypeOK
  <2>3. QED
    BY <1>0, <2>1, <2>2 DEF TypeOK, GoTo, WorkerState
<1>c. /\ \A q \in Runs : q # r => runs'[q] = runs[q]
      /\ runs'[r] = Attached(runs[r], a)
      /\ \A q \in Runs, b \in Attempts :
           worker'[q][b] = IF q = r /\ b = a THEN "install" ELSE worker[q][b]
      /\ machine' = machine /\ job' = job
  BY <1>0 DEF Attach, TypeOK, GoTo
<1>d. /\ runs'[r].status = "provisioning" /\ runs'[r].sandbox = a
      /\ runs'[r].attempt = a /\ ~runs'[r].stopped /\ a # NoSandbox
  BY <1>0, <1>a, <1>b, <1>c
<1>2. AttachedIsCurrent'
  BY <1>0, <1>a, <1>c, <1>d DEF AttachedIsCurrent
<1>3. UnclaimedIsUntouched'
  BY <1>0, <1>a, <1>c, <1>d DEF UnclaimedIsUntouched
<1>4. AttachedWorkerIsRecorded'
  BY <1>0, <1>a, <1>c, <1>d DEF AttachedWorkerIsRecorded, PastAttach, Launching
<1>5. OneRecordedRuntime'
  BY <1>0, <1>a, <1>c, <1>d DEF OneRecordedRuntime
<1>6. StampFollowsStop'
  BY <1>0, <1>a, <1>c, <1>d DEF StampFollowsStop
<1>7. JobHasSandbox'
  BY <1>0, <1>a, <1>c, <1>d DEF JobHasSandbox
<1>8. OnlyEndedRunsStop'
  BY <1>0, <1>a, <1>c, <1>d DEF OnlyEndedRunsStop
<1>9. StampedMeansGone'
  BY <1>0, <1>a, <1>c, <1>d DEF StampedMeansGone
<1>10. QED
  BY <1>1, <1>2, <1>3, <1>4, <1>5, <1>6, <1>7, <1>8, <1>9 DEF IInv

LEMMA MarkedRunningStep ==
  ASSUME IInv, NEW r \in Runs, NEW a \in Attempts, MarkRunning(r, a),
         runs[r].status = "provisioning"
  PROVE  IInv'
<1> USE BoundsAssumption
<1>0. /\ TypeOK /\ AttachedIsCurrent /\ UnclaimedIsUntouched
      /\ AttachedWorkerIsRecorded /\ OneRecordedRuntime /\ StampFollowsStop
      /\ JobHasSandbox /\ OnlyEndedRunsStop /\ StampedMeansGone
      /\ \A q \in Runs : runs[q] \in RunRow
  BY DEF IInv, TypeOK
<1>a. worker[r][a] = "launched" /\ runs[r].sandbox = a
  BY <1>0 DEF MarkRunning, AttachedWorkerIsRecorded, PastAttach, Launching
<1>b. /\ MarkedRunning(runs[r]) \in RunRow
      /\ MarkedRunning(runs[r]).sandbox = runs[r].sandbox
      /\ MarkedRunning(runs[r]).stopped = runs[r].stopped
      /\ MarkedRunning(runs[r]).attempt = runs[r].attempt
      /\ MarkedRunning(runs[r]).deadline = runs[r].deadline
      /\ MarkedRunning(runs[r]).status = "running"
  <2>1. MarkedRunning(runs[r]) \in RunRow
    BY <1>0 DEF MarkedRunning, RunRow, Status, InFlight
  <2>2. QED
    BY <1>0, <2>1 DEF MarkedRunning, RunRow
<1>1. TypeOK'
  <2>1. /\ runs' = [runs EXCEPT ![r] = MarkedRunning(runs[r])]
        /\ GoTo(r, a, "done") /\ UNCHANGED <<machine, job, faults>>
    BY <1>0 DEF MarkRunning
  <2>2. runs' \in [Runs -> RunRow]
    BY <1>0, <1>b, <2>1 DEF TypeOK
  <2>3. QED
    BY <1>0, <2>1, <2>2 DEF TypeOK, GoTo, WorkerState
<1>c. /\ \A q \in Runs : q # r => runs'[q] = runs[q]
      /\ runs'[r] = MarkedRunning(runs[r])
      /\ \A q \in Runs, b \in Attempts :
           worker'[q][b] = IF q = r /\ b = a THEN "done" ELSE worker[q][b]
      /\ machine' = machine /\ job' = job
  BY <1>0 DEF MarkRunning, TypeOK, GoTo
<1>d. /\ runs'[r].status = "running" /\ runs'[r].sandbox = runs[r].sandbox
      /\ runs'[r].attempt = runs[r].attempt
      /\ runs'[r].stopped = runs[r].stopped
      /\ runs'[r].deadline = runs[r].deadline
      /\ runs[r].status \notin Terminal
  BY <1>b, <1>c DEF Terminal
<1>2. AttachedIsCurrent'
  BY <1>0, <1>a, <1>c, <1>d DEF AttachedIsCurrent
<1>3. UnclaimedIsUntouched'
  BY <1>0, <1>a, <1>c, <1>d DEF UnclaimedIsUntouched
<1>4. AttachedWorkerIsRecorded'
  BY <1>0, <1>a, <1>c, <1>d DEF AttachedWorkerIsRecorded, PastAttach, Launching
<1>5. OneRecordedRuntime'
  BY <1>0, <1>a, <1>c, <1>d DEF OneRecordedRuntime
<1>6. StampFollowsStop'
  BY <1>0, <1>a, <1>c, <1>d DEF StampFollowsStop
<1>7. JobHasSandbox'
  BY <1>0, <1>a, <1>c, <1>d DEF JobHasSandbox
<1>8. OnlyEndedRunsStop'
  BY <1>0, <1>a, <1>c, <1>d DEF OnlyEndedRunsStop
<1>9. StampedMeansGone'
  BY <1>0, <1>a, <1>c, <1>d DEF StampedMeansGone
<1>10. QED
  BY <1>1, <1>2, <1>3, <1>4, <1>5, <1>6, <1>7, <1>8, <1>9 DEF IInv

\* Stamping, by a worker that lost its run or by a reconciler: the machine is
\* gone and the run has ended.
LEMMA StampIInv ==
  ASSUME IInv, TypeOK', NEW r \in Runs,
         runs[r].status \in Terminal,
         runs[r].sandbox \in Attempts, machine[r][runs[r].sandbox] = "gone",
         runs' = [runs EXCEPT ![r].stopped = TRUE], machine' = machine,
         \A q \in Runs, b \in Attempts :
           \/ worker'[q][b] = worker[q][b]
           \/ worker[q][b] # "idle" /\ worker'[q][b] = "done",
         \A c \in Reconcilers, q \in Runs :
           job'[c][q] = job[c][q] \/ job'[c][q] = "none"
  PROVE  IInv'
<1> USE BoundsAssumption
<1>0. /\ TypeOK /\ AttachedIsCurrent /\ UnclaimedIsUntouched
      /\ AttachedWorkerIsRecorded /\ OneRecordedRuntime /\ StampFollowsStop
      /\ JobHasSandbox /\ OnlyEndedRunsStop /\ StampedMeansGone
      /\ \A q \in Runs : runs[q] \in RunRow
  BY DEF IInv, TypeOK
<1>c. \A q \in Runs :
        /\ runs'[q].sandbox = runs[q].sandbox
        /\ runs'[q].attempt = runs[q].attempt
        /\ runs'[q].status = runs[q].status
        /\ runs'[q].deadline = runs[q].deadline
        /\ runs'[q].stopped => q = r \/ runs[q].stopped
  <2>1. \A q \in Runs : q # r => runs'[q] = runs[q]
    BY <1>0 DEF TypeOK
  <2>2. runs'[r] = [runs[r] EXCEPT !.stopped = TRUE]
    BY <1>0 DEF TypeOK
  <2>3. /\ runs'[r].sandbox = runs[r].sandbox
        /\ runs'[r].attempt = runs[r].attempt
        /\ runs'[r].status = runs[r].status
        /\ runs'[r].deadline = runs[r].deadline
    BY <1>0, <2>2 DEF RunRow
  <2>4. QED
    BY <2>1, <2>3
<1>d. \A q \in Runs : runs[q].sandbox # NoSandbox => runs[q].sandbox \in Attempts
  BY <1>0 DEF RunRow
<1>1. TypeOK'
  OBVIOUS
<1>2. AttachedIsCurrent'
  BY <1>0, <1>c, <1>d DEF AttachedIsCurrent
<1>3. UnclaimedIsUntouched'
  BY <1>0, <1>c, <1>d DEF UnclaimedIsUntouched
<1>4. AttachedWorkerIsRecorded'
  BY <1>0, <1>c, <1>d DEF AttachedWorkerIsRecorded, PastAttach, Launching
<1>5. OneRecordedRuntime'
  BY <1>0, <1>c, <1>d DEF OneRecordedRuntime
<1>6. StampFollowsStop'
  BY <1>0, <1>c, <1>d DEF StampFollowsStop
<1>7. JobHasSandbox'
  BY <1>0, <1>c, <1>d DEF JobHasSandbox
<1>8. OnlyEndedRunsStop'
  BY <1>0, <1>c, <1>d DEF OnlyEndedRunsStop
<1>9. StampedMeansGone'
  BY <1>0, <1>c, <1>d DEF StampedMeansGone
<1>10. QED
  BY <1>1, <1>2, <1>3, <1>4, <1>5, <1>6, <1>7, <1>8, <1>9 DEF IInv

LEMMA AttachingSteps ==
  ASSUME IInv, NEW r \in Runs, NEW a \in Attempts,
         \/ Attach(r, a) \/ MarkRunning(r, a)
         \/ StopLost(r, a) \/ StampLost(r, a)
  PROVE  IInv'
<1> USE BoundsAssumption DEF PastAttach, Launching
<1>0. /\ runs[r] \in RunRow /\ faults \in 0 .. MaxFaults
      /\ machine \in [Runs -> [Attempts -> MachineState]]
      /\ TypeOK
  BY DEF IInv, TypeOK
<1>t. ASSUME runs' = runs
      PROVE  runs' \in [Runs -> RunRow]
             /\ \A q \in Runs : Keeps(runs[q], runs'[q])
  BY <1>0, <1>t, UnchangedTable
<1>m. ASSUME machine' = machine
      PROVE  /\ machine' \in [Runs -> [Attempts -> MachineState]]
             /\ \A q \in Runs, b \in Attempts : MachineMoves(q, b)
  BY <1>0, <1>m DEF MachineMoves
<1>1. CASE Attach(r, a) /\ OwnsClaim(r, a)
  BY <1>1, AttachedStep
<1>2. CASE Attach(r, a) /\ ~OwnsClaim(r, a)
  BY <1>0, <1>2, <1>t, <1>m, WorkerStepKeeps DEF Attach, WorkerState
<1>3. CASE MarkRunning(r, a) /\ runs[r].status = "provisioning"
  BY <1>3, MarkedRunningStep
<1>4. CASE MarkRunning(r, a) /\ runs[r].status # "provisioning"
  \* The run was attached and nobody else marks it running: it has ended.
  <2>1. /\ worker[r][a] = "launched" /\ GoTo(r, a, "lost") /\ runs' = runs
        /\ UNCHANGED <<machine, job, faults>>
    BY <1>4 DEF MarkRunning
  <2>2. runs[r].sandbox = a /\ runs[r].status # "running"
    BY <2>1 DEF IInv, AttachedWorkerIsRecorded
  <2>3. runs[r].status \notin {"absent", "queued"}
    BY <2>2 DEF IInv, AttachedIsCurrent
  <2>4. runs[r].status \in Terminal
    BY <1>0, <1>4, <2>2, <2>3 DEF RunRow, Status, InFlight
  <2>5. QED
    BY <1>0, <1>t, <1>m, <2>1, <2>4, WorkerStepKeeps DEF WorkerState
<1>5. CASE StopLost(r, a)
  <2>0. /\ worker[r][a] = "lost" /\ runs[r].status \in Terminal
        /\ runs[r].sandbox = a
    BY <1>5 DEF StopLost, IInv, OnlyEndedRunsStop, AttachedWorkerIsRecorded
  <2>1. CASE GoTo(r, a, "done") /\ UNCHANGED machine
    BY <1>0, <1>5, <1>t, <1>m, <2>0, <2>1, WorkerStepKeeps
       DEF StopLost, WorkerState
  <2>2. CASE Becomes(r, a, "gone") /\ GoTo(r, a, "stamp")
    <3>1. machine' \in [Runs -> [Attempts -> MachineState]]
      BY <1>0, <2>2 DEF Becomes, MachineState
    <3>2. worker'[r][a] = "stamp"
      BY <1>0, <2>2 DEF GoTo, TypeOK
    <3>3. machine'[r][a] = "gone"
      BY <1>0, <2>2 DEF Becomes
    <3>4. ASSUME NEW q \in Runs, NEW b \in Attempts, q # r \/ b # a
          PROVE  machine'[q][b] = machine[q][b]
      BY <1>0, <2>2, <3>4 DEF Becomes
    <3>5. \A q \in Runs, b \in Attempts : MachineMoves(q, b)
      BY <3>2, <3>3, <3>4 DEF MachineMoves
    <3>6. runs'[r].status \in Terminal /\ runs' = runs /\ UNCHANGED <<job, faults>>
      BY <1>5, <2>0 DEF StopLost
    <3>7. QED
      BY <1>0, <1>t, <2>0, <2>2, <3>1, <3>3, <3>5, <3>6, WorkerStepKeeps
         DEF WorkerState
  <2>3. QED
    BY <1>5, <2>1, <2>2 DEF StopLost
<1>6. CASE StampLost(r, a)
  <2>1. /\ worker[r][a] = "stamp" /\ runs[r].status \in Terminal
        /\ runs[r].sandbox = a /\ machine[r][a] = "gone"
    BY <1>6 DEF StampLost, IInv, OnlyEndedRunsStop, AttachedWorkerIsRecorded,
                StampFollowsStop
  <2>2. runs' \in [Runs -> RunRow]
    <3>1. [runs[r] EXCEPT !.stopped = TRUE] \in RunRow
      BY <1>0 DEF RunRow
    <3>2. QED
      BY <1>0, <1>6, <3>1 DEF TypeOK, StampLost
  <2>3. TypeOK'
    BY <1>0, <1>6, <2>2 DEF StampLost, TypeOK, GoTo, WorkerState
  <2>4. \A q \in Runs, b \in Attempts :
          \/ worker'[q][b] = worker[q][b]
          \/ worker[q][b] # "idle" /\ worker'[q][b] = "done"
    <3>1. worker'[r][a] = "done"
      BY <1>0, <1>6 DEF StampLost, TypeOK, GoTo
    <3>2. ASSUME NEW q \in Runs, NEW b \in Attempts, q # r \/ b # a
          PROVE  worker'[q][b] = worker[q][b]
      BY <1>0, <1>6, <3>2 DEF StampLost, TypeOK, GoTo
    <3>3. QED
      BY <2>1, <3>1, <3>2
  <2>5. QED
    <3>1. /\ runs[r].sandbox \in Attempts
          /\ machine[r][runs[r].sandbox] = "gone"
      BY <2>1
    <3>2. /\ runs' = [runs EXCEPT ![r].stopped = TRUE] /\ machine' = machine
          /\ \A c \in Reconcilers, q \in Runs :
               job'[c][q] = job[c][q] \/ job'[c][q] = "none"
      BY <1>6 DEF StampLost
    <3>3. QED
      BY <2>1, <2>3, <2>4, <3>1, <3>2, StampIInv
<1>7. QED
  BY <1>1, <1>2, <1>3, <1>4, <1>5, <1>6

-----------------------------------------------------------------------------
(* The reconciler. *)

LEMMA ReconcilerSteps ==
  ASSUME IInv, NEW c \in Reconcilers, NEW r \in Runs,
         \/ Pick(c, r) \/ FailRun(c, r) \/ StopSandbox(c, r) \/ Stamp(c, r)
  PROVE  IInv'
<1> USE BoundsAssumption
<1>0. /\ runs[r] \in RunRow /\ TypeOK
  BY DEF IInv, TypeOK
<1>t. ASSUME runs' = runs
      PROVE  runs' \in [Runs -> RunRow]
             /\ \A q \in Runs : Keeps(runs[q], runs'[q])
  BY <1>0, <1>t, UnchangedTable
<1>1. CASE Pick(c, r)
  <2>1. PICK next \in {"stop", "expired", "silent"} :
          /\ \/ next = "stop" /\ SandboxToStop(r)
             \/ next = "expired" /\ Overdue(r)
             \/ next = "silent" /\ Silent(r)
          /\ job' = [job EXCEPT ![c][r] = next]
    BY <1>1 DEF Pick
  <2>2. runs[r].sandbox # NoSandbox
        /\ (next = "stop" => runs[r].status \in Terminal)
    BY <2>1 DEF SandboxToStop, Overdue, Silent, IInv, JobHasSandbox
  <2>3. TypeOK'
    BY <1>0, <1>1, <1>t, <2>1 DEF Pick, TypeOK, JobState
  <2>4. \A d \in Reconcilers, q \in Runs : JobMoves(d, q)
    <3>1. job'[c][r] = next
      BY <1>0, <2>1 DEF TypeOK
    <3>2. ASSUME NEW d \in Reconcilers, NEW q \in Runs, d # c \/ q # r
          PROVE  job'[d][q] = job[d][q]
      BY <1>0, <2>1, <3>2 DEF TypeOK
    <3>3. QED
      BY <1>1, <2>2, <3>1, <3>2 DEF JobMoves, Pick
  <2>5. QED
    BY <1>1, <1>t, <2>3, <2>4, FrameIInv DEF Pick, WorkerMoves, MachineMoves
<1>2. CASE FailRun(c, r)
  <2>1. /\ job' = [job EXCEPT ![c][r] = "stop"]
        /\ UNCHANGED <<worker, machine, faults>>
        /\ runs[r].sandbox # NoSandbox
    BY <1>2 DEF FailRun, IInv, JobHasSandbox
  <2>2. PICK error \in Error :
          runs' = IF MayComplete(r)
                    THEN [runs EXCEPT ![r] = Completed(@, "failed", error)]
                    ELSE runs
    BY <1>2 DEF FailRun, CompleteRun, Error
  <2>3. /\ runs' \in [Runs -> RunRow]
        /\ \A q \in Runs : Keeps(runs[q], runs'[q])
        /\ runs'[r].status \in Terminal
    <3>1. CASE MayComplete(r)
      <4>1. runs' = [runs EXCEPT ![r] = Completed(runs[r], "failed", error)]
        BY <2>2, <3>1
      <4>2. Keeps(runs[r], Completed(runs[r], "failed", error))
        BY <1>0, <3>1, KeepsCompleted DEF MayComplete, Terminal
      <4>3. Completed(runs[r], "failed", error).status \in Terminal
        BY <1>0 DEF Completed, RunRow, Terminal
      <4>4. QED
        BY <1>0, <4>1, <4>2, <4>3, KeepsTable DEF TypeOK
    <3>2. CASE ~MayComplete(r)
      <4>1. runs[r].status \in Terminal
        BY <2>1, <3>2 DEF MayComplete, IInv, AttachedIsCurrent
      <4>2. QED
        BY <1>t, <2>2, <3>2, <4>1
    <3>3. QED
      BY <3>1, <3>2
  <2>4. TypeOK'
    BY <1>0, <2>1, <2>3 DEF TypeOK, JobState
  <2>5. \A d \in Reconcilers, q \in Runs : JobMoves(d, q)
    <3>1. job'[c][r] = "stop"
      BY <1>0, <2>1 DEF TypeOK
    <3>2. ASSUME NEW d \in Reconcilers, NEW q \in Runs, d # c \/ q # r
          PROVE  job'[d][q] = job[d][q]
      BY <1>0, <2>1, <3>2 DEF TypeOK
    <3>3. QED
      BY <2>1, <2>3, <3>1, <3>2 DEF JobMoves
  <2>6. QED
    BY <2>1, <2>3, <2>4, <2>5, FrameIInv DEF WorkerMoves, MachineMoves
<1>3. CASE StopSandbox(c, r)
  <2>1. /\ job[c][r] = "stop" /\ job' = [job EXCEPT ![c][r] = "stamp"]
        /\ UNCHANGED <<runs, worker, faults>>
        /\ runs[r].sandbox # NoSandbox /\ runs[r].status \in Terminal
    BY <1>3 DEF StopSandbox, IInv, JobHasSandbox, OnlyEndedRunsStop
  <2>2. PICK a \in Attempts : a = runs[r].sandbox /\ Becomes(r, a, "gone")
    BY <1>3 DEF StopSandbox
  <2>4. machine' \in [Runs -> [Attempts -> MachineState]]
    BY <1>0, <2>2 DEF Becomes, MachineState, TypeOK
  <2>5. TypeOK'
    BY <1>0, <1>t, <2>1, <2>4 DEF TypeOK, JobState
  <2>6. machine'[r][a] = "gone"
        /\ \A q \in Runs, b \in Attempts :
             q # r \/ b # a => machine'[q][b] = machine[q][b]
    BY <1>0, <2>2 DEF Becomes, TypeOK
  <2>7. worker[r][a] \notin {"idle", "prepare", "resolve"}
    BY <2>1, <2>2 DEF IInv, AttachedWorkerIsRecorded
  <2>8. \A q \in Runs, b \in Attempts : MachineMoves(q, b)
    BY <2>1, <2>6, <2>7 DEF MachineMoves
  <2>9. \A d \in Reconcilers, q \in Runs : JobMoves(d, q)
    <3>1. job'[c][r] = "stamp"
      BY <1>0, <2>1 DEF TypeOK
    <3>2. ASSUME NEW d \in Reconcilers, NEW q \in Runs, d # c \/ q # r
          PROVE  job'[d][q] = job[d][q]
      BY <1>0, <2>1, <3>2 DEF TypeOK
    <3>3. QED
      BY <2>1, <2>2, <2>6, <3>1, <3>2 DEF JobMoves
  <2>10. QED
    BY <1>t, <2>1, <2>5, <2>8, <2>9, FrameIInv DEF WorkerMoves
<1>4. CASE Stamp(c, r)
  <2>1. /\ job[c][r] = "stamp" /\ job' = [job EXCEPT ![c][r] = "none"]
        /\ runs' = [runs EXCEPT ![r].stopped = TRUE]
        /\ UNCHANGED <<worker, machine, faults>>
        /\ runs[r].status \in Terminal
        /\ runs[r].sandbox \in Attempts /\ machine[r][runs[r].sandbox] = "gone"
    BY <1>4 DEF Stamp, IInv, OnlyEndedRunsStop, StampFollowsStop
  <2>2. runs' \in [Runs -> RunRow]
    <3>1. [runs[r] EXCEPT !.stopped = TRUE] \in RunRow
      BY <1>0 DEF RunRow
    <3>2. QED
      BY <1>0, <2>1, <3>1 DEF TypeOK
  <2>3. TypeOK'
    BY <1>0, <2>1, <2>2 DEF TypeOK, JobState
  <2>4. \A d \in Reconcilers, q \in Runs :
          job'[d][q] = job[d][q] \/ job'[d][q] = "none"
    <3>1. job'[c][r] = "none"
      BY <1>0, <2>1 DEF TypeOK
    <3>2. ASSUME NEW d \in Reconcilers, NEW q \in Runs, d # c \/ q # r
          PROVE  job'[d][q] = job[d][q]
      BY <1>0, <2>1, <3>2 DEF TypeOK
    <3>3. QED
      BY <3>1, <3>2
  <2>5. QED
    <3>1. \A q \in Runs, b \in Attempts :
            \/ worker'[q][b] = worker[q][b]
            \/ worker[q][b] # "idle" /\ worker'[q][b] = "done"
      BY <2>1
    <3>2. machine' = machine
      BY <2>1
    <3>3. QED
      BY <2>1, <2>3, <2>4, <3>1, <3>2, StampIInv
<1>5. QED
  BY <1>1, <1>2, <1>3, <1>4

LEMMA StepIInv == IInv /\ [Next]_vars => IInv'
<1> SUFFICES ASSUME IInv, [Next]_vars PROVE IInv'
  OBVIOUS
<1>1. CASE UNCHANGED vars
  <2>1. runs' \in [Runs -> RunRow] /\ \A q \in Runs : Keeps(runs[q], runs'[q])
    BY <1>1, UnchangedTable DEF IInv, vars
  <2>2. TypeOK'
    BY <1>1 DEF IInv, TypeOK, vars
  <2>3. QED
    BY <1>1, <2>1, <2>2, FrameIInv
       DEF vars, WorkerMoves, MachineMoves, JobMoves
<1>2. ASSUME NEW r \in Runs,
             \/ CreateRun(r) \/ Claim(r) \/ Cancel(r)
             \/ LeaseDue(r) \/ LeaseExpires(r) \/ HeartbeatMissed(r)
             \/ SilenceGrows(r) \/ DeadlinePasses(r) \/ ReclaimClaim(r)
      PROVE  IInv'
  BY <1>2, RowSteps, ClaimStep
<1>3. ASSUME NEW r \in Runs, NEW a \in Attempts,
             \/ WorkerStep(r, a) \/ CleanupLeaks(r, a) \/ WorkerDies(r, a)
             \/ Renew(r, a)
             \/ PostEvent(r, a) \/ PostStatus(r, a) \/ MachineDies(r, a)
      PROVE  IInv'
  BY <1>3, RowSteps, PlainWorkerSteps, AllocateStep, StartStep,
     AttachingSteps, SandboxSteps DEF WorkerStep
<1>4. ASSUME NEW c \in Reconcilers, NEW r \in Runs,
             \/ Pick(c, r) \/ FailRun(c, r) \/ StopSandbox(c, r)
             \/ JobAbandoned(c, r) \/ Stamp(c, r)
      PROVE  IInv'
  BY <1>4, ReconcilerSteps, AbandonStep
<1>5. QED
  BY <1>1, <1>2, <1>3, <1>4 DEF Next, Idle

-----------------------------------------------------------------------------
(* The theorems. *)

\* The strengthened invariant holds in every reachable state.
THEOREM Inductive == Spec => []IInv
<1>1. Init => IInv
  BY InitIInv
<1>2. IInv /\ [Next]_vars => IInv'
  BY StepIInv
<1>3. QED
  BY <1>1, <1>2, PTL DEF Spec

\* Every row, worker, machine and reconciler stays in the states the code
\* knows, and the fault budget is kept.
THEOREM TypeCorrect == Spec => []TypeOK
<1>1. IInv => TypeOK
  BY DEF IInv
<1>2. QED
  BY <1>1, Inductive, PTL

\* Whatever crashes, however late a worker is: a runtime that was started runs
\* on the machine its row names, so at most one per run
\* (attachSandbox's owner check before anything is launched).
THEOREM RuntimeRecorded == Spec => []OneRecordedRuntime
<1>1. IInv => OneRecordedRuntime
  BY DEF IInv
<1>2. QED
  BY <1>1, Inductive, PTL

\* sandbox_stopped_at is only ever set on a run whose recorded machine is gone
\* (reclaim and stopAfterLostOwnership stop first, then stamp).
THEOREM StampTruthful == Spec => []StampedMeansGone
<1>1. IInv => StampedMeansGone
  BY DEF IInv
<1>2. QED
  BY <1>1, Inductive, PTL

-----------------------------------------------------------------------------
(* The steps of the promise, as seen by the one run that takes them. *)

Stays(r) ==
  phase'[r] = phase[r] /\ runtime'[r] = runtime[r] /\ reclaimed'[r] = reclaimed[r]

\* The run is created, marked running or decided; a decision may come with the
\* end of the runtime.
PhaseMoves(r) ==
  /\ \/ phase[r] = "absent" /\ phase'[r] = "waiting" /\ runtime'[r] = runtime[r]
     \/ /\ phase[r] = "waiting" /\ phase'[r] = "running"
        /\ runtime[r] # "none" /\ runtime'[r] = runtime[r]
     \/ /\ phase[r] \in {"waiting", "running"} /\ phase'[r] \in Terminal
        /\ \/ runtime'[r] = runtime[r]
           \/ runtime[r] = "up" /\ runtime'[r] = "down"
  /\ reclaimed'[r] = reclaimed[r]

\* The runtime is started or its machine is lost.
RuntimeMoves(r) ==
  /\ phase[r] # "absent" /\ phase'[r] = phase[r]
  /\ \/ runtime[r] = "none" /\ ~reclaimed[r] /\ runtime'[r] = "up"
     \/ runtime[r] # "down" /\ runtime'[r] = "down"
  /\ reclaimed'[r] = reclaimed[r]

IsReclaimed(r) ==
  /\ phase[r] \in Terminal /\ runtime[r] = "down" /\ reclaimed'[r] = TRUE
  /\ phase'[r] = phase[r] /\ runtime'[r] = runtime[r]

LEMMA OneRunMoves ==
  ASSUME NEW r \in Runs, \A q \in Runs : q # r => Stays(q),
         Stays(r) \/ PhaseMoves(r) \/ RuntimeMoves(r) \/ IsReclaimed(r)
  PROVE  [Promise!Next]_(Promise!promise)
<1>1. /\ phase     = [q \in Runs |-> phase[q]]     /\ phase'     = [q \in Runs |-> phase'[q]]
      /\ runtime   = [q \in Runs |-> runtime[q]]   /\ runtime'   = [q \in Runs |-> runtime'[q]]
      /\ reclaimed = [q \in Runs |-> reclaimed[q]] /\ reclaimed' = [q \in Runs |-> reclaimed'[q]]
  BY DEF phase, runtime, reclaimed
<1>2. /\ phase'     = [phase EXCEPT ![r] = phase'[r]]
      /\ runtime'   = [runtime EXCEPT ![r] = runtime'[r]]
      /\ reclaimed' = [reclaimed EXCEPT ![r] = reclaimed'[r]]
  BY <1>1 DEF Stays
<1>3. /\ phase'[r] = phase[r] => phase' = phase
      /\ runtime'[r] = runtime[r] => runtime' = runtime
      /\ reclaimed'[r] = reclaimed[r] => reclaimed' = reclaimed
  BY <1>1 DEF Stays
<1>4. CASE Stays(r)
  BY <1>3, <1>4 DEF Stays, Promise!promise
<1>5. CASE PhaseMoves(r)
  BY <1>2, <1>3, <1>5
     DEF PhaseMoves, Promise!Next, Promise!Submit, Promise!Running, Promise!Decide,
         Promise!Outcomes, Terminal
<1>6. CASE RuntimeMoves(r)
  BY <1>2, <1>3, <1>6 DEF RuntimeMoves, Promise!Next, Promise!Launch, Promise!Down
<1>7. CASE IsReclaimed(r)
  BY <1>2, <1>3, <1>7
     DEF IsReclaimed, Promise!Next, Promise!Reclaim, Promise!Outcomes, Terminal
<1>8. QED
  BY <1>4, <1>5, <1>6, <1>7

-----------------------------------------------------------------------------
(* What the promise sees depends on the row and the recorded machine only. *)

LEMMA PhaseIs ==
  ASSUME NEW r \in Runs
  PROVE  /\ phase[r] = IF runs[r].status \in {"queued", "provisioning"}
                         THEN "waiting" ELSE runs[r].status
         /\ reclaimed[r] = runs[r].stopped
BY DEF phase, reclaimed

RuntimeFollows(r) ==
  LET a == runs[r].sandbox IN
  /\ a \in {NoSandbox} \cup Attempts
  /\ a = NoSandbox => runtime[r] = "none"
  /\ a \in Attempts =>
       /\ machine[r][a] = "active" => runtime[r] = "up"
       /\ machine[r][a] \in {"exited", "gone"} => runtime[r] = "down"
       /\ machine[r][a] \in {"none", "booted"} => runtime[r] = "none"

LEMMA RuntimeIs == IInv => \A r \in Runs : RuntimeFollows(r)
<1> SUFFICES ASSUME IInv, NEW r \in Runs PROVE RuntimeFollows(r)
  OBVIOUS
<1> DEFINE a == runs[r].sandbox
<1>1. a \in {NoSandbox} \cup Attempts
  BY DEF IInv, TypeOK, RunRow
<1>2. \A b \in Attempts : machine[r][b] = "active" => a = b
  BY DEF IInv, OneRecordedRuntime
<1>3. runtime[r] = IF \E b \in Attempts : machine[r][b] = "active" THEN "up"
                   ELSE IF \E b \in Attempts : b = a /\ machine[r][b] \in {"exited", "gone"}
                          THEN "down" ELSE "none"
  BY DEF runtime
<1> HIDE DEF a
<1>4. a = NoSandbox => runtime[r] = "none"
  BY <1>2, <1>3
<1>5. a \in Attempts =>
        /\ machine[r][a] = "active" => runtime[r] = "up"
        /\ machine[r][a] \in {"exited", "gone"} => runtime[r] = "down"
        /\ machine[r][a] \in {"none", "booted"} => runtime[r] = "none"
  BY <1>2, <1>3
<1>6. QED
  BY <1>1, <1>4, <1>5 DEF RuntimeFollows, a

LEMMA RuntimeNext == IInv' => (\A r \in Runs : RuntimeFollows(r))'
BY RuntimeIs, PTL

LEMMA Elsewhere ==
  ASSUME NEW q \in Runs, runs'[q] = runs[q], machine'[q] = machine[q]
  PROVE  Stays(q)
BY DEF Stays, phase, runtime, reclaimed

LEMMA NothingSeen ==
  ASSUME UNCHANGED <<runs, machine>>
  PROVE  [Promise!Next]_(Promise!promise)
BY DEF phase, runtime, reclaimed, Promise!promise

\* A row is rewritten and no machine concerned.
LEMMA RowIsSeen ==
  ASSUME IInv, IInv', NEW r \in Runs, NEW new,
         runs' = [runs EXCEPT ![r] = new], machine' = machine,
         new.sandbox = runs[r].sandbox, new.stopped = runs[r].stopped,
         \/ new.status = runs[r].status
         \/ {new.status, runs[r].status} \subseteq {"queued", "provisioning"}
         \/ runs[r].status = "absent" /\ new.status = "queued"
         \/ runs[r].status \notin Terminal \cup {"absent"} /\ new.status \in Terminal
         \/ /\ runs[r].status = "provisioning" /\ new.status = "running"
            /\ runtime[r] # "none"
  PROVE  [Promise!Next]_(Promise!promise)
<1>1. runs \in [Runs -> RunRow]
  BY DEF IInv, TypeOK
<1>2. runs'[r] = new /\ \A q \in Runs : q # r => runs'[q] = runs[q]
  BY <1>1
<1>3. \A q \in Runs : q # r => Stays(q)
  BY <1>2, Elsewhere
<1>4. runtime'[r] = runtime[r] /\ reclaimed'[r] = reclaimed[r]
  BY <1>2 DEF runtime, reclaimed
<1>5. /\ phase[r] = IF runs[r].status \in {"queued", "provisioning"}
                       THEN "waiting" ELSE runs[r].status
      /\ phase'[r] = IF new.status \in {"queued", "provisioning"}
                        THEN "waiting" ELSE new.status
  BY <1>2 DEF phase
<1>6. runs[r].status \in Status
  BY <1>1 DEF RunRow
<1>7. Stays(r) \/ PhaseMoves(r)
  BY <1>4, <1>5, <1>6 DEF Stays, PhaseMoves, Status, InFlight, Terminal
<1>8. QED
  BY <1>3, <1>7, OneRunMoves

\* A machine changes and no row.
LEMMA MachineIsSeen ==
  ASSUME IInv, IInv', NEW r \in Runs, NEW a \in Attempts, NEW state,
         runs' = runs, machine' = [machine EXCEPT ![r][a] = state],
         \/ runs[r].sandbox # a
         \/ state = "gone"
         \/ machine[r][a] = "active" /\ state = "exited"
         \/ machine[r][a] = "booted" /\ state = "active"
  PROVE  [Promise!Next]_(Promise!promise)
<1>1. machine \in [Runs -> [Attempts -> MachineState]] /\ runs \in [Runs -> RunRow]
  BY DEF IInv, TypeOK
<1>2. /\ \A q \in Runs : q # r => machine'[q] = machine[q]
      /\ \A b \in Attempts : machine'[r][b] = IF b = a THEN state ELSE machine[r][b]
  BY <1>1
<1>3. \A q \in Runs : q # r => Stays(q)
  BY <1>2, Elsewhere
<1>4. phase'[r] = phase[r] /\ reclaimed'[r] = reclaimed[r]
  BY DEF phase, reclaimed
<1>5. CASE runs[r].sandbox # a
  <2>1. RuntimeFollows(r) /\ RuntimeFollows(r)'
    BY RuntimeIs, RuntimeNext
  <2>2. runs[r].sandbox \in Attempts => machine'[r][runs[r].sandbox] = machine[r][runs[r].sandbox]
    BY <1>2, <1>5
  <2>3. \A b \in Attempts : machine[r][b] \in MachineState
    BY <1>1
  <2>4. runtime'[r] = runtime[r]
    BY <2>1, <2>2, <2>3 DEF RuntimeFollows, MachineState
  <2>5. QED
    BY <1>3, <1>4, <2>4, OneRunMoves DEF Stays
<1>6. CASE runs[r].sandbox = a
  <2>1. phase[r] # "absent"
    BY <1>6, PhaseIs DEF IInv, AttachedIsCurrent
  <2>2. /\ machine[r][a] = "active" => runtime[r] = "up"
        /\ machine[r][a] \in {"exited", "gone"} => runtime[r] = "down"
        /\ machine[r][a] \in {"none", "booted"} => runtime[r] = "none"
        /\ state = "active" => runtime'[r] = "up"
        /\ state \in {"exited", "gone"} => runtime'[r] = "down"
    BY <1>2, <1>6, RuntimeIs, RuntimeNext DEF RuntimeFollows
  <2>3. machine[r][a] = "booted" => ~reclaimed[r]
    BY <1>6, PhaseIs DEF IInv, StampedMeansGone
  <2>4. Stays(r) \/ RuntimeMoves(r)
    BY <1>1, <1>4, <1>6, <2>1, <2>2, <2>3 DEF Stays, RuntimeMoves, MachineState
  <2>5. QED
    BY <1>3, <2>4, OneRunMoves
<1>7. QED
  BY <1>5, <1>6

-----------------------------------------------------------------------------
(* The steps. *)

LEMMA RowStepsSeen ==
  ASSUME IInv, IInv', NEW r \in Runs,
         \/ CreateRun(r) \/ Claim(r) \/ Cancel(r)
         \/ LeaseDue(r) \/ LeaseExpires(r) \/ HeartbeatMissed(r)
         \/ SilenceGrows(r) \/ DeadlinePasses(r) \/ ReclaimClaim(r)
         \/ \E a \in Attempts :
              \/ Prepare(r, a) \/ Retry(r, a) \/ FailAttempt(r, a)
              \/ Renew(r, a) \/ PostEvent(r, a)
  PROVE  [Promise!Next]_(Promise!promise)
<1>0. runs[r] \in RunRow
  BY DEF IInv, TypeOK
<1>1. CASE CreateRun(r)
  BY <1>0, <1>1, RowIsSeen DEF CreateRun, RunRow
<1>2. CASE Claim(r)
  BY <1>0, <1>2, RowIsSeen DEF Claim, Claimed, RunRow
<1>3. CASE Cancel(r)
  BY <1>0, <1>3, RowIsSeen
     DEF Cancel, CompleteRun, MayComplete, Completed, RunRow, Terminal
<1>4. CASE LeaseDue(r)
  BY <1>0, <1>4, RowIsSeen DEF LeaseDue, RunRow
<1>5. CASE LeaseExpires(r)
  BY <1>0, <1>5, RowIsSeen DEF LeaseExpires, RunRow
<1>6. CASE HeartbeatMissed(r)
  BY <1>0, <1>6, RowIsSeen DEF HeartbeatMissed, RunRow
<1>7. CASE SilenceGrows(r)
  <2>1. CASE runs' = [runs EXCEPT ![r].heard = "old"]
    BY <1>0, <1>7, <2>1, RowIsSeen DEF SilenceGrows, RunRow
  <2>2. CASE runs' = [runs EXCEPT ![r].claimed = "old"]
    BY <1>0, <1>7, <2>2, RowIsSeen DEF SilenceGrows, RunRow
  <2>3. QED
    BY <1>7, <2>1, <2>2 DEF SilenceGrows
<1>8. CASE DeadlinePasses(r)
  BY <1>0, <1>8, RowIsSeen DEF DeadlinePasses, RunRow
<1>9. CASE ReclaimClaim(r)
  BY <1>0, <1>9, RowIsSeen DEF ReclaimClaim, MayRequeue, Requeued, RunRow
<1>10. ASSUME NEW a \in Attempts, Prepare(r, a)
       PROVE  [Promise!Next]_(Promise!promise)
  BY <1>0, <1>10, RowIsSeen, NothingSeen DEF Prepare, Heard, RunRow
<1>11. ASSUME NEW a \in Attempts, Retry(r, a)
       PROVE  [Promise!Next]_(Promise!promise)
  BY <1>0, <1>11, RowIsSeen, NothingSeen DEF Retry, MayRequeue, Requeued, RunRow
<1>12. ASSUME NEW a \in Attempts, FailAttempt(r, a)
       PROVE  [Promise!Next]_(Promise!promise)
  BY <1>0, <1>12, RowIsSeen, NothingSeen
     DEF FailAttempt, MayFail, Completed, RunRow, Terminal
<1>13. ASSUME NEW a \in Attempts, Renew(r, a)
       PROVE  [Promise!Next]_(Promise!promise)
  BY <1>0, <1>13, RowIsSeen DEF Renew, RunRow
<1>14. ASSUME NEW a \in Attempts, PostEvent(r, a)
       PROVE  [Promise!Next]_(Promise!promise)
  BY <1>0, <1>14, RowIsSeen DEF PostEvent, Heard, RunRow
<1>15. QED
  BY <1>1, <1>2, <1>3, <1>4, <1>5, <1>6, <1>7, <1>8, <1>9, <1>10, <1>11, <1>12,
     <1>13, <1>14

LEMMA MachineStepsSeen ==
  ASSUME IInv, IInv', NEW r \in Runs, NEW a \in Attempts,
         \/ Allocate(r, a) \/ StartRuntime(r, a) \/ Cleanup(r, a)
         \/ StopLost(r, a) \/ MachineDies(r, a)
         \/ \E c \in Reconcilers : StopSandbox(c, r)
  PROVE  [Promise!Next]_(Promise!promise)
<1>1. CASE Allocate(r, a)
  <2>1. runs[r].sandbox # a
    BY <1>1 DEF Allocate, IInv, AttachedWorkerIsRecorded
  <2>2. QED
    BY <1>1, <2>1, MachineIsSeen DEF Allocate, Becomes
<1>2. CASE StartRuntime(r, a)
  BY <1>2, MachineIsSeen DEF StartRuntime, Becomes
<1>3. CASE Cleanup(r, a)
  BY <1>3, MachineIsSeen DEF Cleanup, Becomes
<1>4. CASE StopLost(r, a)
  BY <1>4, MachineIsSeen, NothingSeen DEF StopLost, Becomes
<1>5. CASE MachineDies(r, a)
  BY <1>5, MachineIsSeen DEF MachineDies, Becomes
<1>6. ASSUME NEW c \in Reconcilers, StopSandbox(c, r)
      PROVE  [Promise!Next]_(Promise!promise)
  <2>1. PICK b \in Attempts : b = runs[r].sandbox /\ Becomes(r, b, "gone")
    BY <1>6 DEF StopSandbox
  <2>2. QED
    BY <1>6, <2>1, MachineIsSeen DEF StopSandbox, Becomes
<1>7. QED
  BY <1>1, <1>2, <1>3, <1>4, <1>5, <1>6

\* Attaching shows a machine that may have died meanwhile.
LEMMA AttachSeen ==
  ASSUME IInv, IInv', NEW r \in Runs, NEW a \in Attempts, Attach(r, a)
  PROVE  [Promise!Next]_(Promise!promise)
<1>1. CASE ~OwnsClaim(r, a)
  BY <1>1, NothingSeen DEF Attach
<1>2. CASE OwnsClaim(r, a)
  <2>1. /\ runs' = [runs EXCEPT ![r] = Attached(runs[r], a)] /\ machine' = machine
        /\ runs[r].sandbox = NoSandbox /\ runs[r].status = "provisioning"
        /\ runs \in [Runs -> RunRow] /\ machine \in [Runs -> [Attempts -> MachineState]]
    BY <1>2 DEF Attach, OwnsClaim, IInv, TypeOK
  <2>2. /\ runs'[r].sandbox = a /\ runs'[r].status = "provisioning"
        /\ runs'[r].stopped = runs[r].stopped
        /\ \A q \in Runs : q # r => runs'[q] = runs[q]
    BY <2>1 DEF Attached, RunRow
  <2>3. \A q \in Runs : q # r => Stays(q)
    BY <2>1, <2>2, Elsewhere
  <2>4. /\ phase[r] = "waiting" /\ phase'[r] = "waiting"
        /\ reclaimed'[r] = reclaimed[r]
    BY <2>1, <2>2 DEF phase, reclaimed
  <2>5. machine[r][a] \in {"none", "booted", "gone"}
    <3>1. machine[r][a] \in MachineState /\ a # NoSandbox
      BY <2>1, BoundsAssumption
    <3>2. machine[r][a] \notin {"active", "exited"}
      BY <2>1, <3>1 DEF IInv, OneRecordedRuntime
    <3>3. QED
      BY <3>1, <3>2 DEF MachineState
  <2>6. runtime[r] = "none" /\ runtime'[r] \in {"none", "down"}
    BY <2>1, <2>2, <2>5, RuntimeIs, RuntimeNext DEF RuntimeFollows
  <2>7. QED
    BY <2>3, <2>4, <2>6, OneRunMoves DEF Stays, RuntimeMoves
<1>3. QED
  BY <1>1, <1>2

\* markRunning: the runtime was started on the recorded machine.
LEMMA MarkRunningSeen ==
  ASSUME IInv, IInv', NEW r \in Runs, NEW a \in Attempts, MarkRunning(r, a)
  PROVE  [Promise!Next]_(Promise!promise)
<1>1. CASE runs[r].status # "provisioning"
  BY <1>1, NothingSeen DEF MarkRunning
<1>2. CASE runs[r].status = "provisioning"
  <2>1. runs[r].sandbox = a /\ machine[r][a] \in {"active", "exited", "gone"}
    BY DEF MarkRunning, IInv, AttachedWorkerIsRecorded, PastAttach, Launching
  <2>2. runtime[r] # "none"
    BY <2>1, RuntimeIs DEF RuntimeFollows
  <2>3. runs[r] \in RunRow
    BY DEF IInv, TypeOK
  <2>4. QED
    BY <1>2, <2>2, <2>3, RowIsSeen DEF MarkRunning, MarkedRunning, RunRow
<1>3. QED
  BY <1>1, <1>2

\* A report may decide the run, and end the runtime that sent it.
LEMMA PostStatusSeen ==
  ASSUME IInv, IInv', NEW r \in Runs, NEW a \in Attempts, PostStatus(r, a)
  PROVE  [Promise!Next]_(Promise!promise)
<1>1. /\ runs \in [Runs -> RunRow] /\ machine \in [Runs -> [Attempts -> MachineState]]
      /\ machine[r][a] = "active" /\ runs[r].sandbox = a
  BY DEF IInv, TypeOK, OneRecordedRuntime, PostStatus
<1>2. PICK done \in BOOLEAN, delivered \in BOOLEAN :
        /\ runs' = [runs EXCEPT ![r] =
             IF MayComplete(r)
               THEN Completed(Heard(@), IF done THEN "succeeded" ELSE "failed",
                              IF done THEN "none" ELSE "agent")
               ELSE Heard(@)]
        /\ Becomes(r, a, IF delivered THEN "exited" ELSE "active")
  BY DEF PostStatus
<1>3. \A q \in Runs : q # r => Stays(q)
  <2>1. \A q \in Runs : q # r => runs'[q] = runs[q] /\ machine'[q] = machine[q]
    BY <1>1, <1>2 DEF Becomes
  <2>2. QED
    BY <2>1, Elsewhere
<1>4. /\ runs'[r].sandbox = a /\ runs'[r].stopped = runs[r].stopped
      /\ ~MayComplete(r) => runs'[r].status = runs[r].status
      /\ MayComplete(r) => runs'[r].status \in {"succeeded", "failed"}
  <2>1. runs'[r] = IF MayComplete(r)
                     THEN Completed(Heard(runs[r]), IF done THEN "succeeded" ELSE "failed",
                                    IF done THEN "none" ELSE "agent")
                     ELSE Heard(runs[r])
    BY <1>1, <1>2
  <2>2. QED
    BY <1>1, <2>1 DEF Completed, Heard, RunRow
<1>5. runtime[r] = "up" /\ runtime'[r] \in {"up", "down"}
  <2>1. machine'[r][a] \in {"active", "exited"}
    BY <1>1, <1>2 DEF Becomes
  <2>2. QED
    BY <1>1, <1>4, <2>1, RuntimeIs, RuntimeNext DEF RuntimeFollows
<1>6. reclaimed'[r] = reclaimed[r]
  BY <1>4 DEF reclaimed
<1>7. CASE MayComplete(r)
  <2>1. phase[r] \in {"waiting", "running"} /\ phase'[r] \in Terminal
    BY <1>1, <1>4, <1>7 DEF phase, MayComplete, RunRow, Status, InFlight, Terminal
  <2>2. QED
    BY <1>3, <1>5, <1>6, <2>1, OneRunMoves DEF PhaseMoves
<1>8. CASE ~MayComplete(r)
  <2>1. phase[r] # "absent" /\ phase'[r] = phase[r]
    BY <1>1, <1>4, <1>8, BoundsAssumption DEF phase, IInv, AttachedIsCurrent
  <2>2. QED
    BY <1>3, <1>5, <1>6, <2>1, OneRunMoves DEF Stays, RuntimeMoves
<1>9. QED
  BY <1>7, <1>8

\* Whoever stamps the row has seen the machine go.
LEMMA StampSeen ==
  ASSUME IInv, IInv', NEW r \in Runs,
         \/ \E a \in Attempts : StampLost(r, a)
         \/ \E c \in Reconcilers : Stamp(c, r)
  PROVE  [Promise!Next]_(Promise!promise)
<1>1. /\ runs' = [runs EXCEPT ![r].stopped = TRUE] /\ machine' = machine
      /\ runs \in [Runs -> RunRow]
  BY DEF StampLost, Stamp, IInv, TypeOK
<1>2. /\ runs[r].status \in Terminal
      /\ runs[r].sandbox \in Attempts /\ machine[r][runs[r].sandbox] = "gone"
  BY DEF StampLost, Stamp, IInv, OnlyEndedRunsStop, StampFollowsStop,
         AttachedWorkerIsRecorded, PastAttach
<1>3. /\ runs'[r] = [runs[r] EXCEPT !.stopped = TRUE]
      /\ \A q \in Runs : q # r => runs'[q] = runs[q]
  BY <1>1
<1>4. \A q \in Runs : q # r => Stays(q)
  BY <1>1, <1>3, Elsewhere
<1>5. /\ runs'[r].sandbox = runs[r].sandbox /\ runs'[r].status = runs[r].status
      /\ runs'[r].stopped = TRUE
  BY <1>1, <1>3 DEF RunRow
<1>6. runtime[r] = "down" /\ runtime'[r] = "down"
  BY <1>1, <1>2, <1>5, RuntimeIs, RuntimeNext DEF RuntimeFollows
<1>7. phase[r] \in Terminal /\ phase'[r] = phase[r] /\ reclaimed'[r] = TRUE
  BY <1>2, <1>5 DEF phase, reclaimed, Terminal
<1>8. QED
  BY <1>4, <1>6, <1>7, OneRunMoves DEF IsReclaimed

LEMMA FailRunSeen ==
  ASSUME IInv, IInv', NEW c \in Reconcilers, NEW r \in Runs, FailRun(c, r)
  PROVE  [Promise!Next]_(Promise!promise)
<1>1. runs[r] \in RunRow
  BY DEF IInv, TypeOK
<1>2. CASE MayComplete(r)
  BY <1>1, <1>2, RowIsSeen
     DEF FailRun, CompleteRun, MayComplete, Completed, RunRow, Terminal
<1>3. CASE ~MayComplete(r)
  BY <1>3, NothingSeen DEF FailRun, CompleteRun
<1>4. QED
  BY <1>2, <1>3

LEMMA StepSeen == IInv /\ IInv' /\ [Next]_vars => [Promise!Next]_(Promise!promise)
<1> SUFFICES ASSUME IInv, IInv', [Next]_vars PROVE [Promise!Next]_(Promise!promise)
  OBVIOUS
<1>1. CASE UNCHANGED vars
  BY <1>1, NothingSeen DEF vars
<1>2. ASSUME NEW r \in Runs,
             \/ CreateRun(r) \/ Claim(r) \/ Cancel(r)
             \/ LeaseDue(r) \/ LeaseExpires(r) \/ HeartbeatMissed(r)
             \/ SilenceGrows(r) \/ DeadlinePasses(r) \/ ReclaimClaim(r)
      PROVE  [Promise!Next]_(Promise!promise)
  BY <1>2, RowStepsSeen
<1>3. ASSUME NEW r \in Runs, NEW a \in Attempts,
             \/ WorkerStep(r, a) \/ CleanupLeaks(r, a) \/ WorkerDies(r, a)
             \/ Renew(r, a)
             \/ PostEvent(r, a) \/ PostStatus(r, a) \/ MachineDies(r, a)
      PROVE  [Promise!Next]_(Promise!promise)
  <2>1. CASE \/ ResolveFails(r, a) \/ Launched(r, a) \/ LaunchFails(r, a)
             \/ CleanupLeaks(r, a) \/ WorkerDies(r, a)
    BY <2>1, NothingSeen
       DEF ResolveFails, Launched, LaunchFails, CleanupLeaks, WorkerDies
  <2>2. QED
    BY <1>3, <2>1, RowStepsSeen, MachineStepsSeen, AttachSeen, MarkRunningSeen,
       PostStatusSeen, StampSeen DEF WorkerStep
<1>4. ASSUME NEW c \in Reconcilers, NEW r \in Runs,
             \/ Pick(c, r) \/ FailRun(c, r) \/ StopSandbox(c, r)
             \/ JobAbandoned(c, r) \/ Stamp(c, r)
      PROVE  [Promise!Next]_(Promise!promise)
  <2>1. CASE Pick(c, r) \/ JobAbandoned(c, r)
    BY <2>1, NothingSeen DEF Pick, JobAbandoned
  <2>2. CASE StopSandbox(c, r)
    <3>1. PICK a \in Attempts : a = runs[r].sandbox
      BY <2>2 DEF StopSandbox
    <3>2. QED
      BY <2>2, MachineStepsSeen
  <2>3. QED
    BY <1>4, <2>1, <2>2, FailRunSeen, StampSeen
<1>5. QED
  BY <1>1, <1>2, <1>3, <1>4 DEF Next, Idle

LEMMA InitSeen == Init => Promise!Init
BY BoundsAssumption DEF Init, phase, runtime, reclaimed, Promise!Init

-----------------------------------------------------------------------------
(* What attempts do to one another. *)

\* A row is neither requeued nor failed by a worker, and an expired lease stays.
Gentle(old, new) ==
  /\ new.error = "provisioning" => old.error = "provisioning"
  /\ old.status = "provisioning" => new.status # "queued"
  /\ old.lease = "expired" => new.lease \notin {"fresh", "due"}

\* The attempt that holds the row is ended by its own worker.
OwnEnd(r) ==
  /\ runs[r].attempt \in Attempts
  /\ worker[r][runs[r].attempt] \in {"retry", "fail"}
  /\ worker'[r][runs[r].attempt] = "done"

Rightful(r) ==
  /\ runs[r].error = "none" /\ runs'[r].error = "provisioning" => OwnEnd(r)
  /\ runs[r].status = "provisioning" /\ runs'[r].status = "queued"
       => OwnEnd(r) \/ runs[r].lease = "expired"
  /\ runs[r].lease = "expired" /\ runs'[r].lease \in {"fresh", "due"}
       => runs'[r].attempt > runs[r].attempt

LEMMA GentleIsRightful ==
  ASSUME TypeOK, NEW r \in Runs, NEW new, runs' = [runs EXCEPT ![r] = new],
         Gentle(runs[r], new)
  PROVE  \A q \in Runs : Rightful(q)
<1>1. runs'[r] = new /\ \A q \in Runs : q # r => runs'[q] = runs[q]
  BY DEF TypeOK
<1>2. \A q \in Runs : Gentle(runs[q], runs'[q])
  BY <1>1 DEF Gentle
<1>3. QED
  BY <1>2 DEF Gentle, Rightful

LEMMA UnchangedIsRightful == ASSUME runs' = runs PROVE \A q \in Runs : Rightful(q)
BY DEF Rightful

LEMMA RowStepsAreRightful ==
  ASSUME TypeOK, NEW r \in Runs,
         \/ CreateRun(r) \/ Cancel(r)
         \/ LeaseDue(r) \/ LeaseExpires(r) \/ HeartbeatMissed(r)
         \/ SilenceGrows(r) \/ DeadlinePasses(r)
         \/ \E a \in Attempts :
              \/ Prepare(r, a) \/ Attach(r, a) \/ MarkRunning(r, a) \/ StampLost(r, a)
              \/ Renew(r, a) \/ PostEvent(r, a) \/ PostStatus(r, a)
         \/ \E c \in Reconcilers : FailRun(c, r) \/ Stamp(c, r)
  PROVE  \A q \in Runs : Rightful(q)
<1>0. runs[r] \in RunRow
  BY DEF TypeOK
<1>1. CASE CreateRun(r)
  BY <1>0, <1>1, GentleIsRightful DEF CreateRun, RunRow, Gentle
<1>2. CASE Cancel(r)
  BY <1>0, <1>2, GentleIsRightful DEF Cancel, CompleteRun, MayComplete, Completed, RunRow, Gentle
<1>3. CASE LeaseDue(r)
  BY <1>0, <1>3, GentleIsRightful DEF LeaseDue, RunRow, Gentle
<1>4. CASE LeaseExpires(r) \/ HeartbeatMissed(r)
  BY <1>0, <1>4, GentleIsRightful DEF LeaseExpires, HeartbeatMissed, RunRow, Gentle
<1>5. CASE SilenceGrows(r)
  <2>1. CASE runs' = [runs EXCEPT ![r].heard = "old"]
    BY <1>0, <2>1, GentleIsRightful DEF RunRow, Gentle
  <2>2. CASE runs' = [runs EXCEPT ![r].claimed = "old"]
    BY <1>0, <2>2, GentleIsRightful DEF RunRow, Gentle
  <2>3. QED
    BY <1>5, <2>1, <2>2 DEF SilenceGrows
<1>6. CASE DeadlinePasses(r)
  BY <1>0, <1>6, GentleIsRightful DEF DeadlinePasses, RunRow, Gentle
<1>7. ASSUME NEW a \in Attempts, Prepare(r, a) \/ PostEvent(r, a)
      PROVE  \A q \in Runs : Rightful(q)
  BY <1>0, <1>7, GentleIsRightful, UnchangedIsRightful DEF Prepare, PostEvent, Heard, RunRow, Gentle
<1>8. ASSUME NEW a \in Attempts, Attach(r, a)
      PROVE  \A q \in Runs : Rightful(q)
  BY <1>0, <1>8, GentleIsRightful, UnchangedIsRightful DEF Attach, Attached, RunRow, Gentle
<1>9. ASSUME NEW a \in Attempts, MarkRunning(r, a)
      PROVE  \A q \in Runs : Rightful(q)
  BY <1>0, <1>9, GentleIsRightful, UnchangedIsRightful DEF MarkRunning, MarkedRunning, RunRow, Gentle
<1>10. ASSUME NEW a \in Attempts, Renew(r, a)
       PROVE  \A q \in Runs : Rightful(q)
  BY <1>0, <1>10, GentleIsRightful DEF Renew, OwnsClaim, RunRow, Gentle
<1>11. ASSUME NEW a \in Attempts, PostStatus(r, a)
       PROVE  \A q \in Runs : Rightful(q)
  <2>1. PICK done \in BOOLEAN :
          runs' = [runs EXCEPT ![r] =
            IF MayComplete(r)
              THEN Completed(Heard(@), IF done THEN "succeeded" ELSE "failed",
                             IF done THEN "none" ELSE "agent")
              ELSE Heard(@)]
    BY <1>11 DEF PostStatus
  <2>2. CASE MayComplete(r)
    <3>1. runs' = [runs EXCEPT ![r] =
                     Completed(Heard(runs[r]), IF done THEN "succeeded" ELSE "failed",
                               IF done THEN "none" ELSE "agent")]
      BY <2>1, <2>2
    <3>2. Gentle(runs[r], Completed(Heard(runs[r]), IF done THEN "succeeded" ELSE "failed",
                                    IF done THEN "none" ELSE "agent"))
      BY <1>0 DEF Gentle, Completed, Heard, RunRow
    <3>3. QED
      BY <3>1, <3>2, GentleIsRightful
  <2>3. CASE ~MayComplete(r)
    BY <1>0, <2>1, <2>3, GentleIsRightful DEF Gentle, Heard, RunRow
  <2>4. QED
    BY <2>2, <2>3
<1>12. CASE (\E a \in Attempts : StampLost(r, a)) \/ (\E c \in Reconcilers : Stamp(c, r))
  BY <1>0, <1>12, GentleIsRightful DEF StampLost, Stamp, RunRow, Gentle
<1>13. ASSUME NEW c \in Reconcilers, FailRun(c, r)
       PROVE  \A q \in Runs : Rightful(q)
  <2>1. PICK error \in {"deadline", "silent"} :
          runs' = IF MayComplete(r)
                    THEN [runs EXCEPT ![r] = Completed(@, "failed", error)]
                    ELSE runs
    BY <1>13 DEF FailRun, CompleteRun
  <2>2. Gentle(runs[r], Completed(runs[r], "failed", error))
    BY <1>0 DEF Gentle, Completed, RunRow
  <2>3. QED
    BY <2>1, <2>2, GentleIsRightful, UnchangedIsRightful
<1>14. QED
  BY <1>1, <1>2, <1>3, <1>4, <1>5, <1>6, <1>7, <1>8, <1>9, <1>10, <1>11, <1>12, <1>13

\* The steps that end an attempt, and the one that begins the next.
LEMMA EndsAreRightful ==
  ASSUME TypeOK, NEW r \in Runs,
         \/ Claim(r) \/ ReclaimClaim(r)
         \/ \E a \in Attempts : Retry(r, a) \/ FailAttempt(r, a)
  PROVE  \A q \in Runs : Rightful(q)
<1>0. runs \in [Runs -> RunRow] /\ worker \in [Runs -> [Attempts -> WorkerState]]
  BY DEF TypeOK
<1>a. ASSUME NEW new, runs' = [runs EXCEPT ![r] = new]
      PROVE  runs'[r] = new /\ \A q \in Runs : q # r => Rightful(q)
  BY <1>0, <1>a DEF Rightful
<1>1. CASE Claim(r)
  <2>1. runs'[r] = Claimed(runs[r]) /\ \A q \in Runs : q # r => Rightful(q)
    BY <1>1, <1>a DEF Claim
  <2>2. Rightful(r)
    BY <1>0, <1>1, <2>1 DEF Claim, Claimed, RunRow, Rightful
  <2>3. QED
    BY <2>1, <2>2
<1>2. CASE ReclaimClaim(r)
  <2>1. runs'[r] = Requeued(runs[r]) /\ \A q \in Runs : q # r => Rightful(q)
    BY <1>2, <1>a DEF ReclaimClaim
  <2>2. Rightful(r)
    BY <1>0, <1>2, <2>1 DEF ReclaimClaim, Requeued, RunRow, Rightful
  <2>3. QED
    BY <2>1, <2>2
<1>3. ASSUME NEW a \in Attempts, Retry(r, a) PROVE \A q \in Runs : Rightful(q)
  <2>1. CASE a < MaxAttempts /\ MayRequeue(r, a)
    <3>1. runs'[r] = Requeued(runs[r]) /\ \A q \in Runs : q # r => Rightful(q)
      BY <1>3, <1>a, <2>1 DEF Retry
    <3>2. OwnEnd(r)
      <4>1. worker[r][a] = "retry" /\ GoTo(r, a, "done")
        BY <1>3, <2>1 DEF Retry
      <4>2. QED
        BY <1>0, <2>1, <4>1 DEF MayRequeue, GoTo, OwnEnd
    <3>3. Rightful(r)
      BY <1>0, <3>1, <3>2 DEF Requeued, RunRow, Rightful
    <3>4. QED
      BY <3>1, <3>3
  <2>2. CASE ~(a < MaxAttempts /\ MayRequeue(r, a))
    BY <1>3, <2>2, UnchangedIsRightful DEF Retry
  <2>3. QED
    BY <2>1, <2>2
<1>4. ASSUME NEW a \in Attempts, FailAttempt(r, a) PROVE \A q \in Runs : Rightful(q)
  <2>1. CASE MayFail(r, a)
    <3>1. /\ runs'[r] = Completed(runs[r], "failed", "provisioning")
          /\ \A q \in Runs : q # r => Rightful(q)
      BY <1>4, <1>a, <2>1 DEF FailAttempt
    <3>2. OwnEnd(r)
      BY <1>0, <1>4, <2>1 DEF FailAttempt, MayFail, GoTo, OwnEnd
    <3>3. Rightful(r)
      BY <1>0, <3>1, <3>2 DEF Completed, RunRow, Rightful
    <3>4. QED
      BY <3>1, <3>3
  <2>2. CASE ~MayFail(r, a)
    BY <1>4, <2>2, UnchangedIsRightful DEF FailAttempt
  <2>3. QED
    BY <2>1, <2>2
<1>5. QED
  BY <1>1, <1>2, <1>3, <1>4

LEMMA StepsAreRightful == TypeOK /\ [Next]_vars => \A q \in Runs : Rightful(q)
<1> SUFFICES ASSUME TypeOK, [Next]_vars PROVE \A q \in Runs : Rightful(q)
  OBVIOUS
<1>1. CASE UNCHANGED vars
  BY <1>1, UnchangedIsRightful DEF vars
<1>2. ASSUME NEW r \in Runs,
             \/ CreateRun(r) \/ Claim(r) \/ Cancel(r)
             \/ LeaseDue(r) \/ LeaseExpires(r) \/ HeartbeatMissed(r)
             \/ SilenceGrows(r) \/ DeadlinePasses(r) \/ ReclaimClaim(r)
      PROVE  \A q \in Runs : Rightful(q)
  BY <1>2, RowStepsAreRightful, EndsAreRightful
<1>3. ASSUME NEW r \in Runs, NEW a \in Attempts,
             \/ WorkerStep(r, a) \/ CleanupLeaks(r, a) \/ WorkerDies(r, a)
             \/ Renew(r, a)
             \/ PostEvent(r, a) \/ PostStatus(r, a) \/ MachineDies(r, a)
      PROVE  \A q \in Runs : Rightful(q)
  <2>1. CASE \/ Allocate(r, a) \/ ResolveFails(r, a) \/ StartRuntime(r, a)
             \/ Launched(r, a) \/ LaunchFails(r, a) \/ Cleanup(r, a)
             \/ StopLost(r, a) \/ CleanupLeaks(r, a) \/ WorkerDies(r, a)
             \/ MachineDies(r, a)
    BY <2>1, UnchangedIsRightful
       DEF Allocate, ResolveFails, StartRuntime, Launched, LaunchFails, Cleanup,
           StopLost, CleanupLeaks, WorkerDies, MachineDies
  <2>2. QED
    BY <1>3, <2>1, RowStepsAreRightful, EndsAreRightful DEF WorkerStep
<1>4. ASSUME NEW c \in Reconcilers, NEW r \in Runs,
             \/ Pick(c, r) \/ FailRun(c, r) \/ StopSandbox(c, r)
             \/ JobAbandoned(c, r) \/ Stamp(c, r)
      PROVE  \A q \in Runs : Rightful(q)
  <2>1. CASE Pick(c, r) \/ StopSandbox(c, r) \/ JobAbandoned(c, r)
    BY <2>1, UnchangedIsRightful DEF Pick, StopSandbox, JobAbandoned
  <2>2. QED
    BY <1>4, <2>1, RowStepsAreRightful
<1>5. QED
  BY <1>1, <1>2, <1>3, <1>4 DEF Next, Idle

-----------------------------------------------------------------------------
(* Without a fault no machine is lost.  A worker lets go of a machine that is *)
(* not recorded only by removing it.                                          *)

Keeping == {"allocated", "cleanup"}

LEMMA OrphanFrame ==
  ASSUME NoOrphanWithoutFault, faults' = faults,
         \A q \in Runs : runs'[q].sandbox = runs[q].sandbox,
         \A q \in Runs, b \in Attempts :
           /\ worker[q][b] \in Keeping => \/ worker'[q][b] \in Keeping
                                         \/ machine'[q][b] \notin Live
           /\ machine'[q][b] \in Live => machine[q][b] \in Live \/ worker'[q][b] \in Keeping
  PROVE  NoOrphanWithoutFault'
BY DEF NoOrphanWithoutFault, Keeping

LEMMA SandboxKept ==
  ASSUME TypeOK, NEW r \in Runs, NEW new, runs' = [runs EXCEPT ![r] = new],
         new.sandbox = runs[r].sandbox
  PROVE  \A q \in Runs : runs'[q].sandbox = runs[q].sandbox
BY DEF TypeOK

LEMMA RowStepsKeepSandbox ==
  ASSUME TypeOK, NEW r \in Runs,
         \/ CreateRun(r) \/ Claim(r) \/ Cancel(r)
         \/ LeaseDue(r) \/ LeaseExpires(r)
         \/ SilenceGrows(r) \/ DeadlinePasses(r) \/ ReclaimClaim(r)
         \/ \E a \in Attempts :
              \/ Prepare(r, a) \/ Retry(r, a) \/ FailAttempt(r, a) \/ MarkRunning(r, a)
              \/ StampLost(r, a) \/ Renew(r, a) \/ PostEvent(r, a) \/ PostStatus(r, a)
         \/ \E c \in Reconcilers : FailRun(c, r) \/ Stamp(c, r)
  PROVE  \A q \in Runs : runs'[q].sandbox = runs[q].sandbox
<1>0. runs[r] \in RunRow
  BY DEF TypeOK
<1> DEFINE Kept == \A q \in Runs : runs'[q].sandbox = runs[q].sandbox
<1>1. CASE CreateRun(r)
  BY <1>0, <1>1, SandboxKept DEF CreateRun, RunRow
<1>2. CASE Claim(r)
  BY <1>0, <1>2, SandboxKept DEF Claim, Claimed, RunRow
<1>3. CASE Cancel(r)
  BY <1>0, <1>3, SandboxKept DEF Cancel, CompleteRun, MayComplete, Completed, RunRow
<1>4. CASE LeaseDue(r) \/ LeaseExpires(r)
  BY <1>0, <1>4, SandboxKept DEF LeaseDue, LeaseExpires, RunRow
<1>5. CASE SilenceGrows(r)
  <2>1. CASE runs' = [runs EXCEPT ![r].heard = "old"]
    BY <1>0, <2>1, SandboxKept DEF RunRow
  <2>2. CASE runs' = [runs EXCEPT ![r].claimed = "old"]
    BY <1>0, <2>2, SandboxKept DEF RunRow
  <2>3. QED
    BY <1>5, <2>1, <2>2 DEF SilenceGrows
<1>6. CASE DeadlinePasses(r)
  BY <1>0, <1>6, SandboxKept DEF DeadlinePasses, RunRow
<1>7. CASE ReclaimClaim(r)
  BY <1>0, <1>7, SandboxKept DEF ReclaimClaim, Requeued, RunRow
<1>8. ASSUME NEW a \in Attempts, Prepare(r, a) \/ PostEvent(r, a) PROVE Kept
  BY <1>0, <1>8, SandboxKept DEF Prepare, PostEvent, Heard, RunRow
<1>9. ASSUME NEW a \in Attempts, Retry(r, a) PROVE Kept
  BY <1>0, <1>9, SandboxKept DEF Retry, Requeued, RunRow
<1>10. ASSUME NEW a \in Attempts, FailAttempt(r, a) PROVE Kept
  BY <1>0, <1>10, SandboxKept DEF FailAttempt, Completed, RunRow
<1>11. ASSUME NEW a \in Attempts, MarkRunning(r, a) PROVE Kept
  BY <1>0, <1>11, SandboxKept DEF MarkRunning, MarkedRunning, RunRow
<1>12. ASSUME NEW a \in Attempts, Renew(r, a) PROVE Kept
  BY <1>0, <1>12, SandboxKept DEF Renew, RunRow
<1>13. ASSUME NEW a \in Attempts, PostStatus(r, a) PROVE Kept
  <2>1. PICK done \in BOOLEAN :
          runs' = [runs EXCEPT ![r] =
            IF MayComplete(r)
              THEN Completed(Heard(@), IF done THEN "succeeded" ELSE "failed",
                             IF done THEN "none" ELSE "agent")
              ELSE Heard(@)]
    BY <1>13 DEF PostStatus
  <2>2. \A status, error : Completed(Heard(runs[r]), status, error).sandbox = runs[r].sandbox
    BY <1>0 DEF Completed, Heard, RunRow
  <2>3. Heard(runs[r]).sandbox = runs[r].sandbox
    BY <1>0 DEF Heard, RunRow
  <2>4. CASE MayComplete(r)
    BY <2>1, <2>2, <2>4, SandboxKept
  <2>5. CASE ~MayComplete(r)
    BY <2>1, <2>3, <2>5, SandboxKept
  <2>6. QED
    BY <2>4, <2>5
<1>14. CASE (\E a \in Attempts : StampLost(r, a)) \/ (\E c \in Reconcilers : Stamp(c, r))
  BY <1>0, <1>14, SandboxKept DEF StampLost, Stamp, RunRow
<1>15. ASSUME NEW c \in Reconcilers, FailRun(c, r) PROVE Kept
  <2>1. \A error : Completed(runs[r], "failed", error).sandbox = runs[r].sandbox
    BY <1>0 DEF Completed, RunRow
  <2>2. QED
    BY <1>15, <2>1, SandboxKept DEF FailRun, CompleteRun
<1>16. QED
  BY <1>1, <1>2, <1>3, <1>4, <1>5, <1>6, <1>7, <1>8, <1>9, <1>10, <1>11, <1>12,
     <1>13, <1>14, <1>15

\* Steps that leave what is kept to its keeper.
LEMMA KeeperSteps ==
  ASSUME IInv, NoOrphanWithoutFault, NEW r \in Runs,
         \/ CreateRun(r) \/ Claim(r) \/ Cancel(r)
         \/ LeaseDue(r) \/ LeaseExpires(r)
         \/ SilenceGrows(r) \/ DeadlinePasses(r) \/ ReclaimClaim(r)
         \/ \E a \in Attempts :
              \/ Prepare(r, a) \/ Retry(r, a) \/ FailAttempt(r, a) \/ MarkRunning(r, a)
              \/ StampLost(r, a) \/ Renew(r, a) \/ PostEvent(r, a)
         \/ \E c \in Reconcilers : FailRun(c, r) \/ Stamp(c, r)
  PROVE  NoOrphanWithoutFault'
<1>1. TypeOK /\ worker \in [Runs -> [Attempts -> WorkerState]]
  BY DEF IInv, TypeOK
<1>2. \A q \in Runs : runs'[q].sandbox = runs[q].sandbox
  BY <1>1, RowStepsKeepSandbox
<1>3. machine' = machine /\ faults' = faults
  BY DEF CreateRun, Claim, Cancel, LeaseDue, LeaseExpires, SilenceGrows, DeadlinePasses,
         ReclaimClaim, Prepare, Retry, FailAttempt, MarkRunning, StampLost, Renew,
         PostEvent, FailRun, Stamp
<1>4. \A q \in Runs, b \in Attempts :
        worker[q][b] \in Keeping => worker'[q][b] = worker[q][b]
  <2>1. CASE worker' = worker
    BY <2>1
  <2>2. CASE Claim(r)
    <3>1. PICK a : GoTo(r, a, "prepare") /\ a > runs[r].attempt
      <4>1. runs[r].attempt \in Nat
        BY <1>1 DEF TypeOK, RunRow
      <4>2. QED
        BY <2>2, <4>1 DEF Claim
    <3>2. \A b \in Attempts : b > runs[r].attempt => worker[r][b] = "idle"
      BY DEF IInv, UnclaimedIsUntouched
    <3>3. QED
      BY <1>1, <3>1, <3>2 DEF GoTo, Keeping
  <2>3. ASSUME NEW a \in Attempts,
               \/ Prepare(r, a) \/ Retry(r, a) \/ FailAttempt(r, a)
               \/ MarkRunning(r, a) \/ StampLost(r, a)
        PROVE  \A q \in Runs, b \in Attempts :
                 worker[q][b] \in Keeping => worker'[q][b] = worker[q][b]
    <3>1. PICK state : GoTo(r, a, state) /\ worker[r][a] \notin Keeping
      BY <2>3 DEF Prepare, Retry, FailAttempt, MarkRunning, StampLost, Keeping
    <3>2. QED
      BY <1>1, <3>1 DEF GoTo
  <2>4. QED
    BY <2>1, <2>2, <2>3
       DEF CreateRun, Cancel, LeaseDue, LeaseExpires, SilenceGrows, DeadlinePasses,
           ReclaimClaim, Renew, PostEvent, FailRun, Stamp
<1>5. QED
  BY <1>2, <1>3, <1>4, OrphanFrame DEF Keeping

\* Steps of a worker and of a machine that change no row.
LEMMA MachineKeeperSteps ==
  ASSUME IInv, NoOrphanWithoutFault, NEW r \in Runs, NEW a \in Attempts,
         \/ Allocate(r, a) \/ ResolveFails(r, a) \/ StartRuntime(r, a) \/ Launched(r, a)
         \/ LaunchFails(r, a) \/ Cleanup(r, a) \/ StopLost(r, a) \/ MachineDies(r, a)
  PROVE  NoOrphanWithoutFault'
<1>1. /\ runs' = runs /\ faults' = faults
      /\ worker \in [Runs -> [Attempts -> WorkerState]]
      /\ machine \in [Runs -> [Attempts -> MachineState]]
  BY DEF Allocate, ResolveFails, StartRuntime, Launched, LaunchFails, Cleanup,
         StopLost, MachineDies, IInv, TypeOK
<1>2. \A q \in Runs, b \in Attempts : q # r \/ b # a =>
        worker'[q][b] = worker[q][b] /\ machine'[q][b] = machine[q][b]
  <2>1. worker' = worker \/ \E state : GoTo(r, a, state)
    BY DEF Allocate, ResolveFails, StartRuntime, Launched, LaunchFails, Cleanup,
           StopLost, MachineDies
  <2>2. machine' = machine \/ \E state : Becomes(r, a, state)
    BY DEF Allocate, ResolveFails, StartRuntime, Launched, LaunchFails, Cleanup,
           StopLost, MachineDies
  <2>3. ASSUME NEW q \in Runs, NEW b \in Attempts, q # r \/ b # a
        PROVE  worker'[q][b] = worker[q][b]
    <3>1. ASSUME NEW state, GoTo(r, a, state) PROVE worker'[q][b] = worker[q][b]
      BY <1>1, <2>3, <3>1 DEF GoTo
    <3>2. QED
      BY <2>1, <3>1
  <2>4. ASSUME NEW q \in Runs, NEW b \in Attempts, q # r \/ b # a
        PROVE  machine'[q][b] = machine[q][b]
    <3>1. ASSUME NEW state, Becomes(r, a, state) PROVE machine'[q][b] = machine[q][b]
      BY <1>1, <2>4, <3>1 DEF Becomes
    <3>2. QED
      BY <2>2, <3>1
  <2>5. QED
    BY <2>3, <2>4
<1>3. worker[r][a] \in Keeping => worker'[r][a] \in Keeping \/ machine'[r][a] \notin Live
  BY <1>1
     DEF Allocate, ResolveFails, StartRuntime, Launched, LaunchFails, Cleanup,
         StopLost, MachineDies, GoTo, Becomes, Keeping, Live
<1>4. machine'[r][a] \in Live => machine[r][a] \in Live \/ worker'[r][a] \in Keeping
  BY <1>1
     DEF Allocate, ResolveFails, StartRuntime, Launched, LaunchFails, Cleanup,
         StopLost, MachineDies, GoTo, Becomes, Keeping, Live
<1>5. QED
  BY <1>1, <1>2, <1>3, <1>4, OrphanFrame

LEMMA StepKeepsMachines ==
  IInv /\ NoOrphanWithoutFault /\ [Next]_vars => NoOrphanWithoutFault'
<1> SUFFICES ASSUME IInv, NoOrphanWithoutFault, [Next]_vars PROVE NoOrphanWithoutFault'
  OBVIOUS
<1>0. TypeOK /\ faults \in Nat
  BY BoundsAssumption DEF IInv, TypeOK
<1>f. ASSUME faults' = faults + 1 PROVE NoOrphanWithoutFault'
  BY <1>0, <1>f DEF NoOrphanWithoutFault
<1>1. CASE UNCHANGED vars
  BY <1>1 DEF vars, NoOrphanWithoutFault
<1>2. ASSUME NEW r \in Runs,
             \/ CreateRun(r) \/ Claim(r) \/ Cancel(r)
             \/ LeaseDue(r) \/ LeaseExpires(r) \/ HeartbeatMissed(r)
             \/ SilenceGrows(r) \/ DeadlinePasses(r) \/ ReclaimClaim(r)
      PROVE  NoOrphanWithoutFault'
  BY <1>f, <1>2, KeeperSteps DEF HeartbeatMissed
<1>3. ASSUME NEW r \in Runs, NEW a \in Attempts,
             \/ WorkerStep(r, a) \/ CleanupLeaks(r, a) \/ WorkerDies(r, a)
             \/ Renew(r, a)
             \/ PostEvent(r, a) \/ PostStatus(r, a) \/ MachineDies(r, a)
      PROVE  NoOrphanWithoutFault'
  <2>1. CASE CleanupLeaks(r, a) \/ WorkerDies(r, a)
    BY <1>f, <2>1 DEF CleanupLeaks, WorkerDies
  <2>2. CASE Attach(r, a)
    \* The machine is recorded, or its worker goes on to remove it.
    <3>1. /\ worker'[r][a] = "cleanup" \/ runs'[r].sandbox = a
          /\ \A q \in Runs : q # r => runs'[q] = runs[q]
          /\ \A q \in Runs, b \in Attempts : q # r \/ b # a => worker'[q][b] = worker[q][b]
      <4>0. runs \in [Runs -> RunRow] /\ worker \in [Runs -> [Attempts -> WorkerState]]
        BY <1>0 DEF TypeOK
      <4>1. \/ GoTo(r, a, "install") /\ runs' = [runs EXCEPT ![r] = Attached(@, a)]
            \/ GoTo(r, a, "cleanup") /\ runs' = runs
        BY <2>2 DEF Attach
      <4>2. runs[r] \in RunRow => Attached(runs[r], a).sandbox = a
        BY DEF Attached, RunRow
      <4>3. \/ worker'[r][a] = "install" /\ runs'[r].sandbox = a
            \/ worker'[r][a] = "cleanup"
        BY <4>0, <4>1, <4>2 DEF GoTo
      <4>4. \A q \in Runs : q # r => runs'[q] = runs[q]
        BY <4>0, <4>1
      <4>5. \A q \in Runs, b \in Attempts : q # r \/ b # a => worker'[q][b] = worker[q][b]
        <5>1. \E state : GoTo(r, a, state)
          BY <4>1
        <5>2. QED
          BY <4>0, <5>1 DEF GoTo
      <4>6. QED
        BY <4>3, <4>4, <4>5
    <3>2. runs'[r].sandbox = runs[r].sandbox \/ runs[r].sandbox = NoSandbox
      BY <1>0, <2>2 DEF Attach, OwnsClaim
    <3>3. machine' = machine /\ faults' = faults
      BY <2>2 DEF Attach
    <3>4. QED
      BY <3>1, <3>2, <3>3, BoundsAssumption DEF NoOrphanWithoutFault
  <2>3. CASE PostStatus(r, a)
    <3>1. \A q \in Runs : runs'[q].sandbox = runs[q].sandbox
      BY <1>0, <2>3, RowStepsKeepSandbox
    <3>2. PICK state \in {"exited", "active"} : Becomes(r, a, state)
      <4>1. PICK delivered \in BOOLEAN :
              Becomes(r, a, IF delivered THEN "exited" ELSE "active")
        BY <2>3 DEF PostStatus
      <4>2. QED
        BY <4>1
    <3>3. \A q \in Runs, b \in Attempts :
            machine'[q][b] \in Live => machine[q][b] \in Live
      BY <1>0, <2>3, <3>2 DEF PostStatus, Becomes, TypeOK, Live
    <3>4. worker' = worker /\ faults' = faults
      BY <2>3 DEF PostStatus
    <3>5. QED
      BY <3>1, <3>3, <3>4, OrphanFrame
  <2>4. QED
    BY <1>3, <2>1, <2>2, <2>3, KeeperSteps, MachineKeeperSteps DEF WorkerStep
<1>4. ASSUME NEW c \in Reconcilers, NEW r \in Runs,
             \/ Pick(c, r) \/ FailRun(c, r) \/ StopSandbox(c, r)
             \/ JobAbandoned(c, r) \/ Stamp(c, r)
      PROVE  NoOrphanWithoutFault'
  <2>1. CASE Pick(c, r) \/ JobAbandoned(c, r)
    BY <2>1 DEF Pick, JobAbandoned, NoOrphanWithoutFault
  <2>2. CASE StopSandbox(c, r)
    <3>1. PICK b \in Attempts : Becomes(r, b, "gone")
      BY <2>2 DEF StopSandbox
    <3>2. \A q \in Runs, d \in Attempts :
            machine'[q][d] \in Live => machine[q][d] \in Live
      BY <1>0, <3>1 DEF Becomes, TypeOK, Live
    <3>3. QED
      BY <2>2, <3>2 DEF StopSandbox, NoOrphanWithoutFault
  <2>3. QED
    BY <1>4, <2>1, <2>2, KeeperSteps
<1>5. QED
  BY <1>1, <1>2, <1>3, <1>4 DEF Next, Idle

-----------------------------------------------------------------------------
(* The theorems. *)

\* A run's runtime is started at most once, its first terminal decision stays,
\* and it is reclaimed only after it has ended and its machine is down, with
\* any number of attempts, workers and reconcilers.
THEOREM Refinement == Spec => ImplementsPromise
<1>1. Init => Promise!Init
  BY InitSeen
<1>2. IInv /\ IInv' /\ [Next]_vars => [Promise!Next]_(Promise!promise)
  BY StepSeen
<1>3. Spec => []IInv
  BY Inductive
<1>4. QED
  BY <1>1, <1>2, <1>3, PTL DEF Spec, ImplementsPromise, Promise!Spec

\* As long as nobody has crashed, every machine that is up is named by its row
\* or in the hands of the worker that attaches or removes it (provisionRun and
\* the providers' failure paths).
THEOREM NoMachineLost == Spec => []NoOrphanWithoutFault
<1>1. Init => NoOrphanWithoutFault
  BY DEF Init, NoOrphanWithoutFault, Live
<1>2. IInv /\ NoOrphanWithoutFault /\ [Next]_vars => NoOrphanWithoutFault'
  BY StepKeepsMachines
<1>3. QED
  BY <1>1, <1>2, Inductive, PTL DEF Spec

\* A slow old worker neither fails nor requeues a newer attempt: an attempt ends
\* by its own worker's doing, or is requeued when its lease has run out
\* (failProvisioningAttempt, requeueRun).
THEOREM OwnWorkerEnds == Spec => AttemptsEndThemselves
<1>1. TypeOK /\ [Next]_vars =>
        [\A r \in Runs :
           LET row == runs[r]
               own == row.attempt \in Attempts
                      /\ worker[r][row.attempt] \in {"retry", "fail"}
                      /\ worker'[r][row.attempt] = "done"
           IN /\ (row.error = "none" /\ runs'[r].error = "provisioning") => own
              /\ (row.status = "provisioning" /\ runs'[r].status = "queued")
                   => own \/ row.lease = "expired"]_vars
  BY StepsAreRightful DEF Rightful, OwnEnd
<1>2. QED
  BY <1>1, TypeCorrect, PTL DEF Spec, AttemptsEndThemselves

\* An expired lease is never extended; only a claim, with a new attempt number,
\* starts another (renewProvisioningClaim).
THEOREM ExpiryStays == Spec => ExpiryIsFinal
<1>1. TypeOK /\ [Next]_vars =>
        [\A r \in Runs :
           (runs[r].lease = "expired" /\ runs'[r].lease \in {"fresh", "due"})
             => runs'[r].attempt > runs[r].attempt]_vars
  BY StepsAreRightful DEF Rightful
<1>2. QED
  BY <1>1, TypeCorrect, PTL DEF Spec, ExpiryIsFinal
===============================================================================
