---------------------------- MODULE SessionProofs ----------------------------
(***************************************************************************)
(* Proofs about SessionParking and SessionDeletion, for any number of      *)
(* turns, reconcilers and faults.                                          *)
(*                                                                         *)
(* Four inductive invariants, each relative to those before it:            *)
(*                                                                         *)
(*   - JobsInv and TurnsInv.  What a job can be about, and how the row,    *)
(*     the worker and the machine of a turn fit together.  Whatever fails, *)
(*     the turns take turns and machines are tracked.                      *)
(*   - RequestInv, of the request that deletes the session beside all      *)
(*     this.  It works from what it read before it had the session, and    *)
(*     goes on while turns are made and parked: RequestSees says how far   *)
(*     they can get away from its copies.  Once the rows are deleted,      *)
(*     NothingLeft holds for good.                                         *)
(*   - ParkingInv.  As long as no holder of the session is paused,         *)
(*     whoever works owns the session, so that one works at a time and     *)
(*     what it may rely on (Holds) stays: the checkpoint in use is never   *)
(*     the one a job erases.                                               *)
(*   - TrackedInv.  When reconcilers only crash and transactions only      *)
(*     fail, each checkpoint is the session's, is marked, or belongs to    *)
(*     the turn still to be parked, at every step of the job that parks    *)
(*     it (Carries).                                                       *)
(***************************************************************************)
EXTENDS SessionDeletion, WellFoundedInduction, TLAPS

(* The jobs of the reconcilers. *)

\* Where a job deletes a checkpoint: it looks, erases and unmarks.
Chores == {"check", "erase", "unmark"}

\* The jobs about a turn that has ended.
Repeatable == {"parking", "replacing", "finalizing"}

\* Where a job of each kind can be, and what it then is about.
JobShape(j) ==
  /\ j.kind = "idle" => j.pc = "idle"
  /\ j.kind = "finalizing" => j.pc \in {"picked", "finalized", "release"}
  /\ j.kind = "replacing" => j.pc \in {"picked", "release"} \cup Chores
  /\ j.kind = "expiring" => j.pc \in {"picked", "erase", "clear", "release"}
  /\ j.kind = "parking" => j.pc \notin {"idle", "clear"}
  /\ j.kind \in Repeatable => j.turn \in Turns
  /\ j.kind \notin {"idle", "parking"} => j.target \in Turns
  /\ j.kind \in {"parking", "replacing"} /\ j.pc \in Chores =>
       j.target \in Turns /\ j.then # "none"
  /\ j.kind = "replacing" /\ j.pc \in Chores => j.then = "release"

\* The types of everything but the jobs.
RowsTyped ==
  /\ session \in SessionRow
  /\ run \in [Turns -> RunRow]
  /\ worker \in [Turns -> WorkerState]
  /\ source \in [Turns -> {"none", "up", "down", "gone"}]
  /\ snapshot \in [Turns -> {"none", "whole"}]
  /\ faults \in 0 .. MaxFaults

\* The types, and that whoever parks, replaces or finalizes does so for a turn
\* that has ended.
JobsInv ==
  /\ TypeOK
  /\ \A c \in Reconcilers :
       /\ JobShape(job[c])
       /\ job[c].kind \in Repeatable => Ended(job[c].turn)

(* The turns. *)

\* What the row of a turn says, what its worker does and what machine it has fit
\* together.
TurnShape(t) ==
  /\ run[t].status \in {"absent", "queued"} =>
       worker[t] = "none" /\ ~run[t].attached
  /\ run[t].status = "running" => run[t].attached /\ worker[t] = "none"
  /\ worker[t] = "claimed" => ~run[t].attached
  /\ worker[t] \in {"attached", "lost", "stamp"} => run[t].attached
  /\ worker[t] \in {"lost", "stamp"} => Ended(t)
  /\ worker[t] = "stamp" => source[t] = "gone"
  /\ run[t].stopped => Ended(t)
  /\ source[t] # "none" => run[t].attached
  /\ run[t].finalize # None => run[t].finalize = t /\ run[t].stopped /\ run[t].attached

\* The turns are made in their order, and the session has an active one that
\* exists.
Queue ==
  /\ \A t, u \in Turns : u < t /\ run[t].status # "absent" => run[u].status # "absent"
  /\ session.active # None => run[session.active].status # "absent"
  /\ TurnsInOrder

\* The machine that runs is the active turn's; one that was stopped is gone.
Machines ==
  /\ OnlyActiveTurnRuns
  /\ SourceTracked
  /\ \A t \in Turns : session.active = t /\ run[t].stopped => source[t] \in {"none", "gone"}

\* What a job remembers of the machine it suspended or removed still holds.
JobsKnow ==
  \A c \in Reconcilers :
    /\ job[c].kind \in {"parking", "finalizing"} => run[job[c].turn].attached
    /\ job[c].pc = "commit" => source[job[c].turn] \in {"down", "gone"}
    /\ job[c].pc \in {"fallback", "finalized"} => source[job[c].turn] = "gone"

Shapes == \A t \in Turns : TurnShape(t)

TurnsInv == Shapes /\ Queue /\ Machines /\ JobsKnow

(* The deletion. *)

\* Where the request has looked at the turns and found them ended.
Claiming == {"claim", "clean", "finalized", "erased", "stop", "workspace", "delete"}

\* What the request to delete a session knows. It works from what it read before
\* it claimed the session, while turns are made, end and are parked: so that the
\* deletion finds what is left to remove, the copies it has must be no older
\* than the turns it saw, its list must hold every machine that is still to be
\* finalized, and what it passed must be gone.
RequestInv ==
  /\ request.latest \in Turns /\ run[request.latest].status # "absent"
  /\ request.active <= request.latest
  /\ \/ session.active \in {None, request.active}
     \/ session.active > (IF request.active = None THEN request.latest ELSE request.active)
  /\ request.pc \in Claiming \cup {"turns"} /\ request.active # None =>
       /\ Ended(request.active)
       /\ run[request.active].attached /\ ~run[request.active].stopped => request.machine
  /\ request.machine => request.active # None /\ run[request.active].attached
  /\ request.pc \in Claiming => \A t \in 1 .. request.latest : Ended(t)
  /\ request.pc \in Claiming /\ SameTurns =>
       \A t \in Turns : source[t] \in {"up", "down"} /\ run[t].finalize = t =>
         <<t, t>> \in request.sources
  /\ request.pc \in {"stop", "workspace", "delete"} => request.sources = {}
  /\ request.pc \in {"finalized", "erased"} => request.at \in Turns
  /\ \A p \in request.sources : run[p[1]].attached
  /\ request.pc = "finalized" => source[request.at] = "gone"
  /\ request.pc \in {"workspace", "delete"} /\ request.machine =>
       source[request.active] = "gone"
  /\ SameTurns => session.workspace \in {None, request.workspace}
  /\ request.pc = "delete" /\ SameTurns /\ request.workspace # None =>
       snapshot[request.workspace] = "none"

\* After the deletion there is nothing that could come back.
NothingLeft ==
  /\ run = [t \in Turns |-> GoneRun]
  /\ session.active = None
  /\ \A t \in Turns : source[t] \in {"none", "gone"}
  /\ request = NoRequest

\* The inductive invariant of SessionDeletion.
DeletionInv ==
  /\ DeletionTypeOK /\ JobsInv
  /\ IF deleted THEN NothingLeft
     ELSE TurnsInv /\ (request.pc # "idle" => RequestInv)

-----------------------------------------------------------------------------
(* The checkpoints. *)

\* Reconciler c works under the claim it was given.
Working(c) == job[c].kind \in Work /\ job[c].pc \notin {"idle", "picked"}

\* As long as heartbeats arrive, whoever works owns the session.
HoldersOwn == \A c \in Reconcilers : Working(c) => Owns(c) /\ session.beat = "fresh"

\* Turn t will not be the active one again.
Past(t) == run[t].status # "absent" /\ (session.active = None \/ session.active > t)

\* The turn that is being parked still has the session.
Uncommitting(j) ==
  /\ j.kind = "parking"
  /\ \/ j.pc \in {"prepare", "recheck", "read", "suspend", "commit", "uncommitted",
                  "verify", "stop", "fallback"}
     \/ j.pc \in Chores /\ j.then \in {"recheck", "verify"}

Holds(j) ==
  /\ j.kind = "parking" => /\ j.pc \notin {"unowned", "discard"}
                           /\ j.pc \in Chores => j.then \in {"recheck", "verify", "finalize"}
  /\ Uncommitting(j) => session.active = j.turn
  /\ j.pc \in {"read", "suspend", "commit", "uncommitted"} => run[j.turn].replaced = None
  /\ j.pc = "commit" => snapshot[j.turn] = "whole"
  /\ j.kind \in {"parking", "replacing"} /\ j.pc \in {"erase", "unmark"} =>
       session.workspace # j.target
  /\ j.kind = "expiring" => /\ Past(j.target)
                            /\ session.workspace = j.target => session.expiry = "past"
  /\ j.pc \in {"unmark", "clear"} => snapshot[j.target] = "none"

ParkingInv ==
  /\ HoldersOwn
  /\ session.workspace # None => Past(session.workspace)
  /\ \A c \in Reconcilers : Holds(job[c])
  /\ UnexpiredCheckpointExists

\* What a job that parks a turn carries along.
Carries(j) ==
  /\ j.kind = "finalizing" => run[j.turn].stopped
  /\ j.pc \in {"finalize", "finalized"} => run[j.turn].stopped
  /\ j.kind = "parking" /\ j.pc \in Chores /\ j.then = "finalize" => run[j.turn].stopped
  /\ j.pc \in {"suspend", "commit", "uncommitted", "verify", "stop", "fallback"} =>
       j.previous = session.workspace
  /\ j.kind = "parking" /\ j.pc \in Chores /\ j.then = "verify" =>
       /\ j.previous = session.workspace /\ j.target = j.turn
       /\ j.pc \in {"check", "erase"} => run[j.turn].replaced = j.turn
  /\ j.pc \notin {"stop", "fallback", "release"} => ~j.pending
  /\ j.pc \in {"stop", "fallback"} => (j.pending <=> run[j.turn].replaced # None)
  /\ j.pc \in {"verify", "stop", "fallback"} =>
       snapshot[j.turn] = "none" \/ run[j.turn].replaced = j.turn

\* Every checkpoint is in the books, and whoever parks a turn may still suspend it.
RowTracked(t) ==
  /\ worker[t] \in {"none", "claimed", "attached"}
  /\ worker[t] = "attached" => run[t].status = "provisioning"
  /\ session.active = t => ~run[t].stopped
  /\ snapshot[t] = "whole" =>
       /\ Ended(t) /\ run[t].attached
       /\ \/ session.workspace = t
          \/ \E u \in Turns : run[u].replaced = t
          \/ session.active = t
  /\ session.active = t /\ snapshot[t] = "whole" /\ run[t].replaced # t => source[t] = "down"

TrackedInv ==
  /\ \A t \in Turns : RowTracked(t)
  /\ \A c \in Reconcilers : Carries(job[c])

-----------------------------------------------------------------------------
(* The session and its reconcilers. *)

\* The order of the turns is well-founded, so that a set of them has a first.
NatLess == {p \in Nat \X Nat : p[1] < p[2]}

\* A set of numbers that is not empty has a least one.
LEMMA LeastOf ==
  ASSUME NEW S \in SUBSET Nat, S # {}
  PROVE  \E u \in S : \A w \in S : u <= w
<1>1. IsWellFoundedOn(NatLess, Nat)
  BY NatLessThanWellFounded DEF OpToRel, NatLess
<1>2. PICK x \in S : \A y \in S : ~ (<<y, x>> \in NatLess)
  BY <1>1, WFMin
<1>3. ASSUME NEW w \in S PROVE x <= w
  <2>1. w \in Nat /\ x \in Nat
    OBVIOUS
  <2>2. ~ (w < x)
    BY <1>2, <2>1 DEF NatLess
  <2>. QED BY <2>1, <2>2
<1>. QED BY <1>3

\* A step of one job keeps JobsInv if the job's new state fits.
LEMMA JobsMove ==
  ASSUME JobsInv, NEW c \in Reconcilers, NEW j \in JobState,
         job' = [job EXCEPT ![c] = j],
         JobShape(j), j.kind \in Repeatable => run'[j.turn].status = "ended",
         RowsTyped',
         \A t \in Turns : run[t].status = "ended" => run'[t].status = "ended"
  PROVE  JobsInv'
<1>1. job' \in [Reconcilers -> JobState] /\ \A d \in Reconcilers : job'[d] = IF d = c THEN j ELSE job[d]
  BY DEF JobsInv, TypeOK
<1>2. TypeOK'
  BY <1>1 DEF RowsTyped, TypeOK
<1>3. ASSUME NEW d \in Reconcilers
      PROVE  JobShape(job'[d]) /\ (job'[d].kind \in Repeatable => run'[job'[d].turn].status = "ended")
  <2>1. CASE d = c
    <3>1. job'[d] = j
      BY <1>1, <2>1
    <3>. QED BY <3>1
  <2>2. CASE d # c
    <3>1. job'[d] = job[d] /\ JobShape(job[d]) /\ (job[d].kind \in Repeatable => run[job[d].turn].status = "ended")
      BY <1>1, <2>2 DEF JobsInv, Ended
    <3>2. job[d].kind \in Repeatable => job[d].turn \in Turns
      BY <3>1 DEF JobShape
    <3>. QED BY <3>1, <3>2
  <2>. QED BY <2>1, <2>2
<1>. QED BY <1>2, <1>3 DEF JobsInv, JobShape, Ended

\* A step of no job keeps JobsInv if no turn comes back to life.
LEMMA JobsKept ==
  ASSUME JobsInv, job' = job, RowsTyped',
         \A t \in Turns : run[t].status = "ended" => run'[t].status = "ended"
  PROVE  JobsInv'
<1>1. TypeOK'
  BY DEF JobsInv, TypeOK, RowsTyped
<1>2. ASSUME NEW d \in Reconcilers
      PROVE  JobShape(job[d]) /\ (job[d].kind \in Repeatable => run'[job[d].turn].status = "ended")
  BY <1>2 DEF JobsInv, JobShape, Ended
<1>. QED BY <1>1, <1>2 DEF JobsInv, JobShape, Ended

\* A turn that has ended stays ended.
EndedStays == \A t \in Turns : run[t].status = "ended" => run'[t].status = "ended"

\* Two fields of a row may be set.
LEMMA RowsOfRuns ==
  ASSUME NEW f \in [Turns -> RunRow], NEW t \in Turns
  PROVE  /\ [f EXCEPT ![t].stopped = TRUE] \in [Turns -> RunRow]
         /\ [f EXCEPT ![t].attached = TRUE] \in [Turns -> RunRow]
<1>1. f[t] \in RunRow
  OBVIOUS
<1>2. [f[t] EXCEPT !.stopped = TRUE] \in RunRow
  BY <1>1 DEF RunRow
<1>3. [f[t] EXCEPT !.attached = TRUE] \in RunRow
  BY <1>1 DEF RunRow
<1>. QED BY <1>2, <1>3

\* The steps of a turn, its worker and its machine.
TurnMoves(t) ==
  \/ CreateTurn(t) \/ EndTurn(t) \/ ClaimTurn(t) \/ WorkspaceGone(t)
  \/ WorkerStep(t) \/ WorkerDies(t) \/ LeaseExpires(t) \/ MachineDies(t)

\* The steps of a turn keep the types.
LEMMA TurnRows ==
  ASSUME JobsInv, NEW t \in Turns, TurnMoves(t)
  PROVE  RowsTyped' /\ EndedStays /\ job' = job
<1>o. session \in SessionRow /\ snapshot \in [Turns -> {"none", "whole"}] /\ faults \in 0 .. MaxFaults
  BY DEF JobsInv, TypeOK
<1>. USE DEF JobsInv, TypeOK, RowsTyped, EndedStays, RunRow, SessionRow, Status, Operation, Work,
             WorkerState, Fault, InFlight, Released
<1>1. CASE CreateTurn(t)
  <2>1. run' \in [Turns -> RunRow] /\ EndedStays
    BY <1>1 DEF CreateTurn, Latest
  <2>2. session' \in SessionRow
    BY <1>1 DEF CreateTurn
  <2>. QED BY <1>1, <2>1, <2>2 DEF CreateTurn
<1>2. CASE EndTurn(t)
  BY <1>2, FaultsAssumption DEF EndTurn
<1>3. CASE ClaimTurn(t)
  BY <1>3 DEF ClaimTurn
<1>4. CASE WorkspaceGone(t)
  BY <1>4 DEF WorkspaceGone
<1>5. CASE StartMachine(t)
  <2>1. /\ run \in [Turns -> RunRow]
        /\ run' = run \/ run' = [run EXCEPT ![t].attached = TRUE]
    BY <1>5 DEF StartMachine
  <2>. DEFINE started == [run EXCEPT ![t].attached = TRUE]
  <2>7. started \in [Turns -> RunRow]
    BY <2>1, RowsOfRuns
  <2>4. run' \in [Turns -> RunRow]
    <3>. HIDE DEF RunRow, JobsInv, TypeOK, started
    <3>1. run' = run \/ run' = started
      BY <2>1 DEF started
    <3>. QED BY <3>1, <2>1, <2>7
  <2>5. EndedStays
    BY <2>1
  <2>2. source' \in [Turns -> {"none", "up", "down", "gone"}]
    BY <1>5 DEF StartMachine
  <2>3. worker' \in [Turns -> WorkerState]
    BY <1>5 DEF StartMachine
  <2>6. UNCHANGED <<session, snapshot, job, faults>>
    BY <1>5 DEF StartMachine
  <2>. HIDE DEF RunRow, SessionRow, EndedStays, WorkerState, JobsInv, TypeOK
  <2>. QED BY <2>2, <2>3, <2>4, <2>5, <2>6, <1>o
<1>6. CASE ProvisionFails(t)
  <2>1. run' \in [Turns -> RunRow] /\ EndedStays
    BY <1>6 DEF ProvisionFails
  <2>. QED BY <1>6, <2>1 DEF ProvisionFails
<1>7. CASE LaunchFails(t)
  BY <1>7 DEF LaunchFails
<1>8. CASE MarkRunning(t)
  BY <1>8 DEF MarkRunning
<1>9. CASE StopLost(t)
  BY <1>9 DEF StopLost
<1>12. CASE StampLost(t)
  <2>1. run \in [Turns -> RunRow] /\ run' = [run EXCEPT ![t].stopped = TRUE]
    BY <1>12 DEF StampLost
  <2>2. run' \in [Turns -> RunRow]
    <3>. HIDE DEF RunRow, JobsInv, TypeOK
    <3>. QED BY <2>1, RowsOfRuns
  <2>3. EndedStays
    BY <2>1
  <2>. QED BY <1>12, <2>2, <2>3 DEF StampLost
<1>10. CASE WorkerDies(t)
  BY <1>10, FaultsAssumption DEF WorkerDies
<1>11. CASE LeaseExpires(t) \/ MachineDies(t)
  BY <1>11 DEF LeaseExpires, MachineDies
<1>. QED BY <1>1, <1>2, <1>3, <1>4, <1>5, <1>6, <1>7, <1>8, <1>9, <1>10, <1>11,
            <1>12 DEF TurnMoves, WorkerStep

\* The steps of the claim on the session keep the types.
LEMMA ClaimRows ==
  ASSUME JobsInv, HolderGone \/ HolderPaused \/ ExpiryPasses \/ Idle
                  \/ \E c \in Reconcilers : ReleaseStale(c) \/ BeatResumes(c)
  PROVE  RowsTyped' /\ EndedStays /\ job' = job
<1>1. UNCHANGED <<run, worker, source, snapshot, job>>
  BY DEF HolderGone, HolderPaused, ExpiryPasses, Idle, vars, ReleaseStale, BeatResumes
<1>2. faults' \in 0 .. MaxFaults
  BY FaultsAssumption DEF JobsInv, TypeOK, HolderGone, HolderPaused, ExpiryPasses, Idle, vars,
     ReleaseStale, BeatResumes, Fault
<1>3. session' \in SessionRow
  <2>1. session \in SessionRow
    BY DEF JobsInv, TypeOK
  <2>2. \/ session' \in {session, Released(session), [session EXCEPT !.expiry = "past"]}
        \/ \E beat \in {"stale", "fresh"} : session' = [session EXCEPT !.beat = beat]
    BY DEF HolderGone, HolderPaused, ExpiryPasses, Idle, vars, ReleaseStale, BeatResumes
  <2>. QED BY <2>1, <2>2 DEF Released, SessionRow, Operation
<1>. QED BY <1>1, <1>2, <1>3 DEF JobsInv, TypeOK, RowsTyped, EndedStays

\* A reconciler picks up work.
Picks(c) == PickExpired(c) \/ \E t \in Turns :
  PickParking(c, t) \/ PickReplaced(c, t) \/ PickFinalize(c, t)

\* The steps of a job keep its shape.
LEMMA JobSteps ==
  ASSUME JobsInv, NEW c \in Reconcilers,
         JobStep(c) \/ CommitFails(c) \/ Crash(c) \/ Picks(c) \/ MarkNothing(c)
  PROVE  /\ job' = [job EXCEPT ![c] = job'[c]]
         /\ job'[c] \in JobState /\ JobShape(job'[c])
         /\ job'[c].kind \in Repeatable => run[job'[c].turn].status = "ended"
<1>. DEFINE j == job'[c]
            k == job[c]
            Goal == /\ job' = [job EXCEPT ![c] = j]
                    /\ j \in JobState /\ JobShape(j)
                    /\ j.kind \in Repeatable => run[j.turn].status = "ended"
<1>a. /\ job \in [Reconcilers -> JobState] /\ k \in JobState
      /\ session \in SessionRow /\ run \in [Turns -> RunRow]
      /\ JobShape(k) /\ (k.kind \in Repeatable => run[k.turn].status = "ended")
  BY DEF JobsInv, TypeOK, Ended
<1>. USE DEF At, Go, JobState, JobShape, Repeatable, Chores, Work
<1>1. CASE ClaimSession(c)
  <2>1. \/ job' = [job EXCEPT ![c] = IdleJob]
        \/ k.kind = "parking" /\ k.pc = "picked" /\ job' = [job EXCEPT ![c].pc = "prepare", ![c].then = @]
        \/ k.kind = "replacing" /\ k.pc = "picked" /\ job' = [job EXCEPT ![c].pc = "check", ![c].then = "release"]
        \/ k.kind = "expiring" /\ k.pc = "picked" /\ job' = [job EXCEPT ![c].pc = "erase", ![c].then = @]
    BY <1>a, <1>1 DEF ClaimSession
  <2>2. CASE job' = [job EXCEPT ![c] = IdleJob]
    BY <1>a, <2>2 DEF IdleJob, None
  <2>3. CASE k.kind = "parking" /\ k.pc = "picked" /\ job' = [job EXCEPT ![c].pc = "prepare", ![c].then = @]
    BY <1>a, <2>3
  <2>4. CASE k.kind = "replacing" /\ k.pc = "picked" /\ job' = [job EXCEPT ![c].pc = "check", ![c].then = "release"]
    BY <1>a, <2>4
  <2>5. CASE k.kind = "expiring" /\ k.pc = "picked" /\ job' = [job EXCEPT ![c].pc = "erase", ![c].then = @]
    BY <1>a, <2>5
  <2>. QED BY <2>1, <2>2, <2>3, <2>4, <2>5
<1>2. CASE Release(c) \/ Crash(c)
  <2>1. job' = [job EXCEPT ![c] = IdleJob]
    BY <1>2 DEF Release, Crash
  <2>. QED BY <1>a, <2>1 DEF IdleJob, None
<1>3. CASE Check(c)
  <2>1. /\ k.kind \in {"parking", "replacing"} /\ k.target \in Turns
        /\ k.then \in {"recheck", "verify", "finalize", "release"}
        /\ k.kind = "replacing" => k.then = "release"
    BY <1>a, <1>3 DEF Check
  <2>2. \E pc \in {"erase", k.then} : job' = [job EXCEPT ![c].pc = pc]
    BY <1>3 DEF Check
  <2>. QED BY <1>a, <2>1, <2>2
<1>4. CASE Erase(c) \/ EraseFails(c)
  <2>1. CASE k.kind = "expiring"
    BY <1>a, <1>4, <2>1 DEF Erase, EraseFails
  <2>2. CASE k.kind # "expiring"
    <3>1. /\ k.kind \in {"parking", "replacing"} /\ k.target \in Turns
          /\ k.then \in {"recheck", "verify", "finalize", "release"}
          /\ k.kind = "replacing" => k.then = "release"
      BY <1>a, <1>4, <2>2 DEF Erase, EraseFails
    <3>2. \E pc \in {"unmark", k.then} : job' = [job EXCEPT ![c].pc = pc]
      BY <1>4, <2>2 DEF Erase, EraseFails
    <3>. QED BY <1>a, <3>1, <3>2
  <2>. QED BY <2>1, <2>2
<1>5. CASE Unmark(c)
  <2>1. /\ k.kind \in {"parking", "replacing"} /\ k.target \in Turns
        /\ k.then \in {"recheck", "verify", "finalize", "release"}
        /\ k.kind = "replacing" => k.then = "release"
    BY <1>a, <1>5 DEF Unmark
  <2>2. job' = [job EXCEPT ![c].pc = k.then]
    BY <1>5 DEF Unmark
  <2>. QED BY <1>a, <2>1, <2>2
<1>6. CASE Clear(c)
  BY <1>a, <1>6 DEF Clear
<1>7. CASE Prepare(c)
  BY <1>a, <1>7 DEF Prepare, RunRow, None
<1>8. CASE Recheck(c)
  BY <1>a, <1>8 DEF Recheck
<1>9. CASE ReadPrevious(c)
  BY <1>a, <1>9 DEF ReadPrevious, SessionRow
<1>10. CASE Suspend(c) \/ SuspendFails(c)
  BY <1>a, <1>10 DEF Suspend, SuspendFails
<1>11. CASE Commit(c)
  <2>1. k.kind = "parking"
    BY <1>a, <1>11 DEF Commit
  <2>2. CASE /\ Replaces(c)
             /\ job' = [job EXCEPT ![c] = [@ EXCEPT !.pc = "check", !.then = "finalize",
                                                   !.target = job[c].previous]]
    BY <1>a, <2>1, <2>2 DEF Replaces, None
  <2>3. CASE \E pc \in {"finalize", "uncommitted", "unowned"} : job' = [job EXCEPT ![c].pc = pc]
    BY <1>a, <2>1, <2>3
  <2>4. CASE job' = [job EXCEPT ![c] = [@ EXCEPT !.pc = "finalize"]]
    BY <1>a, <2>1, <2>4
  <2>. QED BY <1>11, <2>2, <2>3, <2>4 DEF Commit
<1>12. CASE CommitFails(c)
  BY <1>a, <1>12 DEF CommitFails
<1>13. CASE Unowned(c) \/ Uncommitted(c)
  BY <1>a, <1>13 DEF Unowned, Uncommitted, DeleteOwn
<1>14. CASE Discard(c) \/ StopSource(c) \/ Fallback(c)
  BY <1>a, <1>14 DEF Discard, StopSource, Fallback
<1>15. CASE Verify(c)
  BY <1>a, <1>15 DEF Verify
<1>16. CASE Finalize(c)
  BY <1>a, <1>16 DEF Finalize
<1>17. CASE MarkFinalized(c)
  BY <1>a, <1>17 DEF MarkFinalized
<1>18. CASE Picks(c)
  <2>1. /\ c \in Reconcilers
        /\ \/ \E t \in Turns : Ended(t) /\ Pick(c, "parking", t, None)
           \/ \E t \in Turns : Ended(t) /\ run[t].replaced # None
                             /\ Pick(c, "replacing", t, run[t].replaced)
           \/ \E t \in Turns : Ended(t) /\ run[t].finalize # None
                             /\ Pick(c, "finalizing", t, run[t].finalize)
           \/ session.workspace # None /\ Pick(c, "expiring", None, session.workspace)
    BY <1>18 DEF Picks, PickExpired, PickParking, PickReplaced, PickFinalize
  <2>6. ASSUME NEW kind \in Repeatable, NEW t \in Turns, NEW target \in {None} \cup Turns,
               kind # "parking" => target \in Turns, Ended(t), Pick(c, kind, t, target)
        PROVE  Goal
    <3>. DEFINE p == [IdleJob EXCEPT !.kind = kind, !.pc = "picked", !.turn = t, !.target = target]
    <3>1. job' = [job EXCEPT ![c] = p]
      BY <2>6 DEF Pick
    <3>2. p \in JobState
      BY <2>6 DEF IdleJob, None
    <3>3. p.kind = kind /\ p.pc = "picked" /\ p.turn = t /\ p.target = target
      BY DEF IdleJob
    <3>. HIDE DEF p
    <3>4. JobShape(p)
      BY <3>3, <2>6
    <3>5. run[p.turn].status = "ended"
      BY <3>3, <2>6 DEF Ended
    <3>6. j = p
      BY <1>a, <3>1
    <3>. QED BY <3>1, <3>2, <3>4, <3>5, <3>6
  <2>2. CASE \E t \in Turns : Ended(t) /\ Pick(c, "parking", t, None)
    BY <2>2, <2>6
  <2>3. CASE \E t \in Turns : Ended(t) /\ run[t].replaced # None
                           /\ Pick(c, "replacing", t, run[t].replaced)
    <3>1. PICK t \in Turns : Ended(t) /\ run[t].replaced # None
                           /\ Pick(c, "replacing", t, run[t].replaced)
      BY <2>3
    <3>2. run[t].replaced \in Turns
      BY <1>a, <3>1 DEF RunRow
    <3>. QED BY <2>6, <3>1, <3>2
  <2>4. CASE \E t \in Turns : Ended(t) /\ run[t].finalize # None
                           /\ Pick(c, "finalizing", t, run[t].finalize)
    <3>1. PICK t \in Turns : Ended(t) /\ run[t].finalize # None
                           /\ Pick(c, "finalizing", t, run[t].finalize)
      BY <2>4
    <3>2. run[t].finalize \in Turns
      BY <1>a, <3>1 DEF RunRow
    <3>. QED BY <2>6, <3>1, <3>2
  <2>5. CASE session.workspace # None /\ Pick(c, "expiring", None, session.workspace)
    BY <1>a, <2>5 DEF Pick, IdleJob, None, SessionRow
  <2>. QED BY <2>1, <2>2, <2>3, <2>4, <2>5
<1>19. CASE MarkNothing(c)
  BY <1>a, <1>19 DEF MarkNothing
<1>. HIDE DEF At, Go, JobState, JobShape, Repeatable, Chores, Work
<1>. QED BY <1>1, <1>2, <1>3, <1>4, <1>5, <1>6, <1>7, <1>8, <1>9, <1>10, <1>11, <1>12, <1>13,
            <1>14, <1>15, <1>16, <1>17, <1>18, <1>19 DEF JobStep

\* The turn to promote is the first that is queued after t.
LEMMA FollowingInQueue ==
  ASSUME run \in [Turns -> RunRow], NEW t \in Turns
  PROVE  LET u == Following(t) IN
         /\ u \in {None} \cup Turns
         /\ u # None => u > t /\ run[u].status = "queued"
         /\ \A w \in Turns : w > t /\ run[w].status = "queued" => u # None /\ u <= w
<1>. DEFINE queued == {u \in Turns : u > t /\ run[u].status = "queued"}
<1>1. queued \in SUBSET Nat /\ None \notin Turns
  BY TurnsAssumption DEF Turns, None
<1>2. CASE queued = {}
  BY <1>2 DEF Following
<1>3. CASE queued # {}
  <2>1. \E u \in queued : \A w \in queued : u <= w
    BY <1>1, <1>3, LeastOf
  <2>2. Following(t) = CHOOSE u \in queued : \A w \in queued : u <= w
    BY <1>3 DEF Following
  <2>3. Following(t) \in queued /\ \A w \in queued : Following(t) <= w
    BY <2>1, <2>2
  <2>. QED BY <2>3, <1>1
<1>. QED BY <1>2, <1>3

\* What parking writes has the types of the rows, and ends or starts no turn.
LEMMA ParkedTyped ==
  ASSUME JobsInv, NEW t \in Turns, Ended(t), NEW workspace \in {"keep", "cold", "made"},
         NEW replaced \in {"keep", "clear", "previous"}
  PROVE  /\ ParkedSession(t, workspace) \in SessionRow
         /\ ParkedRun(t, workspace, replaced) \in [Turns -> RunRow]
         /\ \A u \in Turns : ParkedRun(t, workspace, replaced)[u].status = run[u].status
<1>1. session \in SessionRow /\ run \in [Turns -> RunRow] /\ run[t] \in RunRow
  BY DEF JobsInv, TypeOK
<1>2. Following(t) \in {None} \cup Turns
  BY <1>1, FollowingInQueue
<1>3. ParkedSession(t, workspace) \in SessionRow
  BY <1>1, <1>2 DEF ParkedSession, SessionRow
<1>. DEFINE r == [run[t] EXCEPT
       !.stopped = TRUE,
       !.finalize = IF workspace = "keep" THEN @ ELSE IF workspace = "cold" THEN None ELSE t,
       !.replaced = IF replaced = "keep" THEN @
                    ELSE IF replaced = "clear" THEN None ELSE session.workspace]
<1>4. session.workspace \in {None} \cup Turns
  BY <1>1 DEF SessionRow
<1>5. r \in RunRow /\ r.status = run[t].status
  BY <1>1, <1>4 DEF RunRow
<1>6. ParkedRun(t, workspace, replaced) = IF run[t].stopped THEN run ELSE [run EXCEPT ![t] = r]
  BY <1>1 DEF ParkedRun
<1>. HIDE DEF r
<1>. QED BY <1>1, <1>3, <1>5, <1>6

\* The steps of a job keep the types.
LEMMA JobRows ==
  ASSUME JobsInv, NEW c \in Reconcilers,
         JobStep(c) \/ CommitFails(c) \/ Crash(c) \/ Picks(c)
  PROVE  RowsTyped' /\ EndedStays
<1>. DEFINE k == job[c]
<1>a. /\ RowsTyped /\ k \in JobState /\ (k.kind \in Repeatable => run[k.turn].status = "ended")
      /\ JobShape(k) /\ run \in [Turns -> RunRow] /\ session \in SessionRow
  BY DEF JobsInv, TypeOK, Ended, RowsTyped
<1>b. ASSUME run' = run, session' = session, worker' = worker,
             source' = source \/ \E s \in {"up", "down", "gone"} : source' = [source EXCEPT ![k.turn] = s],
             \/ snapshot' = snapshot
             \/ \E s \in {"none", "whole"}, t \in Turns \cup {k.turn, k.target} :
                  snapshot' = [snapshot EXCEPT ![t] = s],
             faults' = faults \/ \E kind \in AllFaults : Fault(kind)
      PROVE  RowsTyped' /\ EndedStays
  BY <1>a, <1>b, FaultsAssumption DEF RowsTyped, Fault, EndedStays
<1>1. CASE ClaimSession(c)
  <2>1. session' = session \/ (session' = Claimed(session, k.kind, c) /\ k.kind \in Work)
    BY <1>a, <1>1 DEF ClaimSession, JobShape, JobState, At
  <2>2. session' \in SessionRow
    BY <1>a, <2>1 DEF SessionRow, Claimed, Operation
  <2>. QED BY <1>a, <1>1, <2>2 DEF ClaimSession, RowsTyped, EndedStays
<1>2. CASE Release(c)
  BY <1>a, <1>2 DEF Release, Released, RowsTyped, EndedStays, SessionRow, Operation
<1>3. CASE Check(c) \/ EraseFails(c) \/ Erase(c) \/ Recheck(c) \/ ReadPrevious(c) \/ Verify(c)
  BY <1>b, <1>3 DEF Check, EraseFails, Erase, Recheck, ReadPrevious, Verify
<1>4. CASE Prepare(c) \/ Suspend(c) \/ Discard(c) \/ StopSource(c) \/ Finalize(c)
  BY <1>b, <1>4 DEF Prepare, Suspend, Discard, StopSource, Finalize
<1>5. CASE SuspendFails(c) \/ CommitFails(c) \/ Crash(c)
  BY <1>b, <1>5 DEF SuspendFails, CommitFails, Crash, Fault, AllFaults
<1>6. CASE Picks(c)
  BY <1>b, <1>6 DEF Picks, PickExpired, PickParking, PickReplaced, PickFinalize, Pick
<1>7. CASE Unmark(c)
  <2>1. run' = run \/ run' = [run EXCEPT ![k.turn].replaced = None]
    BY <1>7 DEF Unmark
  <2>2. run' \in [Turns -> RunRow] /\ EndedStays
    BY <1>a, <2>1 DEF RunRow, EndedStays, None
  <2>. QED BY <1>a, <1>7, <2>2 DEF Unmark, RowsTyped
<1>8. CASE MarkFinalized(c)
  <2>1. run' = run \/ run' = [run EXCEPT ![k.turn].finalize = None]
    BY <1>8 DEF MarkFinalized
  <2>2. run' \in [Turns -> RunRow] /\ EndedStays
    BY <1>a, <2>1 DEF RunRow, EndedStays, None
  <2>. QED BY <1>a, <1>8, <2>2 DEF MarkFinalized, RowsTyped
<1>9. CASE Unowned(c) \/ Uncommitted(c)
  <2>1. run' = run \/ (k.turn \in Turns /\ run' = [run EXCEPT ![k.turn].replaced = k.turn])
    BY <1>a, <1>9 DEF Unowned, Uncommitted, MarkReplaced, JobShape, At, Repeatable
  <2>2. run' \in [Turns -> RunRow] /\ EndedStays
    BY <1>a, <2>1 DEF RunRow, EndedStays
  <2>. QED BY <1>a, <1>9, <2>2 DEF Unowned, Uncommitted, RowsTyped
<1>10. CASE Clear(c)
  BY <1>a, <1>10 DEF Clear, RowsTyped, EndedStays, SessionRow, None
<1>11. CASE Commit(c)
  <2>5. k.kind = "parking"
    BY <1>a, <1>11 DEF Commit, At, JobShape, Chores, JobState, Work
  <2>1. k.turn \in Turns /\ Ended(k.turn)
    BY <1>a, <2>5 DEF JobShape, Repeatable, Ended
  <2>2. \/ session' = session /\ run' = run
        \/ /\ session' = ParkedSession(k.turn, "made")
           /\ \E replaced \in {"previous", "clear"} : run' = ParkedRun(k.turn, "made", replaced)
    BY <1>11 DEF Commit
  <2>3. session' \in SessionRow /\ run' \in [Turns -> RunRow] /\ EndedStays
    BY <1>a, <2>1, <2>2, ParkedTyped DEF EndedStays
  <2>4. faults' \in 0 .. MaxFaults
    BY <1>a, <1>11, FaultsAssumption DEF Commit, RowsTyped, Fault
  <2>. QED BY <1>a, <1>11, <2>3, <2>4 DEF Commit, RowsTyped
<1>12. CASE Fallback(c)
  <2>5. k.kind = "parking"
    BY <1>a, <1>12 DEF Fallback, At, JobShape, Chores, JobState, Work
  <2>1. k.turn \in Turns /\ Ended(k.turn)
    BY <1>a, <2>5 DEF JobShape, Repeatable, Ended
  <2>2. \/ session' = session /\ run' = run
        \/ \E workspace \in {"cold", "keep"}, replaced \in {"keep", "clear"} :
             /\ session' = ParkedSession(k.turn, workspace)
             /\ run' = ParkedRun(k.turn, workspace, replaced)
    BY <1>12 DEF Fallback
  <2>3. session' \in SessionRow /\ run' \in [Turns -> RunRow] /\ EndedStays
    BY <1>a, <2>1, <2>2, ParkedTyped DEF EndedStays
  <2>. QED BY <1>a, <1>12, <2>3 DEF Fallback, RowsTyped
<1>. QED BY <1>1, <1>2, <1>3, <1>4, <1>5, <1>6, <1>7, <1>8, <1>9, <1>10, <1>11, <1>12 DEF JobStep

\* So does parking without a machine.
LEMMA ParkPlainRows ==
  ASSUME JobsInv, NEW c \in Reconcilers, NEW t \in Turns, ParkPlain(c, t)
  PROVE  RowsTyped' /\ EndedStays /\ job' = job
<1>1. Ended(t) /\ session' = ParkedSession(t, "keep") /\ run' = ParkedRun(t, "keep", "keep")
  BY DEF ParkPlain
<1>2. session' \in SessionRow /\ run' \in [Turns -> RunRow] /\ EndedStays
  BY <1>1, ParkedTyped DEF EndedStays
<1>. QED BY <1>2 DEF ParkPlain, JobsInv, TypeOK, RowsTyped

\* Whatever a session and its reconcilers do, the jobs keep their shape.
LEMMA JobsNext == JobsInv /\ [Next]_vars => JobsInv'
<1>. SUFFICES ASSUME JobsInv, [Next]_vars PROVE JobsInv'
  OBVIOUS
<1>1. ASSUME RowsTyped', EndedStays, job' = job PROVE JobsInv'
  BY <1>1, JobsKept DEF EndedStays
<1>2. CASE UNCHANGED vars
  BY <1>1, <1>2 DEF vars, JobsInv, TypeOK, RowsTyped, EndedStays
<1>3. CASE HolderGone \/ HolderPaused \/ ExpiryPasses \/ Idle
           \/ \E c \in Reconcilers : ReleaseStale(c) \/ BeatResumes(c)
  BY <1>1, <1>3, ClaimRows
<1>4. ASSUME NEW t \in Turns, TurnMoves(t)
      PROVE  JobsInv'
  BY <1>1, <1>4, TurnRows
<1>5. ASSUME NEW c \in Reconcilers, JobStep(c) \/ CommitFails(c) \/ Crash(c) \/ Picks(c)
      PROVE  JobsInv'
  <2>1. RowsTyped' /\ EndedStays
    BY <1>5, JobRows
  <2>2. /\ job' = [job EXCEPT ![c] = job'[c]]
        /\ job'[c] \in JobState /\ JobShape(job'[c])
        /\ job'[c].kind \in Repeatable => run[job'[c].turn].status = "ended"
    BY <1>5, JobSteps
  <2>3. job'[c].kind \in Repeatable => run'[job'[c].turn].status = "ended"
    BY <2>1, <2>2 DEF EndedStays, JobShape
  <2>. QED BY <2>1, <2>2, <2>3, JobsMove DEF EndedStays
<1>6. ASSUME NEW c \in Reconcilers, NEW t \in Turns, ParkPlain(c, t)
      PROVE  JobsInv'
  BY <1>1, <1>6, ParkPlainRows
<1>. QED BY <1>2, <1>3, <1>4, <1>5, <1>6 DEF Next, PickTurn, Picks, TurnMoves

\* The steps of a turn keep its row, worker and machine together.
LEMMA ShapesOfTurns ==
  ASSUME JobsInv, Shapes, NEW t \in Turns, TurnMoves(t)
  PROVE  Shapes'
<1>a. /\ run \in [Turns -> RunRow] /\ source \in [Turns -> {"none", "up", "down", "gone"}]
      /\ worker \in [Turns -> WorkerState]
  BY DEF JobsInv, TypeOK
<1>. SUFFICES ASSUME NEW u \in Turns PROVE TurnShape(u)'
  BY DEF Shapes
<1>b. TurnShape(u) /\ TurnShape(t)
  BY DEF Shapes
<1>. USE DEF TurnShape, InFlight, Ended
<1>1. CASE CreateTurn(t)
  BY <1>1, <1>a, <1>b DEF CreateTurn, Latest, RunRow
<1>2. CASE EndTurn(t)
  BY <1>2, <1>a, <1>b DEF EndTurn, RunRow
<1>3. CASE ClaimTurn(t)
  BY <1>3, <1>a, <1>b DEF ClaimTurn, RunRow
<1>4. CASE WorkspaceGone(t)
  BY <1>4, <1>b DEF WorkspaceGone
<1>5. CASE StartMachine(t)
  BY <1>5, <1>a, <1>b DEF StartMachine, RunRow
<1>6. CASE ProvisionFails(t)
  BY <1>6, <1>a, <1>b DEF ProvisionFails, RunRow
<1>7. CASE LaunchFails(t)
  BY <1>7, <1>a, <1>b DEF LaunchFails, RunRow
<1>8. CASE MarkRunning(t)
  BY <1>8, <1>a, <1>b DEF MarkRunning, RunRow, Status
<1>9. CASE StopLost(t)
  BY <1>9, <1>a, <1>b DEF StopLost
<1>10. CASE StampLost(t)
  BY <1>10, <1>a, <1>b DEF StampLost, RunRow
<1>11. CASE WorkerDies(t)
  BY <1>11, <1>a, <1>b DEF WorkerDies
<1>12. CASE LeaseExpires(t)
  BY <1>12, <1>a, <1>b DEF LeaseExpires, RunRow
<1>13. CASE MachineDies(t)
  BY <1>13, <1>a, <1>b DEF MachineDies
<1>. QED BY <1>1, <1>2, <1>3, <1>4, <1>5, <1>6, <1>7, <1>8, <1>9, <1>10, <1>11, <1>12, <1>13
         DEF TurnMoves, WorkerStep

\* What a job does to the turns unless it parks one.
Quiet(c) ==
  /\ session'.active = session.active /\ worker' = worker
  /\ \A u \in Turns :
       /\ run'[u].status = run[u].status /\ run'[u].attached = run[u].attached
       /\ run'[u].stopped = run[u].stopped
       /\ \/ run'[u].finalize = run[u].finalize
          \/ u = job[c].turn /\ job[c].pc = "finalized" /\ run'[u].finalize = None
       /\ \/ source'[u] = source[u]
          \/ /\ u = job[c].turn /\ job[c].kind \in {"parking", "finalizing"}
             /\ source'[u] = "gone" \/ (source[u] \in {"up", "down"} /\ source'[u] = "down")

\* A turn is parked.
Parked(t) ==
  /\ session.active = t /\ session'.active = Following(t)
  /\ worker' = worker /\ source' = source
  /\ \A u \in Turns : u # t => run'[u] = run[u]
  /\ run[t].stopped => run'[t] = run[t]
  /\ run'[t].status = "ended" /\ run[t].status = "ended"
  /\ run'[t].attached = run[t].attached /\ run'[t].stopped
  /\ \/ run'[t].finalize \in {None, run[t].finalize} /\ source[t] \in {"none", "gone"}
     \/ run[t].stopped
     \/ run'[t].finalize = t /\ run[t].attached /\ source[t] # "up"

\* The transaction that parks does so.
LEMMA ParkingEffect ==
  ASSUME JobsInv, NEW t \in Turns, Ended(t), session.active = t,
         NEW workspace \in {"keep", "cold", "made"}, NEW replaced \in {"keep", "clear", "previous"},
         session' = ParkedSession(t, workspace), run' = ParkedRun(t, workspace, replaced),
         worker' = worker, source' = source,
         IF workspace = "made" THEN run[t].attached /\ source[t] # "up"
                               ELSE source[t] \in {"none", "gone"}
  PROVE  Parked(t)
<1>1. session \in SessionRow /\ run \in [Turns -> RunRow] /\ run[t] \in RunRow
  BY DEF JobsInv, TypeOK
<1>2. session'.active = Following(t)
  BY <1>1 DEF ParkedSession, SessionRow
<1>3. CASE run[t].stopped
  BY <1>1, <1>2, <1>3 DEF ParkedRun, Parked, Ended
<1>4. CASE ~run[t].stopped
  <2>1. \A u \in Turns : u # t => run'[u] = run[u]
    BY <1>1, <1>4 DEF ParkedRun
  <2>2. /\ run'[t].status = run[t].status /\ run'[t].attached = run[t].attached
        /\ run'[t].stopped
        /\ run'[t].finalize = IF workspace = "keep" THEN run[t].finalize
                              ELSE IF workspace = "cold" THEN None ELSE t
    BY <1>1, <1>4 DEF ParkedRun, RunRow
  <2>. QED BY <1>1, <1>2, <1>4, <2>1, <2>2 DEF Parked, Ended
<1>. QED BY <1>3, <1>4

\* A step of a job is quiet or parks the job's turn.
LEMMA JobEffects ==
  ASSUME JobsInv, JobsKnow, NEW c \in Reconcilers,
         JobStep(c) \/ CommitFails(c) \/ Crash(c) \/ Picks(c)
  PROVE  \/ Quiet(c)
         \/ (Commit(c) \/ Fallback(c)) /\ job[c].turn \in Turns /\ Parked(job[c].turn)
<1>. DEFINE k == job[c]
<1>a. /\ RowsTyped /\ k \in JobState /\ (k.kind \in Repeatable => Ended(k.turn))
      /\ JobShape(k) /\ run \in [Turns -> RunRow] /\ session \in SessionRow
      /\ source \in [Turns -> {"none", "up", "down", "gone"}]
  BY DEF JobsInv, TypeOK, RowsTyped
<1>b. k.kind = "parking" => k.turn \in Turns /\ Ended(k.turn) /\ run[k.turn].attached
  BY <1>a DEF JobShape, JobsKnow, Repeatable
<1>1. CASE ClaimSession(c)
  BY <1>1, <1>a DEF ClaimSession, Claimed, Quiet, SessionRow
<1>2. CASE Release(c)
  BY <1>2, <1>a DEF Release, Released, Quiet, SessionRow
<1>3. CASE \/ Check(c) \/ EraseFails(c) \/ Erase(c) \/ Recheck(c) \/ ReadPrevious(c) \/ Verify(c)
           \/ Prepare(c) \/ Discard(c) \/ CommitFails(c) \/ Crash(c)
  BY <1>3 DEF Quiet, Check, EraseFails, Erase, Recheck, ReadPrevious, Verify,
              Prepare, Discard, CommitFails, Crash
<1>4. CASE Picks(c)
  BY <1>4 DEF Quiet, Picks, PickExpired, PickParking, PickReplaced, PickFinalize, Pick
<1>5. CASE Suspend(c) \/ SuspendFails(c)
  <2>1. k.kind = "parking"
    BY <1>a, <1>5 DEF Suspend, SuspendFails, At, JobShape, Chores, JobState, Work
  <2>. QED BY <1>a, <1>b, <1>5, <2>1 DEF Suspend, SuspendFails, Quiet
<1>6. CASE StopSource(c)
  <2>1. k.kind = "parking"
    BY <1>a, <1>6 DEF StopSource, At, JobShape, Chores, JobState, Work
  <2>. QED BY <1>a, <1>b, <1>6, <2>1 DEF StopSource, Quiet
<1>7. CASE Finalize(c)
  <2>1. k.kind \in {"parking", "finalizing"}
    BY <1>a, <1>7 DEF Finalize, At, JobShape, Chores, JobState, Work
  <2>. QED BY <1>a, <1>b, <1>7, <2>1 DEF Finalize, Quiet, JobShape
<1>8. CASE Unmark(c)
  <2>1. run' = run \/ run' = [run EXCEPT ![k.turn].replaced = None]
    BY <1>8 DEF Unmark
  <2>. QED BY <1>a, <1>8, <2>1 DEF Unmark, Quiet, RunRow
<1>9. CASE MarkFinalized(c)
  <2>1. run' = run \/ run' = [run EXCEPT ![k.turn].finalize = None]
    BY <1>9 DEF MarkFinalized
  <2>. QED BY <1>a, <1>9, <2>1 DEF MarkFinalized, Quiet, RunRow, At
<1>10. CASE Unowned(c) \/ Uncommitted(c)
  <2>1. run' = run \/ run' = [run EXCEPT ![k.turn].replaced = k.turn]
    BY <1>10 DEF Unowned, Uncommitted, MarkReplaced
  <2>. QED BY <1>a, <1>10, <2>1 DEF Unowned, Uncommitted, Quiet, RunRow
<1>11. CASE Clear(c)
  BY <1>11, <1>a DEF Clear, Quiet, SessionRow
<1>12. CASE Commit(c)
  <2>1. k.kind = "parking"
    BY <1>a, <1>12 DEF Commit, At, JobShape, Chores, JobState, Work
  <2>2. CASE OwnsParkLease(c)
    <3>1. \E replaced \in {"keep", "clear", "previous"} : run' = ParkedRun(k.turn, "made", replaced)
      BY <1>12, <2>2 DEF Commit
    <3>2. /\ session' = ParkedSession(k.turn, "made") /\ session.active = k.turn
          /\ source[k.turn] # "up"
      BY <1>12, <2>2 DEF Commit, OwnsParkLease, At, JobsKnow
    <3>. QED BY <1>b, <1>12, <2>1, <3>1, <3>2, ParkingEffect DEF Commit
  <2>3. CASE ~OwnsParkLease(c)
    BY <1>12, <2>3 DEF Commit, Quiet
  <2>. QED BY <2>2, <2>3
<1>13. CASE Fallback(c)
  <2>1. k.kind = "parking"
    BY <1>a, <1>13 DEF Fallback, At, JobShape, Chores, JobState, Work
  <2>2. CASE OwnsParkLease(c)
    <3>1. \E workspace \in {"keep", "cold"}, replaced \in {"keep", "clear", "previous"} :
             session' = ParkedSession(k.turn, workspace) /\ run' = ParkedRun(k.turn, workspace, replaced)
      BY <1>13, <2>2 DEF Fallback
    <3>2. session.active = k.turn /\ source[k.turn] = "gone"
      BY <1>13, <2>2 DEF Fallback, OwnsParkLease, At, JobsKnow
    <3>. QED BY <1>b, <1>13, <2>1, <3>1, <3>2, ParkingEffect DEF Fallback
  <2>3. CASE ~OwnsParkLease(c)
    BY <1>13, <2>3 DEF Fallback, Quiet
  <2>. QED BY <2>2, <2>3
<1>. QED BY <1>1, <1>2, <1>3, <1>4, <1>5, <1>6, <1>7, <1>8, <1>9, <1>10, <1>11, <1>12, <1>13
         DEF JobStep

\* So does the one without a machine.
LEMMA ParkPlainEffect ==
  ASSUME JobsInv, Shapes, NEW c \in Reconcilers, NEW t \in Turns, ParkPlain(c, t)
  PROVE  Parked(t)
<1>1. source[t] \in {"none", "gone"}
  BY DEF ParkPlain, Shapes, TurnShape
<1>2. "keep" \in {"keep", "cold", "made"} /\ "keep" \in {"keep", "clear", "previous"}
  OBVIOUS
<1>. QED BY <1>1, <1>2, ParkingEffect DEF ParkPlain

\* Parking keeps the turns in order and their machines tracked: the turn it
\* leaves has no machine that runs.
LEMMA TurnsOfParking ==
  ASSUME JobsInv, JobsInv', TurnsInv, NEW t \in Turns, Parked(t)
  PROVE  (Shapes /\ Queue /\ Machines)'
<1>a. /\ run \in [Turns -> RunRow] /\ source \in [Turns -> {"none", "up", "down", "gone"}]
      /\ run' \in [Turns -> RunRow] /\ session \in SessionRow
  BY DEF JobsInv, TypeOK
<1>b. /\ \A u \in Turns : u # t => run'[u] = run[u]
      /\ worker' = worker /\ source' = source
      /\ session.active = t /\ session'.active = Following(t)
      /\ \A u \in Turns : run'[u].status = run[u].status /\ run'[u].attached = run[u].attached
      /\ run'[t].status = "ended" /\ run[t].status = "ended" /\ run'[t].stopped
  BY DEF Parked
<1>1. Shapes'
  <2>. SUFFICES ASSUME NEW u \in Turns PROVE TurnShape(u)'
    BY DEF Shapes
  <2>1. TurnShape(u) /\ TurnShape(t)
    BY DEF TurnsInv, Shapes
  <2>2. CASE u # t
    BY <1>b, <2>1, <2>2 DEF TurnShape, Ended
  <2>3. CASE u = t
    <3>1. run'[t].finalize # None => run'[t].finalize = t /\ run[t].attached
      BY <2>1 DEF Parked, TurnShape
    <3>. QED BY <1>b, <2>1, <2>3, <3>1 DEF TurnShape, Ended
  <2>. QED BY <2>2, <2>3
<1>c. /\ Following(t) \in {None} \cup Turns
      /\ Following(t) # None => Following(t) > t /\ run[Following(t)].status = "queued"
      /\ \A w \in Turns : w > t /\ run[w].status = "queued" => Following(t) # None /\ Following(t) <= w
  BY <1>a, FollowingInQueue
<1>2. Queue'
  <2>1. (\A x, u \in Turns : u < x /\ run[x].status # "absent" => run[u].status # "absent")'
    BY <1>b DEF TurnsInv, Queue
  <2>2. (session.active # None => run[session.active].status # "absent")'
    BY <1>b, <1>c
  <2>3. ASSUME NEW u \in Turns
        PROVE  /\ run'[u].status = "queued" => session'.active \in 1 .. u
               /\ run'[u].status \in {"provisioning", "running"} => session'.active = u
    <3>1. /\ run[u].status = "queued" => t \in 1 .. u
          /\ run[u].status \in {"provisioning", "running"} => t = u
      BY <1>b DEF TurnsInv, Queue, TurnsInOrder, InFlight
    <3>2. CASE run[u].status = "queued"
      <4>1. u > t
        BY <1>b, <3>1, <3>2 DEF Turns
      <4>2. Following(t) \in Turns /\ Following(t) <= u
        BY <1>c, <4>1, <3>2
      <4>. QED BY <1>b, <3>2, <4>2, TurnsAssumption DEF Turns
    <3>. QED BY <1>b, <3>1, <3>2
  <2>. QED BY <2>1, <2>2, <2>3 DEF Queue, TurnsInOrder, InFlight
<1>3. Machines'
  <2>1. source[t] # "up"
    <3>1. CASE run[t].stopped
      BY <1>b, <3>1 DEF TurnsInv, Machines
    <3>. QED BY <3>1 DEF Parked
  <2>2. OnlyActiveTurnRuns'
    BY <1>b, <2>1 DEF TurnsInv, Machines, OnlyActiveTurnRuns
  <2>3. SourceTracked'
    <3>. SUFFICES ASSUME NEW u \in Turns, source[u] \in {"up", "down"}
                  PROVE  \/ run'[u].status \in {"provisioning", "running"}
                         \/ session'.active = u /\ ~run'[u].stopped
                         \/ run'[u].finalize = u
      BY <1>b DEF SourceTracked, InFlight
    <3>1. \/ run[u].status \in {"provisioning", "running"}
          \/ session.active = u /\ ~run[u].stopped
          \/ run[u].finalize = u
      BY DEF TurnsInv, Machines, SourceTracked, InFlight
    <3>2. CASE u # t
      BY <1>b, <3>1, <3>2
    <3>3. CASE u = t
      <4>1. run[t].stopped => run'[t] = run[t] /\ source[t] \in {"none", "gone"}
        BY <1>b DEF Parked, TurnsInv, Machines
      <4>. QED BY <3>3, <4>1 DEF Parked
    <3>. QED BY <3>2, <3>3
  <2>4. ASSUME NEW u \in Turns, session'.active = u, run'[u].stopped
        PROVE  source[u] \in {"none", "gone"}
    <3>1. u > t /\ run[u].status = "queued"
      BY <1>b, <1>c, <2>4, TurnsAssumption DEF Turns, None
    <3>2. u # t
      BY <3>1 DEF Turns
    <3>3. run[u].stopped /\ TurnShape(u)
      BY <1>b, <2>4, <3>2 DEF TurnsInv, Shapes
    <3>. QED BY <3>1, <3>3 DEF TurnShape, Ended
  <2>. QED BY <1>b, <2>2, <2>3, <2>4 DEF Machines
<1>. QED BY <1>1, <1>2, <1>3

\* Something is removed: a marker of a machine that is gone, or a machine.
Removes ==
  /\ session'.active = session.active /\ worker' = worker
  /\ \A u \in Turns :
       /\ run'[u].status = run[u].status /\ run'[u].attached = run[u].attached
       /\ run'[u].stopped = run[u].stopped
       /\ \/ run'[u].finalize = run[u].finalize
          \/ run'[u].finalize = None /\ source[u] = "gone"
       /\ \/ source'[u] = source[u]
          \/ source'[u] = "gone" /\ run[u].attached
          \/ source[u] \in {"up", "down"} /\ source'[u] = "down"

\* A quiet step does no more than that.
LEMMA QuietRemoves ==
  ASSUME JobsInv, TurnsInv, NEW c \in Reconcilers, Quiet(c)
  PROVE  Removes
<1>1. /\ job[c].kind \in {"parking", "finalizing"} => run[job[c].turn].attached
      /\ job[c].pc = "finalized" => source[job[c].turn] = "gone"
  BY DEF TurnsInv, JobsKnow
<1>. QED BY <1>1 DEF Quiet, Removes

\* Which keeps the turns and their machines.
LEMMA TurnsOfRemoval ==
  ASSUME JobsInv, TurnsInv, Removes
  PROVE  (Shapes /\ Queue /\ Machines)'
<1>1. Shapes'
  BY DEF Removes, Shapes, TurnShape, TurnsInv, Ended
<1>2. Queue'
  <2>1. (\A x, u \in Turns : u < x /\ run[x].status # "absent" => run[u].status # "absent")'
    BY DEF Removes, TurnsInv, Queue
  <2>2. session.active \in {None} \cup Turns
    BY DEF JobsInv, TypeOK, SessionRow
  <2>3. (session.active # None => run[session.active].status # "absent")'
    BY <2>2 DEF Removes, TurnsInv, Queue
  <2>4. TurnsInOrder'
    BY DEF Removes, TurnsInv, Queue, TurnsInOrder, InFlight
  <2>. QED BY <2>1, <2>3, <2>4 DEF Queue
<1>3. Machines'
  <2>1. OnlyActiveTurnRuns'
    BY DEF Removes, TurnsInv, Machines, OnlyActiveTurnRuns
  <2>2. SourceTracked'
    BY DEF Removes, TurnsInv, Machines, SourceTracked, InFlight
  <2>3. (\A t \in Turns : session.active = t /\ run[t].stopped => source[t] \in {"none", "gone"})'
    BY DEF Removes, TurnsInv, Machines
  <2>. QED BY <2>1, <2>2, <2>3 DEF Machines
<1>. QED BY <1>1, <1>2, <1>3

\* The steps of a turn keep the queue.
LEMMA QueueOfTurns ==
  ASSUME JobsInv, JobsInv', TurnsInv, NEW t \in Turns, TurnMoves(t)
  PROVE  Queue'
<1>a. /\ run \in [Turns -> RunRow] /\ worker \in [Turns -> WorkerState] /\ session \in SessionRow
      /\ session.active \in {None} \cup Turns
  BY DEF JobsInv, TypeOK, SessionRow
<1>b. /\ \A x, u \in Turns : u < x /\ run[x].status # "absent" => run[u].status # "absent"
      /\ session.active # None => run[session.active].status # "absent"
      /\ \A u \in Turns :
           /\ run[u].status = "queued" => session.active \in 1 .. u
           /\ run[u].status \in {"provisioning", "running"} => session.active = u
  BY DEF TurnsInv, Queue, TurnsInOrder, InFlight
<1>c. TurnShape(t)
  BY DEF TurnsInv, Shapes
<1>. SUFFICES /\ \A x, u \in Turns : u < x /\ run'[x].status # "absent" => run'[u].status # "absent"
              /\ session'.active # None => run'[session'.active].status # "absent"
              /\ \A u \in Turns :
                   /\ run'[u].status = "queued" => session'.active \in 1 .. u
                   /\ run'[u].status \in {"provisioning", "running"} => session'.active = u
  BY DEF Queue, TurnsInOrder, InFlight
<1>d. ASSUME session'.active = session.active,
             \A u \in Turns \ {t} : run'[u].status = run[u].status,
             \/ run'[t].status = run[t].status
             \/ run[t].status # "absent" /\ run'[t].status = "ended"
             \/ /\ run[t].status \in {"queued", "provisioning"} /\ session.active = t
                /\ run'[t].status \in {"queued", "provisioning", "running"}
      PROVE  /\ \A x, u \in Turns : u < x /\ run'[x].status # "absent" => run'[u].status # "absent"
             /\ session'.active # None => run'[session'.active].status # "absent"
             /\ \A u \in Turns :
                  /\ run'[u].status = "queued" => session'.active \in 1 .. u
                  /\ run'[u].status \in {"provisioning", "running"} => session'.active = u
  BY <1>a, <1>b, <1>d DEF Turns
<1>1. CASE CreateTurn(t)
  <2>1. /\ run[t].status = "absent" /\ \A u \in Turns : u < t => run[u].status # "absent"
        /\ run'[t].status = "queued" /\ \A u \in Turns \ {t} : run'[u].status = run[u].status
    BY <1>1, <1>a DEF CreateTurn, Latest, RunRow
  <2>2. session'.active = IF session.active = None THEN t ELSE session.active
    BY <1>1, <1>a DEF CreateTurn, Released, SessionRow
  <2>3. session.active # None => session.active < t
    BY <1>a, <1>b, <2>1 DEF Turns
  <2>4. ASSUME NEW x \in Turns, NEW u \in Turns, u < x, run'[x].status # "absent"
        PROVE  run'[u].status # "absent"
    BY <1>b, <2>1, <2>4
  <2>5. session'.active # None => run'[session'.active].status # "absent"
    BY <1>a, <1>b, <2>1, <2>2
  <2>6. ASSUME NEW u \in Turns
        PROVE  /\ run'[u].status = "queued" => session'.active \in 1 .. u
               /\ run'[u].status \in {"provisioning", "running"} => session'.active = u
    <3>1. CASE u = t
      BY <1>a, <2>1, <2>2, <2>3, <3>1, TurnsAssumption DEF Turns, None
    <3>2. CASE u # t
      BY <1>a, <1>b, <2>1, <2>2, <3>2, TurnsAssumption DEF Turns, None
    <3>. QED BY <3>1, <3>2
  <2>. QED BY <2>4, <2>5, <2>6
<1>2. CASE EndTurn(t)
  BY <1>2, <1>a, <1>d DEF EndTurn, RunRow
<1>3. CASE ClaimTurn(t)
  BY <1>3, <1>a, <1>d DEF ClaimTurn, RunRow
<1>4. CASE WorkspaceGone(t)
  BY <1>4, <1>a, <1>d DEF WorkspaceGone, SessionRow
<1>5. CASE StartMachine(t)
  <2>1. run' = run \/ run' = [run EXCEPT ![t].attached = TRUE]
    BY <1>5 DEF StartMachine
  <2>. QED BY <1>5, <1>a, <1>d, <2>1 DEF StartMachine, RunRow
<1>6. CASE ProvisionFails(t)
  BY <1>6, <1>a, <1>b, <1>d DEF ProvisionFails, RunRow
<1>7. CASE LaunchFails(t)
  BY <1>7, <1>a, <1>d DEF LaunchFails, RunRow
<1>8. CASE MarkRunning(t)
  BY <1>8, <1>a, <1>b, <1>d DEF MarkRunning, RunRow
<1>9. CASE StopLost(t) \/ WorkerDies(t) \/ MachineDies(t)
  BY <1>9, <1>d DEF StopLost, WorkerDies, MachineDies
<1>10. CASE StampLost(t)
  <2>1. run' = [run EXCEPT ![t].stopped = TRUE]
    BY <1>10 DEF StampLost
  <2>. QED BY <1>10, <1>a, <1>d, <2>1 DEF StampLost, RunRow
<1>11. CASE LeaseExpires(t)
  BY <1>11, <1>a, <1>b, <1>d DEF LeaseExpires, RunRow
<1>. QED BY <1>1, <1>2, <1>3, <1>4, <1>5, <1>6, <1>7, <1>8, <1>9, <1>10, <1>11
         DEF TurnMoves, WorkerStep

\* The steps of a turn keep the machines.
LEMMA MachinesOfTurns ==
  ASSUME JobsInv, JobsInv', TurnsInv, NEW t \in Turns, TurnMoves(t)
  PROVE  Machines'
<1>a. /\ run \in [Turns -> RunRow] /\ worker \in [Turns -> WorkerState] /\ session \in SessionRow
      /\ session.active \in {None} \cup Turns
      /\ source \in [Turns -> {"none", "up", "down", "gone"}]
  BY DEF JobsInv, TypeOK, SessionRow
<1>b. \A u \in Turns :
        /\ source[u] = "up" => session.active = u
        /\ source[u] \in {"up", "down"} =>
             \/ run[u].status \in {"provisioning", "running"}
             \/ session.active = u /\ ~run[u].stopped
             \/ run[u].finalize = u
        /\ session.active = u /\ run[u].stopped => source[u] \in {"none", "gone"}
        /\ run[u].status \in {"provisioning", "running"} => session.active = u
        /\ TurnShape(u)
  BY DEF TurnsInv, Machines, OnlyActiveTurnRuns, SourceTracked, Queue, TurnsInOrder, InFlight, Shapes
<1>c. ASSUME \A u \in Turns :
               /\ source'[u] = "up" => session'.active = u
               /\ source'[u] \in {"up", "down"} =>
                    \/ run'[u].status \in {"provisioning", "running"}
                    \/ session'.active = u /\ ~run'[u].stopped
                    \/ run'[u].finalize = u
               /\ session'.active = u /\ run'[u].stopped => source'[u] \in {"none", "gone"}
      PROVE  Machines'
  BY <1>c DEF Machines, OnlyActiveTurnRuns, SourceTracked, InFlight
<1>d. ASSUME session'.active = session.active, run' = run,
             \A u \in Turns : source'[u] = source[u] \/ source'[u] = "gone"
      PROVE  Machines'
  BY <1>b, <1>c, <1>d
<1>1. CASE CreateTurn(t)
  <2>1. /\ run[t].status = "absent" /\ source' = source
        /\ \A u \in Turns : /\ run'[u].stopped = run[u].stopped /\ run'[u].finalize = run[u].finalize
                            /\ u # t => run'[u].status = run[u].status
    BY <1>1, <1>a DEF CreateTurn, Latest, RunRow
  <2>2. session'.active = IF session.active = None THEN t ELSE session.active
    BY <1>1, <1>a DEF CreateTurn, Released, SessionRow
  <2>3. None \notin Turns
    BY TurnsAssumption DEF Turns, None
  <2>4. source[t] = "none"
    BY <1>b, <2>1 DEF TurnShape
  <2>. QED BY <1>a, <1>b, <1>c, <2>1, <2>2, <2>3, <2>4
<1>2. CASE EndTurn(t)
  <2>1. /\ run[t].status \in {"queued", "provisioning", "running"}
        /\ source' = source /\ session' = session
        /\ \A u \in Turns : /\ run'[u].stopped = run[u].stopped /\ run'[u].finalize = run[u].finalize
                            /\ u # t => run'[u].status = run[u].status
    BY <1>2, <1>a DEF EndTurn, RunRow
  <2>2. ~run[t].stopped
    BY <1>b, <2>1 DEF TurnShape, Ended
  <2>3. source[t] \in {"up", "down"} => session.active = t
    BY <1>b, <2>1, <2>2 DEF TurnShape
  <2>. QED BY <1>b, <1>c, <2>1, <2>2, <2>3
<1>3. CASE ClaimTurn(t)
  <2>1. /\ run[t].status = "queued" /\ source' = source /\ session' = session
        /\ \A u \in Turns : /\ run'[u].stopped = run[u].stopped /\ run'[u].finalize = run[u].finalize
                            /\ u # t => run'[u].status = run[u].status
    BY <1>3, <1>a DEF ClaimTurn, RunRow
  <2>2. source[t] = "none"
    BY <1>b, <2>1 DEF TurnShape
  <2>. QED BY <1>b, <1>c, <2>1, <2>2
<1>4. CASE WorkspaceGone(t)
  BY <1>4, <1>a, <1>d DEF WorkspaceGone, SessionRow
<1>5. CASE StartMachine(t)
  <2>1. CASE run[t].status = "provisioning" /\ ~run[t].attached
    <3>1. /\ source' = [source EXCEPT ![t] = "up"] /\ session' = session
          /\ run' = [run EXCEPT ![t].attached = TRUE]
      BY <1>5, <2>1 DEF StartMachine
    <3>2. \A u \in Turns : /\ run'[u].stopped = run[u].stopped /\ run'[u].finalize = run[u].finalize
                           /\ run'[u].status = run[u].status
      BY <1>a, <3>1 DEF RunRow
    <3>3. session.active = t /\ ~run[t].stopped
      BY <1>b, <2>1 DEF TurnShape, Ended
    <3>. QED BY <1>a, <1>b, <1>c, <2>1, <3>1, <3>2, <3>3
  <2>2. CASE ~(run[t].status = "provisioning" /\ ~run[t].attached)
    BY <1>5, <1>d, <2>2 DEF StartMachine
  <2>. QED BY <2>1, <2>2
<1>6. CASE ProvisionFails(t)
  <2>1. /\ source' = source /\ session' = session /\ worker[t] = "claimed"
        /\ \A u \in Turns : /\ run'[u].stopped = run[u].stopped /\ run'[u].finalize = run[u].finalize
                            /\ u # t => run'[u].status = run[u].status
    BY <1>6, <1>a DEF ProvisionFails, RunRow
  <2>2. source[t] = "none"
    BY <1>b, <2>1 DEF TurnShape
  <2>. QED BY <1>b, <1>c, <2>1, <2>2
<1>7. CASE LaunchFails(t)
  <2>1. /\ source' = [source EXCEPT ![t] = "gone"] /\ session' = session
        /\ \A u \in Turns : /\ run'[u].stopped = run[u].stopped /\ run'[u].finalize = run[u].finalize
                            /\ u # t => run'[u].status = run[u].status
    BY <1>7, <1>a DEF LaunchFails, RunRow
  <2>. QED BY <1>a, <1>b, <1>c, <2>1
<1>8. CASE MarkRunning(t)
  <2>1. /\ source' = source /\ session' = session
        /\ \A u \in Turns : /\ run'[u].stopped = run[u].stopped /\ run'[u].finalize = run[u].finalize
                            /\ \/ run'[u].status = run[u].status
                               \/ run'[u].status = "running"
    BY <1>8, <1>a DEF MarkRunning, RunRow
  <2>. QED BY <1>b, <1>c, <2>1
<1>9. CASE StopLost(t) \/ WorkerDies(t)
  BY <1>9, <1>a, <1>d DEF StopLost, WorkerDies
<1>10. CASE StampLost(t)
  <2>1. run' = [run EXCEPT ![t].stopped = TRUE] /\ source' = source /\ session' = session
    BY <1>10 DEF StampLost
  <2>2. \A u \in Turns : /\ run'[u].status = run[u].status /\ run'[u].finalize = run[u].finalize
                         /\ u # t => run'[u].stopped = run[u].stopped
    <3>1. run'[t] = [run[t] EXCEPT !.stopped = TRUE] /\ \A u \in Turns : u # t => run'[u] = run[u]
      BY <1>a, <2>1
    <3>2. run[t] \in RunRow
      BY <1>a
    <3>. QED BY <3>1, <3>2 DEF RunRow
  <2>3. source[t] = "gone"
    BY <1>10, <1>b DEF StampLost, TurnShape
  <2>. QED BY <1>b, <1>c, <2>1, <2>2, <2>3
<1>11. CASE LeaseExpires(t)
  <2>1. /\ source' = source /\ session' = session /\ ~run[t].attached
        /\ \A u \in Turns : /\ run'[u].stopped = run[u].stopped /\ run'[u].finalize = run[u].finalize
                            /\ u # t => run'[u].status = run[u].status
    BY <1>11, <1>a DEF LeaseExpires, RunRow
  <2>2. source[t] = "none"
    BY <1>b, <2>1 DEF TurnShape
  <2>. QED BY <1>b, <1>c, <2>1, <2>2
<1>12. CASE MachineDies(t)
  BY <1>12, <1>a, <1>d DEF MachineDies
<1>. QED BY <1>1, <1>2, <1>3, <1>4, <1>5, <1>6, <1>7, <1>8, <1>9, <1>10, <1>11, <1>12
         DEF TurnMoves, WorkerStep

\* The steps of the claim keep all of it.
LEMMA TurnsOfClaims ==
  ASSUME JobsInv, TurnsInv,
         \/ HolderGone \/ HolderPaused \/ ExpiryPasses \/ Idle
         \/ \E c \in Reconcilers : ReleaseStale(c) \/ BeatResumes(c)
  PROVE  TurnsInv'
<1>1. session \in SessionRow
  BY DEF JobsInv, TypeOK
<1>2. session'.active = session.active /\ UNCHANGED <<run, worker, source, job>>
  BY <1>1 DEF HolderGone, HolderPaused, ExpiryPasses, Idle, vars, ReleaseStale, BeatResumes,
              Released, SessionRow
<1>. QED BY <1>2 DEF TurnsInv, Shapes, TurnShape, Queue, TurnsInOrder, Machines, OnlyActiveTurnRuns,
                     SourceTracked, JobsKnow, InFlight, Ended

\* What a job knows of a turn that ended stays true.
JobsStayRight ==
  /\ \A t \in Turns : run[t].attached => run'[t].attached
  /\ \A t \in Turns : source[t] \in {"down", "gone"} => source'[t] \in {"down", "gone"}
  /\ \A t \in Turns : source[t] = "gone" => source'[t] = "gone"

\* The steps of a turn do not: a machine that was suspended or removed does not
\* come back.
LEMMA SourcesOfTurns ==
  ASSUME JobsInv, TurnsInv, NEW t \in Turns, TurnMoves(t)
  PROVE  JobsStayRight
<1>a. run \in [Turns -> RunRow] /\ source \in [Turns -> {"none", "up", "down", "gone"}]
  BY DEF JobsInv, TypeOK
<1>b. \A u \in Turns : source[u] # "none" => run[u].attached
  BY DEF TurnsInv, Shapes, TurnShape
<1>. USE DEF JobsStayRight
<1>1. CASE CreateTurn(t) \/ EndTurn(t) \/ ClaimTurn(t) \/ WorkspaceGone(t)
  BY <1>1, <1>a DEF CreateTurn, EndTurn, ClaimTurn, WorkspaceGone, RunRow
<1>2. CASE StartMachine(t)
  <2>1. CASE run[t].status = "provisioning" /\ ~run[t].attached
    <3>1. source' = [source EXCEPT ![t] = "up"] /\ run' = [run EXCEPT ![t].attached = TRUE]
      BY <1>2, <2>1 DEF StartMachine
    <3>2. run'[t] = [run[t] EXCEPT !.attached = TRUE] /\ \A u \in Turns : u # t => run'[u] = run[u]
      BY <1>a, <3>1
    <3>3. run[t] \in RunRow
      BY <1>a
    <3>4. \A u \in Turns : run[u].attached => run'[u].attached
      BY <3>2, <3>3 DEF RunRow
    <3>. QED BY <1>a, <1>b, <2>1, <3>1, <3>4
  <2>2. CASE ~(run[t].status = "provisioning" /\ ~run[t].attached)
    BY <1>2, <2>2 DEF StartMachine
  <2>. QED BY <2>1, <2>2
<1>3. CASE ProvisionFails(t) \/ LaunchFails(t) \/ MarkRunning(t)
  BY <1>3, <1>a DEF ProvisionFails, LaunchFails, MarkRunning, RunRow
<1>4. CASE StopLost(t) \/ WorkerDies(t) \/ LeaseExpires(t) \/ MachineDies(t)
  BY <1>4, <1>a DEF StopLost, WorkerDies, LeaseExpires, MachineDies, RunRow
<1>5. CASE StampLost(t)
  <2>1. run' = [run EXCEPT ![t].stopped = TRUE] /\ source' = source
    BY <1>5 DEF StampLost
  <2>2. run'[t] = [run[t] EXCEPT !.stopped = TRUE] /\ \A u \in Turns : u # t => run'[u] = run[u]
    BY <1>a, <2>1
  <2>3. run[t] \in RunRow
    BY <1>a
  <2>. QED BY <2>1, <2>2, <2>3 DEF RunRow
<1>. QED BY <1>1, <1>2, <1>3, <1>4, <1>5 DEF TurnMoves, WorkerStep

\* Nor do the steps of the other jobs.
LEMMA SourcesOfJobs ==
  ASSUME JobsInv, JobsInv', JobsKnow,
         (\E t \in Turns : Parked(t)) \/ (\E c \in Reconcilers : Quiet(c))
  PROVE  JobsStayRight
<1>a. run \in [Turns -> RunRow] /\ run' \in [Turns -> RunRow]
      /\ source \in [Turns -> {"none", "up", "down", "gone"}]
  BY DEF JobsInv, TypeOK
<1>1. CASE \E t \in Turns : Parked(t)
  <2>1. PICK t \in Turns : Parked(t)
    BY <1>1
  <2>2. \A u \in Turns : run'[u].attached = run[u].attached
    BY <2>1 DEF Parked
  <2>. QED BY <2>1, <2>2 DEF Parked, JobsStayRight
<1>2. CASE \E c \in Reconcilers : Quiet(c)
  BY <1>2 DEF Quiet, JobsStayRight
<1>. QED BY <1>1, <1>2

\* A step of a job keeps what the jobs know.
LEMMA JobsKnowStep ==
  ASSUME JobsInv, JobsInv', TurnsInv, JobsStayRight, NEW c \in Reconcilers,
         JobStep(c) \/ CommitFails(c) \/ Crash(c) \/ Picks(c) \/ MarkNothing(c)
  PROVE  JobsKnow'
<1>. DEFINE k == job[c]
            j == job'[c]
            Known == /\ j.kind \in {"parking", "finalizing"} =>
                          \/ j.kind = k.kind /\ j.turn = k.turn
                          \/ run[j.turn].attached
                     /\ j.pc = "commit" => j.turn \in Turns /\ source'[j.turn] = "down"
                     /\ j.pc \in {"fallback", "finalized"} => j.turn \in Turns /\ source'[j.turn] = "gone"
<1>a. /\ job' = [job EXCEPT ![c] = j] /\ job \in [Reconcilers -> JobState]
      /\ j \in JobState /\ JobShape(j) /\ k \in JobState /\ JobShape(k)
      /\ source \in [Turns -> {"none", "up", "down", "gone"}]
  BY JobSteps DEF JobsInv, TypeOK
<1>b. k.kind \in Repeatable => k.turn \in Turns
  BY <1>a DEF JobShape
<1>c. Known
  <2>. USE DEF At, Go, JobState
  <2>1. CASE ClaimSession(c)
    <3>1. CASE job' = [job EXCEPT ![c] = IdleJob]
      BY <1>a, <3>1 DEF IdleJob
    <3>2. CASE \E pc \in {"prepare", "check", "erase"}, then \in {"release", k.then} :
                 job' = [job EXCEPT ![c].pc = pc, ![c].then = then]
      BY <1>a, <3>2
    <3>3. k.kind \in {"parking", "replacing", "expiring"}
      BY <1>a, <2>1 DEF ClaimSession, JobShape, Work
    <3>. QED BY <2>1, <3>1, <3>2, <3>3 DEF ClaimSession
  <2>2. CASE Release(c) \/ Crash(c)
    BY <1>a, <2>2 DEF Release, Crash, IdleJob
  <2>3. CASE Check(c) \/ Erase(c) \/ EraseFails(c) \/ Unmark(c)
    <3>1. k.then \in {"none", "recheck", "verify", "finalize", "release"}
      BY <1>a DEF JobState
    <3>2. \E pc \in {"erase", "clear", "release", "unmark", k.then} : job' = [job EXCEPT ![c].pc = pc]
      BY <2>3 DEF Check, Erase, EraseFails, Unmark
    <3>. QED BY <1>a, <3>1, <3>2
  <2>4. CASE Clear(c) \/ Recheck(c) \/ CommitFails(c) \/ Discard(c) \/ Fallback(c) \/ MarkFinalized(c)
    BY <1>a, <2>4 DEF Clear, Recheck, CommitFails, Discard, Fallback, MarkFinalized
  <2>5. CASE Prepare(c) \/ ReadPrevious(c) \/ Verify(c)
    <3>1. CASE Prepare(c)
      <4>1. \/ \E pc \in {"release", "read"} : job' = [job EXCEPT ![c] = [@ EXCEPT !.pc = pc]]
            \/ job' = [job EXCEPT ![c] = [@ EXCEPT !.pc = "check", !.target = run[k.turn].replaced,
                                                  !.then = "recheck"]]
        BY <3>1 DEF Prepare
      <4>2. CASE \E pc \in {"release", "read"} : job' = [job EXCEPT ![c] = [@ EXCEPT !.pc = pc]]
        BY <1>a, <4>2
      <4>3. CASE job' = [job EXCEPT ![c] = [@ EXCEPT !.pc = "check", !.target = run[k.turn].replaced,
                                                  !.then = "recheck"]]
        BY <1>a, <4>3
      <4>. QED BY <4>1, <4>2, <4>3
    <3>2. CASE ReadPrevious(c)
      BY <1>a, <3>2 DEF ReadPrevious
    <3>3. CASE Verify(c)
      BY <1>a, <3>3 DEF Verify
    <3>. QED BY <2>5, <3>1, <3>2, <3>3
  <2>6. CASE Suspend(c) \/ SuspendFails(c)
    <3>1. k.turn \in Turns
      BY <1>a, <1>b, <2>6 DEF Suspend, SuspendFails, JobShape, JobState, Work, Chores, Repeatable
    <3>. QED BY <1>a, <2>6, <3>1 DEF Suspend, SuspendFails
  <2>7. CASE Commit(c)
    <3>1. CASE \E pc \in {"finalize", "uncommitted", "unowned"} : job' = [job EXCEPT ![c].pc = pc]
      BY <1>a, <3>1
    <3>2. CASE job' = [job EXCEPT ![c] = [@ EXCEPT !.pc = "check", !.then = "finalize",
                                                   !.target = job[c].previous]]
      BY <1>a, <3>2
    <3>3. CASE job' = [job EXCEPT ![c] = [@ EXCEPT !.pc = "finalize"]]
      BY <1>a, <3>3
    <3>. QED BY <2>7, <3>1, <3>2, <3>3 DEF Commit
  <2>8. CASE Unowned(c) \/ Uncommitted(c)
    BY <1>a, <2>8 DEF Unowned, Uncommitted, DeleteOwn
  <2>9. CASE StopSource(c)
    <3>1. k.turn \in Turns
      BY <1>a, <1>b, <2>9 DEF StopSource, JobShape, JobState, Work, Chores, Repeatable
    <3>. QED BY <1>a, <2>9, <3>1 DEF StopSource
  <2>10. CASE Finalize(c)
    <3>1. k.turn \in Turns
      BY <1>a, <1>b, <2>10 DEF Finalize, JobShape, JobState, Work, Chores, Repeatable
    <3>. QED BY <1>a, <2>10, <3>1 DEF Finalize
  <2>11. CASE Picks(c)
    <3>1. \/ \E t \in Turns : run[t].attached /\ Pick(c, "parking", t, None)
          \/ \E t \in Turns : Pick(c, "replacing", t, run[t].replaced)
          \/ \E t \in Turns : run[t].attached /\ Pick(c, "finalizing", t, run[t].finalize)
          \/ Pick(c, "expiring", None, session.workspace)
      BY <2>11 DEF Picks, PickExpired, PickParking, PickReplaced, PickFinalize
    <3>2. ASSUME NEW kind, NEW t, NEW target, Pick(c, kind, t, target)
          PROVE  j.kind = kind /\ j.turn = t /\ j.pc = "picked"
      BY <1>a, <3>2 DEF Pick, IdleJob
    <3>. QED BY <3>1, <3>2
  <2>12. CASE MarkNothing(c)
    BY <1>a, <2>12 DEF MarkNothing
  <2>. QED BY <2>1, <2>2, <2>3, <2>4, <2>5, <2>6, <2>7, <2>8, <2>9, <2>10, <2>11, <2>12 DEF JobStep
<1>. SUFFICES ASSUME NEW d \in Reconcilers
              PROVE  /\ job'[d].kind \in {"parking", "finalizing"} => run'[job'[d].turn].attached
                     /\ job'[d].pc = "commit" => source'[job'[d].turn] \in {"down", "gone"}
                     /\ job'[d].pc \in {"fallback", "finalized"} => source'[job'[d].turn] = "gone"
  BY DEF JobsKnow
<1>d. \A e \in Reconcilers : JobShape(job[e]) /\ JobShape(job'[e]) /\ job[e] \in JobState
  BY DEF JobsInv, TypeOK
<1>e. /\ job[d].kind \in {"parking", "finalizing"} => job[d].turn \in Turns /\ run[job[d].turn].attached
      /\ job[d].pc \in {"commit", "fallback", "finalized"} => job[d].turn \in Turns
      /\ job[d].pc = "commit" => source[job[d].turn] \in {"down", "gone"}
      /\ job[d].pc \in {"fallback", "finalized"} => source[job[d].turn] = "gone"
  <2>1. job[d].kind \in Repeatable => job[d].turn \in Turns
    BY <1>d DEF JobShape
  <2>2. job[d].pc \in {"commit", "fallback", "finalized"} => job[d].kind \in Repeatable
    BY <1>d DEF JobShape, JobState, Work, Chores, Repeatable
  <2>. QED BY <2>1, <2>2 DEF TurnsInv, JobsKnow, Repeatable
<1>1. CASE d # c
  <2>1. job'[d] = job[d]
    BY <1>a, <1>1
  <2>. QED BY <2>1, <1>e DEF JobsStayRight
<1>2. CASE d = c
  <2>1. j.kind \in {"parking", "finalizing"} => j.turn \in Turns
    BY <1>a DEF JobShape, Repeatable
  <2>2. j.kind \in {"parking", "finalizing"} => run'[j.turn].attached
    BY <1>c, <1>e, <1>2, <2>1 DEF JobsStayRight
  <2>. QED BY <1>c, <1>2, <2>2
<1>. QED BY <1>1, <1>2

\* ... so that jobs that stand still know what they knew.
LEMMA JobsKnowKept ==
  ASSUME JobsInv, JobsKnow, job' = job, JobsStayRight
  PROVE  JobsKnow'
<1>1. ASSUME NEW c \in Reconcilers
      PROVE  /\ job[c].kind \in {"parking", "finalizing"} => job[c].turn \in Turns
             /\ job[c].pc \in {"commit", "fallback", "finalized"} => job[c].turn \in Turns
  <2>1. JobShape(job[c]) /\ job[c] \in JobState
    BY DEF JobsInv, TypeOK
  <2>2. job[c].pc \in {"commit", "fallback", "finalized"} => job[c].kind \in Repeatable
    BY <2>1 DEF JobShape, JobState, Work, Chores, Repeatable
  <2>. QED BY <2>1, <2>2 DEF JobShape, Repeatable
<1>. QED BY <1>1 DEF JobsKnow, JobsStayRight

\* TurnsInv is inductive relative to JobsInv.
LEMMA TurnsNext == JobsInv /\ TurnsInv /\ [Next]_vars => TurnsInv'
<1>. SUFFICES ASSUME JobsInv, TurnsInv, [Next]_vars PROVE TurnsInv'
  OBVIOUS
<1>a. JobsInv'
  BY JobsNext
<1>b. job' = job /\ JobsStayRight => JobsKnow'
  BY JobsKnowKept DEF TurnsInv
<1>1. CASE UNCHANGED vars
  BY <1>1 DEF vars, TurnsInv, Shapes, TurnShape, Queue, TurnsInOrder, Machines, OnlyActiveTurnRuns,
              SourceTracked, JobsKnow, InFlight, Ended
<1>2. CASE HolderGone \/ HolderPaused \/ ExpiryPasses \/ Idle
           \/ \E c \in Reconcilers : ReleaseStale(c) \/ BeatResumes(c)
  BY <1>2, TurnsOfClaims
<1>3. ASSUME NEW t \in Turns, TurnMoves(t)
      PROVE  TurnsInv'
  <2>1. Shapes'
    BY <1>3, ShapesOfTurns DEF TurnsInv
  <2>2. Queue' /\ Machines'
    BY <1>3, <1>a, QueueOfTurns, MachinesOfTurns
  <2>3. JobsKnow'
    BY <1>3, <1>b, SourcesOfTurns, TurnRows
  <2>. QED BY <2>1, <2>2, <2>3 DEF TurnsInv
<1>4. ASSUME NEW c \in Reconcilers, JobStep(c) \/ CommitFails(c) \/ Crash(c) \/ Picks(c)
      PROVE  TurnsInv'
  <2>1. Quiet(c) \/ (job[c].turn \in Turns /\ Parked(job[c].turn))
    BY <1>4, JobEffects DEF TurnsInv
  <2>2. (Shapes /\ Queue /\ Machines)'
    BY <1>a, <2>1, QuietRemoves, TurnsOfRemoval, TurnsOfParking
  <2>3. JobsStayRight
    BY <1>a, <2>1, SourcesOfJobs DEF TurnsInv
  <2>4. JobsKnow'
    BY <1>4, <1>a, <2>3, JobsKnowStep
  <2>. QED BY <2>2, <2>4 DEF TurnsInv
<1>5. ASSUME NEW c \in Reconcilers, NEW t \in Turns, ParkPlain(c, t)
      PROVE  TurnsInv'
  <2>1. Parked(t)
    BY <1>5, ParkPlainEffect DEF TurnsInv
  <2>2. (Shapes /\ Queue /\ Machines)'
    BY <1>a, <2>1, TurnsOfParking
  <2>3. JobsStayRight
    BY <1>a, <2>1, SourcesOfJobs DEF TurnsInv
  <2>4. JobsKnow'
    BY <1>5, <1>b, <2>3, ParkPlainRows
  <2>. QED BY <2>2, <2>4 DEF TurnsInv
<1>. QED BY <1>1, <1>2, <1>3, <1>4, <1>5 DEF Next, PickTurn, Picks, TurnMoves

\* It begins so.
LEMMA ParkingInit == Init => JobsInv /\ TurnsInv
<1>. SUFFICES ASSUME Init PROVE JobsInv /\ TurnsInv
  OBVIOUS
<1>1. TypeOK
  BY TurnsAssumption, FaultsAssumption DEF Init, TypeOK, SessionRow, RunRow, JobState, WorkerState,
     Operation, Work, Status, IdleJob, None, Turns
<1>2. JobsInv
  BY <1>1 DEF Init, JobsInv, JobShape, IdleJob, Repeatable, Chores
<1>3. TurnsInv
  BY TurnsAssumption DEF Init, TurnsInv, Shapes, TurnShape, Queue, TurnsInOrder, Machines,
     OnlyActiveTurnRuns, SourceTracked, JobsKnow, InFlight, Ended, IdleJob, None, Turns
<1>. QED BY <1>2, <1>3

-----------------------------------------------------------------------------
(* The request, beside the steps of the session. *)

\* A set of turns that is not empty has a latest one.
LEMMA LatestOf ==
  ASSUME NEW made \in SUBSET Turns, made # {}
  PROVE  \E t \in made : \A u \in made : u <= t
<1>. DEFINE above == {n \in 0 .. LastTurn : \A t \in made : t <= n}
<1>1. LastTurn \in above /\ above \in SUBSET Nat
  BY TurnsAssumption DEF Turns
<1>2. PICK m \in above : \A n \in above : m <= n
  BY <1>1, LeastOf
<1>3. m \in made
  <2>1. m \in 1 .. LastTurn
    <3>1. PICK l \in made : l <= m
      BY <1>2
    <3>. QED BY <1>2, <3>1, TurnsAssumption DEF Turns
  <2>2. m - 1 \notin above
    BY <1>2, <2>1
  <2>3. PICK t \in made : ~ (t <= m - 1)
    BY <2>1, <2>2, TurnsAssumption
  <2>4. t <= m /\ t \in 1 .. LastTurn
    BY <1>2, <2>3 DEF Turns
  <2>5. t = m
    BY <2>1, <2>3, <2>4
  <2>. QED BY <2>3, <2>5
<1>. QED BY <1>2, <1>3

\* LatestTurn is the latest turn that was made.
LEMMA LatestIs ==
  /\ \A l \in Turns : run[l].status # "absent" =>
       /\ LatestTurn \in Turns /\ run[LatestTurn].status # "absent" /\ l <= LatestTurn
       /\ \A u \in Turns : u > LatestTurn => run[u].status = "absent"
  /\ LatestTurn # None => LatestTurn \in Turns /\ run[LatestTurn].status # "absent"
<1>. DEFINE made == {t \in Turns : run[t].status # "absent"}
<1>1. made # {} => LatestTurn \in made /\ \A u \in made : u <= LatestTurn
  BY LatestOf DEF LatestTurn
<1>2. made = {} => LatestTurn = None
  BY DEF LatestTurn
<1>. QED BY <1>1, <1>2 DEF Turns

\* No turn is made after the latest.
LEMMA LatestIsAfter ==
  ASSUME NEW l \in Turns, run'[l].status # "absent"
  PROVE  \A u \in Turns : u > LatestTurn' => run'[u].status = "absent"
<1>. DEFINE made == {t \in Turns : run'[t].status # "absent"}
<1>1. made # {} => LatestTurn' \in made /\ \A u \in made : u <= LatestTurn'
  BY LatestOf DEF LatestTurn
<1>. QED BY <1>1 DEF Turns

\* What the request relies on of every step of the session.
RequestSees ==
  /\ \A t \in Turns : run[t].status = "ended" =>
       /\ run'[t].status = "ended" /\ run'[t].attached = run[t].attached
       /\ run[t].stopped => run'[t].stopped
  /\ \A t \in Turns : run[t].status # "absent" => run'[t].status # "absent"
  /\ JobsStayRight
  /\ \/ session'.active \in {None, session.active}
     \/ session.active = None /\ session'.active \in Turns /\ run[session'.active].status = "absent"
     \/ session.active # None /\ session'.active \in Turns /\ session'.active > session.active
  /\ session'.active = session.active =>
       /\ session'.workspace \in {None, session.workspace}
       /\ \A t \in Turns : run[t].status \in {"absent", "ended"} =>
            /\ run'[t].finalize \in {None, run[t].finalize}
            /\ source'[t] \in {"up", "down"} => source[t] \in {"up", "down"}
       /\ \A t \in Turns : snapshot'[t] # "none" => snapshot[t] # "none" \/ source[t] \in {"up", "down"}

\* If the request still has the latest turns after a step, it had them before.
LEMMA SameTurnsBefore ==
  ASSUME JobsInv, TurnsInv, RequestInv, request \in Request, RequestSees, request' = request,
         session' \in SessionRow, SameTurns'
  PROVE  SameTurns
<1>. DEFINE l == request.latest
<1>a. /\ l \in Turns /\ run[l].status # "absent" /\ run'[l].status # "absent"
      /\ request.active <= l /\ request.active \in {None} \cup Turns
      /\ session'.active = request.active /\ session.active \in {None} \cup Turns
      /\ session.active # None => run[session.active].status # "absent"
      /\ \A x, u \in Turns : u < x /\ run[x].status # "absent" => run[u].status # "absent"
      /\ \A t \in Turns : run[t].status # "absent" => run'[t].status # "absent"
  BY DEF RequestInv, Request, RequestSees, SameTurns, JobsInv, TypeOK, SessionRow, TurnsInv, Queue
<1>1. \A u \in Turns : u > l => run[u].status = "absent"
  <2>1. LatestTurn' = l
    BY <1>a DEF SameTurns
  <2>2. \A u \in Turns : u > LatestTurn' => run'[u].status = "absent"
    BY <1>a, LatestIsAfter
  <2>. QED BY <1>a, <2>1, <2>2
<1>2. LatestTurn = l
  <2>1. /\ LatestTurn \in Turns /\ run[LatestTurn].status # "absent" /\ l <= LatestTurn
    BY <1>a, LatestIs
  <2>. QED BY <1>1, <2>1, <1>a DEF Turns
<1>3. session.active = request.active
  <2>1. \A t \in Turns : run[t].status = "absent" => t > l
    BY <1>a DEF Turns
  <2>2. CASE session'.active \in {None, session.active}
    <3>1. CASE session'.active = None /\ session.active # None
      <4>1. session.active > l
        BY <1>a, <3>1, TurnsAssumption DEF RequestInv, Turns, None
      <4>. QED BY <1>1, <1>a, <3>1, <4>1
    <3>. QED BY <1>a, <2>2, <3>1
  <2>3. CASE session.active = None /\ session'.active \in Turns /\ run[session'.active].status = "absent"
    BY <1>a, <2>1, <2>3, TurnsAssumption DEF Turns, None
  <2>4. CASE session.active # None /\ session'.active \in Turns /\ session'.active > session.active
    BY <1>a, <2>4, TurnsAssumption DEF Turns, None, RequestInv
  <2>. QED BY <2>2, <2>3, <2>4 DEF RequestSees
<1>. QED BY <1>2, <1>3 DEF SameTurns

\* While the request works, no step of the session makes what it knows false.
LEMMA RequestKept ==
  ASSUME JobsInv, JobsInv', TurnsInv, RequestInv, request \in Request, RequestSees, request' = request
  PROVE  RequestInv'
<1>. DEFINE l == request.latest
            pc == request.pc
<1>a. /\ session' \in SessionRow /\ session.active \in {None} \cup Turns
      /\ source' \in [Turns -> {"none", "up", "down", "gone"}]
      /\ run \in [Turns -> RunRow] /\ run' \in [Turns -> RunRow]
      /\ snapshot' \in [Turns -> {"none", "whole"}]
  BY DEF JobsInv, TypeOK, SessionRow
<1>b. /\ l \in Turns /\ request.active \in {None} \cup Turns /\ request.active <= l
      /\ request.workspace \in {None} \cup Turns
      /\ request.sources \in SUBSET (Turns \X Turns)
  BY DEF RequestInv, Request
<1>c. SameTurns' => SameTurns /\ session'.active = session.active
  BY <1>a, SameTurnsBefore DEF SameTurns
<1>1. l \in Turns /\ run'[l].status # "absent" /\ request.active <= l
  BY DEF RequestInv, RequestSees
<1>2. \/ session'.active \in {None, request.active}
      \/ session'.active > (IF request.active = None THEN l ELSE request.active)
  <2>1. \A t \in Turns : run[t].status = "absent" => t > l
    BY <1>b DEF RequestInv, TurnsInv, Queue, Turns
  <2>2. \/ session.active \in {None, request.active}
        \/ session.active > (IF request.active = None THEN l ELSE request.active)
    BY DEF RequestInv
  <2>3. CASE session'.active \in {None, session.active}
    BY <2>2, <2>3
  <2>4. CASE session.active = None /\ session'.active \in Turns /\ run[session'.active].status = "absent"
    BY <1>b, <2>1, <2>4, TurnsAssumption DEF Turns, None
  <2>5. CASE session.active # None /\ session'.active \in Turns /\ session'.active > session.active
    BY <1>a, <1>b, <2>2, <2>5, TurnsAssumption DEF Turns, None
  <2>. QED BY <2>3, <2>4, <2>5 DEF RequestSees
<1>3. pc \in Claiming \cup {"turns"} /\ request.active # None =>
        /\ run'[request.active].status = "ended"
        /\ run'[request.active].attached /\ ~run'[request.active].stopped => request.machine
  <2>. SUFFICES ASSUME pc \in Claiming \cup {"turns"}, request.active # None
                PROVE  /\ run'[request.active].status = "ended"
                       /\ run'[request.active].attached /\ ~run'[request.active].stopped => request.machine
    OBVIOUS
  <2>1. /\ request.active \in Turns /\ run[request.active].status = "ended"
        /\ run[request.active].attached /\ ~run[request.active].stopped => request.machine
    BY <1>b DEF RequestInv, Ended
  <2>2. /\ run'[request.active].status = "ended"
        /\ run'[request.active].attached = run[request.active].attached
        /\ run[request.active].stopped => run'[request.active].stopped
    BY <2>1 DEF RequestSees
  <2>. QED BY <2>1, <2>2
<1>4. request.machine => request.active # None /\ run'[request.active].attached
  BY <1>b DEF RequestInv, RequestSees, JobsStayRight
<1>5. pc \in Claiming => \A t \in 1 .. l : t \in Turns /\ run[t].status = "ended" /\ run'[t].status = "ended"
  BY <1>b, TurnsAssumption DEF RequestInv, RequestSees, Ended, Turns
<1>6. pc \in Claiming /\ SameTurns => \A t \in Turns : run[t].status \in {"absent", "ended"}
  <2>. SUFFICES ASSUME pc \in Claiming, SameTurns, NEW t \in Turns
                PROVE  run[t].status \in {"absent", "ended"}
    OBVIOUS
  <2>1. \A u \in Turns : u > l => run[u].status = "absent"
    BY <1>b, LatestIs DEF SameTurns, RequestInv
  <2>. QED BY <1>b, <1>5, <2>1 DEF Turns
<1>7. pc \in Claiming /\ SameTurns' =>
        \A t \in Turns : source'[t] \in {"up", "down"} /\ run'[t].finalize = t => <<t, t>> \in request.sources
  <2>. SUFFICES ASSUME pc \in Claiming, SameTurns', NEW t \in Turns,
                       source'[t] \in {"up", "down"}, run'[t].finalize = t
                PROVE  <<t, t>> \in request.sources
    OBVIOUS
  <2>1. run[t].status \in {"absent", "ended"} /\ t # None
    BY <1>c, <1>6, TurnsAssumption DEF Turns, None
  <2>2. run[t].finalize = t /\ source[t] \in {"up", "down"}
    BY <1>c, <2>1 DEF RequestSees
  <2>. QED BY <1>c, <2>2 DEF RequestInv
<1>8. /\ pc \in {"stop", "workspace", "delete"} => request.sources = {}
      /\ pc \in {"finalized", "erased"} => request.at \in Turns
      /\ \A p \in request.sources : run'[p[1]].attached
      /\ pc = "finalized" => source'[request.at] = "gone"
      /\ pc \in {"workspace", "delete"} /\ request.machine => source'[request.active] = "gone"
  BY <1>b DEF RequestInv, RequestSees, JobsStayRight
<1>9. SameTurns' => session'.workspace \in {None, request.workspace}
  BY <1>c DEF RequestInv, RequestSees
<1>10. pc = "delete" /\ SameTurns' /\ request.workspace # None => snapshot'[request.workspace] = "none"
  <2>. DEFINE w == request.workspace
  <2>. SUFFICES ASSUME pc = "delete", SameTurns', w # None PROVE snapshot'[w] = "none"
    OBVIOUS
  <2>1. w \in Turns /\ pc \in Claiming
    BY <1>b DEF Claiming
  <2>2. source[w] \notin {"up", "down"}
    <3>. SUFFICES ASSUME source[w] \in {"up", "down"} PROVE FALSE
      OBVIOUS
    <3>1. run[w].status \in {"absent", "ended"}
      BY <1>c, <1>6, <2>1
    <3>2. \/ session.active = w /\ ~run[w].stopped
          \/ run[w].finalize = w
      BY <2>1, <3>1 DEF TurnsInv, Machines, SourceTracked, InFlight
    <3>3. CASE run[w].finalize = w
      BY <1>c, <2>1, <3>3 DEF RequestInv
    <3>4. CASE session.active = w /\ ~run[w].stopped
      <4>1. request.active = w /\ run[w].attached
        BY <1>c, <2>1, <3>4 DEF SameTurns, TurnsInv, Shapes, TurnShape
      <4>. QED BY <2>1, <3>4, <4>1 DEF RequestInv
    <3>. QED BY <3>2, <3>3, <3>4
  <2>3. snapshot[w] = "none"
    BY <1>c DEF RequestInv
  <2>. QED BY <1>a, <1>c, <2>1, <2>2, <2>3 DEF RequestSees
<1>. QED BY <1>1, <1>2, <1>3, <1>4, <1>5, <1>7, <1>8, <1>9, <1>10 DEF RequestInv, Ended

\* The steps of a turn are such steps.
LEMMA TurnsAreSeen ==
  ASSUME JobsInv, TurnsInv, NEW t \in Turns, TurnMoves(t)
  PROVE  RequestSees
<1>a. /\ run \in [Turns -> RunRow] /\ source \in [Turns -> {"none", "up", "down", "gone"}]
      /\ session \in SessionRow /\ run[t] \in RunRow
  BY DEF JobsInv, TypeOK
<1>b. JobsStayRight
  BY SourcesOfTurns
<1>c. \A u \in Turns : u # t => run'[u] = run[u] /\ source'[u] = source[u]
  BY <1>a DEF TurnMoves, WorkerStep, CreateTurn, EndTurn, ClaimTurn, WorkspaceGone, StartMachine,
     ProvisionFails, LaunchFails, MarkRunning, StopLost, StampLost, WorkerDies, LeaseExpires, MachineDies
<1>d. /\ \/ session'.active = session.active
         \/ session.active = None /\ session'.active = t /\ run[t].status = "absent"
      /\ session'.workspace \in {None, session.workspace} /\ snapshot' = snapshot
  <2>1. CASE CreateTurn(t)
    BY <1>a, <2>1 DEF CreateTurn, Latest, Released, SessionRow
  <2>2. CASE WorkspaceGone(t)
    BY <1>a, <2>2 DEF WorkspaceGone, SessionRow
  <2>3. CASE EndTurn(t) \/ ClaimTurn(t) \/ WorkerStep(t) \/ WorkerDies(t) \/ LeaseExpires(t) \/ MachineDies(t)
    BY <2>3 DEF WorkerStep, EndTurn, ClaimTurn, StartMachine, ProvisionFails, LaunchFails,
       MarkRunning, StopLost, StampLost, WorkerDies, LeaseExpires, MachineDies
  <2>. QED BY <2>1, <2>2, <2>3 DEF TurnMoves
<1>e. /\ run[t].status = "ended" =>
           /\ run'[t].status = "ended" /\ run'[t].attached = run[t].attached
           /\ run[t].stopped => run'[t].stopped
      /\ run[t].status # "absent" => run'[t].status # "absent"
      /\ run'[t].finalize = run[t].finalize
      /\ source'[t] \in {"up", "down"} => source[t] \in {"up", "down"} \/ run[t].status = "provisioning"
  <2>1. CASE CreateTurn(t) \/ EndTurn(t) \/ ClaimTurn(t) \/ WorkspaceGone(t)
    BY <1>a, <2>1 DEF CreateTurn, Latest, EndTurn, ClaimTurn, WorkspaceGone, RunRow
  <2>2. CASE StartMachine(t)
    <3>1. CASE run[t].status = "provisioning" /\ ~run[t].attached
      <4>1. run' = [run EXCEPT ![t].attached = TRUE]
        BY <2>2, <3>1 DEF StartMachine
      <4>2. run'[t] = [run[t] EXCEPT !.attached = TRUE]
        BY <1>a, <4>1
      <4>. QED BY <1>a, <3>1, <4>2 DEF RunRow
    <3>2. CASE ~(run[t].status = "provisioning" /\ ~run[t].attached)
      BY <2>2, <3>2 DEF StartMachine
    <3>. QED BY <3>1, <3>2
  <2>3. CASE ProvisionFails(t) \/ LaunchFails(t) \/ MarkRunning(t)
    BY <1>a, <2>3 DEF ProvisionFails, LaunchFails, MarkRunning, RunRow
  <2>4. CASE StopLost(t) \/ WorkerDies(t) \/ LeaseExpires(t) \/ MachineDies(t)
    BY <1>a, <2>4 DEF StopLost, WorkerDies, LeaseExpires, MachineDies, RunRow
  <2>5. CASE StampLost(t)
    <3>1. run' = [run EXCEPT ![t].stopped = TRUE] /\ source' = source
      BY <2>5 DEF StampLost
    <3>2. run'[t] = [run[t] EXCEPT !.stopped = TRUE]
      BY <1>a, <3>1
    <3>. QED BY <1>a, <3>1, <3>2 DEF RunRow
  <2>. QED BY <2>1, <2>2, <2>3, <2>4, <2>5 DEF TurnMoves, WorkerStep
<1>1. \A u \in Turns : run[u].status = "ended" =>
        /\ run'[u].status = "ended" /\ run'[u].attached = run[u].attached
        /\ run[u].stopped => run'[u].stopped
  BY <1>c, <1>e
<1>2. \A u \in Turns : run[u].status # "absent" => run'[u].status # "absent"
  BY <1>c, <1>e
<1>3. \A u \in Turns : run[u].status \in {"absent", "ended"} =>
        /\ run'[u].finalize \in {None, run[u].finalize}
        /\ source'[u] \in {"up", "down"} => source[u] \in {"up", "down"}
  BY <1>c, <1>e
<1>. QED BY <1>b, <1>d, <1>1, <1>2, <1>3 DEF RequestSees

\* The checkpoints and the session's reference, beside a job.
LEMMA JobWorkspaces ==
  ASSUME JobsInv, NEW c \in Reconcilers,
         JobStep(c) \/ CommitFails(c) \/ Crash(c) \/ Picks(c)
  PROVE  /\ \/ session'.workspace \in {None, session.workspace}
            \/ job[c].turn \in Turns /\ session.active = job[c].turn
               /\ session'.active = Following(job[c].turn)
         /\ \A t \in Turns : snapshot'[t] # "none" => snapshot[t] # "none" \/ source[t] \in {"up", "down"}
<1>. DEFINE k == job[c]
<1>a. /\ k \in JobState /\ JobShape(k) /\ session \in SessionRow
      /\ snapshot \in [Turns -> {"none", "whole"}]
  BY DEF JobsInv, TypeOK
<1>1. CASE ClaimSession(c)
  BY <1>1, <1>a DEF ClaimSession, Claimed, SessionRow
<1>2. CASE Release(c)
  BY <1>2, <1>a DEF Release, Released, SessionRow
<1>3. CASE \/ Check(c) \/ EraseFails(c) \/ Erase(c) \/ Recheck(c) \/ ReadPrevious(c) \/ Verify(c)
           \/ Prepare(c) \/ Discard(c) \/ CommitFails(c) \/ Crash(c) \/ Unmark(c)
  BY <1>3, <1>a DEF Check, EraseFails, Erase, Recheck, ReadPrevious, Verify,
              Prepare, Discard, CommitFails, Crash, Unmark
<1>4. CASE Picks(c)
  BY <1>4 DEF Picks, PickExpired, PickParking, PickReplaced, PickFinalize, Pick
<1>5. CASE Suspend(c)
  BY <1>5, <1>a DEF Suspend
<1>6. CASE \/ SuspendFails(c) \/ StopSource(c) \/ Finalize(c) \/ MarkFinalized(c)
           \/ Unowned(c) \/ Uncommitted(c)
  BY <1>6 DEF SuspendFails, StopSource, Finalize, MarkFinalized, Unowned, Uncommitted
<1>7. CASE Clear(c)
  BY <1>7, <1>a DEF Clear, SessionRow
<1>8. CASE Commit(c) \/ Fallback(c)
  <2>1. k.kind = "parking"
    BY <1>a, <1>8 DEF Commit, Fallback, At, JobShape, Chores, JobState, Work
  <2>2. k.turn \in Turns /\ snapshot' = snapshot
    BY <1>a, <1>8, <2>1 DEF JobShape, Repeatable, Commit, Fallback
  <2>3. \/ session' = session
        \/ session.active = k.turn /\ \E w \in {"made", "cold", "keep"} : session' = ParkedSession(k.turn, w)
    BY <1>8 DEF Commit, Fallback, OwnsParkLease
  <2>4. ASSUME NEW w \in {"made", "cold", "keep"}, session' = ParkedSession(k.turn, w)
        PROVE  session'.active = Following(k.turn)
    BY <1>a, <2>4 DEF ParkedSession, SessionRow
  <2>. QED BY <2>2, <2>3, <2>4
<1>. QED BY <1>1, <1>2, <1>3, <1>4, <1>5, <1>6, <1>7, <1>8 DEF JobStep

\* Parking a turn is such a step.
LEMMA ParkedIsSeen ==
  ASSUME JobsInv, JobsInv', TurnsInv, NEW t \in Turns, Parked(t)
  PROVE  RequestSees
<1>a. /\ run \in [Turns -> RunRow] /\ run' \in [Turns -> RunRow] /\ t # None
  BY TurnsAssumption DEF JobsInv, TypeOK, Turns, None
<1>1. JobsStayRight
  BY SourcesOfJobs DEF TurnsInv
<1>2. /\ Following(t) \in {None} \cup Turns
      /\ Following(t) # None => Following(t) > t
  BY <1>a, FollowingInQueue
<1>3. Following(t) # t
  BY <1>2 DEF Turns, None
<1>. QED BY <1>a, <1>1, <1>2, <1>3 DEF Parked, RequestSees

\* So is a quiet step of a job.
LEMMA QuietIsSeen ==
  ASSUME JobsInv, JobsInv', TurnsInv, NEW c \in Reconcilers, Quiet(c),
         session'.workspace \in {None, session.workspace},
         \A t \in Turns : snapshot'[t] # "none" => snapshot[t] # "none" \/ source[t] \in {"up", "down"}
  PROVE  RequestSees
<1>1. JobsStayRight
  BY SourcesOfJobs DEF TurnsInv
<1>. QED BY <1>1 DEF Quiet, RequestSees

\* So are the steps of the claim.
LEMMA ClaimsAreSeen ==
  ASSUME JobsInv,
         \/ HolderGone \/ HolderPaused \/ ExpiryPasses \/ Idle
         \/ \E c \in Reconcilers : ReleaseStale(c) \/ BeatResumes(c)
  PROVE  RequestSees
<1>1. session \in SessionRow
  BY DEF JobsInv, TypeOK
<1>2. /\ session'.active = session.active /\ session'.workspace = session.workspace
      /\ UNCHANGED <<run, worker, source, snapshot>>
  BY <1>1 DEF HolderGone, HolderPaused, ExpiryPasses, Idle, vars, ReleaseStale, BeatResumes,
              Released, SessionRow
<1>. QED BY <1>2 DEF RequestSees, JobsStayRight

\* So is every step of the session.
LEMMA NextIsSeen ==
  ASSUME JobsInv, JobsInv', TurnsInv, Next
  PROVE  RequestSees
<1>1. CASE HolderGone \/ HolderPaused \/ ExpiryPasses \/ Idle
           \/ \E c \in Reconcilers : ReleaseStale(c) \/ BeatResumes(c)
  BY <1>1, ClaimsAreSeen
<1>2. ASSUME NEW t \in Turns, TurnMoves(t) PROVE RequestSees
  BY <1>2, TurnsAreSeen
<1>3. ASSUME NEW c \in Reconcilers, JobStep(c) \/ CommitFails(c) \/ Crash(c) \/ Picks(c)
      PROVE  RequestSees
  <2>1. Quiet(c) \/ (job[c].turn \in Turns /\ Parked(job[c].turn))
    BY <1>3, JobEffects DEF TurnsInv
  <2>2. /\ \/ session'.workspace \in {None, session.workspace}
           \/ job[c].turn \in Turns /\ session.active = job[c].turn
              /\ session'.active = Following(job[c].turn)
        /\ \A t \in Turns : snapshot'[t] # "none" => snapshot[t] # "none" \/ source[t] \in {"up", "down"}
    BY <1>3, JobWorkspaces
  <2>3. ASSUME Quiet(c) PROVE session'.workspace \in {None, session.workspace}
    <3>1. ASSUME job[c].turn \in Turns PROVE Following(job[c].turn) # job[c].turn
      <4>1. run \in [Turns -> RunRow]
        BY DEF JobsInv, TypeOK
      <4>2. Following(job[c].turn) \in {None} \cup Turns
            /\ (Following(job[c].turn) # None => Following(job[c].turn) > job[c].turn)
        BY <3>1, <4>1, FollowingInQueue
      <4>. QED BY <3>1, <4>2, TurnsAssumption DEF Turns, None
    <3>. QED BY <2>2, <2>3, <3>1 DEF Quiet
  <2>4. ASSUME job[c].turn \in Turns, Parked(job[c].turn)
        PROVE  RequestSees
    BY <2>4, ParkedIsSeen
  <2>. QED BY <2>1, <2>2, <2>3, <2>4, QuietIsSeen
<1>4. ASSUME NEW c \in Reconcilers, NEW t \in Turns, ParkPlain(c, t)
      PROVE  RequestSees
  BY <1>4, ParkPlainEffect, ParkedIsSeen DEF TurnsInv
<1>. QED BY <1>1, <1>2, <1>3, <1>4 DEF Next, PickTurn, Picks, TurnMoves

-----------------------------------------------------------------------------
(* The steps of the request. *)

\* The steps of the request that only read, or fail.
Reads == ReadSessionRow \/ ReadActive \/ ReadTurns \/ FindAgain \/ RemovalFails \/ RequestDies

\* The steps of the request with the claim.
Claims == ClaimDeletion \/ ReleaseDeletion \/ RequestGone \/ RequestPaused \/ RequestBeatResumes

\* The steps of the request that remove what is pending.
Cleans == FinalizePending \/ MarkPendingFinalized \/ ErasePending \/ MarkPendingErased
          \/ StopMachine \/ EraseWorkspace

RequestTyped == request \in Request /\ deleted \in BOOLEAN

\* A step of the request removes at most what it knows is attached or gone.
RemovesOnly ==
  /\ RowsTyped' /\ Removes /\ JobsStayRight /\ job' = job
  /\ \A t \in Turns : run[t].status = "ended" => run'[t].status = "ended"

\* Reading does no more than that.
LEMMA ReadsRemoveNothing ==
  ASSUME JobsInv, Reads \/ (DeleteRow /\ ~deleted')
  PROVE  RemovesOnly
<1>1. run' = run /\ session' = session /\ worker' = worker /\ source' = source /\ snapshot' = snapshot
      /\ job' = job
  BY DEF Reads, ReadSessionRow, ReadActive, ReadTurns, FindAgain, RemovalFails, RequestDies,
         DeleteRow, parkingVars
<1>2. faults' \in 0 .. MaxFaults
  BY FaultsAssumption DEF JobsInv, TypeOK, Reads, ReadSessionRow, ReadActive, ReadTurns, FindAgain,
     RemovalFails, RequestDies, DeleteRow, parkingVars, Fault
<1>. QED BY <1>1, <1>2 DEF RemovesOnly, Removes, JobsStayRight, JobsInv, TypeOK, RowsTyped

\* Nor does claiming.
LEMMA ClaimsRemoveNothing ==
  ASSUME JobsInv, Claims
  PROVE  RemovesOnly
<1>a. session \in SessionRow
  BY DEF JobsInv, TypeOK
<1>1. run' = run /\ worker' = worker /\ source' = source /\ snapshot' = snapshot /\ job' = job
  BY DEF Claims, ClaimDeletion, ReleaseDeletion, RequestGone, RequestPaused, RequestBeatResumes
<1>2. faults' \in 0 .. MaxFaults
  BY FaultsAssumption DEF JobsInv, TypeOK, Claims, ClaimDeletion, ReleaseDeletion, RequestGone,
     RequestPaused, RequestBeatResumes, Fault
<1>3. session' \in SessionRow /\ session'.active = session.active
  <2>1. \/ session' \in {session, Claimed(session, "archiving", "user"), Released(session)}
        \/ \E beat \in {"stale", "fresh"} : session' = [session EXCEPT !.beat = beat]
    BY DEF Claims, ClaimDeletion, ReleaseDeletion, RequestGone, RequestPaused, RequestBeatResumes
  <2>. QED BY <1>a, <2>1 DEF Claimed, Released, SessionRow, Operation
<1>. QED BY <1>1, <1>2, <1>3 DEF RemovesOnly, Removes, JobsStayRight, JobsInv, TypeOK, RowsTyped

\* Nor does cleaning: the machines it marks as finalized are gone.
LEMMA CleansRemove ==
  ASSUME JobsInv, TurnsInv, RequestInv, RequestTyped, Cleans
  PROVE  RemovesOnly
<1>a. /\ run \in [Turns -> RunRow] /\ source \in [Turns -> {"none", "up", "down", "gone"}]
      /\ snapshot \in [Turns -> {"none", "whole"}] /\ RowsTyped
  BY DEF JobsInv, TypeOK, RowsTyped
<1>b. /\ request.sources \in SUBSET (Turns \X Turns) /\ request.replaced \in SUBSET (Turns \X Turns)
      /\ request.active \in {None} \cup Turns /\ request.workspace \in {None} \cup Turns
  BY DEF RequestTyped, Request
<1>c. ASSUME run' = run, snapshot' = snapshot, UNCHANGED <<session, worker, job, faults>>,
             NEW t \in Turns, run[t].attached, source' = [source EXCEPT ![t] = "gone"]
      PROVE  RemovesOnly
  BY <1>a, <1>c DEF RemovesOnly, Removes, JobsStayRight, RowsTyped
<1>d. ASSUME run' = run, source' = source, UNCHANGED <<session, worker, job, faults>>,
             snapshot' = snapshot \/ \E t \in Turns : snapshot' = [snapshot EXCEPT ![t] = "none"]
      PROVE  RemovesOnly
  BY <1>a, <1>d DEF RemovesOnly, Removes, JobsStayRight, RowsTyped
<1>e. ASSUME source' = source, snapshot' = snapshot, UNCHANGED <<session, worker, job, faults>>,
             NEW t \in Turns, NEW m \in {None} \cup Turns,
             \/ /\ run' = [run EXCEPT ![t].finalize = m]
                /\ m = run[t].finalize \/ (m = None /\ source[t] = "gone")
             \/ run' = [run EXCEPT ![t].replaced = m]
      PROVE  RemovesOnly
  <2>1. run' \in [Turns -> RunRow]
    BY <1>a, <1>e DEF RunRow
  <2>2. \A u \in Turns :
          /\ run'[u].status = run[u].status /\ run'[u].attached = run[u].attached
          /\ run'[u].stopped = run[u].stopped
          /\ run'[u].finalize = run[u].finalize \/ (run'[u].finalize = None /\ source[u] = "gone")
    <3>1. CASE run' = [run EXCEPT ![t].finalize = m]
      BY <1>a, <1>e, <3>1 DEF RunRow
    <3>2. CASE run' = [run EXCEPT ![t].replaced = m]
      BY <1>a, <1>e, <3>2 DEF RunRow
    <3>. QED BY <1>e, <3>1, <3>2
  <2>. QED BY <1>a, <1>e, <2>1, <2>2 DEF RemovesOnly, Removes, JobsStayRight, RowsTyped
<1>1. CASE FinalizePending
  <2>1. PICK p \in request.sources : source' = [source EXCEPT ![p[1]] = "gone"]
    BY <1>1 DEF FinalizePending
  <2>2. p[1] \in Turns /\ run[p[1]].attached
    BY <1>b, <2>1 DEF RequestInv
  <2>. QED BY <1>1, <1>c, <2>1, <2>2 DEF FinalizePending
<1>2. CASE MarkPendingFinalized
  <2>1. request.at \in Turns /\ source[request.at] = "gone"
    BY <1>2 DEF RequestInv, MarkPendingFinalized
  <2>2. run[request.at].finalize \in {None} \cup Turns
    BY <1>a, <2>1 DEF RunRow
  <2>3. PICK m \in {None} \cup Turns : /\ run' = [run EXCEPT ![request.at].finalize = m]
                                       /\ m = run[request.at].finalize \/ m = None
    BY <1>2, <2>1, <2>2, <1>a DEF MarkPendingFinalized
  <2>. QED BY <1>2, <1>e, <2>1, <2>3 DEF MarkPendingFinalized
<1>3. CASE ErasePending
  <2>1. PICK p \in request.replaced : snapshot' = [snapshot EXCEPT ![p[2]] = "none"]
    BY <1>3 DEF ErasePending
  <2>2. p[2] \in Turns
    BY <1>b, <2>1
  <2>. QED BY <1>3, <1>d, <2>1, <2>2 DEF ErasePending
<1>4. CASE MarkPendingErased
  <2>1. request.at \in Turns
    BY <1>4 DEF RequestInv, MarkPendingErased
  <2>2. run[request.at].replaced \in {None} \cup Turns
    BY <1>a, <2>1 DEF RunRow
  <2>3. PICK m \in {None} \cup Turns : run' = [run EXCEPT ![request.at].replaced = m]
    BY <1>4, <2>1, <2>2, <1>a DEF MarkPendingErased
  <2>. QED BY <1>4, <1>e, <2>1, <2>3 DEF MarkPendingErased
<1>5. CASE StopMachine
  <2>1. CASE request.machine
    <3>1. request.active \in Turns /\ run[request.active].attached
      BY <1>b, <2>1 DEF RequestInv
    <3>. QED BY <1>5, <1>c, <2>1, <3>1 DEF StopMachine
  <2>2. CASE ~request.machine
    BY <1>5, <1>d, <2>2 DEF StopMachine
  <2>. QED BY <2>1, <2>2
<1>6. CASE EraseWorkspace
  BY <1>6, <1>b, <1>d DEF EraseWorkspace
<1>. QED BY <1>1, <1>2, <1>3, <1>4, <1>5, <1>6 DEF Cleans

\* Nor does any step of the request before the row is deleted.
LEMMA RequestRemovesOnly ==
  ASSUME JobsInv, TurnsInv, request.pc # "idle" => RequestInv, RequestTyped, DeletionStep, ~deleted'
  PROVE  RemovesOnly
<1>1. Cleans => RequestInv
  BY DEF Cleans, FinalizePending, MarkPendingFinalized, ErasePending, MarkPendingErased,
     StopMachine, EraseWorkspace
<1>2. Reads \/ Claims \/ Cleans \/ DeleteRow
  BY DEF DeletionStep, Reads, Claims, Cleans
<1>. QED BY <1>1, <1>2, ReadsRemoveNothing, ClaimsRemoveNothing, CleansRemove

\* So the request keeps the invariants of the session.
LEMMA SessionOfRemoval ==
  ASSUME JobsInv, TurnsInv, RemovesOnly
  PROVE  JobsInv' /\ TurnsInv'
<1>1. JobsInv'
  BY JobsKept DEF RemovesOnly
<1>2. (Shapes /\ Queue /\ Machines)'
  BY TurnsOfRemoval DEF RemovesOnly
<1>3. JobsKnow'
  BY JobsKnowKept DEF RemovesOnly, TurnsInv
<1>. QED BY <1>1, <1>2, <1>3 DEF TurnsInv

\* The steps of the request keep its types.
LEMMA RequestCopies ==
  ASSUME JobsInv, RequestTyped, request.pc # "idle" => RequestInv, DeletionStep
  PROVE  RequestTyped'
<1>a. /\ session \in SessionRow /\ run \in [Turns -> RunRow]
      /\ session.active \in {None} \cup Turns /\ session.workspace \in {None} \cup Turns
      /\ request \in Request /\ deleted \in BOOLEAN
  BY DEF JobsInv, TypeOK, SessionRow, RequestTyped
<1>b. NoRequest \in Request
  BY DEF NoRequest, Request, None
<1>c. ToFinalize \in SUBSET (Turns \X Turns) /\ ToErase \in SUBSET (Turns \X Turns)
  BY <1>a DEF ToFinalize, ToErase, RunRow
<1>d. deleted' \in BOOLEAN
  BY <1>a DEF DeletionStep, ReadSessionRow, ReadActive, ReadTurns, ClaimDeletion, FinalizePending,
     MarkPendingFinalized, ErasePending, MarkPendingErased, FindAgain, StopMachine, EraseWorkspace,
     DeleteRow, RemovalFails, ReleaseDeletion, RequestDies, RequestGone, RequestPaused,
     RequestBeatResumes, deletionVars
<1>. SUFFICES request' \in Request
  BY <1>d DEF RequestTyped
<1>e. ASSUME NEW pc \in {"active", "turns", "claim", "clean", "finalized", "erased",
                         "stop", "workspace", "delete", "release"}, Proceed(pc)
      PROVE  request' \in Request
  BY <1>a, <1>e DEF Proceed, Request
<1>1. CASE ReadSessionRow
  <2>1. LatestTurn \in {None} \cup Turns
    BY LatestIs
  <2>. QED BY <1>1, <1>a, <1>b, <2>1 DEF ReadSessionRow, Request
<1>2. CASE ReadActive
  <2>1. CASE request.active # None /\ Ended(request.active)
    <3>1. run[request.active] \in RunRow
      BY <1>a, <2>1 DEF Request
    <3>2. (run[request.active].attached /\ ~run[request.active].stopped) \in BOOLEAN
      BY <3>1 DEF RunRow
    <3>3. request' = [request EXCEPT !.pc = "turns",
                        !.machine = run[request.active].attached /\ ~run[request.active].stopped]
      BY <1>2, <2>1 DEF ReadActive
    <3>. DEFINE machine == run[request.active].attached /\ ~run[request.active].stopped
    <3>4. machine \in BOOLEAN /\ request' = [request EXCEPT !.pc = "turns", !.machine = machine]
      BY <3>2, <3>3
    <3>. HIDE DEF machine
    <3>. QED BY <1>a, <3>4 DEF Request
  <2>2. CASE ~(request.active # None /\ Ended(request.active))
    BY <1>2, <1>a, <1>b, <2>2 DEF ReadActive, Request
  <2>. QED BY <2>1, <2>2
<1>3. CASE ReadTurns
  <2>1. \/ request' = NoRequest
        \/ request' = [request EXCEPT !.pc = "claim", !.sources = ToFinalize, !.replaced = ToErase]
    BY <1>3 DEF ReadTurns
  <2>. QED BY <1>a, <1>b, <1>c, <2>1 DEF Request
<1>10. CASE FindAgain
  <2>1. \/ request' = [request EXCEPT !.sources = ToFinalize, !.replaced = ToErase]
        \/ request' = [request EXCEPT !.pc = "stop"]
    BY <1>10 DEF FindAgain
  <2>2. CASE request' = [request EXCEPT !.sources = ToFinalize, !.replaced = ToErase]
    BY <1>a, <1>c, <2>2 DEF Request
  <2>3. CASE request' = [request EXCEPT !.pc = "stop"]
    BY <1>a, <2>3 DEF Request
  <2>. QED BY <2>1, <2>2, <2>3
<1>4. CASE ClaimDeletion
  BY <1>4, <1>b, <1>e DEF ClaimDeletion
<1>5. CASE FinalizePending
  <2>1. PICK p \in request.sources :
          request' = [request EXCEPT !.pc = "finalized", !.at = p[1], !.of = p[2], !.sources = @ \ {p}]
    BY <1>5 DEF FinalizePending
  <2>2. p[1] \in Turns /\ p[2] \in Turns
    BY <1>a, <2>1 DEF Request
  <2>. QED BY <1>a, <2>1, <2>2 DEF Request
<1>6. CASE ErasePending
  <2>1. PICK p \in request.replaced :
          request' = [request EXCEPT !.pc = "erased", !.at = p[1], !.of = p[2], !.replaced = @ \ {p}]
    BY <1>6 DEF ErasePending
  <2>2. p[1] \in Turns /\ p[2] \in Turns
    BY <1>a, <2>1 DEF Request
  <2>. QED BY <1>a, <2>1, <2>2 DEF Request
<1>7. CASE MarkPendingFinalized \/ MarkPendingErased \/ StopMachine \/ EraseWorkspace \/ RemovalFails
  BY <1>7, <1>e DEF MarkPendingFinalized, MarkPendingErased, StopMachine, EraseWorkspace, RemovalFails
<1>8. CASE DeleteRow \/ ReleaseDeletion \/ RequestDies
  BY <1>8, <1>b, <1>e DEF DeleteRow, ReleaseDeletion, RequestDies
<1>9. CASE RequestGone \/ RequestPaused \/ RequestBeatResumes
  BY <1>9, <1>a DEF RequestGone, RequestPaused, RequestBeatResumes, deletionVars
<1>. QED BY <1>1, <1>2, <1>3, <1>4, <1>5, <1>6, <1>7, <1>8, <1>9, <1>10 DEF DeletionStep

\* A step of the request leaves the queue as it is.
SameQueue ==
  /\ session'.active = session.active /\ session'.workspace = session.workspace
  /\ LatestTurn' = LatestTurn
  /\ \A t \in Turns :
       /\ run'[t].status = run[t].status /\ run'[t].attached = run[t].attached
       /\ run'[t].stopped = run[t].stopped
       /\ run'[t].finalize = run[t].finalize \/ source[t] = "gone"
       /\ source'[t] = source[t] \/ source'[t] = "gone"
       /\ snapshot'[t] = snapshot[t] \/ snapshot'[t] = "none"

\* The steps of the request leave the queue as it is.
LEMMA RequestKeepsQueue ==
  ASSUME JobsInv, TurnsInv, request.pc # "idle" => RequestInv, RequestTyped, DeletionStep, ~deleted'
  PROVE  SameQueue
<1>a. /\ session \in SessionRow /\ run \in [Turns -> RunRow] /\ snapshot \in [Turns -> {"none", "whole"}]
      /\ source \in [Turns -> {"none", "up", "down", "gone"}]
  BY DEF JobsInv, TypeOK
<1>b. RemovesOnly
  BY RequestRemovesOnly
<1>1. LatestTurn' = LatestTurn
  <2>1. {t \in Turns : run'[t].status # "absent"} = {t \in Turns : run[t].status # "absent"}
    BY <1>b DEF RemovesOnly, Removes
  <2>. DEFINE Greatest(S) == IF S = {} THEN None ELSE CHOOSE t \in S : \A u \in S : u <= t
              made == {t \in Turns : run[t].status # "absent"}
              after == {t \in Turns : run'[t].status # "absent"}
  <2>2. LatestTurn = Greatest(made)
    BY Zenon DEF LatestTurn
  <2>3. LatestTurn' = Greatest(after)
    BY Zenon DEF LatestTurn
  <2>4. made = after
    BY <2>1
  <2>. HIDE DEF Greatest, made, after
  <2>. QED BY <2>2, <2>3, <2>4
<1>2. session'.workspace = session.workspace
  <2>1. \/ session' \in {session, Claimed(session, "archiving", "user"), Released(session)}
        \/ \E beat \in {"stale", "fresh"} : session' = [session EXCEPT !.beat = beat]
    BY DEF DeletionStep, ReadSessionRow, ReadActive, ReadTurns, ClaimDeletion, FinalizePending,
       MarkPendingFinalized, ErasePending, MarkPendingErased, FindAgain, StopMachine, EraseWorkspace,
       DeleteRow, RemovalFails, ReleaseDeletion, RequestDies, RequestGone, RequestPaused,
       RequestBeatResumes, parkingVars
  <2>. QED BY <1>a, <2>1 DEF Claimed, Released, SessionRow
<1>3. \A t \in Turns : source'[t] = source[t] \/ source'[t] = "gone"
  BY <1>a DEF DeletionStep, ReadSessionRow, ReadActive, ReadTurns, ClaimDeletion, FinalizePending,
       MarkPendingFinalized, ErasePending, MarkPendingErased, FindAgain, StopMachine, EraseWorkspace,
       DeleteRow, RemovalFails, ReleaseDeletion, RequestDies, RequestGone, RequestPaused,
       RequestBeatResumes, parkingVars
<1>4. \A t \in Turns : snapshot'[t] = snapshot[t] \/ snapshot'[t] = "none"
  BY <1>a DEF DeletionStep, ReadSessionRow, ReadActive, ReadTurns, ClaimDeletion, FinalizePending,
       MarkPendingFinalized, ErasePending, MarkPendingErased, FindAgain, StopMachine, EraseWorkspace,
       DeleteRow, RemovalFails, ReleaseDeletion, RequestDies, RequestGone, RequestPaused,
       RequestBeatResumes, parkingVars
<1>. QED BY <1>b, <1>1, <1>2, <1>3, <1>4 DEF RemovesOnly, Removes, SameQueue

\* What the request reads is as it should be.
LEMMA ReadsKnow ==
  ASSUME JobsInv, TurnsInv, request.pc # "idle" => RequestInv, RequestTyped, SameQueue,
         ReadSessionRow \/ ReadActive \/ ReadTurns \/ FindAgain, request'.pc # "idle"
  PROVE  RequestInv'
<1>a. /\ session \in SessionRow /\ run \in [Turns -> RunRow]
      /\ session.active \in {None} \cup Turns /\ session.workspace \in {None} \cup Turns
      /\ request \in Request
      /\ request.active \in {None} \cup Turns /\ request.latest \in {None} \cup Turns
  BY DEF JobsInv, TypeOK, SessionRow, RequestTyped, Request
<1>b. /\ run' = run /\ session' = session /\ source' = source /\ snapshot' = snapshot
      /\ LatestTurn' = LatestTurn
  BY DEF ReadSessionRow, ReadActive, ReadTurns, FindAgain, parkingVars, SameQueue
<1>c. SameTurns' <=> session.active = request'.active /\ LatestTurn = request'.latest
  BY <1>b DEF SameTurns
<1>d. \A t \in Turns : source[t] # "none" => run[t].attached
  BY DEF TurnsInv, Shapes, TurnShape
<1>e. \A t \in Turns : source[t] \in {"up", "down"} /\ run[t].finalize = t => <<t, t>> \in ToFinalize
  <2>1. \A t \in Turns : TurnShape(t) /\ t # None
    BY TurnsAssumption DEF TurnsInv, Shapes, Turns, None
  <2>. QED BY <2>1 DEF TurnShape, ToFinalize
<1>f. \A p \in ToFinalize : run[p[1]].attached
  BY DEF ToFinalize
<1>1. CASE ReadSessionRow
  <2>1. LatestTurn \in Turns /\ run[LatestTurn].status # "absent"
    BY <1>1, LatestIs DEF ReadSessionRow
  <2>2. session.active <= LatestTurn
    <3>1. session.active # None => session.active <= LatestTurn
      BY <1>a, LatestIs DEF TurnsInv, Queue
    <3>. QED BY <1>a, <2>1, <3>1, TurnsAssumption DEF Turns, None
  <2>3. request' = [NoRequest EXCEPT
          !.pc = "active", !.active = session.active, !.latest = LatestTurn,
          !.workspace = session.workspace]
    BY <1>1 DEF ReadSessionRow
  <2>4. /\ request'.pc = "active" /\ request'.active = session.active /\ request'.latest = LatestTurn
        /\ request'.workspace = session.workspace /\ request'.machine = FALSE
        /\ request'.sources = {}
    BY <2>3 DEF NoRequest
  <2>. QED BY <1>b, <1>c, <2>1, <2>2, <2>4 DEF RequestInv, Claiming
<1>2. CASE ReadActive
  <2>. DEFINE t == request.active
              machine == IF t = None THEN request.machine ELSE run[t].attached /\ ~run[t].stopped
  <2>1. RequestInv
    BY <1>2 DEF ReadActive
  <2>2. t = None \/ Ended(t)
    BY <1>2 DEF ReadActive, NoRequest
  <2>3. /\ request'.pc = "turns" /\ request'.active = t /\ request'.latest = request.latest
        /\ request'.workspace = request.workspace /\ request'.sources = request.sources
        /\ request'.machine = machine
    BY <1>2, <1>a, <2>2 DEF ReadActive, Request
  <2>4. machine => t # None /\ run[t].attached
    BY <2>1 DEF RequestInv
  <2>5. t # None => Ended(t) /\ (run[t].attached /\ ~run[t].stopped => machine)
    BY <2>2
  <2>. HIDE DEF machine
  <2>. QED BY <1>b, <1>c, <2>1, <2>3, <2>4, <2>5 DEF RequestInv, Claiming, SameTurns, Ended
<1>3. CASE ReadTurns
  <2>1. RequestInv /\ request.pc = "turns"
    BY <1>3 DEF ReadTurns
  <2>2. /\ \A t \in Turns \ {request.active} : ~(run[t].status = "queued" \/ InFlight(t))
        /\ request' = [request EXCEPT !.pc = "claim", !.sources = ToFinalize, !.replaced = ToErase]
    BY <1>3 DEF ReadTurns, NoRequest
  <2>3. /\ request'.pc = "claim" /\ request'.active = request.active /\ request'.latest = request.latest
        /\ request'.workspace = request.workspace /\ request'.sources = ToFinalize
        /\ request'.machine = request.machine
    BY <1>a, <2>2 DEF Request
  <2>4. ASSUME NEW t \in 1 .. request.latest
        PROVE  Ended(t)
    <3>1. t \in Turns /\ request.latest \in Turns /\ run[request.latest].status # "absent"
      BY <1>a, <2>1, TurnsAssumption DEF RequestInv, Turns
    <3>2. t = request.latest \/ t < request.latest
      BY <3>1 DEF Turns
    <3>3. run[t].status # "absent"
      BY <3>1, <3>2 DEF TurnsInv, Queue
    <3>4. CASE t = request.active
      BY <2>1, <3>1, <3>4, TurnsAssumption DEF RequestInv, Turns, None
    <3>5. CASE t # request.active
      BY <1>a, <2>2, <3>1, <3>3, <3>5 DEF InFlight, Ended, RunRow, Status
    <3>. QED BY <3>4, <3>5
  <2>. QED BY <1>b, <1>c, <1>e, <1>f, <2>1, <2>3, <2>4 DEF RequestInv, Claiming, SameTurns, Ended
<1>4. CASE FindAgain
  <2>1. RequestInv /\ request.pc = "clean"
    BY <1>4 DEF FindAgain
  <2>2. \/ /\ request' = [request EXCEPT !.pc = "stop"] /\ request.sources = {}
        \/ request' = [request EXCEPT !.sources = ToFinalize, !.replaced = ToErase]
    BY <1>4 DEF FindAgain
  <2>3. CASE request' = [request EXCEPT !.pc = "stop"] /\ request.sources = {}
    <3>1. /\ request'.pc = "stop" /\ request'.active = request.active /\ request'.latest = request.latest
          /\ request'.workspace = request.workspace /\ request'.sources = request.sources
          /\ request'.machine = request.machine
      BY <1>a, <2>3 DEF Request
    <3>. QED BY <1>b, <1>c, <2>1, <2>3, <3>1 DEF RequestInv, Claiming, SameTurns, Ended
  <2>4. CASE request' = [request EXCEPT !.sources = ToFinalize, !.replaced = ToErase]
    <3>1. /\ request'.pc = "clean" /\ request'.active = request.active /\ request'.latest = request.latest
          /\ request'.workspace = request.workspace /\ request'.sources = ToFinalize
          /\ request'.machine = request.machine
      BY <1>a, <2>1, <2>4 DEF Request
    <3>. QED BY <1>b, <1>c, <1>e, <1>f, <2>1, <3>1 DEF RequestInv, Claiming, SameTurns, Ended
  <2>. QED BY <2>2, <2>3, <2>4
<1>. QED BY <1>1, <1>2, <1>3, <1>4

\* What it did not read in this step, it still knows.
LEMMA RequestStillKnows ==
  ASSUME JobsInv, TurnsInv, RequestInv, RequestTyped, SameQueue, JobsStayRight,
         request'.active = request.active, request'.latest = request.latest,
         request'.workspace = request.workspace, request'.machine = request.machine,
         \A p \in request'.sources : p \in request.sources,
         \A p \in request.sources \ request'.sources : p[1] \in Turns /\ source'[p[1]] = "gone",
         \/ request.pc = "claim" /\ request'.pc = "clean"
         \/ request.pc = "claim" /\ request'.pc = "stop" /\ request'.sources = {}
         \/ request.pc = "clean" /\ request'.pc = "finalized" /\ request'.at \in Turns
            /\ source'[request'.at] = "gone"
         \/ request.pc = "clean" /\ request'.pc = "erased" /\ request'.at \in Turns
         \/ request.pc \in {"finalized", "erased"} /\ request'.pc = "clean"
         \/ request.pc = "stop" /\ request'.pc = "workspace"
            /\ (request.machine => source'[request.active] = "gone")
         \/ request.pc = "workspace" /\ request'.pc = "delete"
            /\ (request.workspace # None => snapshot'[request.workspace] = "none")
         \/ request'.pc = "release"
         \/ request'.pc = request.pc /\ request'.sources = request.sources /\ request'.at = request.at
  PROVE  RequestInv'
<1>a. /\ request.active \in {None} \cup Turns /\ request.latest \in Turns
      /\ request.workspace \in {None} \cup Turns
      /\ request.sources \in SUBSET (Turns \X Turns)
      /\ session.active \in {None} \cup Turns
  BY DEF RequestTyped, Request, RequestInv, JobsInv, TypeOK, SessionRow
<1>b. SameTurns' <=> SameTurns
  BY DEF SameQueue, SameTurns
<1>c. request'.pc \in Claiming => request.pc \in Claiming
  BY DEF Claiming
<1>d. request'.pc \in Claiming \cup {"turns"} => request.pc \in Claiming \cup {"turns"}
  BY DEF Claiming
<1>1. request.latest \in Turns /\ run'[request.latest].status # "absent" /\ request.active <= request.latest
  BY DEF RequestInv, SameQueue
<1>2. \/ session'.active \in {None, request'.active}
      \/ session'.active > (IF request'.active = None THEN request'.latest ELSE request'.active)
  BY DEF RequestInv, SameQueue
<1>3. request'.pc \in Claiming \cup {"turns"} /\ request'.active # None =>
        /\ run'[request'.active].status = "ended"
        /\ run'[request'.active].attached /\ ~run'[request'.active].stopped => request'.machine
  BY <1>a, <1>d DEF RequestInv, SameQueue, Ended
<1>4. request'.machine => request'.active # None /\ run'[request'.active].attached
  BY <1>a DEF RequestInv, SameQueue
<1>5. request'.pc \in Claiming => \A t \in 1 .. request'.latest : run'[t].status = "ended"
  <2>1. \A t \in 1 .. request.latest : t \in Turns
    BY <1>a, TurnsAssumption DEF Turns
  <2>. QED BY <1>c, <2>1 DEF RequestInv, SameQueue, Ended
<1>6. request'.pc \in Claiming /\ SameTurns' =>
        \A t \in Turns : source'[t] \in {"up", "down"} /\ run'[t].finalize = t => <<t, t>> \in request'.sources
  <2>. SUFFICES ASSUME request'.pc \in Claiming, SameTurns, NEW t \in Turns,
                       source'[t] \in {"up", "down"}, run'[t].finalize = t
                PROVE  <<t, t>> \in request'.sources
    BY <1>b
  <2>1. source[t] \in {"up", "down"} /\ run[t].finalize = t
    BY DEF SameQueue
  <2>2. <<t, t>> \in request.sources
    BY <1>c, <2>1 DEF RequestInv
  <2>. QED BY <2>2
<1>7. request'.pc \in {"stop", "workspace", "delete"} => request'.sources = {}
  <2>1. request.pc \in {"stop", "workspace", "delete"} => request.sources = {}
    BY DEF RequestInv
  <2>. QED BY <2>1
<1>8. /\ request'.pc \in {"finalized", "erased"} => request'.at \in Turns
      /\ request'.pc = "finalized" => source'[request'.at] = "gone"
  <2>1. /\ request.pc \in {"finalized", "erased"} => request.at \in Turns
        /\ request.pc = "finalized" => source[request.at] = "gone"
    BY DEF RequestInv
  <2>2. request.at \in Turns /\ source[request.at] = "gone" => source'[request.at] = "gone"
    BY DEF JobsStayRight
  <2>. QED BY <2>1, <2>2
<1>9. \A p \in request'.sources : run'[p[1]].attached
  BY <1>a DEF RequestInv, SameQueue
<1>10. request'.pc \in {"workspace", "delete"} /\ request'.machine => source'[request'.active] = "gone"
  <2>1. request.pc \in {"workspace", "delete"} /\ request.machine => source[request.active] = "gone"
    BY DEF RequestInv
  <2>2. request.machine => request.active \in Turns
    BY <1>a DEF RequestInv
  <2>. QED BY <2>1, <2>2 DEF JobsStayRight
<1>11. SameTurns' => session'.workspace \in {None, request'.workspace}
  BY <1>b DEF RequestInv, SameQueue
<1>12. request'.pc = "delete" /\ SameTurns' /\ request'.workspace # None =>
         snapshot'[request'.workspace] = "none"
  <2>1. request.pc = "delete" /\ SameTurns /\ request.workspace # None => snapshot[request.workspace] = "none"
    BY DEF RequestInv
  <2>. QED BY <1>a, <1>b, <2>1 DEF SameQueue
<1>. QED BY <1>1, <1>2, <1>3, <1>4, <1>5, <1>6, <1>7, <1>8, <1>9, <1>10, <1>11, <1>12
         DEF RequestInv, Ended

\* The steps of the request keep RequestInv.
LEMMA RequestWorks ==
  ASSUME JobsInv, TurnsInv, request.pc # "idle" => RequestInv, RequestTyped, DeletionStep,
         ~deleted', request'.pc # "idle"
  PROVE  RequestInv'
<1>a. request \in Request /\ source \in [Turns -> {"none", "up", "down", "gone"}]
      /\ snapshot \in [Turns -> {"none", "whole"}]
  BY DEF RequestTyped, JobsInv, TypeOK
<1>b. SameQueue /\ JobsStayRight
  BY RequestKeepsQueue, RequestRemovesOnly DEF RemovesOnly
<1>c. ASSUME NEW pc, request' = [request EXCEPT !.pc = pc]
      PROVE  /\ request'.pc = pc /\ request'.active = request.active /\ request'.latest = request.latest
             /\ request'.workspace = request.workspace /\ request'.machine = request.machine
             /\ request'.sources = request.sources /\ request'.at = request.at
  BY <1>a, <1>c DEF Request
<1>d. ASSUME NEW p, NEW pc, request.pc = "clean",
             \/ request' = [request EXCEPT !.pc = pc, !.at = p[1], !.of = p[2], !.sources = @ \ {p}]
             \/ request' = [request EXCEPT !.pc = pc, !.at = p[1], !.of = p[2], !.replaced = @ \ {p}]
                /\ request.sources = {}
      PROVE  /\ request'.pc = pc /\ request'.active = request.active /\ request'.latest = request.latest
             /\ request'.workspace = request.workspace /\ request'.machine = request.machine
             /\ request'.sources = request.sources \ {p} /\ request'.at = p[1]
  BY <1>a, <1>d DEF Request
<1>e. request.sources \in SUBSET (Turns \X Turns) /\ request.replaced \in SUBSET (Turns \X Turns)
      /\ request.active \in {None} \cup Turns /\ request.workspace \in {None} \cup Turns
  BY <1>a DEF Request
<1>1. CASE ReadSessionRow \/ ReadActive \/ ReadTurns \/ FindAgain
  BY <1>1, <1>b, ReadsKnow
<1>2. CASE ClaimDeletion
  <2>1. /\ request.pc = "claim"
        /\ \/ request' = [request EXCEPT !.pc = "clean"]
           \/ request' = [request EXCEPT !.pc = "stop"] /\ request.sources = {}
    BY <1>2 DEF ClaimDeletion, Proceed, NoRequest
  <2>. QED BY <1>b, <1>c, <2>1, RequestStillKnows
<1>3. CASE FinalizePending
  <2>1. PICK p \in request.sources :
          /\ request' = [request EXCEPT !.pc = "finalized", !.at = p[1], !.of = p[2], !.sources = @ \ {p}]
          /\ source' = [source EXCEPT ![p[1]] = "gone"]
    BY <1>3 DEF FinalizePending
  <2>2. request.pc = "clean" /\ p[1] \in Turns
    BY <1>3, <1>e DEF FinalizePending
  <2>3. source'[p[1]] = "gone"
    BY <1>a, <2>1, <2>2
  <2>4. /\ request'.pc = "finalized" /\ request'.active = request.active /\ request'.latest = request.latest
        /\ request'.workspace = request.workspace /\ request'.machine = request.machine
        /\ request'.sources = request.sources \ {p} /\ request'.at = p[1]
    BY <1>d, <2>1, <2>2
  <2>. QED BY <1>b, <2>2, <2>3, <2>4, RequestStillKnows
<1>4. CASE ErasePending
  <2>1. PICK p \in request.replaced :
          request' = [request EXCEPT !.pc = "erased", !.at = p[1], !.of = p[2], !.replaced = @ \ {p}]
    BY <1>4 DEF ErasePending
  <2>2. request.pc = "clean" /\ p[1] \in Turns /\ request.sources = {}
    BY <1>4, <1>e DEF ErasePending
  <2>4. /\ request'.pc = "erased" /\ request'.active = request.active /\ request'.latest = request.latest
        /\ request'.workspace = request.workspace /\ request'.machine = request.machine
        /\ request'.sources = request.sources \ {p} /\ request'.at = p[1]
    BY <1>d, <2>1, <2>2
  <2>. QED BY <1>b, <2>2, <2>4, RequestStillKnows
<1>5. CASE MarkPendingFinalized \/ MarkPendingErased
  <2>1. request.pc \in {"finalized", "erased"} /\ request' = [request EXCEPT !.pc = "clean"]
    BY <1>5 DEF MarkPendingFinalized, MarkPendingErased, Proceed
  <2>. QED BY <1>b, <1>c, <2>1, RequestStillKnows
<1>6. CASE StopMachine
  <2>1. request.pc = "stop" /\ request' = [request EXCEPT !.pc = "workspace"]
    BY <1>6 DEF StopMachine, Proceed
  <2>2. request.machine => source'[request.active] = "gone"
    <3>1. request.machine => request.active \in Turns
      BY <1>e, <2>1 DEF RequestInv
    <3>. QED BY <1>6, <1>a, <3>1 DEF StopMachine
  <2>. QED BY <1>b, <1>c, <2>1, <2>2, RequestStillKnows
<1>7. CASE EraseWorkspace
  <2>1. request.pc = "workspace" /\ request' = [request EXCEPT !.pc = "delete"]
    BY <1>7 DEF EraseWorkspace, Proceed
  <2>2. request.workspace # None => snapshot'[request.workspace] = "none"
    BY <1>7, <1>a, <1>e DEF EraseWorkspace
  <2>. QED BY <1>b, <1>c, <2>1, <2>2, RequestStillKnows
<1>8. CASE RemovalFails \/ DeleteRow
  <2>1. request.pc # "idle" /\ request' = [request EXCEPT !.pc = "release"]
    BY <1>8 DEF RemovalFails, DeleteRow, Proceed
  <2>. QED BY <1>b, <1>c, <2>1, RequestStillKnows
<1>9. CASE RequestGone \/ RequestPaused \/ RequestBeatResumes
  <2>1. request' = request
    BY <1>9 DEF RequestGone, RequestPaused, RequestBeatResumes, deletionVars
  <2>. QED BY <1>b, <2>1, RequestStillKnows
<1>10. CASE ReleaseDeletion \/ RequestDies
  BY <1>10 DEF ReleaseDeletion, RequestDies, NoRequest
<1>. QED BY <1>1, <1>2, <1>3, <1>4, <1>5, <1>6, <1>7, <1>8, <1>9, <1>10 DEF DeletionStep

-----------------------------------------------------------------------------
(* The deletion, and what comes after it. *)

\* When the row is deleted, the request knows that every turn has ended and
\* that no machine is left.
LEMMA DeletionLeavesNothing ==
  ASSUME JobsInv, TurnsInv, RequestInv, RequestTyped, DeleteRow, deleted', ~deleted
  PROVE  /\ JobsInv' /\ NothingLeft'
         /\ \A t \in Turns : run[t].status \in {"absent", "ended"}
         /\ session.workspace # None => snapshot[session.workspace] = "none"
<1>a. /\ session \in SessionRow /\ session.active \in {None} \cup Turns
      /\ source \in [Turns -> {"none", "up", "down", "gone"}]
      /\ request.active \in {None} \cup Turns /\ request.latest \in Turns
      /\ request.pc = "delete" /\ request.pc \in Claiming /\ request.sources = {}
      /\ SameTurns
  BY DEF JobsInv, TypeOK, SessionRow, RequestTyped, Request, RequestInv, Claiming, DeleteRow
<1>b. /\ session' = [Released(session) EXCEPT !.active = None, !.workspace = None, !.expiry = "none"]
      /\ run' = [t \in Turns |-> GoneRun] /\ request' = NoRequest
      /\ UNCHANGED <<worker, source, snapshot, job, faults>>
  BY <1>a DEF DeleteRow
<1>1. \A t \in Turns : run[t].status \in {"absent", "ended"}
  <2>1. \A u \in Turns : u > request.latest => run[u].status = "absent"
    BY <1>a, LatestIs DEF SameTurns, RequestInv
  <2>2. \A t \in 1 .. request.latest : run[t].status = "ended"
    BY <1>a DEF RequestInv, Ended
  <2>. QED BY <1>a, <2>1, <2>2 DEF Turns
<1>2. \A t \in Turns : source[t] \in {"none", "gone"}
  <2>. SUFFICES ASSUME NEW t \in Turns, source[t] \in {"up", "down"} PROVE FALSE
    BY <1>a
  <2>1. \/ session.active = t /\ ~run[t].stopped
        \/ run[t].finalize = t
    BY <1>1 DEF TurnsInv, Machines, SourceTracked, InFlight
  <2>2. CASE run[t].finalize = t
    BY <1>a, <2>2 DEF RequestInv
  <2>3. CASE session.active = t /\ ~run[t].stopped
    <3>1. request.active = t /\ t # None /\ run[t].attached
      BY <1>a, <2>3, TurnsAssumption DEF SameTurns, TurnsInv, Shapes, TurnShape, Turns, None
    <3>. QED BY <1>a, <2>3, <3>1 DEF RequestInv
  <2>. QED BY <2>1, <2>2, <2>3
<1>3. session.workspace # None => snapshot[session.workspace] = "none"
  BY <1>a DEF RequestInv
<1>4. session' \in SessionRow /\ session'.active = None
  BY <1>a, <1>b DEF SessionRow, Released, Operation, None
<1>5. run' \in [Turns -> RunRow] /\ \A t \in Turns : run'[t].status = "ended"
  BY <1>b DEF RunRow, GoneRun, Status, None
<1>6. RowsTyped'
  BY <1>b, <1>4, <1>5 DEF RowsTyped, JobsInv, TypeOK
<1>7. JobsInv'
  BY <1>b, <1>5, <1>6, JobsKept
<1>8. NothingLeft'
  BY <1>b, <1>2, <1>4 DEF NothingLeft
<1>. QED BY <1>1, <1>3, <1>7, <1>8

\* After it, no worker and no reconciler brings anything back.
LEMMA NothingComesBack ==
  ASSUME JobsInv, NothingLeft, Next, run' = run, request' = request
  PROVE  NothingLeft'
<1>a. /\ session \in SessionRow /\ source \in [Turns -> {"none", "up", "down", "gone"}]
      /\ session.active = None /\ \A t \in Turns : source[t] \in {"none", "gone"}
      /\ \A t \in Turns : run[t].status = "ended" /\ t # None
  BY TurnsAssumption DEF JobsInv, TypeOK, NothingLeft, GoneRun, Turns, None
<1>. SUFFICES session'.active = None /\ \A t \in Turns : source'[t] \in {"none", "gone"}
  BY DEF NothingLeft
<1>1. CASE HolderGone \/ HolderPaused \/ ExpiryPasses \/ Idle
           \/ \E c \in Reconcilers : ReleaseStale(c) \/ BeatResumes(c)
  BY <1>1, <1>a DEF HolderGone, HolderPaused, ExpiryPasses, Idle, vars, ReleaseStale, BeatResumes,
              Released, SessionRow
<1>2. ASSUME NEW t \in Turns, TurnMoves(t)
      PROVE  session'.active = None /\ \A u \in Turns : source'[u] \in {"none", "gone"}
  <2>1. ~CreateTurn(t) /\ ~EndTurn(t) /\ ~ClaimTurn(t) /\ ~WorkspaceGone(t)
    BY <1>a DEF CreateTurn, Latest, EndTurn, ClaimTurn, WorkspaceGone
  <2>2. CASE WorkerStep(t) \/ WorkerDies(t) \/ LeaseExpires(t) \/ MachineDies(t)
    BY <1>a, <2>2 DEF WorkerStep, StartMachine, ProvisionFails, LaunchFails,
       MarkRunning, StopLost, StampLost, WorkerDies, LeaseExpires, MachineDies
  <2>. QED BY <1>2, <2>1, <2>2 DEF TurnMoves
<1>3. ASSUME NEW c \in Reconcilers, JobStep(c) \/ CommitFails(c) \/ Crash(c) \/ Picks(c)
      PROVE  session'.active = None /\ \A u \in Turns : source'[u] \in {"none", "gone"}
  <2>. DEFINE k == job[c]
  <2>a. k \in JobState /\ JobShape(k)
    BY DEF JobsInv, TypeOK
  <2>b. k.kind = "parking" => k.turn \in Turns
    BY <2>a DEF JobShape, Repeatable
  <2>1. CASE ClaimSession(c) \/ Release(c) \/ Clear(c)
    BY <1>a, <2>1 DEF ClaimSession, Claimed, Release, Released, Clear, SessionRow
  <2>2. CASE \/ Check(c) \/ EraseFails(c) \/ Erase(c) \/ Recheck(c) \/ ReadPrevious(c) \/ Verify(c)
             \/ Prepare(c) \/ Discard(c) \/ CommitFails(c) \/ Crash(c) \/ Unmark(c) \/ MarkFinalized(c)
             \/ Unowned(c) \/ Uncommitted(c)
    BY <1>a, <2>2 DEF Check, EraseFails, Erase, Recheck, ReadPrevious, Verify, MarkFinalized,
                Prepare, Discard, CommitFails, Crash, Unmark, Unowned, Uncommitted
  <2>3. CASE Picks(c)
    BY <1>a, <2>3 DEF Picks, PickExpired, PickParking, PickReplaced, PickFinalize, Pick
  <2>4. CASE StopSource(c) \/ Finalize(c)
    BY <1>a, <2>4 DEF StopSource, Finalize
  <2>5. CASE Suspend(c) \/ SuspendFails(c)
    <3>1. k.kind = "parking"
      BY <2>a, <2>5 DEF Suspend, SuspendFails, At, JobShape, Chores, JobState, Work
    <3>. QED BY <1>a, <2>b, <2>5, <3>1 DEF Suspend, SuspendFails
  <2>6. CASE Commit(c) \/ Fallback(c)
    <3>1. k.kind = "parking"
      BY <2>a, <2>6 DEF Commit, Fallback, At, JobShape, Chores, JobState, Work
    <3>2. ~OwnsParkLease(c)
      BY <1>a, <2>b, <3>1 DEF OwnsParkLease
    <3>. QED BY <1>a, <2>6, <3>2 DEF Commit, Fallback
  <2>. QED BY <1>3, <2>1, <2>2, <2>3, <2>4, <2>5, <2>6 DEF JobStep
<1>4. ASSUME NEW c \in Reconcilers, NEW t \in Turns
      PROVE  ~ParkPlain(c, t)
  BY <1>a DEF ParkPlain
<1>. QED BY <1>1, <1>2, <1>3, <1>4 DEF Next, PickTurn, Picks, TurnMoves

\* The request is over: it can only be noticed that its claim is stale.
LEMMA RequestIsOver ==
  ASSUME JobsInv, NothingLeft, RequestTyped, deleted, DeletionStep
  PROVE  JobsInv' /\ NothingLeft' /\ deleted' /\ RequestTyped'
<1>1. request.pc = "idle"
  BY DEF NothingLeft, NoRequest
<1>2. RequestGone
  BY <1>1 DEF DeletionStep, ReadSessionRow, ReadActive, ReadTurns, ClaimDeletion, FinalizePending,
     MarkPendingFinalized, ErasePending, MarkPendingErased, FindAgain, StopMachine, EraseWorkspace,
     DeleteRow, RemovalFails, ReleaseDeletion, RequestDies, RequestPaused, RequestBeatResumes, Deleting
<1>3. RemovesOnly
  BY <1>2, ClaimsRemoveNothing DEF Claims
<1>4. JobsInv'
  BY <1>3, JobsKept DEF RemovesOnly
<1>5. session'.active = session.active /\ UNCHANGED <<run, source, request, deleted>>
  BY <1>2, <1>3 DEF RequestGone, deletionVars, RemovesOnly, Removes
<1>. QED BY <1>4, <1>5 DEF NothingLeft, RequestTyped

\* Nor does a reconciler that marks a row which is gone.
LEMMA MarkNothingKeeps ==
  ASSUME JobsInv, NothingLeft, NEW c \in Reconcilers, MarkNothing(c)
  PROVE  JobsInv' /\ NothingLeft'
<1>1. UNCHANGED <<session, run, worker, source, snapshot, faults, request, deleted>>
  BY DEF MarkNothing, deletionVars
<1>2. /\ job' = [job EXCEPT ![c] = job'[c]]
      /\ job'[c] \in JobState /\ JobShape(job'[c])
      /\ job'[c].kind \in Repeatable => run[job'[c].turn].status = "ended"
  BY JobSteps
<1>3. JobsInv'
  BY <1>1, <1>2, JobsMove DEF RowsTyped, JobsInv, TypeOK
<1>. QED BY <1>1, <1>3 DEF NothingLeft

\* Nothing is deleted at the beginning.
LEMMA DeletionInvInit == DeletionInit => DeletionInv
<1>. SUFFICES ASSUME DeletionInit PROVE DeletionInv
  OBVIOUS
<1>1. JobsInv /\ TurnsInv
  BY ParkingInit DEF DeletionInit
<1>2. request \in Request /\ deleted \in BOOLEAN /\ ~deleted /\ request.pc = "idle"
  BY DEF DeletionInit, NoRequest, Request, None
<1>. QED BY <1>1, <1>2 DEF DeletionInv, DeletionTypeOK, JobsInv

\* DeletionInv is inductive.
LEMMA DeletionInvNext == DeletionInv /\ [DeletionNext]_allVars => DeletionInv'
<1>. SUFFICES ASSUME DeletionInv, [DeletionNext]_allVars PROVE DeletionInv'
  OBVIOUS
<1>a. JobsInv /\ RequestTyped /\ TypeOK
  BY DEF DeletionInv, DeletionTypeOK, RequestTyped
<1>b. ASSUME JobsInv', RequestTyped',
             IF deleted' THEN NothingLeft' ELSE TurnsInv' /\ (request'.pc # "idle" => RequestInv')
      PROVE  DeletionInv'
  BY <1>b DEF DeletionInv, DeletionTypeOK, RequestTyped, JobsInv
<1>1. CASE UNCHANGED allVars
  <2>1. UNCHANGED <<session, run, worker, source, snapshot, job, faults, request, deleted>>
    BY <1>1 DEF allVars, vars, deletionVars
  <2>2. JobsInv' /\ RequestTyped'
    BY <1>a, <2>1, JobsKept DEF RowsTyped, JobsInv, TypeOK, RequestTyped
  <2>3. CASE deleted
    BY <1>b, <2>1, <2>2, <2>3 DEF DeletionInv, NothingLeft
  <2>4. CASE ~deleted
    <3>1. TurnsInv /\ (request.pc # "idle" => RequestInv)
      BY <2>4 DEF DeletionInv
    <3>2. TurnsInv'
      BY <1>a, <2>1, <3>1, TurnsNext DEF vars
    <3>3. RequestSees
      BY <2>1 DEF RequestSees, JobsStayRight
    <3>4. request.pc # "idle" => RequestInv'
      BY <1>a, <2>1, <2>2, <3>1, <3>3, RequestKept DEF RequestTyped
    <3>. QED BY <1>b, <2>1, <2>2, <2>4, <3>2, <3>4
  <2>. QED BY <2>3, <2>4
<1>2. CASE Parking
  <2>1. Next /\ request' = request /\ deleted' = deleted /\ (deleted => run' = run)
    BY <1>2 DEF Parking, deletionVars
  <2>2. JobsInv' /\ RequestTyped'
    BY <1>a, <2>1, JobsNext DEF RequestTyped
  <2>3. CASE deleted
    <3>1. NothingLeft'
      BY <1>a, <2>1, <2>3, NothingComesBack DEF DeletionInv
    <3>. QED BY <1>b, <2>1, <2>2, <2>3, <3>1
  <2>4. CASE ~deleted
    <3>1. TurnsInv /\ (request.pc # "idle" => RequestInv)
      BY <2>4 DEF DeletionInv
    <3>2. TurnsInv'
      BY <1>a, <2>1, <3>1, TurnsNext
    <3>3. RequestSees
      BY <1>a, <2>1, <2>2, <3>1, NextIsSeen
    <3>4. request.pc # "idle" => RequestInv'
      BY <1>a, <2>1, <2>2, <3>1, <3>3, RequestKept DEF RequestTyped
    <3>. QED BY <1>b, <2>1, <2>2, <2>4, <3>2, <3>4
  <2>. QED BY <2>3, <2>4
<1>3. CASE DeletionStep
  <2>1. RequestTyped' /\ (deleted => deleted')
    <3>1. request.pc # "idle" /\ ~deleted => RequestInv
      BY DEF DeletionInv
    <3>2. CASE deleted
      BY <1>3, <1>a, <3>2, RequestIsOver DEF DeletionInv
    <3>3. CASE ~deleted
      BY <1>3, <1>a, <3>1, <3>3, RequestCopies
    <3>. QED BY <3>2, <3>3
  <2>2. CASE deleted
    BY <1>3, <1>a, <1>b, <2>1, <2>2, RequestIsOver DEF DeletionInv
  <2>3. CASE ~deleted /\ ~deleted'
    <3>1. TurnsInv /\ (request.pc # "idle" => RequestInv)
      BY <2>3 DEF DeletionInv
    <3>2. JobsInv' /\ TurnsInv'
      BY <1>3, <1>a, <2>3, <3>1, RequestRemovesOnly, SessionOfRemoval
    <3>3. request'.pc # "idle" => RequestInv'
      BY <1>3, <1>a, <2>3, <3>1, RequestWorks
    <3>. QED BY <1>b, <2>1, <2>3, <3>2, <3>3
  <2>4. CASE ~deleted /\ deleted'
    <3>1. DeleteRow
      BY <1>3, <2>4 DEF DeletionStep, ReadSessionRow, ReadActive, ReadTurns, ClaimDeletion,
         FinalizePending, MarkPendingFinalized, ErasePending, MarkPendingErased, FindAgain,
         StopMachine, EraseWorkspace, RemovalFails, ReleaseDeletion, RequestDies, RequestGone,
         RequestPaused, RequestBeatResumes, deletionVars
    <3>2. TurnsInv /\ RequestInv
      BY <2>4, <3>1 DEF DeletionInv, DeleteRow
    <3>3. JobsInv' /\ NothingLeft'
      BY <1>a, <2>4, <3>1, <3>2, DeletionLeavesNothing
    <3>. QED BY <1>b, <2>1, <2>4, <3>3
  <2>. QED BY <2>2, <2>3, <2>4
<1>4. ASSUME NEW c \in Reconcilers, MarkNothing(c)
      PROVE  DeletionInv'
  <2>1. deleted /\ deleted' = deleted /\ request' = request
    BY <1>4 DEF MarkNothing, deletionVars
  <2>2. JobsInv' /\ NothingLeft'
    BY <1>4, <1>a, <2>1, MarkNothingKeeps DEF DeletionInv
  <2>. QED BY <1>a, <1>b, <2>1, <2>2 DEF RequestTyped
<1>. QED BY <1>1, <1>2, <1>3, <1>4 DEF DeletionNext

-----------------------------------------------------------------------------
(* What follows. *)

\* Type correctness of SessionParking: the rows of the session and of its turns,
\* the workers, the machines, the checkpoints and the jobs of the reconcilers
\* keep their types.
THEOREM SessionTypes == Spec => []TypeOK
<1>1. Init => JobsInv
  BY ParkingInit
<1>2. JobsInv => TypeOK
  BY DEF JobsInv
<1>. QED BY <1>1, <1>2, JobsNext, PTL DEF Spec

\* The turns of a session run one at a time, each in its place, whichever
\* transactions fail, reconcilers crash, claims are taken over while their
\* holder is still at work or commits whose answer is lost: for every number of
\* turns, reconcilers and faults of every kind (createSessionTurn, parkSession,
\* claimNextRun).
THEOREM TurnsTakeTurnsHolds == Spec => []TurnsTakeTurns
<1>1. JobsInv /\ TurnsInv /\ [Next]_vars => (JobsInv /\ TurnsInv)'
  BY JobsNext, TurnsNext
<1>2. TurnsInv => TurnsTakeTurns
  BY DEF TurnsInv, Queue, Machines, TurnsTakeTurns
<1>. QED BY <1>1, <1>2, ParkingInit, PTL DEF Spec

\* A machine that exists belongs to a turn in flight, to the active turn, which
\* is still to be parked, or is marked for finalization, whatever the faults:
\* somebody will remove it (suspendAndPark, finalizeSuspendedSource).
THEOREM MachinesAreTracked == Spec => []SourceTracked
<1>1. JobsInv /\ TurnsInv /\ [Next]_vars => (JobsInv /\ TurnsInv)'
  BY JobsNext, TurnsNext
<1>2. TurnsInv => SourceTracked
  BY DEF TurnsInv, Machines
<1>. QED BY <1>1, <1>2, ParkingInit, PTL DEF Spec

\* The inductive invariant of a session that may be deleted.
THEOREM DeletionInvHolds == DeletionSpec => []DeletionInv
BY DeletionInvInit, DeletionInvNext, PTL DEF DeletionSpec

\* Type correctness of SessionDeletion, the request's copies included.
THEOREM DeletionTypes == DeletionSpec => []DeletionTypeOK
<1>1. DeletionInv => DeletionTypeOK
  BY DEF DeletionInv
<1>. QED BY <1>1, DeletionInvHolds, PTL

\* When the rows of a session are deleted no machine of it is left that nobody
\* knows of, although the request looked at them before it had the session to
\* itself (deleteSession).
THEOREM NoMachineOutlives == DeletionSpec => []NoMachineOutlivesSession
<1>1. DeletionInv => NoMachineOutlivesSession
  BY DEF DeletionInv, NothingLeft, NoMachineOutlivesSession
<1>. QED BY <1>1, DeletionInvHolds, PTL

\* Nothing but the request deletes the row.
LEMMA OnlyDeleteRow ==
  ASSUME DeletionInv, [DeletionNext]_allVars, ~deleted, deleted'
  PROVE  /\ \A t \in Turns : run[t].status \in {"absent", "ended"}
         /\ session.workspace # None => snapshot[session.workspace] = "none"
<1>1. DeleteRow
  BY DEF DeletionNext, Parking, MarkNothing, allVars, DeletionStep, ReadSessionRow, ReadActive,
     ReadTurns, ClaimDeletion, FinalizePending, MarkPendingFinalized, ErasePending,
     MarkPendingErased, FindAgain, StopMachine, EraseWorkspace, RemovalFails, ReleaseDeletion,
     RequestDies, RequestGone, RequestPaused, RequestBeatResumes, deletionVars
<1>2. JobsInv /\ TurnsInv /\ RequestInv /\ RequestTyped
  BY <1>1 DEF DeletionInv, DeletionTypeOK, RequestTyped, DeleteRow
<1>. QED BY <1>1, <1>2, DeletionLeavesNothing

\* A deletion takes away no turn that is queued or at work, not even one that
\* was created after the request had looked (deleteSession with
\* expectedLatestRunId).
THEOREM DeletionSparesTurnsHolds == DeletionSpec => DeletionSparesTurns
<1>1. DeletionInv /\ [DeletionNext]_allVars =>
        [~deleted /\ deleted' => \A t \in Turns : run[t].status \in {"absent", "ended"}]_allVars
  BY OnlyDeleteRow
<1>. QED BY <1>1, DeletionInvHolds, PTL DEF DeletionSpec, DeletionSparesTurns

\* The checkpoint is deleted before the rows that name it (deleteSession).
THEOREM SessionCheckpointGoesHolds == DeletionSpec => SessionCheckpointGoes
<1>1. DeletionInv /\ [DeletionNext]_allVars =>
        [~deleted /\ deleted' /\ session.workspace # None
           => snapshot[session.workspace] = "none"]_allVars
  BY OnlyDeleteRow
<1>. QED BY <1>1, DeletionInvHolds, PTL DEF DeletionSpec, SessionCheckpointGoes

\* A deletion does not disturb the order of the turns, neither while it works
\* nor when it gives up (deleteSession).
THEOREM TurnsTakeTurnsDeleted == DeletionSpec => []TurnsTakeTurns
<1>1. DeletionInv /\ ~deleted => TurnsTakeTurns
  BY DEF DeletionInv, TurnsInv, Queue, Machines, TurnsTakeTurns
<1>2. DeletionInv /\ deleted => TurnsTakeTurns
  BY DEF DeletionInv, NothingLeft, TurnsTakeTurns, OnlyActiveTurnRuns, TurnsInOrder, GoneRun, InFlight
<1>. QED BY <1>1, <1>2, DeletionInvHolds, PTL

-----------------------------------------------------------------------------
(* Who works owns the session, as long as heartbeats arrive. *)

\* None of these faults happens.
NoFaultOf(kinds) == FaultKinds \cap kinds = {}

\* The claim stays with whoever has it.
SameClaim ==
  /\ session'.op = session.op /\ session'.holder = session.holder
  /\ session'.beat \in {session.beat, "fresh"}

\* The checkpoints in the books and the queue stay as they are.
Untouched ==
  /\ session'.active = session.active /\ session'.workspace = session.workspace
  /\ session'.expiry \in {session.expiry, "past"}
  /\ snapshot' = snapshot
  /\ \A t \in Turns : run'[t].replaced = run[t].replaced

\* The session can be claimed.
NobodyHolds == session.op = "none" \/ session.beat = "stale"

\* When it can, nobody works.
LEMMA NobodyWorks ==
  ASSUME HoldersOwn, NobodyHolds, NEW c \in Reconcilers
  PROVE  ~Working(c)
BY DEF HoldersOwn, NobodyHolds, Working, Owns, Work

\* Two do not work at a time.
LEMMA OneWorks ==
  ASSUME HoldersOwn, NEW c \in Reconcilers, NEW d \in Reconcilers, Working(c), Working(d)
  PROVE  c = d
BY DEF HoldersOwn, Owns

\* What the steps of a turn do to the claim and the checkpoints: a new turn
\* takes only a session nobody holds, and a worker that finds no checkpoint says
\* so.
LEMMA TurnsLeaveTheClaim ==
  ASSUME JobsInv, NEW t \in Turns, TurnMoves(t)
  PROVE  /\ job' = job /\ snapshot' = snapshot
         /\ NobodyHolds \/ (SameClaim /\ Untouched)
         /\ \/ Untouched
            \/ CreateTurn(t) /\ session'.workspace = session.workspace /\ session'.expiry = session.expiry
               /\ \A u \in Turns : run'[u].replaced = run[u].replaced
            \/ WorkspaceGone(t) /\ WorkspaceMissing /\ run' = run
               /\ session' = [session EXCEPT !.workspace = None, !.expiry = "none"]
<1>a. session \in SessionRow /\ run \in [Turns -> RunRow] /\ run[t] \in RunRow
  BY DEF JobsInv, TypeOK
<1>1. CASE CreateTurn(t)
  BY <1>1, <1>a DEF CreateTurn, NobodyHolds, Released, SessionRow, RunRow
<1>2. CASE WorkspaceGone(t)
  BY <1>2 DEF WorkspaceGone, NobodyHolds
<1>3. CASE EndTurn(t) \/ ClaimTurn(t) \/ ProvisionFails(t) \/ LaunchFails(t) \/ MarkRunning(t)
           \/ StopLost(t) \/ WorkerDies(t) \/ LeaseExpires(t) \/ MachineDies(t)
  BY <1>3, <1>a DEF EndTurn, ClaimTurn, ProvisionFails, LaunchFails, MarkRunning, StopLost, WorkerDies,
     LeaseExpires, MachineDies, RunRow, SameClaim, Untouched
<1>4. CASE StartMachine(t)
  <2>1. run' = run \/ run' = [run EXCEPT ![t].attached = TRUE]
    BY <1>4 DEF StartMachine
  <2>2. \A u \in Turns : run'[u].replaced = run[u].replaced
    BY <1>a, <2>1 DEF RunRow
  <2>. QED BY <1>4, <2>2 DEF StartMachine, SameClaim, Untouched
<1>5. CASE StampLost(t)
  <2>1. run' = [run EXCEPT ![t].stopped = TRUE]
    BY <1>5 DEF StampLost
  <2>2. \A u \in Turns : run'[u].replaced = run[u].replaced
    BY <1>a, <2>1 DEF RunRow
  <2>. QED BY <1>5, <2>2 DEF StampLost, SameClaim, Untouched
<1>. QED BY <1>1, <1>2, <1>3, <1>4, <1>5 DEF TurnMoves, WorkerStep

\* The claim is lost only when nobody works any more.
LEMMA ClaimsTouchNothing ==
  ASSUME JobsInv, HoldersOwn, NoFaultOf({"pause"}),
         \/ HolderGone \/ HolderPaused \/ ExpiryPasses \/ Idle
         \/ \E c \in Reconcilers : ReleaseStale(c) \/ BeatResumes(c)
  PROVE  /\ job' = job /\ snapshot' = snapshot /\ Untouched
         /\ SameClaim \/ \A c \in Reconcilers : ~Working(c)
<1>a. session \in SessionRow
  BY DEF JobsInv, TypeOK
<1>1. CASE HolderGone
  <2>1. \A c \in Reconcilers : ~Working(c)
    BY <1>1 DEF HolderGone, Held, HoldersOwn, Working
  <2>. QED BY <1>1, <1>a, <2>1 DEF HolderGone, Untouched, SessionRow
<1>2. ~HolderPaused
  BY DEF HolderPaused, Fault, NoFaultOf
<1>3. CASE ExpiryPasses \/ Idle
  BY <1>3, <1>a DEF ExpiryPasses, Idle, vars, Untouched, SameClaim, SessionRow
<1>4. ASSUME NEW c \in Reconcilers, ReleaseStale(c)
      PROVE  /\ job' = job /\ snapshot' = snapshot /\ Untouched
             /\ \A d \in Reconcilers : ~Working(d)
  <2>1. \A d \in Reconcilers : ~Working(d)
    BY <1>4, NobodyWorks DEF ReleaseStale, NobodyHolds
  <2>. QED BY <1>4, <1>a, <2>1 DEF ReleaseStale, Released, Untouched, SessionRow
<1>5. ASSUME NEW c \in Reconcilers, BeatResumes(c)
      PROVE  job' = job /\ snapshot' = snapshot /\ Untouched /\ SameClaim
  BY <1>5, <1>a DEF BeatResumes, Untouched, SameClaim, SessionRow
<1>. QED BY <1>1, <1>2, <1>3, <1>4, <1>5

\* No step of a job but claiming and releasing is about the claim.
LEMMA JobsClaim ==
  ASSUME JobsInv, NEW c \in Reconcilers,
         JobStep(c) \/ CommitFails(c) \/ Crash(c) \/ Picks(c),
         ~ClaimSession(c), ~Release(c)
  PROVE  SameClaim /\ (Working(c)' => Working(c) /\ job'[c].kind = job[c].kind)
<1>. DEFINE k == job[c]
            j == job'[c]
<1>a. /\ job \in [Reconcilers -> JobState] /\ k \in JobState /\ JobShape(k) /\ session \in SessionRow
  BY DEF JobsInv, TypeOK
<1>. USE DEF At, Go
<1>1. CASE \/ Check(c) \/ Erase(c) \/ EraseFails(c) \/ Unmark(c) \/ Recheck(c) \/ ReadPrevious(c)
           \/ Suspend(c) \/ SuspendFails(c) \/ CommitFails(c) \/ Discard(c) \/ Verify(c)
           \/ StopSource(c) \/ MarkFinalized(c)
  <2>1. session' = session /\ k.pc \notin {"idle", "picked"}
    BY <1>1 DEF Check, Erase, EraseFails, Unmark, Recheck, ReadPrevious, Suspend, SuspendFails,
       CommitFails, Discard, Verify, StopSource, MarkFinalized
  <2>2. j.kind = k.kind
    BY <1>1, <1>a DEF Check, Erase, EraseFails, Unmark, Recheck, ReadPrevious, Suspend, SuspendFails,
       CommitFails, Discard, Verify, StopSource, MarkFinalized, JobState
  <2>. QED BY <2>1, <2>2 DEF SameClaim, Working
<1>2. CASE Clear(c) \/ Fallback(c)
  <2>1. j.kind = k.kind /\ k.pc \notin {"idle", "picked"}
    BY <1>2, <1>a DEF Clear, Fallback, JobState
  <2>2. \/ session' \in {session, [session EXCEPT !.workspace = None, !.expiry = "none"]}
        \/ \E w \in {"cold", "keep"} : session' = ParkedSession(k.turn, w)
    BY <1>2 DEF Clear, Fallback
  <2>. QED BY <1>a, <2>1, <2>2 DEF ParkedSession, SameClaim, Working, SessionRow
<1>3. CASE Prepare(c)
  BY <1>3, <1>a DEF Prepare, SameClaim, Working, JobState
<1>4. CASE Commit(c)
  <2>1. k.pc \notin {"idle", "picked"} /\ session' \in {session, ParkedSession(k.turn, "made")}
    BY <1>4 DEF Commit
  <2>2. \/ job' = [job EXCEPT ![c] = [@ EXCEPT !.pc = "check", !.then = "finalize", !.target = job[c].previous]]
        \/ job' = [job EXCEPT ![c] = [@ EXCEPT !.pc = "finalize"]]
        \/ \E pc \in {"uncommitted", "unowned"} : job' = [job EXCEPT ![c].pc = pc]
    BY <1>4 DEF Commit
  <2>a. ASSUME job' = [job EXCEPT ![c] = [@ EXCEPT !.pc = "check", !.then = "finalize",
                                               !.target = job[c].previous]]
        PROVE  j.kind = k.kind
    BY <1>a, <2>a DEF JobState
  <2>b. ASSUME job' = [job EXCEPT ![c] = [@ EXCEPT !.pc = "finalize"]]
        PROVE  j.kind = k.kind
    BY <1>a, <2>b DEF JobState
  <2>c. ASSUME NEW pc \in {"uncommitted", "unowned"}, job' = [job EXCEPT ![c].pc = pc]
        PROVE  j.kind = k.kind
    BY <1>a, <2>c DEF JobState
  <2>3. j.kind = k.kind
    BY <2>2, <2>a, <2>b, <2>c
  <2>. QED BY <1>a, <2>1, <2>3 DEF ParkedSession, SameClaim, Working, SessionRow
<1>5. CASE Unowned(c) \/ Uncommitted(c)
  BY <1>5, <1>a DEF Unowned, Uncommitted, DeleteOwn, SameClaim, Working, JobState
<1>6. CASE Finalize(c)
  <2>1. session' = session /\ j.kind = k.kind /\ k.pc # "idle" /\ (k.kind # "finalizing" => k.pc # "picked")
    BY <1>6, <1>a DEF Finalize, JobState
  <2>. QED BY <2>1 DEF SameClaim, Working, Work
<1>7. CASE Crash(c)
  BY <1>7, <1>a DEF Crash, SameClaim, Working, IdleJob, Work
<1>8. CASE Picks(c)
  <2>1. session' = session /\ j.pc = "picked"
    <3>1. ASSUME NEW kind, NEW t, NEW target, Pick(c, kind, t, target)
          PROVE  session' = session /\ j.pc = "picked"
      BY <1>a, <3>1 DEF Pick, IdleJob
    <3>. QED BY <1>8, <3>1 DEF Picks, PickExpired, PickParking, PickReplaced, PickFinalize
  <2>. QED BY <2>1 DEF SameClaim, Working
<1>. QED BY <1>1, <1>2, <1>3, <1>4, <1>5, <1>6, <1>7, <1>8 DEF JobStep

\* What claiming the session does.
LEMMA ClaimedByJob ==
  ASSUME JobsInv, NEW c \in Reconcilers, ClaimSession(c)
  PROVE  /\ \/ /\ NobodyHolds \/ (session.op = job[c].kind /\ session.beat = "stale")
               /\ job[c].kind \in Work /\ session' = Claimed(session, job[c].kind, c)
               /\ job'[c].kind = job[c].kind /\ Expected(c)
               /\ \/ job[c].kind = "parking" /\ job'[c] = [job[c] EXCEPT !.pc = "prepare"]
                  \/ job[c].kind = "replacing" /\ job'[c] = [job[c] EXCEPT !.pc = "check", !.then = "release"]
                  \/ job[c].kind = "expiring" /\ job'[c] = [job[c] EXCEPT !.pc = "erase"]
            \/ session' = session /\ job'[c] = IdleJob
         /\ UNCHANGED <<run, worker, source, snapshot, faults>>
         /\ \A d \in Reconcilers : d # c => job'[d] = job[d]
<1>a. job \in [Reconcilers -> JobState] /\ job[c] \in JobState /\ JobShape(job[c])
  BY DEF JobsInv, TypeOK
<1>b. UNCHANGED <<run, worker, source, snapshot, faults>> /\ \A d \in Reconcilers : d # c => job'[d] = job[d]
  BY <1>a DEF ClaimSession
<1>1. CASE Expected(c) /\ MayClaim(job[c].kind)
  <2>1. job[c].kind \in {"parking", "replacing", "expiring"}
    BY <1>a DEF ClaimSession, At, JobState, JobShape, Work
  <2>2. /\ session' = Claimed(session, job[c].kind, c)
        /\ \/ job[c].kind = "parking" /\ job' = [job EXCEPT ![c].pc = "prepare", ![c].then = @]
           \/ job[c].kind = "replacing" /\ job' = [job EXCEPT ![c].pc = "check", ![c].then = "release"]
           \/ job[c].kind = "expiring" /\ job' = [job EXCEPT ![c].pc = "erase", ![c].then = @]
    BY <1>1, <2>1 DEF ClaimSession
  <2>3. \/ job[c].kind = "parking" /\ job'[c] = [job[c] EXCEPT !.pc = "prepare"]
        \/ job[c].kind = "replacing" /\ job'[c] = [job[c] EXCEPT !.pc = "check", !.then = "release"]
        \/ job[c].kind = "expiring" /\ job'[c] = [job[c] EXCEPT !.pc = "erase"]
    <3>1. CASE job' = [job EXCEPT ![c].pc = "prepare", ![c].then = @]
      BY <1>a, <2>2, <3>1 DEF JobState
    <3>2. CASE job' = [job EXCEPT ![c].pc = "check", ![c].then = "release"]
      BY <1>a, <2>2, <3>2 DEF JobState
    <3>3. CASE job' = [job EXCEPT ![c].pc = "erase", ![c].then = @]
      BY <1>a, <2>2, <3>3 DEF JobState
    <3>. QED BY <2>2, <3>1, <3>2, <3>3
  <2>4. job'[c].kind = job[c].kind
    BY <1>a, <2>3 DEF JobState
  <2>. QED BY <1>1, <1>b, <2>1, <2>2, <2>3, <2>4 DEF MayClaim, NobodyHolds, Work
<1>2. CASE ~(Expected(c) /\ MayClaim(job[c].kind))
  BY <1>2, <1>a, <1>b DEF ClaimSession
<1>. QED BY <1>1, <1>2

\* What releasing it does.
LEMMA ReleasedByJob ==
  ASSUME JobsInv, NEW c \in Reconcilers, Release(c)
  PROVE  /\ session' \in {session, Released(session)} /\ (session' # session => Owns(c))
         /\ job'[c] = IdleJob /\ \A d \in Reconcilers : d # c => job'[d] = job[d]
         /\ UNCHANGED <<run, worker, source, snapshot, faults>>
<1>a. job \in [Reconcilers -> JobState]
  BY DEF JobsInv, TypeOK
<1>. QED BY <1>a DEF Release

\* HoldersOwn is inductive while no holder is paused.
LEMMA HoldersOwnNext ==
  ASSUME JobsInv, HoldersOwn, NoFaultOf({"pause"}), Next
  PROVE  HoldersOwn'
<1>a. session \in SessionRow /\ job \in [Reconcilers -> JobState]
  BY DEF JobsInv, TypeOK
<1>. SUFFICES ASSUME NEW d \in Reconcilers, Working(d)'
              PROVE  session'.op = job'[d].kind /\ session'.holder = d /\ session'.beat = "fresh"
  BY DEF HoldersOwn, Owns
<1>b. ASSUME Working(d), job'[d].kind = job[d].kind, SameClaim
      PROVE  session'.op = job'[d].kind /\ session'.holder = d /\ session'.beat = "fresh"
  BY <1>b DEF HoldersOwn, Owns, SameClaim
<1>1. CASE HolderGone \/ HolderPaused \/ ExpiryPasses \/ Idle
           \/ \E c \in Reconcilers : ReleaseStale(c) \/ BeatResumes(c)
  <2>1. job' = job /\ (SameClaim \/ \A c \in Reconcilers : ~Working(c))
    BY <1>1, ClaimsTouchNothing
  <2>2. Working(d)
    BY <2>1 DEF Working
  <2>. QED BY <1>b, <2>1, <2>2
<1>2. ASSUME NEW t \in Turns, TurnMoves(t)
      PROVE  session'.op = job'[d].kind /\ session'.holder = d /\ session'.beat = "fresh"
  <2>1. job' = job /\ (NobodyHolds \/ SameClaim)
    BY <1>2, TurnsLeaveTheClaim
  <2>2. Working(d)
    BY <2>1 DEF Working
  <2>. QED BY <1>b, <2>1, <2>2, NobodyWorks
<1>3. ASSUME NEW c \in Reconcilers, ClaimSession(c)
      PROVE  session'.op = job'[d].kind /\ session'.holder = d /\ session'.beat = "fresh"
  <2>1. CASE session' = session /\ job'[c] = IdleJob
    <3>1. d # c
      BY <2>1 DEF Working, IdleJob
    <3>2. job'[d] = job[d] /\ Working(d)
      BY <1>3, <3>1, ClaimedByJob DEF Working
    <3>. QED BY <1>b, <2>1, <3>2 DEF SameClaim
  <2>2. CASE /\ NobodyHolds \/ (session.op = job[c].kind /\ session.beat = "stale")
             /\ session' = Claimed(session, job[c].kind, c)
             /\ job'[c].kind = job[c].kind
    <3>1. CASE d = c
      BY <1>a, <2>2, <3>1 DEF Claimed, SessionRow
    <3>2. CASE d # c
      <4>1. job'[d] = job[d] /\ Working(d)
        BY <1>3, <3>2, ClaimedByJob DEF Working
      <4>2. NobodyHolds
        BY <2>2 DEF NobodyHolds
      <4>. QED BY <4>1, <4>2, NobodyWorks
    <3>. QED BY <3>1, <3>2
  <2>. QED BY <1>3, <2>1, <2>2, ClaimedByJob
<1>4. ASSUME NEW c \in Reconcilers, Release(c)
      PROVE  session'.op = job'[d].kind /\ session'.holder = d /\ session'.beat = "fresh"
  <2>1. d # c
    BY <1>4, ReleasedByJob DEF Working, IdleJob
  <2>2. job'[d] = job[d] /\ Working(d)
    BY <1>4, <2>1, ReleasedByJob DEF Working
  <2>3. session' = session
    BY <1>4, <2>1, <2>2, ReleasedByJob DEF HoldersOwn, Owns
  <2>. QED BY <1>b, <2>2, <2>3 DEF SameClaim
<1>5. ASSUME NEW c \in Reconcilers, JobStep(c) \/ CommitFails(c) \/ Crash(c) \/ Picks(c),
             ~ClaimSession(c), ~Release(c)
      PROVE  session'.op = job'[d].kind /\ session'.holder = d /\ session'.beat = "fresh"
  <2>1. SameClaim /\ (Working(c)' => Working(c) /\ job'[c].kind = job[c].kind)
    BY <1>5, JobsClaim
  <2>2. CASE d = c
    BY <1>b, <2>1, <2>2
  <2>3. CASE d # c
    <3>1. job' = [job EXCEPT ![c] = job'[c]]
      BY <1>5, JobSteps
    <3>2. job'[d] = job[d] /\ Working(d)
      BY <1>a, <2>3, <3>1 DEF Working
    <3>. QED BY <1>b, <2>1, <3>2
  <2>. QED BY <2>2, <2>3
<1>6. ASSUME NEW c \in Reconcilers, NEW t \in Turns, ParkPlain(c, t)
      PROVE  session'.op = job'[d].kind /\ session'.holder = d /\ session'.beat = "fresh"
  <2>1. job' = job /\ session.op = "none"
    BY <1>6 DEF ParkPlain
  <2>2. Working(d) /\ NobodyHolds
    BY <2>1 DEF Working, NobodyHolds
  <2>. QED BY <2>2, NobodyWorks
<1>. QED BY <1>1, <1>2, <1>3, <1>4, <1>5, <1>6 DEF Next, PickTurn, Picks, TurnMoves, JobStep

\* A turn that is past stays past.
PastStays == \A t \in Turns : Past(t) => Past(t)'

\* No step gives it back.
LEMMA PastStaysNext ==
  ASSUME JobsInv, JobsInv', TurnsInv, RequestSees
  PROVE  PastStays
<1>. SUFFICES ASSUME NEW t \in Turns, Past(t) PROVE Past(t)'
  BY DEF PastStays
<1>a. session.active \in {None} \cup Turns /\ session'.active \in {None} \cup Turns
  BY DEF JobsInv, TypeOK, SessionRow
<1>1. run'[t].status # "absent"
  BY DEF RequestSees, Past
<1>2. session'.active = None \/ session'.active > t
  <2>1. CASE session'.active \in {None, session.active}
    BY <2>1 DEF Past
  <2>2. CASE session'.active \in Turns /\ run[session'.active].status = "absent"
    BY <2>2 DEF Past, TurnsInv, Queue, Turns
  <2>3. CASE session.active # None /\ session'.active \in Turns /\ session'.active > session.active
    BY <1>a, <2>3 DEF Past, Turns
  <2>. QED BY <2>1, <2>2, <2>3 DEF RequestSees
<1>. QED BY <1>1, <1>2 DEF Past

\* How the session's reference to a checkpoint moves.
WorkspaceMoves ==
  \/ session'.workspace = session.workspace /\ session'.expiry \in {session.expiry, "past"}
  \/ session'.workspace = None
  \/ /\ session.active # None /\ session'.workspace = session.active
     /\ run'[session.active].status # "absent"
     /\ session'.active = None \/ session'.active > session.active

\* So it is always that of a turn which gave the session up.
LEMMA WorkspaceStaysPast ==
  ASSUME JobsInv, PastStays, WorkspaceMoves, session.workspace # None => Past(session.workspace)
  PROVE  (session.workspace # None => Past(session.workspace))'
<1>a. session.workspace \in {None} \cup Turns
  BY DEF JobsInv, TypeOK, SessionRow
<1>. SUFFICES ASSUME session'.workspace # None
              PROVE  /\ run'[session'.workspace].status # "absent"
                     /\ session'.active = None \/ session'.active > session'.workspace
  BY DEF Past
<1>1. CASE session'.workspace = session.workspace
  BY <1>a, <1>1 DEF PastStays, Past
<1>. QED BY <1>1 DEF WorkspaceMoves

\* A job that stands still while somebody else moves keeps what it holds.
LEMMA BystanderHolds ==
  ASSUME JobsInv, PastStays, WorkspaceMoves, NEW d \in Reconcilers, job'[d] = job[d],
         ~Working(d) \/ Untouched, Holds(job[d])
  PROVE  Holds(job[d])'
<1>. DEFINE k == job[d]
<1>a. k \in JobState /\ JobShape(k)
  BY DEF JobsInv, TypeOK
<1>1. k.kind = "expiring" =>
        /\ run'[k.target].status # "absent"
        /\ session'.active = None \/ session'.active > k.target
        /\ session'.workspace = k.target => session'.expiry = "past"
  <2>. SUFFICES ASSUME k.kind = "expiring"
                PROVE  /\ run'[k.target].status # "absent"
                       /\ session'.active = None \/ session'.active > k.target
                       /\ session'.workspace = k.target => session'.expiry = "past"
    OBVIOUS
  <2>1. k.target \in Turns /\ k.target # None
    BY <1>a, TurnsAssumption DEF JobShape, Turns, None
  <2>2. Past(k.target) /\ (session.workspace = k.target => session.expiry = "past")
    BY DEF Holds
  <2>3. Past(k.target)'
    BY <2>1, <2>2 DEF PastStays
  <2>4. session'.workspace = k.target => session'.expiry = "past"
    <3>1. session.active # k.target
      BY <2>1, <2>2 DEF Past, Turns, None
    <3>. QED BY <2>1, <2>2, <3>1 DEF WorkspaceMoves
  <2>. QED BY <2>3, <2>4 DEF Past
<1>2. CASE ~Working(d)
  <2>1. k.kind \in {"idle", "finalizing"} \/ k.pc = "picked"
    BY <1>a, <1>2 DEF Working, JobShape, JobState, Work, Chores
  <2>2. CASE k.pc = "picked"
    BY <1>1, <2>2 DEF Holds, Uncommitting, Past, Chores
  <2>3. CASE k.kind \in {"idle", "finalizing"}
    BY <1>a, <1>1, <2>3 DEF Holds, Uncommitting, JobShape
  <2>. QED BY <2>1, <2>2, <2>3
<1>3. CASE Untouched
  <2>1. k.kind \in Repeatable => k.turn \in Turns /\ run'[k.turn].replaced = run[k.turn].replaced
    BY <1>a, <1>3 DEF JobShape, Untouched
  <2>2. k.pc \in {"read", "suspend", "commit", "uncommitted"} => k.kind = "parking"
    BY <1>a DEF JobShape, Chores, JobState, Work
  <2>. QED BY <1>1, <1>3, <2>1, <2>2 DEF Holds, Uncommitting, Untouched, Past, Repeatable
<1>. QED BY <1>2, <1>3

\* What a job at work knows at each of its steps.
LEMMA WorkersTurn ==
  ASSUME JobsInv, ParkingInv, NEW c \in Reconcilers
  PROVE  /\ job[c] \in JobState /\ JobShape(job[c]) /\ Holds(job[c])
         /\ job[c].pc \notin {"unowned", "discard"}
         /\ job[c].pc \in {"prepare", "recheck", "read", "suspend", "commit", "uncommitted",
                           "verify", "stop", "fallback"} =>
              /\ job[c].kind = "parking" /\ job[c].turn \in Turns /\ job[c].turn # None
              /\ session.active = job[c].turn /\ run[job[c].turn].status = "ended"
              /\ Working(c) /\ Owns(c) /\ OwnsParkLease(c)
         /\ job[c].pc \in {"check", "erase", "unmark"} =>
              /\ job[c].kind \in Work /\ job[c].target \in Turns /\ Working(c)
              /\ job[c].kind # "expiring" => job[c].turn \in Turns
              /\ job[c].pc # "erase" => job[c].kind # "expiring"
              /\ job[c].kind = "replacing" => job[c].then = "release"
              /\ job[c].kind = "parking" => job[c].then \in {"recheck", "verify", "finalize"}
<1>a. /\ job[c] \in JobState /\ JobShape(job[c]) /\ Holds(job[c])
      /\ job[c].kind \in Repeatable => job[c].turn \in Turns /\ Ended(job[c].turn)
  BY DEF JobsInv, TypeOK, ParkingInv, JobShape
<1>b. None \notin Turns
  BY TurnsAssumption DEF Turns, None
<1>1. job[c].pc \in {"prepare", "recheck", "read", "suspend", "commit", "uncommitted", "unowned",
                     "discard", "verify", "stop", "fallback"} => job[c].kind = "parking"
  BY <1>a DEF JobShape, JobState, Work, Chores
<1>2. job[c].pc \in {"check", "erase", "unmark"} =>
        /\ job[c].kind \in Work
        /\ job[c].pc # "erase" => job[c].kind # "expiring"
  BY <1>a DEF JobShape, JobState, Work, Chores
<1>3. job[c].kind \in Work /\ job[c].pc \notin {"idle", "picked"} => Working(c) /\ Owns(c)
  BY DEF Working, ParkingInv, HoldersOwn
<1>4. job[c].kind = "parking" => job[c].pc \notin {"unowned", "discard"}
  BY <1>a DEF Holds
<1>5. job[c].pc \in {"prepare", "recheck", "read", "suspend", "commit", "uncommitted",
                     "verify", "stop", "fallback"} => Uncommitting(job[c])
  BY <1>1 DEF Uncommitting
<1>6. job[c].pc \in {"prepare", "recheck", "read", "suspend", "commit", "uncommitted",
                           "verify", "stop", "fallback"} =>
              /\ job[c].kind = "parking" /\ job[c].turn \in Turns /\ job[c].turn # None
              /\ session.active = job[c].turn /\ run[job[c].turn].status = "ended"
              /\ Working(c) /\ Owns(c) /\ OwnsParkLease(c)
  <2>1. Uncommitting(job[c]) => session.active = job[c].turn
    BY <1>a DEF Holds
  <2>. QED BY <1>a, <1>b, <1>1, <1>3, <1>5, <2>1 DEF Repeatable, Ended, OwnsParkLease, Work
<1>7. job[c].pc \in {"check", "erase", "unmark"} =>
              /\ job[c].kind \in Work /\ job[c].target \in Turns /\ Working(c)
              /\ job[c].kind # "expiring" => job[c].turn \in Turns
              /\ job[c].pc # "erase" => job[c].kind # "expiring"
              /\ job[c].kind = "replacing" => job[c].then = "release"
              /\ job[c].kind = "parking" => job[c].then \in {"recheck", "verify", "finalize"}
  <2>1. job[c].kind = "parking" /\ job[c].pc \in Chores => job[c].then \in {"recheck", "verify", "finalize"}
    BY <1>a DEF Holds
  <2>2. job[c].kind \in {"parking", "replacing"} /\ job[c].pc \in Chores => job[c].target \in Turns
    BY <1>a DEF JobShape
  <2>3. job[c].kind = "expiring" => job[c].target \in Turns
    BY <1>a DEF JobShape
  <2>4. job[c].kind = "replacing" /\ job[c].pc \in Chores => job[c].then = "release"
    BY <1>a DEF JobShape
  <2>. QED BY <1>a, <1>2, <1>3, <2>1, <2>2, <2>3, <2>4 DEF Chores, Work, Repeatable
<1>. QED BY <1>a, <1>1, <1>4, <1>6, <1>7

\* The statements and calls that leave the session and the checkpoints alone.
Looks(c) ==
  \/ Check(c) \/ EraseFails(c) \/ Recheck(c) \/ ReadPrevious(c) \/ Prepare(c) \/ SuspendFails(c)
  \/ CommitFails(c) \/ StopSource(c) \/ Finalize(c) \/ MarkFinalized(c) \/ Verify(c) \/ Crash(c)
  \/ Picks(c)

\* They leave the session and the checkpoints alone.
LEMMA LooksTouchNothing ==
  ASSUME JobsInv, NEW c \in Reconcilers, Looks(c)
  PROVE  /\ session' = session /\ snapshot' = snapshot
         /\ \A t \in Turns : run'[t].replaced = run[t].replaced /\ run'[t].status = run[t].status
<1>a. run \in [Turns -> RunRow]
  BY DEF JobsInv, TypeOK
<1>1. CASE MarkFinalized(c)
  <2>1. run' = run \/ run' = [run EXCEPT ![job[c].turn].finalize = None]
    BY <1>1 DEF MarkFinalized
  <2>. QED BY <1>a, <1>1, <2>1 DEF MarkFinalized, RunRow
<1>2. CASE ~MarkFinalized(c)
  BY <1>2 DEF Looks, Check, EraseFails, Recheck, ReadPrevious, Prepare, SuspendFails, CommitFails,
     StopSource, Finalize, Verify, Crash, Picks, PickExpired, PickParking, PickReplaced,
     PickFinalize, Pick
<1>. QED BY <1>1, <1>2

\* They keep what the job may rely on.
LEMMA LookingHolds ==
  ASSUME JobsInv, ParkingInv, NEW c \in Reconcilers, Looks(c)
  PROVE  Holds(job[c])'
<1>. DEFINE k == job[c]
            j == job'[c]
            J(i) ==
              /\ i.kind = "parking" => /\ i.pc \notin {"unowned", "discard"}
                                       /\ i.pc \in Chores => i.then \in {"recheck", "verify", "finalize"}
              /\ Uncommitting(i) => session.active = i.turn
              /\ i.pc \in {"read", "suspend", "commit", "uncommitted"} =>
                   i.turn \in Turns /\ run[i.turn].replaced = None
              /\ i.pc = "commit" => snapshot[i.turn] = "whole"
              /\ i.kind \in {"parking", "replacing"} /\ i.pc \in {"erase", "unmark"} =>
                   session.workspace # i.target
              /\ i.kind = "expiring" => /\ i.target \in Turns /\ Past(i.target)
                                        /\ session.workspace = i.target => session.expiry = "past"
              /\ i.pc \in {"unmark", "clear"} => snapshot[i.target] = "none"
<1>a. /\ k \in JobState /\ JobShape(k) /\ Holds(k) /\ job \in [Reconcilers -> JobState]
      /\ run \in [Turns -> RunRow] /\ session \in SessionRow
  BY WorkersTurn DEF JobsInv, TypeOK
<1>b. /\ k.pc \notin {"unowned", "discard"}
      /\ k.pc \in {"prepare", "recheck", "read", "suspend", "commit", "uncommitted",
                           "verify", "stop", "fallback"} =>
              /\ k.kind = "parking" /\ k.turn \in Turns
              /\ session.active = k.turn
      /\ k.pc \in {"check", "erase", "unmark"} =>
              /\ k.kind \in Work /\ k.target \in Turns
              /\ k.pc # "erase" => k.kind # "expiring"
              /\ k.kind = "replacing" => k.then = "release"
              /\ k.kind = "parking" => k.then \in {"recheck", "verify", "finalize"}
  BY WorkersTurn
<1>d. k.kind = "expiring" => /\ k.target \in Turns /\ Past(k.target)
                             /\ session.workspace = k.target => session.expiry = "past"
  BY <1>a DEF Holds, JobShape
<1>c. ASSUME J(j) PROVE Holds(job[c])'
  <2>1. /\ session' = session /\ snapshot' = snapshot
        /\ \A t \in Turns : run'[t].replaced = run[t].replaced /\ run'[t].status = run[t].status
    BY LooksTouchNothing
  <2>. QED BY <1>c, <2>1 DEF Holds, Uncommitting, Past
<1>. SUFFICES J(j)
  BY <1>c
<1>. USE DEF At, Go
<1>1. CASE Check(c)
  <2>1. \/ job' = [job EXCEPT ![c].pc = "erase"] /\ session.workspace # k.target
        \/ job' = [job EXCEPT ![c].pc = k.then]
    BY <1>1 DEF Check
  <2>2. k.pc = "check"
    BY <1>1 DEF Check
  <2>3. k.kind = "parking" /\ k.then \in {"recheck", "verify"} => session.active = k.turn
    BY <1>a, <2>2 DEF Holds, Uncommitting, Chores
  <2>4. /\ j.kind = k.kind /\ j.turn = k.turn /\ j.target = k.target /\ j.then = k.then
        /\ (j.pc = "erase" /\ session.workspace # k.target) \/ j.pc = k.then
    BY <1>a, <2>1 DEF JobState
  <2>. QED BY <1>b, <2>2, <2>3, <2>4 DEF Uncommitting, Work, Chores
<1>2. CASE EraseFails(c)
  <2>2. k.pc = "erase"
    BY <1>2 DEF EraseFails
  <2>3. k.kind = "parking" /\ k.then \in {"recheck", "verify"} => session.active = k.turn
    BY <1>a, <2>2 DEF Holds, Uncommitting, Chores
  <2>4. /\ j.kind = k.kind /\ j.turn = k.turn /\ j.target = k.target /\ j.then = k.then
        /\ IF k.kind = "expiring" THEN j.pc = "release" ELSE j.pc = k.then
    BY <1>a, <1>2 DEF EraseFails, JobState
  <2>. QED BY <1>b, <1>d, <2>2, <2>3, <2>4 DEF Uncommitting, Work, Chores
<1>3. CASE Recheck(c) \/ ReadPrevious(c) \/ SuspendFails(c) \/ CommitFails(c) \/ StopSource(c) \/ Verify(c)
  <2>1. k.pc \in {"recheck", "read", "suspend", "commit", "stop", "verify"}
    BY <1>3 DEF Recheck, ReadPrevious, SuspendFails, CommitFails, StopSource, Verify
  <2>2. k.pc \in {"read", "suspend", "commit"} => run[k.turn].replaced = None
    BY <1>a DEF Holds
  <2>3. CASE Recheck(c)
    <3>1. /\ j.kind = k.kind /\ j.turn = k.turn
          /\ j.pc = "release" \/ (j.pc = "read" /\ run[k.turn].replaced = None)
      BY <1>a, <2>3 DEF Recheck, JobState
    <3>. QED BY <1>b, <2>1, <3>1 DEF Uncommitting, Chores
  <2>4. CASE ReadPrevious(c)
    <3>1. j.kind = k.kind /\ j.turn = k.turn /\ j.pc = "suspend" /\ k.pc = "read"
      BY <1>a, <2>4 DEF ReadPrevious, JobState
    <3>. QED BY <1>b, <2>2, <3>1 DEF Uncommitting, Chores
  <2>5. CASE SuspendFails(c) \/ StopSource(c) \/ Verify(c)
    <3>1. j.kind = k.kind /\ j.turn = k.turn /\ j.pc \in {"stop", "fallback", "release"}
      BY <1>a, <2>5 DEF SuspendFails, StopSource, Verify, JobState
    <3>. QED BY <1>b, <2>1, <3>1 DEF Uncommitting, Chores
  <2>6. CASE CommitFails(c)
    <3>1. j.kind = k.kind /\ j.turn = k.turn /\ j.pc = "uncommitted" /\ k.pc = "commit"
      BY <1>a, <2>6 DEF CommitFails, JobState
    <3>. QED BY <1>b, <2>2, <3>1 DEF Uncommitting, Chores
  <2>. QED BY <1>3, <2>3, <2>4, <2>5, <2>6
<1>4. CASE Prepare(c)
  <2>1. \/ job' = [job EXCEPT ![c] = [@ EXCEPT !.pc = "release"]]
        \/ job' = [job EXCEPT ![c] = [@ EXCEPT !.pc = "read"]] /\ run[k.turn].replaced = None
        \/ job' = [job EXCEPT ![c] = [@ EXCEPT !.pc = "check", !.target = run[k.turn].replaced,
                                              !.then = "recheck"]]
    BY <1>4 DEF Prepare
  <2>2. /\ j.kind = k.kind /\ j.turn = k.turn
        /\ \/ j.pc = "release"
           \/ j.pc = "read" /\ run[k.turn].replaced = None
           \/ j.pc = "check" /\ j.then = "recheck"
    <3>1. CASE job' = [job EXCEPT ![c] = [@ EXCEPT !.pc = "release"]]
      BY <1>a, <3>1 DEF JobState
    <3>2. CASE job' = [job EXCEPT ![c] = [@ EXCEPT !.pc = "read"]] /\ run[k.turn].replaced = None
      BY <1>a, <3>2 DEF JobState
    <3>3. CASE job' = [job EXCEPT ![c] = [@ EXCEPT !.pc = "check", !.target = run[k.turn].replaced,
                                                  !.then = "recheck"]]
      BY <1>a, <3>3 DEF JobState
    <3>. QED BY <2>1, <3>1, <3>2, <3>3
  <2>3. k.pc = "prepare" /\ k.kind = "parking" /\ k.turn \in Turns /\ session.active = k.turn
    BY <1>b, <1>4 DEF Prepare
  <2>4. CASE j.pc = "release"
    BY <2>2, <2>3, <2>4 DEF Uncommitting, Chores
  <2>5. CASE j.pc = "read" /\ run[k.turn].replaced = None
    BY <2>2, <2>3, <2>5 DEF Uncommitting, Chores
  <2>6. CASE j.pc = "check" /\ j.then = "recheck"
    BY <2>2, <2>3, <2>6 DEF Uncommitting, Chores
  <2>. QED BY <2>2, <2>4, <2>5, <2>6
<1>5. CASE Finalize(c) \/ MarkFinalized(c)
  <2>1. /\ j.kind = k.kind /\ j.pc \in {"finalized", "release"}
        /\ k.pc \in {"finalize", "finalized", "picked"} /\ (k.pc = "picked" => k.kind = "finalizing")
    BY <1>a, <1>5 DEF Finalize, MarkFinalized, JobState
  <2>2. k.kind # "expiring"
    BY <1>a, <2>1 DEF JobShape
  <2>. QED BY <2>1, <2>2 DEF Uncommitting, Chores
<1>6. CASE Crash(c)
  <2>1. j = IdleJob
    BY <1>a, <1>6 DEF Crash
  <2>. QED BY <2>1 DEF IdleJob, Uncommitting, Chores
<1>7. CASE Picks(c)
  <2>1. ASSUME NEW kind, NEW t, NEW target, Pick(c, kind, t, target)
        PROVE  j.kind = kind /\ j.pc = "picked" /\ j.target = target /\ j.turn = t
    BY <1>a, <2>1 DEF Pick, IdleJob
  <2>2. j.pc = "picked" /\ (j.kind = "expiring" =>
          /\ session.workspace = j.target /\ session.workspace # None /\ session.expiry = "past")
    BY <1>7, <2>1 DEF Picks, PickExpired, PickParking, PickReplaced, PickFinalize
  <2>3. session.workspace # None => session.workspace \in Turns /\ Past(session.workspace)
    BY <1>a DEF ParkingInv, SessionRow
  <2>. QED BY <2>2, <2>3 DEF Uncommitting, Chores
<1>. QED BY <1>1, <1>2, <1>3, <1>4, <1>5, <1>6, <1>7 DEF Looks

\* What a step of reconciler c must leave behind.
Keeps(c) ==
  /\ Holds(job[c])' /\ WorkspaceMoves /\ UnexpiredCheckpointExists'
  /\ Untouched \/ Working(c)

\* What is erased is not in use: it was uncommitted, replaced or expired.
LEMMA EraseKeeps ==
  ASSUME JobsInv, ParkingInv, NEW c \in Reconcilers, Erase(c)
  PROVE  Keeps(c)
<1>. DEFINE k == job[c]
            j == job'[c]
<1>a. /\ k \in JobState /\ Holds(k) /\ job \in [Reconcilers -> JobState]
      /\ snapshot \in [Turns -> {"none", "whole"}] /\ session \in SessionRow
      /\ k.pc = "erase" /\ k.kind \in Work /\ k.target \in Turns /\ Working(c)
      /\ k.kind = "parking" => k.then \in {"recheck", "verify", "finalize"}
  BY WorkersTurn DEF JobsInv, TypeOK, Erase, At
<1>b. /\ session' = session /\ run' = run /\ snapshot' = [snapshot EXCEPT ![k.target] = "none"]
      /\ job' = [job EXCEPT ![c].pc = IF k.kind = "expiring" THEN "clear" ELSE "unmark"]
  BY DEF Erase, Go
<1>c. /\ j.kind = k.kind /\ j.turn = k.turn /\ j.target = k.target /\ j.then = k.then
      /\ j.pc = IF k.kind = "expiring" THEN "clear" ELSE "unmark"
  BY <1>a, <1>b DEF JobState
<1>1. k.kind # "expiring" => session.workspace # k.target
  BY <1>a DEF Holds, Work
<1>2. k.kind = "expiring" => Past(k.target) /\ (session.workspace = k.target => session.expiry = "past")
  BY <1>a DEF Holds
<1>3. k.kind = "parking" /\ k.then \in {"recheck", "verify"} => session.active = k.turn
  BY <1>a DEF Holds, Uncommitting, Chores
<1>4. snapshot'[k.target] = "none" /\ \A t \in Turns : t # k.target => snapshot'[t] = snapshot[t]
  BY <1>a, <1>b
<1>5. Holds(job[c])'
  BY <1>a, <1>b, <1>c, <1>1, <1>2, <1>3, <1>4 DEF Holds, Uncommitting, Past, Chores, Work
<1>6. UnexpiredCheckpointExists'
  <2>1. session.workspace # None => session.workspace \in Turns
    BY <1>a DEF SessionRow
  <2>2. session.workspace = k.target => session.expiry = "past"
    BY <1>1, <1>2
  <2>. QED BY <1>b, <1>4, <2>1, <2>2 DEF ParkingInv, UnexpiredCheckpointExists
<1>. QED BY <1>a, <1>b, <1>5, <1>6 DEF Keeps, WorkspaceMoves

\* What is unmarked is erased.
LEMMA UnmarkKeeps ==
  ASSUME JobsInv, ParkingInv, NEW c \in Reconcilers, Unmark(c)
  PROVE  Keeps(c)
<1>. DEFINE k == job[c]
            j == job'[c]
<1>a. /\ k \in JobState /\ Holds(k) /\ job \in [Reconcilers -> JobState]
      /\ run \in [Turns -> RunRow]
      /\ k.pc = "unmark" /\ k.kind \in Work /\ k.kind # "expiring" /\ k.turn \in Turns /\ Working(c)
      /\ k.kind = "replacing" => k.then = "release"
      /\ k.kind = "parking" => k.then \in {"recheck", "verify", "finalize"}
  BY WorkersTurn DEF JobsInv, TypeOK, Unmark, At
<1>b. /\ session' = session /\ snapshot' = snapshot
      /\ run' \in {run, [run EXCEPT ![k.turn].replaced = None]}
      /\ job' = [job EXCEPT ![c].pc = k.then]
  BY DEF Unmark, Go
<1>c. j.kind = k.kind /\ j.turn = k.turn /\ j.target = k.target /\ j.then = k.then /\ j.pc = k.then
  BY <1>a, <1>b DEF JobState
<1>3. k.kind = "parking" /\ k.then \in {"recheck", "verify"} => session.active = k.turn
  BY <1>a DEF Holds, Uncommitting, Chores
<1>5. Holds(job[c])'
  BY <1>a, <1>b, <1>c, <1>3 DEF Holds, Uncommitting, Chores, Work
<1>6. UnexpiredCheckpointExists'
  BY <1>b DEF ParkingInv, UnexpiredCheckpointExists
<1>. QED BY <1>a, <1>b, <1>5, <1>6 DEF Keeps, WorkspaceMoves

\* A suspension makes a checkpoint nobody uses yet.
LEMMA SuspendKeeps ==
  ASSUME JobsInv, ParkingInv, NEW c \in Reconcilers, Suspend(c)
  PROVE  Keeps(c)
<1>. DEFINE k == job[c]
            j == job'[c]
<1>a. /\ k \in JobState /\ Holds(k) /\ job \in [Reconcilers -> JobState]
      /\ snapshot \in [Turns -> {"none", "whole"}] /\ session \in SessionRow
      /\ k.pc = "suspend" /\ k.kind = "parking" /\ k.turn \in Turns /\ Working(c)
      /\ session.active = k.turn
  BY WorkersTurn DEF JobsInv, TypeOK, Suspend, At
<1>b. /\ session' = session /\ run' = run /\ snapshot' = [snapshot EXCEPT ![k.turn] = "whole"]
      /\ job' = [job EXCEPT ![c].pc = "commit"]
  BY DEF Suspend, Go
<1>c. j.kind = k.kind /\ j.turn = k.turn /\ j.pc = "commit"
  BY <1>a, <1>b DEF JobState
<1>4. snapshot'[k.turn] = "whole" /\ \A t \in Turns : snapshot[t] = "whole" => snapshot'[t] = "whole"
  BY <1>a, <1>b
<1>1. run[k.turn].replaced = None
  BY <1>a DEF Holds
<1>5. Holds(job[c])'
  BY <1>a, <1>b, <1>c, <1>1, <1>4 DEF Holds, Uncommitting, Chores
<1>6. UnexpiredCheckpointExists'
  <2>1. session.workspace # None => session.workspace \in Turns
    BY <1>a DEF SessionRow
  <2>. QED BY <1>b, <1>4, <2>1 DEF ParkingInv, UnexpiredCheckpointExists
<1>. QED BY <1>a, <1>b, <1>5, <1>6 DEF Keeps, WorkspaceMoves

\* A job marks the checkpoint whose commit failed.
LEMMA UncommittedKeeps ==
  ASSUME JobsInv, ParkingInv, NEW c \in Reconcilers, Uncommitted(c)
  PROVE  Keeps(c)
<1>. DEFINE k == job[c]
            j == job'[c]
<1>a. /\ k \in JobState /\ Holds(k) /\ job \in [Reconcilers -> JobState]
      /\ k.pc = "uncommitted" /\ k.kind = "parking" /\ k.turn \in Turns /\ Working(c)
      /\ session.active = k.turn
  BY WorkersTurn DEF JobsInv, TypeOK, Uncommitted, At
<1>1. run[k.turn].replaced = None
  BY <1>a DEF Holds
<1>b. /\ session' = session /\ snapshot' = snapshot
      /\ job' = [job EXCEPT ![c].pc = "check", ![c].target = k.turn, ![c].then = "verify"]
  BY <1>1 DEF Uncommitted, DeleteOwn
<1>c. j.kind = k.kind /\ j.turn = k.turn /\ j.pc = "check" /\ j.then = "verify"
  BY <1>a, <1>b DEF JobState
<1>5. Holds(job[c])'
  BY <1>a, <1>b, <1>c DEF Holds, Uncommitting, Chores
<1>6. UnexpiredCheckpointExists'
  BY <1>b DEF ParkingInv, UnexpiredCheckpointExists
<1>. QED BY <1>a, <1>b, <1>5, <1>6 DEF Keeps, WorkspaceMoves

\* Expiry clears the pointer after the checkpoint is gone.
LEMMA ClearKeeps ==
  ASSUME JobsInv, ParkingInv, NEW c \in Reconcilers, Clear(c)
  PROVE  Keeps(c)
<1>. DEFINE k == job[c]
            j == job'[c]
<1>a. /\ k \in JobState /\ Holds(k) /\ JobShape(k) /\ job \in [Reconcilers -> JobState]
      /\ session \in SessionRow /\ k.pc = "clear" /\ None \notin Turns
  BY WorkersTurn, TurnsAssumption DEF JobsInv, TypeOK, Clear, At, Turns, None
<1>d. k.kind = "expiring" /\ k.target \in Turns
  BY <1>a DEF JobShape, JobState, Work, Chores
<1>e. Working(c)
  BY <1>a, <1>d DEF Working, Work
<1>b. /\ session' \in {session, [session EXCEPT !.workspace = None, !.expiry = "none"]}
      /\ run' = run /\ snapshot' = snapshot
      /\ job' = [job EXCEPT ![c].pc = "release"]
  BY DEF Clear, Go
<1>c. j.kind = k.kind /\ j.target = k.target /\ j.pc = "release"
  BY <1>a, <1>b DEF JobState
<1>2. /\ session'.active = session.active
      /\ session'.workspace = None \/ (session'.workspace = session.workspace /\ session'.expiry = session.expiry)
  BY <1>a, <1>b DEF SessionRow
<1>3. Past(k.target) /\ (session.workspace = k.target => session.expiry = "past")
  BY <1>a, <1>d DEF Holds
<1>5. Holds(job[c])'
  BY <1>a, <1>b, <1>c, <1>d, <1>2, <1>3 DEF Holds, Uncommitting, Past, Chores
<1>6. UnexpiredCheckpointExists'
  BY <1>b, <1>2 DEF ParkingInv, UnexpiredCheckpointExists
<1>. QED BY <1>e, <1>2, <1>5, <1>6 DEF Keeps, WorkspaceMoves

\* A commit points to a checkpoint that exists.
LEMMA CommitKeeps ==
  ASSUME JobsInv, ParkingInv, NoFaultOf({"pause", "lostreply"}), NEW c \in Reconcilers, Commit(c)
  PROVE  Keeps(c)
<1>. DEFINE k == job[c]
            j == job'[c]
            t == k.turn
<1>a. /\ k \in JobState /\ Holds(k) /\ job \in [Reconcilers -> JobState]
      /\ session \in SessionRow /\ run \in [Turns -> RunRow]
      /\ k.pc = "commit" /\ k.kind = "parking" /\ t \in Turns /\ Working(c) /\ t # None
      /\ session.active = t /\ run[t].status = "ended" /\ OwnsParkLease(c)
  BY WorkersTurn DEF JobsInv, TypeOK, Commit, At
<1>b. snapshot[t] = "whole"
  BY <1>a DEF Holds
<1>1. ~Fault("lostreply")
  BY DEF Fault, NoFaultOf
<1>2. /\ session' = ParkedSession(t, "made") /\ snapshot' = snapshot
      /\ run' = ParkedRun(t, "made", IF Replaces(c) THEN "previous" ELSE "clear")
      /\ \/ job' = [job EXCEPT ![c] = [@ EXCEPT !.pc = "check", !.then = "finalize",
                                                !.target = job[c].previous]]
         \/ job' = [job EXCEPT ![c] = [@ EXCEPT !.pc = "finalize"]]
  BY <1>a, <1>1 DEF Commit
<1>3. j.kind = "parking" /\ (j.pc = "finalize" \/ (j.pc = "check" /\ j.then = "finalize"))
  <2>1. CASE job' = [job EXCEPT ![c] = [@ EXCEPT !.pc = "check", !.then = "finalize",
                                                 !.target = job[c].previous]]
    BY <1>a, <2>1 DEF JobState
  <2>2. CASE job' = [job EXCEPT ![c] = [@ EXCEPT !.pc = "finalize"]]
    BY <1>a, <2>2 DEF JobState
  <2>. QED BY <1>2, <2>1, <2>2
<1>4. session'.workspace = t /\ session'.active = Following(t)
  BY <1>a, <1>2 DEF ParkedSession, SessionRow
<1>5. Following(t) = None \/ Following(t) > t
  BY <1>a, FollowingInQueue
<1>6. run'[t].status = "ended"
  BY <1>a, <1>2, ParkedTyped DEF Ended
<1>7. Holds(job[c])'
  BY <1>3 DEF Holds, Uncommitting, Chores
<1>8. UnexpiredCheckpointExists'
  BY <1>b, <1>2, <1>4 DEF UnexpiredCheckpointExists
<1>9. WorkspaceMoves
  BY <1>a, <1>4, <1>5, <1>6 DEF WorkspaceMoves
<1>. QED BY <1>a, <1>7, <1>8, <1>9 DEF Keeps

\* Parking without a checkpoint keeps the one in use.
LEMMA FallbackKeeps ==
  ASSUME JobsInv, ParkingInv, NEW c \in Reconcilers, Fallback(c)
  PROVE  Keeps(c)
<1>. DEFINE k == job[c]
            j == job'[c]
<1>a. /\ k \in JobState /\ job \in [Reconcilers -> JobState] /\ session \in SessionRow
      /\ k.pc = "fallback" /\ k.kind = "parking" /\ Working(c)
  BY WorkersTurn DEF JobsInv, TypeOK, Fallback, At
<1>b. /\ session' = session \/ \E w \in {"cold", "keep"} : session' = ParkedSession(k.turn, w)
      /\ snapshot' = snapshot
      /\ job' = [job EXCEPT ![c].pc = "release"]
  BY DEF Fallback, Go
<1>c. j.kind = k.kind /\ j.pc = "release"
  BY <1>a, <1>b DEF JobState
<1>2. session'.workspace = None \/ (session'.workspace = session.workspace /\ session'.expiry = session.expiry)
  BY <1>a, <1>b DEF ParkedSession, SessionRow
<1>5. Holds(job[c])'
  BY <1>a, <1>c DEF Holds, Uncommitting, Chores
<1>6. UnexpiredCheckpointExists'
  BY <1>b, <1>2 DEF ParkingInv, UnexpiredCheckpointExists
<1>. QED BY <1>a, <1>2, <1>5, <1>6 DEF Keeps, WorkspaceMoves

\* Claiming changes nothing but the claim.
LEMMA ClaimKeeps ==
  ASSUME JobsInv, ParkingInv, NEW c \in Reconcilers, ClaimSession(c)
  PROVE  Keeps(c)
<1>. DEFINE k == job[c]
            j == job'[c]
<1>a. /\ k \in JobState /\ Holds(k) /\ session \in SessionRow
      /\ UNCHANGED <<run, worker, source, snapshot, faults>>
  BY WorkersTurn, ClaimedByJob DEF JobsInv, TypeOK
<1>1. /\ session'.active = session.active /\ session'.workspace = session.workspace
      /\ session'.expiry = session.expiry
  BY <1>a, ClaimedByJob DEF Claimed, SessionRow
<1>2. Holds(job[c])'
  <2>1. CASE j = IdleJob
    BY <2>1 DEF IdleJob, Holds, Uncommitting, Chores
  <2>2. CASE Expected(c) /\ k.kind = "parking" /\ j = [k EXCEPT !.pc = "prepare"]
    <3>1. j.kind = "parking" /\ j.pc = "prepare" /\ j.turn = k.turn
      BY <1>a, <2>2 DEF JobState
    <3>. QED BY <1>1, <2>2, <3>1 DEF Holds, Uncommitting, Chores, Expected
  <2>3. CASE k.kind = "replacing" /\ j = [k EXCEPT !.pc = "check", !.then = "release"]
    <3>1. j.kind = "replacing" /\ j.pc = "check"
      BY <1>a, <2>3 DEF JobState
    <3>. QED BY <3>1 DEF Holds, Uncommitting
  <2>4. CASE k.kind = "expiring" /\ j = [k EXCEPT !.pc = "erase"]
    <3>1. j.kind = "expiring" /\ j.pc = "erase" /\ j.target = k.target
      BY <1>a, <2>4 DEF JobState
    <3>. QED BY <1>a, <1>1, <2>4, <3>1 DEF Holds, Uncommitting, Past
  <2>. QED BY <2>1, <2>2, <2>3, <2>4, ClaimedByJob
<1>3. Untouched
  BY <1>a, <1>1 DEF Untouched
<1>4. UnexpiredCheckpointExists'
  BY <1>a, <1>1 DEF ParkingInv, UnexpiredCheckpointExists
<1>. QED BY <1>1, <1>2, <1>3, <1>4 DEF Keeps, WorkspaceMoves

\* Nor does releasing.
LEMMA ReleaseKeeps ==
  ASSUME JobsInv, ParkingInv, NEW c \in Reconcilers, Release(c)
  PROVE  Keeps(c)
<1>a. /\ session \in SessionRow /\ session' \in {session, Released(session)} /\ job'[c] = IdleJob
      /\ UNCHANGED <<run, worker, source, snapshot, faults>>
  BY ReleasedByJob DEF JobsInv, TypeOK
<1>1. /\ session'.active = session.active /\ session'.workspace = session.workspace
      /\ session'.expiry = session.expiry
  BY <1>a DEF Released, SessionRow
<1>2. Holds(job[c])'
  BY <1>a DEF IdleJob, Holds, Uncommitting, Chores
<1>3. Untouched
  BY <1>a, <1>1 DEF Untouched
<1>4. UnexpiredCheckpointExists'
  BY <1>a, <1>1 DEF ParkingInv, UnexpiredCheckpointExists
<1>. QED BY <1>1, <1>2, <1>3, <1>4 DEF Keeps, WorkspaceMoves

\* Nor does looking.
LEMMA LooksKeep ==
  ASSUME JobsInv, ParkingInv, NEW c \in Reconcilers, Looks(c)
  PROVE  Keeps(c)
<1>1. /\ session' = session /\ snapshot' = snapshot
      /\ \A t \in Turns : run'[t].replaced = run[t].replaced /\ run'[t].status = run[t].status
  BY LooksTouchNothing
<1>2. Untouched /\ UnexpiredCheckpointExists' /\ WorkspaceMoves
  BY <1>1 DEF ParkingInv, Untouched, UnexpiredCheckpointExists, WorkspaceMoves
<1>. QED BY <1>2, LookingHolds DEF Keeps

\* Every step of a job does what it has to.
LEMMA JobsKeep ==
  ASSUME JobsInv, ParkingInv, NoFaultOf({"pause", "lostreply"}), NEW c \in Reconcilers,
         JobStep(c) \/ CommitFails(c) \/ Crash(c) \/ Picks(c)
  PROVE  Keeps(c)
<1>1. ~Unowned(c) /\ ~Discard(c)
  BY WorkersTurn DEF Unowned, Discard, At
<1>. QED BY <1>1, EraseKeeps, UnmarkKeeps, SuspendKeeps, UncommittedKeeps, ClearKeeps, CommitKeeps,
            FallbackKeeps, ClaimKeeps, ReleaseKeeps, LooksKeep DEF JobStep, Looks

\* Nobody works: only what the batches promise is held.
LEMMA QuietParking ==
  ASSUME JobsInv, ParkingInv, PastStays, WorkspaceMoves, job' = job, HoldersOwn',
         \A c \in Reconcilers : ~Working(c) \/ Untouched,
         UnexpiredCheckpointExists'
  PROVE  ParkingInv'
<1>1. \A c \in Reconcilers : Holds(job[c])'
  BY BystanderHolds DEF ParkingInv
<1>2. (session.workspace # None => Past(session.workspace))'
  BY WorkspaceStaysPast DEF ParkingInv
<1>. QED BY <1>1, <1>2 DEF ParkingInv

\* ParkingInv is inductive when no holder is paused and no answer of a commit is
\* lost.
LEMMA ParkingInvNext ==
  ASSUME JobsInv, JobsInv', TurnsInv, ParkingInv, NoFaultOf({"pause", "lostreply"}), Next
  PROVE  ParkingInv'
<1>a. PastStays
  BY NextIsSeen, PastStaysNext
<1>b. HoldersOwn'
  BY HoldersOwnNext DEF ParkingInv, NoFaultOf
<1>1. CASE HolderGone \/ HolderPaused \/ ExpiryPasses \/ Idle
           \/ \E c \in Reconcilers : ReleaseStale(c) \/ BeatResumes(c)
  <2>1. job' = job /\ snapshot' = snapshot /\ Untouched
    BY <1>1, ClaimsTouchNothing DEF ParkingInv, NoFaultOf
  <2>2. WorkspaceMoves /\ UnexpiredCheckpointExists'
    BY <2>1 DEF Untouched, WorkspaceMoves, ParkingInv, UnexpiredCheckpointExists
  <2>. QED BY <1>a, <1>b, <2>1, <2>2, QuietParking
<1>2. ASSUME NEW t \in Turns, TurnMoves(t)
      PROVE  ParkingInv'
  <2>1. /\ job' = job /\ snapshot' = snapshot
        /\ NobodyHolds \/ Untouched
    BY <1>2, TurnsLeaveTheClaim
  <2>2. \A c \in Reconcilers : ~Working(c) \/ Untouched
    BY <2>1, NobodyWorks DEF ParkingInv
  <2>3. \/ Untouched
        \/ session'.workspace = session.workspace /\ session'.expiry = session.expiry
        \/ session' = [session EXCEPT !.workspace = None, !.expiry = "none"]
    BY <1>2, TurnsLeaveTheClaim
  <2>4. \/ session'.workspace = session.workspace /\ session'.expiry \in {session.expiry, "past"}
        \/ session'.workspace = None
    BY <2>3 DEF Untouched, JobsInv, TypeOK, SessionRow
  <2>5. WorkspaceMoves /\ UnexpiredCheckpointExists'
    BY <2>1, <2>4 DEF WorkspaceMoves, ParkingInv, UnexpiredCheckpointExists
  <2>. QED BY <1>a, <1>b, <2>1, <2>2, <2>5, QuietParking
<1>3. ASSUME NEW c \in Reconcilers, JobStep(c) \/ CommitFails(c) \/ Crash(c) \/ Picks(c)
      PROVE  ParkingInv'
  <2>1. Holds(job[c])' /\ WorkspaceMoves /\ UnexpiredCheckpointExists' /\ (Untouched \/ Working(c))
    BY <1>3, JobsKeep DEF Keeps
  <2>2. ASSUME NEW d \in Reconcilers, d # c
        PROVE  Holds(job[d])'
    <3>1. job'[d] = job[d]
      <4>1. job' = [job EXCEPT ![c] = job'[c]] /\ job \in [Reconcilers -> JobState]
        BY <1>3, JobSteps DEF JobsInv, TypeOK
      <4>. QED BY <2>2, <4>1
    <3>2. ~Working(d) \/ Untouched
      BY <2>1, <2>2, OneWorks DEF ParkingInv
    <3>. QED BY <1>a, <2>1, <3>1, <3>2, BystanderHolds DEF ParkingInv
  <2>3. (session.workspace # None => Past(session.workspace))'
    BY <1>a, <2>1, WorkspaceStaysPast DEF ParkingInv
  <2>. QED BY <1>b, <2>1, <2>2, <2>3 DEF ParkingInv
<1>4. ASSUME NEW c \in Reconcilers, NEW t \in Turns, ParkPlain(c, t)
      PROVE  ParkingInv'
  <2>1. /\ job' = job /\ snapshot' = snapshot /\ NobodyHolds
        /\ session' = ParkedSession(t, "keep")
    BY <1>4 DEF ParkPlain, NobodyHolds
  <2>2. session'.workspace = session.workspace /\ session'.expiry = session.expiry
    BY <2>1 DEF ParkedSession, JobsInv, TypeOK, SessionRow
  <2>3. WorkspaceMoves /\ UnexpiredCheckpointExists'
    BY <2>1, <2>2 DEF WorkspaceMoves, ParkingInv, UnexpiredCheckpointExists
  <2>4. \A d \in Reconcilers : ~Working(d)
    BY <2>1, NobodyWorks DEF ParkingInv
  <2>. QED BY <1>a, <1>b, <2>1, <2>3, <2>4, QuietParking
<1>. QED BY <1>1, <1>2, <1>3, <1>4 DEF Next, PickTurn, Picks, TurnMoves

\* It begins so.
LEMMA ParkingInvInit == Init => ParkingInv
<1>. SUFFICES ASSUME Init PROVE ParkingInv
  OBVIOUS
<1>1. session.workspace = None /\ \A c \in Reconcilers : job[c] = IdleJob
  BY DEF Init
<1>2. \A c \in Reconcilers : Holds(job[c]) /\ ~Working(c)
  BY <1>1 DEF IdleJob, Holds, Uncommitting, Chores, Working, Work
<1>. QED BY <1>1, <1>2 DEF ParkingInv, HoldersOwn, UnexpiredCheckpointExists

\* Until it has expired the checkpoint a session points to exists. The two
\* faults are excluded because with either of them the code deletes it: a holder
\* that is paused deletes a checkpoint its successor has committed, and a job
\* that does not hear the answer to its commit discards what it committed.
\* Crashes, failed transactions, refused operations and lost launches at any
\* step, and any number of turns, reconcilers and faults, do no harm
\* (parkSession, deleteMarkedWorkspace, expireWorkspace).
THEOREM CheckpointStays ==
  ASSUME NoFaultOf({"pause", "lostreply"})
  PROVE  Spec => []UnexpiredCheckpointExists
<1>. DEFINE IInv == JobsInv /\ TurnsInv /\ ParkingInv
<1>1. Init => IInv
  BY ParkingInit, ParkingInvInit
<1>2. IInv /\ [Next]_vars => IInv'
  <2>. SUFFICES ASSUME IInv, [Next]_vars PROVE IInv'
    OBVIOUS
  <2>1. JobsInv' /\ TurnsInv'
    BY JobsNext, TurnsNext
  <2>2. CASE Next
    BY <2>1, <2>2, ParkingInvNext
  <2>3. CASE UNCHANGED vars
    BY <2>1, <2>3 DEF vars, ParkingInv, HoldersOwn, Working, Owns, Past, Holds, Uncommitting,
       UnexpiredCheckpointExists
  <2>. QED BY <2>1, <2>2, <2>3
<1>3. IInv => UnexpiredCheckpointExists
  BY DEF ParkingInv
<1>. QED BY <1>1, <1>2, <1>3, PTL DEF Spec

-----------------------------------------------------------------------------
(* Every checkpoint stays in the books. *)

\* A turn that was stopped stays stopped.
StoppedStays == \A t \in Turns : run[t].stopped => run'[t].stopped

\* The books are kept when the turns stand still.
LEMMA RowsStayTracked ==
  ASSUME TrackedInv, worker' = worker, session'.active = session.active,
         \A u \in Turns : /\ run'[u].status = run[u].status /\ run'[u].attached = run[u].attached
                          /\ run'[u].stopped = run[u].stopped,
         \A u \in Turns : snapshot'[u] = "whole" =>
           /\ snapshot[u] = "whole"
           /\ session.workspace = u => session'.workspace = u
           /\ \A w \in Turns : run[w].replaced = u => run'[w].replaced = u,
         \A u \in Turns : session.active = u /\ snapshot'[u] = "whole" /\ run'[u].replaced # u =>
           source'[u] = "down"
  PROVE  \A u \in Turns : RowTracked(u)'
<1>. SUFFICES ASSUME NEW u \in Turns PROVE RowTracked(u)'
  OBVIOUS
<1>1. RowTracked(u)
  BY DEF TrackedInv
<1>. QED BY <1>1 DEF RowTracked, Ended

\* They are kept when a turn is parked and no checkpoint falls between.
LEMMA ParkedTracked ==
  ASSUME JobsInv, TurnsInv, TrackedInv, NEW t \in Turns, Parked(t), snapshot' = snapshot,
         \A u \in Turns : snapshot[u] = "whole" =>
           session'.workspace = u \/ \E w \in Turns : run'[w].replaced = u
  PROVE  \A u \in Turns : RowTracked(u)'
<1>. SUFFICES ASSUME NEW u \in Turns PROVE RowTracked(u)'
  OBVIOUS
<1>a. RowTracked(u) /\ TurnShape(u) /\ run \in [Turns -> RunRow]
  BY DEF TrackedInv, TurnsInv, Shapes, JobsInv, TypeOK
<1>b. u # None
  BY TurnsAssumption DEF Turns, None
<1>1. session'.active = u => u # t /\ run[u].status = "queued"
  <2>1. Following(t) # None => Following(t) > t /\ run[Following(t)].status = "queued"
    BY <1>a, FollowingInQueue
  <2>. QED BY <1>b, <2>1 DEF Parked, Turns
<1>2. session'.active = u => ~run[u].stopped /\ snapshot[u] # "whole"
  BY <1>a, <1>1 DEF RowTracked, TurnShape, Ended
<1>3. CASE u # t
  <2>1. run'[u] = run[u] /\ worker'[u] = worker[u] /\ source'[u] = source[u]
    BY <1>3 DEF Parked
  <2>. QED BY <1>a, <1>2, <2>1 DEF RowTracked, Ended
<1>4. CASE u = t
  <2>1. /\ run'[u].status = "ended" /\ run[u].status = "ended" /\ run'[u].attached = run[u].attached
        /\ worker'[u] = worker[u]
    BY <1>4 DEF Parked
  <2>2. session'.active # u
    BY <1>1, <1>4
  <2>. QED BY <1>a, <2>1, <2>2 DEF RowTracked, Ended
<1>. QED BY <1>3, <1>4

\* So do the steps of the claim.
LEMMA ClaimsStayTracked ==
  ASSUME JobsInv, TrackedInv,
         HolderGone \/ HolderPaused \/ ExpiryPasses \/ Idle
         \/ \E c \in Reconcilers : ReleaseStale(c) \/ BeatResumes(c)
  PROVE  (\A u \in Turns : RowTracked(u)') /\ StoppedStays
<1>1. UNCHANGED <<run, worker, source, snapshot, job>>
  BY DEF HolderGone, HolderPaused, ExpiryPasses, Idle, vars, ReleaseStale, BeatResumes
<1>2. session'.active = session.active /\ session'.workspace = session.workspace
  <2>1. session \in SessionRow
    BY DEF JobsInv, TypeOK
  <2>2. \/ session' \in {session, Released(session), [session EXCEPT !.expiry = "past"]}
        \/ \E beat \in {"stale", "fresh"} : session' = [session EXCEPT !.beat = beat]
    BY DEF HolderGone, HolderPaused, ExpiryPasses, Idle, vars, ReleaseStale, BeatResumes
  <2>. QED BY <2>1, <2>2 DEF Released, SessionRow
<1>. QED BY <1>1, <1>2 DEF TrackedInv, RowTracked, Ended, StoppedStays

\* The faults are crashes and transactions that fail.
OnlyCrashes == FaultKinds \subseteq {"crash", "rollback"}

\* So do the steps of a turn, unless a launch loses its race.
LEMMA TurnsStayTracked ==
  ASSUME JobsInv, TurnsInv, TrackedInv, OnlyCrashes, NEW t \in Turns, TurnMoves(t)
  PROVE  (\A u \in Turns : RowTracked(u)') /\ StoppedStays
<1>a. /\ run \in [Turns -> RunRow] /\ source \in [Turns -> {"none", "up", "down", "gone"}]
      /\ worker \in [Turns -> WorkerState] /\ session \in SessionRow
  BY DEF JobsInv, TypeOK
<1>. SUFFICES ASSUME NEW u \in Turns PROVE RowTracked(u)' /\ (run[u].stopped => run'[u].stopped)
  BY DEF StoppedStays
<1>b. TurnShape(u) /\ TurnShape(t) /\ RowTracked(u) /\ RowTracked(t)
  BY DEF TurnsInv, Shapes, TrackedInv
<1>1. session'.active = session.active
      \/ (session.active = None /\ session'.active = t /\ run[t].status = "absent" /\ ~run'[t].stopped)
  <2>1. CASE CreateTurn(t)
    BY <2>1, <1>a, <1>b DEF CreateTurn, Latest, Released, SessionRow, RunRow, TurnShape, Ended
  <2>2. CASE WorkspaceGone(t)
    BY <2>2, <1>a DEF WorkspaceGone, SessionRow
  <2>3. CASE ~CreateTurn(t) /\ ~WorkspaceGone(t)
    BY <2>3 DEF TurnMoves, EndTurn, ClaimTurn, WorkerStep, StartMachine, ProvisionFails, LaunchFails,
       MarkRunning, StopLost, StampLost, WorkerDies, LeaseExpires, MachineDies
  <2>. QED BY <2>1, <2>2, <2>3
<1>2. /\ snapshot' = snapshot /\ \A w \in Turns : run'[w].replaced = run[w].replaced
      /\ snapshot[u] = "whole" /\ session.workspace = u => session'.workspace = u
  BY TurnsLeaveTheClaim DEF Untouched, WorkspaceMissing
<1>3. ~Fault("race")
  BY DEF Fault, OnlyCrashes
<1>4. /\ worker'[u] \in {"none", "claimed", "attached"}
      /\ worker'[u] = "attached" => run'[u].status = "provisioning"
      /\ run[u].attached => run'[u].attached
      /\ run'[u].stopped = run[u].stopped
      /\ Ended(u) => run'[u].status = "ended"
      /\ snapshot[u] = "whole" /\ source[u] = "down" => source'[u] = "down"
  <2>. USE DEF RowTracked, TurnShape, Ended, InFlight
  <2>1. CASE CreateTurn(t)
    BY <2>1, <1>a, <1>b DEF CreateTurn, Latest, RunRow
  <2>2. CASE EndTurn(t)
    BY <2>2, <1>3, <1>a, <1>b DEF EndTurn, RunRow
  <2>3. CASE ClaimTurn(t)
    BY <2>3, <1>a, <1>b DEF ClaimTurn, RunRow
  <2>4. CASE WorkspaceGone(t)
    BY <2>4, <1>b DEF WorkspaceGone
  <2>5. CASE StartMachine(t)
    BY <2>5, <1>a, <1>b DEF StartMachine, RunRow
  <2>6. CASE ProvisionFails(t)
    BY <2>6, <1>a, <1>b DEF ProvisionFails, RunRow
  <2>7. CASE LaunchFails(t)
    BY <2>7, <1>a, <1>b DEF LaunchFails, RunRow
  <2>8. CASE MarkRunning(t)
    BY <2>8, <1>a, <1>b DEF MarkRunning, RunRow
  <2>9. CASE StopLost(t) \/ StampLost(t)
    BY <2>9, <1>b DEF StopLost, StampLost
  <2>10. CASE WorkerDies(t) \/ LeaseExpires(t) \/ MachineDies(t)
    BY <2>10, <1>a, <1>b DEF WorkerDies, LeaseExpires, MachineDies, RunRow
  <2>. QED BY <2>1, <2>2, <2>3, <2>4, <2>5, <2>6, <2>7, <2>8, <2>9, <2>10 DEF TurnMoves, WorkerStep
<1>5. u # None
  BY TurnsAssumption DEF Turns, None
<1>6. session'.active = u => ~run'[u].stopped
  BY <1>b, <1>1, <1>4 DEF RowTracked
<1>7. snapshot'[u] = "whole" =>
        /\ run'[u].status = "ended" /\ run'[u].attached
        /\ session'.workspace = u \/ (\E w \in Turns : run'[w].replaced = u) \/ session'.active = u
  BY <1>b, <1>1, <1>2, <1>4, <1>5 DEF RowTracked
<1>8. session'.active = u /\ snapshot'[u] = "whole" /\ run'[u].replaced # u => source'[u] = "down"
  BY <1>b, <1>1, <1>2, <1>4 DEF RowTracked, Ended
<1>9. RowTracked(u)'
  BY <1>4, <1>6, <1>7, <1>8 DEF RowTracked, Ended
<1>. QED BY <1>4, <1>9

\* A machine goes only when its checkpoint is recorded elsewhere or gone.
LEMMA SourcesOfTracked ==
  ASSUME JobsInv, TurnsInv, ParkingInv, TrackedInv, OnlyCrashes, NEW c \in Reconcilers, Quiet(c),
         Finalize(c) \/ StopSource(c) \/ SuspendFails(c), NEW u \in Turns,
         session.active = u, snapshot[u] = "whole", run[u].replaced # u
  PROVE  source'[u] = "down"
<1>. DEFINE k == job[c]
<1>a. /\ k \in JobState /\ Holds(k) /\ Carries(k) /\ RowTracked(u) /\ source[u] = "down"
      /\ source \in [Turns -> {"none", "up", "down", "gone"}]
  BY WorkersTurn DEF TrackedInv, RowTracked, JobsInv, TypeOK
<1>1. CASE Finalize(c)
  <2>1. run[k.turn].stopped
    BY <1>1, <1>a DEF Finalize, At, Carries
  <2>2. u # k.turn
    BY <1>a, <2>1 DEF RowTracked
  <2>. QED BY <1>a, <2>2 DEF Quiet
<1>2. CASE StopSource(c)
  <2>1. k.pc = "stop"
    BY <1>2 DEF StopSource, At
  <2>2. u # k.turn
    BY <1>a, <2>1 DEF Carries
  <2>. QED BY <1>a, <2>2 DEF Quiet
<1>3. CASE SuspendFails(c)
  <2>1. ~Fault("refused")
    BY DEF Fault, OnlyCrashes
  <2>2. source' = source
    BY <1>3, <2>1 DEF SuspendFails
  <2>. QED BY <1>a, <2>2
<1>. QED BY <1>1, <1>2, <1>3

\* Steps that only look keep the rows tracked.
LEMMA QuietStaysTracked ==
  ASSUME JobsInv, TurnsInv, ParkingInv, TrackedInv, OnlyCrashes, NEW c \in Reconcilers, Quiet(c),
         Looks(c) \/ ClaimSession(c) \/ Release(c)
  PROVE  \A u \in Turns : RowTracked(u)'
<1>1. /\ session'.workspace = session.workspace /\ snapshot' = snapshot
      /\ \A u \in Turns : run'[u].replaced = run[u].replaced
  <2>1. CASE Looks(c)
    BY <2>1, LooksTouchNothing
  <2>2. CASE ClaimSession(c)
    BY <2>2, ClaimedByJob DEF Claimed, JobsInv, TypeOK, SessionRow
  <2>3. CASE Release(c)
    BY <2>3, ReleasedByJob DEF Released, JobsInv, TypeOK, SessionRow
  <2>. QED BY <2>1, <2>2, <2>3
<1>2. CASE source' = source
  <2>1. ASSUME NEW u \in Turns, session.active = u, snapshot'[u] = "whole", run'[u].replaced # u
        PROVE  source'[u] = "down"
    BY <1>1, <1>2, <2>1 DEF TrackedInv, RowTracked
  <2>. QED BY <1>1, <2>1, RowsStayTracked DEF Quiet
<1>3. CASE Finalize(c) \/ StopSource(c) \/ SuspendFails(c)
  <2>1. ASSUME NEW u \in Turns, session.active = u, snapshot'[u] = "whole", run'[u].replaced # u
        PROVE  source'[u] = "down"
    BY <1>1, <1>3, <2>1, SourcesOfTracked
  <2>. QED BY <1>1, <2>1, RowsStayTracked DEF Quiet
<1>4. source' = source \/ Finalize(c) \/ StopSource(c) \/ SuspendFails(c)
  BY DEF Looks, Check, EraseFails, Recheck, ReadPrevious, Prepare, CommitFails, MarkFinalized, Verify,
     Crash, Picks, PickExpired, PickParking, PickReplaced, PickFinalize, Pick, ClaimSession, Release
<1>. QED BY <1>2, <1>3, <1>4

\* So do those that erase, mark and unmark.
LEMMA TouchesStayTracked ==
  ASSUME JobsInv, TurnsInv, ParkingInv, TrackedInv, NEW c \in Reconcilers, Quiet(c),
         Erase(c) \/ Unmark(c) \/ Uncommitted(c) \/ Clear(c)
  PROVE  \A u \in Turns : RowTracked(u)'
<1>. DEFINE k == job[c]
<1>a. /\ k \in JobState /\ Holds(k) /\ JobShape(k) /\ run \in [Turns -> RunRow]
      /\ snapshot \in [Turns -> {"none", "whole"}] /\ session \in SessionRow
      /\ k.pc \in {"erase", "unmark"} => k.target \in Turns
      /\ k.pc \in {"unmark", "uncommitted"} => k.turn \in Turns
  BY WorkersTurn DEF JobsInv, TypeOK
<1>b. k.pc \in {"unmark", "clear"} => snapshot[k.target] = "none"
  BY <1>a DEF Holds
<1>c. source' = source
  BY DEF Erase, Unmark, Uncommitted, Clear
<1>1. ASSUME NEW u \in Turns, snapshot'[u] = "whole"
      PROVE  /\ snapshot[u] = "whole"
             /\ session.workspace = u => session'.workspace = u
             /\ \A w \in Turns : run[w].replaced = u => run'[w].replaced = u
  <2>1. CASE Erase(c)
    BY <1>a, <1>1, <2>1 DEF Erase, At
  <2>2. CASE Unmark(c)
    <3>1. /\ session' = session /\ snapshot' = snapshot /\ snapshot[k.target] = "none"
          /\ run' = IF run[k.turn].replaced = k.target THEN [run EXCEPT ![k.turn].replaced = None] ELSE run
      BY <1>b, <2>2 DEF Unmark, At
    <3>2. ASSUME NEW w \in Turns, run[w].replaced = u
          PROVE  run'[w].replaced = u
      BY <1>a, <1>1, <3>1, <3>2 DEF RunRow
    <3>. QED BY <1>1, <3>1, <3>2
  <2>3. CASE Uncommitted(c)
    <3>1. session' = session /\ snapshot' = snapshot /\ run[k.turn].replaced = None
          /\ run' = [run EXCEPT ![k.turn].replaced = k.turn]
      BY <1>a, <2>3 DEF Uncommitted, At, MarkReplaced, Holds
    <3>2. ASSUME NEW w \in Turns, run[w].replaced = u
          PROVE  run'[w].replaced = u
      BY <1>a, <3>1, <3>2, TurnsAssumption DEF RunRow, Turns, None
    <3>. QED BY <1>1, <3>1, <3>2
  <2>4. CASE Clear(c)
    BY <1>1, <1>b, <2>4 DEF Clear, At
  <2>. QED BY <2>1, <2>2, <2>3, <2>4
<1>2. ASSUME NEW u \in Turns, session.active = u, snapshot'[u] = "whole", run'[u].replaced # u
      PROVE  source'[u] = "down"
  BY <1>1, <1>2, <1>c DEF TrackedInv, RowTracked
<1>. QED BY <1>1, <1>2, RowsStayTracked DEF Quiet

\* So does a suspension, of the turn that is still active.
LEMMA SuspendStaysTracked ==
  ASSUME JobsInv, TurnsInv, ParkingInv, TrackedInv, NEW c \in Reconcilers, Suspend(c)
  PROVE  \A u \in Turns : RowTracked(u)'
<1>. DEFINE t == job[c].turn
<1>a. /\ t \in Turns /\ session.active = t /\ run[t].status = "ended" /\ job[c].kind = "parking"
      /\ source \in [Turns -> {"none", "up", "down", "gone"}] /\ snapshot \in [Turns -> {"none", "whole"}]
  BY WorkersTurn DEF Suspend, At, JobsInv, TypeOK
<1>b. run[t].attached
  BY <1>a DEF TurnsInv, JobsKnow
<1>1. /\ UNCHANGED <<session, run, worker>>
      /\ source' = [source EXCEPT ![t] = "down"] /\ snapshot' = [snapshot EXCEPT ![t] = "whole"]
  BY DEF Suspend
<1>2. ASSUME NEW u \in Turns PROVE RowTracked(u)'
  <2>1. CASE u = t
    BY <1>a, <1>b, <1>1, <2>1 DEF TrackedInv, RowTracked, Ended
  <2>2. CASE u # t
    <3>1. snapshot'[u] = snapshot[u] /\ source'[u] = source[u]
      BY <1>a, <1>1, <2>2
    <3>. QED BY <1>1, <3>1 DEF TrackedInv, RowTracked, Ended
  <2>. QED BY <2>1, <2>2
<1>. QED BY <1>2

\* So does a commit, which marks what it replaces.
LEMMA CommitStaysTracked ==
  ASSUME JobsInv, TurnsInv, ParkingInv, TrackedInv, OnlyCrashes, NEW c \in Reconcilers, Commit(c)
  PROVE  \A u \in Turns : RowTracked(u)'
<1>. DEFINE k == job[c]
            t == k.turn
<1>a. /\ t \in Turns /\ session.active = t /\ OwnsParkLease(c) /\ Ended(t)
      /\ k.pc = "commit" /\ k.kind = "parking" /\ Holds(k) /\ Carries(k) /\ RowTracked(t)
      /\ run \in [Turns -> RunRow] /\ session \in SessionRow /\ run[t] \in RunRow
  BY WorkersTurn DEF Commit, At, JobsInv, TypeOK, TrackedInv, Ended
<1>b. /\ run[t].replaced = None /\ k.previous = session.workspace /\ ~run[t].stopped
      /\ run[t].attached /\ source[t] # "up"
  BY <1>a DEF Holds, Carries, RowTracked, TurnsInv, JobsKnow
<1>1. /\ session' = ParkedSession(t, "made") /\ snapshot' = snapshot /\ worker' = worker /\ source' = source
      /\ run' = ParkedRun(t, "made", IF Replaces(c) THEN "previous" ELSE "clear")
  BY <1>a DEF Commit
<1>2. Parked(t)
  BY <1>a, <1>b, <1>1, ParkingEffect
<1>3. session'.workspace = t
  BY <1>a, <1>1 DEF ParkedSession, SessionRow
<1>4. ASSUME NEW u \in Turns, snapshot[u] = "whole"
      PROVE  session'.workspace = u \/ \E w \in Turns : run'[w].replaced = u
  <2>. SUFFICES ASSUME u # t PROVE \E w \in Turns : run'[w].replaced = u
    BY <1>3
  <2>0. u # None
    BY TurnsAssumption DEF Turns, None
  <2>1. CASE session.workspace = u
    <3>1. Replaces(c)
      BY <1>b, <2>0, <2>1 DEF Replaces
    <3>2. run'[t].replaced = u
      BY <1>a, <1>b, <1>1, <2>1, <3>1 DEF ParkedRun, RunRow
    <3>. QED BY <1>a, <3>2
  <2>2. CASE session.workspace # u
    <3>1. PICK w \in Turns : run[w].replaced = u
      BY <1>a, <1>4, <2>2 DEF TrackedInv, RowTracked
    <3>2. w # t
      BY <1>b, <2>0, <3>1
    <3>3. run'[w].replaced = u
      BY <1>2, <3>1, <3>2 DEF Parked
    <3>. QED BY <3>3
  <2>. QED BY <2>1, <2>2
<1>. QED BY <1>a, <1>1, <1>2, <1>4, ParkedTracked

\* So does parking without a checkpoint, which marks what may exist.
LEMMA FallbackStaysTracked ==
  ASSUME JobsInv, TurnsInv, ParkingInv, TrackedInv, NEW c \in Reconcilers, Fallback(c)
  PROVE  \A u \in Turns : RowTracked(u)'
<1>. DEFINE k == job[c]
            t == k.turn
            workspace == IF k.previous = None THEN "cold" ELSE "keep"
<1>a. /\ t \in Turns /\ session.active = t /\ OwnsParkLease(c) /\ Ended(t)
      /\ k.pc = "fallback" /\ Carries(k) /\ RowTracked(t)
      /\ run \in [Turns -> RunRow] /\ session \in SessionRow /\ run[t] \in RunRow
  BY WorkersTurn DEF Fallback, At, JobsInv, TypeOK, TrackedInv, Ended
<1>b. /\ (k.pending <=> run[t].replaced # None) /\ k.previous = session.workspace /\ ~run[t].stopped
      /\ snapshot[t] = "none" \/ run[t].replaced = t
      /\ source[t] = "gone"
  BY <1>a DEF Carries, RowTracked, TurnsInv, JobsKnow
<1>1. /\ session' = ParkedSession(t, workspace) /\ snapshot' = snapshot /\ worker' = worker /\ source' = source
      /\ run' = ParkedRun(t, workspace, IF k.pending THEN "keep" ELSE "clear")
  BY <1>a DEF Fallback
<1>2. Parked(t)
  BY <1>a, <1>b, <1>1, ParkingEffect
<1>3. session'.workspace = session.workspace
  BY <1>a, <1>b, <1>1 DEF ParkedSession, SessionRow
<1>4. run'[t].replaced = run[t].replaced
  <2>1. CASE k.pending
    BY <1>a, <1>b, <1>1, <2>1 DEF ParkedRun, RunRow
  <2>2. CASE ~k.pending
    BY <1>a, <1>b, <1>1, <2>2 DEF ParkedRun, RunRow
  <2>. QED BY <2>1, <2>2
<1>5. ASSUME NEW u \in Turns, snapshot[u] = "whole"
      PROVE  session'.workspace = u \/ \E w \in Turns : run'[w].replaced = u
  <2>1. \A w \in Turns : run'[w].replaced = run[w].replaced
    BY <1>2, <1>4 DEF Parked
  <2>2. session.workspace = u \/ \E w \in Turns : run[w].replaced = u
    BY <1>a, <1>b, <1>5 DEF TrackedInv, RowTracked
  <2>. QED BY <1>3, <2>1, <2>2
<1>. QED BY <1>a, <1>1, <1>2, <1>5, ParkedTracked

\* So does parking a turn without a machine.
LEMMA PlainStaysTracked ==
  ASSUME JobsInv, TurnsInv, TrackedInv, NEW c \in Reconcilers, NEW t \in Turns, ParkPlain(c, t)
  PROVE  (\A u \in Turns : RowTracked(u)') /\ StoppedStays /\ session'.workspace = session.workspace
<1>a. /\ run \in [Turns -> RunRow] /\ session \in SessionRow /\ run[t] \in RunRow
  BY DEF JobsInv, TypeOK
<1>1. /\ Parked(t) /\ snapshot' = snapshot /\ ~run[t].attached /\ ~run[t].stopped
      /\ session' = ParkedSession(t, "keep") /\ run' = ParkedRun(t, "keep", "keep")
  BY ParkPlainEffect DEF ParkPlain, TurnsInv
<1>2. session'.workspace = session.workspace
  BY <1>a, <1>1 DEF ParkedSession, SessionRow
<1>3. \A w \in Turns : run'[w].replaced = run[w].replaced
  BY <1>a, <1>1 DEF ParkedRun, RunRow
<1>4. ASSUME NEW u \in Turns, snapshot[u] = "whole"
      PROVE  session'.workspace = u \/ \E w \in Turns : run'[w].replaced = u
  <2>1. run[u].attached /\ (session.workspace = u \/ (\E w \in Turns : run[w].replaced = u) \/ session.active = u)
    BY <1>4 DEF TrackedInv, RowTracked
  <2>2. session.active # u
    BY <1>1, <2>1 DEF Parked
  <2>. QED BY <1>2, <1>3, <2>1, <2>2
<1>5. StoppedStays
  BY <1>1 DEF Parked, StoppedStays
<1>. QED BY <1>1, <1>2, <1>4, <1>5, ParkedTracked

-----------------------------------------------------------------------------
(* What the jobs carry. *)

\* A job that does not move carries what it did.
LEMMA BystanderCarries ==
  ASSUME JobsInv, StoppedStays, NEW d \in Reconcilers, job'[d] = job[d],
         ~Working(d) \/ Untouched, Carries(job[d])
  PROVE  Carries(job[d])'
<1>. DEFINE k == job[d]
<1>a. k \in JobState /\ JobShape(k)
  BY DEF JobsInv, TypeOK
<1>1. k.kind \in Repeatable => (k.turn \in Turns /\ (run[k.turn].stopped => run'[k.turn].stopped))
  BY <1>a DEF JobShape, StoppedStays
<1>2. k.pc \in {"finalize", "finalized"} => k.kind \in Repeatable
  BY <1>a DEF JobShape, JobState, Work, Chores, Repeatable
<1>3. CASE ~Working(d)
  <2>1. k.kind \in {"idle", "finalizing"} \/ k.pc = "picked"
    BY <1>a, <1>3 DEF Working, JobShape, JobState, Work, Chores
  <2>2. k.pc \in {"idle", "picked", "finalized", "release"}
    BY <1>a, <2>1 DEF JobShape
  <2>. QED BY <1>1, <1>2, <2>2 DEF Carries, Chores, Repeatable
<1>4. CASE Untouched
  <2>1. k.kind \in Repeatable => run'[k.turn].replaced = run[k.turn].replaced
    BY <1>1, <1>4 DEF Untouched
  <2>2. k.pc \in {"verify", "stop", "fallback"} => k.kind \in Repeatable
    BY <1>a DEF JobShape, JobState, Work, Chores, Repeatable
  <2>. QED BY <1>1, <1>2, <1>4, <2>1, <2>2 DEF Carries, Untouched, Repeatable
<1>. QED BY <1>3, <1>4

\* A job that looks carries what it did.
LEMMA LookingCarries ==
  ASSUME JobsInv, TurnsInv, ParkingInv, TrackedInv, OnlyCrashes, NEW c \in Reconcilers, Looks(c), Quiet(c)
  PROVE  Carries(job[c])'
<1>. DEFINE k == job[c]
            j == job'[c]
            J(i) ==
              /\ i.kind = "finalizing" => i.turn \in Turns /\ run[i.turn].stopped
              /\ i.pc \in {"finalize", "finalized"} => i.turn \in Turns /\ run[i.turn].stopped
              /\ i.kind = "parking" /\ i.pc \in Chores /\ i.then = "finalize" =>
                   i.turn \in Turns /\ run[i.turn].stopped
              /\ i.pc \in {"suspend", "commit", "uncommitted", "verify", "stop", "fallback"} =>
                   i.previous = session.workspace
              /\ i.kind = "parking" /\ i.pc \in Chores /\ i.then = "verify" =>
                   /\ i.previous = session.workspace /\ i.target = i.turn
                   /\ i.pc \in {"check", "erase"} => i.turn \in Turns /\ run[i.turn].replaced = i.turn
              /\ i.pc \notin {"stop", "fallback", "release"} => ~i.pending
              /\ i.pc \in {"stop", "fallback"} => i.turn \in Turns /\ (i.pending <=> run[i.turn].replaced # None)
              /\ i.pc \in {"verify", "stop", "fallback"} =>
                   i.turn \in Turns /\ (snapshot[i.turn] = "none" \/ run[i.turn].replaced = i.turn)
<1>a. /\ k \in JobState /\ JobShape(k) /\ Holds(k) /\ Carries(k) /\ job \in [Reconcilers -> JobState]
      /\ run \in [Turns -> RunRow] /\ session \in SessionRow
      /\ snapshot \in [Turns -> {"none", "whole"}] /\ source \in [Turns -> {"none", "up", "down", "gone"}]
  BY WorkersTurn DEF JobsInv, TypeOK, TrackedInv
<1>b. /\ k.pc \in {"prepare", "recheck", "read", "suspend", "commit", "uncommitted",
                   "verify", "stop", "fallback"} =>
              k.kind = "parking" /\ k.turn \in Turns /\ session.active = k.turn
      /\ k.pc \in {"check", "erase", "unmark"} =>
              /\ k.kind \in Work
              /\ k.kind # "expiring" => k.turn \in Turns
              /\ k.kind = "replacing" => k.then = "release"
              /\ k.kind = "parking" => k.then \in {"recheck", "verify", "finalize"}
  BY WorkersTurn
<1>c. ASSUME J(j) PROVE Carries(job[c])'
  <2>1. /\ session' = session /\ snapshot' = snapshot
        /\ \A t \in Turns : run'[t].replaced = run[t].replaced /\ run'[t].stopped = run[t].stopped
    BY LooksTouchNothing DEF Quiet
  <2>. QED BY <1>c, <2>1 DEF Carries
<1>. SUFFICES J(j)
  BY <1>c
<1>. USE DEF At, Go
<1>1. CASE Check(c) \/ EraseFails(c)
  <2>1. /\ k.pc \in {"check", "erase"}
        /\ j.kind = k.kind /\ j.turn = k.turn /\ j.target = k.target /\ j.then = k.then
        /\ j.previous = k.previous /\ j.pending = k.pending
        /\ j.pc \in {"erase", "release", k.then}
        /\ k.kind = "expiring" => j.pc = "release"
    <3>1. CASE Check(c)
      <4>1. k.kind # "expiring" /\ \E pc \in {"erase", k.then} : job' = [job EXCEPT ![c].pc = pc]
        BY <1>a, <3>1 DEF Check, JobShape
      <4>. QED BY <1>a, <3>1, <4>1 DEF Check, JobState
    <3>2. CASE EraseFails(c)
      BY <1>a, <3>2 DEF EraseFails, JobState
    <3>. QED BY <1>1, <3>1, <3>2
  <2>2. k.kind = "parking" /\ k.then = "verify" =>
          k.previous = session.workspace /\ k.target = k.turn /\ run[k.turn].replaced = k.turn
    BY <1>a, <2>1 DEF Carries, Chores
  <2>3. k.kind = "parking" /\ k.then = "finalize" => run[k.turn].stopped
    BY <1>a, <2>1 DEF Carries, Chores
  <2>4. ~k.pending
    BY <1>a, <2>1 DEF Carries
  <2>. QED BY <1>b, <2>1, <2>2, <2>3, <2>4 DEF Work, Chores
<1>2. CASE Recheck(c) \/ Prepare(c)
  <2>1. /\ j.kind = k.kind /\ j.kind = "parking" /\ ~j.pending
        /\ j.pc \in {"read", "release"} \/ (j.pc = "check" /\ j.then = "recheck")
    <3>1. ~k.pending /\ k.kind = "parking"
      BY <1>a, <1>b, <1>2 DEF Recheck, Prepare, Carries
    <3>2. CASE Recheck(c)
      BY <1>a, <3>1, <3>2 DEF Recheck, JobState
    <3>3. CASE Prepare(c)
      <4>1. \/ job' = [job EXCEPT ![c] = [@ EXCEPT !.pc = "release"]]
            \/ job' = [job EXCEPT ![c] = [@ EXCEPT !.pc = "read"]]
            \/ job' = [job EXCEPT ![c] = [@ EXCEPT !.pc = "check", !.target = run[k.turn].replaced,
                                                  !.then = "recheck"]]
        BY <3>3 DEF Prepare
      <4>2. CASE job' = [job EXCEPT ![c] = [@ EXCEPT !.pc = "release"]]
        BY <1>a, <3>1, <4>2 DEF JobState
      <4>3. CASE job' = [job EXCEPT ![c] = [@ EXCEPT !.pc = "read"]]
        BY <1>a, <3>1, <4>3 DEF JobState
      <4>4. CASE job' = [job EXCEPT ![c] = [@ EXCEPT !.pc = "check", !.target = run[k.turn].replaced,
                                                    !.then = "recheck"]]
        BY <1>a, <3>1, <4>4 DEF JobState
      <4>. QED BY <4>1, <4>2, <4>3, <4>4
    <3>. QED BY <1>2, <3>2, <3>3
  <2>. QED BY <2>1 DEF Chores
<1>3. CASE ReadPrevious(c)
  <2>1. ~k.pending /\ k.kind = "parking"
    BY <1>a, <1>b, <1>3 DEF ReadPrevious, Carries
  <2>2. j.kind = "parking" /\ j.pc = "suspend" /\ j.previous = session.workspace /\ ~j.pending
    BY <1>a, <1>3, <2>1 DEF ReadPrevious, JobState
  <2>. QED BY <2>2 DEF Chores
<1>4. CASE SuspendFails(c)
  <2>1. /\ k.pc = "suspend" /\ ~k.pending /\ k.kind = "parking" /\ k.turn \in Turns /\ session.active = k.turn
        /\ k.previous = session.workspace /\ run[k.turn].replaced = None
    BY <1>a, <1>b, <1>4 DEF SuspendFails, Carries, Holds
  <2>2. source[k.turn] \notin {"up", "down"}
    BY <1>4 DEF SuspendFails, Fault, OnlyCrashes
  <2>3. snapshot[k.turn] = "none"
    <3>1. None # k.turn
      BY <2>1, TurnsAssumption DEF Turns, None
    <3>. QED BY <1>a, <2>1, <2>2, <3>1 DEF TrackedInv, RowTracked
  <2>4. j.kind = "parking" /\ j.pc = "stop" /\ j.turn = k.turn /\ j.previous = k.previous /\ j.pending = k.pending
    BY <1>a, <1>4, <2>1 DEF SuspendFails, JobState
  <2>. QED BY <2>1, <2>3, <2>4 DEF Chores
<1>5. CASE CommitFails(c)
  <2>1. k.pc = "commit" /\ ~k.pending /\ k.kind = "parking" /\ k.previous = session.workspace
    BY <1>a, <1>b, <1>5 DEF CommitFails, Carries
  <2>2. j.kind = "parking" /\ j.pc = "uncommitted" /\ j.previous = k.previous /\ j.pending = k.pending
    BY <1>a, <1>5, <2>1 DEF CommitFails, JobState
  <2>. QED BY <2>1, <2>2 DEF Chores
<1>6. CASE Verify(c)
  <2>1. /\ k.pc = "verify" /\ k.kind = "parking" /\ k.turn \in Turns /\ k.previous = session.workspace
        /\ snapshot[k.turn] = "none" \/ run[k.turn].replaced = k.turn
    BY <1>a, <1>b, <1>6 DEF Verify, Carries
  <2>2. /\ j.kind = "parking" /\ j.pc = "stop" /\ j.turn = k.turn /\ j.previous = k.previous
        /\ j.pending = (run[k.turn].replaced # None)
    BY <1>a, <1>6, <2>1 DEF Verify, JobState
  <2>. QED BY <2>1, <2>2 DEF Chores
<1>7. CASE StopSource(c)
  <2>1. /\ k.pc = "stop" /\ k.kind = "parking" /\ k.turn \in Turns /\ k.previous = session.workspace
        /\ snapshot[k.turn] = "none" \/ run[k.turn].replaced = k.turn
        /\ k.pending <=> run[k.turn].replaced # None
    BY <1>a, <1>b, <1>7 DEF StopSource, Carries
  <2>2. /\ j.kind = "parking" /\ j.pc \in {"fallback", "release"} /\ j.turn = k.turn
        /\ j.previous = k.previous /\ j.pending = k.pending
    BY <1>a, <1>7, <2>1 DEF StopSource, JobState
  <2>. QED BY <2>1, <2>2 DEF Chores
<1>8. CASE Finalize(c) \/ MarkFinalized(c)
  <2>1. /\ k.pc \in {"finalize", "finalized", "picked"} /\ (k.pc = "picked" => k.kind = "finalizing")
        /\ k.kind \in {"parking", "finalizing"} /\ k.turn \in Turns /\ run[k.turn].stopped /\ ~k.pending
    <3>1. k.pc \in {"finalize", "finalized", "picked"} /\ (k.pc = "picked" => k.kind = "finalizing")
      BY <1>8 DEF Finalize, MarkFinalized
    <3>2. k.kind \in {"parking", "finalizing"}
      BY <1>a, <3>1 DEF JobShape, JobState, Work, Chores
    <3>. QED BY <1>a, <3>1, <3>2 DEF Carries, JobShape, Repeatable
  <2>2. j.kind = k.kind /\ j.pc \in {"finalized", "release"} /\ j.turn = k.turn /\ j.pending = k.pending
    BY <1>a, <1>8 DEF Finalize, MarkFinalized, JobState
  <2>. QED BY <2>1, <2>2 DEF Chores
<1>9. CASE Crash(c)
  <2>1. j = IdleJob
    BY <1>a, <1>9 DEF Crash
  <2>. QED BY <2>1 DEF IdleJob, Chores
<1>10. CASE Picks(c)
  <2>1. ASSUME NEW kind, NEW t, NEW target, Pick(c, kind, t, target)
        PROVE  j.kind = kind /\ j.pc = "picked" /\ j.turn = t /\ ~j.pending
    BY <1>a, <2>1 DEF Pick, IdleJob
  <2>2. j.pc = "picked" /\ ~j.pending /\ (j.kind = "finalizing" => j.turn \in Turns /\ run[j.turn].stopped)
    BY <1>10, <2>1 DEF Picks, PickExpired, PickParking, PickReplaced, PickFinalize
  <2>. QED BY <2>2 DEF Chores
<1>. QED BY <1>1, <1>2, <1>3, <1>4, <1>5, <1>6, <1>7, <1>8, <1>9, <1>10 DEF Looks

\* So does one that erases, marks, unmarks or suspends.
LEMMA TouchingCarries ==
  ASSUME JobsInv, TurnsInv, ParkingInv, TrackedInv, OnlyCrashes, NEW c \in Reconcilers, Quiet(c),
         \/ Erase(c) \/ Unmark(c) \/ Uncommitted(c) \/ Clear(c) \/ Suspend(c)
  PROVE  Carries(job[c])'
<1>. DEFINE k == job[c]
            j == job'[c]
<1>a. /\ k \in JobState /\ JobShape(k) /\ Holds(k) /\ Carries(k) /\ job \in [Reconcilers -> JobState]
      /\ run \in [Turns -> RunRow]
  BY WorkersTurn DEF JobsInv, TypeOK, TrackedInv
<1>b. /\ k.pc \in {"suspend", "uncommitted"} => k.kind = "parking" /\ k.turn \in Turns
      /\ k.pc \in {"erase", "unmark"} =>
              /\ k.kind \in Work
              /\ k.kind # "expiring" => k.turn \in Turns
              /\ k.pc = "unmark" => k.kind # "expiring"
              /\ k.kind = "replacing" => k.then = "release"
              /\ k.kind = "parking" => k.then \in {"recheck", "verify", "finalize"}
  BY WorkersTurn
<1>c. \A t \in Turns : run[t].stopped => run'[t].stopped
  BY DEF Quiet
<1>. USE DEF At, Go
<1>1. CASE Erase(c)
  <2>1. /\ k.pc = "erase" /\ session' = session /\ ~k.pending
        /\ j.kind = k.kind /\ j.turn = k.turn /\ j.target = k.target /\ j.then = k.then
        /\ j.previous = k.previous /\ j.pending = k.pending
        /\ j.pc = IF k.kind = "expiring" THEN "clear" ELSE "unmark"
    BY <1>a, <1>1 DEF Erase, JobState, Carries
  <2>2. k.kind = "parking" /\ k.then = "verify" => k.previous = session.workspace /\ k.target = k.turn
    BY <1>a, <2>1 DEF Carries, Chores
  <2>3. k.kind = "parking" /\ k.then = "finalize" => run[k.turn].stopped
    BY <1>a, <2>1 DEF Carries, Chores
  <2>. QED BY <1>b, <1>c, <2>1, <2>2, <2>3 DEF Carries, Work, Chores
<1>2. CASE Unmark(c)
  <2>1. /\ k.pc = "unmark" /\ session' = session /\ snapshot' = snapshot /\ ~k.pending
        /\ j.kind = k.kind /\ j.turn = k.turn /\ j.previous = k.previous /\ j.pending = k.pending
        /\ j.pc = k.then /\ snapshot[k.target] = "none"
    BY <1>a, <1>2 DEF Unmark, JobState, Carries, Holds
  <2>2. k.kind = "parking" /\ k.then = "verify" => k.previous = session.workspace /\ k.target = k.turn
    BY <1>a, <2>1 DEF Carries, Chores
  <2>3. k.kind = "parking" /\ k.then = "finalize" => run[k.turn].stopped
    BY <1>a, <2>1 DEF Carries, Chores
  <2>. QED BY <1>b, <1>c, <2>1, <2>2, <2>3 DEF Carries, Work, Chores
<1>3. CASE Uncommitted(c)
  <2>1. /\ k.pc = "uncommitted" /\ session' = session /\ ~k.pending /\ k.turn \in Turns /\ k.kind = "parking"
        /\ run[k.turn].replaced = None /\ k.previous = session.workspace
    BY <1>a, <1>b, <1>3 DEF Uncommitted, Carries, Holds
  <2>2. /\ run' = [run EXCEPT ![k.turn].replaced = k.turn]
        /\ job' = [job EXCEPT ![c].pc = "check", ![c].target = k.turn, ![c].then = "verify"]
    BY <1>3, <2>1 DEF Uncommitted, MarkReplaced, DeleteOwn
  <2>3. run'[k.turn].replaced = k.turn
    BY <1>a, <2>1, <2>2 DEF RunRow
  <2>4. /\ j.kind = "parking" /\ j.turn = k.turn /\ j.target = k.turn /\ j.previous = k.previous
        /\ j.pending = k.pending /\ j.pc = "check" /\ j.then = "verify"
    BY <1>a, <2>1, <2>2 DEF JobState
  <2>. QED BY <2>1, <2>3, <2>4 DEF Carries, Chores
<1>4. CASE Clear(c)
  <2>1. k.pc = "clear" /\ k.kind = "expiring" /\ j.kind = k.kind /\ j.pc = "release"
    <3>1. k.pc = "clear" /\ k.kind = "expiring"
      BY <1>a, <1>4 DEF Clear, JobShape, JobState, Work, Chores
    <3>. QED BY <1>a, <1>4, <3>1 DEF Clear, JobState
  <2>. QED BY <2>1 DEF Carries, Chores
<1>5. CASE Suspend(c)
  <2>1. /\ k.pc = "suspend" /\ session' = session /\ ~k.pending /\ k.kind = "parking"
        /\ k.previous = session.workspace
    BY <1>a, <1>b, <1>5 DEF Suspend, Carries
  <2>2. j.kind = "parking" /\ j.pc = "commit" /\ j.previous = k.previous /\ j.pending = k.pending
    BY <1>a, <1>5, <2>1 DEF Suspend, JobState
  <2>. QED BY <2>1, <2>2 DEF Carries, Chores
<1>. QED BY <1>1, <1>2, <1>3, <1>4, <1>5

\* So does one that claims, releases or parks.
LEMMA DecidingCarries ==
  ASSUME JobsInv, TurnsInv, ParkingInv, TrackedInv, OnlyCrashes, NEW c \in Reconcilers,
         \/ ClaimSession(c) \/ Release(c) \/ Commit(c) \/ Fallback(c)
  PROVE  Carries(job[c])'
<1>. DEFINE k == job[c]
            j == job'[c]
<1>a. /\ k \in JobState /\ JobShape(k) /\ Holds(k) /\ Carries(k) /\ job \in [Reconcilers -> JobState]
      /\ run \in [Turns -> RunRow]
  BY WorkersTurn DEF JobsInv, TypeOK, TrackedInv
<1>. USE DEF At, Go
<1>1. CASE ClaimSession(c)
  <2>1. k.pc = "picked" /\ ~k.pending /\ k.kind # "finalizing"
    BY <1>a, <1>1 DEF ClaimSession, Carries
  <2>2. CASE j = IdleJob
    BY <2>2 DEF IdleJob, Carries, Chores
  <2>3. CASE k.kind = "parking" /\ j = [k EXCEPT !.pc = "prepare"]
    <3>1. j.kind = "parking" /\ j.pc = "prepare" /\ j.pending = k.pending
      BY <1>a, <2>3 DEF JobState
    <3>. QED BY <2>1, <3>1 DEF Carries, Chores
  <2>4. CASE k.kind = "replacing" /\ j = [k EXCEPT !.pc = "check", !.then = "release"]
    <3>1. j.kind = "replacing" /\ j.pc = "check" /\ j.pending = k.pending
      BY <1>a, <2>4 DEF JobState
    <3>. QED BY <2>1, <3>1 DEF Carries, Chores
  <2>5. CASE k.kind = "expiring" /\ j = [k EXCEPT !.pc = "erase"]
    <3>1. j.kind = "expiring" /\ j.pc = "erase" /\ j.pending = k.pending
      BY <1>a, <2>5 DEF JobState
    <3>. QED BY <2>1, <3>1 DEF Carries, Chores
  <2>. QED BY <1>1, <2>2, <2>3, <2>4, <2>5, ClaimedByJob
<1>2. CASE Release(c)
  BY <1>2, ReleasedByJob DEF IdleJob, Carries, Chores
<1>3. CASE Commit(c)
  <2>1. /\ k.pc = "commit" /\ k.kind = "parking" /\ ~k.pending /\ k.turn \in Turns /\ Ended(k.turn)
        /\ OwnsParkLease(c)
    BY <1>a, <1>3, WorkersTurn DEF Commit, Carries, Ended
  <2>2. ~Fault("lostreply")
    BY DEF Fault, OnlyCrashes
  <2>3. /\ run' = ParkedRun(k.turn, "made", IF Replaces(c) THEN "previous" ELSE "clear")
        /\ \/ job' = [job EXCEPT ![c] = [@ EXCEPT !.pc = "check", !.then = "finalize",
                                                  !.target = job[c].previous]]
           \/ job' = [job EXCEPT ![c] = [@ EXCEPT !.pc = "finalize"]]
    BY <1>3, <2>1, <2>2 DEF Commit
  <2>4. /\ j.kind = "parking" /\ j.turn = k.turn /\ j.pending = k.pending
        /\ j.pc = "finalize" \/ (j.pc = "check" /\ j.then = "finalize")
    <3>1. CASE job' = [job EXCEPT ![c] = [@ EXCEPT !.pc = "check", !.then = "finalize",
                                                   !.target = job[c].previous]]
      BY <1>a, <2>1, <3>1 DEF JobState
    <3>2. CASE job' = [job EXCEPT ![c] = [@ EXCEPT !.pc = "finalize"]]
      BY <1>a, <2>1, <3>2 DEF JobState
    <3>. QED BY <2>3, <3>1, <3>2
  <2>5. run'[k.turn].stopped
    BY <1>a, <2>1, <2>3 DEF ParkedRun, RunRow
  <2>. QED BY <2>1, <2>4, <2>5 DEF Carries, Chores
<1>4. CASE Fallback(c)
  <2>1. k.kind = "parking" /\ k.pc = "fallback"
    BY <1>a, <1>4, WorkersTurn DEF Fallback
  <2>2. j.kind = "parking" /\ j.pc = "release"
    BY <1>a, <1>4, <2>1 DEF Fallback, JobState
  <2>. QED BY <2>2 DEF Carries, Chores
<1>. QED BY <1>1, <1>2, <1>3, <1>4

\* Together: a step of a job keeps the rows tracked.
LEMMA JobsStayTracked ==
  ASSUME JobsInv, TurnsInv, ParkingInv, TrackedInv, OnlyCrashes, NEW c \in Reconcilers,
         JobStep(c) \/ CommitFails(c) \/ Crash(c) \/ Picks(c)
  PROVE  (\A u \in Turns : RowTracked(u)') /\ StoppedStays /\ Carries(job[c])'
<1>1. ~Unowned(c) /\ ~Discard(c)
  BY WorkersTurn DEF Unowned, Discard, At
<1>2. \/ Quiet(c)
      \/ (Commit(c) \/ Fallback(c)) /\ job[c].turn \in Turns /\ Parked(job[c].turn)
  BY JobEffects DEF TurnsInv
<1>3. StoppedStays
  BY <1>2 DEF Quiet, Parked, StoppedStays
<1>4. CASE Commit(c) \/ Fallback(c)
  BY <1>3, <1>4, CommitStaysTracked, FallbackStaysTracked, DecidingCarries
<1>5. CASE ~Commit(c) /\ ~Fallback(c)
  <2>1. Quiet(c)
    BY <1>2, <1>5
  <2>. QED BY <1>1, <1>3, <1>5, <2>1, QuietStaysTracked, TouchesStayTracked, SuspendStaysTracked,
              LookingCarries, TouchingCarries, DecidingCarries DEF JobStep, Looks
<1>. QED BY <1>4, <1>5

\* TrackedInv is inductive relative to the others.
LEMMA TrackedInvNext ==
  ASSUME JobsInv, JobsInv', TurnsInv, ParkingInv, TrackedInv, OnlyCrashes, Next
  PROVE  TrackedInv'
<1>a. job \in [Reconcilers -> JobState]
  BY DEF JobsInv, TypeOK
<1>b. NoFaultOf({"pause"})
  BY DEF OnlyCrashes, NoFaultOf
<1>c. ASSUME job' = job, StoppedStays, \A c \in Reconcilers : ~Working(c) \/ Untouched
      PROVE  \A d \in Reconcilers : Carries(job[d])'
  BY <1>c, BystanderCarries DEF TrackedInv
<1>1. CASE HolderGone \/ HolderPaused \/ ExpiryPasses \/ Idle
           \/ \E c \in Reconcilers : ReleaseStale(c) \/ BeatResumes(c)
  <2>1. job' = job /\ Untouched
    BY <1>1, <1>b, ClaimsTouchNothing DEF ParkingInv
  <2>2. (\A u \in Turns : RowTracked(u)') /\ StoppedStays
    BY <1>1, ClaimsStayTracked
  <2>. QED BY <1>c, <2>1, <2>2 DEF TrackedInv
<1>2. ASSUME NEW t \in Turns, TurnMoves(t)
      PROVE  TrackedInv'
  <2>1. job' = job /\ (NobodyHolds \/ Untouched)
    BY <1>2, TurnsLeaveTheClaim
  <2>2. \A c \in Reconcilers : ~Working(c) \/ Untouched
    BY <2>1, NobodyWorks DEF ParkingInv
  <2>3. (\A u \in Turns : RowTracked(u)') /\ StoppedStays
    BY <1>2, TurnsStayTracked
  <2>. QED BY <1>c, <2>1, <2>2, <2>3 DEF TrackedInv
<1>3. ASSUME NEW c \in Reconcilers, JobStep(c) \/ CommitFails(c) \/ Crash(c) \/ Picks(c)
      PROVE  TrackedInv'
  <2>1. (\A u \in Turns : RowTracked(u)') /\ StoppedStays /\ Carries(job[c])'
    BY <1>3, JobsStayTracked
  <2>2. Untouched \/ Working(c)
    BY <1>3, JobsKeep DEF Keeps, OnlyCrashes, NoFaultOf
  <2>3. ASSUME NEW d \in Reconcilers, d # c
        PROVE  Carries(job[d])'
    <3>1. job'[d] = job[d]
      <4>1. job' = [job EXCEPT ![c] = job'[c]]
        BY <1>3, JobSteps
      <4>. QED BY <1>a, <2>3, <4>1
    <3>2. ~Working(d) \/ Untouched
      BY <2>2, <2>3, OneWorks DEF ParkingInv
    <3>. QED BY <2>1, <3>1, <3>2, BystanderCarries DEF TrackedInv
  <2>. QED BY <2>1, <2>3 DEF TrackedInv
<1>4. ASSUME NEW c \in Reconcilers, NEW t \in Turns, ParkPlain(c, t)
      PROVE  TrackedInv'
  <2>1. (\A u \in Turns : RowTracked(u)') /\ StoppedStays
    BY <1>4, PlainStaysTracked
  <2>2. job' = job /\ NobodyHolds
    BY <1>4 DEF ParkPlain, NobodyHolds
  <2>3. \A d \in Reconcilers : ~Working(d)
    BY <2>2, NobodyWorks DEF ParkingInv
  <2>. QED BY <1>c, <2>1, <2>2, <2>3 DEF TrackedInv
<1>. QED BY <1>1, <1>2, <1>3, <1>4 DEF Next, PickTurn, Picks, TurnMoves

\* It begins so.
LEMMA TrackedInvInit == Init => TrackedInv
<1>. SUFFICES ASSUME Init PROVE TrackedInv
  OBVIOUS
<1>1. \A c \in Reconcilers : job[c] = IdleJob
  BY DEF Init
<1>2. \A c \in Reconcilers : Carries(job[c])
  BY <1>1 DEF IdleJob, Carries, Chores
<1>3. \A t \in Turns : RowTracked(t)
  BY TurnsAssumption DEF Init, RowTracked, Turns, None
<1>. QED BY <1>2, <1>3 DEF TrackedInv

\* No checkpoint and no machine is lost from sight: whichever reconciler crashes
\* or commit fails, at whatever step and however often, somebody who comes later
\* finds what there is to delete. Of the faults that are excluded a pause, a race
\* and a refusal after a crash can lose one; a reply that is lost cannot, as far as
\* TLC has looked, but the argument by ParkingInv does not cover it
\* (suspendAndPark, parkSession, retryPendingSessionFinalizations,
\* retryPendingSessionSandboxReplacements).
THEOREM NothingLeaks ==
  ASSUME OnlyCrashes
  PROVE  Spec => []NothingIsLeaked
<1>. DEFINE IInv == JobsInv /\ TurnsInv /\ ParkingInv /\ TrackedInv
<1>1. Init => IInv
  BY ParkingInit, ParkingInvInit, TrackedInvInit
<1>2. IInv /\ [Next]_vars => IInv'
  <2>. SUFFICES ASSUME IInv, [Next]_vars PROVE IInv'
    OBVIOUS
  <2>1. JobsInv' /\ TurnsInv'
    BY JobsNext, TurnsNext
  <2>2. CASE Next
    BY <2>1, <2>2, ParkingInvNext, TrackedInvNext DEF OnlyCrashes, NoFaultOf
  <2>3. CASE UNCHANGED vars
    BY <2>1, <2>3 DEF vars, ParkingInv, HoldersOwn, Working, Owns, Past, Holds, Uncommitting,
       UnexpiredCheckpointExists, TrackedInv, RowTracked, Ended, Carries
  <2>. QED BY <2>1, <2>2, <2>3
<1>3. IInv => NothingIsLeaked
  <2>1. TurnsInv => SourceTracked
    BY DEF TurnsInv, Machines
  <2>2. TrackedInv => CheckpointTracked
    BY DEF TrackedInv, RowTracked, CheckpointTracked
  <2>. QED BY <2>1, <2>2 DEF NothingIsLeaked
<1>. QED BY <1>1, <1>2, <1>3, PTL DEF Spec

=============================================================================
