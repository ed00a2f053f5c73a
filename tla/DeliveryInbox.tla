--------------------------- MODULE DeliveryInbox ---------------------------
(***************************************************************************)
(* The inbox of GitHub deliveries and the session command each one becomes. *)
(*                                                                         *)
(* A webhook is recorded and acknowledged; controllers claim recorded      *)
(* deliveries oldest first, project them, and queue a turn: in the session *)
(* bound to the pull request, or in a new one that is bound with it.  A    *)
(* claim is a lease without heartbeat, so that a slow controller may work  *)
(* beside its successor.  What keeps them apart are two unique indexes: a  *)
(* delivery has one run, a pull request one session.                       *)
(*                                                                         *)
(* A delivery has at most one run row, hence run[d]; a pull request at     *)
(* most one session row, which is created, bound and deleted together with *)
(* its binding, hence thread[p].                                           *)
(***************************************************************************)
EXTENDS Naturals, FiniteSets

CONSTANTS
  Deliveries,             \* numbered in the order of createdAt
  PullRequests,
  Controllers,
  MAX_DELIVERY_ATTEMPTS,
  FaultKinds,             \* which of the kinds in AllFaults may happen
  MaxFaults               \* bound: number of faults

AllFaults == {
  "crash",         \* a controller disappears in the middle of its work
  "pause",         \* a live controller outlives its lease
  "error",         \* a read, a statement or a call to GitHub fails
  "lostreply",     \* a transaction commits, the caller sees an error
  "early_delete"}  \* the user deletes the session of an unsettled delivery

ASSUME DeliveriesAssumption == Deliveries \subseteq Nat
ASSUME AttemptsAssumption == MAX_DELIVERY_ATTEMPTS \in Nat \ {0}
ASSUME InboxFaultsAssumption == FaultKinds \subseteq AllFaults /\ MaxFaults \in Nat

VARIABLES
  about,       \* about[d]: the pull request d is about
  asking,      \* the deliveries whose event asks for a review or for the agent
  delivery,    \* delivery[d]: its row in integration_deliveries
  worker,      \* worker[c]: what controller c is doing with which delivery
  run,         \* run[d]: the run queued for d
  thread,      \* thread[p]: the session bound to p
  made,        \* made[d]: how many runs were ever queued for d
  faults

inboxVars == <<about, asking, delivery, worker, run, thread, made, faults>>

Unbound == 0
NoRun == [status |-> "none", session |-> Unbound]

Live == {"queued", "running"}
Terminal == {"succeeded", "failed"}   \* cancelled counts as failed

DeliveryRow == [
  status  : {"absent", "pending", "processing", "processed", "ignored", "failed"},
  attempt : Nat,
  old     : BOOLEAN]   \* processing: the lease ran out; failed: retry is due

\* claim: the claimedAt the worker was given, named by its attempt.
WorkerState == [
  pc       : {"idle", "project", "look", "find", "append", "create", "rebind",
              "raced", "finish"},
  delivery : {0} \cup Deliveries,
  claim    : Nat,
  session  : Nat,
  result   : {"none", "processed", "ignored", "failed"}]

IdleWorker == [pc |-> "idle", delivery |-> 0, claim |-> 0, session |-> Unbound,
               result |-> "none"]

InboxTypeOK ==
  /\ about \in [Deliveries -> PullRequests]
  /\ asking \in SUBSET Deliveries
  /\ delivery \in [Deliveries -> DeliveryRow]
  /\ worker \in [Controllers -> WorkerState]
  /\ run \in [Deliveries -> [status : {"none"} \cup Live \cup Terminal,
                             session : Nat]]
  /\ thread \in [PullRequests -> [session : Nat, opened : Nat,
                                  operation : {"none", "parking", "archiving"}]]
  /\ made \in [Deliveries -> Nat]
  /\ faults \in 0 .. MaxFaults

InboxInit ==
  /\ about \in [Deliveries -> PullRequests]
  /\ asking \in SUBSET Deliveries
  /\ delivery = [d \in Deliveries |-> [status |-> "absent", attempt |-> 0,
                                       old |-> FALSE]]
  /\ worker = [c \in Controllers |-> IdleWorker]
  /\ run = [d \in Deliveries |-> NoRun]
  /\ thread = [p \in PullRequests |-> [session |-> Unbound, opened |-> 0,
                                       operation |-> "none"]]
  /\ made = [d \in Deliveries |-> 0]
  /\ faults = 0

Fault(kind) ==
  /\ kind \in FaultKinds
  /\ faults < MaxFaults
  /\ faults' = faults + 1

Of(c) == worker[c].delivery
Subject(c) == about[Of(c)]

\* The claim in the row is the one c was given.
Holds(c) ==
  /\ delivery[Of(c)].status = "processing"
  /\ delivery[Of(c)].attempt = worker[c].claim

\* Some controller is still working on d.
AtWork(d) == \E c \in Controllers : worker[c].pc # "idle" /\ Of(c) = d

-----------------------------------------------------------------------------
(* The unique indexes. *)

\* Mutated: no index on the origin of a run.
NeverTaken(d) == FALSE

\* runs (integration_provider, integration_delivery_id)
Taken(d) == run[d].status # "none"

\* Mutated: no index on the key of a thread.
NeverBound(p) == FALSE

\* external_threads (provider, external_key)
Bound(p) == thread[p].session # Unbound

Settled(d) ==
  \/ delivery[d].status \in {"processed", "ignored"}
  \/ delivery[d].status = "failed" /\ delivery[d].attempt >= MAX_DELIVERY_ATTEMPTS

\* The runs of the session bound to p.
RunsOf(p) == {d \in Deliveries :
  Taken(d) /\ about[d] = p /\ run[d].session = thread[p].session}

-----------------------------------------------------------------------------
(* Intake. *)

\* GitHub delivers; the row is written before the 202.
Receive(d) ==
  /\ delivery[d].status = "absent"
  /\ \A e \in Deliveries : e < d => delivery[e].status # "absent"
  /\ delivery' = [delivery EXCEPT ![d].status = "pending"]
  /\ UNCHANGED <<about, asking, worker, run, thread, made, faults>>

\* The same delivery again: onConflictDoNothing.
ReceiveAgain(d) ==
  /\ delivery[d].status # "absent"
  /\ UNCHANGED inboxVars

-----------------------------------------------------------------------------
(* The claim. *)

\* Mutated: a lease that ran out is nobody's to take.
MayClaimFresh(d) ==
  \/ delivery[d].status = "pending"
  \/ /\ delivery[d].status = "failed"
     /\ delivery[d].attempt < MAX_DELIVERY_ATTEMPTS
     /\ delivery[d].old

MayClaim(d) ==
  \/ delivery[d].status = "pending"
  \/ delivery[d].status = "processing" /\ delivery[d].old
  \/ /\ delivery[d].status = "failed"
     /\ delivery[d].attempt < MAX_DELIVERY_ATTEMPTS
     /\ delivery[d].old

ClaimDelivery(c) ==
  /\ worker[c].pc = "idle"
  /\ \E d \in Deliveries :
       /\ MayClaim(d)
       /\ \A e \in Deliveries : MayClaim(e) => d <= e
       /\ delivery' = [delivery EXCEPT ![d] =
            [status |-> "processing", attempt |-> @.attempt + 1, old |-> FALSE]]
       /\ worker' = [worker EXCEPT ![c] =
            [IdleWorker EXCEPT !.pc = "project", !.delivery = d,
                               !.claim = delivery[d].attempt + 1]]
  /\ UNCHANGED <<about, asking, run, thread, made, faults>>

\* Five minutes pass.  With a live holder this takes a pause.
LeaseExpires(d) ==
  /\ delivery[d].status = "processing" /\ ~delivery[d].old
  /\ delivery' = [delivery EXCEPT ![d].old = TRUE]
  /\ IF \E c \in Controllers : worker[c].pc # "idle" /\ Of(c) = d /\ Holds(c)
     THEN Fault("pause")
     ELSE UNCHANGED faults
  /\ UNCHANGED <<about, asking, worker, run, thread, made>>

\* Ten seconds pass since a failure that may be retried.
RetryDue(d) ==
  /\ delivery[d].status = "failed" /\ ~delivery[d].old
  /\ delivery[d].attempt < MAX_DELIVERY_ATTEMPTS
  /\ delivery' = [delivery EXCEPT ![d].old = TRUE]
  /\ UNCHANGED <<about, asking, worker, run, thread, made, faults>>

-----------------------------------------------------------------------------
(* Projection and command.  One action per statement. *)

Goto(c, pc) == worker' = [worker EXCEPT ![c].pc = pc]

Conclude(c, result) ==
  worker' = [worker EXCEPT ![c].pc = "finish", ![c].result = result]

\* projectGithubEvent: a pull request that is opened, reopened, made ready or
\* pushed to, or a new comment on one that mentions the agent, and complete.
Asks(d) == d \in asking

\* Also ignored: a bot, no installation, a draft, a repository without
\* automatic reviews.  The installation and the policy may differ from one
\* claim of a delivery to the next.
Project(c) ==
  /\ worker[c].pc = "project"
  /\ \/ Conclude(c, "ignored")
     \/ Asks(Of(c)) /\ Goto(c, "look")
  /\ UNCHANGED <<about, asking, delivery, run, thread, made, faults>>

LookForRun(c) ==
  /\ worker[c].pc = "look"
  /\ IF Taken(Of(c)) THEN Conclude(c, "processed") ELSE Goto(c, "find")
  /\ UNCHANGED <<about, asking, delivery, run, thread, made, faults>>

FindSession(c) ==
  /\ worker[c].pc = "find"
  /\ LET bound == thread[Subject(c)].session
     IN worker' = [worker EXCEPT ![c].pc = IF bound = Unbound THEN "create"
                                                              ELSE "append",
                                 ![c].session = bound]
  /\ UNCHANGED <<about, asking, delivery, run, thread, made, faults>>

QueueRun(d, session) ==
  /\ run' = [run EXCEPT ![d] = [status |-> "queued", session |-> session]]
  /\ made' = [made EXCEPT ![d] = @ + 1]

\* The transaction has committed; its reply may be lost.
Committed(c) ==
  \/ Conclude(c, "processed") /\ UNCHANGED faults
  \/ Conclude(c, "failed") /\ Fault("lostreply")

\* A unique index refused the insert and the transaction is undone.
\* isUniqueViolation looks for the code on the error itself; whether it is
\* found there or only on the error's cause is the database library's affair,
\* so that the error may also pass for any other.
Violated(c, recovery) ==
  /\ Goto(c, recovery) \/ Conclude(c, "failed")
  /\ UNCHANGED <<run, thread, made, faults>>

\* createSessionTurn: no session, session busy, index, insert - in this order.
AppendTurn(c) ==
  /\ worker[c].pc = "append"
  /\ LET row == thread[Subject(c)]
     IN IF row.session # worker[c].session \/ row.operation # "none"
        THEN Conclude(c, "failed") /\ UNCHANGED <<run, made, faults>>
        ELSE \/ /\ ~Taken(Of(c))
                /\ QueueRun(Of(c), row.session)
                /\ Committed(c)
             \/ /\ Taken(Of(c))
                /\ Violated(c, "raced")
  /\ UNCHANGED <<about, asking, delivery, thread>>

\* bindExternalThread: a session of p that did not exist before.
Bind(p, session) ==
  thread' = [thread EXCEPT ![p] =
    [session |-> session, opened |-> session, operation |-> "none"]]

\* createSessionWithRun: session, run and binding in one transaction.
CreateSession(c) ==
  /\ worker[c].pc = "create"
  /\ LET p == Subject(c)
     IN \/ /\ ~Taken(Of(c)) /\ ~Bound(p)
           /\ Bind(p, thread[p].opened + 1)
           /\ QueueRun(Of(c), thread[p].opened + 1)
           /\ Committed(c)
        \/ /\ Taken(Of(c)) \/ Bound(p)
           /\ Violated(c, "rebind")
           /\ UNCHANGED thread
  /\ UNCHANGED <<about, asking, delivery>>

\* The loser of two first deliveries looks for the winner's session.
Rebind(c) ==
  /\ worker[c].pc = "rebind"
  /\ LET p == Subject(c)
     IN IF Bound(p)
        THEN worker' = [worker EXCEPT ![c].pc = "append",
                                      ![c].session = thread[p].session]
        ELSE Goto(c, "raced")
  /\ UNCHANGED <<about, asking, delivery, run, thread, made, faults>>

\* queueSessionCommand: somebody else may have queued this delivery.
LookAgain(c) ==
  /\ worker[c].pc = "raced"
  /\ Conclude(c, IF Taken(Of(c)) THEN "processed" ELSE "failed")
  /\ UNCHANGED <<about, asking, delivery, run, thread, made, faults>>

\* Anything awaited throws before it has had an effect, Finish included.
Throws(c) ==
  /\ worker[c].pc # "idle" /\ worker[c].result # "failed"
  /\ Conclude(c, "failed")
  /\ Fault("error")
  /\ UNCHANGED <<about, asking, delivery, run, thread, made>>

\* finishIntegrationDelivery; nothing happens to a row claimed by another.
Finish(c) ==
  /\ worker[c].pc = "finish"
  /\ worker' = [worker EXCEPT ![c] = IdleWorker]
  /\ IF Holds(c)
     THEN delivery' = [delivery EXCEPT ![Of(c)].status = worker[c].result,
                                       ![Of(c)].old = FALSE]
     ELSE UNCHANGED delivery
  /\ UNCHANGED <<about, asking, run, thread, made, faults>>

\* The controller stops and another starts in its place; also what remains of
\* a tick whose second finish throws.
ControllerDies(c) ==
  /\ worker[c].pc # "idle"
  /\ worker' = [worker EXCEPT ![c] = IdleWorker]
  /\ Fault("crash")
  /\ UNCHANGED <<about, asking, delivery, run, thread, made>>

-----------------------------------------------------------------------------
(* Operations that make a session refuse turns. *)

\* A reconciler parks the session when a turn has ended.
BeginParking(p) ==
  /\ Bound(p) /\ thread[p].operation = "none"
  /\ \E d \in RunsOf(p) : run[d].status \in Terminal
  /\ thread' = [thread EXCEPT ![p].operation = "parking"]
  /\ UNCHANGED <<about, asking, delivery, worker, run, made, faults>>

\* The user deletes the session: refused while a run is not terminal.
BeginArchiving(p) ==
  /\ Bound(p) /\ thread[p].operation = "none"
  /\ \A d \in RunsOf(p) : run[d].status \in Terminal
  /\ thread' = [thread EXCEPT ![p].operation = "archiving"]
  /\ IF \E d \in RunsOf(p) : ~Settled(d) \/ AtWork(d)
     THEN Fault("early_delete")
     ELSE UNCHANGED faults
  /\ UNCHANGED <<about, asking, delivery, worker, run, made>>

\* Parked, or the clean-up of the deletion failed.
EndOperation(p) ==
  /\ thread[p].operation # "none"
  /\ thread' = [thread EXCEPT ![p].operation = "none"]
  /\ UNCHANGED <<about, asking, delivery, worker, run, made, faults>>

\* The row goes and takes its runs and its binding with it.
DeleteSession(p) ==
  /\ thread[p].operation = "archiving"
  /\ run' = [d \in Deliveries |->
               IF d \in RunsOf(p) THEN NoRun ELSE run[d]]
  /\ thread' = [thread EXCEPT ![p].session = Unbound, ![p].operation = "none"]
  /\ UNCHANGED <<about, asking, delivery, worker, made, faults>>

-----------------------------------------------------------------------------

WorkerStep(c) ==
  \/ Project(c)
  \/ LookForRun(c)
  \/ FindSession(c)
  \/ AppendTurn(c)
  \/ CreateSession(c)
  \/ Rebind(c)
  \/ LookAgain(c)
  \/ Finish(c)

\* Every step but DeleteSession, which also concerns what hangs on the runs.
InboxNext ==
  \/ \E d \in Deliveries :
       \/ Receive(d)
       \/ ReceiveAgain(d)
       \/ LeaseExpires(d)
       \/ RetryDue(d)
  \/ \E c \in Controllers :
       \/ ClaimDelivery(c)
       \/ WorkerStep(c)
       \/ Throws(c)
       \/ ControllerDies(c)
  \/ \E p \in PullRequests :
       \/ BeginParking(p)
       \/ BeginArchiving(p)
       \/ EndOperation(p)
=============================================================================
