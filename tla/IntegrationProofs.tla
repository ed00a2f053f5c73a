------------------------- MODULE IntegrationProofs -------------------------
(***************************************************************************)
(* Proofs about Integration, for any deliveries, pull requests and         *)
(* controllers, any bounds and every fault but early_delete: with it a     *)
(* delivery may be queued again after its run was deleted.                 *)
(*                                                                         *)
(* The inductive invariant says of the inbox that a delivery whose run is  *)
(* gone is settled and in nobody's hands, and that a session which is      *)
(* being deleted has only such deliveries; and of the publications that    *)
(* one request at most owns the row of a run, before whose insertion       *)
(* nothing was posted and after whose deletion the run is gone for good.   *)
(***************************************************************************)
EXTENDS Integration, TLAPS

NoEarlyDeletion == "early_delete" \notin FaultKinds

(* The inbox. *)

WorkersHaveDeliveries ==
  \A c \in Controllers :
    /\ worker[c].pc # "idle" =>
         Of(c) \in Deliveries /\ delivery[Of(c)].status # "absent"
    /\ worker[c].pc = "append" => worker[c].session # Unbound
    /\ worker[c].pc = "finish" => worker[c].result # "none"

\* Nothing more will be queued for d.
Closed(d) == Settled(d) /\ ~AtWork(d)

RunsAreCounted ==
  \A d \in Deliveries :
    /\ Taken(d) =>
         /\ made[d] = 1
         /\ run[d].session = thread[about[d]].session /\ run[d].session # Unbound
    /\ ~Taken(d) /\ made[d] # 0 => made[d] = 1 /\ Closed(d)
    /\ delivery[d].status = "absent" => made[d] = 0

ArchivedIsClosed ==
  \A p \in PullRequests :
    thread[p].operation = "archiving" =>
      \A d \in RunsOf(p) : run[d].status \in Terminal /\ Closed(d)

InboxInv ==
  /\ InboxTypeOK
  /\ WorkersHaveDeliveries
  /\ RunsAreCounted
  /\ ArchivedIsClosed

(* The publications. *)

Owns(d, k) == request[d][k] \in {"claimed", "published", "failed", "uncertain"}

Posted(d) == posts[d] > 0

OneOwner(d) ==
  /\ \A k, j \in P!Submissions : Owns(d, k) /\ Owns(d, j) => k = j
  /\ posts[d] \in {0, 1}
  /\ Posted(d) \/ (\E k \in P!Submissions : Owns(d, k)) =>
       made[d] # 0 /\ (Taken(d) => publication[d].status # "none")

OwnersTellTheTruth(d) ==
  \A k \in P!Submissions :
    /\ request[d][k] \in {"claimed", "failed"} => ~Posted(d)
    /\ request[d][k] = "published" => Posted(d)

RowTellsTheTruth(d) ==
  /\ publication[d].status # "none" => Taken(d)
  /\ publication[d].old => publication[d].status = "processing"
  /\ publication[d].status = "published" => Posted(d)
  /\ publication[d].status = "failed" => ~Posted(d)
  /\ publication[d].status \in {"published", "failed"} =>
       \A k \in P!Submissions : ~Owns(d, k)

SuccessIsPublished(d) ==
  /\ verdict[d] # "none" => made[d] # 0
  /\ verdict[d] = "succeeded" /\ run[d].status \in Live =>
       publication[d].status = "published"

Sound(d) ==
  OneOwner(d) /\ OwnersTellTheTruth(d) /\ RowTellsTheTruth(d) /\ SuccessIsPublished(d)

PublicationInv ==
  /\ P!PublicationTypeOK
  /\ \A d \in Deliveries : Sound(d)

IInv == InboxInv /\ PublicationInv

-----------------------------------------------------------------------------
(* The inbox keeps its invariant. *)

USE DEF Unbound

\* A worker goes on with its delivery.
GoesOn(c, w) ==
  /\ worker' = [worker EXCEPT ![c] = w]
  /\ w \in WorkerState
  /\ worker[c].pc # "idle" /\ w.pc # "idle"
  /\ w.delivery = Of(c)
  /\ w.pc = "append" => w.session # Unbound
  /\ w.pc = "finish" => w.result # "none"

LEMMA GoesOnInv ==
  ASSUME NEW c \in Controllers, NEW w, InboxInv, GoesOn(c, w), UNCHANGED <<about, asking, delivery>>
  PROVE  /\ worker' \in [Controllers -> WorkerState]
         /\ WorkersHaveDeliveries'
         /\ \A d \in Deliveries : Closed(d)' <=> Closed(d)
<1>1. worker \in [Controllers -> WorkerState] /\ WorkersHaveDeliveries
  BY DEF InboxInv, InboxTypeOK
<1>2. worker' \in [Controllers -> WorkerState]
  BY <1>1 DEF GoesOn
<1>3. worker'[c] = w /\ \A e \in Controllers \ {c} : worker'[e] = worker[e]
  BY <1>1 DEF GoesOn
<1>4. WorkersHaveDeliveries'
  BY <1>1, <1>3 DEF GoesOn, WorkersHaveDeliveries, Of
<1>5. \A d \in Deliveries : AtWork(d)' <=> AtWork(d)
  BY <1>3 DEF GoesOn, AtWork, Of
<1>6. QED
  BY <1>2, <1>4, <1>5 DEF Closed, Settled

\* What the rows of runs and sessions owe to workers and deliveries.
LEMMA RowsFrame ==
  ASSUME InboxInv, UNCHANGED <<about, asking, run, thread, made>>,
         \A d \in Deliveries : Closed(d) => Closed(d)',
         \A d \in Deliveries : delivery'[d].status = "absent" => delivery[d].status = "absent"
  PROVE  RunsAreCounted' /\ ArchivedIsClosed'
<1>1. RunsAreCounted'
  <2>1. RunsAreCounted
    BY DEF InboxInv
  <2>2. \A d \in Deliveries : Taken(d)' <=> Taken(d)
    BY DEF Taken
  <2>3. QED
    BY <2>1, <2>2 DEF RunsAreCounted
<1>2. ArchivedIsClosed'
  <2>1. \A p \in PullRequests : RunsOf(p)' = RunsOf(p) /\ RunsOf(p) \subseteq Deliveries
    BY DEF RunsOf, Taken
  <2>2. QED
    BY <2>1 DEF InboxInv, ArchivedIsClosed
<1>3. QED
  BY <1>1, <1>2

\* The steps that only move a worker.
LEMMA WorkerStepsInv ==
  ASSUME NEW c \in Controllers, InboxInv,
         \/ Project(c) \/ LookForRun(c) \/ FindSession(c) \/ Rebind(c)
         \/ LookAgain(c) \/ Throws(c)
  PROVE  InboxInv'
<1>1. worker[c] \in WorkerState /\ worker \in [Controllers -> WorkerState]
  BY DEF InboxInv, InboxTypeOK
<1>2. worker[c].pc # "idle" /\ UNCHANGED <<about, asking, delivery, run, thread, made>>
  BY DEF Project, LookForRun, FindSession, Rebind, LookAgain, Throws
<1>3. Of(c) \in Deliveries
  BY <1>2 DEF InboxInv, WorkersHaveDeliveries
<1>4. thread[Subject(c)].session \in Nat
  BY <1>3 DEF InboxInv, InboxTypeOK, Subject
<1>5. \E w : GoesOn(c, w)
  <2>1. ASSUME NEW pc \in {"look", "find", "create", "raced"}, Goto(c, pc)
        PROVE  GoesOn(c, [worker[c] EXCEPT !.pc = pc])
    BY <1>1, <1>2, <2>1 DEF Goto, GoesOn, WorkerState, Of
  <2>2. ASSUME NEW result \in {"processed", "ignored", "failed"}, Conclude(c, result)
        PROVE  GoesOn(c, [worker[c] EXCEPT !.pc = "finish", !.result = result])
    BY <1>1, <1>2, <2>2 DEF Conclude, GoesOn, WorkerState, Of
  <2>3. ASSUME NEW pc \in {"append", "create"}, NEW session \in Nat,
               pc = "append" => session # Unbound,
               worker' = [worker EXCEPT ![c].pc = pc, ![c].session = session]
        PROVE  GoesOn(c, [worker[c] EXCEPT !.pc = pc, !.session = session])
    BY <1>1, <1>2, <2>3 DEF GoesOn, WorkerState, Of
  <2>4. CASE Project(c) \/ LookForRun(c) \/ LookAgain(c) \/ Throws(c)
    BY <2>1, <2>2, <2>4 DEF Project, LookForRun, LookAgain, Throws
  <2>5. CASE FindSession(c)
    BY <2>3, <2>5, <1>4 DEF FindSession
  <2>6. CASE Rebind(c)
    BY <2>1, <2>3, <2>6, <1>4 DEF Rebind, Bound
  <2>7. QED
    BY <2>4, <2>5, <2>6
<1>6. faults' \in 0 .. MaxFaults
  BY InboxFaultsAssumption
     DEF InboxInv, InboxTypeOK, Fault, Project, LookForRun, FindSession, Rebind, LookAgain, Throws
<1>7. PICK w : GoesOn(c, w)
  BY <1>5
<1>8. /\ worker' \in [Controllers -> WorkerState]
      /\ WorkersHaveDeliveries'
      /\ \A d \in Deliveries : Closed(d)' <=> Closed(d)
  BY <1>2, <1>7, GoesOnInv
<1>9. RunsAreCounted' /\ ArchivedIsClosed'
  BY <1>2, <1>8, RowsFrame
<1>10. InboxTypeOK'
  BY <1>2, <1>6, <1>8 DEF InboxInv, InboxTypeOK
<1>11. QED
  BY <1>8, <1>9, <1>10 DEF InboxInv

\* A worker is done with its delivery, or gone.
LEMMA RestsInv ==
  ASSUME NEW c \in Controllers, InboxInv,
         worker' = [worker EXCEPT ![c] = IdleWorker],
         \A d \in Deliveries : Settled(d) /\ ~AtWork(d) => Settled(d)',
         \A d \in Deliveries : delivery'[d].status = "absent" => delivery[d].status = "absent"
  PROVE  /\ worker' \in [Controllers -> WorkerState]
         /\ WorkersHaveDeliveries'
         /\ \A d \in Deliveries : Closed(d) => Closed(d)'
<1>1. worker \in [Controllers -> WorkerState] /\ WorkersHaveDeliveries
  BY DEF InboxInv, InboxTypeOK
<1>2. IdleWorker \in WorkerState /\ IdleWorker.pc = "idle"
  BY DEF IdleWorker, WorkerState
<1>3. worker'[c] = IdleWorker /\ \A e \in Controllers \ {c} : worker'[e] = worker[e]
  BY <1>1
<1>4. worker' \in [Controllers -> WorkerState]
  BY <1>1, <1>2
<1>5. WorkersHaveDeliveries'
  BY <1>1, <1>2, <1>3 DEF WorkersHaveDeliveries, Of
<1>6. \A d \in Deliveries : AtWork(d)' => AtWork(d)
  BY <1>2, <1>3 DEF AtWork, Of
<1>7. QED
  BY <1>4, <1>5, <1>6 DEF Closed

LEMMA EndsOfWorkInv ==
  ASSUME NEW c \in Controllers, InboxInv, Finish(c) \/ ControllerDies(c)
  PROVE  InboxInv'
<1>1. /\ worker' = [worker EXCEPT ![c] = IdleWorker]
      /\ UNCHANGED <<about, asking, run, thread, made>>
  BY DEF Finish, ControllerDies
<1>2. Of(c) \in Deliveries /\ AtWork(Of(c)) /\ delivery \in [Deliveries -> DeliveryRow]
  BY DEF Finish, ControllerDies, InboxInv, InboxTypeOK, WorkersHaveDeliveries, AtWork
<1>3. \/ UNCHANGED delivery
      \/ \E status \in {"processed", "ignored", "failed"} :
           delivery' = [delivery EXCEPT ![Of(c)].status = status, ![Of(c)].old = FALSE]
  BY DEF Finish, ControllerDies, InboxInv, InboxTypeOK, WorkersHaveDeliveries, WorkerState
<1>4. /\ delivery' \in [Deliveries -> DeliveryRow]
      /\ \A d \in Deliveries \ {Of(c)} : delivery'[d] = delivery[d]
      /\ \A d \in Deliveries : delivery'[d].status = "absent" => delivery[d].status = "absent"
  <2>1. CASE UNCHANGED delivery
    BY <2>1, <1>2
  <2>2. ASSUME NEW status \in {"processed", "ignored", "failed"},
               delivery' = [delivery EXCEPT ![Of(c)].status = status, ![Of(c)].old = FALSE]
        PROVE  <1>4!1 /\ <1>4!2 /\ <1>4!3
    BY <1>2, <2>2 DEF DeliveryRow
  <2>3. QED
    BY <1>3, <2>1, <2>2
<1>5. \A d \in Deliveries : Settled(d) /\ ~AtWork(d) => Settled(d)'
  BY <1>2, <1>4 DEF Settled
<1>6. /\ worker' \in [Controllers -> WorkerState]
      /\ WorkersHaveDeliveries'
      /\ \A d \in Deliveries : Closed(d) => Closed(d)'
  BY <1>1, <1>4, <1>5, RestsInv
<1>7. RunsAreCounted' /\ ArchivedIsClosed'
  BY <1>1, <1>4, <1>6, RowsFrame
<1>8. faults' \in 0 .. MaxFaults
  BY InboxFaultsAssumption DEF InboxInv, InboxTypeOK, Fault, Finish, ControllerDies
<1>9. QED
  BY <1>1, <1>4, <1>6, <1>7, <1>8 DEF InboxInv, InboxTypeOK

LEMMA ClaimInv ==
  ASSUME NEW c \in Controllers, InboxInv, ClaimDelivery(c)
  PROVE  InboxInv'
<1>1. /\ worker \in [Controllers -> WorkerState] /\ delivery \in [Deliveries -> DeliveryRow]
      /\ worker[c].pc = "idle" /\ UNCHANGED <<about, asking, run, thread, made, faults>>
  BY DEF ClaimDelivery, InboxInv, InboxTypeOK
<1>2. PICK d \in Deliveries :
        /\ MayClaim(d)
        /\ delivery' = [delivery EXCEPT ![d] =
             [status |-> "processing", attempt |-> @.attempt + 1, old |-> FALSE]]
        /\ worker' = [worker EXCEPT ![c] =
             [IdleWorker EXCEPT !.pc = "project", !.delivery = d,
                                !.claim = delivery[d].attempt + 1]]
  BY DEF ClaimDelivery
<1> DEFINE claim == delivery[d].attempt + 1
           w == [IdleWorker EXCEPT !.pc = "project", !.delivery = d, !.claim = claim]
           row == [status |-> "processing", attempt |-> delivery[d].attempt + 1, old |-> FALSE]
<1>3. delivery[d].attempt \in Nat
  BY <1>1 DEF DeliveryRow
<1>4. w \in WorkerState /\ w.pc = "project" /\ w.delivery = d
  <2>1. IdleWorker \in WorkerState
    BY DEF IdleWorker, WorkerState
  <2>2. claim \in Nat
    BY <1>3
  <2> HIDE DEF claim
  <2>3. QED
    BY <2>1, <2>2 DEF WorkerState
<1>5. row \in DeliveryRow /\ row.status = "processing"
  BY <1>3 DEF DeliveryRow
<1>6. delivery' = [delivery EXCEPT ![d] = row] /\ worker' = [worker EXCEPT ![c] = w]
  BY <1>2
<1> HIDE DEF w, row
<1>7. delivery'[d] = row /\ \A e \in Deliveries \ {d} : delivery'[e] = delivery[e]
  BY <1>1, <1>6
<1>8. worker'[c] = w /\ \A e \in Controllers \ {c} : worker'[e] = worker[e]
  BY <1>1, <1>6
<1>9. worker' \in [Controllers -> WorkerState] /\ delivery' \in [Deliveries -> DeliveryRow]
  BY <1>1, <1>4, <1>5, <1>6
<1>10. WorkersHaveDeliveries'
  BY <1>4, <1>5, <1>7, <1>8 DEF InboxInv, WorkersHaveDeliveries, Of
<1>11. ~Settled(d)
  BY <1>1, <1>2, AttemptsAssumption DEF MayClaim, Settled, DeliveryRow
<1>12. \A e \in Deliveries : Closed(e) => Closed(e)'
  BY <1>4, <1>7, <1>8, <1>11 DEF Closed, Settled, AtWork, Of
<1>13. RunsAreCounted' /\ ArchivedIsClosed'
  BY <1>1, <1>5, <1>7, <1>12, RowsFrame
<1>14. QED
  BY <1>1, <1>9, <1>10, <1>13 DEF InboxInv, InboxTypeOK

\* Intake and time.
LEMMA DeliveryStepsInv ==
  ASSUME NEW d \in Deliveries, InboxInv,
         Receive(d) \/ ReceiveAgain(d) \/ LeaseExpires(d) \/ RetryDue(d)
  PROVE  InboxInv'
<1>1. UNCHANGED <<about, asking, worker, run, thread, made>>
  BY DEF Receive, ReceiveAgain, LeaseExpires, RetryDue, inboxVars
<1>2. delivery \in [Deliveries -> DeliveryRow] /\ WorkersHaveDeliveries
  BY DEF InboxInv, InboxTypeOK
<1>3. /\ delivery' \in [Deliveries -> DeliveryRow]
      /\ \A e \in Deliveries :
           /\ delivery'[e].status = "absent" => delivery[e].status = "absent"
           /\ Settled(e) => Settled(e)'
  <2>1. CASE delivery' = [delivery EXCEPT ![d].status = "pending"] /\ delivery[d].status = "absent"
    BY <1>2, <2>1 DEF DeliveryRow, Settled
  <2>2. CASE delivery' = [delivery EXCEPT ![d].old = TRUE]
    BY <1>2, <2>2 DEF DeliveryRow, Settled
  <2>3. CASE UNCHANGED delivery
    BY <1>2, <2>3 DEF Settled
  <2>4. QED
    BY <2>1, <2>2, <2>3 DEF Receive, ReceiveAgain, LeaseExpires, RetryDue, inboxVars
<1>4. WorkersHaveDeliveries'
  BY <1>1, <1>2, <1>3 DEF WorkersHaveDeliveries, Of
<1>5. \A e \in Deliveries : Closed(e) => Closed(e)'
  BY <1>1, <1>3 DEF Closed, AtWork, Of
<1>6. RunsAreCounted' /\ ArchivedIsClosed'
  BY <1>1, <1>3, <1>5, RowsFrame
<1>7. faults' \in 0 .. MaxFaults
  BY InboxFaultsAssumption
     DEF InboxInv, InboxTypeOK, Fault, Receive, ReceiveAgain, LeaseExpires, RetryDue, inboxVars
<1>8. QED
  BY <1>1, <1>3, <1>4, <1>6, <1>7 DEF InboxInv, InboxTypeOK

\* The operations of a session.
LEMMA OperationsInv ==
  ASSUME NEW p \in PullRequests, InboxInv, NoEarlyDeletion,
         BeginParking(p) \/ BeginArchiving(p) \/ EndOperation(p)
  PROVE  InboxInv'
<1>1. UNCHANGED <<about, asking, delivery, worker, run, made>>
  BY DEF BeginParking, BeginArchiving, EndOperation
<1>2. PICK operation \in {"none", "parking", "archiving"} :
        /\ thread' = [thread EXCEPT ![p].operation = operation]
        /\ operation = "archiving" =>
             \A d \in RunsOf(p) : run[d].status \in Terminal /\ Closed(d)
  BY DEF BeginParking, BeginArchiving, EndOperation, NoEarlyDeletion, Fault, Closed
<1>3. /\ thread' \in [PullRequests -> [session : Nat, opened : Nat,
                                       operation : {"none", "parking", "archiving"}]]
      /\ \A q \in PullRequests :
           /\ thread'[q].session = thread[q].session
           /\ thread'[q].operation = "archiving" =>
                thread[q].operation = "archiving" \/ (q = p /\ operation = "archiving")
  <2>1. thread \in [PullRequests -> [session : Nat, opened : Nat,
                                     operation : {"none", "parking", "archiving"}]]
    BY DEF InboxInv, InboxTypeOK
  <2> DEFINE new == [thread[p] EXCEPT !.operation = operation]
  <2>2. thread' = [thread EXCEPT ![p] = new]
    BY <1>2
  <2>3. /\ new \in [session : Nat, opened : Nat, operation : {"none", "parking", "archiving"}]
        /\ new.session = thread[p].session /\ new.operation = operation
    BY <2>1
  <2> HIDE DEF new
  <2>4. QED
    <3>1. thread' \in [PullRequests -> [session : Nat, opened : Nat,
                                        operation : {"none", "parking", "archiving"}]]
      BY <2>1, <2>2, <2>3
    <3>2. thread'[p] = new /\ \A q \in PullRequests \ {p} : thread'[q] = thread[q]
      BY <2>1, <2>2
    <3>3. QED
      BY <2>3, <3>1, <3>2
<1>4. about \in [Deliveries -> PullRequests]
  BY DEF InboxInv, InboxTypeOK
<1>5. RunsAreCounted'
  BY <1>1, <1>3, <1>4 DEF InboxInv, RunsAreCounted, Taken, Closed, Settled, AtWork, Of
<1>6. \A q \in PullRequests : RunsOf(q)' = RunsOf(q) /\ RunsOf(q) \subseteq Deliveries
  BY <1>1, <1>3 DEF RunsOf, Taken
<1>7. \A d \in Deliveries : Closed(d) => Closed(d)'
  BY <1>1 DEF Closed, Settled, AtWork, Of
<1>8. ArchivedIsClosed'
  BY <1>1, <1>2, <1>3, <1>6, <1>7 DEF InboxInv, ArchivedIsClosed
<1>9. WorkersHaveDeliveries'
  BY <1>1 DEF InboxInv, WorkersHaveDeliveries, Of
<1>10. faults' \in 0 .. MaxFaults
  BY InboxFaultsAssumption
     DEF InboxInv, InboxTypeOK, Fault, BeginParking, BeginArchiving, EndOperation
<1>11. QED
  BY <1>1, <1>3, <1>5, <1>8, <1>9, <1>10 DEF InboxInv, InboxTypeOK

-----------------------------------------------------------------------------
(* The steps that queue a run. *)

\* The run of c's delivery is queued in the session bound to its pull request.
Queues(c, new) ==
  /\ ~Taken(Of(c))
  /\ QueueRun(Of(c), new.session)
  /\ thread' = [thread EXCEPT ![Subject(c)] = new]
  /\ new \in [session : Nat, opened : Nat, operation : {"none", "parking", "archiving"}]
  /\ new.session # Unbound
  /\ new.operation # "archiving"
  /\ thread[Subject(c)].session \in {Unbound, new.session}

LEMMA QueuesInv ==
  ASSUME NEW c \in Controllers, NEW w, NEW new,
         InboxInv, GoesOn(c, w), Queues(c, new), UNCHANGED <<about, asking, delivery>>,
         faults' \in 0 .. MaxFaults
  PROVE  InboxInv'
<1>0. PICK d, p : d = Of(c) /\ p = Subject(c)
  OBVIOUS
<1> DEFINE queued == [status |-> "queued", session |-> new.session]
<1>1. /\ about \in [Deliveries -> PullRequests] /\ delivery \in [Deliveries -> DeliveryRow]
      /\ run \in [Deliveries -> [status : {"none"} \cup Live \cup Terminal, session : Nat]]
      /\ made \in [Deliveries -> Nat]
      /\ thread \in [PullRequests -> [session : Nat, opened : Nat,
                                      operation : {"none", "parking", "archiving"}]]
      /\ WorkersHaveDeliveries /\ RunsAreCounted /\ ArchivedIsClosed
  BY DEF InboxInv, InboxTypeOK
<1>2. /\ d \in Deliveries /\ AtWork(d) /\ delivery[d].status # "absent"
      /\ p \in PullRequests /\ p = about[d]
  BY <1>1, <1>0 DEF Subject, GoesOn, WorkersHaveDeliveries, AtWork
<1>3. /\ run' = [run EXCEPT ![d] = queued]
      /\ made' = [made EXCEPT ![d] = made[d] + 1]
      /\ thread' = [thread EXCEPT ![p] = new]
      /\ new \in [session : Nat, opened : Nat, operation : {"none", "parking", "archiving"}]
      /\ new.session # Unbound /\ new.operation # "archiving"
      /\ thread[p].session \in {Unbound, new.session}
      /\ ~Taken(d)
  BY <1>0 DEF Queues, QueueRun
<1>4. /\ worker' \in [Controllers -> WorkerState]
      /\ WorkersHaveDeliveries'
      /\ \A e \in Deliveries : Closed(e)' <=> Closed(e)
  BY GoesOnInv
<1>5. made[d] = 0
  BY <1>1, <1>2, <1>3 DEF RunsAreCounted, Closed
<1>6. /\ queued \in [status : {"none"} \cup Live \cup Terminal, session : Nat]
      /\ queued.status # "none" /\ queued.session = new.session
  BY <1>3 DEF Live
<1> HIDE DEF queued
<1>7. /\ run' \in [Deliveries -> [status : {"none"} \cup Live \cup Terminal, session : Nat]]
      /\ made' \in [Deliveries -> Nat]
      /\ thread' \in [PullRequests -> [session : Nat, opened : Nat,
                                       operation : {"none", "parking", "archiving"}]]
  BY <1>1, <1>2, <1>3, <1>5, <1>6
<1>8. /\ run'[d] = queued /\ \A e \in Deliveries \ {d} : run'[e] = run[e]
      /\ made'[d] = 1 /\ \A e \in Deliveries \ {d} : made'[e] = made[e]
      /\ thread'[p] = new /\ \A q \in PullRequests \ {p} : thread'[q] = thread[q]
  BY <1>1, <1>2, <1>3, <1>5
<1>9. \A e \in Deliveries \ {d} :
        /\ Taken(e)' <=> Taken(e)
        /\ Taken(e) => thread'[about[e]].session = thread[about[e]].session
  <2>1. ASSUME NEW e \in Deliveries \ {d}, Taken(e)
        PROVE  thread'[about[e]].session = thread[about[e]].session
    BY <1>1, <1>3, <1>8, <2>1 DEF RunsAreCounted
  <2>2. QED
    BY <1>8, <2>1 DEF Taken
<1>10. Taken(d)'
  BY <1>6, <1>8 DEF Taken
<1>11. RunsAreCounted'
  <2>1. ASSUME NEW e \in Deliveries
        PROVE  (/\ Taken(e) => /\ made[e] = 1
                               /\ run[e].session = thread[about[e]].session
                               /\ run[e].session # Unbound
                /\ ~Taken(e) /\ made[e] # 0 => made[e] = 1 /\ Closed(e)
                /\ delivery[e].status = "absent" => made[e] = 0)'
    <3>1. CASE e = d
      BY <1>2, <1>3, <1>6, <1>8, <1>10, <3>1
    <3>2. CASE e # d
      BY <1>1, <1>4, <1>8, <1>9, <3>2 DEF RunsAreCounted
    <3>3. QED
      BY <3>1, <3>2
  <2>2. QED
    BY <2>1 DEF RunsAreCounted
<1>12. ArchivedIsClosed'
  <2>1. ASSUME NEW q \in PullRequests, thread'[q].operation = "archiving",
               NEW e \in RunsOf(q)'
        PROVE  run'[e].status \in Terminal /\ Closed(e)'
    <3>1. q # p /\ thread'[q] = thread[q] /\ thread[q].operation = "archiving"
      BY <1>3, <1>8, <2>1
    <3>2. e \in Deliveries /\ about[e] = q /\ Taken(e)' /\ run'[e].session = thread[q].session
      BY <3>1 DEF RunsOf
    <3>3. e # d
      BY <1>2, <3>1, <3>2
    <3>4. e \in RunsOf(q) /\ run'[e] = run[e]
      BY <1>8, <1>9, <3>2, <3>3 DEF RunsOf
    <3>5. QED
      BY <1>1, <1>4, <3>1, <3>2, <3>4 DEF ArchivedIsClosed
  <2>2. QED
    BY <2>1 DEF ArchivedIsClosed
<1>13. QED
  BY <1>1, <1>4, <1>7, <1>11, <1>12 DEF InboxInv, InboxTypeOK

\* What is left of the two steps is a worker that goes on.
LEMMA CommandStepsInv ==
  ASSUME NEW c \in Controllers, InboxInv, AppendTurn(c) \/ CreateSession(c)
  PROVE  InboxInv'
<1>1. /\ worker[c] \in WorkerState /\ worker \in [Controllers -> WorkerState]
      /\ worker[c].pc \in {"append", "create"} /\ UNCHANGED <<about, asking, delivery>>
      /\ worker[c].pc = "append" => worker[c].session # Unbound
  BY DEF InboxInv, InboxTypeOK, AppendTurn, CreateSession, WorkersHaveDeliveries
<1>2. /\ Of(c) \in Deliveries /\ Subject(c) \in PullRequests
      /\ thread[Subject(c)] \in [session : Nat, opened : Nat,
                                 operation : {"none", "parking", "archiving"}]
      /\ thread \in [PullRequests -> [session : Nat, opened : Nat,
                                      operation : {"none", "parking", "archiving"}]]
  BY <1>1 DEF InboxInv, InboxTypeOK, WorkersHaveDeliveries, Subject
<1>3. \E w : GoesOn(c, w)
  <2>1. ASSUME NEW pc \in {"raced", "rebind"}, Goto(c, pc)
        PROVE  GoesOn(c, [worker[c] EXCEPT !.pc = pc])
    BY <1>1, <2>1 DEF Goto, GoesOn, WorkerState, Of
  <2>2. ASSUME NEW result \in {"processed", "failed"}, Conclude(c, result)
        PROVE  GoesOn(c, [worker[c] EXCEPT !.pc = "finish", !.result = result])
    BY <1>1, <2>2 DEF Conclude, GoesOn, WorkerState, Of
  <2>3. QED
    BY <2>1, <2>2 DEF AppendTurn, CreateSession, Violated, Committed
<1>4. PICK w : GoesOn(c, w)
  BY <1>3
<1>5. faults' \in 0 .. MaxFaults
  BY InboxFaultsAssumption
     DEF InboxInv, InboxTypeOK, Fault, AppendTurn, CreateSession, Violated, Committed
<1>6. UNCHANGED <<run, made, thread>> \/ \E new : Queues(c, new)
  <2>1. CASE AppendTurn(c)
    <3>1. UNCHANGED thread /\ thread' = [thread EXCEPT ![Subject(c)] = thread[Subject(c)]]
      BY <1>2, <2>1 DEF AppendTurn
    <3>2. CASE UNCHANGED <<run, made>>
      BY <3>1, <3>2
    <3>3. CASE /\ thread[Subject(c)].session = worker[c].session
               /\ thread[Subject(c)].operation = "none"
               /\ ~Taken(Of(c)) /\ QueueRun(Of(c), thread[Subject(c)].session)
      <4>1. Queues(c, thread[Subject(c)])
        BY <1>1, <1>2, <2>1, <3>1, <3>3 DEF Queues, AppendTurn
      <4>2. QED
        BY <4>1
    <3>4. QED
      BY <2>1, <3>2, <3>3 DEF AppendTurn, Violated
  <2>2. CASE CreateSession(c)
    <3> DEFINE opened == thread[Subject(c)].opened + 1
               new == [session |-> opened, opened |-> opened, operation |-> "none"]
    <3>1. CASE UNCHANGED <<run, made, thread>>
      BY <3>1
    <3>2. CASE /\ ~Taken(Of(c)) /\ ~Bound(Subject(c))
               /\ Bind(Subject(c), thread[Subject(c)].opened + 1)
               /\ QueueRun(Of(c), thread[Subject(c)].opened + 1)
      <4>1. opened \in Nat /\ opened # Unbound
        BY <1>2
      <4>2. /\ new \in [session : Nat, opened : Nat, operation : {"none", "parking", "archiving"}]
            /\ new.session = opened /\ new.operation = "none"
        BY <4>1
      <4>3. thread' = [thread EXCEPT ![Subject(c)] = new] /\ QueueRun(Of(c), new.session)
        BY <3>2 DEF Bind
      <4> HIDE DEF new, opened
      <4>4. Queues(c, new)
        BY <3>2, <4>1, <4>2, <4>3 DEF Queues, Bound
      <4>5. QED
        BY <4>4
    <3>3. QED
      BY <2>2, <3>1, <3>2 DEF CreateSession, Violated
  <2>3. QED
    BY <2>1, <2>2
<1>7. CASE UNCHANGED <<run, made, thread>>
  <2>1. /\ worker' \in [Controllers -> WorkerState]
        /\ WorkersHaveDeliveries'
        /\ \A d \in Deliveries : Closed(d)' <=> Closed(d)
    BY <1>1, <1>4, GoesOnInv
  <2>2. RunsAreCounted' /\ ArchivedIsClosed'
    BY <1>1, <1>7, <2>1, RowsFrame
  <2>3. QED
    BY <1>1, <1>5, <1>7, <2>1, <2>2 DEF InboxInv, InboxTypeOK
<1>8. ASSUME NEW new, Queues(c, new)
      PROVE  InboxInv'
  BY <1>1, <1>4, <1>5, <1>8, QueuesInv
<1>9. QED
  BY <1>6, <1>7, <1>8

\* The session goes with its runs.
LEMMA DeletionInv ==
  ASSUME NEW p \in PullRequests, InboxInv, DeleteSession(p)
  PROVE  InboxInv'
<1> DEFINE Rows == [session : Nat, opened : Nat, operation : {"none", "parking", "archiving"}]
           free == [thread[p] EXCEPT !.session = Unbound, !.operation = "none"]
<1>1. /\ about \in [Deliveries -> PullRequests] /\ thread \in [PullRequests -> Rows]
      /\ run \in [Deliveries -> [status : {"none"} \cup Live \cup Terminal, session : Nat]]
      /\ RunsAreCounted /\ ArchivedIsClosed /\ WorkersHaveDeliveries
  BY DEF InboxInv, InboxTypeOK
<1>2. UNCHANGED <<about, asking, delivery, worker, made, faults>>
  BY DEF DeleteSession
<1>3. free \in Rows /\ free.session = Unbound /\ free.operation = "none"
  BY <1>1
<1>4. thread' = [thread EXCEPT ![p] = free]
  BY DEF DeleteSession
<1> HIDE DEF free
<1>5. /\ thread' \in [PullRequests -> Rows]
      /\ thread'[p] = free /\ \A q \in PullRequests \ {p} : thread'[q] = thread[q]
  BY <1>1, <1>3, <1>4
<1>6. \A d \in Deliveries : run'[d] = IF d \in RunsOf(p) THEN NoRun ELSE run[d]
  BY DEF DeleteSession
<1>7. run' \in [Deliveries -> [status : {"none"} \cup Live \cup Terminal, session : Nat]]
  BY <1>1 DEF DeleteSession, NoRun
<1>8. \A d \in Deliveries : Closed(d)' <=> Closed(d)
  BY <1>2 DEF Closed, Settled, AtWork, Of
<1>9. \A d \in Deliveries : Taken(d) /\ about[d] = p <=> d \in RunsOf(p)
  BY <1>1 DEF RunsOf, RunsAreCounted
<1>10. \A d \in Deliveries : Taken(d)' <=> Taken(d) /\ about[d] # p
  BY <1>6, <1>9 DEF Taken, NoRun
<1>11. \A d \in RunsOf(p) : Closed(d)
  BY <1>1 DEF DeleteSession, ArchivedIsClosed
<1>12. RunsAreCounted'
  BY <1>1, <1>2, <1>5, <1>6, <1>8, <1>9, <1>10, <1>11 DEF RunsAreCounted
<1>13. ArchivedIsClosed'
  <2>1. ASSUME NEW q \in PullRequests, thread'[q].operation = "archiving",
               NEW d \in RunsOf(q)'
        PROVE  run'[d].status \in Terminal /\ Closed(d)'
    <3>1. q # p /\ thread'[q] = thread[q]
      BY <1>3, <1>5, <2>1
    <3>2. d \in Deliveries /\ about[d] = q /\ Taken(d)' /\ run'[d].session = thread[q].session
      BY <1>2, <3>1 DEF RunsOf
    <3>3. d \notin RunsOf(p) /\ run'[d] = run[d] /\ d \in RunsOf(q)
      BY <1>6, <1>9, <1>10, <3>1, <3>2 DEF RunsOf
    <3>4. QED
      BY <1>1, <1>8, <2>1, <3>1, <3>2, <3>3 DEF ArchivedIsClosed
  <2>2. QED
    BY <2>1 DEF ArchivedIsClosed
<1>14. WorkersHaveDeliveries'
  BY <1>1, <1>2 DEF WorkersHaveDeliveries, Of
<1>15. QED
  BY <1>2, <1>5, <1>7, <1>12, <1>13, <1>14 DEF InboxInv, InboxTypeOK

\* A run goes on or ends; what is queued or gone stays so.
LEMMA RunStatusInv ==
  ASSUME InboxInv, UNCHANGED <<about, asking, delivery, worker, thread, made>>,
         run' \in [Deliveries -> [status : {"none"} \cup Live \cup Terminal, session : Nat]],
         \A d \in Deliveries :
           /\ run'[d].session = run[d].session
           /\ Taken(d)' <=> Taken(d)
           /\ run[d].status \in Terminal => run'[d].status \in Terminal,
         faults' \in 0 .. MaxFaults
  PROVE  InboxInv'
<1>1. \A d \in Deliveries : Closed(d)' <=> Closed(d)
  BY DEF Closed, Settled, AtWork, Of
<1>2. \A p \in PullRequests : RunsOf(p)' = RunsOf(p) /\ RunsOf(p) \subseteq Deliveries
  BY DEF RunsOf
<1>3. RunsAreCounted'
  BY <1>1 DEF InboxInv, RunsAreCounted
<1>4. ArchivedIsClosed'
  BY <1>1, <1>2 DEF InboxInv, ArchivedIsClosed
<1>5. WorkersHaveDeliveries'
  BY DEF InboxInv, WorkersHaveDeliveries, Of
<1>6. QED
  BY <1>3, <1>4, <1>5 DEF InboxInv, InboxTypeOK

-----------------------------------------------------------------------------
(* The publications keep theirs. *)

\* A step that leaves a publication alone and does not revive its run.
LEMMA SoundStays ==
  ASSUME NEW d \in Deliveries, Sound(d),
         publication'[d] = publication[d], posts'[d] = posts[d],
         request'[d] = request[d], verdict'[d] \in {verdict[d], "none"},
         made[d] # 0 => made'[d] # 0 /\ (Taken(d)' <=> Taken(d)),
         Taken(d) => Taken(d)',
         made[d] # 0 /\ run'[d].status \in Live => run[d].status \in Live
  PROVE  Sound(d)'
<1>1. \A k \in P!Submissions : Owns(d, k)' <=> Owns(d, k)
  BY DEF Owns
<1>2. Posted(d)' <=> Posted(d)
  BY DEF Posted
<1>3. OneOwner(d)'
  BY <1>1, <1>2 DEF Sound, OneOwner
<1>4. OwnersTellTheTruth(d)'
  BY <1>2 DEF Sound, OwnersTellTheTruth
<1>5. RowTellsTheTruth(d)'
  BY <1>1, <1>2 DEF Sound, RowTellsTheTruth
<1>6. SuccessIsPublished(d)'
  BY DEF Sound, SuccessIsPublished
<1>7. QED
  BY <1>3, <1>4, <1>5, <1>6 DEF Sound

\* A request goes on.
LEMMA RequestMoves ==
  ASSUME NEW r \in Deliveries, NEW k \in Nat, NEW x \in P!RequestState,
         P!PublicationTypeOK, request' = [request EXCEPT ![r][k] = x]
  PROVE  /\ request' \in [Deliveries -> [P!Submissions -> P!RequestState]]
         /\ k \in P!Submissions => request'[r][k] = x
         /\ \A j \in P!Submissions \ {k} : request'[r][j] = request[r][j]
         /\ \A d \in Deliveries \ {r} : request'[d] = request[d]
<1>1. request \in [Deliveries -> [P!Submissions -> P!RequestState]]
  BY DEF P!PublicationTypeOK
<1> DEFINE new == [request[r] EXCEPT ![k] = x]
<1>2. /\ new \in [P!Submissions -> P!RequestState]
      /\ k \in P!Submissions => new[k] = x
      /\ \A j \in P!Submissions \ {k} : new[j] = request[r][j]
  BY <1>1
<1>3. request' = [request EXCEPT ![r] = new]
  OBVIOUS
<1> HIDE DEF new
<1>4. QED
  BY <1>1, <1>2, <1>3

LEMMA AnswerMoves ==
  ASSUME NEW r \in Deliveries, NEW k \in P!Submissions, P!PublicationTypeOK, P!Answered(r, k)
  PROVE  /\ request' = [request EXCEPT ![r][k] = "answered"]
         /\ agent' \in [Deliveries -> [sent : Nat, waiting : BOOLEAN, reported : BOOLEAN]]
BY DEF P!Answered, P!PublicationTypeOK

\* One run's publication moves, all others stay.
LEMMA OthersStay ==
  ASSUME NEW r \in Deliveries, PublicationInv, UNCHANGED made,
         \A d \in Deliveries \ {r} :
           /\ publication'[d] = publication[d] /\ posts'[d] = posts[d]
           /\ request'[d] = request[d] /\ verdict'[d] = verdict[d]
           /\ run'[d] = run[d],
         Sound(r)'
  PROVE  \A d \in Deliveries : Sound(d)'
<1> SUFFICES ASSUME NEW d \in Deliveries \ {r} PROVE Sound(d)'
  OBVIOUS
<1>1. Sound(d) /\ (Taken(d)' <=> Taken(d))
  BY DEF PublicationInv, Taken
<1>2. QED
  BY <1>1, SoundStays

LEMMA AdmitInv ==
  ASSUME NEW r \in Deliveries, NEW k \in P!Submissions, IInv,
         P!Admit(r, k) \/ P!HandlerDies(r, k), UNCHANGED made
  PROVE  PublicationInv'
<1>1. PICK x \in {"admitted", "answered"} : request' = [request EXCEPT ![r][k] = x]
  BY DEF P!Admit, P!HandlerDies, P!Answered
<1>2. UNCHANGED <<run, publication, posts, verdict, made>>
  BY DEF P!Admit, P!HandlerDies
<1>3. agent' \in [Deliveries -> [sent : Nat, waiting : BOOLEAN, reported : BOOLEAN]]
  BY AnswerMoves DEF P!Admit, P!HandlerDies, IInv, PublicationInv, P!PublicationTypeOK
<1>4. P!PublicationTypeOK /\ Sound(r) /\ k \in Nat
  BY SubmissionsAssumption DEF IInv, PublicationInv, P!Submissions
<1>5. x \in P!RequestState
  BY DEF P!RequestState
<1>6. /\ request' \in [Deliveries -> [P!Submissions -> P!RequestState]]
      /\ request'[r][k] = x
      /\ \A j \in P!Submissions \ {k} : request'[r][j] = request[r][j]
      /\ \A d \in Deliveries \ {r} : request'[d] = request[d]
  BY <1>1, <1>4, <1>5, RequestMoves
<1>7. \A j \in P!Submissions : Owns(r, j)' => Owns(r, j) /\ request'[r][j] = request[r][j]
  BY <1>6 DEF Owns
<1>8. Sound(r)'
  BY <1>2, <1>4, <1>6, <1>7
     DEF Sound, OneOwner, OwnersTellTheTruth, RowTellsTheTruth, SuccessIsPublished, Posted, Taken
<1>9. \A d \in Deliveries : Sound(d)'
  BY <1>2, <1>6, <1>8, OthersStay DEF IInv
<1>10. QED
  BY <1>2, <1>3, <1>4, <1>6, <1>9 DEF PublicationInv, P!PublicationTypeOK

\* The owner of the row calls GitHub, or is refused, or fails to record.
LEMMA CallInv ==
  ASSUME NEW r \in Deliveries, NEW k \in P!Submissions, IInv,
         P!TokenMissing(r, k) \/ P!Publish(r, k) \/ P!Refused(r, k) \/ P!RecordThrows(r, k),
         UNCHANGED made
  PROVE  PublicationInv'
<1>1. PICK x \in {"failed", "published", "uncertain"} :
        /\ request' = [request EXCEPT ![r][k] = x]
        /\ \/ x # "published" /\ UNCHANGED posts
              /\ (x = "failed" => request[r][k] = "claimed")
           \/ x # "failed" /\ posts' = [posts EXCEPT ![r] = @ + 1] /\ request[r][k] = "claimed"
  BY DEF P!TokenMissing, P!Publish, P!Refused, P!RecordThrows
<1>2. UNCHANGED <<run, publication, agent, verdict, made>> /\ Owns(r, k)
  BY DEF P!TokenMissing, P!Publish, P!Refused, P!RecordThrows, Owns
<1>3. P!PublicationTypeOK /\ Sound(r) /\ k \in Nat
  BY SubmissionsAssumption DEF IInv, PublicationInv, P!Submissions
<1>4. x \in P!RequestState
  BY DEF P!RequestState
<1>5. /\ request' \in [Deliveries -> [P!Submissions -> P!RequestState]]
      /\ request'[r][k] = x
      /\ \A j \in P!Submissions \ {k} : request'[r][j] = request[r][j]
      /\ \A d \in Deliveries \ {r} : request'[d] = request[d]
  BY <1>1, <1>3, <1>4, RequestMoves
<1>6. \A j \in P!Submissions : Owns(r, j)' <=> j = k
  BY <1>2, <1>3, <1>5 DEF Sound, OneOwner, Owns
<1>7. \A j \in P!Submissions : Owns(r, j) => j = k
  BY <1>2, <1>3 DEF Sound, OneOwner
<1>8. /\ posts' \in [Deliveries -> Nat] /\ \A d \in Deliveries \ {r} : posts'[d] = posts[d]
      /\ \/ x # "published" /\ posts'[r] = posts[r]
            /\ (x = "failed" => request[r][k] = "claimed")
         \/ x # "failed" /\ posts'[r] = posts[r] + 1 /\ request[r][k] = "claimed"
  BY <1>1, <1>3 DEF P!PublicationTypeOK
<1>9. posts[r] = 0 \/ posts[r] = 1
  BY <1>3 DEF Sound, OneOwner
<1>10. posts'[r] \in {0, 1} /\ (Posted(r) => Posted(r)')
  BY <1>3, <1>8, <1>9 DEF Sound, OwnersTellTheTruth, Posted
<1>11. (x = "failed" => ~Posted(r)') /\ (x = "published" => Posted(r)')
  BY <1>3, <1>8, <1>9 DEF Sound, OwnersTellTheTruth, Posted
<1>12. Taken(r)' <=> Taken(r)
  BY <1>2 DEF Taken
<1>13. OneOwner(r)'
  BY <1>2, <1>3, <1>6, <1>10, <1>12 DEF Sound, OneOwner
<1>14. OwnersTellTheTruth(r)'
  <2>1. \A j \in P!Submissions \ {k} :
          request'[r][j] \notin {"claimed", "failed", "published"}
    BY <1>6 DEF Owns
  <2>2. QED
    BY <1>5, <1>11, <2>1 DEF OwnersTellTheTruth
<1>15. RowTellsTheTruth(r)'
  <2>1. publication[r].status \notin {"published", "failed"}
    BY <1>2, <1>3 DEF Sound, RowTellsTheTruth
  <2>2. QED
    BY <1>2, <1>3, <1>12, <2>1 DEF Sound, RowTellsTheTruth
<1>16. SuccessIsPublished(r)'
  BY <1>2, <1>3 DEF Sound, SuccessIsPublished
<1>17. Sound(r)'
  BY <1>13, <1>14, <1>15, <1>16 DEF Sound
<1>18. \A d \in Deliveries : Sound(d)'
  BY <1>2, <1>5, <1>8, <1>17, OthersStay DEF IInv
<1>19. QED
  BY <1>2, <1>3, <1>5, <1>8, <1>18 DEF PublicationInv, P!PublicationTypeOK

\* The first request inserts the row; the others find it.
LEMMA BeginInv ==
  ASSUME NEW r \in Deliveries, NEW k \in P!Submissions, IInv, P!Begin(r, k), UNCHANGED made
  PROVE  PublicationInv'
<1> DEFINE first == Taken(r) /\ publication[r].status = "none"
<1>1. P!PublicationTypeOK /\ Sound(r) /\ k \in Nat
  BY SubmissionsAssumption DEF IInv, PublicationInv, P!Submissions
<1>2. UNCHANGED <<run, posts, verdict, made>> /\ request[r][k] = "admitted"
  BY DEF P!Begin
<1>3. PICK x \in {"claimed", "answered"} :
        request' = [request EXCEPT ![r][k] = x] /\ (x = "claimed" <=> first)
  BY DEF P!Begin, P!Answered, Taken
<1>4. PICK row \in P!PublicationRow :
        /\ publication' = [publication EXCEPT ![r] = row]
        /\ \/ first /\ ~row.old /\ row.status = "processing"
           \/ ~first /\ row = publication[r]
           \/ ~first /\ publication[r].old /\ ~row.old /\ row.status = "uncertain"
  <2>1. publication \in [Deliveries -> P!PublicationRow]
    BY <1>1 DEF P!PublicationTypeOK
  <2>2. CASE first
    <3>1. publication' = [publication EXCEPT ![r] = [publication[r] EXCEPT !.status = "processing"]]
      BY <2>2 DEF P!Begin, Taken
    <3>2. [publication[r] EXCEPT !.status = "processing"] \in P!PublicationRow
      BY <2>1 DEF P!PublicationRow
    <3>3. publication[r].old = FALSE
      BY <1>1, <2>1, <2>2 DEF Sound, RowTellsTheTruth, P!PublicationRow
    <3>4. ~[publication[r] EXCEPT !.status = "processing"].old
          /\ [publication[r] EXCEPT !.status = "processing"].status = "processing"
      BY <2>1, <3>3 DEF P!PublicationRow
    <3>5. QED
      BY <2>2, <3>1, <3>2, <3>4
  <2>3. CASE ~first /\ publication[r].old
    <3> DEFINE row == [publication[r] EXCEPT !.status = "uncertain", !.old = FALSE]
    <3>1. publication' = [publication EXCEPT ![r] = row]
      BY <2>3 DEF P!Begin, Taken
    <3>2. row \in P!PublicationRow /\ row.status = "uncertain" /\ ~row.old
      BY <2>1 DEF P!PublicationRow
    <3>3. QED
      BY <2>3, <3>1, <3>2
  <2>4. CASE ~first /\ ~publication[r].old
    <3>1. publication' = [publication EXCEPT ![r] = publication[r]]
      BY <2>1, <2>4 DEF P!Begin, Taken
    <3>2. publication[r] \in P!PublicationRow
      BY <2>1
    <3>3. QED
      BY <2>4, <3>1, <3>2
  <2>5. QED
    BY <2>2, <2>3, <2>4
<1>5. agent' \in [Deliveries -> [sent : Nat, waiting : BOOLEAN, reported : BOOLEAN]]
  BY <1>1, AnswerMoves DEF P!Begin, P!PublicationTypeOK
<1>6. /\ publication' \in [Deliveries -> P!PublicationRow] /\ publication'[r] = row
      /\ \A d \in Deliveries \ {r} : publication'[d] = publication[d]
  BY <1>1, <1>4 DEF P!PublicationTypeOK
<1>7. x \in P!RequestState
  BY DEF P!RequestState
<1>8. /\ request' \in [Deliveries -> [P!Submissions -> P!RequestState]]
      /\ request'[r][k] = x
      /\ \A j \in P!Submissions \ {k} : request'[r][j] = request[r][j]
      /\ \A d \in Deliveries \ {r} : request'[d] = request[d]
  BY <1>1, <1>3, <1>7, RequestMoves
<1>9. (Taken(r)' <=> Taken(r)) /\ (Posted(r)' <=> Posted(r))
  BY <1>2 DEF Taken, Posted
<1>10. ASSUME first PROVE Sound(r)'
  <2>1. ~Posted(r) /\ \A j \in P!Submissions : ~Owns(r, j)
    BY <1>1, <1>10 DEF Sound, OneOwner
  <2>2. x = "claimed" /\ row.status = "processing" /\ made[r] # 0
    BY <1>3, <1>4, <1>10 DEF IInv, InboxInv, RunsAreCounted
  <2>3. \A j \in P!Submissions \ {k} : ~Owns(r, j)'
    BY <1>8, <2>1 DEF Owns
  <2>4. OneOwner(r)'
    BY <1>1, <1>2, <1>6, <1>9, <2>2, <2>3 DEF Sound, OneOwner
  <2>5. OwnersTellTheTruth(r)'
    BY <1>8, <1>9, <2>1, <2>2, <2>3 DEF OwnersTellTheTruth, Owns
  <2>6. RowTellsTheTruth(r)'
    BY <1>6, <1>9, <1>10, <2>2 DEF RowTellsTheTruth
  <2>7. SuccessIsPublished(r)'
    BY <1>1, <1>2, <1>10, <2>2 DEF Sound, SuccessIsPublished
  <2>8. QED
    BY <2>4, <2>5, <2>6, <2>7 DEF Sound
<1>11. ASSUME ~first PROVE Sound(r)'
  <2>1. x = "answered"
    BY <1>3, <1>11
  <2>2. \A j \in P!Submissions : Owns(r, j)' => Owns(r, j) /\ request'[r][j] = request[r][j]
    BY <1>8, <2>1 DEF Owns
  <2>3. row = publication[r] \/ (publication[r].status = "processing" /\ ~row.old /\ row.status = "uncertain")
    BY <1>1, <1>4, <1>11 DEF Sound, RowTellsTheTruth
  <2>4. OneOwner(r)'
    BY <1>1, <1>2, <1>6, <1>9, <2>2, <2>3 DEF Sound, OneOwner
  <2>5. OwnersTellTheTruth(r)'
    BY <1>1, <1>8, <1>9, <2>1, <2>2 DEF Sound, OwnersTellTheTruth
  <2>6. RowTellsTheTruth(r)'
    BY <1>1, <1>6, <1>9, <2>2, <2>3 DEF Sound, RowTellsTheTruth
  <2>7. SuccessIsPublished(r)'
    BY <1>1, <1>2, <1>6, <2>3 DEF Sound, SuccessIsPublished
  <2>8. QED
    BY <2>4, <2>5, <2>6, <2>7 DEF Sound
<1>12. Sound(r)'
  BY <1>10, <1>11
<1>13. \A d \in Deliveries : Sound(d)'
  BY <1>2, <1>6, <1>8, <1>12, OthersStay DEF IInv
<1>14. QED
  BY <1>1, <1>2, <1>5, <1>6, <1>8, <1>13 DEF PublicationInv, P!PublicationTypeOK

\* The owner records what became of its call.
LEMMA RecordInv ==
  ASSUME NEW r \in Deliveries, NEW k \in P!Submissions, IInv, P!Record(r, k), UNCHANGED made
  PROVE  PublicationInv'
<1>1. P!PublicationTypeOK /\ Sound(r) /\ k \in Nat
  BY SubmissionsAssumption DEF IInv, PublicationInv, P!Submissions
<1>2. UNCHANGED <<run, posts, verdict, made>> /\ Owns(r, k)
  BY DEF P!Record, Owns
<1>3. publication[r].status \in {"none", "processing", "uncertain"}
  BY <1>1, <1>2 DEF Sound, RowTellsTheTruth, P!PublicationTypeOK, P!PublicationRow
<1>4. agent' \in [Deliveries -> [sent : Nat, waiting : BOOLEAN, reported : BOOLEAN]]
  BY <1>1, AnswerMoves DEF P!Record
<1>5. request' = [request EXCEPT ![r][k] = "answered"]
  BY <1>1, AnswerMoves DEF P!Record
<1>6. /\ request' \in [Deliveries -> [P!Submissions -> P!RequestState]]
      /\ request'[r][k] = "answered"
      /\ \A j \in P!Submissions \ {k} : request'[r][j] = request[r][j]
      /\ \A d \in Deliveries \ {r} : request'[d] = request[d]
  BY <1>1, <1>5, RequestMoves DEF P!RequestState
<1>7. \A j \in P!Submissions : ~Owns(r, j)' /\ (j # k => ~Owns(r, j))
  BY <1>1, <1>2, <1>6 DEF Sound, OneOwner, Owns
<1>8. /\ publication' \in [Deliveries -> P!PublicationRow]
      /\ \A d \in Deliveries \ {r} : publication'[d] = publication[d]
      /\ \/ publication[r].status = "processing" /\ ~publication'[r].old
            /\ publication'[r].status = request[r][k]
         \/ publication'[r] = publication[r] /\ publication[r].status \in {"none", "uncertain"}
  BY <1>1, <1>3 DEF P!Record, P!PublicationTypeOK, P!PublicationRow
<1>9. (Taken(r)' <=> Taken(r)) /\ (Posted(r)' <=> Posted(r))
  BY <1>2 DEF Taken, Posted
<1>10. OneOwner(r)'
  BY <1>1, <1>2, <1>7, <1>8, <1>9 DEF Sound, OneOwner, Owns
<1>11. OwnersTellTheTruth(r)'
  BY <1>6, <1>7 DEF OwnersTellTheTruth, Owns
<1>12. RowTellsTheTruth(r)'
  BY <1>1, <1>7, <1>8, <1>9 DEF Sound, RowTellsTheTruth, OwnersTellTheTruth
<1>13. SuccessIsPublished(r)'
  BY <1>1, <1>2, <1>3 DEF Sound, SuccessIsPublished
<1>14. Sound(r)'
  BY <1>10, <1>11, <1>12, <1>13 DEF Sound
<1>15. \A d \in Deliveries : Sound(d)'
  BY <1>2, <1>6, <1>8, <1>14, OthersStay DEF IInv
<1>16. QED
  BY <1>1, <1>2, <1>4, <1>6, <1>8, <1>15 DEF PublicationInv, P!PublicationTypeOK

\* The runtime sends a request, gives up waiting, or reports.
LEMMA RuntimeInv ==
  ASSUME NEW r \in Deliveries, IInv,
         P!Submit(r) \/ P!TimesOut(r) \/ P!Report(r), UNCHANGED made
  PROVE  PublicationInv'
<1>1. P!PublicationTypeOK /\ Sound(r)
  BY DEF IInv, PublicationInv
<1>2. UNCHANGED <<run, publication, posts, made>>
  BY DEF P!Submit, P!TimesOut, P!Report
<1>3. agent' \in [Deliveries -> [sent : Nat, waiting : BOOLEAN, reported : BOOLEAN]]
  <2>1. agent \in [Deliveries -> [sent : Nat, waiting : BOOLEAN, reported : BOOLEAN]]
    BY <1>1 DEF P!PublicationTypeOK
  <2>2. CASE P!Submit(r)
    BY <2>1, <2>2 DEF P!Submit
  <2>3. CASE P!TimesOut(r)
    BY <2>1, <2>3 DEF P!TimesOut
  <2>4. CASE P!Report(r)
    BY <2>1, <2>4 DEF P!Report
  <2>5. QED
    BY <2>2, <2>3, <2>4
<1>4. CASE P!Submit(r)
  <2>1. PICK k \in Nat : request' = [request EXCEPT ![r][k] = "received"]
    <3>1. agent[r].sent + 1 \in Nat
      BY <1>1 DEF P!PublicationTypeOK
    <3>2. QED
      BY <1>4, <3>1 DEF P!Submit
  <2>2. /\ request' \in [Deliveries -> [P!Submissions -> P!RequestState]]
        /\ k \in P!Submissions => request'[r][k] = "received"
        /\ \A j \in P!Submissions \ {k} : request'[r][j] = request[r][j]
        /\ \A d \in Deliveries \ {r} : request'[d] = request[d]
    BY <1>1, <2>1, RequestMoves DEF P!RequestState
  <2>3. \A j \in P!Submissions : Owns(r, j)' => Owns(r, j) /\ request'[r][j] = request[r][j]
    BY <2>2 DEF Owns
  <2>4. UNCHANGED verdict
    BY <1>4 DEF P!Submit
  <2>5. Sound(r)'
    BY <1>1, <1>2, <2>2, <2>3, <2>4
       DEF Sound, OneOwner, OwnersTellTheTruth, RowTellsTheTruth, SuccessIsPublished,
           Posted, Taken
  <2>6. \A d \in Deliveries : Sound(d)'
    BY <1>2, <2>2, <2>4, <2>5, OthersStay DEF IInv
  <2>7. QED
    BY <1>1, <1>2, <1>3, <2>2, <2>4, <2>6 DEF PublicationInv, P!PublicationTypeOK
<1>5. CASE P!TimesOut(r)
  <2>1. UNCHANGED <<request, verdict>>
    BY <1>5 DEF P!TimesOut
  <2>2. Sound(r)'
    BY <1>1, <1>2, <2>1, SoundStays DEF Taken
  <2>3. \A d \in Deliveries : Sound(d)'
    BY <1>2, <2>1, <2>2, OthersStay DEF IInv
  <2>4. QED
    BY <1>1, <1>2, <1>3, <2>1, <2>3 DEF PublicationInv, P!PublicationTypeOK
<1>6. CASE P!Report(r)
  <2>1. UNCHANGED request
    BY <1>6 DEF P!Report
  <2>2. PICK v \in {"succeeded", "failed"} :
          /\ verdict' = [verdict EXCEPT ![r] = v]
          /\ v = "succeeded" => publication[r].status = "published"
    BY <1>6 DEF P!Report, P!HasPublished
  <2>3. /\ verdict' \in [Deliveries -> {"none", "succeeded", "failed"}] /\ verdict'[r] = v
        /\ \A d \in Deliveries \ {r} : verdict'[d] = verdict[d]
    BY <1>1, <2>2 DEF P!PublicationTypeOK
  <2>4. made[r] # 0
    BY <1>6 DEF P!Report, IInv, InboxInv, RunsAreCounted, Taken
  <2>5. \A k \in P!Submissions : Owns(r, k)' <=> Owns(r, k)
    BY <2>1 DEF Owns
  <2>6. Sound(r)'
    BY <1>1, <1>2, <2>1, <2>2, <2>3, <2>4, <2>5
       DEF Sound, OneOwner, OwnersTellTheTruth, RowTellsTheTruth, SuccessIsPublished,
           Posted, Taken
  <2>7. \A d \in Deliveries : Sound(d)'
    BY <1>2, <2>1, <2>3, <2>6, OthersStay DEF IInv
  <2>8. QED
    BY <1>1, <1>2, <1>3, <2>1, <2>3, <2>7 DEF PublicationInv, P!PublicationTypeOK
<1>7. QED
  BY <1>4, <1>5, <1>6

LEMMA LeaseInv ==
  ASSUME NEW r \in Deliveries, IInv, P!PublicationLeaseExpires(r), UNCHANGED made
  PROVE  PublicationInv'
<1>1. P!PublicationTypeOK /\ Sound(r)
  BY DEF IInv, PublicationInv
<1>2. UNCHANGED <<run, posts, request, agent, verdict, made>>
  BY DEF P!PublicationLeaseExpires
<1>3. /\ publication' \in [Deliveries -> P!PublicationRow]
      /\ publication[r].status = "processing" /\ publication'[r].status = "processing"
      /\ \A d \in Deliveries \ {r} : publication'[d] = publication[d]
  BY <1>1 DEF P!PublicationLeaseExpires, P!PublicationTypeOK, P!PublicationRow
<1>4. \A k \in P!Submissions : Owns(r, k)' <=> Owns(r, k)
  BY <1>2 DEF Owns
<1>5. Sound(r)'
  BY <1>1, <1>2, <1>3, <1>4
     DEF Sound, OneOwner, OwnersTellTheTruth, RowTellsTheTruth, SuccessIsPublished, Posted, Taken
<1>6. \A d \in Deliveries : Sound(d)'
  BY <1>2, <1>3, <1>5, OthersStay DEF IInv
<1>7. QED
  BY <1>1, <1>2, <1>3, <1>6 DEF PublicationInv, P!PublicationTypeOK

\* The run starts or ends.
LEMMA RunStepsInv ==
  ASSUME NEW r \in Deliveries, IInv,
         P!StartRun(r) \/ P!EndRun(r) \/ P!Complete(r),
         UNCHANGED <<about, asking, delivery, worker, thread, made>>
  PROVE  IInv'
<1> DEFINE Rows == [status : {"none"} \cup Live \cup Terminal, session : Nat]
<1>1. P!PublicationTypeOK /\ InboxInv /\ run \in [Deliveries -> Rows] /\ faults \in 0 .. MaxFaults
  BY DEF IInv, PublicationInv, InboxInv, InboxTypeOK
<1>2. UNCHANGED <<publication, posts, request, agent, faults>>
  BY DEF P!StartRun, P!EndRun, P!Complete
<1>3. PICK status \in {"none"} \cup Live \cup Terminal :
        /\ run' = [run EXCEPT ![r].status = status]
        /\ status = run[r].status
           \/ (run[r].status \in Live /\ status # "none")
  BY <1>1 DEF P!StartRun, P!EndRun, P!Complete, P!PublicationTypeOK, Live, Terminal
<1>4. /\ run' \in [Deliveries -> Rows]
      /\ run'[r].status = status /\ run'[r].session = run[r].session
      /\ \A d \in Deliveries \ {r} : run'[d] = run[d]
  BY <1>1, <1>3
<1>5. \A d \in Deliveries :
        /\ run'[d].session = run[d].session
        /\ Taken(d)' <=> Taken(d)
        /\ run[d].status \in Terminal => run'[d].status \in Terminal
        /\ run'[d].status \in Live => run[d].status \in Live
  <2>1. \A d \in Deliveries \ {r} : run'[d] = run[d] /\ (Taken(d)' <=> Taken(d))
    BY <1>4 DEF Taken
  <2>2. /\ Taken(r)' <=> Taken(r)
        /\ run[r].status \in Terminal => run'[r].status \in Terminal
        /\ run'[r].status \in Live => run[r].status \in Live
    BY <1>3, <1>4 DEF Taken, Live, Terminal
  <2>3. QED
    BY <1>4, <2>1, <2>2
<1>6. /\ verdict' \in [Deliveries -> {"none", "succeeded", "failed"}]
      /\ \A d \in Deliveries : verdict'[d] \in {verdict[d], "none"}
  BY <1>1 DEF P!StartRun, P!EndRun, P!Complete, P!PublicationTypeOK
<1>7. \A d \in Deliveries : Sound(d)'
  BY <1>2, <1>5, <1>6, SoundStays DEF IInv, PublicationInv
<1>8. InboxInv'
  BY <1>1, <1>2, <1>4, <1>5, RunStatusInv
<1>9. QED
  BY <1>1, <1>2, <1>6, <1>7, <1>8 DEF IInv, PublicationInv, P!PublicationTypeOK

LEMMA PublishingInv == ASSUME IInv, Publishing PROVE IInv'
<1>1. UNCHANGED <<about, asking, delivery, worker, thread, made>> /\ InboxInv
  BY DEF Publishing, IInv
<1>2. PICK r \in Deliveries :
        \/ P!StartRun(r) \/ P!EndRun(r) \/ P!Complete(r)
        \/ P!Submit(r) \/ P!TimesOut(r) \/ P!Report(r) \/ P!PublicationLeaseExpires(r)
        \/ \E k \in P!Submissions :
             \/ P!Admit(r, k) \/ P!HandlerDies(r, k) \/ P!Begin(r, k) \/ P!Record(r, k)
             \/ P!TokenMissing(r, k) \/ P!Publish(r, k) \/ P!Refused(r, k)
             \/ P!RecordThrows(r, k)
  BY DEF Publishing, P!PublicationNext
<1>3. CASE P!StartRun(r) \/ P!EndRun(r) \/ P!Complete(r)
  BY <1>1, <1>3, RunStepsInv
<1>4. CASE P!Submit(r) \/ P!TimesOut(r) \/ P!Report(r) \/ P!PublicationLeaseExpires(r)
  <2>1. UNCHANGED run /\ faults' \in 0 .. MaxFaults
    BY <1>1, <1>4, InboxFaultsAssumption
       DEF InboxInv, InboxTypeOK, P!Submit, P!TimesOut, P!Report, P!PublicationLeaseExpires, P!Fault
  <2>2. InboxInv'
    BY <1>1, <2>1, RunStatusInv DEF InboxInv, InboxTypeOK, Taken
  <2>3. QED
    BY <1>1, <1>4, <2>2, RuntimeInv, LeaseInv DEF IInv
<1>5. ASSUME NEW k \in P!Submissions,
             \/ P!Admit(r, k) \/ P!HandlerDies(r, k) \/ P!Begin(r, k) \/ P!Record(r, k)
             \/ P!TokenMissing(r, k) \/ P!Publish(r, k) \/ P!Refused(r, k)
             \/ P!RecordThrows(r, k)
      PROVE  IInv'
  <2>1. UNCHANGED run /\ faults' \in 0 .. MaxFaults
    BY <1>1, <1>5, InboxFaultsAssumption
       DEF InboxInv, InboxTypeOK, P!Admit, P!HandlerDies, P!Begin, P!Record, P!TokenMissing,
           P!Publish, P!Refused, P!RecordThrows, P!Fault
  <2>2. InboxInv'
    BY <1>1, <2>1, RunStatusInv DEF InboxInv, InboxTypeOK, Taken
  <2>3. PublicationInv'
    BY <1>1, <1>5, AdmitInv, BeginInv, RecordInv, CallInv
  <2>4. QED
    BY <2>2, <2>3 DEF IInv
<1>6. QED
  BY <1>2, <1>3, <1>4, <1>5

\* No step of the inbox touches a publication, and the only run it makes is one
\* that nothing was made for before.
LEMMA InboxKeepsPublications == ASSUME IInv, Inbox PROVE PublicationInv'
<1>1. UNCHANGED <<publication, posts, request, agent, verdict>>
  BY DEF Inbox, publicationVars
<1>2. \/ UNCHANGED <<run, made>>
      \/ \E c \in Controllers : \E session :
           /\ worker[c].pc # "idle" /\ ~Taken(Of(c))
           /\ QueueRun(Of(c), session)
  <2>1. ASSUME NEW c \in Controllers, AppendTurn(c) PROVE <1>2
    BY <2>1 DEF AppendTurn, Violated
  <2>2. ASSUME NEW c \in Controllers, CreateSession(c) PROVE <1>2
    BY <2>2 DEF CreateSession, Violated
  <2>3. ASSUME NEW c \in Controllers,
               ClaimDelivery(c) \/ WorkerStep(c) \/ Throws(c) \/ ControllerDies(c)
        PROVE  <1>2
    BY <2>1, <2>2, <2>3
       DEF ClaimDelivery, WorkerStep, Throws, ControllerDies, Project, LookForRun, FindSession,
           Rebind, LookAgain, Finish
  <2>4. ASSUME NEW d \in Deliveries,
               Receive(d) \/ ReceiveAgain(d) \/ LeaseExpires(d) \/ RetryDue(d)
        PROVE  UNCHANGED <<run, made>>
    BY <2>4 DEF Receive, ReceiveAgain, LeaseExpires, RetryDue, inboxVars
  <2>5. ASSUME NEW p \in PullRequests,
               BeginParking(p) \/ BeginArchiving(p) \/ EndOperation(p)
        PROVE  UNCHANGED <<run, made>>
    BY <2>5 DEF BeginParking, BeginArchiving, EndOperation
  <2>6. QED
    BY <2>3, <2>4, <2>5 DEF Inbox, InboxNext
<1>3. CASE UNCHANGED <<run, made>>
  <2>1. \A d \in Deliveries : Sound(d)'
    BY <1>1, <1>3, SoundStays DEF IInv, PublicationInv, Taken
  <2>2. QED
    BY <1>1, <2>1 DEF IInv, PublicationInv, P!PublicationTypeOK
<1>4. ASSUME NEW c \in Controllers, NEW session, worker[c].pc # "idle",
             ~Taken(Of(c)), QueueRun(Of(c), session)
      PROVE  PublicationInv'
  <2>1. PICK q : q = Of(c)
    OBVIOUS
  <2>2. q \in Deliveries /\ AtWork(q) /\ ~Taken(q) /\ RunsAreCounted
    BY <1>4, <2>1 DEF IInv, InboxInv, WorkersHaveDeliveries, AtWork
  <2>3. made[q] = 0
    BY <2>2 DEF RunsAreCounted, Closed
  <2>4. PICK new : /\ new.status = "queued"
                   /\ run' = [run EXCEPT ![q] = new] /\ made' = [made EXCEPT ![q] = made[q] + 1]
    BY <1>4, <2>1 DEF QueueRun
  <2>5. /\ run'[q] = new /\ \A d \in Deliveries \ {q} : run'[d] = run[d] /\ made'[d] = made[d]
    BY <2>2, <2>4 DEF IInv, InboxInv, InboxTypeOK
  <2>6. Taken(q)' /\ \A d \in Deliveries \ {q} : Taken(d)' <=> Taken(d)
    BY <2>4, <2>5 DEF Taken
  <2>7. ASSUME NEW d \in Deliveries PROVE Sound(d)'
    <3>1. CASE d = q
      BY <1>1, <2>2, <2>3, <2>6, <3>1, SoundStays DEF IInv, PublicationInv
    <3>2. CASE d # q
      BY <1>1, <2>5, <2>6, <3>2, SoundStays DEF IInv, PublicationInv
    <3>3. QED
      BY <3>1, <3>2
  <2>8. QED
    BY <1>1, <2>7 DEF IInv, PublicationInv, P!PublicationTypeOK
<1>5. QED
  BY <1>2, <1>3, <1>4

LEMMA InboxKeepsItself == ASSUME NoEarlyDeletion, IInv, Inbox PROVE InboxInv'
<1>1. InboxInv /\ InboxNext
  BY DEF IInv, Inbox
<1>2. ASSUME NEW c \in Controllers,
             ClaimDelivery(c) \/ WorkerStep(c) \/ Throws(c) \/ ControllerDies(c)
      PROVE  InboxInv'
  BY <1>1, <1>2, ClaimInv, WorkerStepsInv, EndsOfWorkInv, CommandStepsInv DEF WorkerStep
<1>3. QED
  BY <1>1, <1>2, DeliveryStepsInv, OperationsInv DEF InboxNext

LEMMA DeletingInv == ASSUME IInv, Deleting PROVE IInv'
<1>1. PICK p \in PullRequests : DeleteSession(p) /\ P!Cascade(RunsOf(p))
  BY DEF Deleting
<1>2. InboxInv'
  BY <1>1, DeletionInv DEF IInv
<1>3. UNCHANGED <<posts, request, agent, verdict, made>>
  BY <1>1 DEF P!Cascade, DeleteSession
<1>4. \A d \in Deliveries :
        IF d \in RunsOf(p) THEN run'[d] = NoRun /\ publication'[d] = P!NoPublication
                           ELSE run'[d] = run[d] /\ publication'[d] = publication[d]
  BY <1>1 DEF P!Cascade, DeleteSession
<1>5. P!PublicationTypeOK'
  <2>1. publication' \in [Deliveries -> P!PublicationRow]
    BY <1>1 DEF P!Cascade, IInv, PublicationInv, P!PublicationTypeOK, P!NoPublication,
                P!PublicationRow
  <2>2. QED
    BY <1>3, <2>1 DEF IInv, PublicationInv, P!PublicationTypeOK
<1>6. ASSUME NEW d \in Deliveries PROVE Sound(d)'
  <2>1. Sound(d)
    BY DEF IInv, PublicationInv
  <2>2. CASE d \in RunsOf(p)
    <3>1. ~Taken(d)' /\ run'[d].status \notin Live
      BY <1>4, <2>2 DEF Taken, NoRun, Live
    <3>2. publication'[d].status = "none" /\ ~publication'[d].old
      BY <1>4, <2>2 DEF P!NoPublication
    <3>3. \A k \in P!Submissions : Owns(d, k)' <=> Owns(d, k)
      BY <1>3 DEF Owns
    <3>4. Posted(d)' <=> Posted(d)
      BY <1>3 DEF Posted
    <3>5. OneOwner(d)' /\ OwnersTellTheTruth(d)'
      BY <1>3, <2>1, <3>1, <3>3, <3>4 DEF Sound, OneOwner, OwnersTellTheTruth
    <3>6. RowTellsTheTruth(d)' /\ SuccessIsPublished(d)'
      BY <1>3, <2>1, <3>1, <3>2 DEF Sound, RowTellsTheTruth, SuccessIsPublished
    <3>7. QED
      BY <3>5, <3>6 DEF Sound
  <2>3. CASE d \notin RunsOf(p)
    BY <1>3, <1>4, <2>1, <2>3, SoundStays DEF Taken
  <2>4. QED
    BY <2>2, <2>3
<1>7. QED
  BY <1>2, <1>5, <1>6 DEF IInv, PublicationInv

-----------------------------------------------------------------------------
(* Theorems. *)

LEMMA InitInv == Init => IInv
<1> SUFFICES ASSUME Init PROVE IInv
  OBVIOUS
<1> USE DEF Init, InboxInit, P!PublicationInit
<1>1. InboxTypeOK
  BY InboxFaultsAssumption
     DEF InboxTypeOK, DeliveryRow, WorkerState, IdleWorker, NoRun
<1>2. WorkersHaveDeliveries /\ RunsAreCounted
  BY DEF WorkersHaveDeliveries, RunsAreCounted, IdleWorker, Taken, NoRun
<1>3. ArchivedIsClosed
  BY DEF ArchivedIsClosed
<1>4. P!PublicationTypeOK
  BY DEF P!PublicationTypeOK, P!PublicationRow, P!NoPublication, P!RequestState
<1>5. \A d \in Deliveries : Sound(d)
  BY DEF Sound, OneOwner, OwnersTellTheTruth, RowTellsTheTruth, SuccessIsPublished, Owns, Posted,
         Taken, NoRun, P!NoPublication
<1>6. QED
  BY <1>1, <1>2, <1>3, <1>4, <1>5 DEF IInv, InboxInv, PublicationInv

LEMMA StutterInv == ASSUME IInv, UNCHANGED vars PROVE IInv'
<1>1. InboxInv'
  BY RunStatusInv DEF vars, inboxVars, IInv, InboxInv, InboxTypeOK, Taken
<1>2. \A d \in Deliveries : Sound(d)'
  BY SoundStays DEF vars, inboxVars, publicationVars, IInv, PublicationInv, Taken
<1>3. QED
  BY <1>1, <1>2 DEF vars, publicationVars, IInv, PublicationInv, P!PublicationTypeOK

LEMMA NextInv == ASSUME NoEarlyDeletion, IInv, [Next]_vars PROVE IInv'
<1>1. CASE Inbox
  BY <1>1, InboxKeepsItself, InboxKeepsPublications DEF IInv
<1>2. QED
  BY <1>1, PublishingInv, DeletingInv, StutterInv DEF Next

\* The inductive invariant, of which the others are parts.
THEOREM IInvHolds == ASSUME NoEarlyDeletion PROVE Spec => []IInv
BY InitInv, NextInv, PTL DEF Spec

\* Every record the inbox and the publications write has its type.
THEOREM TypesHold == ASSUME NoEarlyDeletion PROVE Spec => []TypeOK
<1>1. IInv => TypeOK
  BY DEF IInv, InboxInv, PublicationInv, TypeOK
<1>2. QED
  BY <1>1, IInvHolds, PTL

\* However often a delivery is claimed, by however many controllers at a time,
\* whatever crashes, fails or loses its reply, it queues one run.
THEOREM DeliveriesQueueOnce == ASSUME NoEarlyDeletion PROVE Spec => []OneRunPerDelivery
<1>1. IInv => OneRunPerDelivery
  BY DEF IInv, InboxInv, InboxTypeOK, RunsAreCounted, OneRunPerDelivery
<1>2. QED
  BY <1>1, IInvHolds, PTL

\* All runs of a pull request are turns of the session it is bound to.
THEOREM SessionsAreUnique == ASSUME NoEarlyDeletion PROVE Spec => []OneSessionPerPullRequest
<1>1. IInv => OneSessionPerPullRequest
  BY DEF IInv, InboxInv, RunsAreCounted, OneSessionPerPullRequest
<1>2. QED
  BY <1>1, IInvHolds, PTL

\* No repetition, loss or take-over makes GitHub get a second review or reply.
THEOREM PostsAreUnique == ASSUME NoEarlyDeletion PROVE Spec => []OnePost
<1>1. IInv => OnePost
  BY DEF IInv, PublicationInv, Sound, OneOwner, OnePost
<1>2. QED
  BY <1>1, IInvHolds, PTL

-----------------------------------------------------------------------------
(***************************************************************************)
(* The refinement: Integration implements IntegrationPromise.  Claims,     *)
(* workers, retries and requests are invisible to the promise; a step that *)
(* is visible is a step of one delivery, or the deletion of a session with *)
(* all its runs.                                                           *)
(***************************************************************************)

USE DEF Unbound

posted == [d \in Deliveries |-> posts[d] > 0]

(* The steps of the promise, as seen by the one delivery that takes them. *)

Stays(d) == turn'[d] = turn[d] /\ posted'[d] = posted[d] /\ shown'[d] = shown[d]

\* The delivery is recorded, queued, or its run is over.
TurnMoves(d) ==
  /\ \/ turn[d] = "none" /\ turn'[d] = "asked"
     \/ turn[d] = "asked" /\ turn'[d] = "open"
     \/ turn[d] = "open" /\ turn'[d] = "failed"
     \/ turn[d] = "open" /\ shown[d] = "published" /\ turn'[d] = "succeeded"
  /\ posted'[d] = posted[d] /\ shown'[d] = shown[d]

IsPosted(d) ==
  /\ turn[d] \notin {"none", "asked"} /\ ~posted[d] /\ shown[d] # "failed"
  /\ posted'[d] = TRUE
  /\ turn'[d] = turn[d] /\ shown'[d] = shown[d]

IsShown(d) ==
  /\ turn[d] \in {"open", "succeeded", "failed"}
  /\ \/ shown[d] = "nothing" /\ shown'[d] = "processing"
     \/ shown[d] = "processing" /\ shown'[d] = "published" /\ posted[d]
     \/ shown[d] = "processing" /\ shown'[d] = "failed" /\ ~posted[d]
     \/ shown[d] = "processing" /\ shown'[d] = "uncertain"
  /\ turn'[d] = turn[d] /\ posted'[d] = posted[d]

LEMMA OneDeliveryMoves ==
  ASSUME NEW d \in Deliveries, \A e \in Deliveries : e # d => Stays(e),
         Stays(d) \/ TurnMoves(d) \/ IsPosted(d) \/ IsShown(d)
  PROVE  [Promise!Next]_(Promise!promise)
<1>1. /\ turn   = [e \in Deliveries |-> turn[e]]   /\ turn'   = [e \in Deliveries |-> turn'[e]]
      /\ posted = [e \in Deliveries |-> posted[e]] /\ posted' = [e \in Deliveries |-> posted'[e]]
      /\ shown  = [e \in Deliveries |-> shown[e]]  /\ shown'  = [e \in Deliveries |-> shown'[e]]
  BY DEF turn, posted, shown
<1>2. /\ turn'   = [turn EXCEPT ![d] = turn'[d]]
      /\ posted' = [posted EXCEPT ![d] = posted'[d]]
      /\ shown'  = [shown EXCEPT ![d] = shown'[d]]
  BY <1>1 DEF Stays
<1>3. /\ turn'[d] = turn[d] => turn' = turn
      /\ posted'[d] = posted[d] => posted' = posted
      /\ shown'[d] = shown[d] => shown' = shown
  BY <1>1 DEF Stays
<1> DEFINE now == [e \in Deliveries |-> posts[e] > 0]
<1>4. posted = now /\ posted' = now'
  BY DEF posted
<1>5. CASE Stays(d)
  BY <1>3, <1>4, <1>5 DEF Stays, Promise!promise
<1>6. CASE TurnMoves(d)
  BY <1>2, <1>3, <1>4, <1>6
     DEF TurnMoves, Promise!Next, Promise!Ask, Promise!Queue, Promise!End
<1>7. CASE IsPosted(d)
  BY <1>2, <1>3, <1>4, <1>7 DEF IsPosted, Promise!Next, Promise!Post
<1>8. CASE IsShown(d)
  <2>1. ASSUME NEW what \in {"processing", "published", "failed", "uncertain"},
               shown'[d] = what
        PROVE  Promise!Show(d, what)
    BY <1>2, <1>3, <1>4, <1>8, <2>1 DEF IsShown, Promise!Show, Promise!Ended
  <2>2. shown'[d] \in {"processing", "published", "failed", "uncertain"}
    BY <1>8 DEF IsShown
  <2>3. QED
    BY <2>1, <2>2 DEF Promise!Next
<1>9. QED
  BY <1>5, <1>6, <1>7, <1>8

-----------------------------------------------------------------------------
(* What the promise sees of a delivery. *)

LEMMA TurnIs ==
  ASSUME NEW d \in Deliveries, InboxInv
  PROVE  /\ turn[d] = IF Taken(d)
                      THEN IF run[d].status \in Live THEN "open" ELSE run[d].status
                      ELSE IF made[d] # 0 THEN "gone"
                      ELSE IF delivery[d].status = "absent" THEN "none" ELSE "asked"
         /\ Taken(d) => run[d].status \in Live \cup Terminal
<1>1. /\ run[d].status \in {"none"} \cup Live \cup Terminal /\ made[d] \in Nat
      /\ Taken(d) => made[d] = 1
      /\ delivery[d].status = "absent" => made[d] = 0
  BY DEF InboxInv, InboxTypeOK, RunsAreCounted
<1>2. QED
  BY <1>1 DEF turn, Taken, Live, Terminal

LEMMA StaysIf ==
  ASSUME NEW d \in Deliveries, run'[d] = run[d],
         made'[d] = made[d], posts'[d] = posts[d],
         publication'[d].status = publication[d].status,
         (delivery'[d].status = "absent") <=> (delivery[d].status = "absent")
  PROVE  Stays(d)
<1>1. turn'[d] = turn[d]
  BY DEF turn, Taken
<1>2. QED
  BY <1>1 DEF Stays, posted, shown

-----------------------------------------------------------------------------
(* Every step is one of the promise, or none. *)

\* A controller's step on its delivery: only the run it queues is seen.
LEMMA WorkersImplement ==
  ASSUME IInv, IInv', NEW c \in Controllers, UNCHANGED publicationVars,
         ClaimDelivery(c) \/ WorkerStep(c) \/ Throws(c) \/ ControllerDies(c)
  PROVE  [Promise!Next]_(Promise!promise)
<1>1. UNCHANGED <<publication, posts>> /\ InboxInv /\ InboxInv'
  BY DEF publicationVars, IInv
<1>2. \A d \in Deliveries :
        (delivery'[d].status = "absent") <=> (delivery[d].status = "absent")
  <2>1. delivery \in [Deliveries -> DeliveryRow] /\ WorkersHaveDeliveries
    BY <1>1 DEF InboxInv, InboxTypeOK
  <2>2. CASE ClaimDelivery(c)
    <3>1. PICK d \in Deliveries :
            /\ delivery[d].status # "absent"
            /\ delivery' = [delivery EXCEPT ![d] =
                 [status |-> "processing", attempt |-> @.attempt + 1, old |-> FALSE]]
      BY <2>2 DEF ClaimDelivery, MayClaim
    <3>2. QED
      BY <2>1, <3>1
  <2>3. CASE Finish(c)
    <3>1. PICK d \in Deliveries : d = Of(c)
      BY <2>1, <2>3 DEF Finish, WorkersHaveDeliveries
    <3>2. PICK result : result = worker[c].result
      OBVIOUS
    <3>3. result # "absent"
      BY <1>1, <3>2 DEF InboxInv, InboxTypeOK, WorkerState
    <3>4. CASE UNCHANGED delivery
      BY <3>4
    <3>5. CASE /\ delivery[d].status = "processing"
               /\ delivery' = [delivery EXCEPT ![d].status = result, ![d].old = FALSE]
      BY <2>1, <3>3, <3>5 DEF DeliveryRow
    <3>6. QED
      BY <2>3, <3>1, <3>2, <3>4, <3>5 DEF Finish, Holds
  <2>4. CASE UNCHANGED delivery
    BY <2>4
  <2>5. QED
    BY <2>2, <2>3, <2>4
       DEF WorkerStep, Throws, ControllerDies, Project, LookForRun, FindSession, AppendTurn,
           CreateSession, Rebind, LookAgain
<1>3. \/ UNCHANGED <<run, made>>
      \/ \E session :
           /\ worker[c].pc # "idle" /\ ~Taken(Of(c))
           /\ QueueRun(Of(c), session)
  <2>1. ASSUME AppendTurn(c) PROVE <1>3
    BY <2>1 DEF AppendTurn, Violated
  <2>2. ASSUME CreateSession(c) PROVE <1>3
    BY <2>2 DEF CreateSession, Violated
  <2>3. QED
    BY <2>1, <2>2
       DEF ClaimDelivery, WorkerStep, Throws, ControllerDies, Project, LookForRun, FindSession,
           Rebind, LookAgain, Finish
<1>4. CASE UNCHANGED <<run, made>>
  <2>1. \A d \in Deliveries : Stays(d)
    BY <1>1, <1>2, <1>4, StaysIf
  <2>2. CASE Deliveries = {}
    BY <2>2 DEF turn, shown, Promise!promise
  <2>3. QED
    BY <2>1, <2>2, OneDeliveryMoves
<1>5. ASSUME NEW session, worker[c].pc # "idle", ~Taken(Of(c)), QueueRun(Of(c), session)
      PROVE  [Promise!Next]_(Promise!promise)
  <2>1. PICK q : q = Of(c)
    OBVIOUS
  <2>2. q \in Deliveries /\ AtWork(q) /\ ~Taken(q) /\ delivery[q].status # "absent"
    BY <1>1, <1>5, <2>1 DEF InboxInv, WorkersHaveDeliveries, AtWork
  <2>3. made[q] = 0
    BY <1>1, <2>2 DEF InboxInv, RunsAreCounted, Closed
  <2>4. PICK new : /\ new.status = "queued"
                   /\ run' = [run EXCEPT ![q] = new] /\ made' = [made EXCEPT ![q] = made[q] + 1]
    BY <1>5, <2>1 DEF QueueRun
  <2>5. /\ run'[q] = new /\ \A d \in Deliveries \ {q} : run'[d] = run[d] /\ made'[d] = made[d]
    BY <1>1, <2>2, <2>4 DEF InboxInv, InboxTypeOK
  <2>6. turn[q] = "asked"
    BY <1>1, <2>2, <2>3, TurnIs
  <2>7. Taken(q)' /\ run'[q].status \in Live
    BY <2>4, <2>5 DEF Taken, Live
  <2>8. turn'[q] = "open"
    <3>1. delivery'[q].status # "absent"
      BY <1>2, <2>2
    <3>2. QED
      BY <2>2, <2>7, <3>1 DEF turn, Live, Terminal
  <2>9. posted'[q] = posted[q] /\ shown'[q] = shown[q]
    BY <1>1 DEF posted, shown
  <2>10. \A d \in Deliveries : d # q => Stays(d)
    BY <1>1, <1>2, <2>5, StaysIf
  <2>11. QED
    BY <2>2, <2>6, <2>8, <2>9, <2>10, OneDeliveryMoves DEF TurnMoves
<1>6. QED
  BY <1>3, <1>4, <1>5

\* Intake is seen; time and the operations of a session are not.
LEMMA InboxImplements ==
  ASSUME IInv, IInv', Inbox PROVE [Promise!Next]_(Promise!promise)
<1>1. UNCHANGED publicationVars /\ UNCHANGED <<publication, posts>> /\ InboxInv /\ InboxInv'
  BY DEF Inbox, publicationVars, IInv
<1>2. ASSUME NEW c \in Controllers,
             ClaimDelivery(c) \/ WorkerStep(c) \/ Throws(c) \/ ControllerDies(c)
      PROVE  [Promise!Next]_(Promise!promise)
  BY <1>1, <1>2, WorkersImplement
<1>3. ASSUME NEW d \in Deliveries, Receive(d)
      PROVE  [Promise!Next]_(Promise!promise)
  <2>1. /\ delivery[d].status = "absent" /\ delivery'[d].status = "pending"
        /\ \A e \in Deliveries \ {d} : delivery'[e] = delivery[e]
        /\ UNCHANGED <<run, made>>
    BY <1>1, <1>3 DEF Receive, InboxInv, InboxTypeOK
  <2>2. ~Taken(d) /\ ~Taken(d)' /\ made[d] = 0
    BY <1>1, <2>1 DEF InboxInv, RunsAreCounted, Taken
  <2>3. turn[d] = "none" /\ turn'[d] = "asked"
    BY <2>1, <2>2 DEF turn
  <2>4. posted'[d] = posted[d] /\ shown'[d] = shown[d]
    BY <1>1 DEF posted, shown
  <2>5. \A e \in Deliveries : e # d => Stays(e)
    BY <1>1, <2>1, StaysIf
  <2>6. QED
    BY <2>3, <2>4, <2>5, OneDeliveryMoves DEF TurnMoves
<1>4. ASSUME NEW d \in Deliveries, ReceiveAgain(d) \/ LeaseExpires(d) \/ RetryDue(d)
      PROVE  [Promise!Next]_(Promise!promise)
  <2>1. UNCHANGED <<run, made>>
    BY <1>4 DEF ReceiveAgain, LeaseExpires, RetryDue, inboxVars
  <2>2. \A e \in Deliveries :
          (delivery'[e].status = "absent") <=> (delivery[e].status = "absent")
    <3>1. CASE UNCHANGED delivery
      BY <3>1
    <3>2. CASE delivery' = [delivery EXCEPT ![d].old = TRUE]
      BY <1>1, <3>2 DEF InboxInv, InboxTypeOK, DeliveryRow
    <3>3. QED
      BY <1>4, <3>1, <3>2 DEF ReceiveAgain, LeaseExpires, RetryDue, inboxVars
  <2>3. \A e \in Deliveries : Stays(e)
    BY <1>1, <2>1, <2>2, StaysIf
  <2>4. QED
    BY <2>3, OneDeliveryMoves
<1>5. ASSUME NEW p \in PullRequests, BeginParking(p) \/ BeginArchiving(p) \/ EndOperation(p)
      PROVE  [Promise!Next]_(Promise!promise)
  <2>1. UNCHANGED <<run, made, delivery>>
    BY <1>5 DEF BeginParking, BeginArchiving, EndOperation
  <2>2. turn' = turn /\ shown' = shown
    BY <1>1, <2>1 DEF turn, shown, Taken
  <2>3. QED
    BY <1>1, <2>2 DEF Promise!promise
<1>6. QED
  BY <1>2, <1>3, <1>4, <1>5 DEF Inbox, InboxNext

\* The steps of a publication that are seen.
LEMMA PublishingImplements ==
  ASSUME IInv, IInv', Publishing PROVE [Promise!Next]_(Promise!promise)
<1>1. /\ UNCHANGED <<delivery, made>> /\ InboxInv /\ InboxInv' /\ P!PublicationTypeOK
      /\ \A d \in Deliveries : Sound(d)
  BY DEF Publishing, IInv, PublicationInv
<1>2. PICK r \in Deliveries :
        \/ P!StartRun(r) \/ P!EndRun(r) \/ P!Complete(r)
        \/ P!Submit(r) \/ P!TimesOut(r) \/ P!Report(r) \/ P!PublicationLeaseExpires(r)
        \/ \E k \in P!Submissions :
             \/ P!Admit(r, k) \/ P!HandlerDies(r, k) \/ P!Begin(r, k) \/ P!Record(r, k)
             \/ P!TokenMissing(r, k) \/ P!Publish(r, k) \/ P!Refused(r, k)
             \/ P!RecordThrows(r, k)
  BY DEF Publishing, P!PublicationNext
<1> DEFINE Rows == [status : {"none"} \cup Live \cup Terminal, session : Nat]
<1>3. run \in [Deliveries -> Rows] /\ Sound(r)
  BY <1>1 DEF InboxInv, InboxTypeOK
<1>4. CASE P!StartRun(r) \/ P!EndRun(r) \/ P!Complete(r)
  <2>1. UNCHANGED <<publication, posts>>
    BY <1>4 DEF P!StartRun, P!EndRun, P!Complete
  <2>2. \A d \in Deliveries : d # r => Stays(d)
    <3>1. \A d \in Deliveries : d # r => run'[d] = run[d]
      BY <1>3, <1>4 DEF P!StartRun, P!EndRun, P!Complete
    <3>2. QED
      BY <1>1, <2>1, <3>1, StaysIf
  <2>3. \/ run'[r].status = run[r].status
        \/ run[r].status \in Live /\ run'[r].status \in Live
        \/ run[r].status \in Live /\ run'[r].status = "failed"
        \/ /\ run[r].status \in Live /\ run'[r].status = "succeeded"
           /\ publication[r].status = "published"
    BY <1>1, <1>3, <1>4
       DEF P!StartRun, P!EndRun, P!Complete, Live, P!PublicationTypeOK, Sound, SuccessIsPublished
  <2>4. posted'[r] = posted[r] /\ shown'[r] = shown[r]
    BY <2>1 DEF posted, shown
  <2>5. CASE \/ run'[r].status = run[r].status
             \/ run[r].status \in Live /\ run'[r].status \in Live
    <3>1. Taken(r)' <=> Taken(r)
      BY <2>5 DEF Taken, Live
    <3>2. turn'[r] = turn[r]
      BY <1>1, <2>5, <3>1, TurnIs DEF turn
    <3>3. QED
      BY <2>2, <2>4, <3>2, OneDeliveryMoves DEF Stays
  <2>6. CASE run[r].status \in Live /\ run'[r].status \in {"failed", "succeeded"}
    <3>1. Taken(r) /\ Taken(r)' /\ delivery[r].status # "absent"
      BY <1>1, <2>6 DEF Taken, Live, InboxInv, RunsAreCounted
    <3>2. turn[r] = "open" /\ turn'[r] = run'[r].status
      BY <1>1, <2>6, <3>1 DEF turn, Live, Terminal
    <3>3. publication[r].status = "published" => shown[r] = "published"
      BY DEF shown
    <3>4. TurnMoves(r)
      BY <2>3, <2>4, <2>6, <3>2, <3>3 DEF TurnMoves, Live
    <3>5. QED
      BY <2>2, <3>4, OneDeliveryMoves
  <2>7. QED
    BY <2>3, <2>5, <2>6
<1>5. ASSUME UNCHANGED <<run, posts>>,
             \A d \in Deliveries : publication'[d].status = publication[d].status
      PROVE  [Promise!Next]_(Promise!promise)
  BY <1>1, <1>5, StaysIf, OneDeliveryMoves
<1>6. CASE P!Submit(r) \/ P!TimesOut(r) \/ P!Report(r) \/ P!PublicationLeaseExpires(r)
  BY <1>1, <1>5, <1>6
     DEF P!Submit, P!TimesOut, P!Report, P!PublicationLeaseExpires, P!PublicationTypeOK,
         P!PublicationRow
<1>7. ASSUME NEW k \in P!Submissions,
             \/ P!Admit(r, k) \/ P!HandlerDies(r, k) \/ P!TokenMissing(r, k)
             \/ P!Refused(r, k) \/ P!RecordThrows(r, k)
      PROVE  [Promise!Next]_(Promise!promise)
  BY <1>5, <1>7 DEF P!Admit, P!HandlerDies, P!TokenMissing, P!Refused, P!RecordThrows
<1>8. ASSUME NEW k \in P!Submissions, P!Publish(r, k)
      PROVE  [Promise!Next]_(Promise!promise)
  <2>1. /\ Owns(r, k) /\ request[r][k] = "claimed" /\ UNCHANGED <<run, publication>>
        /\ posts' = [posts EXCEPT ![r] = @ + 1]
    BY <1>8 DEF P!Publish, Owns
  <2>2. ~Posted(r) /\ publication[r].status # "failed" /\ made[r] # 0
    BY <1>3, <2>1 DEF Sound, OneOwner, OwnersTellTheTruth, RowTellsTheTruth
  <2>3. /\ posts[r] = 0 /\ posts'[r] = 1
        /\ \A d \in Deliveries : d # r => posts'[d] = posts[d]
    BY <1>1, <2>1, <2>2 DEF P!PublicationTypeOK, Posted
  <2>4. \A d \in Deliveries : d # r => Stays(d)
    BY <1>1, <2>1, <2>3, StaysIf
  <2>5. turn'[r] = turn[r] /\ shown'[r] = shown[r] /\ shown[r] # "failed"
    BY <1>1, <2>1, <2>2 DEF turn, shown, Taken
  <2>6. turn[r] \notin {"none", "asked"}
    BY <1>1, <2>2, TurnIs DEF Live, Terminal
  <2>7. ~posted[r] /\ posted'[r] = TRUE
    <3>1. posted[r] = (posts[r] > 0) /\ posted'[r] = (posts'[r] > 0)
      BY DEF posted
    <3>2. ~(posts[r] > 0) /\ (posts'[r] > 0)
      BY <2>3
    <3>3. QED
      BY <3>1, <3>2
  <2>8. QED
    BY <2>4, <2>5, <2>6, <2>7, OneDeliveryMoves DEF IsPosted
<1>9. ASSUME NEW k \in P!Submissions, P!Begin(r, k) \/ P!Record(r, k)
      PROVE  [Promise!Next]_(Promise!promise)
  <2>1. UNCHANGED <<run, posts>> /\ publication \in [Deliveries -> P!PublicationRow]
    BY <1>1, <1>9 DEF P!Begin, P!Record, P!PublicationTypeOK
  <2>2. \A d \in Deliveries : d # r => publication'[d] = publication[d]
    BY <1>9, <2>1 DEF P!Begin, P!Record
  <2>3. \A d \in Deliveries : d # r => Stays(d)
    BY <1>1, <2>1, <2>2, StaysIf
  <2>4. \/ publication'[r].status = publication[r].status
        \/ /\ publication[r].status = "none" /\ Taken(r)
           /\ publication'[r].status = "processing"
        \/ /\ publication[r].status = "processing" /\ Taken(r)
           /\ \/ publication'[r].status = "uncertain"
              \/ publication'[r].status = "published" /\ Posted(r)
              \/ publication'[r].status = "failed" /\ ~Posted(r)
    <3>1. CASE P!Begin(r, k)
      <4>1. CASE run[r].status # "none" /\ publication[r].status = "none"
        BY <2>1, <3>1, <4>1 DEF P!Begin, Taken, P!PublicationRow
      <4>2. CASE ~(run[r].status # "none" /\ publication[r].status = "none") /\ publication[r].old
        <5>1. publication[r].status = "processing" /\ Taken(r)
          BY <1>3, <4>2 DEF Sound, RowTellsTheTruth
        <5>2. publication'[r].status = "uncertain"
          BY <2>1, <3>1, <4>2 DEF P!Begin, P!PublicationRow
        <5>3. QED
          BY <5>1, <5>2
      <4>3. CASE ~(run[r].status # "none" /\ publication[r].status = "none") /\ ~publication[r].old
        BY <2>1, <3>1, <4>3 DEF P!Begin
      <4>4. QED
        BY <4>1, <4>2, <4>3
    <3>2. CASE P!Record(r, k)
      <4>1. CASE publication[r].status = "processing"
        <5>1. Taken(r) /\ publication'[r].status = request[r][k]
          BY <1>3, <2>1, <3>2, <4>1 DEF P!Record, Sound, RowTellsTheTruth
        <5>2. /\ request[r][k] \in {"published", "failed", "uncertain"}
              /\ request[r][k] = "published" => Posted(r)
              /\ request[r][k] = "failed" => ~Posted(r)
          BY <1>3, <3>2 DEF P!Record, Sound, OwnersTellTheTruth
        <5>3. QED
          BY <4>1, <5>1, <5>2
      <4>2. CASE publication[r].status # "processing"
        BY <3>2, <4>2 DEF P!Record
      <4>3. QED
        BY <4>1, <4>2
    <3>3. QED
      BY <1>9, <3>1, <3>2
  <2>5. turn'[r] = turn[r] /\ posted'[r] = posted[r]
    BY <1>1, <2>1 DEF turn, posted, Taken
  <2>6. CASE publication'[r].status = publication[r].status
    BY <1>1, <2>1, <2>3, <2>6, StaysIf, OneDeliveryMoves
  <2>7. CASE Taken(r) /\ publication'[r].status # publication[r].status
    <3>1. turn[r] \in {"open", "succeeded", "failed"}
      BY <1>1, <2>7, TurnIs DEF Terminal
    <3>2. /\ shown[r] = IF publication[r].status = "none" THEN "nothing" ELSE publication[r].status
          /\ shown'[r] = IF publication'[r].status = "none" THEN "nothing" ELSE publication'[r].status
          /\ posted[r] <=> Posted(r)
      BY DEF shown, posted, Posted
    <3>3. IsShown(r)
      BY <2>4, <2>5, <2>7, <3>1, <3>2 DEF IsShown
    <3>4. QED
      BY <2>3, <3>3, OneDeliveryMoves
  <2>8. QED
    BY <2>4, <2>6, <2>7
<1>10. QED
  BY <1>2, <1>4, <1>6, <1>7, <1>8, <1>9

LEMMA DeletingImplements ==
  ASSUME IInv, IInv', Deleting PROVE [Promise!Next]_(Promise!promise)
<1>1. PICK p \in PullRequests : DeleteSession(p) /\ P!Cascade(RunsOf(p))
  BY DEF Deleting
<1>2. PICK S \in SUBSET Deliveries : S = RunsOf(p)
  BY DEF RunsOf
<1>3. InboxInv /\ UNCHANGED <<delivery, made, posts>>
  BY <1>1 DEF IInv, DeleteSession, P!Cascade
<1>4. \A d \in Deliveries :
        IF d \in S THEN run'[d] = NoRun /\ publication'[d] = P!NoPublication
                   ELSE run'[d] = run[d] /\ publication'[d] = publication[d]
  BY <1>1, <1>2 DEF P!Cascade, DeleteSession
<1>5. \A d \in S : Taken(d) /\ run[d].status \in Terminal /\ made[d] = 1
  BY <1>1, <1>2, <1>3 DEF RunsOf, InboxInv, ArchivedIsClosed, DeleteSession, RunsAreCounted
<1>6. \A d \in S : turn[d] \in {"succeeded", "failed"}
  BY <1>3, <1>5, TurnIs DEF Live, Terminal
<1>7. turn' = [d \in Deliveries |-> IF d \in S THEN "gone" ELSE turn[d]]
  <2>1. ASSUME NEW d \in Deliveries
        PROVE  turn'[d] = IF d \in S THEN "gone" ELSE turn[d]
    <3>1. CASE d \in S
      <4>1. ~Taken(d)' /\ made'[d] = 1 /\ delivery'[d].status # "absent"
        BY <1>3, <1>4, <1>5, <3>1 DEF Taken, NoRun, InboxInv, RunsAreCounted
      <4>2. QED
        BY <3>1, <4>1 DEF turn
    <3>2. CASE d \notin S
      BY <1>3, <1>4, <3>2 DEF turn, Taken
    <3>3. QED
      BY <3>1, <3>2
  <2>2. QED
    BY <2>1 DEF turn
<1>8. shown' = [d \in Deliveries |-> IF d \in S THEN "nothing" ELSE shown[d]]
  BY <1>4 DEF shown, P!NoPublication
<1>9. Promise!Forget(S)
  BY <1>3, <1>6, <1>7, <1>8 DEF Promise!Forget, Promise!Ended
<1>10. QED
  BY <1>9 DEF Promise!Next

LEMMA InitImplements == Init => Promise!Init
<1> SUFFICES ASSUME Init PROVE Promise!Init
  OBVIOUS
<1>1. /\ delivery = [d \in Deliveries |-> [status |-> "absent", attempt |-> 0, old |-> FALSE]]
      /\ posts = [d \in Deliveries |-> 0]
      /\ publication = [d \in Deliveries |-> P!NoPublication]
      /\ run = [d \in Deliveries |-> NoRun] /\ made = [d \in Deliveries |-> 0]
  BY DEF Init, InboxInit, P!PublicationInit
<1>2. \A d \in Deliveries : (posts[d] > 0) = FALSE
  BY <1>1
<1>3. turn = [d \in Deliveries |-> "none"]
  BY <1>1 DEF turn, Taken, NoRun
<1>4. shown = [d \in Deliveries |-> "nothing"]
  BY <1>1 DEF shown, P!NoPublication
<1>5. QED
  BY <1>2, <1>3, <1>4 DEF Promise!Init

LEMMA StutterImplements == UNCHANGED vars => UNCHANGED Promise!promise
BY DEF vars, inboxVars, publicationVars, Promise!promise, turn, shown, Taken

LEMMA StepImplements == IInv /\ IInv' /\ [Next]_vars => [Promise!Next]_(Promise!promise)
BY InboxImplements, PublishingImplements, DeletingImplements, StutterImplements DEF Next

\* What GitHub delivers leads to one run, one review or reply, and statements
\* about it that are true and final, whatever is claimed, repeated or lost.
THEOREM IntegrationKeepsItsPromise ==
  ASSUME NoEarlyDeletion PROVE Spec => ImplementsPromise
BY IInvHolds, InitImplements, StepImplements, PTL DEF Spec, ImplementsPromise, Promise!Spec
=============================================================================
