--------------------------- MODULE SessionDeletion ---------------------------
(***************************************************************************)
(* A session that its user deletes (deleteSession of http/sessions.ts),    *)
(* beside everything SessionParking does with it.  The request reads the   *)
(* session and its runs, claims the session, removes the machine and the   *)
(* checkpoints that the rows name, and deletes the row, which takes the    *)
(* rows of the turns with it.  What it read may be old when it claims: the *)
(* claim and the deletion ask for the active and the latest turn it saw.   *)
(***************************************************************************)
EXTENDS SessionParking

VARIABLES
  request,   \* the request at work
  deleted    \* the rows are gone

deletionVars == <<request, deleted>>
parkingVars == <<session, run, worker, source, snapshot, job>>
allVars == <<vars, deletionVars>>

NoRequest == [pc |-> "idle", active |-> None, latest |-> None, workspace |-> None,
              machine |-> FALSE, sources |-> {}, replaced |-> {}, at |-> None, of |-> None]

\* active, latest, workspace, machine: the copies; sources, replaced: the
\* markers found, as turns with the checkpoint; at, of: the one being worked on.
Request == [
  pc        : {"idle", "active", "turns", "claim", "clean", "finalized", "erased",
               "stop", "workspace", "delete", "release"},
  active    : {None} \cup Turns,
  latest    : {None} \cup Turns,
  workspace : {None} \cup Turns,
  machine   : BOOLEAN,
  sources   : SUBSET (Turns \X Turns),
  replaced  : SUBSET (Turns \X Turns),
  at        : {None} \cup Turns,
  of        : {None} \cup Turns]

\* The request holds copies of rows, and everything else has its type.
DeletionTypeOK == TypeOK /\ request \in Request /\ deleted \in BOOLEAN

DeletionInit == Init /\ request = NoRequest /\ deleted = FALSE

LatestTurn ==
  LET made == {t \in Turns : run[t].status # "absent"}
  IN  IF made = {} THEN None ELSE CHOOSE t \in made : \A u \in made : u <= t

Proceed(pc) == request' = [request EXCEPT !.pc = pc]

-----------------------------------------------------------------------------
(* What the request reads. *)

ReadSessionRow ==
  /\ request.pc = "idle" /\ ~deleted /\ LatestTurn # None
  /\ request' = [NoRequest EXCEPT
       !.pc = "active", !.active = session.active, !.latest = LatestTurn,
       !.workspace = session.workspace]
  /\ UNCHANGED <<parkingVars, faults, deleted>>

\* The active turn must have ended.
ReadActive ==
  LET t == request.active IN
  /\ request.pc = "active"
  /\ request' =
       IF t = None THEN [request EXCEPT !.pc = "turns"]
       ELSE IF Ended(t) THEN [request EXCEPT
              !.pc = "turns", !.machine = run[t].attached /\ ~run[t].stopped]
       ELSE NoRequest
  /\ UNCHANGED <<parkingVars, faults, deleted>>

ToFinalize == {<<t, run[t].finalize>> : t \in {t \in Turns :
  Ended(t) /\ run[t].attached /\ run[t].stopped /\ run[t].finalize # None}}
ToErase == {<<t, run[t].replaced>> : t \in {t \in Turns : Ended(t) /\ run[t].replaced # None}}

\* Mutated: only the active turn is asked whether it has ended.
ReadActiveOnly ==
  /\ request.pc = "turns"
  /\ request' = [request EXCEPT !.pc = "claim", !.sources = ToFinalize, !.replaced = ToErase]
  /\ UNCHANGED <<parkingVars, faults, deleted>>

\* So must every other turn; then the markers are read.
ReadTurns ==
  /\ request.pc = "turns"
  /\ request' =
       IF \E t \in Turns \ {request.active} : run[t].status = "queued" \/ InFlight(t)
       THEN NoRequest
       ELSE [request EXCEPT !.pc = "claim", !.sources = ToFinalize, !.replaced = ToErase]
  /\ UNCHANGED <<parkingVars, faults, deleted>>

\* Mutated: a turn that was queued meanwhile is not noticed.
SameActiveTurn == session.active = request.active

\* Mutated: a session that was parked meanwhile is taken for the one read.
SameLatestTurn == LatestTurn = request.latest

\* The guards of claimSessionOperation and deleteSession.
SameTurns == session.active = request.active /\ LatestTurn = request.latest

ClaimDeletion ==
  /\ request.pc = "claim"
  /\ IF SameTurns /\ MayClaim("archiving")
     THEN /\ session' = Claimed(session, "archiving", "user")
          /\ Proceed(IF request.sources \cup request.replaced = {} THEN "stop" ELSE "clean")
     ELSE request' = NoRequest /\ UNCHANGED session
  /\ UNCHANGED <<run, worker, source, snapshot, job, faults, deleted>>

-----------------------------------------------------------------------------
(* What it removes.  A provider call that fails releases the session. *)

FinalizePending ==
  /\ request.pc = "clean"
  /\ \E p \in request.sources :
       /\ source' = [source EXCEPT ![p[1]] = "gone"]
       /\ request' = [request EXCEPT
            !.pc = "finalized", !.at = p[1], !.of = p[2], !.sources = @ \ {p}]
  /\ UNCHANGED <<session, run, worker, snapshot, job, faults, deleted>>

MarkPendingFinalized ==
  /\ request.pc = "finalized"
  /\ run' = [run EXCEPT ![request.at].finalize = IF @ = request.of THEN None ELSE @]
  /\ Proceed("clean")
  /\ UNCHANGED <<session, worker, source, snapshot, job, faults, deleted>>

ErasePending ==
  /\ request.pc = "clean" /\ request.sources = {}
  /\ \E p \in request.replaced :
       /\ snapshot' = [snapshot EXCEPT ![p[2]] = "none"]
       /\ request' = [request EXCEPT
            !.pc = "erased", !.at = p[1], !.of = p[2], !.replaced = @ \ {p}]
  /\ UNCHANGED <<session, run, worker, source, job, faults, deleted>>

MarkPendingErased ==
  /\ request.pc = "erased"
  /\ run' = [run EXCEPT ![request.at].replaced = IF @ = request.of THEN None ELSE @]
  /\ Proceed("clean")
  /\ UNCHANGED <<session, worker, source, snapshot, job, faults, deleted>>

\* Until nothing is marked any more.
FindAgain ==
  /\ request.pc = "clean" /\ request.sources \cup request.replaced = {}
  /\ request' = IF ToFinalize \cup ToErase = {} THEN [request EXCEPT !.pc = "stop"]
                ELSE [request EXCEPT !.sources = ToFinalize, !.replaced = ToErase]
  /\ UNCHANGED <<parkingVars, faults, deleted>>

StopMachine ==
  /\ request.pc = "stop"
  /\ source' = IF request.machine THEN [source EXCEPT ![request.active] = "gone"] ELSE source
  /\ Proceed("workspace")
  /\ UNCHANGED <<session, run, worker, snapshot, job, faults, deleted>>

EraseWorkspace ==
  /\ request.pc = "workspace"
  /\ snapshot' = IF request.workspace = None THEN snapshot
                 ELSE [snapshot EXCEPT ![request.workspace] = "none"]
  /\ Proceed("delete")
  /\ UNCHANGED <<session, run, worker, source, job, faults, deleted>>

RemovalFails ==
  /\ request.pc \in {"clean", "stop", "workspace"}
  /\ Proceed("release")
  /\ UNCHANGED <<parkingVars, faults, deleted>>

OwnsDeletion == session.op = "archiving" /\ session.holder = "user"

ReleaseDeletion ==
  /\ request.pc = "release"
  /\ session' = IF OwnsDeletion THEN Released(session) ELSE session
  /\ request' = NoRequest
  /\ UNCHANGED <<run, worker, source, snapshot, job, faults, deleted>>

\* What a query finds of a row that is gone: nothing to do, nothing to change.
GoneRun == [status |-> "ended", attached |-> FALSE, stopped |-> TRUE,
            finalize |-> None, replaced |-> None]

DeleteRow ==
  /\ request.pc = "delete"
  /\ IF SameTurns /\ OwnsDeletion
     THEN /\ deleted' = TRUE
          /\ session' = [Released(session) EXCEPT
                           !.active = None, !.workspace = None, !.expiry = "none"]
          /\ run' = [t \in Turns |-> GoneRun]
          /\ request' = NoRequest
     ELSE /\ Proceed("release")
          /\ UNCHANGED <<session, run, deleted>>
  /\ UNCHANGED <<worker, source, snapshot, job, faults>>

-----------------------------------------------------------------------------
(* The claim goes stale as that of a reconciler does. *)

Deleting == OwnsDeletion /\
  request.pc \in {"clean", "finalized", "erased", "stop", "workspace", "delete", "release"}

RequestGone ==
  /\ session.op = "archiving" /\ session.beat = "fresh" /\ ~Deleting
  /\ session' = [session EXCEPT !.beat = "stale"]
  /\ UNCHANGED <<run, worker, source, snapshot, job, faults, deletionVars>>

RequestPaused ==
  /\ session.op = "archiving" /\ session.beat = "fresh" /\ Deleting
  /\ Fault("pause")
  /\ session' = [session EXCEPT !.beat = "stale"]
  /\ UNCHANGED <<run, worker, source, snapshot, job, deletionVars>>

RequestBeatResumes ==
  /\ Deleting /\ session.beat = "stale"
  /\ session' = [session EXCEPT !.beat = "fresh"]
  /\ UNCHANGED <<run, worker, source, snapshot, job, faults, deletionVars>>

RequestDies ==
  /\ request.pc # "idle"
  /\ Fault("crash")
  /\ request' = NoRequest
  /\ UNCHANGED <<parkingVars, deleted>>

\* A reconciler that wants to mark its checkpoint after the deletion finds no
\* row to mark (cleanupUnownedWorkspace, cleanupUncommittedWorkspace).
MarkNothing(c) ==
  /\ deleted
  /\ \/ At(c, "unowned") /\ Go(c, "release")
     \/ At(c, "uncommitted") /\ Go(c, "discard")
  /\ UNCHANGED <<session, run, worker, source, snapshot, faults, deletionVars>>

Parking ==
  /\ Next
  /\ deleted => run' = run
  /\ UNCHANGED deletionVars

DeletionStep ==
  \/ ReadSessionRow \/ ReadActive \/ ReadTurns \/ ClaimDeletion
  \/ FinalizePending \/ MarkPendingFinalized \/ ErasePending \/ MarkPendingErased
  \/ FindAgain \/ StopMachine \/ EraseWorkspace \/ DeleteRow
  \/ RemovalFails \/ ReleaseDeletion \/ RequestDies
  \/ RequestGone \/ RequestPaused \/ RequestBeatResumes

DeletionNext == Parking \/ DeletionStep \/ \E c \in Reconcilers : MarkNothing(c)

DeletionSpec == DeletionInit /\ [][DeletionNext]_allVars

-----------------------------------------------------------------------------
\* A session is not deleted under a turn: neither one in flight nor one that
\* was queued while the request was at work (deleteSession's expectedLatestRunId:
\* "Prevent an archive from deleting a turn queued after its initial read").
DeletionSparesTurns ==
  [][~deleted /\ deleted' => \A t \in Turns : run[t].status \in {"absent", "ended"}]_allVars

\* With the row goes every machine of the session, whatever its state, and no
\* worker or reconciler that is still at work brings one back
\* (cleanupSessionSandbox, stopAfterLostOwnership, attachSandbox).
NoMachineOutlivesSession ==
  deleted => \A t \in Turns : source[t] \in {"none", "gone"}

\* When the row goes, the checkpoint that the session names is gone: the one
\* that was read before the claim is still the one (the guards of
\* claimSessionOperation and deleteSession, cleanupSessionSandbox).
SessionCheckpointGoes ==
  [][~deleted /\ deleted' /\ session.workspace # None
       => snapshot[session.workspace] = "none"]_allVars
=============================================================================
