------------------------ MODULE ObservabilityExport ------------------------
(***************************************************************************)
(* The delivery of one run's trace to the OTLP destination.                *)
(*                                                                         *)
(* A row per run and destination is written when the runtime reports its   *)
(* end, or found missing later.  Every controller claims rows, projects    *)
(* the run and its events to spans, sends the batch and marks the rows.    *)
(* The batch of a drain holds one run here, or the same run twice when its *)
(* lease runs out in between.  A drain that finds nothing to do is left    *)
(* out.                                                                    *)
(***************************************************************************)
EXTENDS Naturals, Sequences

CONSTANTS
  Exporters,            \* controllers
  MAX_EXPORT_ATTEMPTS,
  FaultKinds,
  MaxFaults

VARIABLES
  status,      \* of the run
  log,         \* its events
  enabled,     \* there is a destination
  enqueue,     \* a call of enqueue is under way
  export,      \* its row
  exporter,    \* exporter[c]: the drain of a controller
  sent,        \* events in the longest trace the destination accepted
  faults

Terminal == {"succeeded", "failed"}

ExportRow == [status  : {"none", "pending", "processing", "exported", "failed"},
              attempt : Nat,
              old     : BOOLEAN]   \* CLAIM_LEASE_MS have passed

NoExport == [status |-> "none", attempt |-> 0, old |-> FALSE]
NewExport == [NoExport EXCEPT !.status = "pending"]

\* The attempts of the claimed copies of the row, and the events projected.
DrainState == [pc : {"idle", "claim", "read", "send", "mark", "undo"},
          claim : Nat, batch : Seq(Nat \ {0}), upto : Nat]

Idle == [pc |-> "idle", claim |-> 0, batch |-> << >>, upto |-> 0]

ExportTypeOK ==
  /\ {enabled, enqueue} \subseteq BOOLEAN
  /\ export \in ExportRow
  /\ exporter \in [Exporters -> DrainState]
  /\ sent \in Nat

ExportInit ==
  /\ enqueue = FALSE
  /\ export = NoExport
  /\ exporter = [c \in Exporters |-> Idle]
  /\ sent = 0

Fault(kind) ==
  /\ kind \in FaultKinds
  /\ faults < MaxFaults
  /\ faults' = faults + 1

-----------------------------------------------------------------------------

\* insert ... onConflictDoNothing, for a run that is still there.
Seeded == IF export.status = "none" /\ status # "gone" THEN NewExport ELSE export

\* enqueueExport, which nobody waits for.
EnqueueExport ==
  /\ enqueue
  /\ enqueue' = FALSE
  /\ export' = Seeded
  /\ UNCHANGED <<status, log, enabled, exporter, sent, faults>>

EnqueueIsLost ==
  /\ enqueue
  /\ enqueue' = FALSE
  /\ Fault("error")
  /\ UNCHANGED <<status, log, enabled, export, exporter, sent>>

\* Mutated: a claim is for ever.
ClaimableOnce == export.status = "pending"

Claimable == \/ export.status = "pending"
             \/ export.status = "processing" /\ export.old

\* Mutated: seeded for every run.
EnsureForEvery(c) ==
  /\ enabled
  /\ exporter[c].pc = "idle"
  /\ Claimable \/ (export.status = "none" /\ status # "gone")
  /\ export' = Seeded
  /\ exporter' = [exporter EXCEPT ![c].pc = "claim"]
  /\ UNCHANGED <<status, log, enabled, enqueue, sent, faults>>

\* ensurePendingExports begins a drain: a row for a run that is over and has
\* none.
EnsurePending(c) ==
  /\ enabled
  /\ exporter[c].pc = "idle"
  /\ Claimable \/ (export.status = "none" /\ status \in Terminal)
  /\ export' = IF status \in Terminal THEN Seeded ELSE export
  /\ exporter' = [exporter EXCEPT ![c].pc = "claim"]
  /\ UNCHANGED <<status, log, enabled, enqueue, sent, faults>>

\* claimExport: the row of whoever died with it is claimed again.
ClaimExport(c) ==
  /\ exporter[c].pc = "claim" /\ Claimable
  /\ export' = [status |-> "processing", attempt |-> export.attempt + 1,
                old |-> FALSE]
  /\ exporter' = [exporter EXCEPT ![c].pc = "read", ![c].claim = export.attempt + 1]
  /\ UNCHANGED <<status, log, enabled, enqueue, sent, faults>>

NothingToClaim(c) ==
  /\ exporter[c].pc = "claim" /\ ~Claimable
  /\ exporter' = IF exporter[c].batch = << >>
                 THEN [exporter EXCEPT ![c] = Idle]
                 ELSE [exporter EXCEPT ![c].pc = "send"]
  /\ UNCHANGED <<status, log, enabled, enqueue, export, sent, faults>>

\* updateProcessingExport: whoever claimed the row, while it is processing.
Updated(to) == IF export.status = "processing"
               THEN [export EXCEPT !.status = to, !.old = FALSE]
               ELSE export

\* retryExport counts by the copy of the row that was claimed.
Retried(attempt) ==
  Updated(IF attempt >= MAX_EXPORT_ATTEMPTS THEN "failed" ELSE "pending")

\* getRun, listEvents and the projection.
ReadLog(c) ==
  /\ exporter[c].pc = "read" /\ status # "gone"
  /\ exporter' = [exporter EXCEPT
       ![c] = [pc |-> "claim", claim |-> 0, upto |-> Len(log),
               batch |-> Append(exporter[c].batch, exporter[c].claim)]]
  /\ UNCHANGED <<status, log, enabled, enqueue, export, sent, faults>>

\* The run is gone, or the reading fails: on with the next claim.
ReadFails(c) ==
  /\ exporter[c].pc = "read"
  /\ IF status = "gone" THEN UNCHANGED faults ELSE Fault("error")
  /\ export' = Retried(exporter[c].claim)
  /\ exporter' = [exporter EXCEPT ![c].pc = "claim", ![c].claim = 0]
  /\ UNCHANGED <<status, log, enabled, enqueue, sent>>

\* exportWithRetry: the destination accepts, and this is heard or not.
SendTrace(c) ==
  /\ exporter[c].pc = "send"
  /\ sent' = IF exporter[c].upto > sent THEN exporter[c].upto ELSE sent
  /\ \E next \in {"mark", "undo"} : exporter' = [exporter EXCEPT ![c].pc = next]
  /\ UNCHANGED <<status, log, enabled, enqueue, export, faults>>

SendFails(c) ==
  /\ exporter[c].pc = "send"
  /\ exporter' = [exporter EXCEPT ![c].pc = "undo"]
  /\ UNCHANGED <<status, log, enabled, enqueue, export, sent, faults>>

MarkExported(c) ==
  /\ exporter[c].pc = "mark"
  /\ export' = Updated("exported")
  /\ exporter' = [exporter EXCEPT ![c] = Idle]
  /\ UNCHANGED <<status, log, enabled, enqueue, sent, faults>>

MarkFails(c) ==
  /\ exporter[c].pc = "mark"
  /\ exporter' = [exporter EXCEPT ![c].pc = "undo"]
  /\ Fault("error")
  /\ UNCHANGED <<status, log, enabled, enqueue, export, sent>>

\* The copies of a batch are given back at once; the first one counts.
GiveBack(c) ==
  /\ exporter[c].pc = "undo"
  /\ \E i \in 1 .. Len(exporter[c].batch) : export' = Retried(exporter[c].batch[i])
  /\ exporter' = [exporter EXCEPT ![c] = Idle]
  /\ UNCHANGED <<status, log, enabled, enqueue, sent, faults>>

\* A statement of the drain fails that nothing makes up for: the claim of the
\* next row, with which those in the batch are forgotten, or the giving back.
DrainFails(c) ==
  /\ exporter[c].pc \in {"claim", "undo"}
  /\ exporter' = [exporter EXCEPT ![c] = Idle]
  /\ Fault("error")
  /\ UNCHANGED <<status, log, enabled, enqueue, export, sent>>

ControllerDies(c) ==
  /\ exporter[c].pc # "idle"
  /\ exporter' = [exporter EXCEPT ![c] = Idle]
  /\ Fault("crash")
  /\ UNCHANGED <<status, log, enabled, enqueue, export, sent>>

Holds(c) ==
  \/ exporter[c].claim = export.attempt
  \/ \E i \in 1 .. Len(exporter[c].batch) : exporter[c].batch[i] = export.attempt

\* CLAIM_LEASE_MS pass; with a live holder this takes a pause.
LeaseExpires ==
  /\ export.status = "processing" /\ ~export.old
  /\ export' = [export EXCEPT !.old = TRUE]
  /\ IF \E c \in Exporters : Holds(c) THEN Fault("pause") ELSE UNCHANGED faults
  /\ UNCHANGED <<status, log, enabled, enqueue, exporter, sent>>

\* The row of a deleted run goes with it.
Cascade ==
  /\ export' = NoExport
  /\ UNCHANGED <<enabled, enqueue, exporter, sent>>

Draining(c) ==
  \/ EnsurePending(c)
  \/ ClaimExport(c)
  \/ NothingToClaim(c)
  \/ ReadLog(c)
  \/ ReadFails(c)
  \/ SendTrace(c)
  \/ SendFails(c)
  \/ MarkExported(c)
  \/ GiveBack(c)

ExportNext ==
  \/ EnqueueExport
  \/ EnqueueIsLost
  \/ LeaseExpires
  \/ \E c \in Exporters :
       \/ Draining(c)
       \/ MarkFails(c)
       \/ DrainFails(c)
       \/ ControllerDies(c)
=============================================================================
