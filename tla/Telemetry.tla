----------------------------- MODULE Telemetry -----------------------------
(***************************************************************************)
(* From the runtime's report to whoever reads it: the event log, the       *)
(* browser that follows it and the export that sends it on when the run is *)
(* over.                                                                   *)
(***************************************************************************)
EXTENDS EventLog

CONSTANTS
  Readers,             \* bound: which of "browser" and "export" may read it at a time
  Exporters,
  MAX_EXPORT_ATTEMPTS

ASSUME ExportAssumption == MAX_EXPORT_ATTEMPTS \in Nat \ {0}

ASSUME ReadersAssumption == Readers \subseteq SUBSET {"browser", "export"}

VARIABLES enabled, enqueue, export, exporter, sent

E == INSTANCE ObservabilityExport

exportVars == <<enabled, enqueue, export, exporter, sent>>

vars == <<logVars, streamVars, faults, exportVars>>

TypeOK == LogTypeOK /\ E!ExportTypeOK

Init ==
  /\ LogInit /\ E!ExportInit
  /\ \E readers \in Readers :
       watched = ("browser" \in readers) /\ enabled = ("export" \in readers)

Following == LogNext /\ UNCHANGED exportVars

\* The handler of the report goes on without waiting for the export.
Completing ==
  /\ \E k \in Calls : CompleteRun(k)
  /\ enqueue' = enabled
  /\ UNCHANGED <<enabled, export, exporter, sent>>

Deleting == Delete /\ E!Cascade

Exporting == E!ExportNext /\ UNCHANGED <<reporter, call, cut, streamVars>>

Next == Following \/ Completing \/ Deleting \/ Exporting

ExportStep == E!LeaseExpires \/ \E c \in Exporters : E!Draining(c)

(***************************************************************************)
(* The browser reconnects and reads what comes, the handler of its stream  *)
(* keeps polling; time passes, and the drain of some controller goes on.   *)
(* Nothing is assumed of the runtime, nor that the run ends.               *)
(***************************************************************************)
Fairness ==
  /\ WF_vars(StreamStep /\ UNCHANGED exportVars)
  /\ WF_vars(ExportStep /\ UNCHANGED <<reporter, call, cut, streamVars>>)

Spec == Init /\ [][Next]_vars /\ Fairness

-----------------------------------------------------------------------------
(* Properties *)

\* However often the stream breaks, the browser shows every token, tool call
\* and log of the run up to the last one it has received, once and in order.
FeedIsLogPrefix ==
  status # "gone" =>
    LET shown == {i \in DOMAIN view.feed : view.feed[i].kind = "feed"}
    IN /\ {view.feed[i].seq : i \in shown} = {s \in 1 .. view.last : log[s].kind = "feed"}
       /\ \A i, j \in shown : i < j => view.feed[i].seq < view.feed[j].seq

\* A browser that was told the end has all that the runtime wrote before the
\* run was decided, unless its session was deleted meanwhile.
EndMeansComplete == view.closed = "end" /\ status # "gone" => view.last >= cut

\* An exported trace has all that as well, whoever of the exporters sent it.
ExportIsComplete == export.status = "exported" => sent >= cut

\* What the browser shows of the run is the log: no gap, and no early end.
BrowserSeesTheLog == FeedIsLogPrefix /\ EndMeansComplete

\* When the run is over the browser hears it, or that the run is gone.
ViewerReachesEnd == watched /\ status \in Terminal ~> view.closed # "no"

\* A finished run is exported or given up, or its session is deleted.
ExportIsDecided ==
  enabled /\ status \in Terminal ~>
    export.status \in {"exported", "failed"} \/ status = "gone"

\* Whoever reads the log comes to its end.
ReadersFinish == ViewerReachesEnd /\ ExportIsDecided
=============================================================================
