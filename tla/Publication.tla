---------------------------- MODULE Publication ----------------------------
(***************************************************************************)
(* The one review or reply a run publishes on GitHub.                      *)
(*                                                                         *)
(* The agent asks the controller to publish; a request that is not         *)
(* answered in time is repeated while its handler may still be at work.    *)
(* A row per run, inserted before the call to GitHub, decides which        *)
(* request makes the call.  What becomes of the call when its answer is    *)
(* lost is unknown, and it is never repeated.  When the agent reports that *)
(* it is done, the run succeeds only if the row says "published".          *)
(*                                                                         *)
(* Reviews and comments have a table and a handler each that differ in     *)
(* nothing that is modelled.                                               *)
(***************************************************************************)
EXTENDS Naturals, FiniteSetsExt

CONSTANTS
  Runs,
  MaxSubmissions,   \* bound: requests the runtimes send, all runs together
  FaultKinds,
  MaxFaults

VARIABLES
  run,           \* run[r]: its row
  publication,   \* publication[r]: its publication row
  posts,         \* posts[r]: reviews or replies of r that GitHub has
  request,       \* request[r][k]: where the handler of the k-th request stands
  agent,         \* agent[r]: the runtime's side
  verdict,       \* verdict[r]: what the handler of the status report decided
  faults

Submissions == 1 .. MaxSubmissions

\* "published", "failed" and "uncertain" in a request are what its handler is
\* about to record.
RequestState == {"none", "received", "admitted", "claimed", "published",
                 "failed", "uncertain", "answered"}

PublicationRow == [
  status : {"none", "processing", "published", "failed", "uncertain"},
  old    : BOOLEAN]   \* the lease ran out

NoPublication == [status |-> "none", old |-> FALSE]

PublicationTypeOK ==
  /\ publication \in [Runs -> PublicationRow]
  /\ posts \in [Runs -> Nat]
  /\ request \in [Runs -> [Submissions -> RequestState]]
  /\ agent \in [Runs -> [sent : Nat, waiting : BOOLEAN, reported : BOOLEAN]]
  /\ verdict \in [Runs -> {"none", "succeeded", "failed"}]

PublicationInit ==
  /\ publication = [r \in Runs |-> NoPublication]
  /\ posts = [r \in Runs |-> 0]
  /\ request = [r \in Runs |-> [k \in Submissions |-> "none"]]
  /\ agent = [r \in Runs |-> [sent |-> 0, waiting |-> FALSE, reported |-> FALSE]]
  /\ verdict = [r \in Runs |-> "none"]

Fault(kind) ==
  /\ kind \in FaultKinds
  /\ faults < MaxFaults
  /\ faults' = faults + 1

-----------------------------------------------------------------------------
(* The run, as far as it matters here. *)

StartRun(r) ==
  /\ run[r].status = "queued"
  /\ run' = [run EXCEPT ![r].status = "running"]
  /\ UNCHANGED <<publication, posts, request, agent, verdict, faults>>

\* Cancelled, silent, past its deadline or never provisioned.
EndRun(r) ==
  /\ run[r].status \in {"queued", "running"}
  /\ run' = [run EXCEPT ![r].status = "failed"]
  /\ UNCHANGED <<publication, posts, request, agent, verdict, faults>>

-----------------------------------------------------------------------------
(* The runtime. *)

SentAltogether == MapThenSumSet(LAMBDA r : agent[r].sent, Runs)

\* The tool is called, or a request is repeated.
Submit(r) ==
  /\ run[r].status = "running"
  /\ ~agent[r].waiting /\ ~agent[r].reported
  /\ SentAltogether < MaxSubmissions
  /\ agent' = [agent EXCEPT ![r].sent = @ + 1, ![r].waiting = TRUE]
  /\ request' = [request EXCEPT ![r][agent[r].sent + 1] = "received"]
  /\ UNCHANGED <<run, publication, posts, verdict, faults>>

\* No answer within PUBLICATION_TIMEOUT_MS.
TimesOut(r) ==
  /\ agent[r].waiting
  /\ agent' = [agent EXCEPT ![r].waiting = FALSE]
  /\ UNCHANGED <<run, publication, posts, request, verdict, faults>>

\* The handler of request k answers, and the runtime hears it if it still waits.
Answered(r, k) ==
  /\ request' = [request EXCEPT ![r][k] = "answered"]
  /\ agent' = [agent EXCEPT ![r].waiting = @ /\ agent[r].sent # k]

-----------------------------------------------------------------------------
(* The handler of a request. *)

\* The run is read once, here; it may end while the handler goes on.
Admit(r, k) ==
  /\ request[r][k] = "received"
  /\ IF run[r].status = "running"
     THEN request' = [request EXCEPT ![r][k] = "admitted"] /\ UNCHANGED agent
     ELSE Answered(r, k)
  /\ UNCHANGED <<run, publication, posts, verdict, faults>>

\* Mutated: a claim whose lease ran out is taken over.
BeginTakingOver(r, k) ==
  /\ request[r][k] = "admitted"
  /\ IF \/ run[r].status # "none" /\ publication[r].status = "none"
        \/ publication[r].old
     THEN /\ publication' = [publication EXCEPT ![r] =
               [status |-> "processing", old |-> FALSE]]
          /\ request' = [request EXCEPT ![r][k] = "claimed"]
          /\ UNCHANGED agent
     ELSE Answered(r, k) /\ UNCHANGED publication
  /\ UNCHANGED <<run, posts, verdict, faults>>

\* beginGithubPublication: whoever inserts the row publishes.  A row whose
\* lease ran out becomes uncertain.  The row of a deleted run is not inserted.
Begin(r, k) ==
  /\ request[r][k] = "admitted"
  /\ IF run[r].status # "none" /\ publication[r].status = "none"
     THEN /\ publication' = [publication EXCEPT ![r].status = "processing"]
          /\ request' = [request EXCEPT ![r][k] = "claimed"]
          /\ UNCHANGED agent
     ELSE /\ publication' = IF publication[r].old
                            THEN [publication EXCEPT ![r].status = "uncertain",
                                                     ![r].old = FALSE]
                            ELSE publication
          /\ Answered(r, k)
  /\ UNCHANGED <<run, posts, verdict, faults>>

\* No installation token.
TokenMissing(r, k) ==
  /\ request[r][k] = "claimed"
  /\ request' = [request EXCEPT ![r][k] = "failed"]
  /\ UNCHANGED <<run, publication, posts, agent, verdict, faults>>

\* GitHub accepts, and its answer arrives or not.
Publish(r, k) ==
  /\ request[r][k] = "claimed"
  /\ posts' = [posts EXCEPT ![r] = @ + 1]
  /\ \E heard \in {"published", "uncertain"} :
       request' = [request EXCEPT ![r][k] = heard]
  /\ UNCHANGED <<run, publication, agent, verdict, faults>>

\* GitHub refuses, or is not reached.
Refused(r, k) ==
  /\ request[r][k] = "claimed"
  /\ request' = [request EXCEPT ![r][k] = "uncertain"]
  /\ UNCHANGED <<run, publication, posts, agent, verdict, faults>>

\* Mutated: recorded whatever the row says.
RecordOver(r, k) ==
  /\ request[r][k] \in {"published", "failed", "uncertain"}
  /\ publication' = [publication EXCEPT ![r] =
                       [status |-> request[r][k], old |-> FALSE]]
  /\ Answered(r, k)
  /\ UNCHANGED <<run, posts, verdict, faults>>

\* finishGithub...Publication: only a row that is still processing.
Record(r, k) ==
  /\ request[r][k] \in {"published", "failed", "uncertain"}
  /\ publication' = IF publication[r].status = "processing"
                    THEN [publication EXCEPT ![r] =
                            [status |-> request[r][k], old |-> FALSE]]
                    ELSE publication
  /\ Answered(r, k)
  /\ UNCHANGED <<run, posts, verdict, faults>>

\* Recording the success fails, which the catch takes for a failed call.
RecordThrows(r, k) ==
  /\ request[r][k] = "published"
  /\ request' = [request EXCEPT ![r][k] = "uncertain"]
  /\ Fault("error")
  /\ UNCHANGED <<run, publication, posts, agent, verdict>>

\* The controller goes, and the connection with it.
HandlerDies(r, k) ==
  /\ request[r][k] \notin {"none", "answered"}
  /\ Answered(r, k)
  /\ Fault("crash")
  /\ UNCHANGED <<run, publication, posts, verdict>>

Handling(r) ==
  \E k \in Submissions :
    request[r][k] \in {"claimed", "published", "failed", "uncertain"}

\* PUBLICATION_LEASE_MS pass; with a live handler this takes a pause.
PublicationLeaseExpires(r) ==
  /\ publication[r].status = "processing" /\ ~publication[r].old
  /\ publication' = [publication EXCEPT ![r].old = TRUE]
  /\ IF Handling(r) THEN Fault("pause") ELSE UNCHANGED faults
  /\ UNCHANGED <<run, posts, request, agent, verdict>>

-----------------------------------------------------------------------------
(* The status report. *)

\* hasPublishedGithubReview, hasPublishedGithubComment
HasPublished(r) == publication[r].status = "published"

\* normalizeStatus: "done" without a publication is an error, and so is a turn
\* without a checkpoint of the conversation.
Report(r) ==
  /\ run[r].status = "running"
  /\ ~agent[r].waiting /\ ~agent[r].reported
  /\ agent' = [agent EXCEPT ![r].reported = TRUE]
  /\ \E done, checkpoint \in BOOLEAN :
       verdict' = [verdict EXCEPT ![r] =
         IF done /\ checkpoint /\ HasPublished(r)
         THEN "succeeded" ELSE "failed"]
  /\ UNCHANGED <<run, publication, posts, request, faults>>

\* completeRun: the first terminal status stays.
Complete(r) ==
  /\ verdict[r] # "none"
  /\ run' = [run EXCEPT ![r].status =
               IF @ \in {"queued", "running"} THEN verdict[r] ELSE @]
  /\ verdict' = [verdict EXCEPT ![r] = "none"]
  /\ UNCHANGED <<publication, posts, request, agent, faults>>

\* The rows of deleted runs go with them.
Cascade(deleted) ==
  /\ publication' = [r \in Runs |-> IF r \in deleted THEN NoPublication
                                                     ELSE publication[r]]
  /\ UNCHANGED <<posts, request, agent, verdict>>

PublicationNext ==
  \E r \in Runs :
    \/ StartRun(r)
    \/ EndRun(r)
    \/ Submit(r)
    \/ TimesOut(r)
    \/ Report(r)
    \/ Complete(r)
    \/ PublicationLeaseExpires(r)
    \/ \E k \in Submissions :
         \/ Admit(r, k)
         \/ Begin(r, k)
         \/ TokenMissing(r, k)
         \/ Publish(r, k)
         \/ Refused(r, k)
         \/ Record(r, k)
         \/ RecordThrows(r, k)
         \/ HandlerDies(r, k)
=============================================================================
