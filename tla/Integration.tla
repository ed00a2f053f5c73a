---------------------------- MODULE Integration ----------------------------
(***************************************************************************)
(* From a GitHub delivery to the review or reply on GitHub: the inbox      *)
(* queues runs, the runs publish, and the deletion of a session takes both *)
(* kinds of rows.                                                          *)
(***************************************************************************)
EXTENDS DeliveryInbox

CONSTANT MaxSubmissions   \* bound: requests the runtimes send

ASSUME SubmissionsAssumption == MaxSubmissions \in Nat

VARIABLES publication, posts, request, agent, verdict

P == INSTANCE Publication WITH Runs <- Deliveries

publicationVars == <<publication, posts, request, agent, verdict>>

vars == <<inboxVars, publicationVars>>

TypeOK == InboxTypeOK /\ P!PublicationTypeOK

Init == InboxInit /\ P!PublicationInit

Inbox == InboxNext /\ UNCHANGED publicationVars

Publishing ==
  /\ P!PublicationNext
  /\ UNCHANGED <<about, asking, delivery, worker, thread, made>>

Deleting ==
  \E p \in PullRequests :
    /\ DeleteSession(p)
    /\ P!Cascade(RunsOf(p))

Next == Inbox \/ Publishing \/ Deleting

Still == UNCHANGED publicationVars

(***************************************************************************)
(* The loop polls for ever, time passes, and an operation on a session     *)
(* comes to an end.  Controllers take turns, and one may be always ahead   *)
(* of another, hence strong fairness for the claim.                        *)
(***************************************************************************)
Fairness ==
  /\ SF_vars(\E c \in Controllers : ClaimDelivery(c) /\ Still)
  /\ \A c \in Controllers : WF_vars(WorkerStep(c) /\ Still)
  /\ \A d \in Deliveries : WF_vars(LeaseExpires(d) /\ Still)
                           /\ WF_vars(RetryDue(d) /\ Still)

Spec == Init /\ [][Next]_vars /\ Fairness

-----------------------------------------------------------------------------
(* Properties *)

\* However often a delivery is claimed, by however many controllers at a time,
\* it queues one run.
OneRunPerDelivery == \A d \in Deliveries : made[d] <= 1

\* The runs of one pull request are turns of one session, which is the one
\* the pull request is bound to, although first deliveries may race.
OneSessionPerPullRequest ==
  \A d \in Deliveries :
    Taken(d) => run[d].session = thread[about[d]].session

\* GitHub gets one review or reply of a run, whatever is repeated, lost or
\* taken over.
OnePost == \A d \in Deliveries : posts[d] <= 1

\* The whole keeps the promise.
turn == [d \in Deliveries |->
  CASE delivery[d].status = "absent" -> "none"
    [] Taken(d) /\ run[d].status \in Live -> "open"
    [] Taken(d) /\ run[d].status \in Terminal -> run[d].status
    [] ~Taken(d) /\ made[d] > 0 -> "gone"
    [] OTHER -> "asked"]

shown == [d \in Deliveries |->
  IF publication[d].status = "none" THEN "nothing" ELSE publication[d].status]

Promise == INSTANCE IntegrationPromise
             WITH posted <- [d \in Deliveries |-> posts[d] > 0]

ImplementsPromise == Promise!Spec

\* A recorded delivery is decided: processed, ignored, or given up after
\* MAX_DELIVERY_ATTEMPTS.
DeliveryIsSettled ==
  \A d \in Deliveries : delivery[d].status = "pending" ~> Settled(d)
=============================================================================
