------------------------- MODULE IntegrationPromise -------------------------
(***************************************************************************)
(* What a recorded delivery may lead to, without claims, workers, retries  *)
(* or requests: one run at most, one publication at most, a run that is    *)
(* called successful only when its publication is known to be on GitHub,   *)
(* and a statement about the publication that is never taken back.         *)
(***************************************************************************)
CONSTANT Deliveries

VARIABLES
  turn,    \* "none", "asked", "open", how it ended, or "gone" with its session
  posted,  \* GitHub has the review or reply
  shown    \* what the controller says of it

promise == <<turn, posted, shown>>

Ended == {"succeeded", "failed"}

Init ==
  /\ turn = [d \in Deliveries |-> "none"]
  /\ posted = [d \in Deliveries |-> FALSE]
  /\ shown = [d \in Deliveries |-> "nothing"]

Ask(d) ==
  /\ turn[d] = "none"
  /\ turn' = [turn EXCEPT ![d] = "asked"]
  /\ UNCHANGED <<posted, shown>>

Queue(d) ==
  /\ turn[d] = "asked"
  /\ turn' = [turn EXCEPT ![d] = "open"]
  /\ UNCHANGED <<posted, shown>>

\* Once.  The run may be over by then, and the controller may have given up
\* knowing, but it has not said that it failed.
Post(d) ==
  /\ turn[d] \notin {"none", "asked"}
  /\ ~posted[d] /\ shown[d] # "failed"
  /\ posted' = [posted EXCEPT ![d] = TRUE]
  /\ UNCHANGED <<turn, shown>>

\* "published" and "failed" are true statements.
Show(d, what) ==
  /\ turn[d] \in Ended \cup {"open"}
  /\ \/ shown[d] = "nothing" /\ what = "processing"
     \/ /\ shown[d] = "processing"
        /\ \/ what = "published" /\ posted[d]
           \/ what = "failed" /\ ~posted[d]
           \/ what = "uncertain"
  /\ shown' = [shown EXCEPT ![d] = what]
  /\ UNCHANGED <<turn, posted>>

End(d) ==
  /\ turn[d] = "open"
  /\ \/ turn' = [turn EXCEPT ![d] = "failed"]
     \/ /\ shown[d] = "published"
        /\ turn' = [turn EXCEPT ![d] = "succeeded"]
  /\ UNCHANGED <<posted, shown>>

\* A session is deleted with all its turns.
Forget(S) ==
  /\ \A d \in S : turn[d] \in Ended
  /\ turn' = [d \in Deliveries |-> IF d \in S THEN "gone" ELSE turn[d]]
  /\ shown' = [d \in Deliveries |-> IF d \in S THEN "nothing" ELSE shown[d]]
  /\ UNCHANGED posted

Next ==
  \/ \E d \in Deliveries :
       \/ Ask(d)
       \/ Queue(d)
       \/ Post(d)
       \/ End(d)
       \/ \E what \in {"processing", "published", "failed", "uncertain"} :
            Show(d, what)
  \/ \E S \in SUBSET Deliveries : Forget(S)

Spec == Init /\ [][Next]_promise
=============================================================================
