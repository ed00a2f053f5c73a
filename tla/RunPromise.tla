----------------------------- MODULE RunPromise -----------------------------
(***************************************************************************)
(* What the controller promises about a run, without attempts, leases,     *)
(* workers or reconcilers: the agent's runtime is started at most once,    *)
(* the first terminal decision is final, and the machine is recorded as    *)
(* reclaimed only when nothing can run on it any more.                     *)
(***************************************************************************)
CONSTANT Runs

VARIABLES
  phase,      \* "absent", "waiting", "running", or how the run ended
  runtime,    \* "none" yet, "up", or "down" for good
  reclaimed   \* the machine is recorded as gone

promise == <<phase, runtime, reclaimed>>

Outcomes == {"succeeded", "failed", "cancelled"}

Init ==
  /\ phase = [r \in Runs |-> "absent"]
  /\ runtime = [r \in Runs |-> "none"]
  /\ reclaimed = [r \in Runs |-> FALSE]

Submit(r) ==
  /\ phase[r] = "absent"
  /\ phase' = [phase EXCEPT ![r] = "waiting"]
  /\ UNCHANGED <<runtime, reclaimed>>

\* The launch may lose a race with a cancellation, hence no condition on the
\* phase beyond the run's existence.
Launch(r) ==
  /\ phase[r] # "absent" /\ runtime[r] = "none" /\ ~reclaimed[r]
  /\ runtime' = [runtime EXCEPT ![r] = "up"]
  /\ UNCHANGED <<phase, reclaimed>>

\* The runtime ends, or its machine is lost before it was started.
Down(r) ==
  /\ phase[r] # "absent" /\ runtime[r] # "down"
  /\ runtime' = [runtime EXCEPT ![r] = "down"]
  /\ UNCHANGED <<phase, reclaimed>>

Running(r) ==
  /\ phase[r] = "waiting" /\ runtime[r] # "none"
  /\ phase' = [phase EXCEPT ![r] = "running"]
  /\ UNCHANGED <<runtime, reclaimed>>

\* The decision may come with the runtime's own exit.
Decide(r) ==
  /\ phase[r] \in {"waiting", "running"}
  /\ \E outcome \in Outcomes : phase' = [phase EXCEPT ![r] = outcome]
  /\ \/ UNCHANGED runtime
     \/ runtime[r] = "up" /\ runtime' = [runtime EXCEPT ![r] = "down"]
  /\ UNCHANGED reclaimed

Reclaim(r) ==
  /\ phase[r] \in Outcomes /\ runtime[r] = "down"
  /\ reclaimed' = [reclaimed EXCEPT ![r] = TRUE]
  /\ UNCHANGED <<phase, runtime>>

Next ==
  \E r \in Runs :
    \/ Submit(r) \/ Launch(r) \/ Down(r) \/ Running(r) \/ Decide(r)
    \/ Reclaim(r)

Spec == Init /\ [][Next]_promise
=============================================================================
