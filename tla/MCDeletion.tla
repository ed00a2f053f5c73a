----------------------------- MODULE MCDeletion -----------------------------
(* SessionDeletion for TLC. *)
EXTENDS SessionDeletion, FiniteSets, TLC

\* Reconcilers are alike.
Alike == Permutations(Reconcilers)

Busy == {c \in Reconcilers : job[c].pc # "idle"}

\* Bound: two reconcilers are at work at a time, or one and the request.
MCNext == DeletionNext /\ (request'.pc # "idle" => Cardinality(Busy') <= 1)

MCSpec == DeletionInit /\ [][MCNext]_allVars
=============================================================================
