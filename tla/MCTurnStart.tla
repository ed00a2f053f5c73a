----------------------------- MODULE MCTurnStart -----------------------------
\* TurnStart for TLC: two controllers configured for different providers.
\* Two changes of the catalogue while one worker reads; one while two attempts
\* overtake each other; two turns whose attempts resolve images; and, with no
\* worker, two turns of a conversation.
EXTENDS TurnStart

MCConfigured == [w \in Workers |-> IF w = 1 THEN "e2b" ELSE "microsandbox"]

MCScopes ==
  {[about |-> "plugins", workers |-> {1}, changes |-> 2],
   [about |-> "plugins", workers |-> {1, 2}, changes |-> 1],
   [about |-> "image", workers |-> {1, 2}, changes |-> 1],
   [about |-> "plugins", workers |-> {}, changes |-> 0]}

\* Which version was seeded does not matter.
MCSymmetry == Permutations(Versions)
=============================================================================
