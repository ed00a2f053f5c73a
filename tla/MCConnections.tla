--------------------------- MODULE MCConnections ---------------------------
\* Connections for TLC.  Two runs share the connection of one sign-in, one run
\* goes on while a second sign-in replaces its connection, and dialogs follow
\* two sign-ins.
EXTENDS Connections, TLC

MCScopes ==
  {[flows |-> {1}, dialogs |-> {}, runs |-> Runs],
   [flows |-> {1, 2}, dialogs |-> {1, 2}, runs |-> {}],
   [flows |-> {}, dialogs |-> {}, runs |-> {}]}
  \cup {[flows |-> {1, 2}, dialogs |-> {}, runs |-> {r}] : r \in Runs}

\* Runs and users are interchangeable.
MCSymmetry == Permutations(Runs) \cup Permutations(Users)
=============================================================================
