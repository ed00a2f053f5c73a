-------------------------- MODULE OAuthConnections --------------------------
(***************************************************************************)
(* Connections to a forge or to a plugin's server: the OAuth flow that     *)
(* makes one, signing in with GitHub, and the refresh of an expiring token *)
(* by whoever needs it.                                                    *)
(*                                                                         *)
(* A flow begins with a row in oauth_states and its name in a cookie, goes *)
(* on at the provider and comes back as a callback.  Forges and plugins    *)
(* share the states; plugins also register their client at the provider.   *)
(* They differ in when the user is checked and in how a refreshed token is *)
(* stored.  One browser is modelled, which users share one after another.  *)
(*                                                                         *)
(* A token is the flow that granted it and how often its refresh token was *)
(* replaced.                                                               *)
(***************************************************************************)
EXTENDS Naturals, FiniteSets

CONSTANTS
  Users,          \* and their accounts at the provider, as they log in with them
  Nobody,
  Flows,          \* bound: the flows, 1 .. n in the order of their states
  Requests,       \* requests at work at a time
  Services,       \* bound: which services a behaviour may be about
  MaxVersion,     \* bound: refresh tokens of a grant
  MaxLosses       \* bound: requests that die

None == 0

ConnectionAssumption ==
  /\ Nobody \notin Users
  /\ Flows \subseteq Nat \ {None} /\ Requests \subseteq Nat \ {None}
  /\ Services \subseteq {"forge", "rotating forge", "plugin"}
  /\ MaxVersion \in Nat \ {0} /\ MaxLosses \in Nat

VARIABLES
  service,      \* which it is
  cookie,       \* the state cookies of the browser, one for each purpose
  state,        \* state[f]: its row, and what the provider knows of the flow
  client,       \* the row of plugin_oauth_clients, or the configured client
  connection,   \* connection[u]
  newest,       \* newest[f]: the refresh token of the grant the provider takes
  request,      \* request[q]: a request at work
  lost          \* grants whose newest token died with a request

connectionVars ==
  <<service, cookie, state, client, connection, newest, request, lost>>

Purposes == {"connect", "login"}
Plugin == service = "plugin"
Rotating == service # "forge"

State == [row : {"none", "open", "gone"}, purpose : Purposes, user : Users \cup {Nobody},
          client : Nat, account : Users \cup {Nobody}, exchanged : Nat]

\* refresh = None: there is no refresh token.
Connection == [id : Flows \cup {None}, grant : Flows \cup {None}, refresh : Nat]
NoConnection == [id |-> None, grant |-> None, refresh |-> None]

Request == [phase : {"idle", "client", "register", "issue", "consume", "exchange",
                     "save", "refresh", "write"},
            task : {"none", "begin", "callback", "resolve"}, purpose : Purposes,
            user : Users \cup {Nobody}, flow : Flows \cup {None}, client : Nat,
            snapshot : Connection, refresh : Nat]

Idle == [phase |-> "idle", task |-> "none", purpose |-> "connect", user |-> Nobody,
         flow |-> None, client |-> None, snapshot |-> NoConnection, refresh |-> None]

ConnectionTypeOK ==
  /\ service \in Services
  /\ cookie \in [Purposes -> Flows \cup {None}]
  /\ state \in [Flows -> State]
  /\ client \in Nat
  /\ connection \in [Users -> Connection]
  /\ newest \in [Flows -> 0 .. MaxVersion]
  /\ request \in [Requests -> Request]
  /\ lost \subseteq Flows

ConnectionInit ==
  /\ service \in Services
  /\ cookie = [p \in Purposes |-> None]
  /\ state = [f \in Flows |-> [row |-> "none", purpose |-> "connect", user |-> Nobody,
                               client |-> None, account |-> Nobody, exchanged |-> 0]]
  /\ client = IF Plugin THEN None ELSE 1
  /\ connection = [u \in Users |-> NoConnection]
  /\ newest = [f \in Flows |-> 0]
  /\ request = [q \in Requests |-> Idle]
  /\ lost = {}

-----------------------------------------------------------------------------
(* Requests. *)

Go(q, new) == request' = [request EXCEPT ![q] = new]

\* Thrown, refused or answered: whatever the request had in hand is gone.  The
\* answer to a callback deletes its cookie, which may be that of a later flow.
Finished(q) ==
  /\ Go(q, Idle)
  /\ cookie' = IF request[q].task = "callback"
               THEN [cookie EXCEPT ![request[q].purpose] = None] ELSE cookie

-----------------------------------------------------------------------------
(* The client: configured for a forge, registered at the provider by the   *)
(* first request for a plugin (ensureRegisteredClient).                    *)

AfterClient(q) ==
  CASE request[q].task = "begin" -> "issue"
    [] request[q].task = "callback" -> "exchange"
    [] request[q].task = "resolve" -> "refresh"

FindClient(q) ==
  /\ request[q].phase = "client"
  /\ Go(q, IF client = None THEN [request[q] EXCEPT !.phase = "register"]
           ELSE [request[q] EXCEPT !.phase = AfterClient(q), !.client = client])
  /\ UNCHANGED <<service, cookie, state, client, connection, newest, lost>>

\* Registered at the provider, inserted unless there is one, and read again.
RegisterClient(q) ==
  /\ request[q].phase = "register"
  /\ client' = IF client = None THEN q ELSE client
  /\ Go(q, [request[q] EXCEPT !.phase = AfterClient(q), !.client = client'])
  /\ UNCHANGED <<service, cookie, state, connection, newest, lost>>

-----------------------------------------------------------------------------
(* A flow. *)

\* Whose web session the browser has: users come and go between two requests.
Session(purpose) == IF purpose = "connect" THEN Users ELSE {Nobody}

Begin(q, purpose) ==
  /\ request[q] = Idle
  /\ purpose = "login" => ~Plugin
  /\ \E u \in Session(purpose) :
       Go(q, [Idle EXCEPT !.phase = "client", !.task = "begin", !.purpose = purpose, !.user = u])
  /\ UNCHANGED <<service, cookie, state, client, connection, newest, lost>>

\* The state is stored, and the redirect takes its name to the browser.
Issue(q) ==
  /\ request[q].phase = "issue"
  /\ \E f \in Flows :
       /\ state[f].row = "none" /\ \A g \in Flows : g < f => state[g].row # "none"
       /\ state' = [state EXCEPT ![f] = [@ EXCEPT !.row = "open", !.user = request[q].user,
            !.purpose = request[q].purpose, !.client = request[q].client]]
       /\ cookie' = [cookie EXCEPT ![request[q].purpose] = f]
  /\ Go(q, Idle)
  /\ UNCHANGED <<service, client, connection, newest, lost>>

\* Somebody agrees at the provider, with any account, and the browser is sent
\* back.  The cookie goes with the answer, so a reload may pass here twice.
Callback(q, f) ==
  LET purpose == state[f].purpose
  IN  /\ request[q] = Idle
      /\ state[f].row # "none"
      /\ cookie[purpose] = f
      /\ \E account \in IF state[f].account = Nobody THEN Users ELSE {state[f].account} :
           state' = [state EXCEPT ![f].account = account]
      /\ \E u \in Session(purpose) :
           Go(q, [Idle EXCEPT !.phase = "consume", !.task = "callback", !.flow = f,
                              !.purpose = purpose, !.user = u])
      /\ UNCHANGED <<service, cookie, client, connection, newest, lost>>

\* Without the cookie of the flow, or without a user.
CallbackRefused(purpose) ==
  /\ cookie[purpose] # None
  /\ cookie' = [cookie EXCEPT ![purpose] = None]
  /\ UNCHANGED <<service, state, client, connection, newest, request, lost>>

\* consumeOAuthState.  A plugin's flow is given up here if it is another user's.
Consume(q) ==
  LET f == request[q].flow
  IN  /\ request[q].phase = "consume"
      /\ state[f].row = "open"
      /\ state' = [state EXCEPT ![f].row = "gone"]
      /\ IF Plugin /\ state[f].user # request[q].user
         THEN Finished(q)
         ELSE Go(q, [request[q] EXCEPT !.phase = "client"]) /\ UNCHANGED cookie
      /\ UNCHANGED <<service, client, connection, newest, lost>>

Exchange(q) ==
  /\ request[q].phase = "exchange"
  /\ state' = [state EXCEPT ![request[q].flow].exchanged = @ + 1]
  /\ newest' = [newest EXCEPT ![request[q].flow] = 1]
  /\ Go(q, [request[q] EXCEPT !.phase = "save", !.refresh = 1])
  /\ UNCHANGED <<service, cookie, client, connection, lost>>

\* Mutated: whoever comes back with the state is the user.
AdmittedAnyone(q) == TRUE

\* A forge's flow is given up only now, after the exchange.
Admitted(q) == state[request[q].flow].user = request[q].user

\* upsertAppUser: whoever logs in is the user of the account.
Owner(q) ==
  IF request[q].purpose = "login" THEN state[request[q].flow].account ELSE request[q].user

Save(q) ==
  LET f == request[q].flow
      u == Owner(q)
      id == IF connection[u] = NoConnection THEN f ELSE connection[u].id
  IN  /\ request[q].phase = "save"
      /\ IF Admitted(q)
         THEN connection' = [connection EXCEPT
                ![u] = [id |-> id, grant |-> f, refresh |-> request[q].refresh]]
         ELSE UNCHANGED connection
      /\ Finished(q)
      /\ UNCHANGED <<service, state, client, newest, lost>>

\* DELETE of a forge, or the plugin is uninstalled.
Disconnect(u) ==
  /\ connection[u] # NoConnection
  /\ connection' = [connection EXCEPT ![u] = NoConnection]
  /\ UNCHANGED <<service, cookie, state, client, newest, request, lost>>

-----------------------------------------------------------------------------
(* A refresh, by a request or a run that finds the token expiring.  Nothing *)
(* keeps two of them apart.                                                 *)

Resolve(q, u) ==
  /\ request[q] = Idle
  /\ connection[u].refresh # None
  /\ Go(q, [Idle EXCEPT !.phase = "client", !.task = "resolve", !.user = u,
                        !.snapshot = connection[u]])
  /\ UNCHANGED <<service, cookie, state, client, connection, newest, lost>>

\* A provider that rotates sends a new refresh token and forgets the old one.
Refresh(q) ==
  LET f == request[q].snapshot.grant
  IN  /\ request[q].phase = "refresh"
      /\ request[q].snapshot.refresh = newest[f]
      /\ IF Rotating
         THEN /\ newest[f] < MaxVersion
              /\ newest' = [newest EXCEPT ![f] = @ + 1]
              /\ Go(q, [request[q] EXCEPT !.phase = "write", !.refresh = newest[f] + 1])
         ELSE Go(q, [request[q] EXCEPT !.phase = "write"]) /\ UNCHANGED newest
      /\ UNCHANGED <<service, cookie, state, client, connection, lost>>

\* Mutated: an answer without a refresh token clears the stored one.
TokensOfAnswer(q) == [request[q].snapshot EXCEPT !.refresh = request[q].refresh]

\* A forge that sends no refresh token keeps the one it had.
Tokens(q) ==
  [request[q].snapshot EXCEPT
     !.refresh = IF request[q].refresh # None \/ Plugin THEN request[q].refresh ELSE @]

\* By the id of the row for a forge, which a later connection does not have;
\* a plugin's row is inserted again if need be.
Write(q) ==
  LET u == request[q].user
  IN  /\ request[q].phase = "write"
      /\ connection' =
           IF Plugin \/ connection[u].id = request[q].snapshot.id
           THEN [connection EXCEPT ![u] = Tokens(q)] ELSE connection
      /\ Finished(q)
      /\ UNCHANGED <<service, state, client, newest, lost>>

-----------------------------------------------------------------------------
(* Failures. *)

\* The provider or the database does not answer or refuses: the state was taken
\* before or is older than STATE_TTL_MS, or somebody else refreshed the token.
Fails(q) ==
  /\ request[q].phase \notin {"idle", "write"}
  /\ Finished(q)
  /\ UNCHANGED <<service, state, client, connection, newest, lost>>

\* The controller dies, or the database fails, with the only copy of a token.
Dies(q) ==
  /\ request[q].phase = "write"
  /\ Cardinality(lost) < MaxLosses
  /\ lost' = lost \cup {request[q].snapshot.grant}
  /\ Finished(q)
  /\ UNCHANGED <<service, state, client, connection, newest>>

-----------------------------------------------------------------------------
RequestStep(q) ==
  \/ FindClient(q) \/ RegisterClient(q)
  \/ \E p \in Purposes : Begin(q, p)
  \/ Issue(q) \/ Consume(q) \/ Exchange(q) \/ Save(q) \/ Refresh(q) \/ Write(q)
  \/ Fails(q) \/ Dies(q)
  \/ \E f \in Flows : Callback(q, f)
  \/ \E u \in Users : Resolve(q, u)

ConnectionNext ==
  \/ \E q \in Requests : RequestStep(q)
  \/ \E p \in Purposes : CallbackRefused(p)
  \/ \E u \in Users : Disconnect(u)

=============================================================================
