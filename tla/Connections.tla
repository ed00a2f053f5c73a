---------------------------- MODULE Connections ----------------------------
(***************************************************************************)
(* What users connect: model providers, forges and plugins.  The two parts *)
(* share the browser and the controller but no row, so that a behaviour    *)
(* may be about one of them.                                               *)
(***************************************************************************)
EXTENDS ModelCredentials

CONSTANTS Concerns,   \* bound: which of "model" and "service" it is about
          Users, Nobody, Requests, Services, MaxVersion, MaxLosses

VARIABLES concern, service, cookie, state, client, account, newest, request, died

A == INSTANCE OAuthConnections WITH connection <- account, lost <- died

ASSUME AccountAssumption ==
  /\ A!ConnectionAssumption
  /\ Concerns \subseteq {"model", "service"}

accountVars == <<service, cookie, state, client, account, newest, request, died>>

vars == <<concern, credentialVars, accountVars>>

TypeOK == CredentialTypeOK /\ A!ConnectionTypeOK

Init ==
  /\ CredentialInit /\ A!ConnectionInit
  /\ concern \in Concerns
  /\ concern = "model" => service = "forge"
  /\ concern = "service" => \A f \in Flows : flow[f].phase = "gone"

Model ==
  /\ concern = "model"
  /\ CredentialNext
  /\ UNCHANGED <<concern, accountVars>>

Service ==
  /\ concern = "service"
  /\ A!ConnectionNext
  /\ UNCHANGED <<concern, credentialVars>>

Next == Model \/ Service

Spec == Init /\ [][Next]_vars

-----------------------------------------------------------------------------
\* A connection was made by the user it belongs to: the one who began its flow
\* or, when the flow was a login, the one whose account agreed to it.  Users
\* may change in the browser between any two steps, and flows may overlap
\* (finishVcsConnection, finishGithubLogin, finishPluginOAuth).
ConnectionOwned == \A u \in Users : LET f == account[u].grant IN
  f # A!None =>
    IF state[f].purpose = "login" THEN state[f].account = u ELSE state[f].user = u

\* Codes and refresh tokens go to the provider with the client they were issued
\* to, however many requests register one (ensureRegisteredClient).
ClientsAgree == \A q \in Requests :
  /\ request[q].phase = "exchange" => request[q].client = state[request[q].flow].client
  /\ request[q].phase = "refresh" =>
       request[q].client = state[request[q].snapshot.grant].client

\* The provider takes the refresh token of a stored connection, or a request at
\* work has the newer one, or that request died.  Refreshes are not kept apart,
\* and may overlap with a new connection (getVcsAccessToken,
\* resolvePluginOAuthToken).
TokensAreNewest == \A u \in Users : LET f == account[u].grant IN
  f \notin died \cup {A!None} =>
    \/ account[u].refresh = newest[f]
    \/ \E q \in Requests : /\ request[q].phase = "write"
                           /\ request[q].snapshot.grant = f
                           /\ request[q].refresh = newest[f]

\* So a stored connection can be used and refreshed: with a token, and as a
\* client, that its provider knows.
ConnectionUsable == ClientsAgree /\ TokensAreNewest
=============================================================================
