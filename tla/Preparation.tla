----------------------------- MODULE Preparation -----------------------------
(***************************************************************************)
(* How an attempt prepares the machine of a turn (provisionRun): it reads  *)
(* which plugins attach, records them, mints credentials, reads the        *)
(* session and the user's image for the repository, resolves and pins the  *)
(* image, and has the provider start a machine, which it may attach only   *)
(* while its claim holds.                                                  *)
(*                                                                         *)
(* A worker here is the provisioning worker of one controller.  The        *)
(* controllers may be configured for different providers, and a claim may  *)
(* be lost at any moment, so that two attempts prepare the same turn.  The *)
(* claim itself is RunLifecycle's subject, parking is SessionParking's;    *)
(* both are reduced here to what they do to the rows read.                 *)
(***************************************************************************)
EXTENDS Marketplace

CONSTANTS
  Workers,
  Configured,    \* [Workers -> {"microsandbox", "e2b"}]: SANDBOX_PROVIDER
  LastTurn,      \* the session's turns are 1 .. LastTurn
  MAX_ATTEMPTS,
  MaxClaims,     \* bound: claims of one turn
  MaxBuilds,     \* bound: templates built
  Scopes         \* bound: what a behaviour is about, see ScopeAssumption

ASSUME PreparationAssumption ==
  /\ Configured \in [Workers -> {"microsandbox", "e2b"}]
  /\ {LastTurn, MAX_ATTEMPTS, MaxClaims, MaxBuilds} \subseteq Nat \ {0}

\* about: whether the plugins or the image may change; workers: who claims;
\* changes: how many changes.
ASSUME ScopeAssumption ==
  Scopes \subseteq [about : {"plugins", "image"}, workers : SUBSET Workers,
                   changes : 0 .. MaxChanges]

VARIABLES
  scope,
  session,      \* what the session row says of image, workspace and operation
  environment,  \* the user's row of repository_sandbox_images
  run,          \* the row of the turn that is active
  attempt,      \* attempt[w]: where worker w's provisionRun stands
  template,     \* template[b]: the e2b templates built from registry images
  pending,      \* pending[w]: the resolution controller w shares
  test,         \* the environment test under way
  machines,     \* every machine started for the session: what it runs where
  window        \* window[w]: what the catalogue said while w read it

vars == <<scope, marketplaceVars, changes, session, environment, run, attempt,
          template, pending, test, machines, window>>

Turns == 1 .. LastTurn
Claims == 0 .. MaxClaims
Builds == 1 .. MaxBuilds
Nothing == "none"

\* An image is the deployment's own, or the user's as it stands in the
\* registry (0) or built into a template.
NoImage == <<"none", 0>>
Default == <<"default", 0>>
Images == {Default} \cup {<<"own", b>> : b \in {0} \cup Builds}
Providers == {"microsandbox", "e2b"}

Phases == {"idle", "catalog", "settings", "rows", "variables", "record", "mint",
           "session", "resolve", "building", "pin", "start", "attach", "mark"}

NoAttempt ==
  [phase |-> "idle", turn |-> 0, attempt |-> 0, catalog |-> {}, modes |-> [n \in Names |-> Nothing],
   plugins |-> {}, image |-> NoImage, provider |-> Nothing,
   resume |-> FALSE]

Closed == [must |-> {}, may |-> {}]

TypeOK ==
  /\ MarketplaceTypeOK
  /\ session \in [workspace : Providers \cup {Nothing},
                  image : Images \cup {NoImage}, provider : Providers \cup {Nothing},
                  operation : BOOLEAN]
  /\ environment \in {"default", "own"}
  /\ run \in [turn : Turns, status : {"queued", "provisioning", "running", "ended", "parked"},
              attempt : Claims, source : {"user", "github"}, plugins : SUBSET Packages,
              machine : Providers \cup {Nothing}, given : SUBSET Packages,
              overtaken : BOOLEAN]
  /\ \A w \in Workers :
       /\ attempt[w].phase \in Phases
       /\ attempt[w].plugins \subseteq Packages
       /\ attempt[w].image \in Images \cup {NoImage}
       /\ attempt[w].provider \in Providers \cup {Nothing}
       /\ window[w].must \cup window[w].may \subseteq Packages
  /\ template \in [Builds -> {"none", "building", "ready", "deleted"}]
  /\ pending \in [Workers -> {0} \cup Builds]
  /\ test \in {0} \cup Builds
  /\ machines \subseteq [provider : Providers, image : Images]

Queued(turn, source) ==
  [turn |-> turn, status |-> "queued", attempt |-> 0, source |-> source,
   plugins |-> {}, machine |-> Nothing, given |-> {}, overtaken |-> FALSE]

\* When plugins are the concern, the session has been pinned before.  Where
\* the first turn came from makes no difference: there is nothing to resume.
Init ==
  /\ scope \in Scopes
  /\ MarketplaceInit
  /\ session = IF scope.about = "plugins"
       THEN [workspace |-> Nothing, image |-> Default, provider |-> "microsandbox",
             operation |-> FALSE]
       ELSE [workspace |-> Nothing, image |-> NoImage, provider |-> Nothing,
             operation |-> FALSE]
  /\ environment \in {"default", "own"}
  /\ scope.about = "plugins" => environment = "default"
  /\ run = Queued(1, "user")
  /\ attempt = [w \in Workers |-> NoAttempt]
  /\ template = [b \in Builds |-> "none"]
  /\ pending = [w \in Workers |-> 0]
  /\ test = 0
  /\ machines = {}
  /\ window = [w \in Workers |-> Closed]

imageVars == <<environment, template, pending, test>>

-----------------------------------------------------------------------------
(* What an attempt reads of the catalogue, and what it could have read. *)

Required == {p \in Approved : package[p].whole /\ mode[p[1]] = "required"}

Reading(w) == attempt[w].phase \in {"catalog", "settings", "rows"}

\* The catalogue changes while attempts read it: a package that stays required
\* must attach, one that is approved for a moment may.
Catalogue ==
  /\ scope.about = "plugins"
  /\ MarketplaceNext
  /\ changes' <= scope.changes
  /\ window' = [w \in Workers |->
       IF Reading(w) THEN [must |-> window[w].must \cap Required',
                           may |-> window[w].may \cup Approved']
                     ELSE window[w]]
  /\ UNCHANGED <<scope, session, imageVars, run, attempt, machines>>

ImageChange == scope.about = "image" /\ Change /\ changes' <= scope.changes

\* The user saves or deletes the image of the repository.
SaveImage ==
  /\ ImageChange
  /\ environment' = IF environment = "own" THEN "default" ELSE "own"
  /\ UNCHANGED <<scope, marketplaceVars, session, run, attempt, template, pending, test,
                 machines, window>>

-----------------------------------------------------------------------------
(* Failure of an attempt. *)

Holds(w) ==
  /\ run.turn = attempt[w].turn
  /\ run.attempt = attempt[w].attempt
  /\ run.status = "provisioning"

\* handleFailure.
HandleFailure(w, retryable) ==
  /\ run' =
       IF ~Holds(w) THEN run
       ELSE IF retryable /\ run.attempt < MAX_ATTEMPTS /\ run.machine = Nothing
            THEN [run EXCEPT !.status = "queued"]
            ELSE [run EXCEPT !.status = "ended"]
  /\ attempt' = [attempt EXCEPT ![w] = NoAttempt]
  /\ window' = [window EXCEPT ![w] = Closed]

\* Whatever an attempt calls may fail.
Fail(w) ==
  /\ attempt[w].phase # "idle"
  /\ \E retryable \in BOOLEAN : HandleFailure(w, retryable)
  /\ UNCHANGED <<scope, marketplaceVars, changes, session, imageVars, machines>>

\* The controller is stopped: its builds go on, nobody waits for them.
Stop(w) ==
  /\ attempt[w].phase # "idle"
  /\ attempt' = [attempt EXCEPT ![w] = NoAttempt]
  /\ window' = [window EXCEPT ![w] = Closed]
  /\ pending' = [pending EXCEPT ![w] = 0]
  /\ UNCHANGED <<scope, marketplaceVars, changes, session, environment, template, test,
                 run, machines>>

\* requeueExpiredClaims.
Requeue ==
  /\ run.status = "provisioning"
  /\ run.machine = Nothing
  /\ run.attempt < MaxClaims
  /\ run' = [run EXCEPT !.status = "queued"]
  /\ UNCHANGED <<scope, marketplaceVars, changes, session, imageVars, attempt, machines, window>>

-----------------------------------------------------------------------------
(* provisionRun. *)

Step(w, from, to) ==
  /\ attempt[w].phase = from
  /\ attempt' = [attempt EXCEPT ![w] = to]

At(w, phase) == [attempt[w] EXCEPT !.phase = phase]

\* When the image is the concern no plugins are read.
Claim(w) ==
  /\ w \in scope.workers
  /\ run.status = "queued"
  /\ run.attempt < MaxClaims
  /\ run' = [run EXCEPT !.status = "provisioning", !.attempt = @ + 1]
  /\ Step(w, "idle", [NoAttempt EXCEPT
       !.phase = IF scope.about = "image" THEN "session" ELSE "catalog",
       !.turn = run.turn, !.attempt = run.attempt + 1])
  /\ window' = [window EXCEPT ![w] =
       IF scope.about = "image" THEN Closed ELSE [must |-> Required, may |-> Approved]]
  /\ UNCHANGED <<scope, marketplaceVars, changes, session, imageVars, machines>>

\* loadApprovedCatalog: a version whose artifact is being replaced is skipped,
\* unless enough of it is there for the loader to accept or to fail (Fail).
LoadApprovedCatalog(w) ==
  /\ \E torn \in SUBSET {p \in Approved : ~package[p].whole} :
       Step(w, "catalog", [At(w, "settings") EXCEPT
         !.catalog = {p \in Approved : package[p].whole} \cup torn])
  /\ UNCHANGED <<scope, marketplaceVars, changes, session, imageVars, run, machines, window>>

LoadSettings(w) ==
  /\ Step(w, "settings", [At(w, "rows") EXCEPT !.modes = mode])
  /\ UNCHANGED <<scope, marketplaceVars, changes, session, imageVars, run, machines, window>>

\* loadUserStates and resolveEffectivePlugins.
LoadUserStates(w) ==
  /\ Step(w, "rows", [At(w, "variables") EXCEPT
       !.catalog = {}, !.modes = NoAttempt.modes,
       !.plugins = EffectivePlugins(attempt[w].catalog, attempt[w].modes, own)])
  /\ UNCHANGED <<scope, marketplaceVars, changes, session, imageVars, run, machines, window>>

\* resolveMcp: without a variable that an attached plugin requires the attempt
\* fails.
ResolveMcp(w) ==
  /\ attempt[w].phase = "variables"
  /\ IF \A p \in attempt[w].plugins : p[1] \in Demanding => variable[p[1]]
     THEN /\ Step(w, "variables", At(w, "record"))
          /\ UNCHANGED <<run, window>>
     ELSE HandleFailure(w, FALSE)
  /\ UNCHANGED <<scope, marketplaceVars, changes, session, imageVars, machines>>

\* Mutated: the plugins of the first attempt stay recorded.
SetRunPluginsOnce(w) ==
  /\ Step(w, "record", At(w, "session"))
  /\ run' = IF run.turn = attempt[w].turn /\ run.plugins = {}
            THEN [run EXCEPT !.plugins = attempt[w].plugins]
            ELSE run
  /\ window' = [window EXCEPT ![w] = Closed]
  /\ UNCHANGED <<scope, marketplaceVars, changes, session, imageVars, machines>>

\* setRunPlugins, which asks for no claim.
SetRunPlugins(w) ==
  /\ Step(w, "record", At(w, "session"))
  /\ run' = IF run.turn = attempt[w].turn
            THEN [run EXCEPT !.plugins = attempt[w].plugins,
                             !.overtaken = run.attempt # attempt[w].attempt]
            ELSE run
  /\ window' = [window EXCEPT ![w] = Closed]
  /\ UNCHANGED <<scope, marketplaceVars, changes, session, imageVars, machines>>

\* The credentials are minted (ModelCredentials; Fail), the session and then
\* the image of the repository are read, and a provider is chosen: the one that
\* holds the workspace, else the pinned one, else the controller's own.
ReadSession(w) ==
  /\ Step(w, "session", [At(w, IF session.image = NoImage THEN "resolve" ELSE "start")
       EXCEPT
         !.resume = session.workspace # Nothing /\ run.source = "user",
         !.provider = IF session.workspace # Nothing THEN session.workspace
                      ELSE IF session.provider # Nothing THEN session.provider
                      ELSE Configured[w],
         !.image = IF session.image # NoImage THEN session.image
                   ELSE <<environment, 0>>])
  /\ UNCHANGED <<scope, marketplaceVars, changes, session, imageVars, run, machines, window>>

\* resolveImage.  Only e2b makes something of an image of the user's: a
\* template, built by the resolution that is under way on this controller or
\* by one begun now.
TakesAsIs(w) ==
  /\ attempt[w].provider = "microsandbox" \/ attempt[w].image = Default
  /\ Step(w, "resolve", At(w, "pin"))
  /\ UNCHANGED <<scope, marketplaceVars, changes, session, imageVars, run, machines, window>>

\* A name no template has had (randomUUID).
NewTemplate(b) == template[b] = "none" /\ \A c \in Builds : c < b => template[c] # "none"

ResolveTemplate(w) ==
  /\ attempt[w].provider = "e2b" /\ attempt[w].image # Default
  /\ \E b \in Builds :
       /\ IF pending[w] # 0
          THEN b = pending[w] /\ UNCHANGED <<template, pending>>
          ELSE /\ NewTemplate(b)
               /\ template' = [template EXCEPT ![b] = "building"]
               /\ pending' = [pending EXCEPT ![w] = b]
       /\ Step(w, "resolve", [At(w, "building") EXCEPT !.image = <<"own", b>>])
  /\ UNCHANGED <<scope, marketplaceVars, changes, session, environment, test, run, machines, window>>

\* A build ends, and with it the resolution others could join.
EndBuild(b) ==
  /\ template[b] = "building"
  /\ template' = [template EXCEPT ![b] = "ready"]
  /\ pending' = [w \in Workers |-> IF pending[w] = b THEN 0 ELSE pending[w]]
  /\ UNCHANGED <<scope, marketplaceVars, changes, session, environment, test, run,
                 attempt, machines, window>>

AwaitTemplate(w) ==
  /\ attempt[w].phase = "building"
  /\ template[attempt[w].image[2]] # "building"
  /\ Step(w, "building", At(w, "pin"))
  /\ UNCHANGED <<scope, marketplaceVars, changes, session, imageVars, run, machines, window>>

\* Mutated: the last to resolve an image pins it.
PinLast(w) ==
  /\ session.operation = FALSE
  /\ session' = [session EXCEPT !.image = attempt[w].image, !.provider = attempt[w].provider]
  /\ Step(w, "pin", At(w, "start"))
  /\ UNCHANGED <<scope, marketplaceVars, changes, imageVars, run, machines, window>>

\* pinSessionSandboxImage: the first pair stays, and everybody goes on with it.
\* While an operation holds the session nothing is pinned.
Pin(w) ==
  /\ attempt[w].phase = "pin"
  /\ IF session.operation
     THEN HandleFailure(w, TRUE) /\ UNCHANGED session
     ELSE /\ session' = [session EXCEPT
               !.image = IF @ = NoImage THEN attempt[w].image ELSE @,
               !.provider = IF @ = Nothing THEN attempt[w].provider ELSE @]
          /\ Step(w, "pin", [At(w, "start") EXCEPT
               !.image = session'.image, !.provider = session'.provider])
          /\ UNCHANGED <<run, window>>
  /\ UNCHANGED <<scope, marketplaceVars, changes, imageVars, machines>>

\* startSandbox: a turn of the user's resumes the workspace if there still is
\* one; otherwise the provider creates a machine of the image.
StartSandbox(w) ==
  /\ Step(w, "start", At(w, "attach"))
  /\ machines' = machines \cup
       {[provider |-> attempt[w].provider, image |-> attempt[w].image]}
  /\ UNCHANGED <<scope, marketplaceVars, changes, imageVars, run, window>>
  /\ \/ UNCHANGED session
     \/ /\ attempt[w].resume   \* but it is gone
        /\ session' = IF run.turn = attempt[w].turn /\ session.workspace # Nothing
                      THEN [session EXCEPT !.workspace = Nothing]
                      ELSE session

\* attachOwnedSandbox: without the claim the machine goes again.
Attach(w) ==
  /\ attempt[w].phase = "attach"
  /\ IF Holds(w) /\ run.machine = Nothing
     THEN /\ run' = [run EXCEPT !.machine = attempt[w].provider, !.given = attempt[w].plugins]
          /\ Step(w, "attach", At(w, "mark"))
          /\ UNCHANGED window
     ELSE \E retryable \in BOOLEAN : HandleFailure(w, retryable)
  /\ UNCHANGED <<scope, marketplaceVars, changes, session, imageVars, machines>>

MarkRunning(w) ==
  /\ Step(w, "mark", NoAttempt)
  /\ run' = IF run.turn = attempt[w].turn /\ run.status = "provisioning"
            THEN [run EXCEPT !.status = "running"]
            ELSE run
  /\ UNCHANGED <<scope, marketplaceVars, changes, session, imageVars, machines, window>>

-----------------------------------------------------------------------------
(* What happens to the session meanwhile. *)

\* The turn ends, by itself or by cancellation.
EndTurn ==
  /\ run.status \in {"queued", "provisioning", "running"}
  /\ run' = [run EXCEPT !.status = "ended"]
  /\ UNCHANGED <<scope, marketplaceVars, changes, session, imageVars, attempt, machines, window>>

\* A turn without a machine leaves the workspace as it is.
ParkUnstarted ==
  /\ run.status = "ended" /\ run.machine = Nothing
  /\ run' = [run EXCEPT !.status = "parked"]
  /\ UNCHANGED <<scope, marketplaceVars, changes, session, imageVars, attempt, machines,
                 window>>

\* A machine is suspended and the reference to it stored; or the provider could
\* not do it, and no workspace is left.
BeginParking ==
  /\ run.status = "ended" /\ run.machine # Nothing /\ ~session.operation
  /\ session' = [session EXCEPT !.operation = TRUE]
  /\ UNCHANGED <<scope, marketplaceVars, changes, imageVars, run, attempt, machines, window>>

EndParking ==
  /\ session.operation
  /\ run' = [run EXCEPT !.status = "parked"]
  /\ \E workspace \in {run.machine, Nothing} :
       session' = [session EXCEPT !.operation = FALSE, !.workspace = workspace]
  /\ UNCHANGED <<scope, marketplaceVars, changes, imageVars, attempt, machines, window>>

\* The workspace of an idle session expires.
Expire ==
  /\ run.status = "parked" /\ session.workspace # Nothing
  /\ session' = [session EXCEPT !.workspace = Nothing]
  /\ UNCHANGED <<scope, marketplaceVars, changes, imageVars, run, attempt, machines, window>>

NextTurn ==
  /\ run.status = "parked"
  /\ scope.about = "image"
  /\ run.turn < LastTurn
  /\ \E source \in {"user", "github"} : run' = Queued(run.turn + 1, source)
  /\ UNCHANGED <<scope, marketplaceVars, changes, session, imageVars, attempt, machines, window>>

-----------------------------------------------------------------------------
(* The test of an image (testEnvironment): execute builds a template of its *)
(* own, runs it and deletes it.                                             *)

BeginTest ==
  /\ test = 0
  /\ \E w \in Workers : Configured[w] = "e2b"
  /\ ImageChange
  /\ \E b \in Builds :
       /\ NewTemplate(b)
       /\ template' = [template EXCEPT ![b] = "building"]
       /\ test' = b
  /\ UNCHANGED <<scope, marketplaceVars, session, environment, pending, run, attempt,
                 machines, window>>

EndTest ==
  /\ test # 0
  /\ template[test] = "ready"
  /\ template' = [template EXCEPT ![test] = "deleted"]
  /\ test' = 0
  /\ UNCHANGED <<scope, marketplaceVars, changes, session, environment, pending, run,
                 attempt, machines, window>>

-----------------------------------------------------------------------------
Prepare(w) ==
  \/ Claim(w) \/ LoadApprovedCatalog(w) \/ LoadSettings(w) \/ LoadUserStates(w)
  \/ ResolveMcp(w) \/ SetRunPlugins(w) \/ ReadSession(w)
  \/ TakesAsIs(w) \/ ResolveTemplate(w) \/ AwaitTemplate(w) \/ Pin(w)
  \/ StartSandbox(w) \/ Attach(w) \/ MarkRunning(w) \/ Fail(w) \/ Stop(w)

Next ==
  \/ Catalogue \/ SaveImage \/ BeginTest \/ EndTest
  \/ \E b \in Builds : EndBuild(b)
  \/ \E w \in Workers : Prepare(w)
  \/ Requeue \/ EndTurn \/ ParkUnstarted \/ BeginParking \/ EndParking \/ Expire \/ NextTurn

Spec == Init /\ [][Next]_vars

-----------------------------------------------------------------------------
\* Every machine of a session runs one image with one provider, whatever the
\* controllers are configured for, whatever the user maps to the repository
\* meanwhile, and whichever attempts resolved images at the same time
\* (pinSessionSandboxImage, sessionProviderName, providerFor).
OneImagePerSession == \A m, n \in machines : m.image = n.image /\ m.provider = n.provider

\* The template a session is pinned to is not deleted: not by the test of the
\* same image that runs beside the resolution (execute).
PinnedTemplateStays ==
  session.image \notin {NoImage, Default, <<"own", 0>>} =>
    template[session.image[2]] = "ready"

\* So a session keeps the machine it was begun with.
SessionKeepsItsImage == OneImagePerSession /\ PinnedTemplateStays

\* While an attempt reads catalogue, settings and the user's rows one by one,
\* all three may change.  Still a package that is approved and required
\* throughout attaches, whatever the user says, and none attaches that was
\* yanked or under review throughout (resolvePluginsForRun).
PluginsAreAsSet == \A w \in Workers :
  attempt[w].phase \in {"variables", "record"} =>
    /\ window[w].must \subseteq attempt[w].plugins
    /\ attempt[w].plugins \subseteq window[w].may

\* The plugins recorded for a running turn are those its machine was started
\* with, after whatever attempts came before - unless an attempt that had lost
\* the claim was the last to record, for setRunPlugins does not look at it.
RecordedIsAttached ==
  run.status = "running" /\ ~run.overtaken => run.plugins = run.given

\* What is set, what the machine was given and what is recorded of it agree.
PluginsAgree == PluginsAreAsSet /\ RecordedIsAttached
=============================================================================
