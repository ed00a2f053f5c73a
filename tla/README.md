# Models of pi-cloud-agent

pi-cloud-agent runs coding agents in disposable sandboxes. A controller (Node,
`apps/controller`) keeps everything in PostgreSQL, hands queued runs to sandbox
providers (`packages/sandbox`), and listens to the runtime (`packages/runtime`)
that works inside each sandbox and calls back over HTTP. A browser
(`apps/web`) polls and streams what the controller knows. A controller is
almost stateless: any number of them may poll the same database, and any of
them may die at any await. Correctness therefore rests on guarded `UPDATE`s,
leases, tokens with heartbeats and markers for work still owed. These modules
state what that is meant to guarantee and check it.

Paths below are relative to the repository; `db/...`, `http/...` and the like
are those of `apps/controller`, `web/...` is `apps/web/...`.

## The modules

| Module | What it is | Code |
| --- | --- | --- |
| `RunPromise` | abstract: what the controller promises about one run | - |
| `RunLifecycle` | a standalone run: row, workers of all attempts, machines, runtime, operator, reconcilers | `db/runs.ts`, `db/provisioning.ts`, `reconcile/provision.ts`, `reconcile/loop.ts`, `http/internal.ts`, `packages/sandbox/microsandbox.ts` |
| `RunLifecycleProofs` | the inductive invariant of `RunLifecycle` and its theorems, the refinement of `RunPromise`, and what attempts may do to one another | - |
| `SessionParking` | one session: queue of turns, the claim, checkpoints and machines | `db/sessions.ts`, `db/session-operations.ts`, `db/session-workspace.ts`, `reconcile/session-parking.ts`, `reconcile/session-finalization.ts`, `reconcile/loop.ts` |
| `SessionDeletion` | the same session and the request that deletes it | `http/sessions.ts`, `db/sessions.ts` |
| `SessionProofs` | the inductive invariants of both and their theorems | - |
| `DeliveryInbox` | GitHub deliveries and the session command each becomes | `integrations/github.ts`, `db/integrations.ts`, `commands/session.ts`, `db/sessions.ts` |
| `Publication` | the review or reply a run publishes, and the verdict that depends on it | `http/internal.ts`, `db/integrations.ts`, `packages/runtime/reporter.ts` |
| `IntegrationPromise` | abstract: what one delivery may lead to | - |
| `Integration` | composes the two: shared `run` rows, shared faults, deletion takes both kinds of rows | `http/sessions.ts` |
| `IntegrationProofs` | the inductive invariant of `Integration`, its theorems and the refinement of `IntegrationPromise` | - |
| `EventLog` | the event log of a run, the runtime's calls, the stream and a browser | `packages/runtime/reporter.ts`, `http/internal.ts`, `http/runs.ts`, `db/runs.ts`, `web/lib/useRun.ts` |
| `ObservabilityExport` | the delivery of a run's trace to one OTLP destination | `observability.ts`, `db/observability.ts` |
| `Telemetry` | composes the two: one log with two kinds of readers | `http/internal.ts` |
| `TelemetryProofs` | the inductive invariant of `Telemetry` and its theorems | - |
| `ModelCredentials` | the OAuth connection to a model provider: sign-in, rotation, runs that use and refresh it | `llm/connections.ts`, `llm/oauth.ts`, `db/llm-connections.ts`, `http/llm.ts`, `secrets/broker.ts`, `packages/runtime/oauth-credential.ts`, `web/components/CodexDeviceDialog.tsx` |
| `OAuthConnections` | connections to forges and plugins: flows, login, refresh | `vcs/connections.ts`, `plugins/oauth.ts`, `http/auth.ts`, `http/vcs.ts`, `db/vcs-connections.ts`, `packages/vcs/oauth.ts` |
| `Connections` | composes the two | - |
| `ConnectionsProofs` | the inductive invariant of `Connections` and its theorems | - |
| `Marketplace` | the plugin catalogue and one user's choices | `plugins/marketplace.ts`, `plugins/seed.ts`, `plugins/catalog.ts`, `packages/plugins/resolve.ts` |
| `Preparation` | `Marketplace` and the attempts that prepare a turn's machine from it | `reconcile/provision.ts`, `plugins/catalog.ts`, `db/session-images.ts`, `packages/sandbox/e2b.ts`, `http/environments.ts` |
| `Conversation` | what a session carries from turn to turn: conversation, workspace, diff baseline | `packages/runtime/run.ts`, `packages/runtime/workspace.ts`, `packages/runtime/session-state.ts`, `http/internal.ts`, `db/sessions.ts` |
| `TurnStart` | composes the two | - |
| `TurnStartProofs` | the inductive invariants of `TurnStart` and their theorems | - |
| `AgentEvents` | what the agent of one run reports | `packages/runtime/agent.ts`, `packages/runtime/reporter.ts` |
| `ActivityFeed` | the browser's fold of the events | `web/lib/foldActivityEvents.ts`, `web/lib/file-changes.ts` |
| `RunTrace` | the export's fold of the same events | `observability-projection.ts` |
| `Views` | `AgentEvents` with both folds | - |
| `SessionPage` | the page of a session: polls, stream, queue and buttons | `web/app/sessions/[id]/page.tsx`, `web/lib/useSession.ts`, `web/components/SessionQueue.tsx`, `http/sessions.ts`, `http/runs.ts` |
| `Display` | composes `Views` and `SessionPage` | - |
| `DisplayProofs` | the inductive invariants of `Display` and their theorems | - |
| `FeedProofs` | the feed as a whole: what its folds make of the log | - |
| `MC...` | instances for TLC: symmetry (safety only) and bounds | - |

Several of these modules look at the same `runs` rows, at the resolution their
subject needs. `RunLifecycle` has attempts, leases, the heartbeat, silence and
the deadline, for runs without a session. `SessionParking` has one attempt at a
time for each turn and keeps of provisioning what touches the session: the
attach, the launch race, requeueing. `Preparation` has overlapping attempts and
keeps of the session which image it is pinned to. `Conversation` has neither:
parking is a claim and a commit there, an attempt has attached. `Integration`
keeps of a run whether it is queued, running or how it ended, and of a session
whether it is bound and busy. `Telemetry` follows one attempt of a run from the
writing of its first event on, `AgentEvents` only the agent's. `SessionPage`
keeps of the turns what the queue and the tail of the page tell apart.

`Connections`, `TurnStart` and `Display` put two parts side by side that are
used together but write no common row; a behaviour is about one of them
(`Concerns`), since the product of the two would show nothing that the parts do
not. `Integration`, `Telemetry`, `SessionDeletion` and `Views` are compositions
whose parts do interact.

Definitions that begin with "Mutated" in their comment are faulty variants of
the definition that follows them. Nothing uses them but a substitution that
shows which property notices the fault.

### How state and actions correspond to the code

*Granularity.* An action is one database statement, or one transaction, or one
provider call, together with the code up to the next `await`. Everything that
interleaves in the program interleaves in the model. PostgreSQL serialises the
guarded updates, so each is atomic.

*Rows.* `runs[r]` and `session` are records of the columns the code branches
on. Timestamps are kept as what a query can tell of them: a lease is `fresh`,
`due` (two thirds old, so that the heartbeat renews it) or `expired`; a last
event is `recent` or `old`; a checkpoint's expiry is `ahead` or `past`. Actions
of their own let them age.

*Local variables.* A `worker` is the program counter of `provisionRun`, a
`job` that of one branch of a reconciler's tick, a `request` that of an HTTP
handler, each with the copies it holds. A batch row is a copy: between `Pick`
and the use of it anything may happen.

*Machines.* `machine[r][a]` (`RunLifecycle`) and `source[t]`
(`SessionParking`) are what exists at the provider; no process reads them
except through provider calls. In `RunLifecycle` a sandbox id is the number of
the attempt that allocated it. In `SessionParking` the machine of turn `t` and
the checkpoint taken of it are both named `t`: microsandbox derives the path
of a checkpoint from the sandbox id alone, and an attached turn is never
provisioned again.

*Providers.* microsandbox calls `onAllocated` (hence `attachSandbox`) after
the VM is up and before the runtime starts; if anything after the allocation
throws, it removes the machine (`Cleanup`), and swallows an error of that
removal (`CleanupLeaks`, a fault). `stop` of a machine that is gone succeeds.
`suspend` of a machine that is gone fails; a refusal of one that exists is the
fault `refused`. The bulk of the provider (mounts, network policy) is not
modelled.

*Faults.* A module's faults are switched on by name in a configuration
(`FaultKinds`) and counted (`MaxFaults`). What the code repeats or expects as a
matter of course, such as a refused deletion or a stop that fails, is not
counted.

### RunLifecycle

`CreateRun`, `Claim`, then per attempt `Prepare` (plugins), `Allocate`,
`Attach`, `StartRuntime`, `Launched`, `MarkRunning`, with the error paths
`ResolveFails`, `LaunchFails`, `Cleanup`, `Retry`, `FailAttempt`, and
`StopLost`/`StampLost` when `markRunning` is refused. The sandbox posts events
and a final status (`PostEvent`, `PostStatus`), possibly again when the answer
is lost, and may die (`MachineDies`). `Cancel` is the operator's. `Renew`,
`LeaseDue`, `LeaseExpires` and `HeartbeatMissed` are the lease. A reconciler
picks a row (`Pick`), fails it (`FailRun`), stops its machine (`StopSandbox`)
and stamps it (`Stamp`); it may give up anywhere (`JobAbandoned`).
`ReclaimClaim` is the requeueing of expired leases.

Checked: at most one machine of a run carries its agent, and it is the one the
row names (`OneRecordedRuntime`); `sandbox_stopped_at` is set only when the
machine is gone (`StampedMeansGone`); without a fault no machine is lost
(`NoOrphanWithoutFault`); the whole implements `RunPromise`
(`ImplementsPromise`): the runtime starts at most once, the first terminal
decision stays, and a run is reclaimed only after it ended and its machine went
down. Live: every queued run ends (`QueuedRunEnds`), every recorded machine is
reclaimed (`RecordedMachineIsReclaimed`). Proved besides: a slow old worker does
not end or requeue the attempt of its successor (`AttemptsEndThemselves`), and
an expired lease stays expired (`ExpiryIsFinal`).

### SessionParking

A session serves its turns one by one: `session.active` is the only one that
may be provisioned. When it has ended, a reconciler claims the session
(`ClaimSession`, token and heartbeat), retries a deletion owed by the turn
(`Prepare`, `Recheck`), reads the current checkpoint, suspends the machine into
a new one (`Suspend`), commits the new checkpoint and promotes the next turn in
one transaction (`Commit`), deletes the superseded checkpoint (`Check`,
`Erase`, `Unmark`) and removes the suspended machine (`Finalize`,
`MarkFinalized`). The catch branch (`Uncommitted`, `Discard`, `Verify`,
`StopSource`, `Fallback`) deletes what was not committed and parks with the
previous checkpoint or cold; `Unowned` is for a holder that lost its claim.
Two more claims exist: "replacing" retries an owed deletion of an idle session,
"expiring" deletes a checkpoint that has grown old. Stale claims are released
(`ReleaseStale`) or taken over (`MayClaim`).

Faults are switched on by name in a configuration:

| Kind | What happens |
| --- | --- |
| `crash` | a reconciler or a provisioning worker disappears at any await |
| `pause` | a live holder's heartbeats stop long enough for its claim to be stale |
| `race` | a turn ends between the attach and `markRunning` |
| `refused` | the provider refuses to suspend a machine that exists |
| `rollback` | the parking transaction fails |
| `lostreply` | the parking transaction commits, the caller sees an error |

Deletions and stops may fail at any time without being counted as a fault.

Checked: an unexpired checkpoint the session points to exists
(`UnexpiredCheckpointExists`); every checkpoint and every machine that exists is
known to somebody who will delete it (`NothingIsLeaked`); only the active turn
has a running machine, and turns are served in order with none skipped
(`TurnsTakeTurns`, in `deletion`). Live: every queued turn is started or
cancelled (`QueuedTurnStarts`), a suspended machine is removed
(`SuspendedSourcesGo`), an idle session does not keep an expired checkpoint
(`ExpiredCheckpointGoes`), and an ended turn gives the session up
(`EndedTurnIsParked`), which the code does not keep. `Stuck` is what the code
does instead; `QueuedTurnStarts` exempts it.

### SessionDeletion

`deleteSession` of `http/sessions.ts` beside everything above: it reads the
session (`ReadSessionRow`), the active run (`ReadActive`, `ReadActiveOnly`) and
the turns with work still owed (`ReadTurns`), claims the session as "archiving"
if the active and the latest turn are still those it read (`ClaimDeletion`),
removes what markers name (`FinalizePending`, `ErasePending` and their
`Mark...`), looks again (`FindAgain`), stops the machine (`StopMachine`), erases
the current checkpoint (`EraseWorkspace`) and deletes the row with its turns
under the same guard (`DeleteRow`). An error on the way releases the claim
(`RemovalFails`, `ReleaseDeletion`), a crash does not (`RequestDies`); the claim
goes stale as that of a reconciler does. After the deletion every query finds no
row (`GoneRun`, `MarkNothing`), while workers and reconcilers that are still at
work go on with what they hold.

Checked: no turn is deleted in flight, nor one that was queued meanwhile
(`DeletionSparesTurns`); no machine survives the session or comes back
(`NoMachineOutlivesSession`); the checkpoint that the session names is gone when
the row goes (`SessionCheckpointGoes`).

### DeliveryInbox, Publication, Integration

`Receive` is the webhook, `ReceiveAgain` a redelivery. A controller claims the
oldest delivery that may be claimed (`ClaimDelivery`), projects it (`Project`)
and runs `queueSessionCommand` one statement at a time: `LookForRun`,
`FindSession`, then `AppendTurn` or `CreateSession`; `Rebind` and `LookAgain`
are the two catch branches for a unique index that refused the insert; `Finish`
is guarded by the claim. The claim has no heartbeat, so `LeaseExpires` under a
live holder (`pause`) makes two workers of one delivery. `Throws` is any error
on the way, `Committed` may lose the reply of the transaction.

`run[d]` is the run of delivery `d`: the unique index on the origin leaves it at
most one. `thread[p]` is the session of pull request `p` merged with its
binding, which are written and deleted together. `made[d]` counts the runs ever
queued and is not read by any action. Which events ask for anything is fixed by
their payload (`asking`: a pull request opened, reopened, made ready or pushed
to, or a mention of the agent); whether a delivery that asks is ignored all the
same is chosen anew for each claim, because the installation and the review
policy may change between two. The first to queue a run binds the pull request
(`Bind`). Parking and archiving appear only as what makes a session refuse
turns.

`Submit` is a request of the runtime or its repetition after `TimesOut`, while
the handler of the first may go on. The handler reads the run once (`Admit`),
inserts the row or leaves it to another (`Begin`), asks for a token
(`TokenMissing`), calls GitHub (`Publish`, whose answer may be lost, or
`Refused`) and records the outcome (`Record`, `RecordThrows`). `Report` is
`normalizeStatus` with what it read, `Complete` the guarded update that follows.
Reviews and replies have a table and a handler each that differ in nothing
modelled. A cancelled run counts as failed.

| Kind | What happens |
| --- | --- |
| `crash` | a controller disappears with its worker or its request handler |
| `pause` | a live controller outlives its lease |
| `error` | an awaited statement or call fails without effect; recording a success fails |
| `lostreply` | the transaction that queues the run commits, the caller sees an error |
| `early_delete` | the user deletes the session of an unsettled delivery |

Checked: a delivery queues one run (`OneRunPerDelivery`) in the one session its
pull request is bound to (`OneSessionPerPullRequest`); GitHub gets one review or
reply of a run (`OnePost`); together (`ImplementsPromise`): what the controller
says of a publication is true and never taken back, a run succeeds only when its
publication is known to be on GitHub, nothing is posted after it was said to
have failed, and only ended turns are forgotten. Live: every delivery is
processed, ignored or given up (`DeliveryIsSettled`).

### EventLog, ObservabilityExport, Telemetry

The reporter makes one call at a time: the events, of which only the diff is
repeated (`Tries`), then the outcome. `Post` is a call, `TimesOut` its end
without an answer, while the handler (`HandleEvent`, `RecordReport` and
`CompleteRun`) may go on and append late. When every report of "done" goes
unanswered the runtime reports an error; that is one more repetition here,
since the outcome is chosen when the run is completed. `log` is `run_events`:
the position is the sequence number, because `appendEvent` counts and inserts
in one transaction. The runtime's token, tool call and log events are of one
kind (`feed`); `plugins` is the event written while the run is provisioned, for
which the browser has no handler.

A stream is `Connect` (from the last id the browser saw), then `Flush` and
`ReadRun` in turn, and `Drain` when the row read is terminal. Frames travel in
order on `wire` and are lost with the connection (`Disconnect`). `Receive` is
EventSource with the handlers of `useRun`: an id stays the last id until a
frame brings another, and the handlers see the last id.

A drain of the export (`EnsurePending`) seeds the row, claims until nothing is
left (`ClaimExport`, `ReadLog` or `ReadFails`, `NothingToClaim`), sends the
batch (three tries taken as one: accepted and heard, accepted and unheard, or
not accepted) and marks or gives back the rows it holds, guarded by their being
`processing` and by nothing else. `sent` is what the destination has: spans have
ids derived from the run, so a trace sent twice is one trace.

| Kind | What happens |
| --- | --- |
| `timeout` | the runtime gives up a call whose handler is at work |
| `crash` | a controller disappears in a handler or a drain |
| `disconnect` | a stream breaks |
| `error` | a statement of the export fails |
| `pause` | an exporter outlives its lease |

Checked: the browser shows the log up to the last event it received, once and
in order, however often it reconnects, and when it is told the end it has all
that was written before the run was decided (`BrowserSeesTheLog`); so has the
destination when the export is marked as done, whichever of the exporters did it
(`ExportIsComplete`). Live (`ReadersFinish`): the browser of a finished run
reaches its end or learns that it is gone, and the export is decided.

### ModelCredentials, OAuthConnections, Connections

A credential is the sign-in that granted it and how often it has been refreshed
since. A sign-in (`Start`, `Login`) ends in a row of its own: `Create`, or
`Rotate` when the user had one, which retires the old row and is followed by
`PurgeRotated`. `DeleteConnection` and `PurgeDeleted` remove rows no run refers
to. A dialog follows a sign-in by a stream (`SubscribeFromNow`, `Subscribe`,
`Close`, `Disconnect`); the flow lives in the memory of one controller, which
`Restart` ends. A run is submitted with a row (`ChooseModel`, `Submit`: the check
and the insert are two statements), is given the credential when it is prepared
(`MintForRun`), may refresh its copy (`Refresh`), and reports it when its turn
ends (`Send`, `TimesOut`, `GiveUp`); the handler checks and stores by
compare-and-set (`Check`, `Persist`), possibly after the runtime gave up.

`OAuthConnections` is one automaton for forges and plugins, since both use
`oauth_states` and a cookie: `Begin` and `Issue`, the callback with the state
taken in one statement (`Callback`, `Consume`), the exchange at the provider, the
check of the user, `Save`; `Resolve`, `Refresh` and `Write` for whoever needs a
token. `FindClient` and `RegisterClient` are the dynamic registration of plugins.
One browser is modelled; users may change in it between any two requests.
`Fails` ends a request anywhere; `Dies` is a crash with the newest token in hand,
after which only a new connection helps (`died`).

Checked: the newest credential of a grant is in its row or on its way there with
a turn that will report it (`NewestIsCarried`), except for the faults that lose
it: a runtime that is stopped, a report whose every attempt fails; a queued run will get a
credential of its sign-in whatever is rotated and purged (`RunsKeepTheirRevision`);
a dialog waits only for a sign-in that will end (`SignInIsAnswered`); a
connection belongs to the user who began its flow, or whose account agreed to it
when the flow was a login (`ConnectionOwned`); a stored connection has the newest
refresh token or a request at work will write it, and goes to the provider with
the client that token was issued to (`ConnectionUsable`).

| Kind | What happens |
| --- | --- |
| `restart` | the controller restarts; its sign-ins are gone |
| `disconnect` | the stream of a dialog breaks |
| `stopped` | a machine is stopped before its runtime reports |
| `error` | a report fails before its handler has stored anything |

### Marketplace, Preparation, Conversation, TurnStart

`Marketplace` is files and rows. Publishing and seeding remove the artifact,
copy it, list the version and settle the install mode, one after the other
(`ClearArtifact`, `CopyArtifact`, `ListVersion`, `SettleMode`, `StopPublishing`);
operators review (`SetReviewStatus`) and require (`SetInstallMode`); the user
installs, disables, configures and uninstalls by requests that check first and
write later (`AskInstall`, `StoreInstall`, `AskUninstall`, `RemoveVariables`,
`ForgetInstall`, `Configure`). `EffectivePlugins` is
`packages/plugins/resolve.ts`.

`Preparation` is `provisionRun` statement by statement: `Claim`,
`LoadApprovedCatalog`, `LoadSettings`, `LoadUserStates`, `ResolveMcp`,
`SetRunPlugins`, `ReadSession`, `ResolveTemplate` and `AwaitTemplate` (an e2b
build, shared by the attempts of one controller), `Pin`, `StartSandbox`,
`Attach`, `MarkRunning`. `Fail` and `Stop` may come anywhere, and `Requeue` may
give the run to another worker while the first goes on. `machines` records what
each machine was started with and no action reads it; `window` is what a
catalogue that changes while it is read may justify. Parking, expiry and the test
of an image (`BeginTest`, `EndTest`: it builds and deletes a template of its own)
change the rows that are read.

`Conversation` is the runtime of a turn (`main`): `PrepareCheckout`,
`BaselineOfTurn` and `ReportBaseline`, `LoadSessionManager` (the conversation is
restored), `Prompt`, `SaveSessionCheckpoint`, `GitDiff`, `Status`; `Send` is
every report of these, with its repetitions and its late handling (`HandleLate`)
by the handlers (`SaveDiffBase`, `NormalizeStatus`). A revision is the set of
turns whose edits it contains, a conversation the sequence of turns it
remembers. `CancelOrExpire`, `BeginParking`, `EndParking` and `ForgetWorkspace`
may come at any step.

Checked: all machines of a session run one image with one provider, and the
template it is pinned to is not deleted (`SessionKeepsItsImage`); a plugin that
is required and approved throughout the reading attaches, one that is not never
does, and a running turn's recorded plugins are those its machine has
(`PluginsAgree`); no turn takes away what an earlier one added to the
conversation (`TalkMovesForward`); a turn that succeeded is remembered
(`SuccessIsRemembered`); a diff shows every edit in the workspace, unless an
agent began before the controller had a baseline (`DiffShowsEveryEdit`).

| Kind | What happens |
| --- | --- |
| `error` | a report fails before its handler |
| `late` | the runtime gives up a report that is handled later, or never |
| `clone` | git cannot clone or fetch |
| `suspend` | the provider cannot suspend the machine |

### AgentEvents, ActivityFeed, RunTrace, Views, SessionPage, Display

`AgentEvents` is the handler of the agent's callbacks: `TurnStart`, `TextDelta`,
`ToolStart`, `ToolEnd`, `TurnEnd`, `ReportStatus`, each an event posted in order.
A post may be `lost`, or `late`: in the log behind its successors (`Arrive`).
The reporter's queue lags behind the agent but keeps the order, so an event that will
be posted is in the model's log as soon as it is reported, and what the database
has by then is a prefix of it. How long that prefix is shows in one place:
`turnStartAt` is the sandbox's clock at the turn's beginning, while every other time
is that of a row's insert. `TurnStart` therefore chooses the newest row there was
(`started`, at most `MaxWaiting` rows back; the first row when there was none): in an
ordinary run the last rows of a turn are inserted after the next one has begun.
`ActivityFeed` and `RunTrace` are the two folds, written as operators on a feed
and a trace: `FoldEvent` with one operator for each type of event, then
`GroupWork` (of the blocks that are not white space, `Visible`),
`CollectFileChanges` and `AppendChangeStats` (`Shown`);
`ProcessEvent` and `Finish`. The code folds the whole log anew on each
render; `Views` folds each event as it is logged, which is the same.

`SessionPage` has the rows of a session (`server`), what the page holds of them
(`detail`, `history`, `live`), its refresh in three requests (`ReadSession`,
`ReadRuns`, `ReadEvents`, `Refreshed`, or `RefreshFails`), the stream of the
active turn (`Stream`), and the buttons "Stop" (`Stop`), "Interrupt and send next"
(`Interrupt`) and "Remove from queue" (`Remove`), whose requests arrive later
(`HandleCancel`). `meant` is what the user wanted of a turn and is read by no
action.

Checked: the feed has every piece of text of the log once and in the log's order,
and hides none but white space (`TextIsWhole`), every call on its line
(`CallsAreShown`), and every change of a file once in the summary below
(`ChangesAreSummed`; together `FeedHasEverything`); a turn's thoughts stand before its
answer (`ThoughtsPrecedeAnswers`). What the feed shows stays before and behind the
same things, nothing is there twice, and a line stays in its group, with one
exception that the code has (`FeedOnlyGrows`): thoughts are put in before the text of
their turn even where that is white space and parts no lines, and then they part the
group that was shown as one (`Parted`, `TextIsHidden`). In the trace a turn is one
step, each call is in the step of its turn, and the step does not end while the call
is under way, as long as nothing comes late (`StepsHoldTheirTools`): it ends with the
call or later, or, if the later turn's end finds the call ended, at the time at which
that turn says that it began (`EndedByLater`), which is often before the insert of the
call's end. The message to be sent next is not
cancelled in place of the turn it should have interrupted
(`InterruptSparesNext`); what the page shows of a turn stays when its events
come from the history instead of the stream (`NothingVanishes`).

## The runs

| Run | Module and bounds | Shows |
| --- | --- | --- |
| `attempts` | `MCRunLifecycle`: 1 run, 3 claims with `MAX_ATTEMPTS` 2, 2 provisioning slots, 2 reconcilers, 1 fault | safety of a run and the refinement of `RunPromise` |
| `progress` | `RunLifecycle`: as above with 1 slot and 1 reconciler | `QueuedRunEnds`, `RecordedMachineIsReclaimed` |
| `crashes` | `SessionParking`: 3 turns, 1 reconciler, 2 faults of `crash`, `rollback` | checkpoints and machines through crashes and failed commits |
| `turns_progress` | `SessionParking`: 2 turns, 1 reconciler, 1 fault of any kind | progress of a session |
| `stuck_session` | `SessionParking`: 1 turn, `race` | disagreement 1, `EndedTurnIsParked` is violated |
| `deletion` | `MCDeletion`: 2 turns, 2 reconcilers, 1 fault of any kind; at most two of the reconcilers and the request at work | deletion beside parking, and turns that take turns |
| `deliveries` | `Integration`: 2 deliveries of one or of two pull requests, each asking or not, 2 controllers, 2 attempts, no publications, 1 fault of any kind but `early_delete` | the inbox, safety and progress |
| `publications` | `Integration`: 1 delivery, 2 controllers, 2 attempts, 2 requests, 2 faults of any kind but `early_delete` | publications and the refinement of `IntegrationPromise` |
| `telemetry` | `Telemetry`: 1 event that is repeated, 2 tries of each call, a browser or 2 exporters, 2 export attempts, 1 fault of any kind | the stream and the export, safety and progress |
| `connections` | `MCConnections`: 2 sign-ins, 2 runs, 2 refreshes, 1 fault of any kind; or 2 flows, 2 requests, 2 users, 2 refreshes, 1 death, with a forge, a rotating forge or a plugin | no credential is lost, mixed up or unusable |
| `turn_start` | `MCTurnStart`: 2 turns, 2 claims, 2 workers configured for different providers, 2 builds, 2 changes of one plugin's catalogue; or 2 turns of a conversation, 2 tries of each report, 2 faults of any kind | what turns start from and hand on |
| `views` | `MCViews`: 2 agent turns of 2 tools, 1 event lost or late, with 2 texts and 1 call, with 1 text and 2 calls, or with 2 calls, 1 event lost and 3 waiting; or a page with 2 turns of at most 1 event | feed, exported trace and page |

*Why these bounds.* Runs do not interact except through provisioning slots, so
one run shows its races; a second slot lets a slow worker and its successor work
side by side. Three claims with two permitted attempts give a
worker that is slow, its successor, and a third after a lost one: the last
attempt's failure (not retried) and a requeue beyond the bound by an expired
lease both happen. Two reconcilers are as many as needed for two stale copies.
Three turns are the least in which a checkpoint is superseded, its successor
superseded again, and a deletion of the first still owed; two faults are a
crash in the work and another in the repair of it. In `deletion` a request, a
stale reconciler and its successor can meet in pairs. Two deliveries of one pull
request are the least that race for its binding (of two, they show that threads
are kept apart), two controllers the least of
which one loses a claim; a second fault lets a crash or error meet a slow
controller. Requests meet in pairs: the claiming row knows one owner and others.
In `telemetry` a browser and the exporters read the log in different behaviours
(`Readers`): neither writes anything the other reads. One repeated event may be
appended late, after the report or after the end. Two sign-ins are the least of
which one replaces the other; two runs share a credential and the second refreshes
what the first spent; two requests are a refresh and another, or a refresh and a
new connection, or two flows. Two turns are the least of which one inherits the
other's conversation and workspace; two faults are a report that is lost and one
that is late. In `views` each behaviour has one of four scopes (`Scopes` of
`MCViews`). Two texts, one of which may be white space, go on or begin anew around one
call, with the events of debug runs; two calls, and one text, which may be white
space, interleave or are of two turns, so that lines get into groups; one event that
is out of place is placed anywhere. Two calls alone wait to be posted: up to three
events, the ends of both calls and of their turn, when the next turn begins. In the
other scopes none waits, since nothing in the feed reads the time of a beginning. On the page, the turn that is
left and the one that follows it meet in one refresh.

The bounds are `MaxClaims`, `LastTurn`, `MaxSubmissions`, `MaxRefreshes`,
`MaxVersion`, `MaxLosses`, `MaxChanges`, `MaxBuilds`, `MaxTurns`, `MaxTexts`,
`MaxCalls`, `MaxEvents`, `MaxWaiting` and `MaxFaults`; `Scopes` and `Concerns` choose what a
behaviour is about. `MAX_DELIVERY_ATTEMPTS` is 5 in the code; 2 has a first, a
repeated and no third attempt. `telemetry` also passes with two faults (3.7
million states) and with two events (1.2 million), the page of `views` with three
turns (3.8 million), which takes longer.

*Deadlock* is checked except where the system really may stop: in
`turns_progress`, `stuck_session` and `deletion` a session may be stuck (see
disagreement 1) with nothing left to do, and a deleted one is over; in
`telemetry` a run may be over, read and exported; in `connections`, `turn_start`
and `views` the flows, turns and events are bounded and end. The disjuncts
`Idle` are the loop that polls and finds nothing.

*Fairness.* The loop polls for ever and one branch's error does not end it
(`reconcile/loop.ts` catches and sleeps), so claiming, picking, requeueing and
the steps of a worker or job are weakly fair, and where a competing step may
disable them again and again, strongly. Provider calls that the code repeats
for ever (`stop`, deletions, finalization) are not refused for ever:
`SF(StopSandbox)`, `SF(Answered)`. Time passes: leases, claims without a
holder, deadlines and expiries age. `ProvisioningDecided` is strongly fair
because `MAX_ATTEMPTS` bounds the requeues that `RunLifecycle` models and
`SessionParking` leaves out. In `Integration` a delivery is claimed with strong
fairness, since the claimable one changes and controllers take turns; a
worker's steps, leases and retry delays are weakly fair. In `Telemetry` the
browser reconnects and the tail polls, and the drains are on a timer; weak
fairness of some drain is enough. Nothing is assumed of the operator, the
agent, the sandbox or the faults. Symmetry is used in safety runs only.

## What is proved

### A run

`RunLifecycleProofs` proves, for every set of runs, every
set of reconcilers and every value of the bounds (assumed are only
`RunsAssumption`: runs are natural numbers, and `BoundsAssumption`: the bounds are
positive):

| Theorem | Statement |
| --- | --- |
| `TypeCorrect` | `Spec => []TypeOK` |
| `RuntimeRecorded` | `Spec => []OneRecordedRuntime` |
| `StampTruthful` | `Spec => []StampedMeansGone` |
| `Inductive` | `Spec => []IInv` |
| `Refinement` | `Spec => ImplementsPromise` |
| `NoMachineLost` | `Spec => []NoOrphanWithoutFault` |
| `OwnWorkerEnds` | `Spec => AttemptsEndThemselves` |
| `ExpiryStays` | `Spec => ExpiryIsFinal` |

None of the invariants is inductive. That a launched runtime is recorded needs
to know that a worker past its attach is the one the row names
(`AttachedWorkerIsRecorded`), which in turn needs that an attached row never
gets a new attempt: the sandbox id stays the current attempt's
(`AttachedIsCurrent`), and nobody requeues an attached row. A later attempt
has no machine yet (`UnclaimedIsUntouched`). That the stamp is truthful needs
that whoever is about to stamp has seen the machine go and that a machine that
is gone does not come back (`StampFollowsStop`), and that only ended runs
reach that point (`JobHasSandbox`, `OnlyEndedRunsStop`). `IInv` is the
conjunction. The proof has one lemma about what each row operator leaves alone
(`Keeps...`), a frame lemma (`FrameIInv`) for the steps that change one row in
this way and move no worker past an attach, and lemmas of their own for the
steps that do more: claim, allocate, attach, start, mark, stop, stamp.

The refinement follows from `IInv`: the machine that carries the runtime is the
one the row names, so what the promise sees of a run depends on the row and that
machine only (`PhaseIs`, `RuntimeIs`), and what becomes of other machines is
invisible (`NothingSeen`). A step is then seen through the row (`RowIsSeen`), the
machine (`MachineIsSeen`) or both. `NoOrphanWithoutFault` is inductive together
with `IInv`, because a worker lets go of a machine that is not recorded only by
removing it. The two action properties need `TypeOK` alone: each step ends no
attempt, or its own, or one whose lease has run out (`StepsAreRightful`).

### A delivery and its publication

`IntegrationProofs` proves of `Integration`, for every set of deliveries, pull
requests and controllers, every number of attempts, requests and faults (assumed
are `DeliveriesAssumption`: deliveries are natural numbers,
`AttemptsAssumption`: at least one attempt, `SubmissionsAssumption` and
`InboxFaultsAssumption`: the bounds are natural numbers, the kinds of faults
known):

| Theorem | Statement |
| --- | --- |
| `IInvHolds` | `Spec => []IInv` |
| `TypesHold` | `Spec => []TypeOK` |
| `DeliveriesQueueOnce` | `Spec => []OneRunPerDelivery` |
| `SessionsAreUnique` | `Spec => []OneSessionPerPullRequest` |
| `PostsAreUnique` | `Spec => []OnePost` |
| `IntegrationKeepsItsPromise` | `Spec => ImplementsPromise` |

Each assumes `NoEarlyDeletion`, that `early_delete` is not among the faults: with
it the first is false (disagreement 12).

While the run of a delivery exists, the unique index keeps a second one away; what
has to be shown is that nobody queues one after the deletion. `RunsAreCounted`
says that a delivery whose run is gone is settled and in nobody's hands (`Closed`),
and `ArchivedIsClosed` that a session which is being deleted has such deliveries
only. For the latter it matters that a session that is archiving takes no turns,
and that a settled delivery is not claimed again.

For the publications, one request at most is past the insertion of the row
(`OneOwner`), and before that insertion, or after the row went with its session,
nothing is posted. What the owner has heard from GitHub is so
(`OwnersTellTheTruth`), hence what it records is, and what a status report that
read the row concludes. `IInv` is the conjunction.

The refinement looks at one delivery at a time: a step changes what the promise
sees of one delivery only (`OneDeliveryMoves`), or, when a session is deleted,
lets the ended runs of that session go, and `TurnIs` says what is seen of one from its
rows.

### The log, its stream and its export

`TelemetryProofs` proves of `Telemetry`, for every number of events, tries and
faults and every set of exporters (assumed are `EventsAssumption`: there is an
event and a try, `LogFaultsAssumption`: the bound is a natural number, the kinds of
faults known, and `ExportAssumption`: there is an attempt):

| Theorem | Statement |
| --- | --- |
| `IInvHolds` | `Spec => []IInv` |
| `TypesHold` | `Spec => []TypeOK` |
| `BrowserFollows` | `Spec => []BrowserSeesTheLog` |
| `ExportsAreComplete` | `Spec => []ExportIsComplete` |

That the browser shows the log without a gap depends on frames that are under
way. Every event between the last one the browser saw and the cursor of the
stream's handler is on the wire, and the frame of an event is behind those of all
earlier ones the browser lacks (`FramesFollowLog`, `TailFollowsLog`); so the next
frame with an id is the next event (`NextAtHead`). An end is on the wire behind
everything up to the cut only (`EndFollowsCut`), which holds because the handler
looks at the log once more after it read that the run is over, and the log was
not shorter when the run was decided (`CutIsInLog`). A disconnection empties the
wire, and the next stream starts where the browser stands. When the session is
deleted the log is gone, and nothing is promised any more.

For the export, only a run that is over gets a row, so whoever reads the log with
a claim reads all of what matters, and what is sent is never less than the cut
(`ExporterInv`): therefore it does no harm that a result is accepted from an
exporter whose lease ran out. `PaceOfCalls` bounds the runtime's calls, for the
types. The steps are of three kinds: those that write the log put nothing out of
place for who reads it (`LogStepKeeps`, `LogMovesKeepStream`,
`LogMovesKeepExport`), those of the stream leave the log alone, and those of an
exporter disturb only itself and the row (`ExporterMoves`).

### A session and its deletion

`SessionProofs` proves of `SessionParking` and `SessionDeletion`, for every number
of turns and faults and every set of reconcilers (assumed are `TurnsAssumption`:
there is a turn, `FaultsAssumption`: the bound is a natural number, the kinds of
faults known, and `ReconcilersAssumption`: nobody and the user are no reconcilers):

| Theorem | Statement | Faults |
| --- | --- | --- |
| `SessionTypes` | `Spec => []TypeOK` | any |
| `TurnsTakeTurnsHolds` | `Spec => []TurnsTakeTurns` | any |
| `MachinesAreTracked` | `Spec => []SourceTracked` | any |
| `DeletionTypes` | `DeletionSpec => []DeletionTypeOK` | any |
| `DeletionInvHolds` | `DeletionSpec => []DeletionInv` | any |
| `NoMachineOutlives` | `DeletionSpec => []NoMachineOutlivesSession` | any |
| `DeletionSparesTurnsHolds` | `DeletionSpec => DeletionSparesTurns` | any |
| `SessionCheckpointGoesHolds` | `DeletionSpec => SessionCheckpointGoes` | any |
| `TurnsTakeTurnsDeleted` | `DeletionSpec => []TurnsTakeTurns` | any |
| `CheckpointStays` | `Spec => []UnexpiredCheckpointExists` | all but `pause`, `lostreply` |
| `NothingLeaks` | `Spec => []NothingIsLeaked` | `crash`, `rollback` |

*The turns* do not depend on who holds the session. `TurnsInv` says that the
worker, the machine and the row of a turn fit together (`TurnShape`), that rows
are made in order and the active one is the first that has not been parked
(`Queue`), that what runs is the active turn's, and that what a job has
suspended or removed stays so (`JobsKnow`): so two reconcilers which both think
they own the session do no harm to the order, as a turn that has ended stays ended
and a second promotion finds the active turn changed. A set of turns has a first
(`LeastOf`, by well-foundedness), which is the one that is promoted.

*The deletion* acts on copies. `RequestInv` bounds how old they can be: the active
turn is still the one it read, or was replaced by one that is later than all it
saw, and then the guards of the claim and of the deletion fail (`SameTurns`);
while they hold, the list of owed removals has every machine that is marked,
since a turn is marked only when it is parked, which makes another one active or
none. Once the row is gone `NothingLeft` holds for good.

*The checkpoints* depend on ownership. `ParkingInv` says that whoever works owns
the session and its heartbeat is fresh (`HoldersOwn`), hence works alone; that the
turn a parking job is about is active until the commit, so that its checkpoint is
not the session's yet; and that a checkpoint about to be erased is not the one in
use, or has expired (`Holds`). With `pause` two holders overlap, and with
`lostreply` a job continues as if nothing had been committed. In both cases the
code does delete a checkpoint in use (disagreements 4 and 5, where TLC has the
counterexamples), so these hypotheses are what is true of the code.

*Nothing is lost* relative to all this, if each checkpoint is the session's, is
marked or belongs to the active turn, which is still to be parked
(`RowTracked`), and each step of a parking job carries the marker or the checkpoint
along (`Carries`): the one place for a marker, `replaced`, is free whenever
something has to be put there. A pause, a race, or a refusal after a crash loses a
checkpoint (disagreement 6). With lost replies TLC finds no leak (three turns, or
two with two reconcilers); `ParkingInv` fails then, so that this is not proved.

The invariants were checked with TLC before they were proved: `DeletionInv` in
the `deletion` instance (813,469 states), `ParkingInv` and `TrackedInv` with two and
three turns, two reconcilers and two faults (2,520,612 states).

### Connections

`ConnectionsProofs` proves of `Connections`, for every set of sign-ins, runs, users,
flows and requests, every number of tries, refreshes and faults, rotating
providers or not (assumed are `CredentialAssumption`: sign-ins are natural numbers,
bounds natural numbers, at least one attempt, and `AccountAssumption`, the same for
the services):

| Theorem | Statement |
| --- | --- |
| `ConnectionTypes` | `Spec => []TypeOK` |
| `NoCredentialIsLost` | `Spec => []NewestIsCarried` |
| `RevisionsAreKept` | `Spec => []RunsKeepTheirRevision` |
| `DialogsAreAnswered` | `Spec => []SignInIsAnswered` |
| `ConnectionsAreOwned` | `Spec => []ConnectionOwned` |
| `ConnectionsCanBeUsed` | `Spec => []ConnectionUsable` |
| `CredentialsMoveForward` | `Spec => CredentialMovesForward` |

*Model connections.* `NewestIsCarried` has to survive that several runs of one
connection refresh, report late, time out and try again. What makes the
comparison in `compareAndSetLlmCredential` right is `Ahead`: a run whose own
credential is newer than what it was given either finds its own already in the
row, or what it was given is what the row has, its own is the newest, and all that
other runs have is older; the provider refuses those others. From that, a
comparison succeeds exactly for the run that has to win, and a late or repeated
report changes nothing. `TurnInv` bounds what a run has by what its row has and by
the newest; `RowInv` says that a row keeps its sign-in. That rows only move
forward follows from `TurnInv`.

*Services.* A connection can be stored by a callback, by a login, or by a refresh
that began long ago. `Backed` says, of each row and of each copy that a request
has, that it comes from a flow whose state one request has taken and saved, of the
user who may own it, with a token that was issued. `CallbackInv` adds that only one
request takes a state, `IdInv` that the guard on the row's id identifies the grant,
and `WriteInv` that with a provider that rotates, a request with an answer not yet
stored is the only one that can refresh: every other copy is of an older token.
With a provider that does not rotate there is one token (`OneTokenInv`).

The two parts share no variable, and a step of one leaves the other's invariant
alone (`CredentialKept`, `ServiceKept`). TLC had checked both in the `connections`
instance (212,764 and 780,398 states).

### What a turn starts from

`TurnStartProofs` proves of `TurnStart`, for every number of turns, claims, builds,
tries, changes and faults and every set of workers, plugins and versions, whichever
provider each worker is configured for (assumed are `PreparationAssumption`,
`MarketplaceAssumption` and `ConcernAssumption`: there is a turn, a claim, a build
and a try, bounds are natural numbers, a worker has one of the two providers, and
the kinds of faults are known; and `ScopeAssumption`: a scope says what changes, for
which workers, how often):

| Theorem | Statement |
| --- | --- |
| `StartTypes` | `StartSpec => []AllTypeOK` |
| `SuccessesAreRemembered` | `StartSpec => []SuccessIsRemembered` |
| `DiffsShowEveryEdit` | `StartSpec => []DiffShowsEveryEdit` |
| `ConversationMovesForward` | `StartSpec => TalkMovesForward` |
| `SessionsKeepTheirImage` | `StartSpec => []SessionKeepsItsImage` |
| `PluginsAlwaysAgree` | `StartSpec => []PluginsAgree` |

*The conversation* (`ConversationHolds`). A save says the whole conversation and
replaces what is stored, so a late one could take turns out of it. It does not,
because `saveSessionCheckpoint` accepts the active turn only, while it runs and
nobody parks the session. `MemoryInv` makes an invariant of that: while a turn
works, what its agent remembers is what is stored, or that and the turn itself
(`TalkInv`); every request that was given up and may still arrive either is of a
turn that is no longer active, or says just this (`Fits`); and a status "succeeded"
that is under way is of a turn already stored, since a runtime reports it only
after the save was answered. That a machine is the active turn's (`OrderInv`)
keeps the requests of two turns apart. What is remembered is in the order of the
turns (`Stories`), so that it is no longer than their number, as the types say.
`DiffInv` follows every baseline: those stored, given to a machine, found by it and
under way hide only turns that are `early`; and as long as the controller has none,
every edit in a checkout or a kept workspace is of an early turn, so that the next
baseline may be taken from there.

*The machine* (`MachineHolds`). `PinInv` says that image and provider are pinned in
one statement and that whoever starts, attaches or resumes a machine has the pinned
pair: an attempt that loses the race reads the winner's. `TemplateInv` gives each
template one purpose: the one a preflight test builds, and will delete, is nobody
else's, though builds of an image are shared by its attempts; it had to say that
the template under test exists, or a second test could be given the number of a
deleted one. `WindowInv` bounds each of the three reads of `resolvePluginsForRun` by
what was required, and what was approved, since the attempt began to read.
`RecordInv` says that a claim has one attempt, that the attempt which attached keeps
it, and that what it recorded stays unless an attempt that was overtaken records
after it.

The two parts share no variable. TLC had checked the invariants in the `turn_start`
instance, that of the conversation in 531,309 states and that of the machine in
677,474.

### What a browser and a trace show

`DisplayProofs` and `FeedProofs` prove, for any tools, any bounds on turns, texts, calls, events and
faults, and any number of turns of a session (assumed are `AgentAssumption` and
`DisplayAssumption`: the bounds are numbers, a page has a turn to show):

| Theorem | Statement |
| --- | --- |
| `PageHolds` | `DisplaySpec => []PageInv` |
| `NextIsSpared` | `DisplaySpec => []InterruptSparesNext` |
| `NothingIsHidden` | `DisplaySpec => NothingVanishes` |
| `AgentHolds` | `DisplaySpec => []AgentInv` |
| `CallsAreHeld` | `DisplaySpec => []StepsHoldTheirTools` |
| `FeedHolds` | `DisplaySpec => []FeedInv` |
| `ThoughtsComeFirst` | `DisplaySpec => []ThoughtsPrecedeAnswers` |
| `CallsHaveTheirLines` | `DisplaySpec => []CallsAreShown` |
| `ShownHolds` | `DisplaySpec => []ShownInv` |
| `FeedHasAll` | `DisplaySpec => []FeedHasEverything` |
| `NothingInTheFeedMoves` | `DisplaySpec => FeedOnlyGrows` |

*The page.* A request to cancel names a turn that the user gave up, and a turn that
was cancelled was given up (`SpareInv`); that is inductive, since a request keeps
its turn on its way. That nothing vanishes needs to know what a refresh may have
found: a turn that a client knows as active is still that or has ended (`Came`); a
refresh that found another turn active than the page follows read its session when
the page's turn was over (`Over`), thus after `atEnd`, and so reads all of its log
(`RefreshInv`); and nobody has read more of a log than there is (`CountInv`).

*The events.* `AgentInv` is about what was reported, be it in the log or late: each
event is in one place (`OnceInv`), and events of ascending numbers are of ascending
turns, a turn's beginning before all that is of it and its end behind all but the
status (`Follows`, `ProtocolInv`). It holds whatever is lost.

*The trace.* `WellMade` holds of every log: a step counts the spans of its open
calls, a call's span is in a step of its turn and not before it, and an ended step
has no open calls. `Timely` holds when all came in order: a step has ended or awaits
its calls only when its turn, or a later one, has ended in the log, so there is
never a second step of a turn; and a call of a step ends behind it only if a later
turn's end, logged behind the call's, closed the step as of that turn's beginning
(`closeEarlierSteps`, `AfterTurn`). Nothing is assumed of how far the queue lags:
`MaxWaiting` is any number, and the theorem does not use it.

*The feed.* `TextInv` says that the pieces in the blocks are those of the log, and
what `start` is: 0 when the present turn has no text, and otherwise the first block
of what came since a turn last began or ended. `Placed` says of the thoughts at some
block, once all earlier turns are over in the log, that the text of their turn is
below and that of earlier turns above. An event that is no text and no end of a turn
only adds or changes lines (`LinesOnly`); text is added at the bottom; thoughts are
put in at `start`, which moves what is below and keeps its order (`SameText`).

*The lines.* `CallsAreShown`, a part of `FeedHasEverything`, is proved of its own. A
call begins once, and only its beginning carries arguments (`CallsInv`); thus of
each kind a call has one line at most, and a review gets a second one only if its
beginning was logged behind its end (`LinesInv`). An event of another kind adds,
changes or shifts blocks that are no lines (`SameLines`).

*The feed as a whole* (`FeedProofs`). What is shown is computed by folds over the
blocks (`GroupWork`, `CollectFileChanges`, `FlattenSeq`), so the proofs rest on what
a fold does with one element more. The library defines its folds by a recursive
function on sets of places; that there is one is shown by induction over a set of
numbers (`UpTo`, `OneMore`, `FoldExists`), which needs no operator as a parameter.
From it follow `GroupMore`, `SummaryMore` and `FlatMore`: with a block more the
groups are those of before and one step of `Grouped`, the summary one step of
`MergeFileStat`, the text that of before and its own. `AllSummed` then says of every
sequence of blocks that the summary below its groups has each changed file once
with all its changes. `PlacesAre` says where a block is shown without the fold: alone
under its own key, or in the group of the line before it, or in one of its own.

What is particular to this feed is in `ShownInv`: blocks have keys of their own
(`Apart`), because a key holds the number of the event that pushed the block or, for
a line, its kind and call, of which there is one; `start` is at a text
(`StartsAtText`); and the text of the blocks is that of the log, white space where its
block is (`BlankTells`). One event (`EventFollows`) leaves all blocks as they are but
for text and status, or pushes one, or puts thoughts in at a text (`Moved`). What is
shown is a selection of the blocks (`Picks`), and `PlacesAre` is about it. The same
selection stays (`SamePicked`), or its last block is new because a text that was white
space no longer is (`LastPicked`), or what came in is shown (`NewPicked`): behind all,
or before the text, which is no line, so that no group is parted and no line gets
another one, unless the text is not among what is shown (`CameIn`, `PlacesGrow`,
`NothingMoves`).

### What is not proved

Only model-checked: the liveness properties (`QueuedRunEnds`,
`RecordedMachineIsReclaimed`, `QueuedTurnStarts`, `SuspendedSourcesGo`,
`ExpiredCheckpointGoes`, `DeliveryIsSettled`, `ReadersFinish`), which the proof
system's backends do not reach; `NothingIsLeaked` with lost replies, races, pauses
or refusals (see above). Every other property of the passing runs is a theorem.

## Where code and documentation disagree

Only the first is kept as a run; the others say how to see them again.

1. *A session that stays stuck.* When a turn ends between its attach and
   `markRunning`, the worker stops the machine and sets `sandbox_stopped_at`
   (`reconcile/provision.ts:221-240`). `findSessionRunsToPark` and
   `prepareSessionParking` skip stamped runs, so the session keeps the ended
   turn as its active one and no follow-up is promoted, against
   `docs/resumability.md:42` (`stuck_session`).
2. *A slow preparation is taken for silence.* The comment on `markRunning`
   (`db/runs.ts:175`) promises that a slow image or runtime preparation does
   not look silent. `findSilentRuns` (`db/runs.ts:377-405`) also selects
   `provisioning` rows with a sandbox and falls back to `claimed_at`; a run
   whose runtime is still being installed when the timeout has passed since
   the claim is failed. In `RunLifecycle`, without a fault, a row that is
   provisioning is picked as silent. The silence and deadline batches are also
   failed without asking again, so a run that reports between the query and the
   update is failed as silent.
3. *A claim left behind.* A crash in `expireWorkspace` after
   `clearSessionWorkspace` leaves `session_operation = 'expiring'`.
   `releaseStaleReconcilerOperations` (`db/session-operations.ts:21`) releases
   the other two kinds only, and the expiry query needs a checkpoint. Owed
   deletions wait, against `docs/resumability.md:44`, and a deletion of the
   session is refused, until somebody posts a follow-up (`SessionParking` with
   `crash`: the checkpoint that a row names as replaced may stay for ever). An
   archiving claim that a crash left is never released by the reconciler either;
   parking and expiry wait for a new turn or another deletion.
4. *A committed checkpoint deleted.* When the reply of the parking transaction
   is lost, `cleanupUncommittedWorkspace` takes the commit for failed. If the
   commit recorded a superseded checkpoint there is no room for a marker, and
   the new checkpoint is deleted unconditionally
   (`reconcile/session-parking.ts:183-192`), against `docs/resumability.md:84`
   (`crashes` with `FaultKinds = {"lostreply"}` fails).
5. *Two holders.* A holder whose heartbeats stopped runs
   `cleanupUnownedWorkspace` without a claim and may delete the checkpoint its
   successor has just committed at the same path, although
   `docs/resumability.md:31` says a stale pass cannot overlap (`crashes` with
   `pause` and two reconcilers fails).
6. *Leaked checkpoints.* A crash between suspending and committing with a
   refused suspension in the retry, a stamp by the worker while the reconciler
   suspends (`race`), or a deletion of the session after a crash between
   suspending and committing, leave a checkpoint that nothing records. A
   deletion also loses markers that were written between its reading and its
   claim (`http/sessions.ts:227-232`). This is why `deletion` checks machines and
   the session's own checkpoint, and `NothingIsLeaked` is checked by `crashes`.
7. *A workspace without its checkout.* A turn that is cancelled, or fails, before
   its first clone is complete is parked with the workspace as it is. Every
   follow-up resumes it and fails with "the provider resumed a workspace without
   the repository checkout" (`packages/runtime/workspace.ts:345`), until the
   checkpoint expires; a clone that was cut short passes for a checkout.
   `docs/resumability.md:83` says that a missing or corrupt checkpoint
   cold-starts.
8. *A baseline that comes late.* `packages/runtime/run.ts:36-38` promises that
   later turns diff from the session's first revision. When the report of it is
   lost in all attempts, or refused because parking was claimed (the handler
   answers 200 all the same), the next turn's baseline contains the edits of the
   turn before; `DiffShowsEveryEdit` exempts it (`early`).
9. *A plugin's lost refresh token.* `storeTokens` of `plugins/oauth.ts:316-318`
   writes null when the provider's answer has no new refresh token, so that the
   connection cannot be refreshed again; the forges keep the old one. (The plugins of the model
   are sent a new one each time.)
10. *A sign-in that was superseded.* `docs/model-connections.md` says starting
    another sign-in supersedes the attempt before. An attempt that is past its
    login stores its connection all the same, and two that overlap may leave two
    live rows where the same page promises one connection per provider.
11. *The wrong turn cancelled.* "Remove from queue" on a page that is a second
    old cancels a turn that has begun meanwhile (`SessionQueue.tsx:25-27`,
    `http/runs.ts:86-99`). "Interrupt and send next" does not harm the message
    it is about (`InterruptSparesNext`).
12. *Early deletion.* `docs/adding-an-integration.md:50` says the unique origin on
    the run makes recovery after queueing idempotent. The origin goes with the
    run when the user deletes the session, so a delivery whose lease then runs
    out is claimed again and queues a second run (`OneRunPerDelivery` fails with
    `{"early_delete", "lostreply"}` and two faults).

Smaller ones, by which no property is violated.

*Deliveries and publications.* `isUniqueViolation` (`commands/session.ts:254`)
looks for the code on the error itself; a database library that wraps driver
errors keeps it on the cause, and both catch branches are then skipped. The model
allows both; the price is an attempt. The comment at
`packages/runtime/reporter.ts:38` makes the callback wait longer than one provider
request; a publication makes two, so that the request may be repeated while the
first owns the row. The repetition is refused and `OnePost` holds. A delivery may
be marked `ignored` although an earlier claim of it queued a run, when the policy
or the installation changed in between.

*Log and export.* `web/lib/useRun.ts:64` says only persisted status events join
the feed. An EventSource keeps the last id when a frame has none, so after an
event nobody listens to (`plugins.attached`) a derived status frame is taken for a
persisted one and shown under that event's number; `BrowserSeesTheLog` is about
the other entries. `packages/runtime/reporter.ts:54` chains the calls so that
sequence numbers follow what happened; a handler that outlives the timeout appends
after its successors, or after the end that the browser was told.
`db/observability.ts:49` promises that two controllers never work one export
twice; the result of a claim that grew stale is guarded by the status alone and
can give back the row its successor holds. A claim is also counted when its holder
dies, without a limit: `MAX_EXPORT_ATTEMPTS` is compared when a row is given back.
A row that is given back in the loop that claims may be claimed again by the same
loop, which can use up its attempts at once.

*Feed and trace.* A thought of a turn without text is shown after its tools; edits
that failed are counted as changes; a late "running" shows a tool that runs for
ever, and its span lasts to the end of the trace; a late "running" of a review
makes two lines. A turn whose text is white space so far is shown as none, and the
lines before and behind it as one group; when its thoughts come they are put in before
that text and part the group, whose second part gets a key of its own. A step with
calls stays open until the end of the next turn, which ends it as of that
turn's beginning. That time is the sandbox's, and the last rows of the step are
usually inserted after it, so that in an ordinary run the step ends before the spans
of its last calls do, and may end before its own first row (how a span is exported
that ends before it starts is up to the OpenTelemetry library), although
`apps/controller/README.md:34` says that the projection reconstructs "run, step, turn,
and tool span nesting"; `StepsHoldTheirTools` says how far it does. A late
end of an earlier turn becomes the run's output. `agent.turn_start` is a debug
event, although `docs/operations.md:169` shows it in every healthy run.

*Page.* A lost answer to a follow-up that is sent again makes two turns. A refresh
that is skipped because another is under way may miss the turn just made until the
next poll. The session row is read before the runs, so a turn may vanish for one
poll (`NothingVanishes` exempts a page that begins to follow a turn, and events
logged after the session left it).

*Plugins and images.* Several approved versions of one plugin attach together.
While an artifact is replaced a required plugin is skipped or fails the attempt,
and a reseeded one has its new status with the old mode for a moment. A yanked
plugin cannot be uninstalled. `setRunPlugins` asks for no claim, so an attempt that
was overtaken may record last, against `docs/operations.md:236`
(`RecordedIsAttached` exempts it). A plugin refresh that finishes after the
uninstalling makes the row anew.

*Conversation.* A failed turn leaves edits that the conversation does not
remember; a cold resume loses edits that it does. On a resumed workspace the
baseline is not fetched, so the diff of a follow-up may fail for a revision that is
not there.

## Inventory

The parts of the system, what they keep, how they meet, what is hard about
them, and what makes them correct. `PROJECT.json` lists them with their status.

**Run queue, provisioning, teardown** (`db/runs.ts`, `db/provisioning.ts`,
`reconcile/`). State: the `runs` table. Operations: create, claim
(`FOR UPDATE SKIP LOCKED`, oldest first), renew, attach, mark running, requeue,
fail, complete, append event, stop and stamp. Meets the providers by calls with
a callback, the runtime by HTTP, itself (other replicas) by the table. Hard:
stale workers, stale batches, crashes, lost answers. Correct when: see
`RunLifecycle`.

**Sessions and parking** (`db/sessions.ts`, `reconcile/session-parking.ts` and
the like). State: the `sessions` table, markers on `runs`, artifacts at the
provider. Operations: create, follow up, park, expire, replace, finalize,
delete. Hard: two stores (database and provider) without a common transaction,
a claim whose holder may be alive when it is taken. Correct when: see
`SessionParking` and `SessionDeletion`.

**GitHub deliveries** (`integrations/github.ts`, `db/integrations.ts`,
`commands/session.ts`). State: delivery inbox, bindings of pull requests to
sessions. Operations: record by delivery id, claim with a lease, project, start
a command, finish, retry. Hard: redelivery, slow processing, a crash between the
command and the finish. Correct when one delivery makes at most one turn and
none is lost: see `DeliveryInbox`.

**GitHub publications** (`http/internal.ts`, `db/integrations.ts`). State: one
publication per run and kind. Operations: begin, call GitHub, finish published,
failed or uncertain. Hard: a lost answer of a call that must not be repeated.
Correct when at most one comment or review is published and an uncertain one is
never repeated: see `Publication`.

**Event log and live stream** (`appendEvent`, `http/runs.ts`, `useRun.ts`,
`runtime/reporter.ts`). State: `run_events` with a sequence number per run, the
runtime's queue of calls, a cursor in every reader. Hard: calls repeated while
the first is at work, a read that races an append, the terminal status ends the
stream. Correct when every reader sees every event once and in order, and the
stream ends only after what led to the end: see `EventLog`.

**Observability export** (`observability.ts`, `db/observability.ts`). State:
one export row per run and destination with claim and attempts. Hard: a claim that
grows stale under a live worker, a crash with a batch. Correct when what is marked
as exported is complete and nothing is forgotten: see `ObservabilityExport`.

**Model connections** (`llm/`, `db/llm-connections.ts`,
`runtime/oauth-credential.ts`). State: encrypted credentials by revision, copies in
runtimes, sign-ins in memory. Hard: rotating refresh tokens and several
refreshers, revisions purged while runs need them. Correct when a newer credential
is never lost to an older one: see `ModelCredentials`.

**Forge and plugin OAuth** (`vcs/connections.ts`, `plugins/oauth.ts`). State:
one-shot authorization states, tokens, registered clients. Hard: overlapping
callbacks and refreshes. Correct when a connection is its owner's and its token a
live one: see `OAuthConnections`.

**Plugins and images** (`plugins/`, `db/session-images.ts`,
`http/environments.ts`). State: catalogue, artifacts, install modes, user rows,
pinned image, templates. Hard: everything is read one statement at a time, by
attempts that overlap. Correct when a session keeps its machine and its turns get
the plugins that are set: see `Marketplace` and `Preparation`.

**Runtime** (`packages/runtime`). State: checkout, conversation and its
checkpoint in the controller, diff baseline. Hard: reports lost or late, an end at
any step. Correct when a turn continues what was last saved and its diff hides
nothing: see `Conversation`, `AgentEvents`.

**Web application** (`apps/web`). State: what a page holds of session, turns and
events. Hard: several requests for one picture, clicks about the past. Correct
when nothing is lost, doubled or hit by mistake: see `ActivityFeed`,
`SessionPage`.

*Not modelled.* Encryption (stateless), configuration and routing, the review
policy and repository lists (queries), VCS clients (HTTP clients of services),
the form of plugin packages and Dockerfiles, git and the agent library (external),
the network policy of the sandboxes, default connections and API keys, titles and
pins, settings pages and the diff sidebar, and the migrations, which are generated
from the schema.

## Plan

1. The run, the session, the deliveries, the telemetry: done.
2. Credentials and OAuth, what turns start from, deletion, the views: done.
3. `RunLifecycle` proved to implement `RunPromise`, `Integration` to implement
   `IntegrationPromise`, `BrowserSeesTheLog` and `ExportIsComplete` proved: done.
4. The safety of sessions, their deletion, connections, what turns start from, and
   of what a browser and a trace show proved: done.
5. The folds of the feed: done.
6. To do: a proof of `NothingIsLeaked` with lost replies; `SessionParking` with the
   provider whose machine and checkpoint share one id (e2b); several sessions in one
   tick.

## What the models leave out

Time is ordinal: no bound on how long anything takes is stated. Requeueing an
expired lease is not bounded by `MAX_ATTEMPTS` in the code; the model bounds it
by `MaxClaims`. A database error is modelled where the code reacts to it with
compensating work (parking) and otherwise as the crash or abandonment of the
process that met it; two database failures in a row inside
`cleanupUncommittedWorkspace` are not. `deleteMarkedWorkspace` reads the run and
the session in two statements, which the model takes together. A tick works
through its branches in order; the model lets the branches interleave freely,
which allows more behaviours, and has one session, so that a branch that throws
out of the tick delays nobody. `NOTIFY` is a wake-up only.

In `DeliveryInbox` the projection is reduced to whether it yields a command and
for which pull request; what that command says and how a user binds an
installation are left out. In `ModelCredentials` which row is the default is:
two concurrent creations may leave two defaults or none. In `OAuthConnections` a
token and the variable that goes with it are stored in two statements, which are
taken together, and a forge that rotates its tokens does so always. In
`Preparation` a plugin has no skills, which reach the first turn's prompt only,
and a pinned template is found again without asking. In `Conversation` an unborn
HEAD, commits that come from upstream and the truncation of diffs are left out. When
all tries to report `done` fail the code goes on to report `error`
(`run.ts:52-57`), where the model's runtime exits (`Status`); and a fetch or reset
that fails behind a clone that succeeded leaves a checkout at another HEAD
(`workspace.ts:395-434`), where the model has none (`CloneFreshC`). In `Views` empty
pieces of text, which the feed ignores, the arguments of invalid reviews and the spans
of debug events are left out. The clocks of the sandbox and of the database are taken
to agree, and a turn that began before the first row is taken to begin with it.
`SessionPage` has the stream always connected (`EventLog` has it break) and
tells of a row only whether it is queued, has begun or is gone.
