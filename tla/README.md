# QBIT Connect: verification project

TLA+ models, model-checking runs and machine-checked proofs for the backend of QBIT
Connect (`src/backend/app`), a platform that scrapes leads, stores them, sends
campaigns to them over WhatsApp and e-mail, and keeps the conversations. Paths below
are relative to `src/backend/app`.

1. The system
2. The modules
3. The runs: what they show, bounds, deadlock, fairness
4. Known exceptions: what the code does not keep
5. The refinement
6. The proofs
7. Not modelled
8. Plan

## 1. The system

Two kinds of processes share one SQL database and, optionally, Redis:

* the **API process** (FastAPI; `api/v1`, and the server-rendered pages of `ui`)
  handles requests concurrently on one event loop;
* **worker processes** (`worker.py`) run independent loops: the scrape dequeue loop
  with its job tasks and recovery sweep, data jobs, campaigns, the inbox outbox,
  automation, analytics and reports, schedules, run webhooks, actor health, backups.

Two facts about the database layer shape everything (`db/session.py`). Sessions use
`expire_on_commit=False, autoflush=False`: an object keeps what was loaded, and a
commit writes the columns that were assigned, whatever the row has become since. And
only a few statements are guarded (`UPDATE ... WHERE status IN ...`): the claim of a
scrape job, of queue items and of workflow executions, the bulk updates of a
campaign's cancel. Every other handler is a read, some awaits and a blind write, and
that is how the models treat it: two steps, with the loaded row kept by the process.

| Component | State | Operations | Interacts with | What makes it correct |
|---|---|---|---|---|
| Scrape jobs (`services/scraping/engine, queue, runner`) | `scrape_jobs` row with status, stop request, lease; queue list, delayed set, control keys | create, pause, resume, cancel, retry; claim, heartbeat, finish, delayed retry; sweep | API, worker, Redis | one execution per job; terminal jobs stay; crashes and lost messages are recovered |
| Schedules, run webhooks (`scheduling, run_webhooks`) | `scrape_schedules`, `run_webhook_deliveries` | claim due, mark outcome; emit, deliver, back off | worker, job engine | limits hold, failing schedules stop, verdicts are true |
| Campaigns (`services/marketing/campaign, audience, queue, worker`) | `campaigns`, `campaign_recipients`, `campaign_queue` rows | launch, pause, resume, cancel, archive; snapshot, eligibility, enqueue; claim, send, retry, complete | API, UI, worker, providers, leads, suppression | one message per recipient; everybody gets a verdict; campaigns end |
| Delivery events, suppression (`state, webhooks, webhooks_email, suppression, unsubscribe`) | recipient status, `provider_events`, suppression entries, opt-outs, tokens | webhook handlers; opt out, add, remove | providers, campaigns, inbox | status moves forward only; duplicates do nothing; opt-outs are enforced |
| Inbox (`services/inbox`) | conversations, messages, outbox | ingest, reply, send, assign, close, link | webhooks, providers, leads | stored once, nothing goes unnoticed, replies sent once |
| Automation (`automation`) | workflows, versions, executions, waits | edit, publish; dispatch, step, wait, retry | leads, campaigns, inbox | an event starts a workflow once; actions happen once; executions end |
| Leads (`services/leads`) | leads, tags, candidates, import and export jobs | create, merge, tag, import, export, bulk edit | everything | merges lead to a survivor; jobs end and neither lose nor repeat rows |
| Accounts (`login_guard`, sessions, invitations, keys) | users, sessions, counters | log in, revoke, invite | API | revoked is revoked; guessing locks; somebody administers |
| Authorization (`authorization`, `rbac`), API, UI | roles, permissions, teams; the request's session | gate, handler, audit | all | refusals leave nothing; what is confirmed is kept; the views of one rule agree |
| Results, orchestration, templates, analytics, storage, backup | rows, files | queries, I/O | all | see section 7 |

Hard behaviours: handlers that overwrite each other's rows; workers that die between
an effect and its commit; leases that expire under a live or after a dead worker;
broker calls that fail after the database commit; a UI request that launches the
campaign a worker is launching; sweeps that fail a job that is only slow; loops that
an exception ends. The list with lines is under `hazards` in `PROJECT.json`.

## 2. The modules

| Module | Models |
|---|---|
| `ScrapeJobs` | scrape jobs, queue backend, operator requests, runner, recovery sweep |
| `JobLifecycle` | abstract specification of one scrape job |
| `ScrapeJobsLifecycle` | the mapping under which `ScrapeJobs` implements it |
| `ScrapeJobsProofs`, `ScrapeLifecycleProofs` | theorems about the three |
| `CampaignDeliveryProofs` | theorems about `CampaignDelivery` and its refinement |
| `ReplyOutboxProofs`, `WorkflowExecutionsProofs` | theorems about the module named |
| `BackgroundProofs` | theorems about `RecipientEvents`, `ScheduledRuns` |
| `WorkspaceProofs` | theorems about `WorkflowVersions`, `Leads`, `DataJobs` |
| `PeopleProofs` | theorems about `Accounts`, `Visibility`, `Inbox` |
| `CampaignDelivery` | campaign life cycle, launch, send queue, worker cycle |
| `RecipientFate` | abstract specification of one recipient of a campaign |
| `CampaignDeliveryFate` | the mapping under which `CampaignDelivery` implements it |
| `RecipientEvents` | delivery webhooks, replies, suppression list, opt-outs |
| `ReplyOutbox` | replies of the inbox and their delivery loop |
| `Inbox` | conversations: inbound messages, agents, matching to leads |
| `WorkflowExecutions` | automation: dispatch and execution |
| `WorkflowVersions` | automation: drafts, publication, archive |
| `WorkflowRules` | automation: graph validator, schedule slots, business hours |
| `Leads` | lead workspace, duplicates, merge, tags |
| `DataJobs` | lead imports and exports |
| `ScheduledRuns` | scrape schedules and run webhooks |
| `Accounts` | sign-in, sessions, keys, user administration, invitations |
| `AccessRules` | roles and permissions; the steps handlers are made of |
| `ApiRoutes`, `UiRoutes` | the handlers of the API and of the pages as steps |
| `Requests` | one request through the gate and the steps of its handler |
| `Visibility` | which rows a member sees, in the code's three versions |
| `MCScrapeJobs`, `MCCampaignDelivery`, `MCBackground`, `MCPeople`, `MCWorkspace`, `MCProgress` | instances for TLC |

Each specification also defines mutants: operators named after the definition they
distort (`ClaimUnguarded`, `DrainedOfWaiting`), which no action uses. Replacing the
definition by its mutant makes the property listed beside it fail, which shows that
the property depends on that code.

Conventions shared by the modules: a request or worker that loads a row keeps its
copy (`seen`, `row`) and its commit writes the columns it changed into the current
row. A **history variable** (`suspect`, `overtaken`, `misordered`, `lateMerges`,
`overrun`, ...) collects the rows to which happened what the code does not defend
against: a write from an out-of-date copy, a lease that ran out under a live worker, a
provider's answer that got lost. No action reads these variables. Safety is claimed
for all other rows, and section 4 says what happens to these.

### ScrapeJobs

`row[j]` is the committed `scrape_jobs` row (status, stop request, age of the lease,
lease owner); `ready`, `delayed` and `control` are the Redis list, sorted set and
control keys; `req`, `task` and `sweep` are what an API request, a job task and a
recovery sweep have in hand, each with the row it loaded (`seen`). `Flush` is the unit
of work: it writes the columns that differ from the loaded ones. One action per step
between awaits:

* requests: `CreateJob`, `LoadJob` (status check), `CommitRequest` (`transition`),
  `SignalControl`, `ClearControl`, `EnqueueJob`; `LoseRequest` is the failed broker call;
* tasks: `Dequeue`, `Claim` (the guarded UPDATE) or `SkipMessage`, `StopAtSafePoint`,
  `ActorEnds`, `ReloadRow`, `RecordOutcome`, `DropControl`, `RequeueDelayed`,
  `Heartbeat`, `TaskAborts`, `WorkerCrash`;
* sweep: `SweepStalled`, `RequeueStalled`, `SweepQueued`, `SweepEnqueue`, `SweepDies`.

With `Backend = "inprocess"` the API's queue and control keys are invisible to the
worker, which finds QUEUED rows by `DiscoverQueued`. The history variable `suspect`
collects the jobs whose status was written from an out-of-date row or whose lease
ran out under a live task.

### CampaignDelivery

`camp`, `rcpt` and `item` are the three rows; `item[r].expired` says that the lease
is past its age. `proc[p]` is what a process has in hand: a client runs one request
(`LoadCampaign`, `RequestLaunch` or `CommitRequest`, `CancelPending`,
`CancelRecipients`), a worker runs `process_cycle` (`StartCycle` ... `CycleDone`), and
both run the launch pipeline (`CheckSnapshot`, `Snapshot`, `LoadPending`,
`MarkEligibility`, `EnqueueItems`, `StartRunning`), because the UI launches inline. A
send is `CheckCampaign`, `PreSend` (account health, rate gate, suppression, template),
`BeginSending`, `ProviderSend`, then `RecordSent`, or `FailItem` and `FailRecipient`,
each a commit of its own as in the code. A provider is its answers: accepted, refused
for now, refused for good, and accepted with the answer lost. `sent` counts what the
provider accepted. Histories: `suspect` (recipients whose lease, answer or launch was
lost, or whose status a launch wrote from an out-of-date row) and `raced` (campaigns
whose status was written from one).

Abstracted: editing and validating drafts (they only decide whether a launch passes);
batch limits (any non-empty part of the claimable items may be the batch; three
launches and ten completions per cycle are more than the instances have); times
(due, backoff and lease ages become choices); message contents. `Snapshot` assumes
that an audience does not lose all its leads between two concurrent launches, so the
second one always meets the unique constraint.

### RecipientEvents

A recipient after the provider took its message. `ProviderAccepts` and
`WorkerCommitsSent` are the send as far as webhooks can see it: between the two, an
event finds no message id and is stored but never applied. `WebhookLoad` and
`WebhookCommit` are the WhatsApp and the e-mail handler (`AfterDelivery`;
`CanTransition` is the table of `state.py`), `events` is the unique table that makes a
repeated event do nothing. `ConfirmOptOut`/`RecordOptOut`,
`AddSuppressionLoad`/`AddSuppression` and `RemovalLoad`/`RemoveSuppression` are the
suppression list's writers.

### ReplyOutbox

`message` and `outbox` are the two rows of a reply. `ClaimSelect` and `ClaimCommit`
are the claim, which is a SELECT followed by a plain write; `DeliverStart`,
`ProviderAnswers`, `DeliverSent`, `Fail` the delivery; `DeliverSettled` the check for
replies that are done; `DeliverRaises` the exception path of the loop, `OutboxCrash` a
dead worker, `LeaseExpires` the age of a claim. Requests queue (`client_message_id` makes a
double click harmless) and retry replies, and handle delivery events, each as load
and commit.

### Inbox

`conv` are the conversations of one contact, `stored` the messages, `threads` the
order of the last messages. `IngestLoad`/`IngestCommit` (inbound webhooks) and
`OutboundLoad`/`OutboundCommit` (campaign sends) join or open a conversation, match
the contact to leads, count unread, reopen. `AgentLoad`/`AgentCommit` are the
operations of the workspace one at a time or in bulk, `AssignConversation`,
`CreateLeadFromConversation`, `DeleteLead` what their names say; `RequestRollsBack` a
request that raises or dies.

### WorkflowExecutions, WorkflowVersions, WorkflowRules

`execution` is the table that is also the queue. `DispatchLoad`/`DispatchCommit` start
an execution per event and workflow, unless the causation or the window limit says no.
`ResumeDueWaits`, `RecoverStaleLeases`, `ClaimBatch` (guarded), `PickExecution`,
`RunLoad`, `ActCommit`, `NodeCommit`, `FailExecution` are one cycle of a worker. A node
is one of TRIGGER, CONDITION, WAIT, END, and three kinds of action by where its
effect is committed: LEAD with the node's own commit, SEND under an idempotency key,
CONVERSATION before the node. A lead action emits an event, which may start a
workflow again. Operators cancel and retry, from the API or the UI.

`WorkflowVersions` has a load and a commit for every editor operation. `WorkflowRules`
takes one input per behaviour and answers it with the code's algorithm. A definition is
a list of nodes, put together by `AddNode`, in which an id may be missing or occur twice;
`ValidateGraph` has the checks of `validate_graph` on it: length, trigger, END, ids, the
edges of each type of node with the branches and the default of a BRANCH, depth-first
cycle search, reachability, an END on every path. ACTION stands for WAIT too, whose edges
are the same; what a node needs besides its edges is taken to be there. `CurrentSlot` and
`Fires` are a schedule's slot and the cycle's decision to fire. `ShiftToBusinessHours`
takes any business hours: days that are none, an opening after the closing, times that
do not exist. Time zones are left out (a window is in UTC), `days` is taken to be a list,
and a node without business hours is not shifted.

### Leads, DataJobs

`lead` has what merging, matching and tags depend on: status, e-mail and its match
key, the lead it was merged into, the mirror of its tags; `assigned` and `tag` are the
tables of assignments and tags. Operations overlap as load and commit:
`ScanLoad`/`RecordCandidate`, `MergeLoad`/`MergeCommit`, `EditLoad`/`EditCommit`, an
ingested item that meets a known lead (`SeenLoad`/`SeenCommit`, whose load is as old as
the pipeline's batch), an imported row under UPDATE_EXISTING
(`ImportLoad`/`ImportCommit`, with the tags of the file), and
`AssignLoad`/`UnassignLoad`/`DeleteLoad` with `TagCommit`. `RenameTag` is the first
transaction of a rename, `RenameLoad` and `TagCommit` the second, which may never come
(`ClerkFails`). `RefreshMirror` computes the tags column from what a request read, and
`WriteTags` applies what the database does: unique names and assignments, cascades. A
request that creates a tag on the way (`Ensured`) sees it before the others do.
`CreateTag`, creation of a lead, bulk status, deletion and reviews are single commits.

`DataJobs`: a batch is uploaded (`StartImport`), mapped by the page (`MapImportPage`,
which leaves it to a worker) or by the API (`MapImport`, which runs it inline), claimed
(`Claim`), run in chunks (`MatchRow`, `FlushRow`, `RejectRow`, `WriteChunk`), finished, or
failed by an exception (`FailRun`) or by `SweepStale`. Exports read pages by offset
while leads leave the filter (`RetireLead`).

### ScheduledRuns

`ScheduleTick` goes through claim, job creation and outcome of a due schedule, on the
copy it loaded: `ClaimLoad` and `ClaimAdvance` are the claim, `FireSchedule` is the call
as the code makes it, with positional arguments to a keyword-only function, so that it
always raises; the failure is recorded on a row loaded anew (`FireSchedule`) and committed
later (`MarkOutcome`). `RowLost` is a schedule deleted in between. `DeliverLoad`, `PostOne`, `DeliverCommit`: a batch of webhooks is posted one
by one and committed once.

### Accounts

`users`, `tokens` (session tokens and API keys with their session rows), `invites`.
Sign-in is `LoginLoad`, then `LoginLocked`, `RegisterFailure` or `RegisterSuccess`, then
`LoginIssue`; administration is `AdminLoad` and the commit of its operation, accepting an
invitation `AcceptLoad` and `CreateCommit`, with the super administrator counted on the
loaded state.

### AccessRules, ApiRoutes, UiRoutes, Requests, Visibility

`ROLE_PERMISSIONS` and the scope rules of API keys are the tables of `rbac.py` and
`api/deps.py`. A handler is a sequence of steps: look (404), scope (visibility), check,
permission, write, commit, audit, effect, refuse, fail. `ApiRoutes` and `UiRoutes` hold
one row for every path through every handler of `api/v1` and every page that changes
something, in the order in which the code takes the steps; a table and not an
action per handler, because what differs between handlers is only that order.
`Requests` interprets them in one session: a raise or a death at any point loses what
is not committed, and the audit service swallows its own failure with a rollback that
takes the pending writes along.

`Visibility` keeps the rule's three versions as the code has them
(`VisibilityClause`, `ApplyVisibility`, `GetVisible`) and compares a search with
opening the row by its id.

## 3. The runs

| Run | Asks | Properties |
|---|---|---|
| `scrape_control` | one job, two tasks, two requests of any kind, sweep, no faults | `TypeOK`, `ImplementsLifecycle` |
| `scrape_recovery` | two workers and sweeps, one crash, one lost broker call | `SingleExecution`, `ExecutorHoldsLease`, `TerminalIsFinal` |
| `scrape_liveness` | Redis, one lost call, one crash, one request | `QueuedIsServed`, `RunningEnds`, `ResumeIsServed` |
| `scrape_inprocess` | the in-process backend, one crash, one request | `QueuedIsServed` |
| `campaign_send` | one recipient, two workers, every request and finding, one fault | `TypeOK`, `ItemHeldOnce`, `AtMostOneSend`, `ImplementsFate` |
| `campaign_batch` | two recipients, partial batches, one fault, a pause | `UndecidedIsQueued`, `CompletedHasVerdicts` |
| `campaign_live` | one worker, retries, three requests, no faults | `QueuedIsLaunched`, `RunningDrains` |
| `background` | webhooks, executions, replies, schedules, run webhooks: safety | `EventsInv`, `ExecutionsInv`, `ReplyInv`, `ScheduledInv`, `RecipientMovesForward`, `EventStartsOnce`, `NoDuplicateReply`, `DeliveryMovesForward` |
| `progress` | replies and executions: they end | `CausationBounded`, `NoDuplicateReply`, `ReplyEnds`, `EveryExecutionEnds` |
| `people` | requests, visibility, accounts, inbox | `RequestsInv`, `SearchAgreesWithOpen`, `AccountsInv`, `InboxInv` |
| `workspace` | workflow editing, rules, leads, data jobs | `FlowsInv`, `PublishedFrozen`, `RulesInv`, `LeadsInv`, `ReviewsKept`, `JobsInv`, `FinishedStays` |
| `schedule_v_job` | expected violation: one schedule, one live worker | `ClaimGetsJob` |

`background`, `people`, `workspace` and `progress` check several specifications that
keep different tables and do not meet within the instance. A constant variable `part`
says which one a behaviour is about; the others stand still in their initial state.
The state space is the sum of those of the parts and not their product, and a
property of one part is not weakened by the others. Where components do meet, one
module has both sides: operators, runner, sweep and broker in `ScrapeJobs`; UI launch,
workers, suppression and provider in `CampaignDelivery`; webhooks, campaign sends and
agents in `Inbox`; actions that start workflows in `WorkflowExecutions`.

The invariants named `...Inv` are conjunctions of a type invariant and of parts that
are stated one by one in the modules:

* `EventsInv`: `StatusReflectsEvents` (the status is never behind an applied event),
  `OptOutHasEntry` (an opt-out on record is enforced, whatever is removed).
* `ExecutionsInv`: `SendOncePerNode`, `LeadActionOnce`, `OneRunner`.
* `ReplyInv`: `FailedNotSent` (what is offered for a retry was not sent).
* `ScheduledInv`: `ClaimsWithinLimit`, `FailingIsDisabled`, `WebhookVerdictTrue`.
* `RequestsInv`: `RefusalLeavesNothing`, `SuccessIsKept`, `ViewersOnlyRead`, `TrailIsTrue`.
* `AccountsInv`: `EndedStaysEnded`, `FailuresLock`, `SuperAdminRemains`,
  `AccountCreatedOnce`.
* `InboxInv`: `InboundStoredOnce`, `NothingGoesUnnoticed`, `LinkedIsMatched`.
* `FlowsInv`: `ActiveHasPublished`. `JobsInv`: `RowImportedOnce`, `ExportIsComplete`.
* `RulesInv`: `AcceptedGraphRuns`, `SlotIsLatest`, `WaitIsNotShortened`, each against a
  reference definition (`Reach`, `LatestSlot`, `InWindow`).
* `LeadsInv`: `RetiredHasSurvivor`, `KeyIsOwn`, `MirrorShowsTags`.

**The violation.** `schedule_v_job`: `scheduling.py:8` promises that a periodic loop
"claims due rows ..., creates the scrape job". `_fire_schedule` (`worker.py:272`) calls
`create_job` with positional arguments, which its signature (`engine.py:91`) does not
take: every firing raises a TypeError, no schedule ever creates a job, and after
`MAX_CONSECUTIVE_FAILURES` claims it is disabled.

**Bounds.** One job, one campaign, one reply, one contact, one workflow: such rows
share no state except worker slots and batches. Two processes are the smallest number
that race; two recipients the smallest for which one can be stale while another is
claimed; three leads the smallest for which merges chain or close a circle; two events
let a workflow start itself once more than the causation limit allows. Two requests
make a pair race; three give pause, resume and cancel in sequence; with one request
(`scrape_liveness`) a resume still follows the pause of a job that ran out of its
deadline. One fault and one lost call: every recovery path starts with one;
combinations of two faults are not explored. Attempt limits of 2 let a thing be
retried once and then fail. `MaxMessages` caps the copies of a job id in the queue; an
enqueue over the cap waits. `Definition` in `background` has a lead action and a send,
in `progress` a condition, a wait, a conversation action and an action that starts the
workflow again: together every kind of node. Definitions of up to three nodes contain every
shape the validator tells apart (missing target, unreachable, cyclic, dead end, shared
successor, an id twice), but one branching node at most in a definition that is accepted,
and no definition whose only mistake is a BRANCH to a node that is missing: that takes
four ids. The theorem `RulesInvHolds` has no such bound. `Hour` 2 and `Day` 6 scale the clock down; boundaries
are hit by every minute of two days and every pair of times of a window. In `workspace`
the leads, addresses, tags and operations of one behaviour are six together (`MaxBook`),
and of the addresses and tags that nothing mentions yet the lowest is taken first: no
action tells them apart. So three operations meet three leads, two leads and a tag, or
a lead, a tag and an address: enough for merges to cross and for a rename's second commit
to meet an assignment. Without any one of the updates of the three histories of `Leads`
TLC finds `LeadsInv` violated within these bounds. `people` runs every handler path under every role.

**Deadlock** is checked in the campaign runs (the workers' cycle never stops). The
other runs turn it off: with everything finished and the request bound used up, the
system rests.

**Fairness.** Weak fairness for the steps of a request, a task and a worker's cycle:
the event loop runs every ready coroutine, and an actor or a provider call has a
timeout. Weak fairness for the ageing of leases, the end of waits and for sweeps,
which are timers; in `progress` a lease of the outbox is only certain to age once
nobody delivers the reply. Strong fairness for the scrape sweep's selection of a
QUEUED row and for a campaign worker's claim of a batch: each may find the row too
young or in backoff in one round, but not in every round. No fairness for operators,
faults, webhooks, events or lookups of disabled actors, nor for the change of leads.
`ProgressFairness` is `ReplyFairness` and `ExecutionsFairness` restricted to their
parts.

## 4. Known exceptions

What the code really does not keep. The properties exempt these cases by a history
variable or by a named set or operator (given in parentheses), and nothing else.

Scrape jobs
* `transition` commits blindly, so a request that loaded a job before it became
  COMPLETED or CANCELLED still moves it (`suspect`; `models/scrape.py:89` calls the
  transitions "Enforced by the job engine"). The sweep's QUEUED, written from an
  out-of-date row (`engine.py:331`), lets a job be dispatched while it runs.
* A PAUSED row can be claimed by the message it had before the pause
  (`runner.py:82`: "PAUSED jobs are claimed only for operator resumes"); the life cycle
  allows it, since PAUSED to RUNNING is legal.
* `retry_job` keeps `leased_at` (`engine.py:140`) and the sweep asks for NULL: a retry
  whose broker call is lost is not found again. `scrape_liveness` has no retry.
* One broker error ends `_periodic_sweep` (`SweepDies`, loss site `"sweep"`), after
  which `QueuedIsServed` fails; it is checked without that site.
* With the in-process backend nobody discovers a resumed job: `ResumeIsServed` is
  checked for Redis.
* The recovery of a job clears its stop request (`engine.py:335`), and the checkpoint
  is cleared before the success is committed (`runner.py:237`).

Schedules
* Schedules never get a job (the violation above).
* Two workers that load the same due schedule both claim it (`clashed`), although
  `claim_due` says that losers get None; a schedule whose `max_runs` is used up stays
  due and takes the place of others.

Campaigns
* A worker that dies between the provider's answer and the commit, or a lost answer,
  leads to a second message (`suspect`; `models/marketing.py:560`: "can never create a
  second send").
* `claim_batch` returns before its recovery of stale leases if nothing is claimable
  (`marketing/queue.py:130`): a campaign whose only items are stale stays RUNNING.
  `campaign_live` has no faults.
* A launch that died after its snapshot is never resumed (`campaign.py:458`).
* Scheduler and launch write the campaign they loaded, over a cancel if need be
  (`raced`; `campaign.py:13`: "terminal states ──▶ ARCHIVED").
* A launch that queued nothing is RUNNING for ever (`worker.py:480`: "leave for launch
  pipeline"). Only the three oldest QUEUED campaigns are looked at (`worker.py:125`).
* A recipient marked CANCELLED while a worker has its item in hand, or a launch is about
  to queue it, may still be sent to, skipped or failed: `_send_item` writes SENDING and
  the verdict without a look at the status (`worker.py:337`).
* A recipient that is SENDING when its campaign is cancelled gets no verdict
  (`docs/15-campaign-architecture.md:94`: "every row has a final verdict").
* A cancelled item that a worker holds is sent if the campaign was archived meanwhile:
  the check before a send knows PAUSED, CANCELLED and FAILED only.
* No lead, no suppression check (`marketing/worker.py:244`).

Events and suppression
* Two handlers of one recipient may write its status backward, and an e-mail reply
  makes REPLIED of FAILED (`misordered`). An event that arrives before the message id is
  committed is stored and never applied.
* `record_opt_out` inserts its entry without looking for one: for an address that is
  already suppressed the commit is refused and no opt-out is recorded
  (`suppression.py`: "an opt-out ALWAYS creates"). `OptOutHasEntry` is about the
  opt-outs on record.

Inbox
* Two workers may take one reply, a lease may be outlived, an answer lost: the reply
  goes out twice (`overtaken`; `reply.py:18` promises none). The outbox does not ask the
  suppression list again. A delivery that raises leaves the message SENDING with a
  FAILED item (`stranded`).
* Two requests that wrote one conversation from copies may hide a message (`raced`).

Automation
* An execution whose lease ran out under its worker, or which an operator requeued,
  may repeat a lead action (`overrun`); conversation actions commit before their node
  and are repeated by every crash in between. A cancel can be overwritten by the commit
  of the node under way. `attempts` counts claims.
* An edit that had loaded a draft lands in the published version (`lateEdits`;
  "Definitions are immutable after publication").
* `business_hours.py:34` says "Return the first moment >= wake_at inside the business
  window". A wait that ends after closing or on a closed day is not put off: the loop looks
  at the opening of the next business day, finds it inside and returns `wake_at`. With a
  window over midnight (an opening after the closing) no moment is inside, and a wait that
  ends before the opening, at night, is put off to it. A time that does not exist ("25:00")
  raises. `WaitIsNotShortened` says exactly what is left of the sentence.
* Concurrent dispatchers exceed the window limit.

Leads and their jobs
* Merges that overlap may close a circle (`lateMerges`).
* A lead may keep an address beside the match key of another one (`foreignKeys`). An import
  with UPDATE_EXISTING does it alone: it keeps an address that is there and overwrites
  the key (`importer.py:482-490`), so a lead matched by phone or website answers to a
  stranger's address from then on, until somebody edits its own. Overlapping
  writes of an address do it too: ingestion, merge and edit each write what
  they changed in the row they had loaded. Ingestion and merge fill an empty e-mail
  without its key, so that deduplication does not find it.
* Two changes of a lead's tags at once leave a wrong mirror (`lateMirrors`). So does a
  rename alone between its two commits (`tags.py:81`, `90`), and for good when the second
  one never comes, although the column is "refreshed after every mutation"
  (`tags.py:4`); an import with tags that meets such a lead creates the old tag again,
  because it takes the mirror for the lead's tags (`importer.py:496`).
* A batch that a request runs inline beside a worker is imported twice (`shared`);
  an export whose leads leave the filter skips or repeats others (`shifted`).

Accounts, requests, visibility
* Two failed logins counted from one copy count once (`miscounted`); two super
  administrators removed at once (`overlapped`), and disabled ones still count.
* `PartialHandlers`: handlers that refuse after a commit. `LosingHandlers`: handlers
  whose last change depends on the commit of the audit entry. `LogsFirst`:
  `delete_workflow`. `reply_to_conversation` always answers 500 after it sent, the
  members endpoints name a type that does not exist, and `ingest_provider_event` uses
  `select` without importing it (`campaigns.py:462`): `fail` steps.
* Conversations are searched and opened by different rules (`SearchDiffers`); a
  campaign's creator opens it without finding it.

## 5. The refinements

`JobLifecycle` is what the engine promises about a job: a status that moves along
`LEGAL_TRANSITIONS` (`models/scrape.py`), and the set of tasks that execute it. A task
begins only a job that nobody executes, an operator moves only a job that is not
RUNNING, a job that lost its task is recovered to QUEUED, one with an unknown actor
becomes FAILED. Queue, leases, control keys, requests and sweeps do not exist there.

`ScrapeJobsLifecycle` maps the committed status and the tasks that run the actor to
it (`ImplementsLifecycle`); a job in `suspect` is UNKNOWN, about which nothing is
promised. Without that state the refinement is false, for the reasons in section 4;
with it, it says that an out-of-date write is the only way off the life cycle: neither
duplicate messages, crashes, lost calls, sweeps nor any order of requests is. Every job
moves or stays in a step, because one sweep recovers several jobs in one transaction.

`scrape_control` checks it with requests; it also holds with the faults of
`scrape_recovery`, and section 6 proves it in general.

`RecipientFate` is what a campaign promises about one recipient: the status of its row
and the messages that the provider accepted. It enters, is judged, is attempted, gets a
message, is confirmed, given up or cancelled. `CampaignDeliveryFate` maps the row and
`sent` to it (`ImplementsFate`); a recipient in `suspect` is UNKNOWN. A message is
accepted only while the row says SENDING; SENT is said of exactly those who got one,
FAILED, SKIPPED, INELIGIBLE and CANCELLED only of those who got none; and these verdicts
stay, except CANCELLED: the set `Open` of the statuses that an attempt may start from has
CANCELLED in it, and without it TLC finds the refinement false by the cancel of section
4. So of a cancelled campaign one may rely on SENT but not on CANCELLED until its
workers are through. `campaign_send` checks it; it also holds in `campaign_batch`.

## 6. The proofs

Every theorem is about the specification that the runs check, for all sets of rows,
workers, handlers and requests and all bounds; the runs check the same formula on an
instance. What a proof takes from the constants is in the `ASSUME`s of the module it is
about: the types of the constants, that no row is the "none" value, and these that say
more:

* `WorkflowExecutions.DefinitionAssumption`: the published graph is what
  `validate_graph` accepts, nodes that go on have a target and no path returns to a
  node. `WorkflowRules` has that validator, and `RulesInvHolds` proves of it that a run
  of an accepted graph never returns to a node (`AcceptedGraphRuns`).
* `Accounts.AccountsAssumption` and `DefinitionAssumption` take the accounts, the
  nodes and the workers of the automation to be finitely many, because the code counts
  them.
* `CampaignDelivery` and `ReplyOutbox` allow at least one attempt.
* `Requests.RequestsAssumption`: four facts about the order of the steps in the rows of
  the handlers (`RefusesFirst`, `CommitsItself`, `StopsViewers`, `LogsAfterwards`), with
  the exceptions that the invariant names. The tables are definitions and not
  parameters: TLC evaluates the facts for each of the 583 rows whenever `people` runs,
  and nothing about them is left to believe.

| Theorem | States |
|---|---|
| `ScrapeJobsProofs`: `TypeCorrect`, `SingleExecutionHolds`, `ExecutorHoldsLeaseHolds`, `TerminalIsFinalHolds` | `TypeOK`, `SingleExecution`, `ExecutorHoldsLease`, `TerminalIsFinal` |
| `ScrapeLifecycleProofs`: `LifecycleImplemented` | `ImplementsLifecycle` |
| `CampaignDeliveryProofs`: `TypeInvariant`, `ItemHeldOnceHolds`, `AtMostOneSendHolds`, `UndecidedIsQueuedHolds`, `CompletedHasVerdictsHolds`, `FateImplemented` | the safety properties of campaigns and `ImplementsFate` |
| `ReplyOutboxProofs`: `ReplyInvHolds`, `NoDuplicateReplyHolds`, `DeliveryMovesForwardHolds` | those of replies |
| `BackgroundProofs`: `EventsInvHolds`, `RecipientMovesForwardHolds`, `ScheduledInvHolds` | those of delivery events, suppression, schedules and run webhooks |
| `WorkflowExecutionsProofs`: `ExecutionsInvHolds`, `EventStartsOnceHolds`, `CausationBoundedHolds` | those of the execution of workflows |
| `WorkspaceProofs`: `FlowsInvHolds`, `PublishedFrozenHolds`, `LeadsInvHolds`, `ReviewsKeptHolds`, `JobsInvHolds`, `FinishedStaysHolds`, `RulesInvHolds` | those of workflow versions, leads, imports and exports, and of the graph rules, slots and business hours |
| `PeopleProofs`: `AccountsInvHolds`, `SearchAgreesWithOpenHolds`, `InboxInvHolds`, `RequestsInvHolds` | those of accounts, visibility, the inbox and requests |

None of the invariants is inductive as it stands: whether a commit is harmless depends
on what the process loaded some steps before. Each proof strengthens it with what a
process knows at each point of its program, shows that every action keeps the
strengthened invariant, and reads the property off it. Action properties follow from the
same invariant before the step.

**Scrape jobs (`IInv`).** A claim is safe only if a claimable row has no executor, which
holds because an executing task's row is RUNNING under its lease; the sweep keeps that
because it selects only leases that are not fresh, or because its later write is
recorded as suspect. `InFlightOK` is what a request, task or sweep knows of the row it
loaded. The refinement needs the invariant before and after a step: an executor
implies RUNNING, so an operator's move off another status ends no execution, and the
single executor that a death or an outcome ends leaves nobody.

**Campaigns (`SendInv`, `DeliveryInv`, `FateInv`).** At most one send needs three facts about an
unsuspected recipient together: its item under a live lease is PROCESSING, or was
cancelled or failed under its holder (`HeldItems`), so nobody else can claim it; one
worker holds it; and a message the provider accepted is in that worker's hands or its
item is COMPLETED (`SentRecorded`). That nobody is lost needs the launch: items exist
only for snapshotted recipients, the snapshot is marked as a whole (`LaunchOK`), a
process that is loading or queueing has the rest in its hands (`OnItsWayOK`), and only
of a campaign that is over are items cancelled or dropped (`OverOK`).
`CompletedOK` says why completion is right: there were items, and none is pending.
The refinement adds what row and queue know of each other in every campaign, also one
that is over: who is on the queue, in a worker's hands or about to be queued is `Open`
(`QueueOpenOK`, so a holder never writes over a verdict but CANCELLED), and the row says
SENDING from before the provider is asked until its answer is recorded (`SendingOK`).

**Replies (`ReplyIInv`).** For a reply whose rows are written from current copies: the
item has one holder, the last accepted send is reported failed, named by the message,
or in the hands of the worker that got the answer (`AcceptOK`), and a request that is
failing a message finds it sent and is the only one (`FailingOK`).

**Delivery events (`EventsIInv`).** Webhook handlers hold events only of recipients
whose message id is stored, and before that the worker has the row, so an applied
event is never overwritten by the worker's commit (`EventsAfterSend`); an OPTED_OUT
entry exists exactly with its record (`OptOutsOK`).

**Schedules and webhooks (`SchedulesIInv`, `HooksIInv`).** The run count is the number
of claims unless two workers claimed from one copy, and a claim under way has a copy
that knows the limit and is below it, because no operation changes a limit. An outcome
under way that read its schedule as off finds it off, unless a user switched it on since
(`TickerOK`), so that one that is on has not failed too often. A delivery
row, in the table or in the hands of a tick, has no more attempts than it had posts,
which is what makes FAILED true however ticks overlap and workers die.

**Executions (`ExecutionsIInv`).** A SEND node took effect exactly if its
`client_message_id` is queued (`SendsOK`). For an execution that was never taken back
from a live worker: one worker has it, finds it where it was loaded, and the lead
actions that took effect lie behind it in an order of the graph (`RunOK`); the order
exists because the graph has no circle. The step limit holds with the workers that
have passed it and not yet counted (`StepsOK`). That chains of causes are bounded needs
what the depth of an execution, a recursive function of the table, does when rows are
added: it is a number that grows with the steps allowed (`DepthGrows`), and executions
whose causes stay keep it (`DepthStays`), because an execution's cause is there before
it (`CausesOK`). The induction is over a set of numbers that has no smallest failure
(`UpTo`), since the induction theorems of the library cannot be instantiated.

**Workspace (`FlowsIInv`, `LeadsIInv`, `JobsIInv`).** A request that is about to pause
or resume a workflow found one that was published (`EditorsOK`), and publications
overlap without leaving none (`VersionsOK`). A
merge under way loaded two different leads that were not retired, and its check is
repeated by the history `lateMerges`, so merging closes no circle; `Survivors` is
stated as a smallest closed set, about which one can reason without recursion.
`LeadsIInv` adds to `LeadsInv` what a request in progress holds (`ClerksOK`: its leads, and
that every tag it read or assigns has a name for it) and what the tables say of each lead
(`LeadOK`: an assignment is of a lead and a tag that are there). What a request read may
have changed by its commit; then the histories are given the lead (`Outrun`,
`AddressChanged`), and otherwise a mirror that is rewritten shows the assignments
that are written with it. One
runner has a data job unless a request runs it inline (`OneRunner`); what it has not
reached is not in the workspace (`RowsOK`), and an export has listed once each what it
has read of a filter that nobody left (`ListedOK`), by counting the leads before it.

**Workflow rules (`RulesIInv`).** Every question is answered in one step, so the work is
in the lemmas about the operators. A slot and an opening are periods, given by quotient
and remainder (`Division`, `NextPeriod`); the latest of a finite set of numbers exists by
the same induction over sets of numbers (`UpTo`, `LargestOf`). The validator's depth-first
walk is a function of a node and the nodes on the way to it, defined by itself; that such
a function exists is shown with the largest set of pairs that is left only to pairs of
the set (`WalkExists`), and only then may the definition be unfolded. A walk that
succeeds finds after `k` steps only nodes that are not among `k` nodes met before
(`WalkEnds`), so none are left after as many steps as the definition has nodes. That an id names one
node follows from the two counts that the validator compares, of ids and of the list.

**Requests (`RequestsIInv`).** What a request has committed, logged and sent follows from
the steps it has taken (`RequestOK`): a change is uncommitted only since its write, with
no commit in between; a write that no audit entry could drop is kept or still
uncommitted (`WritesStand`), which is what an audit entry that fails and rolls back
cannot break; and every permission the handler has checked so far is the caller's. With
the order of the steps in the tables this gives the four promises for every caller and
any scopes of the keys.

**People (`AccountsIInv`, `VisibilityIInv`, `InboxIInv`).** A token that ended is
revoked or older than the password (`TokenOK`); the failure counter is not behind the
wrong passwords unless two attempts were counted from one copy (`UserOK`); a request
that removes the role of a super administrator counted another, and if one was removed
since, `overlapped` says so. That search and opening agree is proved by cases of the
tables for any members, teams and rows. An inbox request holds only conversations that
exist, and what it stores has its event row.

Only model-checked, and why:

* All liveness (`QueuedIsServed`, `RunningEnds`, `ResumeIsServed`, `QueuedIsLaunched`,
  `RunningDrains`, `ReplyEnds`, `EveryExecutionEnds`): fairness and ENABLED are out of
  the prover's reach.
* What the rows of `ApiRoutes` and `UiRoutes` say (`RequestsAssumption`): the tables are
  constant, so evaluating them leaves no larger instance open.

## 7. Not modelled

* Scraper actors, page parsing, fetching: in `ScrapeJobs` an actor is its outcomes.
* The result pipeline (deduplication of results, checkpoints, dataset versions): its
  rows are not read by the protocols above; a module is planned.
* Templates, composition, tracking: formatting; the outcome before a send is an input.
* Analytics, reports: aggregation over tables that other modules keep.
* Orchestration: interpretation of planner texts and URLs; its state is scrape jobs.
* Actor registry and health: thresholds over statistics, no protocol.
* Storage, files, backup, settings, notifications, integrity: mostly I/O.
* Migrations, configuration, rendering of pages, request parsing, response bodies.
* Of modelled components: bulk import of a suppression list, token formats, hashes,
  signatures, condition expressions (an execution takes either branch), normalisation
  and scoring of leads, views and notes, connection set-up.

## 8. Plan

1. `ResultPipeline`: checkpoints and resume against committed results, dataset
   versions.
2. Two faults at once in `scrape_recovery` and `campaign_send`.
