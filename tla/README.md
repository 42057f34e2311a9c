# AloStudio: a TLA+ verification project

AloStudio is a customer-support platform (a FastAPI port of Chatwoot, with a
Next.js dashboard) that also publishes: one text with its media goes out, now or
at a date, to several social networks.  This directory holds TLA+ models of the
parts where a wrong interleaving or a crash is visible to the outside world and
cannot be taken back, TLC configurations that check them on small instances, and
proofs, checked by TLAPS, of what matters most for every instance.

Contents

1. Inventory of the system
2. Modules, and how they correspond to the code
3. Runs: what is checked, and the bounds
4. Fairness
5. Disagreements found
6. Proofs
7. What is only model-checked, what is abstracted, what is not modelled
8. Plan

## 1. Inventory of the system

The backend (`src/app`, about 74,000 lines) is one FastAPI process, one ARQ worker
process (jobs from Redis) whose cron functions are the scheduler, PostgreSQL for
all state, and Redis for the queue, presence and some assignment lists.  A request
or a job has its own database session.  Components interact through rows of the
database, through jobs enqueued after a commit, and through events that the listeners of
`domains/conversations/events.py` turn into webhooks and socket messages.

| Component | State it keeps | Operations | What is hard | What makes it correct |
|---|---|---|---|---|
| Publishing (`domains/publishing`, `workers/publishing.py`) | `publications.state`, `scheduled_for`, `updated_at`; one `publication_targets` row for each channel; the ARQ job | create, edit, delete, retry, connect and disconnect channels; tick: recover, claim, enqueue; job: send each target, settle | ticks, requests, workers and owners on one row; a crash between a send and its commit; networks that lose answers; retries; recovery by silence | sent at most once each time it is asked for, never early, nothing stuck, what went out is neither edited nor forgotten |
| Instagram publishing (`domains/instagram/publishing_service.py`, `workers/instagram.py`) | `instagram_posts.state`, `instagram_post_containers`; the ARQ job | create, tick, publish (containers, poll, publish), throttle retry, delete on Meta | no claim: a post is enqueued by every tick; one transaction around all the calls to Meta | posted once; pending ends; published and deleted are final |
| Network adapters (`publishing/adapters`) | none | `publish`, `compose_info`, `run_plug`, metrics | which failures may hide an accepted post | a failure that may hide a post is not retryable |
| Scheduler (`workers/scheduler.py`) | none | cron jobs: 5-minute tick, mail polling, metrics, plugs, agent releases | a tick that outlives its period | one failing part does not stop the others |
| Webhook delivery (`domains/webhooks/listener.py`, `domains/agent_bots/listener.py`, `workers/deliver_webhook.py`) | pending deliveries of a session, the task that queues them, the ARQ job, `webhook_dead_letters` | raise, commit or roll back, queue, post, retry with backoff, dead-letter | savepoints, a queue that refuses one of several, a death on any try | what is committed is acknowledged or in the dead letters; what is rolled back is not sent; attempts are bounded |
| WhatsApp (`domains/whatsapp`, `workers/business_agent.py`) | thread owner in `conversations.additional_attributes`, the release job | take over, return to the AI, reply, handover and standby webhooks, release after a resolution | Meta's view against ours; webhooks late, twice, out of order or lost; the owner is read, Meta is called, the owner is written | our owner is Meta's when nothing is on its way; a wrong one does not stay; a reply takes the thread first |
| AI agent (`domains/agent`) | `agent_threads.running_since`, messages, tool proposals | start, send, confirm, reject, delete | a claim with a timeout, a release that is not told whose claim it ends, three endpoints for one pending row | one turn at a time; one proposal at a time; a confirmed write is done once, no other is; the chat comes free |
| Auto-assignment (`domains/auto_assignment`, `domains/conversations/auto_assignment.py`) | a Redis list for each inbox, `conversations.assignee_id` | create, reopen, set the team, assign; validate, rebuild and rotate the list | several Redis commands without a transaction, inside a database transaction that may still fail | nobody is replaced by a pick; the list recovers; turns are fair |
| Conversations (`domains/conversations`) | status, assignee, team, snooze, messages | toggle, snooze, reopen, assign, reply | values read before the row is held | see WhatsApp and auto-assignment, which share its rows |
| Authentication (`core/auth`) | `users.tokens` blob | sign in, rotate, sign out | concurrent sign-ins | no session is lost, at most the maximum of devices |
| Real time (`core/realtime.py`, `cable.py`) | Redis presence, sockets | subscribe, broadcast | best effort | - |
| The rest (contacts, labels, inboxes, teams, portals, reporting, ...) | single rows | CRUD | little | validation |

`PROJECT.json` lists all the components, also those that are not modelled, and
under `hazards` what in this code a test would hardly reach, each at its line.

## 2. Modules, and how they correspond to the code

| Module | Models |
|---|---|
| `PublicationLifecycle` | the promise: what an owner may rely on, without jobs, ticks or retries |
| `Publishing` | the multi-network publisher; implements `PublicationLifecycle` |
| `PublishingProofs` | theorems about `Publishing`: types, dates, what can be edited |
| `PublishingHealthProofs` | its timing: one job for a publication, no healthy job taken for a dead one |
| `PublishingPromiseProofs` | what owners are promised, and the refinement of `PublicationLifecycle` |
| `MCPublishing` | `Publishing` for TLC, with the symmetry of its model values |
| `InstagramPublishing` | the older publisher of Instagram posts |
| `InstagramPublishingProofs` | theorems about `InstagramPublishing` |
| `MCInstagram` | `InstagramPublishing` for TLC |
| `WebhookDelivery` | events on their way to webhooks and agent bots |
| `WebhookDeliveryProofs` | theorems about `WebhookDelivery` |
| `AgentChat` | the turns of a chat with the AI agent |
| `AgentChatProofs` | theorems about `AgentChat` |
| `ThreadControl` | who answers a WhatsApp conversation |
| `ThreadControlProofs` | theorems about `ThreadControl` |
| `AutoAssignment` | the round-robin queue and the operations that use it |
| `AutoAssignmentProofs` | theorems about `AutoAssignment` |
| `MCWebhooks`, `MCAgentChat`, `MCThreadControl`, `MCAutoAssignment` | these four for TLC |

The two publishers share the scheduler and the queue and no row, so they are not
composed.  Nor are the others, which meet in few places: `WebhookDelivery` takes an
event from whoever raises it (`Publishing` is one of them: `publication.completed`), and
`ThreadControl` and `AutoAssignment` use different columns of a conversation, and its
status.  An ORM session writes the columns it changed, so neither overwrites the other's;
each has the openings and resolutions that the other's requests make as its own actions.

### Publishing

One action is one committed transaction, one call to a network, or one step of
the queue.

| Variable | Code |
|---|---|
| `state`, `due` | `publications.state` and `scheduled_for <= now`; "none" before the row, "deleted" after it |
| `quiet` | time since `publications.updated_at`, counted while "publishing" only: the one place that reads it is the recovery |
| `target` | `publication_targets.state` by publication and channel (a unique pair) |
| `connected` | rows of `publishing_channels` |
| `job` | the queue and, for a running job, what it has in memory: the rows it read (`view`), those it still sends (`todo`), those that were deleted under it (`gone`), the send in progress (`at`, `answer`) |
| `caller` | what a tick or a request still has to claim, enqueue, run inline or release |
| `posts` | observer: how often a network took the post since the owner asked for it |
| `faults` | bound on crashes, database errors and failed enqueues |

| Action | Code |
|---|---|
| `Create`, `Edit`, `Delete`, `Retry` | the endpoints of `router.py` with `create_publication`, `update_publication`, `delete_publication`, `retry_publication`, and `_publish_now_if_due` (the claim is in the same transaction) |
| `DeleteChannel` | `connections.delete_channel`; the targets go by ON DELETE CASCADE |
| `TickStarts`, `RecoverStale` | `recover_stale_publications`: what it reads first, and what it writes in the end |
| `TickReadsDue`, `StartPublishing` | `due_publication_ids` and the conditional update of `start_publishing` |
| `Enqueue`, `ReleaseClaim` | `enqueue_publication` with its four ways to end, and `release_claim` |
| `JobSkips`, `JobLoads`, `JobLosesMedia` | the start of `publish_pending_targets`, up to its first commit |
| `SendTarget`, `NetworkAnswers`, `ApplyResult` | one turn of its loop: the commit of "publishing", the call, the commit of the answer |
| `JobRetries`, `JobLeaves`, `JobSettles` | its end, and `publish_publication_task` |
| `JobAborts`, `JobErrors` | a row that is gone at a commit (`StaleDataError`), and a database error |
| `JobTimesOut`, `JobDies`, `CallerDies` | ARQ's timeout (not retried), the death of a worker (ARQ runs the job again), of a request or a tick |

The answers of a network are what a call may be and what `publish` reports of it:
"lost" is an accepted post reported as a final failure (a timeout), "reset" an
accepted post reported as retryable (any other `httpx.HTTPError` that comes after
the request was sent).

### InstagramPublishing

All that `publish_post` writes is in one transaction, so the only states another
session sees are those of `CommittedStates`; the flush of "publishing" is the lock
on the row (`lock`).  `containers` stands for the committed rows of
`instagram_post_containers`, whose unique `(post_id, position)` is what stops a
second job.  `JobLoads` reads the state, `JobBegins` waits for the lock and
updates by id, `NothingCreated` / `ContainerCreated` / `MetaAnswers` are the calls
to Meta, `JobCommits` and `JobRetries` the two ends of the task,
`DeleteReads` / `MetaDeletes` / `DeleteCommits` the deletion.  A carousel and a
single medium have the same steps here: the containers that are created before
the first poll are one step, since their rows are seen together.

### WebhookDelivery

| Variable | Code |
|---|---|
| `depth`, `level` | the transaction and its savepoints; in which of them a record was written |
| `at` | where a delivery is: `pending` in `session.info`, `handed` to the task, `queued`, `sending`, `burying`; `seen` and `buried`, a job that has its 2xx or committed its dead letter and is still in ARQ's queue; `flushed`, a dead letter not committed; `sent`, `dead`, `dropped` by a rollback, `lost` |
| `batch` | the task of `_send_committed` that has it |
| `tries` | `job_try` of ARQ |
| `letters` | rows of `webhook_dead_letters` for the delivery |
| `committed`, `undone`, `early`, `posts`, `acked`, `forgotten`, `hurt` | observers; `forgotten`: the worker that saw the 2xx died, or lost Redis, before the end of the job was recorded |

| Action | Code |
|---|---|
| `RaiseForWebhook`, `RelayToBot` | `fan_out_to_webhooks` with `_deliver_after_commit`; `fan_out_to_agent_bots`, which queues at once |
| `Begin`, `Release`, `Commit`, `RollBack` | SQLAlchemy's events, with `_send_committed`, `_drop_rolled_back` and `_within` |
| `EnqueueJob`, `RunInline`, `EnqueueFails`, `EndTask` | `_enqueue_all` and `enqueue_delivery`, with a pool or inline |
| `StartJob`, `Answered`, `Bury`, `JobRaises` | `deliver_webhook_task`, `deliver_webhook_now`, `write_dead_letter` |
| `FinishJob`, `GiveUpJob` | ARQ: a job that returned is taken out of the queue; one whose tries are used up is not run |
| `WorkerDies`, `ProcessDies` | the processes; a worker may die before, during and after the request, and after the commit of the dead letter |

### AgentChat

| Variable | Code |
|---|---|
| `chat`, `runningSince` | the `agent_threads` row; the age of `running_since` in units of `Tick` |
| `status` | the tool row of each write call: `pending` until the user answers, `done`, or `closed` (error, invalid, rejected) |
| `turn` | what a request has in memory: where it is, the row it read, how often it asked the model |
| `ran`, `confirmed`, `overran` | observers; `overran` from the moment a turn outlasts `BUSY_TIMEOUT` |

| Action | Code |
|---|---|
| `StartThread`, `SendMessage`, `ConfirmAction`, `RejectAction` | the endpoints' services, up to the commit of `_claim` |
| `ReadPending`, `StoreMessage`, `RunConfirmed`, `RejectPending` | `pending_row`, and what each of the three does with it in one commit |
| `AskModel`, `ModelEnds`, `ModelCallsTools`, `ModelProposes` | one turn of the loop of `_run_model`, by what the model answered |
| `Release`, `TurnDies` | `_release`, which may raise (it is logged); a process that dies |
| `ChatIsGone`, `DeleteThread` | a chat deleted during a turn |

### ThreadControl

| Variable | Code |
|---|---|
| `meta` | who answers, as Meta has it (external) |
| `owner`, `status`, `lock` | the conversation: `thread_control.owner`, its status, the session that holds the row |
| `hooks` | webhooks on their way: handovers to us and to the AI, a standby, a message; a kind is there or not, since two of a kind do the same |
| `job` | `release_to_ai_task` is queued |
| `session` | what a session is at, what it read of the row, and an observer (`calm`) |
| `crossed` | observer: two changes of hands overlapped, or a fault hit one |

| Action | Code |
|---|---|
| `Request`, `MetaAccepts`, `MetaRefuses`, `RecordOwner` | `take_over` and `return_to_ai`: read, `request_thread_control`, `_set_owner` with the commit |
| `BeginReply`, `SendReply` | an agent's message: `_apply_message_post_create` takes the row, `take_over_before_reply` may call Meta, then the message goes out |
| `BeginResolve`, `CommitResolve`, `StartJob` | `toggle_status` to resolved, `fan_out_to_whatsapp`, and `release_resolved_conversation`, which goes on as a session |
| `ReceiveHook`, `ProcessHandover`, `ProcessMessage` | `_process_change` with `process_handover_value`, `_process_value` and `_process_standby` |
| `Reopen`, `SessionDies` | `toggle_status` to open; a process that dies |
| `MetaMoves`, `SomeoneWrites`, `LoseHook` | Meta and the customer |

### AutoAssignment

| Variable | Code |
|---|---|
| `queue` | the list `ROUND_ROBIN_AGENTS:<inbox>`, head first |
| `members`, `team` | `inbox_members` and `team_members` |
| `row` | status, assignee and team of each conversation, as committed |
| `request` | what a call of the API is at, the row as it read it and as it will commit it, the candidates (and, an observer, which of them were not members when it asked for an agent), the agent it chose |
| `ahead` | observer: who has to be picked before an agent may be picked again |

| Action | Code |
|---|---|
| `Begin`, `Write` | `create_conversation`, `toggle_status`, `update_team` and `update_assignee` up to the queue: what is read first, then the flush, which holds the row, the refresh, and `_should_run` |
| `ListAgents` | `_allowed_agent_ids`, a SELECT of its own |
| `ValidateQueue`, `RefuseQueue`, `DropQueue`, `PushMembers`, `Choose`, `ChooseNobody`, `RemoveChosen`, `Rotate` | `available_agent`, one Redis command each; the members are read together with the LRANGE of `_validate_queue`, or the DEL of `_reset_queue`, that they belong to |
| `RedisFails` | the exception that `maybe_run_auto_assignment` logs |
| `Commit`, `Dies` | the end of `get_session` |
| `Resolve`, `MemberChanges` | `toggle_status` to resolved; `add_members` and `remove_members` |

## 3. Runs: what is checked, and the bounds

| Run | Instance | Result |
|---|---|---|
| `MCPublishing_healthy` | 2 publications, 2 channels of inboxes, 2 jobs, 1 tick, 1 request, 2 tries, a ready job waits at most 15 minutes; answers ok, lost, throttled; no fault | 9 properties hold |
| `MCPublishing_crash` | 1 publication, 2 channels that may be disconnected, 2 jobs, 3 tries; ok, refused, lost; 1 fault | 4 properties hold, 2 of them liveness |
| `MCPublishing_faults` | 1 publication, 1 channel, 2 jobs, 3 tries; every answer, every outcome of enqueueing; 1 fault | 2 liveness properties hold |
| `MCInstagram_posts` | 1 post, 3 jobs, 1 tick, 1 request, 1 throttle retry; 1 fault | 3 properties hold |
| `MCWebhooks_deliveries` | 2 deliveries, one savepoint, 3 attempts; 2 faults | 6 properties hold |
| `MCAgentChat_turns` | 2 requests, 2 write calls, `BUSY_TIMEOUT` 1, 2 calls to the model; 1 fault | 8 properties hold |
| `MCThreadControl_hands` | 2 sessions, 1 move by Meta; 1 fault | 4 properties hold |
| `MCAutoAssignment_queue` | 2 agents, 2 conversations, 3 requests, 1 change of members; 1 fault | 4 properties hold |
| `MCPublishing_reset`, `_release`, `_restart`, `MCInstagram_final` | one cause each | the one property is violated (section 5) |

What the properties of `Publishing` say:

- `NeverSentTwice`: a network takes a publication at most once each time its owner
  asks for it.  Several retries, throttled and lost answers have to work together.
- `OneLiveJob`: at most one job is queued or runs for a publication.  This is what
  all the rest leans on: a job trusts what it read when it started.
- `HealthyJobNotStale`: the arithmetic behind `STALE_AFTER`.
- `EditableIsUntouched`: what can be edited or deleted has not been near a network.
- `SettledHasNothingPending`, `PublishedIsFinal`: partial failures and retries.
- `NeverEarly`: an edit that moves the date races the tick that read the old one.
- `LifecycleKept`: refinement of `PublicationLifecycle`, under the mapping that
  takes the rows of `target` for the wanted channels.  In particular "published" is
  said only when every channel that is left got it.
- `PublishingEnds`, `DueIsClaimed`, `SendingEnds`: nothing is stuck, after a crash,
  a timeout or a failed enqueue.

and of `InstagramPublishing`:

- `NeverPostedTwice`: without a claim, and with as many jobs as ticks enqueue, a post
  goes out once, plus at most once for each fault.  (The fault is needed: a job that
  dies after `media_publish` has no row that says so.)
- `PendingEnds`: a post is published or fails; the exception, a post for "now" whose
  job is lost, is in the property because the code leaves it so.

of `WebhookDelivery`:

- `EachSettles`: an event whose record is committed is acknowledged or in the dead
  letters, with and without a Redis pool; only deliveries that a fault touched may not be.
- `UndoneIsNotSent`: what was rolled back is not announced, unless the release of a
  savepoint announced it before (section 5).
- `AttemptsBounded`: `MAX_ATTEMPTS`, the backoff table and ARQ's `max_tries` have to agree,
  deaths of workers included.
- `ExhaustedWhenDead`: a delivery leaves one dead letter at most, after its last try, even
  when the worker dies between the commit of the letter and the end of the job.
- `NoneAfterAnswer`: delivery is at least once.  A receiver whose 2xx was seen is asked again
  only when the worker that saw it dies, or loses Redis, before ARQ has recorded the end of
  the job; no other fault, and no fault of another delivery, does it.

of `AgentChat` (until a turn outlasts `BUSY_TIMEOUT`, since nothing is promised then):

- `OneTurnAtATime`: a claim with a timeout as the only mutual exclusion.
- `OneProposal`, `AskedWithAnswers`: three endpoints and the model write the rows of the
  tool calls, and the model refuses a history with a call that has no answer.
- `DoneOnce`: the status of a row tells what was committed, crashes included.
- `OnlyConfirmedRuns`: holds also when turns overlap.
- `ChatIsFreed`, `TurnsEnd`: a crash does not keep the chat; a model does not keep a turn.

of `ThreadControl`:

- `AgreesWhenQuiet`: while changes of hands do not cross, our owner is Meta's once no
  webhook is on its way and no session is at work.
- `Heals`: however it came to be wrong, traffic puts it right.
- `ReplyTakesFirst`: an agent and the AI do not both answer, if what the reply read was
  true and stayed so.

and of `AutoAssignment`:

- `KeepsAssignee`: of two requests that both saw a conversation without an agent, the
  second does not replace the agent the first one found.  An agent who was not a member when
  the second asked, and is one again when it lists the candidates, is left out: the code
  replaces that one (section 5).
- `QueueHeals`: after crashes, errors, changes of members and overlapping picks, the next
  pick that is left alone leaves every member in the list, once.
- `FairTurns`: nobody who could take a conversation waits while another is picked twice,
  across teams, as long as picks do not overlap.

Each property has a mutant of the code in `PROJECT.json` that breaks it.

Bounds, by name: `Publications`, `Channels`, `Posts` (the objects: two publications
show that batches of the tick are independent, two channels that targets are),
`Jobs` (slots of the queue; `OneLiveJob` needs two for each publication to be
violated, `MCInstagram_posts` has three, one more than the two that race),
`Schedulers`, `Requests` (what overlaps: a tick with a request; the models and the
proofs allow several ticks, and the claim races are reached by a tick and a request),
`RetryMaxTries` (3 in the code; 2 in the largest run still has a first, a retried and
a last try), `MaxQueueDelay` (how long a ready job waits for a worker: from 30
minutes on, `HealthyJobNotStale` fails by the backlog alone), `MaxFaults` (one fault
at every possible place; each recovery starts from a state one fault makes), and the
counter of `posts`, which stops at 2.  Time is in units of 15 minutes, so that
`RETRY_BACKOFF_SECONDS` is 1, `JOB_TIMEOUT_SECONDS` 2 and `STALE_AFTER` 4: every
limit of the code is a multiple of it.  `quiet` stops at `STALE_AFTER + 1`.

`MaxDeliveries`, `MaxDepth`, `MaxAttempts`: two deliveries are a batch with a sibling to
lose; a savepoint in a transaction shows what is inside and outside; of three attempts one
is in the middle (the code has five).  With two faults a worker dies twice, or dies after
the queue refused a sibling.  `Turns`, `Actions`, `BusyTimeout`, `MaxModelCalls`: two turns
race for a chat and a third adds none, since a turn that is over may be used again; two
calls are needed for two proposals; an age of one unit has all three comparisons with the
timeout (under, at, past).  `Sessions`, `MaxMoves`: a session is used again when it is over,
so two of them bound only what overlaps; one move by Meta, in each direction, meets the
moves that the endpoints ask for, which are not bounded.  At most one message or standby is
on its way (`SomeoneWrites`).  `Agents`, `Conversations`, `Requests`: two agents have a
turn to lose; two requests race for one conversation while a third uses the queue for the
other.  A `Request` there is one call of the API, so the system ends when all are done.

Deadlock is checked, since time passes or requests may always come, except in the runs of
`InstagramPublishing`, where a post that failed or was deleted stays so, and of
`AutoAssignment`, where the requests are over.

## 4. Fairness

`Publishing`: `SF(Time)`, and `WF` for the steps of each tick, caller and job.  The
cron of ARQ runs the tick every five minutes, the event loop goes on with what was
started, ARQ's poll takes what is in Redis, and each network client has a timeout, so
`NetworkAnswers` or `JobTimesOut` comes.  Strong fairness of `Time` is needed as time
stops while a transaction or an enqueue is in progress, which takes milliseconds, and
these end.  Nothing is assumed of owners, of dates, or of faults.

`InstagramPublishing`: `WF` for the tick, the callers and the jobs, and for the dates,
which do come.  Nothing is assumed of those who write and delete posts.

`WebhookDelivery`: `WF` for the steps of each task and each job: the event loop and ARQ go
on.  Nothing is assumed of sessions, nor of what receivers answer.

`AgentChat`: `WF` of `Tick` and of the steps of each turn; the client of the model has a
timeout, so a call ends.  Nothing is assumed of users, and a turn that is over or died
need not be followed by another.

`ThreadControl`: `WF` for the steps of each session that has begun, since its call to Meta
has a timeout and the row it waits for is committed; `SF` for receiving a standby, which
Meta sends again until it is answered.  Nobody has to write: that somebody does, again and
again, is a hypothesis of `Heals`, as the code leaves the repair to traffic.  Meta need not
move, nor deliver a handover.

`AutoAssignment` has safety properties only, and no fairness.

## 5. Disagreements found

Each has a run that TLC finds violated, and an entry under `findings`.

1. `MCPublishing_reset`: the Facebook adapter makes a timeout a final failure since
   "sending it again could publish twice", and leaves every other `httpx.HTTPError`
   retryable.  A connection that breaks after the request was sent is one of them.
2. `MCPublishing_release`: the tick releases whatever it cannot enqueue, also what it
   recovered half sent; it is then editable and deletable although it went out.
3. `MCPublishing_restart`: the sum behind `STALE_AFTER` leaves out a job that ARQ runs
   again after a worker restart: a healthy job may be taken for a dead one.
4. `MCInstagram_final`: a second job that read "pending" before the first one committed
   turns a published (or deleted) post to failed; the comment says that it no-ops.

Seen in the model, without a run of their own: two overlapping ticks recover the same
stale publication, since the recovery is not a conditional update; `aclose` raising
after `enqueue_job` leads to a second job; the inline fallback, run by a tick, releases
a half-sent publication when a channel is disconnected meanwhile.  They are under
`hazards`.

Read while modelling, and in the models as the code has it, without a run of their own:

- `webhooks/listener.py:144` says that a delivery waits for the outermost commit, so a
  rollback sends nothing; `after_commit` also fires when a savepoint is released.  Hence
  `early` in `UndoneIsNotSent`.
- `scheduler.py:376` says that `max_tries` leaves room for the dead letter; a worker that
  dies on the last try leaves none (`GiveUpJob`), hence `hurt` in `EachSettles`.
- `deliver_webhook_task` returns after a 2xx and leaves no record of it.  A worker that dies
  before ARQ takes the job out of the queue posts again, and if the receiver fails from then
  on, writes a dead letter for a delivery it had acknowledged: hence `forgotten`.
- `maybe_run_auto_assignment` asks whether the assignee is a member in one SELECT, and for
  the candidates in another: an assignee who is added to the inbox again in between may be
  replaced by one of the others, hence `away` in `KeepsAssignee`.
- `_enqueue_all` has one `try` around its loop: a delivery that cannot be queued takes those
  behind it with it, also an agent bot's siblings' dead letters.
- `agent/service.py`: six calls of up to 90 seconds may outlast the three minutes of
  `BUSY_TIMEOUT`, and `_release` then frees the chat of whoever took it: hence `overran`.
- `round_robin.py:8` says that a pick pops the head and pushes it to the tail; the code
  takes the member closest to the tail and pushes it to the head (lines 122-138 say so).
  The turns are the same (`FairTurns`), the list is the other way round.
- `update_team` says that it does not assign from the team; it does, at its end, and so does
  `toggle_status`, of whose endpoint the same is said.  `add_members` calls
  auto-assignment "not wired", and leaves the queue alone; `_validate_queue` makes up for it.
- Without a Redis pool, `enqueue_release_to_ai` runs the release inside the resolving
  transaction, in another session, which never sees the resolution.

## 6. Proofs

`tlapm` checks the eight modules `*Proofs.tla` to the last leaf; they assume
`ConstantsAssumption` of the module and nothing about the size of any set (that of
`AutoAssignment` says that there are finitely many agents: a list of them has a length).
Every invariant and every action property that a passing run checks is stated by a theorem;
six of those of `Publishing` for undisturbed behaviours, which are defined below.

| Theorem | States | Assumes |
|---|---|---|
| `PublishingProofs!TypeCorrect` | `Spec => []TypeOK` | - |
| `PublishingProofs!NothingEarly` | `Spec => []NeverEarly` | `QueueOnly` |
| `PublishingProofs!EditableNeverSent` | `Spec => []EditableIsUntouched` | `QueueOnly` |
| `PublishingHealthProofs!NeverTwoJobs`, `HealthyNeverStale` | `Spec /\ Undisturbed => []OneLiveJob`, `[]HealthyJobNotStale` | `QueueOnly`, `InTime` |
| `PublishingPromiseProofs!SettledIsTidy`, `PublishedForGood` | `Spec /\ Undisturbed => []SettledHasNothingPending`, `PublishedIsFinal` | `QueueOnly`, `InTime` |
| `PublishingPromiseProofs!NoPostTwice`, `KeepsLifecycle` | `Spec /\ Undisturbed => []NeverSentTwice`, `LifecycleKept` | `QueueOnly`, `InTime`, `NoReset` |
| `PublishingHealthProofs!OneTickRecovers` | `Spec => []OneRecovery` | one tick at a time |
| `PublishingHealthProofs!CalmIsUndisturbed` | `Spec => Undisturbed` | one tick at a time, `MaxFaults = 0` |
| `InstagramPublishingProofs!TypeCorrect` | `Spec => []TypeOK` | - |
| `InstagramPublishingProofs!PostedOnce` | `Spec => []NeverPostedTwice` | - |
| `WebhookDeliveryProofs!TypeCorrect`, `RequestsBounded`, `DeadMeansExhausted`, `UndoneStaysUnsent` | `[]TypeOK`, `[]AttemptsBounded`, `[]ExhaustedWhenDead`, `[]UndoneIsNotSent` | - |
| `WebhookDeliveryProofs!AnswerEnds` | `Spec => NoneAfterAnswer` | - |
| `AgentChatProofs!TypeCorrect`, `TurnsExclude`, `ProposalsExclude`, `WritesAreDoneOnce`, `HistoryIsAnswered`, `WritesAreConfirmed` | `[]TypeOK`, `[]OneTurnAtATime`, `[]OneProposal`, `[]DoneOnce`, `[]AskedWithAnswers`, `[]OnlyConfirmedRuns` | - |
| `ThreadControlProofs!TypesCorrect`, `TakesFirstAlways`, `Agreement` | `[]TypeOK`, `[]ReplyTakesFirst`, `[]AgreesWhenQuiet` | - |
| `AutoAssignmentProofs!TypeCorrect`, `AssigneeKept` | `[]TypeOK`, `[]KeepsAssignee` | - |
| `AutoAssignmentProofs!QueueIsWhole`, `TurnsAreFair` | `Spec => QueueHeals`, `Spec => FairTurns` | - |

The hypotheses, and why the code justifies them:

- `QueueOnly`: enqueueing puts the job in the queue.  Without it `EditableIsUntouched` is
  false, as the run `MCPublishing_release` shows.
- `InTime`: the timeout of a job, the wait before its retry and the wait for a worker add up
  to at most `STALE_AFTER`.  The first two are 45 of its 60 minutes in the code; that a ready
  job waits at most the other 15 for a worker is all that its slack allows.
- `NoReset`: no network accepts a post and reports a failure that is tried again.  Without it
  `NeverSentTwice` is false, as the run `MCPublishing_reset` shows.
- `Undisturbed` is about behaviours, not constants: no worker dies with a job in its hands
  (`JobDies`: ARQ runs the job again, and with the code's constants the two runs take `quiet`
  past `STALE_AFTER`, as `MCPublishing_restart` shows), and no two ticks are between
  the two halves of the recovery at once (it writes what it read as stale whatever it has
  become; `service.py:570` in `hazards`).  All other faults may happen, any number of times:
  a tick or a request that dies, a database error in a job, a job that ARQ cancels, rows that
  are deleted under a job.  The second half follows from one tick at a time
  (`OneTickRecovers`), which is what the schedule gives: ticks start five minutes apart, and
  ARQ cancels one after five.  With no fault at all the hypothesis is a theorem
  (`CalmIsUndisturbed`): that is the setting of the run `MCPublishing_healthy`.

- `TypeCorrect`: the bound on the tries of a job is not inductive.  `TypeInv` adds that
  a queued job has a try left, and that a job on its last try has nothing pending in
  its view but what it still sends, so it cannot ask for another.
- `NothingEarly` and `EditableNeverSent` share `ClaimInv`: what is claimed has a date
  that came; what is editable has only pending rows and no post; a running job's
  publication is claimed; and no caller releases a claim or runs a job itself.  The interesting steps are the claim (the date is checked
  again by the update), the edit (the row lock makes check and write one step) and the
  recovery (it only ever writes publications that are publishing or settled).
- `PublishingHealthProofs`: neither `OneLiveJob` nor `HealthyJobNotStale` is inductive, and
  each needs the other: a healthy job that is taken for a dead one gets a second one, and a
  second job would write the row whose silence the first one counts on.  `Custody` says that
  a publication that is publishing is in one hand, a caller that has still to enqueue it
  (`Held`), one job (`Alone`), or a recovery that found it stale, and pays for its silence by
  the job's life (`Healthy`): for a queued job `quiet + wait <= age + Backoff`, for one at
  work `quiet <= age + Backoff + MaxQueueDelay`.  The age is at most the
  timeout, so the sum is at most `STALE_AFTER` by `InTime`; and a job that asks for a retry
  has just written a result, so that its next wait starts from silence zero.
- `PublishingPromiseProofs`: with the job alone, what it remembers is the table but for the
  rows that went away (`Synced`), so the state it settles is true of the rows (`Tidy`), and
  what is published is not in what it sends.  `PostsInv` counts: a row that is pending has no
  post for this wish of the owner, one that is published has one, and none has two.  A step
  maps to `Write`, `Drop`, `AskAgain` or `Disconnect` for the owner's, to `Begin` for the
  claim, to `Deliver` for a network that accepts, to `Settle` for the last commit of a job and
  for the recovery, and to a stutter otherwise.
- `PostedOnce`: `PostedInv` says that the job at work on a post is the one that holds
  its lock (`Locked`), that a job's containers are not committed yet while it works
  (`Uncommitted`), and that a post Meta published has its containers committed, or is
  still held by the job that published it, or has cost a fault (`Counted`).  Commit
  moves a post from the second to the first, a fault from the second to the third; and
  with containers committed, no job gets past the unique index.
- `InstagramPublishingProofs!TypeCorrect`: here too the bound on the tries needs more than
  the types.  `TypeInv` adds that a job in the queue has a try left (`TryLeft`) and that a
  job is tried once, `THROTTLE_MAX_RETRIES` times for throttling, and once for each fault so
  far (`TriesBounded`): a death of the worker takes no try without raising the bound.
- `WebhookDelivery`: deliveries do not disturb each other but through their session and
  task, so the invariant is one for each delivery (`DInv`): how many requests were made for
  the tries used and the place it is at (`Tried`), how many dead letters there are, and that
  after one no try is left unless the job is over (`Lettered`), that what was acknowledged is
  at a place without a further request or was forgotten (`Answer`), and that what is pending
  is within an open transaction (`Waits`).
- `AgentChat`: `Consent` (what ran was confirmed) holds always.  The rest holds until a turn
  overruns, and is one invariant (`Orderly`): a turn at work has the claim, as old as the
  turn (`OwnClaim`), so the claim is not expired and no other turn can take it (`Alone`); at
  most one row is pending (`OnePending`) and none while the model is asked; what a turn read
  is what is there (`ReadIsFresh`); what ran is what is done (`RanAsDone`).
- `ThreadControl`: agreement is not inductive, as the change that makes the copy right may
  still be on its way.  `UnderWay` says that until changes cross, the owner is Meta's, or
  not known while the AI has the thread, or there is a handover to Meta's owner on its way, or
  a session that Meta accepted and that has not committed.  `Orderly` says why that ends well:
  webhooks speak of the owner Meta has, a session that works on one has read the owner that is
  stored, and who Meta said yes to got what it asked for.  `Calm` is the invariant of a reply,
  and `Holds` ties the row's lock to the session that has it.
- `AutoAssignment`: a request past its flush has the row for itself, and it asked for an
  agent of the row that is still committed, so who has the conversation was not a member
  then, and is not one of the candidates who were (`Fresh`, `HasRow`); one that creates is alone with what it creates (`Creates`); and what the others
  work on is there (`IsThere`).
- The queue of `AutoAssignment` (`QInv`): the lemmas say what the list operations do.  A list
  with all members and no more entries than members has each once (`OnceEach`, by counting),
  a permutation is such a list (`Rebuilt`), and `lrem` leaves the others, in their order
  (`Ranks`, `Removed`; the model has the removal by positions, as `SelectSeq` is a recursion
  that the prover does not unfold).  `Knows` is what an undisturbed request may rely on at
  each of its steps: a list that was just validated, later the same list without the agent
  it chose, who is one nobody eligible is ahead of.  `Order` ties the observer of the turns to
  the list: who has to be picked before an agent is closer to the tail.  `Order` was false of
  an earlier version of the model, with five requests or more, more than a run can carry:
  `PushMembers` of a disturbed rebuild pushed agents in front of a list whose turns the
  observer still counted.  It forgets them now, as it did when the list was dropped.

Out of the prover's reach, and left to TLC: liveness (it needs fairness and ENABLED)
and what a recursive definition computes; there is no recursive operator here.

## 7. What is only model-checked, what is abstracted, what is not modelled

Only model-checked: all liveness; of `Publishing`, `OneLiveJob` and `LifecycleKept` after a
worker died with a job (the run `MCPublishing_crash`, for one death).

Abstracted in `Publishing`:

- the validation of content, media and dates (`_normalize_media`, `_validate_targets`,
  `_resolve_schedule`): what is refused changes nothing;
- the adapters: an answer, not how a network is called; an adapter whose call raises is
  an answer that is final;
- signing library links again: it may touch the publication (`JobLoads`) or find a file
  gone (`JobLosesMedia`);
- time passes only in network calls and in the queue; a tick, a request and a database
  step are over within one unit;
- ARQ is external: a timeout is not retried, a job of a dead worker is run again, at
  once or when ARQ's claim on it ends; ARQ's own limit of tries and the margin of ten
  seconds on its claims are not modelled;
- a channel that is connected again is a new row, hence a new channel;
- events (`publication.completed`) and the metrics of targets.

Abstracted in `InstagramPublishing`: the wait of a throttled job and of the polls is not
timed (ARQ's 300 seconds are a fault that may come at any time; a carousel of slow
videos, polled one by one, really exceeds them); a refused deletion only stamps an error,
which is not modelled; ARQ's limit of five tries is not modelled; the product links of a
post are not modelled.

Abstracted in `WebhookDelivery`: which webhooks subscribe to an event, payloads and
signatures; the backoff is not timed, so a retry may come at any time; a 4xx and a timeout
are one failure, as in the code; replays of dead letters are new deliveries.

Abstracted in `AgentChat`: the tools (a write is one effect, in the transaction of its row),
read tools (a step of the model), the content of messages and how much of it is sent;
titles; the owner of a chat.  A turn of a chat may take any time, in units of `Tick`.

Abstracted in `ThreadControl`: one number, answered by the Business Agent from the start (the
first handover or take-over sets the flag and nothing resets it); one conversation, which
exists; retries inside `request_thread_control` are one call; message ids (a message that comes
again is skipped, so at most one is processed); a webhook with several items is several
webhooks.  What resolving, reopening and replying do to other columns is left out.

Abstracted in `AutoAssignment`: one inbox that has auto-assignment on, one team that allows it;
snoozed and pending conversations; priorities and labels; events; a pick without a
presence tracker takes all members, as the code does.

Not modelled: see `components` in `PROJECT.json`.  The dashboard keeps no state the
server trusts; most domains are CRUD on single rows; adapters, channels and integrations
are I/O.

## 8. Plan

Done: `PublicationLifecycle`, `Publishing`, `InstagramPublishing`, `WebhookDelivery`,
`AgentChat`, `ThreadControl`, `AutoAssignment`, each with its run and its proofs.

Left, in the order of what it would add:

1. Token rotation (`core/auth/devise_token_auth.py`): one JSON blob that sign-ins, requests and
   sign-outs read, prune and write back.
2. The life of a conversation: snooze, pending and bots, `waiting_since`, and the events of each
   change, with the requests of `ThreadControl` and `AutoAssignment` on one row.
3. Plugs and autopost (`domains/publishing/plugs.py`, `autopost.py`): actions on a network
   before the row that says they were done.
4. Polling of mail and of Instagram comments: a cursor and the messages it stands for.

Proofs still to write: for `Publishing` after the death of a worker, where the invariant needs
how often ARQ runs a job again; for `ThreadControl`, that a change of hands that is under way
arrives, step by step towards `Heals`.
