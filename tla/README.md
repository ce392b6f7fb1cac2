# OpenOutreach: TLA+ specifications and proofs

OpenOutreach sends LinkedIn invitations, LinkedIn messages and Gmail messages
for several senders. Every outbound lane has the same hard problem: the provider
(LinkedIn, Gmail) cannot be asked whether it acted on a click or a call, the
process can stop at any point, and a person must never be contacted twice for
the same thing. The code answers with durable receipts that are written before
the provider can see anything, and with the rule that an outcome nobody can
determine is closed for good. These modules state that rule, model the code that
is supposed to keep it, check it with TLC and prove it with TLAPS.

Paths below are relative to the repository root (`src/` here).

## 1. Inventory

All processes share one Postgres database. One *supervisor* per machine runs the
sender's children; there is one LinkedIn account per machine and several
machines share the tables.

| Component | State it keeps | Operations | Talks to |
| --- | --- | --- | --- |
| Connect lane, `linkedin/tasks/connect.py` | Deal state and `connect_attempts`, the connection receipt, the ActionLog reservation | `handle_connect`: hold attempted notes, limit check, choose, stop checks, status check, freeze note, clicks, outcome, reschedule | clicks, receipts, budget, task queue |
| Invitation clicks, `linkedin/actions/connect.py` | `InviteAttempt`: what the clicks so far may have done | direct Connect, More menu, dialog proof, note, Send, weekly limit | LinkedIn's page |
| Outbound receipts, `linkedin/message_delivery_runtime.py`, `linkedin/message_delivery.py` | `OutboundDelivery.status`, frozen text, enrolment | `mark_delivery_status`, `close_unsent_connection_delivery`, `get_or_create_delivery` | every lane |
| Sender budget, `LinkedInProfile` in `linkedin/models.py` | ActionLog rows, `connect_restricted_on` | `can_execute`, `record_action`, `mark_exhausted` | connect and follow-up lanes |
| Daemon loop, `linkedin/daemon.py` | Task rows PENDING/RUNNING/COMPLETED/FAILED | `heal_tasks`, claim, mark, recovery net, exits | every handler |
| Task queue, `TaskQuerySet` in `linkedin/models.py` | Task rows of all senders | `claim_next`, ownership scope, priorities, cancel | daemons, Slack API |
| Browser recovery, `linkedin/browser/recovery.py` | deadline, attempt number, latch | `can_claim`, schedule, hold | daemon loop |
| Campaign callbacks, `linkedin/campaign_callbacks.py` | outbox fields of CampaignSubmission | `reconcile` (freeze, close stranded notes), `deliver` (lease, post, back off, abandon) | receipts, remote endpoint |
| Deals and candidates, `linkedin/db/deals.py`, `linkedin/pipeline/` | Deal.state | `set_profile_state`, candidate choice, promotion | connect lane, sweeps |
| Suppression and stop checks, `linkedin/suppression.py`, `linkedin/tasks/stop_checks.py` | suppression entries, inbound messages, meetings | apply to existing rows, ask before a send | every lane |
| Connection import and sweep, `import_connections.py`, `linkedin/tasks/sweep_connections.py` | Deal.state, sweep runs with cutoffs | promote accepted Deals | Deals |
| Post and repost ledgers, `linkedin/personal_posts.py`, `linkedin/reposts.py` | LinkedInPost, LinkedInRepost rows, repost/post run rows | queue, claim, click boundary, settle, sweep, cancel, retry | supervisor, browser |
| LinkedIn follow-ups, `linkedin/tasks/follow_up.py`, `follow_up_submission.py` | Task marker, Message, receipt | send, stamp the submission, recover a stale row | queue, receipts |
| Gmail, `gmail/` | Task marker, permit, receipt, Message | hand-off, stamp, consume the permit, send, recover | queue, receipts, provider |
| Drip, `drip/` | enrolments, lanes, deliveries | take a Lead over from a sequence, reconcile, stop | queue, Gmail, LinkedIn |
| Invitation withdrawal, `linkedin/invitation_withdrawal.py` | withdrawal records | plan, withdraw, record | Deals |
| Enrichment, `linkedin/enrichment/worker.py` | Task rows | claim with `skip_locked`, reclaim stale rows | queue |
| Realtime listener, `linkedin/realtime/` | Messages, Deal.state | stamp an inbound reply | Deals, queue |
| Supervisor, `daemon_supervisor.py`, `supervisor_safety.py`, `linkedin/supervisor_control.py` | child processes, stop latch, restart request | restart, stop, consume a restart request | all processes |
| Single instance, node monitor | process records, alert claims | acquire, release, alert once | supervisor |
| Feed sampling, discovery, message store, CRM views, qualifier, HTTP API, legacy cutover | files, caches, published views | reads and idempotent imports | - |

`PROJECT.json` lists the same components with what is modelled of each.

What is hard here, and what each part must keep right:

* **A click whose effect is unknown.** A Connect button may send without a
  dialog, a Send click may be acted on after the process stopped. At most one
  invitation per frozen note; a receipt that is retried stands for nothing sent.
* **Two records of one event.** The receipt, the Deal and the budget row are
  written in different transactions, and other processes (the callback thread,
  an import, a suppression, the listener) write them too.
* **A limit that is checked early and charged late.** The invitation is charged
  at the first click (or after the send, for a Deal with no receipt), possibly on
  the next local day.
* **A chain of one row.** The connect Task reschedules itself; every early
  return, error, restart and browser failure must leave a successor.
* **Shared queues.** A row belongs to one sender; claim, cancel, heal and
  recovery race for it.
* **At-least-once posts.** The callback outbox and the Gmail provider call run
  outside the transaction that announced them.

`PROJECT.json` "hazards" has each of these at the line where it bites.

## 2. Plan

Order: what can contact a person twice first, then what can stop the outreach,
then the rest.

1. **`AtMostOnce`, `ConnectLane`** (done): the promise of every lane, and the
   lane with the most states; its proofs, and the proof that it implements the
   promise.
2. **`PostLedger`** (done): posts and reposts of one sender, their one-shot
   children and the supervisor that starts them, with the proof that both ledgers
   implement the promise.
3. **`TaskQueue`** (done): several daemons over the shared Task table, Slack's manual
   replies and their cancellation, the status summary; its proofs.
4. **`CallbackOutbox`, `CampaignOutcome`** (done): delivery of a frozen event, and the
   connect lane composed with the reconciler that freezes it; proofs of both.
5. **`GmailLane`, `FollowUpLane`** (done): the submission marker, the records recovery
   reads; the proofs that both implement `AtMostOnce`.
6. **`SweepCutoff`** (done): acceptances against the cutoffs incomplete sweeps leave;
   its proofs.
7. **`DripLanes`** (done): the two lanes of a drip enrolment and what stops them; the
   proof that every step of both implements `AtMostOnce`.
8. To prove next: every safety property of a run has its theorem, so what comes with the
   modules of 9.
9. To model next: the back-off of browser recovery, the supervisor's stop latch,
   invitation withdrawal.

Modules a proof is about use no recursive operators; parameters are CONSTANTS
with a named assumption; invariants are conjunctions of named parts.

## 3. Modules

| Module | What it is |
| --- | --- |
| `AtMostOnce` | The promise of an outbound lane about one piece of outreach: `Begin`, `Deliver`, `Retract`, `Close`, `CloseAll` (a sweep), `Withhold`. |
| `ConnectLane` | One sender's connect lane with its daemon, receipts, budget, Task rows, LinkedIn and everyone who interferes. |
| `CampaignOutcome` | `ConnectLane` composed with the reconciler of completion notices. |
| `ConnectLaneProofs` | The inductive invariant of the lane and its safety theorems; the proof that it implements `AtMostOnce`; what a frozen notice promises. |
| `CallbackOutbox`, `CallbackOutboxProofs` | Delivery of the frozen events: leases, posts, back-off, local export; safety theorems. |
| `PostLedger`, `PostLedgerProofs` | One sender's reposts and posts, the children that run them, the supervisor, LinkedIn; theorems and refinement. |
| `TaskQueue`, `TaskQueueProofs` | The shared task table between daemons and Slack; safety theorems. |
| `GmailLane`, `GmailLaneProofs` | The Gmail sequence of one Deal; safety theorems and refinement. |
| `FollowUpLane`, `FollowUpLaneProofs` | The LinkedIn follow-ups of one person by one sender, across campaigns; safety theorems and refinement. |
| `SweepCutoff`, `SweepCutoffProofs` | The cutoffs of the connection sweeps; safety theorem. |
| `DripLanes`, `DripLanesProofs` | One drip enrolment with its LinkedIn and its Gmail lane; safety theorem and refinement. |
| `MC*` | The instances for TLC, with the symmetry that is sound for them. |

Definitions introduced by the comment "Faulty variant" are not part of a
specification: they are what a plausible mistake in the code would make of the
definition below them, kept to show that the property named in `PROJECT.json` would
notice.

### The connect lane and the code

State:

| Variable | In the code |
| --- | --- |
| `deal`, `tries`, `evidence` | `Deal.state`, `Deal.connect_attempts`, and what the stop checks read: an inbound reply or meeting, a disqualified Lead, a withdrawn invitation |
| `note` | `OutboundDelivery.status` of the Deal's frozen `linkedin_connect` receipt, `none` before it exists; a Deal outside `Versioned` is a legacy Deal with no receipt |
| `charged`, `today`, `restricted` | the Deal's ActionLog rows, the sender's CONNECT rows of the current local day, `connect_restricted_on` |
| `active`, `pending`, `orphaned` | Campaign.status, connect Task rows PENDING, connect Task rows RUNNING whose worker is gone |
| `pc`, `cur`, `attempt`, `reservation` | where `run_daemon` and `handle_connect` are, the candidate, the `InviteAttempt`, the ActionLog row this call reserved (by its day) |
| `li`, `inflight`, `sends` | LinkedIn: the relation a profile page shows, a click it took as a send and has not acted on, invitations it delivered |

The grain of a step is one database transaction or one click: the process can
stop, and every other actor can act, between any two of them. `InviteAttempt`
calls and the clicks they announce are separate steps (`ConnectClicking` then
`ClickConnect`, `SendClicking` then `ClickSend`), because that order is what the
code relies on.

* *Daemon*: `StartDaemon` (heal_tasks), `Claim`, `RecoverChain` and `Complete`
  (the recovery net), `TaskFailed`, `Crash`, `BrowserLost`, `ExitEmpty`.
* *`handle_connect`* in the code's order: `PassInactive`/`PassActive`,
  `HoldAttempted` for every attempted note still in the pool, `RateLimited`,
  `NoCandidate`, `Choose` (`Promote` stands for the ranking's promotion chain),
  `StopChosen`/`PassChecks`, `StatusKnown`/`StatusUnclear`, `Prepare`,
  `NoteNotDue`, `HoldPrepared`, `RefuseStopped`, `StopAtBoundary`,
  `OpenBrowser`.
* *Browser*: each page and control is reduced to what it may show; LinkedIn may
  ignore a click, open a dialog, take it as a send, or answer with its limit.
* *Outcome*: one action per branch after the browser, with the second
  transaction of the branch as an action of its own (`CountTry`, `SetPending`,
  `ChargeLegacy`, `MarkExhausted`, `SetExistingPending`, `FailSkipped`), `Raise`
  for the generic except branch and `MarkRefused` for a receipt another process
  settled.
* *Others*: LinkedIn acting late, the person, the sender by hand, the listener, a
  suppression, the import, the callback thread, midnight, a paused campaign.

LinkedIn, the people and the sender's own hands are environment: they may do
anything except that an invitation already pending is not declined within the
seconds one attempt is in the browser, and that LinkedIn never delivers a second
invitation to somebody it already shows a relation with.

### The post ledgers and the code

`reposts.py` and `personal_posts.py` are the same program over two tables; `kind`
says which ledger a child works for, and the one difference in control, that only
a post looks at the other ledger before it claims, is in `Busy`.

| Variable | In the code |
| --- | --- |
| `status`, `clicked`, `retries` | the row's `status`, `click_attempted_at`, `retry_count`; `absent` before it is enqueued |
| `due`, `stale` | `scheduled_for` has come; `started_at` is longer ago than the bound of `is_stale_running` |
| `step`, `kind`, `row` | where a child is in `run_once`, its ledger, the row it claimed |
| `up`, `owned` | the supervisor is alive; the child is its `repost_child` or `post_child` |
| `browser` | the daemon's browser as the child has it: not attached, attached, gone |
| `taken`, `published` | LinkedIn took the final click and has not acted; posts it made |

A step is one database transaction, one click or one process event. `Enqueue`,
`Cancel`, `Retry` and `Postpone` are the commands and the dashboard. A child goes
through `Sweep`, `NothingDue` or `Attach`, then `claim_next` in two steps, because
its reads lock nothing (`LookForRow` or `ClaimNothing`, then `Claim`), `MarkClick`,
`FinalClick`, and `RecordSent` or `RecordFailure`. `RecordFailure` is every
exception, SIGTERM and an unverified permalink; `ChildDies` is the watchdog's exit, a hard
kill, or a database that is away, which record nothing. `StartChild` is the
supervisor's loop: no child of either ledger known to it, and a due row.
`SupervisorDies` leaves children behind; the next supervisor starts a daemon whose
`SingleInstanceGuard` ends the old daemon, and so the browser a left-over child is
attached to (`SupervisorStarts`). A left-over child that is still on its way finds the
new daemon's browser: it attaches to whatever listens on the port (`Attach`), and the
supervisor, which does not know it, may have started another.

One assumption: a verified permalink belongs to the row. That the person publishes
something else by hand in those seconds is not modelled.

### The completion notices and the code

`CampaignOutcome` adds two variables to the connect lane: `closed`
(`Deal.closing_reason` is set) and `frozen` (the outcome in
`CampaignSubmission.callback_payload`). `Status` is
`campaign_integrations.status`, read over the Deal and the receipt, `Freeze` is
`reconcile`, which may run between any two steps of the lane.

`CallbackOutbox` takes over from there. A worker is a thread or a command:
`StartReconcile` lists candidates, `Freeze` locks one and freezes it, `StartDeliver`
lists due rows and reads the clock once for the batch, `TakeRow` is the first
transaction of `deliver` (skip, abandon, or count the attempt and lease),
`PostAndRecord` the post and the second transaction. Time passes between
any two of them (`Tick`), so a batch's clock may be old. `Exporters` run
`reconcile` for `local_outcomes` (`Export`, `Acknowledge`). `OutcomeChanges` is what
`CampaignOutcome` allows a row to say, without the lane.

### The task queue and the code

One row per `manual_reply` Task (`status`, `reply`), the summary rows counted
(`pendingSummaries`; `orphans` are RUNNING ones whose daemon stopped). `LookForOpen`
and `Insert` are `enqueue_manual_reply_task`, in two steps because nothing makes the
look and the insertion one; `Cancel` deletes a PENDING row. A claim is
`SelectReply` then `ClaimReply` (the guarded update of `_claim_candidate`). The
handler is `CheckReply`, `SendReply`, `RecordReply`, `FinishReply`, so the process can
stop between the send and the record. `Restart` is `heal_tasks`: the sender's own
stale rows become PENDING, summary rows stay. `LookForSummary` and `InsertSummary`
are `enqueue_status_summary` at the start and after a summary.

### The Gmail lane and the code

Per step: `task` and `marker` (the Task row and `gmail_submission_attempted_at` in its
payload), `delivery` (the frozen receipt), `message` (the outbound Message is stored),
`sends` (Gmail's side). `Check` is the part of `handle_gmail_follow_up` before
anything is submitted, in the code's order; `Recheck` the two later reads of the stop;
`Stamp` is `stamp_submission_attempt`; `Submit` the request, whose effect may be
unknown; `Persist`, `Record` and `NextStep` the three transactions after it; `Except`
the handler's except clause. `Start` is recovery at a worker's start (`Recovered` is
`recover_stale_current_gmail_task`), `Fail` what the worker does with an exception,
`Queue` is `enqueue_gmail_follow_up`. The lead's answer is `Stop`, the hook
after its commit `Retire`, which may be lost.

### The LinkedIn follow-ups and the code

A row of the task table carries its delivery and its marker; a delivery is `bound` to
one row at most. A media step goes `Check`, `Prepare`, `Stamp` (with `Guard`, the
`_final_submission_guard`), `Click`, `Persist`, `Record`, `NextStep`, `SetDeal`;
a text step has `Text` in place of marker and click: up to three routes, each tried when
the one before said that it failed. `Drip` is the handoff of the channel, with the
conditions of `evaluate_linkedin_handoff`.

`heal_tasks` is a chain of transactions, and what it read earlier is in `heal`. `Start`
lists the stale RUNNING rows, those with a marker to be recovered (`todo`) and the others
to be reset (`reset`); `ListFailed` adds the FAILED rows whose Message is stored;
`RecoverRow` is one row's transaction, which reads the row again; `ResetOrdinary` is the one
update of the rest, which leaves out the listed ids and reads no marker; `Survey` reads the
unresolved submissions and the connected Deals once, and `CatchUp` takes one Deal after
the other. A row may be marked, finished or claimed between any two of them; a claim makes it
young, so `Claim` takes it out of everybody's `reset`.

The marker is the point of no return. A row marked after a start had listed it goes
back to PENDING with its marker; `Check` refuses it when it is claimed again. `Phase`
therefore reads a step as closed from its marker on, whatever becomes of the row.

### The connection sweep and the code

Time is in ticks. `Cutoff` is `_incremental_cutoff`, read from the latest complete run
(`anchor`) and the latest incomplete one (`held`). `Begin` reads ledger and cutoff,
`Scan` reads the page down to the cutoff or to any depth above it, `Process` is
`process_accepted_deal`, `Processed` and `Record` close the run as complete or not.
`InviteInterrupted` and `Recover` are a connect attempt that stopped before it wrote
PENDING; `Late` TRUE lets a sweep run in between.

### The drip lanes and the code

The state is the graph of rows both lanes share: `campaign`, `enrollment`, `lane`,
`delivery`, the Task rows of a delivery and which of them is `current`, its newest
`attempt`. One transaction is one step: `Reconcile`, `Claim`, `Reserve`, `Boundary`
(the marker), `Click`, `Confirm`, `Failure`, `Finish`, and `Recover`, one row at a
time. Where the two lanes differ, the action has two bodies (`ReserveLinkedIn`,
`ReserveGmail` and so on), because the code differs: LinkedIn stops both lanes and
also a delivery being sent (`StopLocked`), Gmail and the hook after an
answer leave that one alone (`StopForReason`). `Control` is the admin's actions. Whether
a lane may be handed over and a step is due is a free choice of `Reconcile`; the
guards that depend on the rendered text, the media or the account fail by chance
(`GuardReports`).

## 4. Runs

| Run | Question | Bounds |
| --- | --- | --- |
| `connect_outcome` | One invitation, one charge, no retry of a possible send, no notice the receipt contradicts, every step a step of `AtMostOnce` | one version-bound Deal, two Connect clicks per attempt, two process stops or errors, two missing-button tries |
| `connect_two` | The limit holds although it is checked early and charged late; a possibly sent note leaves the pool; the chain of connect rows comes back | a version-bound and a legacy Deal share a limit of one, one click, one stop |
| `post` | A row that reads as not posted was not clicked, two children in the browser are never at one row nor both of one supervisor, every step a step of `AtMostOnce`, a due repost is run whatever a stopped child left | one repost, one post, two children, one retry, one stop |
| `outbox` | One body per event, one lease at a time, every completed row is settled or handed over | one row (remote or local), two delivering workers and an exporter, seven ticks, a batch of two ticks, one stop, two changes of the outcome |
| `queue` | A cancelled reply is not worked on, a recorded one not sent again, every send is one of a queued row or follows a stop, a queued reply is handled, the summary goes on | two senders with a reply each, two rows, one stop |
| `gmail_hung` | Every step a step of `AtMostOnce`, so a mail is sent once; in order, with its Message; a stop holds | two workers, two steps, two deaths, one early row; stale rows may belong to a live worker |
| `gmail_live` | A stored step gets its successor | one worker, three steps, two deaths |
| `followup_pair` | One first message per person; every step a step of `AtMostOnce` | two daemons, two campaigns of one media step each, three rows, one death, one failed attempt; stale rows may belong to a live daemon, which may mark one between any two steps of a start |
| `followup_live` | A stopped receipt was not sent, a confirmed step gets its successor, nothing is sent after a drip handoff | one daemon, a text and a media step, four rows, two deaths, one early row, one failed attempt |
| `sweep` | No acceptance falls behind the next cutoff, and each is found | two invitations, six ticks, an overlap of two, a look-back of three |
| `drip` | A step is sent once, a stop or pause reaches the work of both lanes, a delivery being sent is resolved | a LinkedIn lane of two steps and a Gmail lane of one with a worker each, two rows a step, two events (deaths, admin controls, failures by chance) |
| `recovery_net` | (expected violation) the recovery net as its comment has it | one Deal, one click, two stops, restarts that find a young RUNNING row |

### Why the bounds are enough

*Connect lane.* Receipts and attempts of different Deals do not interact except
through the budget, the queue and the one worker, so one Deal shows every
interleaving of its own receipt, and the theorems cover any number. Two Connect
clicks reach every combination of "an earlier click may have sent" and "the last
click is proven unsent". Two stops allow one during an attempt and one during its
recovery. `connect_two` needs two Deals, which with everything people may do have 15
million states: there nobody touches the legacy Deal, and nobody answers
(`FewPeople`); `connect_outcome` has the rest. The bounds are `MaxClicks` (a guard of
`ConnectClicking`) and `MaxFaults` (a guard of `Crash`, `Raise` and the lost mark in
`TaskFailed`); days, declines and replies are not bounded.

*Ledgers.* Rows of one ledger meet only in the claim and in the sweep, so one row of
each shows the click boundary and the exclusion of the two ledgers. Two children are
one left behind and one the supervisor knows. The bounds are `MaxRetries` (1 for the
code's 2) and `MaxStops` (a guard of `ChildDies` and `SupervisorDies`).

*Outbox.* Two deliverers of one row are enough for two attempts to overlap; the clock is
long enough for a freeze, a lease that ends under a slow post, a second attempt and
the end of the window. A batch is as long as a lease (two ticks), so a lease may end
while its post is under way, as in the code, where fifty posts of ten seconds are more
than five minutes. The numbers keep that order; they are not to scale. Two rows with a limit of one, one worker, no stop and a window of three
(734 000 states) were checked for `CompletedIsSettled` apart from the runs: a row that
keeps failing does not keep the other from its turn.

*Queue.* Two rows let a repeated Slack submission insert a second row of one reply; two
senders are needed for the scope and for the two lookers of the summary. Pending
summaries need no bound of their own: a summary makes at most one, and so does a start,
of which there are at most `MaxStops` more than there are senders.

*Gmail, follow-ups, drip.* Two workers are one that hangs and one that
recovers its row; two deaths are one in the attempt and one in the recovery. Two steps
are a step and its successor. `MaxEarly`, `MaxFails` and `MaxRows` bound rows that
are put back or queued again; a state in which no row is left free only
keeps an action from happening, and the other actions go on. In `drip` deaths,
controls and failures share one budget of two (`MaxEvents`): any two of them meet in
any order; with three the instance is too large. The run has one worker a lane;
the theorems cover any number, hung ones included. For two workers of the LinkedIn
lane with `Hung` TRUE and one event, the safety properties and the inductive invariant
were also checked apart from the runs (3.5 million states); `SendingResolves` does not
hold there, see section 6.

*Sweep.* Two acceptances are one above and one below the depth a scan reaches; six
ticks fit an incomplete sweep, another, and the complete one that ends the chain.

`CHECK_DEADLOCK FALSE` is set in every run because each of these systems may really
stop: when every row is settled, every person connected or stopped, or the bound of the
clock is reached, nothing else is left to do.

### Fairness

Nothing is assumed of LinkedIn, Gmail, people, operators, or failures.

* A worker's own steps (`Work`, `Cycle`, `Run`): weak fairness. The supervisor
  restarts a worker that exited and a live worker keeps going through its loop; a
  child of the ledgers is ended by its watchdog.
* `ConnectLane`: also `NewDay` (time passes). The properties except a paused campaign,
  a worker latched by browser recovery, and, for the code as it is, a RUNNING row an
  earlier worker left (`orphaned`).
* `PostLedger`: weak fairness of `SupervisorStarts` and `GrowStale`; strong fairness of
  `StartChild` for each ledger, because the supervisor checks each ledger again and
  again and finds the browser free in between.
* `CallbackOutbox`: time passes, but not while a batch has used up `BatchTime`, which
  stands for the timeout of ten seconds of each of at most fifty posts; an
  integration acknowledges what it was given.
* `GmailLane`: strong fairness of the exit of `NextStep` that queues the successor: the
  database is not away each time. `FollowUpLane` has no such assumption: its
  liveness run sets `Flaky` FALSE instead.
* `SweepCutoff`: the sweeps go on; now and then a scan reaches its cutoff, and not every
  sweep fails between its scan and its first match (strong fairness of both). Without
  it a page that never loads keeps every acceptance unseen.
* `DripLanes`: workers only. No schedule in the repository starts the reconciliation, so
  none is assumed, and only what needs no reconciliation is stated.

`Lingering` and `FreshOrphans` say whether a restart may come so soon that a dead
worker's row is younger than the stale bound and stays RUNNING. The liveness runs
set them FALSE: such a row waits for a later restart, which nothing guarantees.
`Hung` says that a row older than the bound may still have its worker; the safety
runs of the Gmail lane and the follow-ups set it.

## 5. What is proved

### The connect lane

Under `LimitCoversAttempt` (LinkedIn answers with its limit only when no click of
the same attempt was taken as a send; section 6 says what happens
otherwise), for all sets of Deals, all limits and any number of clicks, stops and
errors (`ConnectLaneProofs`):

* `TypeCorrect`, `NoSecondInvitation`, `RetriesAreSafe`, `ChargedExactlyOnce`,
  `WithinDailyLimit`;
* `Refinement`: `Spec => PromiseKept`.

The safety properties are not inductive by themselves. "A retryable receipt stands
for nothing sent" survives `NoControl` only if the handler's memory is right: when
`MayHaveSent` is false, LinkedIn has taken no click of this attempt. That is
`AttemptShape`, which relates the `InviteAttempt` to the place of the handler, to
LinkedIn's side of the attempt (`attempt.live`) and to the reservation. `NoteInv`
then ties receipt, charge and invitations together, with one clause for the Deal
being attempted and one for a Deal whose note is chosen but not started.
`BudgetInv` carries the room found at the start of a pass to the click that uses
it: from `Choose` to the charge, `today < DailyLimit`. The inductive invariant is
`IInv == TypeOK /\ AttemptShape /\ BudgetInv /\ \A d : NoteInv(d)`; `InitInv`
and `StepInv` prove it, with one lemma per action that touches a receipt and one
per group of actions that do not.

The refinement maps a receipt to a phase (none, planned, failed: unsent; sending:
inFlight; sent, unclear: closed; stopped: withheld) and LinkedIn's deliveries to
themselves. `StepPromise` uses the invariant: a receipt returns to unsent only when
LinkedIn has not acted (`Retract`), a delivery needs a receipt in flight or closed,
and happens once.

### The post ledgers

For all finite or infinite sets of rows and children, any retry limit and any
number of stops (`PostLedgerProofs`): `TypeCorrect`, `UntouchedRows`,
`OwnDriver`, and `Refinement`: `Spec => PromiseKept`. The invariant is
`IInv == TypeOK /\ RowInv /\ HandInv /\ MarkInv /\ DriverInv`. `UntouchedMeansNoClick` alone is
not inductive, since a final click is made by a child that remembers a row, whatever
has become of the row: a sweep may have closed it, and only the marker tells that it
may not be run again. `RowInv` therefore ties LinkedIn's side to the marker instead
of the status (no marker: nothing taken, nothing posted; an unsettled row that may be
run: no marker), `HandInv` that a child past its claim is alone with its row, and `MarkInv` that between
the marker and the click LinkedIn has seen nothing yet, which makes the click the first.
`DriverInv` says that a supervisor knows one living child at a time. Of a child
left behind it says nothing, since such a child may drive beside a new one; what
`OwnDriver` (`Spec => []DriversApart`) adds is that their rows differ, which rests on
`HandInv`: a row a child works on is running or, swept under it, uncertain, and nobody can
claim it again.
The refinement maps a row to a phase (absent, queued, failed, running without a
marker: unsent; running with one: inFlight; sent, uncertain: closed; skipped:
withheld); a sweep is `CloseAll`.

### The Gmail lane

For any number of workers and steps, with or without hung workers and young rows
(`GmailLaneProofs`): `SentOnceTheorem`, `SentIsStoredTheorem`, `InOrderTheorem`,
`StopHoldsTheorem` and `Refinement`: `Spec => Implements`. The first
three are not inductive. That a step is sent once rests on the marker, but the
handler that is about to submit has already set it, so `Alone` says that such a
handler is the only one there for its step and that Gmail has nothing yet, and `Marked`
that everything sent has its marker. `Stored` carries "the Message is there" from the
persist to the record and to the successor, for the handler and for recovery, which
takes a receipt's word only with the Message. `Follows` (a row of a step implies
the Message of the step before) is what makes the order: rows of later steps are made
in `NextStep` only, and a handler in `next` has its Message by `Stored`. The inductive
invariant is `IInv == TypeOK /\ OnRow /\ Marked /\ Alone /\ Stored /\ Follows`.
`StopHolds` follows from it: the two places that make a row for a new step ask for the
stop in the same transaction. The refinement reads the phase of a step from marker and
receipt (a marker: inFlight, closed under a final receipt); no marker is ever taken back,
so no action is a `Retract`.

### The completion notices

`ConnectLaneProofs` extends the connect lane's proofs to `CampaignOutcome`, again under
`LimitCoversAttempt`: `HeldTheorem`, `PossiblySentTheorem`, and `OutcomeRefinement` (the
composition still implements `AtMostOnce`). The invariant `OutcomeInv` is the lane's
`IInv` with `Grounded(d)`: a notice frozen as held, sent or uncertain has a receipt that is
stopped, sent or unclear, whenever the reconciler froze it. What carries it is `Stands`:
no action of the lane rewrites a receipt in one of those three states. `failed` is not
among them, which is why a notice that says so may be overtaken (section 6). The proof
also corrected the model: `Status` was a `CASE` whose guards overlapped, while the code
is an ordered chain, and so is `Status` now.

### The outbox

For any number of rows and workers and any lease, window and batch time
(`CallbackOutboxProofs`): `TypeCorrect`, `LeaseExclusiveTheorem`, `FrozenOnceTheorem`,
`DeliveryStandsTheorem`, `SettledIsNotPostedTheorem`. The first needs the worker's memory,
because a lease is not a lock but a time in the row, computed from a clock read before
the batch. The inductive invariant is `IInv == TypeOK /\ Timed /\ Numbered /\ Leased /\
Unique`: a batch's clock may be old but is never ahead, a post carries the number of its
attempt, the newest attempt of a row set the lease that stands there, the lease of every
earlier one is over, and no two posts carry one number. Of two posts of one row, then, at
most one is the newest, and the other is past its lease.

### The task queue

For any number of senders, rows and stops (`TaskQueueProofs`): `CancelIsFinalTheorem`,
`RecordedIsNotResentTheorem`, `SendsAccountedTheorem`. `Owned(o)` says that the row a daemon works on is of its own
sender and stays RUNNING until that daemon is done with it or stops: a cancellation
takes PENDING rows only, and recovery takes rows of its own sender only, so neither
reaches it. `Unrecorded(o)` carries the look at the ledger to the send: only the daemon of
the reply's sender could have recorded it in between. `Inserted` and `Gone` say that rows
keep their reply and deleted rows stay deleted. `SendsAccountedTheorem` bounds what the
ledger cannot rule out (section 6; its write may also fail, and the row completes all the
same): a reply reaches LinkedIn once for each row queued for it and once more for each
stop. Its invariant `CountInv` counts the spent rows of a reply,
those finished or past the page with their daemon alive: a send spends one more row, a
stop gives one back at the most, and no other step unspends a row. It rests on `Owned`
(no two daemons are at one row) and on the rows being finitely many.

### The LinkedIn follow-ups

For any number of daemons, campaigns, steps and rows (`FollowUpLaneProofs`):

* `TypeCorrect`, without hypotheses;
* `OrdinaryResets`: when a stale row is one nobody works on (`~Hung`), or the sender has one
  daemon (`OneDaemon`, as `SingleInstanceGuard` has it), the reset of a start meets no row
  that was marked since it was listed (`[]ResetsOrdinary`);
* `OnePitchTheorem`, when the first step has an attachment (`0 \in MediaSteps`), under
  `[]ResetsOrdinary`, and so without it in the cases of `OrdinaryResets`;
* `SentOnceTheorem` and `Refinement`, when every step has one (`AllMedia`), because a text
  step has no marker: its routes may send twice (section 6), and the lane does not
  implement `AtMostOnce` for it; the rest as before;
* `DripTakesOverTheorem`, with one daemon, or with `AllMedia` and `[]ResetsOrdinary`;
* `StoppedIsUnsentTheorem`, with one daemon, when only the first message may be a text and
  a text route does not send and then report failure (`TextFirst`). Both halves are
  needed: with a later text, or with `Deaf = TRUE`, TLC finds a step sent whose receipt says
  stopped.

`[]ResetsOrdinary` is needed: with three daemons, two of them hung at the right places, a
reset row loses its marker and the step is sent again (section 6). `OrdinaryResets` has an
induction of its own (`ResetInv`: a row to be reset is unmarked, and nobody who could mark
it works on it), which rests on the types alone.

The invariant rests on one fact about the whole person: at most one marker has no
Message yet (`OneUndecided`), since `Stamp` refuses while any row of the person has one.
From it follow that one daemon at most is at a click (`OneClick`), that its step was not
sent before, and, for a first step, that no campaign has pitched yet. `Accounted` and
`FirstOnce` say of what was sent that it is on record or marked, and once. `WorkerInv`
relates each daemon to its row, and in particular keeps `~drip` from the guard to the
click. One daemon adds `RunningInv` (the row it works on is running, which the handoff
waits for) and `WithheldInv`: a step it may still withhold was never sent, and a text
that was sent is stored or its delivery says so, which its check reads.

### The sweep

For any number of invitations, any overlap and look-back (`SweepCutoffProofs`):
`NothingBehindTheCutoffTheorem`, under `Sound` (no page stalls, no attempt is recorded
only after a sweep: with either one the property fails, section 6). The property says
nothing of a sweep at work and is not inductive. `AtWork` says that a sweep's cutoff is no
later than the one that stands and that it ends within the overlap; `Seen` that once its
scan was complete, what it neither found nor processed was accepted after it began; so
the cutoff that the finished run leaves, its begin less the overlap, is behind it. `Behind` includes
invitations that were interrupted before they became PENDING, since recovery makes them
wait later with the old time of their acceptance.

### The drip lanes

Without hypotheses, so for any number of steps and workers of each lane, hung ones
included (`DripLanesProofs`): `TypeCorrect`, `HeldHasNoWorkTheorem`, and `Refinement`:
`Spec => Implements`, every step of both lanes. The state is a graph of rows in which a
delivery, its newest attempt and the provider can disagree; `Agree` says in which ways.
`Ordered` (a step is taken up only when the earlier ones are sent) makes one delivery of
a lane the one under way, so that a stop which looks at one delivery does reach all of
the lane's work. `RowInv` says that a row is pending only if it is the current one of a
queued delivery under active controls. `WorkerInv`, `OneClaim` and `OneClick` follow a
claim through the three transactions of the attempt when recovery may take the row
from a live worker.

The proof has one lemma per action, with one goal: the action is, for each delivery, one
of a few moves (`Moves`: reserve, mark, deliver, resolve, stop and so on) and never makes a
stopped lane active (`StopsStay`). That every move keeps the invariant, and is a step of
`AtMostOnce` or a stutter (`MovePromise`), is then shown once for all actions.

### Model-checked only

* Liveness and whatever needs fairness, which the prover does not reach: `ChainAlive`,
  `RepostsMove`, `CompletedIsSettled`, `LocalIsExported`, `ReplyIsHandled`, `SummariesGoOn`,
  `SequenceGoesOn` of both sequences, `UncertainIsHeld`, `AcceptedIsFound`,
  `SendingResolves`.
* The expected violation.
* `OnePitch` and `Implements` of `followup_pair` where a start does queue a row that was
  marked since it was listed: the theorems exclude that, the run does not, with two
  daemons.

Every other property of a passing run is stated by a theorem whose hypotheses the run's
instance meets.

## 6. Where the code differs from what is written about it

The run `recovery_net` is kept as an expected violation: the recovery net counts RUNNING
rows, also those of a dead worker that a quick restart does not heal. After a pass that
met a paused campaign the connect chain of a resumed campaign stays silent although
the worker is alive.

The rest is recorded here with what shows it: the definition named stays in its
module, and TLC finds the violation when it is checked under the instance given.

| What | Shown by |
| --- | --- |
| `ReachedConnectionLimit` returns receipt and budget without asking whether an earlier click of the attempt may have sent. | `RetryableMeansUnsent` in `CampaignOutcome.cfg` with `LimitCoversAttempt = FALSE` |
| A missing button marks a note `failed` that was never clicked, while the closing of stranded notes reads `failed` as "was in sending". | `FailedWasSending` in `CampaignOutcome.cfg` |
| A Deal returned to QUALIFIED after a missing button is not promoted again while `ENABLE_AUTO_DISCOVERY` is off. | `QualifiedIsRetried` in `ConnectLane_net.cfg` |
| A notice that says `failed` may be frozen for a Deal closed while its click is under way; the lane then records `sent`. | `FailedIsFinal` in `CampaignOutcome.cfg` |
| A repost child that is killed leaves its row RUNNING; only another repost child sweeps it, and the sender's due posts wait for it past the row's bound. | `PostsMove` in `PostLedger.cfg` |
| "A post child and a repost child never drive this sender's browser together" (`daemon_supervisor.py:835`) does not hold of a child left behind by a dead supervisor: it attaches to the new daemon's browser by its port, the new supervisor starts a child of the other ledger beside it, and only a post looks at the other ledger, before its claim. They stay at different rows (`DriversApart`). | `NeverTogether` in `PostLedger.cfg` |
| A notice frozen while no deliverer runs is abandoned after the window without one attempt. | `AbandonedWasTried` in `CallbackOutbox.cfg` |
| The ledger a manual reply consults is written after the send: a daemon that dies between the two sends the reply again. | `SentOnce` in `TaskQueue.cfg` |
| A stored Gmail step of a lead that answered never ends: the handler asks a sent receipt to become stopped, which raises, and the row is put back. | `RowsEnd` in `GmailLane_live.cfg` with `Replies = TRUE` |
| An interrupted follow-up delivery is bound to a new row and queued again; a later text may then be withheld, its receipt stopped, after it was sent. | `InterruptedIsNotRebound` in `FollowUpLane_live.cfg`; `StoppedIsUnsent` there with `MediaSteps = {0}` |
| A text route that sent and then reports failure is followed by the next route. | `SentOnce` of `FollowUpLane` with `Deaf = TRUE` |
| A follow-up that is marked between the listing and the reset of a start is queued again with its marker. With a third daemon that queues the same delivery again at that moment, the marker is overwritten, and the step is sent twice. (Three daemons of one sender, two of them hung: `SingleInstanceGuard` has to fail twice.) | `SentOnce` in `FollowUpLane_pair.cfg` with `Workers = {w1, w2, w3}`, `Deals = {d1}`, `MaxRows = 2`, and `Replies`, `Drips`, `Flaky` FALSE |
| An invitation recorded as PENDING only after its acceptance falls behind the cutoff of a sweep that ran in between. | `NothingBehindTheCutoff` in `SweepCutoff.cfg` with `Late = TRUE` |
| A page that stalls counts as read to its end. | the same with `Stalls = TRUE` |

Seen in `DripLanes`, and not against any statement of the repository: a LinkedIn row whose
worker dies between claim and reservation stays RUNNING (the ordinary reset leaves drip
rows out, and the drip recovery looks only at deliveries being sent); a stop from the
LinkedIn lane marks a Gmail delivery stopped that is being submitted (the attempt keeps
the truth, and `Phase` reads it there); a delivery recovered in a stopped enrolment
becomes planned, not stopped, and nothing takes it up; with a hung worker whose row was
recovered a LinkedIn delivery can stay SENDING under a COMPLETED row.

Two properties rest on one process per sender (`SingleInstanceGuard`): `StoppedIsUnsent` of
the follow-ups, and the meaning of a stopped Gmail receipt. Two live workers on one
queue may stop a delivery the other is submitting.

## 7. Not modelled

*Connect lane and ledgers*: selectors, page layouts, waits and retries inside one page;
the text of a note (its freezing is a status here); the weekly limit, which the sender
row checks in the same expression as the daily one; the qualifier's numbers (`Promote`
is a free choice); validation of rows, the media download, tab receipts and the Slack
announcement of the ledgers. The assumption on the ledgers is in section 3. A pass
that stops a chosen Deal (`StopChosen`) or counts a missing button (`CountTry`) is one step
each: the exits they stand for write the same fields and differ in the reason they log.

*Follow-ups*: a campaign's pause, the owner and no-thread guards, the count of the quota
and due dates (both by chance), legacy rows without a delivery, ActionLog rows.

*Gmail*: legacy rows without a delivery, thread bindings and headers, the row of the
address lookup, the cursor of the startup pass.

*Sweep*: the legacy cutoff and the first watermark taken from legacy rows, the rounding
of the page's dates to days, what an accepted Deal queues besides its state.

*Task queue*: the order in which `claim_next` offers the lanes, campaign priorities,
the summary's hour of delay.

*Drip*: enrolment, publication, manifests, rendering, tracked links, several enrolments
of one person, the conditions of the handoff (they are `HandoffReady` in `FollowUpLane`).

*Components not modelled*: invitation withdrawal (a command under an advisory lock),
the enrichment worker (idempotent, no outbound effect), the realtime listener (its
effect is `Reply` and `Stop`), feed sampling and discovery, message store and CRM views,
the rest of the HTTP API, the legacy cutover and RB2B notices, the qualifier. Most of
the repository's lines are reports, imports, spreadsheets and views: sequential
transformations of data without shared state, which their tests cover better than a
model would.
