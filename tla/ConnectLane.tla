----------------------------- MODULE ConnectLane -----------------------------
(***************************************************************************)
(* The connect lane of one sender and one campaign: tasks/connect.py       *)
(* handle_connect, the browser clicks of actions/connect.py it drives, the *)
(* durable receipt (OutboundDelivery, channel linkedin_connect), the       *)
(* ActionLog budget the first click reserves, the connect Task rows, and   *)
(* the daemon process that may stop between any two of these writes.       *)
(*                                                                         *)
(* LinkedIn is modelled by what it may do with a click: li is the relation *)
(* it holds with each person, inflight a click it has taken as a send but  *)
(* not yet acted on (it may act after the daemon stopped), sends the       *)
(* invitations it delivered.                                               *)
(***************************************************************************)
EXTENDS Integers

CONSTANTS
  Deals,              \* the campaign's Deals
  Versioned,          \* those bound to a message version, which have a receipt
  None,               \* no Deal
  MaxConnectAttempts, \* MAX_CONNECT_ATTEMPTS
  DailyLimit,         \* connect_daily_limit of the sender
  AutoDiscovery,      \* ENABLE_AUTO_DISCOVERY
  LimitCoversAttempt, \* LinkedIn's limit answer also speaks for earlier clicks
  FreshOrphans,       \* a restart may find a RUNNING row younger than stale
  MaxClicks,          \* bound: Connect controls clicked in one attempt
  MaxFaults           \* bound: process stops and unexpected errors

ASSUME LaneAssumption ==
  /\ Versioned \subseteq Deals
  /\ None \notin Deals
  /\ MaxConnectAttempts \in Nat \ {0}
  /\ DailyLimit \in Nat
  /\ {AutoDiscovery, LimitCoversAttempt, FreshOrphans} \subseteq BOOLEAN
  /\ MaxClicks \in Nat /\ MaxFaults \in Nat

VARIABLES
  deal,        \* Deal.state
  note,        \* status of the Deal's frozen connection note
  tries,       \* Deal.connect_attempts
  evidence,    \* persisted reason to leave the person alone
  charged,     \* ActionLog rows written for the Deal and not deleted
  today,       \* the sender's CONNECT rows of the current local day
  restricted,  \* connect_restricted_on is today
  active,      \* Campaign.status is ACTIVE
  pending,     \* connect Task rows PENDING
  orphaned,    \* connect Task rows left RUNNING by a worker that is gone
  pc,          \* where the daemon is
  cur,         \* the Deal handle_connect works on
  attempt,     \* the InviteAttempt of this call
  reservation, \* the ActionLog row this call reserved, by its day
  li, inflight, sends,  \* LinkedIn: relation, unanswered send click, invitations
  faults       \* stops and unexpected errors so far

dealVars == <<deal, note, tries, evidence>>
budgetVars == <<charged, today, restricted>>
queueVars == <<active, pending, orphaned>>
workVars == <<pc, cur, attempt, reservation>>
linkedIn == <<li, inflight, sends>>
vars == <<dealVars, budgetVars, queueVars, workVars, linkedIn, faults>>

States == {"QUALIFIED", "READY", "PENDING", "CONNECTED", "COMPLETED", "FAILED"}
Statuses == {"none", "planned", "sending", "sent", "failed", "unclear", "stopped"}
Terminal == {"sent", "unclear", "stopped"}
Attempted == {"sending", "sent", "unclear"}
Effects == {"nothing", "dialog", "invite", "limit"}

\* Where the browser is inside send_connection_request.
Clicking == {"browse", "clicking", "opened", "dialog", "submitted"}
\* The rest of handle_connect, between two of its database writes.
Between == {"pass", "hold", "chosen", "status", "prepare", "boundary", "stopNote",
            "noButton", "accepted", "charge", "limited", "existing", "skipped",
            "reschedule"}
PCs == Clicking \union Between \union {"down", "idle", "done", "failed", "blocked"}
Running == PCs \ {"down", "idle", "blocked"}

\* live is LinkedIn's side: it took some click of this attempt as a send.
Attempts == [clicked : BOOLEAN, sentPossible : BOOLEAN, connectOpen : BOOLEAN,
             clicks : Nat, effect : Effects, live : BOOLEAN]
NoAttempt == [clicked |-> FALSE, sentPossible |-> FALSE, connectOpen |-> FALSE,
              clicks |-> 0, effect |-> "nothing", live |-> FALSE]

TypeOK ==
  /\ deal \in [Deals -> States]
  /\ note \in [Deals -> Statuses]
  /\ tries \in [Deals -> Nat]
  /\ evidence \in [Deals -> {"none", "replied", "disqualified", "withdrawn"}]
  /\ charged \in [Deals -> Nat]
  /\ today \in Nat
  /\ restricted \in BOOLEAN
  /\ active \in BOOLEAN
  /\ pending \in Nat
  /\ orphaned \in Nat
  /\ pc \in PCs
  /\ cur \in Deals \union {None}
  /\ attempt \in Attempts
  /\ reservation \in {"none", "today", "earlier"}
  /\ li \in [Deals -> {"none", "pending", "connected"}]
  /\ inflight \in [Deals -> BOOLEAN]
  /\ sends \in [Deals -> Nat]
  /\ faults \in Nat

Init ==
  /\ deal \in [Deals -> {"QUALIFIED", "READY"}]
  /\ note = [d \in Deals |-> "none"]
  /\ tries = [d \in Deals |-> 0]
  /\ evidence = [d \in Deals |-> "none"]
  /\ charged = [d \in Deals |-> 0]
  /\ today = 0
  /\ restricted = FALSE
  /\ active = TRUE
  /\ pending = 0
  /\ orphaned = 0
  /\ pc = "down"
  /\ cur = None
  /\ attempt = NoAttempt
  /\ reservation = "none"
  /\ li = [d \in Deals |-> "none"]
  /\ inflight = [d \in Deals |-> FALSE]
  /\ sends = [d \in Deals |-> 0]
  /\ faults = 0

------------------------------------------------------------------------------
InPool(d) == deal[d] \in {"QUALIFIED", "READY"}
HasWork == AutoDiscovery \/ \E d \in Deals : InPool(d) /\ evidence[d] # "disqualified"
\* get_ready_to_connect_profiles
Ready(d) == deal[d] = "READY" /\ evidence[d] # "disqualified"
\* Faulty variant: the limit itself still counts as room.
CanExecuteAtLimit == ~restricted /\ today <= DailyLimit
CanExecute == ~restricted /\ today < DailyLimit
\* Faulty variant: only the last Connect click counts.
LastClickMaySend == attempt.connectOpen
MayHaveSent == attempt.sentPossible \/ attempt.connectOpen
AtLeastOne(n) == IF n = 0 THEN 1 ELSE n

\* mark_delivery_status accepts s for d's receipt; a legacy Deal has none.
CanMark(d, s) == d \in Versioned => note[d] \notin Terminal \/ note[d] = s
Marked(d, s) == IF d \in Versioned THEN [note EXCEPT ![d] = s] ELSE note

\* Faulty variant: an interrupted note is stopped instead of unclear.
ClosedAsStopped(d) ==
  IF d \notin Versioned \/ note[d] \in Terminal \union {"none"} THEN note
  ELSE [note EXCEPT ![d] = "stopped"]

\* close_unsent_connection_delivery
Closed(d) ==
  IF d \notin Versioned \/ note[d] \in Terminal \union {"none"} THEN note
  ELSE [note EXCEPT ![d] = IF note[d] \in {"sending", "failed"}
                           THEN "unclear" ELSE "stopped"]

\* Faulty variant: the Deal stays in the pool.
HoldNoteOnly(d) ==
  /\ note' = IF note[d] = "sending" THEN [note EXCEPT ![d] = "unclear"] ELSE note
  /\ UNCHANGED deal

\* _hold_attempted_connection, one transaction over the receipt and the Deal.
Hold(d) ==
  /\ note' = IF note[d] = "sending" THEN [note EXCEPT ![d] = "unclear"] ELSE note
  /\ deal' = IF InPool(d) THEN [deal EXCEPT ![d] = "PENDING"] ELSE deal

\* record_action, and _release_connection_reservation deleting that very row.
Record(d) ==
  /\ charged' = [charged EXCEPT ![d] = @ + 1]
  /\ today' = today + 1
\* Faulty variants: the row is kept, or taken from the wrong day's count.
KeepRow(d) == UNCHANGED <<charged, today>>
ReleaseFromToday(d) ==
  /\ charged' = IF reservation = "none" THEN charged ELSE [charged EXCEPT ![d] = @ - 1]
  /\ today' = IF reservation = "none" THEN today ELSE today - 1
Release(d) ==
  /\ charged' = IF reservation = "none" THEN charged ELSE [charged EXCEPT ![d] = @ - 1]
  /\ today' = IF reservation = "today" THEN today - 1 ELSE today

\* Control moves on inside the handler, on the same Deal and the same attempt.
Goto(from, to) == pc = from /\ pc' = to /\ UNCHANGED <<cur, attempt, reservation>>
\* Control leaves the browser: attempt and reservation are settled.
Settle(to) == pc' = to /\ attempt' = NoAttempt /\ reservation' = "none" /\ UNCHANGED cur
\* Control leaves the Deal.
Leave(to) == pc' = to /\ cur' = None /\ attempt' = NoAttempt /\ reservation' = "none"

------------------------------------------------------------------------------
(* The daemon process and its connect Task rows. *)

\* heal_tasks, then the main loop unless no campaign is active.  A RUNNING row
\* goes back to PENDING only when it is older than TASK_RUNNING_STALE_MINUTES.
StartDaemon ==
  /\ pc = "down"
  /\ \E stale \in 0..orphaned :
       /\ FreshOrphans \/ stale = orphaned
       /\ orphaned' = orphaned - stale
       /\ pending' = IF active /\ HasWork THEN AtLeastOne(pending + stale)
                                          ELSE pending + stale
  /\ deal' = IF AutoDiscovery \/ ~active THEN deal
             ELSE [d \in Deals |-> IF deal[d] = "QUALIFIED" THEN "READY" ELSE deal[d]]
  /\ pc' = IF active THEN "idle" ELSE "down"
  /\ UNCHANGED <<note, tries, evidence, budgetVars, active, cur, attempt,
                 reservation, linkedIn, faults>>

\* claim_next takes one due row, then mark_running.
Claim ==
  /\ Goto("idle", "pass")
  /\ pending > 0
  /\ pending' = pending - 1
  /\ UNCHANGED <<dealVars, budgetVars, active, orphaned, linkedIn, faults>>

\* Faulty variant: no recovery net.
NoRecoveryNet == UNCHANGED queueVars

\* _ensure_connect_task_for_campaign counts RUNNING rows as well as PENDING.
EnsureConnectTask ==
  /\ pending' = IF active /\ HasWork /\ orphaned = 0 THEN AtLeastOne(pending)
                ELSE pending
  /\ UNCHANGED <<active, orphaned>>

\* claim_next returned nothing: the recovery net of the main loop.
RecoverChain ==
  /\ Goto("idle", "idle")
  /\ pending = 0
  /\ EnsureConnectTask
  /\ UNCHANGED <<dealVars, budgetVars, linkedIn, faults>>

\* No row of any type is left and the net seeds nothing: the worker returns.
\* Whether the other lanes have rows is not known here, so it need not happen.
ExitEmpty ==
  /\ pc = "idle"
  /\ pending = 0
  /\ ~active \/ ~HasWork \/ orphaned > 0
  /\ Leave("down")
  /\ UNCHANGED <<dealVars, budgetVars, queueVars, linkedIn, faults>>

\* mark_completed, then the net again.
Complete ==
  /\ Goto("done", "idle")
  /\ EnsureConnectTask
  /\ UNCHANGED <<dealVars, budgetVars, linkedIn, faults>>

\* The except branch of run_daemon.  _safe_mark_failed may leave the row RUNNING
\* (a second dead connection); a browser transport error holds the process and
\* seeds nothing; any other error seeds the next pass.
TaskFailed ==
  /\ pc = "failed"
  /\ \/ orphaned' = orphaned /\ UNCHANGED faults
     \/ faults < MaxFaults /\ faults' = faults + 1 /\ orphaned' = orphaned + 1
  /\ \/ Leave("idle") /\ pending' = IF active THEN AtLeastOne(pending) ELSE pending
     \/ Leave("blocked") /\ UNCHANGED pending
  /\ UNCHANGED <<dealVars, budgetVars, active, linkedIn>>

\* The process stops anywhere; a claimed row stays RUNNING.
Crash ==
  /\ pc # "down"
  /\ faults < MaxFaults
  /\ faults' = faults + 1
  /\ orphaned' = IF pc \in Running THEN orphaned + 1 ELSE orphaned
  /\ Leave("down")
  /\ UNCHANGED <<dealVars, budgetVars, active, pending, linkedIn>>

\* Between two tasks the browser stays offline, is rate limited or logged out:
\* BrowserRecovery latches and nothing is claimed any more.
BrowserLost ==
  /\ pc = "idle"
  /\ Leave("blocked")
  /\ UNCHANGED <<dealVars, budgetVars, queueVars, linkedIn, faults>>

\* An operator restarts a worker held by BrowserRecovery.
RestartBlocked ==
  /\ pc = "blocked"
  /\ Leave("down")
  /\ UNCHANGED <<dealVars, budgetVars, queueVars, linkedIn, faults>>

\* Every return of handle_connect but the first reaches enqueue_connect.
Reschedule ==
  /\ pc = "reschedule"
  /\ Leave("done")
  /\ pending' = IF active THEN AtLeastOne(pending) ELSE pending
  /\ UNCHANGED <<dealVars, budgetVars, active, orphaned, linkedIn, faults>>

------------------------------------------------------------------------------
(* handle_connect up to the browser. *)

\* Campaign not active: return without rescheduling.
PassInactive ==
  /\ Goto("pass", "done")
  /\ ~active
  /\ UNCHANGED <<dealVars, budgetVars, queueVars, linkedIn, faults>>

PassActive ==
  /\ Goto("pass", "hold")
  /\ active
  /\ UNCHANGED <<dealVars, budgetVars, queueVars, linkedIn, faults>>

ToHold == {d \in Versioned : InPool(d) /\ note[d] \in Attempted}

\* _hold_attempted_connections, one Deal per transaction.
HoldAttempted(d) ==
  /\ Goto("hold", "hold")
  /\ d \in ToHold
  /\ Hold(d)
  /\ UNCHANGED <<tries, evidence, budgetVars, queueVars, linkedIn, faults>>

RateLimited ==
  /\ Goto("hold", "reschedule")
  /\ ToHold = {}
  /\ ~CanExecute
  /\ UNCHANGED <<dealVars, budgetVars, queueVars, linkedIn, faults>>

NoCandidate ==
  /\ Goto("hold", "reschedule")
  /\ ToHold = {}
  /\ CanExecute
  /\ \A d \in Deals : ~Ready(d)
  /\ UNCHANGED <<dealVars, budgetVars, queueVars, linkedIn, faults>>

\* find_candidate: the ranking may return any READY Deal.
Choose(d) ==
  /\ pc = "hold"
  /\ ToHold = {}
  /\ CanExecute
  /\ Ready(d)
  /\ pc' = "chosen"
  /\ cur' = d
  /\ UNCHANGED <<attempt, reservation, dealVars, budgetVars, queueVars, linkedIn, faults>>

\* find_candidate with auto discovery promotes confident QUALIFIED Deals.
Promote(d) ==
  /\ Goto("hold", "hold")
  /\ AutoDiscovery
  /\ deal[d] = "QUALIFIED"
  /\ deal' = [deal EXCEPT ![d] = "READY"]
  /\ UNCHANGED <<note, tries, evidence, budgetVars, queueVars, linkedIn, faults>>

StopState(d) == IF evidence[d] = "replied" THEN "COMPLETED" ELSE "FAILED"

\* Suppression, automation stop and withdrawn-invitation checks.
StopChosen(d) ==
  /\ Goto("chosen", "reschedule")
  /\ cur = d
  /\ evidence[d] # "none"
  /\ deal' = [deal EXCEPT ![d] = StopState(d)]
  /\ UNCHANGED <<note, tries, evidence, budgetVars, queueVars, linkedIn, faults>>

PassChecks(d) ==
  /\ Goto("chosen", "status")
  /\ cur = d
  /\ evidence[d] = "none"
  /\ UNCHANGED <<dealVars, budgetVars, queueVars, linkedIn, faults>>

\* get_connection_status saw the relation: Deal and receipt commit together.
StatusKnown(d) ==
  /\ Goto("status", "reschedule")
  /\ cur = d
  /\ li[d] # "none"
  /\ deal' = [deal EXCEPT ![d] = IF li[d] = "connected" THEN "CONNECTED" ELSE "PENDING"]
  /\ note' = Closed(d)
  /\ UNCHANGED <<tries, evidence, budgetVars, queueVars, linkedIn, faults>>

\* Without a clear indicator the status defaults to not connected.
StatusUnclear(d) ==
  /\ Goto("status", "prepare")
  /\ cur = d
  /\ UNCHANGED <<dealVars, budgetVars, queueVars, linkedIn, faults>>

\* _versioned_connection_delivery freezes the note on first use.
Prepare(d) ==
  /\ Goto("prepare", "boundary")
  /\ cur = d
  /\ d \in Versioned => note[d] \in {"none", "planned", "failed"}
  /\ note' = IF d \in Versioned /\ note[d] = "none" THEN [note EXCEPT ![d] = "planned"]
             ELSE note
  /\ UNCHANGED <<deal, tries, evidence, budgetVars, queueVars, linkedIn, faults>>

\* The frozen note is not due yet.
NoteNotDue(d) ==
  /\ Goto("prepare", "reschedule")
  /\ cur = d
  /\ d \in Versioned
  /\ note[d] \in {"none", "planned", "failed"}
  /\ note' = IF note[d] = "none" THEN [note EXCEPT ![d] = "planned"] ELSE note
  /\ UNCHANGED <<deal, tries, evidence, budgetVars, queueVars, linkedIn, faults>>

\* The receipt became final while the status was checked.
HoldPrepared(d) ==
  /\ Goto("prepare", "reschedule")
  /\ cur = d
  /\ d \in Versioned
  /\ note[d] \in Attempted
  /\ Hold(d)
  /\ UNCHANGED <<tries, evidence, budgetVars, queueVars, linkedIn, faults>>

\* A stopped note is refused: MessageDeliveryError.
RefuseStopped(d) ==
  /\ Goto("prepare", "failed")
  /\ cur = d
  /\ d \in Versioned
  /\ note[d] = "stopped"
  /\ UNCHANGED <<dealVars, budgetVars, queueVars, linkedIn, faults>>

\* automation_stop_reason again at the mutation boundary; withdrawal is not in it.
StoppedNow(d) == evidence[d] \in {"replied", "disqualified"}

StopAtBoundary(d) ==
  /\ Goto("boundary", IF d \in Versioned THEN "stopNote" ELSE "reschedule")
  /\ cur = d
  /\ StoppedNow(d)
  /\ deal' = [deal EXCEPT ![d] = StopState(d)]
  /\ UNCHANGED <<note, tries, evidence, budgetVars, queueVars, linkedIn, faults>>

MarkStopped(d) ==
  /\ Goto("stopNote", "reschedule")
  /\ cur = d
  /\ CanMark(d, "stopped")
  /\ note' = Marked(d, "stopped")
  /\ UNCHANGED <<deal, tries, evidence, budgetVars, queueVars, linkedIn, faults>>

OpenBrowser(d) ==
  /\ Goto("boundary", "browse")
  /\ cur = d
  /\ ~StoppedNow(d)
  /\ UNCHANGED <<dealVars, budgetVars, queueVars, linkedIn, faults>>

------------------------------------------------------------------------------
(* send_connection_request: the clicks.  Each InviteAttempt call is a step,  *)
(* the click it announces is the next one.                                    *)

\* before_click: receipt and reservation in one transaction, first click only.
Reserve(d) ==
  IF attempt.clicked \/ d \notin Versioned
  THEN UNCHANGED <<note, charged, today, reservation>>
  ELSE /\ CanMark(d, "sending")
       /\ note' = Marked(d, "sending")
       /\ Record(d)
       /\ reservation' = "today"

ConnectClicking(d) ==
  /\ pc = "browse" /\ cur = d
  /\ attempt.clicks < MaxClicks
  /\ li[d] = "none"
  /\ Reserve(d)
  /\ attempt' = [attempt EXCEPT !.clicked = TRUE, !.sentPossible = MayHaveSent,
                                !.connectOpen = TRUE, !.clicks = @ + 1,
                                !.effect = "nothing"]
  /\ pc' = "clicking"
  /\ UNCHANGED <<cur, deal, tries, evidence, restricted, queueVars, linkedIn, faults>>

\* What the announced click does at LinkedIn.
Click(d, effect) ==
  /\ cur = d
  /\ attempt' = [attempt EXCEPT !.effect = effect, !.live = @ \/ effect = "invite"]
  /\ inflight' = [inflight EXCEPT ![d] = @ \/ effect = "invite"]
  /\ UNCHANGED <<cur, reservation, dealVars, budgetVars, queueVars, li, sends, faults>>

ClickConnect(d) ==
  /\ pc = "clicking" /\ pc' = "opened"
  /\ \E effect \in {"nothing", "dialog", "invite"} : Click(d, effect)

Settled(d, to, unsentProven) ==
  /\ pc = "opened" /\ pc' = to
  /\ cur = d
  /\ attempt' = [attempt EXCEPT !.sentPossible = @ \/ ~unsentProven, !.connectOpen = FALSE]
  /\ UNCHANGED <<cur, reservation, dealVars, budgetVars, queueVars, linkedIn, faults>>

\* The page offers the dialog of this click and shows no Pending control.
DialogProven(d) ==
  /\ attempt.effect = "dialog"
  /\ li[d] # "pending"
  /\ Settled(d, "dialog", TRUE)

\* An invite surface, but with a Pending control: proof of nothing.
DialogUnproven(d) ==
  /\ li[d] = "pending"
  /\ Settled(d, "dialog", FALSE)

\* Faulty variant: no dialog is taken as proof that nothing was sent.
NoSurfaceAsUnsent(d) == Settled(d, "browse", TRUE)

\* No invite surface: the next direct control, the More menu, or giving up.
NoSurface(d) == Settled(d, "browse", FALSE)

SendClicking(d) ==
  /\ pc = "dialog" /\ cur = d
  /\ attempt' = [attempt EXCEPT !.sentPossible = TRUE, !.effect = "nothing"]
  /\ pc' = "submitted"
  /\ UNCHANGED <<cur, reservation, dealVars, budgetVars, queueVars, linkedIn, faults>>

\* Whether LinkedIn may answer with its limit although an earlier click sent.
LimitPossible == LimitCoversAttempt => ~attempt.live

ClickSend(d) ==
  /\ pc = "submitted" /\ pc' = pc
  /\ attempt.effect = "nothing"
  /\ Click(d, "invite") \/ (LimitPossible /\ Click(d, "limit"))

------------------------------------------------------------------------------
(* What handle_connect makes of the attempt.  A receipt that is final by now   *)
(* refuses the mark, and the error ends the call (MarkRefused).                *)

\* Receipt and budget returned together: the attempt certainly sent nothing.
ReturnUnsent(d, s) ==
  /\ CanMark(d, s)
  /\ note' = Marked(d, s)
  /\ Release(d)

\* QUALIFIED: no usable control (before or after a Connect click, or no note UI).
NoControl(d) ==
  /\ pc \in {"browse", "dialog"} /\ cur = d
  /\ \/ /\ d \in Versioned /\ MayHaveSent
        /\ Hold(d)
        /\ Settle("reschedule")
        /\ UNCHANGED <<charged, today>>
     \/ /\ ~(d \in Versioned /\ MayHaveSent)
        /\ ReturnUnsent(d, "failed")
        /\ Settle("noButton")
        /\ UNCHANGED deal
  /\ UNCHANGED <<tries, evidence, restricted, queueVars, linkedIn, faults>>

\* increment_connect_attempts, and disqualification at the limit.
CountTry(d) ==
  /\ Goto("noButton", "reschedule")
  /\ cur = d
  /\ tries' = [tries EXCEPT ![d] = @ + 1]
  /\ IF tries[d] + 1 >= MaxConnectAttempts
     THEN /\ evidence' = [evidence EXCEPT ![d] = "disqualified"]
          /\ deal' = [deal EXCEPT ![d] = "FAILED"]
     ELSE /\ deal' = [deal EXCEPT ![d] = "QUALIFIED"]
          /\ UNCHANGED evidence
  /\ UNCHANGED <<note, budgetVars, queueVars, linkedIn, faults>>

\* PENDING: the Send click went through without a weekly-limit dialog.
Accepted(d) ==
  /\ pc = "submitted" /\ cur = d
  /\ attempt.effect # "limit"
  /\ CanMark(d, "sent")
  /\ note' = Marked(d, "sent")
  /\ Settle("accepted")
  /\ UNCHANGED <<deal, tries, evidence, budgetVars, queueVars, linkedIn, faults>>

SetPending(d) ==
  /\ Goto("accepted", IF d \in Versioned THEN "reschedule" ELSE "charge")
  /\ cur = d
  /\ deal' = [deal EXCEPT ![d] = "PENDING"]
  /\ UNCHANGED <<note, tries, evidence, budgetVars, queueVars, linkedIn, faults>>

\* A legacy Deal is charged after the send; a reserved one is already counted.
ChargeLegacy(d) ==
  /\ Goto("charge", "reschedule")
  /\ cur = d
  /\ Record(d)
  /\ UNCHANGED <<dealVars, restricted, queueVars, linkedIn, faults>>

\* ReachedConnectionLimit: out of custom notes, or the weekly-limit dialog.
LimitReached(d) ==
  /\ cur = d
  /\ (pc = "dialog" /\ LimitPossible) \/ (pc = "submitted" /\ attempt.effect = "limit")
  /\ ReturnUnsent(d, "failed")
  /\ Settle("limited")
  /\ UNCHANGED <<deal, tries, evidence, restricted, queueVars, linkedIn, faults>>

MarkExhausted(d) ==
  /\ Goto("limited", "reschedule")
  /\ cur = d
  /\ restricted' = TRUE
  /\ UNCHANGED <<dealVars, charged, today, queueVars, linkedIn, faults>>

\* ExistingPendingInvite, in the More menu or on the invite surface.
ExistingPending(d) ==
  /\ pc \in {"browse", "dialog"} /\ cur = d
  /\ li[d] = "pending"
  /\ \/ /\ attempt.clicked
        /\ CanMark(d, "unclear")
        /\ note' = Marked(d, "unclear")
        /\ UNCHANGED <<charged, today>>
     \/ /\ ~attempt.clicked
        /\ ReturnUnsent(d, "stopped")
  /\ Settle("existing")
  /\ UNCHANGED <<deal, tries, evidence, restricted, queueVars, linkedIn, faults>>

SetExistingPending(d) ==
  /\ Goto("existing", "reschedule")
  /\ cur = d
  /\ deal' = [deal EXCEPT ![d] = "PENDING"]
  /\ UNCHANGED <<note, tries, evidence, budgetVars, queueVars, linkedIn, faults>>

\* SkipProfile: an error toast after a Connect click, or the email prompt.
Skip(d) ==
  /\ pc \in {"opened", "dialog"} /\ cur = d
  /\ \/ /\ MayHaveSent
        /\ CanMark(d, "unclear")
        /\ note' = Marked(d, "unclear")
        /\ UNCHANGED <<charged, today>>
     \/ /\ ~MayHaveSent
        /\ ReturnUnsent(d, "failed")
  /\ Settle("skipped")
  /\ UNCHANGED <<deal, tries, evidence, restricted, queueVars, linkedIn, faults>>

FailSkipped(d) ==
  /\ Goto("skipped", "reschedule")
  /\ cur = d
  /\ deal' = [deal EXCEPT ![d] = "FAILED"]
  /\ UNCHANGED <<note, tries, evidence, budgetVars, queueVars, linkedIn, faults>>

\* Any other exception, anywhere in the handler.  Only clicks that provably sent
\* nothing return receipt and budget; the except branch itself may be refused.
Raise ==
  /\ pc \in (Between \union Clicking) \ {"pass"}
  /\ faults < MaxFaults
  /\ faults' = faults + 1
  /\ IF cur \in Versioned /\ attempt.clicked /\ ~MayHaveSent /\ CanMark(cur, "failed")
     THEN ReturnUnsent(cur, "failed")
     ELSE UNCHANGED <<note, charged, today>>
  /\ Settle("failed")
  /\ UNCHANGED <<deal, tries, evidence, restricted, queueVars, linkedIn>>

\* mark_delivery_status raises: another process settled the receipt meanwhile.
MarkRefused ==
  /\ pc \in (Clicking \ {"clicking"}) \union {"stopNote"}
  /\ cur \in Versioned
  /\ note[cur] \in Terminal
  /\ Settle("failed")
  /\ UNCHANGED <<dealVars, budgetVars, queueVars, linkedIn, faults>>

------------------------------------------------------------------------------
(* Everyone else: LinkedIn, the listener, commands, the callback thread, time. *)

\* LinkedIn acts on a click it took, or drops it (always when there is already
\* a relation).
DeliverInvitation(d) ==
  /\ inflight[d]
  /\ inflight' = [inflight EXCEPT ![d] = FALSE]
  /\ \/ /\ li[d] = "none"
        /\ li' = [li EXCEPT ![d] = "pending"]
        /\ sends' = [sends EXCEPT ![d] = @ + 1]
     \/ UNCHANGED <<li, sends>>
  /\ UNCHANGED <<dealVars, budgetVars, queueVars, workVars, faults>>

\* The person accepts, or invites the sender.
Connected(d) ==
  /\ li[d] # "connected"
  /\ li' = [li EXCEPT ![d] = "connected"]
  /\ UNCHANGED <<dealVars, budgetVars, queueVars, workVars, inflight, sends, faults>>

\* The sender invites by hand.
InvitedByHand(d) ==
  /\ li[d] = "none"
  /\ li' = [li EXCEPT ![d] = "pending"]
  /\ UNCHANGED <<dealVars, budgetVars, queueVars, workVars, inflight, sends, faults>>

\* An invitation is declined or withdrawn by hand: the profile shows Connect
\* again.  Nobody answers within the seconds one attempt takes.
Declined(d) ==
  /\ li[d] = "pending"
  /\ ~inflight[d]
  /\ cur = d => pc \notin Clicking
  /\ li' = [li EXCEPT ![d] = "none"]
  /\ UNCHANGED <<dealVars, budgetVars, queueVars, workVars, inflight, sends, faults>>

\* The listener persists an inbound message (or a meeting is booked), and
\* stamp_inbound_linkedin_reply promotes a PENDING Deal.
Reply(d) ==
  /\ evidence' = [evidence EXCEPT ![d] = IF @ = "disqualified" THEN @ ELSE "replied"]
  /\ deal' = IF deal[d] = "PENDING" THEN [deal EXCEPT ![d] = "CONNECTED"] ELSE deal
  /\ UNCHANGED <<note, tries, budgetVars, queueVars, workVars, linkedIn, faults>>

\* A suppression is applied to existing rows.
Suppress(d) ==
  /\ evidence[d] # "disqualified"
  /\ evidence' = [evidence EXCEPT ![d] = "disqualified"]
  /\ deal' = IF deal[d] = "COMPLETED" THEN deal ELSE [deal EXCEPT ![d] = "FAILED"]
  /\ UNCHANGED <<note, tries, budgetVars, queueVars, workVars, linkedIn, faults>>

\* The withdrawal command withdrew this sender's invitation for another Deal of
\* the same Lead.
WithdrawnElsewhere(d) ==
  /\ evidence[d] = "none"
  /\ evidence' = [evidence EXCEPT ![d] = "withdrawn"]
  /\ UNCHANGED <<deal, note, tries, budgetVars, queueVars, workVars, linkedIn, faults>>

\* import_connections promotes a Deal behind CONNECTED.
ImportConnection(d) ==
  /\ li[d] = "connected"
  /\ deal[d] \in {"QUALIFIED", "READY", "PENDING"}
  /\ deal' = [deal EXCEPT ![d] = "CONNECTED"]
  /\ tries' = [tries EXCEPT ![d] = 0]
  /\ UNCHANGED <<note, evidence, budgetVars, queueVars, workVars, linkedIn, faults>>

\* The callback thread closes a note whose Deal moved past connecting.
CloseStranded(d) ==
  /\ d \in Versioned
  /\ deal[d] \in {"PENDING", "CONNECTED"}
  /\ note[d] \notin Terminal \union {"none"}
  /\ note' = Closed(d)
  /\ UNCHANGED <<deal, tries, evidence, budgetVars, queueVars, workVars, linkedIn, faults>>

\* Local midnight: a new daily budget, and connect_restricted_on is past.
NewDay ==
  /\ today > 0 \/ restricted
  /\ today' = 0
  /\ restricted' = FALSE
  /\ reservation' = IF reservation = "today" THEN "earlier" ELSE reservation
  /\ UNCHANGED <<dealVars, charged, queueVars, pc, cur, attempt, linkedIn, faults>>

\* The campaign is paused or resumed.
ToggleCampaign ==
  /\ active' = ~active
  /\ UNCHANGED <<dealVars, budgetVars, pending, orphaned, workVars, linkedIn, faults>>

------------------------------------------------------------------------------
Daemon ==
  \/ StartDaemon \/ Claim \/ RecoverChain \/ Complete \/ TaskFailed \/ Reschedule
  \/ PassInactive \/ PassActive \/ RateLimited \/ NoCandidate

OnDeal(d) ==
  \/ HoldAttempted(d) \/ Choose(d) \/ Promote(d) \/ StopChosen(d) \/ PassChecks(d)
  \/ StatusKnown(d) \/ StatusUnclear(d)
  \/ Prepare(d) \/ NoteNotDue(d) \/ HoldPrepared(d) \/ RefuseStopped(d)
  \/ StopAtBoundary(d) \/ MarkStopped(d) \/ OpenBrowser(d)

Browser(d) ==
  \/ ConnectClicking(d) \/ ClickConnect(d)
  \/ DialogProven(d) \/ DialogUnproven(d) \/ NoSurface(d)
  \/ SendClicking(d) \/ ClickSend(d)

Outcome(d) ==
  \/ NoControl(d) \/ CountTry(d) \/ Accepted(d) \/ SetPending(d) \/ ChargeLegacy(d)
  \/ LimitReached(d) \/ MarkExhausted(d) \/ ExistingPending(d) \/ SetExistingPending(d)
  \/ Skip(d) \/ FailSkipped(d)

Work == Daemon \/ MarkRefused \/ \E d \in Deals : OnDeal(d) \/ Browser(d) \/ Outcome(d)

Others(d) ==
  \/ DeliverInvitation(d) \/ Connected(d) \/ InvitedByHand(d) \/ Declined(d)
  \/ Reply(d) \/ Suppress(d) \/ WithdrawnElsewhere(d) \/ ImportConnection(d)
  \/ CloseStranded(d)

Next ==
  \/ Work
  \/ ExitEmpty \/ BrowserLost \/ Crash \/ RestartBlocked \/ Raise \/ NewDay \/ ToggleCampaign
  \/ \E d \in Deals : Others(d)

Spec == Init /\ [][Next]_vars

\* The supervisor restarts the worker, the worker keeps running its loop, and
\* time passes.  Nothing is assumed of LinkedIn, of people, or of failures.
FairSpec == Spec /\ WF_vars(Work) /\ WF_vars(NewDay)

------------------------------------------------------------------------------
(* Properties. *)

\* connect.py _hold_attempted_connection: whatever stops, fails or is clicked
\* twice, a version-bound person never gets a second invitation.
AtMostOneInvitation == \A d \in Versioned : sends[d] <= 1

\* connect.py before_click and the outcomes of handle_connect: a receipt that is
\* retried (or stopped) stands for no invitation, none on its way, and no budget.
Fresh == {"none", "planned", "failed", "stopped"}
RetryableMeansUnsent ==
  \A d \in Versioned : note[d] \in Fresh => sends[d] = 0 /\ ~inflight[d] /\ charged[d] = 0

\* docs/campaign-priority.md, send boundary: an attempt that may have sent counts
\* exactly once, also when the daemon stopped right after the click.
ChargedOnce ==
  \A d \in Versioned :
    /\ charged[d] <= 1
    /\ sends[d] > 0 \/ inflight[d] \/ note[d] \in {"sending", "sent"} => charged[d] = 1

\* models.py rate_limit_reasons: checked before the status check, charged at the
\* click or after the send, and still never above the daily limit.
BudgetRespected == today <= DailyLimit

\* connect.py _hold_attempted_connections: a Deal whose attempt reached the click
\* leaves the pool in the next pass, also for a sender at its limit, unless the
\* attempt turned out to have sent nothing.  A row left RUNNING may keep the
\* worker from that pass (RecoveryNet); its restart brings the pass back.
UncertainIsHeld ==
  \A d \in Versioned :
    note[d] \in Attempted /\ InPool(d)
      ~> \/ ~InPool(d) \/ note[d] \in Fresh
         \/ ~active \/ ~HasWork \/ pc = "blocked" \/ orphaned > 0

\* daemon.py _ensure_connect_task_for_campaign: a live worker of an active
\* campaign with work comes to a connect pass again, as long as no earlier pass
\* left a RUNNING row behind.
ChainAlive ==
  active /\ HasWork
    ~> pc = "pass" \/ ~active \/ ~HasWork \/ pc = "blocked" \/ orphaned > 0

\* daemon.py _ensure_connect_task_for_campaign and _safe_mark_failed as their
\* comments have it: the net works while the daemon is alive, and a row left
\* RUNNING is healed on the next start.
RecoveryNet ==
  active /\ HasWork ~> pc = "pass" \/ ~active \/ ~HasWork \/ pc = "blocked"

\* docs/campaign-priority.md: a person whose profile showed no usable button "is still
\* retried" by an active campaign (handle_connect writes QUALIFIED for it).
QualifiedIsRetried ==
  \A d \in Deals :
    deal[d] = "QUALIFIED" /\ evidence[d] = "none" /\ active
      ~> deal[d] # "QUALIFIED" \/ evidence[d] # "none" \/ ~active \/ pc = "blocked"

\* message_delivery_runtime.py close_unsent_connection_delivery reads failed as
\* "an earlier attempt took it into sending": failed comes only after sending.
FailedWasSending ==
  [][\A d \in Versioned : note'[d] = "failed" => note[d] \in {"sending", "failed"}]_vars

\* The lane keeps the promise of every outbound lane.
Phase(s) ==
  CASE s \in {"none", "planned", "failed"} -> "unsent"
    [] s = "sending" -> "inFlight"
    [] s \in {"sent", "unclear"} -> "closed"
    [] s = "stopped" -> "withheld"

Promise == INSTANCE AtMostOnce WITH
  Items <- Versioned,
  phase <- [d \in Versioned |-> Phase(note[d])],
  delivered <- [d \in Versioned |-> sends[d]]

\* An attempt is taken back only when LinkedIn did not act; an unknown outcome is
\* closed for good: every step of the lane is a step of AtMostOnce or a stutter.
PromiseKept == Promise!Spec
==============================================================================
