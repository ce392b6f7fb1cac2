------------------------------ MODULE FollowUpLane ------------------------------
(***************************************************************************)
(* The LinkedIn follow-ups of one person by one sender                     *)
(* (linkedin/tasks/follow_up.py, follow_up_submission.py), the enqueue     *)
(* (linkedin/tasks/connect.py:936) and what a daemon's start repairs       *)
(* (heal_tasks).  The person may have a Deal in several campaigns; each    *)
(* Deal has one frozen delivery per step of its sequence.                  *)
(*                                                                         *)
(* A media step crosses a durable boundary (the marker in its row's        *)
(* payload) before its only click; a text step goes through three routes   *)
(* one after the other and leaves no record before the first.              *)
(* Due times and quota are left to chance: a row found early is queued      *)
(* again.                                                                  *)
(***************************************************************************)
EXTENDS Naturals, FiniteSets

CONSTANTS
  Workers,     \* daemons of the sender
  Deals,       \* the person's Deals, one per campaign
  LastStep,    \* index of a sequence's last step
  MediaSteps,  \* steps whose frozen copy has an attachment
  MaxRows,     \* bound: rows of the task table
  MaxStops,    \* bound: daemons that die
  MaxEarly,    \* bound: rows found early or over quota
  MaxFails,    \* bound: attempts that fail before the click
  Replies,     \* the person may answer, or be stopped otherwise
  Drips,       \* a drip campaign may take the person's LinkedIn channel
  Hung,        \* a stale RUNNING row may be one its daemon still works on
  Lingering,   \* a start may find a dead daemon's row younger than stale
  Deaf,        \* a text route may send and then report failure
  Flaky        \* the database may be gone after a send

ASSUME FollowUpAssumption ==
  /\ LastStep \in Nat /\ MediaSteps \subseteq 0..LastStep
  /\ {MaxRows, MaxStops, MaxEarly, MaxFails} \subseteq Nat
  /\ {Replies, Drips, Hung, Lingering, Deaf, Flaky} \subseteq BOOLEAN

Steps == 0..LastStep
Items == Deals \X Steps
Rows == 1..MaxRows
NoRow == 0
NoItem == <<>>

VARIABLES
  row,       \* the task table: status, delivery and marker of each row
  delivery,  \* status of each OutboundDelivery
  bound,     \* the row a delivery is bound to
  message,   \* the outbound Message of the delivery is stored
  sends,     \* times LinkedIn sent it
  deal,      \* "invited", "connected", "ended" (COMPLETED or FAILED)
  stop,      \* automation_stop_reason is not ""
  drip,      \* drip_owns_channel
  retiring,  \* the hook after a reply's commit has yet to retire pending rows
  worker,    \* what a daemon does: pc, its row, Deals its start has yet to look at
  heal,      \* what its start has read: rows to recover, rows to reset, and whether
             \* a submission was unresolved
  count      \* stops, early rows, failed attempts so far

tables == <<row, delivery, bound, message, deal>>
outside == <<stop, drip, retiring>>
vars == <<tables, sends, outside, worker, heal, count>>

RowStatus == {"none", "pending", "running", "completed", "failed"}
DeliveryStatus == {"none", "queued", "sending", "sent", "stopped", "failed"}
Healing == {"list", "recover", "survey", "heal"}
PCs == Healing \union {"down", "idle", "check", "dedup", "repair", "prepare", "media", "click",
        "text", "persist", "record", "next", "end", "blocked", "withhold", "failed",
        "keep", "defer", "finish", "error"}
NothingRead == [todo |-> {}, reset |-> {}, uncertain |-> FALSE]

TypeOK ==
  /\ row \in [Rows -> [status : RowStatus, item : Items \union {NoItem}, marked : BOOLEAN]]
  /\ delivery \in [Items -> DeliveryStatus]
  /\ bound \in [Items -> Rows \union {NoRow}]
  /\ message \in [Items -> BOOLEAN]
  /\ sends \in [Items -> Nat]
  /\ deal \in [Deals -> {"invited", "connected", "ended"}]
  /\ {stop, drip, retiring} \subseteq BOOLEAN
  /\ worker \in [Workers -> [pc : PCs, row : Rows \union {NoRow}, left : SUBSET Deals]]
  /\ heal \in [Workers -> [todo : SUBSET Rows, reset : SUBSET Rows, uncertain : BOOLEAN]]
  /\ count \in [{"stops", "early", "fails"} -> Nat]

Init ==
  /\ row = [r \in Rows |-> [status |-> "none", item |-> NoItem, marked |-> FALSE]]
  /\ delivery = [x \in Items |-> "none"]
  /\ bound = [x \in Items |-> NoRow]
  /\ message = [x \in Items |-> FALSE]
  /\ sends = [x \in Items |-> 0]
  /\ deal = [d \in Deals |-> "invited"]
  /\ stop = FALSE /\ drip = FALSE /\ retiring = FALSE
  /\ worker = [w \in Workers |-> [pc |-> "down", row |-> NoRow, left |-> {}]]
  /\ heal = [w \in Workers |-> NothingRead]
  /\ count = [c \in {"stops", "early", "fails"} |-> 0]

At(w, pc) == worker[w].pc = pc
Goto(w, pc) == worker' = [worker EXCEPT ![w].pc = pc]
Leave(w) == worker' = [worker EXCEPT ![w].pc = "idle", ![w].row = NoRow]
RowOf(w) == worker[w].row
ItemOf(w) == row[RowOf(w)].item
DealOf(w) == ItemOf(w)[1]
StepOf(w) == ItemOf(w)[2]
Count(c) == count' = [count EXCEPT ![c] = @ + 1]

-----------------------------------------------------------------------------
(* Evidence                                                                *)

\* persisted_submission_evidence
Evidence(r) == row[r].marked /\ message[row[r].item]

\* Faulty variant: only rows that still run count.
UnresolvedWhileRunning == \E r \in Rows : row[r].marked /\ row[r].status = "running" /\ ~Evidence(r)

\* has_unresolved_submission: a marked row of the person without its Message.
Unresolved == \E r \in Rows : row[r].marked /\ ~Evidence(r)

\* _has_sent_sequence_step
StepSent(x) == delivery[x] = "sent" \/ message[x]

\* _has_same_operator_followup: any follow-up of this sender is stored.
AnyStored == \E x \in Items : message[x]

\* delivery_for_task raises: the row is not the one the delivery is bound to, or the
\* delivery is closed.
Unusable(r) == bound[row[r].item] # r \/ delivery[row[r].item] = "stopped"

-----------------------------------------------------------------------------
(* enqueue_follow_up, one transaction                                      *)

Open(x) == {r \in Rows : row[r].status = "pending" /\ row[r].item = x}
Free == {r \in Rows : row[r].status = "none" /\ \A q \in 1..(r - 1) : row[q].status # "none"}

\* bind_delivery_task: whatever is not sent becomes queued.
BoundStatus(x) == IF delivery[x] = "sent" THEN "sent" ELSE "queued"

\* _enqueue_task takes the delivery's pending row, or makes one, with a payload of its own.
Enqueue(x) ==
  \E r \in IF Open(x) # {} THEN Open(x) ELSE Free :
    /\ row' = [row EXCEPT ![r] = [status |-> "pending", item |-> x, marked |-> FALSE]]
    /\ delivery' = [delivery EXCEPT ![x] = BoundStatus(x)]
    /\ bound' = [bound EXCEPT ![x] = r]

\* It returns without a row when the person is stopped or owned by a drip campaign, and
\* raises for a stopped delivery.
EnqueueThen(x, w, then) ==
  IF stop \/ drip THEN Goto(w, then) /\ UNCHANGED <<row, delivery, bound>>
  ELSE IF delivery[x] = "stopped" THEN Goto(w, "error") /\ UNCHANGED <<row, delivery, bound>>
  ELSE Enqueue(x) /\ Goto(w, then)

\* mark_delivery_status: sent and stopped are final, asking for another status raises.
Mark(x, status, w, then) ==
  IF delivery[x] \in {"sent", "stopped"} \ {status}
    THEN UNCHANGED delivery /\ Goto(w, "error")
    ELSE delivery' = [delivery EXCEPT ![x] = status] /\ Goto(w, then)

-----------------------------------------------------------------------------
(* Outside                                                                 *)

\* A connect or sweep lane finds the invitation accepted and queues the first step, or
\* ends before it does.
Accept(d) ==
  /\ deal[d] = "invited"
  /\ deal' = [deal EXCEPT ![d] = "connected"]
  /\ \/ ~stop /\ ~drip /\ Enqueue(<<d, 0>>)
     \/ UNCHANGED <<row, delivery, bound>>
  /\ UNCHANGED <<message, sends, outside, worker, heal, count>>

Stop ==
  /\ Replies /\ ~stop
  /\ stop' = TRUE /\ retiring' \in BOOLEAN
  /\ UNCHANGED <<tables, sends, drip, worker, heal, count>>

\* retire_pending_linkedin_follow_ups
Retire ==
  /\ retiring
  /\ retiring' = FALSE
  /\ row' = [r \in Rows |->
       IF row[r].status = "pending" THEN [row[r] EXCEPT !.status = "completed"] ELSE row[r]]
  /\ UNCHANGED <<delivery, bound, message, deal, sends, stop, drip, worker, heal, count>>

\* Faulty variant: rows that already run are not waited for.
HandoffWithoutRunning ==
  /\ \A r \in Rows : row[r].status # "pending"
  /\ ~Unresolved
  /\ \E d \in Deals : deal[d] # "invited"
  /\ ~AnyStored \/ \E d \in Deals : message[<<d, LastStep>>]

\* evaluate_linkedin_handoff: no row is open, nothing is unresolved, and the sequence is
\* over or (a reviewed "not applicable") never began.
HandoffReady ==
  /\ \A r \in Rows : row[r].status \notin {"pending", "running"}
  /\ ~Unresolved
  /\ \E d \in Deals : deal[d] # "invited"
  /\ ~AnyStored \/ \E d \in Deals : message[<<d, LastStep>>]

\* reconcile_drips: a drip campaign takes the channel of a person who is not stopped, and
\* for good.
Drip ==
  /\ Drips /\ ~drip /\ ~stop /\ HandoffReady
  /\ drip' = TRUE
  /\ UNCHANGED <<tables, sends, stop, retiring, worker, heal, count>>

-----------------------------------------------------------------------------
(* handle_follow_up                                                        *)

\* The claim's started_at is younger than the bound of any start that is under way.
Claim(w) ==
  /\ At(w, "idle")
  /\ \E r \in Rows :
       /\ row[r].status = "pending"
       /\ row' = [row EXCEPT ![r].status = "running"]
       /\ worker' = [worker EXCEPT ![w].pc = "check", ![w].row = r]
       /\ heal' = [v \in Workers |-> [heal[v] EXCEPT !.reset = @ \ {r}]]
  /\ UNCHANGED <<delivery, bound, message, deal, sends, outside, count>>

Early(w) == count["early"] < MaxEarly /\ Goto(w, "defer") /\ Count("early")

\* The guards before anything is written, in their order.
Check(w) ==
  /\ At(w, "check")
  /\ LET r == RowOf(w)
         x == ItemOf(w)
         d == DealOf(w)
         sent == Evidence(r) \/ StepSent(x)
         Go(pc) == Goto(w, pc) /\ UNCHANGED <<deal, count>>
     IN IF row[r].marked /\ ~Evidence(r) THEN Go("error")
        ELSE IF drip THEN Go("finish")
        ELSE IF Unresolved THEN Go("error")
        ELSE IF deal[d] # "connected" THEN Go("finish")
        ELSE IF stop
          THEN Goto(w, "finish") /\ deal' = [deal EXCEPT ![d] = "ended"] /\ UNCHANGED count
        ELSE IF Unusable(r) THEN Go("error")
        ELSE IF ~sent /\ delivery[x] = "sending" THEN Go("error")
        ELSE \/ ~Evidence(r) /\ Early(w) /\ UNCHANGED deal
             \/ Go(IF sent THEN "repair"
                   ELSE IF StepOf(w) = 0 /\ AnyStored THEN "dedup" ELSE "prepare")
  /\ UNCHANGED <<row, delivery, bound, message, sends, outside, heal>>

\* The same step again with the same delivery; the daemon completes this row.
Defer(w) ==
  /\ At(w, "defer")
  /\ EnqueueThen(ItemOf(w), w, "finish")
  /\ UNCHANGED <<message, deal, sends, outside, heal, count>>

\* Another campaign of this sender has written to the person.
Dedup(w) ==
  /\ At(w, "dedup")
  /\ Mark(ItemOf(w), "stopped", w, "end")
  /\ UNCHANGED <<row, bound, message, deal, sends, outside, heal, count>>

\* Faulty variant: what is on record is taken for finished.
RepairReceiptOnly(w) ==
  /\ At(w, "repair")
  /\ Mark(ItemOf(w), "sent", w, "finish")
  /\ UNCHANGED <<row, bound, message, deal, sends, outside, heal, count>>

\* The step is on record: only the bookkeeping is missing.
Repair(w) ==
  /\ At(w, "repair")
  /\ Mark(ItemOf(w), "sent", w, "next")
  /\ UNCHANGED <<row, bound, message, deal, sends, outside, heal, count>>

\* Ownership and stop are read again; then the delivery is sending.
Prepare(w) ==
  /\ At(w, "prepare")
  /\ LET x == ItemOf(w) IN
     IF drip THEN Mark(x, "stopped", w, "finish")
     ELSE IF stop THEN Mark(x, "stopped", w, "end")
     ELSE Mark(x, "sending", w, IF StepOf(w) \in MediaSteps THEN "media" ELSE "text")
  /\ UNCHANGED <<row, bound, message, deal, sends, outside, heal, count>>

-----------------------------------------------------------------------------
(* _send_media_follow_up                                                   *)

\* Faulty variant: after the upload only the stop is read again.
GuardOfStop(r) == IF stop THEN "stop" ELSE "pass"

\* _final_submission_guard: what it finds first.
Guard(r) ==
  LET x == row[r].item IN
  IF deal[x[1]] # "connected" THEN "block"
  ELSE IF Unusable(r) THEN "raise"
  ELSE IF drip THEN "block"
  ELSE IF stop THEN "stop"
  ELSE IF Unresolved \/ StepSent(x) \/ (x[2] = 0 /\ AnyStored) THEN "block"
  ELSE "pass"

GuardedTo(w, pass) ==
  Goto(w, CASE Guard(RowOf(w)) = "raise" -> "error"
            [] Guard(RowOf(w)) = "pass" -> pass
            [] OTHER -> "blocked")

\* The row still runs and has not crossed the boundary.
Stampable(r) == row[r].status = "running" /\ ~row[r].marked

\* stamp_submission_attempt, one transaction under the Lead's lock, after upload and
\* typing and right before the click.
Stamp(w) ==
  /\ At(w, "media")
  /\ LET r == RowOf(w) IN
     IF ~Stampable(r) THEN Goto(w, "error") /\ UNCHANGED row
     ELSE /\ GuardedTo(w, "click")
          /\ row' = IF Guard(r) = "pass" THEN [row EXCEPT ![r].marked = TRUE] ELSE row
  /\ UNCHANGED <<delivery, bound, message, deal, sends, outside, heal, count>>

\* Navigation, upload or typing fails first; the guard is asked before the retry.
PreSubmitFailure(w) ==
  /\ At(w, "media")
  /\ count["fails"] < MaxFails /\ Count("fails")
  /\ GuardedTo(w, "failed")
  /\ UNCHANGED <<tables, sends, outside, heal>>

\* The only click: confirmed, or nobody knows (or it was not tried after all).
Click(w) ==
  /\ At(w, "click")
  /\ \E took, confirmed \in BOOLEAN :
       /\ confirmed => took
       /\ sends' = IF took THEN [sends EXCEPT ![ItemOf(w)] = @ + 1] ELSE sends
       /\ Goto(w, IF confirmed THEN "persist" ELSE "error")
  /\ UNCHANGED <<tables, outside, heal, count>>

\* The last _finish_sequence_for_stop, then the receipt.
Blocked(w) ==
  /\ At(w, "blocked")
  /\ deal' = IF stop /\ deal[DealOf(w)] = "connected"
             THEN [deal EXCEPT ![DealOf(w)] = "ended"] ELSE deal
  /\ Goto(w, "withhold")
  /\ UNCHANGED <<row, delivery, bound, message, sends, outside, heal, count>>

Withhold(w) ==
  /\ At(w, "withhold")
  /\ Mark(ItemOf(w), "stopped", w, "finish")
  /\ UNCHANGED <<row, bound, message, deal, sends, outside, heal, count>>

-----------------------------------------------------------------------------
(* send_raw_message                                                        *)

Routes == 3

\* Pop-up, direct thread, Voyager API: the next one is tried when one says it failed.
Text(w) ==
  /\ At(w, "text")
  /\ \E tried \in 1..Routes, silent \in 0..(IF Deaf THEN Routes ELSE 0), worked \in BOOLEAN :
       /\ silent <= (IF worked THEN tried - 1 ELSE tried)
       /\ sends' = [sends EXCEPT ![ItemOf(w)] = @ + silent + (IF worked THEN 1 ELSE 0)]
       /\ IF worked THEN Goto(w, "persist") /\ UNCHANGED count
          ELSE count["fails"] < MaxFails /\ Count("fails") /\ Goto(w, "failed")
  /\ UNCHANGED <<tables, outside, heal>>

-----------------------------------------------------------------------------
(* After the send                                                          *)

\* save_chat_message never raises; the media branch reads the Message again.
Persist(w) ==
  /\ At(w, "persist")
  /\ \/ message' = [message EXCEPT ![ItemOf(w)] = TRUE] /\ Goto(w, "record")
     \/ /\ Flaky /\ UNCHANGED message
        /\ Goto(w, IF StepOf(w) \in MediaSteps THEN "error" ELSE "record")
  /\ UNCHANGED <<row, delivery, bound, deal, sends, outside, heal, count>>

Record(w) ==
  /\ At(w, "record")
  /\ \/ Mark(ItemOf(w), "sent", w, "next")
     \/ Flaky /\ Goto(w, "error") /\ UNCHANGED delivery
  /\ UNCHANGED <<row, bound, message, deal, sends, outside, heal, count>>

\* The attempt failed and nothing may have been sent: failed, then again in 24 hours.
Failed(w) ==
  /\ At(w, "failed")
  /\ Mark(ItemOf(w), "failed", w, "defer")
  /\ UNCHANGED <<row, bound, message, deal, sends, outside, heal, count>>

\* The next step is queued and the Deal stays CONNECTED, or the sequence is COMPLETED.
NextStep(w) ==
  /\ At(w, "next")
  /\ IF StepOf(w) = LastStep THEN Goto(w, "end") /\ UNCHANGED <<row, delivery, bound>>
     ELSE \/ EnqueueThen(<<DealOf(w), StepOf(w) + 1>>, w, "keep")
          \/ Flaky /\ Goto(w, "error") /\ UNCHANGED <<row, delivery, bound>>
  /\ UNCHANGED <<message, deal, sends, outside, heal, count>>

\* set_profile_state
SetDeal(w) ==
  /\ worker[w].pc \in {"keep", "end"}
  /\ deal' = [deal EXCEPT ![DealOf(w)] = IF At(w, "keep") THEN "connected" ELSE "ended"]
  /\ Goto(w, "finish")
  /\ UNCHANGED <<row, delivery, bound, message, sends, outside, heal, count>>

-----------------------------------------------------------------------------
(* The daemon                                                              *)

Finish(w) ==
  /\ At(w, "finish")
  /\ row' = [row EXCEPT ![RowOf(w)].status = "completed"]
  /\ Leave(w)
  /\ UNCHANGED <<delivery, bound, message, deal, sends, outside, heal, count>>

Fail(w) ==
  /\ At(w, "error")
  /\ row' = [row EXCEPT ![RowOf(w)].status = "failed"]
  /\ Leave(w)
  /\ UNCHANGED <<delivery, bound, message, deal, sends, outside, heal, count>>

Die(w) ==
  /\ ~At(w, "down") /\ count["stops"] < MaxStops
  /\ worker' = [worker EXCEPT ![w] = [pc |-> "down", row |-> NoRow, left |-> {}]]
  /\ heal' = [heal EXCEPT ![w] = NothingRead]
  /\ Count("stops")
  /\ UNCHANGED <<tables, sends, outside>>

Stale ==
  {r \in Rows : row[r].status = "running" /\ (Hung \/ \A w \in Workers : RowOf(w) # r)}

\* heal_tasks reads the stale RUNNING rows: the ids of the marked ones, to be recovered
\* one by one, and which others the reset will find.
Start(w) ==
  /\ At(w, "down")
  /\ Goto(w, "list")
  /\ \E old \in SUBSET Stale :
       /\ Lingering \/ Hung \/ old = Stale
       /\ heal' = [heal EXCEPT ![w].todo = {r \in old : row[r].marked},
                              ![w].reset = {r \in old : ~row[r].marked}]
  /\ UNCHANGED <<tables, sends, outside, count>>

\* The FAILED rows whose Message is stored after all.
ListFailed(w) ==
  /\ At(w, "list")
  /\ Goto(w, "recover")
  /\ heal' = [heal EXCEPT ![w].todo =
       @ \union {r \in Rows : row[r].status = "failed" /\ Evidence(r)}]
  /\ UNCHANGED <<tables, sends, outside, count>>

\* Faulty variant: a marked row is queued again like the others.
RecoveredBlindly(r) == IF row[r].status = "running" THEN "pending" ELSE row[r].status

\* recover_stale_media_follow_up_task: it reads the row again under its lock.
Recovered(r) ==
  CASE row[r].status \in {"running", "failed"} /\ Evidence(r) -> "pending"
    [] row[r].status = "running" /\ row[r].marked /\ ~Evidence(r) -> "failed"
    [] OTHER -> row[r].status

RecoverRow(w) ==
  /\ At(w, "recover")
  /\ \E r \in heal[w].todo :
       /\ row' = [row EXCEPT ![r].status = Recovered(r)]
       /\ heal' = [heal EXCEPT ![w].todo = @ \ {r}]
  /\ UNCHANGED <<delivery, bound, message, deal, sends, outside, worker, count>>

\* One update over what is stale and was not listed: it reads no marker.
ResetOrdinary(w) ==
  /\ At(w, "recover") /\ heal[w].todo = {}
  /\ Goto(w, "survey")
  /\ row' = [r \in Rows |->
       IF r \in heal[w].reset /\ row[r].status = "running"
         THEN [row[r] EXCEPT !.status = "pending"] ELSE row[r]]
  /\ heal' = [heal EXCEPT ![w].reset = {}]
  /\ UNCHANGED <<delivery, bound, message, deal, sends, outside, count>>

\* unresolved_submission_keys, once for the whole catch-up, and the CONNECTED Deals.
Survey(w) ==
  /\ At(w, "survey")
  /\ worker' = [worker EXCEPT ![w].pc = "heal",
                             ![w].left = {d \in Deals : deal[d] = "connected"}]
  /\ heal' = [heal EXCEPT ![w].uncertain = Unresolved]
  /\ UNCHANGED <<tables, sends, outside, count>>

\* A delivery that is in flight or stopped holds the Deal.
Held(d) == \E s \in Steps : delivery[<<d, s>>] \in {"sending", "stopped"}

\* The catch-up looks at one CONNECTED Deal after the other.
CatchUp(w) ==
  /\ At(w, "heal")
  /\ \E d \in worker[w].left :
       /\ worker' = [worker EXCEPT ![w].left = @ \ {d}]
       /\ IF heal[w].uncertain \/ drip \/ stop \/ Held(d)
             \/ \E r \in Rows : row[r].status \in {"pending", "running"}
                                /\ row[r].item # NoItem /\ row[r].item[1] = d
            THEN UNCHANGED <<row, delivery, bound>>
            ELSE Enqueue(<<d, 0>>)
  /\ UNCHANGED <<message, deal, sends, outside, heal, count>>

Healed(w) ==
  /\ At(w, "heal") /\ worker[w].left = {}
  /\ Goto(w, "idle")
  /\ heal' = [heal EXCEPT ![w].uncertain = FALSE]
  /\ UNCHANGED <<tables, sends, outside, count>>

-----------------------------------------------------------------------------
Work(w) ==
  \/ Start(w) \/ ListFailed(w) \/ RecoverRow(w) \/ ResetOrdinary(w) \/ Survey(w)
  \/ CatchUp(w) \/ Healed(w) \/ Claim(w) \/ Check(w) \/ Defer(w) \/ Dedup(w)
  \/ Repair(w) \/ Prepare(w) \/ Stamp(w) \/ PreSubmitFailure(w) \/ Click(w) \/ Blocked(w)
  \/ Withhold(w) \/ Text(w) \/ Persist(w) \/ Record(w) \/ Failed(w) \/ NextStep(w)
  \/ SetDeal(w) \/ Finish(w) \/ Fail(w)

Next ==
  \/ \E d \in Deals : Accept(d)
  \/ Stop \/ Retire \/ Drip
  \/ \E w \in Workers : Work(w) \/ Die(w)

Spec == Init /\ [][Next]_vars

\* The supervisor restarts a daemon and a daemon goes on with its loop.
FairSpec == Spec /\ \A w \in Workers : WF_vars(Work(w))

-----------------------------------------------------------------------------
(* Properties                                                              *)

\* The media boundary: one step is clicked at most once, whatever dies or hangs
\* between upload, marker, click, Message and receipt.
SentOnce == \A x \in Items : sends[x] <= 1

\* follow_up.py:662: a follow-up's first message is one per person and sender, also when
\* two campaigns and two daemons of the sender are at it at the same time.
OnePitch == Cardinality({d \in Deals : sends[<<d, 0>>] > 0}) <= 1

\* The marker is the point of no return: from then on the step counts as sent or as
\* unclear, whatever becomes of its row.
Phase(x) ==
  IF message[x] \/ \E r \in Rows : row[r].item = x /\ row[r].marked THEN "closed"
  ELSE IF delivery[x] = "stopped" THEN "withheld" ELSE "unsent"

Promise == INSTANCE AtMostOnce WITH
  Items <- Items, phase <- [x \in Items |-> Phase(x)], delivered <- sends

\* With attachments the lane is one of those that AtMostOnce describes.
Implements == Promise!Spec

\* A receipt says stopped (what completion reports read as not sent) only of a step that
\* LinkedIn never got and never will, while one daemon of the sender runs at a time
\* (SingleInstanceGuard): a second one may withhold a step the first is clicking.
StoppedIsUnsent ==
  \A x \in Items : delivery[x] = "stopped" =>
     sends[x] = 0 /\ \A w \in Workers : RowOf(w) # NoRow /\ ItemOf(w) = x => ~At(w, "click")

\* ownership.py:47: a handoff "prevents old healing/enqueue paths from restarting after
\* drip has taken ownership": no daemon, replayed row or late enqueue of the current
\* sequence sends the person anything after it.
DripTakesOver == [][drip => sends' = sends]_vars

\* A confirmed media step gets its successor and a confirmed last step ends its Deal,
\* whatever died between the click's confirmation and the successor's row, unless the
\* person is stopped or a drip campaign takes over (handle_follow_up, heal_tasks).
SequenceGoesOn ==
  \A d \in Deals, s \in Steps :
     message[<<d, s>>] ~> \/ stop \/ drip
                         \/ IF s = LastStep THEN deal[d] = "ended"
                                            ELSE delivery[<<d, s + 1>>] # "none"

\* ARCHITECTURE.md:474: "held/interrupted deliveries are not rebound".
InterruptedIsNotRebound ==
  [][\A x \in Items : delivery[x] = "sending" /\ delivery'[x] = "queued" => message[x]]_vars
==============================================================================
