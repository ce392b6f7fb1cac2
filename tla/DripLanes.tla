-------------------------------- MODULE DripLanes --------------------------------
(***************************************************************************)
(* One person's enrolment in a drip campaign: a LinkedIn lane and a Gmail   *)
(* lane side by side (drip/tasks/linkedin.py, drip/tasks/gmail.py), the     *)
(* reconciliation that hands the lanes over and queues their steps          *)
(* (drip/services/reconciliation.py), the stops (drip/services/stops.py),   *)
(* the controls of the admin (drip/admin.py) and the recovery at a          *)
(* worker's start (linkedin/daemon.py:377, gmail/worker.py:103).            *)
(*                                                                         *)
(* An attempt is reserved in one transaction, marked in another just        *)
(* before the click, and closed in a third.  A lane's themes are one        *)
(* sequence of steps; whether a lane is ready and a step is due is left to  *)
(* chance.                                                                  *)
(***************************************************************************)
EXTENDS Naturals, FiniteSets

CONSTANTS
  LinkedIn, Gmail,  \* the two channels
  Workers,          \* the senders' processes
  ChannelOf,        \* the channel a worker serves
  LastStep,         \* index of each lane's last step
  MaxRows,          \* bound: task rows of one step
  MaxEvents,        \* bound: deaths, interventions in the admin, failed guards and attempts
  Hung              \* a stale RUNNING row may be one its worker still works on

Channels == {LinkedIn, Gmail}

ASSUME DripAssumption ==
  /\ LinkedIn # Gmail /\ ChannelOf \in [Workers -> Channels]
  /\ LastStep \in [Channels -> Nat]
  /\ {MaxRows, MaxEvents} \subseteq Nat
  /\ Hung \in BOOLEAN

Items == UNION {{c} \X (0..LastStep[c]) : c \in Channels}
NoItem == <<>>
NoRow == 0
Rows == 1..MaxRows

VARIABLES
  campaign,    \* the drip campaign is ACTIVE
  enrollment,  \* status of the person's enrolment
  lane,        \* status of each lane
  handed,      \* lanes with a handed_off_at
  delivery,    \* status of each frozen delivery
  current,     \* the task row it is linked to
  row,         \* status of the task rows of each delivery
  attempt,     \* its newest attempt: number, outcome, submission_attempted_at
  sends,       \* times the provider sent it
  stop,        \* lead_automation_stop_reason is not ""
  hook,        \* the hook after the reply's commit is due
  worker,      \* what a worker does: pc, delivery, row and number of its attempt
  events       \* deaths, interventions and failures so far

graph == <<enrollment, lane, delivery, row>>
outside == <<campaign, stop, hook>>
vars == <<graph, handed, current, attempt, sends, outside, worker, events>>

NonTerminal == {"waiting", "unconnected", "active", "paused"}
Outstanding == {"planned", "queued", "sending"}
PCs == {"down", "idle", "claimed", "open", "click", "sent", "failed", "hold", "finish", "error"}

TypeOK ==
  /\ enrollment \in {"waiting", "active", "paused", "stopped", "completed"}
  /\ lane \in [Channels -> NonTerminal \union {"stopped", "completed"}]
  /\ handed \subseteq Channels
  /\ delivery \in [Items -> Outstanding \union {"none", "sent", "stopped", "unclear"}]
  /\ current \in [Items -> Rows \union {NoRow}]
  /\ row \in [Items -> [Rows -> {"none", "pending", "running", "completed", "failed"}]]
  /\ attempt \in [Items -> [n : Nat, outcome : {"none", "reserved", "unsent", "sent", "unclear"},
                            marked : BOOLEAN]]
  /\ sends \in [Items -> Nat]
  /\ {campaign, stop, hook} \subseteq BOOLEAN
  /\ worker \in [Workers -> [pc : PCs, item : Items \union {NoItem},
                             row : Rows \union {NoRow}, n : Nat]]
  /\ events \in Nat

Down == [pc |-> "down", item |-> NoItem, row |-> NoRow, n |-> 0]

Init ==
  /\ campaign = TRUE /\ enrollment = "waiting"
  /\ lane = [c \in Channels |-> "waiting"] /\ handed = {}
  /\ delivery = [x \in Items |-> "none"]
  /\ current = [x \in Items |-> NoRow]
  /\ row = [x \in Items |-> [k \in Rows |-> "none"]]
  /\ attempt = [x \in Items |-> [n |-> 0, outcome |-> "none", marked |-> FALSE]]
  /\ sends = [x \in Items |-> 0]
  /\ stop = FALSE /\ hook = FALSE
  /\ worker = [w \in Workers |-> Down]
  /\ events = 0

At(w, pc) == worker[w].pc = pc
Goto(w, pc) == worker' = [worker EXCEPT ![w].pc = pc]
Item(w) == worker[w].item
Lane(w) == ChannelOf[w]
\* A death, an intervention or a failure that comes by chance.
Event == events < MaxEvents /\ events' = events + 1
NoEvent == UNCHANGED events

\* The row still runs and the delivery still belongs to it.
Owns(w) == current[Item(w)] = worker[w].row /\ row[Item(w)][worker[w].row] = "running"

\* The worker's attempt is the open one.
Reserved(w) == attempt[Item(w)].n = worker[w].n /\ attempt[Item(w)].outcome = "reserved"

ControlsActive(c) == campaign /\ enrollment = "active" /\ lane[c] = "active"
ControlsStopped(c) ==
  lane[c] \in {"stopped", "completed"} \/ enrollment \in {"stopped", "completed"}

CloseAttempt(x, outcome) == attempt' = [attempt EXCEPT ![x].outcome = outcome]

-----------------------------------------------------------------------------
(* Stops                                                                   *)

\* The pending current rows of the deliveries in S are completed.
Retired(S) ==
  [x \in Items |-> [k \in Rows |->
     IF x \in S /\ k = current[x] /\ row[x][k] = "pending" THEN "completed" ELSE row[x][k]]]

Halted == [c \in Channels |-> IF lane[c] \in NonTerminal THEN "stopped" ELSE lane[c]]

Withhold(S, d) ==
  /\ enrollment' = "stopped" /\ lane' = Halted
  /\ delivery' = [x \in Items |-> IF x \in S THEN "stopped" ELSE d[x]]
  /\ row' = Retired(S)

\* stop_enrollment_for_reason, stop_for_inbound_message, with the deliveries as the
\* transaction left them in d: what is being sent is left alone.
StopForReason(d) ==
  IF enrollment \in {"stopped", "completed"}
    THEN delivery' = d /\ UNCHANGED <<enrollment, lane, row>>
    ELSE Withhold({x \in Items : d[x] \in {"planned", "queued"} /\ lane[x[1]] \in NonTerminal}, d)

\* _stop_enrollment_locked: both channels, and what is being sent as well.
StopLocked(d) == Withhold({x \in Items : d[x] \in Outstanding}, d)

\* The person answers; the stop reason is there with the Message, its hook may be lost.
Answer ==
  /\ ~stop
  /\ stop' = TRUE /\ hook' \in BOOLEAN
  /\ UNCHANGED <<graph, campaign, handed, current, attempt, sends, worker, events>>

InboundHook ==
  /\ hook
  /\ hook' = FALSE
  /\ StopForReason(delivery)
  /\ UNCHANGED <<campaign, stop, handed, current, attempt, sends, worker, events>>

-----------------------------------------------------------------------------
(* Reconciliation, one transaction                                         *)

Steps(c) == {x \in Items : x[1] = c}
Live(x) == current[x] # NoRow /\ row[x][current[x]] \in {"pending", "running"}

\* The lane's outstanding delivery when no row works on it.
Loose(c) == {x \in Steps(c) : delivery[x] \in {"planned", "queued"} /\ ~Live(x)}

\* The first step that is not sent, when the lane has nothing outstanding.
Unmade(c) ==
  {x \in Steps(c) : /\ delivery[x] = "none"
                    /\ \A y \in Steps(c) : y[2] < x[2] => delivery[y] = "sent"}

AllSent(c) == \A x \in Steps(c) : delivery[x] = "sent"
FreeRow(x) == {k \in Rows : row[x][k] = "none" /\ \A j \in 1..(k - 1) : row[x][j] # "none"}

\* Which lanes may get a row: active, or handed over or connected again just now.
GoesOn(c, ready) ==
  /\ campaign /\ enrollment # "paused"
  /\ lane[c] = "active" \/ (lane[c] \in {"waiting", "unconnected"} /\ c \in ready)

\* A lane whose loose delivery is only released, kept planned.
Holds(c) == ~campaign \/ enrollment = "paused" \/ lane[c] = "paused"

\* reconcile_drips for the enrolment.
Reconcile ==
  /\ enrollment \notin {"stopped", "completed"}
  /\ IF stop THEN StopForReason(delivery) /\ UNCHANGED <<handed, current>>
     ELSE \E ready, due \in SUBSET Channels :
       LET Open == {c \in Channels : GoesOn(c, ready)}
           Ended == {c \in Open : AllSent(c)}
           Queue == (UNION {Loose(c) : c \in Open}) \union (UNION {Unmade(c) : c \in Open \intersect due})
           Kept == UNION {Loose(c) : c \in {e \in Channels : Holds(e)}}
           New == [x \in Queue |-> FreeRow(x)]
           lanes == [c \in Channels |-> IF c \in Ended THEN "completed"
                                        ELSE IF c \in Open THEN "active" ELSE lane[c]]
       IN /\ \A x \in Queue : New[x] # {}
          /\ lane' = lanes /\ handed' = handed \union Open
          /\ delivery' = [x \in Items |-> IF x \in Queue THEN "queued"
                                          ELSE IF x \in Kept THEN "planned" ELSE delivery[x]]
          /\ current' = [x \in Items |-> IF x \in Queue THEN CHOOSE k \in New[x] : TRUE
                                         ELSE IF x \in Kept THEN NoRow ELSE current[x]]
          /\ row' = [x \in Items |-> [k \in Rows |->
                       IF x \in Queue /\ k \in New[x] THEN "pending" ELSE row[x][k]]]
          /\ enrollment' = IF ~campaign \/ enrollment = "paused" THEN enrollment
                           ELSE IF \A c \in Channels : lanes[c] = "completed" THEN "completed"
                           ELSE IF \E c \in Channels : lanes[c] = "active" THEN "active"
                           ELSE enrollment
  /\ UNCHANGED <<outside, attempt, sends, worker, events>>

-----------------------------------------------------------------------------
(* The admin                                                               *)

\* _retire_pending_tasks without stop_deliveries: unclaimed rows are completed, their
\* deliveries planned.
RetirePending(S) ==
  LET idle == {x \in S : current[x] # NoRow /\ row[x][current[x]] = "pending"}
  IN /\ row' = Retired(idle)
     /\ current' = [x \in Items |-> IF x \in idle THEN NoRow ELSE current[x]]
     /\ delivery' = [x \in Items |-> IF x \in idle /\ delivery[x] \in {"planned", "queued"}
                                       THEN "planned" ELSE delivery[x]]

\* The same with stop_deliveries.
RetireStopped(S) ==
  LET idle == {x \in S : current[x] # NoRow /\ row[x][current[x]] = "pending"}
  IN /\ row' = Retired(idle)
     /\ current' = [x \in Items |-> IF x \in idle THEN NoRow ELSE current[x]]
     /\ delivery' = [x \in Items |-> IF x \in S /\ delivery[x] \in {"planned", "queued"}
                                       THEN "stopped" ELSE delivery[x]]

PauseCampaign ==
  /\ campaign /\ campaign' = FALSE
  /\ RetirePending(Items) /\ UNCHANGED <<enrollment, lane>>

ResumeCampaign ==
  ~campaign /\ campaign' = TRUE /\ UNCHANGED <<graph, current>>

PauseEnrollment ==
  /\ enrollment' = IF enrollment \in {"waiting", "active"} THEN "paused" ELSE enrollment
  /\ RetirePending(Items) /\ UNCHANGED <<lane, campaign>>

ResumeEnrollment ==
  /\ enrollment = "paused"
  /\ enrollment' = IF \E c \in Channels : lane[c] \in {"waiting", "unconnected"}
                     THEN "waiting" ELSE "active"
  /\ UNCHANGED <<lane, delivery, row, current, campaign>>

StopEnrollment ==
  /\ enrollment' = IF enrollment = "completed" THEN enrollment ELSE "stopped"
  /\ lane' = Halted
  /\ RetireStopped(Items) /\ UNCHANGED campaign

PauseLane(c) ==
  /\ lane[c] \in {"waiting", "unconnected", "active"}
  /\ lane' = [lane EXCEPT ![c] = "paused"]
  /\ RetirePending(Steps(c)) /\ UNCHANGED <<enrollment, campaign>>

ResumeLane(c) ==
  /\ lane[c] = "paused" /\ campaign /\ enrollment \in {"waiting", "active"}
  /\ \A x \in Steps(c) : delivery[x] # "unclear"
  /\ lane' = [lane EXCEPT ![c] = IF c \in handed THEN "active" ELSE "waiting"]
  /\ UNCHANGED <<enrollment, delivery, row, current, campaign>>

\* A lane that is stopped already may be selected again: what its running row left
\* planned or queued is stopped too.
StopLane(c) ==
  /\ lane[c] # "completed"
  /\ lane' = [lane EXCEPT ![c] = "stopped"]
  /\ RetireStopped(Steps(c)) /\ UNCHANGED <<enrollment, campaign>>

Control ==
  /\ Event
  /\ \/ PauseCampaign \/ ResumeCampaign \/ PauseEnrollment \/ ResumeEnrollment \/ StopEnrollment
     \/ \E c \in Channels : PauseLane(c) \/ ResumeLane(c) \/ StopLane(c)
  /\ UNCHANGED <<handed, attempt, sends, stop, hook, worker>>

-----------------------------------------------------------------------------
(* A worker's handler                                                      *)

\* A due pending row becomes RUNNING.
Claim(w) ==
  /\ At(w, "idle")
  /\ \E x \in Steps(Lane(w)), k \in Rows :
       /\ row[x][k] = "pending"
       /\ row' = [row EXCEPT ![x][k] = "running"]
       /\ worker' = [worker EXCEPT ![w] = [@ EXCEPT !.pc = "claimed", !.item = x, !.row = k]]
  /\ UNCHANGED <<enrollment, lane, delivery, outside, handed, current, attempt, sends, events>>

\* A new attempt, and the delivery is being sent.
Take(w) ==
  LET x == Item(w) n == attempt[x].n + 1
  IN /\ attempt' = [attempt EXCEPT ![x] = [n |-> n, outcome |-> "reserved", marked |-> FALSE]]
     /\ delivery' = [delivery EXCEPT ![x] = "sending"]
     /\ worker' = [worker EXCEPT ![w].pc = "open", ![w].n = n]
     /\ UNCHANGED <<enrollment, lane, row, current>>

\* _release_for_guard_locked
Release(x, why) ==
  /\ current' = [current EXCEPT ![x] = NoRow]
  /\ delivery' = [delivery EXCEPT ![x] = IF ControlsStopped(x[1]) THEN "stopped" ELSE "planned"]
  /\ lane' = IF ControlsStopped(x[1]) \/ why \in {"hold", "retry"} THEN lane
             ELSE [lane EXCEPT ![x[1]] = IF why = "unconnected" THEN "unconnected" ELSE "paused"]
  /\ UNCHANGED <<enrollment, row>>

\* _execution_guard past its first checks: what it reports, if anything.
GuardReports(w, status, why) ==
  IF delivery[Item(w)] # status THEN why = "drift" /\ NoEvent
  ELSE IF ~ControlsActive(LinkedIn) THEN why = "hold" /\ NoEvent
  ELSE \/ why = "none" /\ NoEvent
       \/ why \in {"hold", "retry", "drift", "unconnected"} /\ Event

\* _reserve_delivery
ReserveLinkedIn(w) ==
  IF stop THEN StopLocked(delivery) /\ Goto(w, "finish") /\ NoEvent /\ UNCHANGED <<attempt, current>>
  ELSE IF ~Owns(w) THEN Goto(w, "error") /\ NoEvent /\ UNCHANGED <<graph, attempt, current>>
  ELSE \E why \in {"none", "hold", "retry", "drift", "unconnected"} :
         /\ GuardReports(w, "queued", why)
         /\ IF why = "none" THEN Take(w)
            ELSE Release(Item(w), why) /\ Goto(w, "finish") /\ UNCHANGED attempt

\* _reserve_attempt: it raises, or it releases the delivery, or it takes an attempt.
ReserveGmail(w) ==
  LET x == Item(w)
      Leave(pc) == Goto(w, pc) /\ UNCHANGED <<graph, attempt, current>>
      Unreserved ==
        /\ delivery' = [delivery EXCEPT ![x] = "planned"]
        /\ current' = [current EXCEPT ![x] = NoRow]
        /\ Goto(w, "finish") /\ UNCHANGED <<enrollment, lane, row, attempt>>
  IN IF ~Owns(w) THEN Leave("error") /\ NoEvent
     ELSE IF delivery[x] \in {"sent", "stopped", "unclear"} THEN Leave("finish") /\ NoEvent
     ELSE IF delivery[x] # "queued" THEN Leave("error") /\ NoEvent
     ELSE \/ Leave("error") /\ Event
          \/ Unreserved /\ (IF ControlsActive(Gmail) THEN Event ELSE NoEvent)
          \/ /\ ControlsActive(Gmail) /\ NoEvent
             /\ IF stop THEN StopForReason(delivery) /\ Goto(w, "finish") /\ UNCHANGED <<attempt, current>>
                ELSE Take(w)

Reserve(w) ==
  /\ At(w, "claimed")
  /\ IF Lane(w) = LinkedIn THEN ReserveLinkedIn(w) ELSE ReserveGmail(w)
  /\ UNCHANGED <<outside, handed, sends>>

\* The attempt never reaches the click: media that changed, a page that does not open, a
\* client that cannot be built.
FailEarly(w) ==
  /\ At(w, "open") /\ Event
  /\ \E pc \in IF Lane(w) = LinkedIn THEN {"failed", "hold"} ELSE {"failed"} : Goto(w, pc)
  /\ UNCHANGED <<graph, outside, handed, current, attempt, sends>>

Mark(w) ==
  /\ attempt' = [attempt EXCEPT ![Item(w)].marked = TRUE]
  /\ Goto(w, "click") /\ UNCHANGED <<graph, current>>

\* _submission_callback: it aborts the click, or commits the marker.
BoundaryLinkedIn(w) ==
  IF ~Reserved(w) \/ attempt[Item(w)].marked
    THEN Goto(w, "finish") /\ NoEvent /\ UNCHANGED <<graph, current, attempt>>
  ELSE IF stop
    THEN StopLocked(delivery) /\ CloseAttempt(Item(w), "unsent") /\ Goto(w, "finish") /\ NoEvent
         /\ UNCHANGED current
  ELSE IF ~Owns(w) THEN Goto(w, "failed") /\ NoEvent /\ UNCHANGED <<graph, current, attempt>>
  ELSE \E why \in {"none", "hold", "retry", "drift", "unconnected"} :
         /\ GuardReports(w, "sending", why)
         /\ IF why = "none" THEN Mark(w)
            ELSE Release(Item(w), why) /\ CloseAttempt(Item(w), "unsent") /\ Goto(w, "finish")

\* _stamp_submission_attempt: it raises, or it commits the marker.
BoundaryGmail(w) ==
  /\ IF /\ Owns(w) /\ delivery[Item(w)] = "sending"
        /\ Reserved(w) /\ ~attempt[Item(w)].marked
        /\ ControlsActive(Gmail) /\ ~stop
       THEN Mark(w)
       ELSE Goto(w, "failed") /\ UNCHANGED <<graph, current, attempt>>
  /\ NoEvent

Boundary(w) ==
  /\ At(w, "open")
  /\ IF Lane(w) = LinkedIn THEN BoundaryLinkedIn(w) ELSE BoundaryGmail(w)
  /\ UNCHANGED <<outside, handed, sends>>

\* The click, or the Gmail request: it may fail before or after the provider acts.
Click(w) ==
  /\ At(w, "click")
  /\ \/ sends' = [sends EXCEPT ![Item(w)] = @ + 1] /\ Goto(w, "sent") /\ NoEvent
     \/ sends' = [sends EXCEPT ![Item(w)] = @ + 1] /\ Goto(w, "failed") /\ Event
     \/ UNCHANGED sends /\ Goto(w, "failed") /\ Event
  /\ UNCHANGED <<graph, outside, handed, current, attempt>>

\* _finish_sent: a stop that came meanwhile stops both lanes, else the last step
\* completes the lane.
ConfirmLinkedIn(w) ==
  LET x == Item(w) d == [delivery EXCEPT ![x] = "sent"]
  IN IF delivery[x] = "sent" THEN Goto(w, "finish") /\ UNCHANGED <<graph, attempt>>
     ELSE IF delivery[x] # "sending" \/ current[x] # worker[w].row \/ ~Reserved(w)
       THEN Goto(w, "error") /\ UNCHANGED <<graph, attempt>>
     ELSE /\ CloseAttempt(x, "sent") /\ Goto(w, "finish")
          /\ IF stop THEN StopLocked(d)
             ELSE /\ delivery' = d
                  /\ lane' = IF enrollment = "active" /\ lane[LinkedIn] = "active" /\ x[2] = LastStep[LinkedIn]
                               THEN [lane EXCEPT ![LinkedIn] = "completed"] ELSE lane
                  /\ UNCHANGED <<enrollment, row>>

\* _record_success; it raises when the delivery is no longer its own.
ConfirmGmail(w) ==
  LET x == Item(w)
  IN IF /\ delivery[x] = "sending" /\ current[x] = worker[w].row
        /\ Reserved(w) /\ attempt[x].marked
       THEN /\ CloseAttempt(x, "sent") /\ Goto(w, "finish")
            /\ delivery' = [delivery EXCEPT ![x] = "sent"]
            /\ UNCHANGED <<enrollment, lane, row>>
       ELSE Goto(w, "failed") /\ UNCHANGED <<graph, attempt>>

Confirm(w) ==
  /\ At(w, "sent")
  /\ IF Lane(w) = LinkedIn THEN ConfirmLinkedIn(w) ELSE ConfirmGmail(w)
  /\ UNCHANGED <<outside, handed, current, sends, events>>

\* _finish_unclear_locked
Unclear(x) ==
  /\ attempt' = [attempt EXCEPT ![x].outcome = IF @ = "reserved" THEN "unclear" ELSE @]
  /\ delivery' = [delivery EXCEPT ![x] = "unclear"]
  /\ lane' = [lane EXCEPT ![x[1]] =
                IF @ \in (IF x[1] = LinkedIn THEN NonTerminal ELSE {"active"}) THEN "paused" ELSE @]
  /\ UNCHANGED enrollment

\* _finish_pre_submit_failure, _finish_media_hold, _finish_unclear: an attempt that is no
\* longer open is left alone.
FailLinkedIn(w) ==
  LET x == Item(w)
  IN IF ~Reserved(w) THEN UNCHANGED <<graph, attempt, current>>
     ELSE IF attempt[x].marked THEN Unclear(x) /\ UNCHANGED <<row, current>>
     ELSE /\ CloseAttempt(x, "unsent")
          /\ Release(x, IF At(w, "hold") THEN "drift" ELSE "retry")

\* _record_failure
FailGmail(w) ==
  LET x == Item(w)
      stopped == enrollment = "stopped" \/ lane[Gmail] = "stopped" \/ stop
      d == [delivery EXCEPT ![x] = IF stopped THEN "stopped" ELSE "planned"]
  IN IF ~Reserved(w) THEN UNCHANGED <<graph, attempt, current>>
     ELSE IF attempt[x].marked THEN Unclear(x) /\ UNCHANGED <<row, current>>
     ELSE /\ CloseAttempt(x, "unsent")
          /\ IF delivery[x] # "sending" THEN UNCHANGED <<graph, current>>
             ELSE /\ current' = [current EXCEPT ![x] = NoRow]
                  /\ IF stop THEN StopForReason(d)
                     ELSE delivery' = d /\ UNCHANGED <<enrollment, lane, row>>

\* A LinkedIn result is returned and completes the row, an exception fails it.
Failure(w) ==
  /\ At(w, "failed") \/ At(w, "hold")
  /\ IF Lane(w) = LinkedIn THEN FailLinkedIn(w) ELSE FailGmail(w)
  /\ \E pc \in IF Lane(w) = Gmail THEN {"error"} ELSE IF At(w, "hold") THEN {"finish"}
               ELSE {"finish", "error"} : Goto(w, pc)
  /\ UNCHANGED <<outside, handed, sends, events>>

\* mark_completed, which the Gmail worker does only to a row that still runs, and
\* mark_failed.
Finish(w) ==
  /\ At(w, "finish") \/ At(w, "error")
  /\ row' = [row EXCEPT ![Item(w)][worker[w].row] =
               IF At(w, "error") THEN "failed"
               ELSE IF Lane(w) = Gmail /\ @ # "running" THEN @ ELSE "completed"]
  /\ worker' = [worker EXCEPT ![w] = [Down EXCEPT !.pc = "idle"]]
  /\ UNCHANGED <<enrollment, lane, delivery, outside, handed, current, attempt, sends, events>>

-----------------------------------------------------------------------------
(* A worker's death, start and recovery                                    *)

\* The process ends wherever it is.
Die(w) ==
  /\ ~At(w, "down")
  /\ Event
  /\ worker' = [worker EXCEPT ![w] = Down]
  /\ UNCHANGED <<graph, outside, handed, current, attempt, sends>>

Held(x, k) == \E w \in Workers : Item(w) = x /\ worker[w].row = k

\* Faulty variant: only a row whose delivery still waits is looked at.
RecoverableQueued(x, k) ==
  row[x][k] = "running" /\ (Hung \/ ~Held(x, k)) /\ delivery[x] # "sending"

\* A stale RUNNING row, and on LinkedIn the FAILED row of a delivery being sent.  On
\* LinkedIn a delivery that is not being sent is left alone, its row stays as it is.
Recoverable(x, k) ==
  IF x[1] = LinkedIn
    THEN /\ delivery[x] = "sending"
         /\ \/ row[x][k] = "running" /\ (Hung \/ ~Held(x, k))
            \/ row[x][k] = "failed" /\ current[x] = k
    ELSE row[x][k] = "running" /\ (Hung \/ ~Held(x, k))

SetRow(x, k, status) == row' = [row EXCEPT ![x][k] = status]

\* Faulty variant: the controls are not looked at.
RestoreAlways(x) ==
  /\ CloseAttempt(x, "unsent")
  /\ delivery' = [delivery EXCEPT ![x] = "queued"]
  /\ SetRow(x, current[x], "pending")
  /\ UNCHANGED <<enrollment, lane, current>>

\* An attempt that never reached its marker: its row is queued again; while the controls
\* are off, or when the row is completed already, the delivery is planned without one.
Restore(x) ==
  LET again == ControlsActive(x[1]) /\ row[x][current[x]] # "completed"
  IN /\ CloseAttempt(x, "unsent")
     /\ delivery' = [delivery EXCEPT ![x] = IF again THEN "queued" ELSE "planned"]
     /\ current' = IF again THEN current ELSE [current EXCEPT ![x] = NoRow]
     /\ SetRow(x, current[x], IF again THEN "pending" ELSE "completed")
     /\ UNCHANGED <<enrollment, lane>>

\* Faulty variant: the marker is not looked at.
OpenAttemptBlind(x) == attempt[x].outcome = "reserved"

\* The attempt is open and never reached the click.
OpenAttempt(x) == attempt[x].outcome = "reserved" /\ ~attempt[x].marked

\* recover_stale_linkedin_delivery
RecoverLinkedIn(x) ==
  IF OpenAttempt(x) THEN Restore(x)
  ELSE /\ Unclear(x) /\ UNCHANGED current
       /\ SetRow(x, current[x], IF row[x][current[x]] = "failed" THEN "failed" ELSE "completed")

\* recover_stale_drip_gmail_task
RecoverGmail(x, k) ==
  LET Only(status) == SetRow(x, k, status) /\ UNCHANGED <<enrollment, lane, delivery, attempt, current>>
  IN IF current[x] # k THEN Only("failed")
     ELSE IF delivery[x] \in {"sent", "stopped", "unclear"} THEN Only("completed")
     ELSE IF delivery[x] # "sending" THEN Only("failed")
     ELSE IF OpenAttempt(x) THEN Restore(x)
     ELSE Unclear(x) /\ SetRow(x, k, "failed") /\ UNCHANGED current

\* A worker's start looks at its channel's rows one after the other.
Recover(w) ==
  /\ At(w, "down")
  /\ \E x \in Steps(Lane(w)), k \in Rows :
       /\ Recoverable(x, k)
       /\ IF Lane(w) = LinkedIn THEN RecoverLinkedIn(x) ELSE RecoverGmail(x, k)
  /\ UNCHANGED <<outside, handed, sends, worker, events>>

Start(w) ==
  /\ At(w, "down")
  /\ \A x \in Steps(Lane(w)), k \in Rows : ~Recoverable(x, k)
  /\ Goto(w, "idle")
  /\ UNCHANGED <<graph, outside, handed, current, attempt, sends, events>>

-----------------------------------------------------------------------------
(* Specification                                                           *)

Work(w) ==
  \/ Claim(w) \/ Reserve(w) \/ FailEarly(w) \/ Boundary(w) \/ Click(w) \/ Confirm(w)
  \/ Failure(w) \/ Finish(w) \/ Recover(w) \/ Start(w)

Next == Answer \/ InboundHook \/ Reconcile \/ Control \/ (\E w \in Workers : Work(w) \/ Die(w))

Spec == Init /\ [][Next]_vars

\* A supervisor starts the worker again and its loop goes on; nothing in the program
\* starts the reconciliation.
FairSpec == Spec /\ \A w \in Workers : WF_vars(Work(w))

-----------------------------------------------------------------------------
(* Properties                                                              *)

\* What a delivery promises: closed once sent or unclear, in flight from its marker on,
\* withheld by a stop.  The attempt says more than the delivery: a stop from the other
\* channel may mark a delivery stopped while its attempt is under way.
Phase(x) ==
  IF attempt[x].outcome \in {"sent", "unclear"} THEN "closed"
  ELSE IF attempt[x].outcome = "reserved" /\ attempt[x].marked THEN "inFlight"
  ELSE IF delivery[x] = "stopped" THEN "withheld"
  ELSE "unsent"

Promise(x) ==
  INSTANCE AtMostOnce WITH Items <- {x}, phase <- [i \in {x} |-> Phase(x)],
                           delivered <- [i \in {x} |-> sends[x]]

\* Every step of every lane is sent at most once, and an attempt whose marker was
\* committed is never tried again, whatever stops, controls, deaths and recoveries come
\* between the three transactions of the attempt.
Implements ==
  /\ \A x \in Items : Promise(x)!Init
  /\ [][\A x \in Items : Promise(x)!Next \/ UNCHANGED <<Phase(x), sends[x]>>]_vars

\* A stop, a pause or a human takeover reaches the work of both channels: while the
\* campaign, the enrolment or a lane is not active the lane has no row waiting to be
\* claimed, also when the row was being sent at the time and comes back by recovery.
HeldHasNoWork ==
  \A x \in Items : (\E k \in Rows : row[x][k] = "pending") => ControlsActive(x[1])

\* A delivery being sent is resolved: whoever dies with it, it is sent, unclear, or back
\* where the reconciliation or a worker takes it up.
SendingResolves ==
  \A x \in Items : delivery[x] = "sending" ~> delivery[x] # "sending"
==============================================================================
