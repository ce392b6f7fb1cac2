------------------------------- MODULE GmailLane -------------------------------
(***************************************************************************)
(* The Gmail sequence of one Deal with frozen deliveries: the handoff that *)
(* queues its steps (gmail/handoff.py), the worker of its mailbox          *)
(* (gmail/worker.py), the handler (gmail/tasks/follow_up.py) and the       *)
(* submission boundary (gmail/submission.py).                              *)
(*                                                                         *)
(* A step has one delivery and one row of the task table.  Three durable    *)
(* records speak of its submission: the row's marker, the delivery's        *)
(* status and the stored Message.  They are written in four transactions.  *)
(* Due times are left to chance: a row found early is put back.             *)
(***************************************************************************)
EXTENDS Naturals, FiniteSets

CONSTANTS
  Workers,     \* processes that work on the mailbox
  LastStep,    \* index of the sequence's last step
  None,        \* no step
  Hung,        \* a stale RUNNING row may be one its worker still works on
  Lingering,   \* a start may find a dead worker's row younger than stale
  Replies,     \* the lead may answer, or be stopped otherwise
  MaxStops,    \* bound: workers that die
  MaxEarly     \* bound: rows found early

ASSUME GmailAssumption ==
  /\ LastStep \in Nat /\ None \notin Nat
  /\ Hung \in BOOLEAN /\ Lingering \in BOOLEAN /\ Replies \in BOOLEAN
  /\ MaxStops \in Nat /\ MaxEarly \in Nat

Steps == 0..LastStep

VARIABLES
  task,       \* status of a step's row
  marker,     \* the row carries gmail_submission_attempted_at
  delivery,   \* status of a step's OutboundDelivery
  message,    \* the outbound Message of the step is stored
  sends,      \* times Gmail sent the step
  stop,       \* lead_automation_stop_reason is not ""
  retiring,   \* the hook after a reply's commit has yet to retire pending rows
  worker,     \* what a worker does, on which step
  stops, earlies

records == <<task, marker, delivery, message>>
vars == <<records, sends, stop, retiring, worker, stops, earlies>>

TaskStatus == {"none", "pending", "running", "completed", "failed"}
DeliveryStatus == {"none", "planned", "queued", "sending", "sent", "unclear", "stopped", "failed"}
PCs == {"down", "idle", "check", "recheck", "stamp", "submit", "persist", "except",
        "record", "next", "finish", "error"}

TypeOK ==
  /\ task \in [Steps -> TaskStatus]
  /\ marker \in [Steps -> BOOLEAN]
  /\ delivery \in [Steps -> DeliveryStatus]
  /\ message \in [Steps -> BOOLEAN]
  /\ sends \in [Steps -> Nat]
  /\ stop \in BOOLEAN /\ retiring \in BOOLEAN
  /\ worker \in [Workers -> [pc : PCs, step : Steps \union {None}]]
  /\ stops \in Nat /\ earlies \in Nat

Init ==
  /\ task = [s \in Steps |-> "none"]
  /\ marker = [s \in Steps |-> FALSE]
  /\ delivery = [s \in Steps |-> "none"]
  /\ message = [s \in Steps |-> FALSE]
  /\ sends = [s \in Steps |-> 0]
  /\ stop = FALSE /\ retiring = FALSE
  /\ worker = [w \in Workers |-> [pc |-> "down", step |-> None]]
  /\ stops = 0 /\ earlies = 0

StepOf(w) == worker[w].step
At(w, pc) == worker[w].pc = pc
Goto(w, pc) == worker' = [worker EXCEPT ![w].pc = pc]
Leave(w) == worker' = [worker EXCEPT ![w] = [pc |-> "idle", step |-> None]]

-----------------------------------------------------------------------------
(* Receipts                                                                *)

Final == {"sent", "unclear", "stopped"}

\* mark_delivery_status: a final receipt keeps its status; asking for another raises.
Markable(s, status) == delivery[s] \notin Final \/ delivery[s] = status

\* Mark the receipt and go on, or raise.
Mark(s, status, w, then) ==
  IF Markable(s, status)
    THEN /\ delivery' = [delivery EXCEPT ![s] = status]
         /\ Goto(w, then)
    ELSE /\ UNCHANGED delivery
         /\ Goto(w, IF then \in {"stamp", "submit", "except"} THEN "except" ELSE "error")

-----------------------------------------------------------------------------
(* Handoff                                                                 *)

\* _maybe_schedule_gmail_sequence, by the hooks of the LinkedIn lanes and at startup;
\* without an address the delivery waits for the enrichment, which queues it later.
Schedule ==
  /\ ~stop
  /\ delivery[0] \in {"none", "planned"} /\ task[0] = "none"
  /\ \/ /\ delivery' = [delivery EXCEPT ![0] = "queued"]
        /\ task' = [task EXCEPT ![0] = "pending"]
     \/ /\ delivery[0] = "none"
        /\ delivery' = [delivery EXCEPT ![0] = "planned"]
        /\ UNCHANGED task
  /\ UNCHANGED <<marker, message, sends, stop, retiring, worker, stops, earlies>>

\* A reply, suppression, meeting or disqualification is stored.
Stop ==
  /\ Replies /\ ~stop
  /\ stop' = TRUE
  /\ retiring' \in BOOLEAN
  /\ UNCHANGED <<records, sends, worker, stops, earlies>>

\* retire_pending_current_gmail_work
Retire ==
  /\ retiring
  /\ retiring' = FALSE
  /\ task' = [s \in Steps |-> IF task[s] = "pending" THEN "completed" ELSE task[s]]
  /\ UNCHANGED <<marker, delivery, message, sends, stop, worker, stops, earlies>>

-----------------------------------------------------------------------------
(* handle_gmail_follow_up                                                  *)

\* _claim_next
Claim(w) ==
  /\ At(w, "idle")
  /\ \E s \in Steps :
       /\ task[s] = "pending"
       /\ task' = [task EXCEPT ![s] = "running"]
       /\ worker' = [worker EXCEPT ![w] = [pc |-> "check", step |-> s]]
  /\ UNCHANGED <<marker, delivery, message, sends, stop, retiring, stops, earlies>>

\* The row is put back with its identity (_defer_locked_task_if_early).
PutBack(w, s) ==
  /\ earlies < MaxEarly /\ earlies' = earlies + 1
  /\ task' = [task EXCEPT ![s] = "pending"]
  /\ Leave(w)

\* Faulty variant: the marker is taken for the mail.
RecordedOrMarked(s) == message[s] \/ marker[s]

\* _sent_gmail_step
Recorded(s) == message[s]

\* A stop or a stored Message decides first; then a receipt or marker that speaks of an
\* earlier submission; then a missing address, an early row, a broken thread binding.
Check(w) ==
  /\ At(w, "check")
  /\ LET s == StepOf(w)
         status == delivery[s]
         Quietly == UNCHANGED <<task, earlies>>
         Raise == UNCHANGED delivery /\ Goto(w, "error") /\ Quietly
     IN IF status \in {"stopped", "unclear", "failed", "planned"} THEN Raise
        ELSE IF stop THEN Mark(s, "stopped", w, "finish") /\ Quietly
        ELSE IF Recorded(s) THEN Mark(s, "sent", w, "next") /\ Quietly
        ELSE IF status = "sent" THEN Raise
        ELSE IF status = "sending" \/ marker[s] THEN Mark(s, "unclear", w, "error") /\ Quietly
        ELSE \/ Mark(s, "failed", w, "error") /\ Quietly
             \/ PutBack(w, s) /\ task[s] = "running" /\ UNCHANGED delivery
             \/ Raise
             \/ Goto(w, "recheck") /\ Quietly /\ UNCHANGED delivery
  /\ UNCHANGED <<marker, message, sends, stop, retiring, stops>>

\* The stop is read again before the submission, twice: the first reading returns, the
\* one inside send_message raises.
Recheck(w) ==
  /\ At(w, "recheck")
  /\ IF stop
       THEN \E then \in {"finish", "except"} : Mark(StepOf(w), "stopped", w, then)
       ELSE Goto(w, "stamp") /\ UNCHANGED delivery
  /\ UNCHANGED <<task, marker, message, sends, stop, retiring, stops, earlies>>

Stampable(s) == task[s] = "running" /\ ~marker[s] /\ delivery[s] = "queued"

\* stamp_submission_attempt, one transaction.
Stamp(w) ==
  /\ At(w, "stamp")
  /\ LET s == StepOf(w) IN
     \/ /\ Stampable(s)
        /\ marker' = [marker EXCEPT ![s] = TRUE]
        /\ delivery' = [delivery EXCEPT ![s] = "sending"]
        /\ Goto(w, "submit")
        /\ UNCHANGED <<task, earlies>>
     \/ /\ Stampable(s)
        /\ PutBack(w, s)
        /\ UNCHANGED <<marker, delivery>>
     \/ /\ ~Stampable(s)
        /\ Goto(w, "except")
        /\ UNCHANGED <<task, marker, delivery, earlies>>
  /\ UNCHANGED <<message, sends, stop, retiring, stops>>

\* request.execute: Gmail sends and says so, or the answer is an error, or not usable,
\* and nobody knows.
Submit(w) ==
  /\ At(w, "submit")
  /\ \E took, answered \in BOOLEAN :
       /\ answered => took
       /\ sends' = IF took THEN [sends EXCEPT ![StepOf(w)] = @ + 1] ELSE sends
       /\ Goto(w, IF answered THEN "persist" ELSE "except")
  /\ UNCHANGED <<records, stop, retiring, stops, earlies>>

\* _persist_outbound; the database may be gone.
Persist(w) ==
  /\ At(w, "persist")
  /\ \/ /\ message' = [message EXCEPT ![StepOf(w)] = TRUE]
        /\ Goto(w, "record")
     \/ Goto(w, "except") /\ UNCHANGED message
  /\ UNCHANGED <<task, marker, delivery, sends, stop, retiring, stops, earlies>>

OutcomeOf(s) == IF marker[s] THEN "unclear" ELSE "failed"

\* The handler's except clause; it may fail itself.
Except(w) ==
  /\ At(w, "except")
  /\ delivery' \in {delivery,
       IF delivery[StepOf(w)] \in Final THEN delivery
       ELSE [delivery EXCEPT ![StepOf(w)] = OutcomeOf(StepOf(w))]}
  /\ Goto(w, "error")
  /\ UNCHANGED <<task, marker, message, sends, stop, retiring, stops, earlies>>

Record(w) ==
  /\ At(w, "record")
  /\ \/ Mark(StepOf(w), "sent", w, "next")
     \/ Goto(w, "error") /\ UNCHANGED delivery
  /\ UNCHANGED <<task, marker, message, sends, stop, retiring, stops, earlies>>

\* enqueue_gmail_follow_up of delivery s: a new row, the open row it has, a failed row
\* revived when its Message is stored or it was never submitted; anything else holds.
Queue(s) ==
  LET fails == task[s] = "failed" IN
  IF task[s] = "none" \/ (fails /\ ~marker[s])
    THEN /\ task' = [task EXCEPT ![s] = "pending"]
         /\ delivery' = [delivery EXCEPT ![s] = IF @ = "sent" THEN @ ELSE "queued"]
  ELSE IF fails /\ message[s]
    THEN /\ task' = [task EXCEPT ![s] = "pending"]
         /\ delivery' = [delivery EXCEPT ![s] = "sent"]
  ELSE UNCHANGED <<task, delivery>>

\* Faulty variant: the successor is queued without its own stop check.
HeldUnlessClosed(s) == delivery[s] \in {"stopped", "unclear"}

\* enqueue_gmail_follow_up returns None.
Held(s) == stop \/ delivery[s] \in {"stopped", "unclear"}

\* _enqueue_next_step: a stop closes the successor; an error may leave it planned.
NextStep(w) ==
  /\ At(w, "next")
  /\ LET n == StepOf(w) + 1 IN
     \/ /\ n > LastStep
        /\ Goto(w, "finish") /\ UNCHANGED <<task, delivery>>
     \/ /\ n <= LastStep /\ Held(n)
        /\ Mark(n, "stopped", w, "finish") /\ UNCHANGED task
     \/ /\ n <= LastStep /\ ~Held(n)
        /\ Queue(n) /\ Goto(w, "finish")
     \/ /\ n <= LastStep
        /\ delivery' \in {delivery, [delivery EXCEPT ![n] = IF @ = "none" THEN "planned" ELSE @]}
        /\ Goto(w, "error") /\ UNCHANGED task
  /\ UNCHANGED <<marker, message, sends, stop, retiring, stops, earlies>>

-----------------------------------------------------------------------------
(* GmailWorker                                                             *)

Finish(w) ==
  /\ At(w, "finish")
  /\ task' = [task EXCEPT ![StepOf(w)] = IF @ = "running" THEN "completed" ELSE @]
  /\ Leave(w)
  /\ UNCHANGED <<marker, delivery, message, sends, stop, retiring, stops, earlies>>

\* Faulty variant: a failed handler's row is failed.
NeverHealable(s) == FALSE

\* reschedule_persisted_current_gmail_task
Healable(s) ==
  task[s] = "running" /\ marker[s] /\ message[s] /\ delivery[s] \notin {"stopped", "unclear"}

\* The handler raised: the row is put back when the Message is stored, else failed.
Fail(w) ==
  /\ At(w, "error")
  /\ LET s == StepOf(w) IN
     IF Healable(s)
       THEN /\ task' = [task EXCEPT ![s] = "pending"]
            /\ delivery' = [delivery EXCEPT ![s] = "sent"]
       ELSE /\ task' = [task EXCEPT ![s] = "failed"]
            /\ UNCHANGED delivery
  /\ Leave(w)
  /\ UNCHANGED <<marker, message, sends, stop, retiring, stops, earlies>>

\* The process ends anywhere; the database was gone, or the machine was stopped.
Die(w) ==
  /\ ~At(w, "down") /\ stops < MaxStops
  /\ worker' = [worker EXCEPT ![w] = [pc |-> "down", step |-> None]]
  /\ stops' = stops + 1
  /\ UNCHANGED <<records, sends, stop, retiring, earlies>>

\* Faulty variants: everything is put back; the receipt's word is taken for the mail's.
RecoveredBlindly(s) == [row |-> "pending", receipt |-> "queued"]
RecoveredWithoutMessage(s) ==
  IF delivery[s] \in {"stopped", "unclear"} THEN [row |-> "failed", receipt |-> delivery[s]]
  ELSE IF marker[s] \/ delivery[s] \in {"sent", "sending"}
    THEN [row |-> "pending", receipt |-> "sent"]
  ELSE [row |-> "pending", receipt |-> "queued"]

\* recover_stale_current_gmail_task
Recovered(s) ==
  IF delivery[s] \in {"stopped", "unclear"} THEN [row |-> "failed", receipt |-> delivery[s]]
  ELSE IF marker[s] \/ delivery[s] \in {"sent", "sending"}
    THEN IF message[s] THEN [row |-> "pending", receipt |-> "sent"]
         ELSE [row |-> "failed", receipt |-> IF delivery[s] = "sent" THEN "sent" ELSE "unclear"]
  ELSE [row |-> "pending", receipt |-> "queued"]

\* RUNNING rows, as far as they are old enough.
Stale ==
  {s \in Steps : task[s] = "running"
     /\ (Hung \/ \A w \in Workers : StepOf(w) # s)}

\* _prepare_run: recovery, then the loop.
Start(w) ==
  /\ At(w, "down")
  /\ \E old \in SUBSET Stale :
       /\ Lingering \/ Hung \/ old = Stale
       /\ task' = [s \in Steps |-> IF s \in old THEN Recovered(s).row ELSE task[s]]
       /\ delivery' = [s \in Steps |-> IF s \in old THEN Recovered(s).receipt ELSE delivery[s]]
  /\ Goto(w, "idle")
  /\ UNCHANGED <<marker, message, sends, stop, retiring, stops, earlies>>

-----------------------------------------------------------------------------
Work(w) ==
  \/ Start(w) \/ Claim(w) \/ Check(w) \/ Recheck(w) \/ Stamp(w) \/ Submit(w) \/ Persist(w)
  \/ Except(w) \/ Record(w) \/ NextStep(w) \/ Finish(w) \/ Fail(w)

Next ==
  \/ Schedule \/ Stop \/ Retire
  \/ \E w \in Workers : Work(w) \/ Die(w)

Spec == Init /\ [][Next]_vars

\* The supervisor restarts a worker, and a worker goes on with its loop; the
\* database comes back: an exit of NextStep that queues the successor is not refused
\* for ever.
FairSpec ==
  /\ Spec
  /\ \A w \in Workers : WF_vars(Work(w)) /\ SF_vars(NextStep(w) /\ worker'[w].pc = "finish")

-----------------------------------------------------------------------------
(* Properties                                                              *)

\* gmail/submission.py: one step is sent at most once, whatever dies or hangs between
\* the marker, the submission, the Message and the receipt.
SentOnce == \A s \in Steps : sends[s] <= 1

Phase(s) ==
  IF marker[s] THEN IF delivery[s] \in Final THEN "closed" ELSE "inFlight"
  ELSE IF delivery[s] = "stopped" THEN "withheld" ELSE "unsent"

Promise == INSTANCE AtMostOnce WITH
  Items <- Steps, phase <- [s \in Steps |-> Phase(s)], delivered <- sends

\* The lane is one of those that AtMostOnce describes: the marker is the record made
\* before Gmail can see the attempt, and it is never taken back.
Implements == Promise!Spec

\* A receipt says sent only of a mail that Gmail has and the ledger holds: every
\* later use of it (thread binding, successor's reference time) reads that Message.
SentIsStored == \A s \in Steps : delivery[s] = "sent" => message[s] /\ sends[s] = 1

\* A step goes out only after its predecessor did and is on record, and its thread can
\* be continued.
InOrder == \A s \in Steps \ {0} : sends[s] > 0 => message[s - 1]

\* enqueue_gmail_follow_up: once a stop is stored no step gets a row, also not the
\* successor of a step that was on its way when it came.
StopHolds == [][stop => \A s \in Steps : task[s] = "none" => task'[s] = "none"]_vars

\* reschedule_persisted_current_gmail_task: a step on record gets its successor (or a
\* stopped one), whatever died between the Message and the successor's row.
SequenceGoesOn ==
  \A s \in Steps \ {LastStep} : message[s] ~> delivery[s + 1] \notin {"none", "planned"}

\* ARCHITECTURE.md: a requeued row of a stored step will "complete bookkeeping without
\* resending": every row ends.  With a lead that answers it need not: the handler asks a sent receipt
\* to become stopped, which raises, and the row is put back.
RowsEnd == \A s \in Steps : task[s] = "pending" ~> task[s] \in {"completed", "failed"}
==============================================================================
