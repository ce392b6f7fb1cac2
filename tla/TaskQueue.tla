------------------------------- MODULE TaskQueue -------------------------------
(***************************************************************************)
(* The shared task table: linkedin/models.py TaskQuerySet, the claim and   *)
(* recovery of daemon.py, Slack's insertion and cancellation of manual     *)
(* replies (api/slack_enrich.py), their handler, and the hourly status     *)
(* summary, which any daemon may run.  There is one daemon per sender; all *)
(* of them, and Slack's web function, work on the same rows.               *)
(*                                                                         *)
(* A claim is two database steps (read a candidate, flip it if it is still *)
(* pending), and a reply is sent before it is recorded.  Summary rows are   *)
(* alike and counted; their hour of delay is not modelled.                 *)
(***************************************************************************)
EXTENDS Naturals, FiniteSets

CONSTANTS
  Operators,     \* senders, each with its daemon
  Replies,       \* what people answer in Slack: a lead, a sender and a text
  OwnerOf,       \* the sender of a reply
  Rows,          \* bound: manual_reply rows that are ever inserted
  None,          \* no row, no reply
  Lingering,     \* a restart may find a RUNNING row younger than stale
  MaxStops       \* bound: daemons that stop

ASSUME QueueAssumption ==
  /\ OwnerOf \in [Replies -> Operators]
  /\ IsFiniteSet(Rows)
  /\ None \notin Rows \union Replies
  /\ Lingering \in BOOLEAN /\ MaxStops \in Nat

VARIABLES
  status,     \* status of each manual_reply row; "none" before its insertion
  reply,      \* its payload
  cancelled,  \* rows whose cancellation was reported to Slack
  requests,   \* submissions between their look for a duplicate and their insertion
  pendingSummaries, \* PENDING status_summary rows
  orphans,    \* RUNNING status_summary rows whose daemon stopped
  daemon,     \* what each daemon is doing, on which row
  sends,      \* times LinkedIn sent a reply
  recorded,   \* replies with an outbound Message
  posted,     \* a summary was posted in this step
  stops

queueVars == <<status, reply, cancelled, requests>>
vars == <<queueVars, pendingSummaries, orphans, daemon, sends, recorded, posted, stops>>

\* "seed" and "next" are before and after the look of enqueue_status_summary.
PCs == {"down", "seed", "seedNew", "idle", "selected", "selectedSummary",
        "reply", "send", "sent", "done", "failed", "summary", "next", "nextNew"}
AtSummary == {"summary", "next", "nextNew"}
AtRow == {"reply", "send", "sent", "done", "failed"}

TypeOK ==
  /\ status \in [Rows -> {"none", "pending", "running", "completed", "failed", "deleted"}]
  /\ reply \in [Rows -> Replies \union {None}]
  /\ cancelled \subseteq Rows
  /\ requests \in SUBSET Replies
  /\ pendingSummaries \in Nat /\ orphans \in 0..stops
  /\ daemon \in [Operators -> [pc : PCs, row : Rows \union {None}]]
  /\ sends \in [Replies -> Nat]
  /\ recorded \subseteq Replies
  /\ posted \in BOOLEAN
  /\ stops \in 0..MaxStops

Init ==
  /\ status = [r \in Rows |-> "none"]
  /\ reply = [r \in Rows |-> None]
  /\ cancelled = {}
  /\ requests = {}
  /\ pendingSummaries = 0
  /\ orphans = 0
  /\ daemon = [o \in Operators |-> [pc |-> "down", row |-> None]]
  /\ sends = [c \in Replies |-> 0]
  /\ recorded = {}
  /\ posted = FALSE
  /\ stops = 0

Goto(o, from, to) ==
  /\ daemon[o].pc = from
  /\ daemon' = [daemon EXCEPT ![o].pc = to]

Leave(o) == daemon' = [daemon EXCEPT ![o] = [pc |-> "idle", row |-> None]]

-----------------------------------------------------------------------------
(* Slack                                                                   *)

\* enqueue_manual_reply_task: an open row with the same text is returned instead.
LookForOpen(c) ==
  /\ c \notin requests
  /\ ~\E r \in Rows : reply[r] = c /\ status[r] \in {"pending", "running"}
  /\ requests' = requests \union {c}
  /\ UNCHANGED <<status, reply, cancelled, pendingSummaries, daemon, sends, recorded, posted, orphans, stops>>

\* Slack repeats a submission it got no answer to: the look may be made by two calls
\* of the web function, and each inserts.
Insert(c) ==
  /\ c \in requests
  /\ \E r \in Rows :
       /\ status[r] = "none"
       /\ status' = [status EXCEPT ![r] = "pending"]
       /\ reply' = [reply EXCEPT ![r] = c]
  /\ \E again \in BOOLEAN : requests' = IF again THEN requests ELSE requests \ {c}
  /\ UNCHANGED <<cancelled, pendingSummaries, daemon, sends, recorded, posted, orphans, stops>>

\* Faulty variant: DELETE without the status.
CancellableOpen(r) == status[r] \in {"pending", "running"}

Cancellable(r) == status[r] = "pending"

\* cancel_manual_reply_task: Slack shows "it will not be sent" for a deleted row.
Cancel(r) ==
  /\ Cancellable(r)
  /\ status' = [status EXCEPT ![r] = "deleted"]
  /\ cancelled' = cancelled \union {r}
  /\ UNCHANGED <<reply, requests, pendingSummaries, daemon, sends, recorded, posted, orphans, stops>>

-----------------------------------------------------------------------------
(* claim_next                                                              *)

\* _operator_scope_q
InScope(o, r) == OwnerOf[reply[r]] = o

Due(o) == {r \in Rows : status[r] = "pending" /\ InScope(o, r)}

SelectReply(o) ==
  /\ daemon[o].pc = "idle"
  /\ \E r \in Due(o) : daemon' = [daemon EXCEPT ![o] = [pc |-> "selected", row |-> r]]
  /\ UNCHANGED <<queueVars, pendingSummaries, sends, recorded, posted, orphans, stops>>

\* Manual replies come first.
SelectSummary(o) ==
  /\ daemon[o].pc = "idle"
  /\ Due(o) = {} /\ pendingSummaries > 0
  /\ daemon' = [daemon EXCEPT ![o].pc = "selectedSummary"]
  /\ UNCHANGED <<queueVars, pendingSummaries, sends, recorded, posted, orphans, stops>>

\* _claim_candidate, and mark_running on the row it flipped.
ClaimReply(o) ==
  /\ daemon[o].pc = "selected"
  /\ LET r == daemon[o].row IN
     IF status[r] = "pending"
       THEN /\ status' = [status EXCEPT ![r] = "running"]
            /\ daemon' = [daemon EXCEPT ![o].pc = "reply"]
       ELSE Leave(o) /\ UNCHANGED status
  /\ UNCHANGED <<reply, cancelled, requests, pendingSummaries, sends, recorded, posted, orphans, stops>>

\* The candidate is one of several rows that are alike: another daemon may have
\* flipped this one, and then nothing is claimed in this round.
ClaimSummary(o) ==
  /\ daemon[o].pc = "selectedSummary"
  /\ \/ /\ pendingSummaries > 0
        /\ pendingSummaries' = pendingSummaries - 1
        /\ daemon' = [daemon EXCEPT ![o].pc = "summary"]
     \/ /\ \E p \in Operators \ {o} : daemon[p].pc \in AtSummary
                                      \/ pendingSummaries = 0
        /\ Leave(o) /\ UNCHANGED pendingSummaries
  /\ UNCHANGED <<queueVars, sends, recorded, posted, orphans, stops>>

-----------------------------------------------------------------------------
(* handle_manual_reply                                                     *)

\* Faulty variant: the ledger is not asked.
NeverOnRecord(c) == FALSE

\* _manual_reply_already_sent
OnRecord(c) == c \in recorded

\* The checks of the handler; a lead that is disqualified, or a thread of another
\* sender, fails the row.
CheckReply(o) ==
  /\ daemon[o].pc = "reply"
  /\ \/ /\ OnRecord(reply[daemon[o].row])
        /\ daemon' = [daemon EXCEPT ![o].pc = "done"]
     \/ /\ ~OnRecord(reply[daemon[o].row])
        /\ \E next \in {"send", "failed"} : daemon' = [daemon EXCEPT ![o].pc = next]
  /\ UNCHANGED <<queueVars, pendingSummaries, sends, recorded, posted, orphans, stops>>

\* send_raw_message's browser part: LinkedIn sends and the page shows it or not, or
\* nothing was sent; an exception or no proof fails the row.
SendReply(o) ==
  /\ daemon[o].pc = "send"
  /\ \E took, shown \in BOOLEAN :
       /\ shown => took
       /\ sends' = IF took THEN [sends EXCEPT ![reply[daemon[o].row]] = @ + 1] ELSE sends
       /\ daemon' = [daemon EXCEPT ![o].pc = IF shown THEN "sent" ELSE "failed"]
  /\ UNCHANGED <<queueVars, pendingSummaries, recorded, posted, orphans, stops>>

\* save_chat_message never raises: a write that fails is logged, and the row completes
\* with no reply on record.
RecordReply(o) ==
  /\ daemon[o].pc = "sent"
  /\ recorded' \in {recorded, recorded \union {reply[daemon[o].row]}}
  /\ daemon' = [daemon EXCEPT ![o].pc = "done"]
  /\ UNCHANGED <<queueVars, pendingSummaries, sends, posted, orphans, stops>>

\* Faulty variant: a row that failed is queued again.
RequeueReply(o) ==
  /\ daemon[o].pc \in {"done", "failed"}
  /\ status' = [status EXCEPT ![daemon[o].row] =
       IF daemon[o].pc = "done" THEN "completed" ELSE "pending"]
  /\ Leave(o)
  /\ UNCHANGED <<reply, cancelled, requests, pendingSummaries, sends, recorded, posted, orphans, stops>>

\* mark_completed, _safe_mark_failed.
FinishReply(o) ==
  /\ daemon[o].pc \in {"done", "failed"}
  /\ status' = [status EXCEPT ![daemon[o].row] =
       IF daemon[o].pc = "done" THEN "completed" ELSE "failed"]
  /\ Leave(o)
  /\ UNCHANGED <<reply, cancelled, requests, pendingSummaries, sends, recorded, posted, orphans, stops>>

-----------------------------------------------------------------------------
(* handle_status_summary, and heal_tasks which seeds it                    *)

PostSummary(o) ==
  /\ Goto(o, "summary", "next")
  /\ posted' = TRUE
  /\ UNCHANGED <<queueVars, pendingSummaries, sends, recorded, orphans, stops>>

\* Faulty variant: the look counts RUNNING rows, those left by a stopped daemon included.
MissingAnywhere == pendingSummaries = 0 /\ orphans = 0

\* enqueue_status_summary: no PENDING row.
SummaryMissing == pendingSummaries = 0

LookForSummary(o) ==
  /\ daemon[o].pc \in {"seed", "next"}
  /\ daemon' = [daemon EXCEPT ![o].pc =
       IF ~SummaryMissing THEN "idle" ELSE IF daemon[o].pc = "seed" THEN "seedNew" ELSE "nextNew"]
  /\ posted' = FALSE
  /\ UNCHANGED <<queueVars, pendingSummaries, sends, recorded, orphans, stops>>

InsertSummary(o) ==
  /\ daemon[o].pc \in {"seedNew", "nextNew"}
  /\ pendingSummaries' = pendingSummaries + 1
  /\ daemon' = [daemon EXCEPT ![o].pc = "idle"]
  /\ UNCHANGED <<queueVars, sends, recorded, posted, orphans, stops>>

-----------------------------------------------------------------------------
(* Stops and recovery                                                      *)

\* The process dies; a handler's finally block does not run.
Stop(o) ==
  /\ daemon[o].pc # "down" /\ stops < MaxStops
  /\ daemon' = [daemon EXCEPT ![o] = [pc |-> "down", row |-> None]]
  /\ orphans' = orphans + IF daemon[o].pc \in AtSummary THEN 1 ELSE 0
  /\ stops' = stops + 1
  /\ UNCHANGED <<queueVars, pendingSummaries, sends, recorded, posted>>

\* Faulty variant: no row is found.
NoRunning(o) == {}

\* heal_tasks: RUNNING rows owned_linkedin_by this sender.
OwnRunning(o) == {r \in Rows : status[r] = "running" /\ OwnerOf[reply[r]] = o}

\* The supervisor starts the daemon: heal_tasks, of the rows past the stale bound.
Restart(o) ==
  /\ Goto(o, "down", "seed")
  /\ \E stale \in SUBSET OwnRunning(o) :
       /\ Lingering \/ stale = OwnRunning(o)
       /\ status' = [r \in Rows |-> IF r \in stale THEN "pending" ELSE status[r]]
  /\ UNCHANGED <<reply, cancelled, requests, pendingSummaries, sends, recorded, posted, orphans, stops>>

-----------------------------------------------------------------------------
Work(o) ==
  \/ Restart(o) \/ SelectReply(o) \/ SelectSummary(o) \/ ClaimReply(o) \/ ClaimSummary(o)
  \/ CheckReply(o) \/ SendReply(o) \/ RecordReply(o) \/ FinishReply(o)
  \/ PostSummary(o) \/ LookForSummary(o) \/ InsertSummary(o)

Next ==
  \/ \E o \in Operators : Work(o) \/ Stop(o)
  \/ \E c \in Replies : LookForOpen(c) \/ Insert(c)
  \/ \E r \in Rows : Cancel(r)

Spec == Init /\ [][Next]_vars

\* Every supervisor restarts its daemon, and every daemon goes on with its loop.
FairSpec == Spec /\ \A o \in Operators : WF_vars(Work(o))

-----------------------------------------------------------------------------
(* Properties                                                              *)

\* models.py _claim_candidate: once Slack was told that a reply is cancelled and will
\* not be sent, no daemon works on its row, whatever was selected, claimed or recovered
\* meanwhile.
CancelIsFinal == \A o \in Operators : daemon[o].pc \in AtRow => daemon[o].row \notin cancelled

\* tasks/manual_reply.py: a reply on record is never sent again, by a row recovered
\* after a stop or by one that a repeated Slack submission inserted.
RecordedIsNotResent == [][\A c \in recorded : sends'[c] = sends[c]]_vars

\* tasks/manual_reply.py, models.py _claim_candidate and mark_failed, daemon.py heal_tasks:
\* LinkedIn gets a reply once for each row queued for it, and once more for each stop of
\* a daemon at the most, however claims, failures, repeated submissions, cancellations
\* and recoveries of several daemons interleave.
SendsAccounted ==
  \A c \in Replies : sends[c] <= Cardinality({r \in Rows : reply[r] = c}) + stops

\* Every queued reply is sent, failed or cancelled, also when its daemon stopped
\* while it was running, if restarts find such rows stale (heal_tasks).
ReplyIsHandled ==
  \A r \in Rows : status[r] = "pending" ~> status[r] \in {"completed", "failed", "deleted"}

\* The hourly summary goes on: a row left RUNNING by a stopped daemon is healed by
\* nobody, but no look counts it (heal_tasks, enqueue_status_summary).
SummariesGoOn == []<>posted

\* manual_reply.py: the ledger "Covers the crash window where LinkedIn accepted the
\* send but the daemon died before marking the Task completed": one row, one send.
SentOnce ==
  \A c \in Replies :
    sends[c] > 1 => Cardinality({r \in Rows : reply[r] = c /\ status[r] # "none"}) > 1
==============================================================================
