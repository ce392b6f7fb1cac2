------------------------------ MODULE PostLedger ------------------------------
(***************************************************************************)
(* The two ledgers of one sender's own LinkedIn posts: reposts.py          *)
(* (LinkedInRepost) and personal_posts.py (LinkedInPost), the one-shot     *)
(* children that execute at most one queued row each, and the supervisor   *)
(* that starts them.  The two files mirror each other; they differ in the  *)
(* claim, where only a post looks at the other ledger.                     *)
(*                                                                         *)
(* A child may stop between any two writes, and a supervisor that is       *)
(* killed leaves its child behind.  LinkedIn may act on the final click    *)
(* late (taken), or not at all.                                            *)
(***************************************************************************)
EXTENDS Naturals

CONSTANTS
  Reposts, Posts,  \* the rows of the two ledgers
  Workers,         \* child processes
  None,            \* no row
  MaxRetries,      \* MAX_REPOST_RETRIES, MAX_POST_RETRIES
  MaxStops         \* bound: children and supervisors that stop midway

ASSUME LedgerAssumption ==
  /\ Reposts \intersect Posts = {}
  /\ None \notin Reposts \union Posts
  /\ MaxRetries \in Nat
  /\ MaxStops \in Nat

VARIABLES
  status,     \* the row's status; "absent" before it is enqueued
  due,        \* its scheduled_for has come
  clicked,    \* click_attempted_at is set
  stale,      \* it is RUNNING for longer than its bound
  retries,    \* retry_count
  up,         \* the supervisor is alive
  step,       \* where each child is in run_once
  kind,       \* its ledger
  row,        \* the row it claimed
  owned,      \* it is the child this supervisor knows
  browser,    \* the daemon's browser as the child has it
  taken,      \* LinkedIn took a click for the row and has not acted yet
  published,  \* posts LinkedIn made of the row
  stops       \* stops so far

rowVars == <<status, due, clicked, stale, retries>>
workerVars == <<step, kind, row, owned, browser>>
linkedIn == <<taken, published>>
vars == <<rowVars, up, workerVars, linkedIn, stops>>

Rows == Reposts \union Posts
Kinds == {"repost", "post"}
Ledger(k) == IF k = "repost" THEN Reposts ELSE Posts
Other(k) == IF k = "repost" THEN "post" ELSE "repost"
Statuses == {"absent", "queued", "running", "sent", "failed", "uncertain", "skipped"}
\* A child past its claim, from validation to the verified permalink.
InBrowser == {"preparing", "marked", "submitted"}
Steps == InBrowser \union {"off", "sweep", "attach", "look", "pick"}

TypeOK ==
  /\ status \in [Rows -> Statuses]
  /\ due \in [Rows -> BOOLEAN]
  /\ clicked \in [Rows -> BOOLEAN]
  /\ stale \in [Rows -> BOOLEAN]
  /\ retries \in [Rows -> 0..MaxRetries]
  /\ up \in BOOLEAN
  /\ step \in [Workers -> Steps]
  /\ kind \in [Workers -> Kinds]
  /\ row \in [Workers -> Rows \union {None}]
  /\ owned \in [Workers -> BOOLEAN]
  /\ browser \in [Workers -> {"none", "open", "gone"}]
  /\ taken \in [Rows -> BOOLEAN]
  /\ published \in [Rows -> Nat]
  /\ stops \in Nat

Init ==
  /\ status = [r \in Rows |-> "absent"]
  /\ due = [r \in Rows |-> FALSE]
  /\ clicked = [r \in Rows |-> FALSE]
  /\ stale = [r \in Rows |-> FALSE]
  /\ retries = [r \in Rows |-> 0]
  /\ up = TRUE
  /\ step = [w \in Workers |-> "off"]
  /\ kind = [w \in Workers |-> "repost"]
  /\ row = [w \in Workers |-> None]
  /\ owned = [w \in Workers |-> FALSE]
  /\ browser = [w \in Workers |-> "none"]
  /\ taken = [r \in Rows |-> FALSE]
  /\ published = [r \in Rows |-> 0]
  /\ stops = 0

------------------------------------------------------------------------------
(* The commands of Social Studio's dashboard and of an operator. *)

Enqueue(r) ==
  /\ status[r] = "absent"
  /\ status' = [status EXCEPT ![r] = "queued"]
  /\ \E soon \in BOOLEAN : due' = [due EXCEPT ![r] = soon]
  /\ UNCHANGED <<clicked, stale, retries, up, workerVars, linkedIn, stops>>

\* cancel_repost, cancel_post
Cancel(r) ==
  /\ status[r] = "queued"
  /\ status' = [status EXCEPT ![r] = "skipped"]
  /\ UNCHANGED <<due, clicked, stale, retries, up, workerVars, linkedIn, stops>>

\* retry_repost, retry_post: what the guarded update selects.
Retryable(r) == status[r] = "failed" /\ ~clicked[r] /\ retries[r] < MaxRetries

Retry(r) ==
  /\ Retryable(r)
  /\ status' = [status EXCEPT ![r] = "queued"]
  /\ stale' = [stale EXCEPT ![r] = FALSE]
  /\ retries' = [retries EXCEPT ![r] = @ + 1]
  /\ UNCHANGED <<due, clicked, up, workerVars, linkedIn, stops>>

\* The dashboard moves scheduled_for of a queued row.
Postpone(r) ==
  /\ status[r] = "queued" /\ due[r]
  /\ due' = [due EXCEPT ![r] = FALSE]
  /\ UNCHANGED <<status, clicked, stale, retries, up, workerVars, linkedIn, stops>>

------------------------------------------------------------------------------
(* Time. *)

TimeComes(r) ==
  /\ status[r] = "queued" /\ ~due[r]
  /\ due' = [due EXCEPT ![r] = TRUE]
  /\ UNCHANGED <<status, clicked, stale, retries, up, workerVars, linkedIn, stops>>

\* is_stale_running compares wall-clock times; a suspended computer passes the
\* bound while its child is still alive.
GrowStale(r) ==
  /\ status[r] = "running" /\ ~stale[r]
  /\ stale' = [stale EXCEPT ![r] = TRUE]
  /\ UNCHANGED <<status, due, clicked, retries, up, workerVars, linkedIn, stops>>

------------------------------------------------------------------------------
(* The supervisor. *)

HasQueued(k) == \E r \in Ledger(k) : status[r] = "queued" /\ due[r]
Child(k) == {w \in Workers : owned[w] /\ kind[w] = k /\ step[w] # "off"}

\* Faulty variant: a child of the other ledger is not looked at.
FreeForOwn(k) == Child(k) = {}
\* No child of either ledger is alive: they share the sender's browser.
Free(k) == Child(k) = {} /\ Child(Other(k)) = {}

\* _supervise_workers starts a one-shot child when a row of its ledger is due.
StartChild(k) ==
  /\ up
  /\ Free(k)
  /\ HasQueued(k)
  /\ \E w \in Workers :
       /\ step[w] = "off"
       /\ step' = [step EXCEPT ![w] = "sweep"]
       /\ kind' = [kind EXCEPT ![w] = k]
       /\ owned' = [owned EXCEPT ![w] = TRUE]
       /\ browser' = [browser EXCEPT ![w] = "none"]
  /\ UNCHANGED <<rowVars, up, row, linkedIn, stops>>

\* The supervisor is killed; its children live on, unknown to the next one.
SupervisorDies ==
  /\ up /\ stops < MaxStops
  /\ up' = FALSE
  /\ owned' = [w \in Workers |-> FALSE]
  /\ stops' = stops + 1
  /\ UNCHANGED <<rowVars, step, kind, row, browser, linkedIn>>

\* The next one starts a daemon, whose SingleInstanceGuard ends the old daemon
\* and with it the browser a left-over child is attached to.  A left-over child
\* on its way will find the new browser: it attaches by the CDP port alone.
SupervisorStarts ==
  /\ ~up
  /\ up' = TRUE
  /\ browser' = [w \in Workers |-> IF browser[w] = "open" THEN "gone" ELSE browser[w]]
  /\ UNCHANGED <<rowVars, step, kind, row, owned, linkedIn, stops>>

------------------------------------------------------------------------------
(* One child: run_once. *)

To(w, from, to) == step[w] = from /\ step' = [step EXCEPT ![w] = to]

\* The process is gone: nothing of its memory is left.
Ended(w) ==
  /\ step' = [step EXCEPT ![w] = "off"]
  /\ row' = [row EXCEPT ![w] = None]
  /\ UNCHANGED <<kind, owned, browser>>

\* sweep_stale_running: rows with a click, or past their bound.
Interrupted(r) == clicked[r] \/ stale[r]
\* Faulty variant: an interrupted row is queued again.
SweptToQueue(r) == "queued"
SweptTo(r) == "uncertain"

Sweep(w) ==
  /\ To(w, "sweep", "attach")
  /\ status' = [r \in Rows |->
       IF r \in Ledger(kind[w]) /\ status[r] = "running" /\ Interrupted(r)
       THEN SweptTo(r) ELSE status[r]]
  /\ UNCHANGED <<due, clicked, stale, retries, up, kind, row, owned, browser, linkedIn, stops>>

\* Nothing is due any more: rows stay as they are.
NothingDue(w) ==
  /\ step[w] = "attach"
  /\ ~HasQueued(kind[w])
  /\ Ended(w)
  /\ UNCHANGED <<rowVars, up, linkedIn, stops>>

\* attached_browser over the daemon's CDP port.
Attach(w) ==
  /\ To(w, "attach", "look")
  /\ HasQueued(kind[w])
  /\ browser[w] = "none"
  /\ browser' = [browser EXCEPT ![w] = "open"]
  /\ UNCHANGED <<rowVars, up, kind, row, owned, linkedIn, stops>>

RunningIn(k) == \E r \in Ledger(k) : status[r] = "running"

\* Faulty variant: each ledger waits for the other one's RUNNING row.
BusyEither(k) == RunningIn("post") \/ RunningIn("repost")
\* The reads at the head of claim_next: they lock nothing.
Busy(k) == RunningIn(k) \/ (k = "post" /\ RunningIn("repost"))

ClaimNothing(w) ==
  /\ \/ step[w] = "look" /\ Busy(kind[w])
     \/ step[w] = "pick" /\ ~HasQueued(kind[w])
  /\ Ended(w)
  /\ UNCHANGED <<rowVars, up, linkedIn, stops>>

LookForRow(w) ==
  /\ To(w, "look", "pick")
  /\ ~Busy(kind[w])
  /\ UNCHANGED <<rowVars, up, kind, row, owned, browser, linkedIn, stops>>

\* The guarded update of claim_next; which due row is earliest is left open.
Claim(w, r) ==
  /\ To(w, "pick", "preparing")
  /\ r \in Ledger(kind[w]) /\ status[r] = "queued" /\ due[r]
  /\ status' = [status EXCEPT ![r] = "running"]
  /\ stale' = [stale EXCEPT ![r] = FALSE]
  /\ row' = [row EXCEPT ![w] = r]
  /\ UNCHANGED <<due, clicked, retries, up, kind, owned, browser, linkedIn, stops>>

\* mark_click_attempted updates only a RUNNING row without a click.
CanMarkClick(r) == status[r] = "running" /\ ~clicked[r]

MarkClick(w, r) ==
  /\ row[w] = r
  /\ To(w, "preparing", "marked")
  /\ CanMarkClick(r)
  /\ clicked' = [clicked EXCEPT ![r] = TRUE]
  /\ UNCHANGED <<status, due, stale, retries, up, kind, row, owned, browser, linkedIn, stops>>

\* The final click, which LinkedIn may take.
FinalClick(w, r) ==
  /\ row[w] = r
  /\ To(w, "marked", "submitted")
  /\ browser[w] = "open"
  /\ taken' = [taken EXCEPT ![r] = TRUE] \/ UNCHANGED taken
  /\ UNCHANGED <<rowVars, up, kind, row, owned, browser, published, stops>>

\* record_sent, with the permalink of a post that is really there.
RecordSent(w, r) ==
  /\ row[w] = r
  /\ step[w] = "submitted"
  /\ published[r] > 0
  /\ status' = IF status[r] = "running" THEN [status EXCEPT ![r] = "sent"] ELSE status
  /\ Ended(w)
  /\ UNCHANGED <<due, clicked, stale, retries, up, linkedIn, stops>>

\* Faulty variant: what counts is what the child remembers of its click.
FailureOfChild(w, r) == IF step[w] = "submitted" THEN "uncertain" ELSE "failed"
\* record_failure: the persisted click decides.
FailureStatus(w, r) == IF clicked[r] THEN "uncertain" ELSE "failed"

\* Any exception of perform or of the media, SIGTERM, or no verified permalink.
RecordFailure(w, r) ==
  /\ row[w] = r
  /\ step[w] \in InBrowser
  /\ status' = IF status[r] = "running"
               THEN [status EXCEPT ![r] = FailureStatus(w, r)] ELSE status
  /\ Ended(w)
  /\ UNCHANGED <<due, clicked, stale, retries, up, linkedIn, stops>>

\* The child ends without recording anything: the watchdog, a kill, a database
\* that is away; before its claim, a stopped sender or a browser that is not up.
ChildDies(w) ==
  /\ step[w] # "off" /\ stops < MaxStops
  /\ stops' = stops + 1
  /\ Ended(w)
  /\ UNCHANGED <<rowVars, up, linkedIn>>

------------------------------------------------------------------------------
\* LinkedIn acts on a click it took, or drops it.
Publish(r) ==
  /\ taken[r]
  /\ taken' = [taken EXCEPT ![r] = FALSE]
  /\ published' = [published EXCEPT ![r] = @ + 1] \/ UNCHANGED published
  /\ UNCHANGED <<rowVars, up, workerVars, stops>>

------------------------------------------------------------------------------
Commands(r) == Enqueue(r) \/ Cancel(r) \/ Retry(r) \/ Postpone(r)

Run(w) ==
  \/ Sweep(w) \/ NothingDue(w) \/ Attach(w) \/ ClaimNothing(w) \/ LookForRow(w)
  \/ \E r \in Rows :
       Claim(w, r) \/ MarkClick(w, r) \/ FinalClick(w, r) \/ RecordSent(w, r)
       \/ RecordFailure(w, r)

Next ==
  \/ \E r \in Rows : Commands(r) \/ TimeComes(r) \/ GrowStale(r) \/ Publish(r)
  \/ \E k \in Kinds : StartChild(k)
  \/ \E w \in Workers : Run(w) \/ ChildDies(w)
  \/ SupervisorDies \/ SupervisorStarts

Spec == Init /\ [][Next]_vars

\* The machine restarts its supervisor, which comes to each ledger again and
\* again; a child ends (its watchdog sees to it); a bound passes.  Nothing is
\* assumed of LinkedIn, of the dashboard, or of failures.
FairSpec ==
  /\ Spec
  /\ WF_vars(SupervisorStarts)
  /\ \A k \in Kinds : SF_vars(StartChild(k))
  /\ \A w \in Workers : WF_vars(Run(w))
  /\ \A r \in Rows : WF_vars(GrowStale(r))

------------------------------------------------------------------------------
(* Properties. *)

\* docs/linkedin-posts.md, Statuses: failed means LinkedIn was not changed.  No
\* row that may still be run, or is reported as not posted, stands for a click.
Untouched == {"absent", "queued", "failed", "skipped"}
UntouchedMeansNoClick ==
  \A r \in Rows :
    status[r] \in Untouched => ~clicked[r] /\ ~taken[r] /\ published[r] = 0

Driving(w) == browser[w] = "open" /\ step[w] \in InBrowser

\* daemon_supervisor.py:835, of the children a supervisor starts: "A post child and
\* a repost child never drive this sender's browser together."
NeverTogether ==
  \A v, w \in Workers : Driving(v) /\ Driving(w) => kind[v] = kind[w]

\* daemon_supervisor.py _supervise_workers and claim_next: when two children drive
\* the browser at once, one of them was left behind by a supervisor that is gone,
\* and they are never at the same row, however rows are swept, retried and claimed.
DriversApart ==
  \A v, w \in Workers :
    v # w /\ Driving(v) /\ Driving(w) =>
      /\ ~owned[v] \/ ~owned[w]
      /\ row[v] # row[w]

\* reposts.py run_once: a due repost is run (or cancelled, or moved), whatever
\* an earlier child left behind.
RepostsMove ==
  \A r \in Reposts :
    status[r] = "queued" /\ due[r] ~> status[r] # "queued" \/ ~due[r]

\* personal_posts.py _repost_running reads a RUNNING repost as "driving the same
\* browser right now": a due post waits for that, and is run afterwards.
PostsMove ==
  \A r \in Posts :
    status[r] = "queued" /\ due[r] ~> status[r] # "queued" \/ ~due[r]

\* The ledgers keep the promise of every outbound lane.
Phase(s, marked) ==
  CASE s \in {"absent", "queued", "failed"} -> "unsent"
    [] s = "running" -> IF marked THEN "inFlight" ELSE "unsent"
    [] s \in {"sent", "uncertain"} -> "closed"
    [] s = "skipped" -> "withheld"

Promise == INSTANCE AtMostOnce WITH
  Items <- Rows,
  phase <- [r \in Rows |-> Phase(status[r], clicked[r])],
  delivered <- published

\* One row is posted at most once: a row with a click is never run again, and an
\* interrupted one is closed for good.
PromiseKept == Promise!Spec
==============================================================================
