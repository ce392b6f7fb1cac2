----------------------------- MODULE CallbackOutbox -----------------------------
(***************************************************************************)
(* The completion notices of campaign enrolments: campaign_callbacks.py.   *)
(* A reconciler freezes the outcome of a completed enrolment once; HTTPS   *)
(* rows are leased, posted outside any transaction and settled in a second *)
(* one; rows with an empty callback_url are exported and acknowledged by a *)
(* local integration.  The callback thread of a daemon, a second daemon of *)
(* the operator and the campaign_enrollments command are Workers: each may *)
(* stop between any two transactions.                                      *)
(*                                                                         *)
(* One unit of the clock is one minute, the first back-off.                *)
(***************************************************************************)
EXTENDS Naturals, FiniteSets

CONSTANTS
  Rows,        \* CampaignSubmission rows, by primary key
  Workers,     \* processes that run reconcile
  Exporters,   \* those that run it for local_outcomes; the others run deliver
  Limit,       \* limit=50 of reconcile and deliver
  Lease,       \* the crash-safe lease, 5 minutes
  BackoffCap,  \* the longest back-off, 60 minutes
  Window,      \* deliveries stop this long after the freeze, 48 hours
  BatchTime,   \* the longest a deliver takes: limit times the request's timeout
  MaxClock,    \* bound: the clock
  MaxChanges,  \* bound: times the outcome of a row changes
  MaxCrashes   \* bound: workers stopped between two transactions

ASSUME OutboxAssumption ==
  /\ Rows \subseteq Nat \ {0} /\ Exporters \subseteq Workers
  /\ {Limit, Lease, BackoffCap, Window} \subseteq Nat \ {0}
  /\ MaxClock \in Nat \ {0} /\ {BatchTime, MaxChanges, MaxCrashes} \subseteq Nat

VARIABLES
  local,      \* the rows submitted with callback_url ""
  outcome,    \* what campaign_integrations.status answers for the row
  changes,    \* how often it changed
  payload,    \* callback_payload's outcome; "none" while callback_ready_at is NULL
  readyAt, attempts, nextAt, deliveredAt, abandonedAt,  \* 0 is NULL
  exported,   \* local rows the integration was given
  worker,     \* what each worker holds in memory
  clock, crashes

rowVars == <<payload, readyAt, attempts, nextAt, deliveredAt, abandonedAt>>
vars == <<local, outcome, changes, rowVars, exported, worker, clock, crashes>>

Outcomes == {"enrolled", "sent", "uncertain", "failed", "held"}
Idle == [pc |-> "idle", todo |-> {}, now |-> 0, row |-> 0, attempt |-> 0]

LesserOf(a, b) == IF a < b THEN a ELSE b
GreaterOf(a, b) == IF a > b THEN a ELSE b
First(S) == CHOOSE r \in S : \A q \in S : r <= q
\* order_by("pk")[:limit]
FirstRows(S) == {r \in S : Cardinality({q \in S : q < r}) < Limit}

TypeOK ==
  /\ outcome \in [Rows -> Outcomes]
  /\ changes \in [Rows -> 0..MaxChanges]
  /\ payload \in [Rows -> Outcomes \union {"none"}]
  /\ \A r \in Rows : payload[r] # "enrolled" /\ (payload[r] = "none" <=> readyAt[r] = 0)
  /\ readyAt \in [Rows -> 0..MaxClock]
  /\ attempts \in [Rows -> Nat]
  /\ nextAt \in [Rows -> 0..(MaxClock + GreaterOf(Lease, BackoffCap))]
  /\ deliveredAt \in [Rows -> 0..MaxClock]
  /\ abandonedAt \in [Rows -> 0..MaxClock]
  /\ local \subseteq Rows /\ exported \subseteq local
  /\ worker \in [Workers -> [pc : {"idle", "freeze", "send", "post"},
                             todo : SUBSET Rows, now : 0..MaxClock,
                             row : Rows \union {0}, attempt : Nat]]
  /\ clock \in 1..MaxClock
  /\ crashes \in 0..MaxCrashes

Init ==
  /\ local \in SUBSET Rows
  /\ outcome = [r \in Rows |-> "enrolled"]
  /\ changes = [r \in Rows |-> 0]
  /\ payload = [r \in Rows |-> "none"]
  /\ readyAt = [r \in Rows |-> 0]
  /\ attempts = [r \in Rows |-> 0]
  /\ nextAt = [r \in Rows |-> 0]
  /\ deliveredAt = [r \in Rows |-> 0]
  /\ abandonedAt = [r \in Rows |-> 0]
  /\ exported = {}
  /\ worker = [w \in Workers |-> Idle]
  /\ clock = 1
  /\ crashes = 0

-----------------------------------------------------------------------------
(* The campaign, as far as a receipt shows it (module ConnectLane).        *)

\* A closed Deal may still turn out sent or unclear (its click was under way), or
\* open again (the lane writes its state over FAILED); a held one may be closed.
NextOutcomes(o) == CASE o = "enrolled" -> {"sent", "uncertain", "failed", "held"}
              [] o = "failed" -> {"sent", "uncertain", "enrolled"}
              [] o = "held" -> {"failed"}
              [] OTHER -> {}

OutcomeChanges(r) ==
  /\ changes[r] < MaxChanges
  /\ \E o \in NextOutcomes(outcome[r]) : outcome' = [outcome EXCEPT ![r] = o]
  /\ changes' = [changes EXCEPT ![r] = @ + 1]
  /\ UNCHANGED <<local, rowVars, exported, worker, clock, crashes>>

-----------------------------------------------------------------------------
(* reconcile                                                               *)

\* The SQL filter: a terminal receipt, a failed or closed Deal, an invitation.
Completed(r) == outcome[r] # "enrolled"

\* Faulty variant: nobody reconciles the local rows.
CandidatesRemote(w) == {r \in Rows : payload[r] = "none" /\ r \notin local}

Candidates(w) == {r \in Rows : payload[r] = "none" /\ (w \in Exporters \/ r \notin local)}

StartReconcile(w) ==
  /\ worker[w].pc = "idle"
  /\ worker' = [worker EXCEPT ![w].pc = "freeze",
       ![w].todo = FirstRows({r \in Candidates(w) : Completed(r)})]
  /\ UNCHANGED <<local, outcome, changes, rowVars, exported, clock, crashes>>

\* Faulty variant: the row is not read again under its lock.
FreezableUnlocked(r) == outcome[r] # "enrolled"

\* row.callback_ready_at or result["status"] == "enrolled": continue
Freezable(r) == payload[r] = "none" /\ outcome[r] # "enrolled"

Freeze(w) ==
  /\ worker[w].pc = "freeze" /\ worker[w].todo # {}
  /\ LET r == First(worker[w].todo) IN
     /\ worker' = [worker EXCEPT ![w].todo = @ \ {r}]
     /\ IF Freezable(r)
          THEN /\ payload' = [payload EXCEPT ![r] = outcome[r]]
               /\ readyAt' = [readyAt EXCEPT ![r] = clock]
          ELSE UNCHANGED <<payload, readyAt>>
  /\ UNCHANGED <<local, outcome, changes, attempts, nextAt, deliveredAt, abandonedAt,
                 exported, clock, crashes>>

-----------------------------------------------------------------------------
(* deliver                                                                 *)

Waiting(r, now) == /\ payload[r] # "none" /\ deliveredAt[r] = 0 /\ abandonedAt[r] = 0
                   /\ nextAt[r] <= now

StartDeliver(w) ==
  /\ worker[w].pc = "freeze" /\ worker[w].todo = {} /\ w \notin Exporters
  /\ LET due == FirstRows({r \in Rows \ local : Waiting(r, clock)}) IN
     worker' = [worker EXCEPT ![w] =
       IF due = {} THEN Idle
       ELSE [Idle EXCEPT !.pc = "send", !.todo = due, !.now = clock]]
  /\ UNCHANGED <<local, outcome, changes, rowVars, exported, clock, crashes>>

\* worker[w] once the row it took is done.
Done(w) == IF worker[w].todo = {} THEN Idle
           ELSE [worker[w] EXCEPT !.pc = "send", !.row = 0, !.attempt = 0]

\* Faulty variant: a lease that only its holder ends.
LeaseForGood(now) == MaxClock + Lease

LeaseUntil(now) == now + Lease

\* Faulty variant: the row is not read again under its lock.
TakeableUnlocked(r, now) == TRUE

\* The first transaction's re-check; now is that of the batch, not of the row.
Takeable(r, now) == Waiting(r, now)

Expired(r, now) == now >= readyAt[r] + Window

TakeRow(w) ==
  /\ worker[w].pc = "send"
  /\ worker[w].todo # {}
  /\ LET r == First(worker[w].todo)
         now == worker[w].now
         rest == [worker[w] EXCEPT !.todo = @ \ {r}]
         skipped == IF rest.todo = {} THEN Idle ELSE rest IN
     \/ /\ ~Takeable(r, now)
        /\ worker' = [worker EXCEPT ![w] = skipped]
        /\ UNCHANGED <<attempts, nextAt, abandonedAt>>
     \/ /\ Takeable(r, now) /\ Expired(r, now)
        /\ abandonedAt' = [abandonedAt EXCEPT ![r] = now]
        /\ worker' = [worker EXCEPT ![w] = skipped]
        /\ UNCHANGED <<attempts, nextAt>>
     \/ /\ Takeable(r, now) /\ ~Expired(r, now)
        /\ attempts' = [attempts EXCEPT ![r] = @ + 1]
        /\ nextAt' = [nextAt EXCEPT ![r] = LeaseUntil(now)]
        /\ worker' = [worker EXCEPT ![w] =
             [rest EXCEPT !.pc = "post", !.row = r, !.attempt = attempts[r] + 1]]
        /\ UNCHANGED abandonedAt
  /\ UNCHANGED <<local, outcome, changes, payload, readyAt, deliveredAt, exported,
                 clock, crashes>>

\* min(3600, 30 * 2 ** min(attempt, 7)) seconds, in minutes.
Backoff(n) == LesserOf(BackoffCap, 2 ^ (LesserOf(n, 7) - 1))

\* Faulty variant: any answer counts, whatever became of the row.
AnyAnswer(w) == TRUE

\* Faulty variant: an answer counts after its lease went to another attempt.
AnswerOfAnyAttempt(w) == deliveredAt[worker[w].row] = 0

\* row.callback_attempts != attempt or row.callback_delivered_at: continue
AnswerCounts(w) == attempts[worker[w].row] = worker[w].attempt
                   /\ deliveredAt[worker[w].row] = 0

\* The receiver takes the event or not, and its answer may be lost: ok is an answer in
\* 200..299 that arrived.
PostAndRecord(w) ==
  /\ worker[w].pc = "post"
  /\ LET r == worker[w].row IN
     IF AnswerCounts(w)
       THEN \E ok \in BOOLEAN :
              /\ deliveredAt' = [deliveredAt EXCEPT ![r] = IF ok THEN clock ELSE 0]
              /\ nextAt' = [nextAt EXCEPT ![r] =
                   IF ok THEN 0 ELSE clock + Backoff(worker[w].attempt)]
       ELSE UNCHANGED <<deliveredAt, nextAt>>
  /\ worker' = [worker EXCEPT ![w] = Done(w)]
  /\ UNCHANGED <<local, outcome, changes, payload, readyAt, attempts, abandonedAt,
                 exported, clock, crashes>>

-----------------------------------------------------------------------------
(* The local transport                                                     *)

\* Frozen and not acknowledged: handed over, again if asked.
Exportable(r) == payload[r] # "none" /\ deliveredAt[r] = 0

Export(w) ==
  /\ worker[w].pc = "freeze" /\ worker[w].todo = {} /\ w \in Exporters
  /\ exported' = exported \union FirstRows({r \in local : Exportable(r)})
  /\ worker' = [worker EXCEPT ![w] = Idle]
  /\ UNCHANGED <<local, outcome, changes, rowVars, clock, crashes>>

\* acknowledge_local_outcomes: every receipt names an event, or none is recorded.
Acknowledge(S) ==
  /\ S # {} /\ S \subseteq exported /\ Cardinality(S) <= Limit
  /\ deliveredAt' = [r \in Rows |-> IF r \in S /\ deliveredAt[r] = 0
                                      THEN clock ELSE deliveredAt[r]]
  /\ UNCHANGED <<local, outcome, changes, payload, readyAt, attempts, nextAt, abandonedAt,
                 exported, worker, clock, crashes>>

-----------------------------------------------------------------------------
(* Time and stops                                                          *)

Tick ==
  /\ clock < MaxClock
  /\ \A w \in Workers :
       worker[w].pc \in {"send", "post"} => clock < worker[w].now + BatchTime
  /\ clock' = clock + 1
  /\ UNCHANGED <<local, outcome, changes, rowVars, exported, worker, crashes>>

\* The process stops, or the cycle raises: the next cycle starts from the database.
Crash(w) ==
  /\ worker[w].pc # "idle" /\ crashes < MaxCrashes
  /\ worker' = [worker EXCEPT ![w] = Idle]
  /\ crashes' = crashes + 1
  /\ UNCHANGED <<local, outcome, changes, rowVars, exported, clock>>

\* CampaignCallbackWorker.run: reconcile, deliver, wait 15 seconds.
Cycle(w) == StartReconcile(w) \/ Freeze(w) \/ StartDeliver(w) \/ TakeRow(w)
            \/ PostAndRecord(w) \/ Export(w)

Next ==
  \/ \E r \in Rows : OutcomeChanges(r)
  \/ \E w \in Workers : Cycle(w) \/ Crash(w)
  \/ \E S \in SUBSET Rows : Acknowledge(S)
  \/ Tick

Spec == Init /\ [][Next]_vars

\* A worker's thread goes on with what it started and starts again; time passes;
\* an integration acknowledges what it was given.
FairSpec == /\ Spec
            /\ \A w \in Workers : WF_vars(Cycle(w))
            /\ WF_vars(Tick)
            /\ \A r \in Rows : WF_vars(Acknowledge({r}))

-----------------------------------------------------------------------------
(* Properties                                                              *)

\* Two reconcilers listing the same row never freeze it twice, although its outcome
\* may change between them: an event body is stable (reconcile).
FrozenOnce == [][\A r \in Rows : payload[r] # "none" =>
                    payload'[r] = payload[r] /\ readyAt'[r] = readyAt[r]]_vars

\* Two workers never post one row both inside their leases, by the real clock: a lease
\* is taken at the batch's time, which may be minutes old, and the late failure of an
\* attempt whose lease ended never shortens the next one's (deliver).
UnderLease(w, r) == /\ worker[w].pc = "post" /\ worker[w].row = r
                    /\ clock < worker[w].now + Lease
LeaseExclusive == \A v, w \in Workers : \A r \in Rows :
                    v # w => ~(UnderLease(v, r) /\ UnderLease(w, r))

\* The late failure of a slow attempt never makes a delivered row undelivered again
\* (deliver), nor does a second acknowledgement move it (acknowledge_local_outcomes).
DeliveryStands ==
  [][\A r \in Rows : deliveredAt[r] # 0 => deliveredAt'[r] = deliveredAt[r]]_vars

\* No attempt begins on a row that another worker delivered or gave up since this one
\* listed it (deliver).
SettledIsNotPosted ==
  [][\A w \in Workers : worker[w].pc = "send" /\ worker'[w].pc = "post" =>
       LET r == worker'[w].row IN deliveredAt[r] = 0 /\ abandonedAt[r] = 0]_vars

\* Every HTTPS row completed early enough for the clock's bound is delivered or abandoned
\* (or the campaign is open again), whatever its receiver answers and wherever a worker
\* stopped: a lease never outlives its worker (reconcile, deliver).
InTime(t) == t + Window + GreaterOf(BatchTime + BackoffCap, Lease) <= MaxClock + 1
CompletedIsSettled ==
  \A r \in Rows :
    /\ r \notin local /\ outcome[r] # "enrolled"
    /\ InTime(clock)
    ~> \/ deliveredAt[r] # 0 \/ abandonedAt[r] # 0
       \/ outcome[r] = "enrolled"
       \/ ~InTime(readyAt[r])

\* Every completed local enrolment is handed over, whichever process froze it and
\* wherever that one stopped (reconcile, local_outcomes).
LocalIsExported ==
  \A r \in Rows :
    r \in local /\ outcome[r] # "enrolled" ~> r \in exported \/ outcome[r] = "enrolled"

\* "Callback delivery is at least once": an event given up was posted at least once.
AbandonedWasTried == \A r \in Rows : abandonedAt[r] # 0 => attempts[r] > 0
==============================================================================
