-------------------------- MODULE CallbackOutboxProofs --------------------------
(***************************************************************************)
(* The delivery of the frozen events, for every number of rows, workers    *)
(* and ticks: an event body and a delivery never change, no attempt begins *)
(* on a settled row, and two attempts of one row are never both inside     *)
(* their leases.                                                           *)
(***************************************************************************)
EXTENDS CallbackOutbox, WellFoundedInduction, TLAPS

Posting(w, r) == worker[w].pc = "post" /\ worker[w].row = r

\* A batch reads the clock once, so its time may be old but is never ahead.
Timed == \A w \in Workers : worker[w].pc \in {"send", "post"} => worker[w].now <= clock

\* A post is under way on a row and carries the number of its attempt.
Numbered == \A w \in Workers : worker[w].pc = "post" =>
  worker[w].row \in Rows /\ worker[w].attempt \in 1..attempts[worker[w].row]

\* The newest attempt of a row holds its lease; that of any earlier one is over.
Leased == \A w \in Workers, r \in Rows : Posting(w, r) =>
  /\ worker[w].attempt = attempts[r] => nextAt[r] = worker[w].now + Lease
  /\ worker[w].attempt < attempts[r] => worker[w].now + Lease <= clock

\* No two posts carry one attempt.
Unique == \A v, w \in Workers, r \in Rows :
  Posting(v, r) /\ Posting(w, r) /\ worker[v].attempt = worker[w].attempt => v = w

IInv == TypeOK /\ Timed /\ Numbered /\ Leased /\ Unique

-----------------------------------------------------------------------------
(* Operators                                                               *)

\* order_by("pk") has a first row.
LEMMA FirstIsMember ==
  ASSUME NEW S \in SUBSET Rows, S # {}
  PROVE  First(S) \in S
<1> DEFINE Less == OpToRel(<, Nat)
<1>1. S \subseteq Nat
  BY OutboxAssumption DEF OutboxAssumption
<1>2. IsWellFoundedOn(Less, Nat)
  BY NatLessThanWellFounded
<1>3. \A x, y \in Nat : x < y => <<x, y>> \in Less
  BY DEF OpToRel
<1> HIDE DEF Less
<1>4. PICK r \in S : \A q \in S : ~(<<q, r>> \in Less)
  BY <1>1, <1>2, WFMin
<1>5. \A q \in S : ~(q < r)
  BY <1>1, <1>3, <1>4
<1>6. \A q \in S : r <= q
  BY <1>1, <1>5
<1> QED BY <1>6 DEF First

\* A worker with nothing at hand.
WorkerType == [pc : {"idle", "freeze", "send", "post"}, todo : SUBSET Rows, now : 0..MaxClock,
               row : Rows \union {0}, attempt : Nat]

LEMMA IdleTyped == Idle \in WorkerType
  BY OutboxAssumption DEF OutboxAssumption, Idle, WorkerType

\* The back-off is a time, and never longer than its cap.
LEMMA BackoffIsBounded ==
  ASSUME NEW n \in Nat \ {0}
  PROVE  Backoff(n) \in 0..BackoffCap
<1>1. LesserOf(n, 7) - 1 \in 0..6
  BY DEF LesserOf
<1>2. 2^0 \in Nat /\ 2^1 \in Nat /\ 2^2 \in Nat /\ 2^3 \in Nat /\ 2^4 \in Nat /\ 2^5 \in Nat /\ 2^6 \in Nat
  OBVIOUS
<1>3. PICK k \in {0, 1, 2, 3, 4, 5, 6} : LesserOf(n, 7) - 1 = k
  BY <1>1
<1>4. 2^k \in Nat
  BY <1>2
<1>5. Backoff(n) = LesserOf(BackoffCap, 2^k)
  BY <1>3 DEF Backoff
<1>6. BackoffCap \in Nat
  BY OutboxAssumption DEF OutboxAssumption
<1> QED BY <1>4, <1>5, <1>6 DEF LesserOf

-----------------------------------------------------------------------------
(* The invariant                                                           *)

\* The initial states.
LEMMA InitIInv == Init => IInv
  BY OutboxAssumption DEF OutboxAssumption, Init, IInv, TypeOK, Timed, Numbered, Leased,
     Unique, Posting, Idle, Outcomes, GreaterOf

\* The reconcilers: rows are listed and frozen, no post is touched.
LEMMA ReconcileIInv ==
  ASSUME IInv, NEW w \in Workers, StartReconcile(w) \/ Freeze(w) \/ Export(w)
  PROVE  IInv'
<1> USE DEF IInv, TypeOK
<1>1. CASE StartReconcile(w)
  <2>1. FirstRows({r \in Candidates(w) : Completed(r)}) \subseteq Rows
    BY DEF FirstRows, Candidates
  <2>2. TypeOK'
    <3> DEFINE todo == FirstRows({r \in Candidates(w) : Completed(r)})
    <3>1. [worker[w] EXCEPT !.pc = "freeze", !.todo = todo] \in WorkerType
      <4>1. worker[w] \in WorkerType /\ todo \in SUBSET Rows
        BY <2>1 DEF WorkerType
      <4> HIDE DEF todo
      <4> QED BY <4>1 DEF WorkerType
    <3> HIDE DEF todo
    <3>2. worker' \in [Workers -> WorkerType]
      <4>1. worker' = [worker EXCEPT ![w] = [@ EXCEPT !.pc = "freeze", !.todo = todo]]
        BY <1>1 DEF StartReconcile, todo
      <4> QED BY <3>1, <4>1 DEF WorkerType
    <3> QED BY <1>1, <3>2 DEF StartReconcile, rowVars, WorkerType
  <2>3. (Timed /\ Numbered /\ Leased /\ Unique)'
    BY <1>1 DEF StartReconcile, rowVars, Timed, Numbered, Leased, Unique, Posting
  <2> QED BY <2>2, <2>3
<1>2. CASE Freeze(w)
  <2>1. PICK r \in Rows : r = First(worker[w].todo)
    BY <1>2, FirstIsMember DEF Freeze
  <2>2. TypeOK'
    <3>1. payload' \in [Rows -> Outcomes \union {"none"}] /\ readyAt' \in [Rows -> 0..MaxClock]
      BY <1>2, <2>1 DEF Freeze
    <3>2. \A q \in Rows : payload'[q] # "enrolled" /\ (payload'[q] = "none" <=> readyAt'[q] = 0)
      BY <1>2, <2>1 DEF Freeze, Freezable, Outcomes
    <3>3. worker' \in [Workers -> [pc : {"idle", "freeze", "send", "post"},
                             todo : SUBSET Rows, now : 0..MaxClock,
                             row : Rows \union {0}, attempt : Nat]]
      BY <1>2 DEF Freeze
    <3> QED BY <1>2, <3>1, <3>2, <3>3 DEF Freeze
  <2>3. (Timed /\ Numbered /\ Leased /\ Unique)'
    BY <1>2 DEF Freeze, Timed, Numbered, Leased, Unique, Posting
  <2> QED BY <2>2, <2>3
<1>3. CASE Export(w)
  <2>1. FirstRows({r \in local : Exportable(r)}) \subseteq local
    BY DEF FirstRows
  <2>2. worker' \in [Workers -> WorkerType]
    BY <1>3, IdleTyped DEF Export, WorkerType
  <2>4. TypeOK'
    BY <1>3, <2>1, <2>2 DEF Export, rowVars, WorkerType
  <2>3. (Timed /\ Numbered /\ Leased /\ Unique)'
    BY <1>3 DEF Export, rowVars, Idle, Timed, Numbered, Leased, Unique, Posting
  <2> QED BY <2>4, <2>3
<1> QED BY <1>1, <1>2, <1>3

\* A batch begins: its time is the clock's.
LEMMA StartDeliverIInv ==
  ASSUME IInv, NEW w \in Workers, StartDeliver(w)
  PROVE  IInv'
<1> USE DEF IInv, TypeOK
<1>1. FirstRows({r \in Rows \ local : Waiting(r, clock)}) \subseteq Rows
  BY DEF FirstRows
<1>2. TypeOK'
  <2> DEFINE due == FirstRows({r \in Rows \ local : Waiting(r, clock)})
  <2>1. [Idle EXCEPT !.pc = "send", !.todo = due, !.now = clock] \in WorkerType
    <3>1. due \in SUBSET Rows /\ clock \in 0..MaxClock
      BY <1>1
    <3> HIDE DEF due
    <3> QED BY <3>1, OutboxAssumption DEF OutboxAssumption, Idle, WorkerType
  <2> HIDE DEF due
  <2>2. worker' \in [Workers -> WorkerType]
    BY <2>1, IdleTyped DEF StartDeliver, due, WorkerType
  <2> QED BY <2>2 DEF StartDeliver, rowVars, WorkerType
<1>3. (Timed /\ Numbered /\ Leased /\ Unique)'
  BY OutboxAssumption DEF OutboxAssumption, StartDeliver, rowVars, Idle, Timed, Numbered,
     Leased, Unique, Posting
<1> QED BY <1>2, <1>3

\* What is left of a batch without the row it looks at.
Rest(w, r) == [worker[w] EXCEPT !.todo = @ \ {r}]

\* The row is skipped, or given up.
Skips(w, r) ==
  /\ worker' = [worker EXCEPT ![w] = IF Rest(w, r).todo = {} THEN Idle ELSE Rest(w, r)]
  /\ UNCHANGED <<attempts, nextAt>>
  /\ abandonedAt' \in {abandonedAt, [abandonedAt EXCEPT ![r] = worker[w].now]}

\* A new attempt takes its lease.
Takes(w, r) ==
  /\ Takeable(r, worker[w].now)
  /\ attempts' = [attempts EXCEPT ![r] = @ + 1]
  /\ nextAt' = [nextAt EXCEPT ![r] = worker[w].now + Lease]
  /\ worker' = [worker EXCEPT ![w] =
       [Rest(w, r) EXCEPT !.pc = "post", !.row = r, !.attempt = attempts[r] + 1]]
  /\ UNCHANGED abandonedAt

\* The first transaction does one of the two on the first row of the batch.
LEMMA TakeRowCases ==
  ASSUME IInv, NEW w \in Workers, TakeRow(w)
  PROVE  \E r \in Rows : Skips(w, r) \/ Takes(w, r)
<1>1. PICK r \in Rows : r = First(worker[w].todo)
  BY FirstIsMember DEF TakeRow, IInv, TypeOK
<1>2. Skips(w, r) \/ Takes(w, r)
  BY <1>1 DEF TakeRow, Skips, Takes, Rest, LeaseUntil
<1> QED BY <1>2

\* A row is taken only when every earlier lease on it is over at the batch's time.
LEMMA TakeRowIInv ==
  ASSUME IInv, NEW w \in Workers, TakeRow(w)
  PROVE  IInv'
<1> USE DEF IInv, TypeOK
<1>1. PICK r \in Rows : Skips(w, r) \/ Takes(w, r)
  BY TakeRowCases
<1>2. Lease \in Nat /\ MaxClock \in Nat /\ Lease <= GreaterOf(Lease, BackoffCap)
      /\ GreaterOf(Lease, BackoffCap) \in Nat
  BY OutboxAssumption DEF OutboxAssumption, GreaterOf
<1>3. worker[w].pc = "send" /\ worker[w].now <= clock /\ worker[w].now \in 0..MaxClock
      /\ worker[w] \in WorkerType
  BY DEF TakeRow, Timed, WorkerType
<1>4. Rest(w, r) \in WorkerType /\ Rest(w, r).pc = "send" /\ Rest(w, r).now = worker[w].now
  BY <1>3 DEF Rest, WorkerType
<1>5. CASE Skips(w, r)
  <2>1. worker' \in [Workers -> WorkerType]
    BY <1>4, <1>5, IdleTyped DEF Skips, WorkerType
  <2>2. abandonedAt' \in [Rows -> 0..MaxClock]
    BY <1>3, <1>5 DEF Skips
  <2>3. TypeOK'
    BY <1>5, <2>1, <2>2 DEF TakeRow, Skips, WorkerType
  <2>4. (Timed /\ Numbered /\ Leased /\ Unique)'
    <3>1. worker'[w].pc \in {"idle", "send"} /\ (worker'[w].pc = "send" => worker'[w].now <= clock)
      BY <1>3, <1>4, <1>5 DEF Skips, Idle
    <3>2. \A v \in Workers \ {w} : worker'[v] = worker[v]
      BY <1>5 DEF Skips
    <3>3. UNCHANGED <<clock, attempts, nextAt>>
      BY <1>5 DEF TakeRow, Skips
    <3>4. Timed'
      BY <3>1, <3>2, <3>3 DEF Timed
    <3>5. \A v \in Workers : worker'[v].pc = "post" => v # w /\ worker'[v] = worker[v]
      BY <3>1, <3>2
    <3>6. (Numbered /\ Leased /\ Unique)'
      BY <3>3, <3>5 DEF Numbered, Leased, Unique, Posting
    <3> QED BY <3>4, <3>6
  <2> QED BY <2>3, <2>4
<1>6. CASE Takes(w, r)
  <2>1. TypeOK'
    <3>1. worker[w].now + Lease \in 0..(MaxClock + GreaterOf(Lease, BackoffCap))
      BY <1>2, <1>3
    <3>2. nextAt' \in [Rows -> 0..(MaxClock + GreaterOf(Lease, BackoffCap))]
      BY <1>6, <3>1 DEF Takes
    <3>3. attempts' \in [Rows -> Nat]
      BY <1>6 DEF Takes
    <3>4. [Rest(w, r) EXCEPT !.pc = "post", !.row = r, !.attempt = attempts[r] + 1] \in WorkerType
      <4>1. PICK k \in Nat : k = attempts[r] + 1
        OBVIOUS
      <4>2. PICK x \in WorkerType : x = Rest(w, r)
        BY <1>4
      <4>3. [x EXCEPT !.pc = "post", !.row = r, !.attempt = k] \in WorkerType
        BY DEF WorkerType
      <4> QED BY <4>1, <4>2, <4>3
    <3>5. worker' \in [Workers -> WorkerType]
      BY <1>6, <3>4 DEF Takes, WorkerType
    <3> QED BY <1>6, <3>2, <3>3, <3>5 DEF TakeRow, Takes, WorkerType
  <2>2. /\ attempts'[r] = attempts[r] + 1 /\ nextAt'[r] = worker[w].now + Lease
        /\ \A q \in Rows : q # r => attempts'[q] = attempts[q] /\ nextAt'[q] = nextAt[q]
        /\ \A v \in Workers : v # w => worker'[v] = worker[v]
        /\ worker'[w].pc = "post" /\ worker'[w].row = r /\ worker'[w].now = worker[w].now
        /\ worker'[w].attempt = attempts[r] + 1
    BY <1>4, <1>6 DEF Takes, WorkerType
  <2>3. nextAt[r] <= worker[w].now /\ clock' = clock
    BY <1>6 DEF Takes, Takeable, Waiting, TakeRow
  <2>4. Timed' /\ Numbered'
    BY <1>3, <2>2, <2>3 DEF Timed, Numbered
  <2>5. Leased'
    BY <1>2, <1>3, <2>2, <2>3 DEF Timed, Numbered, Leased, Posting
  <2>6. Unique'
    BY <2>2 DEF Numbered, Unique, Posting
  <2> QED BY <2>1, <2>4, <2>5, <2>6
<1> QED BY <1>1, <1>5, <1>6

\* A late answer changes nothing; that of the newest attempt ends its own lease.
LEMMA PostAndRecordIInv ==
  ASSUME IInv, NEW w \in Workers, PostAndRecord(w)
  PROVE  IInv'
<1> USE DEF IInv, TypeOK
<1>1. PICK r \in Rows : r = worker[w].row /\ worker[w].pc = "post"
                        /\ worker[w].attempt \in Nat \ {0}
  BY DEF PostAndRecord, Numbered
<1>2. Backoff(worker[w].attempt) \in 0..BackoffCap
  BY <1>1, BackoffIsBounded
<1>3. GreaterOf(Lease, BackoffCap) \in Nat /\ BackoffCap <= GreaterOf(Lease, BackoffCap)
      /\ BackoffCap \in Nat /\ Lease \in Nat
  BY OutboxAssumption DEF OutboxAssumption, GreaterOf
<1>4. /\ deliveredAt' \in {deliveredAt, [deliveredAt EXCEPT ![r] = clock], [deliveredAt EXCEPT ![r] = 0]}
      /\ nextAt' \in {nextAt, [nextAt EXCEPT ![r] = 0],
                      [nextAt EXCEPT ![r] = clock + Backoff(worker[w].attempt)]}
  BY <1>1 DEF PostAndRecord
<1>5. /\ worker' = [worker EXCEPT ![w] = Done(w)] /\ Done(w) \in WorkerType
      /\ Done(w).pc \in {"idle", "send"} /\ (Done(w).pc = "send" => Done(w).now = worker[w].now)
  <2>1. CASE worker[w].todo = {}
    BY <2>1, IdleTyped DEF PostAndRecord, Done, Idle
  <2>2. CASE worker[w].todo # {}
    BY <2>2 DEF PostAndRecord, Done, WorkerType
  <2> QED BY <2>1, <2>2
<1> HIDE DEF Done
<1>6. TypeOK'
  <2>1. deliveredAt' \in [Rows -> 0..MaxClock]
    <3>1. clock \in 0..MaxClock /\ 0 \in 0..MaxClock
      BY OutboxAssumption DEF OutboxAssumption
    <3> QED BY <1>4, <3>1
  <2>2. nextAt' \in [Rows -> 0..(MaxClock + GreaterOf(Lease, BackoffCap))]
    <3>1. clock + Backoff(worker[w].attempt) \in 0..(MaxClock + GreaterOf(Lease, BackoffCap))
          /\ 0 \in 0..(MaxClock + GreaterOf(Lease, BackoffCap))
      BY <1>2, <1>3, OutboxAssumption DEF OutboxAssumption
    <3> HIDE DEF Backoff
    <3> QED BY <1>4, <3>1
  <2>3. worker' \in [Workers -> WorkerType]
    BY <1>5 DEF WorkerType
  <2> QED BY <2>1, <2>2, <2>3 DEF PostAndRecord, WorkerType
<1>7. \A v \in Workers : v # w => worker'[v] = worker[v]
  BY <1>5
<1>8. worker'[w].pc \in {"idle", "send"} /\ (worker'[w].pc = "send" => worker'[w].now = worker[w].now)
  BY <1>5
<1>9. Timed' /\ Numbered' /\ Unique'
  BY <1>1, <1>7, <1>8 DEF PostAndRecord, Timed, Numbered, Unique, Posting
<1>10. Leased'
  <2> SUFFICES ASSUME NEW v \in Workers, NEW q \in Rows, Posting(v, q)'
               PROVE  /\ worker[v].attempt = attempts[q] => nextAt'[q] = worker[v].now + Lease
                      /\ worker[v].attempt < attempts[q] => worker[v].now + Lease <= clock
    BY <1>7, <1>8 DEF PostAndRecord, Leased, Posting
  <2>1. v # w /\ Posting(v, q)
    BY <1>7, <1>8 DEF Posting
  <2>2. worker[v].attempt < attempts[q] => worker[v].now + Lease <= clock
    BY <2>1 DEF Leased
  <2>3. CASE q # r
    BY <1>4, <2>1, <2>3 DEF Leased
  <2>4. CASE q = r /\ worker[v].attempt = attempts[q]
    <3>1. worker[w].attempt # attempts[r]
      BY <1>1, <2>1, <2>4 DEF Unique, Posting
    <3>2. nextAt' = nextAt
      BY <1>1, <3>1 DEF PostAndRecord, AnswerCounts
    <3> QED BY <2>1, <2>2, <3>2 DEF Leased
  <2> QED BY <2>2, <2>3, <2>4
<1> QED BY <1>6, <1>9, <1>10

\* Time ends leases; a stop forgets a post; the rest touches neither.
LEMMA OthersIInv ==
  ASSUME IInv,
         \/ Tick \/ UNCHANGED vars
         \/ \E r \in Rows : OutcomeChanges(r)
         \/ \E w \in Workers : Crash(w)
         \/ \E S \in SUBSET Rows : Acknowledge(S)
  PROVE  IInv'
<1> USE DEF IInv, TypeOK
<1>1. CASE Tick
  <2>1. TypeOK'
    BY <1>1, OutboxAssumption DEF OutboxAssumption, Tick, rowVars
  <2>2. (Timed /\ Numbered /\ Leased /\ Unique)'
    BY <1>1, OutboxAssumption DEF OutboxAssumption, Tick, rowVars, Timed, Numbered, Leased,
       Unique, Posting
  <2> QED BY <2>1, <2>2
<1>2. ASSUME NEW r \in Rows, OutcomeChanges(r) PROVE IInv'
  <2>1. PICK o \in Outcomes : outcome' = [outcome EXCEPT ![r] = o]
    BY <1>2 DEF OutcomeChanges, NextOutcomes, Outcomes
  <2>2. TypeOK'
    BY <1>2, <2>1, OutboxAssumption DEF OutboxAssumption, OutcomeChanges, rowVars
  <2>3. (Timed /\ Numbered /\ Leased /\ Unique)'
    BY <1>2 DEF OutcomeChanges, rowVars, Timed, Numbered, Leased, Unique, Posting
  <2> QED BY <2>2, <2>3
<1>3. ASSUME NEW w \in Workers, Crash(w) PROVE IInv'
  <2>1. TypeOK'
    BY <1>3, OutboxAssumption DEF OutboxAssumption, Crash, rowVars, Idle
  <2>2. (Timed /\ Numbered /\ Leased /\ Unique)'
    BY <1>3 DEF Crash, rowVars, Idle, Timed, Numbered, Leased, Unique, Posting
  <2> QED BY <2>1, <2>2
<1>4. ASSUME NEW S \in SUBSET Rows, Acknowledge(S) PROVE IInv'
  BY <1>4 DEF Acknowledge, Timed, Numbered, Leased, Unique, Posting
<1>5. CASE UNCHANGED vars
  BY <1>5 DEF vars, rowVars, Timed, Numbered, Leased, Unique, Posting
<1> QED BY <1>1, <1>2, <1>3, <1>4, <1>5

\* Every step.
LEMMA StepIInv == IInv /\ [Next]_vars => IInv'
  BY ReconcileIInv, StartDeliverIInv, TakeRowIInv, PostAndRecordIInv, OthersIInv
  DEF Next, Cycle

\* The inductive invariant holds throughout.
THEOREM Invariance == Spec => []IInv
  BY InitIInv, StepIInv, PTL DEF Spec

-----------------------------------------------------------------------------
(* Theorems                                                                *)

\* Types, and a body exactly when the row is ready (reconcile writes both).
THEOREM TypeCorrect == Spec => []TypeOK
<1>1. IInv => TypeOK
  BY DEF IInv
<1> QED BY <1>1, Invariance, PTL

\* Two workers never post one row both inside their leases, however old the batch's time
\* is and whenever an earlier attempt answers (deliver).
THEOREM LeaseExclusiveTheorem == Spec => []LeaseExclusive
<1>1. IInv => LeaseExclusive
  <2> SUFFICES ASSUME IInv, NEW v \in Workers, NEW w \in Workers, NEW r \in Rows, v # w,
                      UnderLease(v, r), UnderLease(w, r)
               PROVE  FALSE
    BY DEF LeaseExclusive
  <2>1. Posting(v, r) /\ clock < worker[v].now + Lease
    BY DEF UnderLease, Posting
  <2>2. Posting(w, r) /\ clock < worker[w].now + Lease
    BY DEF UnderLease, Posting
  <2>3. \A u \in Workers : Posting(u, r) /\ clock < worker[u].now + Lease
                            => worker[u].attempt = attempts[r]
    BY OutboxAssumption DEF OutboxAssumption, IInv, TypeOK, Numbered, Leased, Posting
  <2> QED BY <2>1, <2>2, <2>3 DEF IInv, Unique
<1> QED BY <1>1, Invariance, PTL

\* An event body and its time are written once, whatever the outcome does and however
\* many reconcilers listed the row (reconcile).
THEOREM FrozenOnceTheorem == Spec => FrozenOnce
<1>1. ASSUME IInv, Next, NEW r \in Rows, payload[r] # "none"
      PROVE  payload'[r] = payload[r] /\ readyAt'[r] = readyAt[r]
  <2>1. ASSUME NEW w \in Workers, Freeze(w)
        PROVE  payload'[r] = payload[r] /\ readyAt'[r] = readyAt[r]
    BY <1>1, <2>1 DEF Freeze, Freezable, IInv, TypeOK
  <2> QED BY <1>1, <2>1 DEF Next, Cycle, OutcomeChanges, StartReconcile, StartDeliver, TakeRow,
       PostAndRecord, Export, Crash, Acknowledge, Tick, rowVars
<1>2. IInv /\ [Next]_vars =>
        [\A r \in Rows : payload[r] # "none" =>
           payload'[r] = payload[r] /\ readyAt'[r] = readyAt[r]]_vars
  BY <1>1
<1> QED BY <1>2, Invariance, PTL DEF Spec, FrozenOnce

\* A delivery once recorded stands, against late failures and second acknowledgements
\* (deliver, acknowledge_local_outcomes).
THEOREM DeliveryStandsTheorem == Spec => DeliveryStands
<1>1. ASSUME IInv, Next, NEW r \in Rows, deliveredAt[r] # 0
      PROVE  deliveredAt'[r] = deliveredAt[r]
  <2>1. ASSUME NEW w \in Workers, PostAndRecord(w)
        PROVE  deliveredAt'[r] = deliveredAt[r]
    BY <1>1, <2>1 DEF PostAndRecord, AnswerCounts, IInv, TypeOK
  <2>2. ASSUME NEW S \in SUBSET Rows, Acknowledge(S)
        PROVE  deliveredAt'[r] = deliveredAt[r]
    BY <1>1, <2>2 DEF Acknowledge
  <2> QED BY <1>1, <2>1, <2>2 DEF Next, Cycle, OutcomeChanges, StartReconcile, Freeze,
       StartDeliver, TakeRow, Export, Crash, Tick, rowVars
<1>2. IInv /\ [Next]_vars =>
        [\A r \in Rows : deliveredAt[r] # 0 => deliveredAt'[r] = deliveredAt[r]]_vars
  BY <1>1
<1> QED BY <1>2, Invariance, PTL DEF Spec, DeliveryStands

\* No attempt begins on a row that was delivered or given up since it was listed
\* (deliver reads it again under its lock).
THEOREM SettledIsNotPostedTheorem == Spec => SettledIsNotPosted
<1>1. ASSUME IInv, Next, NEW w \in Workers, worker[w].pc = "send", worker'[w].pc = "post"
      PROVE  deliveredAt[worker'[w].row] = 0 /\ abandonedAt[worker'[w].row] = 0
  <2> USE DEF IInv, TypeOK
  <2>1. ASSUME NEW v \in Workers, TakeRow(v)
        PROVE  deliveredAt[worker'[w].row] = 0 /\ abandonedAt[worker'[w].row] = 0
    <3>1. v = w
      BY <1>1, <2>1 DEF TakeRow
    <3>2. TakeRow(w) /\ IInv
      BY <1>1, <2>1, <3>1
    <3>3. PICK r \in Rows : Skips(w, r) \/ Takes(w, r)
      BY <3>2, TakeRowCases
    <3>4. ~Skips(w, r)
      BY <1>1 DEF Skips, Rest, Idle
    <3>5. Takes(w, r)
      BY <3>3, <3>4
    <3>6. Takeable(r, worker[w].now)
      BY <3>5 DEF Takes
    <3>7. worker'[w].row = r
      <4>1. Rest(w, r) \in WorkerType
        BY <1>1 DEF Rest, WorkerType
      <4>2. worker'[w] = [Rest(w, r) EXCEPT !.pc = "post", !.row = r, !.attempt = attempts[r] + 1]
        BY <1>1, <3>5 DEF Takes
      <4> QED BY <4>1, <4>2 DEF WorkerType
    <3> QED BY <3>6, <3>7 DEF Takeable, Waiting
  <2>2. ASSUME NEW v \in Workers, PostAndRecord(v)
        PROVE  FALSE
    BY <1>1, <2>2 DEF PostAndRecord, Done, Idle
  <2>3. ASSUME NEW v \in Workers,
               StartReconcile(v) \/ Freeze(v) \/ StartDeliver(v) \/ Export(v) \/ Crash(v)
        PROVE  FALSE
    BY <1>1, <2>3 DEF StartReconcile, Freeze, StartDeliver, Export, Crash, Idle
  <2>4. CASE \/ Tick \/ \E r \in Rows : OutcomeChanges(r)
             \/ \E S \in SUBSET Rows : Acknowledge(S)
    BY <1>1, <2>4 DEF Tick, OutcomeChanges, Acknowledge
  <2> QED BY <1>1, <2>1, <2>2, <2>3, <2>4 DEF Next, Cycle
<1>2. IInv /\ [Next]_vars =>
        [\A w \in Workers : worker[w].pc = "send" /\ worker'[w].pc = "post" =>
           LET r == worker'[w].row IN deliveredAt[r] = 0 /\ abandonedAt[r] = 0]_vars
  BY <1>1
<1> QED BY <1>2, Invariance, PTL DEF Spec, SettledIsNotPosted
==============================================================================
