--------------------------- MODULE PostLedgerProofs ---------------------------
(***************************************************************************)
(* The safety of the two post ledgers, for any number of rows, children,   *)
(* retries and stops, and the proof that they implement AtMostOnce.        *)
(***************************************************************************)
EXTENDS PostLedger, TLAPS

\* What a row's click marker says of LinkedIn, and its status of the marker.
RowInv ==
  \A r \in Rows :
    /\ status[r] \in Untouched => ~clicked[r]
    /\ ~clicked[r] => ~taken[r] /\ published[r] = 0
    /\ taken[r] => published[r] = 0
    /\ published[r] <= 1

\* A child past its claim is alone with its row, which nobody can claim again.
HandInv ==
  /\ \A w \in Workers : step[w] \in InBrowser =>
       row[w] \in Rows /\ status[row[w]] \in {"running", "uncertain"}
  /\ \A v, w \in Workers :
       step[v] \in InBrowser /\ step[w] \in InBrowser /\ row[v] = row[w] => v = w

\* Between the marker and the click LinkedIn has seen nothing of the row.
MarkInv ==
  \A w \in Workers : step[w] = "marked" =>
    clicked[row[w]] /\ ~taken[row[w]] /\ published[row[w]] = 0

\* A supervisor knows one living child at a time.
DriverInv ==
  \A v, w \in Workers :
    owned[v] /\ step[v] # "off" /\ owned[w] /\ step[w] # "off" => v = w

\* The inductive invariant.
IInv == TypeOK /\ RowInv /\ HandInv /\ MarkInv /\ DriverInv

\* Nothing is queued, claimed or clicked at the start.
LEMMA InitInv == Init => IInv
  BY LedgerAssumption
  DEF Init, IInv, TypeOK, RowInv, HandInv, MarkInv, DriverInv, Rows, Statuses,
      Steps, InBrowser, Kinds, Untouched

\* The dashboard's commands touch rows without a click only.
LEMMA CommandsKeep ==
  ASSUME IInv, NEW r \in Rows, Commands(r)
  PROVE  IInv'
<1>1. CASE Enqueue(r)
  BY <1>1 DEF Enqueue, IInv, TypeOK, RowInv, HandInv, MarkInv, DriverInv, Statuses,
     Untouched, workerVars, linkedIn
<1>2. CASE Cancel(r)
  BY <1>2 DEF Cancel, IInv, TypeOK, RowInv, HandInv, MarkInv, DriverInv, Statuses,
     Untouched, workerVars, linkedIn
<1>3. CASE Retry(r)
  BY <1>3, LedgerAssumption DEF Retry, Retryable, IInv, TypeOK, RowInv, HandInv, MarkInv,
     DriverInv, Statuses, Untouched, workerVars, linkedIn
<1>4. CASE Postpone(r)
  BY <1>4 DEF Postpone, IInv, TypeOK, RowInv, HandInv, MarkInv, DriverInv,
     workerVars, linkedIn
<1> QED
  BY <1>1, <1>2, <1>3, <1>4 DEF Commands

\* The passage of time moves neither a click nor a child.
LEMMA TimeKeeps ==
  ASSUME IInv, NEW r \in Rows, TimeComes(r) \/ GrowStale(r)
  PROVE  IInv'
<1>1. CASE TimeComes(r)
  BY <1>1 DEF TimeComes, IInv, TypeOK, RowInv, HandInv, MarkInv, DriverInv,
     workerVars, linkedIn
<1>2. CASE GrowStale(r)
  BY <1>2 DEF GrowStale, IInv, TypeOK, RowInv, HandInv, MarkInv, DriverInv,
     workerVars, linkedIn
<1> QED
  BY <1>1, <1>2

\* LinkedIn acts once on a click it took; no child is then still before its click.
LEMMA PublishKeeps ==
  ASSUME IInv, NEW r \in Rows, Publish(r)
  PROVE  IInv'
<1>1. /\ UNCHANGED <<status, due, clicked, stale, retries, up, stops>>
      /\ UNCHANGED <<step, kind, row, owned, browser>>
  BY DEF Publish, rowVars, workerVars
<1>2. /\ taken[r] /\ published[r] = 0
      /\ taken' = [taken EXCEPT ![r] = FALSE]
      /\ published' = [published EXCEPT ![r] = 1] \/ published' = published
  BY DEF Publish, IInv, TypeOK, RowInv
<1>3. TypeOK'
  BY <1>1, <1>2 DEF IInv, TypeOK
<1>4. RowInv'
  BY <1>1, <1>2 DEF IInv, TypeOK, RowInv
<1>5. HandInv' /\ DriverInv'
  BY <1>1 DEF IInv, HandInv, DriverInv
<1>6. \A w \in Workers : step[w] = "marked" => row[w] # r
  BY <1>2 DEF IInv, MarkInv
<1>7. MarkInv'
  BY <1>1, <1>2, <1>6 DEF IInv, TypeOK, HandInv, MarkInv, InBrowser
<1> QED
  BY <1>3, <1>4, <1>5, <1>7 DEF IInv

\* A new child starts only when no child the supervisor knows is left.
LEMMA SupervisorKeeps ==
  ASSUME IInv,
         (\E k \in Kinds : StartChild(k)) \/ SupervisorDies \/ SupervisorStarts
  PROVE  IInv'
<1>1. ASSUME NEW k \in Kinds, StartChild(k)
      PROVE  IInv'
  <2>1. PICK w \in Workers :
          /\ step[w] = "off"
          /\ step' = [step EXCEPT ![w] = "sweep"]
          /\ kind' = [kind EXCEPT ![w] = k]
          /\ owned' = [owned EXCEPT ![w] = TRUE]
          /\ browser' = [browser EXCEPT ![w] = "none"]
    BY <1>1 DEF StartChild
  <2>2. UNCHANGED <<rowVars, up, row, linkedIn, stops>>
    BY <1>1 DEF StartChild
  <2>3. TypeOK' /\ RowInv' /\ MarkInv'
    BY <2>1, <2>2 DEF IInv, TypeOK, RowInv, MarkInv, Steps, rowVars, linkedIn
  <2>6. HandInv'
    BY <2>1, <2>2 DEF IInv, TypeOK, HandInv, InBrowser, rowVars
  <2>4. \A v \in Workers : owned[v] => step[v] = "off"
    <3>1. \A v \in Workers :
            owned[v] => kind[v] \notin {k, Other(k)} \/ step[v] = "off"
      BY <1>1 DEF StartChild, Free, Child
    <3>2. \A v \in Workers : kind[v] \in {k, Other(k)}
      BY DEF IInv, TypeOK, Kinds, Other
    <3> QED
      BY <3>1, <3>2
  <2>5. DriverInv'
    BY <2>1, <2>2, <2>4 DEF DriverInv, IInv, TypeOK
  <2> QED
    BY <2>3, <2>5, <2>6 DEF IInv
<1>2. CASE SupervisorDies
  <2>1. /\ UNCHANGED <<status, due, clicked, stale, retries, taken, published>>
        /\ UNCHANGED <<step, kind, row, browser>>
        /\ up' = FALSE /\ owned' = [w \in Workers |-> FALSE] /\ stops' = stops + 1
    BY <1>2 DEF SupervisorDies, rowVars, linkedIn
  <2>2. TypeOK'
    <3>1. owned' \in [Workers -> BOOLEAN] /\ up' \in BOOLEAN
      BY <2>1, Zenon
    <3>2. stops' \in Nat
      BY <2>1 DEF IInv, TypeOK
    <3> QED
      BY <2>1, <3>1, <3>2 DEF IInv, TypeOK
  <2>3. RowInv' /\ HandInv' /\ MarkInv' /\ DriverInv'
    BY <2>1 DEF IInv, RowInv, HandInv, MarkInv, DriverInv
  <2> QED
    BY <2>2, <2>3 DEF IInv
<1>3. CASE SupervisorStarts
  BY <1>3 DEF SupervisorStarts, IInv, TypeOK, RowInv, HandInv, MarkInv, DriverInv,
     rowVars, linkedIn
<1> QED
  BY <1>1, <1>2, <1>3

\* A child that only looks, attaches or ends moves no row.
LEMMA QuietRunKeeps ==
  ASSUME IInv, NEW w \in Workers,
         NothingDue(w) \/ Attach(w) \/ ClaimNothing(w) \/ LookForRow(w) \/ ChildDies(w)
  PROVE  IInv'
<1>1. CASE Attach(w) \/ LookForRow(w)
  BY <1>1 DEF Attach, LookForRow, To, IInv, TypeOK, RowInv, HandInv, MarkInv, DriverInv,
     Steps, InBrowser, rowVars, linkedIn
<1>2. CASE NothingDue(w) \/ ClaimNothing(w) \/ ChildDies(w)
  <2>1. Ended(w) /\ UNCHANGED <<rowVars, up, linkedIn>> /\ stops' \in Nat
    BY <1>2 DEF NothingDue, ClaimNothing, ChildDies, IInv, TypeOK
  <2>2. TypeOK'
    BY <2>1 DEF Ended, IInv, TypeOK, Steps, rowVars, linkedIn
  <2>3. /\ \A v \in Workers : step'[v] # "off" => step'[v] = step[v] /\ row'[v] = row[v]
        /\ UNCHANGED <<status, clicked, taken, published, up, owned, browser>>
    BY <2>1 DEF Ended, IInv, TypeOK, rowVars, linkedIn
  <2>4. (RowInv /\ HandInv /\ MarkInv /\ DriverInv)'
    BY <2>3 DEF IInv, RowInv, HandInv, MarkInv, DriverInv, InBrowser
  <2> QED BY <2>2, <2>4 DEF IInv
<1> QED
  BY <1>1, <1>2

\* A sweep settles RUNNING rows and nothing else.
LEMMA SweepKeeps ==
  ASSUME IInv, NEW w \in Workers, Sweep(w)
  PROVE  IInv'
<1>1. TypeOK' /\ RowInv' /\ DriverInv'
  BY DEF Sweep, SweptTo, To, IInv, TypeOK, RowInv, DriverInv, Statuses, Untouched,
     Steps, InBrowser, linkedIn
<1>2. /\ \A v \in Workers : step'[v] \in InBrowser => step'[v] = step[v] /\ v # w
      /\ \A r \in Rows : status[r] \in {"running", "uncertain"} =>
           status'[r] \in {"running", "uncertain"}
      /\ UNCHANGED <<row, clicked, taken, published>>
  BY DEF Sweep, SweptTo, To, IInv, TypeOK, InBrowser, linkedIn
<1>3. HandInv' /\ MarkInv'
  BY <1>2 DEF IInv, HandInv, MarkInv, InBrowser
<1> QED
  BY <1>1, <1>3 DEF IInv

\* Claim, marker, click and record, each by a child on its own row.
LEMMA RowStepKeeps ==
  ASSUME IInv, NEW w \in Workers, NEW r \in Rows,
         \/ Claim(w, r) \/ MarkClick(w, r) \/ FinalClick(w, r)
         \/ RecordSent(w, r) \/ RecordFailure(w, r)
  PROVE  IInv'
<1>1. CASE Claim(w, r)
  BY <1>1 DEF Claim, To, IInv, TypeOK, RowInv, HandInv, MarkInv, DriverInv, Statuses,
     Untouched, Steps, InBrowser, linkedIn
<1>2. CASE MarkClick(w, r)
  BY <1>2 DEF MarkClick, CanMarkClick, To, IInv, TypeOK, RowInv, HandInv, MarkInv, DriverInv,
     Untouched, Steps, InBrowser, linkedIn
<1>3. CASE FinalClick(w, r)
  <2>1. TypeOK' /\ DriverInv'
    BY <1>3 DEF FinalClick, To, IInv, TypeOK, DriverInv, Steps, InBrowser, rowVars
  <2>2. HandInv'
    BY <1>3 DEF FinalClick, To, IInv, TypeOK, HandInv, InBrowser, rowVars
  <2>3. RowInv'
    BY <1>3 DEF FinalClick, To, IInv, TypeOK, RowInv, MarkInv, rowVars
  <2>4. \A v \in Workers : step'[v] = "marked" => step[v] = "marked" /\ row[v] # r
    BY <1>3 DEF FinalClick, To, IInv, TypeOK, HandInv, InBrowser
  <2>5. MarkInv'
    BY <1>3, <2>4 DEF FinalClick, IInv, TypeOK, HandInv, MarkInv, InBrowser, rowVars
  <2> QED
    BY <2>1, <2>2, <2>3, <2>5 DEF IInv
<1>4. CASE RecordSent(w, r) \/ RecordFailure(w, r)
  <2>1. /\ Ended(w) /\ row[w] = r /\ step[w] \in InBrowser
        /\ UNCHANGED <<due, clicked, stale, retries, up, taken, published, stops>>
        /\ \/ status' = status
           \/ /\ status[r] = "running"
              /\ \/ status' = [status EXCEPT ![r] = "sent"]
                 \/ clicked[r] /\ status' = [status EXCEPT ![r] = "uncertain"]
                 \/ ~clicked[r] /\ status' = [status EXCEPT ![r] = "failed"]
    BY <1>4 DEF RecordSent, RecordFailure, FailureStatus, InBrowser, linkedIn
  <2>2. TypeOK' /\ RowInv' /\ DriverInv'
    BY <2>1 DEF Ended, IInv, TypeOK, RowInv, DriverInv, Statuses, Untouched, Steps
  <2>3. \A v \in Workers : step'[v] \in InBrowser =>
          step'[v] = step[v] /\ row'[v] = row[v] /\ row[v] # r
    BY <2>1 DEF Ended, IInv, TypeOK, HandInv, InBrowser
  <2>4. HandInv' /\ MarkInv'
    BY <2>1, <2>3 DEF IInv, TypeOK, HandInv, MarkInv, InBrowser
  <2> QED
    BY <2>2, <2>4 DEF IInv
<1> QED
  BY <1>1, <1>2, <1>3, <1>4

\* Every step of the ledgers keeps the invariant.
LEMMA StepInv == IInv /\ [Next]_vars => IInv'
<1> SUFFICES ASSUME IInv, [Next]_vars PROVE IInv'
  OBVIOUS
<1>1. CASE UNCHANGED vars
  BY <1>1 DEF vars, IInv, TypeOK, RowInv, HandInv, MarkInv, DriverInv, rowVars,
     workerVars, linkedIn
<1>2. CASE Next
  BY <1>2, CommandsKeep, TimeKeeps, PublishKeeps, SupervisorKeeps, QuietRunKeeps,
     SweepKeeps, RowStepKeeps DEF Next, Run
<1> QED
  BY <1>1, <1>2

\* The invariant holds in every reachable state.
THEOREM Invariance == Spec => []IInv
  BY InitInv, StepInv, PTL DEF Spec

\* Every variable of the ledgers keeps its type: retry counts stay in their limit
\* (reposts.py retry_repost), for any number of children.
THEOREM TypeCorrect == Spec => []TypeOK
<1>1. IInv => TypeOK
  BY DEF IInv
<1> QED
  BY Invariance, <1>1, PTL

\* docs/linkedin-posts.md, Statuses: a row that may be run again or is reported as
\* not posted has no click behind it, whoever stopped at whatever point.
THEOREM UntouchedRows == Spec => []UntouchedMeansNoClick
<1>1. IInv => UntouchedMeansNoClick
  BY DEF IInv, RowInv, UntouchedMeansNoClick
<1> QED
  BY Invariance, <1>1, PTL

\* daemon_supervisor.py and claim_next: across any number of supervisors that die and
\* leave a child behind, two children that drive the browser at once are at different
\* rows, and the living supervisor started at most one of them.
THEOREM OwnDriver == Spec => []DriversApart
<1>1. IInv => DriversApart
  BY DEF IInv, HandInv, DriverInv, DriversApart, Driving, InBrowser
<1> QED
  BY Invariance, <1>1, PTL

------------------------------------------------------------------------------
(* The ledgers implement AtMostOnce. *)

PromiseStep == [Promise!Next]_(Promise!vars)
Quiet == UNCHANGED <<status, clicked, published>>

\* The phases of the rows, as the promise sees them.
At(r) == Phase(status[r], clicked[r])
Phases == [r \in Rows |-> At(r)]

\* The phase of every status of a row.
LEMMA PhaseOf ==
  ASSUME NEW c \in BOOLEAN
  PROVE  /\ Phase("absent", c) = "unsent" /\ Phase("queued", c) = "unsent"
         /\ Phase("failed", c) = "unsent" /\ Phase("skipped", c) = "withheld"
         /\ Phase("sent", c) = "closed" /\ Phase("uncertain", c) = "closed"
         /\ Phase("running", c) = IF c THEN "inFlight" ELSE "unsent"
  BY DEF Phase

\* A step that leaves rows, clicks and posts alone is a stutter.
LEMMA QuietStep ==
  ASSUME Quiet
  PROVE  PromiseStep
  BY DEF Quiet, PromiseStep, Promise!vars, At

\* One row's phase moves the way the promise allows.
LEMMA MoveStep ==
  ASSUME NEW r \in Rows, NEW p, UNCHANGED published,
         \A x \in Rows : At(x)' = IF x = r THEN p ELSE At(x),
         \/ p = At(r)
         \/ At(r) = "unsent" /\ p \in {"inFlight", "closed", "withheld"}
         \/ At(r) = "inFlight" /\ p = "closed"
  PROVE  PromiseStep
<1>1. Phases' = [Phases EXCEPT ![r] = p]
  BY DEF Phases
<1>2. Phases[r] = At(r)
  BY DEF Phases
<1>3. CASE p = At(r)
  <2>1. Phases' = Phases
    BY <1>1, <1>2, <1>3 DEF Phases
  <2> QED BY <2>1 DEF PromiseStep, Promise!vars, Phases, At
<1>4. CASE p # At(r)
  <2>1. Promise!Begin(r) \/ Promise!Close(r) \/ Promise!Withhold(r)
    BY <1>1, <1>2, <1>4 DEF Promise!Begin, Promise!Close, Promise!Withhold, Phases, At
  <2> QED BY <2>1 DEF PromiseStep, Promise!Next
<1> QED BY <1>3, <1>4

\* The sweep of one child closes every interrupted row of its ledger at once.
LEMMA SweepStep ==
  ASSUME IInv, NEW w \in Workers, Sweep(w)
  PROVE  PromiseStep
<1> DEFINE S == {r \in Rows : r \in Ledger(kind[w]) /\ status[r] = "running" /\ Interrupted(r)}
<1>1. UNCHANGED <<clicked, published>>
  BY DEF Sweep, linkedIn
<1>2. \A r \in Rows : status'[r] = IF r \in S THEN "uncertain" ELSE status[r]
  BY DEF Sweep, SweptTo
<1>3. \A r \in Rows : At(r)' = IF r \in S THEN "closed" ELSE At(r)
  BY <1>1, <1>2, PhaseOf DEF At, IInv, TypeOK
<1>4. \A r \in S : At(r) \in {"unsent", "inFlight"}
  BY PhaseOf DEF At, IInv, TypeOK
<1>5. Phases' = [r \in Rows |-> IF r \in S THEN "closed" ELSE Phases[r]]
  BY <1>3 DEF Phases
<1>6. \A r \in S : Phases[r] \in {"unsent", "inFlight"}
  BY <1>4 DEF Phases
<1>7. Promise!CloseAll(S)
  BY <1>1, <1>5, <1>6 DEF Promise!CloseAll, Phases, At
<1>8. S \in SUBSET Rows
  OBVIOUS
<1> QED BY <1>7, <1>8 DEF PromiseStep, Promise!Next

\* LinkedIn acts on a click: the row is in flight or closed, and nothing was posted.
LEMMA PublishStep ==
  ASSUME IInv, NEW r \in Rows, Publish(r)
  PROVE  PromiseStep
<1>1. /\ UNCHANGED <<status, clicked>>
      /\ published' = [published EXCEPT ![r] = 1] \/ published' = published
      /\ clicked[r] /\ published[r] = 0 /\ status[r] \notin Untouched
  BY DEF Publish, rowVars, IInv, TypeOK, RowInv
<1>2. Phases' = Phases
  BY <1>1 DEF Phases, At
<1>3. Phases[r] \in {"inFlight", "closed"}
  BY <1>1, PhaseOf DEF Phases, At, IInv, TypeOK, Statuses, Untouched
<1>4. CASE published' = published
  BY <1>2, <1>4 DEF PromiseStep, Promise!vars, Phases, At
<1>5. CASE published' = [published EXCEPT ![r] = 1]
  <2>1. Promise!Deliver(r)
    BY <1>1, <1>2, <1>3, <1>5 DEF Promise!Deliver, Phases, At
  <2> QED BY <2>1 DEF PromiseStep, Promise!Next
<1> QED BY <1>1, <1>4, <1>5

\* The commands: a cancelled row is withheld, a retried one was never in flight.
LEMMA CommandStep ==
  ASSUME IInv, NEW r \in Rows, Commands(r)
  PROVE  PromiseStep
<1>1. CASE Enqueue(r) \/ Retry(r)
  <2>1. /\ UNCHANGED <<clicked, published>>
        /\ \A x \in Rows : status'[x] = IF x = r THEN "queued" ELSE status[x]
        /\ status[r] \in {"absent", "failed"}
    BY <1>1 DEF Enqueue, Retry, Retryable, linkedIn, IInv, TypeOK
  <2>2. /\ \A x \in Rows : At(x)' = IF x = r THEN "unsent" ELSE At(x)
        /\ At(r) = "unsent"
    BY <2>1, PhaseOf DEF At, IInv, TypeOK
  <2> QED BY <2>1, <2>2, MoveStep
<1>2. CASE Cancel(r)
  <2>1. /\ UNCHANGED <<clicked, published>>
        /\ \A x \in Rows : status'[x] = IF x = r THEN "skipped" ELSE status[x]
        /\ status[r] = "queued"
    BY <1>2 DEF Cancel, linkedIn, IInv, TypeOK
  <2>2. /\ \A x \in Rows : At(x)' = IF x = r THEN "withheld" ELSE At(x)
        /\ At(r) = "unsent"
    BY <2>1, PhaseOf DEF At, IInv, TypeOK
  <2> QED BY <2>1, <2>2, MoveStep
<1>3. CASE Postpone(r)
  <2>1. Quiet
    BY <1>3 DEF Postpone, Quiet, linkedIn
  <2> QED BY <2>1, QuietStep
<1> QED BY <1>1, <1>2, <1>3 DEF Commands

\* A child on its row: the marker begins the attempt, a record closes it.
LEMMA RowStep ==
  ASSUME IInv, NEW w \in Workers, NEW r \in Rows,
         \/ Claim(w, r) \/ MarkClick(w, r) \/ FinalClick(w, r)
         \/ RecordSent(w, r) \/ RecordFailure(w, r)
  PROVE  PromiseStep
<1>1. CASE Claim(w, r)
  <2>1. /\ UNCHANGED <<clicked, published>>
        /\ \A x \in Rows : status'[x] = IF x = r THEN "running" ELSE status[x]
        /\ status[r] = "queued" /\ clicked[r] = FALSE
    BY <1>1 DEF Claim, linkedIn, IInv, TypeOK, RowInv, Untouched
  <2>2. /\ \A x \in Rows : At(x)' = IF x = r THEN "unsent" ELSE At(x)
        /\ At(r) = "unsent"
    BY <2>1, PhaseOf DEF At, IInv, TypeOK
  <2> QED BY <2>1, <2>2, MoveStep
<1>2. CASE MarkClick(w, r)
  <2>1. /\ UNCHANGED <<status, published>>
        /\ \A x \in Rows : clicked'[x] = IF x = r THEN TRUE ELSE clicked[x]
        /\ status[r] = "running" /\ clicked[r] = FALSE
    BY <1>2 DEF MarkClick, CanMarkClick, linkedIn, IInv, TypeOK
  <2>2. /\ \A x \in Rows : At(x)' = IF x = r THEN "inFlight" ELSE At(x)
        /\ At(r) = "unsent"
    <3>1. \A x \in Rows \ {r} : At(x)' = At(x)
      BY <2>1 DEF At
    <3>2. At(r) = "unsent" /\ At(r)' = "inFlight"
      BY <2>1, PhaseOf DEF At
    <3> QED BY <3>1, <3>2
  <2> QED BY <2>1, <2>2, MoveStep
<1>3. CASE FinalClick(w, r)
  <2>1. Quiet
    BY <1>3 DEF FinalClick, Quiet, rowVars
  <2> QED BY <2>1, QuietStep
<1>4. CASE RecordSent(w, r)
  <2>1. CASE status[r] # "running"
    <3>1. Quiet
      BY <1>4, <2>1 DEF RecordSent, Quiet, linkedIn
    <3> QED BY <3>1, QuietStep
  <2>2. CASE status[r] = "running"
    <3>1. /\ UNCHANGED <<clicked, published>>
          /\ \A x \in Rows : status'[x] = IF x = r THEN "sent" ELSE status[x]
      BY <1>4, <2>2 DEF RecordSent, linkedIn, IInv, TypeOK
    <3>2. /\ \A x \in Rows : At(x)' = IF x = r THEN "closed" ELSE At(x)
          /\ At(r) \in {"unsent", "inFlight"}
      BY <2>2, <3>1, PhaseOf DEF At, IInv, TypeOK
    <3> QED BY <3>1, <3>2, MoveStep
  <2> QED BY <2>1, <2>2
<1>5. CASE RecordFailure(w, r)
  <2>1. CASE status[r] # "running"
    <3>1. Quiet
      BY <1>5, <2>1 DEF RecordFailure, Quiet, linkedIn
    <3> QED BY <3>1, QuietStep
  <2>2. CASE status[r] = "running"
    <3> DEFINE s == IF clicked[r] THEN "uncertain" ELSE "failed"
               p == IF clicked[r] THEN "closed" ELSE "unsent"
    <3>1. /\ UNCHANGED <<clicked, published>>
          /\ \A x \in Rows : status'[x] = IF x = r THEN s ELSE status[x]
      BY <1>5, <2>2 DEF RecordFailure, FailureStatus, linkedIn, IInv, TypeOK
    <3>2. /\ \A x \in Rows : At(x)' = IF x = r THEN p ELSE At(x)
          /\ At(r) = IF clicked[r] THEN "inFlight" ELSE "unsent"
      BY <2>2, <3>1, PhaseOf DEF At, IInv, TypeOK
    <3>3. \/ p = At(r)
          \/ At(r) = "inFlight" /\ p = "closed"
      BY <3>2
    <3> HIDE DEF p
    <3> QED BY <3>1, <3>2, <3>3, MoveStep
  <2> QED BY <2>1, <2>2
<1> QED BY <1>1, <1>2, <1>3, <1>4, <1>5

\* Everything else is invisible to the promise.
LEMMA OtherStep ==
  ASSUME \/ \E r \in Rows : TimeComes(r) \/ GrowStale(r)
         \/ \E k \in Kinds : StartChild(k)
         \/ \E w \in Workers : NothingDue(w) \/ Attach(w) \/ ClaimNothing(w)
                               \/ LookForRow(w) \/ ChildDies(w)
         \/ SupervisorDies \/ SupervisorStarts
         \/ UNCHANGED vars
  PROVE  PromiseStep
<1>1. Quiet
  BY DEF TimeComes, GrowStale, StartChild, NothingDue, Attach, ClaimNothing, LookForRow,
     ChildDies, SupervisorDies, SupervisorStarts, vars, rowVars, linkedIn, Quiet
<1> QED BY <1>1, QuietStep

\* Every step of the ledgers is a step of the promise or a stutter.
LEMMA StepPromise ==
  ASSUME IInv, [Next]_vars
  PROVE  PromiseStep
  BY CommandStep, PublishStep, SweepStep, RowStep, OtherStep DEF Next, Run

\* The ledgers start where the promise starts.
LEMMA InitPromise ==
  ASSUME Init
  PROVE  Promise!Init
  BY PhaseOf DEF Init, Promise!Init

\* reposts.py and personal_posts.py: with every retry, sweep, late click and stopped
\* child, a row is posted at most once, and never again after an uncertain click.
THEOREM Refinement == Spec => PromiseKept
<1>1. Init => Promise!Init
  BY InitPromise
<1>2. IInv /\ [Next]_vars => [Promise!Next]_(Promise!vars)
  BY StepPromise DEF PromiseStep
<1> QED BY Invariance, <1>1, <1>2, PTL DEF Spec, PromiseKept, Promise!Spec
==============================================================================
