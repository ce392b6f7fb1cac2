---------------------------- MODULE GmailLaneProofs ----------------------------
(***************************************************************************)
(* The Gmail lane sends a step at most once, after its predecessor is on   *)
(* record, a receipt that says sent has its Message, a stop makes no new   *)
(* row, and the lane implements AtMostOnce: for every number of workers    *)
(* and steps, whatever dies, hangs or is recovered.                        *)
(***************************************************************************)
EXTENDS GmailLane, TLAPS

Busy(w) == worker[w].pc \notin {"down", "idle"}

\* A busy worker is on a step that has a row.
OnRow == \A w \in Workers : Busy(w) => StepOf(w) \in Steps /\ task[StepOf(w)] # "none"

\* A submission has its marker, and a marker its row.
Marked == \A s \in Steps :
  /\ sends[s] \in {0, 1}
  /\ sends[s] = 1 => marker[s]
  /\ marker[s] => task[s] # "none"

\* Who is about to submit a step is alone in that, and first.
Alone == \A w \in Workers : At(w, "submit") =>
  /\ marker[StepOf(w)] /\ sends[StepOf(w)] = 0
  /\ \A v \in Workers : At(v, "submit") /\ StepOf(v) = StepOf(w) => v = w

\* What is stored was sent, and a receipt or a worker that goes on from it says so.
Stored ==
  /\ \A s \in Steps : message[s] => sends[s] = 1
  /\ \A s \in Steps : delivery[s] = "sent" => message[s]
  /\ \A w \in Workers : At(w, "persist") => sends[StepOf(w)] = 1
  /\ \A w \in Workers : At(w, "record") \/ At(w, "next") => message[StepOf(w)]

\* A step has a row only after its predecessor is stored.
Follows == \A s \in Steps : s # 0 /\ task[s] # "none" => message[s - 1]

IInv == TypeOK /\ OnRow /\ Marked /\ Alone /\ Stored /\ Follows

\* The initial states.
LEMMA InitIInv == Init => IInv
<1> SUFFICES ASSUME Init PROVE IInv
  OBVIOUS
<1>1. 0 \in Steps /\ \A s \in Steps \ {0} : s - 1 \in Steps
  BY GmailAssumption DEF GmailAssumption, Steps
<1>2. TypeOK
  BY GmailAssumption DEF GmailAssumption, Init, TypeOK, TaskStatus, DeliveryStatus, PCs
<1>3. OnRow /\ Marked /\ Alone /\ Stored /\ Follows
  BY DEF Init, OnRow, Marked, Alone, Stored, Follows, Busy, At, StepOf
<1> QED BY <1>2, <1>3 DEF IInv

\* Stamping the marker keeps the types.
LEMMA StampTyped ==
  ASSUME IInv, NEW w \in Workers, Stamp(w)
  
  
  
  PROVE TypeOK'
<1>1. marker' = marker \/ marker' = [marker EXCEPT ![StepOf(w)] = TRUE]
  BY DEF Stamp
<1>2. marker' \in [Steps -> BOOLEAN]
  BY <1>1, Zenon DEF IInv, TypeOK
<1>3. task' \in [Steps -> TaskStatus] /\ delivery' \in [Steps -> DeliveryStatus]
  BY DEF IInv, TypeOK, Stamp, PutBack, TaskStatus, DeliveryStatus, Goto, Leave
<1>4. worker' \in [Workers -> [pc : PCs, step : Steps \union {None}]]
  BY DEF IInv, TypeOK, Stamp, PutBack, PCs, Goto, Leave
<1> QED BY <1>2, <1>3, <1>4 DEF IInv, TypeOK, Stamp, PutBack

\* So does the submission.
LEMMA SubmitTyped ==
  ASSUME IInv, NEW w \in Workers, Submit(w)
  
  
  
  PROVE TypeOK'
<1>1. sends' = sends \/ sends' = [sends EXCEPT ![StepOf(w)] = @ + 1]
  BY DEF Submit
<1>2. sends' \in [Steps -> Nat]
  BY <1>1 DEF IInv, TypeOK
<1>3. \E pc \in {"persist", "except"} : worker' = [worker EXCEPT ![w].pc = pc]
  BY DEF Submit, Goto
<1>4. worker' \in [Workers -> [pc : PCs, step : Steps \union {None}]]
  BY <1>3 DEF IInv, TypeOK, PCs
<1> QED BY <1>2, <1>4 DEF IInv, TypeOK, Submit, records

\* And the stored Message.
LEMMA PersistTyped ==
  ASSUME IInv, NEW w \in Workers, Persist(w)
  
  
  
  PROVE TypeOK'
<1>1. message' = message \/ message' = [message EXCEPT ![StepOf(w)] = TRUE]
  BY DEF Persist
<1>2. message' \in [Steps -> BOOLEAN]
  BY <1>1, Zenon DEF IInv, TypeOK
<1>4. worker' \in [Workers -> [pc : PCs, step : Steps \union {None}]]
  BY DEF IInv, TypeOK, PCs, Persist, Goto
<1> QED BY <1>2, <1>4 DEF IInv, TypeOK, Persist

\* The Message stored is that of a mail sent.
LEMMA PersistStored ==
  ASSUME IInv, NEW w \in Workers, Persist(w)
  PROVE Stored'
<1> DEFINE s == StepOf(w)
<1>0. s \in Steps /\ sends[s] = 1
  BY DEF IInv, OnRow, Stored, Persist, Busy, At
<1>1. \A t \in Steps : message'[t] => t = s \/ message[t]
  BY Zenon DEF IInv, TypeOK, Persist
<1>2. \A t \in Steps : message[t] => message'[t]
  BY Zenon DEF IInv, TypeOK, Persist
<1>3. \A v \in Workers : worker'[v].step = worker[v].step
  BY DEF IInv, TypeOK, Persist, Goto
<1>4. \A v \in Workers : v # w => worker'[v].pc = worker[v].pc
  BY DEF IInv, TypeOK, Persist, Goto
<1>5. worker'[w].pc = "except" \/ (worker'[w].pc = "record" /\ message'[s])
  BY <1>0 DEF IInv, TypeOK, Persist, Goto
<1> QED BY <1>0, <1>1, <1>2, <1>3, <1>4, <1>5 DEF IInv, Stored, Persist, At, StepOf, OnRow, Busy

\* Every step, action by action and part by part.
LEMMA StepIInv == IInv /\ [Next]_vars => IInv'
<1> SUFFICES ASSUME IInv, [Next]_vars PROVE IInv'
  OBVIOUS
<1>0. TypeOK /\ OnRow /\ Marked /\ Alone /\ Stored /\ Follows
  BY DEF IInv
<1>s. 0 \in Steps /\ None \notin Steps /\ \A s \in Steps : s \in Nat /\ (s # 0 => s - 1 \in Steps)
                 /\ (s + 1 <= LastStep => s + 1 \in Steps) /\ s + 1 - 1 = s
  BY GmailAssumption DEF GmailAssumption, Steps
<1> USE <1>0, <1>s DEF At, StepOf, Goto, Leave
<1>1. CASE Schedule
  <2>1. TypeOK'
    BY <1>1 DEF TypeOK, Schedule, TaskStatus, DeliveryStatus, PCs
  <2>2. OnRow'
    BY <1>1 DEF TypeOK, OnRow, Busy, Schedule
  <2>3. Marked'
    BY <1>1 DEF TypeOK, OnRow, Marked, Alone, Busy, Schedule
  <2>4. Alone'
    BY <1>1 DEF TypeOK, OnRow, Marked, Alone, Busy, Schedule
  <2>5. Stored'
    BY <1>1 DEF TypeOK, OnRow, Marked, Alone, Stored, Busy, Schedule
  <2>6. Follows'
    BY <1>1 DEF TypeOK, OnRow, Stored, Follows, Busy, Schedule
  <2> QED BY <2>1, <2>2, <2>3, <2>4, <2>5, <2>6 DEF IInv
<1>2. CASE Stop
  <2>1. TypeOK'
    BY <1>2 DEF TypeOK, Stop, records, TaskStatus, DeliveryStatus, PCs
  <2>2. OnRow'
    BY <1>2 DEF TypeOK, OnRow, Busy, Stop, records
  <2>3. Marked'
    BY <1>2 DEF TypeOK, OnRow, Marked, Alone, Busy, Stop, records
  <2>4. Alone'
    BY <1>2 DEF TypeOK, OnRow, Marked, Alone, Busy, Stop, records
  <2>5. Stored'
    BY <1>2 DEF TypeOK, OnRow, Marked, Alone, Stored, Busy, Stop, records
  <2>6. Follows'
    BY <1>2 DEF TypeOK, OnRow, Stored, Follows, Busy, Stop, records
  <2> QED BY <2>1, <2>2, <2>3, <2>4, <2>5, <2>6 DEF IInv
<1>3. CASE Retire
  <2>1. TypeOK'
    BY <1>3 DEF TypeOK, Retire, TaskStatus, DeliveryStatus, PCs
  <2>2. OnRow'
    BY <1>3 DEF TypeOK, OnRow, Busy, Retire
  <2>3. Marked'
    BY <1>3 DEF TypeOK, OnRow, Marked, Alone, Busy, Retire
  <2>4. Alone'
    BY <1>3 DEF TypeOK, OnRow, Marked, Alone, Busy, Retire
  <2>5. Stored'
    BY <1>3 DEF TypeOK, OnRow, Marked, Alone, Stored, Busy, Retire
  <2>6. Follows'
    BY <1>3 DEF TypeOK, OnRow, Stored, Follows, Busy, Retire
  <2> QED BY <2>1, <2>2, <2>3, <2>4, <2>5, <2>6 DEF IInv
<1>4. ASSUME NEW w \in Workers, Start(w) PROVE IInv'
  <2>1. TypeOK'
    BY <1>4 DEF TypeOK, Start, Recovered, Stale, TaskStatus, DeliveryStatus, PCs
  <2>2. OnRow'
    BY <1>4 DEF TypeOK, OnRow, Busy, Start, Recovered, Stale
  <2>3. Marked'
    BY <1>4 DEF TypeOK, OnRow, Marked, Alone, Busy, Start, Recovered, Stale
  <2>4. Alone'
    BY <1>4 DEF TypeOK, OnRow, Marked, Alone, Busy, Start, Recovered, Stale
  <2>5. Stored'
    BY <1>4 DEF TypeOK, OnRow, Marked, Alone, Stored, Busy, Start, Recovered, Stale
  <2>6. Follows'
    BY <1>4 DEF TypeOK, OnRow, Stored, Follows, Busy, Start, Recovered, Stale
  <2> QED BY <2>1, <2>2, <2>3, <2>4, <2>5, <2>6 DEF IInv
<1>5. ASSUME NEW w \in Workers, Claim(w) PROVE IInv'
  <2>1. TypeOK'
    BY <1>5 DEF TypeOK, Claim, TaskStatus, DeliveryStatus, PCs
  <2>2. OnRow'
    BY <1>5 DEF TypeOK, OnRow, Busy, Claim
  <2>3. Marked'
    BY <1>5 DEF TypeOK, OnRow, Marked, Alone, Busy, Claim
  <2>4. Alone'
    BY <1>5 DEF TypeOK, OnRow, Marked, Alone, Busy, Claim
  <2>5. Stored'
    BY <1>5 DEF TypeOK, OnRow, Marked, Alone, Stored, Busy, Claim
  <2>6. Follows'
    BY <1>5 DEF TypeOK, OnRow, Stored, Follows, Busy, Claim
  <2> QED BY <2>1, <2>2, <2>3, <2>4, <2>5, <2>6 DEF IInv
<1>6. ASSUME NEW w \in Workers, Check(w) PROVE IInv'
  <2>1. TypeOK'
    BY <1>6 DEF TypeOK, Check, Mark, Markable, Recorded, PutBack, TaskStatus, DeliveryStatus, PCs, Final
  <2>2. OnRow'
    BY <1>6 DEF TypeOK, OnRow, Busy, Check, Mark, Markable, Recorded, PutBack
  <2>3. Marked'
    BY <1>6 DEF TypeOK, OnRow, Marked, Alone, Busy, Check, Mark, Markable, Recorded, PutBack
  <2>4. Alone'
    BY <1>6 DEF TypeOK, OnRow, Marked, Alone, Busy, Check, Mark, Markable, Recorded, PutBack
  <2>5. Stored'
    BY <1>6 DEF TypeOK, OnRow, Marked, Alone, Stored, Busy, Check, Mark, Markable, Recorded, PutBack, Final
  <2>6. Follows'
    BY <1>6 DEF TypeOK, OnRow, Stored, Follows, Busy, Check, Mark, Markable, Recorded, PutBack
  <2> QED BY <2>1, <2>2, <2>3, <2>4, <2>5, <2>6 DEF IInv
<1>7. ASSUME NEW w \in Workers, Recheck(w) PROVE IInv'
  <2>1. TypeOK'
    BY <1>7 DEF TypeOK, Recheck, Mark, Markable, TaskStatus, DeliveryStatus, PCs, Final
  <2>2. OnRow'
    BY <1>7 DEF TypeOK, OnRow, Busy, Recheck, Mark, Markable
  <2>3. Marked'
    BY <1>7 DEF TypeOK, OnRow, Marked, Alone, Busy, Recheck, Mark, Markable
  <2>4. Alone'
    BY <1>7 DEF TypeOK, OnRow, Marked, Alone, Busy, Recheck, Mark, Markable
  <2>5. Stored'
    BY <1>7 DEF TypeOK, OnRow, Marked, Alone, Stored, Busy, Recheck, Mark, Markable, Final
  <2>6. Follows'
    BY <1>7 DEF TypeOK, OnRow, Stored, Follows, Busy, Recheck, Mark, Markable
  <2> QED BY <2>1, <2>2, <2>3, <2>4, <2>5, <2>6 DEF IInv
<1>8. ASSUME NEW w \in Workers, Stamp(w) PROVE IInv'
  <2>1. TypeOK'
    BY <1>8, StampTyped DEF IInv
  <2>2. OnRow'
    BY <1>8 DEF TypeOK, OnRow, Busy, Stamp, Stampable, PutBack
  <2>3. Marked'
    BY <1>8 DEF TypeOK, OnRow, Marked, Alone, Busy, Stamp, Stampable, PutBack
  <2>4. Alone'
    BY <1>8 DEF TypeOK, OnRow, Marked, Alone, Busy, Stamp, Stampable, PutBack
  <2>5. Stored'
    BY <1>8 DEF TypeOK, OnRow, Marked, Alone, Stored, Busy, Stamp, Stampable, PutBack
  <2>6. Follows'
    BY <1>8 DEF TypeOK, OnRow, Stored, Follows, Busy, Stamp, Stampable, PutBack
  <2> QED BY <2>1, <2>2, <2>3, <2>4, <2>5, <2>6 DEF IInv
<1>9. ASSUME NEW w \in Workers, Submit(w) PROVE IInv'
  <2>1. TypeOK'
    BY <1>9, SubmitTyped DEF IInv
  <2>2. OnRow'
    BY <1>9 DEF TypeOK, OnRow, Busy, Submit, records
  <2>3. Marked'
    BY <1>9 DEF TypeOK, OnRow, Marked, Alone, Busy, Submit, records
  <2>4. Alone'
    BY <1>9 DEF TypeOK, OnRow, Marked, Alone, Busy, Submit, records
  <2>5. Stored'
    BY <1>9 DEF TypeOK, OnRow, Marked, Alone, Stored, Busy, Submit, records
  <2>6. Follows'
    BY <1>9 DEF TypeOK, OnRow, Stored, Follows, Busy, Submit, records
  <2> QED BY <2>1, <2>2, <2>3, <2>4, <2>5, <2>6 DEF IInv
<1>10. ASSUME NEW w \in Workers, Persist(w) PROVE IInv'
  <2>1. TypeOK'
    BY <1>10, PersistTyped DEF IInv
  <2>2. OnRow'
    BY <1>10 DEF TypeOK, OnRow, Busy, Persist
  <2>3. Marked'
    BY <1>10 DEF TypeOK, OnRow, Marked, Alone, Busy, Persist
  <2>4. Alone'
    BY <1>10 DEF TypeOK, OnRow, Marked, Alone, Busy, Persist
  <2>5. Stored'
    BY <1>10, PersistStored DEF IInv
  <2>6. Follows'
    BY <1>10 DEF TypeOK, OnRow, Stored, Follows, Busy, Persist
  <2> QED BY <2>1, <2>2, <2>3, <2>4, <2>5, <2>6 DEF IInv
<1>11. ASSUME NEW w \in Workers, Except(w) PROVE IInv'
  <2>1. TypeOK'
    BY <1>11 DEF TypeOK, Except, OutcomeOf, TaskStatus, DeliveryStatus, PCs, Final
  <2>2. OnRow'
    BY <1>11 DEF TypeOK, OnRow, Busy, Except, OutcomeOf
  <2>3. Marked'
    BY <1>11 DEF TypeOK, OnRow, Marked, Alone, Busy, Except, OutcomeOf
  <2>4. Alone'
    BY <1>11 DEF TypeOK, OnRow, Marked, Alone, Busy, Except, OutcomeOf
  <2>5. Stored'
    BY <1>11 DEF TypeOK, OnRow, Marked, Alone, Stored, Busy, Except, OutcomeOf, Final
  <2>6. Follows'
    BY <1>11 DEF TypeOK, OnRow, Stored, Follows, Busy, Except, OutcomeOf
  <2> QED BY <2>1, <2>2, <2>3, <2>4, <2>5, <2>6 DEF IInv
<1>12. ASSUME NEW w \in Workers, Record(w) PROVE IInv'
  <2>1. TypeOK'
    BY <1>12 DEF TypeOK, Record, Mark, Markable, TaskStatus, DeliveryStatus, PCs, Final
  <2>2. OnRow'
    BY <1>12 DEF TypeOK, OnRow, Busy, Record, Mark, Markable
  <2>3. Marked'
    BY <1>12 DEF TypeOK, OnRow, Marked, Alone, Busy, Record, Mark, Markable
  <2>4. Alone'
    BY <1>12 DEF TypeOK, OnRow, Marked, Alone, Busy, Record, Mark, Markable
  <2>5. Stored'
    BY <1>12 DEF TypeOK, OnRow, Marked, Alone, Stored, Busy, Record, Mark, Markable, Final
  <2>6. Follows'
    BY <1>12 DEF TypeOK, OnRow, Stored, Follows, Busy, Record, Mark, Markable
  <2> QED BY <2>1, <2>2, <2>3, <2>4, <2>5, <2>6 DEF IInv
<1>13. ASSUME NEW w \in Workers, NextStep(w) PROVE IInv'
  <2>1. TypeOK'
    BY <1>13 DEF TypeOK, NextStep, Held, Queue, Mark, Markable, TaskStatus, DeliveryStatus, PCs, Final
  <2>2. OnRow'
    BY <1>13 DEF TypeOK, OnRow, Busy, NextStep, Held, Queue, Mark, Markable
  <2>3. Marked'
    BY <1>13 DEF TypeOK, OnRow, Marked, Alone, Busy, NextStep, Held, Queue, Mark, Markable
  <2>4. Alone'
    BY <1>13 DEF TypeOK, OnRow, Marked, Alone, Busy, NextStep, Held, Queue, Mark, Markable
  <2>5. Stored'
    BY <1>13 DEF TypeOK, OnRow, Marked, Alone, Stored, Busy, NextStep, Held, Queue, Mark, Markable, Final
  <2>6. Follows'
    BY <1>13 DEF TypeOK, OnRow, Stored, Follows, Busy, NextStep, Held, Queue, Mark, Markable
  <2> QED BY <2>1, <2>2, <2>3, <2>4, <2>5, <2>6 DEF IInv
<1>14. ASSUME NEW w \in Workers, Finish(w) PROVE IInv'
  <2>1. TypeOK'
    BY <1>14 DEF TypeOK, Finish, TaskStatus, DeliveryStatus, PCs
  <2>2. OnRow'
    BY <1>14 DEF TypeOK, OnRow, Busy, Finish
  <2>3. Marked'
    BY <1>14 DEF TypeOK, OnRow, Marked, Alone, Busy, Finish
  <2>4. Alone'
    BY <1>14 DEF TypeOK, OnRow, Marked, Alone, Busy, Finish
  <2>5. Stored'
    BY <1>14 DEF TypeOK, OnRow, Marked, Alone, Stored, Busy, Finish
  <2>6. Follows'
    BY <1>14 DEF TypeOK, OnRow, Stored, Follows, Busy, Finish
  <2> QED BY <2>1, <2>2, <2>3, <2>4, <2>5, <2>6 DEF IInv
<1>15. ASSUME NEW w \in Workers, Fail(w) PROVE IInv'
  <2>1. TypeOK'
    BY <1>15 DEF TypeOK, Fail, Healable, TaskStatus, DeliveryStatus, PCs
  <2>2. OnRow'
    BY <1>15 DEF TypeOK, OnRow, Busy, Fail, Healable
  <2>3. Marked'
    BY <1>15 DEF TypeOK, OnRow, Marked, Alone, Busy, Fail, Healable
  <2>4. Alone'
    BY <1>15 DEF TypeOK, OnRow, Marked, Alone, Busy, Fail, Healable
  <2>5. Stored'
    BY <1>15 DEF TypeOK, OnRow, Marked, Alone, Stored, Busy, Fail, Healable
  <2>6. Follows'
    BY <1>15 DEF TypeOK, OnRow, Stored, Follows, Busy, Fail, Healable
  <2> QED BY <2>1, <2>2, <2>3, <2>4, <2>5, <2>6 DEF IInv
<1>16. ASSUME NEW w \in Workers, Die(w) PROVE IInv'
  <2>1. TypeOK'
    BY <1>16 DEF TypeOK, Die, records, TaskStatus, DeliveryStatus, PCs
  <2>2. OnRow'
    BY <1>16 DEF TypeOK, OnRow, Busy, Die, records
  <2>3. Marked'
    BY <1>16 DEF TypeOK, OnRow, Marked, Alone, Busy, Die, records
  <2>4. Alone'
    BY <1>16 DEF TypeOK, OnRow, Marked, Alone, Busy, Die, records
  <2>5. Stored'
    BY <1>16 DEF TypeOK, OnRow, Marked, Alone, Stored, Busy, Die, records
  <2>6. Follows'
    BY <1>16 DEF TypeOK, OnRow, Stored, Follows, Busy, Die, records
  <2> QED BY <2>1, <2>2, <2>3, <2>4, <2>5, <2>6 DEF IInv
<1>17. CASE UNCHANGED vars
  BY <1>17 DEF vars, records, IInv, TypeOK, OnRow, Marked, Alone, Stored, Follows, Busy
<1> QED
  BY <1>1, <1>2, <1>3, <1>4, <1>5, <1>6, <1>7, <1>8, <1>9, <1>10, <1>11, <1>12, <1>13, <1>14, <1>15, <1>16, <1>17 DEF Next, Work

\* The inductive invariant holds throughout (the types are its first part).
THEOREM Invariance == Spec => []IInv
  BY InitIInv, StepIInv, PTL DEF Spec

\* Whatever dies, hangs or is recovered around the submission, one step is sent once at
\* most (gmail/submission.py stamp_submission_attempt, recover_stale_current_gmail_task).
THEOREM SentOnceTheorem == Spec => []SentOnce
<1>1. IInv => SentOnce
  BY DEF IInv, Marked, SentOnce
<1> QED BY <1>1, Invariance, PTL

\* A receipt that says sent has its Message, of a mail that Gmail has
\* (gmail/tasks/follow_up.py handle_gmail_follow_up).
THEOREM SentIsStoredTheorem == Spec => []SentIsStored
<1>1. IInv => SentIsStored
  BY DEF IInv, Stored, SentIsStored
<1> QED BY <1>1, Invariance, PTL

\* A step goes out only after its predecessor is stored (_enqueue_next_step).
THEOREM InOrderTheorem == Spec => []InOrder
<1>1. IInv => InOrder
  <2> SUFFICES ASSUME IInv, NEW s \in Steps \ {0}, sends[s] > 0 PROVE message[s - 1]
    BY DEF InOrder
  <2>1. sends[s] = 1
    BY DEF IInv, Marked
  <2> QED BY <2>1 DEF IInv, Marked, Follows
<1> QED BY <1>1, Invariance, PTL
------------------------------------------------------------------------------
(* The lane implements AtMostOnce.                                         *)

PromiseStep == [Promise!Next]_(Promise!vars)

\* The receipts of one transaction as the promise sees them: a marked step is closed or
\* stays as it is, an unmarked one stays unsent or withheld.
Settles ==
  /\ marker' = marker /\ sends' = sends
  /\ \A s \in Steps :
       \/ delivery'[s] = delivery[s]
       \/ marker[s] /\ (delivery[s] \in Final => delivery'[s] \in Final)
       \/ ~marker[s] /\ delivery[s] # "stopped" /\ delivery'[s] # "stopped"

\* Such a transaction closes the steps it changes, in one step of the promise.
LEMMA SettleStep ==
  ASSUME Settles
  PROVE  PromiseStep
<1> DEFINE phase == [s \in Steps |-> Phase(s)]
           delivered == sends
           S == {s \in Steps : Phase(s)' # Phase(s)}
<1>1. \A s \in Steps : Phase(s)' = Phase(s)
                       \/ (Phase(s) = "inFlight" /\ Phase(s)' = "closed")
  BY DEF Settles, Phase
<1>2. \A s \in S : phase[s] \in {"unsent", "inFlight"} /\ Phase(s)' = "closed"
  BY <1>1
<1>3. phase' = [s \in Steps |-> IF s \in S THEN "closed" ELSE phase[s]]
  BY <1>1, <1>2
<1>4. delivered' = delivered
  BY DEF Settles
<1>5. Promise!CloseAll(S)
  BY <1>2, <1>3, <1>4 DEF Promise!CloseAll
<1> QED BY <1>5 DEF PromiseStep, Promise!Next

\* An unmarked step that is stopped is withheld.
LEMMA WithholdStep ==
  ASSUME TypeOK, NEW n \in Steps, ~marker[n], delivery[n] # "stopped",
         delivery' = [delivery EXCEPT ![n] = "stopped"], marker' = marker, sends' = sends
  PROVE  PromiseStep
<1> DEFINE phase == [s \in Steps |-> Phase(s)]
           delivered == sends
<1>1. phase[n] = "unsent" /\ Phase(n)' = "withheld"
  BY DEF Phase, TypeOK
<1>2. \A s \in Steps : s # n => Phase(s)' = Phase(s)
  BY DEF Phase, TypeOK
<1>3. phase' = [phase EXCEPT ![n] = "withheld"]
  BY <1>1, <1>2
<1>4. Promise!Withhold(n)
  BY <1>1, <1>3 DEF Promise!Withhold
<1> QED BY <1>4 DEF PromiseStep, Promise!Next

\* Marking a receipt: closed, withheld, or still unsent.
LEMMA MarkStep ==
  ASSUME TypeOK, NEW s \in Steps, NEW status \in Final \union {"failed"}, NEW w, NEW then,
         Mark(s, status, w, then), status = "failed" => ~marker[s],
         marker' = marker, sends' = sends
  PROVE  PromiseStep
<1>1. CASE ~Markable(s, status)
  BY <1>1, SettleStep DEF Mark, Settles
<1>2. CASE Markable(s, status) /\ status = "stopped" /\ ~marker[s]
  <2>1. delivery' = [delivery EXCEPT ![s] = "stopped"]
    BY <1>2 DEF Mark
  <2>2. CASE delivery[s] = "stopped"
    BY <2>1, <2>2, SettleStep DEF Settles, TypeOK
  <2>3. CASE delivery[s] # "stopped"
    BY <2>1, <2>3, <1>2, WithholdStep
  <2> QED BY <2>2, <2>3
<1>3. CASE Markable(s, status) /\ (status # "stopped" \/ marker[s])
  <2>1. delivery' = [delivery EXCEPT ![s] = status]
    BY <1>3 DEF Mark
  <2>2. \A t \in Steps : delivery'[t] = IF t = s THEN status ELSE delivery[t]
    BY <2>1 DEF TypeOK
  <2>3. Settles
    BY <1>3, <2>2 DEF Settles, Markable, Final
  <2> QED BY <2>3, SettleStep
<1> QED BY <1>1, <1>2, <1>3

\* The marker begins the attempt, after which Gmail may act on it once.
LEMMA StampStep ==
  ASSUME IInv, NEW w \in Workers, Stamp(w) \/ Submit(w)
  PROVE  PromiseStep
<1> DEFINE phase == [s \in Steps |-> Phase(s)]
           delivered == sends
<1>1. PICK n \in Steps : n = StepOf(w) /\ TypeOK
  BY DEF IInv, OnRow, Busy, Stamp, Submit, At
<1>2. CASE Stamp(w)
  <2>1. CASE UNCHANGED <<marker, delivery>>
    BY <1>2, <2>1, SettleStep DEF Settles, Stamp
  <2>2. CASE marker' # marker \/ delivery' # delivery
    <3>1. /\ ~marker[n] /\ delivery[n] = "queued" /\ sends' = sends
          /\ marker' = [marker EXCEPT ![n] = TRUE]
          /\ delivery' = [delivery EXCEPT ![n] = "sending"]
      BY <1>1, <1>2, <2>2 DEF Stamp, Stampable
    <3>a. marker'[n] /\ \A s \in Steps : s # n => marker'[s] = marker[s]
      BY <1>1, <3>1, Zenon DEF TypeOK
    <3>b. delivery'[n] = "sending" /\ \A s \in Steps : s # n => delivery'[s] = delivery[s]
      BY <1>1, <3>1 DEF TypeOK
    <3>2. phase[n] = "unsent" /\ Phase(n)' = "inFlight"
      BY <1>1, <3>1, <3>a, <3>b DEF Phase, Final
    <3>3. \A s \in Steps : s # n => Phase(s)' = Phase(s)
      BY <3>a, <3>b DEF Phase
    <3>4. phase' = [phase EXCEPT ![n] = "inFlight"]
      BY <3>2, <3>3
    <3>5. Promise!Begin(n)
      BY <3>1, <3>2, <3>4 DEF Promise!Begin
    <3> QED BY <1>1, <3>5 DEF PromiseStep, Promise!Next
  <2> QED BY <2>1, <2>2
<1>3. CASE Submit(w)
  <2>1. CASE sends' = sends
    BY <1>3, <2>1, SettleStep DEF Settles, Submit, records
  <2>2. CASE sends' # sends
    <3>1. /\ marker[n] /\ sends[n] = 0
          /\ sends' = [sends EXCEPT ![n] = @ + 1]
          /\ UNCHANGED <<marker, delivery>>
      BY <1>1, <1>3, <2>2 DEF IInv, Alone, Submit, records
    <3>2. phase[n] \in {"inFlight", "closed"} /\ phase' = phase
      BY <1>1, <3>1 DEF Phase
    <3>3. sends' = [sends EXCEPT ![n] = 1]
      BY <1>1, <3>1 DEF TypeOK
    <3>4. Promise!Deliver(n)
      BY <3>1, <3>2, <3>3 DEF Promise!Deliver
    <3> QED BY <1>1, <3>4 DEF PromiseStep, Promise!Next
  <2> QED BY <2>1, <2>2
<1> QED BY <1>2, <1>3

\* The handler's reads: a stop, a stored Message, an earlier submission.
LEMMA CheckStep ==
  ASSUME IInv, NEW w \in Workers, Check(w) \/ Recheck(w) \/ Record(w)
  PROVE  PromiseStep
<1> DEFINE s == StepOf(w)
<1>0. s \in Steps /\ TypeOK
  BY DEF IInv, OnRow, Busy, Check, Recheck, Record, At
<1>1. marker' = marker /\ sends' = sends
  BY DEF Check, Recheck, Record
<1>2. \/ UNCHANGED delivery
      \/ \E status \in Final \union {"failed"}, then \in PCs :
           Mark(s, status, w, then) /\ (status = "failed" => ~marker[s])
  BY DEF Check, Recheck, Record, Final, PCs, PutBack
<1>3. CASE UNCHANGED delivery
  BY <1>1, <1>3, SettleStep DEF Settles
<1>4. CASE \E status \in Final \union {"failed"}, then \in PCs :
             Mark(s, status, w, then) /\ (status = "failed" => ~marker[s])
  BY <1>0, <1>1, <1>4, MarkStep
<1> QED BY <1>2, <1>3, <1>4

\* The successor: queued, planned, or withheld by a stop.
LEMMA NextStepStep ==
  ASSUME IInv, NEW w \in Workers, NextStep(w)
  PROVE  PromiseStep
<1> DEFINE n == StepOf(w) + 1
<1>0. TypeOK /\ marker' = marker /\ sends' = sends
  BY DEF IInv, NextStep
<1>n. n <= LastStep => n \in Steps
  BY GmailAssumption DEF GmailAssumption, IInv, OnRow, Busy, NextStep, At, Steps
<1>1. CASE n <= LastStep /\ Mark(n, "stopped", w, "finish")
  BY <1>0, <1>n, <1>1, MarkStep DEF Final
<1>2. CASE n <= LastStep /\ ~Held(n) /\ Queue(n)
  <2>1. CASE UNCHANGED delivery
    BY <1>0, <2>1, SettleStep DEF Settles
  <2>2. CASE delivery' # delivery
    <3>1. n \in Steps /\ delivery[n] \notin {"stopped", "unclear"}
      BY <1>n, <1>2 DEF Held
    <3>2. PICK status \in {"sent", "queued"} :
            /\ delivery' = [delivery EXCEPT ![n] = status]
            /\ marker[n] /\ delivery[n] \in Final => status = "sent"
      <4>1. CASE task[n] = "none" \/ (task[n] = "failed" /\ ~marker[n])
        <5>1. ~marker[n]
          BY <3>1, <4>1 DEF IInv, Marked
        <5>2. delivery' = [delivery EXCEPT ![n] = IF @ = "sent" THEN @ ELSE "queued"]
          BY <1>2, <4>1 DEF Queue
        <5> QED BY <5>1, <5>2
      <4>2. CASE ~(task[n] = "none" \/ (task[n] = "failed" /\ ~marker[n]))
        BY <1>2, <2>2, <4>2 DEF Queue
      <4> QED BY <4>1, <4>2
    <3>3. \A s \in Steps : delivery'[s] = IF s = n THEN status ELSE delivery[s]
      BY <1>0, <3>2 DEF TypeOK
    <3>4. Settles
      BY <1>0, <3>1, <3>2, <3>3 DEF Settles, Final
    <3> QED BY <3>4, SettleStep
  <2> QED BY <2>1, <2>2
<1>3. CASE UNCHANGED delivery
  BY <1>0, <1>3, SettleStep DEF Settles
<1>4. CASE n <= LastStep /\ delivery' = [delivery EXCEPT ![n] = IF @ = "none" THEN "planned" ELSE @]
  <2>1. \A s \in Steps : delivery'[s] = delivery[s]
                         \/ (delivery[s] = "none" /\ delivery'[s] = "planned")
    BY <1>0, <1>4, <1>n DEF TypeOK
  <2>2. Settles
    BY <1>0, <2>1 DEF Settles, Final
  <2> QED BY <2>2, SettleStep
<1> QED BY <1>1, <1>2, <1>3, <1>4 DEF NextStep

\* The except clause, the failed handler and the recovery at a start.
LEMMA RecoveryStep ==
  ASSUME IInv, NEW w \in Workers, Except(w) \/ Fail(w) \/ Start(w)
  PROVE  PromiseStep
<1>0. TypeOK /\ marker' = marker /\ sends' = sends
  BY DEF IInv, Except, Fail, Start
<1>1. CASE Except(w)
  <2>1. StepOf(w) \in Steps
    BY <1>1 DEF IInv, OnRow, Busy, Except, At
  <2>2. \A s \in Steps : delivery'[s] = delivery[s]
          \/ (delivery[s] \notin Final /\ delivery'[s] = OutcomeOf(s))
    BY <1>0, <1>1, <2>1 DEF Except, TypeOK
  <2>3. Settles
    BY <1>0, <2>2 DEF Settles, OutcomeOf, Final
  <2> QED BY <2>3, SettleStep
<1>2. CASE Fail(w)
  <2>1. \A s \in Steps : delivery'[s] = delivery[s]
          \/ (marker[s] /\ delivery'[s] = "sent")
    BY <1>0, <1>2 DEF Fail, Healable, TypeOK
  <2>2. Settles
    BY <1>0, <2>1 DEF Settles, Final
  <2> QED BY <2>2, SettleStep
<1>3. CASE Start(w)
  <2>1. \A s \in Steps : delivery'[s] \in {delivery[s], Recovered(s).receipt}
    BY <1>3 DEF Start
  <2>2. \A s \in Steps : message[s] => marker[s]
    BY DEF IInv, Stored, Marked
  <2>3. Settles
    BY <1>0, <2>1, <2>2 DEF Settles, Recovered, Final
  <2> QED BY <2>3, SettleStep
<1> QED BY <1>1, <1>2, <1>3

\* What leaves marker, receipt and Gmail alone, or plans the first step.
LEMMA OtherStep ==
  ASSUME IInv,
         \/ Schedule \/ Stop \/ Retire \/ UNCHANGED vars
         \/ \E w \in Workers : Claim(w) \/ Persist(w) \/ Finish(w) \/ Die(w)
  PROVE  PromiseStep
<1>1. CASE Schedule
  <2>1. 0 \in Steps
    BY GmailAssumption DEF GmailAssumption, Steps
  <2>2. \A s \in Steps : delivery'[s] = delivery[s]
          \/ (delivery[s] \notin Final /\ delivery'[s] \in {"queued", "planned"})
    BY <1>1, <2>1 DEF Schedule, IInv, TypeOK, Final
  <2>3. Settles
    BY <1>1, <2>2 DEF Schedule, Settles, Final
  <2> QED BY <2>3, SettleStep
<1>2. CASE UNCHANGED <<marker, delivery, sends>>
  BY <1>2, SettleStep DEF Settles
<1> QED BY <1>1, <1>2 DEF Stop, Retire, Claim, Persist, Finish, Die, vars, records

\* Every step of the lane is a step of the promise or a stutter.
LEMMA StepPromise ==
  ASSUME IInv, [Next]_vars
  PROVE  PromiseStep
  BY StampStep, CheckStep, NextStepStep, RecoveryStep, OtherStep DEF Next, Work

\* The lane starts where the promise starts.
LEMMA InitPromise ==
  ASSUME Init
  PROVE  Promise!Init
  BY DEF Init, Phase, Promise!Init

\* gmail/submission.py: with every hung worker, death, recovery and requeue, a step is an
\* attempt recorded before Gmail can see it, never taken back, and sent at most once.
THEOREM Refinement == Spec => Implements
<1>1. Init => Promise!Init
  BY InitPromise
<1>2. IInv /\ [Next]_vars => [Promise!Next]_(Promise!vars)
  BY StepPromise DEF PromiseStep
<1> QED BY Invariance, <1>1, <1>2, PTL DEF Spec, Implements, Promise!Spec

\* Once a stop is stored no step gets a row: a row is only made by the handoff and for
\* the successor, which both ask for the stop (enqueue_gmail_follow_up).
THEOREM StopHoldsTheorem == Spec => StopHolds
<1>1. ASSUME IInv, [Next]_vars, stop, NEW s \in Steps, task[s] = "none"
      PROVE  task'[s] = "none"
  <2> USE DEF IInv, TypeOK, OnRow, Busy, At, StepOf
  <2>1. CASE Schedule \/ Stop \/ Retire \/ UNCHANGED vars
    BY <1>1, <2>1 DEF Schedule, Stop, Retire, vars, records
  <2>2. ASSUME NEW w \in Workers, Check(w)
        PROVE  task'[s] = "none"
    <3>1. UNCHANGED task \/ PutBack(w, StepOf(w))
      BY <2>2 DEF Check
    <3> QED BY <1>1, <2>2, <3>1 DEF PutBack, Check
  <2>4. ASSUME NEW w \in Workers, Start(w) \/ Claim(w) \/ Recheck(w)
        PROVE  task'[s] = "none"
    <3>1. s \notin Stale
      BY <1>1 DEF Stale
    <3>2. CASE Start(w)
      BY <1>1, <3>1, <3>2 DEF Start
    <3>3. CASE Claim(w) \/ Recheck(w)
      BY <1>1, <3>3 DEF Claim, Recheck
    <3> QED BY <2>4, <3>2, <3>3
  <2>5. ASSUME NEW w \in Workers, Stamp(w)
        PROVE  task'[s] = "none"
    <3>1. UNCHANGED task \/ PutBack(w, StepOf(w))
      BY <2>5 DEF Stamp
    <3> QED BY <1>1, <2>5, <3>1 DEF PutBack, Stamp
  <2>3. ASSUME NEW w \in Workers,
               \/ Submit(w) \/ Persist(w) \/ Except(w) \/ Record(w) \/ NextStep(w)
               \/ Finish(w) \/ Fail(w) \/ Die(w)
        PROVE  task'[s] = "none"
    BY <1>1, <2>3 DEF Submit, Persist, Except, Record, NextStep, Held, Finish, Fail, Die, records
  <2> QED BY <1>1, <2>1, <2>2, <2>3, <2>4, <2>5 DEF Next, Work
<1>2. IInv /\ [Next]_vars => [stop => \A s \in Steps : task[s] = "none" => task'[s] = "none"]_vars
  BY <1>1
<1> QED BY Invariance, <1>2, PTL DEF Spec, StopHolds
==============================================================================
