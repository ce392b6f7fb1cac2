-------------------------- MODULE ConnectLaneProofs --------------------------
(***************************************************************************)
(* The safety of the connect lane, for any number of Deals, any limits and *)
(* any number of clicks, stops and errors: the inductive invariant, the     *)
(* theorems it carries, the refinement of AtMostOnce, and what a completion *)
(* notice made from the lane's records promises whenever it is frozen.      *)
(***************************************************************************)
EXTENDS CampaignOutcome, TLAPS

\* What the InviteAttempt knows, where the browser is, and whether this call
\* holds a reservation, at every point of the handler.
AttemptShape ==
  /\ pc \notin Clicking => attempt = NoAttempt
  /\ pc \in Clicking => cur \in Deals
  /\ ~attempt.clicked => /\ ~attempt.sentPossible /\ ~attempt.live
                         /\ pc \notin Clicking \ {"browse"}
  /\ attempt.connectOpen <=> pc \in {"clicking", "opened"}
  /\ pc = "clicking" => attempt.effect = "nothing"
  /\ pc = "submitted" => attempt.sentPossible
  /\ attempt.live => attempt.sentPossible \/ (attempt.connectOpen /\ attempt.effect = "invite")
  /\ attempt.effect = "limit" => ~attempt.live
  /\ reservation # "none" <=> attempt.clicked /\ cur \in Versioned
  /\ reservation = "today" => today > 0

\* The handler is past the first click of an attempt for d.
Attempting(d) == cur = d /\ pc \in Clicking /\ attempt.clicked

\* The handler holds a note it has not started on.
Unstarted(d) ==
  cur = d /\ (pc \in {"boundary", "stopNote"} \/ (pc = "browse" /\ ~attempt.clicked))

\* What the receipt, the budget and LinkedIn agree on.
NoteInv(d) ==
  /\ note[d] \in Fresh => sends[d] = 0 /\ ~inflight[d] /\ charged[d] = 0
  /\ charged[d] <= 1
  /\ sends[d] > 0 \/ inflight[d] \/ note[d] \in {"sending", "sent"} => charged[d] = 1
  /\ sends[d] <= 1
  /\ sends[d] = 1 /\ inflight[d] => li[d] # "none"
  /\ Attempting(d) => /\ note[d] \in {"sending", "unclear"}
                      /\ charged[d] = 1
                      /\ sends[d] = 1 \/ inflight[d] => attempt.live
                      /\ sends[d] = 1 => li[d] # "none"
  /\ Unstarted(d) => note[d] # "sending"

\* A pass that found room for one more invitation has not used it yet.
HasRoom ==
  \/ pc \in {"chosen", "status", "prepare", "boundary"}
  \/ pc \in Clicking /\ reservation = "none"
  \/ pc \in {"accepted", "charge"} /\ cur \notin Versioned

BudgetInv ==
  /\ today <= DailyLimit
  /\ HasRoom => today < DailyLimit
  /\ pc = "charge" => cur \notin Versioned

\* The inductive invariant.
IInv == TypeOK /\ AttemptShape /\ BudgetInv /\ \A d \in Versioned : NoteInv(d)

\* A new InviteAttempt knows of no click.
LEMMA FreshAttempt == NoAttempt \in Attempts
  BY DEF NoAttempt, Attempts, Effects

\* InviteAttempt.connect_clicking: a Connect click makes the one before it count as
\* possibly sent, and forgets nothing else.
LEMMA ConnectAttempt ==
  ASSUME attempt \in Attempts, NEW d, ConnectClicking(d)
  PROVE  /\ attempt' \in Attempts
         /\ attempt'.clicked
         /\ attempt'.sentPossible <=> attempt.sentPossible \/ attempt.connectOpen
         /\ attempt'.connectOpen
         /\ attempt'.effect = "nothing"
         /\ attempt'.live = attempt.live
<1> DEFINE maybe == attempt.sentPossible \/ attempt.connectOpen
           n == attempt.clicks + 1
<1>1. attempt' = [attempt EXCEPT !.clicked = TRUE, !.sentPossible = maybe,
                    !.connectOpen = TRUE, !.clicks = n, !.effect = "nothing"]
  BY Zenon DEF ConnectClicking, MayHaveSent
<1>2. maybe \in BOOLEAN /\ n \in Nat
  BY DEF Attempts
<1>3. maybe <=> attempt.sentPossible \/ attempt.connectOpen
  OBVIOUS
<1> HIDE DEF maybe, n
<1> QED BY <1>1, <1>2, <1>3 DEF Attempts, Effects

\* The click itself changes only what LinkedIn may have made of it.
LEMMA ClickedAttempt ==
  ASSUME attempt \in Attempts, NEW d, NEW effect \in Effects, Click(d, effect)
  PROVE  /\ attempt' \in Attempts
         /\ attempt'.clicked = attempt.clicked
         /\ attempt'.sentPossible = attempt.sentPossible
         /\ attempt'.connectOpen = attempt.connectOpen
         /\ attempt'.effect = effect
         /\ attempt'.live <=> attempt.live \/ effect = "invite"
<1> DEFINE live == attempt.live \/ effect = "invite"
<1>1. attempt' = [attempt EXCEPT !.effect = effect, !.live = live]
  BY Zenon DEF Click
<1>2. live \in BOOLEAN
  OBVIOUS
<1>3. live <=> attempt.live \/ effect = "invite"
  OBVIOUS
<1> HIDE DEF live
<1> QED BY <1>1, <1>2, <1>3 DEF Attempts

\* InviteAttempt.connect_settled(True) clears this click, never an earlier one.
LEMMA ProvenAttempt ==
  ASSUME attempt \in Attempts, NEW d, NEW to, Settled(d, to, TRUE)
  PROVE  /\ attempt' \in Attempts
         /\ attempt'.clicked = attempt.clicked
         /\ attempt'.sentPossible = attempt.sentPossible
         /\ attempt'.connectOpen = FALSE
         /\ attempt'.effect = attempt.effect
         /\ attempt'.live = attempt.live
<1> DEFINE maybe == attempt.sentPossible \/ ~TRUE
<1>1. attempt' = [attempt EXCEPT !.sentPossible = maybe, !.connectOpen = FALSE]
  BY Zenon DEF Settled
<1>2. maybe \in BOOLEAN /\ (maybe <=> attempt.sentPossible)
  OBVIOUS
<1> HIDE DEF maybe
<1> QED BY <1>1, <1>2 DEF Attempts

\* InviteAttempt.connect_settled(False): the attempt may have sent from now on.
LEMMA UnprovenAttempt ==
  ASSUME attempt \in Attempts, NEW d, NEW to, Settled(d, to, FALSE)
  PROVE  /\ attempt' \in Attempts
         /\ attempt'.clicked = attempt.clicked
         /\ attempt'.sentPossible
         /\ attempt'.connectOpen = FALSE
         /\ attempt'.effect = attempt.effect
         /\ attempt'.live = attempt.live
<1> DEFINE maybe == attempt.sentPossible \/ ~FALSE
<1>1. attempt' = [attempt EXCEPT !.sentPossible = maybe, !.connectOpen = FALSE]
  BY Zenon DEF Settled
<1>2. maybe = TRUE
  OBVIOUS
<1> HIDE DEF maybe
<1> QED BY <1>1, <1>2 DEF Attempts

\* InviteAttempt.send_clicking: the attempt may have sent from now on.
LEMMA SendAttempt ==
  ASSUME attempt \in Attempts, NEW d, SendClicking(d)
  PROVE  /\ attempt' \in Attempts
         /\ attempt'.clicked = attempt.clicked
         /\ attempt'.sentPossible
         /\ attempt'.connectOpen = attempt.connectOpen
         /\ attempt'.effect = "nothing"
         /\ attempt'.live = attempt.live
<1>1. attempt' = [attempt EXCEPT !.sentPossible = TRUE, !.effect = "nothing"]
  BY Zenon DEF SendClicking
<1> QED BY <1>1 DEF Attempts, Effects

\* The first Connect click takes the receipt into sending and reserves the budget;
\* a later one leaves both alone.
LEMMA ConnectClickingKeeps ==
  ASSUME IInv, LimitCoversAttempt, NEW d \in Deals, ConnectClicking(d)
  PROVE  IInv'
<1> USE LaneAssumption DEF LaneAssumption, IInv
<1>1. /\ attempt' \in Attempts
      /\ attempt'.clicked
      /\ attempt'.sentPossible <=> attempt.sentPossible \/ attempt.connectOpen
      /\ attempt'.connectOpen
      /\ attempt'.effect = "nothing"
      /\ attempt'.live = attempt.live
  BY ConnectAttempt DEF TypeOK
<1>2. TypeOK'
  BY <1>1 DEF ConnectClicking, Reserve, CanMark, Terminal, Marked, Record,
     TypeOK, States, Statuses, Effects, PCs, Clicking, Between, vars,
     dealVars, budgetVars, queueVars, workVars, linkedIn
<1>3. AttemptShape'
  BY <1>1 DEF ConnectClicking, Reserve, CanMark, Terminal, Marked, Record,
     TypeOK, PCs, AttemptShape, Clicking, Between, NoAttempt, vars, dealVars,
     budgetVars, queueVars, workVars, linkedIn
<1>4. BudgetInv'
  BY <1>1 DEF ConnectClicking, Reserve, CanMark, Terminal, Marked, Record,
     TypeOK, AttemptShape, BudgetInv, HasRoom, Clicking, Between, NoAttempt,
     vars, dealVars, budgetVars, queueVars, workVars, linkedIn
<1>5. ASSUME NEW e \in Versioned PROVE NoteInv(e)'
  BY <1>1 DEF ConnectClicking, Reserve, CanMark, Terminal, Marked, Record,
     TypeOK, AttemptShape, NoteInv, Attempting, Unstarted, Fresh, Clicking,
     States, Statuses, vars, dealVars, budgetVars, queueVars, workVars,
     linkedIn
<1> QED BY <1>2, <1>3, <1>4, <1>5

\* Announcing the Send click touches neither receipt nor budget.
LEMMA SendClickingKeeps ==
  ASSUME IInv, LimitCoversAttempt, NEW d \in Deals, SendClicking(d)
  PROVE  IInv'
<1> USE LaneAssumption DEF LaneAssumption, IInv
<1>1. /\ attempt' \in Attempts
      /\ attempt'.clicked = attempt.clicked
      /\ attempt'.sentPossible
      /\ attempt'.connectOpen = attempt.connectOpen
      /\ attempt'.effect = "nothing"
      /\ attempt'.live = attempt.live
  BY SendAttempt DEF TypeOK
<1>2. TypeOK'
  BY <1>1 DEF SendClicking, TypeOK, States, Statuses, Effects, PCs, Clicking,
     Between, vars, dealVars, budgetVars, queueVars, workVars, linkedIn
<1>3. AttemptShape'
  BY <1>1 DEF SendClicking, TypeOK, PCs, AttemptShape, Clicking, Between,
     NoAttempt, vars, dealVars, budgetVars, queueVars, workVars, linkedIn
<1>4. BudgetInv'
  BY <1>1 DEF SendClicking, TypeOK, AttemptShape, BudgetInv, HasRoom,
     Clicking, Between, NoAttempt, vars, dealVars, budgetVars, queueVars,
     workVars, linkedIn
<1>5. ASSUME NEW e \in Versioned PROVE NoteInv(e)'
  BY <1>1 DEF SendClicking, TypeOK, AttemptShape, NoteInv, Attempting,
     Unstarted, Fresh, Clicking, States, Statuses, vars, dealVars, budgetVars,
     queueVars, workVars, linkedIn
<1> QED BY <1>2, <1>3, <1>4, <1>5

\* An invite dialog proves that this click sent nothing: LinkedIn took it as an
\* opened dialog.
LEMMA DialogProvenKeeps ==
  ASSUME IInv, LimitCoversAttempt, NEW d \in Deals, DialogProven(d)
  PROVE  IInv'
<1> USE LaneAssumption DEF LaneAssumption, IInv
<1>1. Settled(d, "dialog", TRUE)
  BY DEF DialogProven
<1>2. /\ attempt' \in Attempts
      /\ attempt'.clicked = attempt.clicked
      /\ attempt'.sentPossible = attempt.sentPossible
      /\ attempt'.connectOpen = FALSE
      /\ attempt'.effect = attempt.effect
      /\ attempt'.live = attempt.live
  BY <1>1, ProvenAttempt DEF TypeOK
<1>3. TypeOK'
  BY <1>1, <1>2 DEF DialogProven, Settled, TypeOK, States, Statuses, Effects,
     PCs, Clicking, Between, vars, dealVars, budgetVars, queueVars, workVars,
     linkedIn
<1>4. AttemptShape'
  BY <1>1, <1>2 DEF DialogProven, Settled, TypeOK, PCs, AttemptShape,
     Clicking, Between, NoAttempt, vars, dealVars, budgetVars, queueVars,
     workVars, linkedIn
<1>5. BudgetInv'
  BY <1>1, <1>2 DEF DialogProven, Settled, TypeOK, AttemptShape, BudgetInv,
     HasRoom, Clicking, Between, NoAttempt, vars, dealVars, budgetVars,
     queueVars, workVars, linkedIn
<1>6. ASSUME NEW e \in Versioned PROVE NoteInv(e)'
  BY <1>1, <1>2 DEF DialogProven, Settled, TypeOK, AttemptShape, NoteInv,
     Attempting, Unstarted, Fresh, Clicking, States, Statuses, vars, dealVars,
     budgetVars, queueVars, workVars, linkedIn
<1> QED BY <1>3, <1>4, <1>5, <1>6

\* An invite surface beside a Pending control proves nothing.
LEMMA DialogUnprovenKeeps ==
  ASSUME IInv, LimitCoversAttempt, NEW d \in Deals, DialogUnproven(d)
  PROVE  IInv'
<1> USE LaneAssumption DEF LaneAssumption, IInv
<1>1. Settled(d, "dialog", FALSE)
  BY DEF DialogUnproven
<1>2. /\ attempt' \in Attempts
      /\ attempt'.clicked = attempt.clicked
      /\ attempt'.sentPossible
      /\ attempt'.connectOpen = FALSE
      /\ attempt'.effect = attempt.effect
      /\ attempt'.live = attempt.live
  BY <1>1, UnprovenAttempt DEF TypeOK
<1>3. TypeOK'
  BY <1>1, <1>2 DEF DialogUnproven, Settled, TypeOK, States, Statuses,
     Effects, PCs, Clicking, Between, vars, dealVars, budgetVars, queueVars,
     workVars, linkedIn
<1>4. AttemptShape'
  BY <1>1, <1>2 DEF DialogUnproven, Settled, TypeOK, PCs, AttemptShape,
     Clicking, Between, NoAttempt, vars, dealVars, budgetVars, queueVars,
     workVars, linkedIn
<1>5. BudgetInv'
  BY <1>1, <1>2 DEF DialogUnproven, Settled, TypeOK, AttemptShape, BudgetInv,
     HasRoom, Clicking, Between, NoAttempt, vars, dealVars, budgetVars,
     queueVars, workVars, linkedIn
<1>6. ASSUME NEW e \in Versioned PROVE NoteInv(e)'
  BY <1>1, <1>2 DEF DialogUnproven, Settled, TypeOK, AttemptShape, NoteInv,
     Attempting, Unstarted, Fresh, Clicking, States, Statuses, vars, dealVars,
     budgetVars, queueVars, workVars, linkedIn
<1> QED BY <1>3, <1>4, <1>5, <1>6

\* No invite surface proves nothing.
LEMMA NoSurfaceKeeps ==
  ASSUME IInv, LimitCoversAttempt, NEW d \in Deals, NoSurface(d)
  PROVE  IInv'
<1> USE LaneAssumption DEF LaneAssumption, IInv
<1>1. Settled(d, "browse", FALSE)
  BY DEF NoSurface
<1>2. /\ attempt' \in Attempts
      /\ attempt'.clicked = attempt.clicked
      /\ attempt'.sentPossible
      /\ attempt'.connectOpen = FALSE
      /\ attempt'.effect = attempt.effect
      /\ attempt'.live = attempt.live
  BY <1>1, UnprovenAttempt DEF TypeOK
<1>3. TypeOK'
  BY <1>1, <1>2 DEF NoSurface, Settled, TypeOK, States, Statuses, Effects,
     PCs, Clicking, Between, vars, dealVars, budgetVars, queueVars, workVars,
     linkedIn
<1>4. AttemptShape'
  BY <1>1, <1>2 DEF NoSurface, Settled, TypeOK, PCs, AttemptShape, Clicking,
     Between, NoAttempt, vars, dealVars, budgetVars, queueVars, workVars,
     linkedIn
<1>5. BudgetInv'
  BY <1>1, <1>2 DEF NoSurface, Settled, TypeOK, AttemptShape, BudgetInv,
     HasRoom, Clicking, Between, NoAttempt, vars, dealVars, budgetVars,
     queueVars, workVars, linkedIn
<1>6. ASSUME NEW e \in Versioned PROVE NoteInv(e)'
  BY <1>1, <1>2 DEF NoSurface, Settled, TypeOK, AttemptShape, NoteInv,
     Attempting, Unstarted, Fresh, Clicking, States, Statuses, vars, dealVars,
     budgetVars, queueVars, workVars, linkedIn
<1> QED BY <1>3, <1>4, <1>5, <1>6

\* A click LinkedIn takes as a send is on an attempt that is charged and knows that it
\* may have sent.
LEMMA ClickKeeps ==
  ASSUME IInv, LimitCoversAttempt, NEW d \in Deals, NEW effect \in Effects,
         Click(d, effect), effect = "limit" => ~attempt.live /\ pc = "submitted",
         pc \in {"clicking", "submitted"}, pc' = IF pc = "clicking" THEN "opened" ELSE pc
  PROVE  IInv'
<1> USE LaneAssumption DEF LaneAssumption, IInv
<1>1. /\ attempt' \in Attempts
      /\ attempt'.clicked = attempt.clicked
      /\ attempt'.sentPossible = attempt.sentPossible
      /\ attempt'.connectOpen = attempt.connectOpen
      /\ attempt'.effect = effect
      /\ attempt'.live <=> attempt.live \/ effect = "invite"
  BY ClickedAttempt DEF TypeOK
<1>2. TypeOK'
  BY <1>1 DEF Click, TypeOK, States, Statuses, Effects, PCs, Clicking,
     Between, vars, dealVars, budgetVars, queueVars, workVars, linkedIn
<1>3. AttemptShape'
  BY <1>1 DEF Click, TypeOK, PCs, AttemptShape, Clicking, Between,
     NoAttempt, vars, dealVars, budgetVars, queueVars, workVars, linkedIn
<1>4. BudgetInv'
  BY <1>1 DEF Click, TypeOK, AttemptShape, BudgetInv, HasRoom,
     Clicking, Between, NoAttempt, vars, dealVars, budgetVars, queueVars,
     workVars, linkedIn
<1>5. ASSUME NEW e \in Versioned PROVE NoteInv(e)'
  BY <1>1 DEF Click, TypeOK, AttemptShape, NoteInv, Attempting,
     Unstarted, Fresh, Clicking, States, Statuses, vars, dealVars, budgetVars,
     queueVars, workVars, linkedIn
<1> QED BY <1>2, <1>3, <1>4, <1>5

\* Giving up on the controls returns receipt and budget only when no click is live.
LEMMA NoControlKeeps ==
  ASSUME IInv, LimitCoversAttempt, NEW d \in Deals, NoControl(d)
  PROVE  IInv'
<1> USE LaneAssumption DEF LaneAssumption, IInv
<1>1. attempt' = NoAttempt /\ attempt' \in Attempts
  BY FreshAttempt DEF NoControl, Settle
<1>2. TypeOK'
  BY <1>1 DEF NoControl, MayHaveSent, Hold, InPool, Settle, ReturnUnsent,
     CanMark, Terminal, Marked, Release, TypeOK, States, Statuses, Effects,
     PCs, Clicking, Between, AttemptShape, NoteInv, Attempting, vars,
     dealVars, budgetVars, queueVars, workVars, linkedIn
<1>3. AttemptShape'
  BY <1>1 DEF NoControl, MayHaveSent, Hold, InPool, Settle, ReturnUnsent,
     CanMark, Terminal, Marked, Release, TypeOK, PCs, AttemptShape, Clicking,
     Between, NoAttempt, vars, dealVars, budgetVars, queueVars, workVars,
     linkedIn
<1>4. BudgetInv'
  BY <1>1 DEF NoControl, MayHaveSent, Hold, InPool, Settle, ReturnUnsent,
     CanMark, Terminal, Marked, Release, TypeOK, AttemptShape, BudgetInv,
     HasRoom, Clicking, Between, NoAttempt, vars, dealVars, budgetVars,
     queueVars, workVars, linkedIn
<1>5. ASSUME NEW e \in Versioned PROVE NoteInv(e)'
  BY <1>1 DEF NoControl, MayHaveSent, Hold, InPool, Settle, ReturnUnsent,
     CanMark, Terminal, Marked, Release, TypeOK, AttemptShape, NoteInv,
     Attempting, Unstarted, Fresh, Clicking, States, Statuses, vars, dealVars,
     budgetVars, queueVars, workVars, linkedIn
<1> QED BY <1>2, <1>3, <1>4, <1>5

\* The failed task leaves the Deal with nothing of the attempt.
LEMMA TaskFailedKeeps ==
  ASSUME IInv, LimitCoversAttempt, TaskFailed
  PROVE  IInv'
<1> USE LaneAssumption DEF LaneAssumption, IInv
<1>1. attempt' = NoAttempt /\ attempt' \in Attempts
  BY FreshAttempt DEF TaskFailed, Leave
<1>2. TypeOK'
  BY <1>1 DEF TaskFailed, Leave, AtLeastOne, TypeOK, States, Statuses,
     Effects, PCs, Clicking, Between, vars, dealVars, budgetVars, queueVars,
     workVars, linkedIn
<1>3. AttemptShape'
  BY <1>1 DEF TaskFailed, Leave, AtLeastOne, TypeOK, PCs, AttemptShape,
     Clicking, Between, NoAttempt, vars, dealVars, budgetVars, queueVars,
     workVars, linkedIn
<1>4. BudgetInv'
  BY <1>1 DEF TaskFailed, Leave, AtLeastOne, TypeOK, AttemptShape, BudgetInv,
     HasRoom, Clicking, Between, NoAttempt, vars, dealVars, budgetVars,
     queueVars, workVars, linkedIn
<1>5. ASSUME NEW e \in Versioned PROVE NoteInv(e)'
  BY <1>1 DEF TaskFailed, Leave, AtLeastOne, TypeOK, AttemptShape, NoteInv,
     Attempting, Unstarted, Fresh, Clicking, States, Statuses, vars, dealVars,
     budgetVars, queueVars, workVars, linkedIn
<1> QED BY <1>2, <1>3, <1>4, <1>5

\* Midnight turns the reservation into one of an earlier day.
LEMMA NewDayKeeps ==
  ASSUME IInv, LimitCoversAttempt, NewDay
  PROVE  IInv'
<1> USE LaneAssumption DEF LaneAssumption, IInv
<1>1. restricted' = FALSE /\ attempt' = attempt
  BY DEF NewDay
<1>2. TypeOK'
  BY <1>1 DEF NewDay, TypeOK, States, Statuses, Effects, PCs, Clicking,
     Between, vars, dealVars, budgetVars, queueVars, workVars, linkedIn
<1>3. AttemptShape'
  BY <1>1 DEF NewDay, TypeOK, PCs, AttemptShape, Clicking, Between, NoAttempt,
     vars, dealVars, budgetVars, queueVars, workVars, linkedIn
<1>4. BudgetInv'
  BY <1>1 DEF NewDay, TypeOK, AttemptShape, BudgetInv, HasRoom, Clicking,
     Between, NoAttempt, vars, dealVars, budgetVars, queueVars, workVars,
     linkedIn
<1>5. ASSUME NEW e \in Versioned PROVE NoteInv(e)'
  BY <1>1 DEF NewDay, TypeOK, AttemptShape, NoteInv, Attempting, Unstarted,
     Fresh, Clicking, States, Statuses, vars, dealVars, budgetVars, queueVars,
     workVars, linkedIn
<1> QED BY <1>2, <1>3, <1>4, <1>5

\* The daemon and its rows touch no receipt, no budget and no attempt.
LEMMA DaemonKeeps ==
  ASSUME IInv, LimitCoversAttempt, Daemon
  PROVE  IInv'
<1>1. CASE TaskFailed
  BY <1>1, TaskFailedKeeps
<1> USE LaneAssumption, FreshAttempt
    DEF LaneAssumption, IInv, TypeOK, AttemptShape, BudgetInv, HasRoom, NoteInv,
        Attempting, Unstarted, Fresh, States, Statuses, Effects, PCs, Clicking, Between,
        NoAttempt, vars, dealVars, budgetVars, queueVars, workVars, linkedIn
<1>2. CASE StartDaemon
  BY <1>2, SMTT(30) DEF StartDaemon, AtLeastOne
<1>3. CASE Claim
  BY <1>3, SMTT(30) DEF Claim, Goto
<1>4. CASE RecoverChain
  BY <1>4, SMTT(30) DEF RecoverChain, Goto, EnsureConnectTask, AtLeastOne
<1>5. CASE Complete
  BY <1>5, SMTT(30) DEF Complete, Goto, EnsureConnectTask, AtLeastOne
<1>6. CASE Reschedule
  BY <1>6, SMTT(30) DEF Reschedule, Leave, AtLeastOne
<1>7. CASE PassInactive
  BY <1>7, SMTT(30) DEF PassInactive, Goto
<1>8. CASE PassActive
  BY <1>8, SMTT(30) DEF PassActive, Goto
<1>9. CASE RateLimited
  BY <1>9, SMTT(30) DEF RateLimited, Goto, CanExecute
<1>10. CASE NoCandidate
  BY <1>10, SMTT(30) DEF NoCandidate, Goto, CanExecute
<1> QED BY <1>1, <1>2, <1>3, <1>4, <1>5, <1>6, <1>7, <1>8, <1>9, <1>10 DEF Daemon

\* Up to the browser: only Hold, Closed, Prepare and MarkStopped write a receipt.
LEMMA OnDealKeeps ==
  ASSUME IInv, LimitCoversAttempt, NEW d \in Deals, OnDeal(d)
  PROVE  IInv'
<1> USE LaneAssumption, FreshAttempt
    DEF LaneAssumption, IInv, TypeOK, AttemptShape, BudgetInv, HasRoom, NoteInv,
        Attempting, Unstarted, Fresh, States, Statuses, Effects, PCs, Clicking, Between,
        NoAttempt, vars, dealVars, budgetVars, queueVars, workVars, linkedIn
<1>1. CASE HoldAttempted(d)
  BY <1>1, SMTT(30) DEF HoldAttempted, Goto, Hold, InPool
<1>2. CASE Choose(d)
  BY <1>2, SMTT(30) DEF Choose, CanExecute
<1>3. CASE Promote(d)
  BY <1>3, SMTT(30) DEF Promote, Goto
<1>4. CASE StopChosen(d)
  BY <1>4, SMTT(30) DEF StopChosen, Goto, StopState
<1>5. CASE PassChecks(d)
  BY <1>5, SMTT(30) DEF PassChecks, Goto
<1>6. CASE StatusKnown(d)
  BY <1>6, SMTT(30) DEF StatusKnown, Goto, Closed, Terminal
<1>7. CASE StatusUnclear(d)
  BY <1>7, SMTT(30) DEF StatusUnclear, Goto
<1>8. CASE Prepare(d)
  BY <1>8, SMTT(30) DEF Prepare, Goto
<1>9. CASE NoteNotDue(d)
  BY <1>9, SMTT(30) DEF NoteNotDue, Goto
<1>10. CASE HoldPrepared(d)
  BY <1>10, SMTT(30) DEF HoldPrepared, Goto, Hold, InPool
<1>11. CASE RefuseStopped(d)
  BY <1>11, SMTT(30) DEF RefuseStopped, Goto
<1>12. CASE StopAtBoundary(d)
  BY <1>12, SMTT(30) DEF StopAtBoundary, Goto, StopState
<1>13. CASE MarkStopped(d)
  BY <1>13, SMTT(30) DEF MarkStopped, Goto, CanMark, Terminal, Marked
<1>14. CASE OpenBrowser(d)
  BY <1>14, SMTT(30) DEF OpenBrowser, Goto
<1> QED BY <1>1, <1>2, <1>3, <1>4, <1>5, <1>6, <1>7, <1>8, <1>9, <1>10, <1>11, <1>12,
       <1>13, <1>14 DEF OnDeal

\* The clicks: the first one reserves, none after it forgets that it may have sent.
LEMMA BrowserKeeps ==
  ASSUME IInv, LimitCoversAttempt, NEW d \in Deals, Browser(d)
  PROVE  IInv'
<1>1. CASE ConnectClicking(d)
  BY <1>1, ConnectClickingKeeps
<1>2. CASE ClickConnect(d)
  <2>1. PICK effect \in {"nothing", "dialog", "invite"} : Click(d, effect)
    BY <1>2 DEF ClickConnect
  <2>2. effect \in Effects /\ effect # "limit"
    BY DEF Effects
  <2> QED BY <1>2, <2>1, <2>2, ClickKeeps DEF ClickConnect
<1>3. CASE DialogProven(d)
  BY <1>3, DialogProvenKeeps
<1>4. CASE DialogUnproven(d)
  BY <1>4, DialogUnprovenKeeps
<1>5. CASE NoSurface(d)
  BY <1>5, NoSurfaceKeeps
<1>6. CASE SendClicking(d)
  BY <1>6, SendClickingKeeps
<1>7. CASE ClickSend(d)
  <2>1. PICK effect \in {"invite", "limit"} :
          Click(d, effect) /\ (effect = "limit" => ~attempt.live)
    BY <1>7 DEF ClickSend, LimitPossible
  <2>2. effect \in Effects
    BY DEF Effects
  <2> QED BY <1>7, <2>1, <2>2, ClickKeeps DEF ClickSend
<1> QED BY <1>1, <1>2, <1>3, <1>4, <1>5, <1>6, <1>7 DEF Browser

\* The outcomes: a receipt becomes retryable only when no click was live.
LEMMA OutcomeKeeps ==
  ASSUME IInv, LimitCoversAttempt, NEW d \in Deals, Outcome(d)
  PROVE  IInv'
<1>1. CASE NoControl(d)
  BY <1>1, NoControlKeeps
<1> USE LaneAssumption, FreshAttempt
    DEF LaneAssumption, IInv, TypeOK, AttemptShape, BudgetInv, HasRoom, NoteInv,
        Attempting, Unstarted, Fresh, States, Statuses, Effects, PCs, Clicking, Between,
        NoAttempt, vars, dealVars, budgetVars, queueVars, workVars, linkedIn
<1>2. CASE CountTry(d)
  BY <1>2, SMTT(30) DEF CountTry, Goto
<1>3. CASE Accepted(d)
  BY <1>3, SMTT(30) DEF Accepted, CanMark, Terminal, Marked, Settle
<1>4. CASE SetPending(d)
  BY <1>4, SMTT(30) DEF SetPending, Goto
<1>5. CASE ChargeLegacy(d)
  BY <1>5, SMTT(30) DEF ChargeLegacy, Goto, Record
<1>6. CASE LimitReached(d)
  BY <1>6, SMTT(30) DEF LimitReached, LimitPossible, ReturnUnsent, CanMark,
     Terminal, Marked, Release, Settle
<1>7. CASE MarkExhausted(d)
  BY <1>7, SMTT(30) DEF MarkExhausted, Goto
<1>8. CASE ExistingPending(d)
  BY <1>8, SMTT(30) DEF ExistingPending, CanMark, Terminal, Marked,
     ReturnUnsent, Release, Settle
<1>9. CASE SetExistingPending(d)
  BY <1>9, SMTT(30) DEF SetExistingPending, Goto
<1>10. CASE Skip(d)
  BY <1>10, SMTT(30) DEF Skip, MayHaveSent, CanMark, Terminal, Marked,
     ReturnUnsent, Release, Settle
<1>11. CASE FailSkipped(d)
  BY <1>11, SMTT(30) DEF FailSkipped, Goto
<1> QED BY <1>1, <1>2, <1>3, <1>4, <1>5, <1>6, <1>7, <1>8, <1>9, <1>10, <1>11 DEF
       Outcome

\* LinkedIn takes an invitation that was on its way, or drops it.
LEMMA DeliverInvitationKeeps ==
  ASSUME IInv, LimitCoversAttempt, NEW d \in Deals, DeliverInvitation(d)
  PROVE  IInv'
<1> USE LaneAssumption DEF LaneAssumption, IInv
<1>1. UNCHANGED <<dealVars, budgetVars, queueVars, workVars, faults>>
  BY DEF DeliverInvitation
<1>2. TypeOK'
  BY <1>1 DEF DeliverInvitation, TypeOK, States, Statuses, Effects, PCs,
     Clicking, Between, dealVars, budgetVars, queueVars, workVars
<1>3. AttemptShape'
  BY <1>1 DEF TypeOK, PCs, AttemptShape, Clicking, Between, NoAttempt,
     dealVars, budgetVars, queueVars, workVars
<1>4. BudgetInv'
  BY <1>1 DEF TypeOK, AttemptShape, BudgetInv, HasRoom, Clicking, Between,
     NoAttempt, dealVars, budgetVars, queueVars, workVars
<1>5. ASSUME NEW e \in Versioned PROVE NoteInv(e)'
  <2>1. /\ note'[e] = note[e] /\ charged'[e] = charged[e]
        /\ Attempting(e)' = Attempting(e) /\ Unstarted(e)' = Unstarted(e)
        /\ attempt' = attempt
    BY <1>1 DEF Attempting, Unstarted, dealVars, budgetVars, queueVars, workVars
  <2>2. NoteInv(e) /\ e \in Deals
    BY <1>5
  <2>3. CASE e # d
    <3>1. inflight'[e] = inflight[e] /\ li'[e] = li[e] /\ sends'[e] = sends[e]
      BY <2>2, <2>3 DEF DeliverInvitation, TypeOK
    <3> QED BY <2>1, <2>2, <3>1 DEF NoteInv, Attempting, Unstarted
  <2>4. CASE e = d /\ sends' = sends
    <3>1. inflight[e] /\ ~inflight'[e] /\ sends'[e] = sends[e] /\ li'[e] = li[e]
      BY <2>2, <2>4 DEF DeliverInvitation, TypeOK
    <3> QED BY <2>1, <2>2, <3>1 DEF NoteInv
  <2>5. CASE e = d /\ sends' # sends
    <3>1. /\ inflight[e] /\ ~inflight'[e] /\ li[e] = "none" /\ li'[e] = "pending"
          /\ sends'[e] = sends[e] + 1 /\ sends[e] \in Nat
      BY <2>2, <2>5 DEF DeliverInvitation, TypeOK
    <3> QED BY <2>1, <2>2, <3>1 DEF NoteInv
  <2> QED BY <2>3, <2>4, <2>5
<1> QED BY <1>2, <1>3, <1>4, <1>5

\* LinkedIn and everyone else.
LEMMA OthersKeep ==
  ASSUME IInv, LimitCoversAttempt, NEW d \in Deals, Others(d)
  PROVE  IInv'
<1>1. CASE DeliverInvitation(d)
  BY <1>1, DeliverInvitationKeeps
<1> USE LaneAssumption, FreshAttempt
    DEF LaneAssumption, IInv, TypeOK, AttemptShape, BudgetInv, HasRoom, NoteInv,
        Attempting, Unstarted, Fresh, States, Statuses, Effects, PCs, Clicking, Between,
        NoAttempt, vars, dealVars, budgetVars, queueVars, workVars, linkedIn
<1>2. CASE Connected(d)
  BY <1>2, SMTT(30) DEF Connected
<1>3. CASE InvitedByHand(d)
  BY <1>3, SMTT(30) DEF InvitedByHand
<1>4. CASE Declined(d)
  BY <1>4, SMTT(30) DEF Declined
<1>5. CASE Reply(d)
  BY <1>5, SMTT(30) DEF Reply
<1>6. CASE Suppress(d)
  BY <1>6, SMTT(30) DEF Suppress
<1>7. CASE WithdrawnElsewhere(d)
  BY <1>7, SMTT(30) DEF WithdrawnElsewhere
<1>8. CASE ImportConnection(d)
  BY <1>8, SMTT(30) DEF ImportConnection
<1>9. CASE CloseStranded(d)
  BY <1>9, SMTT(30) DEF CloseStranded, Terminal, Closed
<1> QED BY <1>1, <1>2, <1>3, <1>4, <1>5, <1>6, <1>7, <1>8, <1>9 DEF Others

\* Errors, stops and time.
LEMMA FaultsKeep ==
  ASSUME IInv, LimitCoversAttempt,
         \/ MarkRefused \/ ExitEmpty \/ BrowserLost \/ Crash
         \/ RestartBlocked \/ Raise \/ NewDay \/ ToggleCampaign
  PROVE  IInv'
<1>1. CASE NewDay
  BY <1>1, NewDayKeeps
<1> USE LaneAssumption, FreshAttempt
    DEF LaneAssumption, IInv, TypeOK, AttemptShape, BudgetInv, HasRoom, NoteInv,
        Attempting, Unstarted, Fresh, States, Statuses, Effects, PCs, Clicking, Between,
        NoAttempt, vars, dealVars, budgetVars, queueVars, workVars, linkedIn
<1>2. CASE MarkRefused
  BY <1>2, SMTT(30) DEF MarkRefused, Terminal, Settle
<1>3. CASE ExitEmpty
  BY <1>3, SMTT(30) DEF ExitEmpty, Leave
<1>4. CASE BrowserLost
  BY <1>4, SMTT(30) DEF BrowserLost, Leave
<1>5. CASE Crash
  BY <1>5, SMTT(30) DEF Crash, Leave
<1>6. CASE RestartBlocked
  BY <1>6, SMTT(30) DEF RestartBlocked, Leave
<1>7. CASE Raise
  BY <1>7, SMTT(30) DEF Raise, MayHaveSent, CanMark, Terminal, ReturnUnsent,
     Marked, Release, Settle
<1>8. CASE ToggleCampaign
  BY <1>8, SMTT(30) DEF ToggleCampaign
<1> QED BY <1>1, <1>2, <1>3, <1>4, <1>5, <1>6, <1>7, <1>8

------------------------------------------------------------------------------
\* The lane starts in the invariant.
LEMMA InitInv ==
  ASSUME Init
  PROVE  IInv
<1> USE LaneAssumption, FreshAttempt DEF LaneAssumption, Init
<1>1. TypeOK
  BY DEF TypeOK, States, Statuses, PCs
<1>2. AttemptShape
  BY DEF AttemptShape, NoAttempt, Clicking
<1>3. BudgetInv
  BY DEF BudgetInv, HasRoom, Clicking
<1>4. ASSUME NEW d \in Versioned PROVE NoteInv(d)
  BY DEF NoteInv, Attempting, Unstarted, Clicking
<1> QED BY <1>1, <1>2, <1>3, <1>4 DEF IInv

\* Every step of the daemon, the browser, LinkedIn and everyone else keeps it.
LEMMA StepInv ==
  ASSUME IInv, LimitCoversAttempt, [Next]_vars
  PROVE  IInv'
<1>1. CASE Daemon
  BY <1>1, DaemonKeeps
<1>2. ASSUME NEW d \in Deals, OnDeal(d) \/ Browser(d) \/ Outcome(d) \/ Others(d)
      PROVE  IInv'
  BY <1>2, OnDealKeeps, BrowserKeeps, OutcomeKeeps, OthersKeep
<1>3. CASE \/ MarkRefused \/ ExitEmpty \/ BrowserLost \/ Crash
           \/ RestartBlocked \/ Raise \/ NewDay \/ ToggleCampaign
  BY <1>3, FaultsKeep
<1>4. CASE UNCHANGED vars
  <2>1. TypeOK'
    BY <1>4 DEF IInv, TypeOK, vars, dealVars, budgetVars, queueVars, workVars, linkedIn
  <2>2. AttemptShape'
    BY <1>4 DEF IInv, AttemptShape, vars, budgetVars, workVars
  <2>3. BudgetInv'
    BY <1>4 DEF IInv, BudgetInv, HasRoom, vars, budgetVars, workVars
  <2>4. ASSUME NEW d \in Versioned PROVE NoteInv(d)'
    BY <1>4 DEF IInv, NoteInv, Attempting, Unstarted, vars, dealVars, budgetVars, workVars,
       linkedIn
  <2> QED BY <2>1, <2>2, <2>3, <2>4 DEF IInv
<1> QED BY <1>1, <1>2, <1>3, <1>4 DEF Next, Work

\* The invariant holds throughout, when LinkedIn's limit answer speaks for the whole
\* attempt; the run limit_answer shows what happens when it does not.
THEOREM Invariance == LimitCoversAttempt => (Spec => []IInv)
<1> SUFFICES ASSUME LimitCoversAttempt PROVE Spec => []IInv
  OBVIOUS
<1>1. Init => IInv
  BY InitInv
<1>2. IInv /\ [Next]_vars => IInv'
  BY StepInv
<1> QED BY <1>1, <1>2, PTL DEF Spec

\* Deal, receipt, budget and browser keep their shape; in particular a reservation
\* given back never takes the day's count below zero, also across midnight.
THEOREM TypeCorrect == LimitCoversAttempt => (Spec => []TypeOK)
<1>1. IInv => TypeOK
  BY DEF IInv
<1> QED BY <1>1, Invariance, PTL

\* connect.py: a version-bound person gets at most one invitation, through any number of
\* clicks, retries, errors and restarts.
THEOREM NoSecondInvitation == LimitCoversAttempt => (Spec => []AtMostOneInvitation)
<1>1. IInv => AtMostOneInvitation
  BY DEF IInv, NoteInv, AtMostOneInvitation
<1> QED BY <1>1, Invariance, PTL

\* connect.py: a receipt given back for a retry, or stopped, stands for no invitation,
\* none on its way, and no budget.
THEOREM RetriesAreSafe == LimitCoversAttempt => (Spec => []RetryableMeansUnsent)
<1>1. IInv => RetryableMeansUnsent
  BY DEF IInv, NoteInv, RetryableMeansUnsent
<1> QED BY <1>1, Invariance, PTL

\* docs/campaign-priority.md, send boundary: what may have sent is charged exactly once.
THEOREM ChargedExactlyOnce == LimitCoversAttempt => (Spec => []ChargedOnce)
<1>1. IInv => ChargedOnce
  BY DEF IInv, NoteInv, ChargedOnce
<1> QED BY <1>1, Invariance, PTL

\* models.py: the check before the status check and the charge at the click or after the
\* send never let a sender pass its daily limit.
THEOREM WithinDailyLimit == LimitCoversAttempt => (Spec => []BudgetRespected)
<1>1. IInv => BudgetRespected
  BY DEF IInv, BudgetInv, BudgetRespected
<1> QED BY <1>1, Invariance, PTL

------------------------------------------------------------------------------
(* The lane implements AtMostOnce: every step of it is a step of the promise *)
(* about one version-bound note, or changes nothing of it.                    *)

\* The steps of the lane, as the promise sees them.
Quiet == UNCHANGED <<note, sends>>

\* How far a rewrite from note[d] to s may move the phase.
Allowed(d, s) ==
  \/ Phase(s) = Phase(note[d])
  \/ Phase(note[d]) = "unsent" /\ Phase(s) \in {"inFlight", "closed", "withheld"}
  \/ Phase(note[d]) = "inFlight" /\ Phase(s) = "closed"
  \/ Phase(note[d]) = "inFlight" /\ Phase(s) = "unsent" /\ sends[d] = 0

\* One receipt is rewritten to s.
Rewrites(d, s) ==
  /\ d \in Versioned /\ s \in Statuses
  /\ Allowed(d, s)
  /\ note' = [note EXCEPT ![d] = s]
  /\ UNCHANGED sends

\* LinkedIn delivers one invitation.
Delivers(d) ==
  /\ sends' = [sends EXCEPT ![d] = @ + 1]
  /\ d \in Versioned => sends[d] = 0 /\ Phase(note[d]) \in {"inFlight", "closed"}
  /\ UNCHANGED note

PromiseStep == [Promise!Next]_(Promise!vars)

\* A step that leaves receipts and invitations alone is a stutter.
LEMMA QuietStep ==
  ASSUME Quiet
  PROVE  PromiseStep
  BY DEF Quiet, PromiseStep, Promise!vars

\* Rewriting one receipt moves one phase, or none.
LEMMA RewriteStep ==
  ASSUME IInv, NEW d, NEW s, Rewrites(d, s)
  PROVE  PromiseStep
<1> DEFINE phase == [e \in Versioned |-> Phase(note[e])]
           delivered == [e \in Versioned |-> sends[e]]
<1>1. Allowed(d, s) /\ note' = [note EXCEPT ![d] = s]
  BY DEF Rewrites
<1>2. d \in Versioned /\ note \in [Deals -> Statuses] /\ Versioned \subseteq Deals
  BY LaneAssumption DEF LaneAssumption, IInv, TypeOK, Rewrites
<1>3. phase' = [phase EXCEPT ![d] = Phase(s)]
  BY <1>1, <1>2
<1>4. UNCHANGED delivered
  BY DEF Rewrites
<1>5. phase[d] = Phase(note[d]) /\ delivered[d] = sends[d]
  BY <1>2
<1>6. CASE Phase(s) = Phase(note[d])
  <2>1. phase' = phase
    BY <1>3, <1>5, <1>6
  <2> QED BY <2>1, <1>4 DEF PromiseStep, Promise!vars
<1>7. CASE Phase(note[d]) = "unsent" /\ Phase(s) \in {"inFlight", "closed", "withheld"}
  <2>1. Promise!Begin(d) \/ Promise!Close(d) \/ Promise!Withhold(d)
    BY <1>3, <1>4, <1>5, <1>7 DEF Promise!Begin, Promise!Close, Promise!Withhold
  <2> QED BY <1>2, <2>1 DEF PromiseStep, Promise!Next
<1>8. CASE Phase(note[d]) = "inFlight" /\ Phase(s) = "closed"
  <2>1. Promise!Close(d)
    BY <1>3, <1>4, <1>5, <1>8 DEF Promise!Close
  <2> QED BY <1>2, <2>1 DEF PromiseStep, Promise!Next
<1>9. CASE Phase(note[d]) = "inFlight" /\ Phase(s) = "unsent" /\ sends[d] = 0
  <2>1. Promise!Retract(d)
    BY <1>3, <1>4, <1>5, <1>9 DEF Promise!Retract
  <2> QED BY <1>2, <2>1 DEF PromiseStep, Promise!Next
<1> QED BY <1>1, <1>6, <1>7, <1>8, <1>9 DEF Allowed

\* LinkedIn acting on a click is the promise's delivery.
LEMMA DeliverStep ==
  ASSUME IInv, NEW d \in Deals, Delivers(d)
  PROVE  PromiseStep
<1> DEFINE phase == [e \in Versioned |-> Phase(note[e])]
           delivered == [e \in Versioned |-> sends[e]]
<1>1. /\ sends' = [sends EXCEPT ![d] = @ + 1]
      /\ d \in Versioned => sends[d] = 0 /\ Phase(note[d]) \in {"inFlight", "closed"}
  BY DEF Delivers
<1>2. sends \in [Deals -> Nat] /\ Versioned \subseteq Deals
  BY LaneAssumption DEF LaneAssumption, IInv, TypeOK
<1>3. UNCHANGED phase
  BY DEF Delivers
<1>4. CASE d \in Versioned
  <2>0. \A e \in Versioned : sends'[e] = IF e = d THEN 1 ELSE sends[e]
    BY <1>1, <1>2, <1>4
  <2>1. delivered' = [delivered EXCEPT ![d] = 1]
    BY <2>0
  <2>2. phase[d] = Phase(note[d]) /\ delivered[d] = sends[d]
    BY <1>4
  <2>3. Promise!Deliver(d)
    BY <1>1, <1>3, <1>4, <2>1, <2>2 DEF Promise!Deliver
  <2> QED BY <1>4, <2>3 DEF PromiseStep, Promise!Next
<1>5. CASE d \notin Versioned
  <2>1. \A e \in Versioned : sends'[e] = sends[e]
    BY <1>1, <1>2, <1>5
  <2>2. UNCHANGED delivered
    BY <2>1
  <2> QED BY <1>3, <2>2 DEF PromiseStep, Promise!vars
<1> QED BY <1>4, <1>5

\* The phase of every status of a receipt.
LEMMA PhaseOf ==
  /\ Phase("none") = "unsent" /\ Phase("planned") = "unsent" /\ Phase("failed") = "unsent"
  /\ Phase("sending") = "inFlight"
  /\ Phase("sent") = "closed" /\ Phase("unclear") = "closed"
  /\ Phase("stopped") = "withheld"
  BY DEF Phase

\* close_unsent_connection_delivery closes a note that may have been clicked and
\* withholds one that was not.
LEMMA ClosedStep ==
  ASSUME IInv, NEW d \in Deals, note' = Closed(d), UNCHANGED sends
  PROVE  PromiseStep
<1> USE LaneAssumption, PhaseOf DEF LaneAssumption, Closed, Terminal
<1>1. CASE d \notin Versioned \/ note[d] \in Terminal \union {"none"}
  <2>1. Quiet
    BY <1>1 DEF Quiet
  <2> QED BY <2>1, QuietStep
<1>2. CASE d \in Versioned /\ note[d] \in {"sending", "failed"}
  <2>1. Rewrites(d, "unclear")
    BY <1>2 DEF Rewrites, Allowed, Statuses
  <2> QED BY <2>1, RewriteStep
<1>3. CASE d \in Versioned /\ note[d] = "planned"
  <2>1. Rewrites(d, "stopped")
    BY <1>3 DEF Rewrites, Allowed, Statuses
  <2> QED BY <2>1, RewriteStep
<1> QED BY <1>1, <1>2, <1>3 DEF IInv, TypeOK, Statuses

\* The daemon and its rows are invisible to the promise.
LEMMA DaemonSteps ==
  ASSUME IInv, LimitCoversAttempt, Daemon
  PROVE  PromiseStep
<1> USE LaneAssumption, PhaseOf
    DEF LaneAssumption, Quiet, dealVars, linkedIn
<1>1. CASE StartDaemon \/ Claim \/ RecoverChain \/ Complete \/ TaskFailed \/
   Reschedule \/ PassInactive \/ PassActive \/ RateLimited \/ NoCandidate
  <2>1. Quiet
    BY <1>1 DEF StartDaemon, Claim, RecoverChain, Complete, TaskFailed, Reschedule,
       PassInactive, PassActive, RateLimited, NoCandidate
  <2> QED BY <2>1, QuietStep
<1> QED BY <1>1 DEF Daemon

\* Up to the browser: an uncertain note is closed, an unsent one closed or withheld.
LEMMA OnDealSteps ==
  ASSUME IInv, LimitCoversAttempt, NEW d \in Deals, OnDeal(d)
  PROVE  PromiseStep
<1> USE LaneAssumption, PhaseOf
    DEF LaneAssumption, Quiet, dealVars, linkedIn
<1>1. CASE Choose(d) \/ Promote(d) \/ StopChosen(d) \/ PassChecks(d) \/
   StatusUnclear(d) \/ RefuseStopped(d) \/ StopAtBoundary(d) \/ OpenBrowser(d)
  <2>1. Quiet
    BY <1>1 DEF Choose, Promote, StopChosen, PassChecks, StatusUnclear, RefuseStopped,
       StopAtBoundary, OpenBrowser
  <2> QED BY <2>1, QuietStep
<1>2. CASE HoldAttempted(d)
  <2>1. Quiet \/ Rewrites(d, "unclear")
    BY <1>2, SMTT(30) DEF HoldAttempted, Goto, Hold, InPool, ToHold, IInv, TypeOK,
       AttemptShape, NoteInv, Attempting, Unstarted, Fresh, Clicking, Statuses,
       Rewrites, Allowed
  <2> QED BY <2>1, QuietStep, RewriteStep
<1>3. CASE StatusKnown(d)
  BY <1>3, ClosedStep DEF StatusKnown
<1>4. CASE Prepare(d)
  <2>1. Quiet \/ Rewrites(d, "planned")
    BY <1>4, SMTT(30) DEF Prepare, Goto, IInv, TypeOK, AttemptShape, NoteInv,
       Attempting, Unstarted, Fresh, Clicking, Statuses, Rewrites, Allowed
  <2> QED BY <2>1, QuietStep, RewriteStep
<1>5. CASE NoteNotDue(d)
  <2>1. Quiet \/ Rewrites(d, "planned")
    BY <1>5, SMTT(30) DEF NoteNotDue, Goto, IInv, TypeOK, AttemptShape, NoteInv,
       Attempting, Unstarted, Fresh, Clicking, Statuses, Rewrites, Allowed
  <2> QED BY <2>1, QuietStep, RewriteStep
<1>6. CASE HoldPrepared(d)
  <2>1. Quiet \/ Rewrites(d, "unclear")
    BY <1>6, SMTT(30) DEF HoldPrepared, Goto, Hold, InPool, IInv, TypeOK,
       AttemptShape, NoteInv, Attempting, Unstarted, Fresh, Clicking, Statuses,
       Rewrites, Allowed
  <2> QED BY <2>1, QuietStep, RewriteStep
<1>7. CASE MarkStopped(d)
  <2>1. Quiet \/ Rewrites(d, "stopped")
    BY <1>7, SMTT(30) DEF MarkStopped, Goto, CanMark, Terminal, Marked, IInv, TypeOK,
       AttemptShape, NoteInv, Attempting, Unstarted, Fresh, Clicking, Statuses,
       Rewrites, Allowed
  <2> QED BY <2>1, QuietStep, RewriteStep
<1> QED BY <1>1, <1>2, <1>3, <1>4, <1>5, <1>6, <1>7 DEF OnDeal

\* The first click begins the attempt.
LEMMA BrowserSteps ==
  ASSUME IInv, LimitCoversAttempt, NEW d \in Deals, Browser(d)
  PROVE  PromiseStep
<1> USE LaneAssumption, PhaseOf
    DEF LaneAssumption, Quiet, dealVars, linkedIn
<1>1. CASE ClickConnect(d) \/ DialogProven(d) \/ DialogUnproven(d) \/ NoSurface(d) \/
   SendClicking(d) \/ ClickSend(d)
  <2>1. Quiet
    BY <1>1 DEF ClickConnect, Click, DialogProven, Settled, DialogUnproven, NoSurface,
       SendClicking, ClickSend
  <2> QED BY <2>1, QuietStep
<1>2. CASE ConnectClicking(d)
  <2>1. Quiet \/ Rewrites(d, "sending")
    BY <1>2, SMTT(30) DEF ConnectClicking, Reserve, CanMark, Terminal, Marked, Record,
       MayHaveSent, IInv, TypeOK, AttemptShape, NoteInv, Attempting, Unstarted, Fresh,
       Clicking, Statuses, Rewrites, Allowed
  <2> QED BY <2>1, QuietStep, RewriteStep
<1> QED BY <1>1, <1>2 DEF Browser

\* The outcomes close the attempt, or take it back when nothing was delivered.
LEMMA OutcomeSteps ==
  ASSUME IInv, LimitCoversAttempt, NEW d \in Deals, Outcome(d)
  PROVE  PromiseStep
<1> USE LaneAssumption, PhaseOf
    DEF LaneAssumption, Quiet, dealVars, linkedIn
<1>1. CASE CountTry(d) \/ SetPending(d) \/ ChargeLegacy(d) \/ MarkExhausted(d) \/
   SetExistingPending(d) \/ FailSkipped(d)
  <2>1. Quiet
    BY <1>1 DEF CountTry, SetPending, ChargeLegacy, MarkExhausted, SetExistingPending,
       FailSkipped
  <2> QED BY <2>1, QuietStep
<1>2. CASE NoControl(d)
  <2>1. Quiet \/ Rewrites(d, "unclear") \/ Rewrites(d, "failed")
    BY <1>2, SMTT(30) DEF NoControl, MayHaveSent, Hold, InPool, Settle, ReturnUnsent,
       CanMark, Terminal, Marked, Release, IInv, TypeOK, AttemptShape, NoteInv,
       Attempting, Unstarted, Fresh, Clicking, Statuses, Rewrites, Allowed
  <2> QED BY <2>1, QuietStep, RewriteStep
<1>3. CASE Accepted(d)
  <2>1. Quiet \/ Rewrites(d, "sent")
    BY <1>3, SMTT(30) DEF Accepted, CanMark, Terminal, Marked, Settle, IInv, TypeOK,
       AttemptShape, NoteInv, Attempting, Unstarted, Fresh, Clicking, Statuses,
       Rewrites, Allowed
  <2> QED BY <2>1, QuietStep, RewriteStep
<1>4. CASE LimitReached(d)
  <2>1. Quiet \/ Rewrites(d, "failed")
    BY <1>4, SMTT(30) DEF LimitReached, LimitPossible, ReturnUnsent, CanMark,
       Terminal, Marked, Release, Settle, IInv, TypeOK, AttemptShape, NoteInv,
       Attempting, Unstarted, Fresh, Clicking, Statuses, Rewrites, Allowed
  <2> QED BY <2>1, QuietStep, RewriteStep
<1>5. CASE ExistingPending(d)
  <2>1. Quiet \/ Rewrites(d, "unclear") \/ Rewrites(d, "stopped")
    BY <1>5, SMTT(30) DEF ExistingPending, CanMark, Terminal, Marked, ReturnUnsent,
       Release, Settle, IInv, TypeOK, AttemptShape, NoteInv, Attempting, Unstarted,
       Fresh, Clicking, Statuses, Rewrites, Allowed
  <2> QED BY <2>1, QuietStep, RewriteStep
<1>6. CASE Skip(d)
  <2>1. Quiet \/ Rewrites(d, "unclear") \/ Rewrites(d, "failed")
    BY <1>6, SMTT(30) DEF Skip, MayHaveSent, CanMark, Terminal, Marked, ReturnUnsent,
       Release, Settle, IInv, TypeOK, AttemptShape, NoteInv, Attempting, Unstarted,
       Fresh, Clicking, Statuses, Rewrites, Allowed
  <2> QED BY <2>1, QuietStep, RewriteStep
<1> QED BY <1>1, <1>2, <1>3, <1>4, <1>5, <1>6 DEF Outcome

\* LinkedIn delivers, the callback thread closes; everyone else is invisible.
LEMMA OthersSteps ==
  ASSUME IInv, LimitCoversAttempt, NEW d \in Deals, Others(d)
  PROVE  PromiseStep
<1> USE LaneAssumption, PhaseOf
    DEF LaneAssumption, Quiet, dealVars, linkedIn
<1>1. CASE Connected(d) \/ InvitedByHand(d) \/ Declined(d) \/ Reply(d) \/ Suppress(d)
   \/ WithdrawnElsewhere(d) \/ ImportConnection(d)
  <2>1. Quiet
    BY <1>1 DEF Connected, InvitedByHand, Declined, Reply, Suppress,
       WithdrawnElsewhere, ImportConnection
  <2> QED BY <2>1, QuietStep
<1>2. CASE DeliverInvitation(d)
  <2>1. Quiet \/ Delivers(d)
    BY <1>2 DEF DeliverInvitation, Delivers, IInv, TypeOK, NoteInv, Fresh, Statuses
  <2> QED BY <2>1, QuietStep, DeliverStep
<1>3. CASE CloseStranded(d)
  BY <1>3, ClosedStep DEF CloseStranded
<1> QED BY <1>1, <1>2, <1>3 DEF Others

\* An error takes back only an attempt that certainly sent nothing.
LEMMA FaultSteps ==
  ASSUME IInv, LimitCoversAttempt,
         \/ MarkRefused \/ ExitEmpty \/ BrowserLost \/ Crash
         \/ RestartBlocked \/ Raise \/ NewDay \/ ToggleCampaign
  PROVE  PromiseStep
<1> USE LaneAssumption, PhaseOf
    DEF LaneAssumption, Quiet, dealVars, linkedIn
<1>1. CASE MarkRefused \/ ExitEmpty \/ BrowserLost \/ Crash \/ RestartBlocked \/
   NewDay \/ ToggleCampaign
  <2>1. Quiet
    BY <1>1 DEF MarkRefused, ExitEmpty, BrowserLost, Crash, RestartBlocked, NewDay,
       ToggleCampaign
  <2> QED BY <2>1, QuietStep
<1>2. CASE Raise
  <2>1. CASE cur \in Versioned /\ attempt.clicked /\ ~MayHaveSent /\ CanMark(cur, "failed")
    <3>1. pc \in Clicking
      BY <1>2, <2>1 DEF IInv, AttemptShape, NoAttempt
    <3>2. note[cur] \in {"sending", "unclear"} /\ sends[cur] = 0
      BY <1>2, <2>1, <3>1 DEF MayHaveSent, IInv, TypeOK, AttemptShape, NoteInv, Attempting
    <3>3. Rewrites(cur, "failed")
      BY <1>2, <2>1, <3>2, SMTT(30) DEF Raise, ReturnUnsent, CanMark, Terminal, Marked,
         Rewrites, Allowed, Statuses
    <3> QED BY <3>3, RewriteStep
  <2>2. CASE ~(cur \in Versioned /\ attempt.clicked /\ ~MayHaveSent /\ CanMark(cur, "failed"))
    <3>1. Quiet
      BY <1>2, <2>2 DEF Raise
    <3> QED BY <3>1, QuietStep
  <2> QED BY <2>1, <2>2
<1> QED BY <1>1, <1>2

------------------------------------------------------------------------------
\* The lane starts where the promise starts.
LEMMA InitPromise ==
  ASSUME Init
  PROVE  Promise!Init
  BY LaneAssumption, PhaseOf DEF LaneAssumption, Init, Promise!Init

\* Every step of the lane is a step of the promise or a stutter.
LEMMA StepPromise ==
  ASSUME IInv, LimitCoversAttempt, [Next]_vars
  PROVE  PromiseStep
<1>1. CASE Daemon
  BY <1>1, DaemonSteps
<1>2. ASSUME NEW d \in Deals, OnDeal(d) \/ Browser(d) \/ Outcome(d) \/ Others(d)
      PROVE  PromiseStep
  BY <1>2, OnDealSteps, BrowserSteps, OutcomeSteps, OthersSteps
<1>3. CASE \/ MarkRefused \/ ExitEmpty \/ BrowserLost \/ Crash
           \/ RestartBlocked \/ Raise \/ NewDay \/ ToggleCampaign
  BY <1>3, FaultSteps
<1>4. CASE UNCHANGED vars
  <2>1. Quiet
    BY <1>4 DEF Quiet, vars, dealVars, linkedIn
  <2> QED BY <2>1, QuietStep
<1> QED BY <1>1, <1>2, <1>3, <1>4 DEF Next, Work

\* connect.py: the whole lane, with its clicks, retries, crashes and the callback thread,
\* implements the promise of at most one invitation per frozen note: an attempt is
\* recorded before LinkedIn can see it, taken back only while LinkedIn has not acted, and
\* closed for good when its outcome is unknown.
THEOREM Refinement == LimitCoversAttempt => (Spec => PromiseKept)
<1> SUFFICES ASSUME LimitCoversAttempt PROVE Spec => PromiseKept
  OBVIOUS
<1>1. Spec => []IInv
  BY Invariance
<1>2. Init => Promise!Init
  BY InitPromise
<1>3. IInv /\ [Next]_vars => [Promise!Next]_(Promise!vars)
  BY StepPromise DEF PromiseStep
<1> QED BY <1>1, <1>2, <1>3, PTL DEF Spec, PromiseKept, Promise!Spec

------------------------------------------------------------------------------
(* Completion notices: the lane never takes back a receipt that is final, so *)
(* what was frozen from one stays true. *)

\* What the frozen event says of the receipt it was made from.
Grounded(d) ==
  /\ frozen[d] = "held" => note[d] = "stopped"
  /\ frozen[d] = "sent" => note[d] = "sent"
  /\ frozen[d] = "uncertain" => note[d] = "unclear"

\* The inductive invariant of the lane and the reconciler together.
OutcomeInv ==
  /\ IInv
  /\ frozen \in [Versioned -> Outcomes \union {"none"}]
  /\ \A d \in Versioned : Grounded(d)

------------------------------------------------------------------------------
(* A receipt that is final is never rewritten by the lane. *)

\* The receipt of d stands.
Stands(d) == note'[d] = note[d]

\* The daemon, the rows and the clock write no receipt.
LEMMA DaemonStands ==
  ASSUME NEW d \in Versioned,
         \/ Daemon \/ MarkRefused \/ ExitEmpty \/ BrowserLost \/ Crash
         \/ RestartBlocked \/ NewDay \/ ToggleCampaign
  PROVE  Stands(d)
  BY DEF Stands, Daemon, StartDaemon, Claim, RecoverChain, Complete, TaskFailed,
     Reschedule, PassInactive, PassActive, RateLimited, NoCandidate, MarkRefused,
     ExitEmpty, BrowserLost, Crash, RestartBlocked, NewDay, ToggleCampaign, dealVars

\* Before the browser: Hold, Closed, Prepare and MarkStopped leave a final receipt alone.
LEMMA OnDealStands ==
  ASSUME note \in [Deals -> Statuses], NEW d \in Versioned, note[d] \in Terminal,
         NEW e \in Deals, OnDeal(e)
  PROVE  Stands(d)
<1> USE LaneAssumption DEF LaneAssumption, Stands, Terminal, Statuses, dealVars, linkedIn
<1>1. CASE \/ Choose(e) \/ Promote(e) \/ StopChosen(e) \/ PassChecks(e) \/ StatusUnclear(e)
           \/ RefuseStopped(e) \/ StopAtBoundary(e) \/ OpenBrowser(e)
  BY <1>1 DEF Choose, Promote, StopChosen, PassChecks, StatusUnclear, RefuseStopped,
     StopAtBoundary, OpenBrowser
<1>2. CASE HoldAttempted(e) \/ HoldPrepared(e)
  BY <1>2 DEF HoldAttempted, HoldPrepared, Hold
<1>3. CASE StatusKnown(e)
  BY <1>3 DEF StatusKnown, Closed
<1>4. CASE Prepare(e) \/ NoteNotDue(e)
  BY <1>4 DEF Prepare, NoteNotDue
<1>5. CASE MarkStopped(e)
  BY <1>5 DEF MarkStopped, CanMark, Marked
<1> QED BY <1>1, <1>2, <1>3, <1>4, <1>5 DEF OnDeal

\* In the browser only the first click writes, and mark_delivery_status refuses it.
LEMMA BrowserStands ==
  ASSUME note \in [Deals -> Statuses], NEW d \in Versioned, note[d] \in Terminal,
         NEW e \in Deals, Browser(e)
  PROVE  Stands(d)
<1> USE LaneAssumption DEF LaneAssumption, Stands, Terminal, Statuses, dealVars, linkedIn
<1>1. CASE ConnectClicking(e)
  BY <1>1 DEF ConnectClicking, Reserve, CanMark, Marked
<1>2. CASE \/ ClickConnect(e) \/ DialogProven(e) \/ DialogUnproven(e) \/ NoSurface(e)
           \/ SendClicking(e) \/ ClickSend(e)
  BY <1>2 DEF ClickConnect, Click, DialogProven, DialogUnproven, NoSurface, Settled,
     SendClicking, ClickSend
<1> QED BY <1>1, <1>2 DEF Browser

\* Every outcome but an unknown one goes through mark_delivery_status.
LEMMA OutcomeStands ==
  ASSUME note \in [Deals -> Statuses], NEW d \in Versioned, note[d] \in Terminal,
         NEW e \in Deals, Outcome(e) \/ Raise
  PROVE  Stands(d)
<1> USE LaneAssumption DEF LaneAssumption, Stands, Terminal, Statuses, dealVars, linkedIn
<1>1. CASE \/ CountTry(e) \/ SetPending(e) \/ ChargeLegacy(e) \/ MarkExhausted(e)
           \/ SetExistingPending(e) \/ FailSkipped(e)
  BY <1>1 DEF CountTry, SetPending, ChargeLegacy, MarkExhausted, SetExistingPending,
     FailSkipped
<1>2. CASE NoControl(e)
  BY <1>2 DEF NoControl, Hold, ReturnUnsent, CanMark, Marked
<1>3. CASE Accepted(e) \/ LimitReached(e)
  BY <1>3 DEF Accepted, LimitReached, ReturnUnsent, CanMark, Marked
<1>4. CASE ExistingPending(e) \/ Skip(e)
  BY <1>4 DEF ExistingPending, Skip, ReturnUnsent, CanMark, Marked
<1>5. CASE Raise
  BY <1>5 DEF Raise, ReturnUnsent, CanMark, Marked
<1> QED BY <1>1, <1>2, <1>3, <1>4, <1>5 DEF Outcome

\* LinkedIn and the commands write none, the callback thread closes only open ones.
LEMMA OthersStand ==
  ASSUME note \in [Deals -> Statuses], NEW d \in Versioned, note[d] \in Terminal,
         NEW e \in Deals, Others(e)
  PROVE  Stands(d)
<1> USE LaneAssumption DEF LaneAssumption, Stands, Terminal, Statuses, dealVars, linkedIn
<1>1. CASE CloseStranded(e)
  BY <1>1 DEF CloseStranded, Closed
<1>2. CASE \/ DeliverInvitation(e) \/ Connected(e) \/ InvitedByHand(e) \/ Declined(e)
           \/ Reply(e) \/ Suppress(e) \/ WithdrawnElsewhere(e) \/ ImportConnection(e)
  BY <1>2 DEF DeliverInvitation, Connected, InvitedByHand, Declined, Reply, Suppress,
     WithdrawnElsewhere, ImportConnection
<1> QED BY <1>1, <1>2 DEF Others

\* mark_delivery_status, _hold_attempted_connection and close_unsent_connection_delivery:
\* no step of anyone rewrites a receipt that is sent, unclear or stopped.
LEMMA FinalStands ==
  ASSUME note \in [Deals -> Statuses], NEW d \in Versioned, note[d] \in Terminal,
         [Next]_vars
  PROVE  Stands(d)
<1>1. CASE UNCHANGED vars
  BY <1>1 DEF Stands, vars, dealVars
<1>2. CASE \/ Daemon \/ MarkRefused \/ ExitEmpty \/ BrowserLost \/ Crash
           \/ RestartBlocked \/ NewDay \/ ToggleCampaign
  BY <1>2, DaemonStands
<1>3. ASSUME NEW e \in Deals, OnDeal(e) \/ Browser(e) \/ Outcome(e) \/ Others(e)
      PROVE  Stands(d)
  BY <1>3, OnDealStands, BrowserStands, OutcomeStands, OthersStand
<1>4. CASE Raise
  <2>1. d \in Deals
    BY LaneAssumption DEF LaneAssumption
  <2> QED BY <1>4, <2>1, OutcomeStands
<1> QED BY <1>1, <1>2, <1>3, <1>4 DEF Next, Work

------------------------------------------------------------------------------
\* Nothing is frozen at first.
LEMMA OutcomeInitInv ==
  ASSUME OutcomeInit
  PROVE  OutcomeInv
<1>1. IInv
  BY InitInv DEF OutcomeInit
<1> QED BY <1>1 DEF OutcomeInit, OutcomeInv, Grounded, Outcomes

\* A step of the lane keeps the receipts the events were made from.
LEMMA LaneStepInv ==
  ASSUME OutcomeInv, LimitCoversAttempt, [Next]_vars, UNCHANGED frozen
  PROVE  OutcomeInv'
<1>1. IInv'
  BY StepInv DEF OutcomeInv
<1>2. ASSUME NEW d \in Versioned PROVE Grounded(d)'
  <2>1. note \in [Deals -> Statuses] /\ Grounded(d)
    BY DEF OutcomeInv, IInv, TypeOK
  <2>2. CASE frozen[d] \in {"held", "sent", "uncertain"}
    <3>1. note[d] \in Terminal
      BY <2>1, <2>2 DEF Grounded, Terminal
    <3>2. note'[d] = note[d]
      BY <2>1, <3>1, FinalStands DEF Stands
    <3> QED BY <2>1, <3>2 DEF Grounded
  <2>3. CASE frozen[d] \notin {"held", "sent", "uncertain"}
    BY <2>3 DEF Grounded
  <2> QED BY <2>2, <2>3
<1> QED BY <1>1, <1>2 DEF OutcomeInv

\* What status reads of the receipt is what the event says.
LEMMA FreezeInv ==
  ASSUME OutcomeInv, NEW d \in Versioned, Freeze(d)
  PROVE  OutcomeInv'
<1>1. UNCHANGED vars
  BY DEF Freeze
<1>2. IInv'
  <2>1. TypeOK'
    BY <1>1 DEF OutcomeInv, IInv, TypeOK, vars, dealVars, budgetVars, queueVars, workVars,
       linkedIn
  <2>2. AttemptShape' /\ BudgetInv'
    BY <1>1 DEF OutcomeInv, IInv, AttemptShape, BudgetInv, HasRoom, vars, budgetVars, workVars
  <2>3. ASSUME NEW e \in Versioned PROVE NoteInv(e)'
    BY <1>1 DEF OutcomeInv, IInv, NoteInv, Attempting, Unstarted, vars, dealVars, budgetVars,
       workVars, linkedIn
  <2> QED BY <2>1, <2>2, <2>3 DEF IInv
<1>3. Status(d) \in Outcomes
  BY DEF Status, Outcomes
<1>4. /\ Status(d) = "held" => note[d] = "stopped"
      /\ Status(d) = "sent" => note[d] = "sent"
      /\ Status(d) = "uncertain" => note[d] = "unclear"
  BY DEF Status
<1>5. frozen' = [frozen EXCEPT ![d] = Status(d)]
  BY DEF Freeze
<1> HIDE DEF Status
<1>6. ASSUME NEW e \in Versioned PROVE Grounded(e)'
  <2>1. note'[e] = note[e]
    BY <1>1 DEF vars, dealVars
  <2>2. frozen'[e] = IF e = d THEN Status(d) ELSE frozen[e]
    BY <1>5 DEF OutcomeInv
  <2> QED BY <1>4, <2>1, <2>2 DEF OutcomeInv, Grounded
<1> QED BY <1>2, <1>3, <1>5, <1>6 DEF OutcomeInv

LEMMA OutcomeStepInv ==
  ASSUME OutcomeInv, LimitCoversAttempt, [OutcomeNext]_outcomeVars
  PROVE  OutcomeInv'
<1>1. CASE LaneStep
  BY <1>1, LaneStepInv DEF LaneStep
<1>2. CASE \E d \in Versioned : Freeze(d)
  BY <1>2, FreezeInv
<1>3. CASE UNCHANGED outcomeVars
  BY <1>3, LaneStepInv DEF outcomeVars
<1> QED BY <1>1, <1>2, <1>3 DEF OutcomeNext

\* The invariant holds throughout, whenever the reconciler reads.
THEOREM OutcomeInvariance == LimitCoversAttempt => (OutcomeSpec => []OutcomeInv)
<1> SUFFICES ASSUME LimitCoversAttempt PROVE OutcomeSpec => []OutcomeInv
  OBVIOUS
<1>1. OutcomeInit => OutcomeInv
  BY OutcomeInitInv
<1>2. OutcomeInv /\ [OutcomeNext]_outcomeVars => OutcomeInv'
  BY OutcomeStepInv
<1> QED BY <1>1, <1>2, PTL DEF OutcomeSpec

\* campaign_integrations.status: an event that says held stands for a person the lane
\* never invites, before it or after it.
THEOREM HeldTheorem == LimitCoversAttempt => (OutcomeSpec => []HeldIsNeverSent)
<1>1. OutcomeInv => HeldIsNeverSent
  BY DEF OutcomeInv, IInv, NoteInv, Fresh, Grounded, HeldIsNeverSent
<1> QED BY <1>1, OutcomeInvariance, PTL

\* campaign_callbacks.reconcile: an event that says sent or uncertain is what the lane's
\* records still say, and one that says sent is charged exactly once.
THEOREM PossiblySentTheorem == LimitCoversAttempt => (OutcomeSpec => []PossiblySentIsCharged)
<1>1. ASSUME OutcomeInv, NEW d \in Versioned, frozen[d] = "sent"
      PROVE  Status(d) = "sent" /\ charged[d] = 1
  <2>1. note[d] = "sent" /\ charged[d] = 1
    BY <1>1 DEF OutcomeInv, IInv, NoteInv, Grounded
  <2> QED BY <2>1 DEF Status
<1>2. ASSUME OutcomeInv, NEW d \in Versioned, frozen[d] = "uncertain"
      PROVE  Status(d) = "uncertain"
  <2>1. note[d] = "unclear"
    BY <1>2 DEF OutcomeInv, Grounded
  <2> QED BY <2>1 DEF Status
<1>3. OutcomeInv => PossiblySentIsCharged
  BY <1>1, <1>2 DEF PossiblySentIsCharged
<1> QED BY <1>3, OutcomeInvariance, PTL

\* campaign_callbacks.reconcile only reads the lane: with it running beside the lane, the
\* lane still implements the promise of at most one invitation per frozen note.
THEOREM OutcomeRefinement == LimitCoversAttempt => (OutcomeSpec => PromiseKept)
<1> SUFFICES ASSUME LimitCoversAttempt PROVE OutcomeSpec => PromiseKept
  OBVIOUS
<1>1. OutcomeSpec => []OutcomeInv
  BY OutcomeInvariance
<1>2. OutcomeInit => Promise!Init
  BY InitPromise DEF OutcomeInit
<1>3. OutcomeInv /\ [OutcomeNext]_outcomeVars => [Promise!Next]_(Promise!vars)
  <2>1. [OutcomeNext]_outcomeVars => [Next]_vars
    BY DEF OutcomeNext, LaneStep, Freeze, outcomeVars
  <2> QED BY <2>1, StepPromise DEF OutcomeInv, PromiseStep
<1> QED BY <1>1, <1>2, <1>3, PTL DEF OutcomeSpec, PromiseKept, Promise!Spec
==============================================================================
