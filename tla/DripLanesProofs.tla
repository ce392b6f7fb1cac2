--------------------------- MODULE DripLanesProofs ---------------------------
(***************************************************************************)
(* The two lanes of a drip enrolment, for any number of workers and steps, *)
(* with workers that die or hang: no lane that is held or stopped has a    *)
(* row waiting to be claimed, and every step is an AtMostOnce attempt.     *)
(***************************************************************************)
EXTENDS DripLanes, TLAPS

\* The newest attempt is settled and nothing of it can have reached the provider.
Quiet(x) == attempt[x].outcome \in {"none", "unsent"}

\* What the delivery, its newest attempt and the provider say together.
Agree(x) ==
  /\ Quiet(x) => /\ ~attempt[x].marked
                 /\ delivery[x] \in {"none", "planned", "queued", "stopped"}
  /\ attempt[x].outcome = "reserved" => delivery[x] \in {"sending", "stopped"}
  /\ attempt[x].outcome = "sent" => delivery[x] = "sent"
  /\ attempt[x].outcome = "unclear" => delivery[x] = "unclear"
  /\ delivery[x] = "stopped" => ControlsStopped(x[1])
  /\ sends[x] <= 1
  /\ sends[x] > 0 => attempt[x].marked

\* A lane takes up a step only when all earlier ones are sent.
Ordered ==
  \A x, y \in Items :
    x[1] = y[1] /\ y[2] < x[2] /\ delivery[x] # "none" => delivery[y] = "sent"

\* Only the current row of a queued delivery waits, and only under active controls.
RowInv(x) ==
  /\ \A k \in Rows : row[x][k] = "pending" =>
       k = current[x] /\ delivery[x] = "queued" /\ ControlsActive(x[1])
  /\ current[x] # NoRow => row[x][current[x]] # "none"

\* The worker has claimed the row its delivery is linked to, and taken no attempt yet.
Claimed(w) == At(w, "claimed") /\ current[Item(w)] = worker[w].row

\* A worker at work holds a row of its channel; at the click nothing was sent yet.
WorkerInv(w) ==
  /\ worker[w].pc \notin {"down", "idle"} =>
       /\ Item(w) \in Steps(Lane(w)) /\ worker[w].row \in Rows
       /\ row[Item(w)][worker[w].row] # "none"
  /\ Claimed(w) => /\ row[Item(w)][worker[w].row] # "pending"
                   /\ Quiet(Item(w)) /\ delivery[Item(w)] # "none"
  /\ At(w, "click") => /\ attempt[Item(w)].marked
                       /\ attempt[Item(w)].outcome \in {"reserved", "unclear"}
                       /\ sends[Item(w)] = 0
  /\ At(w, "sent") => sends[Item(w)] = 1

\* One worker at a time has claimed a delivery, and one is at its click.
OneClaim == \A v, w \in Workers : Claimed(v) /\ Claimed(w) /\ Item(v) = Item(w) => v = w
OneClick ==
  \A v, w \in Workers : At(v, "click") /\ At(w, "click") /\ Item(v) = Item(w) => v = w

\* The inductive invariant.
IInv ==
  /\ TypeOK
  /\ \A x \in Items : Agree(x) /\ RowInv(x)
  /\ Ordered
  /\ \A w \in Workers : WorkerInv(w)
  /\ OneClaim /\ OneClick

------------------------------------------------------------------------------
(* What one step may do to one delivery and its rows. *)

Same(x) ==
  /\ UNCHANGED <<attempt[x], sends[x]>>
  /\ \/ UNCHANGED delivery[x]
     \/ delivery[x] \in {"planned", "queued"} /\ delivery'[x] \in {"planned", "queued"}
     \/ delivery[x] \in Outstanding /\ delivery'[x] = "stopped" /\ ControlsStopped(x[1])'
     \/ /\ delivery[x] = "none" /\ delivery'[x] = "queued"
        /\ \A y \in Items : y[1] = x[1] /\ y[2] < x[2] => delivery[y] = "sent"

Taken(x) ==
  /\ delivery[x] = "queued" /\ delivery'[x] = "sending" /\ UNCHANGED sends[x]
  /\ attempt'[x].outcome = "reserved" /\ ~attempt'[x].marked

TakenBack(x) ==
  /\ attempt[x].outcome = "reserved" /\ ~attempt[x].marked /\ UNCHANGED sends[x]
  /\ attempt'[x].outcome = "unsent" /\ ~attempt'[x].marked
  /\ delivery'[x] \in {"planned", "queued", "stopped"}
  /\ delivery[x] = "stopped" => delivery'[x] = "stopped"
  /\ delivery'[x] = "stopped" => ControlsStopped(x[1])'

Marked(x) ==
  /\ attempt[x].outcome = "reserved" /\ ~attempt[x].marked
  /\ delivery[x] = "sending" /\ UNCHANGED <<delivery[x], sends[x]>>
  /\ attempt'[x].outcome = "reserved" /\ attempt'[x].marked

Sent(x) ==
  /\ attempt[x].outcome \in {"reserved", "unclear"} /\ attempt[x].marked /\ sends[x] = 0
  /\ UNCHANGED <<attempt[x], delivery[x]>> /\ sends'[x] = 1

Closed(x) ==
  /\ attempt[x].outcome = "reserved" /\ attempt[x].marked /\ UNCHANGED sends[x]
  /\ attempt'[x].marked
  /\ attempt'[x].outcome = delivery'[x]
  /\ \/ delivery'[x] = "sent" /\ sends[x] = 1
     \/ delivery'[x] = "unclear"

Move(x) == Same(x) \/ Taken(x) \/ TakenBack(x) \/ Marked(x) \/ Sent(x) \/ Closed(x)

RowsMove(x) ==
  /\ \A k \in Rows : row[x][k] # "none" => row'[x][k] # "none"
  /\ \A k \in Rows : row'[x][k] = "pending" =>
       \/ /\ row[x][k] = "pending" /\ UNCHANGED <<current[x], delivery[x]>>
          /\ ControlsActive(x[1])'
       \/ /\ k = current'[x] /\ delivery'[x] = "queued" /\ ControlsActive(x[1])'
          /\ row[x][k] = "none" \/ attempt[x].outcome = "reserved"
  /\ \/ current'[x] \in {current[x], NoRow}
     \/ current'[x] \in Rows /\ row[x][current'[x]] = "none" /\ row'[x][current'[x]] # "none"

StopsStay == \A c \in Channels : ControlsStopped(c) => ControlsStopped(c)'

\* A worker that does nothing: no other takes the delivery it claimed or clicks for it.
Waits(v) ==
  /\ worker'[v] = worker[v]
  /\ Claimed(v) => Quiet(Item(v))'
  /\ At(v, "click") => sends'[Item(v)] = sends[Item(v)]

LEMMA ItemParts ==
  ASSUME NEW x \in Items
  PROVE  x[1] \in Channels /\ x[2] \in 0..LastStep[x[1]] /\ x = <<x[1], x[2]>> /\ x[2] \in Nat
  BY DripAssumption DEF DripAssumption, Items

\* One delivery of a lane is under way at a time.
LEMMA Alone ==
  ASSUME IInv, NEW x \in Items, NEW y \in Items, x[1] = y[1],
         delivery[x] \notin {"none", "sent"}, delivery[y] \notin {"none", "sent"}
  PROVE  x = y
<1>1. ~(x[2] < y[2]) /\ ~(y[2] < x[2])
  BY DEF IInv, Ordered
<1>2. x[2] = y[2]
  BY <1>1, ItemParts
<1> QED BY <1>2, ItemParts

LEMMA AgreeKeeps ==
  ASSUME IInv, NEW x \in Items, Move(x), StopsStay, TypeOK'
  PROVE  Agree(x)'
<1>1. Agree(x) /\ (ControlsStopped(x[1]) => ControlsStopped(x[1])')
  BY ItemParts DEF IInv, StopsStay
<1>2. sends[x] \in Nat /\ attempt[x].outcome \in {"none", "reserved", "unsent", "sent", "unclear"}
      /\ attempt[x].marked \in BOOLEAN
  BY DEF IInv, TypeOK
<1>3. CASE Same(x)
  BY <1>1, <1>2, <1>3 DEF Same, Agree, Quiet, Outstanding
<1>4. CASE Taken(x)
  BY <1>1, <1>2, <1>4 DEF Taken, Agree, Quiet
<1>5. CASE TakenBack(x)
  BY <1>1, <1>2, <1>5 DEF TakenBack, Agree, Quiet
<1>6. CASE Marked(x)
  BY <1>1, <1>2, <1>6 DEF Marked, Agree, Quiet
<1>7. CASE Sent(x)
  BY <1>1, <1>2, <1>7 DEF Sent, Agree, Quiet
<1>8. CASE Closed(x)
  BY <1>1, <1>2, <1>8 DEF Closed, Agree, Quiet
<1> QED BY <1>3, <1>4, <1>5, <1>6, <1>7, <1>8 DEF Move

LEMMA OrderKeeps ==
  ASSUME IInv, \A x \in Items : Move(x)
  PROVE  Ordered'
<1>1. ASSUME NEW x \in Items, delivery[x] = "sent" PROVE delivery'[x] = "sent"
  BY <1>1 DEF IInv, Agree, Move, Same, Taken, TakenBack, Marked, Sent, Closed, Outstanding
<1>2. ASSUME NEW x \in Items, delivery'[x] # "none", NEW y \in Items, x[1] = y[1], y[2] < x[2]
      PROVE  delivery[y] = "sent"
  <2>1. CASE delivery[x] # "none"
    BY <1>2, <2>1 DEF IInv, Ordered
  <2>2. CASE delivery[x] = "none"
    <3>1. Agree(x)
      BY DEF IInv
    <3>2. Same(x)
      BY <2>2, <3>1 DEF Agree, Move, Taken, TakenBack, Marked, Sent, Closed
    <3> QED BY <1>2, <2>2, <3>2 DEF Same, Outstanding
  <2> QED BY <2>1, <2>2
<1> QED BY <1>1, <1>2 DEF Ordered

LEMMA RowsKeep ==
  ASSUME IInv, NEW x \in Items, RowsMove(x)
  PROVE  RowInv(x)'
<1>1. RowInv(x) /\ current[x] \in Rows \union {NoRow}
  BY DEF IInv, TypeOK
<1>2. ASSUME NEW k \in Rows, row'[x][k] = "pending"
      PROVE  k = current'[x] /\ delivery'[x] = "queued" /\ ControlsActive(x[1])'
  <2>1. CASE row[x][k] = "pending" /\ UNCHANGED <<current[x], delivery[x]>> /\ ControlsActive(x[1])'
    BY <1>1, <2>1 DEF RowInv
  <2> QED BY <1>2, <2>1 DEF RowsMove
<1>3. ASSUME current'[x] # NoRow PROVE row'[x][current'[x]] # "none"
  BY <1>1, <1>3 DEF RowInv, RowsMove
<1> QED BY <1>2, <1>3 DEF RowInv

\* A worker that waits keeps what it relies on.
LEMMA WaitKeeps ==
  ASSUME IInv, \A x \in Items : Move(x) /\ RowsMove(x), NEW v \in Workers, Waits(v)
  PROVE  /\ WorkerInv(v)'
         /\ Claimed(v)' => Claimed(v)
<1> DEFINE k == worker[v].row
<1>1. WorkerInv(v) /\ worker'[v] = worker[v] /\ Item(v)' = Item(v) /\ Lane(v)' = Lane(v)
  BY DEF IInv, Waits, Item, Lane
<1>2. CASE worker[v].pc \in {"down", "idle"}
  BY <1>1, <1>2 DEF WorkerInv, At, Claimed
<1>3. CASE worker[v].pc \notin {"down", "idle"}
  <2>0. Item(v) \in Items
    BY <1>1, <1>3 DEF WorkerInv, Steps
  <2> PICK x \in Items : x = Item(v)
    BY <2>0
  <2>1. Item(v) = x /\ Item(v)' = x /\ x \in Steps(Lane(v)) /\ k \in Rows /\ row[x][k] # "none"
    BY <1>1, <1>3 DEF WorkerInv
  <2>2. row'[x][k] # "none" /\ Move(x) /\ RowsMove(x) /\ Agree(x)
    <3>1. Move(x) /\ RowsMove(x) /\ Agree(x)
      BY DEF IInv
    <3> QED BY <2>1, <3>1 DEF RowsMove
  <2>3. Claimed(v)' => Claimed(v)
    <3>1. k # NoRow
      BY <2>1 DEF Rows, NoRow
    <3> QED BY <1>1, <2>1, <2>2, <3>1 DEF RowsMove, Claimed, At
  <2>4. Claimed(v)' => row'[x][k] # "pending" /\ Quiet(x)' /\ delivery'[x] # "none"
    <3> SUFFICES ASSUME Claimed(v)' PROVE row'[x][k] # "pending" /\ Quiet(x)' /\ delivery'[x] # "none"
      OBVIOUS
    <3>1. row[x][k] # "pending" /\ Quiet(x) /\ delivery[x] # "none"
      BY <1>1, <2>1, <2>3 DEF WorkerInv
    <3>2. row'[x][k] # "pending"
      BY <2>1, <2>2, <3>1 DEF RowsMove, Quiet
    <3>3. Quiet(x)'
      BY <1>1, <2>1, <2>3 DEF Waits, Quiet
    <3>4. delivery'[x] # "none"
      BY <2>2, <3>1 DEF Outstanding, Move, Same, Taken, TakenBack, Marked, Sent, Closed
    <3> QED BY <3>2, <3>3, <3>4
  <2>5. At(v, "click") => /\ attempt'[x].marked /\ attempt'[x].outcome \in {"reserved", "unclear"}
                          /\ sends'[x] = 0
    <3> SUFFICES ASSUME At(v, "click")
                 PROVE  /\ attempt'[x].marked /\ attempt'[x].outcome \in {"reserved", "unclear"}
                        /\ sends'[x] = 0
      OBVIOUS
    <3>1. attempt[x].marked /\ attempt[x].outcome \in {"reserved", "unclear"} /\ sends[x] = 0
      BY <1>1, <2>1 DEF WorkerInv
    <3>2. sends'[x] = 0
      BY <1>1, <2>1, <3>1 DEF Waits
    <3> QED BY <2>2, <3>1, <3>2
            DEF Agree, Quiet, Move, Same, Taken, TakenBack, Marked, Sent, Closed
  <2>6. At(v, "sent") => sends'[x] = 1
    BY <1>1, <2>1, <2>2 DEF WorkerInv, Move, Same, Taken, TakenBack, Marked, Sent, Closed
  <2> QED BY <1>1, <1>3, <2>1, <2>2, <2>3, <2>4, <2>5, <2>6 DEF WorkerInv, At
<1> QED BY <1>2, <1>3

\* All that a step has to show.
LEMMA Keeps ==
  ASSUME IInv, TypeOK', StopsStay, \A x \in Items : Move(x) /\ RowsMove(x),
         \A v \in Workers : \/ Waits(v)
                            \/ worker'[v].pc \notin {"claimed", "click"} /\ WorkerInv(v)'
  PROVE  IInv'
<1>1. \A x \in Items : Agree(x)' /\ RowInv(x)'
  BY AgreeKeeps, RowsKeep
<1>2. Ordered'
  BY OrderKeeps
<1>3. \A v \in Workers : WorkerInv(v)'
  BY WaitKeeps
<1>4. OneClaim'
  <2>1. ASSUME NEW v \in Workers, Claimed(v)' PROVE Claimed(v) /\ Item(v)' = Item(v)
    BY <2>1, WaitKeeps DEF Claimed, At, Waits, Item
  <2> QED BY <2>1 DEF IInv, OneClaim
<1>5. OneClick'
  <2>1. ASSUME NEW v \in Workers, At(v, "click")' PROVE At(v, "click") /\ Item(v)' = Item(v)
    BY <2>1 DEF At, Waits, Item
  <2> QED BY <2>1 DEF IInv, OneClick
<1> QED BY <1>1, <1>2, <1>3, <1>4, <1>5 DEF IInv

------------------------------------------------------------------------------
(* A move of one delivery is a step of the promise or a stutter. *)
PromiseMove(x) == Promise(x)!Next \/ UNCHANGED <<Phase(x), sends[x]>>

LEMMA MovePromise ==
  ASSUME IInv, NEW x \in Items, Move(x)
  PROVE  PromiseMove(x)
<1>1. Agree(x) /\ attempt[x].marked \in BOOLEAN /\ sends[x] \in Nat
  BY DEF IInv, TypeOK
<1>2. ASSUME \/ Promise(x)!Begin(x) \/ Promise(x)!Deliver(x) \/ Promise(x)!Close(x)
             \/ Promise(x)!Withhold(x)
      PROVE  PromiseMove(x)
  <2>1. x \in {x}
    OBVIOUS
  <2> QED BY <1>2, <2>1 DEF PromiseMove, Promise!Next
<1>3. CASE Same(x)
  <2>1. UNCHANGED Phase(x) \/ (Phase(x) = "unsent" /\ Phase(x)' = "withheld")
    BY <1>1, <1>3 DEF Same, Agree, Quiet, Outstanding, Phase
  <2>2. CASE UNCHANGED Phase(x)
    BY <1>3, <2>2 DEF Same, PromiseMove
  <2>3. CASE Phase(x) = "unsent" /\ Phase(x)' = "withheld"
    <3>1. Promise(x)!Withhold(x)
      BY <1>3, <2>3 DEF Same, Promise!Withhold
    <3> QED BY <1>2, <3>1
  <2> QED BY <2>1, <2>2, <2>3
<1>4. CASE Taken(x)
  BY <1>1, <1>4 DEF Taken, Agree, Quiet, Phase, PromiseMove
<1>5. CASE TakenBack(x)
  <2>1. UNCHANGED Phase(x) \/ (Phase(x) = "unsent" /\ Phase(x)' = "withheld")
    BY <1>1, <1>5 DEF TakenBack, Phase
  <2>2. CASE UNCHANGED Phase(x)
    BY <1>5, <2>2 DEF TakenBack, PromiseMove
  <2>3. CASE Phase(x) = "unsent" /\ Phase(x)' = "withheld"
    <3>1. Promise(x)!Withhold(x)
      BY <1>5, <2>3 DEF TakenBack, Promise!Withhold
    <3> QED BY <1>2, <3>1
  <2> QED BY <2>1, <2>2, <2>3
<1>6. CASE Marked(x)
  <2>1. Phase(x) = "unsent" /\ Phase(x)' = "inFlight" /\ sends'[x] = sends[x]
    BY <1>6 DEF Marked, Phase
  <2>2. Promise(x)!Begin(x)
    BY <2>1 DEF Promise!Begin
  <2> QED BY <1>2, <2>2
<1>7. CASE Sent(x)
  <2>1. Phase(x) \in {"inFlight", "closed"} /\ UNCHANGED Phase(x) /\ sends[x] = 0 /\ sends'[x] = 1
    BY <1>7 DEF Sent, Phase
  <2>2. Promise(x)!Deliver(x)
    BY <2>1 DEF Promise!Deliver
  <2> QED BY <1>2, <2>2
<1>8. CASE Closed(x)
  <2>1. Phase(x) = "inFlight" /\ Phase(x)' = "closed" /\ sends'[x] = sends[x]
    BY <1>8 DEF Closed, Phase
  <2>2. Promise(x)!Close(x)
    BY <2>1 DEF Promise!Close
  <2> QED BY <1>2, <2>2
<1> QED BY <1>3, <1>4, <1>5, <1>6, <1>7, <1>8 DEF Move
------------------------------------------------------------------------------
(* What the steps have in common. *)

Moves == \A x \in Items : Move(x) /\ RowsMove(x)

\* A row that waits is the current one of a queued delivery under active controls.
LEMMA PendingRow ==
  ASSUME IInv, NEW x \in Items, NEW k \in Rows, row[x][k] = "pending"
  PROVE  /\ k = current[x] /\ delivery[x] = "queued" /\ Quiet(x)
         /\ campaign /\ enrollment = "active" /\ lane[x[1]] = "active"
         /\ ControlsActive(x[1]) /\ ~ControlsStopped(x[1])
<1>1. RowInv(x) /\ Agree(x) /\ attempt[x].outcome \in {"none", "reserved", "unsent", "sent", "unclear"}
  BY DEF IInv, TypeOK
<1> QED BY <1>1 DEF RowInv, Agree, Quiet, ControlsActive, ControlsStopped

\* What a worker at work can rely on.
LEMMA WorkerFacts ==
  ASSUME IInv, NEW w \in Workers, worker[w].pc \notin {"down", "idle"}
  PROVE  /\ Item(w) \in Items /\ Item(w)[1] = Lane(w) /\ worker[w].row \in Rows
         /\ worker[w].row # NoRow /\ WorkerInv(w)
BY DEF IInv, WorkerInv, Steps, Rows, NoRow

\* A worker that does not move waits, unless its delivery is taken from it or sent for it.
LEMMA OthersWait ==
  ASSUME IInv, Moves, NEW v \in Workers, worker'[v] = worker[v],
         \A x \in Items : Item(v) = x => /\ Claimed(v) => ~Taken(x)
                                         /\ At(v, "click") => UNCHANGED sends[x]
  PROVE  Waits(v)
<1>1. Item(v)' = Item(v)
  BY DEF Item
<1>2. CASE worker[v].pc \notin {"claimed", "click"}
  BY <1>2 DEF Waits, Claimed, At
<1>3. CASE worker[v].pc \in {"claimed", "click"}
  <2> PICK x \in Items : x = Item(v)
    BY <1>3, WorkerFacts
  <2>1. Move(x) /\ WorkerInv(v) /\ Item(v)' = x /\ Item(v) = x
    BY <1>1 DEF IInv, Moves
  <2>2. Claimed(v) => Quiet(x)'
    BY <2>1 DEF WorkerInv, Quiet, Move, Same, TakenBack, Marked, Sent, Closed
  <2> QED BY <2>1, <2>2 DEF Waits, Quiet
<1> QED BY <1>2, <1>3

\* A step that only touches the tables.
LEMMA TableStep ==
  ASSUME IInv, TypeOK', StopsStay, Moves, UNCHANGED worker, UNCHANGED sends,
         \A x \in Items : ~Taken(x)
  PROVE  IInv'
<1>1. \A v \in Workers : Waits(v)
  BY OthersWait
<1> QED BY <1>1, Keeps DEF Moves

\* A step of a worker that neither claims a row nor clicks afterwards.
LEMMA WorkerStep ==
  ASSUME IInv, TypeOK', StopsStay, Moves, NEW w \in Workers,
         \A v \in Workers \ {w} : worker'[v] = worker[v],
         worker[w].pc \notin {"down", "idle"},
         worker'[w].item = worker[w].item, worker'[w].row = worker[w].row,
         worker'[w].pc \in {"open", "sent", "failed", "hold", "finish", "error"},
         \A x \in Items : worker'[w].pc = "sent" /\ Item(w) = x => sends'[x] = 1,
         \A x \in Items : Taken(x) => Claimed(w) /\ Item(w) = x,
         \A x \in Items : UNCHANGED sends[x] \/ (At(w, "click") /\ Item(w) = x)
  PROVE  IInv'
<1>1. ASSUME NEW v \in Workers \ {w} PROVE Waits(v)
  <2>1. \A x \in Items : Item(v) = x => (Claimed(v) => ~Taken(x))
    BY DEF IInv, OneClaim
  <2>2. \A x \in Items : Item(v) = x => (At(v, "click") => UNCHANGED sends[x])
    BY DEF IInv, OneClick
  <2> QED BY <2>1, <2>2, OthersWait
<1>2. WorkerInv(w)'
  <2> PICK x \in Items : x = Item(w)
    BY WorkerFacts
  <2>1. /\ Item(w)' = x /\ Lane(w)' = Lane(w) /\ x \in Steps(Lane(w)) /\ worker'[w].row \in Rows
        /\ row[x][worker[w].row] # "none"
    BY DEF IInv, WorkerInv, Item, Lane
  <2>2. row'[x][worker'[w].row] # "none"
    BY <2>1 DEF Moves, RowsMove
  <2> QED BY <2>1, <2>2 DEF WorkerInv, Claimed, At
<1> QED BY <1>1, <1>2, Keeps DEF Moves
------------------------------------------------------------------------------
(* Stops, the answer and the reconciliation. *)

Statuses == Outstanding \union {"none", "sent", "stopped", "unclear"}

\* What a stop leaves behind: no row waits, and both lanes are stopped.
Stopped(d) ==
  /\ \A c \in Channels : ControlsStopped(c)'
  /\ \A x \in Items : /\ \A k \in Rows : /\ row'[x][k] # "pending"
                                         /\ row[x][k] # "none" => row'[x][k] # "none"
                      /\ \/ delivery'[x] = d[x]
                         \/ d[x] \in Outstanding /\ delivery'[x] = "stopped"
  /\ enrollment' \in {"stopped", "completed"}
  /\ lane' \in [Channels -> NonTerminal \union {"stopped", "completed"}]
  /\ delivery' \in [Items -> Statuses]
  /\ row' \in [Items -> [Rows -> {"none", "pending", "running", "completed", "failed"}]]

\* Withholding all that is queued in the lanes that go on leaves no row waiting.
LEMMA WithholdStops ==
  ASSUME IInv, NEW S, S \subseteq Items, NEW d \in [Items -> Statuses], Withhold(S, d),
         \A x \in S : d[x] \in Outstanding,
         \A x \in Items : delivery[x] = "queued" /\ lane[x[1]] = "active" => x \in S
  PROVE  Stopped(d)
<1>1. \A x \in Items, k \in Rows : row'[x][k] # "pending" /\ (row[x][k] # "none" => row'[x][k] # "none")
  <2> SUFFICES ASSUME NEW x \in Items, NEW k \in Rows
               PROVE  row'[x][k] # "pending" /\ (row[x][k] # "none" => row'[x][k] # "none")
    OBVIOUS
  <2>1. row'[x][k] = IF x \in S /\ k = current[x] /\ row[x][k] = "pending" THEN "completed" ELSE row[x][k]
    BY DEF Withhold, Retired
  <2>2. row[x][k] = "pending" => x \in S /\ k = current[x]
    BY PendingRow
  <2> QED BY <2>1, <2>2
<1>2. row' \in [Items -> [Rows -> {"none", "pending", "running", "completed", "failed"}]]
  BY DEF Withhold, Retired, IInv, TypeOK
<1>3. /\ delivery' \in [Items -> Statuses]
      /\ \A x \in Items : delivery'[x] = d[x] \/ (d[x] \in Outstanding /\ delivery'[x] = "stopped")
  BY DEF Withhold, Statuses
<1>4. /\ lane' \in [Channels -> NonTerminal \union {"stopped", "completed"}]
      /\ enrollment' = "stopped"
  BY DEF Withhold, Halted, IInv, TypeOK
<1> QED BY <1>1, <1>2, <1>3, <1>4 DEF Stopped, ControlsStopped

LEMMA StopForReasonStops ==
  ASSUME IInv, NEW d \in [Items -> Statuses], StopForReason(d),
         \A x \in Items : delivery[x] = "queued" => d[x] = "queued"
  PROVE  Stopped(d)
<1>1. CASE enrollment \in {"stopped", "completed"}
  <2>1. \A x \in Items, k \in Rows : row[x][k] # "pending"
    BY <1>1, PendingRow
  <2> QED BY <1>1, <2>1 DEF StopForReason, Stopped, ControlsStopped, IInv, TypeOK
<1>2. CASE enrollment \notin {"stopped", "completed"}
  <2> DEFINE S == {x \in Items : d[x] \in {"planned", "queued"} /\ lane[x[1]] \in NonTerminal}
  <2>1. Withhold(S, d)
    BY <1>2 DEF StopForReason
  <2>2. \A x \in Items : delivery[x] = "queued" /\ lane[x[1]] = "active" => x \in S
    BY DEF NonTerminal
  <2>3. \A x \in S : d[x] \in Outstanding
    BY DEF Outstanding
  <2> HIDE DEF S
  <2>4. S \subseteq Items
    BY DEF S
  <2> QED BY <2>1, <2>2, <2>3, <2>4, WithholdStops
<1> QED BY <1>1, <1>2

LEMMA StopLockedStops ==
  ASSUME IInv, NEW d \in [Items -> Statuses], StopLocked(d),
         \A x \in Items : delivery[x] = "queued" => d[x] = "queued"
  PROVE  Stopped(d)
<1> DEFINE S == {x \in Items : d[x] \in Outstanding}
<1>1. Withhold(S, d)
  BY DEF StopLocked
<1>2. \A x \in Items : delivery[x] = "queued" /\ lane[x[1]] = "active" => x \in S
  BY DEF Outstanding
<1>3. S \subseteq Items /\ \A x \in S : d[x] \in Outstanding
  OBVIOUS
<1> HIDE DEF S
<1> QED BY <1>1, <1>2, <1>3, WithholdStops

\* After a stop the rows and the controls are in order whatever the attempt did.
LEMMA StoppedRows ==
  ASSUME IInv, NEW d \in [Items -> Statuses], Stopped(d), 
         NEW x \in Items, current'[x] \in {current[x], NoRow}
  PROVE  RowsMove(x) /\ StopsStay
BY DEF Stopped, RowsMove, StopsStay

\* A delivery the stop found as it was.
LEMMA StoppedSame ==
  ASSUME IInv, NEW d \in [Items -> Statuses], Stopped(d), 
         NEW x \in Items, d[x] = delivery[x], UNCHANGED <<attempt[x], sends[x]>>
  PROVE  Same(x)
BY ItemParts DEF Stopped, Same

LEMMA DeliveryTyped ==
  ASSUME IInv
  PROVE  delivery \in [Items -> Statuses]
BY DEF IInv, TypeOK, Statuses

LEMMA AnswerStep ==
  ASSUME IInv, Answer
  PROVE  IInv' /\ Moves
<1>1. TypeOK'
  BY DEF Answer, graph, IInv, TypeOK
<1>2. ASSUME NEW x \in Items PROVE Same(x) /\ RowsMove(x)
  <2>1. UNCHANGED <<attempt[x], sends[x], delivery[x], row[x], current[x]>>
        /\ (ControlsActive(x[1]) => ControlsActive(x[1])')
    BY DEF Answer, graph, ControlsActive
  <2> QED BY <2>1, PendingRow DEF Same, RowsMove
<1>3. StopsStay
  BY DEF Answer, graph, StopsStay, ControlsStopped
<1>4. \A x \in Items : ~Taken(x)
  BY <1>2 DEF Answer, graph, Taken
<1>5. Moves
  BY <1>2 DEF Moves, Move
<1>6. UNCHANGED worker /\ UNCHANGED sends
  BY DEF Answer
<1> QED BY <1>1, <1>3, <1>4, <1>5, <1>6, TableStep

LEMMA InboundHookStep ==
  ASSUME IInv, InboundHook
  PROVE  IInv' /\ Moves
<1>1. Stopped(delivery)
  BY DeliveryTyped, StopForReasonStops DEF InboundHook
<1>2. TypeOK'
  BY <1>1 DEF InboundHook, Stopped, Statuses, IInv, TypeOK
<1>3. ASSUME NEW x \in Items PROVE Same(x) /\ RowsMove(x) /\ StopsStay
  <2>1. UNCHANGED <<attempt[x], sends[x], current[x]>>
    BY DEF InboundHook
  <2> QED BY <1>1, <2>1, DeliveryTyped, StoppedSame, StoppedRows
<1>4. StopsStay
  BY <1>1 DEF Stopped, StopsStay
<1>5. \A x \in Items : ~Taken(x)
  BY <1>1 DEF Stopped, Taken
<1>6. Moves
  BY <1>3 DEF Moves, Move
<1>7. UNCHANGED worker /\ UNCHANGED sends
  BY DEF InboundHook
<1> QED BY <1>2, <1>4, <1>5, <1>6, <1>7, TableStep
\* The row a step gets is the first one that is free.
LEMMA OneFreeRow ==
  ASSUME NEW x \in Items
  PROVE  \A j, k \in FreeRow(x) : j = k
<1>1. ASSUME NEW j \in FreeRow(x), NEW k \in FreeRow(x) PROVE ~(j < k)
  <2>1. j \in Nat /\ k \in Nat /\ 1 <= j /\ row[x][j] = "none"
    BY DripAssumption DEF DripAssumption, FreeRow, Rows
  <2>2. j < k => j \in 1..(k - 1)
    BY <2>1
  <2> QED BY <2>1, <2>2 DEF FreeRow
<1>2. FreeRow(x) \subseteq Nat
  BY DripAssumption DEF DripAssumption, FreeRow, Rows
<1> QED BY <1>1, <1>2

\* No row of a loose delivery waits.
LEMMA LooseRow ==
  ASSUME IInv, NEW x \in Items, x \in Loose(x[1])
  PROVE  \A k \in Rows : row[x][k] # "pending"
<1>1. \A k \in Rows : k # NoRow
  BY DEF Rows, NoRow
<1>2. ~Live(x)
  BY DEF Loose
<1> QED BY <1>1, <1>2, PendingRow DEF Live

LEMMA ReconcileStep ==
  ASSUME IInv, Reconcile
  PROVE  IInv' /\ Moves
<1>1. UNCHANGED <<campaign, stop, hook, attempt, sends, worker, events>>
  BY DEF Reconcile, outside
<1>2. CASE stop
  <2>1. Stopped(delivery) /\ UNCHANGED <<handed, current>>
    BY <1>2, DeliveryTyped, StopForReasonStops DEF Reconcile
  <2>2. TypeOK'
    BY <1>1, <2>1 DEF Stopped, Statuses, IInv, TypeOK
  <2>3. ASSUME NEW x \in Items PROVE Same(x) /\ RowsMove(x)
    <3>1. UNCHANGED <<attempt[x], sends[x], current[x]>>
      BY <1>1, <2>1
    <3> QED BY <2>1, <3>1, DeliveryTyped, StoppedSame, StoppedRows
  <2>4. StopsStay
    BY <2>1 DEF Stopped, StopsStay
  <2>5. \A x \in Items : ~Taken(x)
    BY <2>1 DEF Stopped, Taken
  <2>6. Moves
    BY <2>3 DEF Moves, Move
  <2> QED BY <1>1, <2>2, <2>4, <2>5, <2>6, TableStep
<1>3. CASE ~stop
  <2> PICK ready \in SUBSET Channels, due \in SUBSET Channels :
       LET Open == {c \in Channels : GoesOn(c, ready)}
           Ended == {c \in Open : AllSent(c)}
           Queue == (UNION {Loose(c) : c \in Open}) \union (UNION {Unmade(c) : c \in Open \intersect due})
           Kept == UNION {Loose(c) : c \in {e \in Channels : Holds(e)}}
           New == [x \in Queue |-> FreeRow(x)]
           lanes == [c \in Channels |-> IF c \in Ended THEN "completed"
                                        ELSE IF c \in Open THEN "active" ELSE lane[c]]
       IN /\ \A x \in Queue : New[x] # {}
          /\ lane' = lanes /\ handed' = handed \union Open
          /\ delivery' = [x \in Items |-> IF x \in Queue THEN "queued"
                                          ELSE IF x \in Kept THEN "planned" ELSE delivery[x]]
          /\ current' = [x \in Items |-> IF x \in Queue THEN CHOOSE k \in New[x] : TRUE
                                         ELSE IF x \in Kept THEN NoRow ELSE current[x]]
          /\ row' = [x \in Items |-> [k \in Rows |->
                       IF x \in Queue /\ k \in New[x] THEN "pending" ELSE row[x][k]]]
          /\ enrollment' = IF ~campaign \/ enrollment = "paused" THEN enrollment
                           ELSE IF \A c \in Channels : lanes[c] = "completed" THEN "completed"
                           ELSE IF \E c \in Channels : lanes[c] = "active" THEN "active"
                           ELSE enrollment
    BY <1>3 DEF Reconcile
  <2> DEFINE Open == {c \in Channels : GoesOn(c, ready)}
             Ended == {c \in Open : AllSent(c)}
             Queue == (UNION {Loose(c) : c \in Open}) \union (UNION {Unmade(c) : c \in Open \intersect due})
             Kept == UNION {Loose(c) : c \in {e \in Channels : Holds(e)}}
  <2>1. \A x \in Items :
          /\ x \in Queue => /\ x[1] \in Open /\ (x \in Loose(x[1]) \/ x \in Unmade(x[1]))
                            /\ delivery'[x] = "queued"
          /\ x \in Kept /\ x \notin Queue => /\ Holds(x[1]) /\ x \in Loose(x[1])
                                             /\ delivery'[x] = "planned" /\ current'[x] = NoRow
          /\ x \notin Kept /\ x \notin Queue => UNCHANGED <<delivery[x], current[x]>>
    <3> SUFFICES ASSUME NEW x \in Items
                 PROVE  /\ x \in Queue => /\ x[1] \in Open /\ (x \in Loose(x[1]) \/ x \in Unmade(x[1]))
                                           /\ delivery'[x] = "queued"
                        /\ x \in Kept /\ x \notin Queue =>
                             /\ Holds(x[1]) /\ x \in Loose(x[1])
                             /\ delivery'[x] = "planned" /\ current'[x] = NoRow
                        /\ x \notin Kept /\ x \notin Queue => UNCHANGED <<delivery[x], current[x]>>
      OBVIOUS
    <3>1. ASSUME x \in Queue PROVE x[1] \in Open /\ (x \in Loose(x[1]) \/ x \in Unmade(x[1]))
      <4> PICK c \in Open : x \in Loose(c) \/ x \in Unmade(c)
        <5>1. x \in (UNION {Loose(c) : c \in Open}) \/ x \in (UNION {Unmade(c) : c \in Open \intersect due})
          BY <3>1
        <5> QED BY <5>1, Zenon
      <4>1. x[1] = c
        BY DEF Loose, Unmade, Steps
      <4> QED BY <4>1
    <3>2. x \in Kept => Holds(x[1]) /\ x \in Loose(x[1])
      BY DEF Loose, Steps
    <3>3. delivery'[x] = IF x \in Queue THEN "queued" ELSE IF x \in Kept THEN "planned" ELSE delivery[x]
      BY Zenon
    <3>4. x \notin Queue => current'[x] = IF x \in Kept THEN NoRow ELSE current[x]
      BY Zenon
    <3> HIDE DEF Queue, Kept, Open
    <3> QED BY <3>1, <3>2, <3>3, <3>4
  <2>2. \A x \in Items :
          /\ x \in Queue => /\ current'[x] \in FreeRow(x)
                            /\ \A k \in Rows : row'[x][k] = IF k \in FreeRow(x) THEN "pending" ELSE row[x][k]
          /\ x \notin Queue => \A k \in Rows : row'[x][k] = row[x][k]
    BY DEF FreeRow
  <2>3. \A c \in Channels : lane'[c] = IF c \in Ended THEN "completed"
                                       ELSE IF c \in Open THEN "active" ELSE lane[c]
    OBVIOUS
  <2>4. /\ enrollment \notin {"stopped", "completed"}
        /\ enrollment' = IF ~campaign \/ enrollment = "paused" THEN enrollment
                         ELSE IF \A c \in Channels : lane'[c] = "completed" THEN "completed"
                         ELSE IF \E c \in Channels : lane'[c] = "active" THEN "active"
                         ELSE enrollment
    BY DEF Reconcile
  <2>5. TypeOK'
    <3>1. delivery' \in [Items -> Outstanding \union {"none", "sent", "stopped", "unclear"}]
      BY DEF Outstanding, IInv, TypeOK
    <3>2. current' \in [Items -> Rows \union {NoRow}]
      BY <2>2 DEF FreeRow, IInv, TypeOK
    <3>3. row' \in [Items -> [Rows -> {"none", "pending", "running", "completed", "failed"}]]
      BY DEF IInv, TypeOK
    <3>4. lane' \in [Channels -> NonTerminal \union {"stopped", "completed"}] /\ handed' \subseteq Channels
      BY DEF NonTerminal, IInv, TypeOK
    <3>5. enrollment' \in {"waiting", "active", "paused", "stopped", "completed"}
      BY <2>4 DEF IInv, TypeOK
    <3> QED BY <1>1, <3>1, <3>2, <3>3, <3>4, <3>5 DEF IInv, TypeOK
  <2> HIDE DEF Queue, Kept
  <2>6. ASSUME NEW x \in Items, delivery[x] # "sent", x[1] \in Open
        PROVE  ControlsActive(x[1])'
    <3>1. x[1] \notin Ended
      BY <2>6 DEF AllSent, Steps
    <3>2. lane'[x[1]] = "active"
      BY <2>3, <2>6, <3>1, ItemParts
    <3>3. campaign /\ enrollment # "paused"
      BY <2>6 DEF GoesOn
    <3>4. enrollment' = "active"
      BY <2>4, <3>2, <3>3, ItemParts
    <3> QED BY <1>1, <3>2, <3>3, <3>4 DEF ControlsActive
  <2>7. ASSUME NEW x \in Items PROVE Same(x)
    <3>1. UNCHANGED <<attempt[x], sends[x]>>
      BY <1>1
    <3>2. CASE x \in Queue /\ x \in Unmade(x[1])
      BY <2>1, <3>1, <3>2 DEF Same, Unmade, Steps
    <3>3. CASE x \in Queue /\ x \in Loose(x[1])
      BY <2>1, <3>1, <3>3 DEF Same, Loose
    <3>4. CASE x \notin Queue
      BY <2>1, <3>1, <3>4 DEF Same, Loose
    <3> QED BY <2>1, <3>2, <3>3, <3>4
  <2>8. ASSUME NEW x \in Items PROVE RowsMove(x)
    <3>1. CASE x \in Queue
      <4>1. delivery[x] # "sent" /\ delivery[x] \in {"none", "planned", "queued"} /\ x[1] \in Open
        BY <2>1, <3>1 DEF Loose, Unmade
      <4>2. ControlsActive(x[1])'
        BY <2>6, <4>1
      <4>3. \A k \in Rows : row[x][k] # "pending"
        <5>1. CASE x \in Loose(x[1])
          BY <5>1, LooseRow
        <5>2. CASE x \in Unmade(x[1])
          BY <5>2, PendingRow DEF Unmade
        <5> QED BY <2>1, <3>1, <5>1, <5>2
      <4>4. \A j, k \in FreeRow(x) : j = k
        BY OneFreeRow
      <4>5. \A k \in FreeRow(x) : k \in Rows /\ row[x][k] = "none"
        BY DEF FreeRow
      <4>6. /\ current'[x] \in FreeRow(x) /\ delivery'[x] = "queued"
            /\ \A k \in Rows : row'[x][k] = IF k \in FreeRow(x) THEN "pending" ELSE row[x][k]
        BY <2>1, <2>2, <3>1
      <4>7. /\ current'[x] \in Rows /\ row[x][current'[x]] = "none"
            /\ row'[x][current'[x]] = "pending"
        BY <4>5, <4>6
      <4>8. \A k \in Rows : row[x][k] # "none" => row'[x][k] # "none"
        BY <4>5, <4>6
      <4>9. \A k \in Rows : row'[x][k] = "pending" => k = current'[x] /\ row[x][k] = "none"
        BY <4>3, <4>4, <4>5, <4>6
      <4> QED BY <4>2, <4>6, <4>7, <4>8, <4>9 DEF RowsMove
    <3>2. CASE x \in Kept /\ x \notin Queue
      <4>1. \A k \in Rows : row[x][k] # "pending"
        BY <2>1, <3>2, LooseRow
      <4> QED BY <2>1, <2>2, <3>2, <4>1 DEF RowsMove
    <3>3. CASE x \notin Kept /\ x \notin Queue
      <4>1. ASSUME NEW k \in Rows, row[x][k] = "pending" PROVE ControlsActive(x[1])'
        <5>1. campaign /\ enrollment = "active" /\ lane[x[1]] = "active" /\ delivery[x] = "queued"
          BY <4>1, PendingRow
        <5>2. x[1] \in Open
          BY <5>1, ItemParts DEF GoesOn
        <5> QED BY <2>6, <5>1, <5>2
      <4> QED BY <2>1, <2>2, <3>3, <4>1 DEF RowsMove
    <3> QED BY <3>1, <3>2, <3>3
  <2>9. StopsStay
    <3>1. ASSUME NEW c \in Channels, ControlsStopped(c) PROVE ControlsStopped(c)'
      <4>1. lane[c] \in {"stopped", "completed"}
        BY <2>4, <3>1 DEF ControlsStopped
      <4>2. lane'[c] = lane[c]
        BY <2>3, <4>1 DEF GoesOn
      <4> QED BY <4>1, <4>2 DEF ControlsStopped
    <3> QED BY <3>1 DEF StopsStay
  <2>10. \A x \in Items : ~Taken(x)
    BY <2>7 DEF Same, Taken, Quiet
  <2>11. Moves
    BY <2>7, <2>8 DEF Moves, Move
  <2> QED BY <1>1, <2>5, <2>9, <2>10, <2>11, TableStep
<1> QED BY <1>2, <1>3
------------------------------------------------------------------------------
(* The admin. *)

\* Retiring the waiting rows of S leaves none there, and no other row is touched.
LEMMA RetireRows ==
  ASSUME IInv, NEW S, S \subseteq Items, RetirePending(S) \/ RetireStopped(S), NEW x \in Items
  PROVE  /\ \A k \in Rows : /\ row[x][k] # "none" => row'[x][k] # "none"
                            /\ row'[x][k] = "pending" => row[x][k] = "pending" /\ x \notin S
         /\ current'[x] \in {current[x], NoRow}
         /\ x \notin S => UNCHANGED <<current[x], delivery[x]>>
         /\ RetirePending(S) => \/ UNCHANGED delivery[x]
                                \/ delivery[x] \in {"planned", "queued"} /\ delivery'[x] = "planned"
         /\ RetireStopped(S) =>
              \/ UNCHANGED delivery[x]
              \/ x \in S /\ delivery[x] \in {"planned", "queued"} /\ delivery'[x] = "stopped"
<1> DEFINE idle == {y \in S : current[y] # NoRow /\ row[y][current[y]] = "pending"}
<1>1. /\ row' = Retired(idle)
      /\ current' = [y \in Items |-> IF y \in idle THEN NoRow ELSE current[y]]
  BY DEF RetirePending, RetireStopped
<1>2. x \in idle <=> x \in S /\ current[x] # NoRow /\ row[x][current[x]] = "pending"
  OBVIOUS
<1>3. x \notin S => UNCHANGED delivery[x]
  BY DEF RetirePending, RetireStopped
<1> HIDE DEF idle
<1>4. ASSUME NEW k \in Rows
      PROVE  /\ row[x][k] # "none" => row'[x][k] # "none"
             /\ row'[x][k] = "pending" => row[x][k] = "pending" /\ x \notin S
  <2>1. row'[x][k] = IF x \in idle /\ k = current[x] /\ row[x][k] = "pending"
                       THEN "completed" ELSE row[x][k]
    BY <1>1 DEF Retired
  <2>2. row[x][k] = "pending" => k = current[x] /\ k # NoRow
    BY PendingRow DEF Rows, NoRow
  <2> QED BY <1>2, <2>1, <2>2
<1>5. current'[x] \in {current[x], NoRow} /\ (x \notin S => UNCHANGED <<current[x], delivery[x]>>)
  BY <1>1, <1>2, <1>3
<1>6. RetirePending(S) => \/ UNCHANGED delivery[x]
                          \/ delivery[x] \in {"planned", "queued"} /\ delivery'[x] = "planned"
  BY DEF RetirePending
<1>7. RetireStopped(S) =>
        \/ UNCHANGED delivery[x]
        \/ x \in S /\ delivery[x] \in {"planned", "queued"} /\ delivery'[x] = "stopped"
  BY DEF RetireStopped
<1> QED BY <1>4, <1>5, <1>6, <1>7

LEMMA RetireTyped ==
  ASSUME IInv, NEW S, S \subseteq Items, RetirePending(S) \/ RetireStopped(S)
  PROVE  /\ delivery' \in [Items -> Outstanding \union {"none", "sent", "stopped", "unclear"}]
         /\ current' \in [Items -> Rows \union {NoRow}]
         /\ row' \in [Items -> [Rows -> {"none", "pending", "running", "completed", "failed"}]]
<1>1. CASE RetirePending(S)
  BY <1>1 DEF RetirePending, Retired, Outstanding, IInv, TypeOK
<1>2. CASE RetireStopped(S)
  BY <1>2 DEF RetireStopped, Retired, Outstanding, IInv, TypeOK
<1> QED BY <1>1, <1>2

\* What an intervention leaves to show.
LEMMA ControlKeeps ==
  ASSUME IInv, UNCHANGED <<handed, attempt, sends, stop, hook, worker>>, events' \in Nat,
         {campaign'} \subseteq BOOLEAN,
         enrollment' \in {"waiting", "active", "paused", "stopped", "completed"},
         lane' \in [Channels -> NonTerminal \union {"stopped", "completed"}], StopsStay,
         NEW S, S \subseteq Items,
         \/ RetirePending(S) \/ UNCHANGED <<delivery, row, current>>
         \/ RetireStopped(S) /\ \A x \in S : ControlsStopped(x[1])',
         \A x \in Items : \/ x \in S /\ (RetirePending(S) \/ RetireStopped(S))
                          \/ ControlsActive(x[1]) => ControlsActive(x[1])'
  PROVE  IInv' /\ Moves
<1>1. TypeOK'
  BY RetireTyped DEF IInv, TypeOK
<1>2. ASSUME NEW x \in Items PROVE Same(x) /\ RowsMove(x)
  <2>1. UNCHANGED <<attempt[x], sends[x]>>
    OBVIOUS
  <2>2. CASE UNCHANGED <<delivery, row, current>>
    <3>1. UNCHANGED <<delivery[x], row[x], current[x]>>
      BY <2>2
    <3>2. \A k \in Rows : row[x][k] = "pending" => ControlsActive(x[1])'
      <4>1. CASE ControlsActive(x[1]) => ControlsActive(x[1])'
        BY <4>1, PendingRow
      <4>2. CASE x \in S /\ (RetirePending(S) \/ RetireStopped(S))
        BY <3>1, <4>2, RetireRows
      <4> QED BY <4>1, <4>2
    <3> QED BY <2>1, <3>1, <3>2 DEF Same, RowsMove
  <2>3. CASE RetirePending(S) \/ RetireStopped(S)
    <3>1. Same(x)
      <4>1. CASE RetirePending(S)
        BY <2>1, <4>1, RetireRows DEF Same
      <4>2. CASE RetireStopped(S) /\ \A y \in S : ControlsStopped(y[1])'
        BY <2>1, <4>2, RetireRows DEF Same, Outstanding
      <4>3. CASE UNCHANGED <<delivery, row, current>>
        BY <2>1, <4>3 DEF Same
      <4> QED BY <4>1, <4>2, <4>3
    <3>2. RowsMove(x)
      <4>1. CASE x \in S
        BY <2>3, <4>1, RetireRows DEF RowsMove
      <4>2. CASE x \notin S
        <5>1. UNCHANGED <<current[x], delivery[x]>> /\ (ControlsActive(x[1]) => ControlsActive(x[1])')
          BY <2>3, <4>2, RetireRows
        <5>2. \A k \in Rows : /\ row[x][k] # "none" => row'[x][k] # "none"
                              /\ row'[x][k] = "pending" => row[x][k] = "pending"
          BY <2>3, RetireRows
        <5> QED BY <5>1, <5>2, PendingRow DEF RowsMove
      <4> QED BY <4>1, <4>2
    <3> QED BY <3>1, <3>2
  <2> QED BY <2>2, <2>3
<1>3. \A x \in Items : ~Taken(x)
  BY <1>2 DEF Same, Taken
<1>4. Moves
  BY <1>2 DEF Moves, Move
<1>5. UNCHANGED worker /\ UNCHANGED sends
  OBVIOUS
<1> QED BY <1>1, <1>3, <1>4, <1>5, TableStep

LEMMA ControlStep ==
  ASSUME IInv, Control
  PROVE  IInv' /\ Moves
<1>1. UNCHANGED <<handed, attempt, sends, stop, hook, worker>> /\ events' \in Nat
  BY DEF Control, Event, IInv, TypeOK
<1>2. /\ campaign \in BOOLEAN /\ enrollment \in {"waiting", "active", "paused", "stopped", "completed"}
      /\ lane \in [Channels -> NonTerminal \union {"stopped", "completed"}]
      /\ \A c \in Channels : Steps(c) \subseteq Items
  BY DEF IInv, TypeOK, Steps
<1>3. CASE PauseCampaign
  <2>1. StopsStay
    BY <1>3 DEF PauseCampaign, StopsStay, ControlsStopped
  <2>2. RetirePending(Items) /\ campaign' \in BOOLEAN /\ UNCHANGED <<enrollment, lane>>
    BY <1>3 DEF PauseCampaign
  <2> QED BY <1>1, <1>2, <2>1, <2>2, ControlKeeps
<1>4. CASE ResumeCampaign
  <2>1. /\ StopsStay /\ campaign' \in BOOLEAN
        /\ \A x \in Items : ControlsActive(x[1]) => ControlsActive(x[1])'
    BY <1>4 DEF ResumeCampaign, graph, StopsStay, ControlsStopped, ControlsActive
  <2>2. UNCHANGED <<delivery, row, current>> /\ UNCHANGED <<enrollment, lane>>
    BY <1>4 DEF ResumeCampaign, graph
  <2> QED BY <1>1, <1>2, <2>1, <2>2, ControlKeeps
<1>5. CASE PauseEnrollment
  <2>1. /\ StopsStay /\ UNCHANGED <<lane, campaign>>
        /\ enrollment' \in {"waiting", "active", "paused", "stopped", "completed"}
    BY <1>2, <1>5 DEF PauseEnrollment, StopsStay, ControlsStopped
  <2>2. RetirePending(Items)
    BY <1>5 DEF PauseEnrollment
  <2> QED BY <1>1, <1>2, <2>1, <2>2, ControlKeeps
<1>6. CASE ResumeEnrollment
  <2>1. /\ StopsStay /\ UNCHANGED <<lane, campaign>>
        /\ enrollment' \in {"waiting", "active", "paused", "stopped", "completed"}
        /\ \A x \in Items : ControlsActive(x[1]) => ControlsActive(x[1])'
    BY <1>2, <1>6 DEF ResumeEnrollment, StopsStay, ControlsStopped, ControlsActive
  <2>2. UNCHANGED <<delivery, row, current>>
    BY <1>6 DEF ResumeEnrollment
  <2> QED BY <1>1, <1>2, <2>1, <2>2, ControlKeeps
<1>7. CASE StopEnrollment
  <2>1. /\ UNCHANGED campaign /\ enrollment' \in {"stopped", "completed"}
        /\ lane' \in [Channels -> NonTerminal \union {"stopped", "completed"}]
    BY <1>2, <1>7 DEF StopEnrollment, Halted
  <2>2. \A c \in Channels : ControlsStopped(c)'
    BY <2>1 DEF ControlsStopped
  <2>3. RetireStopped(Items) /\ StopsStay /\ \A x \in Items : ControlsStopped(x[1])'
    BY <1>7, <2>2, ItemParts DEF StopEnrollment, StopsStay
  <2> QED BY <1>1, <1>2, <2>1, <2>3, ControlKeeps
<1>8. ASSUME NEW c \in Channels, PauseLane(c) PROVE IInv' /\ Moves
  <2>1. /\ UNCHANGED <<campaign, enrollment>>
        /\ lane' \in [Channels -> NonTerminal \union {"stopped", "completed"}]
    BY <1>2, <1>8 DEF PauseLane, NonTerminal
  <2>2. \A e \in Channels : lane'[e] = IF e = c THEN "paused" ELSE lane[e]
    BY <1>2, <1>8 DEF PauseLane
  <2>3. StopsStay
    BY <1>8, <2>1, <2>2 DEF PauseLane, StopsStay, ControlsStopped
  <2>4. \A x \in Items : x \in Steps(c) \/ (ControlsActive(x[1]) => ControlsActive(x[1])')
    BY <2>1, <2>2, ItemParts DEF Steps, ControlsActive
  <2>5. RetirePending(Steps(c))
    BY <1>8 DEF PauseLane
  <2> QED BY <1>1, <1>2, <2>1, <2>3, <2>4, <2>5, ControlKeeps
<1>9. ASSUME NEW c \in Channels, ResumeLane(c) PROVE IInv' /\ Moves
  <2>1. /\ UNCHANGED <<campaign, enrollment>> /\ UNCHANGED <<delivery, row, current>>
        /\ lane' \in [Channels -> NonTerminal \union {"stopped", "completed"}]
    BY <1>2, <1>9 DEF ResumeLane, NonTerminal
  <2>2. \A e \in Channels : lane'[e] = IF e = c THEN (IF c \in handed THEN "active" ELSE "waiting") ELSE lane[e]
    BY <1>2, <1>9 DEF ResumeLane
  <2>3. lane[c] = "paused"
    BY <1>9 DEF ResumeLane
  <2>4. StopsStay
    BY <2>1, <2>2, <2>3 DEF StopsStay, ControlsStopped
  <2>5. \A x \in Items : ControlsActive(x[1]) => ControlsActive(x[1])'
    BY <2>1, <2>2, <2>3, ItemParts DEF ControlsActive
  <2> QED BY <1>1, <1>2, <2>1, <2>4, <2>5, ControlKeeps
<1>10. ASSUME NEW c \in Channels, StopLane(c) PROVE IInv' /\ Moves
  <2>1. /\ UNCHANGED <<campaign, enrollment>>
        /\ lane' \in [Channels -> NonTerminal \union {"stopped", "completed"}]
    BY <1>2, <1>10 DEF StopLane, NonTerminal
  <2>2. \A e \in Channels : lane'[e] = IF e = c THEN "stopped" ELSE lane[e]
    BY <1>2, <1>10 DEF StopLane
  <2>3. StopsStay
    BY <2>1, <2>2 DEF StopsStay, ControlsStopped
  <2>4. \A x \in Items : x \in Steps(c) \/ (ControlsActive(x[1]) => ControlsActive(x[1])')
    BY <2>1, <2>2, ItemParts DEF Steps, ControlsActive
  <2>5. RetireStopped(Steps(c)) /\ \A x \in Steps(c) : ControlsStopped(x[1])'
    BY <1>10, <2>2 DEF StopLane, Steps, ControlsStopped
  <2> QED BY <1>1, <1>2, <2>1, <2>3, <2>4, <2>5, ControlKeeps
<1> QED BY <1>3, <1>4, <1>5, <1>6, <1>7, <1>8, <1>9, <1>10 DEF Control
------------------------------------------------------------------------------
(* What a worker's step does to the one delivery it works on. *)

LEMMA GotoWorker ==
  ASSUME IInv, NEW w \in Workers, NEW pc \in PCs, Goto(w, pc)
  PROVE  /\ worker' \in [Workers -> [pc : PCs, item : Items \union {NoItem},
                                     row : Rows \union {NoRow}, n : Nat]]
         /\ \A v \in Workers \ {w} : worker'[v] = worker[v]
         /\ worker'[w].pc = pc
         /\ worker'[w].item = worker[w].item /\ worker'[w].row = worker[w].row
BY DEF Goto, IInv, TypeOK

\* The other deliveries are left as they are; none of the lane waits when it is left.
LEMMA OneItem ==
  ASSUME IInv, NEW x \in Items, Move(x), RowsMove(x), UNCHANGED <<campaign, enrollment>>,
         UNCHANGED lane \/ delivery[x] \notin {"none", "sent"},
         \A c \in Channels \ {x[1]} : lane'[c] = lane[c],
         \A y \in Items \ {x} : UNCHANGED <<row[y], current[y], delivery[y], attempt[y], sends[y]>>
  PROVE  Moves
<1>1. ASSUME NEW y \in Items \ {x} PROVE Move(y) /\ RowsMove(y)
  <2>1. UNCHANGED <<row[y], current[y], delivery[y], attempt[y], sends[y]>>
    OBVIOUS
  <2>2. ASSUME NEW k \in Rows, row[y][k] = "pending" PROVE ControlsActive(y[1])'
    <3>1. /\ campaign /\ enrollment = "active" /\ lane[y[1]] = "active" /\ delivery[y] = "queued"
      BY <2>2, PendingRow
    <3>2. UNCHANGED lane \/ y[1] # x[1]
      BY <3>1, Alone
    <3>3. lane'[y[1]] = lane[y[1]]
      BY <3>2, ItemParts
    <3> QED BY <3>1, <3>3 DEF ControlsActive
  <2> QED BY <2>1, <2>2 DEF Move, Same, RowsMove
<1> QED BY <1>1 DEF Moves

\* A stop in the same transaction.
LEMMA StoppedItem ==
  ASSUME IInv, NEW d \in [Items -> Statuses], Stopped(d), NEW x \in Items, Move(x),
         current'[x] \in {current[x], NoRow},
         \A y \in Items \ {x} : d[y] = delivery[y] /\ UNCHANGED <<current[y], attempt[y], sends[y]>>
  PROVE  Moves /\ StopsStay
<1>1. ASSUME NEW y \in Items \ {x} PROVE Move(y) /\ RowsMove(y)
  BY StoppedSame, StoppedRows DEF Move
<1>2. RowsMove(x) /\ StopsStay
  BY StoppedRows
<1> QED BY <1>1, <1>2 DEF Moves

\* The rows of a delivery that stay as they are.
LEMMA SameRows ==
  ASSUME IInv, NEW x \in Items, UNCHANGED row[x], current'[x] \in {current[x], NoRow},
         \A k \in Rows : row[x][k] # "pending"
  PROVE  RowsMove(x)
BY DEF RowsMove

\* A released delivery: its lane may be paused, and nothing waits in it.
LEMMA ReleaseFacts ==
  ASSUME IInv, NEW x \in Items, NEW why, Release(x, why), UNCHANGED campaign,
         \A k \in Rows : row[x][k] # "pending", delivery[x] \notin {"none", "sent"}
  PROVE  /\ RowsMove(x) /\ StopsStay /\ UNCHANGED <<campaign, enrollment>>
         /\ delivery'[x] \in {"planned", "stopped"}
         /\ delivery[x] = "stopped" => delivery'[x] = "stopped"
         /\ delivery'[x] = "stopped" => ControlsStopped(x[1])'
         /\ \A c \in Channels \ {x[1]} : lane'[c] = lane[c]
         /\ \A y \in Items \ {x} : UNCHANGED <<row[y], current[y], delivery[y]>>
         /\ delivery' \in [Items -> Outstanding \union {"none", "sent", "stopped", "unclear"}]
         /\ current' \in [Items -> Rows \union {NoRow}]
         /\ lane' \in [Channels -> NonTerminal \union {"stopped", "completed"}]
         /\ UNCHANGED row
<1>1. Agree(x) /\ x[1] \in Channels
  BY ItemParts DEF IInv
<1>2. UNCHANGED <<enrollment, row>>
  BY DEF Release
<1>3. /\ current'[x] = NoRow
      /\ delivery'[x] = IF ControlsStopped(x[1]) THEN "stopped" ELSE "planned"
      /\ \A y \in Items \ {x} : UNCHANGED <<row[y], current[y], delivery[y]>>
      /\ current' \in [Items -> Rows \union {NoRow}]
      /\ delivery' \in [Items -> Outstanding \union {"none", "sent", "stopped", "unclear"}]
  BY <1>2 DEF Release, Outstanding, IInv, TypeOK
<1>4. /\ lane' \in [Channels -> NonTerminal \union {"stopped", "completed"}]
      /\ \A c \in Channels \ {x[1]} : lane'[c] = lane[c]
      /\ ControlsStopped(x[1]) => UNCHANGED lane
  BY <1>1 DEF Release, NonTerminal, IInv, TypeOK
<1>5. StopsStay
  <2>1. ASSUME NEW c \in Channels, ControlsStopped(c) PROVE ControlsStopped(c)'
    <3>1. lane'[c] = lane[c]
      BY <1>4, <2>1
    <3> QED BY <1>2, <2>1, <3>1 DEF ControlsStopped
  <2> QED BY <2>1 DEF StopsStay
<1>6. RowsMove(x)
  BY <1>2, <1>3, SameRows
<1>7. ControlsStopped(x[1]) => ControlsStopped(x[1])'
  BY <1>1, <1>5 DEF StopsStay
<1> QED BY <1>1, <1>2, <1>3, <1>4, <1>5, <1>6, <1>7 DEF Agree
------------------------------------------------------------------------------
(* The worker's handler. *)

\* A worker takes on another state, and no other does.
LEMMA SetWorker ==
  ASSUME IInv, NEW w \in Workers,
         NEW k \in [pc : PCs, item : Items \union {NoItem}, row : Rows \union {NoRow}, n : Nat],
         worker' = [worker EXCEPT ![w] = k]
  PROVE  /\ worker' \in [Workers -> [pc : PCs, item : Items \union {NoItem},
                                     row : Rows \union {NoRow}, n : Nat]]
         /\ worker'[w] = k
         /\ \A v \in Workers \ {w} : worker'[v] = worker[v]
BY DEF IInv, TypeOK

LEMMA ClaimStep ==
  ASSUME IInv, NEW w \in Workers, Claim(w)
  PROVE  IInv' /\ Moves
<1> PICK x \in Steps(Lane(w)), k \in Rows :
       /\ row[x][k] = "pending"
       /\ row' = [row EXCEPT ![x][k] = "running"]
       /\ worker' = [worker EXCEPT ![w] = [@ EXCEPT !.pc = "claimed", !.item = x, !.row = k]]
  BY DEF Claim
<1>1. /\ x \in Items /\ x[1] = Lane(w) /\ worker[w].pc = "idle"
      /\ UNCHANGED <<enrollment, lane, delivery, campaign, stop, hook, handed, current, attempt, sends, events>>
  BY DEF Claim, Steps, At, outside
<1>2. /\ k = current[x] /\ delivery[x] = "queued" /\ Quiet(x)
  BY <1>1, PendingRow
<1>3. \A y \in Items, j \in Rows : row'[y][j] = IF y = x /\ j = k THEN "running" ELSE row[y][j]
  BY DEF IInv, TypeOK
<1>4. /\ worker'[w].pc = "claimed" /\ worker'[w].item = x /\ worker'[w].row = k
      /\ \A v \in Workers \ {w} : worker'[v] = worker[v]
      /\ worker' \in [Workers -> [pc : PCs, item : Items \union {NoItem},
                                  row : Rows \union {NoRow}, n : Nat]]
  <2> DEFINE next == [worker[w] EXCEPT !.pc = "claimed", !.item = x, !.row = k]
  <2>1. worker[w] \in [pc : PCs, item : Items \union {NoItem}, row : Rows \union {NoRow}, n : Nat]
    BY DEF IInv, TypeOK
  <2>2. "claimed" \in PCs
    BY DEF PCs
  <2>3. /\ next \in [pc : PCs, item : Items \union {NoItem}, row : Rows \union {NoRow}, n : Nat]
        /\ next.pc = "claimed" /\ next.item = x /\ next.row = k
    BY <1>1, <2>1, <2>2
  <2> HIDE DEF next
  <2>4. worker' = [worker EXCEPT ![w] = next]
    BY DEF next
  <2> QED BY <2>3, <2>4, SetWorker
<1>5. TypeOK'
  <2>1. row' \in [Items -> [Rows -> {"none", "pending", "running", "completed", "failed"}]]
    BY <1>1 DEF IInv, TypeOK
  <2> QED BY <1>1, <1>4, <2>1 DEF IInv, TypeOK
<1>6. ASSUME NEW y \in Items PROVE Same(y) /\ RowsMove(y)
  <2>1. UNCHANGED <<current[y], delivery[y], attempt[y], sends[y]>>
        /\ (ControlsActive(y[1]) => ControlsActive(y[1])')
    BY <1>1 DEF ControlsActive
  <2> QED BY <1>3, <2>1, PendingRow DEF Same, RowsMove
<1>7. Moves
  BY <1>6 DEF Moves, Move
<1>8. StopsStay
  BY <1>1 DEF StopsStay, ControlsStopped
<1>9. ASSUME NEW v \in Workers \ {w} PROVE Waits(v) /\ WorkerInv(v)' /\ (Claimed(v)' => Claimed(v))
  <2>1. Waits(v)
    BY <1>4, <1>6, <1>7, <1>1, OthersWait DEF Same, Taken
  <2> QED BY <1>7, <2>1, WaitKeeps DEF Moves
<1>10. WorkerInv(w)'
  <2>1. Item(w)' = x /\ Lane(w)' = Lane(w) /\ worker'[w].row = k /\ worker'[w].pc = "claimed"
    BY <1>4 DEF Item, Lane
  <2>2. row'[x][k] = "running" /\ Quiet(x)' /\ delivery'[x] # "none"
    BY <1>1, <1>2, <1>3 DEF Quiet
  <2> QED BY <1>1, <2>1, <2>2 DEF WorkerInv, Claimed, At, Steps
<1>11. OneClaim'
  <2>1. ASSUME NEW v \in Workers \ {w}, Claimed(v)' PROVE Claimed(v) /\ Item(v)' = Item(v) /\ Item(v) # x
    <3>1. Claimed(v) /\ Item(v)' = Item(v) /\ WorkerInv(v)
      BY <1>4, <1>9, <2>1 DEF Item, IInv
    <3>2. Item(v) # x
      <4> SUFFICES ASSUME Item(v) = x PROVE FALSE
        OBVIOUS
      <4>1. row[x][worker[v].row] # "pending" /\ current[x] = worker[v].row
        BY <3>1 DEF WorkerInv, Claimed
      <4> QED BY <1>2, <4>1
    <3> QED BY <3>1, <3>2
  <2>2. Item(w)' = x
    BY <1>4 DEF Item
  <2> QED BY <2>1, <2>2 DEF OneClaim, IInv
<1>12. OneClick'
  BY <1>4 DEF OneClick, IInv, At, Item
<1>13. \A y \in Items : Agree(y)' /\ RowInv(y)'
  BY <1>5, <1>7, <1>8, AgreeKeeps, RowsKeep DEF Moves
<1>14. Ordered'
  BY <1>7, OrderKeeps DEF Moves
<1> QED BY <1>5, <1>7, <1>9, <1>10, <1>11, <1>12, <1>13, <1>14 DEF IInv

\* A new attempt of a delivery that is queued and whose row runs.
LEMMA TakeStep ==
  ASSUME IInv, NEW w \in Workers, At(w, "claimed"), Take(w), Owns(w), delivery[Item(w)] = "queued",
         UNCHANGED <<outside, handed, sends, events>>
  PROVE  IInv' /\ Moves
<1>1. worker[w].pc = "claimed" /\ Item(w) \in Items
  BY WorkerFacts DEF At
<1> PICK x \in Items : x = Item(w)
  BY <1>1
<1> DEFINE n == attempt[x].n + 1
<1>2. /\ attempt' = [attempt EXCEPT ![x] = [n |-> n, outcome |-> "reserved", marked |-> FALSE]]
      /\ delivery' = [delivery EXCEPT ![x] = "sending"]
      /\ worker' = [worker EXCEPT ![w].pc = "open", ![w].n = n]
      /\ UNCHANGED <<enrollment, lane, row, current, campaign, stop, hook, handed, sends, events>>
  BY DEF Take, outside
<1>3. n \in Nat
  BY DEF IInv, TypeOK
<1> HIDE DEF n
<1>4. TypeOK'
  <2>1. attempt' \in [Items -> [n : Nat, outcome : {"none", "reserved", "unsent", "sent", "unclear"},
                                marked : BOOLEAN]]
    BY <1>2, <1>3 DEF IInv, TypeOK
  <2>2. delivery' \in [Items -> Outstanding \union {"none", "sent", "stopped", "unclear"}]
    BY <1>2 DEF Outstanding, IInv, TypeOK
  <2>3. worker' \in [Workers -> [pc : PCs, item : Items \union {NoItem},
                                 row : Rows \union {NoRow}, n : Nat]]
    <3> DEFINE next == [[worker[w] EXCEPT !.pc = "open"] EXCEPT !.n = n]
    <3>1. worker' = [worker EXCEPT ![w] = next]
      BY <1>2, <1>3 DEF IInv, TypeOK
    <3>2. worker[w] \in [pc : PCs, item : Items \union {NoItem}, row : Rows \union {NoRow}, n : Nat]
      BY DEF IInv, TypeOK
    <3>3. "open" \in PCs
      BY DEF PCs
    <3>4. next \in [pc : PCs, item : Items \union {NoItem}, row : Rows \union {NoRow}, n : Nat]
      BY <1>3, <3>2, <3>3
    <3> HIDE DEF next
    <3> QED BY <3>1, <3>4, SetWorker
  <2> QED BY <1>2, <2>1, <2>2, <2>3 DEF IInv, TypeOK
<1>5. Taken(x) /\ \A y \in Items \ {x} : UNCHANGED <<row[y], current[y], delivery[y], attempt[y], sends[y]>>
  BY <1>2 DEF Taken, IInv, TypeOK
<1>6. RowsMove(x)
  <2>1. \A k \in Rows : row[x][k] # "pending"
    BY PendingRow DEF Owns
  <2> QED BY <1>2, <2>1, SameRows
<1>7. Moves
  BY <1>2, <1>5, <1>6, OneItem DEF Move
<1>8. StopsStay
  BY <1>2 DEF StopsStay, ControlsStopped
<1>9. /\ \A v \in Workers \ {w} : worker'[v] = worker[v]
      /\ worker'[w].pc = "open" /\ worker'[w].item = worker[w].item /\ worker'[w].row = worker[w].row
  BY <1>2 DEF IInv, TypeOK
<1>10. \A y \in Items : Taken(y) => Claimed(w) /\ Item(w) = y
  BY <1>1, <1>5 DEF Taken, Claimed, Owns, At
<1>11. \A y \in Items : UNCHANGED sends[y]
  BY <1>2
<1> QED BY <1>1, <1>4, <1>7, <1>8, <1>9, <1>10, <1>11, WorkerStep

\* A worker that leaves its delivery alone.
LEMMA LeaveStep ==
  ASSUME IInv, NEW w \in Workers, worker[w].pc \notin {"down", "idle"},
         NEW pc \in {"failed", "hold", "finish", "error"}, Goto(w, pc),
         UNCHANGED <<graph, outside, handed, current, attempt, sends>>, events' \in Nat
  PROVE  IInv' /\ Moves
<1>1. /\ \A v \in Workers \ {w} : worker'[v] = worker[v]
      /\ worker'[w].pc \in {"open", "sent", "failed", "hold", "finish", "error"} /\ worker'[w].pc # "sent"
      /\ worker'[w].item = worker[w].item /\ worker'[w].row = worker[w].row
      /\ worker' \in [Workers -> [pc : PCs, item : Items \union {NoItem},
                                  row : Rows \union {NoRow}, n : Nat]]
  BY GotoWorker DEF PCs
<1>2. UNCHANGED <<campaign, enrollment, lane, handed, delivery, current, row, attempt, sends, stop, hook>>
  BY DEF graph, outside
<1>3. TypeOK'
  BY <1>1, <1>2 DEF IInv, TypeOK
<1>4. ASSUME NEW x \in Items PROVE Same(x) /\ RowsMove(x) /\ UNCHANGED sends[x]
  <2>1. UNCHANGED <<attempt[x], sends[x], delivery[x], row[x], current[x]>>
        /\ (ControlsActive(x[1]) => ControlsActive(x[1])')
    BY <1>2 DEF ControlsActive
  <2> QED BY <2>1, PendingRow DEF Same, RowsMove
<1>5. StopsStay
  BY <1>2 DEF StopsStay, ControlsStopped
<1>6. Moves
  BY <1>4 DEF Moves, Move
<1>7. \A x \in Items : ~Taken(x)
  BY <1>2 DEF Taken
<1> QED BY <1>1, <1>3, <1>4, <1>5, <1>6, <1>7, WorkerStep
Attempts == [n : Nat, outcome : {"none", "reserved", "unsent", "sent", "unclear"}, marked : BOOLEAN]

\* A worker that moved its delivery and goes on to its end.
LEMMA EndStep ==
  ASSUME IInv, NEW w \in Workers, worker[w].pc \notin {"down", "idle"},
         NEW pc \in {"failed", "hold", "finish", "error"}, Goto(w, pc),
         UNCHANGED <<outside, handed, sends>>, events' \in Nat,
         enrollment' \in {"waiting", "active", "paused", "stopped", "completed"},
         lane' \in [Channels -> NonTerminal \union {"stopped", "completed"}],
         delivery' \in [Items -> Outstanding \union {"none", "sent", "stopped", "unclear"}],
         current' \in [Items -> Rows \union {NoRow}],
         row' \in [Items -> [Rows -> {"none", "pending", "running", "completed", "failed"}]],
         attempt' \in [Items -> Attempts],
         Moves, StopsStay, \A x \in Items : ~Taken(x)
  PROVE  IInv' /\ Moves
<1>1. /\ \A v \in Workers \ {w} : worker'[v] = worker[v]
      /\ worker'[w].pc \in {"open", "sent", "failed", "hold", "finish", "error"} /\ worker'[w].pc # "sent"
      /\ worker'[w].item = worker[w].item /\ worker'[w].row = worker[w].row
      /\ worker' \in [Workers -> [pc : PCs, item : Items \union {NoItem},
                                  row : Rows \union {NoRow}, n : Nat]]
  BY GotoWorker DEF PCs
<1>2. TypeOK'
  BY <1>1 DEF outside, Attempts, IInv, TypeOK
<1>3. \A x \in Items : UNCHANGED sends[x]
  OBVIOUS
<1> QED BY <1>1, <1>2, <1>3, WorkerStep

\* The stop of a worker that has taken no attempt.
LEMMA StopStep ==
  ASSUME IInv, NEW w \in Workers, worker[w].pc \notin {"down", "idle"},
         NEW pc \in {"failed", "hold", "finish", "error"}, Goto(w, pc),
         StopLocked(delivery) \/ StopForReason(delivery),
         UNCHANGED <<outside, handed, sends, attempt, current, events>>
  PROVE  IInv' /\ Moves
<1>1. Stopped(delivery) /\ delivery \in [Items -> Statuses]
  BY DeliveryTyped, StopLockedStops, StopForReasonStops
<1>2. ASSUME NEW x \in Items PROVE Same(x) /\ RowsMove(x)
  <2>1. UNCHANGED <<attempt[x], sends[x], current[x]>>
    OBVIOUS
  <2> QED BY <1>1, <2>1, StoppedSame, StoppedRows
<1>3. Moves
  BY <1>2 DEF Moves, Move
<1>4. StopsStay
  BY <1>1 DEF Stopped, StopsStay
<1>5. \A x \in Items : ~Taken(x)
  BY <1>1 DEF Stopped, Taken
<1>6. events' \in Nat /\ attempt' \in [Items -> Attempts]
      /\ current' \in [Items -> Rows \union {NoRow}]
      /\ enrollment' \in {"waiting", "active", "paused", "stopped", "completed"}
  BY <1>1 DEF Stopped, Attempts, IInv, TypeOK
<1>7. /\ lane' \in [Channels -> NonTerminal \union {"stopped", "completed"}]
      /\ delivery' \in [Items -> Outstanding \union {"none", "sent", "stopped", "unclear"}]
      /\ row' \in [Items -> [Rows -> {"none", "pending", "running", "completed", "failed"}]]
  BY <1>1 DEF Stopped, Statuses
<1> QED BY <1>3, <1>4, <1>5, <1>6, <1>7, EndStep

LEMMA ReserveStep ==
  ASSUME IInv, NEW w \in Workers, Reserve(w)
  PROVE  IInv' /\ Moves
<1>1. /\ At(w, "claimed") /\ worker[w].pc \notin {"down", "idle"} /\ events \in Nat
      /\ UNCHANGED <<outside, handed, sends>>
      /\ Item(w) \in Items /\ Item(w)[1] = Lane(w) /\ worker[w].row \in Rows
  BY WorkerFacts DEF Reserve, At, IInv, TypeOK
<1> PICK x \in Items : x = Item(w)
  BY <1>1
<1>2. ASSUME Owns(w)
      PROVE  /\ Claimed(w) /\ Quiet(x) /\ delivery[x] \in {"planned", "queued", "stopped"}
             /\ \A k \in Rows : row[x][k] # "pending"
  <2>1. WorkerInv(w) /\ Agree(x) /\ Claimed(w)
    BY <1>1, <1>2 DEF IInv, Claimed, Owns
  <2>2. \A k \in Rows : row[x][k] # "pending"
    BY <1>2, PendingRow DEF Owns
  <2> QED BY <2>1, <2>2 DEF WorkerInv, Agree
<1>3. CASE Lane(w) = LinkedIn
  <2>1. ReserveLinkedIn(w)
    BY <1>3 DEF Reserve
  <2>2. CASE stop
    BY <1>1, <2>1, <2>2, StopStep DEF ReserveLinkedIn, NoEvent
  <2>3. CASE ~stop /\ ~Owns(w)
    BY <1>1, <2>1, <2>3, LeaveStep DEF ReserveLinkedIn, NoEvent
  <2>4. CASE ~stop /\ Owns(w)
    <3> PICK why \in {"none", "hold", "retry", "drift", "unconnected"} :
         /\ GuardReports(w, "queued", why)
         /\ IF why = "none" THEN Take(w)
            ELSE Release(Item(w), why) /\ Goto(w, "finish") /\ UNCHANGED attempt
      BY <2>1, <2>4 DEF ReserveLinkedIn
    <3>1. CASE why = "none"
      <4>1. Take(w) /\ delivery[Item(w)] = "queued" /\ UNCHANGED events
        BY <3>1 DEF GuardReports, NoEvent
      <4> QED BY <1>1, <2>4, <4>1, TakeStep
    <3>2. CASE why # "none"
      <4>1. Release(x, why) /\ Goto(w, "finish") /\ UNCHANGED attempt /\ UNCHANGED campaign
        BY <1>1, <3>2 DEF outside
      <4>2. /\ delivery[x] \notin {"none", "sent"} /\ \A k \in Rows : row[x][k] # "pending"
        BY <1>2, <2>4
      <4> HIDE DEF Release
      <4>3. /\ RowsMove(x) /\ StopsStay /\ UNCHANGED <<campaign, enrollment>>
            /\ delivery'[x] \in {"planned", "stopped"}
            /\ delivery[x] = "stopped" => delivery'[x] = "stopped"
            /\ delivery'[x] = "stopped" => ControlsStopped(x[1])'
            /\ \A c \in Channels \ {x[1]} : lane'[c] = lane[c]
            /\ \A y \in Items \ {x} : UNCHANGED <<row[y], current[y], delivery[y]>>
            /\ delivery' \in [Items -> Outstanding \union {"none", "sent", "stopped", "unclear"}]
            /\ current' \in [Items -> Rows \union {NoRow}]
            /\ lane' \in [Channels -> NonTerminal \union {"stopped", "completed"}]
            /\ UNCHANGED row
        BY <4>1, <4>2, ReleaseFacts
      <4>4. Same(x)
        BY <1>1, <1>2, <2>4, <4>1, <4>3 DEF Same, Outstanding
      <4>5. \A y \in Items \ {x} : UNCHANGED <<row[y], current[y], delivery[y], attempt[y], sends[y]>>
        BY <1>1, <4>1, <4>3
      <4>6. Moves
        BY <4>2, <4>3, <4>4, <4>5, OneItem DEF Move
      <4>7. \A y \in Items : ~Taken(y)
        BY <4>3, <4>5 DEF Taken
      <4>8. /\ events' \in Nat /\ attempt' \in [Items -> Attempts]
            /\ enrollment' \in {"waiting", "active", "paused", "stopped", "completed"}
            /\ row' \in [Items -> [Rows -> {"none", "pending", "running", "completed", "failed"}]]
        BY <1>1, <4>1, <4>3 DEF GuardReports, Event, NoEvent, Attempts, IInv, TypeOK
      <4> QED BY <1>1, <4>1, <4>3, <4>6, <4>7, <4>8, EndStep
    <3> QED BY <3>1, <3>2
  <2> QED BY <2>2, <2>3, <2>4
<1>4. CASE Lane(w) # LinkedIn
  <2>1. ReserveGmail(w)
    BY <1>4 DEF Reserve
  <2>2. CASE \E pc \in {"error", "finish"} :
                        Goto(w, pc) /\ UNCHANGED <<graph, attempt, current>> /\ (Event \/ NoEvent)
    <3> PICK pc \in {"error", "finish"} :
                        Goto(w, pc) /\ UNCHANGED <<graph, attempt, current>> /\ (Event \/ NoEvent)
      BY <2>2
    <3>1. events' \in Nat
      BY <1>1 DEF Event, NoEvent
    <3>2. UNCHANGED <<graph, outside, handed, current, attempt, sends>>
      BY <1>1 DEF graph, outside
    <3>3. Goto(w, pc) /\ pc \in {"failed", "hold", "finish", "error"}
      OBVIOUS
    <3> QED BY <1>1, <3>1, <3>2, <3>3, LeaveStep
  <2>3. CASE /\ Owns(w) /\ delivery[Item(w)] = "queued" /\ (Event \/ NoEvent)
             /\ delivery' = [delivery EXCEPT ![Item(w)] = "planned"]
             /\ current' = [current EXCEPT ![Item(w)] = NoRow]
             /\ Goto(w, "finish") /\ UNCHANGED <<enrollment, lane, row, attempt>>
    <3>1. /\ delivery' \in [Items -> Outstanding \union {"none", "sent", "stopped", "unclear"}]
          /\ current' \in [Items -> Rows \union {NoRow}]
          /\ delivery'[x] = "planned" /\ current'[x] = NoRow
          /\ \A y \in Items \ {x} : UNCHANGED <<row[y], current[y], delivery[y], attempt[y], sends[y]>>
      BY <1>1, <2>3 DEF Outstanding, IInv, TypeOK
    <3>2. Same(x)
      BY <1>1, <2>3, <3>1 DEF Same
    <3>3. RowsMove(x)
      BY <1>2, <2>3, <3>1, SameRows
    <3>4. Moves
      BY <1>1, <2>3, <3>1, <3>2, <3>3, OneItem DEF Move, outside
    <3>5. StopsStay
      BY <2>3 DEF StopsStay, ControlsStopped
    <3>6. \A y \in Items : ~Taken(y)
      BY <3>1 DEF Taken
    <3>7. /\ events' \in Nat /\ attempt' \in [Items -> Attempts]
          /\ enrollment' \in {"waiting", "active", "paused", "stopped", "completed"}
          /\ lane' \in [Channels -> NonTerminal \union {"stopped", "completed"}]
          /\ row' \in [Items -> [Rows -> {"none", "pending", "running", "completed", "failed"}]]
      BY <1>1, <2>3 DEF Event, NoEvent, Attempts, IInv, TypeOK
    <3> QED BY <1>1, <2>3, <3>1, <3>4, <3>5, <3>6, <3>7, EndStep
  <2>4. CASE /\ StopForReason(delivery) /\ Goto(w, "finish") /\ UNCHANGED <<attempt, current>> /\ NoEvent
    BY <1>1, <2>4, StopStep DEF NoEvent
  <2>5. CASE Owns(w) /\ delivery[Item(w)] = "queued" /\ Take(w) /\ NoEvent
    BY <1>1, <2>5, TakeStep DEF NoEvent
  <2>6. CASE Owns(w) /\ delivery[Item(w)] = "queued"
    <3>1. \/ Goto(w, "error") /\ UNCHANGED <<graph, attempt, current>> /\ Event
          \/ /\ delivery' = [delivery EXCEPT ![Item(w)] = "planned"]
             /\ current' = [current EXCEPT ![Item(w)] = NoRow]
             /\ Goto(w, "finish") /\ UNCHANGED <<enrollment, lane, row, attempt>>
             /\ Event \/ NoEvent
          \/ StopForReason(delivery) /\ Goto(w, "finish") /\ UNCHANGED <<attempt, current>> /\ NoEvent
          \/ Take(w) /\ NoEvent
      BY <2>1, <2>6 DEF ReserveGmail
    <3> QED BY <2>2, <2>3, <2>4, <2>5, <2>6, <3>1
  <2>7. CASE ~(Owns(w) /\ delivery[Item(w)] = "queued")
    <3>1. \E pc \in {"error", "finish"} : Goto(w, pc) /\ UNCHANGED <<graph, attempt, current>> /\ NoEvent
      BY <2>1, <2>7 DEF ReserveGmail
    <3> QED BY <2>2, <3>1
  <2> QED BY <2>6, <2>7
<1> QED BY <1>3, <1>4
LEMMA FailEarlyStep ==
  ASSUME IInv, NEW w \in Workers, FailEarly(w)
  PROVE  IInv' /\ Moves
<1>1. /\ worker[w].pc \notin {"down", "idle"} /\ events' \in Nat
      /\ UNCHANGED <<graph, outside, handed, current, attempt, sends>>
  BY DEF FailEarly, At, Event, IInv, TypeOK
<1> PICK pc \in {"failed", "hold"} : Goto(w, pc)
  BY DEF FailEarly
<1> QED BY <1>1, LeaveStep

\* The outcome of one attempt is written.
LEMMA CloseFacts ==
  ASSUME IInv, NEW x \in Items, NEW o \in {"unsent", "sent", "unclear"}, CloseAttempt(x, o)
  PROVE  /\ attempt' \in [Items -> Attempts]
         /\ attempt'[x].outcome = o /\ attempt'[x].marked = attempt[x].marked
         /\ \A y \in Items \ {x} : UNCHANGED attempt[y]
<1>1. /\ attempt \in [Items -> Attempts]
      /\ attempt' = [attempt EXCEPT ![x] = [attempt[x] EXCEPT !.outcome = o]]
  BY DEF CloseAttempt, Attempts, IInv, TypeOK
<1>2. [attempt[x] EXCEPT !.outcome = o] \in Attempts
  BY <1>1 DEF Attempts
<1> QED BY <1>1, <1>2 DEF Attempts

\* A worker moves its delivery, and in the same transaction everything stops.
LEMMA StopItemStep ==
  ASSUME IInv, NEW w \in Workers, worker[w].pc \notin {"down", "idle"},
         NEW pc \in {"failed", "hold", "finish", "error"}, Goto(w, pc),
         UNCHANGED <<outside, handed, sends>>, events' \in Nat,
         NEW d \in [Items -> Statuses], Stopped(d), NEW x \in Items, Move(x), ~Taken(x),
         attempt' \in [Items -> Attempts],
         UNCHANGED current \/ current' = [current EXCEPT ![x] = NoRow],
         \A y \in Items \ {x} : d[y] = delivery[y] /\ UNCHANGED attempt[y]
  PROVE  IInv' /\ Moves
<1>1. /\ current'[x] \in {current[x], NoRow} /\ current' \in [Items -> Rows \union {NoRow}]
      /\ \A y \in Items \ {x} : UNCHANGED <<current[y], attempt[y], sends[y]>>
  BY DEF IInv, TypeOK
<1>2. Moves /\ StopsStay
  BY <1>1, StoppedItem
<1>3. \A y \in Items : ~Taken(y)
  BY DEF Stopped, Taken
<1>4. /\ lane' \in [Channels -> NonTerminal \union {"stopped", "completed"}]
      /\ delivery' \in [Items -> Outstanding \union {"none", "sent", "stopped", "unclear"}]
      /\ row' \in [Items -> [Rows -> {"none", "pending", "running", "completed", "failed"}]]
      /\ enrollment' \in {"waiting", "active", "paused", "stopped", "completed"}
  BY DEF Stopped, Statuses
<1> QED BY <1>1, <1>2, <1>3, <1>4, EndStep

\* An attempt that never reached its marker is closed and its delivery released.
LEMMA TakeBackStep ==
  ASSUME IInv, NEW w \in Workers, worker[w].pc \notin {"down", "idle"},
         NEW pc \in {"failed", "hold", "finish", "error"}, Goto(w, pc),
         UNCHANGED <<outside, handed, sends>>, events' \in Nat,
         NEW x \in Items, x = Item(w), Reserved(w), ~attempt[x].marked,
         NEW why, Release(x, why), CloseAttempt(x, "unsent")
  PROVE  IInv' /\ Moves
<1>1. Agree(x) /\ attempt[x].outcome = "reserved" /\ delivery[x] \in {"sending", "stopped"}
  BY DEF IInv, Agree, Reserved
<1>2. \A k \in Rows : row[x][k] # "pending"
  BY <1>1, PendingRow
<1>3. UNCHANGED campaign
  BY DEF outside
<1>4. /\ RowsMove(x) /\ StopsStay /\ UNCHANGED <<campaign, enrollment>>
      /\ delivery'[x] \in {"planned", "stopped"}
      /\ delivery[x] = "stopped" => delivery'[x] = "stopped"
      /\ delivery'[x] = "stopped" => ControlsStopped(x[1])'
      /\ \A c \in Channels \ {x[1]} : lane'[c] = lane[c]
      /\ \A y \in Items \ {x} : UNCHANGED <<row[y], current[y], delivery[y]>>
      /\ delivery' \in [Items -> Outstanding \union {"none", "sent", "stopped", "unclear"}]
      /\ current' \in [Items -> Rows \union {NoRow}]
      /\ lane' \in [Channels -> NonTerminal \union {"stopped", "completed"}]
      /\ UNCHANGED row
  BY <1>1, <1>2, <1>3, ReleaseFacts
<1>5. /\ attempt' \in [Items -> Attempts]
      /\ attempt'[x].outcome = "unsent" /\ attempt'[x].marked = attempt[x].marked
      /\ \A y \in Items \ {x} : UNCHANGED attempt[y]
  BY CloseFacts
<1>6. TakenBack(x)
  BY <1>1, <1>4, <1>5 DEF TakenBack
<1>7. Moves
  BY <1>1, <1>4, <1>5, <1>6, OneItem DEF Move
<1>8. \A y \in Items : ~Taken(y)
  BY <1>4, <1>5, <1>6 DEF Taken, TakenBack
<1>9. /\ enrollment' \in {"waiting", "active", "paused", "stopped", "completed"}
      /\ row' \in [Items -> [Rows -> {"none", "pending", "running", "completed", "failed"}]]
  BY <1>4 DEF IInv, TypeOK
<1> QED BY <1>4, <1>5, <1>7, <1>8, <1>9, EndStep

\* The marker of the open attempt of a delivery being sent.
LEMMA MarkStep ==
  ASSUME IInv, NEW w \in Workers, At(w, "open"), Mark(w), NEW x \in Items, x = Item(w),
         delivery[x] = "sending", Reserved(w), ~attempt[x].marked,
         UNCHANGED <<outside, handed, sends, events>>
  PROVE  IInv' /\ Moves
<1>1. /\ UNCHANGED <<campaign, stop, hook, handed, sends, events, enrollment, lane, delivery, row, current>>
      /\ attempt[x].outcome = "reserved" /\ sends[x] = 0 /\ sends[x] \in Nat
  BY DEF Mark, graph, outside, Reserved, IInv, Agree, TypeOK
<1>2. /\ attempt' \in [Items -> Attempts]
      /\ attempt'[x].outcome = "reserved" /\ attempt'[x].marked
      /\ \A y \in Items \ {x} : UNCHANGED attempt[y]
  <2>1. /\ attempt \in [Items -> Attempts]
        /\ attempt' = [attempt EXCEPT ![x] = [attempt[x] EXCEPT !.marked = TRUE]]
    BY DEF Mark, Attempts, IInv, TypeOK
  <2>2. [attempt[x] EXCEPT !.marked = TRUE] \in Attempts
    BY <2>1 DEF Attempts
  <2> QED BY <1>1, <2>1, <2>2 DEF Attempts
<1>3. /\ \A v \in Workers \ {w} : worker'[v] = worker[v]
      /\ worker'[w].pc = "click" /\ worker'[w].item = worker[w].item /\ worker'[w].row = worker[w].row
      /\ worker' \in [Workers -> [pc : PCs, item : Items \union {NoItem},
                                  row : Rows \union {NoRow}, n : Nat]]
  BY GotoWorker DEF Mark, PCs
<1>4. TypeOK'
  BY <1>1, <1>2, <1>3 DEF Attempts, IInv, TypeOK
<1>5. Marked(x) /\ RowsMove(x)
  <2>1. \A k \in Rows : row[x][k] # "pending"
    BY PendingRow
  <2> QED BY <1>1, <1>2, <2>1, SameRows DEF Marked
<1>6. Moves
  <2>1. \A y \in Items \ {x} : UNCHANGED <<row[y], current[y], delivery[y], attempt[y], sends[y]>>
    BY <1>1, <1>2
  <2> QED BY <1>1, <1>5, <2>1, OneItem DEF Move
<1>7. StopsStay
  BY <1>1 DEF StopsStay, ControlsStopped
<1>8. ASSUME NEW v \in Workers \ {w} PROVE Waits(v) /\ WorkerInv(v)' /\ (Claimed(v)' => Claimed(v))
  <2>1. Waits(v)
    BY <1>1, <1>3, <1>6, OthersWait DEF Taken
  <2> QED BY <1>6, <2>1, WaitKeeps DEF Moves
<1>9. WorkerInv(w)' /\ ~Claimed(w)'
  <2>1. /\ Item(w)' = x /\ Lane(w)' = Lane(w) /\ x \in Steps(Lane(w)) /\ worker'[w].row \in Rows
        /\ row[x][worker'[w].row] # "none"
    BY <1>3 DEF IInv, WorkerInv, Item, Lane, At
  <2> QED BY <1>1, <1>2, <1>3, <2>1 DEF WorkerInv, Claimed, At
<1>10. OneClaim'
  <2>1. ASSUME NEW v \in Workers \ {w}, Claimed(v)' PROVE Claimed(v) /\ Item(v)' = Item(v)
    BY <1>3, <1>8, <2>1 DEF Item
  <2> QED BY <1>9, <2>1 DEF OneClaim, IInv
<1>11. OneClick'
  <2>1. ASSUME NEW v \in Workers \ {w}, At(v, "click")'
        PROVE  At(v, "click") /\ Item(v)' = Item(v) /\ Item(v) # x
    BY <1>3, <2>1 DEF At, Item, IInv, WorkerInv
  <2>2. Item(w)' = x
    BY <1>3 DEF Item
  <2> QED BY <2>1, <2>2 DEF OneClick, IInv
<1>12. \A y \in Items : Agree(y)' /\ RowInv(y)'
  BY <1>4, <1>6, <1>7, AgreeKeeps, RowsKeep DEF Moves
<1>13. Ordered'
  BY <1>6, OrderKeeps DEF Moves
<1>14. \A v \in Workers : WorkerInv(v)'
  BY <1>8, <1>9
<1> QED BY <1>4, <1>6, <1>10, <1>11, <1>12, <1>13, <1>14 DEF IInv
LEMMA BoundaryStep ==
  ASSUME IInv, NEW w \in Workers, Boundary(w)
  PROVE  IInv' /\ Moves
<1>1. /\ At(w, "open") /\ worker[w].pc \notin {"down", "idle"} /\ events \in Nat
      /\ UNCHANGED <<outside, handed, sends>>
      /\ Item(w) \in Items /\ Item(w)[1] = Lane(w)
  BY WorkerFacts DEF Boundary, At, IInv, TypeOK
<1> PICK x \in Items : x = Item(w)
  BY <1>1
<1>2. ASSUME NEW pc \in {"finish", "failed"}, Goto(w, pc), UNCHANGED <<graph, current, attempt, events>>
      PROVE  IInv' /\ Moves
  <2>1. UNCHANGED <<graph, outside, handed, current, attempt, sends>> /\ events' \in Nat
    BY <1>1, <1>2 DEF graph, outside
  <2> QED BY <1>1, <1>2, <2>1, LeaveStep
<1>3. CASE Lane(w) = LinkedIn
  <2>1. BoundaryLinkedIn(w)
    BY <1>3 DEF Boundary
  <2>2. CASE ~Reserved(w) \/ attempt[x].marked
    <3>1. Goto(w, "finish") /\ UNCHANGED <<graph, current, attempt, events>>
      BY <2>1, <2>2 DEF BoundaryLinkedIn, NoEvent
    <3> QED BY <1>2, <3>1
  <2>3. CASE Reserved(w) /\ ~attempt[x].marked /\ stop
    <3>1. /\ StopLocked(delivery) /\ CloseAttempt(x, "unsent") /\ Goto(w, "finish")
          /\ UNCHANGED events /\ UNCHANGED current
      BY <2>1, <2>3 DEF BoundaryLinkedIn, NoEvent
    <3>2. Stopped(delivery) /\ delivery \in [Items -> Statuses]
      BY <3>1, DeliveryTyped, StopLockedStops
    <3>3. /\ attempt' \in [Items -> Attempts]
          /\ attempt'[x].outcome = "unsent" /\ attempt'[x].marked = attempt[x].marked
          /\ \A y \in Items \ {x} : UNCHANGED attempt[y]
      BY <3>1, CloseFacts
    <3>4. attempt[x].outcome = "reserved" /\ delivery[x] \in {"sending", "stopped"}
      BY <2>3 DEF Reserved, IInv, Agree
    <3>5. delivery'[x] = "stopped" /\ ControlsStopped(x[1])'
      BY <3>1, <3>2, <3>4, ItemParts DEF StopLocked, Withhold, Outstanding, Stopped
    <3>6. TakenBack(x) /\ ~Taken(x)
      BY <1>1, <2>3, <3>3, <3>4, <3>5 DEF TakenBack, Taken
    <3>7. \A y \in Items \ {x} : delivery[y] = delivery[y] /\ UNCHANGED attempt[y]
      BY <3>3
    <3>8. events' \in Nat
      BY <1>1, <3>1
    <3> QED BY <1>1, <3>1, <3>2, <3>3, <3>6, <3>7, <3>8, StopItemStep DEF Move
  <2>4. CASE Reserved(w) /\ ~attempt[x].marked /\ ~stop /\ ~Owns(w)
    <3>1. Goto(w, "failed") /\ UNCHANGED <<graph, current, attempt, events>>
      BY <2>1, <2>4 DEF BoundaryLinkedIn, NoEvent
    <3> QED BY <1>2, <3>1
  <2>5. CASE Reserved(w) /\ ~attempt[x].marked /\ ~stop /\ Owns(w)
    <3> PICK why \in {"none", "hold", "retry", "drift", "unconnected"} :
         /\ GuardReports(w, "sending", why)
         /\ IF why = "none" THEN Mark(w)
            ELSE Release(Item(w), why) /\ CloseAttempt(Item(w), "unsent") /\ Goto(w, "finish")
      BY <2>1, <2>5 DEF BoundaryLinkedIn
    <3>1. CASE why = "none"
      <4>1. Mark(w) /\ delivery[x] = "sending" /\ UNCHANGED events
        BY <3>1 DEF GuardReports, NoEvent
      <4> QED BY <1>1, <2>5, <4>1, MarkStep
    <3>2. CASE why # "none"
      <4>1. Release(x, why) /\ CloseAttempt(x, "unsent") /\ Goto(w, "finish")
        BY <3>2
      <4>2. events' \in Nat
        BY <1>1 DEF GuardReports, Event, NoEvent
      <4> QED BY <1>1, <2>5, <4>1, <4>2, TakeBackStep
    <3> QED BY <3>1, <3>2
  <2> QED BY <2>2, <2>3, <2>4, <2>5
<1>4. CASE Lane(w) # LinkedIn
  <2>1. BoundaryGmail(w)
    BY <1>4 DEF Boundary
  <2>2. \/ Mark(w) /\ delivery[x] = "sending" /\ Reserved(w) /\ ~attempt[x].marked /\ UNCHANGED events
        \/ Goto(w, "failed") /\ UNCHANGED <<graph, current, attempt, events>>
    BY <2>1 DEF BoundaryGmail, NoEvent
  <2> QED BY <1>1, <1>2, <2>2, MarkStep
<1> QED BY <1>3, <1>4

LEMMA ClickStep ==
  ASSUME IInv, NEW w \in Workers, Click(w)
  PROVE  IInv' /\ Moves
<1>1. /\ At(w, "click") /\ worker[w].pc \notin {"down", "idle"} /\ events \in Nat
      /\ UNCHANGED <<graph, outside, handed, current, attempt>>
      /\ Item(w) \in Items
  BY WorkerFacts DEF Click, At, IInv, TypeOK
<1> PICK x \in Items : x = Item(w)
  BY <1>1
<1>2. CASE UNCHANGED sends /\ Goto(w, "failed") /\ Event
  <2>1. UNCHANGED <<graph, outside, handed, current, attempt, sends>> /\ events' \in Nat
    BY <1>1, <1>2 DEF graph, outside, Event
  <2> QED BY <1>1, <1>2, <2>1, LeaveStep
<1>3. ASSUME NEW pc \in {"sent", "failed"}, Goto(w, pc), Event \/ NoEvent,
             sends' = [sends EXCEPT ![Item(w)] = @ + 1]
      PROVE  IInv' /\ Moves
  <2>1. /\ attempt[x].marked /\ attempt[x].outcome \in {"reserved", "unclear"} /\ sends[x] = 0
    BY <1>1 DEF IInv, WorkerInv
  <2>2. /\ sends'[x] = 1 /\ sends' \in [Items -> Nat] /\ \A y \in Items \ {x} : UNCHANGED sends[y]
    BY <1>3, <2>1 DEF IInv, TypeOK
  <2>3. UNCHANGED <<campaign, stop, hook, handed, enrollment, lane, delivery, row, current, attempt>>
    BY <1>1 DEF graph, outside
  <2>4. /\ \A v \in Workers \ {w} : worker'[v] = worker[v]
        /\ worker'[w].pc = pc /\ worker'[w].item = worker[w].item /\ worker'[w].row = worker[w].row
        /\ worker' \in [Workers -> [pc : PCs, item : Items \union {NoItem},
                                    row : Rows \union {NoRow}, n : Nat]]
    BY <1>3, GotoWorker DEF PCs
  <2>5. TypeOK'
    <3>1. events' \in Nat
      BY <1>1, <1>3 DEF Event, NoEvent
    <3> QED BY <2>2, <2>3, <2>4, <3>1 DEF IInv, TypeOK
  <2>6. Sent(x)
    BY <2>1, <2>2, <2>3 DEF Sent
  <2>7. Moves
    <3>1. RowsMove(x)
      <4>1. \A k \in Rows : row[x][k] # "pending"
        BY <2>1, PendingRow DEF Quiet
      <4> QED BY <2>3, <4>1, SameRows
    <3>2. \A y \in Items \ {x} : UNCHANGED <<row[y], current[y], delivery[y], attempt[y], sends[y]>>
      BY <2>2, <2>3
    <3> QED BY <2>3, <2>6, <3>1, <3>2, OneItem DEF Move
  <2>8. StopsStay
    BY <2>3 DEF StopsStay, ControlsStopped
  <2>9. \A y \in Items : ~Taken(y)
    BY <2>3 DEF Taken
  <2>10. \A y \in Items : UNCHANGED sends[y] \/ (At(w, "click") /\ Item(w) = y)
    BY <1>1, <2>2
  <2>11. \A y \in Items : worker'[w].pc = "sent" /\ Item(w) = y => sends'[y] = 1
    BY <2>2
  <2> QED BY <1>1, <2>4, <2>5, <2>7, <2>8, <2>9, <2>10, <2>11, WorkerStep
<1>4. \/ sends' = [sends EXCEPT ![Item(w)] = @ + 1] /\ Goto(w, "sent") /\ NoEvent
      \/ sends' = [sends EXCEPT ![Item(w)] = @ + 1] /\ Goto(w, "failed") /\ Event
      \/ UNCHANGED sends /\ Goto(w, "failed") /\ Event
  BY DEF Click
<1> QED BY <1>2, <1>3, <1>4

\* A worker closes the attempt it marked: sent or unclear.  The lane may be left.
LEMMA CloseStep ==
  ASSUME IInv, NEW w \in Workers, worker[w].pc \notin {"down", "idle"},
         NEW pc \in {"failed", "hold", "finish", "error"}, Goto(w, pc),
         UNCHANGED <<outside, handed, sends, enrollment, row, current>>, events' \in Nat,
         NEW x \in Items, Closed(x),
         attempt' \in [Items -> Attempts],
         delivery' \in [Items -> Outstanding \union {"none", "sent", "stopped", "unclear"}],
         lane' \in [Channels -> NonTerminal \union {"stopped", "completed"}],
         \A y \in Items \ {x} : UNCHANGED <<attempt[y], delivery[y]>>,
         \A c \in Channels \ {x[1]} : lane'[c] = lane[c],
         UNCHANGED lane \/ lane[x[1]] \in NonTerminal
  PROVE  IInv' /\ Moves
<1>1. attempt[x].outcome = "reserved" /\ delivery[x] \in {"sending", "stopped"}
  BY DEF Closed, IInv, Agree
<1>2. RowsMove(x)
  <2>1. \A k \in Rows : row[x][k] # "pending"
    BY <1>1, PendingRow
  <2> QED BY <2>1, SameRows
<1>3. Moves
  <2>1. \A y \in Items \ {x} : UNCHANGED <<row[y], current[y], delivery[y], attempt[y], sends[y]>>
    OBVIOUS
  <2> QED BY <1>1, <1>2, <2>1, OneItem DEF Move, outside
<1>4. StopsStay
  <2>1. ASSUME NEW c \in Channels, ControlsStopped(c) PROVE ControlsStopped(c)'
    <3>1. lane'[c] = lane[c] \/ lane[c] \notin {"stopped", "completed"}
      BY DEF NonTerminal
    <3> QED BY <2>1, <3>1 DEF ControlsStopped
  <2> QED BY <2>1 DEF StopsStay
<1>5. \A y \in Items : ~Taken(y)
  BY <1>1 DEF Closed, Taken
<1>6. /\ enrollment' \in {"waiting", "active", "paused", "stopped", "completed"}
      /\ row' \in [Items -> [Rows -> {"none", "pending", "running", "completed", "failed"}]]
      /\ current' \in [Items -> Rows \union {NoRow}]
  BY DEF IInv, TypeOK
<1> QED BY <1>3, <1>4, <1>5, <1>6, EndStep

LEMMA ConfirmStep ==
  ASSUME IInv, NEW w \in Workers, Confirm(w)
  PROVE  IInv' /\ Moves
<1>1. /\ At(w, "sent") /\ worker[w].pc \notin {"down", "idle"} /\ events \in Nat /\ UNCHANGED events
      /\ UNCHANGED <<outside, handed, current, sends>>
      /\ Item(w) \in Items /\ Item(w)[1] = Lane(w) /\ Lane(w) \in Channels
  BY WorkerFacts, DripAssumption DEF DripAssumption, Confirm, At, Lane, IInv, TypeOK
<1> PICK x \in Items : x = Item(w)
  BY <1>1
<1> DEFINE d == [delivery EXCEPT ![x] = "sent"]
<1>2. /\ d \in [Items -> Statuses] /\ d[x] = "sent" /\ \A y \in Items \ {x} : d[y] = delivery[y]
  BY DeliveryTyped DEF Statuses
<1> HIDE DEF d
<1>3. ASSUME NEW pc \in {"finish", "failed", "error"}, Goto(w, pc), UNCHANGED <<graph, attempt>>
      PROVE  IInv' /\ Moves
  <2>1. UNCHANGED <<graph, outside, handed, current, attempt, sends>> /\ events' \in Nat
    BY <1>1, <1>3 DEF graph, outside
  <2> QED BY <1>1, <1>3, <2>1, LeaveStep
<1>4. ASSUME delivery[x] = "sending", Reserved(w), CloseAttempt(x, "sent"), Goto(w, "finish"),
             delivery'[x] = "sent"
      PROVE  /\ Closed(x) /\ attempt' \in [Items -> Attempts]
             /\ \A y \in Items \ {x} : UNCHANGED attempt[y]
  <2>1. sends[x] = 1 /\ attempt[x].marked /\ attempt[x].outcome = "reserved"
    BY <1>1, <1>4 DEF IInv, WorkerInv, Agree, Reserved
  <2>2. /\ attempt' \in [Items -> Attempts]
        /\ attempt'[x].outcome = "sent" /\ attempt'[x].marked = attempt[x].marked
        /\ \A y \in Items \ {x} : UNCHANGED attempt[y]
    BY <1>4, CloseFacts
  <2> QED BY <1>1, <1>4, <2>1, <2>2 DEF Closed
<1>5. ASSUME delivery[x] = "sending", Reserved(w), CloseAttempt(x, "sent"), Goto(w, "finish"),
             delivery' = d, UNCHANGED <<enrollment, row>>,
             \/ UNCHANGED lane
             \/ lane[x[1]] \in NonTerminal /\ lane' = [lane EXCEPT ![x[1]] = "completed"]
      PROVE  IInv' /\ Moves
  <2>1. /\ Closed(x) /\ attempt' \in [Items -> Attempts]
        /\ \A y \in Items \ {x} : UNCHANGED attempt[y]
    BY <1>2, <1>4, <1>5
  <2>2. /\ delivery' \in [Items -> Outstanding \union {"none", "sent", "stopped", "unclear"}]
        /\ \A y \in Items \ {x} : UNCHANGED delivery[y]
    BY <1>2, <1>5 DEF Statuses
  <2>3. /\ lane' \in [Channels -> NonTerminal \union {"stopped", "completed"}]
        /\ \A c \in Channels \ {x[1]} : lane'[c] = lane[c]
        /\ UNCHANGED lane \/ lane[x[1]] \in NonTerminal
    BY <1>5 DEF IInv, TypeOK
  <2>4. UNCHANGED <<outside, handed, sends, enrollment, row, current>> /\ events' \in Nat
    BY <1>1, <1>5
  <2> QED BY <1>1, <1>5, <2>1, <2>2, <2>3, <2>4, CloseStep
<1>6. CASE Lane(w) = LinkedIn
  <2>1. ConfirmLinkedIn(w) /\ x[1] = LinkedIn
    BY <1>1, <1>6 DEF Confirm
  <2>2. CASE \E pc \in {"finish", "error"} : Goto(w, pc) /\ UNCHANGED <<graph, attempt>>
    BY <1>3, <2>2
  <2>3. CASE /\ delivery[x] = "sending" /\ Reserved(w) /\ CloseAttempt(x, "sent") /\ Goto(w, "finish")
             /\ StopLocked(d)
    <3>1. \A y \in Items : delivery[y] = "queued" => d[y] = "queued"
      BY <1>2, <2>3
    <3>2. Stopped(d)
      BY <1>2, <2>3, <3>1, StopLockedStops
    <3>3. delivery'[x] = "sent"
      BY <1>2, <3>2 DEF Stopped, Outstanding
    <3>4. Closed(x) /\ attempt' \in [Items -> Attempts] /\ \A y \in Items \ {x} : UNCHANGED attempt[y]
      BY <1>4, <2>3, <3>3
    <3>5. ~Taken(x)
      BY <3>3 DEF Taken
    <3>6. \A y \in Items \ {x} : d[y] = delivery[y] /\ UNCHANGED attempt[y]
      BY <1>2, <3>4
    <3>7. UNCHANGED <<outside, handed, sends>> /\ UNCHANGED current /\ events' \in Nat
      BY <1>1
    <3> QED BY <1>1, <1>2, <2>3, <3>2, <3>4, <3>5, <3>6, <3>7, StopItemStep DEF Move
  <2>4. CASE /\ delivery[x] = "sending" /\ Reserved(w) /\ CloseAttempt(x, "sent") /\ Goto(w, "finish")
             /\ delivery' = d /\ UNCHANGED <<enrollment, row>>
             /\ lane' = IF enrollment = "active" /\ lane[LinkedIn] = "active" /\ x[2] = LastStep[LinkedIn]
                          THEN [lane EXCEPT ![LinkedIn] = "completed"] ELSE lane
    BY <1>5, <2>1, <2>4 DEF NonTerminal
  <2> QED BY <2>1, <2>2, <2>3, <2>4 DEF ConfirmLinkedIn, d
<1>7. CASE Lane(w) # LinkedIn
  <2>1. ConfirmGmail(w)
    BY <1>7 DEF Confirm
  <2>2. \/ /\ delivery[x] = "sending" /\ Reserved(w) /\ CloseAttempt(x, "sent") /\ Goto(w, "finish")
           /\ delivery' = d /\ UNCHANGED <<enrollment, row>> /\ UNCHANGED lane
        \/ Goto(w, "failed") /\ UNCHANGED <<graph, attempt>>
    BY <2>1 DEF ConfirmGmail, d
  <2> QED BY <1>3, <1>5, <2>2
<1> QED BY <1>6, <1>7
\* An attempt that was marked becomes unclear.
LEMMA UnclearFacts ==
  ASSUME IInv, NEW x \in Items, Unclear(x), attempt[x].outcome = "reserved", attempt[x].marked,
         UNCHANGED sends
  PROVE  /\ Closed(x) /\ UNCHANGED enrollment /\ delivery'[x] = "unclear"
         /\ attempt' \in [Items -> Attempts]
         /\ delivery' \in [Items -> Outstanding \union {"none", "sent", "stopped", "unclear"}]
         /\ lane' \in [Channels -> NonTerminal \union {"stopped", "completed"}]
         /\ \A y \in Items \ {x} : UNCHANGED <<attempt[y], delivery[y]>>
         /\ \A c \in Channels \ {x[1]} : lane'[c] = lane[c]
         /\ UNCHANGED lane \/ lane[x[1]] \in NonTerminal
<1>1. /\ attempt' = [attempt EXCEPT ![x] = [attempt[x] EXCEPT !.outcome = "unclear"]]
      /\ attempt \in [Items -> Attempts]
  BY DEF Unclear, Attempts, IInv, TypeOK
<1>2. [attempt[x] EXCEPT !.outcome = "unclear"] \in Attempts
  BY <1>1 DEF Attempts
<1>3. /\ attempt' \in [Items -> Attempts]
      /\ attempt'[x].outcome = "unclear" /\ attempt'[x].marked
      /\ \A y \in Items \ {x} : UNCHANGED attempt[y]
  BY <1>1, <1>2 DEF Attempts
<1>4. /\ delivery' \in [Items -> Outstanding \union {"none", "sent", "stopped", "unclear"}]
      /\ delivery'[x] = "unclear" /\ \A y \in Items \ {x} : UNCHANGED delivery[y]
  BY DEF Unclear, IInv, TypeOK
<1>5. lane \in [Channels -> NonTerminal \union {"stopped", "completed"}] /\ x[1] \in Channels
  BY ItemParts DEF IInv, TypeOK
<1>6. \/ UNCHANGED lane
      \/ lane[x[1]] \in NonTerminal /\ lane' = [lane EXCEPT ![x[1]] = "paused"]
  <2>1. lane' = [lane EXCEPT ![x[1]] =
                   IF lane[x[1]] \in (IF x[1] = LinkedIn THEN NonTerminal ELSE {"active"})
                     THEN "paused" ELSE lane[x[1]]]
    BY DEF Unclear
  <2>2. (IF x[1] = LinkedIn THEN NonTerminal ELSE {"active"}) \subseteq NonTerminal
    BY DEF NonTerminal
  <2>3. CASE lane[x[1]] \in (IF x[1] = LinkedIn THEN NonTerminal ELSE {"active"})
    BY <2>1, <2>2, <2>3
  <2>4. CASE lane[x[1]] \notin (IF x[1] = LinkedIn THEN NonTerminal ELSE {"active"})
    BY <1>5, <2>1, <2>4
  <2> QED BY <2>3, <2>4
<1>7. /\ lane' \in [Channels -> NonTerminal \union {"stopped", "completed"}]
      /\ \A c \in Channels \ {x[1]} : lane'[c] = lane[c]
  BY <1>5, <1>6 DEF NonTerminal
<1>8. Closed(x) /\ UNCHANGED enrollment
  BY <1>3, <1>4 DEF Closed, Unclear
<1> QED BY <1>3, <1>4, <1>6, <1>7, <1>8

LEMMA FailureStep ==
  ASSUME IInv, NEW w \in Workers, Failure(w)
  PROVE  IInv' /\ Moves
<1>1. /\ worker[w].pc \notin {"down", "idle"} /\ events \in Nat /\ UNCHANGED events /\ events' \in Nat
      /\ UNCHANGED <<outside, handed, sends>> /\ UNCHANGED sends
  BY DEF Failure, At, IInv, TypeOK
<1>2. Item(w) \in Items /\ Item(w)[1] = Lane(w) /\ Lane(w) \in Channels
  BY <1>1, WorkerFacts, DripAssumption DEF DripAssumption, Lane
<1> PICK x \in Items : x = Item(w)
  BY <1>2
<1> PICK pc \in {"finish", "error"} : Goto(w, pc)
  BY DEF Failure
<1>3. CASE ~Reserved(w)
  <2>1. UNCHANGED <<graph, attempt, current>>
    BY <1>3 DEF Failure, FailLinkedIn, FailGmail
  <2>2. UNCHANGED <<graph, outside, handed, current, attempt, sends>>
    BY <1>1, <2>1 DEF graph, outside
  <2> QED BY <1>1, <2>2, LeaveStep
<1>4. CASE Reserved(w) /\ attempt[x].marked
  <2>1. Unclear(x) /\ UNCHANGED <<row, current>> /\ attempt[x].outcome = "reserved"
    BY <1>4 DEF Failure, FailLinkedIn, FailGmail, Reserved
  <2>2. /\ Closed(x) /\ UNCHANGED enrollment
        /\ attempt' \in [Items -> Attempts]
        /\ delivery' \in [Items -> Outstanding \union {"none", "sent", "stopped", "unclear"}]
        /\ lane' \in [Channels -> NonTerminal \union {"stopped", "completed"}]
        /\ \A y \in Items \ {x} : UNCHANGED <<attempt[y], delivery[y]>>
        /\ \A c \in Channels \ {x[1]} : lane'[c] = lane[c]
        /\ UNCHANGED lane \/ lane[x[1]] \in NonTerminal
    BY <1>1, <1>4, <2>1, UnclearFacts
  <2>3. UNCHANGED <<outside, handed, sends, enrollment, row, current>>
    BY <1>1, <2>1, <2>2
  <2> QED BY <1>1, <2>2, <2>3, CloseStep
<1>5. CASE Reserved(w) /\ ~attempt[x].marked
  <2>1. attempt[x].outcome = "reserved" /\ delivery[x] \in {"sending", "stopped"} /\ Agree(x)
    BY <1>5 DEF Reserved, IInv, Agree
  <2>2. CASE Lane(w) = LinkedIn
    <3>1. FailLinkedIn(w)
      BY <2>2 DEF Failure
    <3> PICK why \in {"drift", "retry"} : CloseAttempt(x, "unsent") /\ Release(x, why)
      BY <1>5, <3>1 DEF FailLinkedIn
    <3> QED BY <1>1, <1>5, TakeBackStep
  <2>3. CASE Lane(w) # LinkedIn
    <3> DEFINE stopped == enrollment = "stopped" \/ lane[Gmail] = "stopped" \/ stop
               d == [delivery EXCEPT ![x] = IF stopped THEN "stopped" ELSE "planned"]
    <3>1. /\ CloseAttempt(x, "unsent") /\ x[1] = Gmail
          /\ \/ delivery[x] # "sending" /\ UNCHANGED <<graph, current>>
             \/ /\ delivery[x] = "sending" /\ current' = [current EXCEPT ![x] = NoRow]
                /\ IF stop THEN StopForReason(d)
                   ELSE delivery' = d /\ UNCHANGED <<enrollment, lane, row>>
      BY <1>2, <1>5, <2>3 DEF Failure, FailGmail, Channels
    <3>2. /\ d \in [Items -> Statuses] /\ d[x] = IF stopped THEN "stopped" ELSE "planned"
          /\ \A y \in Items \ {x} : d[y] = delivery[y]
      BY DeliveryTyped DEF Statuses, Outstanding
    <3>3. /\ attempt' \in [Items -> Attempts]
          /\ attempt'[x].outcome = "unsent" /\ attempt'[x].marked = attempt[x].marked
          /\ \A y \in Items \ {x} : UNCHANGED attempt[y]
      BY <3>1, CloseFacts
    <3>4. \A k \in Rows : row[x][k] # "pending"
      BY <2>1, PendingRow
    <3> HIDE DEF d
    <3>5. CASE delivery[x] # "sending" /\ UNCHANGED <<graph, current>>
      <4>1. /\ UNCHANGED <<enrollment, lane, delivery, row, current>> /\ delivery[x] = "stopped"
            /\ UNCHANGED campaign
        BY <1>1, <2>1, <3>5 DEF graph, outside
      <4>2. StopsStay /\ ControlsStopped(x[1])'
        BY <2>1, <4>1, ItemParts DEF StopsStay, ControlsStopped, Agree
      <4>3. TakenBack(x)
        BY <1>1, <1>5, <2>1, <3>3, <4>1, <4>2 DEF TakenBack
      <4>4. RowsMove(x)
        BY <3>4, <4>1, SameRows
      <4>5. \A y \in Items \ {x} : UNCHANGED <<row[y], current[y], delivery[y], attempt[y], sends[y]>>
        BY <1>1, <3>3, <4>1
      <4>6. Moves
        BY <4>1, <4>3, <4>4, <4>5, OneItem DEF Move
      <4>7. \A y \in Items : ~Taken(y)
        BY <4>1 DEF Taken
      <4>8. /\ enrollment' \in {"waiting", "active", "paused", "stopped", "completed"}
            /\ lane' \in [Channels -> NonTerminal \union {"stopped", "completed"}]
            /\ delivery' \in [Items -> Outstanding \union {"none", "sent", "stopped", "unclear"}]
            /\ current' \in [Items -> Rows \union {NoRow}]
            /\ row' \in [Items -> [Rows -> {"none", "pending", "running", "completed", "failed"}]]
        BY <4>1 DEF IInv, TypeOK
      <4> QED BY <1>1, <3>3, <4>2, <4>6, <4>7, <4>8, EndStep
    <3>6. CASE /\ delivery[x] = "sending" /\ current' = [current EXCEPT ![x] = NoRow]
               /\ stop /\ StopForReason(d)
      <4>1. \A y \in Items : delivery[y] = "queued" => d[y] = "queued"
        BY <3>2, <3>6
      <4>2. Stopped(d) /\ ControlsStopped(x[1])'
        BY <3>2, <3>6, <4>1, StopForReasonStops, ItemParts DEF Stopped
      <4>3. delivery'[x] = "stopped"
        BY <3>2, <3>6, <4>2 DEF Stopped, Outstanding
      <4>4. TakenBack(x) /\ ~Taken(x)
        BY <1>1, <1>5, <2>1, <3>3, <4>2, <4>3 DEF TakenBack, Taken
      <4>5. \A y \in Items \ {x} : d[y] = delivery[y] /\ UNCHANGED attempt[y]
        BY <3>2, <3>3
      <4> QED BY <1>1, <3>2, <3>3, <3>6, <4>2, <4>4, <4>5, StopItemStep DEF Move
    <3>7. CASE /\ delivery[x] = "sending" /\ current' = [current EXCEPT ![x] = NoRow] /\ ~stop
               /\ delivery' = d /\ UNCHANGED <<enrollment, lane, row>>
      <4>1. UNCHANGED campaign /\ current'[x] = NoRow /\ current' \in [Items -> Rows \union {NoRow}]
            /\ \A y \in Items \ {x} : UNCHANGED current[y]
        BY <1>1, <3>7 DEF outside, IInv, TypeOK
      <4>2. StopsStay /\ (delivery'[x] = "stopped" => ControlsStopped(x[1])')
        BY <3>1, <3>2, <3>7 DEF StopsStay, ControlsStopped
      <4>3. TakenBack(x)
        BY <1>1, <1>5, <2>1, <3>2, <3>3, <3>7, <4>2 DEF TakenBack
      <4>4. RowsMove(x)
        BY <3>4, <3>7, <4>1, SameRows
      <4>5. \A y \in Items \ {x} : UNCHANGED <<row[y], current[y], delivery[y], attempt[y], sends[y]>>
        BY <1>1, <3>2, <3>3, <3>7, <4>1
      <4>6. Moves
        BY <3>7, <4>1, <4>3, <4>4, <4>5, OneItem DEF Move
      <4>7. \A y \in Items : ~Taken(y)
        BY <3>2, <3>7, <4>5 DEF Taken
      <4>8. /\ enrollment' \in {"waiting", "active", "paused", "stopped", "completed"}
            /\ lane' \in [Channels -> NonTerminal \union {"stopped", "completed"}]
            /\ row' \in [Items -> [Rows -> {"none", "pending", "running", "completed", "failed"}]]
        BY <3>7 DEF IInv, TypeOK
      <4>9. delivery' \in [Items -> Outstanding \union {"none", "sent", "stopped", "unclear"}]
        BY <3>2, <3>7 DEF Statuses
      <4> QED BY <1>1, <3>3, <4>1, <4>2, <4>6, <4>7, <4>8, <4>9, EndStep
    <3> QED BY <3>1, <3>5, <3>6, <3>7
  <2> QED BY <2>2, <2>3
<1> QED BY <1>3, <1>4, <1>5

\* A worker that is idle, down or started again changes nothing for the others.
LEMMA RestStep ==
  ASSUME IInv, TypeOK', StopsStay, Moves, NEW w \in Workers,
         \A v \in Workers \ {w} : worker'[v] = worker[v], worker'[w].pc \in {"down", "idle"},
         UNCHANGED <<attempt, sends>>
  PROVE  IInv'
<1>1. ASSUME NEW v \in Workers \ {w} PROVE Waits(v)
  <2>1. \A x \in Items : ~Taken(x) \/ ~Quiet(x)
    BY DEF Taken, Quiet
  <2>2. \A x \in Items : Item(v) = x => (Claimed(v) => ~Taken(x))
    BY <2>1, WorkerFacts DEF WorkerInv, Claimed, At
  <2> QED BY <2>2, OthersWait
<1>2. WorkerInv(w)'
  BY DEF WorkerInv, Claimed, At
<1> QED BY <1>1, <1>2, Keeps DEF Moves

LEMMA FinishStep ==
  ASSUME IInv, NEW w \in Workers, Finish(w)
  PROVE  IInv' /\ Moves
<1>1. /\ worker[w].pc \notin {"down", "idle"}
      /\ UNCHANGED <<enrollment, lane, delivery, campaign, stop, hook, handed, current, attempt, sends, events>>
  BY DEF Finish, At, outside
<1>2. Item(w) \in Items /\ worker[w].row \in Rows /\ row[Item(w)][worker[w].row] # "none"
  BY <1>1, WorkerFacts DEF WorkerInv
<1> PICK x \in Items, k \in Rows : x = Item(w) /\ k = worker[w].row
  BY <1>2
<1> PICK status \in {"failed", "completed", row[x][k]} :
       /\ row' = [row EXCEPT ![x][k] = status]
       /\ worker' = [worker EXCEPT ![w] = [Down EXCEPT !.pc = "idle"]]
  <2>1. /\ row' = [row EXCEPT ![x][k] = IF At(w, "error") THEN "failed"
                                        ELSE IF Lane(w) = Gmail /\ row[x][k] # "running" THEN row[x][k]
                                        ELSE "completed"]
        /\ worker' = [worker EXCEPT ![w] = [Down EXCEPT !.pc = "idle"]]
    BY DEF Finish
  <2> QED BY <2>1
<1>3. /\ row' \in [Items -> [Rows -> {"none", "pending", "running", "completed", "failed"}]]
      /\ \A y \in Items, j \in Rows : row'[y][j] = IF y = x /\ j = k THEN status ELSE row[y][j]
  BY DEF IInv, TypeOK
<1>4. /\ \A v \in Workers \ {w} : worker'[v] = worker[v]
      /\ worker'[w].pc = "idle"
      /\ worker' \in [Workers -> [pc : PCs, item : Items \union {NoItem},
                                  row : Rows \union {NoRow}, n : Nat]]
  BY DEF PCs, Down, IInv, TypeOK
<1>5. TypeOK'
  BY <1>1, <1>3, <1>4 DEF IInv, TypeOK
<1>6. ASSUME NEW y \in Items PROVE Same(y) /\ RowsMove(y)
  <2>1. UNCHANGED <<current[y], delivery[y], attempt[y], sends[y]>>
        /\ (ControlsActive(y[1]) => ControlsActive(y[1])')
    BY <1>1 DEF ControlsActive
  <2>2. \A j \in Rows : /\ row'[y][j] = "pending" => row[y][j] = "pending"
                        /\ row[y][j] # "none" => row'[y][j] # "none"
    BY <1>3
  <2> QED BY <2>1, <2>2, PendingRow DEF Same, RowsMove
<1>7. Moves
  BY <1>6 DEF Moves, Move
<1>8. StopsStay
  BY <1>1 DEF StopsStay, ControlsStopped
<1> QED BY <1>1, <1>4, <1>5, <1>7, <1>8, RestStep
LEMMA RestOnlyStep ==
  ASSUME IInv, NEW w \in Workers, Die(w) \/ Start(w)
  PROVE  IInv' /\ Moves
<1>1. UNCHANGED <<campaign, enrollment, lane, handed, delivery, current, row, attempt, sends, stop, hook>>
  BY DEF Die, Start, graph, outside
<1>2. events' \in Nat
  BY DEF Die, Start, Event, IInv, TypeOK
<1>3. /\ \A v \in Workers \ {w} : worker'[v] = worker[v]
      /\ worker'[w].pc \in {"down", "idle"}
      /\ worker' \in [Workers -> [pc : PCs, item : Items \union {NoItem},
                                  row : Rows \union {NoRow}, n : Nat]]
  <2>1. CASE Die(w)
    BY <2>1 DEF Die, PCs, Down, IInv, TypeOK
  <2>2. CASE Start(w)
    BY <2>2, GotoWorker DEF Start, PCs
  <2> QED BY <2>1, <2>2
<1>4. TypeOK'
  BY <1>1, <1>2, <1>3 DEF IInv, TypeOK
<1>5. ASSUME NEW x \in Items PROVE Same(x) /\ RowsMove(x)
  <2>1. UNCHANGED <<attempt[x], sends[x], delivery[x], row[x], current[x]>>
        /\ (ControlsActive(x[1]) => ControlsActive(x[1])')
    BY <1>1 DEF ControlsActive
  <2> QED BY <2>1, PendingRow DEF Same, RowsMove
<1>6. Moves
  BY <1>5 DEF Moves, Move
<1>7. StopsStay
  BY <1>1 DEF StopsStay, ControlsStopped
<1> QED BY <1>1, <1>3, <1>4, <1>6, <1>7, RestStep

\* One row of a delivery is written.
LEMMA SetRowFacts ==
  ASSUME IInv, NEW x \in Items, NEW k, NEW status \in {"pending", "completed", "failed"},
         SetRow(x, k, status)
  PROVE  /\ row' \in [Items -> [Rows -> {"none", "pending", "running", "completed", "failed"}]]
         /\ \A y \in Items, j \in Rows : row'[y][j] = IF y = x /\ j = k THEN status ELSE row[y][j]
         /\ \A y \in Items \ {x} : UNCHANGED row[y]
<1>1. /\ row \in [Items -> [Rows -> {"none", "pending", "running", "completed", "failed"}]]
      /\ row' = [row EXCEPT ![x] = [row[x] EXCEPT ![k] = status]]
  BY DEF SetRow, IInv, TypeOK
<1>2. [row[x] EXCEPT ![k] = status] \in [Rows -> {"none", "pending", "running", "completed", "failed"}]
  BY <1>1
<1> QED BY <1>1, <1>2

\* The recovery moves one delivery that was being sent.
LEMMA RecoverItem ==
  ASSUME IInv, NEW w \in Workers, UNCHANGED <<outside, handed, sends, worker, events>>,
         NEW x \in Items, delivery[x] = "sending",
         \/ OpenAttempt(x) /\ Restore(x)
         \/ /\ ~OpenAttempt(x) /\ Unclear(x) /\ UNCHANGED current
            /\ \E k \in Rows \union {NoRow}, status \in {"completed", "failed"} : SetRow(x, k, status)
  PROVE  IInv' /\ Moves
<1>1. Agree(x) /\ attempt[x].outcome = "reserved" /\ \A k \in Rows : row[x][k] # "pending"
  <2>1. Agree(x) /\ attempt[x].outcome \in {"none", "reserved", "unsent", "sent", "unclear"}
    BY DEF IInv, TypeOK
  <2> QED BY <2>1, PendingRow DEF Agree, Quiet
<1>2. UNCHANGED <<campaign, stop, hook, handed, sends, worker, events>>
  BY DEF outside
<1>3. CASE OpenAttempt(x) /\ Restore(x)
  <2> DEFINE again == ControlsActive(x[1]) /\ row[x][current[x]] # "completed"
  <2>1. /\ CloseAttempt(x, "unsent") /\ UNCHANGED <<enrollment, lane>>
        /\ delivery' = [delivery EXCEPT ![x] = IF again THEN "queued" ELSE "planned"]
        /\ current' = IF again THEN current ELSE [current EXCEPT ![x] = NoRow]
        /\ SetRow(x, current[x], IF again THEN "pending" ELSE "completed")
    BY <1>3 DEF Restore
  <2>2. again => ControlsActive(x[1])'
    BY <1>2, <2>1 DEF ControlsActive
  <2> HIDE DEF again
  <2>3. /\ attempt' \in [Items -> Attempts]
        /\ attempt'[x].outcome = "unsent" /\ attempt'[x].marked = attempt[x].marked
        /\ \A y \in Items \ {x} : UNCHANGED attempt[y]
    BY <2>1, CloseFacts
  <2>4. /\ row' \in [Items -> [Rows -> {"none", "pending", "running", "completed", "failed"}]]
        /\ \A j \in Rows : row'[x][j] = IF j = current[x] THEN (IF again THEN "pending" ELSE "completed")
                                        ELSE row[x][j]
        /\ \A y \in Items \ {x} : UNCHANGED row[y]
    BY <2>1, SetRowFacts
  <2>5. /\ delivery' \in [Items -> Outstanding \union {"none", "sent", "stopped", "unclear"}]
        /\ delivery'[x] = IF again THEN "queued" ELSE "planned"
        /\ \A y \in Items \ {x} : UNCHANGED delivery[y]
    BY <2>1 DEF Outstanding, IInv, TypeOK
  <2>6. /\ current' \in [Items -> Rows \union {NoRow}]
        /\ current'[x] = IF again THEN current[x] ELSE NoRow
        /\ \A y \in Items \ {x} : UNCHANGED current[y]
    BY <2>1 DEF IInv, TypeOK
  <2>7. TakenBack(x)
    BY <1>1, <1>2, <1>3, <2>3, <2>5 DEF TakenBack, OpenAttempt
  <2>8. RowsMove(x)
    <3>1. \A k \in Rows : row[x][k] # "none" => row'[x][k] # "none"
      BY <2>4
    <3>2. \A k \in Rows : row'[x][k] = "pending" => again /\ k = current[x]
      BY <1>1, <2>4
    <3> QED BY <1>1, <2>2, <2>5, <2>6, <3>1, <3>2 DEF RowsMove
  <2>9. Moves
    <3>1. \A y \in Items \ {x} : UNCHANGED <<row[y], current[y], delivery[y], attempt[y], sends[y]>>
      BY <1>2, <2>3, <2>4, <2>5, <2>6
    <3> QED BY <1>2, <2>1, <2>7, <2>8, <3>1, OneItem DEF Move
  <2>10. StopsStay
    BY <2>1 DEF StopsStay, ControlsStopped
  <2>11. \A y \in Items : ~Taken(y)
    BY <2>5 DEF Taken
  <2>12. TypeOK'
    BY <1>2, <2>1, <2>3, <2>4, <2>5, <2>6 DEF Attempts, IInv, TypeOK
  <2> QED BY <1>2, <2>9, <2>10, <2>11, <2>12, TableStep
<1>4. CASE /\ ~OpenAttempt(x) /\ Unclear(x) /\ UNCHANGED current
           /\ \E k \in Rows \union {NoRow}, status \in {"completed", "failed"} : SetRow(x, k, status)
  <2> PICK k \in Rows \union {NoRow}, status \in {"completed", "failed"} : SetRow(x, k, status)
    BY <1>4
  <2>1. attempt[x].marked
    BY <1>1, <1>4 DEF OpenAttempt
  <2>2. /\ Closed(x) /\ UNCHANGED enrollment /\ delivery'[x] = "unclear"
        /\ attempt' \in [Items -> Attempts]
        /\ delivery' \in [Items -> Outstanding \union {"none", "sent", "stopped", "unclear"}]
        /\ lane' \in [Channels -> NonTerminal \union {"stopped", "completed"}]
        /\ \A y \in Items \ {x} : UNCHANGED <<attempt[y], delivery[y]>>
        /\ \A c \in Channels \ {x[1]} : lane'[c] = lane[c]
        /\ UNCHANGED lane \/ lane[x[1]] \in NonTerminal
    BY <1>1, <1>2, <1>4, <2>1, UnclearFacts
  <2>3. /\ row' \in [Items -> [Rows -> {"none", "pending", "running", "completed", "failed"}]]
        /\ \A j \in Rows : row'[x][j] \in {status, row[x][j]}
        /\ \A y \in Items \ {x} : UNCHANGED row[y]
    BY SetRowFacts
  <2>4. RowsMove(x)
    BY <1>1, <1>4, <2>3 DEF RowsMove
  <2>5. Moves
    <3>1. \A y \in Items \ {x} : UNCHANGED <<row[y], current[y], delivery[y], attempt[y], sends[y]>>
      BY <1>2, <1>4, <2>2, <2>3
    <3> QED BY <1>2, <2>2, <2>4, <3>1, OneItem DEF Move
  <2>6. StopsStay
    <3>1. ASSUME NEW c \in Channels, ControlsStopped(c) PROVE ControlsStopped(c)'
      <4>1. lane'[c] = lane[c] \/ lane[c] \notin {"stopped", "completed"}
        BY <2>2 DEF NonTerminal
      <4> QED BY <2>2, <3>1, <4>1 DEF ControlsStopped
    <3> QED BY <3>1 DEF StopsStay
  <2>7. \A y \in Items : ~Taken(y)
    BY <2>2 DEF Taken
  <2>8. TypeOK'
    BY <1>2, <1>4, <2>2, <2>3 DEF Attempts, IInv, TypeOK
  <2> QED BY <1>2, <2>5, <2>6, <2>7, <2>8, TableStep
<1> QED BY <1>3, <1>4

LEMMA RecoverStep ==
  ASSUME IInv, NEW w \in Workers, Recover(w)
  PROVE  IInv' /\ Moves
<1>1. UNCHANGED <<outside, handed, sends, worker, events>>
  BY DEF Recover
<1> PICK x \in Steps(Lane(w)), k \in Rows :
       /\ Recoverable(x, k)
       /\ IF Lane(w) = LinkedIn THEN RecoverLinkedIn(x) ELSE RecoverGmail(x, k)
  BY DEF Recover
<1>2. x \in Items /\ x[1] = Lane(w)
  BY DEF Steps
<1>3. CASE Lane(w) = LinkedIn
  <2>1. delivery[x] = "sending" /\ RecoverLinkedIn(x)
    BY <1>2, <1>3 DEF Recoverable
  <2>2. \/ OpenAttempt(x) /\ Restore(x)
        \/ /\ ~OpenAttempt(x) /\ Unclear(x) /\ UNCHANGED current
           /\ SetRow(x, current[x], "completed") \/ SetRow(x, current[x], "failed")
    BY <2>1 DEF RecoverLinkedIn
  <2>3. current[x] \in Rows \union {NoRow}
    BY <1>2 DEF IInv, TypeOK
  <2>4. \/ OpenAttempt(x) /\ Restore(x)
        \/ /\ ~OpenAttempt(x) /\ Unclear(x) /\ UNCHANGED current
           /\ \E j \in Rows \union {NoRow}, status \in {"completed", "failed"} : SetRow(x, j, status)
    BY <2>2, <2>3
  <2> QED BY <1>1, <1>2, <2>1, <2>4, RecoverItem
<1>4. CASE Lane(w) # LinkedIn
  <2>1. RecoverGmail(x, k) /\ row[x][k] = "running"
    BY <1>2, <1>4 DEF Recoverable
  <2>2. CASE \E status \in {"completed", "failed"} :
               SetRow(x, k, status) /\ UNCHANGED <<enrollment, lane, delivery, attempt, current>>
    <3> PICK status \in {"completed", "failed"} :
               SetRow(x, k, status) /\ UNCHANGED <<enrollment, lane, delivery, attempt, current>>
      BY <2>2
    <3>1. /\ row' \in [Items -> [Rows -> {"none", "pending", "running", "completed", "failed"}]]
          /\ \A y \in Items, j \in Rows : row'[y][j] = IF y = x /\ j = k THEN status ELSE row[y][j]
      BY <1>2, SetRowFacts
    <3>2. UNCHANGED <<campaign, stop, hook, handed, sends, worker, events, enrollment, lane,
                      delivery, attempt, current>>
      BY <1>1 DEF outside
    <3>3. TypeOK'
      BY <3>1, <3>2 DEF IInv, TypeOK
    <3>4. ASSUME NEW y \in Items PROVE Same(y) /\ RowsMove(y)
      <4>1. UNCHANGED <<current[y], delivery[y], attempt[y], sends[y]>>
            /\ (ControlsActive(y[1]) => ControlsActive(y[1])')
        BY <3>2 DEF ControlsActive
      <4>2. \A j \in Rows : /\ row'[y][j] = "pending" => row[y][j] = "pending"
                            /\ row[y][j] # "none" => row'[y][j] # "none"
        BY <3>1
      <4> QED BY <4>1, <4>2, PendingRow DEF Same, RowsMove
    <3>5. Moves /\ StopsStay /\ \A y \in Items : ~Taken(y)
      BY <3>2, <3>4 DEF Moves, Move, StopsStay, ControlsStopped, Same, Taken
    <3> QED BY <3>2, <3>3, <3>5, TableStep
  <2>3. CASE /\ delivery[x] = "sending"
             /\ \/ OpenAttempt(x) /\ Restore(x)
                \/ ~OpenAttempt(x) /\ Unclear(x) /\ SetRow(x, k, "failed") /\ UNCHANGED current
    <3>1. \/ OpenAttempt(x) /\ Restore(x)
          \/ /\ ~OpenAttempt(x) /\ Unclear(x) /\ UNCHANGED current
             /\ \E j \in Rows \union {NoRow}, status \in {"completed", "failed"} : SetRow(x, j, status)
      BY <2>3
    <3> QED BY <1>1, <1>2, <2>3, <3>1, RecoverItem
  <2> QED BY <2>1, <2>2, <2>3 DEF RecoverGmail
<1> QED BY <1>3, <1>4

------------------------------------------------------------------------------
(* The theorems. *)

LEMMA InitHolds ==
  ASSUME Init
  PROVE  IInv
<1>1. TypeOK
  BY DripAssumption DEF Init, TypeOK, Rows, NoRow, NonTerminal, PCs, Down, NoItem, Outstanding
<1>2. \A x \in Items : Agree(x)
  BY DEF Init, Agree, Quiet
<1>3. \A x \in Items : RowInv(x)
  BY DEF Init, RowInv
<1>4. Ordered
  BY DEF Init, Ordered
<1>5. \A w \in Workers : WorkerInv(w) /\ ~Claimed(w) /\ ~At(w, "click")
  BY DEF Init, WorkerInv, Claimed, At, Down
<1> QED BY <1>1, <1>2, <1>3, <1>4, <1>5 DEF IInv, OneClaim, OneClick

LEMMA NextStep ==
  ASSUME IInv, [Next]_vars
  PROVE  IInv' /\ Moves
<1>1. CASE Answer
  BY <1>1, AnswerStep
<1>2. CASE InboundHook
  BY <1>2, InboundHookStep
<1>3. CASE Reconcile
  BY <1>3, ReconcileStep
<1>4. CASE Control
  BY <1>4, ControlStep
<1>5. ASSUME NEW w \in Workers, Work(w) \/ Die(w)
      PROVE  IInv' /\ Moves
  BY <1>5, ClaimStep, ReserveStep, FailEarlyStep, BoundaryStep, ClickStep, ConfirmStep,
     FailureStep, FinishStep, RecoverStep, RestOnlyStep DEF Work
<1>6. CASE UNCHANGED vars
  <2>1. UNCHANGED <<campaign, enrollment, lane, handed, delivery, current, row, attempt, sends,
                    stop, hook, worker, events>>
    BY <1>6 DEF vars, graph, outside
  <2>2. IInv'
    <3>1. TypeOK' /\ Ordered' /\ OneClaim' /\ OneClick'
      BY <2>1 DEF IInv, TypeOK, Ordered, OneClaim, OneClick, Claimed, At, Item, Lane
    <3>2. ASSUME NEW x \in Items PROVE Agree(x)' /\ RowInv(x)'
      BY <2>1 DEF IInv, Agree, Quiet, RowInv, ControlsActive, ControlsStopped, Claimed, At, Item, Lane
    <3>3. ASSUME NEW w \in Workers PROVE WorkerInv(w)'
      <4>1. WorkerInv(w)
        BY DEF IInv
      <4> QED BY <2>1, <4>1 DEF WorkerInv, Claimed, At, Item, Lane, Quiet, Steps
    <3> QED BY <3>1, <3>2, <3>3 DEF IInv
  <2>3. ASSUME NEW x \in Items PROVE Same(x) /\ RowsMove(x)
    <3>1. UNCHANGED <<attempt[x], sends[x], delivery[x], row[x], current[x]>>
          /\ (ControlsActive(x[1]) => ControlsActive(x[1])')
      BY <2>1 DEF ControlsActive
    <3> QED BY <3>1, PendingRow DEF Same, RowsMove
  <2> QED BY <2>2, <2>3 DEF Moves, Move
<1> QED BY <1>1, <1>2, <1>3, <1>4, <1>5, <1>6 DEF Next

\* No step of the reconciliation, a stop, the admin, a worker or its recovery takes the
\* tables out of the inductive invariant.
THEOREM Invariance == Spec => []IInv
<1>1. Init => IInv
  BY InitHolds
<1>2. IInv /\ [Next]_vars => IInv'
  BY NextStep
<1> QED BY <1>1, <1>2, PTL DEF Spec

\* The types of the tables and of the workers' places.
THEOREM TypeCorrect == Spec => []TypeOK
<1>1. IInv => TypeOK
  BY DEF IInv
<1> QED BY <1>1, Invariance, PTL

\* HeldHasNoWork for any number of workers, steps, deaths and interventions, and with
\* recoveries that take a row from a worker that still works on it.
THEOREM HeldHasNoWorkTheorem == Spec => []HeldHasNoWork
<1>1. IInv => HeldHasNoWork
  BY PendingRow DEF HeldHasNoWork
<1> QED BY <1>1, Invariance, PTL

\* Every step of every lane is an AtMostOnce attempt (Implements).
THEOREM Refinement == Spec => Implements
<1>1. Init => \A x \in Items : Promise(x)!Init
  BY DEF Init, Promise!Init, Phase
<1>2. IInv /\ [Next]_vars =>
        [\A x \in Items : Promise(x)!Next \/ UNCHANGED <<Phase(x), sends[x]>>]_vars
  BY NextStep, MovePromise DEF Moves, PromiseMove
<1> QED BY <1>1, <1>2, Invariance, PTL DEF Spec, Implements
==============================================================================
