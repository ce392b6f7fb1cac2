-------------------------- MODULE FollowUpLaneProofs --------------------------
(***************************************************************************)
(* The media boundary of the LinkedIn follow-ups, for any number of        *)
(* daemons, campaigns, steps and rows, with daemons that die or hang: the   *)
(* marker of the one unresolved submission keeps every other click of the  *)
(* sender to this person away, as long as no start resets a row that was   *)
(* marked after it had listed it; and what one daemon of the sender adds.   *)
(***************************************************************************)
EXTENDS FollowUpLane, FiniteSetTheorems, TLAPS

\* Every frozen copy has an attachment, so every step crosses the boundary.
AllMedia == MediaSteps = Steps

AtRow == PCs \ (Healing \union {"down", "idle"})
Media(x) == x[2] \in MediaSteps
Begun(d) == deal[d] # "invited"

\* A row whose marker has no Message yet.
Undecided(r) == row[r].marked /\ ~message[row[r].item]

\* A row that exists belongs to a Deal past its invitation; a marker is of a media
\* step, and until its Message is stored its row is not queued again.
RowInv ==
  \A r \in Rows :
    /\ row[r].status # "none" => row[r].item \in Items /\ Begun(row[r].item[1])
    /\ row[r].marked => row[r].status # "none" /\ Media(row[r].item)
    /\ Undecided(r) => row[r].status # "pending"

\* At most one submission of the person is undecided.
OneUndecided == \A r, q \in Rows : Undecided(r) /\ Undecided(q) => r = q

\* Deliveries exist only past the invitation.
DeliveryInv == \A x \in Items : delivery[x] # "none" => Begun(x[1])

\* What LinkedIn got of a media step is on record, or marked, and only once.
Accounted ==
  \A x \in Items : Media(x) =>
    /\ sends[x] <= 1
    /\ sends[x] > 0 => message[x] \/ \E r \in Rows : row[r].marked /\ row[r].item = x

\* At most one campaign's first step went out.
FirstOnce ==
  0 \in MediaSteps =>
    \A d, e \in Deals : sends[<<d, 0>>] > 0 /\ sends[<<e, 0>>] > 0 => d = e

\* A daemon at work holds a row; the one at the click holds the undecided one.
WorkerInv(w) ==
  /\ worker[w].pc \in AtRow => RowOf(w) \in Rows /\ row[RowOf(w)].status # "none"
  /\ At(w, "media") => Media(ItemOf(w))
  /\ At(w, "text") => ~Media(ItemOf(w))
  /\ At(w, "persist") /\ Media(ItemOf(w)) => sends[ItemOf(w)] > 0
  /\ At(w, "click") => /\ Undecided(RowOf(w))
                       /\ sends[ItemOf(w)] = 0
                       /\ StepOf(w) = 0 => \A d \in Deals : ~message[<<d, 0>>]
                       /\ ~drip
  /\ \A d \in worker[w].left : Begun(d)

OneClick == \A v, w \in Workers : At(v, "click") /\ At(w, "click") => v = w

\* The inductive invariant.
IInv ==
  /\ TypeOK
  /\ RowInv /\ OneUndecided /\ DeliveryInv
  /\ Accounted /\ FirstOnce
  /\ OneClick /\ \A w \in Workers : WorkerInv(w)

\* No row that a start is about to reset has crossed the boundary since it was read: the
\* hypothesis of what follows about daemons that hang (OrdinaryResets says when it holds).
ResetsOrdinary ==
  \A w \in Workers : \A r \in heal[w].reset : row[r].status = "running" => ~Undecided(r)

\* With one daemon, the row it works on is running, and it sends a text only before the
\* handoff.
RunningInv ==
  \A w \in Workers : /\ worker[w].pc \in AtRow => row[RowOf(w)].status = "running"
                     /\ At(w, "text") => ~drip

\* With one daemon: a step it may still withhold was never sent, and a text that was
\* sent is stored or its delivery says so.
Fresh == {"dedup", "prepare", "media", "text", "blocked", "withhold", "failed"}
WithheldInv ==
  /\ \A x \in Items : delivery[x] = "stopped" => sends[x] = 0
  /\ \A x \in Items : ~Media(x) /\ sends[x] > 0 => message[x] \/ delivery[x] \in {"sending", "sent"}
  /\ \A w \in Workers :
       /\ worker[w].pc \in Fresh => sends[ItemOf(w)] = 0
       /\ At(w, "click") => delivery[ItemOf(w)] # "stopped"
       /\ At(w, "text") => delivery[ItemOf(w)] = "sending"
       /\ At(w, "defer") => message[ItemOf(w)] \/ delivery[ItemOf(w)] # "sending"

------------------------------------------------------------------------------
(* What most steps have in common. *)

\* The table moves without touching the marker of an undecided submission: rows keep
\* their deliveries, and an undecided row is not queued again.
TableMoves ==
  \A r \in Rows :
    /\ row[r].status # "none" => row'[r].status # "none" /\ row'[r].item = row[r].item
    /\ row'[r].status # "none" => row'[r].item \in Items /\ deal'[row'[r].item[1]] # "invited"
    /\ row'[r].marked => row[r].marked
    /\ Undecided(r) => row'[r].marked /\ row'[r].status # "pending"

DealsMove == \A d \in Deals : Begun(d) => Begun(d)'

\* A daemon that is not about to click and has nothing to store.
Calm(v) ==
  /\ worker'[v].pc \notin {"click", "persist"}
  /\ worker'[v].pc \in AtRow => RowOf(v)' \in Rows /\ row'[RowOf(v)'].status # "none"
  /\ worker'[v].pc = "media" => Media(ItemOf(v)')
  /\ worker'[v].pc = "text" => ~Media(ItemOf(v)')
  /\ \A d \in worker'[v].left : Begun(d)'

WorkerType == worker' \in [Workers -> [pc : PCs, row : Rows \union {NoRow}, left : SUBSET Deals]]
HealType == heal' \in [Workers -> [todo : SUBSET Rows, reset : SUBSET Rows, uncertain : BOOLEAN]]
RowType == row' \in [Rows -> [status : RowStatus, item : Items \union {NoItem}, marked : BOOLEAN]]

\* A delivery is a Deal and a step.
LEMMA ItemParts ==
  ASSUME NEW x \in Items
  PROVE  x[1] \in Deals /\ x[2] \in Steps /\ x = <<x[1], x[2]>>
  BY DEF Items

\* Nothing LinkedIn did and nothing stored changes: the invariant is kept.
LEMMA TableKeeps ==
  ASSUME IInv, TypeOK', TableMoves, DealsMove, DeliveryInv', UNCHANGED <<message, sends>>,
         drip' => drip \/ ~Unresolved,
         \A v \in Workers : worker'[v] = worker[v] \/ Calm(v)
  PROVE  IInv'
<1>1. ASSUME NEW r \in Rows PROVE Undecided(r)' <=> Undecided(r)
  <2>1. row[r].marked => row[r].status # "none"
    BY DEF IInv, RowInv
  <2> QED BY <2>1 DEF TableMoves, Undecided
<1>2. RowInv'
  <2> SUFFICES ASSUME NEW r \in Rows
        PROVE  /\ row'[r].status # "none" => row'[r].item \in Items /\ deal'[row'[r].item[1]] # "invited"
               /\ row'[r].marked => row'[r].status # "none" /\ Media(row'[r].item)
               /\ Undecided(r)' => row'[r].status # "pending"
    BY DEF RowInv, Undecided, Media, Begun
  <2>1. row'[r].marked => row'[r].status # "none" /\ Media(row'[r].item)
    BY DEF TableMoves, IInv, RowInv
  <2> QED BY <1>1, <2>1 DEF TableMoves
<1>3. OneUndecided'
  BY <1>1 DEF IInv, OneUndecided
<1>4. Accounted'
  <2> SUFFICES ASSUME NEW x \in Items, Media(x), sends[x] > 0, ~message[x]
        PROVE  \E r \in Rows : row'[r].marked /\ row'[r].item = x
    BY DEF IInv, Accounted, Media
  <2>1. PICK r \in Rows : row[r].marked /\ row[r].item = x
    BY DEF IInv, Accounted
  <2>2. row'[r].marked /\ row'[r].item = x
    BY <2>1 DEF TableMoves, IInv, RowInv, Undecided
  <2> QED BY <2>2
<1>5. FirstOnce'
  BY DEF IInv, FirstOnce
<1>6. ASSUME NEW v \in Workers PROVE WorkerInv(v)'
  <2>1. CASE Calm(v)
    BY <2>1 DEF WorkerInv, Calm, At, Media
  <2>2. CASE worker'[v] = worker[v]
    <3>1. WorkerInv(v) /\ RowOf(v)' = RowOf(v)
      BY <2>2 DEF IInv, RowOf
    <3>2. CASE worker[v].pc \in AtRow
      <4>1. RowOf(v) \in Rows /\ row[RowOf(v)].status # "none"
        BY <3>1, <3>2 DEF WorkerInv
      <4>2. row'[RowOf(v)].status # "none" /\ ItemOf(v)' = ItemOf(v)
        BY <3>1, <4>1 DEF TableMoves, ItemOf
      <4>3. At(v, "click") => Undecided(RowOf(v))' /\ ~drip'
        BY <1>1, <3>1, <4>1 DEF WorkerInv, Unresolved, Evidence, Undecided
      <4>4. At(v, "click") =>
              /\ sends'[ItemOf(v)'] = 0
              /\ StepOf(v)' = 0 => \A d \in Deals : ~message'[<<d, 0>>]
        BY <3>1, <4>2 DEF WorkerInv, StepOf
      <4> QED BY <2>2, <3>1, <4>1, <4>2, <4>3, <4>4 DEF WorkerInv, At, DealsMove, Media, IInv, TypeOK
    <3>3. CASE worker[v].pc \notin AtRow
      BY <2>2, <3>1, <3>3 DEF WorkerInv, At, AtRow, PCs, Healing, DealsMove, IInv, TypeOK
    <3> QED BY <3>2, <3>3
  <2> QED BY <2>1, <2>2
<1>7. OneClick'
  BY DEF IInv, OneClick, Calm, At
<1> QED BY <1>2, <1>3, <1>4, <1>5, <1>6, <1>7 DEF IInv

\* The program counter of one daemon moves.
LEMMA Gone ==
  ASSUME TypeOK, NEW w \in Workers, NEW pc \in PCs, Goto(w, pc)
  PROVE  /\ WorkerType
         /\ worker'[w].pc = pc /\ worker'[w].row = worker[w].row
         /\ worker'[w].left = worker[w].left
         /\ \A v \in Workers \ {w} : worker'[v] = worker[v]
  BY DEF Goto, TypeOK, WorkerType

\* A daemon takes on another state, and no other does.
LEMMA SetWorker ==
  ASSUME TypeOK, NEW w \in Workers,
         NEW k \in [pc : PCs, row : Rows \union {NoRow}, left : SUBSET Deals],
         worker' = [worker EXCEPT ![w] = k]
  PROVE  /\ WorkerType /\ worker'[w] = k
         /\ \A v \in Workers \ {w} : worker'[v] = worker[v]
  BY DEF TypeOK, WorkerType

\* A daemon between two writes: its pc moves, and at most its delivery or its Deal.
LEMMA QuietKeeps ==
  ASSUME IInv, NEW w \in Workers, NEW pc \in PCs, Goto(w, pc), worker[w].pc \in AtRow,
         pc \notin {"click", "persist"},
         pc = "media" => Media(ItemOf(w)), pc = "text" => ~Media(ItemOf(w)),
         UNCHANGED <<row, bound, message, sends, outside, heal>>,
         \/ UNCHANGED delivery
         \/ \E s \in DeliveryStatus : delivery' = [delivery EXCEPT ![ItemOf(w)] = s],
         \/ UNCHANGED deal
         \/ \E s \in {"connected", "ended"} : deal' = [deal EXCEPT ![DealOf(w)] = s],
         count' \in [{"stops", "early", "fails"} -> Nat]
  PROVE  IInv'
<1>1. /\ WorkerType
      /\ worker'[w].pc = pc /\ worker'[w].row = worker[w].row
      /\ worker'[w].left = worker[w].left
      /\ \A v \in Workers \ {w} : worker'[v] = worker[v]
  BY Gone DEF IInv
<1>2. /\ RowOf(w) \in Rows /\ row[RowOf(w)].status # "none"
      /\ ItemOf(w) \in Items /\ Begun(DealOf(w)) /\ DealOf(w) \in Deals
  BY ItemParts DEF IInv, WorkerInv, RowInv, ItemOf, DealOf
<1>3. deal' \in [Deals -> {"invited", "connected", "ended"}] /\ DealsMove
  BY <1>2 DEF IInv, TypeOK, DealsMove, Begun
<1>4. delivery' \in [Items -> DeliveryStatus] /\ DeliveryInv'
  <2>1. \A x \in Items : delivery'[x] # "none" => delivery[x] # "none" \/ x = ItemOf(w)
    BY DEF IInv, TypeOK
  <2>2. \A x \in Items : delivery'[x] # "none" => Begun(x[1])
    BY <1>2, <2>1 DEF IInv, DeliveryInv, DealOf
  <2>3. DeliveryInv'
    BY <1>3, <2>2, ItemParts DEF DeliveryInv, DealsMove
  <2> QED BY <1>2, <2>3 DEF IInv, TypeOK
<1>5. TypeOK'
  BY <1>1, <1>3, <1>4 DEF IInv, TypeOK, WorkerType, outside
<1>6. TableMoves
  <2> SUFFICES ASSUME NEW r \in Rows
        PROVE  /\ row[r].status # "none" => row[r].item \in Items
                                           /\ deal'[row[r].item[1]] # "invited"
               /\ Undecided(r) => row[r].status # "pending"
    BY DEF TableMoves, Undecided
  <2> QED BY <1>3, ItemParts DEF DealsMove, IInv, RowInv, Begun
<1>7. RowOf(w)' = RowOf(w) /\ ItemOf(w)' = ItemOf(w)
  BY <1>1 DEF RowOf, ItemOf
<1>8. Calm(w)
  <2>1. \A d \in worker'[w].left : Begun(d)'
    BY <1>1, <1>3 DEF DealsMove, IInv, TypeOK, WorkerInv
  <2> QED BY <1>1, <1>2, <1>7, <2>1 DEF Calm, Media
<1> QED BY <1>1, <1>3, <1>4, <1>5, <1>6, <1>8, TableKeeps DEF outside

\* mark_delivery_status writes the daemon's delivery, or raises.
LEMMA Marks ==
  ASSUME NEW w, NEW status \in DeliveryStatus, NEW then, NEW x, Mark(x, status, w, then)
  PROVE  \/ Goto(w, "error") /\ UNCHANGED delivery
         \/ Goto(w, then) /\ delivery' = [delivery EXCEPT ![x] = status]
                          /\ delivery[x] \notin {"sent", "stopped"} \ {status}
  BY DEF Mark

\* _enqueue_task takes a pending row of the delivery or a new one: no undecided marker.
LEMMA Enqueues ==
  ASSUME IInv, NEW x \in Items, Enqueue(x), UNCHANGED message, DealsMove, Begun(x[1])'
  PROVE  /\ RowType /\ TableMoves
         /\ delivery' \in [Items -> DeliveryStatus] /\ DeliveryInv'
         /\ bound' \in [Items -> Rows \union {NoRow}]
<1>1. PICK r \in Rows :
        /\ row[r].status = "none" \/ (row[r].status = "pending" /\ row[r].item = x)
        /\ row' = [row EXCEPT ![r] = [status |-> "pending", item |-> x, marked |-> FALSE]]
        /\ delivery' = [delivery EXCEPT ![x] = BoundStatus(x)]
        /\ bound' = [bound EXCEPT ![x] = r]
  <2>1. PICK r \in IF Open(x) # {} THEN Open(x) ELSE Free :
          /\ row' = [row EXCEPT ![r] = [status |-> "pending", item |-> x, marked |-> FALSE]]
          /\ delivery' = [delivery EXCEPT ![x] = BoundStatus(x)]
          /\ bound' = [bound EXCEPT ![x] = r]
    BY DEF Enqueue
  <2>2. r \in Open(x) \union Free
    OBVIOUS
  <2>3. r \in Rows /\ (row[r].status = "none" \/ (row[r].status = "pending" /\ row[r].item = x))
    <3>1. CASE r \in Open(x)
      BY <3>1 DEF Open
    <3>2. CASE r \in Free
      BY <3>2 DEF Free
    <3> QED BY <2>2, <3>1, <3>2
  <2> QED BY <2>1, <2>3
<1>2. RowType
  BY <1>1 DEF RowType, IInv, TypeOK, RowStatus
<1>3. ASSUME NEW q \in Rows
      PROVE  row'[q] = IF q = r THEN [status |-> "pending", item |-> x, marked |-> FALSE]
                       ELSE row[q]
  BY <1>1 DEF IInv, TypeOK
<1>4. ~Undecided(r)
  BY <1>1 DEF IInv, RowInv, Undecided
<1>5. TableMoves
  <2> SUFFICES ASSUME NEW q \in Rows
        PROVE  /\ row[q].status # "none" => row'[q].status # "none" /\ row'[q].item = row[q].item
               /\ row'[q].status # "none" => row'[q].item \in Items /\ deal'[row'[q].item[1]] # "invited"
               /\ row'[q].marked => row[q].marked
               /\ Undecided(q) => row'[q].marked /\ row'[q].status # "pending"
    BY DEF TableMoves
  <2>1. CASE q = r
    BY <1>1, <1>3, <1>4, <2>1 DEF Begun
  <2>2. CASE q # r
    <3>1. row'[q] = row[q]
      BY <1>3, <2>2
    <3>2. row[q].status # "none" => row[q].item \in Items /\ deal'[row[q].item[1]] # "invited"
      BY ItemParts DEF IInv, RowInv, DealsMove, Begun
    <3> QED BY <3>1, <3>2 DEF IInv, RowInv, Undecided
  <2> QED BY <2>1, <2>2
<1>6. delivery' \in [Items -> DeliveryStatus]
  BY <1>1 DEF IInv, TypeOK, BoundStatus, DeliveryStatus
<1>7. DeliveryInv'
  <2>1. \A y \in Items : delivery'[y] # "none" => delivery[y] # "none" \/ y = x
    BY <1>1 DEF IInv, TypeOK
  <2> QED BY <2>1, ItemParts DEF DeliveryInv, IInv, DealsMove
<1>8. bound' \in [Items -> Rows \union {NoRow}]
  BY <1>1 DEF IInv, TypeOK
<1> QED BY <1>2, <1>5, <1>6, <1>7, <1>8
\* A daemon past its claim works on a row of a Deal past its invitation.
LEMMA HoldsRow ==
  ASSUME IInv, NEW w \in Workers, worker[w].pc \in AtRow
  PROVE  /\ RowOf(w) \in Rows /\ row[RowOf(w)].status # "none"
         /\ ItemOf(w) \in Items /\ DealOf(w) \in Deals /\ StepOf(w) \in Steps
         /\ Begun(DealOf(w)) /\ ItemOf(w) = <<DealOf(w), StepOf(w)>>
<1>1. RowOf(w) \in Rows /\ row[RowOf(w)].status # "none"
  BY DEF IInv, WorkerInv
<1>2. ItemOf(w) \in Items /\ Begun(DealOf(w))
  BY <1>1 DEF IInv, RowInv, ItemOf, DealOf
<1> QED BY <1>1, <1>2, ItemParts DEF DealOf, StepOf

\* A daemon queues a step and goes on with its own row.
LEMMA EnqueueKeeps ==
  ASSUME IInv, NEW w \in Workers, NEW pc \in {"keep", "finish"}, worker[w].pc \in AtRow,
         NEW x \in Items, Begun(x[1]), Enqueue(x), Goto(w, pc),
         UNCHANGED <<message, deal, sends, outside, heal, count>>
  PROVE  IInv'
<1>1. DealsMove /\ Begun(x[1])'
  BY DEF DealsMove, Begun
<1>2. /\ RowType /\ TableMoves
      /\ delivery' \in [Items -> DeliveryStatus] /\ DeliveryInv'
      /\ bound' \in [Items -> Rows \union {NoRow}]
  BY <1>1, Enqueues
<1>3. /\ WorkerType
      /\ worker'[w].pc = pc /\ worker'[w].row = worker[w].row
      /\ worker'[w].left = worker[w].left
      /\ \A v \in Workers \ {w} : worker'[v] = worker[v]
  BY Gone DEF IInv, PCs
<1>4. TypeOK'
  BY <1>2, <1>3 DEF IInv, TypeOK, WorkerType, RowType, outside
<1>5. Calm(w)
  <2>1. RowOf(w)' = RowOf(w) /\ RowOf(w) \in Rows /\ row'[RowOf(w)].status # "none"
    BY <1>2, <1>3, HoldsRow DEF TableMoves, RowOf
  <2>2. \A d \in worker'[w].left : Begun(d)'
    BY <1>1, <1>3 DEF DealsMove, IInv, TypeOK, WorkerInv
  <2> QED BY <1>3, <2>1, <2>2 DEF Calm
<1> QED BY <1>1, <1>2, <1>3, <1>4, <1>5, TableKeeps DEF outside

------------------------------------------------------------------------------
(* Spec => []TypeOK.  A row that exists has a delivery, and a daemon past its claim has *)
(* a row that exists.                                                                  *)

TypeInv ==
  /\ TypeOK
  /\ \A r \in Rows : row[r].status # "none" => row[r].item \in Items
  /\ \A w \in Workers :
       worker[w].pc \in AtRow => RowOf(w) \in Rows /\ row[RowOf(w)].status # "none"

\* Rows stay, with their deliveries.
RowsStand ==
  \A r \in Rows :
    /\ row[r].status # "none" => row'[r].status # "none" /\ row'[r].item = row[r].item
    /\ row'[r].status # "none" => row'[r].item \in Items

\* No row gets a marker.
Unmarked == \A r \in Rows : row'[r].marked => row[r].marked

\* A daemon past its claim keeps its row, or holds one that exists.
Holds(v) ==
  worker'[v].pc \in AtRow =>
    \/ worker[v].pc \in AtRow /\ worker'[v].row = worker[v].row
    \/ worker'[v].row \in Rows /\ row'[worker'[v].row].status # "none"

LEMMA TypeFrame ==
  ASSUME TypeInv, TypeOK', RowsStand, \A v \in Workers : Holds(v)
  PROVE  TypeInv'
<1>1. ASSUME NEW v \in Workers, worker'[v].pc \in AtRow
      PROVE  RowOf(v)' \in Rows /\ row'[RowOf(v)'].status # "none"
  BY <1>1 DEF TypeInv, RowsStand, Holds, RowOf
<1> QED BY <1>1 DEF TypeInv, RowsStand, RowOf

LEMMA HoldsTyped ==
  ASSUME TypeInv, NEW w \in Workers, worker[w].pc \in AtRow
  PROVE  /\ RowOf(w) \in Rows /\ row[RowOf(w)].status # "none"
         /\ ItemOf(w) \in Items /\ DealOf(w) \in Deals /\ StepOf(w) \in Steps
  BY ItemParts DEF TypeInv, ItemOf, DealOf, StepOf

LEMMA EnqueueTypes ==
  ASSUME TypeInv, NEW x \in Items, Enqueue(x)
  PROVE  /\ RowType /\ RowsStand /\ Unmarked
         /\ delivery' \in [Items -> DeliveryStatus]
         /\ bound' \in [Items -> Rows \union {NoRow}]
<1>1. PICK r \in Open(x) \union Free :
        /\ row' = [row EXCEPT ![r] = [status |-> "pending", item |-> x, marked |-> FALSE]]
        /\ delivery' = [delivery EXCEPT ![x] = BoundStatus(x)]
        /\ bound' = [bound EXCEPT ![x] = r]
  BY DEF Enqueue
<1>2. r \in Rows /\ (row[r].status = "none" \/ row[r].item = x)
  BY <1>1 DEF Open, Free
<1>3. RowType
  BY <1>1 DEF RowType, TypeInv, TypeOK, RowStatus
<1>4. \A q \in Rows : row'[q] = IF q = r THEN [status |-> "pending", item |-> x, marked |-> FALSE]
                                ELSE row[q]
  BY <1>1 DEF TypeInv, TypeOK
<1>5. RowsStand /\ Unmarked
  BY <1>2, <1>4 DEF RowsStand, Unmarked, TypeInv
<1>6. delivery' \in [Items -> DeliveryStatus] /\ bound' \in [Items -> Rows \union {NoRow}]
  BY <1>1, <1>2 DEF TypeInv, TypeOK, BoundStatus, DeliveryStatus
<1> QED BY <1>3, <1>5, <1>6

\* A step of a daemon that leaves the table alone.
LEMMA QuietTypes ==
  ASSUME TypeInv, NEW w \in Workers, NEW pc \in PCs, Goto(w, pc),
         worker[w].pc \in AtRow \/ pc \notin AtRow,
         UNCHANGED <<row, bound, outside>>, HealType,
         delivery' \in [Items -> DeliveryStatus], message' \in [Items -> BOOLEAN],
         sends' \in [Items -> Nat], deal' \in [Deals -> {"invited", "connected", "ended"}],
         count' \in [{"stops", "early", "fails"} -> Nat]
  PROVE  TypeInv'
<1>1. WorkerType /\ \A v \in Workers : Holds(v)
  BY Gone DEF TypeInv, Holds
<1>2. TypeOK'
  BY <1>1 DEF TypeInv, TypeOK, HealType, WorkerType, outside
<1>3. RowsStand
  BY DEF RowsStand, TypeInv
<1> QED BY <1>1, <1>2, <1>3, TypeFrame

LEMMA OutsideTypes ==
  ASSUME TypeInv, UNCHANGED vars \/ Stop \/ Retire \/ Drip \/ \E d \in Deals : Accept(d)
  PROVE  TypeInv'
<1>1. UNCHANGED <<message, sends, worker, heal, count>>
  BY DEF vars, tables, Stop, Retire, Drip, Accept
<1>2. /\ RowType /\ RowsStand
      /\ delivery' \in [Items -> DeliveryStatus]
      /\ bound' \in [Items -> Rows \union {NoRow}]
  <2>1. CASE UNCHANGED <<row, delivery, bound>>
    BY <2>1 DEF RowType, RowsStand, TypeInv, TypeOK
  <2>2. ASSUME NEW d \in Deals, Enqueue(<<d, 0>>)
        PROVE  /\ RowType /\ RowsStand
               /\ delivery' \in [Items -> DeliveryStatus]
               /\ bound' \in [Items -> Rows \union {NoRow}]
    <3>1. <<d, 0>> \in Items
      BY FollowUpAssumption DEF FollowUpAssumption, Items, Steps
    <3> QED BY <2>2, <3>1, EnqueueTypes
  <2>3. CASE Retire
    <3>1. UNCHANGED <<delivery, bound>>
      BY <2>3 DEF Retire
    <3>2. \A r \in Rows : /\ row[r] \in [status : RowStatus, item : Items \union {NoItem}, marked : BOOLEAN]
                          /\ row'[r] = IF row[r].status = "pending"
                                       THEN [row[r] EXCEPT !.status = "completed"] ELSE row[r]
      BY <2>3 DEF Retire, TypeInv, TypeOK
    <3>3. RowType
      BY <2>3, <3>2 DEF Retire, RowType, RowStatus
    <3>4. \A r \in Rows : /\ row'[r].item = row[r].item
                          /\ row'[r].status = "none" <=> row[r].status = "none"
      BY <3>2
    <3> QED BY <3>1, <3>3, <3>4 DEF RowsStand, TypeInv, TypeOK
  <2> QED BY <2>1, <2>2, <2>3 DEF vars, tables, Stop, Drip, Accept
<1>3. /\ deal' \in [Deals -> {"invited", "connected", "ended"}]
      /\ {stop', drip', retiring'} \subseteq BOOLEAN
  <2>1. deal \in [Deals -> {"invited", "connected", "ended"}] /\ {stop, drip, retiring} \subseteq BOOLEAN
    BY DEF TypeInv, TypeOK
  <2>2. CASE \E d \in Deals : Accept(d)
    BY <2>1, <2>2 DEF Accept, outside
  <2>3. CASE Stop
    BY <2>1, <2>3 DEF Stop, tables
  <2>4. CASE Retire
    BY <2>1, <2>4 DEF Retire
  <2>5. CASE Drip
    BY <2>1, <2>5 DEF Drip, tables
  <2>6. CASE UNCHANGED vars
    BY <2>1, <2>6 DEF vars, tables, outside
  <2> QED BY <2>2, <2>3, <2>4, <2>5, <2>6
<1>4. TypeOK'
  BY <1>1, <1>2, <1>3 DEF TypeInv, TypeOK, RowType
<1> QED BY <1>1, <1>2, <1>4, TypeFrame DEF Holds

\* A start reads, recovers rows, resets rows and queues first steps.
LEMMA StartTypes ==
  ASSUME TypeInv, NEW w \in Workers,
         \/ Start(w) \/ ListFailed(w) \/ RecoverRow(w) \/ ResetOrdinary(w) \/ Survey(w)
         \/ CatchUp(w) \/ Healed(w)
  PROVE  TypeInv'
<1>1. UNCHANGED <<message, deal, sends, outside, count>>
  BY DEF Start, ListFailed, RecoverRow, ResetOrdinary, Survey, CatchUp, Healed, tables
<1>2. HealType
  <2>0. heal \in [Workers -> [todo : SUBSET Rows, reset : SUBSET Rows, uncertain : BOOLEAN]]
    BY DEF TypeInv, TypeOK
  <2>1. CASE Start(w)
    <3>1. PICK old \in SUBSET Rows :
            heal' = [heal EXCEPT ![w].todo = {r \in old : row[r].marked},
                                 ![w].reset = {r \in old : ~row[r].marked}]
      BY <2>1 DEF Start, Stale
    <3> QED BY <2>0, <3>1 DEF HealType
  <2>2. CASE ListFailed(w)
    BY <2>0, <2>2 DEF ListFailed, HealType
  <2>3. CASE RecoverRow(w)
    <3>1. PICK r \in heal[w].todo : heal' = [heal EXCEPT ![w].todo = @ \ {r}]
      BY <2>3 DEF RecoverRow
    <3> QED BY <2>0, <3>1 DEF HealType
  <2>4. CASE ResetOrdinary(w)
    BY <2>0, <2>4 DEF ResetOrdinary, HealType
  <2>5. CASE Survey(w)
    BY <2>0, <2>5 DEF Survey, Unresolved, HealType
  <2>6. CASE CatchUp(w)
    BY <2>0, <2>6 DEF CatchUp, HealType
  <2>7. CASE Healed(w)
    BY <2>0, <2>7 DEF Healed, HealType
  <2> QED BY <2>1, <2>2, <2>3, <2>4, <2>5, <2>6, <2>7
<1>3. /\ WorkerType /\ worker'[w].pc \notin AtRow
      /\ \A v \in Workers \ {w} : worker'[v] = worker[v]
  <2>1. \A pc \in Healing \union {"idle"} : pc \in PCs \ AtRow
    BY DEF PCs, AtRow, Healing
  <2>2. CASE \E pc \in Healing \union {"idle"} : Goto(w, pc)
    BY <2>1, <2>2, Gone DEF TypeInv
  <2>3. CASE RecoverRow(w)
    BY <2>1, <2>3 DEF RecoverRow, At, Healing, WorkerType, TypeInv, TypeOK
  <2>4. CASE Survey(w)
    <3>1. worker' = [worker EXCEPT ![w].pc = "heal",
                                  ![w].left = {d \in Deals : deal[d] = "connected"}]
      BY <2>4 DEF Survey
    <3> DEFINE open == {d \in Deals : deal[d] = "connected"}
    <3>2. open \in SUBSET Deals /\ "heal" \in PCs \ AtRow
      BY <2>1 DEF Healing
    <3>3. worker \in [Workers -> [pc : PCs, row : Rows \union {NoRow}, left : SUBSET Deals]]
      BY DEF TypeInv, TypeOK
    <3>4. worker' = [worker EXCEPT ![w].pc = "heal", ![w].left = open]
      BY <3>1
    <3> HIDE DEF open
    <3> QED BY <3>2, <3>3, <3>4 DEF WorkerType
  <2>5. CASE CatchUp(w)
    <3>1. worker[w].pc = "heal" /\ \E d : worker' = [worker EXCEPT ![w].left = @ \ {d}]
      BY <2>5 DEF CatchUp, At
    <3> QED BY <2>1, <3>1 DEF WorkerType, TypeInv, TypeOK, Healing
  <2> QED BY <2>2, <2>3, <2>4, <2>5 DEF Start, ListFailed, ResetOrdinary, Healed, Healing
<1>4. /\ RowType /\ RowsStand
      /\ delivery' \in [Items -> DeliveryStatus]
      /\ bound' \in [Items -> Rows \union {NoRow}]
  <2>1. CASE UNCHANGED <<row, delivery, bound>>
    BY <2>1 DEF RowType, RowsStand, TypeInv, TypeOK
  <2>2. ASSUME NEW d \in worker[w].left, Enqueue(<<d, 0>>)
        PROVE  /\ RowType /\ RowsStand
               /\ delivery' \in [Items -> DeliveryStatus]
               /\ bound' \in [Items -> Rows \union {NoRow}]
    <3>1. <<d, 0>> \in Items
      BY FollowUpAssumption DEF FollowUpAssumption, Items, Steps, TypeInv, TypeOK
    <3> QED BY <2>2, <3>1, EnqueueTypes
  <2>3. CASE RecoverRow(w) \/ ResetOrdinary(w)
    <3>1. \A r \in Rows : row[r] \in [status : RowStatus, item : Items \union {NoItem}, marked : BOOLEAN]
      BY DEF TypeInv, TypeOK
    <3>2. ASSUME NEW r \in Rows
          PROVE  \/ row'[r] = row[r]
                 \/ /\ row[r].status # "none"
                    /\ \E s \in {"pending", "failed"} : row'[r] = [row[r] EXCEPT !.status = s]
      <4>1. CASE RecoverRow(w)
        <5>1. PICK q \in heal[w].todo : row' = [row EXCEPT ![q].status = Recovered(q)]
          BY <4>1 DEF RecoverRow
        <5>2. Recovered(q) = row[q].status \/ (row[q].status # "none" /\ Recovered(q) \in {"pending", "failed"})
          BY DEF Recovered
        <5> HIDE DEF Recovered
        <5>3. row'[r] = IF r = q THEN [row[r] EXCEPT !.status = Recovered(q)] ELSE row[r]
          BY <5>1 DEF TypeInv, TypeOK
        <5> QED BY <3>1, <5>2, <5>3
      <4>2. CASE ResetOrdinary(w)
        BY <4>2 DEF ResetOrdinary
      <4> QED BY <2>3, <4>1, <4>2
    <3>3. ASSUME NEW r \in Rows
          PROVE  /\ row'[r].item = row[r].item
                 /\ row'[r].status = "none" <=> row[r].status = "none"
                 /\ row'[r] \in [status : RowStatus, item : Items \union {NoItem}, marked : BOOLEAN]
      <4>1. CASE row'[r] = row[r]
        BY <3>1, <4>1
      <4>2. ASSUME NEW s \in {"pending", "failed"}, row[r].status # "none",
                   row'[r] = [row[r] EXCEPT !.status = s]
            PROVE  /\ row'[r].item = row[r].item
                   /\ row'[r].status = "none" <=> row[r].status = "none"
                   /\ row'[r] \in [status : RowStatus, item : Items \union {NoItem}, marked : BOOLEAN]
        BY <3>1, <4>2 DEF RowStatus
      <4> QED BY <3>2, <4>1, <4>2
    <3>4. \E f : row' = [r \in Rows |-> f[r]]
      BY <2>3 DEF RecoverRow, ResetOrdinary, TypeInv, TypeOK
    <3>5. RowType
      BY <3>3, <3>4 DEF RowType
    <3> QED BY <2>3, <3>3, <3>5 DEF RowsStand, RecoverRow, ResetOrdinary, TypeInv, TypeOK
  <2> QED BY <2>1, <2>2, <2>3 DEF Start, ListFailed, Survey, CatchUp, Healed, tables
<1>5. TypeOK'
  BY <1>1, <1>2, <1>3, <1>4 DEF TypeInv, TypeOK, RowType, HealType, WorkerType, outside
<1> QED BY <1>3, <1>4, <1>5, TypeFrame DEF Holds

\* A daemon claims a row, lets go of it, or dies.
LEMMA HoldTypes ==
  ASSUME TypeInv, NEW w \in Workers, Claim(w) \/ Finish(w) \/ Fail(w) \/ Die(w)
  PROVE  TypeInv'
<1> DEFINE Row == [status : RowStatus, item : Items \union {NoItem}, marked : BOOLEAN]
           Daemon == [pc : PCs, row : Rows \union {NoRow}, left : SUBSET Deals]
<1>0. row \in [Rows -> Row] /\ worker \in [Workers -> Daemon]
  BY DEF TypeInv, TypeOK
<1>1. UNCHANGED <<delivery, bound, message, deal, sends, outside>>
  BY DEF Claim, Finish, Fail, Die, tables
<1>2. HealType /\ count' \in [{"stops", "early", "fails"} -> Nat]
  <2>1. CASE Claim(w)
    <3>1. heal \in [Workers -> [todo : SUBSET Rows, reset : SUBSET Rows, uncertain : BOOLEAN]]
      BY DEF TypeInv, TypeOK
    <3>2. PICK r : heal' = [v \in Workers |-> [heal[v] EXCEPT !.reset = @ \ {r}]]
      BY <2>1 DEF Claim
    <3>3. \A v \in Workers : [heal[v] EXCEPT !.reset = @ \ {r}] \in
                              [todo : SUBSET Rows, reset : SUBSET Rows, uncertain : BOOLEAN]
      BY <3>1
    <3>4. UNCHANGED count
      BY <2>1 DEF Claim
    <3> QED BY <3>2, <3>3, <3>4 DEF HealType, TypeInv, TypeOK
  <2>2. CASE Finish(w) \/ Fail(w)
    BY <2>2 DEF Finish, Fail, HealType, TypeInv, TypeOK
  <2>3. CASE Die(w)
    BY <2>3 DEF Die, Count, NothingRead, HealType, TypeInv, TypeOK
  <2> QED BY <2>1, <2>2, <2>3
<1>3. UNCHANGED row \/ \E r \in Rows, s \in RowStatus \ {"none"} :
                         row[r].status # "none" /\ row' = [row EXCEPT ![r].status = s]
  <2>1. CASE Claim(w)
    BY <2>1 DEF Claim, RowStatus
  <2>2. CASE Finish(w) \/ Fail(w)
    <3>1. RowOf(w) \in Rows /\ row[RowOf(w)].status # "none"
      BY <2>2, HoldsTyped DEF Finish, Fail, At, AtRow, PCs, Healing
    <3>2. \E s \in {"completed", "failed"} : row' = [row EXCEPT ![RowOf(w)].status = s]
      BY <2>2 DEF Finish, Fail
    <3> QED BY <3>1, <3>2 DEF RowStatus
  <2> QED BY <2>1, <2>2 DEF Die, tables
<1>4. RowType /\ RowsStand
  <2>1. CASE UNCHANGED row
    BY <2>1 DEF RowType, RowsStand, TypeInv, TypeOK
  <2>2. ASSUME NEW r \in Rows, NEW s \in RowStatus \ {"none"}, row[r].status # "none",
               row' = [row EXCEPT ![r].status = s]
        PROVE  RowType /\ RowsStand
    BY <1>0, <2>2 DEF RowType, RowsStand, TypeInv
  <2> QED BY <1>3, <2>1, <2>2
<1>5. /\ WorkerType /\ Holds(w)
      /\ \A v \in Workers \ {w} : worker'[v] = worker[v]
  <2>1. CASE Claim(w)
    <3>1. PICK r \in Rows : /\ row' = [row EXCEPT ![r].status = "running"]
                            /\ worker' = [worker EXCEPT ![w].pc = "check", ![w].row = r]
      BY <2>1 DEF Claim
    <3>2. "check" \in PCs
      BY DEF PCs
    <3>3. WorkerType /\ worker'[w].row = r /\ \A v \in Workers \ {w} : worker'[v] = worker[v]
      BY <1>0, <3>1, <3>2 DEF WorkerType
    <3>4. row'[r].status = "running"
      BY <1>0, <3>1
    <3> QED BY <3>3, <3>4 DEF Holds
  <2>2. CASE Finish(w) \/ Fail(w) \/ Die(w)
    <3>1. "idle" \in PCs /\ "down" \in PCs /\ "idle" \notin AtRow /\ "down" \notin AtRow
      BY DEF PCs, AtRow
    <3>2. /\ worker'[w] \in Daemon /\ worker'[w].pc \in {"idle", "down"}
          /\ worker' = [worker EXCEPT ![w] = worker'[w]]
      BY <1>0, <2>2, <3>1 DEF Finish, Fail, Die, Leave
    <3>3. WorkerType /\ \A v \in Workers \ {w} : worker'[v] = worker[v]
      BY <1>0, <3>2 DEF WorkerType
    <3> QED BY <3>1, <3>2, <3>3 DEF Holds
  <2> QED BY <2>1, <2>2
<1>6. TypeOK'
  BY <1>1, <1>2, <1>4, <1>5 DEF TypeInv, TypeOK, RowType, HealType, WorkerType, outside
<1>7. \A v \in Workers : Holds(v)
  BY <1>5 DEF Holds
<1> QED BY <1>4, <1>6, <1>7, TypeFrame

\* The handler's steps move its daemon's program counter.
LEMMA HandlerGoes ==
  ASSUME NEW w \in Workers,
         \/ Check(w) \/ Defer(w) \/ Dedup(w) \/ Repair(w) \/ Prepare(w) \/ Stamp(w)
         \/ PreSubmitFailure(w) \/ Click(w) \/ Blocked(w) \/ Withhold(w) \/ Text(w)
         \/ Persist(w) \/ Record(w) \/ Failed(w) \/ NextStep(w) \/ SetDeal(w)
  PROVE  \E pc \in PCs : Goto(w, pc)
<1>1. CASE Check(w)
  BY <1>1 DEF Check, Early, PCs
<1>2. CASE Defer(w) \/ NextStep(w)
  BY <1>2 DEF Defer, NextStep, EnqueueThen, PCs
<1>3. CASE Dedup(w) \/ Repair(w) \/ Prepare(w) \/ Withhold(w) \/ Record(w) \/ Failed(w)
  BY <1>3 DEF Dedup, Repair, Prepare, Withhold, Record, Failed, Mark, PCs
<1>4. CASE Stamp(w) \/ PreSubmitFailure(w)
  BY <1>4 DEF Stamp, PreSubmitFailure, GuardedTo, PCs
<1>5. CASE Click(w) \/ Blocked(w) \/ Text(w) \/ Persist(w) \/ SetDeal(w)
  BY <1>5 DEF Click, Blocked, Text, Persist, SetDeal, PCs
<1> QED BY <1>1, <1>2, <1>3, <1>4, <1>5

\* The handler.
LEMMA HandlerTypes ==
  ASSUME TypeInv, NEW w \in Workers,
         \/ Check(w) \/ Defer(w) \/ Dedup(w) \/ Repair(w) \/ Prepare(w) \/ Stamp(w)
         \/ PreSubmitFailure(w) \/ Click(w) \/ Blocked(w) \/ Withhold(w) \/ Text(w)
         \/ Persist(w) \/ Record(w) \/ Failed(w) \/ NextStep(w) \/ SetDeal(w)
  PROVE  TypeInv'
<1>1. worker[w].pc \in AtRow /\ UNCHANGED <<outside, heal>>
  <2>1. UNCHANGED <<outside, heal>>
    BY DEF Check, Defer, Dedup, Repair, Prepare, Stamp, PreSubmitFailure, Click, Blocked, Withhold,
           Text, Persist, Record, Failed, NextStep, SetDeal
  <2>2. worker[w].pc \in AtRow
    BY DEF Check, Defer, Dedup, Repair, Prepare, Stamp, PreSubmitFailure, Click, Blocked, Withhold,
           Text, Persist, Record, Failed, NextStep, SetDeal, At, AtRow, PCs, Healing
  <2> QED BY <2>1, <2>2
<1>2. /\ RowOf(w) \in Rows /\ row[RowOf(w)].status # "none"
      /\ ItemOf(w) \in Items /\ DealOf(w) \in Deals /\ StepOf(w) \in Steps
  BY <1>1, HoldsTyped
<1>3. PICK pc \in PCs : Goto(w, pc)
  BY HandlerGoes
<1>4. WorkerType /\ \A v \in Workers : Holds(v)
  BY <1>1, <1>3, Gone DEF TypeInv, Holds
<1>5. /\ RowType /\ RowsStand
      /\ delivery' \in [Items -> DeliveryStatus]
      /\ bound' \in [Items -> Rows \union {NoRow}]
  <2>1. CASE /\ UNCHANGED <<row, bound>>
             /\ UNCHANGED delivery \/ \E s \in DeliveryStatus : delivery' = [delivery EXCEPT ![ItemOf(w)] = s]
    <3>1. RowType /\ RowsStand
      BY <2>1 DEF RowType, RowsStand, TypeInv, TypeOK
    <3>2. bound' \in [Items -> Rows \union {NoRow}]
      BY <2>1 DEF TypeInv, TypeOK
    <3>3. delivery' \in [Items -> DeliveryStatus]
      BY <1>2, <2>1 DEF TypeInv, TypeOK
    <3> QED BY <3>1, <3>2, <3>3
  <2>2. CASE \E x \in Items : Enqueue(x)
    BY <2>2, EnqueueTypes
  <2>3. CASE UNCHANGED <<delivery, bound>> /\ row' = [row EXCEPT ![RowOf(w)].marked = TRUE]
    <3>1. RowType
      <4> DEFINE Row == [status : RowStatus, item : Items \union {NoItem}, marked : BOOLEAN]
                 own == [row[RowOf(w)] EXCEPT !.marked = TRUE]
      <4>1. row \in [Rows -> Row]
        BY DEF TypeInv, TypeOK
      <4>2. own \in Row /\ row' = [row EXCEPT ![RowOf(w)] = own]
        BY <1>2, <2>3, <4>1
      <4> HIDE DEF Row, own
      <4>3. row' \in [Rows -> Row]
        BY <1>2, <4>1, <4>2
      <4> QED BY <4>3 DEF RowType, Row
    <3>2. \A r \in Rows : row'[r].status = row[r].status /\ row'[r].item = row[r].item
      BY <1>2, <2>3 DEF TypeInv, TypeOK
    <3> QED BY <2>3, <3>1, <3>2 DEF RowsStand, TypeInv, TypeOK
  <2>4. CASE Defer(w)
    BY <1>2, <2>1, <2>2, <2>4 DEF Defer, EnqueueThen
  <2>5. CASE NextStep(w)
    <3>1. StepOf(w) # LastStep => <<DealOf(w), StepOf(w) + 1>> \in Items
      BY <1>2, FollowUpAssumption DEF FollowUpAssumption, Items, Steps
    <3> QED BY <2>1, <2>2, <2>5, <3>1 DEF NextStep, EnqueueThen
  <2>6. CASE Dedup(w) \/ Repair(w) \/ Prepare(w) \/ Withhold(w) \/ Record(w) \/ Failed(w)
    <3>1. \A s \in {"stopped", "sent", "sending", "failed"} : s \in DeliveryStatus
      BY DEF DeliveryStatus
    <3> QED BY <2>1, <2>6, <3>1 DEF Dedup, Repair, Prepare, Withhold, Record, Failed, Mark
  <2>7. CASE Stamp(w)
    BY <2>1, <2>3, <2>7 DEF Stamp
  <2> QED BY <2>1, <2>4, <2>5, <2>6, <2>7 DEF Check, PreSubmitFailure, Click, Blocked, Text, Persist,
                                          SetDeal, tables
<1>6. message' \in [Items -> BOOLEAN] /\ sends' \in [Items -> Nat]
  <2>1. message \in [Items -> BOOLEAN] /\ sends \in [Items -> Nat] /\ sends[ItemOf(w)] \in Nat
    BY <1>2 DEF TypeInv, TypeOK
  <2>2. CASE Click(w)
    <3>1. UNCHANGED message /\ (UNCHANGED sends \/ sends' = [sends EXCEPT ![ItemOf(w)] = @ + 1])
      BY <2>2 DEF Click, tables
    <3> QED BY <2>1, <3>1
  <2>3. CASE Text(w)
    <3>1. PICK silent \in 0..(IF Deaf THEN Routes ELSE 0), worked \in BOOLEAN :
            sends' = [sends EXCEPT ![ItemOf(w)] = @ + silent + (IF worked THEN 1 ELSE 0)]
      BY <2>3 DEF Text
    <3>2. silent \in Nat
      BY DEF Routes
    <3>3. sends[ItemOf(w)] + silent + (IF worked THEN 1 ELSE 0) \in Nat
      BY <2>1, <3>2
    <3>4. sends' \in [Items -> Nat]
      BY <2>1, <3>1, <3>3
    <3> QED BY <2>1, <2>3, <3>4 DEF Text, tables
  <2>4. CASE Persist(w)
    BY <2>1, <2>4 DEF Persist
  <2> QED BY <2>1, <2>2, <2>3, <2>4 DEF Check, Defer, Dedup, Repair, Prepare, Stamp,
         PreSubmitFailure, Blocked, Withhold, Record, Failed, NextStep, SetDeal, tables
<1>7. deal' \in [Deals -> {"invited", "connected", "ended"}]
  <2>1. UNCHANGED deal \/ \E s \in {"connected", "ended"} : deal' = [deal EXCEPT ![DealOf(w)] = s]
    BY DEF Check, Defer, Dedup, Repair, Prepare, Stamp, PreSubmitFailure, Click, Blocked, Withhold,
           Text, Persist, Record, Failed, NextStep, SetDeal, tables
  <2> QED BY <1>2, <2>1 DEF TypeInv, TypeOK
<1>8. count' \in [{"stops", "early", "fails"} -> Nat]
  <2>1. UNCHANGED count \/ Count("early") \/ Count("fails")
    BY DEF Check, Early, Defer, Dedup, Repair, Prepare, Stamp, PreSubmitFailure, Click, Blocked,
           Withhold, Text, Persist, Record, Failed, NextStep, SetDeal, tables
  <2> QED BY <2>1 DEF Count, TypeInv, TypeOK
<1>9. TypeOK'
  BY <1>1, <1>4, <1>5, <1>6, <1>7, <1>8 DEF TypeInv, TypeOK, RowType, WorkerType, outside
<1> QED BY <1>4, <1>5, <1>9, TypeFrame

LEMMA StepTypes ==
  ASSUME TypeInv, [Next]_vars
  PROVE  TypeInv'
<1>1. ASSUME NEW w \in Workers, Work(w) PROVE TypeInv'
  BY <1>1, StartTypes, HoldTypes, HandlerTypes DEF Work
<1>2. ASSUME NEW w \in Workers, Die(w) PROVE TypeInv'
  BY <1>2, HoldTypes
<1> QED BY <1>1, <1>2, OutsideTypes DEF Next

LEMMA InitTypes ==
  ASSUME Init
  PROVE  TypeInv
<1>1. TypeOK
  BY FollowUpAssumption
  DEF FollowUpAssumption, Init, TypeOK, RowStatus, DeliveryStatus, PCs, NoRow, NoItem,
      NothingRead
<1> QED BY <1>1 DEF Init, TypeInv, AtRow

LEMMA Types == Spec => []TypeInv
BY InitTypes, StepTypes, PTL DEF Spec

\* Every state of the lane has its type.
THEOREM TypeCorrect == Spec => []TypeOK
<1>1. TypeInv => TypeOK
  BY DEF TypeInv
<1> QED BY <1>1, Types, PTL

------------------------------------------------------------------------------
(* When a start's reset finds ordinary rows only. *)

OneDaemon == \A v, w \in Workers : v = w

Reading == {"list", "recover"}

\* A row to be reset has no marker, and no daemon that could put one works on it: none
\* does at all unless daemons hang, and a daemon alone is at its start.
ResetInv ==
  \A w \in Workers : \A r \in heal[w].reset :
    /\ ~row[r].marked
    /\ Hung \/ \A v \in Workers : RowOf(v) # r
    /\ worker[w].pc \in Reading

\* A step that lists no row for a reset and puts no marker on a listed one.
LEMMA ResetFrame ==
  ASSUME ~Hung \/ OneDaemon, TypeInv, ResetInv,
         \A r \in Rows : row'[r].marked =>
           row[r].marked \/ \E w \in Workers : r = RowOf(w) /\ At(w, "media"),
         \A v \in Workers :
           /\ heal'[v].reset \subseteq heal[v].reset
           /\ RowOf(v)' \in {RowOf(v), NoRow}
           /\ worker[v].pc \in Reading /\ heal'[v].reset # {} => worker'[v].pc \in Reading
  PROVE  ResetInv'
<1> SUFFICES ASSUME NEW v \in Workers, NEW r \in heal'[v].reset
      PROVE  /\ ~row'[r].marked
             /\ Hung \/ \A u \in Workers : RowOf(u)' # r
             /\ worker'[v].pc \in Reading
  BY DEF ResetInv, RowOf
<1>1. r \in heal[v].reset /\ r \in Rows /\ r # NoRow
  BY DEF TypeInv, TypeOK, Rows, NoRow
<1>2. /\ ~row[r].marked /\ (Hung \/ \A u \in Workers : RowOf(u) # r)
      /\ worker[v].pc \in Reading
  BY <1>1 DEF ResetInv
<1>3. \A w \in Workers : ~(r = RowOf(w) /\ At(w, "media"))
  BY <1>2 DEF OneDaemon, At, Reading
<1> QED BY <1>1, <1>2, <1>3

\* What a start reads is stale: nobody works on it, unless daemons hang.
LEMMA StartResets ==
  ASSUME TypeInv, ResetInv, NEW w \in Workers, Start(w)
  PROVE  ResetInv'
<1>1. PICK old \in SUBSET Stale :
        heal' = [heal EXCEPT ![w].todo = {r \in old : row[r].marked},
                             ![w].reset = {r \in old : ~row[r].marked}]
  BY DEF Start
<1>2. /\ heal'[w].reset = {r \in old : ~row[r].marked}
      /\ \A v \in Workers \ {w} : heal'[v].reset = heal[v].reset
  BY <1>1 DEF TypeInv, TypeOK
<1>3. /\ UNCHANGED row /\ worker'[w].pc = "list"
      /\ \A v \in Workers : RowOf(v)' = RowOf(v)
      /\ \A v \in Workers \ {w} : worker'[v] = worker[v]
  BY Gone DEF Start, tables, TypeInv, PCs, Healing, RowOf
<1>4. \A r \in old : Hung \/ \A v \in Workers : RowOf(v) # r
  BY DEF Stale
<1> QED BY <1>2, <1>3, <1>4 DEF ResetInv, Reading

LEMMA ClaimResets ==
  ASSUME TypeInv, ResetInv, NEW w \in Workers, Claim(w)
  PROVE  ResetInv'
<1>1. PICK q \in Rows :
        /\ row' = [row EXCEPT ![q].status = "running"]
        /\ worker' = [worker EXCEPT ![w].pc = "check", ![w].row = q]
        /\ heal' = [v \in Workers |-> [heal[v] EXCEPT !.reset = @ \ {q}]]
  BY DEF Claim
<1>2. \A v \in Workers : heal'[v].reset = heal[v].reset \ {q} /\ heal[v].reset \subseteq Rows
  BY <1>1 DEF TypeInv, TypeOK
<1>3. \A r \in Rows : row'[r].marked = row[r].marked
  BY <1>1 DEF TypeInv, TypeOK
<1>4. /\ RowOf(w)' = q
      /\ \A v \in Workers \ {w} : worker'[v] = worker[v] /\ RowOf(v)' = RowOf(v)
  BY <1>1 DEF TypeInv, TypeOK, RowOf
<1>5. heal[w].reset = {}
  BY DEF Claim, At, Reading, ResetInv
<1> QED BY <1>2, <1>3, <1>4, <1>5 DEF ResetInv

\* The rest of a start only shortens its lists, and a daemon that dies forgets them.
LEMMA HealResets ==
  ASSUME ~Hung \/ OneDaemon, TypeInv, ResetInv, NEW w \in Workers,
         \/ ListFailed(w) \/ RecoverRow(w) \/ ResetOrdinary(w) \/ Survey(w) \/ CatchUp(w)
         \/ Healed(w) \/ Die(w)
  PROVE  ResetInv'
<1>1. Unmarked
  <2>1. CASE CatchUp(w)
    <3>1. \A d \in worker[w].left : <<d, 0>> \in Items
      BY FollowUpAssumption DEF FollowUpAssumption, Items, Steps, TypeInv, TypeOK
    <3> QED BY <2>1, <3>1, EnqueueTypes DEF CatchUp, Unmarked
  <2>2. CASE RecoverRow(w)
    <3>1. PICK q \in heal[w].todo : row' = [row EXCEPT ![q].status = Recovered(q)]
      BY <2>2 DEF RecoverRow
    <3> QED BY <3>1 DEF Unmarked, TypeInv, TypeOK
  <2>3. CASE ResetOrdinary(w)
    <3>1. \A r \in Rows :
            /\ row[r] \in [status : RowStatus, item : Items \union {NoItem}, marked : BOOLEAN]
            /\ row'[r] = row[r] \/ row'[r] = [row[r] EXCEPT !.status = "pending"]
      BY <2>3 DEF ResetOrdinary, TypeInv, TypeOK
    <3> QED BY <3>1 DEF Unmarked
  <2> QED BY <2>1, <2>2, <2>3 DEF Unmarked, ListFailed, Survey, Healed, Die, tables
<1>2. /\ \A v \in Workers : heal'[v].reset \subseteq heal[v].reset
      /\ ResetOrdinary(w) \/ Die(w) => heal'[w].reset = {}
  <2>1. heal \in [Workers -> [todo : SUBSET Rows, reset : SUBSET Rows, uncertain : BOOLEAN]]
    BY DEF TypeInv, TypeOK
  <2>2. CASE ResetOrdinary(w)
    BY <2>1, <2>2 DEF ResetOrdinary
  <2>3. CASE Die(w)
    BY <2>1, <2>3 DEF Die, NothingRead
  <2>4. CASE ~ResetOrdinary(w) /\ ~Die(w)
    <3>1. \A v \in Workers : heal'[v].reset = heal[v].reset
      BY <2>1, <2>4 DEF ListFailed, RecoverRow, Survey, CatchUp, Healed
    <3> QED BY <2>4, <3>1
  <2> QED BY <2>2, <2>3, <2>4
<1>3. Survey(w) \/ CatchUp(w) \/ Healed(w) => worker[w].pc \notin Reading
  BY DEF Survey, CatchUp, Healed, At, Reading
<1>4. ListFailed(w) => worker'[w].pc = "recover"
  BY Gone DEF ListFailed, TypeInv, PCs, Healing
<1>5. \A v \in Workers : /\ RowOf(v)' \in {RowOf(v), NoRow}
                         /\ v # w => worker'[v] = worker[v]
  <2>1. worker \in [Workers -> [pc : PCs, row : Rows \union {NoRow}, left : SUBSET Deals]]
    BY DEF TypeInv, TypeOK
  <2>2. UNCHANGED worker \/ \E pc : Goto(w, pc) \/ Die(w) \/ Survey(w) \/ CatchUp(w)
    BY DEF ListFailed, RecoverRow, ResetOrdinary, Healed
  <2>3. CASE \E pc : Goto(w, pc)
    BY <2>1, <2>3 DEF Goto, RowOf
  <2>4. CASE Die(w)
    BY <2>1, <2>4 DEF Die, RowOf
  <2>5. CASE Survey(w) \/ CatchUp(w)
    <3>1. \E S : worker' = [worker EXCEPT ![w].pc = "heal", ![w].left = S]
      <4>1. CASE Survey(w)
        BY <4>1 DEF Survey
      <4>2. CASE CatchUp(w)
        <5>1. PICK d : worker' = [worker EXCEPT ![w].left = @ \ {d}]
          BY <4>2 DEF CatchUp
        <5>2. worker' = [worker EXCEPT ![w].pc = "heal", ![w].left = worker[w].left \ {d}]
          <6>1. worker[w].pc = "heal"
            BY <4>2 DEF CatchUp, At
          <6>2. worker' = [worker EXCEPT ![w] = [worker[w] EXCEPT !.left = @ \ {d}]]
            BY <5>1
          <6>3. [worker[w] EXCEPT !.left = @ \ {d}]
                  = [worker[w] EXCEPT !.pc = "heal", !.left = worker[w].left \ {d}]
            BY <2>1, <6>1
          <6> QED BY <6>2, <6>3
        <5> QED BY <5>2
      <4> QED BY <2>5, <4>1, <4>2
    <3> QED BY <2>1, <3>1 DEF RowOf
  <2> QED BY <2>2, <2>3, <2>4, <2>5 DEF RowOf
<1>6. RecoverRow(w) => worker' = worker
  BY DEF RecoverRow
<1> QED BY <1>1, <1>2, <1>3, <1>4, <1>5, <1>6, ResetFrame DEF Unmarked, Reading

\* The handler marks the row it works on, before a click only.
LEMMA HandlerResets ==
  ASSUME ~Hung \/ OneDaemon, TypeInv, ResetInv, NEW w \in Workers,
         \/ Check(w) \/ Defer(w) \/ Dedup(w) \/ Repair(w) \/ Prepare(w) \/ Stamp(w)
         \/ PreSubmitFailure(w) \/ Click(w) \/ Blocked(w) \/ Withhold(w) \/ Text(w)
         \/ Persist(w) \/ Record(w) \/ Failed(w) \/ NextStep(w) \/ SetDeal(w)
         \/ Finish(w) \/ Fail(w)
  PROVE  ResetInv'
<1>1. /\ worker[w].pc \in AtRow /\ worker[w].pc \notin Reading /\ UNCHANGED heal
  BY DEF Check, Defer, Dedup, Repair, Prepare, Stamp, PreSubmitFailure, Click, Blocked, Withhold,
         Text, Persist, Record, Failed, NextStep, SetDeal, Finish, Fail, At, AtRow, PCs, Healing,
         Reading
<1>2. ItemOf(w) \in Items /\ RowOf(w) \in Rows
  BY <1>1, HoldsTyped
<1>3. Unmarked \/ (Stamp(w) /\ row' = [row EXCEPT ![RowOf(w)].marked = TRUE])
  <2>1. CASE Defer(w)
    BY <1>2, <2>1, EnqueueTypes DEF Defer, EnqueueThen, Unmarked
  <2>2. CASE NextStep(w)
    <3>1. StepOf(w) # LastStep => <<DealOf(w), StepOf(w) + 1>> \in Items
      BY <1>1, HoldsTyped, FollowUpAssumption DEF FollowUpAssumption, Items, Steps
    <3> QED BY <2>2, <3>1, EnqueueTypes DEF NextStep, EnqueueThen, Unmarked
  <2>3. CASE Finish(w) \/ Fail(w)
    BY <1>2, <2>3 DEF Finish, Fail, Unmarked, TypeInv, TypeOK
  <2>4. CASE Stamp(w)
    BY <2>4 DEF Stamp, Unmarked
  <2> QED BY <2>1, <2>2, <2>3, <2>4 DEF Check, Dedup, Repair, Prepare, PreSubmitFailure, Click,
         Blocked, Withhold, Text, Persist, Record, Failed, SetDeal, Unmarked, tables
<1>4. \A r \in Rows : row'[r].marked => row[r].marked \/ (r = RowOf(w) /\ At(w, "media"))
  BY <1>2, <1>3 DEF Unmarked, Stamp, TypeInv, TypeOK
<1>5. Leave(w) \/ \E pc \in PCs : Goto(w, pc)
  BY HandlerGoes DEF Finish, Fail
<1>6. \A v \in Workers : /\ RowOf(v)' \in {RowOf(v), NoRow}
                         /\ v # w => worker'[v] = worker[v]
  BY <1>5 DEF Leave, Goto, RowOf, TypeInv, TypeOK
<1> QED BY <1>1, <1>4, <1>6, ResetFrame

LEMMA StepResets ==
  ASSUME ~Hung \/ OneDaemon, TypeInv, ResetInv, [Next]_vars
  PROVE  ResetInv'
<1>1. CASE UNCHANGED vars \/ Stop \/ Retire \/ Drip \/ \E d \in Deals : Accept(d)
  <2>1. UNCHANGED <<worker, heal>>
    BY <1>1 DEF vars, Stop, Retire, Drip, Accept
  <2>2. Unmarked
    <3>1. CASE Retire
      <4>1. \A r \in Rows :
              /\ row[r] \in [status : RowStatus, item : Items \union {NoItem}, marked : BOOLEAN]
              /\ row'[r] = row[r] \/ row'[r] = [row[r] EXCEPT !.status = "completed"]
        BY <3>1 DEF Retire, TypeInv, TypeOK
      <4> QED BY <4>1 DEF Unmarked
    <3>2. CASE \E d \in Deals : Accept(d)
      <4>1. \A d \in Deals : <<d, 0>> \in Items
        BY FollowUpAssumption DEF FollowUpAssumption, Items, Steps
      <4> QED BY <3>2, <4>1, EnqueueTypes DEF Accept, Unmarked
    <3> QED BY <1>1, <3>1, <3>2 DEF vars, tables, Stop, Drip, Unmarked
  <2> QED BY <2>1, <2>2, ResetFrame DEF Unmarked, RowOf
<1>2. ASSUME NEW w \in Workers, Work(w) \/ Die(w) PROVE ResetInv'
  BY <1>2, StartResets, ClaimResets, HealResets, HandlerResets DEF Work
<1> QED BY <1>1, <1>2 DEF Next

\* heal_tasks: while a stale row is one nobody works on, or the sender has one daemon
\* (SingleInstanceGuard), no row is marked between the listing and the reset.
THEOREM OrdinaryResets == ~Hung \/ OneDaemon => (Spec => []ResetsOrdinary)
<1> SUFFICES ASSUME ~Hung \/ OneDaemon PROVE Spec => []ResetsOrdinary
  OBVIOUS
<1>1. Init => ResetInv
  BY DEF Init, ResetInv, NothingRead
<1>2. TypeInv /\ ResetInv /\ [Next]_vars => ResetInv'
  BY StepResets
<1>3. TypeInv /\ ResetInv => ResetsOrdinary
  BY DEF ResetInv, ResetsOrdinary, Undecided, TypeInv, TypeOK
<1> QED BY Types, <1>1, <1>2, <1>3, PTL DEF Spec

------------------------------------------------------------------------------
(* Outside, and a daemon's start. *)

LEMMA Typed ==
  ASSUME IInv
  PROVE  TypeInv
  BY DEF IInv, RowInv, WorkerInv, TypeInv

LEMMA AcceptKeeps ==
  ASSUME IInv, NEW d \in Deals, Accept(d)
  PROVE  IInv'
<1> USE FollowUpAssumption DEF FollowUpAssumption
<1>1. /\ deal' = [deal EXCEPT ![d] = "connected"]
      /\ UNCHANGED <<message, sends, outside, worker, heal, count>>
  BY DEF Accept
<1>2. deal' \in [Deals -> {"invited", "connected", "ended"}] /\ DealsMove /\ Begun(d)'
  BY <1>1 DEF IInv, TypeOK, DealsMove, Begun
<1>3. CASE Enqueue(<<d, 0>>)
  <2>1. <<d, 0>> \in Items /\ <<d, 0>>[1] = d
    BY DEF Items, Steps
  <2>2. /\ RowType /\ TableMoves
        /\ delivery' \in [Items -> DeliveryStatus] /\ DeliveryInv'
        /\ bound' \in [Items -> Rows \union {NoRow}]
    BY <1>1, <1>2, <1>3, <2>1, Enqueues
  <2>3. TypeOK'
    BY <1>1, <1>2, <2>2 DEF IInv, TypeOK, RowType, outside
  <2> QED BY <1>1, <1>2, <2>2, <2>3, TableKeeps DEF outside
<1>4. CASE UNCHANGED <<row, delivery, bound>>
  <2>1. TypeOK'
    BY <1>1, <1>2, <1>4 DEF IInv, TypeOK, outside
  <2>2. TableMoves /\ DeliveryInv'
    <3>1. \A x \in Items : delivery'[x] # "none" => deal'[x[1]] # "invited"
      BY <1>2, <1>4, ItemParts DEF DeliveryInv, IInv, DealsMove, Begun
    <3>2. \A r \in Rows : row[r].status # "none" => deal'[row[r].item[1]] # "invited"
      BY <1>2, <1>4, ItemParts DEF RowInv, IInv, DealsMove, Begun
    <3>3. TableMoves
      BY <1>4, <3>2 DEF TableMoves, Undecided, IInv, RowInv
    <3>4. DeliveryInv'
      BY <3>1 DEF DeliveryInv, Begun
    <3> QED BY <3>3, <3>4
  <2> QED BY <1>1, <1>2, <1>4, <2>1, <2>2, TableKeeps DEF outside
<1> QED BY <1>3, <1>4 DEF Accept

\* A reply retires pending rows only; a drip campaign waits for the undecided one.
LEMMA OutsideKeeps ==
  ASSUME IInv, Stop \/ Retire \/ Drip
  PROVE  IInv'
<1>1. UNCHANGED <<delivery, bound, message, deal, sends, worker, heal, count>>
  BY DEF Stop, Retire, Drip, tables
<1>2. drip' => drip \/ ~Unresolved
  BY DEF Stop, Retire, Drip, HandoffReady
<1>3. ASSUME NEW r \in Rows
      PROVE  /\ row'[r].item = row[r].item /\ row'[r].marked = row[r].marked
             /\ row'[r].status \in {row[r].status, "completed"}
             /\ row'[r].status = "none" <=> row[r].status = "none"
  <2>1. CASE Retire
    <3>1. row'[r] = IF row[r].status = "pending" THEN [row[r] EXCEPT !.status = "completed"]
                    ELSE row[r]
      BY <2>1 DEF Retire
    <3> QED BY <3>1 DEF IInv, TypeOK
  <2> QED BY <2>1 DEF Stop, Drip, tables
<1>4. TableMoves
  BY <1>1, <1>3 DEF TableMoves, Undecided, IInv, RowInv, Begun
<1>5. DealsMove /\ DeliveryInv'
  BY <1>1 DEF DealsMove, Begun, IInv, DeliveryInv
<1>6. TypeOK'
  BY Typed, OutsideTypes DEF TypeInv
<1> QED BY <1>1, <1>2, <1>4, <1>5, <1>6, TableKeeps

\* What heal_tasks reads leaves every record as it is.
LEMMA ReadKeeps ==
  ASSUME IInv, NEW w \in Workers, Start(w) \/ ListFailed(w) \/ Survey(w)
  PROVE  IInv'
<1>1. UNCHANGED <<row, delivery, bound, message, deal, sends, outside, count>>
  BY DEF Start, ListFailed, Survey, tables
<1>2. /\ worker'[w].pc \in Healing
      /\ \A d \in worker'[w].left : Begun(d)
      /\ \A v \in Workers \ {w} : worker'[v] = worker[v]
  <2>1. CASE Start(w) \/ ListFailed(w)
    <3>1. PICK pc \in {"list", "recover"} : Goto(w, pc)
      BY <2>1 DEF Start, ListFailed
    <3>2. worker'[w].pc = pc /\ worker'[w].left = worker[w].left
      BY <3>1, Gone DEF IInv, PCs, Healing
    <3> QED BY <3>1, <3>2, Gone DEF IInv, PCs, Healing, WorkerInv
  <2>2. CASE Survey(w)
    <3>1. worker' = [worker EXCEPT ![w].pc = "heal",
                                  ![w].left = {d \in Deals : deal[d] = "connected"}]
      BY <2>2 DEF Survey
    <3>2. /\ worker'[w].pc = "heal"
          /\ worker'[w].left = {d \in Deals : deal[d] = "connected"}
          /\ \A v \in Workers \ {w} : worker'[v] = worker[v]
      BY <3>1 DEF IInv, TypeOK
    <3> QED BY <3>2 DEF Begun, Healing
  <2> QED BY <2>1, <2>2
<1>3. Calm(w)
  BY <1>1, <1>2 DEF Calm, AtRow, Healing, Begun
<1>4. TableMoves /\ DealsMove /\ DeliveryInv'
  BY <1>1 DEF TableMoves, DealsMove, DeliveryInv, Undecided, Begun, IInv, RowInv
<1>5. TypeOK'
  BY Typed, StartTypes DEF TypeInv
<1> QED BY <1>1, <1>2, <1>3, <1>4, <1>5, TableKeeps DEF outside

\* heal_tasks: an undecided row that runs becomes failed; the reset queues no such row
\* as long as it finds ordinary rows only.
LEMMA RepairKeeps ==
  ASSUME IInv, ResetsOrdinary, NEW w \in Workers, RecoverRow(w) \/ ResetOrdinary(w)
  PROVE  IInv'
<1>1. UNCHANGED <<delivery, bound, message, deal, sends, outside, count>> /\ worker[w].pc = "recover"
  BY DEF RecoverRow, ResetOrdinary, At
<1>2. ASSUME NEW r \in Rows
      PROVE  /\ row'[r].item = row[r].item /\ row'[r].marked = row[r].marked
             /\ row'[r].status = "none" <=> row[r].status = "none"
             /\ Undecided(r) => row'[r].status # "pending"
  <2>0. /\ row[r] \in [status : RowStatus, item : Items \union {NoItem}, marked : BOOLEAN]
        /\ Undecided(r) => row[r].status # "pending"
    BY DEF IInv, TypeOK, RowInv
  <2>1. CASE RecoverRow(w)
    <3>1. PICK q \in heal[w].todo : row' = [row EXCEPT ![q].status = Recovered(q)]
      BY <2>1 DEF RecoverRow
    <3>2. /\ Recovered(q) = "none" <=> row[q].status = "none"
          /\ Undecided(q) /\ Recovered(q) = "pending" => row[q].status = "pending"
      BY DEF Recovered, Evidence, Undecided
    <3> HIDE DEF Recovered
    <3>3. row'[r] = IF r = q THEN [row[r] EXCEPT !.status = Recovered(q)] ELSE row[r]
      BY <3>1 DEF IInv, TypeOK
    <3> QED BY <2>0, <3>2, <3>3
  <2>2. CASE ResetOrdinary(w)
    <3>1. row'[r] = IF r \in heal[w].reset /\ row[r].status = "running"
                    THEN [row[r] EXCEPT !.status = "pending"] ELSE row[r]
      BY <2>2 DEF ResetOrdinary
    <3> QED BY <2>0, <3>1 DEF ResetsOrdinary
  <2> QED BY <2>1, <2>2
<1>3. TableMoves
  BY <1>1, <1>2 DEF TableMoves, Undecided, IInv, RowInv, Begun
<1>4. /\ worker'[w].pc \in Healing /\ worker'[w].left = worker[w].left
      /\ \A v \in Workers \ {w} : worker'[v] = worker[v]
  <2>1. CASE RecoverRow(w)
    BY <1>1, <2>1 DEF RecoverRow, Healing
  <2>2. CASE ResetOrdinary(w)
    BY <2>2, Gone DEF ResetOrdinary, PCs, Healing, IInv
  <2> QED BY <2>1, <2>2
<1>5. Calm(w)
  BY <1>1, <1>4 DEF Calm, AtRow, Healing, Begun, IInv, WorkerInv
<1>6. DealsMove /\ DeliveryInv'
  BY <1>1 DEF DealsMove, Begun, IInv, DeliveryInv
<1>7. TypeOK'
  BY Typed, StartTypes DEF TypeInv
<1> QED BY <1>1, <1>3, <1>4, <1>5, <1>6, <1>7, TableKeeps DEF outside

\* The catch-up queues first steps of CONNECTED Deals.
LEMMA CatchUpKeeps ==
  ASSUME IInv, NEW w \in Workers, CatchUp(w)
  PROVE  IInv'
<1> USE FollowUpAssumption DEF FollowUpAssumption
<1>1. PICK d \in worker[w].left :
        /\ worker' = [worker EXCEPT ![w].left = @ \ {d}]
        /\ Enqueue(<<d, 0>>) \/ UNCHANGED <<row, delivery, bound>>
  BY DEF CatchUp
<1>2. worker[w].pc = "heal" /\ UNCHANGED <<message, deal, sends, outside, heal, count>>
  BY DEF CatchUp, At
<1>3. d \in Deals /\ Begun(d) /\ <<d, 0>> \in Items /\ <<d, 0>>[1] = d
  BY DEF IInv, TypeOK, WorkerInv, Items, Steps
<1>4. DealsMove /\ Begun(d)'
  BY <1>2, <1>3 DEF DealsMove, Begun
<1>5. /\ TableMoves
      /\ delivery' \in [Items -> DeliveryStatus] /\ DeliveryInv'
      /\ bound' \in [Items -> Rows \union {NoRow}]
  <2>1. CASE Enqueue(<<d, 0>>)
    BY <1>2, <1>3, <1>4, <2>1, Enqueues
  <2>2. CASE UNCHANGED <<row, delivery, bound>>
    BY <1>2, <2>2 DEF TableMoves, DeliveryInv, Undecided, Begun, IInv, RowInv, TypeOK
  <2> QED BY <1>1, <2>1, <2>2
<1>6. /\ worker'[w].pc = "heal"
      /\ worker'[w].left \subseteq worker[w].left
      /\ \A v \in Workers \ {w} : worker'[v] = worker[v]
  <2>1. worker \in [Workers -> [pc : PCs, row : Rows \union {NoRow}, left : SUBSET Deals]]
    BY DEF IInv, TypeOK
  <2> QED BY <1>1, <1>2, <2>1
<1>7. Calm(w)
  BY <1>2, <1>6 DEF Calm, AtRow, Healing, Begun, IInv, WorkerInv
<1>8. TypeOK'
  BY Typed, StartTypes DEF TypeInv
<1> QED BY <1>2, <1>4, <1>5, <1>6, <1>7, <1>8, TableKeeps DEF outside

\* The start ends, a daemon dies: no row moves and no row is held.
LEMMA IdleKeeps ==
  ASSUME IInv, NEW w \in Workers, Healed(w) \/ Die(w)
  PROVE  IInv'
<1>1. UNCHANGED <<row, delivery, bound, message, deal, sends, outside>>
  BY DEF Healed, Die, tables
<1>2. /\ worker'[w].pc \in {"idle", "down"}
      /\ worker'[w].left \subseteq worker[w].left
      /\ \A v \in Workers \ {w} : worker'[v] = worker[v]
  <2>1. CASE Healed(w)
    BY <2>1, Gone DEF Healed, PCs, IInv
  <2>2. CASE Die(w)
    BY <2>2 DEF Die, IInv, TypeOK
  <2> QED BY <2>1, <2>2
<1>3. TableMoves /\ DealsMove /\ DeliveryInv'
  BY <1>1 DEF TableMoves, DealsMove, DeliveryInv, Undecided, Begun, IInv, RowInv
<1>4. Calm(w)
  BY <1>1, <1>2 DEF Calm, AtRow, Begun, IInv, WorkerInv
<1>5. TypeOK'
  BY Typed, StartTypes, HoldTypes DEF TypeInv
<1> QED BY <1>1, <1>2, <1>3, <1>4, <1>5, TableKeeps DEF outside

\* A claim takes a pending row, which has no undecided marker.
LEMMA ClaimKeeps ==
  ASSUME IInv, NEW w \in Workers, Claim(w)
  PROVE  IInv'
<1>1. PICK r \in Rows :
        /\ row[r].status = "pending"
        /\ row' = [row EXCEPT ![r].status = "running"]
        /\ worker' = [worker EXCEPT ![w].pc = "check", ![w].row = r]
  BY DEF Claim
<1>2. UNCHANGED <<delivery, bound, message, deal, sends, outside, count>>
  BY DEF Claim
<1>3. /\ worker'[w].pc = "check" /\ worker'[w].row = r
      /\ worker'[w].left = worker[w].left
      /\ \A v \in Workers \ {w} : worker'[v] = worker[v]
  BY <1>1 DEF IInv, TypeOK
<1>4. \A q \in Rows : /\ row'[q].item = row[q].item /\ row'[q].marked = row[q].marked
                      /\ row'[q].status = IF q = r THEN "running" ELSE row[q].status
  BY <1>1 DEF IInv, TypeOK
<1>5. TableMoves
  BY <1>1, <1>2, <1>4 DEF TableMoves, Undecided, IInv, RowInv, Begun
<1>6. DealsMove /\ DeliveryInv'
  BY <1>2 DEF DealsMove, Begun, IInv, DeliveryInv
<1>7. Calm(w)
  <2>1. RowOf(w)' = r /\ row'[r].status = "running"
    BY <1>3, <1>4 DEF RowOf
  <2>2. \A d \in worker'[w].left : Begun(d)'
    BY <1>2, <1>3 DEF Begun, IInv, WorkerInv
  <2> QED BY <1>3, <2>1, <2>2 DEF Calm
<1>8. TypeOK'
  BY Typed, HoldTypes DEF TypeInv
<1> QED BY <1>2, <1>3, <1>5, <1>6, <1>7, <1>8, TableKeeps DEF outside

\* The daemon completes or fails its row and lets go of it.
LEMMA CloseKeeps ==
  ASSUME IInv, NEW w \in Workers, Finish(w) \/ Fail(w)
  PROVE  IInv'
<1>1. PICK s \in {"completed", "failed"} : row' = [row EXCEPT ![RowOf(w)].status = s]
  BY DEF Finish, Fail
<1>2. worker[w].pc \in AtRow /\ UNCHANGED <<delivery, bound, message, deal, sends, outside, heal, count>>
  BY DEF Finish, Fail, At, AtRow, PCs, Healing
<1>3. /\ WorkerType /\ worker'[w].pc = "idle" /\ worker'[w].left = worker[w].left
      /\ \A v \in Workers \ {w} : worker'[v] = worker[v]
  <2> DEFINE next == [worker[w] EXCEPT !.pc = "idle", !.row = NoRow]
  <2>1. worker[w] \in [pc : PCs, row : Rows \union {NoRow}, left : SUBSET Deals]
    BY DEF IInv, TypeOK
  <2>2. "idle" \in PCs
    BY DEF PCs
  <2>3. /\ next \in [pc : PCs, row : Rows \union {NoRow}, left : SUBSET Deals]
        /\ next.pc = "idle" /\ next.left = worker[w].left
    BY <2>1, <2>2
  <2>4. worker' = [worker EXCEPT ![w] = next]
    BY DEF Finish, Fail, Leave
  <2> HIDE DEF next
  <2> QED BY <2>3, <2>4, SetWorker DEF IInv
<1>4. RowOf(w) \in Rows /\ row[RowOf(w)].status # "none"
  BY <1>2, HoldsRow
<1>5. RowType /\ \A q \in Rows : /\ row'[q].item = row[q].item /\ row'[q].marked = row[q].marked
                                 /\ row'[q].status = IF q = RowOf(w) THEN s ELSE row[q].status
  BY <1>1, <1>4 DEF RowType, IInv, TypeOK, RowStatus
<1>6. TableMoves
  BY <1>2, <1>4, <1>5 DEF TableMoves, Undecided, IInv, RowInv, Begun
<1>7. DealsMove /\ DeliveryInv'
  BY <1>2 DEF DealsMove, Begun, IInv, DeliveryInv
<1>8. Calm(w)
  BY <1>2, <1>3 DEF Calm, AtRow, Begun, IInv, WorkerInv
<1>9. TypeOK'
  BY <1>2, <1>3, <1>5 DEF IInv, TypeOK, RowType, WorkerType, outside
<1> QED BY <1>2, <1>3, <1>6, <1>7, <1>8, <1>9, TableKeeps DEF outside
------------------------------------------------------------------------------
(* The handler between the claim and the boundary, and after the send. *)

LEMMA CheckKeeps ==
  ASSUME IInv, NEW w \in Workers, Check(w)
  PROVE  IInv'
<1>1. worker[w].pc \in AtRow /\ UNCHANGED <<row, delivery, bound, message, sends, outside, heal>>
  BY DEF Check, At, AtRow, PCs, Healing
<1>2. /\ \E pc \in {"error", "finish", "repair", "dedup", "prepare", "defer"} : Goto(w, pc)
      /\ UNCHANGED deal \/ deal' = [deal EXCEPT ![DealOf(w)] = "ended"]
      /\ UNCHANGED count \/ Count("early")
  BY DEF Check, Early
<1>3. count' \in [{"stops", "early", "fails"} -> Nat]
  BY <1>2 DEF Count, IInv, TypeOK
<1>4. PICK pc \in {"error", "finish", "repair", "dedup", "prepare", "defer"} : Goto(w, pc)
  BY <1>2
<1>5. pc \in PCs /\ pc \notin {"click", "persist", "media", "text"}
  BY DEF PCs
<1> QED BY <1>1, <1>2, <1>3, <1>4, <1>5, QuietKeeps

\* mark_delivery_status alone.
LEMMA MarkKeeps ==
  ASSUME IInv, NEW w \in Workers, worker[w].pc \in AtRow,
         NEW status \in DeliveryStatus, NEW then \in PCs,
         then \notin {"click", "persist"},
         then = "media" => Media(ItemOf(w)), then = "text" => ~Media(ItemOf(w)),
         Mark(ItemOf(w), status, w, then),
         UNCHANGED <<row, bound, message, deal, sends, outside, heal, count>>
  PROVE  IInv'
<1>1. count' \in [{"stops", "early", "fails"} -> Nat]
  BY DEF IInv, TypeOK
<1>2. CASE Goto(w, "error") /\ UNCHANGED delivery
  <2>1. "error" \in PCs
    BY DEF PCs
  <2> QED BY <1>1, <1>2, <2>1, QuietKeeps
<1>3. CASE Goto(w, then) /\ delivery' = [delivery EXCEPT ![ItemOf(w)] = status]
  BY <1>1, <1>3, QuietKeeps
<1> QED BY <1>2, <1>3, Marks

LEMMA ReceiptKeeps ==
  ASSUME IInv, NEW w \in Workers,
         Dedup(w) \/ Repair(w) \/ Prepare(w) \/ Withhold(w) \/ Record(w) \/ Failed(w)
  PROVE  IInv'
<1> USE DEF PCs, AtRow, Healing, DeliveryStatus
<1>1. worker[w].pc \in AtRow
  BY DEF Dedup, Repair, Prepare, Withhold, Record, Failed, At
<1>2. UNCHANGED <<row, bound, message, deal, sends, outside, heal, count>>
  BY DEF Dedup, Repair, Prepare, Withhold, Record, Failed
<1>3. CASE Record(w) /\ Goto(w, "error") /\ UNCHANGED delivery
  <2>1. count' \in [{"stops", "early", "fails"} -> Nat]
    BY <1>2 DEF IInv, TypeOK
  <2> QED BY <1>1, <1>2, <1>3, <2>1, QuietKeeps
<1>4. CASE \E status \in {"stopped", "sent", "failed"}, then \in {"end", "next", "finish", "defer"} :
             Mark(ItemOf(w), status, w, then)
  BY <1>1, <1>2, <1>4, MarkKeeps
<1>5. CASE Prepare(w)
  <2>1. CASE drip
    BY <1>1, <1>2, <1>5, <2>1, MarkKeeps DEF Prepare
  <2>2. CASE ~drip /\ stop
    BY <1>1, <1>2, <1>5, <2>2, MarkKeeps DEF Prepare
  <2>3. CASE ~drip /\ ~stop
    <3>1. PICK then \in {"media", "text"} :
            /\ then = IF StepOf(w) \in MediaSteps THEN "media" ELSE "text"
            /\ Mark(ItemOf(w), "sending", w, then)
      BY <1>5, <2>3 DEF Prepare
    <3>2. then = "media" => Media(ItemOf(w))
      BY <3>1 DEF StepOf, Media
    <3>3. then = "text" => ~Media(ItemOf(w))
      BY <3>1 DEF StepOf, Media
    <3> QED BY <1>1, <1>2, <3>1, <3>2, <3>3, MarkKeeps
  <2> QED BY <2>1, <2>2, <2>3
<1>6. CASE Dedup(w) \/ Repair(w) \/ Withhold(w) \/ Failed(w)
  BY <1>4, <1>6 DEF Dedup, Repair, Withhold, Failed
<1> QED BY <1>3, <1>4, <1>5, <1>6 DEF Record

\* The Deal is written, or the attempt fails before the click.
LEMMA BesideKeeps ==
  ASSUME IInv, NEW w \in Workers,
         \/ PreSubmitFailure(w) \/ Blocked(w) \/ SetDeal(w)
         \/ Stamp(w) /\ UNCHANGED row
  PROVE  IInv'
<1> USE DEF PCs, AtRow, Healing
<1>1. /\ worker[w].pc \in AtRow
      /\ UNCHANGED <<row, delivery, bound, message, sends, outside, heal>>
  BY DEF PreSubmitFailure, Blocked, SetDeal, Stamp, At, tables
<1>2. count' \in [{"stops", "early", "fails"} -> Nat]
  BY DEF PreSubmitFailure, Blocked, SetDeal, Stamp, Count, IInv, TypeOK
<1>3. \/ UNCHANGED deal
      \/ \E s \in {"connected", "ended"} : deal' = [deal EXCEPT ![DealOf(w)] = s]
  BY DEF PreSubmitFailure, Blocked, SetDeal, Stamp, tables
<1>4. \E pc \in {"error", "failed", "blocked", "withhold", "finish"} : Goto(w, pc)
  <2>1. CASE PreSubmitFailure(w)
    BY <2>1 DEF PreSubmitFailure, GuardedTo
  <2>2. CASE Blocked(w) \/ SetDeal(w)
    BY <2>2 DEF Blocked, SetDeal
  <2>3. CASE Stamp(w) /\ UNCHANGED row
    <3>1. CASE Guard(RowOf(w)) # "pass"
      BY <2>3, <3>1 DEF Stamp, GuardedTo
    <3>2. CASE Guard(RowOf(w)) = "pass"
      <4>1. CASE Stampable(RowOf(w))
        <5>1. row' = [row EXCEPT ![RowOf(w)].marked = TRUE] /\ ~row[RowOf(w)].marked
          BY <2>3, <3>2, <4>1 DEF Stamp, Stampable
        <5>2. RowOf(w) \in Rows
          BY <1>1, HoldsRow
        <5>3. row'[RowOf(w)].marked
          BY <5>1, <5>2 DEF IInv, TypeOK
        <5> QED BY <2>3, <5>1, <5>3
      <4>2. CASE ~Stampable(RowOf(w))
        BY <2>3, <4>2 DEF Stamp
      <4> QED BY <4>1, <4>2
    <3> QED BY <3>1, <3>2
  <2> QED BY <2>1, <2>2, <2>3
<1> QED BY <1>1, <1>2, <1>3, <1>4, QuietKeeps

\* The same step again, or the next one.
LEMMA QueueKeeps ==
  ASSUME IInv, NEW w \in Workers, Defer(w) \/ NextStep(w)
  PROVE  IInv'
<1> USE FollowUpAssumption DEF FollowUpAssumption
<1>1. worker[w].pc \in AtRow /\ UNCHANGED <<message, deal, sends, outside, heal, count>>
  BY DEF Defer, NextStep, At, AtRow, PCs, Healing
<1>2. /\ ItemOf(w) \in Items /\ DealOf(w) \in Deals /\ StepOf(w) \in Steps /\ Begun(DealOf(w))
  BY <1>1, HoldsRow
<1>3. CASE UNCHANGED <<row, delivery, bound>>
           /\ \E pc \in {"finish", "keep", "error", "end"} : Goto(w, pc)
  <2>1. count' \in [{"stops", "early", "fails"} -> Nat]
    BY <1>1 DEF IInv, TypeOK
  <2> QED BY <1>1, <1>3, <2>1, QuietKeeps DEF PCs
<1>4. CASE Defer(w) /\ Enqueue(ItemOf(w)) /\ Goto(w, "finish")
  BY <1>1, <1>2, <1>4, EnqueueKeeps DEF DealOf
<1>5. CASE /\ StepOf(w) # LastStep
           /\ Enqueue(<<DealOf(w), StepOf(w) + 1>>) /\ Goto(w, "keep")
  <2>1. StepOf(w) + 1 \in Steps
    BY <1>2, <1>5 DEF Steps
  <2>2. /\ <<DealOf(w), StepOf(w) + 1>> \in Items
        /\ <<DealOf(w), StepOf(w) + 1>>[1] = DealOf(w)
    BY <1>2, <2>1 DEF Items
  <2> QED BY <1>1, <1>2, <1>5, <2>2, EnqueueKeeps
<1>6. ASSUME NEW x, NEW then \in {"finish", "keep"}, EnqueueThen(x, w, then)
      PROVE  \/ /\ UNCHANGED <<row, delivery, bound>>
                /\ \E pc \in {"finish", "keep", "error"} : Goto(w, pc)
             \/ Enqueue(x) /\ Goto(w, then)
  BY <1>6 DEF EnqueueThen
<1>7. CASE Defer(w)
  <2>1. EnqueueThen(ItemOf(w), w, "finish")
    BY <1>7 DEF Defer
  <2> QED BY <1>3, <1>4, <1>6, <1>7, <2>1
<1>8. CASE NextStep(w)
  <2>1. CASE EnqueueThen(<<DealOf(w), StepOf(w) + 1>>, w, "keep") /\ StepOf(w) # LastStep
    BY <1>3, <1>5, <1>6, <2>1
  <2> QED BY <1>3, <1>8, <2>1 DEF NextStep
<1> QED BY <1>7, <1>8
------------------------------------------------------------------------------
(* The boundary, the click, and what is stored of it. *)

\* The marker: no submission of the person was undecided, now this one is.
LEMMA StampKeeps ==
  ASSUME IInv, NEW w \in Workers, Stamp(w), row' # row
  PROVE  IInv'
<1> DEFINE r == RowOf(w)
           x == ItemOf(w)
<1>1. /\ worker[w].pc = "media" /\ worker[w].pc \in AtRow
      /\ UNCHANGED <<delivery, bound, message, deal, sends, outside, heal, count>>
      /\ Stampable(r) /\ Guard(r) = "pass"
      /\ row' = [row EXCEPT ![r].marked = TRUE] /\ Goto(w, "click")
  BY DEF Stamp, GuardedTo, At, AtRow, PCs, Healing
<1>2. /\ r \in Rows /\ x \in Items /\ x = row[r].item /\ Media(x)
      /\ StepOf(w) = x[2] /\ DealOf(w) = x[1]
  BY <1>1, HoldsRow DEF IInv, WorkerInv, At, ItemOf, StepOf, DealOf
<1>3. ~drip /\ ~Unresolved /\ ~message[x] /\ (x[2] = 0 => ~AnyStored)
  BY <1>1, <1>2 DEF Guard, StepSent
<1>4. \A q \in Rows : ~Undecided(q)
  BY <1>3 DEF Unresolved, Evidence, Undecided
<1>5. sends[x] = 0
  BY <1>2, <1>3, <1>4 DEF IInv, Accounted, Undecided, TypeOK
<1>6. RowType /\ \A q \in Rows : /\ row'[q].item = row[q].item /\ row'[q].status = row[q].status
                                 /\ row'[q].marked <=> (row[q].marked \/ q = r)
  <2> DEFINE Row == [status : RowStatus, item : Items \union {NoItem}, marked : BOOLEAN]
  <2>1. row \in [Rows -> Row]
    BY DEF IInv, TypeOK
  <2> HIDE DEF r
  <2>2. row' = [row EXCEPT ![r] = [row[r] EXCEPT !.marked = TRUE]]
    BY <1>1
  <2>3. [row[r] EXCEPT !.marked = TRUE] \in Row
    BY <1>2, <2>1
  <2>4. row' \in [Rows -> Row]
    <3> HIDE DEF Row
    <3> QED BY <2>1, <2>2, <2>3
  <2>5. \A q \in Rows : row'[q] = IF q = r THEN [row[q] EXCEPT !.marked = TRUE] ELSE row[q]
    BY <2>1, <2>2
  <2> QED BY <2>1, <2>4, <2>5 DEF RowType
<1>7. \A q \in Rows : Undecided(q)' <=> q = r
  BY <1>1, <1>2, <1>3, <1>4, <1>6 DEF Undecided
<1>8. /\ WorkerType
      /\ worker'[w].pc = "click" /\ worker'[w].row = worker[w].row
      /\ worker'[w].left = worker[w].left
      /\ \A v \in Workers \ {w} : worker'[v] = worker[v]
  BY <1>1, Gone DEF IInv, PCs
<1>9. TypeOK'
  BY <1>1, <1>6, <1>8 DEF IInv, TypeOK, WorkerType, RowType, outside
<1>10. RowInv'
  <2> SUFFICES ASSUME NEW q \in Rows
        PROVE  /\ row'[q].status # "none" => row'[q].item \in Items /\ deal'[row'[q].item[1]] # "invited"
               /\ row'[q].marked => row'[q].status # "none" /\ Media(row'[q].item)
               /\ Undecided(q)' => row'[q].status # "pending"
    BY DEF RowInv, Undecided, Media, Begun
  <2>1. row[r].status = "running"
    BY <1>1 DEF Stampable
  <2> QED BY <1>1, <1>2, <1>6, <1>7, <2>1 DEF IInv, RowInv, Begun
<1>11. OneUndecided'
  BY <1>7 DEF OneUndecided
<1>12. DeliveryInv' /\ FirstOnce'
  BY <1>1 DEF IInv, DeliveryInv, FirstOnce, Begun
<1>13. Accounted'
  BY <1>1, <1>6 DEF IInv, Accounted, Media
<1>14. ASSUME NEW v \in Workers PROVE WorkerInv(v)'
  <2>1. CASE v = w
    <3>1. RowOf(w)' = r /\ ItemOf(w)' = x /\ StepOf(w)' = x[2]
      BY <1>2, <1>6, <1>8 DEF RowOf, ItemOf, StepOf
    <3>2. x[2] = 0 => \A d \in Deals : ~message[<<d, 0>>]
      BY <1>2, <1>3, FollowUpAssumption DEF AnyStored, Items, Steps, FollowUpAssumption
    <3>3. row'[r].status # "none"
      BY <1>1, <1>2, <1>6 DEF Stampable
    <3>4. \A d \in worker'[w].left : Begun(d)'
      BY <1>1, <1>8 DEF Begun, IInv, WorkerInv
    <3>5. ~drip' /\ sends'[x] = 0 /\ Undecided(r)' /\ (x[2] = 0 => \A d \in Deals : ~message'[<<d, 0>>])
      <4>1. drip' = drip /\ message' = message /\ sends' = sends
        BY <1>1 DEF outside
      <4>2. Undecided(r)'
        BY <1>1, <1>2, <1>7, <3>1 DEF Undecided
      <4> QED BY <1>3, <1>5, <3>2, <4>1, <4>2
    <3> QED BY <1>2, <1>8, <2>1, <3>1, <3>3, <3>4, <3>5 DEF WorkerInv, At
  <2>2. CASE v # w
    <3>1. worker'[v] = worker[v] /\ WorkerInv(v) /\ RowOf(v)' = RowOf(v)
      BY <1>8, <2>2 DEF IInv, RowOf
    <3>2. CASE worker[v].pc \in AtRow
      <4>1. RowOf(v) \in Rows /\ row[RowOf(v)].status # "none" /\ ~At(v, "click")
        BY <1>4, <3>1, <3>2 DEF WorkerInv
      <4>2. row'[RowOf(v)].status # "none" /\ ItemOf(v)' = ItemOf(v)
        BY <1>6, <3>1, <4>1 DEF ItemOf
      <4> QED BY <1>1, <3>1, <4>1, <4>2 DEF WorkerInv, At, Media, Begun
    <3>3. CASE worker[v].pc \notin AtRow
      BY <1>1, <3>1, <3>3 DEF WorkerInv, At, AtRow, PCs, Healing, Begun
    <3> QED BY <3>2, <3>3
  <2> QED BY <2>1, <2>2
<1>15. OneClick'
  <2>1. \A v \in Workers : worker[v].pc # "click"
    <3> SUFFICES ASSUME NEW v \in Workers, worker[v].pc = "click" PROVE FALSE
      OBVIOUS
    <3> QED BY <1>4, HoldsRow DEF IInv, WorkerInv, At, AtRow, PCs, Healing
  <2> QED BY <1>8, <2>1 DEF OneClick, At
<1> QED BY <1>9, <1>10, <1>11, <1>12, <1>13, <1>14, <1>15 DEF IInv

\* The click: it takes or not, the submission stays undecided.
LEMMA ClickKeeps ==
  ASSUME IInv, NEW w \in Workers, Click(w)
  PROVE  IInv'
<1> DEFINE r == RowOf(w)
           x == ItemOf(w)
<1>1. /\ worker[w].pc = "click" /\ worker[w].pc \in AtRow
      /\ UNCHANGED <<row, delivery, bound, message, deal, outside, heal, count>>
      /\ sends' = [sends EXCEPT ![x] = @ + 1] \/ (sends' = sends /\ Goto(w, "error"))
      /\ Goto(w, "persist") \/ Goto(w, "error")
  BY DEF Click, At, AtRow, PCs, Healing, tables
<1>2. /\ r \in Rows /\ x \in Items /\ x = row[r].item /\ Undecided(r) /\ Media(x)
      /\ sends[x] = 0 /\ (x[2] = 0 => \A d \in Deals : ~message[<<d, 0>>])
      /\ x[1] \in Deals /\ x[2] \in Steps /\ x = <<x[1], x[2]>>
  BY <1>1, HoldsRow, ItemParts DEF IInv, RowInv, WorkerInv, At, ItemOf, StepOf, Undecided
<1>3. PICK pc \in {"persist", "error"} : Goto(w, pc)
  BY <1>1
<1>4. /\ WorkerType
      /\ worker'[w].pc = pc /\ worker'[w].row = worker[w].row
      /\ worker'[w].left = worker[w].left
      /\ \A v \in Workers \ {w} : worker'[v] = worker[v]
  BY <1>3, Gone DEF IInv, PCs
<1>5. /\ sends' \in [Items -> Nat]
      /\ \A y \in Items : y # x => sends'[y] = sends[y]
      /\ sends'[x] \in {0, 1}
      /\ pc = "persist" => sends'[x] = 1
  <2>1. CASE sends' = [sends EXCEPT ![x] = @ + 1]
    BY <1>2, <2>1 DEF IInv, TypeOK
  <2>2. CASE sends' = sends /\ Goto(w, "error")
    <3>1. pc = "error"
      BY <1>1, <1>4, <2>2, Gone DEF IInv, PCs
    <3> QED BY <1>2, <2>2, <3>1 DEF IInv, TypeOK
  <2> QED BY <1>1, <2>1, <2>2
<1>6. TypeOK'
  BY <1>1, <1>4, <1>5 DEF IInv, TypeOK, WorkerType, outside
<1>7. RowInv' /\ OneUndecided' /\ DeliveryInv'
  BY <1>1 DEF IInv, RowInv, OneUndecided, DeliveryInv, Undecided, Media, Begun
<1>8. Accounted'
  <2> SUFFICES ASSUME NEW y \in Items, Media(y)
        PROVE  /\ sends'[y] <= 1
               /\ sends'[y] > 0 => message[y] \/ \E q \in Rows : row[q].marked /\ row[q].item = y
    BY <1>1 DEF Accounted, Media
  <2>1. CASE y = x
    BY <1>2, <1>5, <2>1 DEF Undecided
  <2>2. CASE y # x
    BY <1>5, <2>2 DEF IInv, Accounted
  <2> QED BY <2>1, <2>2
<1>9. FirstOnce'
  <2> SUFFICES ASSUME 0 \in MediaSteps, NEW d \in Deals, NEW e \in Deals,
                      sends'[<<d, 0>>] > 0, sends'[<<e, 0>>] > 0
               PROVE  d = e
    BY DEF FirstOnce
  <2>1. <<d, 0>> \in Items /\ <<e, 0>> \in Items /\ Media(<<d, 0>>) /\ Media(<<e, 0>>)
    BY FollowUpAssumption DEF FollowUpAssumption, Items, Steps, Media
  <2>2. ASSUME NEW a \in Deals, NEW b \in Deals, <<a, 0>> = x, <<b, 0>> # x,
               <<b, 0>> \in Items, Media(<<b, 0>>), sends'[<<b, 0>>] > 0
        PROVE  FALSE
    <3>1. sends[<<b, 0>>] > 0 /\ x[2] = 0
      BY <1>5, <2>2
    <3>2. ~message[<<b, 0>>]
      BY <1>2, <3>1
    <3>3. PICK q \in Rows : row[q].marked /\ row[q].item = <<b, 0>>
      BY <2>2, <3>1, <3>2 DEF IInv, Accounted
    <3>4. Undecided(q)
      BY <3>2, <3>3 DEF Undecided
    <3> QED BY <1>2, <2>2, <3>3, <3>4 DEF IInv, OneUndecided
  <2>3. CASE <<d, 0>> = x /\ <<e, 0>> # x
    BY <2>1, <2>2, <2>3
  <2>4. CASE <<e, 0>> = x /\ <<d, 0>> # x
    BY <2>1, <2>2, <2>4
  <2>5. CASE <<e, 0>> = x /\ <<d, 0>> = x
    BY <2>5
  <2>6. CASE <<e, 0>> # x /\ <<d, 0>> # x
    BY <1>5, <2>1, <2>6 DEF IInv, FirstOnce
  <2> QED BY <2>3, <2>4, <2>5, <2>6
<1>10. ASSUME NEW v \in Workers PROVE WorkerInv(v)'
  <2>1. CASE v = w
    <3>1. RowOf(w)' = r /\ ItemOf(w)' = x /\ StepOf(w)' = x[2]
      BY <1>1, <1>2, <1>4 DEF RowOf, ItemOf, StepOf
    <3>2. row'[r].status # "none"
      BY <1>1, <1>2 DEF IInv, RowInv, Undecided
    <3>3. \A d \in worker'[w].left : Begun(d)'
      BY <1>1, <1>4 DEF Begun, IInv, WorkerInv
    <3> QED BY <1>2, <1>4, <1>5, <2>1, <3>1, <3>2, <3>3 DEF WorkerInv, At
  <2>2. CASE v # w
    <3>1. worker'[v] = worker[v] /\ WorkerInv(v) /\ RowOf(v)' = RowOf(v) /\ ItemOf(v)' = ItemOf(v)
          /\ StepOf(v)' = StepOf(v) /\ ~At(v, "click")
      BY <1>1, <1>4, <2>2 DEF IInv, RowOf, ItemOf, StepOf, OneClick, At
    <3>2. At(v, "persist") /\ Media(ItemOf(v)) => sends'[ItemOf(v)] > 0
      <4> SUFFICES ASSUME At(v, "persist"), Media(ItemOf(v)) PROVE sends'[ItemOf(v)] > 0
        OBVIOUS
      <4>1. worker[v].pc \in AtRow
        BY DEF At, AtRow, PCs, Healing
      <4>2. ItemOf(v) \in Items /\ sends[ItemOf(v)] > 0
        BY <3>1, <4>1, HoldsRow DEF WorkerInv
      <4> QED BY <1>2, <1>5, <4>2
    <3> QED BY <1>1, <3>1, <3>2 DEF WorkerInv, At, Media, Begun
  <2> QED BY <2>1, <2>2
<1>11. OneClick'
  BY <1>4 DEF IInv, OneClick, At
<1> QED BY <1>6, <1>7, <1>8, <1>9, <1>10, <1>11 DEF IInv
\* The text routes: any number of messages, of steps that have no marker.
LEMMA TextKeeps ==
  ASSUME IInv, NEW w \in Workers, Text(w)
  PROVE  IInv'
<1> DEFINE x == ItemOf(w)
<1>1. /\ worker[w].pc = "text" /\ worker[w].pc \in AtRow
      /\ UNCHANGED <<row, delivery, bound, message, deal, outside, heal>>
  BY DEF Text, At, AtRow, PCs, Healing, tables
<1>2. PICK pc \in {"persist", "failed"} : Goto(w, pc)
  BY DEF Text
<1>3. RowOf(w) \in Rows /\ row[RowOf(w)].status # "none" /\ x \in Items /\ ~Media(x)
  BY <1>1, HoldsRow DEF IInv, WorkerInv, At
<1>4. PICK n \in Nat : sends' = [sends EXCEPT ![x] = @ + n]
  <2>1. PICK silent \in 0..(IF Deaf THEN Routes ELSE 0), worked \in BOOLEAN :
          sends' = [sends EXCEPT ![x] = @ + silent + (IF worked THEN 1 ELSE 0)]
    BY DEF Text
  <2>2. silent \in Nat
    BY DEF Routes
  <2>3. sends[x] \in Nat
    BY <1>3 DEF IInv, TypeOK
  <2>4. sends[x] + silent + (IF worked THEN 1 ELSE 0) = sends[x] + (silent + (IF worked THEN 1 ELSE 0))
    BY <2>2, <2>3
  <2>5. sends' = [sends EXCEPT ![x] = @ + (silent + (IF worked THEN 1 ELSE 0))]
    BY <2>1, <2>4
  <2>6. silent + (IF worked THEN 1 ELSE 0) \in Nat
    BY <2>2
  <2> QED BY <2>5, <2>6
<1>5. sends' \in [Items -> Nat] /\ \A y \in Items : y # x => sends'[y] = sends[y]
  BY <1>3, <1>4 DEF IInv, TypeOK
<1>6. count' \in [{"stops", "early", "fails"} -> Nat]
  BY DEF Text, Count, IInv, TypeOK
<1>7. /\ WorkerType
      /\ worker'[w].pc = pc /\ worker'[w].row = worker[w].row
      /\ worker'[w].left = worker[w].left
      /\ \A v \in Workers \ {w} : worker'[v] = worker[v]
  BY <1>2, Gone DEF IInv, PCs
<1>8. TypeOK'
  BY <1>1, <1>5, <1>6, <1>7 DEF IInv, TypeOK, WorkerType, outside
<1>9. RowInv' /\ OneUndecided' /\ DeliveryInv'
  BY <1>1 DEF IInv, RowInv, OneUndecided, DeliveryInv, Undecided, Media, Begun
<1>10. \A y \in Items : Media(y) => sends'[y] = sends[y]
  BY <1>3, <1>5
<1>11. Accounted'
  BY <1>1, <1>10 DEF IInv, Accounted, Media
<1>12. FirstOnce'
  <2>1. 0 \in MediaSteps => \A d \in Deals : sends'[<<d, 0>>] = sends[<<d, 0>>]
    BY <1>10, FollowUpAssumption DEF FollowUpAssumption, Items, Steps, Media
  <2> QED BY <2>1 DEF IInv, FirstOnce
<1>13. ASSUME NEW v \in Workers PROVE WorkerInv(v)'
  <2>1. CASE v = w
    <3>1. RowOf(w)' = RowOf(w) /\ ItemOf(w)' = x
      BY <1>1, <1>7 DEF RowOf, ItemOf
    <3>2. \A d \in worker'[w].left : Begun(d)'
      BY <1>1, <1>7 DEF Begun, IInv, WorkerInv
    <3> QED BY <1>1, <1>3, <1>7, <2>1, <3>1, <3>2 DEF WorkerInv, At, Media
  <2>2. CASE v # w
    <3>1. worker'[v] = worker[v] /\ WorkerInv(v) /\ RowOf(v)' = RowOf(v) /\ ItemOf(v)' = ItemOf(v)
          /\ StepOf(v)' = StepOf(v)
      BY <1>1, <1>7, <2>2 DEF IInv, RowOf, ItemOf, StepOf
    <3>2. worker[v].pc \in AtRow => ItemOf(v) \in Items
      BY HoldsRow
    <3>3. At(v, "persist") /\ Media(ItemOf(v)) => sends'[ItemOf(v)] > 0
      BY <1>10, <3>1, <3>2 DEF WorkerInv, At, AtRow, PCs, Healing
    <3>4. At(v, "click") => sends'[ItemOf(v)] = 0 /\ Undecided(RowOf(v))'
                            /\ (StepOf(v) = 0 => \A d \in Deals : ~message'[<<d, 0>>]) /\ ~drip'
      <4> SUFFICES ASSUME At(v, "click")
            PROVE sends'[ItemOf(v)] = 0 /\ Undecided(RowOf(v))'
                  /\ (StepOf(v) = 0 => \A d \in Deals : ~message'[<<d, 0>>]) /\ ~drip'
        OBVIOUS
      <4>1. ItemOf(v) \in Items /\ Undecided(RowOf(v)) /\ RowOf(v) \in Rows
        BY <3>1, <3>2, HoldsRow DEF WorkerInv, At, AtRow, PCs, Healing
      <4>2. Media(ItemOf(v))
        BY <4>1 DEF IInv, RowInv, Undecided, ItemOf
      <4>3. sends'[ItemOf(v)] = 0
        BY <1>10, <3>1, <4>1, <4>2 DEF WorkerInv
      <4> QED BY <1>1, <3>1, <4>1, <4>3 DEF WorkerInv, Undecided, outside
    <3>5. /\ worker[v].pc \in AtRow => RowOf(v) \in Rows /\ row'[RowOf(v)].status # "none"
          /\ \A d \in worker[v].left : Begun(d)'
      BY <1>1, <3>1 DEF WorkerInv, Begun
    <3> QED BY <3>1, <3>3, <3>4, <3>5 DEF WorkerInv, At, Media
  <2> QED BY <2>1, <2>2
<1>14. OneClick'
  BY <1>7 DEF IInv, OneClick, At
<1> QED BY <1>8, <1>9, <1>11, <1>12, <1>13, <1>14 DEF IInv

\* The Message: it decides the submission of its own step, and of no other.
LEMMA PersistKeeps ==
  ASSUME IInv, NEW w \in Workers, Persist(w)
  PROVE  IInv'
<1> DEFINE x == ItemOf(w)
<1>1. /\ worker[w].pc = "persist" /\ worker[w].pc \in AtRow
      /\ UNCHANGED <<row, delivery, bound, deal, sends, outside, heal, count>>
  BY DEF Persist, At, AtRow, PCs, Healing
<1>2. CASE UNCHANGED message /\ \E pc \in {"error", "record"} : Goto(w, pc)
  <2>1. count' \in [{"stops", "early", "fails"} -> Nat]
    BY <1>1 DEF IInv, TypeOK
  <2> QED BY <1>1, <1>2, <2>1, QuietKeeps DEF PCs
<1>3. CASE message' = [message EXCEPT ![x] = TRUE] /\ Goto(w, "record")
  <2>1. /\ RowOf(w) \in Rows /\ row[RowOf(w)].status # "none" /\ x \in Items
        /\ Media(x) => sends[x] > 0
    BY <1>1, HoldsRow DEF IInv, WorkerInv, At
  <2>2. /\ WorkerType
        /\ worker'[w].pc = "record" /\ worker'[w].row = worker[w].row
        /\ worker'[w].left = worker[w].left
        /\ \A v \in Workers \ {w} : worker'[v] = worker[v]
    BY <1>3, Gone DEF IInv, PCs
  <2>3. message' \in [Items -> BOOLEAN] /\ \A y \in Items : message'[y] <=> (message[y] \/ y = x)
    BY <1>3, <2>1 DEF IInv, TypeOK
  <2>4. TypeOK'
    BY <1>1, <2>2, <2>3 DEF IInv, TypeOK, WorkerType, outside
  <2>5. ASSUME NEW q \in Rows PROVE Undecided(q)' <=> (Undecided(q) /\ row[q].item # x)
    <3>1. row[q].marked => row[q].item \in Items
      BY DEF IInv, RowInv
    <3> QED BY <1>1, <2>3, <3>1 DEF Undecided
  <2>6. RowInv' /\ OneUndecided' /\ DeliveryInv' /\ FirstOnce'
    <3>1. RowInv'
      BY <1>1, <2>5 DEF IInv, RowInv, Media, Begun
    <3>2. OneUndecided'
      BY <2>5 DEF IInv, OneUndecided
    <3>3. DeliveryInv' /\ FirstOnce'
      BY <1>1 DEF IInv, DeliveryInv, FirstOnce, Begun
    <3> QED BY <3>1, <3>2, <3>3
  <2>7. Accounted'
    BY <1>1, <2>3 DEF IInv, Accounted, Media
  <2>8. ASSUME NEW v \in Workers PROVE WorkerInv(v)'
    <3>1. CASE v = w
      <4>1. RowOf(w)' = RowOf(w)
        BY <2>2 DEF RowOf
      <4>2. \A d \in worker'[w].left : Begun(d)'
        BY <1>1, <2>2 DEF Begun, IInv, WorkerInv
      <4> QED BY <1>1, <2>1, <2>2, <3>1, <4>1, <4>2 DEF WorkerInv, At
    <3>2. CASE v # w
      <4>1. worker'[v] = worker[v] /\ WorkerInv(v) /\ RowOf(v)' = RowOf(v) /\ ItemOf(v)' = ItemOf(v)
            /\ StepOf(v)' = StepOf(v)
        BY <1>1, <2>2, <3>2 DEF IInv, RowOf, ItemOf, StepOf
      <4>2. At(v, "click") => /\ Undecided(RowOf(v))'
                              /\ StepOf(v) = 0 => \A d \in Deals : ~message'[<<d, 0>>]
        <5> SUFFICES ASSUME At(v, "click")
              PROVE  /\ Undecided(RowOf(v))'
                     /\ StepOf(v) = 0 => \A d \in Deals : ~message'[<<d, 0>>]
          OBVIOUS
        <5>1. /\ RowOf(v) \in Rows /\ ItemOf(v) \in Items /\ ItemOf(v) = row[RowOf(v)].item
              /\ Undecided(RowOf(v)) /\ sends[ItemOf(v)] = 0
              /\ StepOf(v) = 0 => \A d \in Deals : ~message[<<d, 0>>]
              /\ StepOf(v) = ItemOf(v)[2]
          BY <4>1, HoldsRow DEF WorkerInv, At, AtRow, PCs, Healing, ItemOf, StepOf
        <5>2. Media(ItemOf(v))
          BY <5>1 DEF IInv, RowInv, Undecided
        <5>3. ItemOf(v) # x
          BY <2>1, <5>1, <5>2
        <5>4. Undecided(RowOf(v))'
          BY <2>5, <4>1, <5>1, <5>3 DEF Undecided
        <5>5. ASSUME StepOf(v) = 0, NEW d \in Deals, message'[<<d, 0>>]
              PROVE  FALSE
          <6>1. 0 \in MediaSteps /\ <<d, 0>> \in Items
            BY <5>1, <5>2, <5>5, FollowUpAssumption DEF FollowUpAssumption, Media, Items, Steps
          <6>2. x = <<d, 0>> /\ ~message[x]
            BY <2>3, <5>1, <5>5, <6>1
          <6>3. Media(x) /\ sends[x] > 0
            BY <2>1, <6>1, <6>2 DEF Media
          <6>4. PICK q \in Rows : row[q].marked /\ row[q].item = x
            BY <2>1, <6>2, <6>3 DEF IInv, Accounted
          <6>5. Undecided(q)
            BY <6>2, <6>4 DEF Undecided
          <6> QED BY <5>1, <5>3, <6>4, <6>5 DEF IInv, OneUndecided
        <5> QED BY <5>4, <5>5
      <4>3. /\ worker[v].pc \in AtRow => RowOf(v) \in Rows /\ row'[RowOf(v)].status # "none"
            /\ \A d \in worker[v].left : Begun(d)'
        BY <1>1, <4>1 DEF WorkerInv, Begun
      <4> QED BY <1>1, <4>1, <4>2, <4>3 DEF WorkerInv, At, Media, outside
    <3> QED BY <3>1, <3>2
  <2>9. OneClick'
    BY <2>2 DEF IInv, OneClick, At
  <2> QED BY <2>4, <2>6, <2>7, <2>8, <2>9 DEF IInv
<1> QED BY <1>2, <1>3 DEF Persist
------------------------------------------------------------------------------
(* Spec => []IInv. *)

LEMMA InitInv ==
  ASSUME Init
  PROVE  IInv
<1>1. TypeOK
  BY FollowUpAssumption
  DEF FollowUpAssumption, Init, TypeOK, RowStatus, DeliveryStatus, PCs, NoRow, NoItem,
      NothingRead
<1>2. RowInv /\ OneUndecided
  BY DEF Init, RowInv, OneUndecided, Undecided, NoItem
<1>3. DeliveryInv /\ Accounted /\ FirstOnce
  <2>1. \A d \in Deals : 0 \in MediaSteps => <<d, 0>> \in Items
    BY FollowUpAssumption DEF FollowUpAssumption, Items, Steps
  <2> QED BY <2>1 DEF Init, DeliveryInv, Accounted, FirstOnce
<1>4. OneClick /\ \A w \in Workers : WorkerInv(w)
  BY DEF Init, OneClick, WorkerInv, At, AtRow, PCs, Healing
<1> QED BY <1>1, <1>2, <1>3, <1>4 DEF IInv

LEMMA WorkKeeps ==
  ASSUME IInv, ResetsOrdinary, NEW w \in Workers, Work(w)
  PROVE  IInv'
<1>1. CASE Stamp(w)
  BY <1>1, StampKeeps, BesideKeeps
<1>2. CASE \/ Start(w) \/ ListFailed(w) \/ RecoverRow(w) \/ ResetOrdinary(w) \/ Survey(w)
           \/ CatchUp(w) \/ Healed(w) \/ Claim(w) \/ Finish(w) \/ Fail(w)
  BY <1>2, ReadKeeps, RepairKeeps, CatchUpKeeps, IdleKeeps, ClaimKeeps, CloseKeeps
<1>3. CASE Check(w) \/ Defer(w) \/ NextStep(w)
  BY <1>3, CheckKeeps, QueueKeeps
<1>4. CASE Dedup(w) \/ Repair(w) \/ Prepare(w) \/ Withhold(w) \/ Record(w) \/ Failed(w)
  BY <1>4, ReceiptKeeps
<1>5. CASE PreSubmitFailure(w) \/ Blocked(w) \/ SetDeal(w)
  BY <1>5, BesideKeeps
<1>6. CASE Click(w) \/ Text(w) \/ Persist(w)
  BY <1>6, ClickKeeps, TextKeeps, PersistKeeps
<1> QED BY <1>1, <1>2, <1>3, <1>4, <1>5, <1>6 DEF Work

LEMMA StepInv ==
  ASSUME IInv, ResetsOrdinary, [Next]_vars
  PROVE  IInv'
<1>1. CASE Next
  BY <1>1, AcceptKeeps, OutsideKeeps, WorkKeeps, IdleKeeps DEF Next
<1>2. CASE UNCHANGED vars
  <2>1. UNCHANGED <<row, delivery, bound, message, deal, sends, outside, worker, heal, count>>
    BY <1>2 DEF vars, tables
  <2>2. TypeOK' /\ RowInv' /\ OneUndecided' /\ DeliveryInv' /\ Accounted' /\ FirstOnce'
    BY <2>1 DEF IInv, TypeOK, RowInv, OneUndecided, DeliveryInv, Accounted, FirstOnce,
                Undecided, Media, Begun, outside
  <2>3. OneClick' /\ \A w \in Workers : WorkerInv(w)'
    BY <2>1 DEF IInv, OneClick, WorkerInv, Undecided, Media, Begun, At, RowOf, ItemOf, StepOf,
                outside
  <2> QED BY <2>2, <2>3 DEF IInv
<1> QED BY <1>1, <1>2

\* For any number of daemons, campaigns, steps and rows, with daemons that die and hang,
\* a start that queues a live daemon's row before its marker, a text route that lies and a
\* database that goes away.
THEOREM Invariance == Spec /\ []ResetsOrdinary => []IInv
BY InitInv, StepInv, PTL DEF Spec

\* follow_up_submission.py: with attachments LinkedIn gets every step at most once, as long
\* as a start resets ordinary rows only; it does when no daemon hangs or there is one.
THEOREM SentOnceTheorem ==
  /\ AllMedia => (Spec /\ []ResetsOrdinary => []SentOnce)
  /\ AllMedia /\ (~Hung \/ OneDaemon) => (Spec => []SentOnce)
<1> SUFFICES ASSUME AllMedia
    PROVE  /\ Spec /\ []ResetsOrdinary => []SentOnce
           /\ ~Hung \/ OneDaemon => (Spec => []SentOnce)
  OBVIOUS
<1>1. IInv => SentOnce
  BY ItemParts DEF IInv, Accounted, SentOnce, AllMedia, Media
<1>2. Spec /\ []ResetsOrdinary => []SentOnce
  BY <1>1, Invariance, PTL
<1> QED BY <1>2, OrdinaryResets

\* follow_up.py:662: when the first step has an attachment, one campaign at most pitches
\* the person, whatever daemons and campaigns of the sender are at it at the same time, as
\* long as a start resets ordinary rows only; it does when no daemon hangs or there is one.
THEOREM OnePitchTheorem ==
  /\ 0 \in MediaSteps => (Spec /\ []ResetsOrdinary => []OnePitch)
  /\ 0 \in MediaSteps /\ (~Hung \/ OneDaemon) => (Spec => []OnePitch)
<1> SUFFICES ASSUME 0 \in MediaSteps
    PROVE  /\ Spec /\ []ResetsOrdinary => []OnePitch
           /\ ~Hung \/ OneDaemon => (Spec => []OnePitch)
  OBVIOUS
<1>1. ASSUME IInv
      PROVE  OnePitch
  <2> DEFINE S == {d \in Deals : sends[<<d, 0>>] > 0}
  <2>1. \A d, e \in S : d = e
    BY <1>1 DEF IInv, FirstOnce
  <2>2. CASE S = {}
    <3>1. Cardinality(S) = 0
      BY <2>2, FS_EmptySet
    <3> QED BY <3>1 DEF OnePitch
  <2>3. CASE S # {}
    <3>1. PICK d \in S : S = {d}
      BY <2>1, <2>3
    <3>2. Cardinality(S) = 1
      BY <3>1, FS_Singleton
    <3> QED BY <3>2 DEF OnePitch
  <2> QED BY <2>2, <2>3
<1>2. Spec /\ []ResetsOrdinary => []OnePitch
  BY <1>1, Invariance, PTL
<1> QED BY <1>2, OrdinaryResets

------------------------------------------------------------------------------
(* What one daemon of the sender adds (SingleInstanceGuard). *)

\* Queueing a step takes no row from a daemon.
LEMMA EnqueueLeavesRunning ==
  ASSUME IInv, NEW x \in Items, Enqueue(x), NEW r \in Rows, row[r].status = "running"
  PROVE  row'[r].status = "running"
<1>1. PICK q \in (Open(x) \union Free) :
        row' = [row EXCEPT ![q] = [status |-> "pending", item |-> x, marked |-> FALSE]]
  BY DEF Enqueue
<1>2. q # r
  BY <1>1 DEF Open, Free
<1> QED BY <1>1, <1>2 DEF IInv, TypeOK

\* Nobody but the daemon itself closes the row it works on, and the handoff waits.
LEMMA RunningOutside ==
  ASSUME IInv, RunningInv,
         \/ UNCHANGED vars \/ Stop \/ Retire \/ Drip \/ \E d \in Deals : Accept(d)
  PROVE  RunningInv'
<1>1. UNCHANGED worker
  BY DEF vars, Stop, Retire, Drip, Accept
<1>2. ASSUME NEW r \in Rows, row[r].status = "running"
      PROVE  row'[r].status = "running" /\ drip' = drip
  <2>1. CASE Retire
    BY <1>2, <2>1 DEF Retire, IInv, TypeOK
  <2>2. ASSUME NEW d \in Deals, Accept(d)
        PROVE  row'[r].status = "running" /\ drip' = drip
    <3>1. <<d, 0>> \in Items
      BY FollowUpAssumption DEF FollowUpAssumption, Items, Steps
    <3> QED BY <1>2, <2>2, <3>1, EnqueueLeavesRunning DEF Accept, outside
  <2>3. ~Drip
    BY <1>2 DEF Drip, HandoffReady
  <2> QED BY <1>2, <2>1, <2>2, <2>3 DEF vars, tables, outside, Stop
<1>3. \A w \in Workers : worker[w].pc \in AtRow => RowOf(w) \in Rows
  BY HoldsRow
<1>4. "text" \in AtRow
  BY DEF AtRow, PCs, Healing
<1> QED BY <1>1, <1>2, <1>3, <1>4 DEF RunningInv, RowOf, At

\* A daemon between two steps of its row keeps it running.
LEMMA RunningAtRow ==
  ASSUME OneDaemon, IInv, RunningInv, NEW w \in Workers, NEW pc \in PCs, Goto(w, pc),
         worker[w].pc \in AtRow, UNCHANGED drip, pc = "text" => ~drip,
         \A r \in Rows : row[r].status = "running" => row'[r].status = "running"
  PROVE  RunningInv'
<1>1. worker'[w].pc = pc /\ RowOf(w)' = RowOf(w)
  BY Gone DEF IInv, RowOf
<1>2. RowOf(w) \in Rows
  BY HoldsRow
<1> QED BY <1>1, <1>2 DEF RunningInv, OneDaemon, At

\* After a step of a start, and after the last step of a row, a daemon works on no row.
LEMMA Aside ==
  ASSUME IInv, NEW w \in Workers,
         \/ Start(w) \/ ListFailed(w) \/ RecoverRow(w) \/ ResetOrdinary(w) \/ Survey(w)
         \/ CatchUp(w) \/ Healed(w) \/ Finish(w) \/ Fail(w) \/ Die(w)
  PROVE  worker'[w].pc \in Healing \union {"idle", "down"}
<1>1. CASE Start(w) \/ ListFailed(w) \/ ResetOrdinary(w) \/ Healed(w)
  BY <1>1, Gone DEF Start, ListFailed, ResetOrdinary, Healed, IInv, PCs, Healing
<1>2. CASE RecoverRow(w)
  BY <1>2 DEF RecoverRow, At, Healing
<1>3. CASE Survey(w)
  <2>1. worker' = [worker EXCEPT ![w].pc = "heal",
                                ![w].left = {d \in Deals : deal[d] = "connected"}]
    BY <1>3 DEF Survey
  <2>2. worker'[w].pc = "heal"
    BY <2>1 DEF IInv, TypeOK
  <2> QED BY <2>2 DEF Healing
<1>4. CASE CatchUp(w)
  <2>1. worker[w].pc = "heal" /\ \E d : worker' = [worker EXCEPT ![w].left = @ \ {d}]
    BY <1>4 DEF CatchUp, At
  <2>2. worker'[w].pc = "heal"
    BY <2>1 DEF IInv, TypeOK
  <2> QED BY <2>2 DEF Healing
<1>5. CASE Finish(w) \/ Fail(w) \/ Die(w)
  BY <1>5 DEF Finish, Fail, Die, Leave, IInv, TypeOK
<1> QED BY <1>1, <1>2, <1>3, <1>4, <1>5

LEMMA RunningWork ==
  ASSUME OneDaemon, IInv, RunningInv, NEW w \in Workers, Work(w) \/ Die(w)
  PROVE  RunningInv'
<1> USE DEF PCs, AtRow, Healing
<1>1. CASE \/ Start(w) \/ ListFailed(w) \/ RecoverRow(w) \/ ResetOrdinary(w) \/ Survey(w)
           \/ CatchUp(w) \/ Healed(w) \/ Finish(w) \/ Fail(w) \/ Die(w)
  <2>1. worker'[w].pc \in Healing \union {"idle", "down"}
    BY <1>1, Aside
  <2> QED BY <2>1 DEF RunningInv, OneDaemon, At
<1>2. CASE Claim(w)
  <2>1. PICK r \in Rows : /\ row' = [row EXCEPT ![r].status = "running"]
                          /\ worker' = [worker EXCEPT ![w].pc = "check", ![w].row = r]
    BY <1>2 DEF Claim
  <2>2. worker'[w].pc = "check" /\ RowOf(w)' = r /\ row'[r].status = "running"
    BY <2>1 DEF IInv, TypeOK, RowOf
  <2> QED BY <2>2 DEF RunningInv, OneDaemon, At
<1>3. CASE Defer(w) \/ NextStep(w)
  <2>1. PICK pc \in PCs \ {"text"} : Goto(w, pc)
    BY <1>3 DEF Defer, NextStep, EnqueueThen
  <2>2. \A r \in Rows : row[r].status = "running" => row'[r].status = "running"
    <3>1. CASE Defer(w)
      BY <3>1, HoldsRow, EnqueueLeavesRunning DEF Defer, EnqueueThen, At
    <3>2. CASE NextStep(w)
      <4>1. StepOf(w) # LastStep => <<DealOf(w), StepOf(w) + 1>> \in Items
        BY <3>2, HoldsRow, FollowUpAssumption DEF FollowUpAssumption, NextStep, At, Items, Steps
      <4> QED BY <3>2, <4>1, EnqueueLeavesRunning DEF NextStep, EnqueueThen
    <3> QED BY <1>3, <3>1, <3>2
  <2>3. worker[w].pc \in AtRow /\ UNCHANGED drip
    BY <1>3 DEF Defer, NextStep, outside, At
  <2> QED BY <2>1, <2>2, <2>3, RunningAtRow
<1>4. CASE \/ Check(w) \/ Dedup(w) \/ Repair(w) \/ Prepare(w) \/ Stamp(w) \/ PreSubmitFailure(w)
           \/ Click(w) \/ Blocked(w) \/ Withhold(w) \/ Text(w) \/ Persist(w) \/ Record(w)
           \/ Failed(w) \/ SetDeal(w)
  <2>1. worker[w].pc \in AtRow /\ UNCHANGED drip
    BY <1>4 DEF Check, Dedup, Repair, Prepare, Stamp, PreSubmitFailure, Click, Blocked, Withhold,
         Text, Persist, Record, Failed, SetDeal, outside, At
  <2>2. \/ UNCHANGED row
        \/ row' = [row EXCEPT ![RowOf(w)].marked = TRUE]
    BY <1>4 DEF Check, Dedup, Repair, Prepare, Stamp, PreSubmitFailure, Click, Blocked, Withhold,
         Text, Persist, Record, Failed, SetDeal, tables
  <2>3. \E pc \in PCs : Goto(w, pc) /\ (pc = "text" => ~drip)
    <3>1. CASE Prepare(w)
      BY <3>1 DEF Prepare, Mark
    <3>2. CASE Check(w)
      BY <3>2 DEF Check, Early
    <3>3. CASE Stamp(w) \/ PreSubmitFailure(w)
      BY <3>3 DEF Stamp, PreSubmitFailure, GuardedTo
    <3> QED BY <1>4, <3>1, <3>2, <3>3 DEF Dedup, Repair, Click, Blocked, Withhold, Text, Persist,
              Record, Failed, SetDeal, Mark
  <2>4. \A r \in Rows : row[r].status = "running" => row'[r].status = "running"
    BY <2>2 DEF IInv, TypeOK
  <2> QED BY <2>1, <2>3, <2>4, RunningAtRow
<1> QED BY <1>1, <1>2, <1>3, <1>4 DEF Work

\* ownership.py:47: once a drip campaign owns the channel, LinkedIn gets nothing more of
\* the sequence.  With attachments the handoff waits for the undecided row and a later
\* marker asks for it, as long as a start resets ordinary rows only; with one daemon it
\* waits for the row that daemon works on.
THEOREM DripTakesOverTheorem ==
  /\ AllMedia => (Spec /\ []ResetsOrdinary => DripTakesOver)
  /\ OneDaemon => (Spec => DripTakesOver)
<1>1. ASSUME IInv, [Next]_vars, drip, AllMedia \/ (OneDaemon /\ RunningInv)
      PROVE  sends' = sends
  <2>1. ASSUME NEW w \in Workers
        PROVE  ~Click(w) /\ ~Text(w)
    <3>1. At(w, "text") => ItemOf(w) \in Items /\ ~Media(ItemOf(w))
      BY <1>1, HoldsRow DEF IInv, WorkerInv, At, AtRow, PCs, Healing
    <3>2. ~At(w, "text")
      BY <1>1, <3>1, ItemParts DEF AllMedia, Media, RunningInv
    <3>3. ~At(w, "click")
      BY <1>1 DEF IInv, WorkerInv
    <3> QED BY <3>2, <3>3 DEF Click, Text
  <2>2. CASE UNCHANGED vars \/ Stop \/ Retire \/ Drip \/ \E d \in Deals : Accept(d)
    BY <2>2 DEF vars, Stop, Retire, Drip, Accept
  <2>3. ASSUME NEW w \in Workers, Work(w) \/ Die(w)
        PROVE  sends' = sends
    BY <2>1, <2>3 DEF Work, Start, ListFailed, RecoverRow, ResetOrdinary, Survey, CatchUp, Healed,
         Claim, Check, Defer, Dedup, Repair, Prepare, Stamp, PreSubmitFailure, Blocked, Withhold,
         Persist, Record, Failed, NextStep, SetDeal, Finish, Fail, Die
  <2> QED BY <1>1, <2>2, <2>3 DEF Next
<1>2. ASSUME AllMedia
      PROVE  Spec /\ []ResetsOrdinary => DripTakesOver
  <2>1. IInv /\ [Next]_vars => [drip => sends' = sends]_vars
    BY <1>1, <1>2
  <2> QED BY Invariance, <2>1, PTL DEF Spec, DripTakesOver
<1>3. ASSUME OneDaemon
      PROVE  Spec => DripTakesOver
  <2>1. Init => RunningInv
    BY DEF Init, RunningInv, AtRow, At
  <2>2. IInv /\ RunningInv /\ [Next]_vars => RunningInv'
    BY <1>3, RunningOutside, RunningWork DEF Next
  <2>3. IInv /\ RunningInv /\ [Next]_vars => [drip => sends' = sends]_vars
    BY <1>1, <1>3
  <2>4. Spec => []ResetsOrdinary
    BY <1>3, OrdinaryResets
  <2> QED BY Invariance, <2>1, <2>2, <2>3, <2>4, PTL DEF Spec, DripTakesOver
<1> QED BY <1>2, <1>3

------------------------------------------------------------------------------
(* What a withheld receipt says, with one daemon of the sender. *)

\* Only the first message may be a text, and its routes say when they have sent.  A later
\* text is queued again by its predecessor's repair after it may have been sent.
TextFirst == Steps \ {0} \subseteq MediaSteps /\ (Deaf => 0 \in MediaSteps)

\* What a step of the daemon has to keep: a receipt turns stopped only while LinkedIn has
\* nothing, what is known to be sent stays known, and the daemon only goes on towards the
\* click with a fresh step.
LEMMA WithheldFrame ==
  ASSUME IInv, WithheldInv, UNCHANGED sends,
         \A x \in Items :
           /\ message[x] => message'[x]
           /\ delivery'[x] = "stopped" => delivery[x] = "stopped" \/ sends[x] = 0
           /\ ~Media(x) /\ sends[x] > 0 /\ delivery[x] \in {"sending", "sent"} =>
                message'[x] \/ delivery'[x] \in {"sending", "sent"},
         \A w \in Workers :
           /\ worker'[w].pc \in Fresh => sends[ItemOf(w)'] = 0
           /\ worker'[w].pc = "click" => delivery'[ItemOf(w)'] # "stopped"
           /\ worker'[w].pc = "text" => delivery'[ItemOf(w)'] = "sending"
           /\ worker'[w].pc = "defer" => message'[ItemOf(w)'] \/ delivery'[ItemOf(w)'] # "sending"
  PROVE  WithheldInv'
BY DEF WithheldInv, At, Media

\* A row that exists keeps its delivery, whatever step follows.
LEMMA ItemStands ==
  ASSUME IInv, NEW x \in Items, Enqueue(x), NEW r \in Rows, row[r].status # "none"
  PROVE  row'[r].item = row[r].item
<1>1. PICK q \in (Open(x) \union Free) :
        row' = [row EXCEPT ![q] = [status |-> "pending", item |-> x, marked |-> FALSE]]
  BY DEF Enqueue
<1>2. row[r] = row'[r] \/ q = r
  BY <1>1 DEF IInv, TypeOK
<1>3. q = r => row[r].item = x
  BY <1>1 DEF Open, Free
<1>4. q = r => row'[r].item = x
  BY <1>1 DEF IInv, TypeOK
<1> QED BY <1>2, <1>3, <1>4

\* Queueing a step never stops it, and only a delivery being sent forgets that.
LEMMA EnqueueStopsNone ==
  ASSUME IInv, NEW x \in Items, Enqueue(x)
  PROVE  /\ \A y \in Items : /\ delivery'[y] = "stopped" => delivery[y] = "stopped"
                             /\ y # x => delivery'[y] = delivery[y]
         /\ delivery[x] = "sent" => delivery'[x] = "sent"
         /\ delivery'[x] # "sending"
BY DEF Enqueue, BoundStatus, IInv, TypeOK

LEMMA WithheldOutside ==
  ASSUME IInv, WithheldInv,
         \/ UNCHANGED vars \/ Stop \/ Retire \/ Drip \/ \E d \in Deals : Accept(d)
  PROVE  WithheldInv'
<1>1. UNCHANGED <<sends, worker, message>>
  BY DEF vars, tables, Stop, Retire, Drip, Accept
<1>0. Fresh \subseteq AtRow /\ {"click", "text", "defer"} \subseteq AtRow
  BY DEF Fresh, AtRow, PCs, Healing
<1>2. CASE UNCHANGED delivery /\ \A r \in Rows : row'[r].item = row[r].item
  <2>1. \A w \in Workers : worker[w].pc \in AtRow => ItemOf(w)' = ItemOf(w)
    BY <1>1, <1>2, HoldsRow DEF ItemOf, RowOf
  <2> QED BY <1>0, <1>1, <1>2, <2>1, WithheldFrame DEF WithheldInv, At
<1>3. ASSUME NEW d \in Deals, Accept(d), Enqueue(<<d, 0>>)
      PROVE  WithheldInv'
  <2>1. <<d, 0>> \in Items
    BY FollowUpAssumption DEF FollowUpAssumption, Items, Steps
  <2>2. \A w \in Workers : worker[w].pc \in AtRow => ItemOf(w) \in Items /\ ItemOf(w)' = ItemOf(w)
    BY <1>1, <1>3, <2>1, HoldsRow, ItemStands DEF ItemOf, RowOf
  <2>3. delivery[<<d, 0>>] = "none"
    BY <1>3, <2>1 DEF Accept, IInv, DeliveryInv, Begun
  <2>4. \A y \in Items : /\ delivery'[y] = "stopped" => delivery[y] = "stopped"
                         /\ delivery[y] \in {"sending", "sent"} => delivery'[y] = delivery[y]
                         /\ delivery'[y] = "sending" => delivery[y] = "sending"
    BY <1>3, <2>1, <2>3, EnqueueStopsNone
  <2>5. ASSUME NEW w \in Workers
        PROVE  /\ worker'[w].pc \in Fresh => sends[ItemOf(w)'] = 0
               /\ worker'[w].pc = "click" => delivery'[ItemOf(w)'] # "stopped"
               /\ worker'[w].pc = "text" => delivery'[ItemOf(w)'] = "sending"
               /\ worker'[w].pc = "defer" => message'[ItemOf(w)'] \/ delivery'[ItemOf(w)'] # "sending"
    BY <1>0, <1>1, <2>2, <2>4 DEF WithheldInv, At
  <2> QED BY <1>1, <2>4, <2>5, WithheldFrame
<1>4. CASE UNCHANGED vars \/ Stop \/ Drip
  BY <1>2, <1>4 DEF vars, tables, Stop, Drip
<1>5. CASE Retire
  <2>1. \A r \in Rows : row'[r].item = row[r].item
    BY <1>5 DEF Retire, IInv, TypeOK
  <2> QED BY <1>2, <1>5, <2>1 DEF Retire
<1> QED BY <1>2, <1>3, <1>4, <1>5 DEF Accept

\* Steps after which the daemon is not on its way to a send, and which stop nothing.
LEMMA WithheldAside ==
  ASSUME TextFirst, IInv, WithheldInv, NEW w \in Workers, OneDaemon,
         \/ Start(w) \/ ListFailed(w) \/ RecoverRow(w) \/ ResetOrdinary(w) \/ Survey(w)
         \/ CatchUp(w) \/ Healed(w) \/ Claim(w) \/ Defer(w) \/ Repair(w)
         \/ Persist(w) \/ Record(w) \/ Failed(w) \/ NextStep(w) \/ SetDeal(w)
         \/ Finish(w) \/ Fail(w) \/ Die(w)
  PROVE  WithheldInv'
<1> USE DEF PCs, AtRow, Healing
<1>0. UNCHANGED sends /\ \A x \in Items : message[x] => message'[x]
  BY DEF Start, ListFailed, RecoverRow, ResetOrdinary, Survey, CatchUp, Healed, Claim, Defer,
         Repair, Persist, Record, Failed, NextStep, SetDeal, Finish, Fail, Die, tables, IInv, TypeOK
<1>1. /\ worker'[w].pc \notin Fresh \union {"click"}
      /\ worker'[w].pc = "defer" => Failed(w) /\ Goto(w, "defer")
  <2>1. ASSUME NEW pc \in PCs \ (Fresh \union {"click"}), Goto(w, pc)
        PROVE  worker'[w].pc = pc
    BY <2>1, Gone DEF IInv
  <2>2. CASE \/ Start(w) \/ ListFailed(w) \/ RecoverRow(w) \/ ResetOrdinary(w) \/ Survey(w)
             \/ CatchUp(w) \/ Healed(w) \/ Finish(w) \/ Fail(w) \/ Die(w)
    <3>1. worker'[w].pc \in Healing \union {"idle", "down"}
      BY <2>2, Aside
    <3> QED BY <3>1 DEF Fresh
  <2>5. CASE Claim(w)
    <3>1. PICK r \in Rows : worker' = [worker EXCEPT ![w].pc = "check", ![w].row = r]
      BY <2>5 DEF Claim
    <3>2. worker'[w].pc = "check"
      BY <3>1 DEF IInv, TypeOK
    <3> QED BY <3>2 DEF Fresh
  <2>3. CASE \E pc \in {"idle", "finish", "error", "next", "record", "keep", "end"} : Goto(w, pc)
    BY <2>1, <2>3 DEF Fresh
  <2>4. CASE Failed(w) /\ Goto(w, "defer")
    BY <2>1, <2>4 DEF Fresh
  <2> QED BY <2>2, <2>3, <2>4, <2>5 DEF Defer, Repair, Persist, Record, Failed, NextStep, SetDeal,
                                  EnqueueThen, Mark
<1>2. Failed(w) /\ Goto(w, "defer") => delivery'[ItemOf(w)'] # "sending"
  <2> SUFFICES ASSUME Failed(w), Goto(w, "defer") PROVE delivery'[ItemOf(w)'] # "sending"
    OBVIOUS
  <2>1. ItemOf(w)' = ItemOf(w) /\ ItemOf(w) \in Items
    BY Gone, HoldsRow DEF Failed, At, ItemOf, RowOf, IInv
  <2>2. worker'[w].pc # "error"
    BY Gone DEF IInv
  <2>3. delivery' = [delivery EXCEPT ![ItemOf(w)] = "failed"]
    BY <2>2, Gone DEF Failed, Mark, IInv
  <2> QED BY <2>1, <2>3 DEF IInv, TypeOK
<1> DEFINE Kept(y) ==
       /\ delivery'[y] = "stopped" => delivery[y] = "stopped"
       /\ ~Media(y) /\ sends[y] > 0 /\ delivery[y] \in {"sending", "sent"} =>
            message[y] \/ delivery'[y] \in {"sending", "sent"}
<1>3. \A y \in Items : Kept(y)
  <2>1. ASSUME NEW x \in Items, Enqueue(x), Media(x) \/ message[x] \/ delivery[x] # "sending"
        PROVE  \A y \in Items : Kept(y)
    BY <2>1, EnqueueStopsNone
  <2>2. CASE CatchUp(w)
    <3>1. 0 \in Steps
      BY FollowUpAssumption DEF FollowUpAssumption, Steps
    <3>2. \A d \in worker[w].left : <<d, 0>> \in Items
      BY <3>1 DEF Items, IInv, TypeOK
    <3>3. \A d \in worker[w].left : ~Held(d) => delivery[<<d, 0>>] # "sending"
      BY <3>1 DEF Held
    <3> QED BY <2>1, <2>2, <3>2, <3>3 DEF CatchUp
  <2>3. CASE Defer(w)
    <3>1. ItemOf(w) \in Items /\ (message[ItemOf(w)] \/ delivery[ItemOf(w)] # "sending")
      BY <2>3, HoldsRow DEF Defer, At, WithheldInv
    <3> QED BY <2>1, <2>3, <3>1 DEF Defer, EnqueueThen
  <2>4. CASE NextStep(w)
    <3>1. StepOf(w) # LastStep => /\ <<DealOf(w), StepOf(w) + 1>> \in Items
                                  /\ Media(<<DealOf(w), StepOf(w) + 1>>)
      BY <2>4, HoldsRow, FollowUpAssumption
         DEF FollowUpAssumption, NextStep, At, Items, Steps, Media, TextFirst
    <3> QED BY <2>1, <2>4, <3>1 DEF NextStep, EnqueueThen
  <2>5. CASE Repair(w) \/ Record(w)
    <3>1. \/ UNCHANGED delivery
          \/ delivery' = [delivery EXCEPT ![ItemOf(w)] = "sent"]
      BY <2>5 DEF Repair, Record, Mark
    <3> QED BY <3>1 DEF IInv, TypeOK
  <2>6. CASE Failed(w)
    <3>1. sends[ItemOf(w)] = 0
      BY <2>6 DEF Failed, At, WithheldInv, Fresh
    <3>2. \/ UNCHANGED delivery
          \/ delivery' = [delivery EXCEPT ![ItemOf(w)] = "failed"]
      BY <2>6 DEF Failed, Mark
    <3> QED BY <3>1, <3>2 DEF IInv, TypeOK
  <2> QED BY <2>2, <2>3, <2>4, <2>5, <2>6 DEF Start, ListFailed, RecoverRow, ResetOrdinary,
         Survey, Healed, Claim, Persist, SetDeal, Finish, Fail, Die, tables
<1>4. ASSUME NEW v \in Workers
      PROVE  /\ worker'[v].pc \notin Fresh \union {"click"}
             /\ worker'[v].pc = "defer" => delivery'[ItemOf(v)'] # "sending"
  BY <1>1, <1>2 DEF OneDaemon
<1>5. \A v \in Workers : worker'[v].pc # "text"
  BY <1>4 DEF Fresh
<1> QED
  <2>1. ASSUME NEW y \in Items PROVE Kept(y)
    BY <1>3
  <2> HIDE DEF Fresh
  <2> QED BY <1>0, <1>4, <1>5, <2>1, WithheldFrame

\* What the daemon's own row and item are while it stays at work.
LEMMA SameItem ==
  ASSUME IInv, NEW w \in Workers, NEW pc \in PCs, Goto(w, pc),
         \A r \in Rows : row'[r].item = row[r].item, worker[w].pc \in AtRow
  PROVE  ItemOf(w)' = ItemOf(w) /\ ItemOf(w) \in Items /\ worker'[w].pc = pc
  BY Gone, HoldsRow DEF ItemOf, RowOf, IInv

\* The way to the send: the step is fresh at every stop of it.
LEMMA WithheldCheck ==
  ASSUME TextFirst, IInv, WithheldInv, NEW w \in Workers, OneDaemon, Check(w)
  PROVE  WithheldInv'
<1> USE DEF PCs, AtRow, Healing
<1> DEFINE x == ItemOf(w)
           r == RowOf(w)
<1>1. r \in Rows /\ x \in Items /\ x = row[r].item
  BY HoldsRow DEF ItemOf, Check, At
<1>2. UNCHANGED <<sends, delivery, message, row>>
  BY DEF Check
<1>3. PICK pc \in {"error", "finish", "defer", "repair", "dedup", "prepare"} : Goto(w, pc)
  BY DEF Check, Early
<1>4. ItemOf(w)' = x /\ worker'[w].pc = pc
  BY <1>2, <1>3, SameItem DEF Check, At
<1>5. pc \in {"dedup", "prepare"} => ~Evidence(r) /\ ~StepSent(x) /\ ~Unresolved /\ delivery[x] # "sending"
  <2>1. ASSUME NEW p \in PCs, Goto(w, p) PROVE p = pc
    BY <1>4, <2>1, Gone DEF IInv
  <2> QED BY <1>3, <2>1 DEF Check, Early
<1>6. pc \in {"dedup", "prepare"} => sends[x] = 0
  <2> SUFFICES ASSUME pc \in {"dedup", "prepare"} PROVE sends[x] = 0
    OBVIOUS
  <2>1. ~message[x] /\ \A q \in Rows : row[q].marked => message[row[q].item]
    BY <1>5 DEF StepSent, Unresolved, Evidence
  <2>2. sends[x] \in Nat
    BY <1>1 DEF IInv, TypeOK
  <2>3. CASE Media(x)
    BY <1>1, <2>1, <2>2, <2>3 DEF IInv, Accounted
  <2>4. CASE ~Media(x)
    BY <1>1, <1>5, <2>1, <2>2, <2>4 DEF WithheldInv, StepSent
  <2> QED BY <2>3, <2>4
<1>7. pc = "defer" => message[x] \/ delivery[x] # "sending"
  <2> SUFFICES ASSUME pc = "defer" PROVE message[x] \/ delivery[x] # "sending"
    OBVIOUS
  <2>1. ASSUME NEW p \in PCs, Goto(w, p) PROVE p = "defer"
    BY <1>4, <2>1, Gone DEF IInv
  <2>2. ~Evidence(r) /\ ~(~(Evidence(r) \/ StepSent(x)) /\ delivery[x] = "sending")
    BY <2>1 DEF Check, Early
  <2> QED BY <2>2 DEF StepSent
<1>8. pc \in Fresh => pc \in {"dedup", "prepare"}
  BY <1>3 DEF Fresh
<1>9. \A v \in Workers : v = w
  BY DEF OneDaemon
<1> QED BY <1>2, <1>3, <1>4, <1>6, <1>7, <1>8, <1>9, WithheldFrame

LEMMA WithheldOnTheWay ==
  ASSUME IInv, WithheldInv, NEW w \in Workers, OneDaemon,
         \/ Dedup(w) \/ Prepare(w) \/ Stamp(w) \/ PreSubmitFailure(w) \/ Blocked(w) \/ Withhold(w)
  PROVE  WithheldInv'
<1> USE DEF PCs, AtRow, Healing
<1> DEFINE x == ItemOf(w)
           r == RowOf(w)
<1>1. UNCHANGED <<sends, message>>
  BY DEF Dedup, Prepare, Stamp, PreSubmitFailure, Blocked, Withhold, tables
<1>2. worker[w].pc \in Fresh /\ worker[w].pc \in AtRow
  BY DEF Dedup, Prepare, Stamp, PreSubmitFailure, Blocked, Withhold, At, Fresh
<1>3. r \in Rows /\ x \in Items /\ x = row[r].item /\ sends[x] = 0
  BY <1>2, HoldsRow DEF ItemOf, WithheldInv
<1>4. \A q \in Rows : row'[q].item = row[q].item
  <2>1. \/ UNCHANGED row
        \/ row' = [row EXCEPT ![r].marked = TRUE]
    BY DEF Dedup, Prepare, Stamp, PreSubmitFailure, Blocked, Withhold, tables
  <2> QED BY <1>3, <2>1 DEF IInv, TypeOK
<1>5. PICK pc \in PCs \ {"defer"} : Goto(w, pc)
  <2>1. CASE Dedup(w) \/ Prepare(w) \/ Withhold(w) \/ Blocked(w)
    BY <2>1 DEF Dedup, Prepare, Withhold, Blocked, Mark
  <2>2. CASE Stamp(w) \/ PreSubmitFailure(w)
    BY <2>2 DEF Stamp, PreSubmitFailure, GuardedTo
  <2> QED BY <2>1, <2>2
<1>6. ItemOf(w)' = x /\ worker'[w].pc = pc
  BY <1>2, <1>4, <1>5, SameItem
<1>7. ASSUME NEW p \in PCs, Goto(w, p) PROVE p = pc
  BY <1>6, <1>7, Gone DEF IInv
<1>8. \A y \in Items : y # x => delivery'[y] = delivery[y]
  <2>1. \/ UNCHANGED delivery
        \/ \E s \in {"stopped", "sending"} : delivery' = [delivery EXCEPT ![x] = s]
    BY DEF Dedup, Prepare, Stamp, PreSubmitFailure, Blocked, Withhold, Mark, tables
  <2> QED BY <1>3, <2>1 DEF IInv, TypeOK
<1>9. pc = "click" => delivery'[x] # "stopped"
  <2> SUFFICES ASSUME pc = "click" PROVE delivery'[x] # "stopped"
    OBVIOUS
  <2>1. Stamp(w)
    <3>1. ~Dedup(w) /\ ~Withhold(w) /\ ~Prepare(w) /\ ~Blocked(w)
      BY <1>7 DEF Dedup, Withhold, Prepare, Blocked, Mark
    <3>2. ~PreSubmitFailure(w)
      BY <1>7 DEF PreSubmitFailure, GuardedTo
    <3> QED BY <3>1, <3>2
  <2>2. Guard(r) = "pass"
    BY <1>7, <2>1 DEF Stamp, GuardedTo
  <2> QED BY <1>3, <2>1, <2>2 DEF Guard, Unusable, Stamp
<1>10. pc = "text" => delivery'[x] = "sending"
  <2> SUFFICES ASSUME pc = "text" PROVE delivery'[x] = "sending"
    OBVIOUS
  <2>1. Prepare(w)
    <3>1. ~Dedup(w) /\ ~Withhold(w) /\ ~Blocked(w)
      BY <1>7 DEF Dedup, Withhold, Blocked, Mark
    <3>2. ~Stamp(w) /\ ~PreSubmitFailure(w)
      BY <1>7 DEF Stamp, PreSubmitFailure, GuardedTo
    <3> QED BY <3>1, <3>2
  <2>2. delivery' = [delivery EXCEPT ![x] = "sending"]
    BY <1>7, <2>1 DEF Prepare, Mark
  <2> QED BY <1>3, <2>2 DEF IInv, TypeOK
<1>11. \A v \in Workers : v = w
  BY DEF OneDaemon
<1>12. \A y \in Items :
         /\ delivery'[y] = "stopped" => delivery[y] = "stopped" \/ sends[y] = 0
         /\ ~Media(y) /\ sends[y] > 0 /\ delivery[y] \in {"sending", "sent"} =>
              delivery'[y] \in {"sending", "sent"}
  BY <1>3, <1>8
<1> HIDE DEF x
<1> QED BY <1>1, <1>3, <1>5, <1>6, <1>9, <1>10, <1>11, <1>12, WithheldFrame

\* The send itself: its receipt is not stopped, and the daemon is not fresh afterwards,
\* unless a text told that it failed.
LEMMA WithheldClick ==
  ASSUME TextFirst, IInv, WithheldInv, NEW w \in Workers, OneDaemon, Click(w) \/ Text(w)
  PROVE  WithheldInv'
<1> USE DEF PCs, AtRow, Healing
<1> DEFINE x == ItemOf(w)
<1>1. UNCHANGED <<delivery, message, row>> /\ delivery[x] # "stopped" /\ x \in Items
  BY HoldsRow DEF Click, Text, WithheldInv, tables, At
<1>2. \A v \in Workers : v = w
  BY DEF OneDaemon
<1>3. CASE Click(w)
  <2>1. Media(x)
    <3>1. row[RowOf(w)].marked
      BY <1>3 DEF Click, IInv, WorkerInv, Undecided
    <3> QED BY <1>3, <3>1, HoldsRow DEF Click, At, IInv, RowInv, ItemOf
  <2>2. /\ \E pc \in {"persist", "error"} : Goto(w, pc)
        /\ sends' = [sends EXCEPT ![x] = @ + 1] \/ sends' = sends
    BY <1>3 DEF Click
  <2>3. worker'[w].pc \in {"persist", "error"}
    BY <2>2, Gone DEF IInv
  <2>4. \A y \in Items : y # x => sends'[y] = sends[y]
    BY <2>2 DEF IInv, TypeOK
  <2> QED BY <1>1, <1>2, <2>1, <2>3, <2>4 DEF WithheldInv, Fresh, At, Media
<1>4. CASE Text(w)
  <2>1. delivery[x] = "sending" /\ sends[x] = 0
    BY <1>4 DEF Text, At, WithheldInv, Fresh
  <2>2. ~Deaf
    <3>1. At(w, "text") /\ ~Media(x)
      BY <1>4 DEF Text, IInv, WorkerInv
    <3> QED BY <1>1, <3>1, ItemParts DEF TextFirst, Media
  <2>3. /\ \A y \in Items : y # x => sends'[y] = sends[y]
        /\ worker'[w].pc = "persist" \/ (worker'[w].pc = "failed" /\ sends'[x] = 0 /\ ItemOf(w)' = x)
    <3>1. PICK tried \in 1..Routes, silent \in 0..(IF Deaf THEN Routes ELSE 0), worked \in BOOLEAN :
            /\ sends' = [sends EXCEPT ![x] = @ + silent + (IF worked THEN 1 ELSE 0)]
            /\ IF worked THEN Goto(w, "persist") /\ UNCHANGED count
               ELSE count["fails"] < MaxFails /\ Count("fails") /\ Goto(w, "failed")
      BY <1>4 DEF Text
    <3>2. silent = 0
      BY <2>2, <3>1
    <3>3. \A y \in Items : y # x => sends'[y] = sends[y]
      BY <3>1 DEF IInv, TypeOK
    <3>4. CASE worked
      BY <3>1, <3>3, <3>4, Gone DEF IInv
    <3>5. CASE ~worked
      <4>1. Goto(w, "failed")
        BY <3>1, <3>5
      <4>2. worker'[w].pc = "failed" /\ ItemOf(w)' = x
        BY <1>1, <1>4, <4>1, SameItem DEF Text, At
      <4>3. sends'[x] = 0
        BY <1>1, <2>1, <3>1, <3>2, <3>5 DEF IInv, TypeOK
      <4> QED BY <3>3, <4>2, <4>3
    <3> QED BY <3>4, <3>5
  <2> QED BY <1>1, <1>2, <2>1, <2>3 DEF WithheldInv, Fresh, At, Media
<1> QED BY <1>3, <1>4

\* SingleInstanceGuard keeps the sender to one daemon; then a receipt that says stopped
\* is of a step LinkedIn never got, and that the daemon is not about to click.
THEOREM StoppedIsUnsentTheorem == TextFirst /\ OneDaemon => (Spec => []StoppedIsUnsent)
<1> SUFFICES ASSUME TextFirst, OneDaemon PROVE Spec => []StoppedIsUnsent
  OBVIOUS
<1>1. Init => WithheldInv
  BY DEF Init, WithheldInv, Fresh, At
<1>2. IInv /\ WithheldInv /\ [Next]_vars => WithheldInv'
  <2> SUFFICES ASSUME IInv, WithheldInv, [Next]_vars PROVE WithheldInv'
    OBVIOUS
  <2>1. ASSUME NEW w \in Workers, Work(w) \/ Die(w)
        PROVE  WithheldInv'
    BY <2>1, WithheldAside, WithheldCheck, WithheldOnTheWay, WithheldClick DEF Work
  <2> QED BY <2>1, WithheldOutside DEF Next
<1>3. IInv /\ WithheldInv => StoppedIsUnsent
  BY DEF WithheldInv, StoppedIsUnsent
<1>4. Spec => []ResetsOrdinary
  BY OrdinaryResets
<1> QED BY Invariance, <1>1, <1>2, <1>3, <1>4, PTL DEF Spec

------------------------------------------------------------------------------
(* The lane implements AtMostOnce. *)

PromiseStep == [Promise!Next]_(Promise!vars)

\* The marked rows of a step.
Own(x) == {r \in Rows : row[r].item = x /\ row[r].marked}

\* The table as the promise sees it: undecided rows keep their markers, no row gets one,
\* and no receipt becomes stopped or stops being it.
Settles ==
  /\ UNCHANGED <<message, sends>>
  /\ \A r \in Rows :
       /\ Undecided(r) => row'[r].marked /\ row'[r].item = row[r].item
       /\ row'[r].marked => row[r].marked /\ row'[r].item = row[r].item
  /\ \A x \in Items : delivery'[x] = "stopped" <=> delivery[x] = "stopped"

\* Phase by its parts.
LEMMA PhaseIs ==
  ASSUME NEW x
  PROVE  /\ message[x] \/ Own(x) # {} => Phase(x) = "closed"
         /\ ~message[x] /\ Own(x) = {} =>
              Phase(x) = IF delivery[x] = "stopped" THEN "withheld" ELSE "unsent"
  BY DEF Phase, Own

LEMMA PhaseIsNext ==
  ASSUME NEW x
  PROVE  /\ message'[x] \/ Own(x)' # {} => Phase(x)' = "closed"
         /\ ~message'[x] /\ Own(x)' = {} =>
              Phase(x)' = IF delivery'[x] = "stopped" THEN "withheld" ELSE "unsent"
  BY DEF Phase, Own

\* The promise sees nothing of such a step.
LEMMA SettleStep ==
  ASSUME Settles
  PROVE  PromiseStep
<1> DEFINE phase == [x \in Items |-> Phase(x)]
           delivered == sends
<1>1. ASSUME NEW x \in Items
      PROVE  Phase(x)' = Phase(x)
  <2>1. CASE message[x]
    BY <2>1, PhaseIs, PhaseIsNext DEF Settles
  <2>2. CASE ~message[x]
    <3>1. \A r \in Own(x) : Undecided(r)
      BY <2>2 DEF Own, Undecided
    <3>2. Own(x)' = Own(x)
      BY <3>1 DEF Own, Settles
    <3>3. ~message'[x] /\ (delivery'[x] = "stopped" <=> delivery[x] = "stopped")
      BY <2>2 DEF Settles
    <3> QED BY <2>2, <3>2, <3>3, PhaseIs, PhaseIsNext
  <2> QED BY <2>1, <2>2
<1>2. phase' = phase /\ delivered' = delivered
  BY <1>1 DEF Settles
<1> QED BY <1>2 DEF PromiseStep, Promise!vars

\* A receipt that a daemon writes: withheld if nothing is marked, otherwise no change.
LEMMA MarkPromise ==
  ASSUME IInv, NEW x \in Items, UNCHANGED <<row, message, sends>>,
         \/ UNCHANGED delivery
         \/ \E s \in DeliveryStatus : /\ delivery' = [delivery EXCEPT ![x] = s]
                                      /\ delivery[x] \notin {"sent", "stopped"} \ {s}
  PROVE  PromiseStep
<1> DEFINE phase == [y \in Items |-> Phase(y)]
           delivered == sends
<1>1. CASE \A y \in Items : delivery'[y] = "stopped" <=> delivery[y] = "stopped"
  BY <1>1, SettleStep DEF Settles, Undecided
<1>2. CASE ~ \A y \in Items : delivery'[y] = "stopped" <=> delivery[y] = "stopped"
  <2>1. /\ delivery' = [delivery EXCEPT ![x] = "stopped"] /\ delivery[x] # "stopped"
    BY <1>2 DEF IInv, TypeOK
  <2>2. /\ \A y \in Items : y # x => delivery'[y] = delivery[y]
        /\ delivery'[x] = "stopped"
    BY <2>1 DEF IInv, TypeOK
  <2>3. \A y \in Items : Own(y)' = Own(y)
    BY DEF Own
  <2>4. ASSUME NEW y \in Items, y # x PROVE Phase(y)' = Phase(y)
    BY <2>2, <2>4 DEF Phase
  <2>5. CASE ~message[x] /\ Own(x) = {}
    <3>1. phase[x] = "unsent" /\ Phase(x)' = "withheld"
      BY <2>1, <2>2, <2>3, <2>5, PhaseIs, PhaseIsNext
    <3>2. phase' = [phase EXCEPT ![x] = "withheld"]
      BY <2>4, <3>1
    <3>3. Promise!Withhold(x)
      BY <3>1, <3>2 DEF Promise!Withhold
    <3> QED BY <3>3 DEF PromiseStep, Promise!Next
  <2>6. CASE message[x] \/ Own(x) # {}
    <3>1. Phase(x)' = Phase(x)
      BY <2>6 DEF Phase, Own
    <3>2. phase' = phase /\ delivered' = delivered
      BY <2>4, <3>1
    <3> QED BY <3>2 DEF PromiseStep, Promise!vars
  <2> QED BY <2>5, <2>6
<1> QED BY <1>1, <1>2

\* Queueing a step that is not stopped: its row is new or has no undecided marker.
LEMMA EnqueuePromise ==
  ASSUME IInv, NEW x \in Items, Enqueue(x), delivery[x] # "stopped", UNCHANGED <<message, sends>>
  PROVE  PromiseStep
<1>1. PICK r \in (Open(x) \union Free) :
        /\ row' = [row EXCEPT ![r] = [status |-> "pending", item |-> x, marked |-> FALSE]]
        /\ delivery' = [delivery EXCEPT ![x] = BoundStatus(x)]
  BY DEF Enqueue
<1>2. r \in Rows /\ ~Undecided(r)
  BY <1>1 DEF Open, Free, IInv, RowInv, Undecided
<1>3. /\ \A q \in Rows : q # r => row'[q] = row[q]
      /\ row'[r].marked = FALSE
  BY <1>1, <1>2 DEF IInv, TypeOK
<1>4. \A y \in Items : delivery'[y] = "stopped" <=> delivery[y] = "stopped"
  BY <1>1 DEF BoundStatus, IInv, TypeOK
<1>5. Settles
  BY <1>2, <1>3, <1>4 DEF Settles, Undecided
<1> QED BY <1>5, SettleStep
\* The marker closes the step: it had none, no Message and no stopped receipt.
LEMMA StampPromise ==
  ASSUME IInv, NEW w \in Workers, Stamp(w), row' # row
  PROVE  PromiseStep
<1> DEFINE r == RowOf(w)
           x == row[r].item
           phase == [y \in Items |-> Phase(y)]
           delivered == sends
<1>1. /\ worker[w].pc \in AtRow /\ UNCHANGED <<delivery, message, sends>>
      /\ Stampable(r) /\ Guard(r) = "pass"
      /\ row' = [row EXCEPT ![r].marked = TRUE]
  BY DEF Stamp, GuardedTo, At, AtRow, PCs, Healing
<1>2. r \in Rows /\ x \in Items
  BY <1>1, HoldsRow DEF ItemOf
<1>3. ~Unresolved /\ ~message[x] /\ delivery[x] # "stopped" /\ row[r].status = "running"
  BY <1>1 DEF Guard, StepSent, Unusable, Stampable
<1>4. \A q \in Rows : /\ row'[q].item = row[q].item /\ row'[q].status = row[q].status
                      /\ row'[q].marked <=> (row[q].marked \/ q = r)
  BY <1>1, <1>2 DEF IInv, TypeOK
<1>5. Own(x) = {}
  BY <1>3 DEF Own, Unresolved, Evidence
<1>6. phase[x] = "unsent"
  BY <1>2, <1>3, <1>5, PhaseIs
<1>7. ASSUME NEW y, y = x PROVE Phase(y)' = "closed"
  <2>1. r \in Own(y)'
    BY <1>2, <1>4, <1>7 DEF Own
  <2> QED BY <2>1, PhaseIsNext
<1>8. ASSUME NEW y \in Items, y # x PROVE Phase(y)' = Phase(y)
  <2>1. Own(y)' = Own(y)
    BY <1>2, <1>4, <1>8 DEF Own
  <2>2. message'[y] = message[y] /\ delivery'[y] = delivery[y]
    BY <1>1
  <2> QED BY <2>1, <2>2, PhaseIs, PhaseIsNext
<1>9. \A y \in Items : Phase(y)' = IF y = x THEN "closed" ELSE Phase(y)
  BY <1>7, <1>8
<1>10. phase' = [phase EXCEPT ![x] = "closed"]
  BY <1>9
<1>11. delivered' = delivered
  BY <1>1
<1>12. Promise!Close(x)
  BY <1>6, <1>10, <1>11 DEF Promise!Close
<1> QED BY <1>2, <1>12 DEF PromiseStep, Promise!Next

\* The click delivers the undecided step, or nothing.
LEMMA ClickPromise ==
  ASSUME IInv, NEW w \in Workers, Click(w)
  PROVE  PromiseStep
<1> DEFINE x == ItemOf(w)
           phase == [y \in Items |-> Phase(y)]
           delivered == sends
<1>1. /\ worker[w].pc = "click" /\ worker[w].pc \in AtRow
      /\ UNCHANGED <<row, delivery, message>>
      /\ sends' = [sends EXCEPT ![x] = @ + 1] \/ sends' = sends
  BY DEF Click, At, AtRow, PCs, Healing, tables
<1>2. /\ x \in Items /\ RowOf(w) \in Own(x) /\ sends[x] = 0
  BY <1>1, HoldsRow DEF IInv, WorkerInv, At, ItemOf, Undecided, Own
<1>3. \A y : Phase(y)' = Phase(y)
  BY <1>1 DEF Phase
<1>4. phase' = phase
  BY <1>3
<1>5. phase[x] = "closed"
  BY <1>2, PhaseIs
<1>6. CASE sends' = sends
  BY <1>4, <1>6 DEF PromiseStep, Promise!vars
<1>7. CASE sends' = [sends EXCEPT ![x] = @ + 1]
  <2>1. sends' = [sends EXCEPT ![x] = 1]
    BY <1>2, <1>7 DEF IInv, TypeOK
  <2>2. Promise!Deliver(x)
    BY <1>2, <1>4, <1>5, <2>1 DEF Promise!Deliver
  <2> QED BY <1>2, <2>2 DEF PromiseStep, Promise!Next
<1> QED BY <1>1, <1>6, <1>7

\* The Message is of a step that is closed.
LEMMA PersistPromise ==
  ASSUME AllMedia, IInv, NEW w \in Workers, Persist(w)
  PROVE  PromiseStep
<1> DEFINE x == ItemOf(w)
           phase == [y \in Items |-> Phase(y)]
           delivered == sends
<1>1. /\ worker[w].pc = "persist" /\ worker[w].pc \in AtRow
      /\ UNCHANGED <<row, delivery, sends>>
      /\ message' = [message EXCEPT ![x] = TRUE] \/ message' = message
  BY DEF Persist, At, AtRow, PCs, Healing
<1>2. x \in Items /\ sends[x] > 0 /\ Media(x)
  BY <1>1, HoldsRow, ItemParts DEF IInv, WorkerInv, At, AllMedia, Media
<1>3. message[x] \/ Own(x) # {}
  BY <1>2 DEF IInv, Accounted, Own
<1>4. \A y \in Items : /\ message[y] => message'[y]
                       /\ message'[y] => message[y] \/ y = x
  BY <1>1, <1>2 DEF IInv, TypeOK
<1>5. ASSUME NEW y \in Items PROVE Phase(y)' = Phase(y)
  <2>1. Own(y)' = Own(y) /\ delivery'[y] = delivery[y]
    BY <1>1 DEF Own
  <2> QED BY <1>3, <1>4, <2>1, PhaseIs, PhaseIsNext
<1>6. phase' = phase /\ delivered' = delivered
  BY <1>1, <1>5
<1> QED BY <1>6 DEF PromiseStep, Promise!vars

\* The four places that queue a step: none queues a stopped delivery.
LEMMA QueuePromise ==
  ASSUME IInv,
         \/ \E d \in Deals : Accept(d)
         \/ \E w \in Workers : CatchUp(w) \/ Defer(w) \/ NextStep(w)
  PROVE  PromiseStep
<1>1. UNCHANGED <<message, sends>>
  BY DEF Accept, CatchUp, Defer, NextStep
<1>2. CASE UNCHANGED <<row, delivery>>
  BY <1>1, <1>2, SettleStep DEF Settles, Undecided
<1>3. ASSUME NEW x \in Items, Enqueue(x), delivery[x] # "stopped"
      PROVE  PromiseStep
  BY <1>1, <1>3, EnqueuePromise
<1>4. ASSUME NEW d \in Deals
      PROVE  <<d, 0>> \in Items /\ <<d, 0>>[1] = d /\ 0 \in Steps
  BY FollowUpAssumption DEF FollowUpAssumption, Items, Steps
<1>5. ASSUME NEW d \in Deals, Accept(d)
      PROVE  PromiseStep
  <2>1. delivery[<<d, 0>>] = "none"
    BY <1>4, <1>5 DEF Accept, IInv, DeliveryInv, Begun
  <2> QED BY <1>2, <1>3, <1>4, <1>5, <2>1 DEF Accept
<1>6. ASSUME NEW w \in Workers, CatchUp(w)
      PROVE  PromiseStep
  <2>1. PICK d \in worker[w].left :
          (~Held(d) /\ Enqueue(<<d, 0>>)) \/ UNCHANGED <<row, delivery, bound>>
    BY <1>6 DEF CatchUp
  <2>2. d \in Deals
    BY DEF IInv, TypeOK
  <2>3. ~Held(d) => delivery[<<d, 0>>] # "stopped"
    BY <1>4, <2>2 DEF Held
  <2> QED BY <1>2, <1>3, <1>4, <2>1, <2>2, <2>3
<1>7. ASSUME NEW w, NEW then, NEW x \in Items, EnqueueThen(x, w, then)
      PROVE  PromiseStep
  BY <1>2, <1>3, <1>7 DEF EnqueueThen
<1>8. ASSUME NEW w \in Workers, Defer(w)
      PROVE  PromiseStep
  <2>1. ItemOf(w) \in Items /\ EnqueueThen(ItemOf(w), w, "finish")
    BY <1>8, HoldsRow DEF Defer, At, AtRow, PCs, Healing
  <2> QED BY <1>7, <2>1
<1>9. ASSUME NEW w \in Workers, NextStep(w)
      PROVE  PromiseStep
  <2>1. DealOf(w) \in Deals /\ StepOf(w) \in Steps
    BY <1>9, HoldsRow DEF NextStep, At, AtRow, PCs, Healing
  <2>2. StepOf(w) # LastStep => <<DealOf(w), StepOf(w) + 1>> \in Items
    BY <2>1, FollowUpAssumption DEF FollowUpAssumption, Items, Steps
  <2> QED BY <1>2, <1>7, <1>9, <2>2 DEF NextStep
<1> QED BY <1>5, <1>6, <1>8, <1>9

\* Steps that write a receipt of their row, or none.
LEMMA ReceiptPromise ==
  ASSUME IInv, NEW w \in Workers,
         \/ Check(w) \/ Dedup(w) \/ Repair(w) \/ Prepare(w) \/ PreSubmitFailure(w) \/ Blocked(w)
         \/ Withhold(w) \/ Record(w) \/ Failed(w) \/ SetDeal(w) \/ Healed(w) \/ Die(w)
         \/ Stamp(w) /\ UNCHANGED row
  PROVE  PromiseStep
<1>1. UNCHANGED <<row, message, sends>>
  BY DEF Check, Dedup, Repair, Prepare, PreSubmitFailure, Blocked, Withhold, Record, Failed,
         SetDeal, Healed, Die, Stamp, tables
<1>2. CASE UNCHANGED delivery
  BY <1>1, <1>2, SettleStep DEF Settles, Undecided
<1>3. CASE Dedup(w) \/ Repair(w) \/ Prepare(w) \/ Withhold(w) \/ Record(w) \/ Failed(w)
  <2>1. ItemOf(w) \in Items
    BY <1>3, HoldsRow DEF Dedup, Repair, Prepare, Withhold, Record, Failed, At, AtRow, PCs, Healing
  <2>2. \/ UNCHANGED delivery
        \/ \E s \in DeliveryStatus : /\ delivery' = [delivery EXCEPT ![ItemOf(w)] = s]
                                     /\ delivery[ItemOf(w)] \notin {"sent", "stopped"} \ {s}
    <3>1. UNCHANGED delivery \/ \E s \in {"stopped", "sent", "failed", "sending"}, then \in PCs :
                                  Mark(ItemOf(w), s, w, then)
      BY <1>3 DEF Dedup, Repair, Prepare, Withhold, Record, Failed, PCs
    <3> QED BY <3>1 DEF Mark, DeliveryStatus
  <2> QED BY <1>1, <2>1, <2>2, MarkPromise
<1> QED BY <1>2, <1>3 DEF Check, PreSubmitFailure, Blocked, SetDeal, Healed, Die, Stamp, tables

\* Steps that move rows only: every row keeps its delivery and its marker.
LEMMA RowPromise ==
  ASSUME IInv,
         \/ Retire \/ UNCHANGED vars \/ Stop \/ Drip
         \/ \E w \in Workers : \/ Start(w) \/ ListFailed(w) \/ RecoverRow(w) \/ ResetOrdinary(w)
                             \/ Survey(w) \/ Claim(w) \/ Finish(w) \/ Fail(w)
  PROVE  PromiseStep
<1>1. UNCHANGED <<delivery, message, sends>>
  BY DEF Retire, vars, Stop, Drip, Start, ListFailed, RecoverRow, ResetOrdinary, Survey, Claim,
         Finish, Fail, tables
<1>2. ASSUME NEW r \in Rows
      PROVE  row'[r].item = row[r].item /\ row'[r].marked = row[r].marked
  <2>1. CASE UNCHANGED row
    BY <2>1
  <2>2. ASSUME NEW s, row'[r] = [row[r] EXCEPT !.status = s] \/ row'[r] = row[r]
        PROVE  row'[r].item = row[r].item /\ row'[r].marked = row[r].marked
    BY <2>2 DEF IInv, TypeOK
  <2>3. ASSUME NEW q, NEW s, row' = [row EXCEPT ![q].status = s]
        PROVE  row'[r].item = row[r].item /\ row'[r].marked = row[r].marked
    BY <2>3 DEF IInv, TypeOK
  <2>4. CASE Retire
    BY <2>2, <2>4 DEF Retire
  <2>5. ASSUME NEW w \in Workers, ResetOrdinary(w)
        PROVE  row'[r].item = row[r].item /\ row'[r].marked = row[r].marked
    BY <2>2, <2>5 DEF ResetOrdinary
  <2>6. ASSUME NEW w \in Workers, RecoverRow(w) \/ Claim(w) \/ Finish(w) \/ Fail(w)
        PROVE  \E q, s : row' = [row EXCEPT ![q].status = s]
    BY <2>6 DEF RecoverRow, Claim, Finish, Fail
  <2> QED BY <2>1, <2>3, <2>4, <2>5, <2>6
          DEF vars, Stop, Drip, Start, ListFailed, Survey, tables
<1>3. Settles
  BY <1>1, <1>2 DEF Settles, Undecided
<1> QED BY <1>3, SettleStep

\* Every step of the lane is a step of the promise or a stutter.
LEMMA StepPromise ==
  ASSUME AllMedia, IInv, [Next]_vars
  PROVE  PromiseStep
<1>1. ASSUME NEW w \in Workers, Stamp(w) PROVE PromiseStep
  BY <1>1, StampPromise, ReceiptPromise
<1>2. ASSUME NEW w \in Workers, Text(w) PROVE PromiseStep
  <2>1. ItemOf(w) \in Items /\ ~Media(ItemOf(w))
    BY <1>2, HoldsRow DEF Text, IInv, WorkerInv, At, AtRow, PCs, Healing
  <2> QED BY <2>1, ItemParts DEF AllMedia, Media
<1>3. ASSUME NEW w \in Workers, Work(w) \/ Die(w) PROVE PromiseStep
  BY <1>1, <1>2, <1>3, ClickPromise, PersistPromise, QueuePromise, ReceiptPromise, RowPromise
  DEF Work
<1> QED BY <1>3, QueuePromise, RowPromise DEF Next

\* The lane starts where the promise starts.
LEMMA InitPromise ==
  ASSUME Init
  PROVE  Promise!Init
<1>1. \A x \in Items : Phase(x) = "unsent"
  BY DEF Init, Phase
<1> QED BY <1>1 DEF Init, Promise!Init

\* follow_up.py, follow_up_submission.py: with attachments every step is an attempt that
\* is recorded before LinkedIn can see it, is never taken back, and is delivered at most
\* once, for any number of daemons, campaigns, rows and deaths, as long as a start resets
\* ordinary rows only; it does when no daemon hangs or there is one.
THEOREM Refinement ==
  /\ AllMedia => (Spec /\ []ResetsOrdinary => Implements)
  /\ AllMedia /\ (~Hung \/ OneDaemon) => (Spec => Implements)
<1> SUFFICES ASSUME AllMedia
    PROVE  /\ Spec /\ []ResetsOrdinary => Implements
           /\ ~Hung \/ OneDaemon => (Spec => Implements)
  OBVIOUS
<1>1. Init => Promise!Init
  BY InitPromise
<1>2. IInv /\ [Next]_vars => [Promise!Next]_(Promise!vars)
  BY StepPromise DEF PromiseStep
<1>3. Spec /\ []ResetsOrdinary => Implements
  BY Invariance, <1>1, <1>2, PTL DEF Spec, Implements, Promise!Spec
<1> QED BY <1>3, OrdinaryResets
==============================================================================
