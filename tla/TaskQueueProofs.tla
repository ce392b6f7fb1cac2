--------------------------- MODULE TaskQueueProofs ---------------------------
(***************************************************************************)
(* The shared task table, for any number of senders, rows and stops: what   *)
(* a daemon works on is its own RUNNING row, so neither a cancellation nor   *)
(* a recovery by another daemon reaches it.                                *)
(***************************************************************************)
EXTENDS TaskQueue, FiniteSetTheorems, TLAPS

\* A row that exists keeps the reply it was inserted with.
Inserted == \A r \in Rows : status[r] # "none" => reply[r] \in Replies

\* A daemon selects and works only on rows of its own sender, and the row it
\* works on stays RUNNING until the daemon itself finishes it or stops.
Owned(o) ==
  /\ daemon[o].pc \in AtRow \union {"selected"} =>
       /\ daemon[o].row \in Rows
       /\ status[daemon[o].row] # "none"
       /\ OwnerOf[reply[daemon[o].row]] = o
  /\ daemon[o].pc \in AtRow => status[daemon[o].row] = "running"

\* A cancelled row stays deleted.
Gone == \A r \in cancelled : status[r] = "deleted"

\* A daemon about to send found nothing on record, and only it could record it.
Unrecorded(o) == daemon[o].pc = "send" => reply[daemon[o].row] \notin recorded

\* The inductive invariant.
IInv ==
  /\ TypeOK /\ Inserted /\ Gone
  /\ \A o \in Operators : Owned(o) /\ Unrecorded(o)

\* The table and the ledger beside the daemons.
Ledger == <<status, reply, cancelled, recorded>>

\* Daemon o moves on with its row, and nothing else it reads changes.
LEMMA MovesOn ==
  ASSUME IInv, NEW o \in Operators, NEW pc \in PCs, NEW row \in Rows \union {None},
         daemon' = [daemon EXCEPT ![o] = [pc |-> pc, row |-> row]]
  PROVE  /\ daemon' \in [Operators -> [pc : PCs, row : Rows \union {None}]]
         /\ daemon'[o].pc = pc /\ daemon'[o].row = row
         /\ \A p \in Operators \ {o} : daemon'[p] = daemon[p]
  BY DEF IInv, TypeOK

\* The same when only its program counter moves.
LEMMA Advances ==
  ASSUME IInv, NEW o \in Operators, NEW pc \in PCs,
         daemon' = [daemon EXCEPT ![o].pc = pc]
  PROVE  /\ daemon' \in [Operators -> [pc : PCs, row : Rows \union {None}]]
         /\ daemon'[o].pc = pc /\ daemon'[o].row = daemon[o].row
         /\ \A p \in Operators \ {o} : daemon'[p] = daemon[p]
  BY DEF IInv, TypeOK

------------------------------------------------------------------------------
(* Slack: rows appear, and rows nobody claimed are deleted. *)

LEMMA LookForOpenKeeps ==
  ASSUME IInv, NEW c \in Replies, LookForOpen(c)
  PROVE  IInv'
  BY DEF IInv, TypeOK, Inserted, Owned, Gone, Unrecorded, LookForOpen

LEMMA InsertKeeps ==
  ASSUME IInv, NEW c \in Replies, Insert(c)
  PROVE  IInv'
<1>1. PICK r \in Rows :
        /\ status[r] = "none"
        /\ status' = [status EXCEPT ![r] = "pending"]
        /\ reply' = [reply EXCEPT ![r] = c]
  BY DEF Insert
<1>2. UNCHANGED <<cancelled, pendingSummaries, daemon, sends, recorded, posted, orphans, stops>>
  BY DEF Insert
<1>3. TypeOK'
  <2>1. requests' \in SUBSET Replies
    BY DEF Insert, IInv, TypeOK
  <2> QED BY <1>1, <1>2, <2>1 DEF IInv, TypeOK
<1>4. Inserted' /\ Gone'
  BY <1>1, <1>2 DEF IInv, TypeOK, Inserted, Gone
<1>5. ASSUME NEW o \in Operators PROVE Owned(o)' /\ Unrecorded(o)'
  <2>1. Owned(o) /\ Unrecorded(o) /\ daemon'[o] = daemon[o]
    BY <1>2 DEF IInv
  <2>2. CASE daemon[o].pc \in AtRow \union {"selected"}
    <3>1. daemon[o].row # r /\ daemon[o].row \in Rows
      BY <1>1, <2>1, <2>2 DEF Owned
    <3>2. status'[daemon[o].row] = status[daemon[o].row] /\ reply'[daemon[o].row] = reply[daemon[o].row]
      BY <1>1, <3>1 DEF IInv, TypeOK
    <3> QED BY <1>2, <2>1, <3>2 DEF Owned, Unrecorded
  <2>3. CASE daemon[o].pc \notin AtRow \union {"selected"}
    BY <2>1, <2>3 DEF Owned, Unrecorded, AtRow
  <2> QED BY <2>2, <2>3
<1> QED BY <1>3, <1>4, <1>5 DEF IInv

LEMMA CancelKeeps ==
  ASSUME IInv, NEW r \in Rows, Cancel(r)
  PROVE  IInv'
<1>1. /\ status[r] = "pending"
      /\ status' = [status EXCEPT ![r] = "deleted"]
      /\ cancelled' = cancelled \union {r}
      /\ UNCHANGED <<reply, requests, pendingSummaries, daemon, sends, recorded, posted, orphans, stops>>
  BY DEF Cancel, Cancellable
<1>2. TypeOK' /\ Inserted' /\ Gone'
  BY <1>1 DEF IInv, TypeOK, Inserted, Gone
<1>3. ASSUME NEW o \in Operators PROVE Owned(o)' /\ Unrecorded(o)'
  BY <1>1 DEF IInv, TypeOK, Owned, Unrecorded, AtRow
<1> QED BY <1>2, <1>3 DEF IInv

------------------------------------------------------------------------------
(* A daemon: the claim, the handler, the summaries, its stop and restart. *)

\* A step of daemon o that leaves the table and the ledger alone keeps the
\* invariant, if it keeps what it says of o itself.
LEMMA QuietDaemonKeeps ==
  ASSUME IInv, NEW o \in Operators, TypeOK', UNCHANGED Ledger,
         \A p \in Operators \ {o} : daemon'[p] = daemon[p],
         Owned(o)', Unrecorded(o)'
  PROVE  IInv'
<1>1. Inserted' /\ Gone'
  BY DEF IInv, Inserted, Gone, Ledger
<1>2. ASSUME NEW p \in Operators \ {o} PROVE Owned(p)' /\ Unrecorded(p)'
  BY DEF IInv, Owned, Unrecorded, Ledger
<1> QED BY <1>1, <1>2 DEF IInv

\* claim_next reads a candidate; the row may change before it is flipped.
LEMMA SelectKeeps ==
  ASSUME IInv, NEW o \in Operators, SelectReply(o) \/ SelectSummary(o)
  PROVE  IInv'
<1> USE QueueAssumption DEF QueueAssumption
<1>1. CASE SelectReply(o)
  <2>1. PICK r \in Due(o) : daemon' = [daemon EXCEPT ![o] = [pc |-> "selected", row |-> r]]
    BY <1>1 DEF SelectReply
  <2>2. r \in Rows /\ status[r] = "pending" /\ OwnerOf[reply[r]] = o
    BY DEF Due, InScope
  <2>3. UNCHANGED <<queueVars, pendingSummaries, sends, recorded, posted, orphans, stops>>
    BY <1>1 DEF SelectReply
  <2>4. /\ daemon' \in [Operators -> [pc : PCs, row : Rows \union {None}]]
        /\ daemon'[o].pc = "selected" /\ daemon'[o].row = r
        /\ \A p \in Operators \ {o} : daemon'[p] = daemon[p]
    <3>1. "selected" \in PCs /\ r \in Rows \union {None}
      BY <2>2 DEF PCs
    <3> QED BY <2>1, <3>1, MovesOn
  <2>5. TypeOK'
    BY <2>3, <2>4 DEF IInv, TypeOK, queueVars
  <2>6. Owned(o)' /\ Unrecorded(o)'
    BY <2>2, <2>3, <2>4 DEF Owned, Unrecorded, AtRow, queueVars
  <2> QED BY <2>3, <2>4, <2>5, <2>6, QuietDaemonKeeps DEF Ledger, queueVars
<1>2. CASE SelectSummary(o)
  <2>1. UNCHANGED <<queueVars, pendingSummaries, sends, recorded, posted, orphans, stops>>
    BY <1>2 DEF SelectSummary
  <2>2. /\ daemon' \in [Operators -> [pc : PCs, row : Rows \union {None}]]
        /\ daemon'[o].pc = "selectedSummary"
        /\ \A p \in Operators \ {o} : daemon'[p] = daemon[p]
    BY <1>2, Advances DEF SelectSummary, PCs
  <2>3. TypeOK'
    BY <2>1, <2>2 DEF IInv, TypeOK, queueVars
  <2>4. Owned(o)' /\ Unrecorded(o)'
    BY <2>2 DEF Owned, Unrecorded, AtRow
  <2> QED BY <2>1, <2>2, <2>3, <2>4, QuietDaemonKeeps DEF Ledger, queueVars
<1> QED BY <1>1, <1>2

\* _claim_candidate flips a row that is still pending: the daemon's own, and not deleted.
LEMMA ClaimReplyKeeps ==
  ASSUME IInv, NEW o \in Operators, ClaimReply(o)
  PROVE  IInv'
<1> DEFINE r == daemon[o].row
<1>1. /\ daemon[o].pc = "selected" /\ Owned(o) /\ r \in Rows /\ OwnerOf[reply[r]] = o
      /\ UNCHANGED <<reply, cancelled, requests, pendingSummaries, sends, recorded, posted,
                     orphans, stops>>
  BY DEF ClaimReply, IInv, Owned
<1>2. CASE status[r] = "pending"
  <2>1. status' = [status EXCEPT ![r] = "running"] /\ daemon' = [daemon EXCEPT ![o].pc = "reply"]
    BY <1>2 DEF ClaimReply
  <2>2. /\ daemon' \in [Operators -> [pc : PCs, row : Rows \union {None}]]
        /\ daemon'[o].pc = "reply" /\ daemon'[o].row = r
        /\ \A p \in Operators \ {o} : daemon'[p] = daemon[p]
    BY <2>1, Advances DEF PCs
  <2>3. TypeOK' /\ Inserted' /\ Gone'
    BY <1>1, <1>2, <2>1, <2>2 DEF IInv, TypeOK, Inserted, Gone
  <2>4. Owned(o)' /\ Unrecorded(o)'
    BY <1>1, <2>1, <2>2 DEF IInv, TypeOK, Owned, Unrecorded, AtRow
  <2>5. ASSUME NEW p \in Operators \ {o} PROVE Owned(p)' /\ Unrecorded(p)'
    BY <1>1, <1>2, <2>1, <2>2 DEF IInv, TypeOK, Owned, Unrecorded, AtRow
  <2> QED BY <2>3, <2>4, <2>5 DEF IInv
<1>3. CASE status[r] # "pending"
  <2>1. daemon' = [daemon EXCEPT ![o] = [pc |-> "idle", row |-> None]] /\ UNCHANGED status
    BY <1>3 DEF ClaimReply, Leave
  <2>2. /\ daemon' \in [Operators -> [pc : PCs, row : Rows \union {None}]]
        /\ daemon'[o].pc = "idle"
        /\ \A p \in Operators \ {o} : daemon'[p] = daemon[p]
    BY <2>1, MovesOn DEF PCs
  <2>3. TypeOK'
    BY <1>1, <2>1, <2>2 DEF IInv, TypeOK
  <2>4. Owned(o)' /\ Unrecorded(o)'
    BY <2>2 DEF Owned, Unrecorded, AtRow
  <2> QED BY <1>1, <2>1, <2>2, <2>3, <2>4, QuietDaemonKeeps DEF Ledger
<1> QED BY <1>2, <1>3

\* A step of the handler or of a summary: only the program counter of o moves, and it
\* enters the send only with nothing on record.
LEMMA HandlerKeeps ==
  ASSUME IInv, NEW o \in Operators, NEW pc \in PCs,
         daemon' = [daemon EXCEPT ![o].pc = pc],
         pc \in AtRow => daemon[o].pc \in AtRow,
         pc = "send" => reply[daemon[o].row] \notin recorded,
         pc # "selected",
         UNCHANGED <<Ledger, requests, orphans, stops>>,
         sends' \in [Replies -> Nat], pendingSummaries' \in Nat, posted' \in BOOLEAN
  PROVE  IInv'
<1>1. /\ daemon' \in [Operators -> [pc : PCs, row : Rows \union {None}]]
      /\ daemon'[o].pc = pc /\ daemon'[o].row = daemon[o].row
      /\ \A p \in Operators \ {o} : daemon'[p] = daemon[p]
  BY Advances
<1>2. TypeOK'
  BY <1>1 DEF IInv, TypeOK, Ledger
<1>3. Owned(o)' /\ Unrecorded(o)'
  BY <1>1 DEF IInv, Owned, Unrecorded, AtRow, Ledger
<1> QED BY <1>1, <1>2, <1>3, QuietDaemonKeeps DEF Ledger

LEMMA CheckReplyKeeps ==
  ASSUME IInv, NEW o \in Operators, CheckReply(o)
  PROVE  IInv'
<1>1. PICK pc \in {"done", "send", "failed"} :
        /\ daemon' = [daemon EXCEPT ![o].pc = pc]
        /\ pc = "send" => reply[daemon[o].row] \notin recorded
  BY DEF CheckReply, OnRecord
<1>2. /\ daemon[o].pc = "reply"
      /\ UNCHANGED <<queueVars, pendingSummaries, sends, recorded, posted, orphans, stops>>
  BY DEF CheckReply
<1> QED BY <1>1, <1>2, HandlerKeeps DEF IInv, TypeOK, AtRow, PCs, Ledger, queueVars

LEMMA SendReplyKeeps ==
  ASSUME IInv, NEW o \in Operators, SendReply(o)
  PROVE  IInv'
<1>1. PICK took \in BOOLEAN, shown \in BOOLEAN :
        /\ sends' = IF took THEN [sends EXCEPT ![reply[daemon[o].row]] = @ + 1] ELSE sends
        /\ daemon' = [daemon EXCEPT ![o].pc = IF shown THEN "sent" ELSE "failed"]
  BY DEF SendReply
<1>2. /\ daemon[o].pc = "send"
      /\ UNCHANGED <<queueVars, pendingSummaries, recorded, posted, orphans, stops>>
  BY DEF SendReply
<1>3. sends' \in [Replies -> Nat]
  <2>1. sends \in [Replies -> Nat]
    BY DEF IInv, TypeOK
  <2>2. reply[daemon[o].row] \in Replies
    BY <1>2 DEF IInv, Owned, Inserted, AtRow
  <2> QED BY <1>1, <2>1, <2>2
<1>4. PICK pc \in {"sent", "failed"} : pc = IF shown THEN "sent" ELSE "failed"
  OBVIOUS
<1> QED BY <1>1, <1>2, <1>3, <1>4, HandlerKeeps
        DEF IInv, TypeOK, AtRow, PCs, Ledger, queueVars

\* save_chat_message records the daemon's own reply: no other daemon is about to send it.
LEMMA RecordReplyKeeps ==
  ASSUME IInv, NEW o \in Operators, RecordReply(o)
  PROVE  IInv'
<1> USE QueueAssumption DEF QueueAssumption
<1>1. /\ daemon[o].pc = "sent" /\ Owned(o)
      /\ UNCHANGED <<queueVars, pendingSummaries, sends, posted, orphans, stops>>
  BY DEF RecordReply, IInv
<1>2. /\ daemon[o].row \in Rows /\ reply[daemon[o].row] \in Replies
      /\ OwnerOf[reply[daemon[o].row]] = o
  BY <1>1 DEF IInv, Owned, Inserted, AtRow
<1>3. daemon' = [daemon EXCEPT ![o].pc = "done"]
  BY DEF RecordReply
<1>4. recorded' = recorded \union {reply[daemon[o].row]} \/ recorded' = recorded
  BY DEF RecordReply
<1>5. /\ daemon' \in [Operators -> [pc : PCs, row : Rows \union {None}]]
      /\ daemon'[o].pc = "done" /\ daemon'[o].row = daemon[o].row
      /\ \A p \in Operators \ {o} : daemon'[p] = daemon[p]
  BY <1>3, Advances DEF PCs
<1>6. TypeOK' /\ Inserted' /\ Gone'
  BY <1>1, <1>2, <1>4, <1>5 DEF IInv, TypeOK, Inserted, Gone, queueVars
<1>7. Owned(o)' /\ Unrecorded(o)'
  BY <1>1, <1>5 DEF Owned, Unrecorded, AtRow, queueVars
<1>8. ASSUME NEW p \in Operators \ {o} PROVE Owned(p)' /\ Unrecorded(p)'
  <2>1. Owned(p) /\ Unrecorded(p) /\ daemon'[p] = daemon[p]
    BY <1>5 DEF IInv
  <2>2. daemon[p].pc = "send" => reply[daemon[p].row] # reply[daemon[o].row]
    BY <1>2, <2>1 DEF Owned, AtRow
  <2> QED BY <1>1, <1>4, <2>1, <2>2 DEF Owned, Unrecorded, queueVars
<1> QED BY <1>6, <1>7, <1>8 DEF IInv

\* mark_completed and _safe_mark_failed write the daemon's own row.
LEMMA FinishReplyKeeps ==
  ASSUME IInv, NEW o \in Operators, FinishReply(o)
  PROVE  IInv'
<1> DEFINE r == daemon[o].row
<1>1. /\ daemon[o].pc \in AtRow /\ Owned(o)
      /\ UNCHANGED <<reply, cancelled, requests, pendingSummaries, sends, recorded, posted,
                     orphans, stops>>
  BY DEF FinishReply, IInv, AtRow
<1>2. r \in Rows /\ status[r] = "running" /\ OwnerOf[reply[r]] = o
  BY <1>1 DEF Owned
<1>3. PICK s \in {"completed", "failed"} : status' = [status EXCEPT ![r] = s]
  BY DEF FinishReply
<1>4. /\ daemon' \in [Operators -> [pc : PCs, row : Rows \union {None}]]
      /\ daemon'[o].pc = "idle"
      /\ \A p \in Operators \ {o} : daemon'[p] = daemon[p]
  BY MovesOn DEF FinishReply, Leave, PCs
<1>5. TypeOK' /\ Inserted' /\ Gone'
  BY <1>1, <1>2, <1>3, <1>4 DEF IInv, TypeOK, Inserted, Gone
<1>6. Owned(o)' /\ Unrecorded(o)'
  BY <1>4 DEF Owned, Unrecorded, AtRow
<1>7. ASSUME NEW p \in Operators \ {o} PROVE Owned(p)' /\ Unrecorded(p)'
  <2>1. Owned(p) /\ Unrecorded(p) /\ daemon'[p] = daemon[p]
    BY <1>4 DEF IInv
  <2>2. daemon[p].pc \in AtRow \union {"selected"} =>
          \/ daemon[p].row # r /\ daemon[p].row \in Rows
    BY <1>2, <2>1 DEF Owned
  <2>3. CASE daemon[p].pc \in AtRow \union {"selected"}
    <3>1. status'[daemon[p].row] = status[daemon[p].row]
      BY <1>3, <2>2, <2>3 DEF IInv, TypeOK
    <3> QED BY <1>1, <2>1, <3>1 DEF Owned, Unrecorded
  <2>4. CASE daemon[p].pc \notin AtRow \union {"selected"}
    BY <2>1, <2>4 DEF Owned, Unrecorded, AtRow
  <2> QED BY <2>3, <2>4
<1> QED BY <1>5, <1>6, <1>7 DEF IInv

------------------------------------------------------------------------------
\* The summaries never touch a manual reply.
LEMMA SummaryKeeps ==
  ASSUME IInv, NEW o \in Operators,
         ClaimSummary(o) \/ PostSummary(o) \/ LookForSummary(o) \/ InsertSummary(o)
  PROVE  IInv'
<1> USE DEF AtRow, PCs, Ledger, queueVars
<1>1. CASE ClaimSummary(o)
  <2>1. UNCHANGED <<queueVars, sends, recorded, posted, orphans, stops>>
    BY <1>1 DEF ClaimSummary
  <2>2. CASE pendingSummaries > 0 /\ pendingSummaries' = pendingSummaries - 1
             /\ daemon' = [daemon EXCEPT ![o].pc = "summary"]
    <3>1. pendingSummaries' \in Nat /\ sends' \in [Replies -> Nat] /\ posted' \in BOOLEAN
      BY <2>1, <2>2 DEF IInv, TypeOK
    <3> QED BY <2>1, <2>2, <3>1, HandlerKeeps
  <2>3. CASE Leave(o) /\ UNCHANGED pendingSummaries
    <3>1. /\ daemon' \in [Operators -> [pc : PCs, row : Rows \union {None}]]
          /\ daemon'[o].pc = "idle"
          /\ \A p \in Operators \ {o} : daemon'[p] = daemon[p]
      BY <2>3, MovesOn DEF Leave
    <3>2. TypeOK'
      BY <2>1, <2>3, <3>1 DEF IInv, TypeOK
    <3>3. Owned(o)' /\ Unrecorded(o)'
      BY <3>1 DEF Owned, Unrecorded
    <3> QED BY <2>1, <3>1, <3>2, <3>3, QuietDaemonKeeps
  <2> QED BY <1>1, <2>2, <2>3 DEF ClaimSummary
<1>2. CASE PostSummary(o)
  BY <1>2, HandlerKeeps DEF PostSummary, Goto, IInv, TypeOK
<1>3. CASE LookForSummary(o)
  <2>1. PICK pc \in {"idle", "seedNew", "nextNew"} : daemon' = [daemon EXCEPT ![o].pc = pc]
    BY <1>3 DEF LookForSummary
  <2> QED BY <1>3, <2>1, HandlerKeeps DEF LookForSummary, IInv, TypeOK
<1>4. CASE InsertSummary(o)
  <2>1. pendingSummaries' \in Nat /\ sends' \in [Replies -> Nat] /\ posted' \in BOOLEAN
    BY <1>4 DEF InsertSummary, IInv, TypeOK
  <2> QED BY <1>4, <2>1, HandlerKeeps DEF InsertSummary
<1> QED BY <1>1, <1>2, <1>3, <1>4

\* A daemon that stops works on nothing.
LEMMA StopKeeps ==
  ASSUME IInv, NEW o \in Operators, Stop(o)
  PROVE  IInv'
<1>1. /\ stops < MaxStops /\ stops' = stops + 1
      /\ UNCHANGED <<queueVars, pendingSummaries, sends, recorded, posted>>
  BY DEF Stop
<1>2. /\ daemon' \in [Operators -> [pc : PCs, row : Rows \union {None}]]
      /\ daemon'[o].pc = "down"
      /\ \A p \in Operators \ {o} : daemon'[p] = daemon[p]
  BY MovesOn DEF Stop, PCs
<1>3. orphans' \in 0..stops' /\ stops' \in 0..MaxStops
  <2>1. PICK n \in {0, 1} : orphans' = orphans + n
    BY DEF Stop
  <2> QED BY <1>1, <2>1, QueueAssumption DEF QueueAssumption, IInv, TypeOK
<1>4. TypeOK'
  BY <1>1, <1>2, <1>3 DEF IInv, TypeOK, queueVars
<1>5. Owned(o)' /\ Unrecorded(o)'
  BY <1>2 DEF Owned, Unrecorded, AtRow
<1> QED BY <1>1, <1>2, <1>4, <1>5, QuietDaemonKeeps DEF Ledger, queueVars

\* heal_tasks gives back only rows of this sender, whose daemon was down until now.
LEMMA RestartKeeps ==
  ASSUME IInv, NEW o \in Operators, Restart(o)
  PROVE  IInv'
<1>1. PICK stale \in SUBSET OwnRunning(o) :
        status' = [r \in Rows |-> IF r \in stale THEN "pending" ELSE status[r]]
  BY DEF Restart
<1>2. UNCHANGED <<reply, cancelled, requests, pendingSummaries, sends, recorded, posted,
                  orphans, stops>>
  BY DEF Restart
<1>3. /\ daemon' \in [Operators -> [pc : PCs, row : Rows \union {None}]]
      /\ daemon'[o].pc = "seed"
      /\ \A p \in Operators \ {o} : daemon'[p] = daemon[p]
  BY Advances DEF Restart, Goto, PCs
<1>4. \A r \in stale : r \in Rows /\ status[r] = "running" /\ OwnerOf[reply[r]] = o
  BY DEF OwnRunning
<1>5. TypeOK' /\ Inserted' /\ Gone'
  BY <1>1, <1>2, <1>3, <1>4 DEF IInv, TypeOK, Inserted, Gone
<1>6. Owned(o)' /\ Unrecorded(o)'
  BY <1>3 DEF Owned, Unrecorded, AtRow
<1>7. ASSUME NEW p \in Operators \ {o} PROVE Owned(p)' /\ Unrecorded(p)'
  <2>1. Owned(p) /\ Unrecorded(p) /\ daemon'[p] = daemon[p]
    BY <1>3 DEF IInv
  <2>2. CASE daemon[p].pc \in AtRow \union {"selected"}
    <3>1. daemon[p].row \in Rows /\ daemon[p].row \notin stale
      BY <1>4, <2>1, <2>2 DEF Owned
    <3>2. status'[daemon[p].row] = status[daemon[p].row]
      BY <1>1, <3>1
    <3> QED BY <1>2, <2>1, <3>2 DEF Owned, Unrecorded
  <2>3. CASE daemon[p].pc \notin AtRow \union {"selected"}
    BY <2>1, <2>3 DEF Owned, Unrecorded, AtRow
  <2> QED BY <2>2, <2>3
<1> QED BY <1>5, <1>6, <1>7 DEF IInv

------------------------------------------------------------------------------
\* An empty table, every daemon down.
LEMMA InitInv ==
  ASSUME Init
  PROVE  IInv
<1> USE QueueAssumption DEF QueueAssumption, Init
<1>1. daemon \in [Operators -> [pc : PCs, row : Rows \union {None}]]
  BY DEF PCs
<1>2. TypeOK
  <2>1. orphans \in 0..stops /\ stops \in 0..MaxStops /\ pendingSummaries \in Nat
    OBVIOUS
  <2>2. sends \in [Replies -> Nat] /\ reply \in [Rows -> Replies \union {None}]
    OBVIOUS
  <2> QED BY <1>1, <2>1, <2>2 DEF TypeOK
<1> QED BY <1>2 DEF IInv, Inserted, Gone, Owned, Unrecorded, AtRow

\* Every step of Slack, of a daemon and of its stop and restart keeps the invariant.
LEMMA StepInv ==
  ASSUME IInv, [Next]_vars
  PROVE  IInv'
<1>1. ASSUME NEW o \in Operators, Work(o) \/ Stop(o) PROVE IInv'
  BY <1>1, SelectKeeps, ClaimReplyKeeps, CheckReplyKeeps, SendReplyKeeps, RecordReplyKeeps,
     FinishReplyKeeps, SummaryKeeps, StopKeeps, RestartKeeps DEF Work
<1>2. ASSUME NEW c \in Replies, LookForOpen(c) \/ Insert(c) PROVE IInv'
  BY <1>2, LookForOpenKeeps, InsertKeeps
<1>3. ASSUME NEW r \in Rows, Cancel(r) PROVE IInv'
  BY <1>3, CancelKeeps
<1>4. CASE UNCHANGED vars
  BY <1>4 DEF vars, queueVars, IInv, TypeOK, Inserted, Gone, Owned, Unrecorded
<1> QED BY <1>1, <1>2, <1>3, <1>4 DEF Next

THEOREM Invariance == Spec => []IInv
<1>1. Init => IInv
  BY InitInv
<1>2. IInv /\ [Next]_vars => IInv'
  BY StepInv
<1> QED BY <1>1, <1>2, PTL DEF Spec

\* models.py _claim_candidate and api/slack_enrich.py cancel_manual_reply_task: after Slack
\* showed "it will not be sent" no daemon works on the row, whatever was selected, claimed,
\* healed or stopped meanwhile.
THEOREM CancelIsFinalTheorem == Spec => []CancelIsFinal
<1>1. IInv => CancelIsFinal
  BY DEF IInv, Gone, Owned, CancelIsFinal
<1> QED BY <1>1, Invariance, PTL

\* tasks/manual_reply.py _manual_reply_already_sent: between the look at the ledger and the
\* send only this daemon could record the reply, so a reply on record is never sent again.
THEOREM RecordedIsNotResentTheorem == Spec => RecordedIsNotResent
<1>1. ASSUME IInv, [Next]_vars, NEW c \in recorded PROVE sends'[c] = sends[c]
  <2>1. CASE \E o \in Operators : SendReply(o)
    <3>1. PICK o \in Operators : SendReply(o)
      BY <2>1
    <3>2. reply[daemon[o].row] # c
      BY <1>1, <3>1 DEF SendReply, IInv, Unrecorded
    <3>3. PICK took \in BOOLEAN :
            sends' = IF took THEN [sends EXCEPT ![reply[daemon[o].row]] = @ + 1] ELSE sends
      BY <3>1 DEF SendReply
    <3> QED BY <1>1, <3>2, <3>3 DEF IInv, TypeOK
  <2>2. CASE ~\E o \in Operators : SendReply(o)
    <3>1. UNCHANGED sends
      BY <1>1, <2>2 DEF Next, Work, vars, Restart, SelectReply, SelectSummary, ClaimReply,
         ClaimSummary, CheckReply, RecordReply, FinishReply, PostSummary, LookForSummary,
         InsertSummary, Stop, LookForOpen, Insert, Cancel
    <3> QED BY <3>1
  <2> QED BY <2>1, <2>2
<1>2. IInv /\ [Next]_vars => [\A c \in recorded : sends'[c] = sends[c]]_vars
  BY <1>1
<1> QED BY <1>2, Invariance, PTL DEF Spec, RecordedIsNotResent
------------------------------------------------------------------------------
(* How often LinkedIn gets a reply.  A row is spent when its one send is        *)
(* behind it: finished, or past the page with its daemon still alive.  A stop    *)
(* may give one row its send back; nothing else does.                           *)

Spent(r) ==
  \/ status[r] \in {"completed", "failed"}
  \/ \E o \in Operators : daemon[o].row = r /\ daemon[o].pc \in {"sent", "done", "failed"}

SpentRows(c) == {r \in Rows : reply[r] = c /\ Spent(r)}

\* Every send is that of a spent row, or of a row that a stop gave it back.
CountInv == \A c \in Replies : sends[c] <= Cardinality(SpentRows(c)) + stops

\* Rows are finitely many, and more of them count for more.
LEMMA SpentCount ==
  ASSUME NEW c, NEW S \in SUBSET SpentRows(c)
  PROVE  /\ IsFiniteSet(SpentRows(c)) /\ IsFiniteSet(S)
         /\ Cardinality(SpentRows(c)) \in Nat /\ Cardinality(S) \in Nat
         /\ Cardinality(S) <= Cardinality(SpentRows(c))
<1>1. IsFiniteSet(SpentRows(c))
  <2>1. SpentRows(c) \in SUBSET Rows /\ IsFiniteSet(Rows)
    BY QueueAssumption DEF QueueAssumption, SpentRows
  <2> QED BY <2>1, FS_Subset
<1>2. IsFiniteSet(S) /\ Cardinality(S) <= Cardinality(SpentRows(c))
  BY <1>1, FS_Subset
<1> QED BY <1>1, <1>2, FS_CardinalityType

\* The same after a step.
LEMMA SpentLater ==
  ASSUME NEW c, NEW S \in SUBSET SpentRows(c)'
  PROVE  /\ Cardinality(SpentRows(c)') \in Nat
         /\ Cardinality(S) <= Cardinality(SpentRows(c)')
<1>1. SpentRows(c)' \in SUBSET Rows /\ IsFiniteSet(Rows)
  BY QueueAssumption DEF QueueAssumption, SpentRows
<1> QED BY <1>1, FS_Subset, FS_CardinalityType

\* No two daemons are at one row.
LEMMA OneAtRow ==
  ASSUME IInv, NEW o \in Operators, NEW p \in Operators, daemon[o].row = daemon[p].row,
         daemon[o].pc \in AtRow, daemon[p].pc \in AtRow
  PROVE  o = p
  BY DEF IInv, Owned

\* A step that sends nothing, and after which every spent row is spent, keeps the count.
LEMMA SpentKeeps ==
  ASSUME IInv, IInv', CountInv, UNCHANGED sends, stops' >= stops,
         \A r \in Rows : Spent(r) => Spent(r)' /\ reply'[r] = reply[r]
  PROVE  CountInv'
<1> SUFFICES ASSUME NEW c \in Replies
             PROVE  sends'[c] <= Cardinality(SpentRows(c)') + stops'
  BY DEF CountInv
<1>1. SpentRows(c) \subseteq SpentRows(c)'
  BY DEF SpentRows
<1>2. /\ Cardinality(SpentRows(c)) \in Nat /\ Cardinality(SpentRows(c)') \in Nat
      /\ Cardinality(SpentRows(c)) <= Cardinality(SpentRows(c)')
  BY <1>1, SpentCount, SpentLater
<1>3. sends[c] \in Nat /\ stops \in Nat /\ stops' \in Nat
  BY QueueAssumption DEF QueueAssumption, IInv, TypeOK
<1>4. sends[c] <= Cardinality(SpentRows(c)) + stops /\ sends'[c] = sends[c]
  BY DEF CountInv
<1> QED BY <1>2, <1>3, <1>4

\* A row that nobody claimed yet is not spent.
LEMMA SpentStatus ==
  ASSUME IInv, NEW r \in Rows, Spent(r)
  PROVE  status[r] \in {"completed", "failed", "running"}
  BY DEF IInv, Owned, Spent, AtRow

\* A step of Slack meets no spent row.
LEMMA SlackSpends ==
  ASSUME IInv, IInv', CountInv,
         \/ \E c \in Replies : LookForOpen(c) \/ Insert(c)
         \/ \E r \in Rows : Cancel(r)
  PROVE  CountInv'
<1>1. UNCHANGED <<daemon, sends, stops>>
  BY DEF LookForOpen, Insert, Cancel
<1>2. ASSUME NEW r \in Rows, Spent(r) PROVE status'[r] = status[r] /\ reply'[r] = reply[r]
  <2>1. status[r] \notin {"none", "pending"}
    BY <1>2, SpentStatus
  <2> QED BY <2>1 DEF LookForOpen, Insert, Cancel, Cancellable, IInv, TypeOK
<1>3. stops' >= stops
  BY <1>1, QueueAssumption DEF QueueAssumption, IInv, TypeOK
<1> QED BY <1>1, <1>2, <1>3, SpentKeeps DEF Spent

\* A step of a daemon before its send, or away from any row.
LEMMA DaemonSpends ==
  ASSUME IInv, IInv', CountInv, NEW o \in Operators,
         daemon[o].pc \notin {"sent", "done", "failed"},
         \A p \in Operators \ {o} : daemon'[p] = daemon[p],
         \A r \in Rows : status[r] \in {"completed", "failed"} => status'[r] = status[r],
         UNCHANGED <<reply, sends, stops>>
  PROVE  CountInv'
<1>1. ASSUME NEW r \in Rows, Spent(r) PROVE Spent(r)'
  BY <1>1 DEF Spent
<1>2. stops' >= stops
  BY QueueAssumption DEF QueueAssumption, IInv, TypeOK
<1> QED BY <1>1, <1>2, SpentKeeps

\* Everything a daemon does but the send, its record and the end of its row.
LEMMA WorkSpends ==
  ASSUME IInv, IInv', CountInv, NEW o \in Operators,
         \/ Restart(o) \/ SelectReply(o) \/ SelectSummary(o) \/ ClaimReply(o)
         \/ ClaimSummary(o) \/ CheckReply(o) \/ PostSummary(o) \/ LookForSummary(o)
         \/ InsertSummary(o)
  PROVE  CountInv'
<1>1. daemon[o].pc \notin {"sent", "done", "failed"}
  BY DEF Restart, Goto, SelectReply, SelectSummary, ClaimReply, ClaimSummary, CheckReply,
     PostSummary, LookForSummary, InsertSummary
<1>2. \A p \in Operators \ {o} : daemon'[p] = daemon[p]
  <2>1. \E next : daemon' = [daemon EXCEPT ![o] = next]
    BY DEF Restart, Goto, SelectReply, SelectSummary, ClaimReply, Leave, ClaimSummary,
       CheckReply, PostSummary, LookForSummary, InsertSummary
  <2> QED BY <2>1 DEF IInv, TypeOK
<1>3. UNCHANGED <<reply, sends, stops>>
  BY DEF Restart, SelectReply, SelectSummary, ClaimReply, ClaimSummary, CheckReply,
     PostSummary, LookForSummary, InsertSummary, queueVars
<1>4. ASSUME NEW r \in Rows, status[r] \in {"completed", "failed"}
      PROVE  status'[r] = status[r]
  <2>1. CASE Restart(o)
    BY <1>4, <2>1 DEF Restart, OwnRunning
  <2>2. CASE ClaimReply(o)
    BY <1>4, <2>2 DEF ClaimReply, IInv, TypeOK
  <2>3. CASE ~Restart(o) /\ ~ClaimReply(o)
    BY <2>3 DEF SelectReply, SelectSummary, ClaimSummary, CheckReply, PostSummary,
       LookForSummary, InsertSummary, queueVars
  <2> QED BY <2>1, <2>2, <2>3
<1> QED BY <1>1, <1>2, <1>3, <1>4, DaemonSpends

\* The row of a recorded or finished send stays spent.
LEMMA EndSpends ==
  ASSUME IInv, IInv', CountInv, NEW o \in Operators, RecordReply(o) \/ FinishReply(o)
  PROVE  CountInv'
<1>1. /\ daemon[o].pc \in {"sent", "done", "failed"} /\ daemon[o].row \in Rows
      /\ UNCHANGED <<reply, sends, stops>>
  BY DEF RecordReply, FinishReply, IInv, Owned, AtRow, queueVars
<1> PICK r \in Rows : r = daemon[o].row
  BY <1>1
<1>2. \A p \in Operators \ {o} : daemon'[p] = daemon[p]
  BY DEF RecordReply, FinishReply, Leave, IInv, TypeOK
<1>3. \A s \in Rows \ {r} : status'[s] = status[s]
  BY DEF RecordReply, FinishReply, queueVars, IInv, TypeOK
<1>4. Spent(r)'
  <2>1. CASE RecordReply(o)
    <3>1. daemon'[o].row = r /\ daemon'[o].pc \in {"sent", "done", "failed"}
      BY <2>1 DEF RecordReply, IInv, TypeOK
    <3> QED BY <3>1 DEF Spent
  <2>2. CASE FinishReply(o)
    <3>1. status'[r] \in {"completed", "failed"}
      BY <1>1, <2>2 DEF FinishReply, IInv, TypeOK
    <3> QED BY <3>1 DEF Spent
  <2> QED BY <2>1, <2>2
<1>5. ASSUME NEW s \in Rows, Spent(s), s # r PROVE Spent(s)'
  BY <1>2, <1>3, <1>5 DEF Spent
<1>6. stops' >= stops
  BY <1>1, QueueAssumption DEF QueueAssumption, IInv, TypeOK
<1> QED BY <1>1, <1>4, <1>5, <1>6, SpentKeeps

\* The send spends its row, which was not spent and which no other daemon is at.
LEMMA SendSpends ==
  ASSUME IInv, IInv', CountInv, NEW o \in Operators, SendReply(o)
  PROVE  CountInv'
<1>1. PICK took \in BOOLEAN, shown \in BOOLEAN :
        /\ sends' = IF took THEN [sends EXCEPT ![reply[daemon[o].row]] = @ + 1] ELSE sends
        /\ daemon' = [daemon EXCEPT ![o].pc = IF shown THEN "sent" ELSE "failed"]
  BY DEF SendReply
<1>2. /\ daemon[o].pc = "send"
      /\ UNCHANGED <<status, reply, stops>>
  BY DEF SendReply, queueVars
<1> PICK r \in Rows : r = daemon[o].row /\ status[r] = "running"
  BY <1>2 DEF IInv, Owned, AtRow
<1>3. /\ daemon'[o].row = r /\ daemon'[o].pc \in {"sent", "failed"}
      /\ \A p \in Operators \ {o} : daemon'[p] = daemon[p]
  BY <1>1 DEF IInv, TypeOK
<1>4. ~Spent(r) /\ Spent(r)'
  <2>1. ASSUME NEW p \in Operators, daemon[p].row = r PROVE daemon[p].pc \notin {"sent", "done", "failed"}
    BY <1>2, <2>1, OneAtRow DEF AtRow
  <2> QED BY <1>3, <2>1 DEF Spent
<1>5. ASSUME NEW s \in Rows, Spent(s) PROVE Spent(s)'
  BY <1>2, <1>3, <1>5 DEF Spent
<1> SUFFICES ASSUME NEW c \in Replies
             PROVE  sends'[c] <= Cardinality(SpentRows(c)') + stops'
  BY DEF CountInv
<1>6. /\ sends[c] \in Nat /\ stops \in Nat /\ stops' = stops
      /\ sends[c] <= Cardinality(SpentRows(c)) + stops
  BY <1>2, QueueAssumption DEF QueueAssumption, IInv, TypeOK, CountInv
<1>7. SpentRows(c) \in SUBSET SpentRows(c) /\ SpentRows(c) \subseteq SpentRows(c)'
  BY <1>2, <1>5 DEF SpentRows
<1>8. CASE sends'[c] = sends[c]
  BY <1>6, <1>7, <1>8, SpentCount, SpentLater
<1>9. CASE sends'[c] # sends[c]
  <2>1. reply[r] = c /\ sends'[c] = sends[c] + 1
    BY <1>1, <1>9 DEF IInv, TypeOK
  <2>2. r \notin SpentRows(c) /\ SpentRows(c) \union {r} \subseteq SpentRows(c)'
    BY <1>2, <1>4, <1>7, <2>1 DEF SpentRows
  <2>3. /\ IsFiniteSet(SpentRows(c)) /\ Cardinality(SpentRows(c)) \in Nat
        /\ Cardinality(SpentRows(c) \union {r}) = Cardinality(SpentRows(c)) + 1
    BY <1>7, <2>2, SpentCount, FS_AddElement
  <2>4. /\ Cardinality(SpentRows(c)') \in Nat
        /\ Cardinality(SpentRows(c) \union {r}) <= Cardinality(SpentRows(c)')
    BY <2>2, SpentLater
  <2> QED BY <1>6, <2>1, <2>3, <2>4
<1> QED BY <1>8, <1>9

\* A stop gives back the send of one row at most: that of its own daemon.
LEMMA StopSpends ==
  ASSUME IInv, IInv', CountInv, NEW o \in Operators, Stop(o)
  PROVE  CountInv'
<1>1. stops' = stops + 1 /\ UNCHANGED <<status, reply, sends>>
  BY DEF Stop, queueVars
<1>2. \A p \in Operators \ {o} : daemon'[p] = daemon[p]
  BY DEF Stop, IInv, TypeOK
<1> SUFFICES ASSUME NEW c \in Replies
             PROVE  sends'[c] <= Cardinality(SpentRows(c)') + stops'
  BY DEF CountInv
<1> PICK r : r = daemon[o].row
  OBVIOUS
<1> DEFINE S == SpentRows(c)
<1>3. S \ {r} \subseteq SpentRows(c)'
  BY <1>1, <1>2 DEF SpentRows, Spent
<1>4. IsFiniteSet(S) /\ Cardinality(S) \in Nat /\ Cardinality(S \ {r}) \in Nat
  <2>1. S \in SUBSET SpentRows(c) /\ S \ {r} \in SUBSET SpentRows(c)
    OBVIOUS
  <2> QED BY <2>1, SpentCount
<1>5. Cardinality(S) <= Cardinality(S \ {r}) + 1
  <2> HIDE DEF S
  <2>1. Cardinality(S \ {r}) = IF r \in S THEN Cardinality(S) - 1 ELSE Cardinality(S)
    BY <1>4, FS_RemoveElement
  <2> QED BY <1>4, <2>1
<1>6. /\ Cardinality(SpentRows(c)') \in Nat
      /\ Cardinality(S \ {r}) <= Cardinality(SpentRows(c)')
  BY <1>3, SpentLater
<1>7. /\ sends[c] \in Nat /\ stops \in Nat /\ sends'[c] = sends[c]
      /\ sends[c] <= Cardinality(S) + stops
  BY <1>1, QueueAssumption DEF QueueAssumption, IInv, TypeOK, CountInv
<1> HIDE DEF S
<1> QED BY <1>1, <1>4, <1>5, <1>6, <1>7

\* The count holds from the empty table on.
LEMMA StepCount ==
  ASSUME IInv, IInv', CountInv, [Next]_vars
  PROVE  CountInv'
<1>1. ASSUME NEW o \in Operators, Work(o) \/ Stop(o) PROVE CountInv'
  BY <1>1, WorkSpends, SendSpends, EndSpends, StopSpends DEF Work
<1>2. CASE \/ \E c \in Replies : LookForOpen(c) \/ Insert(c)
           \/ \E r \in Rows : Cancel(r)
  BY <1>2, SlackSpends
<1>3. CASE UNCHANGED vars
  BY <1>3 DEF vars, queueVars, CountInv, SpentRows, Spent
<1> QED BY <1>1, <1>2, <1>3 DEF Next

\* tasks/manual_reply.py, models.py _claim_candidate and mark_failed, daemon.py heal_tasks:
\* for any number of daemons, rows and stops, LinkedIn gets a reply once for each row
\* queued for it, and once more for each stop of a daemon at the most.
THEOREM SendsAccountedTheorem == Spec => []SendsAccounted
<1>1. Init /\ IInv => CountInv
  <2> SUFFICES ASSUME Init, IInv, NEW c \in Replies
               PROVE  sends[c] <= Cardinality(SpentRows(c)) + stops
    BY DEF CountInv
  <2>1. Cardinality(SpentRows(c)) \in Nat
    <3>1. SpentRows(c) \in SUBSET SpentRows(c)
      OBVIOUS
    <3> QED BY <3>1, SpentCount
  <2> QED BY <2>1 DEF Init
<1>2. IInv /\ IInv' /\ CountInv /\ [Next]_vars => CountInv'
  BY StepCount
<1>3. IInv /\ CountInv => SendsAccounted
  <2> SUFFICES ASSUME IInv, CountInv, NEW c \in Replies
               PROVE  sends[c] <= Cardinality({r \in Rows : reply[r] = c}) + stops
    BY DEF SendsAccounted
  <2> DEFINE Queued == {r \in Rows : reply[r] = c}
  <2>1. SpentRows(c) \in SUBSET Queued /\ Queued \in SUBSET Rows /\ IsFiniteSet(Rows)
    BY QueueAssumption DEF QueueAssumption, SpentRows
  <2>2. /\ Cardinality(SpentRows(c)) \in Nat /\ Cardinality(Queued) \in Nat
        /\ Cardinality(SpentRows(c)) <= Cardinality(Queued)
    BY <2>1, FS_Subset, FS_CardinalityType
  <2>3. sends[c] \in Nat /\ stops \in Nat /\ sends[c] <= Cardinality(SpentRows(c)) + stops
    BY QueueAssumption DEF QueueAssumption, IInv, TypeOK, CountInv
  <2> HIDE DEF Queued
  <2>4. sends[c] <= Cardinality(Queued) + stops
    BY <2>2, <2>3
  <2> QED BY <2>4 DEF Queued
<1> QED BY <1>1, <1>2, <1>3, Invariance, PTL DEF Spec

==============================================================================
