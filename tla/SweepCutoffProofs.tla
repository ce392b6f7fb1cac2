-------------------------- MODULE SweepCutoffProofs --------------------------
(***************************************************************************)
(* The connection sweep, for any number of invitations, any overlap and    *)
(* any look-back: as long as the page loads down to the cutoff and an      *)
(* interrupted attempt is seen before the next sweep, the cutoff never      *)
(* passes an acceptance that is still to be found.                         *)
(***************************************************************************)
EXTENDS SweepCutoff, TLAPS

\* What the theorem asks of the environment: the two limits of this design that the
\* constants switch on.
Sound == ~Late /\ ~Stalls

\* An acceptance nobody has recorded, the Deal PENDING or not even that.
Waiting(d) == state[d] \in {"interrupted", "pending"} /\ accepted[d] > 0

\* An invitation not sent is not accepted, and nothing is accepted ahead of time.
Dated == \A d \in Deals : /\ state[d] = "ready" => accepted[d] = 0
                          /\ accepted[d] <= now

\* Runs and their cutoffs lie in the past.
Past == anchor <= now /\ held.at <= now /\ held.cutoff <= now

\* The sweep at work began with this ledger and a cutoff no later than today's, and
\* keeps its budget.
AtWork ==
  sweep.pc # "idle" =>
    /\ sweep.begin <= now /\ now <= sweep.begin + Overlap
    /\ sweep.cutoff <= Cutoff
    /\ \A d \in Deals : /\ state[d] # "interrupted"
                        /\ state[d] = "pending" => d \in sweep.candidates
    /\ sweep.pc = "scan" => ~sweep.complete

\* A sweep that saw everything down to its cutoff leaves only acceptances newer than
\* its own begin, or such as it is still to process.
Seen ==
  /\ sweep.pc = "process" /\ sweep.complete =>
       \A d \in Deals : Waiting(d) => d \in sweep.found \/ accepted[d] >= sweep.begin
  /\ sweep.pc = "record" /\ sweep.complete =>
       \A d \in Deals : Waiting(d) => accepted[d] >= sweep.begin

\* The cutoff is behind every acceptance still to be found, interrupted ones included.
Behind == \A d \in Deals : Waiting(d) => accepted[d] >= Cutoff

\* The inductive invariant.
IInv == TypeOK /\ Dated /\ Past /\ AtWork /\ Seen /\ Behind

\* A cutoff is a time, and not a future one.
LEMMA CutoffInPast ==
  ASSUME TypeOK, Past
  PROVE  Cutoff \in Nat /\ Cutoff <= now
  BY SweepAssumption DEF SweepAssumption, TypeOK, Past, Cutoff, Minus

\* What the invariant says of one record of a sweep survives whatever moves neither the
\* clock, the runs nor the sweep, and makes no new acceptance wait.
LEMMA LedgerKeeps ==
  ASSUME IInv, TypeOK', UNCHANGED <<now, anchor, held, sweep, accepted>>,
         \A d \in Deals : Waiting(d)' => Waiting(d),
         \A d \in Deals : state'[d] = "ready" => state[d] = "ready",
         sweep.pc # "idle" =>
           \A d \in Deals : /\ state'[d] # "interrupted"
                            /\ state'[d] = "pending" => state[d] = "pending"
  PROVE  IInv'
<1>1. Cutoff' = Cutoff
  BY DEF Cutoff
<1>2. Dated' /\ Past'
  BY DEF IInv, Dated, Past
<1>3. AtWork'
  <2>1. CASE sweep.pc # "idle"
    <3>1. ASSUME NEW d \in Deals
          PROVE  state'[d] # "interrupted" /\ (state'[d] = "pending" => d \in sweep.candidates)
      BY <2>1 DEF IInv, AtWork
    <3>2. /\ sweep.begin <= now /\ now <= sweep.begin + Overlap
          /\ sweep.cutoff <= Cutoff
          /\ sweep.pc = "scan" => ~sweep.complete
      BY <2>1 DEF IInv, AtWork
    <3> QED BY <1>1, <3>1, <3>2 DEF AtWork
  <2>2. CASE sweep.pc = "idle"
    BY <2>2 DEF AtWork
  <2> QED BY <2>1, <2>2
<1>4. Seen' /\ Behind'
  BY <1>1 DEF IInv, Seen, Behind
<1> QED BY <1>2, <1>3, <1>4 DEF IInv

------------------------------------------------------------------------------
(* Outside. *)

\* A tick moves the first look-back, and InTime keeps it behind every acceptance.
LEMMA TickKeeps ==
  ASSUME IInv, Tick
  PROVE  IInv'
<1> USE SweepAssumption DEF SweepAssumption
<1>1. /\ now' = now + 1 /\ InTime
      /\ UNCHANGED <<state, accepted, anchor, held, queued, sweep>>
  BY DEF Tick
<1>2. TypeOK' /\ Dated' /\ Past'
  BY <1>1 DEF IInv, TypeOK, Dated, Past
<1>3. Cutoff' >= Cutoff /\ Cutoff \in Nat /\ Cutoff' \in Nat
  BY <1>1 DEF IInv, TypeOK, Cutoff, Minus
<1>4. AtWork'
  <2>1. CASE sweep.pc # "idle"
    <3>1. now < sweep.begin + Overlap
      BY <1>1, <2>1 DEF InTime
    <3>2. sweep.cutoff <= Cutoff'
      BY <1>3, <2>1 DEF IInv, TypeOK, AtWork
    <3> QED BY <1>1, <2>1, <3>1, <3>2 DEF IInv, TypeOK, AtWork
  <2>2. CASE sweep.pc = "idle"
    BY <1>1, <2>2 DEF AtWork
  <2> QED BY <2>1, <2>2
<1>5. Seen'
  BY <1>1 DEF IInv, Seen, Waiting
<1>6. ASSUME NEW d \in Deals, Waiting(d)' PROVE accepted'[d] >= Cutoff'
  <2>1. Waiting(d) /\ accepted[d] >= Cutoff
    BY <1>1, <1>6 DEF Waiting, IInv, Behind
  <2>2. CASE anchor = 0 /\ held.at = 0
    <3>1. now < accepted[d] + Lookback
      BY <1>1, <2>1, <2>2 DEF InTime, Open, Since, Waiting, IInv, TypeOK
    <3>2. Cutoff' = Minus(now + 1, Lookback)
      BY <1>1, <2>2 DEF Cutoff
    <3> QED BY <1>1, <3>1, <3>2 DEF Minus, IInv, TypeOK
  <2>3. CASE ~(anchor = 0 /\ held.at = 0)
    <3>1. Cutoff' = Cutoff
      BY <1>1, <2>3 DEF Cutoff, IInv, TypeOK
    <3> QED BY <1>1, <2>1, <3>1
  <2> QED BY <2>2, <2>3
<1> QED BY <1>2, <1>4, <1>5, <1>6 DEF IInv, Behind

\* Invitations, recoveries and other observers add no acceptance.
LEMMA OutsideKeeps ==
  ASSUME IInv, NEW d \in Deals,
         Invite(d) \/ InviteInterrupted(d) \/ Recover(d) \/ ConnectedElsewhere(d)
  PROVE  IInv'
<1>1. /\ UNCHANGED <<now, accepted, anchor, held, queued, sweep>>
      /\ state \in [Deals -> {"ready", "interrupted", "pending", "connected"}]
  BY DEF Invite, InviteInterrupted, Recover, ConnectedElsewhere, IInv, TypeOK
<1>2. PICK s \in {"interrupted", "pending", "connected"} :
        /\ state' = [state EXCEPT ![d] = s]
        /\ s \in {"interrupted", "pending"} => sweep.pc = "idle"
        /\ state[d] = "ready" \/ state[d] = "interrupted" \/ s = "connected"
        /\ s = "interrupted" => state[d] = "ready"
  BY DEF Invite, InviteInterrupted, Recover, ConnectedElsewhere
<1>3. TypeOK'
  BY <1>1, <1>2 DEF IInv, TypeOK
<1>4. ASSUME NEW e \in Deals, Waiting(e)' PROVE Waiting(e)
  BY <1>1, <1>2, <1>4 DEF IInv, Dated, Waiting
<1>5. \A e \in Deals : state'[e] = "ready" => state[e] = "ready"
  BY <1>1, <1>2
<1>6. sweep.pc # "idle" =>
        \A e \in Deals : /\ state'[e] # "interrupted"
                         /\ state'[e] = "pending" => state[e] = "pending"
  BY <1>1, <1>2 DEF IInv, AtWork
<1> QED BY <1>1, <1>3, <1>4, <1>5, <1>6, LedgerKeeps

\* An acceptance is new: no cutoff has passed it, and the sweep at work began before it.
LEMMA AcceptKeeps ==
  ASSUME IInv, NEW d \in Deals, Accept(d)
  PROVE  IInv'
<1>1. /\ state[d] \in {"interrupted", "pending"}
      /\ accepted' = [accepted EXCEPT ![d] = now]
      /\ UNCHANGED <<now, state, anchor, held, queued, sweep>>
  BY DEF Accept
<1>2. Cutoff' = Cutoff /\ Cutoff \in Nat /\ Cutoff <= now
  BY <1>1, CutoffInPast DEF Cutoff, IInv
<1>3. TypeOK' /\ Dated' /\ Past'
  BY <1>1 DEF IInv, TypeOK, Dated, Past
<1>4. AtWork'
  BY <1>1, <1>2 DEF IInv, AtWork
<1>5. ASSUME NEW e \in Deals, Waiting(e)'
      PROVE  \/ e = d /\ accepted'[e] = now
             \/ Waiting(e) /\ accepted'[e] = accepted[e]
  BY <1>1, <1>5 DEF IInv, TypeOK, Waiting
<1>6. Seen'
  <2>1. sweep.pc # "idle" => now >= sweep.begin
    BY DEF IInv, AtWork, TypeOK
  <2> QED BY <1>1, <1>5, <2>1 DEF IInv, Seen
<1>7. Behind'
  BY <1>2, <1>5 DEF IInv, TypeOK, Behind
<1> QED BY <1>3, <1>4, <1>6, <1>7 DEF IInv

\* A row is seeded; nothing else moves.
LEMMA SeedKeeps ==
  ASSUME IInv, Seed
  PROVE  IInv'
<1>1. TypeOK'
  BY DEF Seed, IInv, TypeOK
<1> QED BY <1>1, LedgerKeeps DEF Seed, IInv, AtWork, Waiting

------------------------------------------------------------------------------
(* The sweep. *)

\* The ledger is read with every attempt recorded, and the cutoff with it.
LEMMA BeginKeeps ==
  ASSUME IInv, ~Late, Begin
  PROVE  IInv'
<1> USE SweepAssumption DEF SweepAssumption
<1> DEFINE candidates == {d \in Deals : state[d] = "pending"}
<1>1. /\ \A d \in Deals : state[d] # "interrupted"
      /\ queued' = FALSE
      /\ sweep' = [pc |-> IF candidates = {} THEN "record" ELSE "scan", begin |-> now,
                   cutoff |-> Cutoff, candidates |-> candidates, found |-> {},
                   some |-> FALSE, complete |-> candidates = {}]
      /\ UNCHANGED <<now, state, accepted, anchor, held>>
  BY DEF Begin
<1>2. Cutoff' = Cutoff /\ Cutoff \in Nat
  BY <1>1, CutoffInPast DEF Cutoff, IInv
<1>3. /\ sweep'.pc = IF candidates = {} THEN "record" ELSE "scan"
      /\ sweep'.begin = now /\ sweep'.cutoff = Cutoff /\ sweep'.candidates = candidates
      /\ sweep'.complete <=> candidates = {}
  BY <1>1
<1>4. TypeOK'
  <2>1. /\ candidates \in SUBSET Deals /\ now \in Nat /\ (candidates = {}) \in BOOLEAN
        /\ (IF candidates = {} THEN "record" ELSE "scan")
             \in {"idle", "scan", "process", "record"}
        /\ {} \in SUBSET Deals /\ FALSE \in BOOLEAN
    BY DEF IInv, TypeOK
  <2> HIDE DEF candidates
  <2>2. sweep' \in [pc : {"idle", "scan", "process", "record"}, begin : Nat, cutoff : Nat,
                    candidates : SUBSET Deals, found : SUBSET Deals,
                    some : BOOLEAN, complete : BOOLEAN]
    BY <1>1, <1>2, <2>1
  <2> QED BY <1>1, <2>2 DEF IInv, TypeOK
<1>5. Dated' /\ Past'
  BY <1>1 DEF IInv, Dated, Past
<1>6. AtWork'
  BY <1>1, <1>2, <1>3 DEF IInv, TypeOK, AtWork
<1>7. Seen'
  BY <1>1, <1>3 DEF Seen, Waiting
<1>8. Behind'
  BY <1>1, <1>2 DEF IInv, Behind, Waiting
<1> QED BY <1>4, <1>5, <1>6, <1>7, <1>8 DEF IInv

\* A scan that is complete has read every entry down to the cutoff, and every
\* acceptance that waits is one of the candidates and above it.
LEMMA ScanKeeps ==
  ASSUME IInv, ~Stalls, Scan
  PROVE  IInv'
<1>1. PICK depth \in sweep.cutoff..(now + 1), stalled \in BOOLEAN :
        /\ stalled => Stalls
        /\ sweep' = [sweep EXCEPT !.pc = "process",
                       !.found = sweep.candidates \intersect Entries(depth),
                       !.complete = stalled \/ Complete(depth)]
  BY DEF Scan
<1>2. /\ sweep.pc = "scan"
      /\ UNCHANGED <<now, state, accepted, anchor, held, queued>>
  BY DEF Scan
<1>3. PICK done \in BOOLEAN : done <=> depth = sweep.cutoff
  OBVIOUS
<1>4. done = (stalled \/ Complete(depth))
  BY <1>1, <1>3 DEF Complete
<1>5. PICK found \in SUBSET Deals :
        found = {d \in sweep.candidates : accepted[d] > 0 /\ accepted[d] >= depth}
  BY DEF IInv, TypeOK
<1>6. found = sweep.candidates \intersect Entries(depth)
  BY <1>5 DEF Entries, IInv, TypeOK
<1>7. sweep' = [sweep EXCEPT !.pc = "process", !.found = found, !.complete = done]
  BY <1>1, <1>4, <1>6
<1>8. /\ sweep' \in [pc : {"idle", "scan", "process", "record"}, begin : Nat, cutoff : Nat,
                     candidates : SUBSET Deals, found : SUBSET Deals,
                     some : BOOLEAN, complete : BOOLEAN]
      /\ sweep'.pc = "process" /\ sweep'.begin = sweep.begin /\ sweep'.cutoff = sweep.cutoff
      /\ sweep'.candidates = sweep.candidates /\ sweep'.found = found /\ sweep'.complete = done
  BY <1>7 DEF IInv, TypeOK
<1>9. Cutoff' = Cutoff
  BY <1>2 DEF Cutoff
<1>10. TypeOK' /\ Dated' /\ Past'
  BY <1>2, <1>8 DEF IInv, TypeOK, Dated, Past
<1>11. AtWork'
  BY <1>2, <1>8, <1>9 DEF IInv, AtWork
<1>12. Seen'
  <2>1. ASSUME done, NEW d \in Deals, Waiting(d) PROVE d \in found
    <3>1. accepted[d] >= sweep.cutoff
      BY <1>2, <2>1, CutoffInPast DEF IInv, TypeOK, AtWork, Behind
    <3>2. d \in sweep.candidates
      BY <1>2, <2>1 DEF IInv, AtWork, Waiting
    <3> QED BY <1>3, <1>5, <2>1, <3>1, <3>2 DEF Waiting
  <2> QED BY <1>2, <1>8, <2>1 DEF Seen, Waiting
<1>13. Behind'
  BY <1>2, <1>9 DEF IInv, Behind, Waiting
<1> QED BY <1>10, <1>11, <1>12, <1>13 DEF IInv

\* A match that is processed waits no more.
LEMMA ProcessKeeps ==
  ASSUME IInv, NEW d \in Deals, Process(d)
  PROVE  IInv'
<1>1. /\ sweep.pc = "process"
      /\ state' = [state EXCEPT ![d] = "connected"]
      /\ sweep' = [sweep EXCEPT !.found = @ \ {d}, !.some = TRUE]
      /\ UNCHANGED <<now, accepted, anchor, held, queued>>
  BY DEF Process
<1>2. /\ sweep' \in [pc : {"idle", "scan", "process", "record"}, begin : Nat, cutoff : Nat,
                     candidates : SUBSET Deals, found : SUBSET Deals,
                     some : BOOLEAN, complete : BOOLEAN]
      /\ sweep'.pc = "process" /\ sweep'.begin = sweep.begin /\ sweep'.cutoff = sweep.cutoff
      /\ sweep'.candidates = sweep.candidates /\ sweep'.found = sweep.found \ {d}
      /\ sweep'.complete = sweep.complete
  BY <1>1 DEF IInv, TypeOK
<1>3. Cutoff' = Cutoff
  BY <1>1 DEF Cutoff
<1>4. \A e \in Deals : state'[e] = IF e = d THEN "connected" ELSE state[e]
  BY <1>1 DEF IInv, TypeOK
<1>5. TypeOK' /\ Dated' /\ Past'
  BY <1>1, <1>2, <1>4 DEF IInv, TypeOK, Dated, Past
<1>6. AtWork'
  BY <1>1, <1>2, <1>3, <1>4 DEF IInv, AtWork
<1>7. ASSUME NEW e \in Deals, Waiting(e)' PROVE e # d /\ Waiting(e)
  BY <1>1, <1>4, <1>7 DEF Waiting
<1>8. Seen' /\ Behind'
  BY <1>1, <1>2, <1>3, <1>7 DEF IInv, Seen, Behind
<1> QED BY <1>5, <1>6, <1>8 DEF IInv

\* A run is complete only with every match processed.
LEMMA ProcessedKeeps ==
  ASSUME IInv, Processed
  PROVE  IInv'
<1>1. /\ sweep.pc = "process"
      /\ sweep' = [sweep EXCEPT !.pc = "record", !.complete = CompleteProcessed]
      /\ UNCHANGED <<now, state, accepted, anchor, held, queued>>
  BY DEF Processed
<1>2. PICK done \in BOOLEAN : done = CompleteProcessed
  BY DEF CompleteProcessed, IInv, TypeOK
<1>3. done => sweep.complete /\ sweep.found = {}
  BY <1>2 DEF CompleteProcessed
<1>4. /\ sweep' \in [pc : {"idle", "scan", "process", "record"}, begin : Nat, cutoff : Nat,
                     candidates : SUBSET Deals, found : SUBSET Deals,
                     some : BOOLEAN, complete : BOOLEAN]
      /\ sweep'.pc = "record" /\ sweep'.begin = sweep.begin /\ sweep'.cutoff = sweep.cutoff
      /\ sweep'.candidates = sweep.candidates /\ sweep'.complete = done
  BY <1>1, <1>2 DEF IInv, TypeOK
<1>5. Cutoff' = Cutoff
  BY <1>1 DEF Cutoff
<1>6. TypeOK' /\ Dated' /\ Past'
  BY <1>1, <1>4 DEF IInv, TypeOK, Dated, Past
<1>7. AtWork'
  BY <1>1, <1>4, <1>5 DEF IInv, AtWork
<1>8. Seen'
  BY <1>1, <1>3, <1>4 DEF IInv, Seen, Waiting
<1>9. Behind'
  BY <1>1, <1>5 DEF IInv, Behind, Waiting
<1> QED BY <1>6, <1>7, <1>8, <1>9 DEF IInv

\* _record_sweep_run: a complete run began at most the overlap ago, and everything it left
\* was accepted since; an incomplete one hands on a cutoff that was behind everything.
LEMMA RecordKeeps ==
  ASSUME IInv, Record
  PROVE  IInv'
<1> USE SweepAssumption DEF SweepAssumption
<1>1. /\ sweep.pc = "record" /\ queued' = TRUE
      /\ sweep' = NoSweep
      /\ UNCHANGED <<now, state, accepted>>
  BY DEF Record
<1>2. CASE sweep.complete /\ anchor' = now /\ UNCHANGED held
  <2>1. TypeOK' /\ Dated' /\ Past'
    BY <1>1, <1>2 DEF NoSweep, IInv, TypeOK, Dated, Past
  <2>2. Cutoff' = Minus(now, Overlap)
    BY <1>1, <1>2 DEF Cutoff, IInv, TypeOK, Past
  <2>3. ASSUME NEW d \in Deals, Waiting(d)' PROVE accepted'[d] >= Cutoff'
    <3>1. Waiting(d) /\ accepted[d] >= sweep.begin
      BY <1>1, <1>2, <2>3 DEF Waiting, IInv, Seen
    <3>2. now <= sweep.begin + Overlap
      BY <1>1 DEF IInv, AtWork
    <3> QED BY <1>1, <2>2, <3>1, <3>2 DEF Minus, IInv, TypeOK
  <2> QED BY <1>1, <2>1, <2>3 DEF IInv, AtWork, Seen, Behind, NoSweep
<1>3. CASE held' = [at |-> now, cutoff |-> sweep.cutoff] /\ UNCHANGED anchor
  <2>1. sweep.cutoff <= Cutoff /\ Cutoff <= now /\ Cutoff \in Nat
    BY <1>1, CutoffInPast DEF IInv, AtWork
  <2>2. TypeOK' /\ Dated' /\ Past'
    BY <1>1, <1>3, <2>1 DEF NoSweep, IInv, TypeOK, Dated, Past
  <2>3. Cutoff' <= Cutoff /\ Cutoff' \in Nat
    BY <1>1, <1>3, <2>1 DEF Cutoff, IInv, TypeOK, Past
  <2>4. ASSUME NEW d \in Deals, Waiting(d)' PROVE accepted'[d] >= Cutoff'
    BY <1>1, <2>1, <2>3, <2>4 DEF Waiting, IInv, Behind, TypeOK
  <2> QED BY <1>1, <2>2, <2>4 DEF IInv, AtWork, Seen, Behind, NoSweep
<1> QED BY <1>2, <1>3 DEF Record

\* A sweep that fails records nothing: the runs stay as they are.
LEMMA FailKeeps ==
  ASSUME IInv, Fail
  PROVE  IInv'
<1>1. sweep' = NoSweep /\ UNCHANGED <<now, state, accepted, anchor, held, queued>>
  BY DEF Fail
<1>2. Cutoff' = Cutoff
  BY <1>1 DEF Cutoff
<1>3. TypeOK'
  BY <1>1 DEF NoSweep, IInv, TypeOK
<1>4. Dated' /\ Past' /\ Behind'
  BY <1>1, <1>2 DEF IInv, Dated, Past, Behind, Waiting
<1> QED BY <1>1, <1>3, <1>4 DEF IInv, AtWork, Seen, NoSweep

------------------------------------------------------------------------------
\* No sweep, no run and no invitation yet.
LEMMA InitInv ==
  ASSUME Init
  PROVE  IInv
<1>1. TypeOK
  BY DEF Init, NoSweep, TypeOK
<1> QED BY <1>1 DEF Init, NoSweep, IInv, Dated, Past, AtWork, Seen, Behind, Waiting

\* Every step of the sweep, of LinkedIn and of the other lanes keeps the invariant.
LEMMA StepInv ==
  ASSUME IInv, Sound, [Next]_vars
  PROVE  IInv'
<1>1. CASE UNCHANGED vars
  <2>1. TypeOK'
    BY <1>1 DEF vars, IInv, TypeOK
  <2> QED BY <1>1, <2>1, LedgerKeeps DEF vars, IInv, AtWork, Waiting
<1> QED BY <1>1, TickKeeps, OutsideKeeps, AcceptKeeps, SeedKeeps, BeginKeeps, ScanKeeps,
        ProcessKeeps, ProcessedKeeps, RecordKeeps, FailKeeps DEF Sound, Next

\* The invariant holds throughout.
THEOREM Invariance == Sound => (Spec => []IInv)
<1> SUFFICES ASSUME Sound PROVE Spec => []IInv
  OBVIOUS
<1>1. Init => IInv
  BY InitInv
<1>2. IInv /\ [Next]_vars => IInv'
  BY StepInv
<1> QED BY <1>1, <1>2, PTL DEF Spec

\* sweep_connections.py _incremental_cutoff: complete runs move the cutoff and incomplete
\* ones keep it, and no acceptance still to be found is ever older than the cutoff the
\* next sweep takes.
THEOREM NothingBehindTheCutoffTheorem == Sound => (Spec => []NothingBehindTheCutoff)
<1>1. IInv => NothingBehindTheCutoff
  BY DEF IInv, Behind, Waiting, Open, NothingBehindTheCutoff
<1> QED BY <1>1, Invariance, PTL
==============================================================================
