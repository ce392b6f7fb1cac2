------------------------------ MODULE SweepCutoff ------------------------------
(***************************************************************************)
(* How a sender's connection sweeps find accepted invitations              *)
(* (linkedin/tasks/sweep_connections.py and the scanner of                 *)
(* linkedin/actions/connections.py, incremental mode).                     *)
(*                                                                         *)
(* A sweep reads the Connections page from the newest entry down to a      *)
(* cutoff that it derives from the runs recorded before it.  An acceptance *)
(* the cutoff has passed is never read again.  Time is in ticks; the page   *)
(* is sorted by the time of acceptance.                                    *)
(***************************************************************************)
EXTENDS Naturals, FiniteSets

CONSTANTS
  Deals,     \* invitations of the sender
  Overlap,   \* CONNECTION_SWEEP_OVERLAP_HOURS; a sweep's budget is not longer
  Lookback,  \* CONNECTION_SWEEP_INITIAL_LOOKBACK_DAYS
  MaxTime,   \* bound: ticks
  Late,      \* a sweep may run before a connect pass has seen an interrupted attempt
  Stalls     \* the page may stop loading before it reaches the cutoff

ASSUME SweepAssumption ==
  /\ Overlap \in Nat \ {0} /\ Lookback \in Nat \ {0} /\ MaxTime \in Nat
  /\ Late \in BOOLEAN /\ Stalls \in BOOLEAN

VARIABLES
  now,       \* the time; it starts at 1
  state,     \* "ready", "interrupted" (invited, not recorded), "pending", "connected"
  accepted,  \* time of the acceptance, 0 when there is none
  anchor,    \* completed_at of the latest complete run, 0 before the first
  held,      \* latest incomplete run: its time (0 before the first) and cutoff
  queued,    \* the sender has a pending sweep row
  sweep      \* the sweep at work

vars == <<now, state, accepted, anchor, held, queued, sweep>>

NoSweep == [pc |-> "idle", begin |-> 0, cutoff |-> 0, candidates |-> {}, found |-> {},
            some |-> FALSE, complete |-> FALSE]

TypeOK ==
  /\ now \in Nat \ {0}
  /\ state \in [Deals -> {"ready", "interrupted", "pending", "connected"}]
  /\ accepted \in [Deals -> Nat]
  /\ anchor \in Nat
  /\ held \in [at : Nat, cutoff : Nat]
  /\ queued \in BOOLEAN
  /\ sweep \in [pc : {"idle", "scan", "process", "record"}, begin : Nat, cutoff : Nat,
                candidates : SUBSET Deals, found : SUBSET Deals,
                some : BOOLEAN, complete : BOOLEAN]

Init ==
  /\ now = 1
  /\ state = [d \in Deals |-> "ready"]
  /\ accepted = [d \in Deals |-> 0]
  /\ anchor = 0
  /\ held = [at |-> 0, cutoff |-> 0]
  /\ queued = TRUE
  /\ sweep = NoSweep

Minus(a, b) == IF a > b THEN a - b ELSE 0

\* Accepted, and the Deal does not say so yet.
Open(d) == state[d] = "pending" /\ accepted[d] > 0

Since(d) == IF accepted[d] = 0 THEN now ELSE accepted[d]

-----------------------------------------------------------------------------
(* Outside                                                                 *)

\* Faulty variant: the latest incomplete run is not asked.
CutoffOfComplete ==
  IF anchor = 0 THEN Minus(now, Lookback) ELSE Minus(anchor, Overlap)

\* _incremental_cutoff: an incomplete run newer than the latest complete one hands its
\* cutoff on; else the latest complete run less the overlap; else the first look back.
Cutoff ==
  IF held.at > anchor THEN held.cutoff
  ELSE IF anchor = 0 THEN Minus(now, Lookback)
  ELSE Minus(anchor, Overlap)

\* Assumption on time: a sweep keeps its budget (CONNECTION_SWEEP_MAX_SECONDS), and the
\* very first run is recorded before its look-back passes an acceptance.
InTime ==
  /\ sweep.pc # "idle" => now < sweep.begin + Overlap
  /\ anchor = 0 /\ held.at = 0 =>
       \A d \in Deals : Open(d) \/ state[d] = "interrupted" => now < Since(d) + Lookback

Tick ==
  /\ now < MaxTime /\ InTime
  /\ now' = now + 1
  /\ UNCHANGED <<state, accepted, anchor, held, queued, sweep>>

\* The connect lane sends an invitation and writes PENDING in the same task, or stops
\* between the two.  It has the browser, so no sweep is scanning.
Invite(d) ==
  /\ state[d] = "ready" /\ sweep.pc = "idle"
  /\ state' = [state EXCEPT ![d] = "pending"]
  /\ UNCHANGED <<now, accepted, anchor, held, queued, sweep>>

InviteInterrupted(d) ==
  /\ state[d] = "ready" /\ sweep.pc = "idle"
  /\ state' = [state EXCEPT ![d] = "interrupted"]
  /\ UNCHANGED <<now, accepted, anchor, held, queued, sweep>>

\* A later connect pass takes the interrupted attempt for PENDING.
Recover(d) ==
  /\ state[d] = "interrupted" /\ sweep.pc = "idle"
  /\ state' = [state EXCEPT ![d] = "pending"]
  /\ UNCHANGED <<now, accepted, anchor, held, queued, sweep>>

Accept(d) ==
  /\ state[d] \in {"interrupted", "pending"} /\ accepted[d] = 0
  /\ accepted' = [accepted EXCEPT ![d] = now]
  /\ UNCHANGED <<now, state, anchor, held, queued, sweep>>

\* The realtime listener, an import or an operator sees the acceptance first.
ConnectedElsewhere(d) ==
  /\ Open(d)
  /\ state' = [state EXCEPT ![d] = "connected"]
  /\ UNCHANGED <<now, accepted, anchor, held, queued, sweep>>

\* heal_tasks at a daemon's start, or enqueue_sweep_connections by the connect lane.
Seed ==
  /\ ~queued /\ sweep.pc = "idle"
  /\ queued' = TRUE
  /\ UNCHANGED <<now, state, accepted, anchor, held, sweep>>

-----------------------------------------------------------------------------
(* reconcile_pending_connections                                           *)

\* The pending ledger and the cutoff are read; without a candidate no page is opened.
Begin ==
  /\ queued /\ sweep.pc = "idle"
  /\ Late \/ \A d \in Deals : state[d] # "interrupted"
  /\ queued' = FALSE
  /\ LET candidates == {d \in Deals : state[d] = "pending"} IN
     sweep' = [pc |-> IF candidates = {} THEN "record" ELSE "scan", begin |-> now,
               cutoff |-> Cutoff, candidates |-> candidates, found |-> {},
               some |-> FALSE, complete |-> candidates = {}]
  /\ UNCHANGED <<now, state, accepted, anchor, held>>

\* Entries of the page down to a depth.
Entries(depth) == {d \in Deals : accepted[d] > 0 /\ accepted[d] >= depth}

\* Faulty variant: a budget that ran out counts as an end.
CompleteAnyway(depth) == TRUE

\* ConnectionScrapeResult.complete: the cutoff was reached, or the page has no more; a
\* page that stalled looks the same.
Complete(depth) == depth = sweep.cutoff

\* _scan_connections_page reaches the cutoff, or ends above it.
Scan ==
  /\ sweep.pc = "scan"
  /\ \E depth \in sweep.cutoff..(now + 1), stalled \in BOOLEAN :
       /\ stalled => Stalls
       /\ sweep' = [sweep EXCEPT !.pc = "process",
                      !.found = sweep.candidates \intersect Entries(depth),
                      !.complete = stalled \/ Complete(depth)]
  /\ UNCHANGED <<now, state, accepted, anchor, held, queued>>

\* process_accepted_deal: CONNECTED, whatever the Deal says by now.
Process(d) ==
  /\ sweep.pc = "process" /\ d \in sweep.found
  /\ state' = [state EXCEPT ![d] = "connected"]
  /\ sweep' = [sweep EXCEPT !.found = @ \ {d}, !.some = TRUE]
  /\ UNCHANGED <<now, accepted, anchor, held, queued>>

\* Matches that did not fit the budget make the run incomplete.
CompleteProcessed == sweep.complete /\ sweep.found = {}

\* The budget is asked after the first match.
Processed ==
  /\ sweep.pc = "process" /\ (sweep.found = {} \/ sweep.some)
  /\ sweep' = [sweep EXCEPT !.pc = "record", !.complete = CompleteProcessed]
  /\ UNCHANGED <<now, state, accepted, anchor, held, queued>>

\* _record_sweep_run and the next row.
Record ==
  /\ sweep.pc = "record"
  /\ IF sweep.complete
       THEN anchor' = now /\ UNCHANGED held
       ELSE held' = [at |-> now, cutoff |-> sweep.cutoff] /\ UNCHANGED anchor
  /\ queued' = TRUE
  /\ sweep' = NoSweep
  /\ UNCHANGED <<now, state, accepted>>

\* The handler raises or the daemon ends: nothing is recorded and no row follows.
Fail ==
  /\ sweep.pc # "idle"
  /\ sweep' = NoSweep
  /\ UNCHANGED <<now, state, accepted, anchor, held, queued>>

-----------------------------------------------------------------------------
Next ==
  \/ Tick \/ Seed \/ Begin \/ Scan \/ Processed \/ Record \/ Fail
  \/ \E d \in Deals :
       Invite(d) \/ InviteInterrupted(d) \/ Recover(d) \/ Accept(d) \/ ConnectedElsewhere(d)
         \/ Process(d)

Spec == Init /\ [][Next]_vars

\* Connect passes and sweeps go on; now and then a scan reaches its cutoff, and not every
\* sweep fails between its scan and its first match.
FairSpec ==
  /\ Spec
  /\ WF_vars(Seed) /\ WF_vars(\E d \in Deals : Recover(d))
  /\ WF_vars(Begin) /\ WF_vars(Scan) /\ WF_vars(Processed) /\ WF_vars(Record)
  /\ SF_vars(Scan /\ sweep'.complete) /\ SF_vars(\E d \in Deals : Process(d))

-----------------------------------------------------------------------------
(* Properties                                                              *)

\* ARCHITECTURE.md:461: complete runs advance the watermark, incomplete runs preserve
\* the target cutoff: no acceptance that is still to be found is ever older than the
\* cutoff the next sweep will take.
NothingBehindTheCutoff == \A d \in Deals : Open(d) => accepted[d] >= Cutoff

\* So each acceptance is found.
AcceptedIsFound == \A d \in Deals : Open(d) ~> state[d] = "connected"
==============================================================================
