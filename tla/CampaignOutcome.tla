----------------------------- MODULE CampaignOutcome -----------------------------
(***************************************************************************)
(* The connect lane together with the reconciler of completion notices:    *)
(* campaign_callbacks.reconcile reads the Deal and the receipt the lane is  *)
(* still writing, and freezes what campaign_integrations.status makes of   *)
(* them.  It runs in a thread beside the lane, or in a command of its own, *)
(* so at any moment.  How the frozen event is delivered is module          *)
(* CallbackOutbox.                                                         *)
(***************************************************************************)
EXTENDS ConnectLane

VARIABLES
  closed,  \* Deals whose closing_reason is set; no lane clears it
  frozen   \* the outcome in callback_payload, "none" while it is not ready

outcomeVars == <<vars, closed, frozen>>

Outcomes == {"enrolled", "sent", "uncertain", "failed", "held"}

OutcomeInit == Init /\ closed = {} /\ frozen = [d \in Versioned |-> "none"]

\* Every write of FAILED or COMPLETED sets closing_reason with it.
Closing == closed' = closed \union {d \in Deals : deal'[d] \in {"FAILED", "COMPLETED"}}

LaneStep == Next /\ Closing /\ UNCHANGED frozen

\* Faulty variant: every receipt the lane holds open reads as held.
StatusEager(d) ==
  IF note[d] = "sent" THEN "sent"
  ELSE IF note[d] = "unclear" THEN "uncertain"
  ELSE IF deal[d] = "FAILED" \/ d \in closed THEN "failed"
  ELSE IF note[d] \in {"failed", "stopped"} THEN "held"
  ELSE "enrolled"

\* status: the Deal's own ledger (invitation_sent_at) is written after the receipt.
Status(d) ==
  IF note[d] = "sent" THEN "sent"
  ELSE IF note[d] = "unclear" THEN "uncertain"
  ELSE IF deal[d] = "FAILED" \/ d \in closed THEN "failed"
  ELSE IF note[d] = "stopped" THEN "held"
  ELSE "enrolled"

Freeze(d) ==
  /\ frozen[d] = "none" /\ Status(d) # "enrolled"
  /\ frozen' = [frozen EXCEPT ![d] = Status(d)]
  /\ UNCHANGED <<vars, closed>>

OutcomeNext == LaneStep \/ \E d \in Versioned : Freeze(d)

OutcomeSpec == OutcomeInit /\ [][OutcomeNext]_outcomeVars

-----------------------------------------------------------------------------
\* An event that says held stands for a person this lane never invites, not even by
\* an attempt in the browser while the event was frozen or by a later click of
\* LinkedIn's (status "held", close_unsent_connection_delivery).
HeldIsNeverSent ==
  \A d \in Versioned : frozen[d] = "held" => sends[d] = 0 /\ ~inflight[d]

\* An event that says sent or uncertain is charged to the sender's budget exactly once,
\* and stays what the lane's own records say (status, reconcile).
PossiblySentIsCharged ==
  \A d \in Versioned : frozen[d] \in {"sent", "uncertain"} =>
    /\ Status(d) = frozen[d]
    /\ frozen[d] = "sent" => charged[d] = 1

\* "freezes one event after a final outcome": an event that says failed (a closed Deal,
\* status) is never followed by the lane's own record that the invitation went out.
FailedIsFinal ==
  \A d \in Versioned : frozen[d] = "failed" => note[d] # "sent"
==============================================================================
