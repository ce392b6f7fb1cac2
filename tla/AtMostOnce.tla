------------------------------ MODULE AtMostOnce ------------------------------
(***************************************************************************)
(* What every outbound lane of the system promises about one piece of      *)
(* outreach: an attempt may be taken back and tried again only while the    *)
(* provider has not acted on it, an attempt whose outcome is unknown is     *)
(* closed for good, and the provider therefore acts at most once.          *)
(***************************************************************************)
EXTENDS Naturals

CONSTANT Items  \* pieces of outreach: one message to one person

VARIABLES
  phase,     \* what the sender's durable record says
  delivered  \* how many times the provider acted

vars == <<phase, delivered>>

Phases == {"unsent", "inFlight", "closed", "withheld"}

TypeOK ==
  /\ phase \in [Items -> Phases]
  /\ delivered \in [Items -> {0, 1}]

Init ==
  /\ phase = [i \in Items |-> "unsent"]
  /\ delivered = [i \in Items |-> 0]

\* The attempt is recorded before the provider can see it.
Begin(i) ==
  /\ phase[i] = "unsent"
  /\ phase' = [phase EXCEPT ![i] = "inFlight"]
  /\ UNCHANGED delivered

\* The provider acts, perhaps after the sender has stopped looking.
Deliver(i) ==
  /\ phase[i] \in {"inFlight", "closed"}
  /\ delivered[i] = 0
  /\ delivered' = [delivered EXCEPT ![i] = 1]
  /\ UNCHANGED phase

\* Only an attempt the provider has not acted on is taken back.
Retract(i) ==
  /\ phase[i] = "inFlight"
  /\ delivered[i] = 0
  /\ phase' = [phase EXCEPT ![i] = "unsent"]
  /\ UNCHANGED delivered

\* Sent, or unclear: never tried again.
Close(i) ==
  /\ phase[i] \in {"unsent", "inFlight"}
  /\ phase' = [phase EXCEPT ![i] = "closed"]
  /\ UNCHANGED delivered

\* A sweep closes every interrupted attempt it finds in one transaction.
CloseAll(S) ==
  /\ \A i \in S : phase[i] \in {"unsent", "inFlight"}
  /\ phase' = [i \in Items |-> IF i \in S THEN "closed" ELSE phase[i]]
  /\ UNCHANGED delivered

\* Stopped before any attempt.
Withhold(i) ==
  /\ phase[i] = "unsent"
  /\ phase' = [phase EXCEPT ![i] = "withheld"]
  /\ UNCHANGED delivered

Next ==
  \/ \E i \in Items : Begin(i) \/ Deliver(i) \/ Retract(i) \/ Close(i) \/ Withhold(i)
  \/ \E S \in SUBSET Items : CloseAll(S)

Spec == Init /\ [][Next]_vars
==============================================================================
