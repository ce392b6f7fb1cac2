---------------------------- MODULE MCConnectLane ----------------------------
(***************************************************************************)
(* Instances of the connect lane for TLC.                                  *)
(***************************************************************************)
EXTENDS ConnectLane

\* Two Deals of one sender share a budget and a queue.  The legacy one is left alone,
\* and of the other replies and withdrawals are left out, so that two Deals fit (in
\* CampaignOutcome people do it all).
FewPeople ==
  \/ Work \/ ExitEmpty \/ BrowserLost \/ Crash \/ RestartBlocked \/ Raise \/ NewDay
  \/ ToggleCampaign
  \/ \E d \in Deals : DeliverInvitation(d)
  \/ \E d \in Versioned :
       \/ Connected(d) \/ InvitedByHand(d) \/ Declined(d)
       \/ Suppress(d) \/ ImportConnection(d) \/ CloseStranded(d)

FairFewPeople == Init /\ [][FewPeople]_vars /\ WF_vars(Work) /\ WF_vars(NewDay)
==============================================================================
