--------------------------- MODULE MCCampaignOutcome ---------------------------
(***************************************************************************)
(* Instances of the connect lane with its completion notices for TLC.      *)
(***************************************************************************)
EXTENDS CampaignOutcome

CONSTANTS d1, d2
==============================================================================
