----------------------------- MODULE MCCampaign -----------------------------
(* Two tasks and two trials, over three commands in any order. *)
EXTENDS CampaignInvariant

TwoTasks  == 1 .. 2
TwoTrials == 1 .. 2
=============================================================================
