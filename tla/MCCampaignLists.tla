--------------------------- MODULE MCCampaignLists ---------------------------
(* TLC instance of CampaignLists. *)
EXTENDS CampaignLists, TLC

CONSTANTS f1, u1, u2
MCGoal == [c \in Campaigns |-> IF c = 1 THEN 2 ELSE 3]
MCLists ==
    [kind : {"public"}, sort : {"newest", "most-donated", "random"}, of : {None}, status : {None}]
    \cup [kind : {"public"}, sort : {"close-to-goal"}, of : {None}, status : {"active"}]
    \cup [kind : {"fundraiser"}, sort : {"oldest"}, of : {f1}, status : {None}]
    \cup [kind : {"donors"}, sort : {"recent", "top"}, of : {1}, status : {None}]
    \cup [kind : {"donations"}, sort : {"recent"}, of : {1}, status : {None}]
Symmetric == Permutations(Profiles)
=============================================================================
