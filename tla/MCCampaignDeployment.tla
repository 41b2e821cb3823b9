------------------------ MODULE MCCampaignDeployment ------------------------
(***************************************************************************)
(* Small instances of CampaignDeployment for TLC.                          *)
(***************************************************************************)
EXTENDS CampaignDeployment, TLC

CONSTANTS r1, r2, r3, w1, a1, a2, k1, k2, i1, d1, d2, t1, t2, t3

(* Ends: 2 and 4 are whole seconds of two ticks, 3 is fractional.  With a  *)
(* lead time of one tick, 2 is accepted at time 0 and 1 and too soon at 2. *)
Body(goal, endAt, image) == [goal |-> goal, endAt |-> endAt, image |-> image, text |-> "text"]

OneBody == {Body(1, 2, i1)}
TwoBodies == {Body(1, 2, i1), Body(2, 2, i1)}
MixedBodies == {Body(1, 2, i1), Body(1, 3, i1)}
FractionalBody == {Body(1, 3, i1)}

OneAccount == a1 :> w1
TwoAccounts == a1 :> w1 @@ a2 :> w1

(* What the durable queue may hold besides tasks of this API: a body that  *)
(* does not decode, a task of another chain, a task of a campaign this     *)
(* database does not have.                                                 *)
Stray(id, chain) ==
    [id |-> id,
     task |-> [campaign |-> None, fundraiser |-> None, wallet |-> w1,
               goal |-> 1, endAt |-> 2, chain |-> chain]]
NoStrays == {}
AllStrays == {Stray("malformed", 0), Stray("otherChain", 2), Stray("missing", 1)}

RequestSymmetry == Permutations(Ids) \cup Permutations(Workers) \cup Permutations(TxIds) \cup Permutations(Keys)
=============================================================================
