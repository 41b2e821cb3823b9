---------------------------- MODULE FactoryChain ----------------------------
(***************************************************************************)
(* The chain and the campaign factory as FactoryCampaignDeployer uses      *)
(* them.  All deployers sign with one account, so their transactions share *)
(* one sequence of nonces.  The factory deploys one contract per campaign  *)
(* id: its ABI declares the error CampaignAlreadyDeployed and the view     *)
(* campaignAddresses.                                                      *)
(***************************************************************************)
EXTENDS Pawfund, FiniteSets

ASSUME TxIdsAssumption == IsFiniteSet(TxIds)

VARIABLES txs  \* txs[t]: the transaction with hash t

Transaction ==
    [state : {"none", "pending", "replaced", "success", "reverted"},
     nonce : Nat,
     task  : Task \cup {None}]

NoTransaction == [state |-> "none", nonce |-> 0, task |-> None]

ChainTypeOK == txs \in [TxIds -> Transaction]

ChainInit == txs = [t \in TxIds |-> NoTransaction]

(* PendingNonceAt: one more than the last nonce of a mined or pending      *)
(* transaction; a replaced one has given its nonce to another.             *)
PendingNonce == Cardinality({t \in TxIds : txs[t].state \notin {"none", "replaced"}})

(* The transactions whose CampaignCreated event names campaign c. *)
Contracts(c) == {t \in TxIds : txs[t].state = "success" /\ txs[t].task.campaign = c}

(* The factory reverts createCampaign of a campaign it already deployed;   *)
(* EstimateGas simulates the call on the latest block.                     *)
CampaignAlreadyDeployed(c) == Contracts(c) # {}

(* The pending transaction that holds nonce n, if there is one. *)
Holders(n) == {t \in TxIds : txs[t].state = "pending" /\ txs[t].nonce = n}

(* eth_sendRawTransaction accepted by the node: the nonce is the next one, *)
(* or the gas price suffices to replace the transaction that holds it.     *)
AcceptTransaction(t, n, task) ==
    /\ txs[t].state = "none"
    /\ n = PendingNonce \/ Holders(n) # {}
    /\ txs' = [u \in TxIds |->
          IF u = t THEN [state |-> "pending", nonce |-> n, task |-> task]
          ELSE IF u \in Holders(n) THEN [txs[u] EXCEPT !.state = "replaced"]
          ELSE txs[u]]

(* A block includes t, whose predecessors are all mined. *)
MineTransaction(t) ==
    /\ txs[t].state = "pending"
    /\ \A u \in TxIds : txs[u].state = "pending" => txs[u].nonce >= txs[t].nonce
    /\ txs' = [txs EXCEPT ![t].state =
                  IF CampaignAlreadyDeployed(txs[t].task.campaign)
                    THEN "reverted" ELSE "success"]
=============================================================================
