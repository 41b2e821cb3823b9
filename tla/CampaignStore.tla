---------------------------- MODULE CampaignStore ----------------------------
(***************************************************************************)
(* The PostgreSQL tables the API and the deployers share: users and        *)
(* fundraisers (one row per account), campaigns and blockchain_events, and *)
(* the statements and transactions the repositories run on them.  The row  *)
(* locks (SELECT ... FOR UPDATE) belong to the transactions that hold      *)
(* them, see CampaignDeployment.                                           *)
(***************************************************************************)
EXTENDS Pawfund

VARIABLES
    users,      \* users[a]: no row yet, live, or deleted_at is set
    campaigns,  \* campaigns[c]: the row with primary key c
    events      \* blockchain_events: the deployments recorded

storeVars == <<users, campaigns, events>>

(***************************************************************************)
(* The statuses of the enum campaign_status; "closed" stands for           *)
(* completed, cancelled and failed, which no code of the repository tells  *)
(* apart.  contract holds both columns a deployment fills, event_id and    *)
(* contract_address.                                                       *)
(***************************************************************************)
CampaignRow ==
    [status     : {"absent", "pending", "active", "closed"},
     fundraiser : Accounts \cup {None},
     key        : Keys \cup {None},
     payload    : Payloads \cup {None},
     contract   : Deployments \cup {None}]

NoRow == [status |-> "absent", fundraiser |-> None, key |-> None,
          payload |-> None, contract |-> None]

StoreTypeOK ==
    /\ users \in [Accounts -> {"none", "live", "deleted"}]
    /\ campaigns \in [Ids -> CampaignRow]
    /\ events \subseteq Deployments

StoreInit ==
    /\ users = [a \in Accounts |-> "none"]
    /\ campaigns = [c \in Ids |-> NoRow]
    /\ events = {}

-----------------------------------------------------------------------------
(***************************************************************************)
(* Reads.                                                                  *)
(***************************************************************************)

(* The accounts lockFundraiser selects: role fundraiser, not deleted. *)
LiveAccounts(w) == {a \in Accounts : users[a] = "live" /\ WalletOf[a] = w}

Stored == {c \in Ids : campaigns[c].status # "absent"}

(* Variant: only a pending campaign occupies its key. *)
findCampaignByIdempotencyKey_pending(a, k) ==
    {c \in Stored : /\ campaigns[c].fundraiser = a
                    /\ campaigns[c].key = k
                    /\ campaigns[c].status = "pending"}

findCampaignByIdempotencyKey(a, k) ==
    {c \in Stored : campaigns[c].fundraiser = a /\ campaigns[c].key = k}

sameCampaignCreationPayload(c, p) == campaigns[c].payload = p

(* Variant: pending campaigns do not keep the profile. *)
hasActiveCampaign_activeOnly(a) ==
    \E c \in Ids : campaigns[c].fundraiser = a /\ campaigns[c].status = "active"

hasActiveCampaign(a) ==
    \E c \in Ids : /\ campaigns[c].fundraiser = a
                   /\ campaigns[c].status \in {"pending", "active"}

(***************************************************************************)
(* Writes.                                                                 *)
(***************************************************************************)

(* Create of the fundraiser repository: users_wallet_address_key admits    *)
(* one row per wallet among the rows that are not deleted.                 *)
RegisterFundraiser(a) ==
    /\ users[a] = "none"
    /\ LiveAccounts(WalletOf[a]) = {}
    /\ users' = [users EXCEPT ![a] = "live"]
    /\ UNCHANGED <<campaigns, events>>

(* softDeleteUser *)
SoftDelete(a) ==
    /\ users' = [users EXCEPT ![a] = "deleted"]
    /\ UNCHANGED <<campaigns, events>>

(* insertCampaign, committed. *)
InsertCampaign(c, a, k, p) ==
    /\ campaigns' = [campaigns EXCEPT ![c] =
           [status |-> "pending", fundraiser |-> a, key |-> k,
            payload |-> p, contract |-> None]]
    /\ UNCHANGED <<users, events>>

(***************************************************************************)
(* CompleteDeployment: one transaction under a lock of the campaign row.   *)
(* A campaign that is no longer pending is left alone; a deployment whose  *)
(* transaction is already recorded violates UNIQUE (tx_hash, log_index).   *)
(***************************************************************************)
DuplicateEvent(d) == d \in events

(* Variant: the status of the locked row is not checked. *)
CompleteDeployment_anyStatus(c, d) ==
    IF ~DuplicateEvent(d)
      THEN /\ events' = events \cup {d}
           /\ campaigns' = [campaigns EXCEPT ![c].status = "active",
                                             ![c].contract = d]
           /\ UNCHANGED users
      ELSE UNCHANGED storeVars

CompleteDeployment(c, d) ==
    IF campaigns[c].status = "pending" /\ ~DuplicateEvent(d)
      THEN /\ events' = events \cup {d}
           /\ campaigns' = [campaigns EXCEPT ![c].status = "active",
                                             ![c].contract = d]
           /\ UNCHANGED users
      ELSE UNCHANGED storeVars

(* The error CompleteDeployment returns to the worker as a failure. *)
CompletionRejected(c, d) == campaigns[c].status = "pending" /\ DuplicateEvent(d)

(* The end of a campaign, written by the chain indexer or an operator. *)
CloseCampaign(c) ==
    /\ campaigns[c].status \in {"pending", "active"}
    /\ campaigns' = [campaigns EXCEPT ![c].status = "closed"]
    /\ UNCHANGED <<users, events>>
=============================================================================
