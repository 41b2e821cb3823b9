------------------------------- MODULE Pawfund -------------------------------
(***************************************************************************)
(* The values shared by every part of the campaign deployment path: the    *)
(* identifiers, the creation payload, the deployment task and the message  *)
(* that carries it from the API process to the deployer processes.         *)
(*                                                                         *)
(* Time is counted in ticks, the resolution PostgreSQL stores (one         *)
(* microsecond); TicksPerSecond ticks make the second that RFC 3339        *)
(* formatting keeps.                                                       *)
(***************************************************************************)
EXTENDS Naturals

CONSTANTS
    Ids,             \* the UUIDs generateID returns, one per create request
    Wallets,         \* wallet addresses of authenticated principals
    Accounts,        \* users.id values a fundraiser can be registered under
    WalletOf,        \* the wallet each account is registered with
    Keys,            \* values of the Idempotency-Key header
    Images,          \* uploaded campaign images (staging and canonical key)
    Texts,           \* title, description, story, country and zip code
    Payloads,        \* valid request bodies
    Workers,         \* deployer processes
    TxIds,           \* hashes of the transactions the deployers can send
    Strays,          \* messages left in the durable queue by something else
    ApiChainID,      \* SIWE_CHAIN_ID of the API
    DeployerChainID, \* SIWE_CHAIN_ID of the deployers
    DeploymentMode,  \* "stub" or "live"
    TicksPerSecond,
    LeadTime,        \* CampaignDeploymentLeadTime, in ticks
    None             \* SQL NULL, a nil pointer

(***************************************************************************)
(* createCampaignRequest after normalize and validate: the goal is         *)
(* positive and endAt is any RFC 3339 time, fractional seconds included.   *)
(***************************************************************************)
Payload == [goal : Nat \ {0}, endAt : Nat, image : Images, text : Texts]

(***************************************************************************)
(* CampaignDeploymentTask.  A task of a campaign that no row has names     *)
(* None; chain 0 is a body DecodeCampaignDeploymentMessage rejects.        *)
(***************************************************************************)
Task == [campaign : Ids \cup {None}, fundraiser : Accounts \cup {None},
         wallet : Wallets, goal : Nat, endAt : Nat, chain : Nat]

(***************************************************************************)
(* A message is a task body and the publication that put it in the queue,  *)
(* so that two publications of equal bodies are two messages.  A request   *)
(* publishes at most once, hence its id also names its publication.        *)
(***************************************************************************)
Message == [id : Ids \cup {m.id : m \in Strays}, task : Task]

(***************************************************************************)
(* A deployment is identified by the transaction that made it: the hash of *)
(* a sent transaction, or the hash stubTxHash derives from the campaign.   *)
(***************************************************************************)
StubTx(c) == <<"stub", c>>
Deployments == TxIds \cup {StubTx(c) : c \in Ids}

(***************************************************************************)
(* What survives time.Format(time.RFC3339): the whole seconds.             *)
(***************************************************************************)
FormatRFC3339(t) == t - (t % TicksPerSecond)

ASSUME ConstantsAssumption ==
    /\ WalletOf \in [Accounts -> Wallets]
    /\ Payloads \subseteq Payload
    /\ TicksPerSecond \in Nat \ {0}
    /\ LeadTime \in Nat
    /\ ApiChainID \in Nat \ {0}
    /\ DeployerChainID \in Nat \ {0}
    /\ DeploymentMode \in {"stub", "live"}

ASSUME NoneAssumption ==
    /\ None \notin Ids /\ None \notin Accounts /\ None \notin Workers
    /\ None \notin TxIds /\ None \notin Message /\ None \notin Deployments

ASSUME StraysAssumption ==
    /\ \A m \in Strays : m \in [id : {m.id}, task : Task] /\ m.id \notin Ids
    /\ \A m, n \in Strays : m.id = n.id => m = n
    /\ \A m \in Strays : m.task.campaign = None \/ m.task.chain # DeployerChainID
=============================================================================
