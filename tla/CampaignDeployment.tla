------------------------- MODULE CampaignDeployment -------------------------
(***************************************************************************)
(* A campaign from the POST that creates it to its contract: the API's     *)
(* create requests, the deletion of a fundraiser profile, the deployer     *)
(* processes, and the database, queue, chain and object storage they       *)
(* share.  A step of a request or a worker is what it does between two     *)
(* points where another process can intervene: one SQL transaction (or the *)
(* part of it after a row lock), one call of the broker, the node or the   *)
(* object storage.                                                         *)
(*                                                                         *)
(* Every failure counts against MaxFaults: a call that fails, one that     *)
(* takes effect although its caller sees an error, a cancelled context, a  *)
(* lost connection, a crashed process.                                     *)
(***************************************************************************)
EXTENDS CampaignStore, DeploymentQueue, FactoryChain

CONSTANTS MaxTime,   \* bound on the clock
          MaxFaults  \* bound on the failures of one behaviour

ASSUME BoundsAssumption == MaxTime \in Nat /\ MaxFaults \in Nat

VARIABLES
    requests,   \* requests[r]: the create request whose generated id is r
    deleting,   \* accounts whose DeleteProfile transaction holds the row lock
    staging,    \* images whose object under tmp/campaigns/ exists
    canonical,  \* images whose object under campaigns/ exists
    now,        \* the clock of the API process
    workers,    \* workers[w]: the handler running in deployer w
    faults      \* failures so far

apiVars == <<requests, deleting, staging, canonical, now>>
vars == <<users, campaigns, events, ready, unacked, txs, apiVars, workers, faults>>

Outcomes == {"created", "failed", "imageNotFound", "profileNotFound",
             "conflict", "tooSoon"}

ASSUME OutcomesAssumption == None \notin Outcomes

Request ==
    [pc           : {"idle", "stat", "copy", "lock", "commit", "discard",
                     "publish", "done"},
     wallet       : Wallets \cup {None},
     key          : Keys \cup {None},
     payload      : Payloads \cup {None},
     minimumEndAt : Nat,
     account      : Accounts \cup {None},   \* the row lockFundraiser locked
     campaign     : Ids \cup {None},        \* the row found or created
     status       : {"absent", "pending", "active", "closed"}, \* as read
     outcome      : Outcomes \cup {None},
     replayOf     : Ids \cup {None}]  \* history: stored before it began

NoRequest == [pc |-> "idle", wallet |-> None, key |-> None, payload |-> None,
              minimumEndAt |-> 0, account |-> None, campaign |-> None,
              status |-> "absent", outcome |-> None, replayOf |-> None]

Worker == [pc         : {"idle", "handle", "deploy", "send", "wait",
                         "complete", "ack", "nack"},
           msg        : Message \cup {None},
           nonce      : Nat,
           deployment : Deployments \cup {None}]

Idle == [pc |-> "idle", msg |-> None, nonce |-> 0, deployment |-> None]

TypeOK ==
    /\ StoreTypeOK /\ QueueTypeOK /\ ChainTypeOK
    /\ requests \in [Ids -> Request]
    /\ deleting \subseteq Accounts
    /\ staging \subseteq Images
    /\ canonical \subseteq Images
    /\ now \in Nat
    /\ workers \in [Workers -> Worker]
    /\ faults \in Nat

Init ==
    /\ StoreInit /\ QueueInit /\ ChainInit
    /\ requests = [r \in Ids |-> NoRequest]
    /\ deleting = {}
    /\ staging = {}
    /\ canonical = {}
    /\ now = 0
    /\ workers = [w \in Workers |-> Idle]
    /\ faults = 0

Fault == faults < MaxFaults /\ faults' = faults + 1

-----------------------------------------------------------------------------
(***************************************************************************)
(* Creating a campaign.                                                    *)
(***************************************************************************)

(* Variant: CreatePending selects the fundraiser without FOR UPDATE. *)
Locked_deletionOnly(a) == a \in deleting

(* Some transaction holds the FOR UPDATE lock of the rows of account a. *)
Locked(a) ==
    \/ a \in deleting
    \/ \E r \in Ids : requests[r].pc = "commit" /\ requests[r].account = a

(* The request ends with the given answer; an open transaction ends too. *)
Answer(r, outcome) ==
    requests' = [requests EXCEPT ![r].pc = "done", ![r].outcome = outcome]

(* History: the stored campaign a request with this body would repeat. *)
Repeated(w, k, p) ==
    LET same == {c \in Stored : /\ campaigns[c].fundraiser \in LiveAccounts(w)
                                /\ campaigns[c].key = k
                                /\ campaigns[c].payload = p}
    IN  IF same = {} THEN None ELSE CHOOSE c \in same : TRUE

(* A valid request of an authenticated fundraiser principal arrives and    *)
(* Create generates its id.  The principal comes from the access token:    *)
(* whether the wallet still has a profile is only known in the database.   *)
BeginCreate(r, w, k, p) ==
    /\ requests[r].pc = "idle"
    /\ requests' = [requests EXCEPT ![r].pc = "stat", ![r].wallet = w,
                                    ![r].key = k, ![r].payload = p,
                                    ![r].replayOf = Repeated(w, k, p)]
    /\ UNCHANGED <<storeVars, queueVars, txs, deleting, staging, canonical,
                   now, workers, faults>>

(* Promote: a canonical object that exists is taken as promoted. *)
StatCanonical(r) ==
    /\ requests[r].pc = "stat"
    /\ requests' = IF requests[r].payload.image \in canonical
                     THEN [requests EXCEPT ![r].pc = "lock",
                                           ![r].minimumEndAt = now + LeadTime]
                     ELSE [requests EXCEPT ![r].pc = "copy"]
    /\ UNCHANGED <<storeVars, queueVars, txs, deleting, staging, canonical,
                   now, workers, faults>>

(* Promote: otherwise the staged object is copied, if it is still there. *)
CopyStaging(r) ==
    /\ requests[r].pc = "copy"
    /\ IF requests[r].payload.image \in staging
         THEN /\ canonical' = canonical \cup {requests[r].payload.image}
              /\ requests' = [requests EXCEPT ![r].pc = "lock",
                                              ![r].minimumEndAt = now + LeadTime]
         ELSE Answer(r, "imageNotFound") /\ UNCHANGED canonical
    /\ UNCHANGED <<storeVars, queueVars, txs, deleting, staging, now, workers,
                   faults>>

(* CreatePending: lock the live fundraiser row of the wallet, then read    *)
(* the campaign stored under the idempotency key.                          *)
LockFundraiser(r) ==
    /\ requests[r].pc = "lock"
    /\ \E a \in LiveAccounts(requests[r].wallet) :
         /\ ~Locked(a)
         /\ LET found == findCampaignByIdempotencyKey(a, requests[r].key) IN
            requests' = IF found = {}
              THEN [requests EXCEPT ![r].pc = "commit", ![r].account = a]
              ELSE LET c == CHOOSE c \in found : TRUE IN
                   [requests EXCEPT ![r].pc = "commit", ![r].account = a,
                                    ![r].campaign = c,
                                    ![r].status = campaigns[c].status]
    /\ UNCHANGED <<storeVars, queueVars, txs, deleting, staging, canonical,
                   now, workers, faults>>

(* CreatePending: no live fundraiser row, ErrCampaignFundraiserNotFound. *)
FundraiserNotFound(r) ==
    /\ requests[r].pc = "lock"
    /\ LiveAccounts(requests[r].wallet) = {}
    /\ Answer(r, "profileNotFound")
    /\ UNCHANGED <<storeVars, queueVars, txs, deleting, staging, canonical,
                   now, workers, faults>>

(* CreatePending found campaign c under the key: the same payload is       *)
(* answered with the campaign as it was read, another one is a conflict.   *)
Resolve(r, c, status) ==
    IF sameCampaignCreationPayload(c, requests[r].payload)
      THEN requests' = [requests EXCEPT ![r].pc = "discard", ![r].campaign = c,
                                        ![r].status = status]
      ELSE Answer(r, "conflict")

(* CreatePending: the key was known when the row was locked. *)
ReplayCampaign(r) ==
    /\ requests[r].pc = "commit"
    /\ requests[r].campaign # None
    /\ Resolve(r, requests[r].campaign, requests[r].status)
    /\ UNCHANGED <<storeVars, queueVars, txs, deleting, staging, canonical,
                   now, workers, faults>>

TooSoon(r) == requests[r].payload.endAt < requests[r].minimumEndAt

(* Variant: the end is checked before the key is looked up. *)
RefuseTooSoon_first(r) ==
    /\ requests[r].pc = "commit"
    /\ TooSoon(r)
    /\ Answer(r, "tooSoon")
    /\ UNCHANGED <<storeVars, queueVars, txs, deleting, staging, canonical,
                   now, workers, faults>>

(* CreatePending: a new key, but the end is too close. *)
RefuseTooSoon(r) ==
    /\ requests[r].pc = "commit"
    /\ requests[r].campaign = None
    /\ TooSoon(r)
    /\ Answer(r, "tooSoon")
    /\ UNCHANGED <<storeVars, queueVars, txs, deleting, staging, canonical,
                   now, workers, faults>>

Inserting(r) ==
    /\ requests[r].pc = "commit"
    /\ requests[r].campaign = None
    /\ ~TooSoon(r)

(* The rows ON CONFLICT (fundraiser_id, idempotency_key) DO NOTHING meets. *)
Conflicting(r) == findCampaignByIdempotencyKey(requests[r].account, requests[r].key)

Insert(r) == InsertCampaign(r, requests[r].account, requests[r].key,
                            requests[r].payload)

(* CreatePending: the row is inserted and committed, or the conflicting    *)
(* row is read again.                                                      *)
InsertPending(r) ==
    /\ Inserting(r)
    /\ IF Conflicting(r) = {}
         THEN /\ Insert(r)
              /\ requests' = [requests EXCEPT ![r].pc = "discard",
                                              ![r].campaign = r,
                                              ![r].status = "pending"]
         ELSE LET c == CHOOSE c \in Conflicting(r) : TRUE IN
              Resolve(r, c, campaigns[c].status) /\ UNCHANGED storeVars
    /\ UNCHANGED <<queueVars, txs, deleting, staging, canonical, now, workers,
                   faults>>

(* The commit reaches the database, its answer does not reach the API. *)
InsertUnconfirmed(r) ==
    /\ Inserting(r)
    /\ Conflicting(r) = {}
    /\ Insert(r)
    /\ Answer(r, "failed")
    /\ Fault
    /\ UNCHANGED <<queueVars, txs, deleting, staging, canonical, now, workers>>

(* discardStagingImage: best effort, a failed removal is only logged. *)
DiscardStaging(r) ==
    /\ requests[r].pc = "discard"
    /\ staging' \in {staging, staging \ {requests[r].payload.image}}
    /\ requests' = [requests EXCEPT ![r].pc = "publish"]
    /\ UNCHANGED <<storeVars, queueVars, txs, deleting, canonical, now,
                   workers, faults>>

(* campaignDeploymentBody of the task publishCampaignDeployment builds     *)
(* from the campaign CreatePending returned; these columns never change.   *)
TaskOf(r) ==
    LET row == campaigns[requests[r].campaign] IN
    [campaign   |-> requests[r].campaign,
     fundraiser |-> row.fundraiser,
     wallet     |-> requests[r].wallet,
     goal       |-> row.payload.goal,
     endAt      |-> FormatRFC3339(row.payload.endAt),
     chain      |-> ApiChainID]

(* A pending campaign has no contract, so the status alone decides. *)
needsCampaignDeployment(r) == requests[r].status = "pending"

(* publishCampaignDeployment: confirmed, or nothing to deploy. *)
PublishTask(r) ==
    /\ requests[r].pc = "publish"
    /\ IF needsCampaignDeployment(r)
         THEN Enqueue([id |-> r, task |-> TaskOf(r)])
         ELSE UNCHANGED queueVars
    /\ Answer(r, "created")
    /\ UNCHANGED <<storeVars, txs, deleting, staging, canonical, now, workers,
                   faults>>

(* The broker stored the message and the confirm is lost. *)
PublishUnconfirmed(r) ==
    /\ requests[r].pc = "publish"
    /\ needsCampaignDeployment(r)
    /\ Enqueue([id |-> r, task |-> TaskOf(r)])
    /\ Answer(r, "failed")
    /\ Fault
    /\ UNCHANGED <<storeVars, txs, deleting, staging, canonical, now, workers>>

(* A call fails without effect, the client goes away, the API crashes. *)
RequestFails(r) ==
    /\ requests[r].pc \notin {"idle", "done"}
    /\ Answer(r, "failed")
    /\ Fault
    /\ UNCHANGED <<storeVars, queueVars, txs, deleting, staging, canonical,
                   now, workers>>

CreateStep(r) ==
    \/ StatCanonical(r) \/ CopyStaging(r)
    \/ LockFundraiser(r) \/ FundraiserNotFound(r)
    \/ ReplayCampaign(r) \/ RefuseTooSoon(r) \/ InsertPending(r)
    \/ DiscardStaging(r) \/ PublishTask(r)

CreateFault(r) == InsertUnconfirmed(r) \/ PublishUnconfirmed(r) \/ RequestFails(r)

-----------------------------------------------------------------------------
(***************************************************************************)
(* Accounts, uploads, time, the end of campaigns.                          *)
(***************************************************************************)
Register(a) ==
    /\ RegisterFundraiser(a)
    /\ UNCHANGED <<queueVars, txs, apiVars, workers, faults>>

(* DeleteProfile: lock the row, refuse while a campaign is pending or      *)
(* active.                                                                 *)
LockForDeletion(a) ==
    /\ users[a] = "live"
    /\ ~Locked(a)
    /\ ~hasActiveCampaign(a)
    /\ deleting' = deleting \cup {a}
    /\ UNCHANGED <<storeVars, queueVars, txs, requests, staging, canonical,
                   now, workers, faults>>

CommitDeletion(a) ==
    /\ a \in deleting
    /\ SoftDelete(a)
    /\ deleting' = deleting \ {a}
    /\ UNCHANGED <<queueVars, txs, requests, staging, canonical, now, workers,
                   faults>>

RollbackDeletion(a) ==
    /\ a \in deleting
    /\ deleting' = deleting \ {a}
    /\ Fault
    /\ UNCHANGED <<storeVars, queueVars, txs, requests, staging, canonical,
                   now, workers>>

(* The client PUTs the presigned URL; the bucket expires tmp/ objects. *)
Upload(i) ==
    /\ i \notin staging
    /\ staging' = staging \cup {i}
    /\ UNCHANGED <<storeVars, queueVars, txs, requests, deleting, canonical,
                   now, workers, faults>>

ExpireStaging(i) ==
    /\ i \in staging
    /\ staging' = staging \ {i}
    /\ UNCHANGED <<storeVars, queueVars, txs, requests, deleting, canonical,
                   now, workers, faults>>

Tick ==
    /\ now < MaxTime
    /\ now' = now + 1
    /\ UNCHANGED <<storeVars, queueVars, txs, requests, deleting, staging,
                   canonical, workers, faults>>

Close(c) ==
    /\ CloseCampaign(c)
    /\ UNCHANGED <<queueVars, txs, apiVars, workers, faults>>

-----------------------------------------------------------------------------
(***************************************************************************)
(* The deployers.  The handler keeps running when the broker takes its     *)
(* delivery back, so two handlers can work on one message.                 *)
(***************************************************************************)
task(w) == workers[w].msg.task

(* handleDelivery acknowledges a body that does not decode. *)
Decodable(t) == t.chain > 0 /\ t.goal > 0

(* Variant: the end of the campaign is not compared. *)
deploymentTaskMatchesCampaign_anyEnd(t, row) ==
    row.fundraiser = t.fundraiser /\ row.payload.goal = t.goal

deploymentTaskMatchesCampaign(t, row) ==
    /\ row.fundraiser = t.fundraiser
    /\ row.payload.goal = t.goal
    /\ row.payload.endAt = t.endAt

campaignAlreadyDeployed(row) == row.contract # None

(* The task calls for a deployment; any other task Handle drops with an    *)
(* acknowledgement: it is malformed, of another chain, its campaign is     *)
(* missing, deployed, not pending, or differs from it.                     *)
Deployable(t) ==
    /\ Decodable(t)
    /\ t.chain = DeployerChainID
    /\ t.campaign \in Stored
    /\ ~campaignAlreadyDeployed(campaigns[t.campaign])
    /\ campaigns[t.campaign].status = "pending"
    /\ deploymentTaskMatchesCampaign(t, campaigns[t.campaign])

Goto(w, pc) == workers' = [workers EXCEPT ![w].pc = pc]

Receive(w, m) ==
    /\ workers[w].pc = "idle"
    /\ Deliver(w, m)
    /\ workers' = [workers EXCEPT ![w].pc = "handle", ![w].msg = m]
    /\ UNCHANGED <<storeVars, txs, apiVars, faults>>

(* Handle up to DeployCampaign: decode, load the campaign, check the task. *)
HandleTask(w) ==
    /\ workers[w].pc = "handle"
    /\ Goto(w, IF Deployable(task(w)) THEN "deploy" ELSE "ack")
    /\ UNCHANGED <<storeVars, queueVars, txs, apiVars, faults>>

(* StubCampaignDeployer.DeployCampaign *)
DeployStub(w) ==
    /\ DeploymentMode = "stub"
    /\ workers[w].pc = "deploy"
    /\ workers' = [workers EXCEPT ![w].pc = "complete",
                                  ![w].deployment = StubTx(task(w).campaign)]
    /\ UNCHANGED <<storeVars, queueVars, txs, apiVars, faults>>

(* FactoryCampaignDeployer.DeployCampaign from PendingNonceAt to           *)
(* EstimateGas: the nonce is read, then the call is simulated.             *)
EstimateGas(w) ==
    /\ DeploymentMode = "live"
    /\ workers[w].pc = "deploy"
    /\ IF CampaignAlreadyDeployed(task(w).campaign)
         THEN Goto(w, "nack")
         ELSE workers' = [workers EXCEPT ![w].pc = "send",
                                         ![w].nonce = PendingNonce]
    /\ UNCHANGED <<storeVars, queueVars, txs, apiVars, faults>>

SendTransaction(w) ==
    /\ workers[w].pc = "send"
    /\ \E t \in TxIds :
         /\ AcceptTransaction(t, workers[w].nonce, task(w))
         /\ workers' = [workers EXCEPT ![w].pc = "wait", ![w].deployment = t]
    /\ UNCHANGED <<storeVars, queueVars, apiVars, faults>>

(* Another deployer used the nonce in the meantime: nonce too low, or the  *)
(* replacement is underpriced.                                             *)
SendRejected(w) ==
    /\ workers[w].pc = "send"
    /\ workers[w].nonce # PendingNonce
    /\ Goto(w, "nack")
    /\ UNCHANGED <<storeVars, queueVars, txs, apiVars, faults>>

(* The node accepted the transaction but the call returns an error. *)
SendUnconfirmed(w) ==
    /\ workers[w].pc = "send"
    /\ \E t \in TxIds : AcceptTransaction(t, workers[w].nonce, task(w))
    /\ Goto(w, "nack")
    /\ Fault
    /\ UNCHANGED <<storeVars, queueVars, apiVars>>

(* Variant: the status of the receipt is ignored. *)
WaitMined_anyReceipt(w) ==
    /\ workers[w].pc = "wait"
    /\ txs[workers[w].deployment].state \in {"success", "reverted"}
    /\ Goto(w, "complete")
    /\ UNCHANGED <<storeVars, queueVars, txs, apiVars, faults>>

(* Variant: the CampaignCreated log is never recognised. *)
WaitMined_noLog(w) ==
    /\ workers[w].pc = "wait"
    /\ txs[workers[w].deployment].state \in {"success", "reverted"}
    /\ Goto(w, "nack")
    /\ UNCHANGED <<storeVars, queueVars, txs, apiVars, faults>>

(* WaitMined returns the receipt; a reverted transaction is an error.      *)
WaitMined(w) ==
    /\ workers[w].pc = "wait"
    /\ txs[workers[w].deployment].state \in {"success", "reverted"}
    /\ Goto(w, IF txs[workers[w].deployment].state = "success"
                 THEN "complete" ELSE "nack")
    /\ UNCHANGED <<storeVars, queueVars, txs, apiVars, faults>>

(* Variant: a timeout is taken for the end of the task. *)
ConfirmTimeout_acked(w) ==
    /\ workers[w].pc = "wait"
    /\ txs[workers[w].deployment].state = "replaced"
    /\ Goto(w, "ack")
    /\ UNCHANGED <<storeVars, queueVars, txs, apiVars, faults>>

(* WaitMined finds no receipt of a transaction that was replaced, and the  *)
(* confirm timeout expires.                                                *)
ConfirmTimeout(w) ==
    /\ workers[w].pc = "wait"
    /\ txs[workers[w].deployment].state = "replaced"
    /\ Goto(w, "nack")
    /\ UNCHANGED <<storeVars, queueVars, txs, apiVars, faults>>

(* CompleteDeployment: every outcome but a database error is acknowledged. *)
Complete(w) ==
    /\ workers[w].pc = "complete"
    /\ CompleteDeployment(task(w).campaign, workers[w].deployment)
    /\ Goto(w, IF CompletionRejected(task(w).campaign, workers[w].deployment)
                 THEN "nack" ELSE "ack")
    /\ UNCHANGED <<queueVars, txs, apiVars, faults>>

(* The transaction commits, its answer does not reach the worker. *)
CompleteUnconfirmed(w) ==
    /\ workers[w].pc = "complete"
    /\ CompleteDeployment(task(w).campaign, workers[w].deployment)
    /\ Goto(w, "nack")
    /\ Fault
    /\ UNCHANGED <<queueVars, txs, apiVars>>

(* A database or RPC call fails, the confirm timeout expires, the header   *)
(* of the block cannot be read, the context is cancelled: Handle returns   *)
(* an error.                                                               *)
HandleFails(w) ==
    /\ workers[w].pc \in {"handle", "deploy", "send", "wait", "complete"}
    /\ Goto(w, "nack")
    /\ Fault
    /\ UNCHANGED <<storeVars, queueVars, txs, apiVars>>

(* Variant: the delivery of a handled task is never settled. *)
Ack_forgotten(w) ==
    /\ workers[w].pc = "ack"
    /\ workers' = [workers EXCEPT ![w] = Idle]
    /\ UNCHANGED <<storeVars, queueVars, txs, apiVars, faults>>

(* Variant: Nack with requeue=false. *)
Nack_discard(w) ==
    /\ workers[w].pc = "nack"
    /\ AckDelivery(w)
    /\ workers' = [workers EXCEPT ![w] = Idle]
    /\ UNCHANGED <<storeVars, txs, apiVars, faults>>

(* The consumer settles the delivery, if the broker still waits for it. *)
Ack(w) ==
    /\ workers[w].pc = "ack"
    /\ AckDelivery(w)
    /\ workers' = [workers EXCEPT ![w] = Idle]
    /\ UNCHANGED <<storeVars, txs, apiVars, faults>>

Nack(w) ==
    /\ workers[w].pc = "nack"
    /\ Requeue(w)
    /\ workers' = [workers EXCEPT ![w] = Idle]
    /\ UNCHANGED <<storeVars, txs, apiVars, faults>>

(* The channel or the connection of w is lost, its handler runs on. *)
ConnectionLost(w) ==
    /\ unacked[w] # None
    /\ Requeue(w)
    /\ Fault
    /\ UNCHANGED <<storeVars, txs, apiVars, workers>>

(* The deployer process dies and is started again. *)
Crash(w) ==
    /\ workers[w].pc # "idle"
    /\ Requeue(w)
    /\ workers' = [workers EXCEPT ![w] = Idle]
    /\ Fault
    /\ UNCHANGED <<storeVars, txs, apiVars>>

Mine(t) ==
    /\ MineTransaction(t)
    /\ UNCHANGED <<storeVars, queueVars, apiVars, workers, faults>>

WorkerStep(w) ==
    \/ \E m \in ready : Receive(w, m)
    \/ HandleTask(w)
    \/ DeployStub(w)
    \/ EstimateGas(w) \/ SendTransaction(w) \/ SendRejected(w)
    \/ WaitMined(w) \/ ConfirmTimeout(w)
    \/ Complete(w) \/ Ack(w) \/ Nack(w)

WorkerFault(w) ==
    \/ SendUnconfirmed(w) \/ CompleteUnconfirmed(w) \/ HandleFails(w)
    \/ ConnectionLost(w) \/ Crash(w)

-----------------------------------------------------------------------------
Environment ==
    \/ \E r \in Ids, w \in Wallets, k \in Keys, p \in Payloads : BeginCreate(r, w, k, p)
    \/ \E a \in Accounts : Register(a) \/ LockForDeletion(a) \/ CommitDeletion(a)
                             \/ RollbackDeletion(a)
    \/ \E i \in Images : Upload(i) \/ ExpireStaging(i)
    \/ \E c \in Ids : Close(c)
    \/ \E t \in TxIds : Mine(t)
    \/ Tick

Next ==
    \/ Environment
    \/ \E r \in Ids : CreateStep(r) \/ CreateFault(r)
    \/ \E w \in Workers : WorkerStep(w) \/ WorkerFault(w)

Spec == Init /\ [][Next]_vars

(***************************************************************************)
(* The goroutine of a request and the loop of a running deployer go on,    *)
(* and the chain includes a transaction its node accepted.  Clients,       *)
(* clocks and failures are not obliged to anything.                        *)
(***************************************************************************)
Fairness ==
    /\ \A r \in Ids : WF_vars(CreateStep(r))
    /\ \A w \in Workers : WF_vars(WorkerStep(w))
    /\ \A t \in TxIds : WF_vars(Mine(t))

FairSpec == Spec /\ Fairness

-----------------------------------------------------------------------------
(***************************************************************************)
(* Properties.                                                             *)
(***************************************************************************)

(* The requests CreatePending has answered with a campaign. *)
Resolved(r) == \/ requests[r].pc \in {"discard", "publish"}
               \/ requests[r].pc = "done" /\ requests[r].outcome = "created"

(* An idempotency key names one campaign: two requests of one fundraiser   *)
(* that carry the same key, concurrent or not, are answered with the same  *)
(* campaign and only if their payloads agree (CreatePending).              *)
IdempotentCreate ==
    \A r, s \in Ids :
        /\ Resolved(r) /\ Resolved(s)
        /\ requests[r].account = requests[s].account
        /\ requests[r].key = requests[s].key
        => /\ requests[r].campaign = requests[s].campaign
           /\ requests[r].payload = requests[s].payload

(* The fundraiser of a campaign that is waiting for its contract or        *)
(* collecting money keeps the profile: creating a campaign and deleting    *)
(* the profile cannot both succeed (the FOR UPDATE locks of CreatePending  *)
(* and DeleteProfile).                                                     *)
NoOrphanedCampaign ==
    \A c \in Ids : campaigns[c].status \in {"pending", "active"}
                     => users[campaigns[c].fundraiser] = "live"

(* "A failed publish still leaves the saved campaign retryable": a request *)
(* that repeats the key and the payload of a campaign that was already     *)
(* stored is never refused while that campaign is open, however late it    *)
(* comes and although its staged image is gone; it fails for a technical   *)
(* reason or is answered with that campaign.                               *)
ReplayNotRefused ==
    \A r \in Ids :
        LET c == requests[r].replayOf IN
        /\ requests[r].pc = "done"
        /\ c # None
        /\ campaigns[c].status \in {"pending", "active"}
        => \/ requests[r].outcome = "failed"
           \/ requests[r].outcome = "created" /\ requests[r].campaign = c

(* The deliveries the broker keeps. *)
Outstanding == ready \cup ({unacked[w] : w \in Workers} \ {None})

(* At-least-once: while a campaign whose creation was confirmed to the     *)
(* client waits for its contract, the broker holds a task for it, so that  *)
(* no crash or failure of a deployer can lose it (Publish waits for the    *)
(* confirm, the consumer acknowledges after the handler, errors requeue).  *)
AcceptedCampaignHasTask ==
    \A r \in Ids :
        /\ requests[r].outcome = "created"
        /\ campaigns[requests[r].campaign].status = "pending"
        => \E m \in Outstanding : m.task.campaign = requests[r].campaign

(* Every contract on chain was deployed for a stored campaign and on its   *)
(* terms: goal, end and the wallet of its fundraiser.                      *)
ContractTermsMatch ==
    \A t \in TxIds : txs[t].state = "success" =>
        LET k   == txs[t].task
            row == campaigns[k.campaign]
        IN  /\ k.campaign \in Stored
            /\ k.goal = row.payload.goal
            /\ k.endAt = row.payload.endAt
            /\ k.wallet = WalletOf[row.fundraiser]

(* blockchain_events and the campaigns agree: each recorded deployment is  *)
(* the contract of exactly one campaign, and it is the deployment made for *)
(* that campaign (CompleteDeployment writes both rows in one transaction). *)
EventsMatchCampaigns ==
    /\ events = {campaigns[c].contract : c \in Ids} \ {None}
    /\ \A c \in Ids : campaigns[c].contract # None =>
          \/ campaigns[c].contract = StubTx(c)
          \/ campaigns[c].contract \in Contracts(c)

(* The status of a campaign only moves forward and its contract is set     *)
(* once: a late or repeated task cannot reopen a closed campaign or point  *)
(* it to another contract (the status checks of CompleteDeployment).       *)
Rank(status) == CASE status = "absent" -> 0 [] status = "pending" -> 1
                  [] status = "active" -> 2 [] status = "closed" -> 3

StatusForward ==
    [][\A c \in Ids :
          /\ Rank(campaigns'[c].status) >= Rank(campaigns[c].status)
          /\ campaigns[c].contract \in {None, campaigns'[c].contract}]_campaigns

(* A campaign whose creation was confirmed to the client does not stay     *)
(* pending for ever.                                                       *)
AcceptedEventuallyDeployed ==
    \A r \in Ids :
        requests[r].outcome = "created"
        ~> (requests[r].outcome = "created"
            /\ campaigns[requests[r].campaign].status # "pending")

(* CampaignID is the idempotency key of the deployer: once the contract of *)
(* a campaign exists, the campaign does not stay pending for ever.         *)
DeployedEventuallyActive ==
    \A c \in Ids : CampaignAlreadyDeployed(c) ~> campaigns[c].status # "pending"

(* With the stub deployer every message is settled in the end: malformed   *)
(* and misdirected ones are acknowledged rather than requeued for ever.  A *)
(* live deployment that can never succeed is another matter and does       *)
(* circulate (DeployedEventuallyActive).                                   *)
QueueDrains == <>[](Outstanding = {})

(* The requests, transactions, deliveries and deployers together implement *)
(* the one-step operations of CampaignLifecycle.                           *)
Lifecycle == INSTANCE CampaignLifecycle WITH profiles <- users, book <- campaigns
ImplementsLifecycle == Lifecycle!LifecycleSpec
=============================================================================
