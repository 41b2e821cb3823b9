----------------------- MODULE CampaignDeliveryProofs -----------------------
(***************************************************************************)
(* What becomes of a campaign after it is stored, for every number of      *)
(* requests, deployers, transactions and failures: the task in the queue,  *)
(* the contract on chain, the row in blockchain_events, and the answer to  *)
(* a request that is repeated.                                             *)
(***************************************************************************)
EXTENDS CampaignDeploymentProofs

(***************************************************************************)
(* Terms: tasks and contracts name the campaign they were made for.        *)
(***************************************************************************)

(* A task for this chain and a campaign is a task of the API: the campaign *)
(* has a row and the wallet is its fundraiser's.                           *)
Own(rows, t) ==
    t.campaign \in Ids /\ t.chain = DeployerChainID =>
        /\ rows[t.campaign].status # "absent"
        /\ t.wallet = WalletOf[rows[t.campaign].fundraiser]

(* The task agrees with its campaign in every column that is deployed. *)
Terms(rows, t) ==
    /\ t.campaign \in Ids
    /\ rows[t.campaign].status # "absent"
    /\ deploymentTaskMatchesCampaign(t, rows[t.campaign])
    /\ t.wallet = WalletOf[rows[t.campaign].fundraiser]

(* A request acts for the wallet of the account it has locked. *)
RequestWallets ==
    \A r \in Ids : requests[r].pc \in {"commit", "discard", "publish"} =>
        requests[r].wallet = WalletOf[requests[r].account]

QueueOwn == /\ \A m \in ready : Own(campaigns, m.task)
            /\ \A w \in Workers : unacked[w] # None => Own(campaigns, unacked[w].task)

(* A handler past its checks works on the terms of the campaign. *)
WorkersOwn ==
    \A w \in Workers :
        /\ workers[w].pc # "idle" => Own(campaigns, task(w))
        /\ workers[w].pc \in {"deploy", "send", "wait", "complete"}
             => Terms(campaigns, task(w))

ChainTerms == \A t \in TxIds : txs[t].state # "none" => Terms(campaigns, txs[t].task)

TermsInv == RequestWallets /\ QueueOwn /\ WorkersOwn /\ ChainTerms

(***************************************************************************)
(* Events: what a handler completes is the deployment of its campaign.     *)
(***************************************************************************)

(* d is a deployment of campaign c. *)
DeploymentOf(c, d) == d = StubTx(c) \/ d \in Contracts(c)

(* A handler waits for the transaction of its own task and completes with  *)
(* the deployment of its own campaign.                                     *)
Awaiting ==
    \A w \in Workers :
        /\ workers[w].pc = "wait" =>
              /\ txs[workers[w].deployment].state # "none"
              /\ txs[workers[w].deployment].task = task(w)
        /\ workers[w].pc = "complete" =>
              DeploymentOf(task(w).campaign, workers[w].deployment)

Recorded ==
    /\ \A d \in events : \E c \in Ids : campaigns[c].contract = d
    /\ \A c \in Ids : campaigns[c].contract # None => DeploymentOf(c, campaigns[c].contract)

EventsInv == Awaiting /\ Recorded

(***************************************************************************)
(* Tasks: what the broker holds for a campaign that waits.                 *)
(***************************************************************************)

(* API and deployers are configured for one chain, and ends have whole     *)
(* seconds; otherwise Handle drops the task (see the run fractionalEnd).   *)
Consistent ==
    /\ ApiChainID = DeployerChainID
    /\ \A p \in Payloads : FormatRFC3339(p.endAt) = p.endAt

(* Handle does not drop the task while its campaign is pending. *)
Valid(rows, t) ==
    /\ Decodable(t)
    /\ t.chain = DeployerChainID
    /\ t.campaign \in Ids
    /\ rows[t.campaign].status # "absent"
    /\ deploymentTaskMatchesCampaign(t, rows[t.campaign])

(* The delivery the broker waits for is the one the handler works on. *)
Delivered ==
    \A w \in Workers : unacked[w] # None =>
        workers[w].pc # "idle" /\ workers[w].msg = unacked[w]

(* A valid task is acknowledged only when its campaign no longer waits. *)
Settled ==
    \A w \in Workers :
        workers[w].pc = "ack" /\ Valid(campaigns, task(w))
            => campaigns[task(w).campaign].status # "pending"

(* A status other than pending that a request has read is not stale. *)
StatusRead ==
    \A r \in Ids :
        /\ requests[r].pc \in {"commit", "discard", "publish"}
        /\ requests[r].campaign \in Ids
        /\ requests[r].status # "pending"
        => campaigns[requests[r].campaign].status # "pending"

(* The broker holds a valid task for every accepted campaign that waits. *)
TaskHeld ==
    \A r \in Ids :
        /\ requests[r].outcome = "created"
        /\ campaigns[requests[r].campaign].status = "pending"
        => \E m \in Outstanding : /\ m.task.campaign = requests[r].campaign
                                  /\ Valid(campaigns, m.task)

TasksInv == Delivered /\ Settled /\ StatusRead /\ TaskHeld

(***************************************************************************)
(* Replays: a repeated request finds what the first one stored.            *)
(***************************************************************************)

(* users_wallet_address_key *)
WalletsUnique ==
    \A a, b \in Accounts :
        users[a] = "live" /\ users[b] = "live" /\ WalletOf[a] = WalletOf[b] => a = b

(* The image of a campaign, stored or about to be, has been promoted. *)
Promoted ==
    /\ \A c \in Ids : campaigns[c].status # "absent" => campaigns[c].payload.image \in canonical
    /\ \A r \in Ids : requests[r].pc \in {"lock", "commit"}
                        => requests[r].payload.image \in canonical

IsOpen(c) == campaigns[c].status \in {"pending", "active"}

(* A replay repeats the key, the payload and the wallet of its original,   *)
(* and comes out with it as long as that is open.                          *)
ReplayOK(r, c) ==
    /\ c \in Ids
    /\ campaigns[c].status # "absent"
    /\ campaigns[c].key = requests[r].key
    /\ campaigns[c].payload = requests[r].payload
    /\ WalletOf[campaigns[c].fundraiser] = requests[r].wallet
    /\ requests[r].pc \notin {"idle", "copy"}
    /\ IsOpen(c) =>
          /\ requests[r].pc \in {"discard", "publish"} => requests[r].campaign = c
          /\ requests[r].pc = "done" =>
                \/ requests[r].outcome = "failed"
                \/ requests[r].outcome = "created" /\ requests[r].campaign = c

Replays == \A r \in Ids : requests[r].replayOf # None => ReplayOK(r, requests[r].replayOf)

ReplayInv == WalletsUnique /\ Promoted /\ Replays

-----------------------------------------------------------------------------
(***************************************************************************)
(* What every step keeps.                                                  *)
(***************************************************************************)

(* A stored row keeps its fundraiser, key and payload, and never becomes   *)
(* pending or open again.                                                  *)
RowKept(c) ==
    campaigns[c].status # "absent" =>
        /\ campaigns'[c].fundraiser = campaigns[c].fundraiser
        /\ campaigns'[c].key = campaigns[c].key
        /\ campaigns'[c].payload = campaigns[c].payload
        /\ campaigns'[c].status # "absent"
        /\ campaigns'[c].status = "pending" => campaigns[c].status = "pending"
        /\ campaigns'[c].status \in {"pending", "active"}
             => campaigns[c].status \in {"pending", "active"}

LEMMA RowsKept ==
    ASSUME IInv, [Next]_vars
    PROVE  \A c \in Ids : RowKept(c)
<1>0. campaigns \in [Ids -> CampaignRow]
  BY DEF IInv, Life, StoreTypeOK
<1>1. CASE UNCHANGED campaigns
  BY <1>1 DEF RowKept
<1>2. ASSUME NEW r \in Ids, Inserting(r), Insert(r)
      PROVE  \A c \in Ids : RowKept(c)
  <2>1. campaigns[r].status = "absent"
    BY <1>2 DEF Inserting, IInv, Life, Rows
  <2>2. \A c \in Ids \ {r} : campaigns'[c] = campaigns[c]
    BY <1>0, <1>2 DEF Insert, InsertCampaign
  <2> QED
    BY <2>1, <2>2 DEF RowKept
<1>3. ASSUME NEW d \in Ids, NEW row \in CampaignRow,
             campaigns[d].status \in {"pending", "active"},
             row.status \in {"active", "closed"},
             row.fundraiser = campaigns[d].fundraiser,
             row.key = campaigns[d].key, row.payload = campaigns[d].payload,
             campaigns' = [campaigns EXCEPT ![d] = row]
      PROVE  \A c \in Ids : RowKept(c)
  <2>1. campaigns'[d] = row /\ \A c \in Ids \ {d} : campaigns'[c] = campaigns[c]
    BY <1>0, <1>3
  <2> QED
    BY <1>3, <2>1 DEF RowKept
<1>4. ASSUME NEW r \in Ids, RequestStep(r)
      PROVE  \A c \in Ids : RowKept(c)
  BY <1>1, <1>2, <1>4, RequestFrame DEF InsertPending, InsertUnconfirmed, storeVars
<1>5. ASSUME NEW a \in Accounts, ProfileStep(a)
      PROVE  UNCHANGED campaigns
  BY <1>5 DEF ProfileStep, Register, RegisterFundraiser, LockForDeletion, CommitDeletion,
     SoftDelete, RollbackDeletion, storeVars
<1>6. ASSUME NEW w \in Workers, Complete(w) \/ CompleteUnconfirmed(w)
      PROVE  \A c \in Ids : RowKept(c)
  <2>1. /\ task(w).campaign \in Ids /\ workers[w].deployment \in Deployments
        /\ CompleteDeployment(task(w).campaign, workers[w].deployment)
    BY <1>6 DEF Complete, CompleteUnconfirmed, IInv, Deployers, WorkersTyped,
       WorkerShape, WorkerOK, task
  <2> DEFINE c == task(w).campaign
             d == workers[w].deployment
  <2> HIDE DEF c, d
  <2>2. c \in Ids /\ d \in Deployments /\ CompleteDeployment(c, d)
    BY <2>1 DEF c, d
  <2>3. CASE campaigns[c].status = "pending" /\ ~DuplicateEvent(d)
    <3> DEFINE row == [campaigns[c] EXCEPT !.status = "active", !.contract = d]
    <3>1. campaigns' = [campaigns EXCEPT ![c] = row]
      BY <2>2, <2>3 DEF CompleteDeployment
    <3>2. campaigns[c] \in CampaignRow
      BY <1>0, <2>2
    <3>3. /\ row \in CampaignRow /\ row.status = "active"
          /\ row.fundraiser = campaigns[c].fundraiser
          /\ row.key = campaigns[c].key /\ row.payload = campaigns[c].payload
      BY <2>2, <3>2 DEF CampaignRow
    <3> HIDE DEF row
    <3> QED
      BY <1>3, <2>2, <2>3, <3>1, <3>3
  <2>4. CASE UNCHANGED storeVars
    BY <1>1, <2>4 DEF storeVars
  <2> QED
    BY <2>2, <2>3, <2>4 DEF CompleteDeployment
<1>7. ASSUME NEW d \in Ids, Close(d)
      PROVE  \A c \in Ids : RowKept(c)
  <2> DEFINE row == [campaigns[d] EXCEPT !.status = "closed"]
  <2>1. /\ campaigns[d].status \in {"pending", "active"}
        /\ campaigns' = [campaigns EXCEPT ![d] = row]
    BY <1>7 DEF Close, CloseCampaign
  <2>2. campaigns[d] \in CampaignRow
    BY <1>0
  <2>3. /\ row \in CampaignRow /\ row.status = "closed"
        /\ row.fundraiser = campaigns[d].fundraiser
        /\ row.key = campaigns[d].key /\ row.payload = campaigns[d].payload
    BY <2>2 DEF CampaignRow
  <2> HIDE DEF row
  <2> QED
    BY <1>3, <2>1, <2>3
<1> QED
  BY <1>1, <1>4, <1>5, <1>6, <1>7, LifeFrame DEF RowStep, lifeVars

(* So what a task says of a stored campaign stays true. *)
LEMMA TaskKept ==
    ASSUME \A c \in Ids : RowKept(c), NEW t
    PROVE  /\ Own(campaigns, t) => Own(campaigns', t)
           /\ Terms(campaigns, t) => Terms(campaigns', t)
           /\ Valid(campaigns, t) => Valid(campaigns', t)
  BY DEF RowKept, Own, Terms, Valid, deploymentTaskMatchesCampaign

(* A request keeps what its client sent. *)
LEMMA RequestKeeps ==
    ASSUME RequestsTyped, NEW r \in Ids, RequestStep(r), requests[r].pc # "idle"
    PROVE  /\ requests'[r].wallet = requests[r].wallet
           /\ requests'[r].key = requests[r].key
           /\ requests'[r].payload = requests[r].payload
           /\ requests'[r].replayOf = requests[r].replayOf
<1> DEFINE Goal == /\ requests'[r].wallet = requests[r].wallet
                   /\ requests'[r].key = requests[r].key
                   /\ requests'[r].payload = requests[r].payload
                   /\ requests'[r].replayOf = requests[r].replayOf
<1>0. requests \in [Ids -> Request] /\ requests[r] \in Request
  BY DEF RequestsTyped
<1>1. ASSUME NEW o, Answer(r, o)
      PROVE  Goal
  <2> DEFINE q == [requests[r] EXCEPT !.pc = "done", !.outcome = o]
  <2>1. requests'[r] = q
    BY <1>0, <1>1 DEF Answer
  <2> QED
    BY <1>0, <2>1 DEF Request
<1>2. ASSUME NEW c, NEW s, Resolve(r, c, s)
      PROVE  Goal
  <2> DEFINE q == [requests[r] EXCEPT !.pc = "discard", !.campaign = c, !.status = s]
  <2>1. CASE requests' = [requests EXCEPT ![r] = q]
    BY <1>0, <2>1 DEF Request
  <2> QED
    BY <1>1, <1>2, <2>1 DEF Resolve
<1>3. CASE StatCanonical(r)
  BY <1>0, <1>3 DEF StatCanonical, Request
<1>4. CASE CopyStaging(r)
  <2>1. CASE requests' = [requests EXCEPT ![r].pc = "lock", ![r].minimumEndAt = now + LeadTime]
    BY <1>0, <2>1 DEF Request
  <2> QED
    BY <1>1, <1>4, <2>1 DEF CopyStaging
<1>5. CASE LockFundraiser(r)
  <2>1. PICK a :
          LET found == findCampaignByIdempotencyKey(a, requests[r].key) IN
          requests' = IF found = {}
            THEN [requests EXCEPT ![r].pc = "commit", ![r].account = a]
            ELSE LET c == CHOOSE c \in found : TRUE IN
                 [requests EXCEPT ![r].pc = "commit", ![r].account = a,
                                  ![r].campaign = c,
                                  ![r].status = campaigns[c].status]
    BY <1>5 DEF LockFundraiser
  <2> DEFINE c == CHOOSE c \in findCampaignByIdempotencyKey(a, requests[r].key) : TRUE
             p == [requests[r] EXCEPT !.pc = "commit", !.account = a]
             q == [requests[r] EXCEPT !.pc = "commit", !.account = a,
                                      !.campaign = c, !.status = campaigns[c].status]
  <2>2. requests'[r] = p \/ requests'[r] = q
    BY <1>0, <2>1
  <2> HIDE DEF c
  <2> QED
    BY <1>0, <2>2 DEF Request
<1>6. CASE ReplayCampaign(r)
  BY <1>2, <1>6 DEF ReplayCampaign
<1>7. CASE InsertPending(r)
  <2>1. CASE requests' = [requests EXCEPT ![r].pc = "discard", ![r].campaign = r,
                                          ![r].status = "pending"]
    BY <1>0, <2>1 DEF Request
  <2> QED
    BY <1>2, <1>7, <2>1 DEF InsertPending
<1>8. CASE DiscardStaging(r)
  BY <1>0, <1>8 DEF DiscardStaging, Request
<1> QED
  BY <1>1, <1>3, <1>4, <1>5, <1>6, <1>7, <1>8
  DEF RequestStep, CreateStep, CreateFault, BeginCreate, FundraiserNotFound, RefuseTooSoon,
      InsertUnconfirmed, PublishTask, PublishUnconfirmed, RequestFails

(* The wallet of a request is that of the account it locks, and the status *)
(* it reads is that of the campaign it finds.                              *)
LEMMA LockReads ==
    ASSUME RequestsTyped, NEW r \in Ids, LockFundraiser(r)
    PROVE  /\ requests[r].wallet = WalletOf[requests'[r].account]
           /\ requests'[r].campaign # None =>
                 requests'[r].status = campaigns[requests'[r].campaign].status
<1>0. requests \in [Ids -> Request] /\ requests[r] \in Request
  BY DEF RequestsTyped
<1>1. PICK a \in Accounts :
        /\ WalletOf[a] = requests[r].wallet
        /\ LET found == findCampaignByIdempotencyKey(a, requests[r].key) IN
           requests' = IF found = {}
             THEN [requests EXCEPT ![r].pc = "commit", ![r].account = a]
             ELSE LET c == CHOOSE c \in found : TRUE IN
                  [requests EXCEPT ![r].pc = "commit", ![r].account = a,
                                   ![r].campaign = c,
                                   ![r].status = campaigns[c].status]
  BY DEF LockFundraiser, LiveAccounts
<1> DEFINE c == CHOOSE c \in findCampaignByIdempotencyKey(a, requests[r].key) : TRUE
           p == [requests[r] EXCEPT !.pc = "commit", !.account = a]
           q == [requests[r] EXCEPT !.pc = "commit", !.account = a,
                                    !.campaign = c, !.status = campaigns[c].status]
<1>2. requests'[r] = p \/ requests'[r] = q
  BY <1>0, <1>1
<1> HIDE DEF c
<1>3. requests[r].campaign = None
  BY DEF RequestsTyped, RequestShape, RequestOK, LockFundraiser
<1>4. CASE requests'[r] = p
  BY <1>0, <1>1, <1>3, <1>4 DEF Request
<1>5. CASE requests'[r] = q
  <2>1. /\ requests'[r].account = a /\ requests'[r].campaign = c
        /\ requests'[r].status = campaigns[c].status
    BY <1>0, <1>5 DEF Request
  <2> QED
    BY <1>1, <2>1
<1> QED
  BY <1>2, <1>4, <1>5

-----------------------------------------------------------------------------
(***************************************************************************)
(* How a deployer step moves its handler, the queue and the chain.         *)
(***************************************************************************)

(* Deployer w goes on with its message, from one pc to another. *)
Moves(w, from, to) ==
    /\ workers[w].pc \in from
    /\ workers'[w].pc \in to
    /\ workers'[w].msg = workers[w].msg
    /\ UNCHANGED queueVars

(* The transaction deployer w sends has the terms of its task. *)
Sends(w, t) == AcceptTransaction(t, workers[w].nonce, task(w)) /\ workers[w].pc = "send"

(* The handler of w begins, ends, or takes one of its steps. *)
HandlerMoves(w) ==
    \/ /\ workers'[w].pc = "handle" /\ workers'[w].msg \in ready
       /\ unacked'[w] = workers'[w].msg
    \/ workers'[w].pc = "idle" /\ unacked'[w] = None
    \/ workers'[w] = workers[w] /\ unacked'[w] = None
    \/ Moves(w, {"handle"}, {"deploy"}) /\ Deployable(task(w))
    \/ Moves(w, {"handle"}, {"ack"}) /\ ~Deployable(task(w)) /\ UNCHANGED campaigns
    \/ Moves(w, {"deploy"}, {"send"})
    \/ /\ Moves(w, {"deploy"}, {"complete"})
       /\ workers'[w].deployment = StubTx(task(w).campaign)
    \/ /\ Moves(w, {"send"}, {"wait"})
       /\ workers'[w].deployment \in TxIds
       /\ Sends(w, workers'[w].deployment)
    \/ /\ Moves(w, {"wait"}, {"complete"})
       /\ workers'[w].deployment = workers[w].deployment
       /\ txs[workers[w].deployment].state = "success"
    \/ /\ Moves(w, {"complete"}, {"ack"})
       /\ CompleteDeployment(task(w).campaign, workers[w].deployment)
       /\ ~CompletionRejected(task(w).campaign, workers[w].deployment)
    \/ Moves(w, {"handle", "deploy", "send", "wait", "complete"}, {"nack"})

(* What becomes of the deliveries. *)
QueueMoves(w) ==
    \/ \E m \in ready : Deliver(w, m) /\ workers[w].pc = "idle"
    \/ workers[w].pc = "ack" /\ AckDelivery(w)
    \/ Requeue(w)
    \/ UNCHANGED queueVars

ChainMoves(w) == UNCHANGED txs \/ \E t \in TxIds : Sends(w, t)

LEMMA GotoMoves ==
    ASSUME WorkersTyped, NEW w \in Workers, NEW pc, Goto(w, pc)
    PROVE  /\ workers'[w].pc = pc /\ workers'[w].msg = workers[w].msg
           /\ workers'[w].deployment = workers[w].deployment
<1> DEFINE v == [workers[w] EXCEPT !.pc = pc]
<1>1. workers'[w] = v /\ workers[w] \in Worker
  BY DEF Goto, WorkersTyped
<1> QED
  BY <1>1 DEF Worker

LEMMA OtherWorkers ==
    ASSUME WorkersTyped, QueueTypeOK, NEW w \in Workers, WorkerStep(w) \/ WorkerFault(w)
    PROVE  \A v \in Workers \ {w} : workers'[v] = workers[v] /\ unacked'[v] = unacked[v]
<1>1. \A v \in Workers \ {w} : workers'[v] = workers[v]
  BY DEF WorkersTyped, WorkerStep, WorkerFault, Receive, HandleTask, DeployStub, EstimateGas,
     SendTransaction, SendRejected, SendUnconfirmed, WaitMined, ConfirmTimeout, Complete,
     CompleteUnconfirmed, HandleFails, Ack, Nack, ConnectionLost, Crash, Goto
<1>2. \A v \in Workers \ {w} : unacked'[v] = unacked[v]
  BY DEF QueueTypeOK, WorkerStep, WorkerFault, Receive, HandleTask, DeployStub, EstimateGas,
     SendTransaction, SendRejected, SendUnconfirmed, WaitMined, ConfirmTimeout, Complete,
     CompleteUnconfirmed, HandleFails, Ack, Nack, ConnectionLost, Crash, Deliver, AckDelivery,
     Requeue, queueVars
<1> QED
  BY <1>1, <1>2

LEMMA WorkerMoves ==
    ASSUME WorkersTyped, QueueTypeOK, NEW w \in Workers, WorkerStep(w) \/ WorkerFault(w)
    PROVE  HandlerMoves(w) /\ QueueMoves(w) /\ ChainMoves(w)
<1> DEFINE Goal == HandlerMoves(w) /\ QueueMoves(w) /\ ChainMoves(w)
<1>0. /\ workers \in [Workers -> Worker] /\ workers[w] \in Worker
      /\ unacked \in [Workers -> Message \cup {None}]
  BY DEF WorkersTyped, QueueTypeOK
<1>1. ASSUME NEW m \in ready, Receive(w, m)
      PROVE  Goal
  <2> DEFINE v == [workers[w] EXCEPT !.pc = "handle", !.msg = m]
  <2>1. workers'[w] = v /\ Deliver(w, m) /\ UNCHANGED txs /\ workers[w].pc = "idle"
    BY <1>0, <1>1 DEF Receive
  <2>2. v.pc = "handle" /\ v.msg = m
    BY <1>0 DEF Worker
  <2>3. unacked'[w] = m
    BY <1>0, <2>1 DEF Deliver
  <2> HIDE DEF v
  <2> QED
    BY <2>1, <2>2, <2>3 DEF HandlerMoves, QueueMoves, ChainMoves
<1>2. CASE HandleTask(w)
  BY <1>2, GotoMoves DEF HandleTask, HandlerMoves, QueueMoves, ChainMoves, Moves, storeVars
<1>3. CASE DeployStub(w)
  <2> DEFINE v == [workers[w] EXCEPT !.pc = "complete", !.deployment = StubTx(task(w).campaign)]
  <2>1. /\ workers'[w] = v /\ workers[w].pc = "deploy" /\ UNCHANGED <<queueVars, txs>>
    BY <1>0, <1>3 DEF DeployStub
  <2>2. /\ v.pc = "complete" /\ v.msg = workers[w].msg
        /\ v.deployment = StubTx(task(w).campaign)
    BY <1>0 DEF Worker
  <2> HIDE DEF v
  <2> QED
    BY <2>1, <2>2 DEF HandlerMoves, QueueMoves, ChainMoves, Moves
<1>4. CASE EstimateGas(w)
  <2> DEFINE v == [workers[w] EXCEPT !.pc = "send", !.nonce = PendingNonce]
  <2>1. /\ workers[w].pc = "deploy" /\ UNCHANGED <<queueVars, txs>>
        /\ Goto(w, "nack") \/ workers'[w] = v
    BY <1>0, <1>4 DEF EstimateGas
  <2>2. v.pc = "send" /\ v.msg = workers[w].msg
    BY <1>0 DEF Worker
  <2> HIDE DEF v
  <2> QED
    BY <2>1, <2>2, GotoMoves DEF HandlerMoves, QueueMoves, ChainMoves, Moves
<1>5. CASE SendTransaction(w)
  <2>1. PICK t \in TxIds :
          /\ AcceptTransaction(t, workers[w].nonce, task(w))
          /\ workers' = [workers EXCEPT ![w].pc = "wait", ![w].deployment = t]
    BY <1>5 DEF SendTransaction
  <2> DEFINE v == [workers[w] EXCEPT !.pc = "wait", !.deployment = t]
  <2>2. workers'[w] = v /\ workers[w].pc = "send" /\ UNCHANGED queueVars
    BY <1>0, <1>5, <2>1 DEF SendTransaction
  <2>3. v.pc = "wait" /\ v.msg = workers[w].msg /\ v.deployment = t
    BY <1>0 DEF Worker
  <2> HIDE DEF v
  <2> QED
    BY <2>1, <2>2, <2>3 DEF HandlerMoves, QueueMoves, ChainMoves, Moves, Sends
<1>6. CASE SendRejected(w) \/ ConfirmTimeout(w) \/ HandleFails(w)
  BY <1>6, GotoMoves DEF SendRejected, ConfirmTimeout, HandleFails, HandlerMoves, QueueMoves,
     ChainMoves, Moves
<1>7. CASE SendUnconfirmed(w)
  BY <1>7, GotoMoves DEF SendUnconfirmed, HandlerMoves, QueueMoves, ChainMoves, Moves, Sends
<1>8. CASE WaitMined(w)
  BY <1>8, GotoMoves DEF WaitMined, HandlerMoves, QueueMoves, ChainMoves, Moves
<1>9. CASE Complete(w)
  BY <1>9, GotoMoves DEF Complete, HandlerMoves, QueueMoves, ChainMoves, Moves
<1>10. CASE CompleteUnconfirmed(w)
  BY <1>10, GotoMoves DEF CompleteUnconfirmed, HandlerMoves, QueueMoves, ChainMoves, Moves
<1>11. CASE Ack(w)
  BY <1>0, <1>11 DEF Ack, AckDelivery, Idle, HandlerMoves, QueueMoves, ChainMoves
<1>12. CASE Nack(w) \/ Crash(w)
  BY <1>0, <1>12 DEF Nack, Crash, Requeue, Idle, HandlerMoves, QueueMoves, ChainMoves
<1>13. CASE ConnectionLost(w)
  BY <1>0, <1>13 DEF ConnectionLost, Requeue, HandlerMoves, QueueMoves, ChainMoves
<1> QED
  BY <1>1, <1>2, <1>3, <1>4, <1>5, <1>6, <1>7, <1>8, <1>9, <1>10, <1>11, <1>12, <1>13
  DEF WorkerStep, WorkerFault

(* Only the steps of a request change a request. *)
LEMMA RequestsElsewhere ==
    [Next]_vars => (\E r \in Ids : RequestStep(r)) \/ UNCHANGED requests
<1>1. ASSUME NEW a \in Accounts, ProfileStep(a)
      PROVE  UNCHANGED requests
  BY <1>1 DEF ProfileStep, Register, LockForDeletion, CommitDeletion, RollbackDeletion, apiVars
<1>2. RowStep => UNCHANGED requests
  BY DEF RowStep, Complete, CompleteUnconfirmed, Close, apiVars
<1> QED
  BY <1>1, <1>2, LifeFrame DEF lifeVars

(* Transaction u stays what it was sent as, and a success stays one. *)
TxKept(u) ==
    /\ txs[u].state # "none" =>
          txs'[u].state # "none" /\ txs'[u].task = txs[u].task
    /\ txs[u].state = "success" => txs'[u].state = "success"

LEMMA AcceptMoves ==
    ASSUME ChainTypeOK, NEW t \in TxIds, NEW n, NEW k, AcceptTransaction(t, n, k)
    PROVE  /\ \A u \in TxIds : TxKept(u)
           /\ \A u \in TxIds \ {t} : txs'[u].state # "none" => txs[u].state # "none"
           /\ txs'[t].state = "pending" /\ txs'[t].task = k
<1>1. /\ txs[t].state = "none"
      /\ txs' = [u \in TxIds |->
            IF u = t THEN [state |-> "pending", nonce |-> n, task |-> k]
            ELSE IF u \in Holders(n) THEN [txs[u] EXCEPT !.state = "replaced"]
            ELSE txs[u]]
  BY DEF AcceptTransaction
<1>2. txs'[t].state = "pending" /\ txs'[t].task = k
  BY <1>1
<1>3. ASSUME NEW u \in TxIds \ {t}
      PROVE  TxKept(u) /\ (txs'[u].state # "none" => txs[u].state # "none")
  <2> DEFINE v == [txs[u] EXCEPT !.state = "replaced"]
  <2>1. txs[u] \in Transaction
    BY DEF ChainTypeOK
  <2>2. v.state = "replaced" /\ v.task = txs[u].task
    BY <2>1 DEF Transaction
  <2>3. txs'[u] = txs[u] \/ (txs[u].state = "pending" /\ txs'[u] = v)
    BY <1>1 DEF Holders
  <2> HIDE DEF v
  <2> QED
    BY <2>2, <2>3 DEF TxKept
<1> QED
  BY <1>1, <1>2, <1>3 DEF TxKept

LEMMA MineMoves ==
    ASSUME ChainTypeOK, NEW t \in TxIds, MineTransaction(t)
    PROVE  \A u \in TxIds : TxKept(u) /\ (txs'[u].state # "none" => txs[u].state # "none")
<1> DEFINE s == IF CampaignAlreadyDeployed(txs[t].task.campaign) THEN "reverted" ELSE "success"
           v == [txs[t] EXCEPT !.state = s]
<1>1. txs[t].state = "pending" /\ txs' = [txs EXCEPT ![t] = v]
  BY DEF MineTransaction
<1>2. txs[t] \in Transaction /\ s \in {"reverted", "success"}
  BY DEF ChainTypeOK
<1>3. v.state \in {"reverted", "success"} /\ v.task = txs[t].task
  <2> HIDE DEF s
  <2> QED
    BY <1>2 DEF Transaction
<1> HIDE DEF v
<1>4. txs'[t] = v /\ \A u \in TxIds \ {t} : txs'[u] = txs[u]
  BY <1>1 DEF ChainTypeOK
<1> QED
  BY <1>1, <1>3, <1>4 DEF TxKept

(* The chain only grows, by transactions the deployers send. *)
LEMMA ChainKept ==
    ASSUME Deployers, [Next]_vars
    PROVE  \A u \in TxIds : TxKept(u)
<1>0. ChainTypeOK /\ WorkersTyped /\ QueueTypeOK
  BY DEF Deployers
<1>1. CASE UNCHANGED txs
  BY <1>1 DEF TxKept
<1>2. ASSUME NEW r \in Ids, PublishStep(r)
      PROVE  UNCHANGED txs
  BY <1>2 DEF PublishStep, PublishTask, PublishUnconfirmed
<1>3. ASSUME NEW w \in Workers, WorkerStep(w) \/ WorkerFault(w)
      PROVE  \A u \in TxIds : TxKept(u)
  BY <1>0, <1>1, <1>3, WorkerMoves, AcceptMoves DEF ChainMoves, Sends
<1>4. ASSUME NEW t \in TxIds, Mine(t)
      PROVE  \A u \in TxIds : TxKept(u)
  BY <1>0, <1>4, MineMoves DEF Mine
<1> QED
  BY <1>1, <1>2, <1>3, <1>4, DeployFrame DEF deployVars

-----------------------------------------------------------------------------
(***************************************************************************)
(* Contracts are deployed on the terms of their campaign.                  *)
(***************************************************************************)
LEMMA RequestWalletsStep ==
    ASSUME IInv, RequestWallets, [Next]_vars
    PROVE  RequestWallets'
<1>0. RequestsTyped
  BY DEF IInv, Life
<1>1. ASSUME NEW r \in Ids, RequestStep(r)
      PROVE  RequestWallets'
  <2> SUFFICES ASSUME NEW s \in Ids, requests'[s].pc \in {"commit", "discard", "publish"}
               PROVE  requests'[s].wallet = WalletOf[requests'[s].account]
    BY DEF RequestWallets
  <2>1. CASE s # r
    BY <1>0, <1>1, <2>1, OtherRequests DEF RequestWallets
  <2>2. CASE s = r
    <3>1. CASE LockFundraiser(r)
      <4>1. requests[r].pc # "idle"
        BY <3>1 DEF LockFundraiser
      <4> QED
        BY <1>0, <1>1, <2>2, <3>1, <4>1, LockReads, RequestKeeps
    <3>2. CASE /\ requests[r].pc \in {"commit", "discard", "publish"}
               /\ requests'[r].account = requests[r].account
      BY <1>0, <1>1, <2>2, <3>2, RequestKeeps DEF RequestWallets
    <3> QED
      BY <1>0, <1>1, <2>2, <3>1, <3>2, RequestMoves
      DEF Unresolved, ReplayedAs, InsertedAs, Returned, Publishing, SameKey
  <2> QED
    BY <2>1, <2>2
<1> QED
  BY <1>1, RequestsElsewhere DEF RequestWallets

(* The task a request publishes has the wallet of the fundraiser. *)
LEMMA PublishesOwn ==
    ASSUME IInv, RequestWallets, NEW r \in Ids, PublishStep(r)
    PROVE  /\ ready' = ready \/ \E m \in ready' :
                 m.task = TaskOf(r) /\ ready' = ready \cup {m} /\ needsCampaignDeployment(r)
           /\ UNCHANGED <<unacked, txs, workers, campaigns>>
           /\ Own(campaigns, TaskOf(r))
<1>1. requests[r].pc = "publish"
  BY DEF PublishStep, PublishTask, PublishUnconfirmed
<1>2. /\ requests[r].campaign \in Ids
      /\ campaigns[requests[r].campaign].status # "absent"
      /\ requests[r].wallet = WalletOf[campaigns[requests[r].campaign].fundraiser]
  BY <1>1 DEF IInv, Life, Answered, Resolved, KeyHolder, RequestWallets
<1>3. Own(campaigns, TaskOf(r))
  BY <1>2 DEF Own, TaskOf
<1>4. UNCHANGED <<unacked, txs, workers, campaigns>>
  BY DEF PublishStep, PublishTask, PublishUnconfirmed, Enqueue, queueVars, storeVars
<1> DEFINE m == [id |-> r, task |-> TaskOf(r)]
<1>5. ready' = ready \/ (ready' = ready \cup {m} /\ needsCampaignDeployment(r))
  BY DEF PublishStep, PublishTask, PublishUnconfirmed, Enqueue, queueVars
<1>6. m.task = TaskOf(r)
  OBVIOUS
<1> HIDE DEF m
<1> QED
  BY <1>3, <1>4, <1>5, <1>6

LEMMA DeployableTerms ==
    ASSUME NEW t, Own(campaigns, t), Deployable(t)
    PROVE  Terms(campaigns, t)
  BY DEF Own, Deployable, Terms, Stored

(* A task that waits or is delivered was there before, or was published. *)
LEMMA QueueOwnStep ==
    ASSUME IInv, TermsInv, [Next]_vars
    PROVE  QueueOwn'
<1>0. QueueTypeOK /\ WorkersTyped
  BY DEF IInv, Deployers
<1>1. \A t : Own(campaigns, t) => Own(campaigns', t)
  BY RowsKept, TaskKept
<1>2. /\ \A m \in ready : Own(campaigns', m.task)
      /\ \A w \in Workers : unacked[w] # None => Own(campaigns', unacked[w].task)
  BY <1>1 DEF TermsInv, QueueOwn
<1>3. ASSUME NEW r \in Ids, PublishStep(r)
      PROVE  QueueOwn'
  <2>1. /\ Own(campaigns', TaskOf(r)) /\ UNCHANGED unacked
        /\ ready' = ready \/ \E m \in ready' : m.task = TaskOf(r) /\ ready' = ready \cup {m}
    BY <1>1, <1>3, PublishesOwn DEF TermsInv
  <2> QED
    BY <1>2, <2>1 DEF QueueOwn
<1>4. ASSUME NEW w \in Workers, WorkerStep(w) \/ WorkerFault(w)
      PROVE  QueueOwn'
  <2>1. CASE \E m \in ready : Deliver(w, m)
    BY <1>0, <1>2, <2>1 DEF Deliver, QueueOwn, QueueTypeOK
  <2>2. CASE AckDelivery(w)
    BY <1>0, <1>2, <2>2 DEF AckDelivery, QueueOwn, QueueTypeOK
  <2>3. CASE Requeue(w)
    BY <1>0, <1>2, <2>3 DEF Requeue, QueueOwn, QueueTypeOK
  <2>4. CASE UNCHANGED queueVars
    BY <1>2, <2>4 DEF queueVars, QueueOwn
  <2> QED
    BY <1>0, <1>4, <2>1, <2>2, <2>3, <2>4, WorkerMoves DEF QueueMoves
<1>5. CASE UNCHANGED <<ready, unacked>>
  BY <1>2, <1>5 DEF QueueOwn
<1> QED
  BY <1>3, <1>4, <1>5, DeployFrame DEF deployVars, Mine, queueVars

(* A handler works on what it received, and checks it before it deploys. *)
LEMMA WorkersOwnStep ==
    ASSUME IInv, TermsInv, [Next]_vars
    PROVE  WorkersOwn'
<1>0. QueueTypeOK /\ WorkersTyped
  BY DEF IInv, Deployers
<1>1. \A t : /\ Own(campaigns, t) => Own(campaigns', t)
             /\ Terms(campaigns, t) => Terms(campaigns', t)
  BY RowsKept, TaskKept
<1>2. ASSUME NEW w \in Workers, workers'[w] = workers[w]
      PROVE  /\ workers'[w].pc # "idle" => Own(campaigns', task(w)')
             /\ workers'[w].pc \in {"deploy", "send", "wait", "complete"}
                  => Terms(campaigns', task(w)')
  BY <1>1, <1>2 DEF TermsInv, WorkersOwn, task
<1>3. ASSUME NEW w \in Workers, WorkerStep(w) \/ WorkerFault(w)
      PROVE  WorkersOwn'
  <2> SUFFICES ASSUME NEW v \in Workers
               PROVE  /\ workers'[v].pc # "idle" => Own(campaigns', task(v)')
                      /\ workers'[v].pc \in {"deploy", "send", "wait", "complete"}
                           => Terms(campaigns', task(v)')
    BY DEF WorkersOwn
  <2>1. CASE v # w
    BY <1>0, <1>2, <1>3, <2>1, OtherWorkers
  <2>2. CASE v = w
    <3>1. HandlerMoves(w)
      BY <1>0, <1>3, WorkerMoves
    <3>2. CASE workers'[w].pc = "handle" /\ workers'[w].msg \in ready
      <4>1. Own(campaigns', workers'[w].msg.task)
        BY <1>1, <3>2 DEF TermsInv, QueueOwn
      <4> QED
        BY <2>2, <3>2, <4>1 DEF task
    <3>3. CASE workers'[w].pc = "idle" \/ workers'[w] = workers[w]
      BY <1>2, <2>2, <3>3
    <3>4. CASE Moves(w, {"handle"}, {"deploy"}) /\ Deployable(task(w))
      <4>1. Own(campaigns, task(w)) /\ Terms(campaigns, task(w))
        BY <3>4, DeployableTerms DEF Moves, TermsInv, WorkersOwn
      <4> QED
        BY <1>1, <2>2, <3>4, <4>1 DEF Moves, task
    <3>5. CASE Moves(w, {"deploy", "send", "wait"}, {"send", "wait", "complete"})
      <4>1. Own(campaigns, task(w)) /\ Terms(campaigns, task(w))
        BY <3>5 DEF Moves, TermsInv, WorkersOwn
      <4> QED
        BY <1>1, <2>2, <3>5, <4>1 DEF Moves, task
    <3>6. CASE Moves(w, {"handle", "deploy", "send", "wait", "complete"}, {"ack", "nack"})
      <4>1. Own(campaigns, task(w))
        BY <3>6 DEF Moves, TermsInv, WorkersOwn
      <4> QED
        BY <1>1, <2>2, <3>6, <4>1 DEF Moves, task
    <3> QED
      BY <3>1, <3>2, <3>3, <3>4, <3>5, <3>6 DEF HandlerMoves, Moves
  <2> QED
    BY <2>1, <2>2
<1>4. CASE UNCHANGED workers
  BY <1>2, <1>4 DEF WorkersOwn
<1> QED
  BY <1>3, <1>4, DeployFrame DEF deployVars, Mine, PublishStep, PublishTask, PublishUnconfirmed

(* What is on chain was sent by a handler past its checks. *)
LEMMA ChainTermsStep ==
    ASSUME IInv, TermsInv, [Next]_vars
    PROVE  ChainTerms'
<1>0. ChainTypeOK /\ WorkersTyped /\ QueueTypeOK
  BY DEF IInv, Deployers
<1>1. \A t : Terms(campaigns, t) => Terms(campaigns', t)
  BY RowsKept, TaskKept
<1>2. ASSUME \A u \in TxIds : TxKept(u) /\ (txs'[u].state # "none" => txs[u].state # "none")
      PROVE  ChainTerms'
  BY <1>1, <1>2 DEF TxKept, TermsInv, ChainTerms
<1>3. ASSUME NEW w \in Workers, NEW t \in TxIds, Sends(w, t)
      PROVE  ChainTerms'
  <2>1. Terms(campaigns', task(w))
    BY <1>1, <1>3 DEF Sends, TermsInv, WorkersOwn
  <2>2. /\ \A u \in TxIds : TxKept(u)
        /\ \A u \in TxIds \ {t} : txs'[u].state # "none" => txs[u].state # "none"
        /\ txs'[t].task = task(w)
    BY <1>0, <1>3, AcceptMoves DEF Sends
  <2> QED
    BY <1>1, <2>1, <2>2 DEF TxKept, TermsInv, ChainTerms
<1>4. CASE UNCHANGED txs
  BY <1>2, <1>4 DEF TxKept
<1>5. ASSUME NEW w \in Workers, WorkerStep(w) \/ WorkerFault(w)
      PROVE  ChainTerms'
  BY <1>0, <1>3, <1>4, <1>5, WorkerMoves DEF ChainMoves
<1>6. ASSUME NEW t \in TxIds, Mine(t)
      PROVE  ChainTerms'
  BY <1>0, <1>2, <1>6, MineMoves DEF Mine
<1> QED
  BY <1>4, <1>5, <1>6, DeployFrame DEF deployVars, PublishStep, PublishTask, PublishUnconfirmed

LEMMA InitTerms == Init => TermsInv
<1> SUFFICES ASSUME Init PROVE TermsInv
  OBVIOUS
<1>1. RequestWallets
  BY DEF Init, RequestWallets, NoRequest
<1>2. QueueOwn
  BY StraysAssumption, NoneAssumption DEF Init, QueueInit, QueueOwn, Own
<1>3. WorkersOwn
  BY DEF Init, WorkersOwn, Idle
<1>4. ChainTerms
  BY DEF Init, ChainInit, ChainTerms, NoTransaction
<1> QED
  BY <1>1, <1>2, <1>3, <1>4 DEF TermsInv

LEMMA TermsInvariance == Spec => []TermsInv
<1>1. IInv /\ TermsInv /\ [Next]_vars => TermsInv'
  BY RequestWalletsStep, QueueOwnStep, WorkersOwnStep, ChainTermsStep DEF TermsInv
<1> QED
  BY <1>1, InitTerms, Invariance, PTL DEF Spec

(* Handle checks the task against the campaign once, before the first of   *)
(* many steps; what it sends, possibly long after, and from two deployers  *)
(* at once, is still on the terms of the campaign, for the wallet of its   *)
(* fundraiser: every successful transaction is.                            *)
THEOREM ContractsOnTerms == Spec => []ContractTermsMatch
<1>1. IInv /\ TermsInv => ContractTermsMatch
  BY DEF TermsInv, ChainTerms, Terms, deploymentTaskMatchesCampaign, ContractTermsMatch, Stored
<1> QED
  BY <1>1, TermsInvariance, Invariance, PTL

-----------------------------------------------------------------------------
(***************************************************************************)
(* What is recorded of a deployment.                                       *)
(***************************************************************************)

(* A deployment of a campaign stays one. *)
LEMMA DeploymentKept ==
    ASSUME Deployers, [Next]_vars, NEW c, NEW d, DeploymentOf(c, d)
    PROVE  DeploymentOf(c, d)'
  BY ChainKept DEF DeploymentOf, Contracts, TxKept

LEMMA AwaitingStep ==
    ASSUME IInv, Awaiting, [Next]_vars
    PROVE  Awaiting'
<1>0. /\ ChainTypeOK /\ WorkersTyped /\ QueueTypeOK
      /\ \A v \in Workers : workers[v].pc = "wait" => workers[v].deployment \in TxIds
  BY DEF IInv, Deployers, WorkersTyped, WorkerShape, WorkerOK
<1>1. \A u \in TxIds : TxKept(u)
  BY ChainKept DEF IInv
<1>2. \A c, d : DeploymentOf(c, d) => DeploymentOf(c, d)'
  BY DeploymentKept DEF IInv
<1> DEFINE Good(v) ==
             /\ workers[v].pc = "wait" =>
                   /\ txs[workers[v].deployment].state # "none"
                   /\ txs[workers[v].deployment].task = task(v)
             /\ workers[v].pc = "complete" =>
                   DeploymentOf(task(v).campaign, workers[v].deployment)
<1>3. ASSUME NEW v \in Workers, workers'[v] = workers[v]
      PROVE  Good(v)'
  BY <1>0, <1>1, <1>2, <1>3 DEF Awaiting, TxKept, task
<1>4. ASSUME NEW w \in Workers, WorkerStep(w) \/ WorkerFault(w)
      PROVE  Good(w)'
  <2>1. HandlerMoves(w)
    BY <1>0, <1>4, WorkerMoves
  <2>2. CASE workers'[w].pc \notin {"wait", "complete"}
    BY <2>2
  <2>3. CASE /\ Moves(w, {"send"}, {"wait"})
             /\ workers'[w].deployment \in TxIds
             /\ Sends(w, workers'[w].deployment)
    BY <1>0, <2>3, AcceptMoves DEF Moves, Sends, task
  <2>4. CASE /\ Moves(w, {"deploy"}, {"complete"})
             /\ workers'[w].deployment = StubTx(task(w).campaign)
    BY <2>4 DEF Moves, task, DeploymentOf
  <2>5. CASE /\ Moves(w, {"wait"}, {"complete"})
             /\ workers'[w].deployment = workers[w].deployment
             /\ txs[workers[w].deployment].state = "success"
    <3>1. DeploymentOf(task(w).campaign, workers[w].deployment)
      BY <1>0, <2>5 DEF Moves, Awaiting, DeploymentOf, Contracts
    <3> QED
      BY <1>2, <2>5, <3>1 DEF Moves, task
  <2> QED
    BY <1>3, <2>1, <2>2, <2>3, <2>4, <2>5 DEF HandlerMoves, Moves
<1>5. ASSUME NEW w \in Workers, WorkerStep(w) \/ WorkerFault(w)
      PROVE  \A v \in Workers : Good(v)'
  BY <1>0, <1>3, <1>4, <1>5, OtherWorkers
<1>6. CASE UNCHANGED workers
  BY <1>3, <1>6 DEF Awaiting
<1> QED
  BY <1>5, <1>6, DeployFrame
  DEF Awaiting, deployVars, Mine, PublishStep, PublishTask, PublishUnconfirmed

(* The row of campaign c gets contract k, recorded as k if it is new. *)
LEMMA RecordedRow ==
    ASSUME IInv, Recorded, NEW c \in Ids, NEW row,
           campaigns' = [campaigns EXCEPT ![c] = row],
           \/ row.contract = campaigns[c].contract /\ UNCHANGED events
           \/ /\ campaigns[c].contract = None
              /\ DeploymentOf(c, row.contract)
              /\ events' = events \cup {row.contract},
           \A d, k : DeploymentOf(d, k) => DeploymentOf(d, k)'
    PROVE  Recorded'
<1>1. campaigns'[c] = row /\ \A d \in Ids \ {c} : campaigns'[d] = campaigns[d]
  BY DEF IInv, Life, StoreTypeOK
<1>2. None \notin events
  BY NoneAssumption DEF IInv, Life, StoreTypeOK
<1> QED
  BY <1>1, <1>2 DEF Recorded

LEMMA RecordedStep ==
    ASSUME IInv, Awaiting, Recorded, [Next]_vars
    PROVE  Recorded'
<1>0. /\ campaigns \in [Ids -> CampaignRow]
      /\ \A c, d : DeploymentOf(c, d) => DeploymentOf(c, d)'
  BY DeploymentKept DEF IInv, Life, StoreTypeOK
<1>1. CASE UNCHANGED <<campaigns, events>>
  BY <1>0, <1>1 DEF Recorded
<1>2. ASSUME NEW r \in Ids, RequestStep(r)
      PROVE  Recorded'
  <2> DEFINE row == [status |-> "pending", fundraiser |-> requests[r].account,
                     key |-> requests[r].key, payload |-> requests[r].payload,
                     contract |-> None]
  <2>1. CASE Inserting(r) /\ Insert(r)
    <3>1. /\ campaigns[r] = NoRow
          /\ campaigns' = [campaigns EXCEPT ![r] = row]
          /\ UNCHANGED events
      BY <2>1 DEF Inserting, Insert, InsertCampaign, IInv, Life, Rows
    <3>2. row.contract = None /\ campaigns[r].contract = None
      BY <3>1 DEF NoRow
    <3> HIDE DEF row
    <3> QED
      BY <1>0, <3>1, <3>2, RecordedRow
  <2> QED
    BY <1>1, <1>2, <2>1, RequestFrame DEF InsertPending, InsertUnconfirmed, storeVars
<1>3. ASSUME NEW a \in Accounts, ProfileStep(a)
      PROVE  Recorded'
  BY <1>1, <1>3 DEF ProfileStep, Register, RegisterFundraiser, LockForDeletion, CommitDeletion,
     SoftDelete, RollbackDeletion, storeVars
<1>4. ASSUME NEW w \in Workers, Complete(w) \/ CompleteUnconfirmed(w)
      PROVE  Recorded'
  <2> DEFINE c == task(w).campaign
             d == workers[w].deployment
             row == [campaigns[c] EXCEPT !.status = "active", !.contract = d]
  <2>1. c \in Ids /\ CompleteDeployment(c, d) /\ DeploymentOf(c, d)
    BY <1>0, <1>4 DEF Complete, CompleteUnconfirmed, Awaiting, IInv, Deployers, WorkersTyped,
       WorkerShape, WorkerOK, task
  <2> HIDE DEF c, d
  <2>2. CASE campaigns[c].status = "pending" /\ ~DuplicateEvent(d)
    <3>1. /\ campaigns' = [campaigns EXCEPT ![c] = row]
          /\ events' = events \cup {d}
          /\ campaigns[c].contract = None
      BY <2>1, <2>2 DEF CompleteDeployment, IInv, Life, Rows
    <3>2. campaigns[c] \in CampaignRow
      BY <1>0, <2>1
    <3>3. row.contract = d
      BY <3>2 DEF CampaignRow
    <3> HIDE DEF row
    <3> QED
      BY <1>0, <2>1, <3>1, <3>3, RecordedRow
  <2> QED
    BY <1>1, <2>1, <2>2 DEF CompleteDeployment, storeVars
<1>5. ASSUME NEW c \in Ids, Close(c)
      PROVE  Recorded'
  <2> DEFINE row == [campaigns[c] EXCEPT !.status = "closed"]
  <2>1. campaigns' = [campaigns EXCEPT ![c] = row] /\ UNCHANGED events
    BY <1>5 DEF Close, CloseCampaign
  <2>2. row.contract = campaigns[c].contract
    BY <1>0 DEF CampaignRow
  <2> HIDE DEF row
  <2> QED
    BY <1>0, <2>1, <2>2, RecordedRow
<1> QED
  BY <1>1, <1>2, <1>3, <1>4, <1>5, LifeFrame DEF RowStep, lifeVars

LEMMA InitEvents == Init => EventsInv
  BY DEF Init, StoreInit, EventsInv, Awaiting, Recorded, Idle, NoRow

LEMMA EventsInvariance == Spec => []EventsInv
<1>1. IInv /\ EventsInv /\ [Next]_vars => EventsInv'
  BY AwaitingStep, RecordedStep DEF EventsInv
<1> QED
  BY <1>1, InitEvents, Invariance, PTL DEF Spec

(* CompleteDeployment writes the event and the campaign in one             *)
(* transaction: however often it is retried, by however many deployers,    *)
(* the recorded deployments are the contracts of the campaigns, and each   *)
(* contract is the one deployed for its campaign.                          *)
THEOREM EventsAgree == Spec => []EventsMatchCampaigns
<1>1. IInv /\ EventsInv => EventsMatchCampaigns
  <2> SUFFICES ASSUME IInv, EventsInv PROVE EventsMatchCampaigns
    OBVIOUS
  <2>1. None \notin events
    BY NoneAssumption DEF IInv, Life, StoreTypeOK
  <2>2. events = {campaigns[c].contract : c \in Ids} \ {None}
    BY <2>1 DEF EventsInv, Recorded, IInv, Life, Rows
  <2> QED
    BY <2>2 DEF EventsInv, Recorded, DeploymentOf, EventsMatchCampaigns
<1> QED
  BY <1>1, EventsInvariance, Invariance, PTL

-----------------------------------------------------------------------------
(***************************************************************************)
(* The broker holds the task of a campaign that waits.                     *)
(***************************************************************************)

(* The campaign a request has read under its lock is stored. *)
LEMMA ReadStored ==
    ASSUME IInv, NEW r \in Ids, requests[r].pc \in {"commit", "discard", "publish"},
           requests[r].campaign \in Ids
    PROVE  campaigns[requests[r].campaign].status # "absent"
  BY NoneAssumption DEF IInv, Life, Found, Answered, Resolved, KeyHolder

(* The status a request goes on with: the one it had, or one just read. *)
StatusMoves(r) ==
    \/ /\ requests[r].pc \in {"commit", "discard", "publish"}
       /\ requests'[r].status = requests[r].status
       /\ requests'[r].campaign = requests[r].campaign
    \/ requests'[r].campaign = None
    \/ requests'[r].status = "pending"
    \/ /\ requests'[r].campaign \in Ids
       /\ campaigns[requests'[r].campaign].status # "absent"
       /\ requests'[r].status = campaigns[requests'[r].campaign].status

LEMMA ResolveReads ==
    ASSUME RequestsTyped, NEW r \in Ids, NEW c, NEW s, Resolve(r, c, s),
           requests'[r].pc # "done"
    PROVE  requests'[r].campaign = c /\ requests'[r].status = s
<1> DEFINE q == [requests[r] EXCEPT !.pc = "discard", !.campaign = c, !.status = s]
<1>1. requests[r] \in Request
  BY DEF RequestsTyped
<1>2. requests'[r] = q
  BY AnswerMoves DEF Resolve, RequestsTyped
<1> QED
  BY <1>1, <1>2 DEF Request

LEMMA RequestReads ==
    ASSUME RequestsTyped, NEW r \in Ids, RequestStep(r),
           requests'[r].pc \in {"commit", "discard", "publish"}
    PROVE  StatusMoves(r)
<1>0. requests \in [Ids -> Request] /\ requests[r] \in Request
  BY DEF RequestsTyped
<1>1. CASE LockFundraiser(r)
  <2>1. requests'[r].campaign = None \/ /\ requests'[r].campaign \in Ids
                                        /\ campaigns[requests'[r].campaign].status # "absent"
    BY <1>1, LockMoves DEF LockedAs, HeldBy
  <2> QED
    BY <1>1, <2>1, LockReads DEF StatusMoves
<1>2. CASE ReplayCampaign(r)
  <2>1. /\ requests'[r].campaign = requests[r].campaign
        /\ requests'[r].status = requests[r].status
    BY <1>2, ResolveReads DEF ReplayCampaign
  <2> QED
    BY <1>2, <2>1 DEF ReplayCampaign, StatusMoves
<1>3. CASE InsertPending(r)
  <2>1. CASE Conflicting(r) = {}
    <3> DEFINE q == [requests[r] EXCEPT !.pc = "discard", !.campaign = r, !.status = "pending"]
    <3>1. requests'[r] = q
      BY <1>0, <1>3, <2>1 DEF InsertPending
    <3>2. requests'[r].status = "pending"
      BY <1>0, <3>1 DEF Request
    <3> QED
      BY <3>2 DEF StatusMoves
  <2>2. CASE Conflicting(r) # {}
    <3> DEFINE c == CHOOSE c \in Conflicting(r) : TRUE
    <3>1. c \in Conflicting(r) /\ Resolve(r, c, campaigns[c].status)
      BY <1>3, <2>2 DEF InsertPending
    <3> HIDE DEF c
    <3>2. c \in Ids /\ campaigns[c].status # "absent"
      BY <3>1 DEF Conflicting, findCampaignByIdempotencyKey, Stored
    <3>3. requests'[r].campaign = c /\ requests'[r].status = campaigns[c].status
      BY <3>1, ResolveReads
    <3> QED
      BY <3>2, <3>3 DEF StatusMoves
  <2> QED
    BY <2>1, <2>2
<1>4. CASE DiscardStaging(r)
  <2> DEFINE q == [requests[r] EXCEPT !.pc = "publish"]
  <2>1. requests'[r] = q /\ requests[r].pc = "discard"
    BY <1>0, <1>4 DEF DiscardStaging
  <2> QED
    BY <1>0, <2>1 DEF StatusMoves, Request
<1>5. ASSUME NEW o, Answer(r, o)
      PROVE  FALSE
  BY <1>5, AnswerMoves
<1>6. CASE StatCanonical(r)
  BY <1>0, <1>6 DEF StatCanonical, Request
<1>7. CASE CopyStaging(r)
  <2>1. CASE requests' = [requests EXCEPT ![r].pc = "lock", ![r].minimumEndAt = now + LeadTime]
    BY <1>0, <2>1 DEF Request
  <2> QED
    BY <1>5, <1>7, <2>1 DEF CopyStaging
<1>8. ASSUME NEW w \in Wallets, NEW k \in Keys, NEW p \in Payloads, BeginCreate(r, w, k, p)
      PROVE  FALSE
  BY <1>0, <1>8 DEF BeginCreate, Request
<1> QED
  BY <1>1, <1>2, <1>3, <1>4, <1>5, <1>6, <1>7, <1>8
  DEF RequestStep, CreateStep, CreateFault, FundraiserNotFound, RefuseTooSoon,
      InsertUnconfirmed, PublishTask, PublishUnconfirmed, RequestFails

(* Only PublishTask answers that the campaign was created. *)
LEMMA CreatedMoves ==
    ASSUME StoreTypeOK, now \in Nat, RequestsTyped, NEW r \in Ids, RequestStep(r),
           requests'[r].outcome = "created"
    PROVE  PublishTask(r)
<1>1. RequestsTyped' /\ requests'[r].pc = "done"
  BY RequestTypes, OutcomesAssumption DEF RequestsTyped, RequestShape, RequestOK, Outcomes
<1>2. Publishing(r)
  BY <1>1, RequestMoves, LockMoves
  DEF Unresolved, LockedAs, ReplayedAs, InsertedAs, Returned
<1>3. CASE DiscardStaging(r)
  BY <1>1, <1>3 DEF DiscardStaging, RequestsTyped, Request
<1>4. CASE PublishUnconfirmed(r) \/ RequestFails(r)
  BY <1>4, AnswerMoves DEF PublishUnconfirmed, RequestFails
<1> QED
  BY <1>2, <1>3, <1>4 DEF Publishing, RequestStep, CreateStep, CreateFault, BeginCreate,
     StatCanonical, CopyStaging, LockFundraiser, FundraiserNotFound, ReplayCampaign,
     RefuseTooSoon, InsertPending, InsertUnconfirmed, Inserting

LEMMA DeliveredStep ==
    ASSUME IInv, Delivered, [Next]_vars
    PROVE  Delivered'
<1>0. WorkersTyped /\ QueueTypeOK
  BY DEF IInv, Deployers
<1>1. ASSUME NEW w \in Workers, WorkerStep(w) \/ WorkerFault(w)
      PROVE  Delivered'
  <2>1. HandlerMoves(w)
    BY <1>0, <1>1, WorkerMoves
  <2>2. unacked'[w] # None => workers'[w].pc # "idle" /\ workers'[w].msg = unacked'[w]
    BY <2>1 DEF HandlerMoves, Moves, queueVars, Delivered
  <2>3. \A v \in Workers \ {w} : workers'[v] = workers[v] /\ unacked'[v] = unacked[v]
    BY <1>0, <1>1, OtherWorkers
  <2> QED
    BY <2>2, <2>3 DEF Delivered
<1>2. CASE UNCHANGED <<unacked, workers>>
  BY <1>2 DEF Delivered
<1> QED
  BY <1>1, <1>2, DeployFrame DEF deployVars, Mine, PublishStep, PublishTask, PublishUnconfirmed,
     Enqueue, queueVars

(* The campaign of a delivered task cannot turn into one that waits. *)
LEMMA ValidBefore ==
    ASSUME IInv, TermsInv, [Next]_vars, NEW w \in Workers, workers[w].pc # "idle",
           Valid(campaigns', task(w)), campaigns'[task(w).campaign].status = "pending"
    PROVE  Valid(campaigns, task(w)) /\ campaigns[task(w).campaign].status = "pending"
<1>1. task(w).campaign \in Ids /\ Own(campaigns, task(w))
  BY DEF Valid, TermsInv, WorkersOwn
<1>2. campaigns[task(w).campaign].status # "absent" /\ RowKept(task(w).campaign)
  BY <1>1, RowsKept DEF Own, Valid
<1> QED
  BY <1>1, <1>2 DEF RowKept, Valid, deploymentTaskMatchesCampaign

LEMMA SettledStep ==
    ASSUME IInv, TermsInv, Settled, [Next]_vars
    PROVE  Settled'
<1>0. WorkersTyped /\ QueueTypeOK
  BY DEF IInv, Deployers
<1>1. ASSUME NEW v \in Workers, workers'[v] = workers[v], workers'[v].pc = "ack",
             Valid(campaigns', task(v)')
      PROVE  campaigns'[task(v)'.campaign].status # "pending"
  BY <1>1, ValidBefore DEF Settled, task
<1>2. ASSUME NEW w \in Workers, WorkerStep(w) \/ WorkerFault(w), workers'[w].pc = "ack",
             Valid(campaigns', task(w)')
      PROVE  campaigns'[task(w)'.campaign].status # "pending"
  <2>1. HandlerMoves(w)
    BY <1>0, <1>2, WorkerMoves
  <2>2. CASE Moves(w, {"handle"}, {"ack"}) /\ ~Deployable(task(w)) /\ UNCHANGED campaigns
    <3>1. Valid(campaigns, task(w)) /\ task(w)' = task(w)
      BY <1>2, <2>2 DEF Moves, task
    <3>2. campaigns[task(w).campaign].status # "pending"
      BY <2>2, <3>1 DEF Valid, Deployable, Stored, campaignAlreadyDeployed, IInv, Life, Rows
    <3> QED
      BY <2>2, <3>1, <3>2
  <2>3. CASE /\ Moves(w, {"complete"}, {"ack"})
             /\ CompleteDeployment(task(w).campaign, workers[w].deployment)
             /\ ~CompletionRejected(task(w).campaign, workers[w].deployment)
    <3> DEFINE c == task(w).campaign
               d == workers[w].deployment
               row == [campaigns[c] EXCEPT !.status = "active", !.contract = d]
    <3>1. /\ c \in Ids /\ task(w)' = task(w)
          /\ CompleteDeployment(c, d) /\ ~CompletionRejected(c, d)
      BY <1>0, <2>3 DEF Moves, task, WorkersTyped, WorkerShape, WorkerOK
    <3> HIDE DEF c, d
    <3>2. campaigns \in [Ids -> CampaignRow] /\ campaigns[c] \in CampaignRow
      BY <3>1 DEF IInv, Life, StoreTypeOK
    <3>3. CASE campaigns[c].status = "pending"
      <4>1. campaigns'[c] = row
        BY <3>1, <3>2, <3>3 DEF CompleteDeployment, CompletionRejected
      <4>2. campaigns'[c].status = "active"
        BY <3>2, <4>1 DEF CampaignRow
      <4> QED
        BY <3>1, <4>2 DEF c
    <3>4. CASE campaigns[c].status # "pending"
      <4>1. UNCHANGED campaigns
        BY <3>1, <3>4 DEF CompleteDeployment, storeVars
      <4> QED
        BY <3>1, <3>4, <4>1 DEF c
    <3> QED
      BY <3>3, <3>4
  <2> QED
    BY <1>1, <1>2, <2>1, <2>2, <2>3 DEF HandlerMoves, Moves
<1>3. ASSUME NEW w \in Workers, WorkerStep(w) \/ WorkerFault(w)
      PROVE  Settled'
  <2>1. \A v \in Workers \ {w} : workers'[v] = workers[v]
    BY <1>0, <1>3, OtherWorkers
  <2> QED
    BY <1>1, <1>2, <1>3, <2>1 DEF Settled
<1>4. CASE UNCHANGED workers
  BY <1>1, <1>4 DEF Settled
<1> QED
  BY <1>3, <1>4, DeployFrame DEF deployVars, Mine, PublishStep, PublishTask, PublishUnconfirmed

LEMMA StatusReadStep ==
    ASSUME IInv, StatusRead, [Next]_vars
    PROVE  StatusRead'
<1>0. RequestsTyped /\ \A c \in Ids : RowKept(c)
  BY RowsKept DEF IInv, Life
<1> DEFINE Reading(r) == /\ requests[r].pc \in {"commit", "discard", "publish"}
                         /\ requests[r].campaign \in Ids
                         /\ requests[r].status # "pending"
           Waits(r) == campaigns[requests[r].campaign].status = "pending"
<1>1. ASSUME NEW r \in Ids, Reading(r)', requests'[r].campaign = requests[r].campaign,
             requests'[r].status = requests[r].status,
             requests[r].pc \in {"commit", "discard", "publish"}
      PROVE  ~Waits(r)'
  BY <1>0, <1>1, ReadStored DEF StatusRead, RowKept
<1>2. ASSUME NEW r \in Ids, RequestStep(r), Reading(r)'
      PROVE  ~Waits(r)'
  <2>1. StatusMoves(r)
    BY <1>0, <1>2, RequestReads
  <2>2. CASE /\ requests'[r].campaign \in Ids
             /\ campaigns[requests'[r].campaign].status # "absent"
             /\ requests'[r].status = campaigns[requests'[r].campaign].status
    BY <1>0, <1>2, <2>2 DEF RowKept
  <2> QED
    BY <1>1, <1>2, <2>1, <2>2, NoneAssumption DEF StatusMoves
<1>3. ASSUME NEW r \in Ids, RequestStep(r)
      PROVE  StatusRead'
  <2>1. \A s \in Ids \ {r} : requests'[s] = requests[s]
    BY <1>0, <1>3, OtherRequests
  <2> QED
    BY <1>1, <1>2, <1>3, <2>1 DEF StatusRead
<1>4. CASE UNCHANGED requests
  BY <1>1, <1>4 DEF StatusRead
<1> QED
  BY <1>3, <1>4, RequestsElsewhere

(* The task of a request passes the checks of Handle. *)
LEMMA TaskValid ==
    ASSUME Consistent, IInv, NEW r \in Ids, requests[r].pc = "publish"
    PROVE  Valid(campaigns, TaskOf(r)) /\ TaskOf(r).campaign = requests[r].campaign
<1> DEFINE c == requests[r].campaign
<1>1. c \in Ids /\ campaigns[c].status # "absent" /\ campaigns[c].payload \in Payloads
  BY DEF IInv, Life, Answered, Resolved, KeyHolder, Rows
<1>2. /\ campaigns[c].payload.goal \in Nat \ {0}
      /\ FormatRFC3339(campaigns[c].payload.endAt) = campaigns[c].payload.endAt
      /\ ApiChainID = DeployerChainID /\ ApiChainID \in Nat \ {0}
  BY <1>1, ConstantsAssumption DEF Consistent, Payload
<1> QED
  BY <1>1, <1>2 DEF TaskOf, Valid, Decodable, deploymentTaskMatchesCampaign

(* The broker gives up a delivery only when a handler acknowledges it. *)
LEMMA OutstandingKept ==
    ASSUME IInv, [Next]_vars, NEW m \in Outstanding
    PROVE  \/ m \in Outstanding'
           \/ \E w \in Workers : workers[w].pc = "ack" /\ unacked[w] = m
<1>0. WorkersTyped /\ QueueTypeOK /\ None \notin ready
  BY NoneAssumption DEF IInv, Deployers, QueueTypeOK
<1>1. m # None /\ (m \in ready \/ \E w \in Workers : unacked[w] = m)
  BY <1>0 DEF Outstanding
<1>2. ASSUME NEW w \in Workers, WorkerStep(w) \/ WorkerFault(w)
      PROVE  \/ m \in Outstanding'
             \/ \E v \in Workers : workers[v].pc = "ack" /\ unacked[v] = m
  <2>1. unacked \in [Workers -> Message \cup {None}]
    BY <1>0 DEF QueueTypeOK
  <2>2. ASSUME NEW n \in ready, Deliver(w, n)
        PROVE  m \in Outstanding'
    BY <1>1, <2>1, <2>2 DEF Deliver, Outstanding
  <2>3. CASE workers[w].pc = "ack" /\ AckDelivery(w)
    BY <1>1, <2>1, <2>3 DEF AckDelivery, Outstanding
  <2>4. CASE Requeue(w)
    BY <1>1, <2>1, <2>4 DEF Requeue, Outstanding
  <2>5. CASE UNCHANGED queueVars
    BY <2>5 DEF queueVars, Outstanding
  <2> QED
    BY <1>0, <1>2, <2>2, <2>3, <2>4, <2>5, WorkerMoves DEF QueueMoves
<1>3. ASSUME NEW r \in Ids, PublishStep(r)
      PROVE  m \in Outstanding'
  BY <1>3 DEF PublishStep, PublishTask, PublishUnconfirmed, Enqueue, queueVars, Outstanding
<1>4. CASE UNCHANGED <<ready, unacked>>
  BY <1>4 DEF Outstanding
<1> QED
  BY <1>2, <1>3, <1>4, DeployFrame DEF deployVars, Mine, queueVars

LEMMA TaskHeldStep ==
    ASSUME Consistent, IInv, TermsInv, TasksInv, [Next]_vars
    PROVE  TaskHeld'
<1>0. RequestsTyped /\ StoreTypeOK /\ now \in Nat /\ \A c \in Ids : RowKept(c)
  BY RowsKept DEF IInv, Life, Surroundings
<1> DEFINE Held(c) == \E m \in Outstanding : m.task.campaign = c /\ Valid(campaigns, m.task)
<1>1. ASSUME NEW r \in Ids, requests'[r] = requests[r], requests'[r].outcome = "created",
             campaigns'[requests'[r].campaign].status = "pending"
      PROVE  Held(requests[r].campaign)'
  <2> DEFINE c == requests[r].campaign
  <2>1. c \in Ids /\ campaigns[c].status # "absent"
    BY <1>0, <1>1, OutcomesAssumption DEF RequestsTyped, RequestShape, RequestOK, Outcomes,
       IInv, Life, Answered, Resolved, KeyHolder
  <2>2. campaigns[c].status = "pending"
    BY <1>0, <1>1, <2>1 DEF RowKept
  <2>3. PICK m \in Outstanding : m.task.campaign = c /\ Valid(campaigns, m.task)
    BY <1>1, <2>2 DEF TasksInv, TaskHeld
  <2>4. ~ \E w \in Workers : workers[w].pc = "ack" /\ unacked[w] = m
    <3> SUFFICES ASSUME NEW w \in Workers, workers[w].pc = "ack", unacked[w] = m
                 PROVE  FALSE
      OBVIOUS
    <3>1. m # None
      BY NoneAssumption DEF Outstanding, IInv, Deployers, QueueTypeOK
    <3>2. task(w) = m.task
      BY <3>1 DEF TasksInv, Delivered, task
    <3> QED
      BY <2>2, <2>3, <3>2 DEF TasksInv, Settled
  <2>5. m \in Outstanding' /\ Valid(campaigns', m.task)
    BY <1>0, <2>3, <2>4, OutstandingKept, TaskKept
  <2> QED
    BY <1>1, <2>3, <2>5
<1>2. ASSUME NEW r \in Ids, RequestStep(r), requests'[r].outcome = "created",
             campaigns'[requests'[r].campaign].status = "pending"
      PROVE  Held(requests[r].campaign)'
  <2> DEFINE m == [id |-> r, task |-> TaskOf(r)]
  <2>1. PublishTask(r) /\ requests[r].pc = "publish"
    BY <1>0, <1>2, CreatedMoves DEF PublishTask
  <2>2. /\ UNCHANGED campaigns /\ requests'[r].campaign = requests[r].campaign
        /\ requests[r].campaign \in Ids
    BY <1>0, <2>1, AnswerMoves DEF PublishTask, storeVars, IInv, Life, Answered, Resolved
  <2>3. needsCampaignDeployment(r)
    BY <1>2, <2>1, <2>2 DEF needsCampaignDeployment, TasksInv, StatusRead
  <2>4. m \in ready' /\ m.task = TaskOf(r)
    BY <2>1, <2>3 DEF PublishTask, Enqueue
  <2>5. Valid(campaigns', m.task) /\ m.task.campaign = requests'[r].campaign
    BY <2>1, <2>2, <2>4, TaskValid
  <2> HIDE DEF m
  <2>6. m \in Outstanding'
    BY <2>4 DEF Outstanding
  <2> QED
    BY <2>5, <2>6
<1>3. ASSUME NEW r \in Ids, RequestStep(r)
      PROVE  TaskHeld'
  <2>1. \A s \in Ids \ {r} : requests'[s] = requests[s]
    BY <1>0, <1>3, OtherRequests
  <2> QED
    BY <1>1, <1>2, <1>3, <2>1 DEF TaskHeld
<1>4. CASE UNCHANGED requests
  BY <1>1, <1>4 DEF TaskHeld
<1> QED
  BY <1>3, <1>4, RequestsElsewhere

LEMMA InitTasks == Init => TasksInv
  BY OutcomesAssumption
  DEF Init, QueueInit, TasksInv, Delivered, Settled, StatusRead, TaskHeld, NoRequest, Idle, Outcomes

LEMMA TasksInvariance ==
    ASSUME Consistent
    PROVE  Spec => []TasksInv
<1>1. IInv /\ TermsInv /\ TasksInv /\ [Next]_vars => TasksInv'
  BY DeliveredStep, SettledStep, StatusReadStep, TaskHeldStep DEF TasksInv
<1> QED
  BY <1>1, InitTasks, Invariance, TermsInvariance, PTL DEF Spec

(* Between the confirmed publish and the deployment the broker always      *)
(* holds a task for the campaign, through every crash, lost connection and *)
(* failed step of any number of deployers.  It takes one configuration of  *)
(* both processes and ends in whole seconds: a task that disagrees with    *)
(* its campaign is acknowledged and gone.                                  *)
THEOREM AcceptedTaskHeld ==
    ASSUME Consistent
    PROVE  Spec => []AcceptedCampaignHasTask
<1>1. TasksInv => AcceptedCampaignHasTask
  BY DEF TasksInv, TaskHeld, AcceptedCampaignHasTask
<1> QED
  BY <1>1, TasksInvariance, PTL

-----------------------------------------------------------------------------
(***************************************************************************)
(* A repeated request is answered with the campaign it repeats.            *)
(***************************************************************************)
LEMMA WalletsUniqueStep ==
    ASSUME IInv, WalletsUnique, [Next]_vars
    PROVE  WalletsUnique'
<1>0. users \in [Accounts -> {"none", "live", "deleted"}]
  BY DEF IInv, Life, StoreTypeOK
<1>1. CASE UNCHANGED users
  BY <1>1 DEF WalletsUnique
<1>2. ASSUME NEW a \in Accounts, Register(a)
      PROVE  WalletsUnique'
  BY <1>0, <1>2 DEF Register, RegisterFundraiser, LiveAccounts, WalletsUnique
<1>3. ASSUME NEW a \in Accounts, CommitDeletion(a)
      PROVE  WalletsUnique'
  BY <1>0, <1>3 DEF CommitDeletion, SoftDelete, WalletsUnique
<1>4. ASSUME NEW a \in Accounts, LockForDeletion(a) \/ RollbackDeletion(a)
      PROVE  UNCHANGED users
  BY <1>4 DEF LockForDeletion, RollbackDeletion, storeVars
<1>5. RowStep => UNCHANGED users
  BY DEF RowStep, Complete, CompleteUnconfirmed, CompleteDeployment, Close, CloseCampaign, storeVars
<1> QED
  BY <1>1, <1>2, <1>3, <1>4, <1>5, LifeFrame, RequestFrame DEF ProfileStep, lifeVars

(* A promoted image stays. *)
LEMMA CanonicalKept == [Next]_vars => canonical \subseteq canonical'
  BY SurroundingsFrame DEF CopyStaging, DiscardStaging, Upload, ExpireStaging, Tick

(* A request reaches its transaction with a promoted image. *)
LEMMA PromotesFirst ==
    ASSUME RequestsTyped, NEW r \in Ids, RequestStep(r), requests'[r].pc \in {"lock", "commit"}
    PROVE  /\ requests[r].pc # "idle"
           /\ requests[r].pc = "lock" \/ requests[r].payload.image \in canonical'
<1>0. requests \in [Ids -> Request] /\ requests[r] \in Request
  BY DEF RequestsTyped
<1>1. CASE StatCanonical(r)
  BY <1>0, <1>1 DEF StatCanonical, Request
<1>2. CASE CopyStaging(r)
  BY <1>2, AnswerMoves DEF CopyStaging
<1>3. ASSUME NEW w \in Wallets, NEW k \in Keys, NEW p \in Payloads, BeginCreate(r, w, k, p)
      PROVE  FALSE
  BY <1>0, <1>3 DEF BeginCreate, Request
<1>4. CASE LockFundraiser(r)
  BY <1>4 DEF LockFundraiser
<1>5. CASE ReplayCampaign(r) \/ InsertPending(r) \/ DiscardStaging(r)
  BY <1>5, RequestMoves
  DEF ReplayCampaign, InsertPending, Inserting, DiscardStaging, Unresolved, LockFundraiser, ReplayedAs,
      InsertedAs, InsertUnconfirmed, Returned, Publishing
<1>6. ASSUME NEW o, Answer(r, o)
      PROVE  FALSE
  BY <1>6, AnswerMoves
<1> QED
  BY <1>1, <1>2, <1>3, <1>4, <1>5, <1>6
  DEF RequestStep, CreateStep, CreateFault, FundraiserNotFound, RefuseTooSoon,
      InsertUnconfirmed, PublishTask, PublishUnconfirmed, RequestFails

(* A row appears when the request whose id it has inserts it. *)
LEMMA InsertsOwn ==
    ASSUME IInv, [Next]_vars, NEW c \in Ids,
           campaigns[c].status = "absent", campaigns'[c].status # "absent"
    PROVE  Inserting(c) /\ Insert(c)
<1>0. campaigns \in [Ids -> CampaignRow]
  BY DEF IInv, Life, StoreTypeOK
<1>1. ASSUME NEW r \in Ids, RequestStep(r)
      PROVE  Inserting(c) /\ Insert(c)
  <2>1. Inserting(r) /\ Insert(r)
    BY <1>1, RequestFrame DEF InsertPending, InsertUnconfirmed, storeVars
  <2>2. r = c
    BY <1>0, <2>1 DEF Insert, InsertCampaign
  <2> QED
    BY <2>1, <2>2
<1>2. ASSUME NEW a \in Accounts, ProfileStep(a)
      PROVE  UNCHANGED campaigns
  BY <1>2 DEF ProfileStep, Register, RegisterFundraiser, LockForDeletion, CommitDeletion,
     SoftDelete, RollbackDeletion, storeVars
<1>3. ASSUME NEW w \in Workers, Complete(w) \/ CompleteUnconfirmed(w)
      PROVE  campaigns'[c] = campaigns[c]
  BY <1>0, <1>3 DEF Complete, CompleteUnconfirmed, CompleteDeployment, storeVars
<1>4. ASSUME NEW d \in Ids, Close(d)
      PROVE  campaigns'[c] = campaigns[c]
  BY <1>0, <1>4 DEF Close, CloseCampaign
<1> QED
  BY <1>1, <1>2, <1>3, <1>4, LifeFrame DEF RowStep, lifeVars

LEMMA PromotedStep ==
    ASSUME IInv, Promoted, [Next]_vars
    PROVE  Promoted'
<1>0. RequestsTyped /\ canonical \subseteq canonical' /\ \A c \in Ids : RowKept(c)
  BY RowsKept, CanonicalKept DEF IInv, Life
<1>1. ASSUME NEW r \in Ids, RequestStep(r), requests'[r].pc \in {"lock", "commit"}
      PROVE  requests'[r].payload.image \in canonical'
  BY <1>0, <1>1, PromotesFirst, RequestKeeps DEF Promoted
<1>2. \A r \in Ids : requests'[r].pc \in {"lock", "commit"}
                       => requests'[r].payload.image \in canonical'
  BY <1>0, <1>1, RequestsElsewhere, OtherRequests DEF Promoted
<1>3. ASSUME NEW c \in Ids, campaigns[c].status # "absent"
      PROVE  campaigns'[c].payload.image \in canonical'
  BY <1>0, <1>3 DEF RowKept, Promoted
<1>4. ASSUME NEW c \in Ids, campaigns[c].status = "absent", campaigns'[c].status # "absent"
      PROVE  campaigns'[c].payload.image \in canonical'
  <2>1. Inserting(c) /\ Insert(c)
    BY <1>4, InsertsOwn
  <2>2. campaigns'[c].payload = requests[c].payload
    BY <2>1 DEF Insert, InsertCampaign, IInv, Life, StoreTypeOK
  <2> QED
    BY <1>0, <2>1, <2>2 DEF Inserting, Promoted
<1> QED
  BY <1>2, <1>3, <1>4 DEF Promoted

(* The lock of a replay finds the open campaign it repeats. *)
LEMMA LockedOriginal ==
    ASSUME IInv, TermsInv, ReplayInv, NEW r \in Ids, NEW c \in Ids, ReplayOK(r, c), IsOpen(c)
    PROVE  /\ campaigns[c].fundraiser \in LiveAccounts(requests[r].wallet)
           /\ requests[r].pc = "commit" => requests[r].campaign = c
<1>1. /\ campaigns[c].fundraiser \in Accounts /\ users[campaigns[c].fundraiser] = "live"
      /\ WalletOf[campaigns[c].fundraiser] = requests[r].wallet
  BY DEF IInv, Life, Rows, NoOrphanedCampaign, ReplayOK, IsOpen
<1>2. ASSUME requests[r].pc = "commit"
      PROVE  requests[r].campaign = c
  <2>1. /\ requests[r].account \in Accounts /\ users[requests[r].account] = "live"
        /\ WalletOf[requests[r].account] = requests[r].wallet
    BY <1>2 DEF IInv, Life, Locks, TermsInv, RequestWallets
  <2>2. requests[r].account = campaigns[c].fundraiser
    BY <1>1, <2>1 DEF ReplayInv, WalletsUnique
  <2>3. KeyHolder(r, c)
    BY <2>2 DEF ReplayOK, KeyHolder
  <2>4. requests[r].campaign \in Ids /\ KeyHolder(r, requests[r].campaign)
    BY <1>2, <2>3 DEF IInv, Life, Found
  <2> QED
    BY <2>3, <2>4 DEF KeyHolder, IInv, Life, KeysUnique, Stored
<1> QED
  BY <1>1, <1>2 DEF LiveAccounts

(* A replay is neither sent for its image nor refused while what it        *)
(* repeats is open.                                                        *)
LEMMA ReplayMoves ==
    ASSUME IInv, TermsInv, ReplayInv, NEW r \in Ids, RequestStep(r), requests[r].pc # "idle",
           NEW c \in Ids, ReplayOK(r, c)
    PROVE  /\ requests'[r].pc \notin {"idle", "copy"}
           /\ IsOpen(c) =>
                /\ requests'[r].pc \in {"discard", "publish"} => requests'[r].campaign = c
                /\ requests'[r].pc = "done" =>
                      \/ requests'[r].outcome = "failed"
                      \/ requests'[r].outcome = "created" /\ requests'[r].campaign = c
<1> DEFINE Goal ==
           /\ requests'[r].pc \notin {"idle", "copy"}
           /\ IsOpen(c) =>
                /\ requests'[r].pc \in {"discard", "publish"} => requests'[r].campaign = c
                /\ requests'[r].pc = "done" =>
                      \/ requests'[r].outcome = "failed"
                      \/ requests'[r].outcome = "created" /\ requests'[r].campaign = c
<1>0. /\ RequestsTyped
      /\ requests \in [Ids -> Request] /\ requests[r] \in Request
  BY DEF IInv, Life, RequestsTyped
<1>1. IsOpen(c) => /\ campaigns[c].fundraiser \in LiveAccounts(requests[r].wallet)
                   /\ requests[r].pc = "commit" => requests[r].campaign = c
  BY LockedOriginal
<1>2. ASSUME NEW o, Answer(r, o), IsOpen(c) => o = "failed"
      PROVE  Goal
  BY <1>0, <1>2, AnswerMoves
<1>3. CASE StatCanonical(r)
  <2>1. requests[r].payload.image \in canonical
    BY DEF ReplayInv, Promoted, ReplayOK
  <2>2. requests'[r].pc = "lock"
    BY <1>0, <1>3, <2>1 DEF StatCanonical, Request
  <2> QED
    BY <2>2
<1>4. CASE CopyStaging(r)
  BY <1>4 DEF CopyStaging, ReplayOK
<1>5. CASE LockFundraiser(r)
  BY <1>0, <1>5, LockMoves DEF LockedAs
<1>6. CASE FundraiserNotFound(r)
  <2>1. ~IsOpen(c)
    BY <1>1, <1>6 DEF FundraiserNotFound
  <2> QED
    BY <1>2, <1>6, <2>1 DEF FundraiserNotFound
<1>7. CASE ReplayCampaign(r)
  <2>1. /\ requests[r].pc = "commit"
        /\ Resolve(r, requests[r].campaign, requests[r].status)
    BY <1>7 DEF ReplayCampaign
  <2>2. CASE IsOpen(c)
    <3> DEFINE q == [requests[r] EXCEPT !.pc = "discard", !.campaign = c,
                                        !.status = requests[r].status]
    <3>1. requests[r].campaign = c /\ campaigns[c].payload = requests[r].payload
      BY <1>1, <2>1, <2>2 DEF ReplayOK
    <3>2. requests'[r] = q
      BY <1>0, <2>1, <3>1 DEF Resolve, sameCampaignCreationPayload
    <3>3. requests'[r].pc = "discard" /\ requests'[r].campaign = c
      BY <1>0, <3>2 DEF Request
    <3> QED
      BY <3>3
  <2>3. CASE ~IsOpen(c)
    <3>1. requests'[r].pc \in {"discard", "done"}
      BY <1>0, <2>1, AnswerMoves DEF Resolve, Request
    <3> QED
      BY <2>3, <3>1
  <2> QED
    BY <2>2, <2>3
<1>8. CASE RefuseTooSoon(r)
  <2>1. ~IsOpen(c)
    BY <1>1, <1>8, NoneAssumption DEF RefuseTooSoon
  <2> QED
    BY <1>2, <1>8, <2>1 DEF RefuseTooSoon
<1>9. CASE InsertPending(r)
  <2>1. ~IsOpen(c)
    BY <1>1, <1>9, NoneAssumption DEF InsertPending, Inserting
  <2>2. requests'[r].pc \in {"discard", "done"}
    BY <1>0, <1>9, RequestMoves DEF InsertPending, Inserting, Unresolved, LockFundraiser, ReplayedAs,
       InsertedAs, Returned, Publishing
  <2> QED
    BY <2>1, <2>2
<1>10. CASE DiscardStaging(r)
  <2> DEFINE q == [requests[r] EXCEPT !.pc = "publish"]
  <2>1. requests'[r] = q /\ requests[r].pc = "discard"
    BY <1>0, <1>10 DEF DiscardStaging
  <2>2. requests'[r].pc = "publish" /\ requests'[r].campaign = requests[r].campaign
    BY <1>0, <2>1 DEF Request
  <2> QED
    BY <2>1, <2>2 DEF ReplayOK
<1>11. CASE PublishTask(r)
  <2>1. /\ requests'[r].pc = "done" /\ requests'[r].outcome = "created"
        /\ requests'[r].campaign = requests[r].campaign
    BY <1>0, <1>11, AnswerMoves DEF PublishTask
  <2> QED
    BY <1>11, <2>1 DEF PublishTask, ReplayOK
<1>12. CASE InsertUnconfirmed(r) \/ PublishUnconfirmed(r) \/ RequestFails(r)
  BY <1>2, <1>12 DEF InsertUnconfirmed, PublishUnconfirmed, RequestFails
<1> QED
  BY <1>3, <1>4, <1>5, <1>6, <1>7, <1>8, <1>9, <1>10, <1>11, <1>12
  DEF RequestStep, CreateStep, CreateFault, BeginCreate

LEMMA ReplaysStep ==
    ASSUME IInv, TermsInv, ReplayInv, [Next]_vars
    PROVE  Replays'
<1>0. RequestsTyped /\ \A c \in Ids : RowKept(c)
  BY RowsKept DEF IInv, Life
<1>1. ASSUME NEW r \in Ids, requests'[r] = requests[r], requests'[r].replayOf # None
      PROVE  ReplayOK(r, requests[r].replayOf)'
  BY <1>0, <1>1 DEF ReplayInv, Replays, ReplayOK, RowKept, IsOpen
<1>2. ASSUME NEW r \in Ids, RequestStep(r), requests[r].pc # "idle", requests'[r].replayOf # None
      PROVE  ReplayOK(r, requests[r].replayOf)'
  <2>1. /\ requests'[r].wallet = requests[r].wallet
        /\ requests'[r].key = requests[r].key
        /\ requests'[r].payload = requests[r].payload
        /\ requests'[r].replayOf = requests[r].replayOf
    BY <1>0, <1>2, RequestKeeps
  <2>2. PICK c \in Ids : c = requests[r].replayOf /\ ReplayOK(r, c)
    BY <1>2, <2>1 DEF ReplayInv, Replays, ReplayOK
  <2>3. /\ requests'[r].pc \notin {"idle", "copy"}
        /\ IsOpen(c) =>
             /\ requests'[r].pc \in {"discard", "publish"} => requests'[r].campaign = c
             /\ requests'[r].pc = "done" =>
                   \/ requests'[r].outcome = "failed"
                   \/ requests'[r].outcome = "created" /\ requests'[r].campaign = c
    BY <1>2, <2>2, ReplayMoves
  <2>4. IsOpen(c)' => IsOpen(c)
    BY <1>0, <2>2 DEF ReplayOK, RowKept, IsOpen
  <2>5. ReplayOK(r, c)'
    BY <1>0, <2>1, <2>2, <2>3, <2>4 DEF ReplayOK, RowKept
  <2> QED
    BY <2>1, <2>2, <2>5
<1>3. ASSUME NEW r \in Ids, NEW w \in Wallets, NEW k \in Keys, NEW p \in Payloads,
             BeginCreate(r, w, k, p), requests'[r].replayOf # None
      PROVE  ReplayOK(r, requests[r].replayOf)'
  <2> DEFINE same == {c \in Stored : /\ campaigns[c].fundraiser \in LiveAccounts(w)
                                     /\ campaigns[c].key = k
                                     /\ campaigns[c].payload = p}
             q == [requests[r] EXCEPT !.pc = "stat", !.wallet = w, !.key = k,
                                      !.payload = p, !.replayOf = Repeated(w, k, p)]
  <2>1. requests'[r] = q /\ UNCHANGED campaigns
    BY <1>0, <1>3 DEF BeginCreate, RequestsTyped, storeVars
  <2>2. /\ requests'[r].pc = "stat" /\ requests'[r].wallet = w /\ requests'[r].key = k
        /\ requests'[r].payload = p /\ requests'[r].replayOf = Repeated(w, k, p)
    BY <1>0, <2>1 DEF RequestsTyped, Request
  <2>3. Repeated(w, k, p) \in same
    BY <1>3, <2>2 DEF Repeated
  <2> QED
    BY <2>1, <2>2, <2>3 DEF ReplayOK, Stored, LiveAccounts
<1>4. ASSUME NEW r \in Ids, RequestStep(r)
      PROVE  Replays'
  <2>1. \A s \in Ids \ {r} : requests'[s] = requests[s]
    BY <1>0, <1>4, OtherRequests
  <2>2. requests'[r].replayOf # None => ReplayOK(r, requests[r].replayOf)'
    <3>1. CASE requests[r].pc = "idle"
      <4>1. \E w \in Wallets, k \in Keys, p \in Payloads : BeginCreate(r, w, k, p)
        BY <1>4, <3>1 DEF RequestStep, CreateStep, CreateFault, StatCanonical, CopyStaging,
           LockFundraiser, FundraiserNotFound, ReplayCampaign, RefuseTooSoon, InsertPending,
           Inserting, DiscardStaging, PublishTask, InsertUnconfirmed, PublishUnconfirmed, RequestFails
      <4> QED
        BY <1>3, <4>1
    <3> QED
      BY <1>2, <1>4, <3>1
  <2> QED
    BY <1>1, <2>1, <2>2 DEF Replays
<1>5. CASE UNCHANGED requests
  BY <1>1, <1>5 DEF Replays
<1> QED
  BY <1>4, <1>5, RequestsElsewhere

LEMMA InitReplays == Init => ReplayInv
  BY DEF Init, StoreInit, ReplayInv, WalletsUnique, Promoted, Replays, NoRequest, NoRow

LEMMA ReplayInvariance == Spec => []ReplayInv
<1>1. IInv /\ TermsInv /\ ReplayInv /\ [Next]_vars => ReplayInv'
  BY WalletsUniqueStep, PromotedStep, ReplaysStep DEF ReplayInv
<1> QED
  BY <1>1, InitReplays, Invariance, TermsInvariance, PTL DEF Spec

(* "A failed publish still leaves the saved campaign retryable": Create    *)
(* answers a retry with the stored campaign while that is open, although   *)
(* the staged image is gone, the end has come closer than the lead time    *)
(* and other requests run at the same time.                                *)
THEOREM ReplaysHonoured == Spec => []ReplayNotRefused
<1>1. ReplayInv => ReplayNotRefused
  BY DEF ReplayInv, Replays, ReplayOK, IsOpen, ReplayNotRefused
<1> QED
  BY <1>1, ReplayInvariance, PTL
=============================================================================
