---------------------- MODULE CampaignDeploymentProofs ----------------------
(***************************************************************************)
(* Proofs about CampaignDeployment for every number of requests, wallets,  *)
(* accounts, keys, payloads, deployers and transactions, and every bound.  *)
(***************************************************************************)
EXTENDS CampaignDeployment, FiniteSetTheorems, TLAPS

(***************************************************************************)
(* The inductive invariant.                                                *)
(***************************************************************************)

(* The fields of a request its program counter entitles it to use. *)
RequestOK(q) ==
    /\ q.pc # "idle" => /\ q.wallet \in Wallets
                        /\ q.key \in Keys
                        /\ q.payload \in Payloads
    /\ q.outcome # None => q.pc = "done"
    /\ q.pc \in {"idle", "stat", "copy", "lock"} => q.campaign = None

RequestShape == \A r \in Ids : RequestOK(requests[r])

(* The fields of a worker its program counter entitles it to use. *)
WorkerOK(v) ==
    /\ v.pc # "idle" => v.msg \in Message
    /\ v.pc \in {"deploy", "send", "wait", "complete"} => v.msg.task.campaign \in Ids
    /\ v.pc = "wait" => v.deployment \in TxIds
    /\ v.pc = "complete" => v.deployment \in Deployments

WorkerShape == \A w \in Workers : WorkerOK(workers[w])

(* Row locks exclude each other, and what was read under one stays true.   *)
Locks ==
    /\ \A r \in Ids : requests[r].pc = "commit" =>
          /\ requests[r].account \in Accounts
          /\ users[requests[r].account] = "live"
          /\ requests[r].account \notin deleting
    /\ \A r, s \in Ids :
          /\ requests[r].pc = "commit" /\ requests[s].pc = "commit"
          /\ requests[r].account = requests[s].account
          => r = s
    /\ \A a \in deleting : users[a] = "live" /\ ~hasActiveCampaign(a)

(* A row is written once, by the request whose id it has. *)
Rows ==
    \A c \in Ids :
        /\ campaigns[c].status = "absent" => campaigns[c] = NoRow
        /\ campaigns[c].status # "absent" =>
              /\ campaigns[c].fundraiser \in Accounts
              /\ campaigns[c].key \in Keys
              /\ campaigns[c].payload \in Payloads
              /\ requests[c].pc \in {"discard", "publish", "done"}
        /\ campaigns[c].status = "pending" => campaigns[c].contract = None
        /\ campaigns[c].contract # None => campaigns[c].contract \in events

(* The unique index on (fundraiser_id, idempotency_key). *)
KeysUnique ==
    \A c, d \in Stored :
        /\ campaigns[c].fundraiser = campaigns[d].fundraiser
        /\ campaigns[c].key = campaigns[d].key
        => c = d

(* Row c is stored under the key of request r. *)
KeyHolder(r, c) == /\ campaigns[c].status # "absent"
                   /\ campaigns[c].fundraiser = requests[r].account
                   /\ campaigns[c].key = requests[r].key

(* What a request read under its lock still holds: nothing or one row. *)
Found ==
    \A r \in Ids : requests[r].pc = "commit" =>
        IF requests[r].campaign = None
          THEN \A c \in Ids : ~KeyHolder(r, c)
          ELSE requests[r].campaign \in Ids /\ KeyHolder(r, requests[r].campaign)

(* A resolved request names the row of its key, with its own payload. *)
Answered ==
    \A r \in Ids : Resolved(r) =>
        /\ requests[r].campaign \in Ids
        /\ KeyHolder(r, requests[r].campaign)
        /\ campaigns[requests[r].campaign].payload = requests[r].payload

RequestsTyped == requests \in [Ids -> Request] /\ RequestShape
WorkersTyped == workers \in [Workers -> Worker] /\ WorkerShape

(* The invariant, split by the steps that can disturb its parts. *)
Life == /\ StoreTypeOK /\ RequestsTyped /\ deleting \subseteq Accounts
        /\ Locks /\ Rows /\ KeysUnique /\ Found /\ Answered /\ NoOrphanedCampaign
Deployers == QueueTypeOK /\ ChainTypeOK /\ WorkersTyped
Surroundings == /\ staging \subseteq Images /\ canonical \subseteq Images
                /\ now \in Nat /\ faults \in Nat

IInv == Life /\ Deployers /\ Surroundings

-----------------------------------------------------------------------------
(***************************************************************************)
(* Which steps touch which part of the state.                              *)
(***************************************************************************)

(* The steps of the create requests. *)
RequestStep(r) ==
    \/ \E w \in Wallets, k \in Keys, p \in Payloads : BeginCreate(r, w, k, p)
    \/ CreateStep(r) \/ CreateFault(r)

(* The steps that complete a deployment, close a campaign, or register and *)
(* delete a profile.                                                       *)
RowStep == \/ \E w \in Workers : Complete(w) \/ CompleteUnconfirmed(w)
           \/ \E c \in Ids : Close(c)

ProfileStep(a) ==
    Register(a) \/ LockForDeletion(a) \/ CommitDeletion(a) \/ RollbackDeletion(a)

lifeVars == <<users, campaigns, events, requests, deleting>>

(* Every other step leaves the tables, requests and deletions alone. *)
LEMMA LifeFrame ==
    [Next]_vars => \/ \E r \in Ids : RequestStep(r)
                   \/ \E a \in Accounts : ProfileStep(a)
                   \/ RowStep
                   \/ UNCHANGED lifeVars
  BY ZenonT(60) DEF Next, Environment, WorkerStep, WorkerFault, RequestStep,
         ProfileStep, RowStep, lifeVars, vars, storeVars, apiVars,
         Upload, ExpireStaging, Tick, Receive, HandleTask, DeployStub,
         EstimateGas, SendTransaction, SendRejected, SendUnconfirmed, WaitMined, ConfirmTimeout, HandleFails,
         Ack, Nack, ConnectionLost, Crash, Mine

(* Requests do not touch profiles, events and deletions; campaigns only    *)
(* when they insert their own.                                             *)
LEMMA RequestFrame ==
    ASSUME NEW r \in Ids, RequestStep(r)
    PROVE  /\ UNCHANGED <<users, events, deleting>>
           /\ UNCHANGED campaigns \/ InsertPending(r) \/ InsertUnconfirmed(r)
  BY ZenonT(60) DEF RequestStep, CreateStep, CreateFault, storeVars, BeginCreate, StatCanonical,
         CopyStaging, LockFundraiser, FundraiserNotFound, ReplayCampaign,
         RefuseTooSoon, InsertPending, InsertUnconfirmed, Insert, InsertCampaign,
         DiscardStaging, PublishTask, PublishUnconfirmed, RequestFails

-----------------------------------------------------------------------------
(***************************************************************************)
(* The requests keep their type and shape.                                 *)
(***************************************************************************)
(* A request replaced by a well formed one leaves the requests typed. *)
LEMMA RequestUpdate ==
    ASSUME RequestsTyped, NEW r \in Ids, NEW q \in Request, RequestOK(q),
           requests' = [requests EXCEPT ![r] = q]
    PROVE  RequestsTyped'
  BY DEF RequestsTyped, RequestShape, RequestOK

LEMMA AnswerTypes ==
    ASSUME RequestsTyped, NEW r \in Ids, requests[r].pc # "idle",
           NEW o \in Outcomes, Answer(r, o)
    PROVE  RequestsTyped'
<1> DEFINE q == [requests[r] EXCEPT !.pc = "done", !.outcome = o]
<1>1. requests' = [requests EXCEPT ![r] = q]
  BY DEF Answer
<1>2. q \in Request /\ RequestOK(q)
  BY DEF RequestsTyped, RequestShape, RequestOK, Request
<1> QED
  BY <1>1, <1>2, RequestUpdate

(* A request that goes on to pc, having promoted its image. *)
LEMMA PromotedTypes ==
    ASSUME RequestsTyped, NEW r \in Ids, requests[r].pc \in {"stat", "copy"},
           now \in Nat,
           requests' = [requests EXCEPT ![r].pc = "lock",
                                        ![r].minimumEndAt = now + LeadTime]
    PROVE  RequestsTyped'
<1> DEFINE q == [requests[r] EXCEPT !.pc = "lock", !.minimumEndAt = now + LeadTime]
<1>1. requests' = [requests EXCEPT ![r] = q]
  OBVIOUS
<1>2. now + LeadTime \in Nat
  BY ConstantsAssumption
<1>3. q \in Request /\ RequestOK(q)
  BY <1>2 DEF RequestsTyped, RequestShape, RequestOK, Request
<1> QED
  BY <1>1, <1>3, RequestUpdate

(* A request that CreatePending answers with campaign c. *)
LEMMA ReturnedTypes ==
    ASSUME RequestsTyped, NEW r \in Ids, requests[r].pc = "commit",
           NEW c \in Ids, NEW s \in {"absent", "pending", "active", "closed"},
           requests' = [requests EXCEPT ![r].pc = "discard", ![r].campaign = c,
                                        ![r].status = s]
    PROVE  RequestsTyped'
<1> DEFINE q == [requests[r] EXCEPT !.pc = "discard", !.campaign = c, !.status = s]
<1>1. requests' = [requests EXCEPT ![r] = q]
  OBVIOUS
<1>2. q \in Request /\ RequestOK(q)
  BY DEF RequestsTyped, RequestShape, RequestOK, Request
<1> QED
  BY <1>1, <1>2, RequestUpdate

LEMMA RequestTypes ==
    ASSUME StoreTypeOK, now \in Nat, RequestsTyped, NEW r \in Ids, RequestStep(r)
    PROVE  RequestsTyped'
<1>0. \A c \in Ids : campaigns[c].status \in {"absent", "pending", "active", "closed"}
  BY DEF StoreTypeOK, CampaignRow
<1>1. ASSUME NEW w \in Wallets, NEW k \in Keys, NEW p \in Payloads,
             BeginCreate(r, w, k, p)
      PROVE  RequestsTyped'
  <2> DEFINE q == [requests[r] EXCEPT !.pc = "stat", !.wallet = w, !.key = k,
                                      !.payload = p, !.replayOf = Repeated(w, k, p)]
  <2>1. requests' = [requests EXCEPT ![r] = q] /\ requests[r].pc = "idle"
    BY <1>1 DEF BeginCreate
  <2>2. Repeated(w, k, p) \in Ids \cup {None}
    BY DEF Repeated, Stored
  <2>3. q \in Request /\ RequestOK(q)
    BY <2>1, <2>2 DEF RequestsTyped, RequestShape, RequestOK, Request
  <2> QED
    BY <2>1, <2>3, RequestUpdate
<1>2. CASE StatCanonical(r)
  <2> DEFINE q == [requests[r] EXCEPT !.pc = "copy"]
  <2>1. CASE requests' = [requests EXCEPT ![r].pc = "copy"]
    <3>1. requests' = [requests EXCEPT ![r] = q]
      BY <2>1
    <3>2. q \in Request /\ RequestOK(q)
      BY <1>2 DEF StatCanonical, RequestsTyped, RequestShape, RequestOK, Request
    <3> QED
      BY <3>1, <3>2, RequestUpdate
  <2> QED
    BY <1>2, <2>1, PromotedTypes DEF StatCanonical
<1>3. CASE CopyStaging(r)
  BY <1>3, PromotedTypes, AnswerTypes DEF CopyStaging, Outcomes
<1>4. CASE LockFundraiser(r)
  <2>1. PICK a \in Accounts :
          LET found == findCampaignByIdempotencyKey(a, requests[r].key) IN
          requests' = IF found = {}
            THEN [requests EXCEPT ![r].pc = "commit", ![r].account = a]
            ELSE LET c == CHOOSE c \in found : TRUE IN
                 [requests EXCEPT ![r].pc = "commit", ![r].account = a,
                                  ![r].campaign = c,
                                  ![r].status = campaigns[c].status]
    BY <1>4 DEF LockFundraiser, LiveAccounts
  <2>0. requests[r].pc = "lock"
    BY <1>4 DEF LockFundraiser
  <2> DEFINE found == findCampaignByIdempotencyKey(a, requests[r].key)
             p == [requests[r] EXCEPT !.pc = "commit", !.account = a]
             c == CHOOSE c \in found : TRUE
             q == [requests[r] EXCEPT !.pc = "commit", !.account = a,
                                      !.campaign = c, !.status = campaigns[c].status]
  <2>2. found = {} \/ c \in Ids
    BY DEF findCampaignByIdempotencyKey, Stored
  <2>3. CASE found = {}
    <3>1. requests' = [requests EXCEPT ![r] = p]
      BY <2>1, <2>3
    <3>2. p \in Request /\ RequestOK(p)
      BY <2>0 DEF RequestsTyped, RequestShape, RequestOK, Request
    <3> QED
      BY <3>1, <3>2, RequestUpdate
  <2>4. CASE found # {}
    <3>1. requests' = [requests EXCEPT ![r] = q]
      BY <2>1, <2>4
    <3> HIDE DEF c
    <3>2. c \in Ids /\ campaigns[c].status \in {"absent", "pending", "active", "closed"}
      BY <1>0, <2>2, <2>4
    <3>3. q \in Request /\ RequestOK(q)
      BY <2>0, <3>2 DEF RequestsTyped, RequestShape, RequestOK, Request
    <3> QED
      BY <3>1, <3>3, RequestUpdate
  <2> QED
    BY <2>3, <2>4
<1>5. CASE FundraiserNotFound(r)
  BY <1>5, AnswerTypes DEF FundraiserNotFound, Outcomes
<1>6. CASE ReplayCampaign(r)
  <2>1. /\ requests[r].campaign \in Ids
        /\ requests[r].status \in {"absent", "pending", "active", "closed"}
    BY <1>6 DEF ReplayCampaign, RequestsTyped, Request
  <2> QED
    BY <1>6, <2>1, ReturnedTypes, AnswerTypes DEF ReplayCampaign, Resolve, Outcomes
<1>7. CASE RefuseTooSoon(r)
  BY <1>7, AnswerTypes DEF RefuseTooSoon, Outcomes
<1>8. CASE InsertPending(r)
  <2> DEFINE c == CHOOSE c \in Conflicting(r) : TRUE
  <2>1. CASE Conflicting(r) = {}
    BY <1>8, <2>1, ReturnedTypes DEF InsertPending, Inserting
  <2>2. CASE Conflicting(r) # {}
    <3>1. c \in Ids
      BY <2>2 DEF Conflicting, findCampaignByIdempotencyKey, Stored
    <3>2. Resolve(r, c, campaigns[c].status) /\ requests[r].pc = "commit"
      BY <1>8, <2>2 DEF InsertPending, Inserting
    <3> HIDE DEF c
    <3> QED
      BY <1>0, <3>1, <3>2, ReturnedTypes, AnswerTypes DEF Resolve, Outcomes
  <2> QED
    BY <2>1, <2>2
<1>9. CASE DiscardStaging(r)
  <2> DEFINE q == [requests[r] EXCEPT !.pc = "publish"]
  <2>1. requests' = [requests EXCEPT ![r] = q]
    BY <1>9 DEF DiscardStaging
  <2>2. q \in Request /\ RequestOK(q)
    BY <1>9 DEF DiscardStaging, RequestsTyped, RequestShape, RequestOK, Request
  <2> QED
    BY <2>1, <2>2, RequestUpdate
<1>10. CASE PublishTask(r)
  BY <1>10, AnswerTypes DEF PublishTask, Outcomes
<1>11. CASE InsertUnconfirmed(r)
  BY <1>11, AnswerTypes DEF InsertUnconfirmed, Inserting, Outcomes
<1>12. CASE PublishUnconfirmed(r)
  BY <1>12, AnswerTypes DEF PublishUnconfirmed, Outcomes
<1>13. CASE RequestFails(r)
  BY <1>13, AnswerTypes DEF RequestFails, Outcomes
<1> QED
  BY <1>1, <1>2, <1>3, <1>4, <1>5, <1>6, <1>7, <1>8, <1>9, <1>10, <1>11, <1>12, <1>13
  DEF RequestStep, CreateStep, CreateFault

-----------------------------------------------------------------------------
(***************************************************************************)
(* The deployers, the queue and the chain keep their types.                *)
(***************************************************************************)
LEMMA WorkerUpdate ==
    ASSUME WorkersTyped, NEW w \in Workers, NEW v \in Worker, WorkerOK(v),
           workers' = [workers EXCEPT ![w] = v]
    PROVE  WorkersTyped'
  BY DEF WorkersTyped, WorkerShape, WorkerOK

LEMMA IdleTypes ==
    ASSUME WorkersTyped, NEW w \in Workers, workers' = [workers EXCEPT ![w] = Idle]
    PROVE  WorkersTyped'
<1>1. Idle \in Worker /\ WorkerOK(Idle)
  BY DEF Idle, Worker, WorkerOK
<1> QED
  BY <1>1, WorkerUpdate

(* A busy worker may go on to any pc whose deployment it has. *)
LEMMA GotoTypes ==
    ASSUME WorkersTyped, NEW w \in Workers, workers[w].pc # "idle",
           NEW pc \in {"deploy", "send", "complete", "ack", "nack"},
           pc \in {"deploy", "send", "complete"} => task(w).campaign \in Ids,
           pc = "complete" => workers[w].deployment \in Deployments,
           Goto(w, pc)
    PROVE  WorkersTyped'
<1> DEFINE v == [workers[w] EXCEPT !.pc = pc]
<1>1. workers' = [workers EXCEPT ![w] = v]
  BY DEF Goto
<1>2. v \in Worker /\ WorkerOK(v)
  BY DEF WorkersTyped, WorkerShape, WorkerOK, Worker, task
<1> QED
  BY <1>1, <1>2, WorkerUpdate

(* A worker that has its deployment. *)
LEMMA DeployedTypes ==
    ASSUME WorkersTyped, NEW w \in Workers, workers[w].pc # "idle",
           task(w).campaign \in Ids, NEW d \in Deployments,
           NEW pc \in {"wait", "complete"}, pc = "wait" => d \in TxIds,
           workers' = [workers EXCEPT ![w].pc = pc, ![w].deployment = d]
    PROVE  WorkersTyped'
<1> DEFINE v == [workers[w] EXCEPT !.pc = pc, !.deployment = d]
<1>1. workers' = [workers EXCEPT ![w] = v]
  OBVIOUS
<1>2. v \in Worker /\ WorkerOK(v)
  BY DEF WorkersTyped, WorkerShape, WorkerOK, Worker, task
<1> QED
  BY <1>1, <1>2, WorkerUpdate

(* The nonces are numbers: the chain has finitely many transactions. *)
LEMMA NonceType == PendingNonce \in Nat
<1> DEFINE S == {t \in TxIds : txs[t].state \notin {"none", "replaced"}}
<1>1. IsFiniteSet(S)
  BY TxIdsAssumption, FS_Subset
<1> QED
  BY <1>1, FS_CardinalityType DEF PendingNonce

LEMMA AcceptTypes ==
    ASSUME ChainTypeOK, NEW t \in TxIds, NEW n \in Nat, NEW k \in Task,
           AcceptTransaction(t, n, k)
    PROVE  ChainTypeOK'
<1>1. [state |-> "pending", nonce |-> n, task |-> k] \in Transaction
  BY DEF Transaction
<1>2. ASSUME NEW u \in TxIds
      PROVE  txs[u] \in Transaction /\ [txs[u] EXCEPT !.state = "replaced"] \in Transaction
  BY DEF ChainTypeOK, Transaction
<1> QED
  BY <1>1, <1>2 DEF AcceptTransaction, ChainTypeOK

LEMMA RequeueTypes ==
    ASSUME QueueTypeOK, NEW w \in Workers, Requeue(w)
    PROVE  QueueTypeOK'
  BY DEF QueueTypeOK, Requeue

(* The step of a deployer keeps the queue, the chain and its handler typed. *)
LEMMA WorkerTypes ==
    ASSUME QueueTypeOK, ChainTypeOK, WorkersTyped, NEW w \in Workers,
           WorkerStep(w) \/ WorkerFault(w)
    PROVE  QueueTypeOK' /\ ChainTypeOK' /\ WorkersTyped'
<1>0. /\ workers[w].pc # "idle" => workers[w].msg \in Message
      /\ workers[w].pc \in {"deploy", "send", "wait", "complete"} => task(w).campaign \in Ids
      /\ workers[w].pc = "wait" => workers[w].deployment \in TxIds
      /\ workers[w].pc = "complete" => workers[w].deployment \in Deployments
  BY DEF WorkersTyped, WorkerShape, WorkerOK, task
<1>a. UNCHANGED queueVars => QueueTypeOK'
  BY DEF queueVars, QueueTypeOK
<1>b. UNCHANGED txs => ChainTypeOK'
  BY DEF ChainTypeOK
<1>c. TxIds \subseteq Deployments /\ \A c \in Ids : StubTx(c) \in Deployments
  BY DEF Deployments
<1>d. ASSUME NEW t \in TxIds, AcceptTransaction(t, workers[w].nonce, task(w)),
             workers[w].pc = "send"
      PROVE  ChainTypeOK'
  <2>1. task(w) \in Task /\ workers[w].nonce \in Nat
    BY <1>0, <1>d DEF Message, task, WorkersTyped, Worker
  <2> QED
    BY <1>d, <2>1, AcceptTypes
<1>1. ASSUME NEW m \in ready, Receive(w, m)
      PROVE  QueueTypeOK' /\ ChainTypeOK' /\ WorkersTyped'
  <2> DEFINE v == [workers[w] EXCEPT !.pc = "handle", !.msg = m]
  <2>1. m \in Message /\ QueueTypeOK'
    BY <1>1 DEF Receive, Deliver, QueueTypeOK
  <2>2. workers' = [workers EXCEPT ![w] = v]
    BY <1>1 DEF Receive
  <2>3. v \in Worker /\ WorkerOK(v)
    BY <2>1 DEF WorkersTyped, WorkerShape, WorkerOK, Worker
  <2> QED
    BY <1>1, <1>b, <2>1, <2>2, <2>3, WorkerUpdate DEF Receive
<1>2. CASE HandleTask(w)
  <2>1. Deployable(task(w)) => task(w).campaign \in Ids
    BY DEF Deployable, Stored
  <2> QED
    BY <1>2, <1>a, <1>b, <2>1, GotoTypes DEF HandleTask
<1>3. CASE DeployStub(w)
  BY <1>3, <1>0, <1>a, <1>b, <1>c, DeployedTypes DEF DeployStub
<1>4. CASE EstimateGas(w)
  <2> DEFINE v == [workers[w] EXCEPT !.pc = "send", !.nonce = PendingNonce]
  <2>1. CASE Goto(w, "nack")
    BY <1>4, <1>a, <1>b, <2>1, GotoTypes DEF EstimateGas
  <2>2. CASE workers' = [workers EXCEPT ![w].pc = "send", ![w].nonce = PendingNonce]
    <3>1. workers' = [workers EXCEPT ![w] = v]
      BY <2>2
    <3>2. workers[w].pc = "deploy"
      BY <1>4 DEF EstimateGas
    <3>3. v \in Worker /\ WorkerOK(v)
      BY <1>0, <3>2, NonceType DEF WorkersTyped, WorkerShape, WorkerOK, Worker, task
    <3> QED
      BY <1>4, <1>a, <1>b, <3>1, <3>3, WorkerUpdate DEF EstimateGas
  <2> QED
    BY <1>4, <2>1, <2>2 DEF EstimateGas
<1>5. CASE SendTransaction(w)
  BY <1>5, <1>0, <1>a, <1>c, <1>d, DeployedTypes DEF SendTransaction
<1>6. CASE SendUnconfirmed(w)
  BY <1>6, <1>0, <1>a, <1>d, GotoTypes DEF SendUnconfirmed
<1>7. CASE WaitMined(w)
  BY <1>7, <1>0, <1>a, <1>b, <1>c, GotoTypes DEF WaitMined
<1>8. CASE Complete(w)
  BY <1>8, <1>a, <1>b, GotoTypes DEF Complete
<1>9. CASE CompleteUnconfirmed(w)
  BY <1>9, <1>a, <1>b, GotoTypes DEF CompleteUnconfirmed
<1>10. CASE HandleFails(w)
  BY <1>10, <1>a, <1>b, GotoTypes DEF HandleFails
<1>11. CASE Ack(w)
  <2>1. QueueTypeOK'
    BY <1>11 DEF Ack, AckDelivery, QueueTypeOK
  <2> QED
    BY <1>11, <1>b, <2>1, IdleTypes DEF Ack
<1>12. CASE Nack(w)
  BY <1>12, <1>b, RequeueTypes, IdleTypes DEF Nack
<1>13. CASE ConnectionLost(w)
  <2>1. WorkersTyped'
    BY <1>13 DEF ConnectionLost, WorkersTyped, WorkerShape, WorkerOK
  <2> QED
    BY <1>13, <1>b, <2>1, RequeueTypes DEF ConnectionLost
<1>14. CASE Crash(w)
  BY <1>14, <1>b, RequeueTypes, IdleTypes DEF Crash
<1>15. CASE SendRejected(w)
  BY <1>15, <1>a, <1>b, GotoTypes DEF SendRejected
<1>16. CASE ConfirmTimeout(w)
  BY <1>16, <1>a, <1>b, GotoTypes DEF ConfirmTimeout
<1> QED
  BY <1>1, <1>2, <1>3, <1>4, <1>5, <1>6, <1>7, <1>8, <1>9, <1>10, <1>11, <1>12, <1>13, <1>14,
     <1>15, <1>16
  DEF WorkerStep, WorkerFault

-----------------------------------------------------------------------------
(***************************************************************************)
(* How a request step moves the program counters.                          *)
(***************************************************************************)

(* The request r keeps what CreatePending resolves it by. *)
SameKey(r) == /\ requests'[r].account = requests[r].account
              /\ requests'[r].key = requests[r].key
              /\ requests'[r].payload = requests[r].payload

LEMMA OtherRequests ==
    ASSUME RequestsTyped, NEW r \in Ids, RequestStep(r)
    PROVE  \A s \in Ids \ {r} : requests'[s] = requests[s]
  BY DEF RequestsTyped, RequestStep, CreateStep, CreateFault, BeginCreate,
         StatCanonical, CopyStaging, LockFundraiser, FundraiserNotFound,
         ReplayCampaign, Resolve, RefuseTooSoon, InsertPending, InsertUnconfirmed,
         DiscardStaging, PublishTask, PublishUnconfirmed, RequestFails, Answer

(* A request that has not resolved its campaign, and will not. *)
Unresolved(r) == \/ /\ requests[r].pc \in {"idle", "stat", "copy"}
                    /\ requests'[r].pc \in {"stat", "copy", "lock"}
                 \/ requests'[r].pc = "done" /\ requests'[r].outcome # "created"

(* A request that CreatePending answers with the campaign c. *)
Returned(r, c) == /\ requests[r].pc = "commit"
                  /\ requests'[r].pc = "discard"
                  /\ requests'[r].campaign = c
                  /\ SameKey(r)

(* A request on its way from CreatePending to its answer. *)
Publishing(r) == /\ requests[r].pc \in {"discard", "publish"}
                 /\ requests'[r].pc \in {"publish", "done"}
                 /\ requests'[r].campaign = requests[r].campaign
                 /\ SameKey(r)

(* The two ways an insertion can end, and the end of a replay. *)
ReplayedAs(r, c) ==
    /\ Returned(r, c)
    /\ c \in Ids
    /\ c = requests[r].campaign \/ c \in Conflicting(r)
    /\ campaigns[c].payload = requests[r].payload
    /\ UNCHANGED campaigns

InsertedAs(r) ==
    Inserting(r) /\ Conflicting(r) = {} /\ Insert(r) /\ Returned(r, r)

LEMMA AnswerMoves ==
    ASSUME RequestsTyped, NEW r \in Ids, NEW o, Answer(r, o)
    PROVE  /\ requests'[r].pc = "done" /\ requests'[r].outcome = o
           /\ requests'[r].campaign = requests[r].campaign
           /\ SameKey(r)
<1> DEFINE q == [requests[r] EXCEPT !.pc = "done", !.outcome = o]
<1>1. requests'[r] = q
  BY DEF Answer, RequestsTyped
<1>2. requests[r] \in Request
  BY DEF RequestsTyped
<1> HIDE DEF RequestsTyped
<1> QED
  BY <1>1, <1>2 DEF SameKey, Request

LEMMA ResolveMoves ==
    ASSUME RequestsTyped, NEW r \in Ids, NEW c \in Ids, NEW status,
           requests[r].pc = "commit", Resolve(r, c, status)
    PROVE  \/ Returned(r, c) /\ campaigns[c].payload = requests[r].payload
           \/ Unresolved(r)
<1> DEFINE q == [requests[r] EXCEPT !.pc = "discard", !.campaign = c, !.status = status]
<1>1. requests[r] \in Request
  BY DEF RequestsTyped
<1>2. CASE sameCampaignCreationPayload(c, requests[r].payload)
  <2>1. requests'[r] = q
    BY <1>2 DEF Resolve, RequestsTyped
  <2> QED
    BY <1>1, <1>2, <2>1 DEF Returned, SameKey, Request, sameCampaignCreationPayload
<1>3. CASE ~sameCampaignCreationPayload(c, requests[r].payload)
  BY <1>3, AnswerMoves DEF Resolve, Unresolved
<1> QED
  BY <1>2, <1>3

LEMMA RequestMoves ==
    ASSUME RequestsTyped, NEW r \in Ids, RequestStep(r)
    PROVE  \/ Unresolved(r) /\ UNCHANGED campaigns
           \/ LockFundraiser(r)
           \/ \E c \in Ids : ReplayedAs(r, c)
           \/ InsertedAs(r)
           \/ InsertUnconfirmed(r) /\ Unresolved(r)
           \/ Publishing(r) /\ UNCHANGED campaigns
<1>0. requests[r] \in Request /\ RequestOK(requests[r])
  BY DEF RequestsTyped, RequestShape
<1>1. ASSUME NEW w \in Wallets, NEW k \in Keys, NEW p \in Payloads,
             BeginCreate(r, w, k, p)
      PROVE  Unresolved(r) /\ UNCHANGED campaigns
  BY <1>1 DEF BeginCreate, Unresolved, RequestsTyped, Request, storeVars
<1>2. CASE StatCanonical(r)
  BY <1>2 DEF StatCanonical, Unresolved, RequestsTyped, Request, storeVars
<1>3. CASE CopyStaging(r)
  <2>1. CASE Answer(r, "imageNotFound")
    BY <1>3, <2>1, AnswerMoves DEF CopyStaging, Unresolved, storeVars
  <2>2. CASE requests' = [requests EXCEPT ![r].pc = "lock",
                                          ![r].minimumEndAt = now + LeadTime]
    BY <1>3, <2>2 DEF CopyStaging, Unresolved, RequestsTyped, Request, storeVars
  <2> QED
    BY <1>3, <2>1, <2>2 DEF CopyStaging
<1>4. CASE FundraiserNotFound(r)
  BY <1>4, AnswerMoves DEF FundraiserNotFound, Unresolved, storeVars
<1>5. CASE ReplayCampaign(r)
  <2>1. requests[r].campaign \in Ids
    BY <1>5, <1>0 DEF ReplayCampaign, Request
  <2>2. UNCHANGED campaigns
    BY <1>5 DEF ReplayCampaign, storeVars
  <2> QED
    BY <1>5, <2>1, <2>2, ResolveMoves DEF ReplayCampaign, ReplayedAs
<1>6. CASE RefuseTooSoon(r)
  BY <1>6, AnswerMoves DEF RefuseTooSoon, Unresolved, storeVars
<1>7. CASE InsertPending(r)
  <2>1. CASE Conflicting(r) = {}
    <3> DEFINE q == [requests[r] EXCEPT !.pc = "discard", !.campaign = r, !.status = "pending"]
    <3>1. Inserting(r) /\ Insert(r) /\ requests'[r] = q
      BY <1>7, <2>1 DEF InsertPending, RequestsTyped
    <3>2. Returned(r, r)
      BY <1>0, <3>1 DEF Returned, SameKey, Request, Inserting
    <3> QED
      BY <2>1, <3>1, <3>2 DEF InsertedAs
  <2>2. CASE Conflicting(r) # {}
    <3> DEFINE c == CHOOSE c \in Conflicting(r) : TRUE
    <3>1. c \in Conflicting(r) /\ c \in Ids
      BY <2>2 DEF Conflicting, findCampaignByIdempotencyKey, Stored
    <3>2. /\ Resolve(r, c, campaigns[c].status)
          /\ requests[r].pc = "commit"
          /\ UNCHANGED campaigns
      BY <1>7, <2>2 DEF InsertPending, Inserting, storeVars
    <3> HIDE DEF c
    <3> QED
      BY <3>1, <3>2, ResolveMoves DEF ReplayedAs
  <2> QED
    BY <2>1, <2>2
<1>8. CASE DiscardStaging(r)
  <2> DEFINE q == [requests[r] EXCEPT !.pc = "publish"]
  <2>1. requests'[r] = q
    BY <1>8 DEF DiscardStaging, RequestsTyped
  <2> QED
    BY <1>0, <1>8, <2>1 DEF DiscardStaging, Publishing, SameKey, Request, storeVars
<1>9. CASE PublishTask(r)
  BY <1>9, AnswerMoves DEF PublishTask, Publishing, storeVars
<1>10. CASE InsertUnconfirmed(r)
  BY <1>10, AnswerMoves DEF InsertUnconfirmed, Unresolved
<1>11. CASE PublishUnconfirmed(r)
  BY <1>11, AnswerMoves DEF PublishUnconfirmed, Unresolved, storeVars
<1>12. CASE RequestFails(r)
  BY <1>12, AnswerMoves DEF RequestFails, Unresolved, storeVars
<1> QED
  BY <1>1, <1>2, <1>3, <1>4, <1>5, <1>6, <1>7, <1>8, <1>9, <1>10, <1>11, <1>12
  DEF RequestStep, CreateStep, CreateFault

(* Row c is stored under key k of account a. *)
HeldBy(c, a, k) == /\ campaigns[c].status # "absent"
                   /\ campaigns[c].fundraiser = a /\ campaigns[c].key = k

(* A request under the lock: the account it locked, what it read. *)
LockedAs(r, a) ==
    /\ users[a] = "live" /\ ~Locked(a)
    /\ requests[r].pc = "lock"
    /\ requests'[r].pc = "commit"
    /\ requests'[r].account = a
    /\ requests'[r].key = requests[r].key
    /\ IF requests'[r].campaign = None
         THEN \A c \in Ids : ~HeldBy(c, a, requests[r].key)
         ELSE /\ requests'[r].campaign \in Ids
              /\ HeldBy(requests'[r].campaign, a, requests[r].key)
    /\ UNCHANGED campaigns

LEMMA LockMoves ==
    ASSUME RequestsTyped, NEW r \in Ids, LockFundraiser(r)
    PROVE  \E a \in Accounts : LockedAs(r, a)
<1>0. requests[r] \in Request /\ requests[r].pc = "lock" /\ requests[r].campaign = None
  BY DEF RequestsTyped, RequestShape, RequestOK, LockFundraiser
<1>1. PICK a \in Accounts :
        /\ users[a] = "live" /\ ~Locked(a)
        /\ LET found == findCampaignByIdempotencyKey(a, requests[r].key) IN
           requests' = IF found = {}
             THEN [requests EXCEPT ![r].pc = "commit", ![r].account = a]
             ELSE LET c == CHOOSE c \in found : TRUE IN
                  [requests EXCEPT ![r].pc = "commit", ![r].account = a,
                                   ![r].campaign = c,
                                   ![r].status = campaigns[c].status]
  BY DEF LockFundraiser, LiveAccounts
<1> DEFINE found == findCampaignByIdempotencyKey(a, requests[r].key)
           p == [requests[r] EXCEPT !.pc = "commit", !.account = a]
           c == CHOOSE c \in found : TRUE
           q == [requests[r] EXCEPT !.pc = "commit", !.account = a,
                                    !.campaign = c, !.status = campaigns[c].status]
<1>2. UNCHANGED campaigns
  BY DEF LockFundraiser, storeVars
<1>3. CASE found = {}
  <2>1. requests'[r] = p
    BY <1>1, <1>3 DEF RequestsTyped
  <2> HIDE DEF found
  <2>2. /\ requests'[r].pc = "commit" /\ requests'[r].account = a
        /\ requests'[r].key = requests[r].key /\ requests'[r].campaign = None
    BY <1>0, <2>1 DEF Request
  <2> QED
    BY <1>0, <1>1, <1>2, <1>3, <2>2
    DEF LockedAs, HeldBy, found, findCampaignByIdempotencyKey, Stored
<1>4. CASE found # {}
  <2>1. requests'[r] = q /\ c \in found
    BY <1>1, <1>4 DEF RequestsTyped
  <2> HIDE DEF found, c
  <2>2. /\ requests'[r].pc = "commit" /\ requests'[r].account = a
        /\ requests'[r].key = requests[r].key /\ requests'[r].campaign = c
    BY <1>0, <2>1 DEF Request
  <2> QED
    BY <1>0, <1>1, <1>2, <2>1, <2>2, NoneAssumption
    DEF LockedAs, HeldBy, found, findCampaignByIdempotencyKey, Stored
<1> QED
  BY <1>3, <1>4

-----------------------------------------------------------------------------
(***************************************************************************)
(* The part of the invariant about profiles, requests and campaigns.       *)
(***************************************************************************)
(* Request r goes on and no row changes. *)
LEMMA LifeNoRow ==
    ASSUME Life, NEW r \in Ids, RequestsTyped', UNCHANGED <<users, campaigns, events, deleting>>,
           \A s \in Ids \ {r} : requests'[s] = requests[s],
           \/ Unresolved(r)
           \/ \E a \in Accounts : LockedAs(r, a)
           \/ \E c \in Ids : ReplayedAs(r, c)
           \/ Publishing(r)
    PROVE  Life'
<1>1. StoreTypeOK' /\ (deleting \subseteq Accounts)' /\ KeysUnique' /\ NoOrphanedCampaign'
  BY DEF Life, StoreTypeOK, KeysUnique, NoOrphanedCampaign, Stored
<1>2. Locks'
  BY DEF Life, Locks, hasActiveCampaign, Unresolved, LockedAs, Locked, ReplayedAs, Returned, Publishing
<1>3. Rows'
  BY DEF Life, Rows, NoRow, Unresolved, LockedAs, ReplayedAs, Returned, Publishing
<1>4. Found'
  <2> SUFFICES ASSUME NEW s \in Ids, requests'[s].pc = "commit"
               PROVE  IF requests'[s].campaign = None
                        THEN \A c \in Ids : ~KeyHolder(s, c)'
                        ELSE requests'[s].campaign \in Ids /\ KeyHolder(s, requests[s].campaign)'
    BY DEF Found
  <2>1. CASE s # r
    BY <2>1 DEF Life, Found, KeyHolder
  <2>2. CASE s = r
    <3>1. PICK a \in Accounts : LockedAs(r, a)
      BY <2>2 DEF Unresolved, ReplayedAs, Returned, Publishing
    <3> QED
      BY <2>2, <3>1 DEF LockedAs, HeldBy, KeyHolder
  <2> QED
    BY <2>1, <2>2
<1>5. Answered'
  <2> SUFFICES ASSUME NEW s \in Ids, Resolved(s)'
               PROVE  /\ requests'[s].campaign \in Ids
                      /\ KeyHolder(s, requests[s].campaign)'
                      /\ campaigns'[requests'[s].campaign].payload = requests'[s].payload
    BY DEF Answered
  <2>1. CASE s # r
    BY <2>1 DEF Life, Answered, Resolved, KeyHolder
  <2>2. CASE s = r /\ Publishing(r)
    BY <2>2 DEF Publishing, SameKey, Life, Answered, Resolved, KeyHolder
  <2>3. CASE s = r /\ \E c \in Ids : ReplayedAs(r, c)
    <3>1. PICK c \in Ids : ReplayedAs(r, c)
      BY <2>3
    <3>2. c # None
      BY NoneAssumption
    <3>3. KeyHolder(r, c)
      BY <3>1, <3>2 DEF ReplayedAs, Returned, Conflicting, findCampaignByIdempotencyKey,
         Stored, Life, Found, KeyHolder
    <3> QED
      BY <2>3, <3>1, <3>3 DEF ReplayedAs, Returned, SameKey, KeyHolder
  <2>4. CASE s = r /\ (Unresolved(r) \/ \E a \in Accounts : LockedAs(r, a))
    BY <2>4 DEF Unresolved, LockedAs, Resolved
  <2> QED
    BY <2>1, <2>2, <2>3, <2>4
<1> QED
  BY <1>1, <1>2, <1>3, <1>4, <1>5 DEF Life

(* Request r inserts its campaign. *)
LEMMA LifeInsert ==
    ASSUME Life, NEW r \in Ids, RequestsTyped', UNCHANGED deleting,
           \A s \in Ids \ {r} : requests'[s] = requests[s],
           Inserting(r), Conflicting(r) = {}, Insert(r),
           Returned(r, r) \/ Unresolved(r)
    PROVE  Life'
<1> DEFINE row == [status |-> "pending", fundraiser |-> requests[r].account,
                   key |-> requests[r].key, payload |-> requests[r].payload,
                   contract |-> None]
<1>1. /\ requests[r].pc = "commit"
      /\ campaigns' = [campaigns EXCEPT ![r] = row]
      /\ UNCHANGED <<users, events>>
  BY DEF Inserting, Insert, InsertCampaign
<1>2. /\ requests[r].account \in Accounts
      /\ users[requests[r].account] = "live"
      /\ requests[r].account \notin deleting
      /\ \A s \in Ids \ {r} : requests[s].pc = "commit"
                                => requests[s].account # requests[r].account
      /\ requests[r].key \in Keys /\ requests[r].payload \in Payloads
      /\ campaigns[r].status = "absent"
      /\ requests'[r].pc \in {"discard", "done"}
  BY <1>1 DEF Life, Locks, RequestsTyped, RequestShape, RequestOK, Request, Rows,
     StoreTypeOK, CampaignRow, Returned, Unresolved
<1>3. /\ row \in CampaignRow
      /\ campaigns \in [Ids -> CampaignRow]
      /\ campaigns'[r] = row
      /\ \A c \in Ids \ {r} : campaigns'[c] = campaigns[c]
  BY <1>1, <1>2 DEF Life, StoreTypeOK, CampaignRow
<1>4. /\ row.status = "pending" /\ row.fundraiser = requests[r].account
      /\ row.key = requests[r].key /\ row.payload = requests[r].payload
      /\ row.contract = None
  OBVIOUS
<1>5. \A c \in Ids : ~KeyHolder(r, c)
  BY DEF Conflicting, findCampaignByIdempotencyKey, Stored, KeyHolder
<1> HIDE DEF row
<1>6. StoreTypeOK' /\ (deleting \subseteq Accounts)'
  BY <1>1, <1>3 DEF Life, StoreTypeOK
<1>7. Locks'
  BY <1>1, <1>2, <1>3, <1>4 DEF Life, Locks, hasActiveCampaign
<1>8. Rows'
  BY <1>1, <1>2, <1>3, <1>4 DEF Life, Rows, NoRow
<1>9. KeysUnique'
  BY <1>2, <1>3, <1>4, <1>5 DEF Life, KeysUnique, Stored, KeyHolder
<1>10. Found'
  BY <1>2, <1>3, <1>4 DEF Life, Found, KeyHolder
<1>11. Answered'
  <2> SUFFICES ASSUME NEW s \in Ids, Resolved(s)'
               PROVE  /\ requests'[s].campaign \in Ids
                      /\ KeyHolder(s, requests[s].campaign)'
                      /\ campaigns'[requests'[s].campaign].payload = requests'[s].payload
    BY DEF Answered
  <2>1. CASE s # r
    BY <1>2, <1>3, <2>1 DEF Life, Answered, Resolved, KeyHolder
  <2>2. CASE s = r
    <3>1. Returned(r, r)
      BY <1>1, <2>2 DEF Unresolved, Resolved
    <3> QED
      BY <1>3, <1>4, <2>2, <3>1 DEF Returned, SameKey, KeyHolder
  <2> QED
    BY <2>1, <2>2
<1>12. NoOrphanedCampaign'
  BY <1>1, <1>2, <1>3, <1>4 DEF Life, NoOrphanedCampaign
<1> QED
  BY <1>6, <1>7, <1>8, <1>9, <1>10, <1>11, <1>12 DEF Life

(* A profile is registered, or a deletion is begun, committed or undone. *)
LEMMA LifeProfile ==
    ASSUME Life, NEW a \in Accounts, ProfileStep(a)
    PROVE  Life'
<1>1. UNCHANGED <<campaigns, events, requests>>
  BY DEF ProfileStep, Register, RegisterFundraiser, LockForDeletion, CommitDeletion,
     SoftDelete, RollbackDeletion, storeVars, apiVars
<1>2. RequestsTyped' /\ Rows' /\ KeysUnique' /\ Found' /\ Answered'
  BY <1>1 DEF Life, RequestsTyped, RequestShape, RequestOK, Rows, NoRow, KeysUnique, Stored,
     Found, Answered, Resolved, KeyHolder
<1>3. CASE Register(a)
  BY <1>1, <1>2, <1>3 DEF Register, RegisterFundraiser, apiVars, Life, StoreTypeOK, Locks,
     hasActiveCampaign, NoOrphanedCampaign
<1>4. CASE LockForDeletion(a)
  BY <1>1, <1>2, <1>4 DEF LockForDeletion, Locked, storeVars, Life, StoreTypeOK, Locks,
     hasActiveCampaign, NoOrphanedCampaign
<1>5. CASE CommitDeletion(a)
  BY <1>1, <1>2, <1>5 DEF CommitDeletion, SoftDelete, Life, StoreTypeOK, Locks,
     hasActiveCampaign, NoOrphanedCampaign
<1>6. CASE RollbackDeletion(a)
  BY <1>1, <1>2, <1>6 DEF RollbackDeletion, storeVars, Life, StoreTypeOK, Locks,
     hasActiveCampaign, NoOrphanedCampaign
<1> QED
  BY <1>3, <1>4, <1>5, <1>6 DEF ProfileStep

(* The row of an open campaign goes live or is closed. *)
LEMMA LifeRow ==
    ASSUME Life, UNCHANGED <<users, requests, deleting>>,
           NEW c \in Ids, NEW row \in CampaignRow,
           campaigns' = [campaigns EXCEPT ![c] = row],
           campaigns[c].status \in {"pending", "active"},
           row.status \in {"active", "closed"},
           row.fundraiser = campaigns[c].fundraiser,
           row.key = campaigns[c].key, row.payload = campaigns[c].payload,
           events \subseteq events', events' \subseteq Deployments,
           row.contract # None => row.contract \in events'
    PROVE  Life'
<1>1. /\ campaigns \in [Ids -> CampaignRow]
      /\ campaigns'[c] = row
      /\ \A d \in Ids \ {c} : campaigns'[d] = campaigns[d]
  BY DEF Life, StoreTypeOK
<1>2. \A d \in Ids : /\ campaigns'[d].fundraiser = campaigns[d].fundraiser
                     /\ campaigns'[d].key = campaigns[d].key
                     /\ campaigns'[d].payload = campaigns[d].payload
                     /\ campaigns'[d].status = "absent" <=> campaigns[d].status = "absent"
                     /\ campaigns'[d].status \in {"pending", "active"}
                          => campaigns[d].status \in {"pending", "active"}
  BY <1>1
<1>3. StoreTypeOK' /\ (deleting \subseteq Accounts)' /\ RequestsTyped'
  BY <1>1 DEF Life, StoreTypeOK, RequestsTyped, RequestShape, RequestOK
<1>4. Locks' /\ NoOrphanedCampaign'
  BY <1>2 DEF Life, Locks, hasActiveCampaign, NoOrphanedCampaign
<1>5. Rows'
  BY <1>1, <1>2 DEF Life, Rows, NoRow
<1>6. KeysUnique' /\ Found'
  BY <1>2 DEF Life, KeysUnique, Stored, Found, KeyHolder
<1>7. Answered'
  BY <1>2 DEF Life, Answered, Resolved, KeyHolder
<1> QED
  BY <1>3, <1>4, <1>5, <1>6, <1>7 DEF Life

(* A deployment is completed, a campaign is closed. *)
LEMMA LifeRowStep ==
    ASSUME Life, WorkersTyped, RowStep
    PROVE  Life'
<1>0. campaigns \in [Ids -> CampaignRow] /\ events \subseteq Deployments
  BY DEF Life, StoreTypeOK
<1>1. ASSUME NEW w \in Workers, Complete(w) \/ CompleteUnconfirmed(w)
      PROVE  Life'
  <2> DEFINE c == task(w).campaign
             d == workers[w].deployment
             row == [campaigns[c] EXCEPT !.status = "active", !.contract = d]
  <2>1. c \in Ids /\ d \in Deployments
    BY <1>1 DEF Complete, CompleteUnconfirmed, WorkersTyped, WorkerShape, WorkerOK, task
  <2>2. CompleteDeployment(c, d) /\ UNCHANGED <<requests, deleting>>
    BY <1>1 DEF Complete, CompleteUnconfirmed, apiVars
  <2> HIDE DEF c, d
  <2>3. CASE UNCHANGED storeVars
    BY <2>2, <2>3 DEF storeVars, Life, StoreTypeOK, RequestsTyped, RequestShape, RequestOK,
       Locks, hasActiveCampaign, Rows, NoRow, KeysUnique, Stored, Found, Answered, Resolved,
       KeyHolder, NoOrphanedCampaign
  <2>4. CASE campaigns[c].status = "pending" /\ ~DuplicateEvent(d)
    <3>1. /\ events' = events \cup {d} /\ UNCHANGED users
          /\ campaigns' = [campaigns EXCEPT ![c] = row]
      BY <2>2, <2>4 DEF CompleteDeployment
    <3>2. campaigns[c] \in CampaignRow
      BY <1>0, <2>1
    <3>3. /\ row \in CampaignRow /\ row.status = "active"
          /\ row.fundraiser = campaigns[c].fundraiser
          /\ row.key = campaigns[c].key /\ row.payload = campaigns[c].payload
          /\ row.contract = d
      BY <2>1, <3>2 DEF CampaignRow
    <3> HIDE DEF row
    <3> QED
      BY <1>0, <2>1, <2>2, <2>4, <3>1, <3>3, LifeRow
  <2> QED
    BY <2>2, <2>3, <2>4 DEF CompleteDeployment
<1>2. ASSUME NEW c \in Ids, Close(c)
      PROVE  Life'
  <2> DEFINE row == [campaigns[c] EXCEPT !.status = "closed"]
  <2>1. /\ UNCHANGED <<users, events, requests, deleting>>
        /\ campaigns' = [campaigns EXCEPT ![c] = row]
        /\ campaigns[c].status \in {"pending", "active"}
    BY <1>2 DEF Close, CloseCampaign, apiVars
  <2>2. campaigns[c] \in CampaignRow
    BY <1>0
  <2>3. /\ row \in CampaignRow /\ row.status = "closed"
        /\ row.fundraiser = campaigns[c].fundraiser
        /\ row.key = campaigns[c].key /\ row.payload = campaigns[c].payload
        /\ row.contract = campaigns[c].contract
    BY <2>2 DEF CampaignRow
  <2>4. row.contract # None => row.contract \in events
    BY <2>3 DEF Life, Rows
  <2> HIDE DEF row
  <2> QED
    BY <1>0, <2>1, <2>3, <2>4, LifeRow
<1> QED
  BY <1>1, <1>2 DEF RowStep

LEMMA LifeStep ==
    ASSUME Life, WorkersTyped, now \in Nat, [Next]_vars
    PROVE  Life'
<1>1. ASSUME NEW r \in Ids, RequestStep(r)
      PROVE  Life'
  <2>1. /\ RequestsTyped /\ RequestsTyped'
        /\ UNCHANGED <<users, events, deleting>>
        /\ \A s \in Ids \ {r} : requests'[s] = requests[s]
    BY <1>1, RequestTypes, RequestFrame, OtherRequests DEF Life
  <2>2. CASE Unresolved(r) /\ UNCHANGED campaigns
    BY <2>1, <2>2, LifeNoRow
  <2>3. CASE LockFundraiser(r)
    <3>1. PICK a \in Accounts : LockedAs(r, a)
      BY <2>1, <2>3, LockMoves
    <3>2. UNCHANGED campaigns
      BY <3>1 DEF LockedAs
    <3> QED
      BY <2>1, <3>1, <3>2, LifeNoRow
  <2>4. CASE \E c \in Ids : ReplayedAs(r, c)
    <3>1. UNCHANGED campaigns
      BY <2>4 DEF ReplayedAs
    <3> QED
      BY <2>1, <2>4, <3>1, LifeNoRow
  <2>5. CASE InsertedAs(r)
    BY <2>1, <2>5, LifeInsert DEF InsertedAs
  <2>6. CASE InsertUnconfirmed(r) /\ Unresolved(r)
    BY <2>1, <2>6, LifeInsert DEF InsertUnconfirmed
  <2>7. CASE Publishing(r) /\ UNCHANGED campaigns
    BY <2>1, <2>7, LifeNoRow
  <2> QED
    BY <1>1, <2>1, <2>2, <2>3, <2>4, <2>5, <2>6, <2>7, RequestMoves
<1>2. CASE UNCHANGED lifeVars
  BY <1>2 DEF lifeVars, Life, StoreTypeOK, RequestsTyped, RequestShape, RequestOK,
     Locks, hasActiveCampaign, Rows, NoRow, KeysUnique, Stored, Found, Answered, Resolved,
     KeyHolder, NoOrphanedCampaign
<1> QED
  BY <1>1, <1>2, LifeFrame, LifeProfile, LifeRowStep

-----------------------------------------------------------------------------
(***************************************************************************)
(* The queue, the chain, the deployers and the rest of the type invariant. *)
(***************************************************************************)
deployVars == <<ready, unacked, txs, workers>>

PublishStep(r) == PublishTask(r) \/ PublishUnconfirmed(r)

LEMMA DeployFrame ==
    [Next]_vars => \/ \E r \in Ids : PublishStep(r)
                   \/ \E w \in Workers : WorkerStep(w) \/ WorkerFault(w)
                   \/ \E t \in TxIds : Mine(t)
                   \/ UNCHANGED deployVars
  BY ZenonT(60) DEF Next, Environment, CreateStep, CreateFault, PublishStep, deployVars,
         vars, queueVars, BeginCreate, StatCanonical, CopyStaging, LockFundraiser,
         FundraiserNotFound, ReplayCampaign, RefuseTooSoon, InsertPending,
         InsertUnconfirmed, DiscardStaging, RequestFails, Register, LockForDeletion,
         CommitDeletion, RollbackDeletion, Upload, ExpireStaging, Tick, Close

(* What RFC 3339 keeps of a time is a time. *)
LEMMA FormatType == \A t \in Nat : FormatRFC3339(t) \in Nat
  BY ConstantsAssumption DEF FormatRFC3339

(* A published message is well formed: the campaign it is about is stored. *)
LEMMA PublishTypes ==
    ASSUME Life, QueueTypeOK, NEW r \in Ids, PublishStep(r)
    PROVE  QueueTypeOK'
<1> DEFINE c == requests[r].campaign
           m == [id |-> r, task |-> TaskOf(r)]
<1>1. requests[r].pc = "publish" /\ (Enqueue(m) \/ UNCHANGED queueVars)
  BY DEF PublishStep, PublishTask, PublishUnconfirmed
<1>2. /\ c \in Ids /\ requests[r].wallet \in Wallets
      /\ campaigns[c].fundraiser \in Accounts /\ campaigns[c].payload \in Payloads
  BY <1>1 DEF Life, Answered, Resolved, KeyHolder, Rows, RequestsTyped, RequestShape, RequestOK
<1>3. /\ campaigns[c].payload.goal \in Nat
      /\ FormatRFC3339(campaigns[c].payload.endAt) \in Nat
      /\ ApiChainID \in Nat
  BY <1>2, FormatType, ConstantsAssumption DEF Payload
<1>4. TaskOf(r) \in Task
  BY <1>2, <1>3 DEF TaskOf, Task
<1>5. m \in Message
  BY <1>4 DEF Message
<1> QED
  BY <1>1, <1>5 DEF Enqueue, queueVars, QueueTypeOK

LEMMA DeployersStep ==
    ASSUME Life, Deployers, [Next]_vars
    PROVE  Deployers'
<1>1. ASSUME NEW r \in Ids, PublishStep(r)
      PROVE  Deployers'
  <2>1. UNCHANGED <<txs, workers>>
    BY <1>1 DEF PublishStep, PublishTask, PublishUnconfirmed
  <2> QED
    BY <1>1, <2>1, PublishTypes DEF Deployers, ChainTypeOK, WorkersTyped, WorkerShape, WorkerOK
<1>2. ASSUME NEW t \in TxIds, Mine(t)
      PROVE  Deployers'
  <2>1. UNCHANGED <<ready, unacked, workers>>
    BY <1>2 DEF Mine, queueVars
  <2>2. ChainTypeOK'
    BY <1>2 DEF Mine, MineTransaction, Deployers, ChainTypeOK, Transaction
  <2> QED
    BY <2>1, <2>2 DEF Deployers, QueueTypeOK, WorkersTyped, WorkerShape, WorkerOK
<1>3. CASE UNCHANGED deployVars
  BY <1>3 DEF deployVars, Deployers, QueueTypeOK, ChainTypeOK, WorkersTyped, WorkerShape, WorkerOK
<1> QED
  BY <1>1, <1>2, <1>3, DeployFrame, WorkerTypes DEF Deployers

LEMMA SurroundingsFrame ==
    [Next]_vars => /\ \/ \E r \in Ids : CopyStaging(r) \/ DiscardStaging(r)
                      \/ \E i \in Images : Upload(i) \/ ExpireStaging(i)
                      \/ Tick
                      \/ UNCHANGED <<staging, canonical, now>>
                   /\ Fault \/ UNCHANGED faults
<1> USE DEF Next, Environment, CreateStep, CreateFault, WorkerStep, WorkerFault, vars, apiVars,
        BeginCreate, StatCanonical, LockFundraiser, FundraiserNotFound, ReplayCampaign,
        RefuseTooSoon, InsertPending, InsertUnconfirmed, PublishTask, PublishUnconfirmed,
        RequestFails, Register, LockForDeletion, CommitDeletion, RollbackDeletion, Close,
        Receive, HandleTask, DeployStub, EstimateGas, SendTransaction, SendRejected,
        SendUnconfirmed, WaitMined, ConfirmTimeout, Complete, CompleteUnconfirmed, HandleFails, Ack, Nack, ConnectionLost,
        Crash, Mine
<1>1. [Next]_vars => \/ \E r \in Ids : CopyStaging(r) \/ DiscardStaging(r)
                     \/ \E i \in Images : Upload(i) \/ ExpireStaging(i)
                     \/ Tick
                     \/ UNCHANGED <<staging, canonical, now>>
  BY ZenonT(60)
<1>2. [Next]_vars => Fault \/ UNCHANGED faults
  BY ZenonT(60) DEF CopyStaging, DiscardStaging, Upload, ExpireStaging, Tick
<1> QED
  BY <1>1, <1>2

LEMMA SurroundingsStep ==
    ASSUME Life, Surroundings, [Next]_vars
    PROVE  Surroundings'
<1>1. faults' \in Nat
  BY SurroundingsFrame DEF Surroundings, Fault
<1>2. ASSUME NEW r \in Ids, CopyStaging(r)
      PROVE  Surroundings'
  <2>1. requests[r].payload.image \in Images
    BY <1>2, ConstantsAssumption DEF CopyStaging, Life, RequestsTyped, RequestShape, RequestOK, Payload
  <2> QED
    BY <1>1, <1>2, <2>1 DEF CopyStaging, Surroundings
<1>3. ASSUME NEW r \in Ids, DiscardStaging(r)
      PROVE  Surroundings'
  BY <1>1, <1>3 DEF DiscardStaging, Surroundings
<1>4. ASSUME NEW i \in Images, Upload(i) \/ ExpireStaging(i)
      PROVE  Surroundings'
  BY <1>1, <1>4 DEF Upload, ExpireStaging, Surroundings
<1>5. CASE Tick
  BY <1>1, <1>5 DEF Tick, Surroundings
<1>6. CASE UNCHANGED <<staging, canonical, now>>
  BY <1>1, <1>6 DEF Surroundings
<1> QED
  BY <1>2, <1>3, <1>4, <1>5, <1>6, SurroundingsFrame

-----------------------------------------------------------------------------
(***************************************************************************)
(* The theorems.                                                           *)
(***************************************************************************)
LEMMA InitIInv == Init => IInv
<1> SUFFICES ASSUME Init PROVE IInv
  OBVIOUS
<1> USE DEF Init, StoreInit, QueueInit, ChainInit
<1>1. /\ NoRow \in CampaignRow /\ NoRow.status = "absent" /\ NoRow.contract = None
      /\ NoRequest \in Request /\ RequestOK(NoRequest) /\ NoRequest.pc = "idle"
      /\ Idle \in Worker /\ WorkerOK(Idle)
      /\ NoTransaction \in Transaction
  BY DEF NoRow, CampaignRow, NoRequest, Request, RequestOK, Idle, Worker, WorkerOK,
     NoTransaction, Transaction
<1>2. StoreTypeOK /\ RequestsTyped /\ deleting \subseteq Accounts
  BY <1>1 DEF StoreTypeOK, RequestsTyped, RequestShape
<1>3. Locks /\ Rows /\ KeysUnique /\ Found /\ Answered /\ NoOrphanedCampaign
  BY <1>1 DEF Locks, Rows, KeysUnique, Stored, Found, Answered, Resolved, NoOrphanedCampaign
<1>4. Strays \subseteq Message
  BY StraysAssumption DEF Message
<1>5. Deployers
  BY <1>1, <1>4 DEF Deployers, QueueTypeOK, ChainTypeOK, WorkersTyped, WorkerShape
<1>6. Surroundings
  BY DEF Surroundings
<1> QED
  BY <1>2, <1>3, <1>5, <1>6 DEF IInv, Life

(* The conjunction of all parts is inductive. *)
THEOREM Invariance == Spec => []IInv
<1>1. IInv /\ [Next]_vars => IInv'
  BY LifeStep, DeployersStep, SurroundingsStep DEF IInv, Deployers, Surroundings
<1> QED
  BY <1>1, InitIInv, PTL DEF Spec

(* Every variable keeps its type: whatever fails or interleaves, no step   *)
(* reads a campaign, a payload or a receipt it does not have.              *)
THEOREM TypeCorrect == Spec => []TypeOK
<1>1. IInv => TypeOK
  BY DEF IInv, Life, Deployers, Surroundings, RequestsTyped, WorkersTyped, TypeOK
<1> QED
  BY <1>1, Invariance, PTL

(* CreatePending: requests that carry one key of one fundraiser are        *)
(* answered with one campaign, for any number of concurrent requests.      *)
THEOREM CreateIsIdempotent == Spec => []IdempotentCreate
<1>1. IInv => IdempotentCreate
  <2> SUFFICES ASSUME IInv, NEW r \in Ids, NEW s \in Ids, Resolved(r), Resolved(s),
                      requests[r].account = requests[s].account,
                      requests[r].key = requests[s].key
               PROVE  /\ requests[r].campaign = requests[s].campaign
                      /\ requests[r].payload = requests[s].payload
    BY DEF IdempotentCreate
  <2> QED
    BY DEF IInv, Life, Answered, KeyHolder, KeysUnique, Stored
<1> QED
  BY <1>1, Invariance, PTL

(* CreatePending and DeleteProfile exclude each other: an open campaign    *)
(* always has a live fundraiser.                                           *)
THEOREM OpenCampaignsHaveFundraisers == Spec => []NoOrphanedCampaign
<1>1. IInv => NoOrphanedCampaign
  BY DEF IInv, Life
<1> QED
  BY <1>1, Invariance, PTL

(* CompleteDeployment and its callers never move a campaign back, nor to   *)
(* another contract, whatever is redelivered and however late.             *)
THEOREM CampaignsMoveForward == Spec => StatusForward
<1> DEFINE Forward == \A c \in Ids :
             /\ Rank(campaigns'[c].status) >= Rank(campaigns[c].status)
             /\ campaigns[c].contract \in {None, campaigns'[c].contract}
<1>0. /\ Rank("absent") = 0 /\ Rank("pending") = 1
      /\ Rank("active") = 2 /\ Rank("closed") = 3
  BY DEF Rank
<1>1. ASSUME IInv, [Next]_vars
      PROVE  [Forward]_campaigns
  <2>0. /\ campaigns \in [Ids -> CampaignRow]
        /\ \A c \in Ids : campaigns[c].status \in {"absent", "pending", "active", "closed"}
    BY <1>1 DEF IInv, Life, StoreTypeOK, CampaignRow
  <2>1. ASSUME NEW c \in Ids, NEW row, campaigns' = [campaigns EXCEPT ![c] = row],
               Rank(row.status) >= Rank(campaigns[c].status),
               campaigns[c].contract \in {None, row.contract}
        PROVE  Forward
    BY <1>0, <2>0, <2>1
  <2>2. ASSUME NEW r \in Ids, RequestStep(r)
        PROVE  [Forward]_campaigns
    <3> DEFINE row == [status |-> "pending", fundraiser |-> requests[r].account,
                       key |-> requests[r].key, payload |-> requests[r].payload,
                       contract |-> None]
    <3>1. CASE Inserting(r) /\ Insert(r)
      <4>1. campaigns[r] = NoRow /\ campaigns' = [campaigns EXCEPT ![r] = row]
        BY <1>1, <3>1 DEF Inserting, Insert, InsertCampaign, IInv, Life, Rows
      <4>2. /\ row.status = "pending" /\ row.contract = None
            /\ campaigns[r].status = "absent" /\ campaigns[r].contract = None
        BY <4>1 DEF NoRow
      <4> HIDE DEF row, Forward
      <4>3. /\ Rank(row.status) >= Rank(campaigns[r].status)
            /\ campaigns[r].contract \in {None, row.contract}
        BY <1>0, <4>2
      <4> QED
        BY <2>1, <4>1, <4>3
    <3> QED
      BY <2>2, <3>1, RequestFrame DEF InsertPending, InsertUnconfirmed, storeVars
  <2>3. ASSUME NEW a \in Accounts, ProfileStep(a)
        PROVE  UNCHANGED campaigns
    BY <2>3 DEF ProfileStep, Register, RegisterFundraiser, LockForDeletion, CommitDeletion,
       SoftDelete, RollbackDeletion, storeVars
  <2>4. ASSUME NEW w \in Workers, Complete(w) \/ CompleteUnconfirmed(w)
        PROVE  [Forward]_campaigns
    <3> DEFINE c == task(w).campaign
               d == workers[w].deployment
               row == [campaigns[c] EXCEPT !.status = "active", !.contract = d]
    <3>1. c \in Ids /\ CompleteDeployment(c, d)
      BY <1>1, <2>4 DEF Complete, CompleteUnconfirmed, IInv, Deployers, WorkersTyped,
         WorkerShape, WorkerOK, task
    <3> HIDE DEF c, d
    <3>2. CASE campaigns[c].status = "pending" /\ ~DuplicateEvent(d)
      <4>1. /\ campaigns' = [campaigns EXCEPT ![c] = row]
            /\ campaigns[c].contract = None
        BY <1>1, <3>1, <3>2 DEF CompleteDeployment, IInv, Life, Rows
      <4>2. row.status = "active" /\ campaigns[c].status = "pending"
        BY <2>0, <3>1, <3>2 DEF CampaignRow
      <4> HIDE DEF row, Forward
      <4>3. /\ Rank(row.status) >= Rank(campaigns[c].status)
            /\ campaigns[c].contract \in {None, row.contract}
        BY <1>0, <4>1, <4>2
      <4> QED
        BY <2>1, <3>1, <4>1, <4>3
    <3> QED
      BY <3>1, <3>2 DEF CompleteDeployment, storeVars
  <2>5. ASSUME NEW c \in Ids, Close(c)
        PROVE  Forward
    <3> DEFINE row == [campaigns[c] EXCEPT !.status = "closed"]
    <3>1. campaigns' = [campaigns EXCEPT ![c] = row]
      BY <2>5 DEF Close, CloseCampaign
    <3>2. row.status = "closed" /\ row.contract = campaigns[c].contract
      BY <2>0 DEF CampaignRow
    <3> HIDE DEF row
    <3> QED
      BY <1>0, <2>0, <2>1, <3>1, <3>2
  <2> QED
    BY <1>1, <2>2, <2>3, <2>4, <2>5, LifeFrame DEF RowStep, lifeVars
<1> QED
  BY <1>1, Invariance, PTL DEF Spec, StatusForward

-----------------------------------------------------------------------------
(***************************************************************************)
(* Refinement: the state of CampaignLifecycle is the tables themselves.    *)
(***************************************************************************)
LEMMA InsertRefines ==
    ASSUME IInv, NEW r \in Ids, Inserting(r), Conflicting(r) = {}, Insert(r)
    PROVE  \E a \in Accounts, k \in Keys, p \in Payloads : Lifecycle!CreateCampaign(r, a, k, p)
<1>1. requests[r].pc = "commit"
  BY DEF Inserting
<1>2. /\ requests[r].account \in Accounts /\ requests[r].key \in Keys
      /\ requests[r].payload \in Payloads
      /\ users[requests[r].account] = "live"
  BY <1>1 DEF IInv, Life, Locks, RequestsTyped, RequestShape, RequestOK
<1>3. campaigns[r] = NoRow
  BY <1>1 DEF IInv, Life, Rows
<1>4. \A d \in Ids : ~(/\ campaigns[d].fundraiser = requests[r].account
                       /\ campaigns[d].key = requests[r].key)
  <2> SUFFICES ASSUME NEW d \in Ids, campaigns[d].fundraiser = requests[r].account,
                      campaigns[d].key = requests[r].key
               PROVE  FALSE
    OBVIOUS
  <2>1. campaigns[d].status = "absent"
    BY DEF Conflicting, findCampaignByIdempotencyKey, Stored
  <2>2. campaigns[d].fundraiser = None
    BY <2>1 DEF IInv, Life, Rows, NoRow
  <2> QED
    BY <1>2, <2>2, NoneAssumption
<1>5. Lifecycle!CreateCampaign(r, requests[r].account, requests[r].key, requests[r].payload)
  BY <1>2, <1>3, <1>4 DEF Lifecycle!CreateCampaign, Lifecycle!Unwritten, NoRow, Insert, InsertCampaign
<1> QED
  BY <1>2, <1>5

LEMMA CompleteRefines ==
    ASSUME IInv, NEW c \in Ids, NEW d \in Deployments, CompleteDeployment(c, d)
    PROVE  Lifecycle!GoLive(c, d) \/ UNCHANGED <<users, campaigns>>
<1>1. CASE campaigns[c].status = "pending" /\ ~DuplicateEvent(d)
  <2>1. \A e \in Ids : campaigns[e].contract # d
    BY <1>1, NoneAssumption DEF IInv, Life, Rows, DuplicateEvent
  <2> QED
    BY <1>1, <2>1 DEF CompleteDeployment, Lifecycle!GoLive
<1> QED
  BY <1>1 DEF CompleteDeployment, storeVars

LEMMA StepRefines ==
    IInv /\ [Next]_vars => [Lifecycle!LifecycleNext]_(Lifecycle!lifecycleVars)
<1> SUFFICES ASSUME IInv, [Next]_vars
             PROVE  Lifecycle!LifecycleNext \/ UNCHANGED <<users, campaigns>>
  BY DEF Lifecycle!lifecycleVars
<1>1. ASSUME NEW r \in Ids, RequestStep(r)
      PROVE  Lifecycle!LifecycleNext \/ UNCHANGED <<users, campaigns>>
  <2>1. CASE Inserting(r) /\ Conflicting(r) = {} /\ Insert(r)
    BY <2>1, InsertRefines DEF Lifecycle!LifecycleNext
  <2>2. UNCHANGED users /\ (UNCHANGED campaigns \/ InsertPending(r) \/ InsertUnconfirmed(r))
    BY <1>1, RequestFrame
  <2> QED
    BY <2>1, <2>2 DEF InsertPending, InsertUnconfirmed, storeVars
<1>2. ASSUME NEW a \in Accounts, ProfileStep(a)
      PROVE  Lifecycle!LifecycleNext \/ UNCHANGED <<users, campaigns>>
  <2>1. CASE Register(a)
    <3>1. Lifecycle!OpenProfile(a)
      BY <2>1 DEF Register, RegisterFundraiser, LiveAccounts, Lifecycle!OpenProfile
    <3> QED
      BY <3>1 DEF Lifecycle!LifecycleNext
  <2>2. CASE CommitDeletion(a)
    <3>1. Lifecycle!DeleteProfile(a)
      BY <2>2 DEF CommitDeletion, SoftDelete, IInv, Life, Locks, hasActiveCampaign,
         Lifecycle!DeleteProfile, Lifecycle!Open
    <3> QED
      BY <3>1 DEF Lifecycle!LifecycleNext
  <2> QED
    BY <1>2, <2>1, <2>2 DEF ProfileStep, LockForDeletion, RollbackDeletion, storeVars
<1>3. ASSUME NEW w \in Workers, Complete(w) \/ CompleteUnconfirmed(w)
      PROVE  Lifecycle!LifecycleNext \/ UNCHANGED <<users, campaigns>>
  <2>1. task(w).campaign \in Ids /\ workers[w].deployment \in Deployments
    BY <1>3 DEF Complete, CompleteUnconfirmed, IInv, Deployers, WorkersTyped, WorkerShape,
       WorkerOK, task
  <2>2. CompleteDeployment(task(w).campaign, workers[w].deployment)
    BY <1>3 DEF Complete, CompleteUnconfirmed
  <2> QED
    BY <2>1, <2>2, CompleteRefines DEF Lifecycle!LifecycleNext
<1>4. ASSUME NEW c \in Ids, Close(c)
      PROVE  Lifecycle!LifecycleNext
  <2>1. Lifecycle!EndCampaign(c)
    BY <1>4 DEF Close, CloseCampaign, Lifecycle!EndCampaign, Lifecycle!Open
  <2> QED
    BY <2>1 DEF Lifecycle!LifecycleNext
<1>5. CASE UNCHANGED lifeVars
  BY <1>5 DEF lifeVars
<1> QED
  BY <1>1, <1>2, <1>3, <1>4, <1>5, LifeFrame DEF RowStep

(* Requests, transactions, locks, deliveries and retries together do only  *)
(* what the one-step operations of CampaignLifecycle allow.                *)
THEOREM LifecycleRefinement == Spec => ImplementsLifecycle
<1>1. Init => Lifecycle!LifecycleInit
  BY DEF Init, StoreInit, NoRow, Lifecycle!LifecycleInit, Lifecycle!Unwritten
<1> QED
  BY <1>1, StepRefines, Invariance, PTL
  DEF Spec, ImplementsLifecycle, Lifecycle!LifecycleSpec
=============================================================================
