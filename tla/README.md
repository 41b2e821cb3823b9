# Verification of the Pawfund backend

TLA+ models of the backend in `src/`, the TLC configurations that check them on
small instances, and TLAPS proofs of their main properties for every value of
the constants. `PROJECT.json` lists the components, the runs, the line of code
each definition stands for, the hazards and the findings.

## 1. The system

Two kinds of processes share a PostgreSQL database, a RabbitMQ queue, an object
store, a Redis cache and a chain:

* the **API** (`cmd/api`) registers fundraisers and supporters, signs them in
  with SIWE and JWT, presigns uploads, lists campaigns and creates them;
* the **deployers** (`cmd/deployer`, any number) take deployment tasks from the
  queue, call the campaign factory on chain and mark the campaign active.

A campaign is created by `POST /campaigns`: the staged image is promoted, the
row is stored as *pending* under the caller's `Idempotency-Key`, the staged
object is dropped and a task is published. A deployer loads the row, checks the
task against it, deploys the contract, and completes the row in one transaction
with a `blockchain_events` row.

| component | state | operations | hard because | correct when |
|---|---|---|---|---|
| campaign creation | `campaigns`, staged and promoted images | `Create`, `CreatePending`, publication | two requests with one key, a retry after any failure, the profile deleted meanwhile, a commit or confirm whose answer is lost | one campaign per key, no refusal of a legitimate retry, a task for every accepted campaign |
| fundraiser profiles | `users`, `fundraisers` | register, replace, delete | deletion races creation; images are removed after the commit | an open campaign keeps its fundraiser |
| deployment queue | ready and unacknowledged messages | publish, deliver, ack, nack | at-least-once: redelivery while a handler runs, poison messages | nothing accepted is lost, nothing circulates for ever |
| deployer worker | one handler per process | `Handle` | minutes between check and completion, crashes, several workers on one campaign | status only moves forward, one contract per campaign |
| factory and chain | transactions, nonces | `DeployCampaign` | one account shared by all deployers, late receipts | contract on the campaign's terms, recorded once |
| queue client | connection, subscriptions, reconnect loop | `Open`, `Conn`, `Notify`, `Close`, consumer sessions | goroutines, drops and shutdown in any order | no lost notice, no dangling connection, shutdown ends |
| supporter and fundraiser accounts | `users`, `supporters`, `fundraisers`, objects under `tmp/profiles/` and `profiles/` | presign, register, replace, delete | unique indexes, row locks and deadlocks under overlapping requests; rows and objects share no transaction | one account per wallet and e-mail, each request is one step or none, an image that another profile names is not removed, a failed request can be repeated |
| authentication | Redis entries, tokens | `CreateMessage`, `Verify`, `Authenticate` | a message is consumed before the token exists; tokens outlive the role they carry | one token per message, for its wallet, and a consumed message ends in one |
| lists | none of their own | four paged queries | each page is a query of its own while rows are written; ties; int64 offsets | no row shown twice or missed without cause, no wrapped offset |
| processes | resources, goroutines, channels | `New`, `run`, `Close` | signals, failures and hanging requests in any order | nothing closed in use, nothing left open, no half-dead process |
| HTTP parsing and formatting, CORS, configuration | none | – | little | – |

## 2. Modules

| module | models |
|---|---|
| `Pawfund` | identifiers, request body, task, message, what RFC 3339 formatting keeps of a time |
| `CampaignStore` | `users`, `campaigns`, `blockchain_events` and the statements the repositories run (`campaign_postgres.go`, `fundraiser_postgres.go`) |
| `DeploymentQueue` | the durable queue as `publisher.go` and `consumer.go` use it |
| `FactoryChain` | the chain and the factory as `factory_campaign_deployer.go` uses them: nonces, replacement, receipts |
| `CampaignDeployment` | the composition: create requests, profile deletion, deployers, clock, object storage, failures |
| `CampaignLifecycle` | the abstract specification: registration, deletion, creation, going live and ending as single steps |
| `QueueClient` | one process's connection: reconnect loop, `Close`, consumers (`client.go`, `consumer.go`) |
| `AccountRegistry` | the abstract specification of accounts: register, replace and delete as single steps |
| `Profiles` | supporter and fundraiser requests with their transactions and images (`fundraiser.go`, `supporter.go`, their repositories and handlers, `object_key.go`, `object_promoter.go`) |
| `SignIn` | sign-in messages, tokens and the guards of the authenticated routes, over `AccountRegistry` (`auth.go`, `jwt.go`, `cache.go`, `middleware/auth.go`) |
| `Paging` | validation of page and pageSize, offset and totalPages in `w`-bit integers |
| `CampaignLists` | the public, fundraiser, donor and donation lists walked page by page while the tables change |
| `ProcessLifecycle` | `run`, `New`, `NewDeployer` and `Close` of both programs (`cmd/`, `internal/app`) |
| `*Proofs` | the theorems about the module of that name; `CampaignDeliveryProofs` continues `CampaignDeploymentProofs` from the stored row to the chain and back |
| `MC*` | the instances TLC checks |

**State and steps of `CampaignDeployment`.** A request is a record with a
program counter; the points where it can be interrupted are the calls it makes
to the object store (`stat`, `copy`, `discard`), to the database (`lock`,
`commit`) and to the broker (`publish`). The `CreatePending` transaction is two
steps, before and after `SELECT ... FOR UPDATE`, and the lock is held in
between: `Locked` is derived from the program counters, as PostgreSQL releases
row locks when the transaction ends, however it ends. `DeleteProfile` is split
the same way. A deployer is a record with the message it handles, the nonce it
read and the transaction it sent. It goes on when the broker takes its delivery
back, so `unacked` (the broker's view) and `workers` (the handler's) are
separate. The campaign statuses `completed`, `cancelled` and `failed` are never
written by this repository; `CloseCampaign` stands for whoever writes them.

**Failures.** A call that fails, one that takes effect although its caller sees
an error (`InsertUnconfirmed`, `PublishUnconfirmed`, `SendUnconfirmed`,
`CompleteUnconfirmed`), a lost connection and a crash each use one of
`MaxFaults`. Losing a race for a nonce is not a fault: it is a normal step.

**State and steps of `QueueClient`.** Connections are numbered in dialling
order. Reading `Conn()` and asking the connection whether it is closed are two
steps, and so are installing a connection and announcing it, and the three
parts of `Close`. `NotifyClose` of a connection that is already down returns a
closed channel (`Register`). A `Notify` channel is a one-place buffer plus
membership in `subs`: a buffered value is read before the closing is seen.

**State and steps of `Profiles`.** The two services and repositories are the
same code up to the role, so a request carries the role of its endpoint. It is
interrupted at every call: `StatObject` and `CopyObject` of the promotion, the
`SELECT ... FOR UPDATE`, the writes, the reference check, the commit, and the
removals after it. Rows are visible when they are committed. A row lock is
derived from the program counters as in `CampaignDeployment`; a waiter whose row
was deleted meanwhile finds nothing, as PostgreSQL evaluates the condition again
(`GrantLock`).

A statement that changes an e-mail or a wallet takes several steps, because
PostgreSQL writes the row first and enters it in the unique indexes afterwards.
`WriteProfile` is the row; `ClaimEmail` and `ClaimWallet` are the entries, in the
order of the indexes. A value that a committed row has, and that no transaction
is changing, is a duplicate; one that an unfinished transaction has entered, or
may be giving up, is waited for (`Blockers`). Two transactions can therefore wait
for each other, each with a row written (replacements that swap their e-mails),
and `DeadlockDetected` ends one of them: its transaction is rolled back and,
as the error names no constraint, the request is answered 500.

Nobody owns an image key: whoever knows one may send it, in any role, again and
at the same time as others, and an upload may expire whoever is using it. Three
variables record the past and no guard of the service reads them. `uploads` says
whether a key was presigned, uploaded, or its upload spent (expired or
committed). `abandoned` holds the objects that a failed request left behind.
`contended` holds the keys that one request was giving up (it had locked the row
that names the key) while another request held it too, as its new image or as
the image of its own locked row.

**State and steps of `SignIn`.** A nonce is used for one message, `store` is
Redis with its expiry. `HandleVerify` is the part of `Verify` before `GETDEL`,
for a correctly signed message that may name another wallet than the one it was
made for; signatures themselves are taken as sound. Authentication and the
handler's role check happen at once, the account is looked at in a later step,
so it may change in between. The donation list looks it up (`FindSupporter`) and
lists in another query that asks for no account (`ListDonations`). Accounts are those of `AccountRegistry`, which
`Profiles` is shown to implement.

**State and steps of `CampaignLists`.** One client walks one list from some page
to its end; each page is a count and a query. Rows that are equal under the
`ORDER BY` may come in any order (`Enumerations`), again for every query. The
default order of the public list is random in the code and therefore left out
of the properties about order (`Deterministic`). Donations, ends of
campaigns and failed deployments are written by others and marked external.

**State and steps of `ProcessLifecycle`.** `run` is the main goroutine; the
server and the consumer report on channels of capacity one. A resource is open
from the step of `New` that opened it to its `Close`. `forced` says that `run`
returned without waiting: the server failed, or a request outlived the ten
seconds of `Shutdown` (a handler may write for thirty).

## 3. Properties and runs

Deadlock is checked in every run except `signIn` and `lists`, in which clients
may stop: the nonces, the clock and the writes are used up and nobody has to
send another request. A client can always
start something in the instances of `CampaignDeployment` and `Profiles` (uploads
and expiry never stop); in `QueueClient` and `ProcessLifecycle` the only final
state is the one where everything has ended.

| run | bounds | shows |
|---|---|---|
| `create` (`MCCreate.cfg`) | 2 requests, 1 wallet, 2 accounts (so the wallet can be deleted and registered again), 1 key, 2 bodies, 1 deployer, clock 0..2 with lead time 1, 1 fault | `IdempotentCreate`, `NoOrphanedCampaign`, `ReplayNotRefused`, `AcceptedCampaignHasTask`, and `ImplementsLifecycle` |
| `live` (`MCLive.cfg`) | 2 requests, 2 keys, whole and fractional ends, 2 deployers, 3 transactions, 1 fault | `TypeOK`, `ContractTermsMatch`, `EventsMatchCampaigns`, `StatusForward` |
| `stubProgress` (`MCStubProgress.cfg`) | 1 request, 2 deployers, 3 stray messages, 1 fault, fair | `AcceptedEventuallyDeployed`, `QueueDrains` |
| `liveProgress` (`MCLiveProgress.cfg`) | 2 requests, 2 keys, 2 deployers, 3 transactions, no faults, fair | `AcceptedEventuallyDeployed`, `DeployedEventuallyActive` |
| `client` (`MCClient.cfg`) | 2 consumers, 3 connections, 1 fault, fair | `TypeOK`, `NoDanglingConnection`, `NoLostWakeup`, `ShutdownCompletes`, `ConsumerRecovers` |
| `profiles` (`MCProfiles.cfg`) | 2 users, 2 wallets, 2 e-mails, 1 key, 2 requests, 1 fault | `TypeOK`, `OneAccount`, `ImplementsRegistry`, `UploadKeptUntilCommit`, `UncontendedImageExists`, `NoSilentLeak` |
| `signIn` (`MCSignIn.cfg`) | 2 wallets, 2 messages, 2 requests, lifetimes of 1 tick, clock 0..1, 1 fault | `TypeOK`, `OneTokenPerMessage`, `TokenNamesRecipient`, `ConsumedMessageHonoured` |
| `lists` (`MCLists.cfg`) | 2 campaigns, 2 donors, 2 supporter profiles, all four lists, pages of 1 or 2, walks from page 1 or 7 (the largest integer), equal or later times, 6 writes | `TypeOK`, `QuietWalkIsExact`, `UnmovedRowsShown`, `TotalPagesTellsEmpty`, `OffsetIsExact` |
| `process` (`MCProcess.cfg`) | both programs, 2 HTTP requests, 2 faults, fair | `TypeOK`, `OrderlyRelease`, `NothingLeftOpen`, `SignalEndsProcess`, `NoHalfDeadProcess` |
| `fractionalEnd`, `lateReceipt`, `imageReuse` | the smallest that show it | the findings of section 5 |

*Why the bounds are enough to be interesting.* Two requests meet in every order
at one lock and one key; a second account of the same wallet exercises the
partial unique index; an end at tick 2 is acceptable at times 0 and 1 and too
soon at 2, so a retry can come too late. Two deployers and three transactions
allow a nonce race, a replacement and a retry. A second is two ticks, so an end
can be fractional. Three connections allow a reconnect that overtakes an unread
notice. Two users and two wallets let two registrations, or a replacement and a
registration, claim one wallet or one e-mail while the other waits, and let two
replacements swap their e-mails. Two rows can share the one image of `profiles`,
and it is given up by null or by deletion, put back, uploaded again and sent by
two requests at once; that one image replaces another, which takes the same
steps, is covered by the theorems only. Two requests can present one message at once. With two rows and
pages of one a walk has two pages with writes between them, and six writes are
enough to create and fund both campaigns and let a supporter leave and come back.
The bounds are the constants `MaxTime`, `MaxFaults`, `MaxLinks` and the bounds on
writes and amounts of `CampaignLists`; no guard of
the code is expressed through them.

Symmetry (requests, keys, deployers, transactions in `create` and `live`;
requests, users, wallets and e-mails in `profiles`; requests, nonces
and wallets in `signIn`; supporter profiles in `lists`) is used in safety runs
only.

**Fairness.** A request's goroutine, a deployer's loop, the reconnect loop and a
consumer each keep running (weak fairness of their next step), and a
transaction the node accepted is mined if it is not replaced. Nothing obliges
clients, the clock, deletions or failures. The handler's own deadline is the
confirm timeout, so a worker does not wait for ever for a replaced transaction.
In `QueueClient` timers fire, dials end and handlers return. In
`ProcessLifecycle` the main
goroutine, the consumer and the timer of `Shutdown` are weakly fair; nothing
obliges an HTTP handler to return.

## 4. Proofs

All theorems hold for every value of the constants that satisfies the named
assumptions of `Pawfund`, `FactoryChain`, `CampaignDeployment`,
`QueueClient`, `Profiles`, `SignIn`, `Paging`, `CampaignLists` and
`ProcessLifecycle` (types of the constants, `None` is none of the identifiers,
outcomes, accounts or lists, stray messages are not of this API, and transaction
ids, campaigns and donors are finitely many). Every safety invariant, action
property and refinement that a passing run checks is stated by a theorem. Two
theorems have a hypothesis on the constants, which the run of the same property
satisfies too:

* `Consistent` (`AcceptedTaskHeld`): API and deployers are configured for one
  chain and ends have whole seconds. Without it the task is acknowledged as a
  mismatch and lost; section 5 shows it for fractional ends.
* `ListsFit` (`TotalPagesTruthful`): a list is shorter than the largest int64
  minus a page.

*`CampaignDeploymentProofs`.* The invariant `IInv` has three parts. `Life`
speaks of the store and the requests: the shape of a row (`Rows`), the shape of
a request at each program counter (`RequestsTyped`), uniqueness of
`(fundraiser, key)` (`KeysUnique`), what a transaction that holds the lock has
read and that it is still so (`Found`, `Locks`), what an answered request points
to (`Answered`), and `NoOrphanedCampaign`. `Locks` is what makes it inductive:
a profile that is locked by a create request is live and is not being deleted,
and a profile that is being deleted has no open campaign. `Deployers` and
`Surroundings` carry the types of the rest. From it follow

* `TypeCorrect`, `CreateIsIdempotent`, `OpenCampaignsHaveFundraisers`;
* `CampaignsMoveForward`, an action property;
* `LifecycleRefinement`: initial states map to initial states and every step to
  a step of `CampaignLifecycle` or a stutter. The step that needs the invariant
  is `Complete`: the contract it writes is no other campaign's because every
  contract in a row is recorded in `blockchain_events`.

*`CampaignDeliveryProofs`.* Four invariants on top of `IInv`, each for one
promise that outlives the request or the handler that made it:

* `TermsInv`: from the moment a task is published, whatever the queue, a
  handler or the chain holds names a stored campaign and its fundraiser's wallet,
  and a handler past its checks and every transaction agree with the row in all
  deployed columns. These columns never change once written, which is why a
  check made minutes before the transaction is enough: `ContractsOnTerms`.
* `EventsInv`: a handler waits for the transaction of its own task and completes
  with a deployment of its own campaign (`Awaiting`), and what is recorded is
  some row's contract (`Recorded`): `EventsAgree`.
* `TasksInv`: the delivery the broker waits for is the one its handler works on
  (`Delivered`), a handler acknowledges a task that agrees with its campaign only
  when the campaign no longer waits (`Settled`), a request skips the publish only
  on a status that is not stale (`StatusRead`), and every accepted pending
  campaign has such a task in the broker's hands (`TaskHeld`): `AcceptedTaskHeld`.
* `ReplayInv`: a wallet has one live account (`WalletsUnique`), the image of a
  campaign that is or will be stored has been promoted (`Promoted`), and a retry
  of a stored request is never sent back to copying the image and, while the
  campaign is open, leaves the transaction with it (`Replays`):
  `ReplaysHonoured`.

*`QueueClientProofs`.* `IInv` adds to the properties `Closing` (once `closed` is
set nobody changes `conn`, so `Close` shuts the current connection),
`Redialling` (the loop redials only when the current connection is gone) and
`Wakeable` (between reading `Conn()` and waiting, a consumer without a notice
has seen the current connection). It gives `ClientTypeCorrect`,
`NothingDangles` and `WakeupsArrive`.

*`ProfilesProofs`.* `AccountInv` joins `TypeOK` and `OneAccount` with `ShapeInv`
(what a request holds at each program counter), `LockInv` (a row being replaced
or deleted is live, belongs to the request's wallet and role, and is locked by
one request) and `ReserveInv` (a value that an unfinished transaction has
entered in an index is no other transaction's, and no committed row's unless
that row is being changed by the transaction itself). `OneAccount` alone is not
inductive: a commit keeps it only because the value has been reserved since
`ClaimEmail` or `ClaimWallet`. It gives `ProfileTypes`, `AccountsUnique` and
`RegistryRefinement`: only a commit changes what `AccountRegistry` sees, and what
the transaction has locked and reserved by then is the guard of the single
abstract step. The victim of a deadlock holds nothing afterwards.

`UploadsKept` needs only `UploadInv`: a request that is discarding the staged
object has committed it. The images need `ImageInv`: only live rows name images
(`RowInv`), what a request may count on for its new and its old image
(`RequestInv`), and that every object under `profiles/` is named by a row, held by
a request, or abandoned (`LeakInv`), the last two for keys outside `contended`. `RequestInv` has three
parts: no request is giving up a key that another holds (`Apart`), the image a
request will name has been promoted (`Promoted`), and an image that a request
has decided to remove is named by no other row (`Decided`). The last one is where
the reference check inside the transaction enters, and it looks at the tables of
both roles. `UncontendedImagesStay` and `LeaksAreFailures` follow, without any
assumption on what clients send or when.

*`SignInProofs`.* The invariant says of each request which step it can be in
(`CallInv`), that whoever holds a consumed message is alone and the message is
gone from Redis (`MessageInv`), and that tokens name the wallet of their message
(`TokenInv`). The action property `ConsumedBecomesToken` follows because the
message a request holds has not been worth a token yet.

*`PagingProofs`.* For every integer width an accepted page has an exact offset, a
refused one would overflow, and `totalPages` is the least number of pages that
hold the items.

*`CampaignListsProofs`.* `Sound` is what holds of the tables: types, finitely many
donations with distinct places on chain, and one live profile per wallet.
`ListInv` adds the types of the walk and, while nothing has been written, that
the count is the number of rows and an empty page means an offset behind them.
The donor list is counted without its join, so this needs a bijection between
donors and rows. It gives `ListTypes`, `OffsetCorrect` and `TotalPagesTruthful`.

`ShownInv` is about what has been shown. `Rank` counts the rows in front of a
row. Every order but random is total (`BeforeTotal`), so the i-th row of an
enumeration has rank i - 1 (`EnumerationRank`), and a page is the rows with ranks
from its offset on (`PageRanks`). `ShownFresh` says that an undisturbed walk has
shown the ranks from its first page up to where it stands: `QuietWalksExact`.
`Passed` says that in a walk from page 1 a row with an unchanged key has been
shown or has at least as many rows in front of it as the pages so far have
covered. A write keeps it because
campaigns and donors only gain donations, so what came before an unmoved row
still does (`BeforeKept`) and its rank only grows (`RankGrows`):
`UnmovedRowsReached`. The order of donors compares sums. That `MapThenSumSet`
has a value, that the value is a natural number and that adding a donation adds
its amount is proved by looking at a smallest counterexample (`SmallestSet`,
`AddsExists`, `TotalWithout`), without the induction theorems of the library.

*`ProcessLifecycleProofs`.* `IInv` records what is open at each point of `run`
(`Opened`), when goroutines exist and have reported (`Goroutines`) and what
`run` has waited for (`Awaited`); `LifecycleTypes`, `ReleaseIsOrderly` and
`EverythingReleased` follow.

*Only model-checked.* The liveness properties, because the prover does not handle
fairness: `AcceptedEventuallyDeployed`, `DeployedEventuallyActive`,
`QueueDrains`, `ShutdownCompletes`, `ConsumerRecovers`, `SignalEndsProcess` and
`NoHalfDeadProcess`. `QueueDrains` is about the stub deployer: the bad tasks that
it covers are acknowledged, but a live deployment that can never succeed is
requeued without limit (finding 2).

## 5. Findings

1. **Fractional ends** (`fractionalEnd`). The message keeps whole seconds, the
   row microseconds, and the worker compares them exactly: the campaign is
   accepted, its task is acknowledged as a mismatch, it stays pending.
2. **Late receipts** (`lateReceipt`). After a timeout, a lost answer or a crash
   that follows an accepted transaction, every retry fails at the gas estimate,
   because the factory already has the campaign; the row never becomes active.
   This also keeps the task in the queue for ever.
3. **An image put back during its removal** (`imageReuse`). The old image is
   removed after the commit that found it unreferenced (`fundraiser.go:169`,
   `supporter.go:164`). A request that overlaps and names the same key finds the
   promoted object, commits, and then loses it: a live profile names an image
   that does not exist. It takes one account and no failure. Only such an
   overlap can do it, with failures or without: `UncontendedImageExists`.

Further observations, seen while modelling and not runs of their own:

* **Replay status.** A repeated request is answered with the stored campaign,
  which may be active by then; `docs/pawfund-api.json:632` allows only pending.
* **The reconnect loop can end early.** A connection that drops between the dial
  and `NotifyClose` looks like a clean `Close` (`Register` in `QueueClient`):
  the loop ends although `client.go:252` says that it ends when `Close` is
  called. `ConsumerRecovers` therefore excepts a client whose loop is gone.
* **A shared image given up twice.** Two profiles that share an image and give it
  up at the same time each find the other's row, which is not committed yet, and
  neither removes the object. It stays under `profiles/`; `NoSilentLeak` counts
  it as contended.
* **Swapped e-mails.** Two replacements that take each other's e-mail can
  deadlock; PostgreSQL ends one with an error that `mapPostgresError`
  (`supporter_postgres.go:345`) does not know, so the client sees 500 where each
  of the two, run alone, would be refused with 409.
* **Stale roles.** The guards compare the role in the token, the repositories ask
  for the live account of the endpoint's role. After a profile is deleted and
  registered again in the other role, an old token is refused with 403, or finds
  no profile, until it expires. Only the second query of the donation list
  (`supporter_postgres.go:155`) asks for no account, so a request that was found
  to be a supporter's may list after the profile is deleted.
* **403 for a registered fundraiser.** The guard reads the role in the token; a
  token from before the registration has none, while `docs/pawfund-api.json:559`
  says that 403 means the wallet is not registered.

## 6. Plan

Done, in this order: `CampaignStore`, `DeploymentQueue`, `FactoryChain`,
`CampaignDeployment` with `CampaignLifecycle`, their proofs, `QueueClient` and
its proofs; then `AccountRegistry` and `Profiles`, `SignIn`, `Paging` and
`CampaignLists`, `ProcessLifecycle`, each with its proofs; then the theorems
about delivery, images, the registry refinement and the walks of the lists. Next:

1. An abstract queue of at-least-once delivery that `DeploymentQueue` implements.
2. The safety half of the liveness properties: that a step of the fair process
   is possible wherever the property still has to come true.

**Not modelled**: HTTP parsing and formatting, CORS and configuration (no state
after start-up), search terms and the columns a list shows, signatures, JWT
encoding and hashes, the texts of a profile or campaign, a signal that kills a
process during start-up.
