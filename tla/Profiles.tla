------------------------------ MODULE Profiles ------------------------------
(***************************************************************************)
(* Supporter and fundraiser accounts and their profile images: presigned   *)
(* upload to tmp/, registration, replacement and deletion of a profile by  *)
(* concurrent API requests.  The rows live in PostgreSQL, the images in an *)
(* object store, and no transaction spans both: an image is copied to its  *)
(* canonical key before the transaction and the old one is removed after   *)
(* the commit, on the word of a query that ran before it.                  *)
(*                                                                         *)
(* The two services and the two repositories are the same code up to the   *)
(* role, so a request carries the role of its endpoint.                    *)
(***************************************************************************)
EXTENDS Naturals, FiniteSets

CONSTANTS
    Users,       \* users.id: the UUIDs generateID returns
    Wallets,     \* wallet addresses of authenticated principals
    Emails,      \* e-mail addresses after TrimSpace and ToLower
    Keys,        \* image keys: k names tmp/profiles/k and profiles/k
    Slots,       \* requests the API serves at the same time
    MaxFaults,   \* bound on failed calls, lost answers and crashes
    Keep,        \* imageObjectKey omitted from a replacement
    None         \* SQL NULL, a nil pointer

ASSUME ProfileAssumption ==
    /\ None \notin Keys /\ None \notin Users /\ None \notin Wallets
    /\ None \notin Emails
    /\ Keep \notin Keys /\ Keep # None
    /\ MaxFaults \in Nat

VARIABLES
    users,      \* users[u]: the committed users row u with its profile row
    uploads,    \* uploads[k]: what has become of the upload of key k
    staging,    \* objects under tmp/profiles/
    canonical,  \* objects under profiles/
    requests,   \* requests[s]: the request slot s is serving
    abandoned,  \* promoted objects whose request failed or lost its cleanup
    contended,  \* keys that a request was giving up while another held them
    faults      \* failures so far

vars == <<users, uploads, staging, canonical, requests, abandoned, contended, faults>>

Roles == {"supporter", "fundraiser"}

(* No account looks like the lack of one. *)
ASSUME AccountAssumption ==
    None \notin [role : Roles \cup {None}, email : Emails \cup {None}, image : Keys \cup {None}]

(***************************************************************************)
(* A users row and the supporters or fundraisers row with the same id.     *)
(***************************************************************************)
UserRow ==
    [state  : {"none", "live", "deleted"},
     role   : Roles \cup {None},
     wallet : Wallets \cup {None},
     email  : Emails \cup {None},
     image  : Keys \cup {None}]

NoUser == [state |-> "none", role |-> None, wallet |-> None, email |-> None,
           image |-> None]

(***************************************************************************)
(* An upload is spent once it has expired or a request has committed it.   *)
(***************************************************************************)
UploadStates == {"none", "presigned", "uploaded", "spent"}

(***************************************************************************)
(* imageObjectKey of a request: optionalImageObjectKey distinguishes an    *)
(* omitted key from null; a registration has a key or none.                *)
(***************************************************************************)
ImageUpdates == Keys \cup {None, Keep}

(***************************************************************************)
(* A request.  user is the row it inserts or has selected, old the image   *)
(* that row had under the lock and drop the result DeleteOldImageFile or   *)
(* DeleteImageObjectFile.                                                  *)
(***************************************************************************)
Request ==
    [pc     : {"idle", "stat", "copy", "select", "wait", "write", "email",
               "wallet", "check", "commit", "discard", "cleanup"},
     kind   : {"register", "replace", "delete", "none"},
     role   : Roles \cup {None},
     wallet : Wallets \cup {None},
     email  : Emails \cup {None},
     image  : ImageUpdates,
     user   : Users \cup {None},
     old    : Keys \cup {None},
     drop   : BOOLEAN]

Idle == [pc |-> "idle", kind |-> "none", role |-> None, wallet |-> None,
         email |-> None, image |-> None, user |-> None, old |-> None,
         drop |-> FALSE]

TypeOK ==
    /\ users \in [Users -> UserRow]
    /\ uploads \in [Keys -> UploadStates]
    /\ staging \in SUBSET Keys
    /\ canonical \in SUBSET Keys
    /\ requests \in [Slots -> Request]
    /\ abandoned \in SUBSET Keys
    /\ contended \in SUBSET Keys
    /\ faults \in 0 .. MaxFaults

Init ==
    /\ users = [u \in Users |-> NoUser]
    /\ uploads = [k \in Keys |-> "none"]
    /\ staging = {}
    /\ canonical = {}
    /\ requests = [s \in Slots |-> Idle]
    /\ abandoned = {}
    /\ contended = {}
    /\ faults = 0

-----------------------------------------------------------------------------
(***************************************************************************)
(* What the statements read.                                               *)
(***************************************************************************)
Live == {u \in Users : users[u].state = "live"}

(* The row lockSupporter and lockFundraiser select. *)
(* Variant: the role is not part of the condition. *)
Profile_anyRole(w, r) == {u \in Live : users[u].wallet = w}

Profile(w, r) == {u \in Live : users[u].wallet = w /\ users[u].role = r}

Running == {s \in Slots : requests[s].pc # "idle"}

(* Transactions that have taken the FOR UPDATE locks, or insert a row. *)
InTransaction ==
    {s \in Slots : requests[s].pc \in {"write", "email", "wallet", "check", "commit"}}

Locked(u) == \E s \in InTransaction : /\ requests[s].user = u
                                      /\ requests[s].kind # "register"

(***************************************************************************)
(* users_email_key and users_wallet_address_key, unique among the rows     *)
(* that are not deleted.  A statement writes its row first and enters it   *)
(* in the indexes afterwards, e-mail before wallet.  An UPDATE of the      *)
(* e-mail makes the new row enter both again, but the wallet is the old    *)
(* one's.                                                                  *)
(***************************************************************************)
(* The transactions that have written row u and are not finished. *)
Updaters(u) ==
    {t \in Slots : /\ requests[t].user = u /\ requests[t].kind # "register"
                   /\ requests[t].pc \in {"email", "check", "commit"}}

(* Row u has the value that s is about to enter. *)
Clash(s, u) ==
    /\ u # requests[s].user
    /\ \/ requests[s].pc = "email" /\ users[u].email = requests[s].email
       \/ requests[s].pc = "wallet" /\ users[u].wallet = requests[s].wallet

(* Transaction t has entered it and is not finished. *)
Entered(s, t) ==
    \/ /\ requests[s].pc = "email" /\ requests[t].email = requests[s].email
       /\ requests[t].pc \in {"wallet", "check", "commit"}
    \/ /\ requests[s].pc = "wallet" /\ requests[t].wallet = requests[s].wallet
       /\ requests[t].pc = "commit" /\ requests[t].kind = "register"

Duplicate(s) == \E u \in Live : Clash(s, u) /\ Updaters(u) = {}

(* Variant: uniqueness is looked up among the committed rows only. *)
Blockers_committedOnly(s) == {}

(* Whose end s has to wait for: they may still give the value up, or keep it. *)
Blockers(s) ==
    {t \in Slots \ {s} : \/ Entered(s, t)
                         \/ \E u \in Live : Clash(s, u) /\ t \in Updaters(u)}

(* A round of requests through s, each waiting for the next. *)
Deadlocked(s) ==
    \E n \in 1 .. Cardinality(Slots) : \E round \in [1 .. n -> Slots] :
        /\ round[1] = s
        /\ \A i \in 1 .. n - 1 : round[i + 1] \in Blockers(round[i])
        /\ s \in Blockers(round[n])

(* The image column after the request. *)
NewImage(q) == IF q.image = Keep THEN q.old ELSE q.image

imageObjectKeyChanged(q) == q.old # None /\ NewImage(q) # q.old

(* The row the request commits. *)
(* Variant: an omitted key is written to the image column. *)
CommittedRow_rawImage(q) ==
    IF q.kind = "delete"
      THEN [NoUser EXCEPT !.state = "deleted"]
      ELSE [state |-> "live", role |-> q.role, wallet |-> q.wallet,
            email |-> q.email, image |-> q.image]

CommittedRow(q) ==
    IF q.kind = "delete"
      THEN [NoUser EXCEPT !.state = "deleted"]
      ELSE [state |-> "live", role |-> q.role, wallet |-> q.wallet,
            email |-> q.email, image |-> NewImage(q)]

(***************************************************************************)
(* imageStillReferenced: a replacement looks at every row, a deletion at   *)
(* the rows of users that are not deleted.  Both run inside the            *)
(* transaction and see the committed rows and what it has written itself.  *)
(***************************************************************************)
(* Variant: only the table of the request's own role is searched. *)
imageStillReferenced_ownTable(s) ==
    LET q == requests[s]
        rows == [users EXCEPT ![q.user] = CommittedRow(q)] IN
    \E u \in Users :
        /\ rows[u].image = q.old /\ rows[u].role = q.role
        /\ q.kind = "delete" => rows[u].state = "live"

imageStillReferenced(s) ==
    LET q == requests[s]
        rows == [users EXCEPT ![q.user] = CommittedRow(q)] IN
    \E u \in Users :
        /\ rows[u].image = q.old
        /\ q.kind = "delete" => rows[u].state = "live"

-----------------------------------------------------------------------------
(***************************************************************************)
(* Clients.                                                                *)
(***************************************************************************)
(* Nobody owns a key: whoever knows it may send it, any number of times.   *)
MaySend(k) == k \in Keys => uploads[k] # "none"

(* The key k, if another request may be giving it up, or has it in hand.   *)
GivenUp(s, k) == {c \in Keys : c = k /\ \E t \in Slots \ {s} : requests[t].old = c}

InHand(s, k) == {c \in Keys : c = k /\ \E t \in Slots \ {s} : requests[t].image = c}

(* A decoded and validated request begins in the free slot s; an invalid   *)
(* body is answered 422 and changes nothing.                               *)
Begin(s, q) ==
    /\ MaySend(q.image)
    /\ requests' = [requests EXCEPT ![s] = q]
    /\ contended' = contended \cup GivenUp(s, q.image)
    /\ UNCHANGED <<users, uploads, staging, canonical, abandoned, faults>>

(* POST /uploads/profile-image/presign: a fresh UUID names the key. *)
PresignProfileImage(k) ==
    /\ uploads[k] = "none"
    /\ uploads' = [uploads EXCEPT ![k] = "presigned"]
    /\ UNCHANGED <<users, staging, canonical, requests, abandoned, contended, faults>>

(* The client's PUT to the presigned URL, possibly more than once. *)
Upload(k) ==
    /\ uploads[k] # "none"
    /\ k \notin staging
    /\ staging' = staging \cup {k}
    /\ uploads' = [uploads EXCEPT ![k] = IF @ = "presigned" THEN "uploaded" ELSE @]
    /\ UNCHANGED <<users, canonical, requests, abandoned, contended, faults>>

(* The bucket expires objects under tmp/, whoever is using them. *)
ExpireUpload(k) ==
    /\ k \in staging
    /\ staging' = staging \ {k}
    /\ uploads' = [uploads EXCEPT ![k] = "spent"]
    /\ UNCHANGED <<users, canonical, requests, abandoned, contended, faults>>

(* POST /register/supporter and /register/fundraiser. *)
HandleRegister(s, u, w, r, e, k) ==
    /\ users[u].state = "none"
    /\ \A t \in Running : requests[t].user # u
    /\ Begin(s, [Idle EXCEPT !.pc = IF k = None THEN "email" ELSE "stat",
                             !.kind = "register", !.role = r, !.wallet = w,
                             !.email = e, !.image = k, !.user = u])

(* PUT /supporter/profile and /fundraiser/profile. *)
HandleReplaceProfile(s, w, r, e, i) ==
    Begin(s, [Idle EXCEPT !.pc = IF i \in Keys THEN "stat" ELSE "select",
                          !.kind = "replace", !.role = r, !.wallet = w,
                          !.email = e, !.image = i])

(* DELETE /supporter/profile and /fundraiser/profile. *)
HandleDeleteProfile(s, w, r) ==
    Begin(s, [Idle EXCEPT !.pc = "select", !.kind = "delete", !.role = r, !.wallet = w])

-----------------------------------------------------------------------------
(***************************************************************************)
(* The service: promoteImageObjectKey, the repository's transaction,       *)
(* discardStagingImage and the removal of the old image.                   *)
(***************************************************************************)
Goto(s, pc) == requests' = [requests EXCEPT ![s].pc = pc]

(* Objects whose last use ends with the request: promoted for nothing, or  *)
(* unlinked without having been removed.                                   *)
LeftBehind(q) ==
    {k \in Keys : /\ k = q.image
                  /\ q.pc \in {"select", "wait", "write", "email", "wallet", "check", "commit"}
                  /\ \A u \in Live : users[u].image # k}
        \cup {k \in Keys : k = q.old /\ q.drop /\ q.pc \in {"discard", "cleanup"}}

(* An error answer: the transaction, if any, is rolled back. *)
Refuse(s) ==
    /\ requests' = [requests EXCEPT ![s] = Idle]
    /\ abandoned' = abandoned \cup LeftBehind(requests[s])
    /\ UNCHANGED <<users, uploads, staging, canonical, contended>>

(* Promote: StatObject of the canonical key. *)
PromoteStat(s) ==
    LET q == requests[s]
        next == IF q.kind = "register" THEN "email" ELSE "select" IN
    /\ q.pc = "stat"
    /\ Goto(s, IF q.image \in canonical THEN next ELSE "copy")
    /\ UNCHANGED <<users, uploads, staging, canonical, abandoned, contended, faults>>

(* Variant: the staged object is moved instead of copied. *)
PromoteCopy_move(s) ==
    LET q == requests[s] IN
    /\ q.pc = "copy"
    /\ UNCHANGED <<users, uploads, abandoned, contended, faults>>
    /\ IF q.image \in staging
         THEN /\ canonical' = canonical \cup {q.image}
              /\ staging' = staging \ {q.image}
              /\ Goto(s, IF q.kind = "register" THEN "email" ELSE "select")
         ELSE requests' = [requests EXCEPT ![s] = Idle] /\ UNCHANGED <<canonical, staging>>

(* Promote: CopyObject, or ErrObjectNotFound. *)
PromoteCopy(s) ==
    LET q == requests[s] IN
    /\ q.pc = "copy"
    /\ UNCHANGED <<users, uploads, staging, abandoned, contended, faults>>
    /\ IF q.image \in staging
         THEN /\ canonical' = canonical \cup {q.image}
              /\ Goto(s, IF q.kind = "register" THEN "email" ELSE "select")
         ELSE requests' = [requests EXCEPT ![s] = Idle] /\ UNCHANGED canonical

(* SELECT ... FOR UPDATE on the row u, free of other locks. *)
TakeLock(s, u) ==
    /\ requests' = [requests EXCEPT ![s].pc = "write", ![s].user = u,
                                    ![s].old = users[u].image]
    /\ contended' = contended \cup GivenUp(s, users[u].image)
                               \cup InHand(s, users[u].image)
    /\ UNCHANGED <<users, uploads, staging, canonical, abandoned, faults>>

(* lockSupporter, lockFundraiser: the statement's snapshot names the row;  *)
(* no row is ErrProfileNotFound, a locked row is waited for.               *)
SelectProfile(s) ==
    LET q == requests[s] IN
    /\ q.pc = "select"
    /\ \/ Profile(q.wallet, q.role) = {} /\ Refuse(s) /\ UNCHANGED faults
       \/ \E u \in Profile(q.wallet, q.role) :
              \/ ~Locked(u) /\ TakeLock(s, u)
              \/ /\ Locked(u)
                 /\ requests' = [requests EXCEPT ![s].pc = "wait", ![s].user = u]
                 /\ UNCHANGED <<users, uploads, staging, canonical, abandoned, contended, faults>>

(* The lock is granted: PostgreSQL evaluates the condition again. *)
GrantLock(s) ==
    LET q == requests[s] IN
    /\ q.pc = "wait"
    /\ ~Locked(q.user)
    /\ \/ q.user \in Live /\ TakeLock(s, q.user)
       \/ q.user \notin Live /\ Refuse(s) /\ UNCHANGED faults

(* UPDATE of e-mail and profile, or the clearing of the image and the soft *)
(* delete, which takes the row out of the indexes.  A deletion may end     *)
(* with ErrFundraiserHasActiveCampaigns, left open here (CampaignStore).   *)
WriteProfile(s) ==
    LET q == requests[s] IN
    /\ q.pc = "write"
    /\ UNCHANGED faults
    /\ \/ q.kind = "delete" /\ q.role = "fundraiser" /\ Refuse(s)
       \/ /\ Goto(s, IF q.kind = "delete" THEN "check" ELSE "email")
          /\ UNCHANGED <<users, uploads, staging, canonical, abandoned, contended>>

(* The entry in users_email_key, of INSERT INTO users and of the UPDATE:   *)
(* ErrEmailAlreadyExists, or a wait for whoever may give the value up.     *)
ClaimEmail(s) ==
    LET q == requests[s] IN
    /\ q.pc = "email"
    /\ UNCHANGED faults
    /\ \/ Duplicate(s) /\ Refuse(s)
       \/ /\ ~Duplicate(s) /\ Blockers(s) = {}
          /\ Goto(s, IF q.kind = "register" THEN "wallet" ELSE "check")
          /\ UNCHANGED <<users, uploads, staging, canonical, abandoned, contended>>

(* The entry in users_wallet_address_key, then the row of the role. *)
ClaimWallet(s) ==
    /\ requests[s].pc = "wallet"
    /\ UNCHANGED faults
    /\ \/ Duplicate(s) /\ Refuse(s)
       \/ /\ ~Duplicate(s) /\ Blockers(s) = {}
          /\ Goto(s, "commit")
          /\ UNCHANGED <<users, uploads, staging, canonical, abandoned, contended>>

(* PostgreSQL ends one of the statements that wait for each other (40P01), *)
(* which names no constraint: the request fails and is rolled back.        *)
DeadlockDetected(s) ==
    /\ requests[s].pc \in {"email", "wallet"}
    /\ Deadlocked(s)
    /\ Refuse(s)
    /\ UNCHANGED faults

(* The reference check of the image the row no longer has. *)
CheckReferences(s) ==
    LET q == requests[s]
        unlinked == IF q.kind = "delete" THEN q.old # None ELSE imageObjectKeyChanged(q) IN
    /\ q.pc = "check"
    /\ requests' = [requests EXCEPT ![s].pc = "commit",
                       ![s].drop = unlinked /\ ~imageStillReferenced(s)]
    /\ UNCHANGED <<users, uploads, staging, canonical, abandoned, contended, faults>>

(* What is left to do once the transaction is committed. *)
(* Variant: the old image is removed only when a new one takes its place. *)
AfterCommit_noCleanup(q) == IF q.image \in Keys THEN "discard" ELSE "idle"

AfterCommit(q) ==
    IF q.image \in Keys THEN "discard" ELSE IF q.drop THEN "cleanup" ELSE "idle"

(* The upload that the request has brought is spent. *)
Spent(q) == [k \in Keys |-> IF k = q.image THEN "spent" ELSE uploads[k]]

(* The request goes on at pc, with the images it has to remove, or has     *)
(* been answered.                                                          *)
Continue(s, pc) ==
    LET q == requests[s] IN
    requests' = [requests EXCEPT ![s] =
        IF pc = "idle" THEN Idle
        ELSE [Idle EXCEPT !.pc = pc, !.image = q.image, !.drop = q.drop,
                          !.old = IF q.drop THEN q.old ELSE None]]

Commit(s) ==
    LET q == requests[s] IN
    /\ q.pc = "commit"
    /\ users' = [users EXCEPT ![q.user] = CommittedRow(q)]
    /\ Continue(s, AfterCommit(q))
    /\ uploads' = Spent(q)
    /\ abandoned' = abandoned \ {q.image}
    /\ UNCHANGED <<staging, canonical, contended, faults>>

(* discardStagingImage *)
DiscardStaging(s) ==
    LET q == requests[s] IN
    /\ q.pc = "discard"
    /\ staging' = staging \ {q.image}
    /\ Continue(s, IF q.drop THEN "cleanup" ELSE "idle")
    /\ UNCHANGED <<users, uploads, canonical, abandoned, contended, faults>>

(* objectDeleter.Delete, then the answer. *)
DeleteOldImage(s) ==
    LET q == requests[s] IN
    /\ q.pc = "cleanup"
    /\ canonical' = canonical \ {q.old}
    /\ abandoned' = abandoned \ {q.old}
    /\ Continue(s, "idle")
    /\ UNCHANGED <<users, uploads, staging, contended, faults>>

-----------------------------------------------------------------------------
(***************************************************************************)
(* Failures.                                                               *)
(***************************************************************************)
Fault == faults < MaxFaults /\ faults' = faults + 1

(* A call before the commit fails, or the client goes away and its context *)
(* is cancelled.                                                           *)
CallFails(s) ==
    /\ Fault
    /\ requests[s].pc \in {"stat", "copy", "select", "wait", "write", "email", "wallet",
                           "check", "commit"}
    /\ Refuse(s)

(* COMMIT takes effect but its answer is lost: the service sees an error,  *)
(* and neither the staged upload nor the old image is removed.             *)
CommitUnconfirmed(s) ==
    LET q == requests[s] IN
    /\ Fault
    /\ q.pc = "commit"
    /\ users' = [users EXCEPT ![q.user] = CommittedRow(q)]
    /\ requests' = [requests EXCEPT ![s] = Idle]
    /\ uploads' = Spent(q)
    /\ abandoned' = (abandoned \ {q.image}) \cup {k \in Keys : k = q.old /\ q.drop}
    /\ UNCHANGED <<staging, canonical, contended>>

(* Discard and Delete are best effort: a failure is only logged. *)
RemovalFails(s) ==
    LET q == requests[s] IN
    /\ Fault
    /\ q.pc \in {"discard", "cleanup"}
    /\ Continue(s, IF q.pc = "discard" /\ q.drop THEN "cleanup" ELSE "idle")
    /\ abandoned' = abandoned \cup {k \in Keys : k = q.old /\ q.pc = "cleanup"}
    /\ UNCHANGED <<users, uploads, staging, canonical, contended>>

(* The API process dies: open transactions roll back, cleanups are lost. *)
Crash ==
    /\ Fault
    /\ Running # {}
    /\ requests' = [s \in Slots |-> Idle]
    /\ abandoned' = abandoned \cup UNION {LeftBehind(requests[s]) : s \in Running}
    /\ UNCHANGED <<users, uploads, staging, canonical, contended>>

-----------------------------------------------------------------------------
Serve(s) ==
    \/ PromoteStat(s) \/ PromoteCopy(s)
    \/ SelectProfile(s) \/ GrantLock(s) \/ WriteProfile(s)
    \/ ClaimEmail(s) \/ ClaimWallet(s) \/ DeadlockDetected(s)
    \/ CheckReferences(s) \/ Commit(s)
    \/ DiscardStaging(s) \/ DeleteOldImage(s)

ClientStep ==
    \/ \E k \in Keys : PresignProfileImage(k) \/ Upload(k) \/ ExpireUpload(k)
    \/ \E s \in Slots \ Running, w \in Wallets, r \in Roles :
           \/ \E u \in Users, e \in Emails, k \in Keys \cup {None} :
                  HandleRegister(s, u, w, r, e, k)
           \/ \E e \in Emails, i \in ImageUpdates : HandleReplaceProfile(s, w, r, e, i)
           \/ HandleDeleteProfile(s, w, r)

FailureStep ==
    \/ \E s \in Slots : CallFails(s) \/ CommitUnconfirmed(s) \/ RemovalFails(s)
    \/ Crash

Next == ClientStep \/ (\E s \in Slots : Serve(s)) \/ FailureStep

Spec == Init /\ [][Next]_vars

-----------------------------------------------------------------------------
(***************************************************************************)
(* Among the users that are not deleted, whatever requests overlapped, no  *)
(* two have the same wallet, in whichever role, and no two the same        *)
(* e-mail.                                                                 *)
(***************************************************************************)
OneAccount ==
    \A u, v \in Live :
        u # v => users[u].wallet # users[v].wallet /\ users[u].email # users[v].email

(***************************************************************************)
(* The image a live profile names exists: no cleanup, started by a request *)
(* that found the image unreferenced, removes it after somebody came to    *)
(* reference it.  The code does not keep this: the check is made before    *)
(* the commit and the removal after it.                                    *)
(***************************************************************************)
ReferencedImageExists ==
    \A u \in Live : users[u].image # None => users[u].image \in canonical

(***************************************************************************)
(* What the code does keep, whatever requests overlap and whoever shares   *)
(* the image: a live profile loses its image only when, at some moment, a  *)
(* request was giving up that very key while another held it too.  A       *)
(* profile that merely names an image protects it against all of them.     *)
(***************************************************************************)
UncontendedImageExists ==
    \A u \in Live : users[u].image # None => users[u].image \in canonical \cup contended

(***************************************************************************)
(* Failed commits leave the file in tmp/ so the client can retry: until it *)
(* expires or some request commits it, an upload is there, whatever        *)
(* requests have failed, died or overlapped with it in hand.               *)
(***************************************************************************)
UploadKeptUntilCommit == \A k \in Keys : uploads[k] = "uploaded" => k \in staging

(***************************************************************************)
(* Storage leaks only through failures and through contention: an object   *)
(* under profiles/ is the image of a live profile, or in the hands of a    *)
(* running request, or was left behind by a request that failed, or one    *)
(* request was giving it up while another held it.                         *)
(***************************************************************************)
NoSilentLeak ==
    \A k \in canonical :
        \/ \E u \in Live : users[u].image = k
        \/ \E s \in Running : requests[s].image = k \/ requests[s].old = k
        \/ k \in abandoned \cup contended

(***************************************************************************)
(* The overlapping requests implement the account registry, in which       *)
(* registration, replacement and deletion are single steps.                *)
(***************************************************************************)
AccountOf(w) ==
    IF \E u \in Users : users[u].wallet = w
      THEN LET row == users[CHOOSE u \in Users : users[u].wallet = w] IN
           [role |-> row.role, email |-> row.email, image |-> row.image]
      ELSE None

AccountsOfWallets == [w \in Wallets |-> AccountOf(w)]

Registry == INSTANCE AccountRegistry WITH accounts <- AccountsOfWallets

ImplementsRegistry == Registry!RegistrySpec
=============================================================================
