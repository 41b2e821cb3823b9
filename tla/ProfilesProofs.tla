--------------------------- MODULE ProfilesProofs ---------------------------
(***************************************************************************)
(* Proofs about Profiles, for any set of users, wallets, e-mails, keys and *)
(* concurrent requests and any number of failures.                         *)
(*                                                                         *)
(* OneAccount speaks of committed rows only.  What makes it inductive is   *)
(* what the open transactions know: a locked row stays as it was read      *)
(* (LockInv), and an e-mail or wallet that has been entered in its index   *)
(* is held by no live row and by no other transaction (ReserveInv).  The   *)
(* same facts make every commit a step of AccountRegistry.  The properties *)
(* of images need ImageInv: who answers for each object while requests     *)
(* overlap.                                                                *)
(***************************************************************************)
EXTENDS Profiles, TLAPS

(* The steps at which a request has not committed. *)
Open == {"stat", "copy", "select", "wait", "write", "email", "wallet", "check", "commit"}

(* What a request carries at each step. *)
Shape(q) ==
    /\ q.pc \in Open => /\ q.kind \in {"register", "replace", "delete"}
                        /\ q.role \in Roles /\ q.wallet \in Wallets
    /\ q.pc \notin Open => q.kind = "none"
    /\ q.kind \in {"register", "replace"} => q.email \in Emails
    /\ q.kind = "delete" => q.image = None
    /\ q.kind = "register" => q.user \in Users /\ q.image # Keep /\ q.old = None
    /\ q.pc \in {"select", "wait", "write", "check"} => q.kind # "register"
    /\ q.pc = "email" => q.kind # "delete"
    /\ q.pc = "wallet" => q.kind = "register"
    /\ q.pc \in {"wait", "write", "email", "wallet", "check", "commit"} => q.user \in Users
    /\ q.pc \in {"stat", "copy", "discard"} => q.image \in Keys
    /\ q.pc \in {"stat", "copy", "select", "wait"} => q.old = None
    /\ q.pc = "cleanup" => q.drop
    /\ q.drop => q.old \in Keys /\ q.pc \in {"commit", "discard", "cleanup"}
    /\ q.pc \in {"idle", "discard", "cleanup"} /\ ~q.drop => q.old = None

ShapeInv == \A s \in Slots : Shape(requests[s])

(* A request that has locked its row ... *)
Holding(q) ==
    q.pc \in {"write", "email", "wallet", "check", "commit"} /\ q.kind # "register"

(* ... has entered its e-mail ... *)
HasEmail(q) == q.pc \in {"wallet", "check", "commit"} /\ q.kind # "delete"

(* ... and its wallet. *)
HasWallet(q) == q.pc = "commit" /\ q.kind = "register"

(* Nobody else touches the row that q has locked, or the id it will insert. *)
Locks(s, q) ==
    /\ Holding(q) => /\ users[q.user].state = "live"
                     /\ users[q.user].wallet = q.wallet
                     /\ users[q.user].role = q.role
                     /\ users[q.user].image = q.old
    /\ q.pc = "wait" => /\ users[q.user].state # "none"
                        /\ users[q.user].state = "live" =>
                               users[q.user].wallet = q.wallet /\ users[q.user].role = q.role
    /\ q.kind = "register" => users[q.user].state = "none"
    /\ \A t \in Slots \ {s} : requests[t].user = q.user =>
           /\ ~(Holding(q) /\ Holding(requests[t]))
           /\ ~(q.kind = "register" /\ requests[t].kind = "register")

LockInv == \A s \in Slots : Locks(s, requests[s])

(* What q has entered is held by no live row and by no other transaction. *)
Reserves(s, q) ==
    /\ HasEmail(q) =>
           /\ \A u \in Live \ {q.user} : users[u].email # q.email
           /\ \A t \in Slots \ {s} : HasEmail(requests[t]) => requests[t].email # q.email
    /\ HasWallet(q) =>
           /\ \A u \in Live \ {q.user} : users[u].wallet # q.wallet
           /\ \A t \in Slots \ {s} : HasWallet(requests[t]) => requests[t].wallet # q.wallet

ReserveInv == \A s \in Slots : Reserves(s, requests[s])

AccountInv == TypeOK /\ ShapeInv /\ LockInv /\ ReserveInv /\ OneAccount

-----------------------------------------------------------------------------
(* The idle record. *)
LEMMA IdleShape ==
    /\ Idle \in Request /\ Shape(Idle)
    /\ Idle.pc = "idle" /\ Idle.kind = "none" /\ ~Idle.drop /\ Idle.image = None
    /\ Idle.old = None /\ Idle.user = None
  BY DEF Idle, Request, ImageUpdates, Shape, Open

(* A request without a transaction has locked and entered nothing. *)
LEMMA NothingHeld ==
    ASSUME NEW s, NEW q, q.kind = "none", q.pc \notin Open
    PROVE  Locks(s, q) /\ Reserves(s, q)
  BY DEF Locks, Reserves, Holding, HasEmail, HasWallet, Open

(* No request, no account. *)
LEMMA InitAccounts == Init => AccountInv
  <1> SUFFICES ASSUME Init PROVE AccountInv
    OBVIOUS
  <1> USE DEF Init
  <1>1. NoUser \in UserRow /\ Idle \in Request
    BY DEF NoUser, UserRow, Idle, Request, ImageUpdates
  <1>2. TypeOK
    BY <1>1, ProfileAssumption DEF TypeOK, UploadStates
  <1>3. Live = {}
    BY DEF Live, NoUser
  <1>4. ShapeInv
    BY IdleShape DEF ShapeInv
  <1>5. LockInv /\ ReserveInv
    BY IdleShape, NothingHeld DEF LockInv, ReserveInv, Open
  <1>6. OneAccount
    BY <1>3 DEF OneAccount
  <1> QED BY <1>2, <1>4, <1>5, <1>6 DEF AccountInv

(* The row a request commits is well typed. *)
LEMMA RowType ==
    ASSUME TypeOK, ShapeInv, NEW s \in Slots, requests[s].pc = "commit"
    PROVE  requests[s].user \in Users /\ CommittedRow(requests[s]) \in UserRow
  <1> DEFINE q == requests[s]
  <1>1. q \in Request /\ q.user \in Users
    BY DEF TypeOK, ShapeInv, Shape
  <1>2. NewImage(q) \in Keys \cup {None}
    BY <1>1 DEF NewImage, Request, ImageUpdates
  <1>3. q.role \in Roles \cup {None} /\ q.wallet \in Wallets \cup {None}
        /\ q.email \in Emails \cup {None}
    BY <1>1 DEF Request
  <1> HIDE DEF q
  <1>4. [NoUser EXCEPT !.state = "deleted"] \in UserRow
    BY DEF NoUser, UserRow
  <1>5. [state |-> "live", role |-> q.role, wallet |-> q.wallet, email |-> q.email,
         image |-> NewImage(q)] \in UserRow
    BY <1>2, <1>3 DEF UserRow
  <1>6. CommittedRow(q) \in UserRow
    BY <1>4, <1>5 DEF CommittedRow
  <1> QED BY <1>1, <1>6 DEF q

(* The columns of that row. *)
LEMMA RowColumns ==
    ASSUME NEW q
    PROVE  /\ q.kind = "delete" => /\ CommittedRow(q).state = "deleted"
                                   /\ CommittedRow(q).image = None
                                   /\ CommittedRow(q).wallet = None
           /\ q.kind # "delete" => /\ CommittedRow(q).state = "live"
                                   /\ CommittedRow(q).wallet = q.wallet
                                   /\ CommittedRow(q).role = q.role
                                   /\ CommittedRow(q).email = q.email
                                   /\ CommittedRow(q).image = NewImage(q)
  <1>1. CASE q.kind = "delete"
    BY <1>1 DEF CommittedRow, NoUser
  <1>2. CASE q.kind # "delete"
    BY <1>2 DEF CommittedRow
  <1> QED BY <1>1, <1>2

OnlySlot(s) == \A t \in Slots \ {s} : requests'[t] = requests[t]

(* A step of one request. *)
LEMMA SlotStep ==
    ASSUME TypeOK, ShapeInv, NEW s \in Slots, NEW q \in Request, Shape(q),
           requests' = [requests EXCEPT ![s] = q]
    PROVE  /\ requests' \in [Slots -> Request] /\ ShapeInv'
           /\ requests'[s] = q /\ OnlySlot(s)
  <1>1. /\ requests' \in [Slots -> Request]
        /\ requests'[s] = q
        /\ \A t \in Slots \ {s} : requests'[t] = requests[t]
    BY DEF TypeOK
  <1>2. ASSUME NEW t \in Slots PROVE Shape(requests'[t])
    <2>1. CASE t = s BY <1>1, <2>1
    <2>2. CASE t # s BY <1>1, <2>2 DEF ShapeInv
    <2> QED BY <2>1, <2>2
  <1> QED BY <1>1, <1>2 DEF ShapeInv, OnlySlot

(* A step of one request that leaves the rows alone. *)
LEMMA LockStep ==
    ASSUME LockInv, ReserveInv, OneAccount, NEW s \in Slots,
           users' = users, OnlySlot(s),
           Locks(s, requests'[s]), Reserves(s, requests'[s])
    PROVE  LockInv' /\ ReserveInv' /\ OneAccount'
  <1>1. Live' = Live
    BY DEF Live
  <1>2. ASSUME NEW t \in Slots PROVE Locks(t, requests[t])'
    <2>1. CASE t = s
      BY <2>1 DEF OnlySlot, Locks, Holding
    <2>2. CASE t # s
      <3>1. Locks(t, requests[t]) /\ requests'[t] = requests[t]
        BY <2>2 DEF LockInv, OnlySlot
      <3>2. ASSUME NEW r \in Slots \ {t}, requests'[r].user = requests[t].user
            PROVE  /\ ~(Holding(requests[t]) /\ Holding(requests'[r]))
                   /\ ~(requests[t].kind = "register" /\ requests'[r].kind = "register")
        <4>1. CASE r = s
          BY <2>2, <3>2, <4>1 DEF Locks
        <4>2. CASE r # s
          BY <3>1, <3>2, <4>2 DEF Locks, OnlySlot
        <4> QED BY <4>1, <4>2
      <3> QED BY <3>1, <3>2 DEF Locks, Holding
    <2> QED BY <2>1, <2>2
  <1>3. ASSUME NEW t \in Slots PROVE Reserves(t, requests[t])'
    <2>1. CASE t = s
      BY <1>1, <2>1 DEF OnlySlot, Reserves, HasEmail, HasWallet
    <2>2. CASE t # s
      <3>1. Reserves(t, requests[t]) /\ requests'[t] = requests[t]
        BY <2>2 DEF ReserveInv, OnlySlot
      <3>2. ASSUME NEW r \in Slots \ {t}
            PROVE  /\ HasEmail(requests[t]) /\ HasEmail(requests'[r]) =>
                          requests'[r].email # requests[t].email
                   /\ HasWallet(requests[t]) /\ HasWallet(requests'[r]) =>
                          requests'[r].wallet # requests[t].wallet
        <4>1. CASE r = s
          BY <2>2, <4>1 DEF Reserves
        <4>2. CASE r # s
          BY <3>1, <3>2, <4>2 DEF Reserves, OnlySlot
        <4> QED BY <4>1, <4>2
      <3> QED BY <1>1, <3>1, <3>2 DEF Reserves, HasEmail, HasWallet
    <2> QED BY <2>1, <2>2
  <1>4. OneAccount'
    BY <1>1 DEF OneAccount
  <1> QED BY <1>2, <1>3, <1>4 DEF LockInv, ReserveInv

-----------------------------------------------------------------------------
(* The types of the object store, the uploads and the histories. *)
Stored ==
    /\ uploads \in [Keys -> UploadStates]
    /\ staging \in SUBSET Keys /\ canonical \in SUBSET Keys
    /\ abandoned \in SUBSET Keys /\ contended \in SUBSET Keys
    /\ faults \in 0 .. MaxFaults

LEMMA KeySets ==
    /\ \A q : LeftBehind(q) \subseteq Keys
    /\ \A s, k : GivenUp(s, k) \subseteq Keys /\ InHand(s, k) \subseteq Keys
  BY DEF LeftBehind, GivenUp, InHand

LEMMA StoreStep ==
    ASSUME TypeOK, ShapeInv, [Next]_vars
    PROVE  Stored'
  <1>1. Stored
    BY DEF TypeOK, Stored
  <1>2. \A s \in Slots : Refuse(s) => /\ uploads' = uploads /\ staging' = staging
                                      /\ canonical' = canonical /\ contended' = contended
                                      /\ abandoned' \in SUBSET Keys
    BY <1>1, KeySets DEF Stored, Refuse
  <1>3. \A s \in Slots, u \in Users : TakeLock(s, u) => Stored'
    BY <1>1, KeySets DEF Stored, TakeLock
  <1>4. \A s \in Slots : Shape(requests[s])
    BY DEF ShapeInv
  <1>5. ASSUME ClientStep PROVE Stored'
    <2>1. \A k \in Keys : PresignProfileImage(k) \/ Upload(k) \/ ExpireUpload(k) => Stored'
      BY <1>1 DEF Stored, PresignProfileImage, Upload, ExpireUpload, UploadStates
    <2>2. \A s \in Slots : \A q : Begin(s, q) => Stored'
      BY <1>1, KeySets DEF Stored, Begin
    <2> QED BY <1>5, <2>1, <2>2 DEF ClientStep, HandleRegister, HandleReplaceProfile,
               HandleDeleteProfile
  <1>6. ASSUME NEW s \in Slots, Serve(s) PROVE Stored'
    <2>1. CASE PromoteStat(s) \/ PromoteCopy(s)
      BY <1>1, <1>4, <2>1 DEF Stored, PromoteStat, PromoteCopy, Shape
    <2>2. CASE SelectProfile(s)
      BY <1>1, <1>2, <1>3, <2>2 DEF Stored, SelectProfile, Profile, Live
    <2>3. CASE GrantLock(s)
      BY <1>1, <1>2, <1>3, <2>3 DEF Stored, GrantLock, Live
    <2>4. CASE WriteProfile(s) \/ ClaimEmail(s) \/ ClaimWallet(s) \/ DeadlockDetected(s)
      BY <1>1, <1>2, <2>4 DEF Stored, WriteProfile, ClaimEmail, ClaimWallet, DeadlockDetected
    <2>5. CASE CheckReferences(s) \/ DiscardStaging(s) \/ DeleteOldImage(s)
      BY <1>1, <2>5 DEF Stored, CheckReferences, DiscardStaging, DeleteOldImage
    <2>6. CASE Commit(s)
      BY <1>1, <2>6 DEF Stored, Commit, Spent, UploadStates
    <2> QED BY <1>6, <2>1, <2>2, <2>3, <2>4, <2>5, <2>6 DEF Serve
  <1>7. ASSUME FailureStep PROVE Stored'
    <2>1. Fault
      BY <1>7 DEF FailureStep, CallFails, CommitUnconfirmed, RemovalFails, Crash
    <2>2. faults' \in 0 .. MaxFaults
      BY <1>1, <2>1, ProfileAssumption DEF Stored, Fault
    <2>3. \A s \in Slots : CallFails(s) => Stored'
      BY <1>1, <1>2, <2>2 DEF Stored, CallFails
    <2>4. \A s \in Slots : CommitUnconfirmed(s) => Stored'
      BY <1>1, <2>2 DEF Stored, CommitUnconfirmed, Spent, UploadStates
    <2>5. \A s \in Slots : RemovalFails(s) => Stored'
      BY <1>1, <2>2 DEF Stored, RemovalFails
    <2>6. Crash => Stored'
      BY <1>1, <2>2, KeySets DEF Stored, Crash
    <2> QED BY <1>7, <2>3, <2>4, <2>5, <2>6 DEF FailureStep
  <1>8. CASE UNCHANGED vars
    BY <1>1, <1>8 DEF Stored, vars
  <1> QED BY <1>5, <1>6, <1>7, <1>8 DEF Next

(* What the account invariant says of the rows and the requests. *)
Requested ==
    /\ users \in [Users -> UserRow] /\ requests \in [Slots -> Request]
    /\ ShapeInv /\ LockInv /\ ReserveInv /\ OneAccount

(* p is the request q at another step. *)
Moved(p, q) ==
    /\ p.kind = q.kind /\ p.role = q.role /\ p.wallet = q.wallet /\ p.email = q.email
    /\ p.image = q.image /\ p.user = q.user /\ p.old = q.old /\ p.drop = q.drop

LEMMA GotoStep ==
    ASSUME AccountInv, NEW s \in Slots, NEW pc \in Open, requests[s].pc \in Open, Goto(s, pc),
           pc \in {"select", "wait", "write", "check"} => requests[s].kind # "register",
           pc = "email" => requests[s].kind # "delete",
           pc = "wallet" => requests[s].kind = "register",
           pc \in {"wait", "write", "email", "wallet", "check", "commit"}
               => requests[s].user \in Users,
           pc \in {"stat", "copy"} => requests[s].image \in Keys,
           pc \in {"stat", "copy", "select", "wait"} => requests[s].old = None,
           requests[s].drop => pc = "commit"
    PROVE  /\ requests' \in [Slots -> Request] /\ ShapeInv' /\ OnlySlot(s)
           /\ requests'[s].pc = pc /\ Moved(requests'[s], requests[s])
  <1>1. PICK p : p = [requests[s] EXCEPT !.pc = pc]
    OBVIOUS
  <1>2. requests[s] \in Request /\ requests \in [Slots -> Request] /\ Shape(requests[s])
    BY DEF AccountInv, TypeOK, ShapeInv
  <1>3. p \in Request /\ p.pc = pc /\ Moved(p, requests[s])
    BY <1>1, <1>2 DEF Request, Moved, Open
  <1>4. requests' = [requests EXCEPT ![s] = p]
    BY <1>1, <1>2 DEF Goto
  <1>5. Shape(p)
    BY <1>2, <1>3 DEF Shape, Moved, Open
  <1> QED BY <1>3, <1>4, <1>5, SlotStep DEF AccountInv

(* After the commit a request has at most two images left to remove. *)
LEMMA ContinueStep ==
    ASSUME AccountInv, NEW s \in Slots, NEW pc \in {"idle", "discard", "cleanup"},
           Continue(s, pc), requests[s].pc \in {"commit", "discard", "cleanup"},
           pc = "discard" => requests[s].image \in Keys,
           pc = "cleanup" => requests[s].drop
    PROVE  /\ requests' \in [Slots -> Request] /\ ShapeInv' /\ OnlySlot(s)
           /\ requests'[s].pc = pc /\ requests'[s].kind = "none" /\ pc \notin Open
           /\ pc = "idle" => requests'[s] = Idle
           /\ pc # "idle" => /\ requests'[s].image = requests[s].image
                             /\ requests'[s].drop = requests[s].drop
                             /\ requests'[s].old = IF requests[s].drop THEN requests[s].old
                                                   ELSE None
  <1>1. CASE pc = "idle"
    BY <1>1, IdleShape, SlotStep DEF Continue, AccountInv, Open
  <1>2. CASE pc # "idle"
    <2>1. PICK p : p = [Idle EXCEPT !.pc = pc, !.image = requests[s].image,
                                    !.drop = requests[s].drop,
                                    !.old = IF requests[s].drop THEN requests[s].old ELSE None]
      OBVIOUS
    <2>2. requests[s] \in Request /\ requests \in [Slots -> Request] /\ Shape(requests[s])
      BY DEF AccountInv, TypeOK, ShapeInv
    <2>3. /\ p.pc = pc /\ p.kind = "none" /\ p.image = requests[s].image
          /\ p.drop = requests[s].drop
          /\ p.old = IF requests[s].drop THEN requests[s].old ELSE None
      BY <2>1 DEF Idle
    <2>4. p \in Request
      BY <1>2, <2>1, <2>2 DEF Idle, Request
    <2>5. requests' = [requests EXCEPT ![s] = p]
      BY <1>2, <2>1 DEF Continue
    <2>6. Shape(p)
      BY <1>2, <2>2, <2>3 DEF Shape, Open
    <2> QED BY <1>2, <2>3, <2>4, <2>5, <2>6, SlotStep DEF AccountInv, Open
  <1> QED BY <1>1, <1>2

-----------------------------------------------------------------------------
(***************************************************************************)
(* The account invariant, action by action.                                *)
(***************************************************************************)
LEMMA KeptStep ==
    ASSUME AccountInv, NEW s \in Slots, users' = users,
           requests' \in [Slots -> Request], ShapeInv', OnlySlot(s),
           Locks(s, requests'[s]), Reserves(s, requests'[s])
    PROVE  Requested'
  BY LockStep DEF AccountInv, TypeOK, Requested

(* A request goes on, having locked and entered no more than before. *)
LEMMA MovedLocks ==
    ASSUME AccountInv, NEW s \in Slots, NEW p, Moved(p, requests[s]),
           Holding(p) => Holding(requests[s]),
           p.pc = "wait" => requests[s].pc = "wait"
    PROVE  Locks(s, p)
  <1>1. Locks(s, requests[s])
    BY DEF AccountInv, LockInv
  <1> QED BY <1>1 DEF Locks, Moved

LEMMA EndStep ==
    ASSUME AccountInv, NEW s \in Slots, requests' = [requests EXCEPT ![s] = Idle],
           users' = users
    PROVE  Requested'
  <1>1. /\ requests' \in [Slots -> Request] /\ ShapeInv'
        /\ requests'[s] = Idle /\ OnlySlot(s)
    BY SlotStep, IdleShape DEF AccountInv
  <1>2. Locks(s, Idle) /\ Reserves(s, Idle)
    BY IdleShape, NothingHeld DEF Open
  <1> QED BY <1>1, <1>2, KeptStep

LEMMA RefuseStep ==
    ASSUME AccountInv, NEW s \in Slots, Refuse(s)
    PROVE  Requested'
  BY EndStep DEF Refuse

(* A request begins, with nothing promoted and nothing to remove. *)
Fresh(q) ==
    /\ q.pc \in {"stat", "email", "select"} /\ q.old = None /\ ~q.drop
    /\ q.pc # "stat" => q.image \notin Keys

Begins(s) == \E q : Fresh(q) /\ Begin(s, q) /\ requests'[s] = q /\ OnlySlot(s)

LEMMA BeginStep ==
    ASSUME AccountInv, NEW s \in Slots, NEW w \in Wallets, NEW r \in Roles,
           \/ \E u \in Users, e \in Emails, k \in Keys \cup {None} :
                  HandleRegister(s, u, w, r, e, k)
           \/ \E e \in Emails, i \in ImageUpdates : HandleReplaceProfile(s, w, r, e, i)
           \/ HandleDeleteProfile(s, w, r)
    PROVE  Requested' /\ Begins(s)
  <1>1. ASSUME NEW q \in Request, Shape(q), Begin(s, q), Fresh(q), ~Holding(q), ~HasEmail(q),
               ~HasWallet(q),
               q.kind = "register" =>
                   /\ users[q.user].state = "none"
                   /\ \A t \in Running : requests[t].user # q.user
        PROVE  Requested' /\ Begins(s)
    <2>1. /\ requests' \in [Slots -> Request] /\ ShapeInv'
          /\ requests'[s] = q /\ OnlySlot(s) /\ users' = users
      BY <1>1, SlotStep DEF Begin, AccountInv
    <2>2. \A t \in Slots \ {s} : requests[t].kind = "register" => t \in Running
      BY DEF AccountInv, ShapeInv, Shape, Running, Open
    <2>3. Locks(s, q) /\ Reserves(s, q)
      BY <1>1, <2>2 DEF Locks, Reserves, Fresh
    <2>4. Requested'
      BY <2>1, <2>3, KeptStep
    <2> QED BY <1>1, <2>1, <2>4 DEF Begins
  <1>2. CASE \E u \in Users, e \in Emails, k \in Keys \cup {None} :
                 HandleRegister(s, u, w, r, e, k)
    <2>1. PICK u \in Users, e \in Emails, k \in Keys \cup {None} :
                 HandleRegister(s, u, w, r, e, k)
      BY <1>2
    <2>2. PICK q : /\ q = [Idle EXCEPT !.pc = IF k = None THEN "email" ELSE "stat",
                             !.kind = "register", !.role = r, !.wallet = w,
                             !.email = e, !.image = k, !.user = u]
                   /\ Begin(s, q)
      BY <2>1 DEF HandleRegister
    <2>3. /\ q.pc \in {"email", "stat"} /\ (k \in Keys <=> q.pc = "stat")
          /\ q.kind = "register" /\ q.user = u /\ q.role = r /\ q.wallet = w
          /\ q.email = e /\ q.image = k /\ q.old = None /\ ~q.drop
      BY <2>2, ProfileAssumption DEF Idle
    <2>4. q \in Request
      BY <2>2 DEF Idle, Request, ImageUpdates
    <2>5. Shape(q)
      BY <2>3, ProfileAssumption DEF Shape, Open
    <2>6. Fresh(q) /\ ~Holding(q) /\ ~HasEmail(q) /\ ~HasWallet(q)
      BY <2>2, <2>3, ProfileAssumption DEF Fresh, Holding, HasEmail, HasWallet
    <2>7. users[q.user].state = "none" /\ \A t \in Running : requests[t].user # q.user
      BY <2>1, <2>3 DEF HandleRegister
    <2> QED BY <1>1, <2>2, <2>3, <2>4, <2>5, <2>6, <2>7
  <1>3. CASE \E e \in Emails, i \in ImageUpdates : HandleReplaceProfile(s, w, r, e, i)
    <2>1. PICK e \in Emails, i \in ImageUpdates : HandleReplaceProfile(s, w, r, e, i)
      BY <1>3
    <2>2. PICK q : /\ q = [Idle EXCEPT !.pc = IF i \in Keys THEN "stat" ELSE "select",
                             !.kind = "replace", !.role = r, !.wallet = w,
                             !.email = e, !.image = i]
                   /\ Begin(s, q)
      BY <2>1 DEF HandleReplaceProfile
    <2>3. /\ q.pc \in {"select", "stat"} /\ (i \in Keys <=> q.pc = "stat")
          /\ q.kind = "replace" /\ q.role = r /\ q.wallet = w
          /\ q.email = e /\ q.image = i /\ q.old = None /\ ~q.drop
      BY <2>2 DEF Idle
    <2>4. q \in Request
      BY <2>2 DEF Idle, Request, ImageUpdates
    <2>5. Shape(q)
      BY <2>3 DEF Shape, Open
    <2>6. Fresh(q) /\ ~Holding(q) /\ ~HasEmail(q) /\ ~HasWallet(q)
      BY <2>3 DEF Fresh, Holding, HasEmail, HasWallet
    <2> QED BY <1>1, <2>2, <2>3, <2>4, <2>5, <2>6
  <1>4. CASE HandleDeleteProfile(s, w, r)
    <2>1. PICK q : /\ q = [Idle EXCEPT !.pc = "select", !.kind = "delete", !.role = r,
                             !.wallet = w]
                   /\ Begin(s, q)
      BY <1>4 DEF HandleDeleteProfile
    <2>2. /\ q.pc = "select" /\ q.kind = "delete" /\ q.role = r /\ q.wallet = w
          /\ q.email = None /\ q.image = None /\ q.old = None /\ ~q.drop
      BY <2>1 DEF Idle
    <2>3. q \in Request
      BY <2>1 DEF Idle, Request, ImageUpdates
    <2>4. Shape(q)
      BY <2>2 DEF Shape, Open
    <2>5. Fresh(q) /\ ~Holding(q) /\ ~HasEmail(q) /\ ~HasWallet(q)
      BY <2>2, ProfileAssumption DEF Fresh, Holding, HasEmail, HasWallet
    <2> QED BY <1>1, <2>1, <2>2, <2>3, <2>4, <2>5
  <1> QED BY <1>2, <1>3, <1>4

(* The promotion goes on, or leads to the transaction. *)
LEMMA PromoteStep ==
    ASSUME AccountInv, NEW s \in Slots, PromoteStat(s) \/ PromoteCopy(s)
    PROVE  Requested'
  <1> DEFINE next == IF requests[s].kind = "register" THEN "email" ELSE "select"
  <1>1. Shape(requests[s]) /\ requests[s].pc \in {"stat", "copy"} /\ users' = users
    BY DEF AccountInv, ShapeInv, PromoteStat, PromoteCopy
  <1>2. ASSUME NEW pc \in {"copy", "email", "select"}, pc = "copy" \/ pc = next, Goto(s, pc)
        PROVE  Requested'
    <2>1. /\ pc \in Open /\ requests[s].pc \in Open
          /\ pc = "select" => requests[s].kind # "register"
          /\ pc = "email" => requests[s].kind = "register"
          /\ requests[s].kind = "register" => requests[s].user \in Users
          /\ requests[s].image \in Keys /\ requests[s].old = None /\ ~requests[s].drop
      BY <1>1, <1>2 DEF Shape, Open
    <2>2. /\ requests' \in [Slots -> Request] /\ ShapeInv' /\ OnlySlot(s)
          /\ requests'[s].pc = pc /\ Moved(requests'[s], requests[s])
      BY <1>2, <2>1, GotoStep
    <2>3. /\ ~Holding(requests'[s]) /\ requests'[s].pc # "wait"
          /\ ~HasEmail(requests'[s]) /\ ~HasWallet(requests'[s])
      BY <2>1, <2>2 DEF Holding, HasEmail, HasWallet, Moved
    <2>4. Locks(s, requests'[s])
      BY <2>2, <2>3, MovedLocks
    <2>5. Reserves(s, requests'[s])
      BY <2>3 DEF Reserves
    <2> QED BY <1>1, <2>2, <2>4, <2>5, KeptStep
  <1>3. CASE PromoteStat(s)
    BY <1>2, <1>3 DEF PromoteStat
  <1>4. CASE PromoteCopy(s) /\ requests[s].image \in staging
    BY <1>2, <1>4 DEF PromoteCopy
  <1>5. CASE PromoteCopy(s) /\ requests[s].image \notin staging
    BY <1>1, <1>5, EndStep DEF PromoteCopy
  <1> QED BY <1>3, <1>4, <1>5

(* A row lock is granted. *)
LEMMA TakeLockStep ==
    ASSUME AccountInv, NEW s \in Slots, NEW u \in Users,
           requests[s].pc \in {"select", "wait"}, TakeLock(s, u), ~Locked(u),
           users[u].state = "live", users[u].wallet = requests[s].wallet,
           users[u].role = requests[s].role
    PROVE  Requested'
  <1>1. PICK q : q = [requests[s] EXCEPT !.pc = "write", !.user = u, !.old = users[u].image]
    OBVIOUS
  <1>2. requests[s] \in Request /\ Shape(requests[s]) /\ users[u] \in UserRow
    BY DEF AccountInv, TypeOK, ShapeInv
  <1>3. requests' = [requests EXCEPT ![s] = q] /\ users' = users
    BY <1>1 DEF TakeLock, AccountInv, TypeOK
  <1>4. /\ q.pc = "write" /\ q.user = u /\ q.old = users[u].image
        /\ q.kind = requests[s].kind /\ q.role = requests[s].role
        /\ q.wallet = requests[s].wallet /\ q.email = requests[s].email
        /\ q.image = requests[s].image /\ q.drop = requests[s].drop
    BY <1>1, <1>2 DEF Request
  <1>5. q \in Request
    BY <1>1, <1>2 DEF Request, UserRow
  <1>6. Shape(q) /\ q.kind # "register"
    BY <1>2, <1>4 DEF Shape, Open
  <1>7. /\ requests' \in [Slots -> Request] /\ ShapeInv'
        /\ requests'[s] = q /\ OnlySlot(s)
    BY <1>3, <1>5, <1>6, SlotStep DEF AccountInv
  <1>8. \A t \in Slots : requests[t].user = u => ~Holding(requests[t])
    BY DEF Locked, InTransaction, Holding
  <1>9. Locks(s, q)
    BY <1>4, <1>6, <1>8 DEF Locks
  <1>10. Reserves(s, q)
    BY <1>4 DEF Reserves, HasEmail, HasWallet
  <1> QED BY <1>3, <1>7, <1>9, <1>10, KeptStep

LEMMA SelectStep ==
    ASSUME AccountInv, NEW s \in Slots, SelectProfile(s)
    PROVE  Requested'
  <1>0. requests[s].pc = "select"
    BY DEF SelectProfile
  <1>1. CASE Refuse(s)
    BY <1>1, RefuseStep
  <1>2. CASE ~Refuse(s)
    <2>1. PICK u \in Profile(requests[s].wallet, requests[s].role) :
              \/ ~Locked(u) /\ TakeLock(s, u)
              \/ /\ requests' = [requests EXCEPT ![s].pc = "wait", ![s].user = u]
                 /\ users' = users
      BY <1>2 DEF SelectProfile
    <2>2. /\ u \in Users /\ users[u].state = "live" /\ users[u].wallet = requests[s].wallet
          /\ users[u].role = requests[s].role
      BY DEF Profile, Live
    <2>3. CASE ~Locked(u) /\ TakeLock(s, u)
      BY <1>0, <2>2, <2>3, TakeLockStep
    <2>4. CASE /\ requests' = [requests EXCEPT ![s].pc = "wait", ![s].user = u]
               /\ users' = users
      <3>1. PICK q : q = [requests[s] EXCEPT !.pc = "wait", !.user = u]
        OBVIOUS
      <3>2. requests[s] \in Request /\ Shape(requests[s])
        BY DEF AccountInv, TypeOK, ShapeInv
      <3>3. requests' = [requests EXCEPT ![s] = q]
        BY <3>1, <2>4 DEF AccountInv, TypeOK
      <3>4. /\ q.pc = "wait" /\ q.user = u /\ q.kind = requests[s].kind
            /\ q.role = requests[s].role /\ q.wallet = requests[s].wallet
            /\ q.email = requests[s].email /\ q.image = requests[s].image
            /\ q.drop = requests[s].drop /\ q.old = requests[s].old
        BY <3>1, <3>2 DEF Request
      <3>5. q \in Request
        BY <2>2, <3>1, <3>2 DEF Request
      <3>6. Shape(q) /\ q.kind # "register"
        BY <1>0, <2>2, <3>2, <3>4 DEF Shape, Open
      <3>7. /\ requests' \in [Slots -> Request] /\ ShapeInv'
            /\ requests'[s] = q /\ OnlySlot(s)
        BY <3>3, <3>5, <3>6, SlotStep DEF AccountInv
      <3>8. Locks(s, q) /\ Reserves(s, q)
        BY <2>2, <3>4, <3>6 DEF Locks, Reserves, Holding, HasEmail, HasWallet
      <3> QED BY <2>4, <3>7, <3>8, KeptStep
    <2> QED BY <2>1, <2>3, <2>4
  <1> QED BY <1>1, <1>2

LEMMA GrantStep ==
    ASSUME AccountInv, NEW s \in Slots, GrantLock(s)
    PROVE  Requested'
  <1>0. requests[s].pc = "wait" /\ ~Locked(requests[s].user)
    BY DEF GrantLock
  <1>1. CASE Refuse(s)
    BY <1>1, RefuseStep
  <1>2. CASE TakeLock(s, requests[s].user) /\ requests[s].user \in Live
    <2>1. PICK u \in Users : u = requests[s].user
      BY <1>2 DEF Live
    <2>2. users[u].state = "live" /\ users[u].wallet = requests[s].wallet
          /\ users[u].role = requests[s].role
      BY <1>0, <1>2, <2>1 DEF Live, AccountInv, LockInv, Locks
    <2> QED BY <1>0, <1>2, <2>1, <2>2, TakeLockStep
  <1> QED BY <1>1, <1>2 DEF GrantLock

(* The row is written; the UPDATE of a replacement has its e-mail to enter. *)
LEMMA WriteStep ==
    ASSUME AccountInv, NEW s \in Slots, WriteProfile(s)
    PROVE  Requested'
  <1>1. CASE Refuse(s)
    BY <1>1, RefuseStep
  <1>2. CASE /\ Goto(s, IF requests[s].kind = "delete" THEN "check" ELSE "email")
             /\ users' = users /\ requests[s].pc = "write"
    <2>1. PICK pc \in {"email", "check"} :
              /\ pc = IF requests[s].kind = "delete" THEN "check" ELSE "email"
              /\ Goto(s, pc)
      BY <1>2
    <2>2. Shape(requests[s])
      BY DEF AccountInv, ShapeInv
    <2>3. /\ requests' \in [Slots -> Request] /\ ShapeInv' /\ OnlySlot(s)
          /\ requests'[s].pc = pc /\ Moved(requests'[s], requests[s])
      BY <1>2, <2>1, <2>2, GotoStep DEF Shape, Open
    <2>4. Holding(requests[s])
      BY <1>2, <2>2 DEF Shape, Holding
    <2>5. ~HasEmail(requests'[s]) /\ ~HasWallet(requests'[s]) /\ requests'[s].pc # "wait"
      BY <2>1, <2>3 DEF HasEmail, HasWallet, Moved
    <2>6. Locks(s, requests'[s]) /\ Reserves(s, requests'[s])
      BY <2>3, <2>4, <2>5, MovedLocks DEF Reserves
    <2> QED BY <1>2, <2>3, <2>6, KeptStep
  <1> QED BY <1>1, <1>2 DEF WriteProfile

(* The index has no entry of a live row, and none of an open transaction. *)
LEMMA EntryFree ==
    ASSUME NEW s \in Slots, ~Duplicate(s), Blockers(s) = {}
    PROVE  /\ \A u \in Live : ~Clash(s, u)
           /\ \A t \in Slots \ {s} : ~Entered(s, t)
  <1>1. \A t \in Slots \ {s} : ~Entered(s, t)
    BY DEF Blockers
  <1>2. ASSUME NEW u \in Live, Clash(s, u) PROVE FALSE
    <2>1. PICK t \in Updaters(u) : TRUE
      BY <1>2 DEF Duplicate
    <2>2. t \in Slots \ {s}
      BY <1>2, <2>1 DEF Updaters, Clash
    <2> QED BY <1>2, <2>1, <2>2 DEF Blockers
  <1> QED BY <1>1, <1>2

LEMMA EmailStep ==
    ASSUME AccountInv, NEW s \in Slots, ClaimEmail(s)
    PROVE  Requested'
  <1>1. CASE Refuse(s)
    BY <1>1, RefuseStep
  <1>2. CASE /\ ~Duplicate(s) /\ Blockers(s) = {}
             /\ Goto(s, IF requests[s].kind = "register" THEN "wallet" ELSE "check")
             /\ users' = users /\ requests[s].pc = "email"
    <2>1. PICK pc \in {"wallet", "check"} :
              /\ pc = IF requests[s].kind = "register" THEN "wallet" ELSE "check"
              /\ Goto(s, pc)
      BY <1>2
    <2>2. Shape(requests[s])
      BY DEF AccountInv, ShapeInv
    <2>3. /\ requests' \in [Slots -> Request] /\ ShapeInv' /\ OnlySlot(s)
          /\ requests'[s].pc = pc /\ Moved(requests'[s], requests[s])
      BY <1>2, <2>1, <2>2, GotoStep DEF Shape, Open
    <2>4. Holding(requests'[s]) => Holding(requests[s])
      BY <1>2, <2>3 DEF Holding, Moved
    <2>5. Locks(s, requests'[s])
      BY <2>1, <2>3, <2>4, MovedLocks
    <2>6. \A u \in Live \ {requests[s].user} : users[u].email # requests[s].email
      BY <1>2, EntryFree DEF Clash
    <2>7. \A t \in Slots \ {s} : HasEmail(requests[t]) => requests[t].email # requests[s].email
      BY <1>2, EntryFree DEF Entered, HasEmail
    <2>8. ~HasWallet(requests'[s])
      BY <2>1, <2>3 DEF HasWallet
    <2>9. Reserves(s, requests'[s])
      BY <2>3, <2>6, <2>7, <2>8 DEF Reserves, Moved
    <2> QED BY <1>2, <2>3, <2>5, <2>9, KeptStep
  <1> QED BY <1>1, <1>2 DEF ClaimEmail

LEMMA WalletStep ==
    ASSUME AccountInv, NEW s \in Slots, ClaimWallet(s)
    PROVE  Requested'
  <1>1. CASE Refuse(s)
    BY <1>1, RefuseStep
  <1>2. CASE /\ ~Duplicate(s) /\ Blockers(s) = {} /\ Goto(s, "commit")
             /\ users' = users /\ requests[s].pc = "wallet"
    <2>1. Shape(requests[s]) /\ Reserves(s, requests[s])
      BY DEF AccountInv, ShapeInv, ReserveInv
    <2>2. requests[s].kind = "register" /\ HasEmail(requests[s])
      BY <1>2, <2>1 DEF Shape, HasEmail
    <2>3. /\ requests' \in [Slots -> Request] /\ ShapeInv' /\ OnlySlot(s)
          /\ requests'[s].pc = "commit" /\ Moved(requests'[s], requests[s])
      BY <1>2, <2>1, <2>2, GotoStep DEF Shape, Open
    <2>4. Locks(s, requests'[s])
      BY <2>2, <2>3, MovedLocks DEF Holding, Moved
    <2>5. \A u \in Live \ {requests[s].user} : users[u].wallet # requests[s].wallet
      BY <1>2, EntryFree DEF Clash
    <2>6. \A t \in Slots \ {s} :
              HasWallet(requests[t]) => requests[t].wallet # requests[s].wallet
      BY <1>2, EntryFree DEF Entered, HasWallet
    <2>7. Reserves(s, requests'[s])
      BY <2>1, <2>2, <2>3, <2>5, <2>6 DEF Reserves, Moved
    <2> QED BY <1>2, <2>3, <2>4, <2>7, KeptStep
  <1> QED BY <1>1, <1>2 DEF ClaimWallet

(* What CheckReferences does to its request. *)
LEMMA CheckSlot ==
    ASSUME AccountInv, NEW s \in Slots, CheckReferences(s)
    PROVE  LET q == requests[s]
               unlinked == IF q.kind = "delete" THEN q.old # None ELSE imageObjectKeyChanged(q)
           IN /\ q.pc = "check" /\ q.kind # "register" /\ users' = users
              /\ requests' \in [Slots -> Request] /\ ShapeInv' /\ OnlySlot(s)
              /\ requests'[s].pc = "commit"
              /\ requests'[s].kind = q.kind /\ requests'[s].role = q.role
              /\ requests'[s].wallet = q.wallet /\ requests'[s].email = q.email
              /\ requests'[s].image = q.image /\ requests'[s].user = q.user
              /\ requests'[s].old = q.old
              /\ requests'[s].drop <=> unlinked /\ ~imageStillReferenced(s)
              /\ requests'[s].drop \in BOOLEAN
  <1> DEFINE q == requests[s]
             unlinked == IF q.kind = "delete" THEN q.old # None ELSE imageObjectKeyChanged(q)
  <1>1. PICK b \in BOOLEAN : b = (unlinked /\ ~imageStillReferenced(s))
    <2>1. (unlinked /\ ~imageStillReferenced(s)) \in BOOLEAN
      OBVIOUS
    <2> HIDE DEF unlinked
    <2> WITNESS (unlinked /\ ~imageStillReferenced(s)) \in BOOLEAN
    <2> QED OBVIOUS
  <1>2. b => q.old # None
    BY <1>1 DEF imageObjectKeyChanged
  <1>3. /\ q.pc = "check" /\ users' = users
        /\ requests' = [requests EXCEPT ![s].pc = "commit", ![s].drop = b]
    BY <1>1 DEF CheckReferences
  <1> HIDE DEF unlinked
  <1>4. PICK p : p = [q EXCEPT !.pc = "commit", !.drop = b]
    OBVIOUS
  <1>5. q \in Request /\ Shape(q)
    BY DEF AccountInv, TypeOK, ShapeInv
  <1>6. requests' = [requests EXCEPT ![s] = p]
    BY <1>3, <1>4 DEF AccountInv, TypeOK
  <1>7. /\ p \in Request /\ p.pc = "commit" /\ p.user = q.user
        /\ p.kind = q.kind /\ p.role = q.role /\ p.wallet = q.wallet
        /\ p.email = q.email /\ p.image = q.image /\ p.old = q.old /\ p.drop = b
    BY <1>4, <1>5 DEF Request
  <1>8. b => q.old \in Keys
    BY <1>2, <1>5 DEF Request
  <1>9. Shape(p) /\ q.kind # "register"
    BY <1>3, <1>5, <1>7, <1>8 DEF Shape, Open
  <1>10. /\ requests' \in [Slots -> Request] /\ ShapeInv'
         /\ requests'[s] = p /\ OnlySlot(s)
    BY <1>6, <1>7, <1>9, SlotStep DEF AccountInv
  <1>11. p.drop <=> unlinked /\ ~imageStillReferenced(s)
    BY <1>1, <1>7
  <1> QED BY <1>3, <1>7, <1>9, <1>10, <1>11 DEF unlinked

(* imageStillReferenced only decides what is removed after the commit. *)
LEMMA CheckStep ==
    ASSUME AccountInv, NEW s \in Slots, CheckReferences(s)
    PROVE  Requested'
  <1> DEFINE q == requests[s]
             p == requests'[s]
  <1>1. /\ q.pc = "check" /\ q.kind # "register" /\ users' = users
        /\ requests' \in [Slots -> Request] /\ ShapeInv' /\ OnlySlot(s)
        /\ p.pc = "commit" /\ p.kind = q.kind /\ p.role = q.role /\ p.wallet = q.wallet
        /\ p.email = q.email /\ p.user = q.user /\ p.old = q.old
    BY CheckSlot
  <1>2. Locks(s, q) /\ Reserves(s, q)
    BY DEF AccountInv, LockInv, ReserveInv
  <1>3. Locks(s, p)
    BY <1>1, <1>2 DEF Locks, Holding
  <1>4. Reserves(s, p)
    BY <1>1, <1>2 DEF Reserves, HasEmail, HasWallet
  <1> QED BY <1>1, <1>3, <1>4, KeptStep

(* After the commit: what is left to remove, or nothing. *)
LEMMA RemovalStep ==
    ASSUME AccountInv, NEW s \in Slots,
           DiscardStaging(s) \/ DeleteOldImage(s) \/ RemovalFails(s)
    PROVE  /\ Requested'
           /\ \E pc \in {"idle", "cleanup"} :
                  /\ requests[s].pc \in {"discard", "cleanup"} /\ Continue(s, pc)
                  /\ pc = "cleanup" <=> requests[s].pc = "discard" /\ requests[s].drop
  <1>1. PICK pc \in {"idle", "cleanup"} :
            /\ requests[s].pc \in {"discard", "cleanup"} /\ Continue(s, pc) /\ users' = users
            /\ pc = "cleanup" <=> requests[s].pc = "discard" /\ requests[s].drop
    BY DEF DiscardStaging, DeleteOldImage, RemovalFails
  <1>2. /\ requests' \in [Slots -> Request] /\ ShapeInv' /\ OnlySlot(s)
        /\ requests'[s].pc = pc /\ requests'[s].kind = "none" /\ pc \notin Open
    BY <1>1, ContinueStep
  <1>3. Locks(s, requests'[s]) /\ Reserves(s, requests'[s])
    BY <1>2, NothingHeld
  <1> QED BY <1>1, <1>2, <1>3, KeptStep

(* COMMIT, with or without its answer: what it does to its request. *)
LEMMA CommitSlot ==
    ASSUME AccountInv, NEW s \in Slots, Commit(s) \/ CommitUnconfirmed(s)
    PROVE  /\ requests[s].pc = "commit"
           /\ users' = [users EXCEPT ![requests[s].user] = CommittedRow(requests[s])]
           /\ requests' \in [Slots -> Request] /\ ShapeInv' /\ OnlySlot(s)
           /\ requests'[s].kind = "none" /\ requests'[s].pc \notin Open
           /\ \/ CommitUnconfirmed(s) /\ requests'[s] = Idle
              \/ ~requests[s].drop /\ requests'[s] = Idle
              \/ /\ requests'[s].pc \in {"discard", "cleanup"}
                 /\ requests'[s].image = requests[s].image
                 /\ requests'[s].drop = requests[s].drop
                 /\ requests'[s].old = IF requests[s].drop THEN requests[s].old ELSE None
           /\ requests'[s].pc = "discard" => requests'[s].image = requests[s].image
  <1>1. CASE CommitUnconfirmed(s)
    <2>1. requests' \in [Slots -> Request] /\ ShapeInv' /\ requests'[s] = Idle /\ OnlySlot(s)
      BY <1>1, IdleShape, SlotStep DEF CommitUnconfirmed, AccountInv
    <2> QED BY <1>1, <2>1, IdleShape DEF CommitUnconfirmed, Open
  <1>2. CASE Commit(s)
    <2>1. PICK pc \in {"idle", "discard", "cleanup"} :
              pc = AfterCommit(requests[s]) /\ Continue(s, pc)
      BY <1>2 DEF Commit, AfterCommit
    <2>2. /\ pc = "discard" => requests[s].image \in Keys
          /\ pc = "cleanup" => requests[s].drop
          /\ pc = "idle" => ~requests[s].drop
      BY <2>1 DEF AfterCommit
    <2>3. requests[s].pc = "commit"
      BY <1>2 DEF Commit
    <2>4. /\ requests' \in [Slots -> Request] /\ ShapeInv' /\ OnlySlot(s)
          /\ requests'[s].pc = pc /\ requests'[s].kind = "none" /\ pc \notin Open
          /\ pc = "idle" => requests'[s] = Idle
          /\ pc # "idle" => /\ requests'[s].image = requests[s].image
                            /\ requests'[s].drop = requests[s].drop
                            /\ requests'[s].old = IF requests[s].drop THEN requests[s].old
                                                  ELSE None
      BY <2>1, <2>2, <2>3, ContinueStep
    <2>5. users' = [users EXCEPT ![requests[s].user] = CommittedRow(requests[s])]
      BY <1>2 DEF Commit
    <2> QED BY <2>2, <2>3, <2>4, <2>5
  <1> QED BY <1>1, <1>2

(* The transaction commits its row and lets go of its locks. *)
LEMMA CommitStep ==
    ASSUME AccountInv, NEW s \in Slots, Commit(s) \/ CommitUnconfirmed(s)
    PROVE  Requested'
  <1> DEFINE q == requests[s]
             row == CommittedRow(q)
  <1>1. /\ q.pc = "commit" /\ users' = [users EXCEPT ![q.user] = row]
        /\ requests' \in [Slots -> Request] /\ ShapeInv' /\ OnlySlot(s)
        /\ requests'[s].kind = "none" /\ requests'[s].pc \notin Open
    BY CommitSlot
  <1>2. q.user \in Users /\ row \in UserRow /\ users \in [Users -> UserRow]
    BY <1>1, RowType DEF AccountInv, TypeOK
  <1>3. /\ users' \in [Users -> UserRow] /\ users'[q.user] = row
        /\ \A u \in Users \ {q.user} : users'[u] = users[u]
    BY <1>1, <1>2
  <1>4. /\ q.kind = "delete" => row.state = "deleted"
        /\ q.kind # "delete" => /\ row.state = "live" /\ row.wallet = q.wallet
                                /\ row.role = q.role /\ row.email = q.email
    BY RowColumns
  <1>5. Shape(q) /\ Locks(s, q) /\ Reserves(s, q)
    BY DEF AccountInv, ShapeInv, LockInv, ReserveInv
  <1>6. q.kind \in {"register", "replace", "delete"}
    BY <1>1, <1>5 DEF Shape, Open
  <1>7. q.kind # "register" => /\ Holding(q) /\ users[q.user].state = "live"
                               /\ users[q.user].wallet = q.wallet
                               /\ users[q.user].role = q.role
    BY <1>1, <1>5 DEF Locks, Holding
  <1>8. q.kind = "register" => users[q.user].state = "none" /\ HasWallet(q)
    BY <1>1, <1>5 DEF Locks, HasWallet
  <1>9. q.kind # "delete" => HasEmail(q)
    BY <1>1 DEF HasEmail
  <1>10. Live' \subseteq Live \cup {q.user} /\ (q.kind = "delete" => q.user \notin Live')
    BY <1>3, <1>4 DEF Live
  <1>11. \A t \in Slots \ {s} : requests'[t] = requests[t]
    BY <1>1 DEF OnlySlot
  <1>r. requests[s] = q
    OBVIOUS
  <1> HIDE DEF q, row
  <1>12. Locks(s, requests[s])' /\ Reserves(s, requests[s])'
    BY <1>1 DEF Locks, Reserves, Holding, HasEmail, HasWallet, Open
  <1>13. ASSUME NEW t \in Slots \ {s} PROVE Locks(t, requests[t])'
    <2>1. Locks(t, requests[t]) /\ Shape(requests[t]) /\ requests'[t] = requests[t]
      BY <1>11 DEF AccountInv, LockInv, ShapeInv
    <2>2. Holding(requests[t]) => requests[t].user # q.user /\ requests[t].user \in Users
      <3> SUFFICES ASSUME Holding(requests[t])
                   PROVE  requests[t].user # q.user /\ requests[t].user \in Users
        OBVIOUS
      <3>1. requests[t].user \in Users /\ users[requests[t].user].state = "live"
        BY <2>1 DEF Shape, Locks, Holding
      <3> QED BY <1>5, <1>7, <1>8, <3>1 DEF Locks
    <2>3. requests[t].kind = "register" => requests[t].user # q.user
                                           /\ requests[t].user \in Users
      BY <1>5, <1>7, <2>1 DEF Shape, Locks
    <2>4. requests[t].pc = "wait" =>
              /\ users'[requests[t].user].state # "none"
              /\ users'[requests[t].user].state = "live" =>
                     /\ users'[requests[t].user].wallet = requests[t].wallet
                     /\ users'[requests[t].user].role = requests[t].role
      <3> SUFFICES ASSUME requests[t].pc = "wait"
                   PROVE  /\ users'[requests[t].user].state # "none"
                          /\ users'[requests[t].user].state = "live" =>
                                 /\ users'[requests[t].user].wallet = requests[t].wallet
                                 /\ users'[requests[t].user].role = requests[t].role
        OBVIOUS
      <3>1. requests[t].user \in Users
        BY <2>1 DEF Shape
      <3>2. /\ users[requests[t].user].state # "none"
            /\ users[requests[t].user].state = "live" =>
                   /\ users[requests[t].user].wallet = requests[t].wallet
                   /\ users[requests[t].user].role = requests[t].role
        BY <2>1 DEF Locks
      <3>3. CASE requests[t].user # q.user
        BY <1>3, <3>1, <3>2, <3>3
      <3>4. CASE requests[t].user = q.user
        BY <1>3, <1>4, <1>6, <1>7, <1>8, <3>2, <3>4
      <3> QED BY <3>3, <3>4
    <2>5. ASSUME NEW r \in Slots \ {t}, requests'[r].user = requests[t].user
          PROVE  /\ ~(Holding(requests[t]) /\ Holding(requests'[r]))
                 /\ ~(requests[t].kind = "register" /\ requests'[r].kind = "register")
      <3>1. CASE r = s
        BY <1>1, <3>1 DEF Holding, Open
      <3>2. CASE r # s
        BY <1>11, <2>1, <2>5, <3>2 DEF Locks
      <3> QED BY <3>1, <3>2
    <2>6. Holding(requests[t]) \/ requests[t].kind = "register" =>
              users'[requests[t].user] = users[requests[t].user]
      BY <1>3, <2>2, <2>3
    <2> QED BY <2>1, <2>4, <2>5, <2>6 DEF Locks, Holding
  <1>14. ASSUME NEW t \in Slots \ {s} PROVE Reserves(t, requests[t])'
    <2>1. Reserves(t, requests[t]) /\ requests'[t] = requests[t] /\ Shape(requests[t])
      BY <1>11 DEF AccountInv, ReserveInv, ShapeInv
    <2>2. ASSUME HasEmail(requests[t]), NEW u \in Live', u # requests[t].user
          PROVE  users'[u].email # requests[t].email
      <3>1. CASE u # q.user
        BY <3>1, <1>3, <1>10, <2>1, <2>2 DEF Reserves, Live
      <3>2. CASE u = q.user
        <4>1. q.kind # "delete"
          BY <3>2, <1>10, <2>2
        <4>2. q.email # requests[t].email
          BY <4>1, <1>9, <1>r, <2>1, <2>2 DEF Reserves
        <4> QED BY <3>2, <4>1, <4>2, <1>3, <1>4
      <3> QED BY <3>1, <3>2
    <2>3. ASSUME HasWallet(requests[t]), NEW u \in Live', u # requests[t].user
          PROVE  users'[u].wallet # requests[t].wallet
      <3>1. CASE u # q.user
        BY <3>1, <1>3, <1>10, <2>1, <2>3 DEF Reserves, Live
      <3>2. CASE u = q.user
        <4>1. q.kind # "delete"
          BY <3>2, <1>10, <2>3
        <4>2. CASE q.kind = "register"
          <5>1. q.wallet # requests[t].wallet
            BY <4>2, <1>8, <1>r, <2>1, <2>3 DEF Reserves
          <5> QED BY <3>2, <4>1, <5>1, <1>3, <1>4
        <4>3. CASE q.kind # "register"
          <5>1. q.user \in Live /\ users[q.user].wallet = q.wallet
            BY <4>3, <1>2, <1>7 DEF Live
          <5>2. q.wallet # requests[t].wallet
            BY <3>2, <5>1, <2>1, <2>3 DEF Reserves
          <5> QED BY <3>2, <4>1, <5>2, <1>3, <1>4
        <4> QED BY <4>2, <4>3
      <3> QED BY <3>1, <3>2
    <2>4. ASSUME NEW r \in Slots \ {t}
          PROVE  /\ HasEmail(requests[t]) /\ HasEmail(requests'[r]) =>
                        requests'[r].email # requests[t].email
                 /\ HasWallet(requests[t]) /\ HasWallet(requests'[r]) =>
                        requests'[r].wallet # requests[t].wallet
      <3>1. CASE r = s
        BY <1>1, <3>1 DEF HasEmail, HasWallet, Open
      <3>2. CASE r # s
        BY <1>11, <2>1, <3>2 DEF Reserves
      <3> QED BY <3>1, <3>2
    <2> QED BY <2>1, <2>2, <2>3, <2>4 DEF Reserves, HasEmail, HasWallet
  <1>15. OneAccount'
    <2>1. ASSUME NEW u \in Live', u # q.user, q.user \in Live'
          PROVE  users'[u].wallet # row.wallet /\ users'[u].email # row.email
      <3>1. q.kind # "delete" /\ u \in Live /\ users'[u] = users[u]
        BY <2>1, <1>3, <1>10 DEF Live
      <3>2. users[u].email # q.email
        BY <2>1, <3>1, <1>5, <1>9 DEF Reserves
      <3>3. q.kind = "register" => users[u].wallet # q.wallet
        BY <2>1, <3>1, <1>5, <1>8 DEF Reserves
      <3>4. q.kind # "register" => users[u].wallet # q.wallet
        BY <2>1, <3>1, <1>2, <1>7 DEF AccountInv, OneAccount, Live
      <3> QED BY <3>1, <3>2, <3>3, <3>4, <1>4
    <2> QED BY <2>1, <1>3, <1>10 DEF AccountInv, OneAccount, Live
  <1>16. LockInv' /\ ReserveInv'
    BY <1>12, <1>13, <1>14 DEF LockInv, ReserveInv
  <1> QED BY <1>1, <1>3, <1>15, <1>16 DEF Requested

(* The API process dies. *)
LEMMA CrashStep ==
    ASSUME AccountInv, Crash
    PROVE  Requested'
  <1>1. requests' = [s \in Slots |-> Idle] /\ users' = users
    BY DEF Crash
  <1>2. requests' \in [Slots -> Request] /\ ShapeInv'
    BY <1>1, IdleShape DEF ShapeInv
  <1>3. Live' = Live
    BY <1>1 DEF Live
  <1>4. LockInv' /\ ReserveInv'
    BY <1>1, IdleShape DEF LockInv, ReserveInv, Locks, Reserves, Holding, HasEmail, HasWallet
  <1>5. OneAccount'
    BY <1>1, <1>3 DEF OneAccount, AccountInv
  <1> QED BY <1>1, <1>2, <1>4, <1>5 DEF Requested, AccountInv, TypeOK

(* Neither the rows nor the requests change. *)
LEMMA StillStep ==
    ASSUME AccountInv, users' = users, requests' = requests
    PROVE  Requested'
  <1>1. Live' = Live
    BY DEF Live
  <1>2. LockInv' /\ ReserveInv'
    BY <1>1 DEF AccountInv, LockInv, ReserveInv, Locks, Reserves, Holding, HasEmail, HasWallet
  <1>3. ShapeInv' /\ OneAccount'
    BY <1>1 DEF AccountInv, ShapeInv, OneAccount
  <1> QED BY <1>2, <1>3 DEF Requested, AccountInv, TypeOK

LEMMA AccountStep == AccountInv /\ [Next]_vars => AccountInv'
  <1> SUFFICES ASSUME AccountInv, [Next]_vars PROVE AccountInv'
    OBVIOUS
  <1>1. ASSUME ClientStep PROVE Requested'
    <2>1. CASE \E k \in Keys : PresignProfileImage(k) \/ Upload(k) \/ ExpireUpload(k)
      BY <2>1, StillStep DEF PresignProfileImage, Upload, ExpireUpload
    <2>2. ASSUME NEW s \in Slots, NEW w \in Wallets, NEW r \in Roles,
                 \/ \E u \in Users, e \in Emails, k \in Keys \cup {None} :
                        HandleRegister(s, u, w, r, e, k)
                 \/ \E e \in Emails, i \in ImageUpdates :
                        HandleReplaceProfile(s, w, r, e, i)
                 \/ HandleDeleteProfile(s, w, r)
          PROVE  Requested'
      BY <2>2, BeginStep
    <2> QED BY <1>1, <2>1, <2>2 DEF ClientStep
  <1>2. ASSUME NEW s \in Slots, Serve(s) PROVE Requested'
    BY <1>2, PromoteStep, SelectStep, GrantStep, WriteStep, EmailStep, WalletStep, RefuseStep,
       CheckStep, CommitStep, RemovalStep DEF Serve, DeadlockDetected
  <1>3. ASSUME FailureStep PROVE Requested'
    <2>1. CASE Crash
      BY <2>1, CrashStep
    <2>2. ASSUME NEW s \in Slots, CallFails(s) \/ CommitUnconfirmed(s) \/ RemovalFails(s)
          PROVE  Requested'
      BY <2>2, RefuseStep, CommitStep, RemovalStep DEF CallFails
    <2> QED BY <1>3, <2>1, <2>2 DEF FailureStep
  <1>4. ASSUME UNCHANGED vars PROVE Requested'
    BY <1>4, StillStep DEF vars
  <1>5. Requested'
    BY <1>1, <1>2, <1>3, <1>4 DEF Next
  <1>6. Stored'
    BY StoreStep DEF AccountInv
  <1> QED BY <1>5, <1>6 DEF AccountInv, TypeOK, Requested, Stored

(***************************************************************************)
(* The rows, objects and requests keep their types; the open transactions  *)
(* keep what they have locked and entered.                                 *)
(***************************************************************************)
THEOREM AccountsInvariant == Spec => []AccountInv
  BY InitAccounts, AccountStep, PTL DEF Spec

(***************************************************************************)
(* Every profile, image object and request is well typed after any         *)
(* sequence of overlapping requests, failures and crashes.                 *)
(***************************************************************************)
THEOREM ProfileTypes == Spec => []TypeOK
  <1>1. AccountInv => TypeOK
    BY DEF AccountInv
  <1> QED BY <1>1, AccountsInvariant, PTL

(***************************************************************************)
(* No two live users share a wallet or an e-mail, however registrations,   *)
(* replacements and deletions of the two roles overlap, wait for each      *)
(* other and are ended by a deadlock.                                      *)
(***************************************************************************)
THEOREM AccountsUnique == Spec => []OneAccount
  <1>1. AccountInv => OneAccount
    BY DEF AccountInv
  <1> QED BY <1>1, AccountsInvariant, PTL


-----------------------------------------------------------------------------
(***************************************************************************)
(* Uploads: what discardStagingImage removes has been committed.           *)
(***************************************************************************)
UploadInv ==
    /\ UploadKeptUntilCommit
    /\ \A s \in Slots : requests[s].pc = "discard" => uploads[requests[s].image] = "spent"

(* A step that neither ends an upload nor starts to discard one. *)
LEMMA UploadKept ==
    ASSUME UploadInv, uploads' = uploads, staging \subseteq staging',
           \A t \in Slots : requests'[t].pc = "discard" =>
               requests[t].pc = "discard" /\ requests'[t].image = requests[t].image
    PROVE  UploadInv'
  BY DEF UploadInv, UploadKeptUntilCommit

LEMMA UploadStep == AccountInv /\ UploadInv /\ [Next]_vars => UploadInv'
  <1> SUFFICES ASSUME AccountInv, UploadInv, [Next]_vars PROVE UploadInv'
    OBVIOUS
  <1>1. requests \in [Slots -> Request] /\ uploads \in [Keys -> UploadStates]
    BY DEF AccountInv, TypeOK
  <1>2. \A s \in Slots : Shape(requests[s])
    BY DEF AccountInv, ShapeInv
  <1>3. ASSUME NEW s \in Slots, OnlySlot(s), requests'[s].pc # "discard",
               uploads' = uploads, staging \subseteq staging'
        PROVE  UploadInv'
    BY <1>3, UploadKept DEF OnlySlot
  <1>4. ASSUME NEW s \in Slots, NEW q, requests' = [requests EXCEPT ![s] = q],
               q.pc # "discard", uploads' = uploads, staging \subseteq staging'
        PROVE  UploadInv'
    BY <1>1, <1>3, <1>4 DEF OnlySlot
  <1>5. ASSUME NEW s \in Slots, Refuse(s) PROVE UploadInv'
    BY <1>4, <1>5, IdleShape DEF Refuse
  <1>6. ASSUME NEW k \in Keys, PresignProfileImage(k) \/ Upload(k) \/ ExpireUpload(k)
        PROVE  UploadInv'
    <2>1. requests' = requests
      BY <1>6 DEF PresignProfileImage, Upload, ExpireUpload
    <2>2. \A j \in Keys : uploads[j] = "spent" => uploads'[j] = "spent"
      BY <1>1, <1>6 DEF PresignProfileImage, Upload, ExpireUpload
    <2>3. \A j \in Keys : uploads'[j] = "uploaded" => j \in staging'
      BY <1>1, <1>6 DEF UploadInv, UploadKeptUntilCommit, PresignProfileImage, Upload,
         ExpireUpload
    <2> QED BY <1>2, <2>1, <2>2, <2>3 DEF UploadInv, UploadKeptUntilCommit, Shape
  <1>7. ASSUME NEW s \in Slots, NEW w \in Wallets, NEW r \in Roles,
               \/ \E u \in Users, e \in Emails, k \in Keys \cup {None} :
                      HandleRegister(s, u, w, r, e, k)
               \/ \E e \in Emails, i \in ImageUpdates : HandleReplaceProfile(s, w, r, e, i)
               \/ HandleDeleteProfile(s, w, r)
        PROVE  UploadInv'
    <2>1. Begins(s)
      BY <1>7, BeginStep
    <2> QED BY <1>3, <2>1 DEF Begins, Begin, Fresh
  <1>8. ASSUME NEW s \in Slots, Commit(s) \/ CommitUnconfirmed(s) PROVE UploadInv'
    <2>1. /\ OnlySlot(s) /\ ShapeInv'
          /\ requests'[s].pc = "discard" => requests'[s].image = requests[s].image
      BY <1>8, CommitSlot
    <2>2. uploads' = Spent(requests[s]) /\ staging' = staging
      BY <1>8 DEF Commit, CommitUnconfirmed
    <2>3. \A k \in Keys : uploads'[k] = IF k = requests[s].image THEN "spent" ELSE uploads[k]
      BY <2>2 DEF Spent
    <2>4. UploadKeptUntilCommit'
      BY <2>2, <2>3 DEF UploadInv, UploadKeptUntilCommit
    <2>5. ASSUME NEW t \in Slots, requests'[t].pc = "discard"
          PROVE  uploads'[requests'[t].image] = "spent"
      BY <2>1, <2>3, <2>5 DEF UploadInv, OnlySlot, ShapeInv, Shape
    <2> QED BY <2>4, <2>5 DEF UploadInv
  <1>9. ASSUME NEW s \in Slots, DiscardStaging(s) \/ DeleteOldImage(s) \/ RemovalFails(s)
        PROVE  UploadInv'
    <2>1. PICK pc \in {"idle", "cleanup"} :
              requests[s].pc \in {"discard", "cleanup"} /\ Continue(s, pc)
              /\ (pc = "cleanup" <=> requests[s].pc = "discard" /\ requests[s].drop)
      BY <1>9, RemovalStep
    <2>2. OnlySlot(s) /\ requests'[s].pc # "discard"
      BY <2>1, ContinueStep
    <2>3. uploads' = uploads
      BY <1>9 DEF DiscardStaging, DeleteOldImage, RemovalFails
    <2>4. \A k \in Keys : uploads[k] = "uploaded" => k \in staging'
      BY <1>9 DEF DiscardStaging, DeleteOldImage, RemovalFails, UploadInv,
         UploadKeptUntilCommit
    <2> QED BY <2>2, <2>3, <2>4 DEF UploadInv, UploadKeptUntilCommit, OnlySlot
  <1>10. ASSUME NEW s \in Slots, NEW pc, pc # "discard", Goto(s, pc), uploads' = uploads,
                staging' = staging
         PROVE  UploadInv'
    <2>1. requests' = [requests EXCEPT ![s] = [requests[s] EXCEPT !.pc = pc]]
      BY <1>10 DEF Goto
    <2>2. [requests[s] EXCEPT !.pc = pc].pc # "discard"
      BY <1>1, <1>10 DEF Request
    <2> QED BY <1>4, <1>10, <2>1, <2>2
  <1>11. ASSUME NEW s \in Slots, NEW u, TakeLock(s, u) PROVE UploadInv'
    <2>1. OnlySlot(s) /\ requests'[s].pc = "write"
      BY <1>1, <1>11 DEF TakeLock, OnlySlot, Request
    <2> QED BY <1>3, <1>11, <2>1 DEF TakeLock
  <1>12. ASSUME NEW s \in Slots, Serve(s) PROVE UploadInv'
    <2>1. CASE PromoteStat(s)
      BY <1>10, <2>1 DEF PromoteStat
    <2>2. CASE PromoteCopy(s)
      BY <1>4, <1>10, <2>2, IdleShape DEF PromoteCopy
    <2>3. CASE SelectProfile(s)
      <3>1. CASE \E u : requests' = [requests EXCEPT ![s].pc = "wait", ![s].user = u]
                        /\ uploads' = uploads /\ staging' = staging
        <4>1. OnlySlot(s) /\ requests'[s].pc = "wait"
          BY <1>1, <3>1 DEF OnlySlot, Request
        <4> QED BY <1>3, <3>1, <4>1
      <3> QED BY <1>5, <1>11, <2>3, <3>1 DEF SelectProfile
    <2>4. CASE GrantLock(s)
      BY <1>5, <1>11, <2>4 DEF GrantLock
    <2>5. CASE WriteProfile(s) \/ ClaimEmail(s) \/ ClaimWallet(s) \/ DeadlockDetected(s)
      BY <1>5, <1>10, <2>5 DEF WriteProfile, ClaimEmail, ClaimWallet, DeadlockDetected
    <2>6. CASE CheckReferences(s)
      BY <1>3, <2>6, CheckSlot DEF CheckReferences
    <2> QED BY <1>8, <1>9, <1>12, <2>1, <2>2, <2>3, <2>4, <2>5, <2>6 DEF Serve
  <1>13. ASSUME FailureStep PROVE UploadInv'
    <2>1. CASE Crash
      BY <2>1, UploadKept, IdleShape DEF Crash
    <2>2. ASSUME NEW s \in Slots, CallFails(s) \/ CommitUnconfirmed(s) \/ RemovalFails(s)
          PROVE  UploadInv'
      BY <1>5, <1>8, <1>9, <2>2 DEF CallFails
    <2> QED BY <1>13, <2>1, <2>2 DEF FailureStep
  <1>14. ASSUME ClientStep PROVE UploadInv'
    BY <1>6, <1>7, <1>14 DEF ClientStep
  <1>15. CASE UNCHANGED vars
    BY <1>15, UploadKept DEF vars
  <1> QED BY <1>12, <1>13, <1>14, <1>15 DEF Next

(***************************************************************************)
(* An upload is in tmp/ until it expires or a request that brought it has  *)
(* committed, with any number of requests promoting the same key, failing  *)
(* and discarding what they have committed.                                *)
(***************************************************************************)
THEOREM UploadsKept == Spec => []UploadKeptUntilCommit
  <1>1. Init => UploadInv
    BY IdleShape DEF Init, UploadInv, UploadKeptUntilCommit
  <1>2. UploadInv => UploadKeptUntilCommit
    BY DEF UploadInv
  <1> QED BY <1>1, <1>2, UploadStep, AccountsInvariant, PTL DEF Spec

-----------------------------------------------------------------------------
(***************************************************************************)
(* Images: who answers for an object while requests overlap, as long as    *)
(* none was giving its key up while another held it.                       *)
(***************************************************************************)
Promoting == {"select", "wait", "write", "email", "wallet", "check", "commit"}

(* Only live rows name images and wallets. *)
RowInv == \A u \in Users \ Live : users[u].image = None /\ users[u].wallet = None

Named(k) == \E u \in Live : users[u].image = k

(* The object k is the request's to commit or to remove. *)
Holds(q, k) ==
    \/ q.image = k /\ q.pc \in Promoting
    \/ q.old = k /\ q.drop /\ q.pc \in {"discard", "cleanup"}

(* A key that s gives up is in no other request's hands. *)
Apart(s, q) ==
    q.old \in Keys \ contended =>
        \A t \in Slots \ {s} : requests[t].old # q.old /\ requests[t].image # q.old

(* The image a request brings is there. *)
Promoted(q) == q.pc \in Promoting /\ q.image \in Keys => q.image \in canonical \cup contended

(* What the reference check found still holds at the commit and after it. *)
Decided(q) ==
    q.old \in Keys \ contended =>
        /\ q.drop => \A u \in Live : users[u].image = q.old => q.pc = "commit" /\ u = q.user
        /\ q.drop /\ q.kind = "replace" => NewImage(q) # q.old
        /\ q.pc = "commit" /\ ~q.drop =>
               \/ q.kind = "replace" /\ NewImage(q) = q.old
               \/ \E u \in Live \ {q.user} : users[u].image = q.old

RequestInv ==
    \A s \in Slots : Apart(s, requests[s]) /\ Promoted(requests[s]) /\ Decided(requests[s])

Held(k) == k \in abandoned \/ Named(k) \/ \E s \in Slots : Holds(requests[s], k)

LeakInv == \A k \in canonical \ contended : Held(k)

ImageInv == RowInv /\ RequestInv /\ LeakInv /\ UncontendedImageExists

LEMMA InitImages == Init => ImageInv
  <1> SUFFICES ASSUME Init PROVE ImageInv
    OBVIOUS
  <1>1. Live = {} /\ \A u \in Users : users[u].image = None /\ users[u].wallet = None
    BY DEF Init, Live, NoUser
  <1>2. canonical = {} /\ \A s \in Slots : requests[s] = Idle
    BY DEF Init
  <1>3. RequestInv
    BY <1>2, IdleShape, ProfileAssumption DEF RequestInv, Apart, Promoted, Decided, Promoting
  <1> QED BY <1>1, <1>2, <1>3 DEF ImageInv, RowInv, LeakInv, UncontendedImageExists

(* A step of one request that changes no row and removes no object. *)
LEMMA QuietImages ==
    ASSUME ImageInv, NEW s \in Slots, users' = users, OnlySlot(s),
           canonical \subseteq canonical', contended \subseteq contended',
           abandoned \subseteq abandoned',
           \A t \in Slots \ {s} :
               /\ requests'[s].old \in Keys \ contended' =>
                      /\ requests[t].old # requests'[s].old
                      /\ requests[t].image # requests'[s].old
               /\ requests[t].old \in Keys \ contended' =>
                      requests'[s].image # requests[t].old,
           requests'[s].pc \in Promoting /\ requests'[s].image \in Keys =>
               requests'[s].image \in canonical' \cup contended',
           requests'[s].old \notin contended' => Decided(requests'[s]),
           \A k \in canonical' \ contended' :
               \/ k \in abandoned' \/ Named(k) \/ Holds(requests'[s], k)
               \/ k \in canonical /\ ~Holds(requests[s], k)
    PROVE  ImageInv'
  <1>1. Live' = Live
    BY DEF Live
  <1>2. RowInv' /\ UncontendedImageExists'
    BY <1>1 DEF ImageInv, RowInv, UncontendedImageExists
  <1>3. ASSUME NEW t \in Slots \ {s}
        PROVE  Apart(t, requests[t])' /\ Promoted(requests[t])' /\ Decided(requests[t])'
    <2>1. /\ Apart(t, requests[t]) /\ Promoted(requests[t]) /\ Decided(requests[t])
          /\ requests'[t] = requests[t]
      BY <1>3 DEF ImageInv, RequestInv, OnlySlot
    <2>2. ASSUME requests[t].old \in Keys \ contended', NEW r \in Slots \ {t}
          PROVE  requests'[r].old # requests[t].old /\ requests'[r].image # requests[t].old
      <3>1. CASE r = s
        BY <1>3, <2>2, <3>1
      <3>2. CASE r # s
        BY <2>1, <2>2, <3>2 DEF Apart, OnlySlot
      <3> QED BY <3>1, <3>2
    <2>3. Apart(t, requests[t])'
      BY <2>1, <2>2 DEF Apart
    <2>4. Promoted(requests[t])' /\ Decided(requests[t])'
      BY <1>1, <2>1 DEF Promoted, Decided
    <2> QED BY <2>3, <2>4
  <1>4. Apart(s, requests[s])' /\ Promoted(requests[s])' /\ Decided(requests[s])'
    <2>1. Apart(s, requests[s])'
      BY DEF Apart, OnlySlot
    <2>2. Promoted(requests[s])'
      BY DEF Promoted
    <2>3. Decided(requests[s])'
      BY <1>1 DEF Decided
    <2> QED BY <2>1, <2>2, <2>3
  <1>5. RequestInv'
    BY <1>3, <1>4 DEF RequestInv
  <1>6. ASSUME NEW k \in canonical' \ contended' PROVE Held(k)'
    <2>1. CASE k \in abandoned' \/ Named(k) \/ Holds(requests'[s], k)
      BY <1>1, <2>1 DEF Held, Named, Holds
    <2>2. CASE k \in canonical /\ ~Holds(requests[s], k)
      <3>1. Held(k)
        BY <1>6, <2>2 DEF ImageInv, LeakInv
      <3>2. CASE k \in abandoned \/ Named(k)
        BY <1>1, <3>2 DEF Held, Named
      <3>3. ASSUME NEW t \in Slots, Holds(requests[t], k) PROVE Held(k)'
        BY <2>2, <3>3 DEF Held, Holds, OnlySlot
      <3> QED BY <3>1, <3>2, <3>3 DEF Held
    <2> QED BY <1>6, <2>1, <2>2
  <1>7. LeakInv'
    BY <1>6 DEF LeakInv
  <1> QED BY <1>2, <1>5, <1>7 DEF ImageInv

(* A request goes on with the images it has. *)
LEMMA OnwardImages ==
    ASSUME AccountInv, ImageInv, NEW s \in Slots, users' = users, OnlySlot(s),
           canonical \subseteq canonical', contended' = contended, abandoned' = abandoned,
           requests'[s].image = requests[s].image, requests'[s].old = requests[s].old,
           ~requests[s].drop, ~requests'[s].drop,
           requests'[s].pc = "commit" => requests[s].old = None,
           requests[s].pc \in Promoting => requests'[s].pc \in Promoting,
           requests'[s].pc \in Promoting /\ requests[s].image \in Keys =>
               requests[s].pc \in Promoting \/ requests[s].image \in canonical',
           \A k \in canonical' \ canonical : Holds(requests'[s], k)
    PROVE  ImageInv'
  <1>1. \A t \in Slots : Apart(t, requests[t]) /\ Promoted(requests[t])
    BY DEF ImageInv, RequestInv
  <1>2. ASSUME NEW t \in Slots \ {s}
        PROVE  /\ requests'[s].old \in Keys \ contended' =>
                      /\ requests[t].old # requests'[s].old
                      /\ requests[t].image # requests'[s].old
               /\ requests[t].old \in Keys \ contended' =>
                      requests'[s].image # requests[t].old
    BY <1>1 DEF Apart
  <1>3. requests'[s].pc \in Promoting /\ requests'[s].image \in Keys =>
            requests'[s].image \in canonical' \cup contended'
    BY <1>1 DEF Promoted
  <1>4. Decided(requests'[s])
    BY ProfileAssumption DEF Decided
  <1>5. \A k : Holds(requests[s], k) => Holds(requests'[s], k)
    BY DEF Holds
  <1>6. \A k \in canonical' \ contended' :
            Holds(requests'[s], k) \/ (k \in canonical /\ ~Holds(requests[s], k))
    BY <1>5
  <1> QED BY <1>2, <1>3, <1>4, <1>6, QuietImages

(* A request ends, having left behind what it held. *)
LEMMA EndImages ==
    ASSUME AccountInv, ImageInv, NEW s \in Slots, users' = users,
           requests' = [requests EXCEPT ![s] = Idle],
           canonical' = canonical, contended' = contended, abandoned \subseteq abandoned',
           \A k \in Keys : Holds(requests[s], k) => Named(k) \/ k \in abandoned'
    PROVE  ImageInv'
  <1>1. requests'[s] = Idle /\ OnlySlot(s) /\ canonical \subseteq Keys
    BY DEF AccountInv, TypeOK, OnlySlot
  <1>2. Decided(Idle) /\ Idle.old \notin Keys /\ Idle.image \notin Keys
        /\ Idle.pc \notin Promoting
    BY IdleShape, ProfileAssumption DEF Decided, Promoting
  <1> QED BY <1>1, <1>2, QuietImages

LEMMA RefuseImages ==
    ASSUME AccountInv, ImageInv, NEW s \in Slots, Refuse(s)
    PROVE  ImageInv'
  <1>1. ASSUME NEW k \in Keys, Holds(requests[s], k) PROVE Named(k) \/ k \in abandoned'
    BY <1>1 DEF Refuse, Holds, LeftBehind, Named, Promoting
  <1> QED BY <1>1, EndImages DEF Refuse

LEMMA BeginImages ==
    ASSUME AccountInv, ImageInv, NEW s \in Slots, s \notin Running, Begins(s)
    PROVE  ImageInv'
  <1>1. PICK q : Fresh(q) /\ Begin(s, q) /\ requests'[s] = q /\ OnlySlot(s)
    BY DEF Begins
  <1>2. requests[s].pc = "idle"
    BY DEF Running
  <1>3. /\ users' = users /\ canonical' = canonical /\ abandoned' = abandoned
        /\ contended' = contended \cup GivenUp(s, q.image)
    BY <1>1 DEF Begin
  <1>4. ASSUME NEW t \in Slots \ {s}, requests[t].old \in Keys \ contended'
        PROVE  q.image # requests[t].old
    BY <1>3, <1>4 DEF GivenUp
  <1>5. q.old \notin Keys /\ Decided(q) /\ (q.pc \in Promoting => q.image \notin Keys)
    BY <1>1, ProfileAssumption DEF Fresh, Decided, Promoting
  <1>6. \A k : ~Holds(requests[s], k)
    BY <1>2 DEF Holds, Promoting
  <1> QED BY <1>1, <1>3, <1>4, <1>5, <1>6, QuietImages

(* The image of the row under the lock is now the request's to give up. *)
LEMMA TakeLockImages ==
    ASSUME AccountInv, ImageInv, NEW s \in Slots, requests[s].pc \in {"select", "wait"},
           NEW u \in Users, TakeLock(s, u)
    PROVE  ImageInv'
  <1>1. /\ requests \in [Slots -> Request] /\ Shape(requests[s])
        /\ \A t \in Slots : Apart(t, requests[t]) /\ Promoted(requests[t])
    BY DEF AccountInv, TypeOK, ShapeInv, ImageInv, RequestInv
  <1>2. /\ OnlySlot(s) /\ requests'[s].pc = "write" /\ requests'[s].old = users[u].image
        /\ requests'[s].image = requests[s].image /\ requests'[s].drop = requests[s].drop
    BY <1>1 DEF TakeLock, OnlySlot, Request
  <1>3. ~requests[s].drop
    BY <1>1 DEF Shape
  <1>4. /\ users' = users /\ canonical' = canonical /\ abandoned' = abandoned
        /\ contended' = contended \cup GivenUp(s, users[u].image)
                                  \cup InHand(s, users[u].image)
    BY DEF TakeLock
  <1>5. ASSUME NEW t \in Slots \ {s}
        PROVE  /\ requests'[s].old \in Keys \ contended' =>
                      /\ requests[t].old # requests'[s].old
                      /\ requests[t].image # requests'[s].old
               /\ requests[t].old \in Keys \ contended' =>
                      requests'[s].image # requests[t].old
    BY <1>1, <1>2, <1>4 DEF GivenUp, InHand, Apart
  <1>6. requests'[s].image \in Keys => requests'[s].image \in canonical' \cup contended'
    BY <1>1, <1>2, <1>4 DEF Promoted, Promoting
  <1>7. Decided(requests'[s])
    BY <1>2, <1>3 DEF Decided
  <1>8. \A k : Holds(requests[s], k) => Holds(requests'[s], k)
    BY <1>2, <1>3 DEF Holds, Promoting
  <1> QED BY <1>2, <1>4, <1>5, <1>6, <1>7, <1>8, QuietImages

(* A request still before its reference check, at another step. *)
LEMMA StepImages ==
    ASSUME AccountInv, ImageInv, NEW s \in Slots,
           \/ PromoteStat(s) \/ PromoteCopy(s) \/ SelectProfile(s) \/ GrantLock(s)
           \/ WriteProfile(s) \/ ClaimEmail(s) \/ ClaimWallet(s) \/ DeadlockDetected(s)
    PROVE  ImageInv'
  <1>1. /\ requests \in [Slots -> Request] /\ Shape(requests[s])
        /\ \A k \in canonical : k \in Keys
    BY DEF AccountInv, TypeOK, ShapeInv
  <1>2. ASSUME NEW pc, Goto(s, pc) \/ \E u : requests' = [requests EXCEPT ![s].pc = pc,
                                                                         ![s].user = u]
        PROVE  /\ OnlySlot(s) /\ requests'[s].pc = pc
               /\ requests'[s].image = requests[s].image
               /\ requests'[s].old = requests[s].old /\ requests'[s].drop = requests[s].drop
    BY <1>1, <1>2 DEF Goto, OnlySlot, Request
  <1>3. CASE PromoteStat(s)
    <2>1. PICK pc \in {"email", "select", "copy"} :
              Goto(s, pc) /\ (pc # "copy" => requests[s].image \in canonical)
      BY <1>3 DEF PromoteStat
    <2>2. requests[s].pc = "stat" /\ ~requests[s].drop
      BY <1>1, <1>3 DEF PromoteStat, Shape
    <2> QED BY <1>2, <1>3, <2>1, <2>2, OnwardImages DEF PromoteStat, Promoting
  <1>4. CASE PromoteCopy(s) /\ requests[s].image \in staging
    <2>1. PICK pc \in {"email", "select"} : Goto(s, pc)
      BY <1>4 DEF PromoteCopy
    <2>2. requests[s].pc = "copy" /\ ~requests[s].drop
      BY <1>1, <1>4 DEF PromoteCopy, Shape
    <2>3. canonical' = canonical \cup {requests[s].image}
      BY <1>4 DEF PromoteCopy
    <2>4. \A k \in canonical' \ canonical : Holds(requests'[s], k)
      BY <1>2, <2>1, <2>3 DEF Holds, Promoting
    <2> QED BY <1>2, <1>4, <2>1, <2>2, <2>3, <2>4, OnwardImages DEF PromoteCopy, Promoting
  <1>5. CASE PromoteCopy(s) /\ requests[s].image \notin staging
    <2>1. \A k \in Keys : ~Holds(requests[s], k)
      BY <1>5 DEF PromoteCopy, Holds, Promoting
    <2> QED BY <1>5, <2>1, EndImages DEF PromoteCopy
  <1>6. CASE Refuse(s)
    BY <1>6, RefuseImages
  <1>7. CASE /\ requests[s].pc = "select"
             /\ \E u : requests' = [requests EXCEPT ![s].pc = "wait", ![s].user = u]
             /\ UNCHANGED <<users, uploads, staging, canonical, abandoned, contended, faults>>
    <2>1. ~requests[s].drop
      BY <1>1, <1>7 DEF Shape
    <2>2. /\ OnlySlot(s) /\ requests'[s].pc = "wait"
          /\ requests'[s].image = requests[s].image
          /\ requests'[s].old = requests[s].old /\ requests'[s].drop = requests[s].drop
      BY <1>2, <1>7
    <2> QED BY <1>7, <2>1, <2>2, OnwardImages DEF Promoting
  <1>8. CASE /\ requests[s].pc \in {"select", "wait"}
             /\ \E u \in Users : TakeLock(s, u)
    BY <1>8, TakeLockImages
  <1>9. CASE /\ requests[s].pc \in {"write", "email", "wallet"}
             /\ \E pc \in {"check", "email", "wallet", "commit"} :
                    Goto(s, pc) /\ (pc = "commit" => requests[s].pc = "wallet")
             /\ UNCHANGED <<users, uploads, staging, canonical, abandoned, contended>>
    <2>1. ~requests[s].drop /\ (requests[s].pc = "wallet" => requests[s].old = None)
      BY <1>1, <1>9 DEF Shape
    <2> QED BY <1>2, <1>9, <2>1, OnwardImages DEF Promoting
  <1>10. CASE SelectProfile(s)
    BY <1>6, <1>7, <1>8, <1>10 DEF SelectProfile, Profile, Live
  <1>11. CASE GrantLock(s)
    BY <1>6, <1>8, <1>11 DEF GrantLock, Live
  <1>12. CASE WriteProfile(s)
    BY <1>6, <1>9, <1>12 DEF WriteProfile
  <1>13. CASE ClaimEmail(s) \/ ClaimWallet(s) \/ DeadlockDetected(s)
    BY <1>6, <1>9, <1>13 DEF ClaimEmail, ClaimWallet, DeadlockDetected
  <1> QED BY <1>3, <1>4, <1>5, <1>10, <1>11, <1>12, <1>13

(* imageStillReferenced: what it finds, and what it does not. *)
LEMMA CheckImages ==
    ASSUME AccountInv, ImageInv, NEW s \in Slots, CheckReferences(s)
    PROVE  ImageInv'
  <1> DEFINE q == requests[s]
             p == requests'[s]
             rows == [users EXCEPT ![q.user] = CommittedRow(q)]
             unlinked == IF q.kind = "delete" THEN q.old # None ELSE imageObjectKeyChanged(q)
  <1>1. /\ q.pc = "check" /\ q.kind # "register" /\ users' = users /\ OnlySlot(s)
        /\ p.pc = "commit" /\ p.kind = q.kind /\ p.image = q.image /\ p.user = q.user
        /\ p.old = q.old /\ (p.drop <=> unlinked /\ ~imageStillReferenced(s))
    BY CheckSlot
  <1>2. canonical' = canonical /\ abandoned' = abandoned /\ contended' = contended
    BY DEF CheckReferences
  <1>3. /\ Shape(q) /\ q.user \in Users /\ users \in [Users -> UserRow]
        /\ \A t \in Slots : Apart(t, requests[t]) /\ Promoted(requests[t])
    BY <1>1 DEF AccountInv, TypeOK, ShapeInv, Shape, ImageInv, RequestInv
  <1>4. /\ \A u \in Users \ {q.user} : rows[u] = users[u]
        /\ rows[q.user] = CommittedRow(q)
    BY <1>3
  <1>5. imageStillReferenced(s) <=>
            \E u \in Users : rows[u].image = q.old
                             /\ (q.kind = "delete" => rows[u].state = "live")
    BY DEF imageStillReferenced
  <1>6. NewImage(p) = NewImage(q) /\ q.kind \in {"replace", "delete"}
    BY <1>1, <1>3 DEF NewImage, Shape, Open
  <1> HIDE DEF q, p, rows
  <1>7. ASSUME q.old \in Keys
        PROVE  /\ p.drop => \A u \in Live : users[u].image = q.old => u = q.user
               /\ p.drop /\ q.kind = "replace" => NewImage(q) # q.old
               /\ ~p.drop => \/ q.kind = "replace" /\ NewImage(q) = q.old
                             \/ \E u \in Live \ {q.user} : users[u].image = q.old
    <2>1. ASSUME p.drop, NEW u \in Live, users[u].image = q.old PROVE u = q.user
      BY <1>1, <1>4, <1>5, <2>1 DEF Live
    <2>2. p.drop /\ q.kind = "replace" => NewImage(q) # q.old
      BY <1>1 DEF imageObjectKeyChanged
    <2>3. ASSUME ~unlinked PROVE q.kind = "replace" /\ NewImage(q) = q.old
      BY <1>6, <1>7, <2>3, ProfileAssumption DEF imageObjectKeyChanged
    <2>4. ASSUME imageStillReferenced(s)
          PROVE  \/ q.kind = "replace" /\ NewImage(q) = q.old
                 \/ \E u \in Live \ {q.user} : users[u].image = q.old
      <3>1. PICK u \in Users : rows[u].image = q.old
        BY <1>5, <2>4
      <3>2. CASE u # q.user
        BY <1>4, <1>7, <3>1, <3>2, ProfileAssumption DEF ImageInv, RowInv
      <3>3. CASE u = q.user
        BY <1>4, <1>6, <1>7, <3>1, <3>3, RowColumns, ProfileAssumption
      <3> QED BY <3>2, <3>3
    <2> QED BY <1>1, <2>1, <2>2, <2>3, <2>4
  <1>8. Decided(p)
    BY <1>1, <1>6, <1>7 DEF Decided
  <1>9. ASSUME NEW t \in Slots \ {s}
        PROVE  /\ p.old \in Keys \ contended' =>
                      requests[t].old # p.old /\ requests[t].image # p.old
               /\ requests[t].old \in Keys \ contended' => p.image # requests[t].old
    BY <1>1, <1>2, <1>3 DEF Apart, q
  <1>10. p.pc \in Promoting /\ p.image \in Keys => p.image \in canonical' \cup contended'
    BY <1>1, <1>2, <1>3 DEF Promoted, Promoting, q
  <1>11. \A k : Holds(q, k) => Holds(p, k)
    BY <1>1 DEF Holds, Promoting
  <1>12. \A k \in canonical' \ contended' :
             Holds(p, k) \/ (k \in canonical /\ ~Holds(q, k))
    BY <1>2, <1>11
  <1> QED BY <1>1, <1>2, <1>8, <1>9, <1>10, <1>12, QuietImages DEF p, q

(* A committed row: its old image is the request's to remove, or in use. *)
LEMMA CommitImages ==
    ASSUME AccountInv, ImageInv, NEW s \in Slots, Commit(s) \/ CommitUnconfirmed(s)
    PROVE  ImageInv'
  <1> DEFINE q == requests[s]
             p == requests'[s]
             row == CommittedRow(q)
  <1>1. /\ q.pc = "commit" /\ users' = [users EXCEPT ![q.user] = row] /\ OnlySlot(s)
        /\ p.kind = "none" /\ p.pc \notin Open
        /\ \/ CommitUnconfirmed(s) /\ p = Idle
           \/ ~q.drop /\ p = Idle
           \/ /\ p.pc \in {"discard", "cleanup"}
              /\ p.image = q.image /\ p.drop = q.drop
              /\ p.old = IF q.drop THEN q.old ELSE None
    BY CommitSlot
  <1>2. /\ canonical' = canonical /\ contended' = contended
        /\ abandoned \ {q.image} \subseteq abandoned'
        /\ CommitUnconfirmed(s) /\ q.drop /\ q.old \in Keys => q.old \in abandoned'
    BY DEF Commit, CommitUnconfirmed
  <1>3. /\ Shape(q) /\ Locks(s, q) /\ q \in Request /\ canonical \subseteq Keys
        /\ q.user \in Users /\ users \in [Users -> UserRow]
    BY <1>1 DEF AccountInv, TypeOK, ShapeInv, Shape, LockInv
  <1>4. /\ users'[q.user] = row /\ \A u \in Users \ {q.user} : users'[u] = users[u]
    BY <1>1, <1>3
  <1>5. /\ q.kind = "delete" => row.state = "deleted" /\ row.image = None /\ row.wallet = None
        /\ q.kind # "delete" => row.state = "live" /\ row.image = NewImage(q)
    BY RowColumns
  <1>6. q.kind \in {"register", "replace", "delete"} /\ (q.kind = "delete" => q.image = None)
        /\ (q.kind = "register" => q.image # Keep /\ q.old = None)
    BY <1>1, <1>3 DEF Shape, Open
  <1>7. /\ q.kind = "register" => q.user \notin Live
        /\ q.kind # "register" => q.user \in Live /\ users[q.user].image = q.old
    BY <1>1, <1>3, <1>6 DEF Locks, Holding, Live
  <1>8. \A t \in Slots : Apart(t, requests[t]) /\ Promoted(requests[t]) /\ Decided(requests[t])
    BY DEF ImageInv, RequestInv
  <1>9. /\ p.old \in Keys => p.old = q.old /\ p.drop /\ q.drop
        /\ p.image \in Keys => p.image = q.image
        /\ p.pc \notin Promoting
    BY <1>1, IdleShape, ProfileAssumption DEF Promoting, Open
  <1>10. \A u \in Users : u # q.user => (u \in Live' <=> u \in Live)
    BY <1>4 DEF Live
  <1>11. q.user \in Live' <=> q.kind # "delete"
    BY <1>3, <1>4, <1>5 DEF Live
  <1>12. \A t \in Slots \ {s} : requests'[t] = requests[t]
    BY <1>1 DEF OnlySlot
  <1>r. requests[s] = q /\ requests'[s] = p
    OBVIOUS
  <1> HIDE DEF q, p, row
  <1>13. NewImage(q) \in Keys => NewImage(q) = q.image \/ NewImage(q) = q.old
    BY DEF NewImage
  <1>14. RowInv'
    BY <1>4, <1>5, <1>10, <1>11 DEF ImageInv, RowInv
  <1>15. UncontendedImageExists'
    <2> SUFFICES ASSUME NEW u \in Live', users'[u].image # None
                 PROVE  users'[u].image \in canonical \cup contended
      BY <1>2 DEF UncontendedImageExists
    <2>1. CASE u # q.user
      BY <1>4, <1>10, <2>1 DEF ImageInv, UncontendedImageExists, Live
    <2>2. CASE u = q.user
      <3>1. users'[u].image = NewImage(q) /\ q.kind # "delete"
        BY <1>4, <1>5, <1>11, <2>2
      <3>2. CASE q.image = Keep
        BY <1>6, <1>7, <3>1, <3>2 DEF NewImage, ImageInv, UncontendedImageExists
      <3>3. CASE q.image # Keep
        <4>1. q.image \in Keys /\ users'[u].image = q.image
          BY <1>3, <3>1, <3>3 DEF NewImage, Request, ImageUpdates
        <4> QED BY <4>1, <1>1, <1>8, <1>r DEF Promoted, Promoting
      <3> QED BY <3>2, <3>3
    <2> QED BY <2>1, <2>2
  <1>16. ASSUME NEW t \in Slots \ {s}
         PROVE  Apart(t, requests[t])' /\ Promoted(requests[t])' /\ Decided(requests[t])'
    <2>1. /\ requests'[t] = requests[t]
          /\ Apart(t, requests[t]) /\ Promoted(requests[t]) /\ Decided(requests[t])
      BY <1>8, <1>12
    <2>2. ASSUME requests[t].old \in Keys \ contended, NEW r \in Slots \ {t}
          PROVE  requests'[r].old # requests[t].old /\ requests'[r].image # requests[t].old
      BY <1>9, <1>12, <1>r, <2>1, <2>2 DEF Apart
    <2>3. ASSUME requests[t].old \in Keys \ contended
          PROVE  q.old # requests[t].old /\ q.image # requests[t].old
                 /\ NewImage(q) # requests[t].old
      BY <1>13, <1>r, <2>1, <2>3 DEF Apart
    <2>4. ASSUME requests[t].old \in Keys \ contended, NEW u \in Live',
                 users'[u].image = requests[t].old
          PROVE  u \in Live /\ users[u].image = requests[t].old
      BY <1>4, <1>5, <1>10, <1>11, <2>3, <2>4 DEF Live
    <2>5. ASSUME requests[t].old \in Keys \ contended, NEW u \in Live,
                 users[u].image = requests[t].old
          PROVE  u \in Live' /\ users'[u].image = requests[t].old
      BY <1>4, <1>7, <1>10, <2>3, <2>5 DEF Live
    <2>6. Decided(requests[t])'
      BY <1>2, <2>1, <2>4, <2>5 DEF Decided, NewImage
    <2> QED BY <1>2, <2>1, <2>2, <2>6 DEF Apart, Promoted
  <1>17. Apart(s, requests[s])' /\ Promoted(requests[s])' /\ Decided(requests[s])'
    <2>1. Apart(s, requests[s])'
      BY <1>2, <1>8, <1>9, <1>12, <1>r DEF Apart
    <2>2. ASSUME p.old \in Keys \ contended, NEW u \in Live' PROVE users'[u].image # p.old
      <3>1. CASE u # q.user
        BY <1>4, <1>8, <1>9, <1>10, <1>r, <2>2, <3>1 DEF Decided, Live
      <3>2. CASE u = q.user
        <4>1. users'[u].image = NewImage(q) /\ q.kind = "replace"
          BY <1>4, <1>5, <1>6, <1>9, <1>11, <2>2, <3>2, ProfileAssumption
        <4> QED BY <1>8, <1>9, <1>r, <2>2, <4>1 DEF Decided
      <3> QED BY <3>1, <3>2
    <2>3. p.kind = "none" /\ p.pc # "commit"
      BY <1>1 DEF Open
    <2>4. Decided(requests[s])'
      BY <1>2, <1>r, <2>2, <2>3 DEF Decided
    <2> QED BY <1>9, <1>r, <2>1, <2>4 DEF Promoted
  <1>18. ASSUME NEW k \in canonical \ contended PROVE Held(k)'
    <2>1. k \in Keys /\ Held(k) /\ k # None /\ k # Keep
      BY <1>3, <1>18, ProfileAssumption DEF ImageInv, LeakInv
    <2>2. q.image = k => Named(k)'
      BY <1>4, <1>5, <1>6, <1>11, <2>1 DEF Named, NewImage
    <2>3. CASE k \in abandoned
      BY <1>2, <2>2, <2>3 DEF Held
    <2>4. CASE Named(k)
      <3>1. PICK u \in Live : users[u].image = k
        BY <2>4 DEF Named
      <3>2. CASE u # q.user
        BY <1>4, <1>10, <3>1, <3>2 DEF Held, Named, Live
      <3>3. CASE u = q.user
        <4>1. q.old = k /\ q.kind # "register" /\ Decided(q)
          BY <1>7, <1>8, <1>r, <3>1, <3>3
        <4>2. CASE q.drop
          <5>1. CASE CommitUnconfirmed(s)
            BY <1>2, <2>1, <4>1, <4>2, <5>1 DEF Held
          <5>2. CASE ~CommitUnconfirmed(s)
            BY <1>1, <1>r, <4>1, <4>2, <5>2 DEF Held, Holds
          <5> QED BY <5>1, <5>2
        <4>3. CASE ~q.drop /\ q.kind = "replace" /\ NewImage(q) = k
          BY <1>4, <1>5, <1>11, <4>3 DEF Held, Named
        <4>4. CASE \E v \in Live \ {q.user} : users[v].image = k
          BY <1>4, <1>10, <4>4 DEF Held, Named, Live
        <4> QED BY <1>1, <1>18, <2>1, <4>1, <4>2, <4>3, <4>4 DEF Decided
      <3> QED BY <3>2, <3>3
    <2>5. ASSUME NEW t \in Slots, Holds(requests[t], k) PROVE Held(k)'
      <3>1. CASE t = s
        BY <1>1, <1>r, <2>2, <2>5, <3>1 DEF Held, Holds
      <3>2. CASE t # s
        BY <1>12, <2>5, <3>2 DEF Held, Holds
      <3> QED BY <3>1, <3>2
    <2> QED BY <2>1, <2>3, <2>4, <2>5 DEF Held
  <1>19. RequestInv' /\ LeakInv'
    BY <1>2, <1>16, <1>17, <1>18 DEF RequestInv, LeakInv
  <1> QED BY <1>14, <1>15, <1>19 DEF ImageInv

(* discardStagingImage, and removals that fail. *)
LEMMA DiscardImages ==
    ASSUME AccountInv, ImageInv, NEW s \in Slots, DiscardStaging(s) \/ RemovalFails(s)
    PROVE  ImageInv'
  <1> DEFINE q == requests[s]
             p == requests'[s]
  <1>1. PICK pc \in {"idle", "cleanup"} :
            /\ q.pc \in {"discard", "cleanup"} /\ Continue(s, pc)
            /\ pc = "cleanup" <=> q.pc = "discard" /\ q.drop
    BY RemovalStep
  <1>2. /\ OnlySlot(s) /\ p.pc = pc /\ p.kind = "none"
        /\ pc = "idle" => p = Idle
        /\ pc # "idle" => p.image = q.image /\ p.drop /\ p.old = q.old
    BY <1>1, ContinueStep
  <1>3. /\ users' = users /\ canonical' = canonical /\ contended' = contended
        /\ abandoned \subseteq abandoned'
        /\ q.pc = "cleanup" /\ q.old \in Keys => q.old \in abandoned'
    BY DEF DiscardStaging, RemovalFails
  <1>4. /\ \A t \in Slots : Apart(t, requests[t]) /\ Decided(requests[t])
        /\ \A k \in canonical : k \in Keys
    BY DEF ImageInv, RequestInv, AccountInv, TypeOK
  <1>5. /\ p.old \in Keys => p.old = q.old /\ p.drop /\ q.drop
        /\ p.image \in Keys => p.image = q.image
    BY <1>1, <1>2, IdleShape, ProfileAssumption
  <1>r. requests[s] = q /\ requests'[s] = p
    OBVIOUS
  <1> HIDE DEF p, q
  <1>6. ASSUME NEW t \in Slots \ {s}
        PROVE  /\ p.old \in Keys \ contended =>
                      requests[t].old # p.old /\ requests[t].image # p.old
               /\ requests[t].old \in Keys \ contended => p.image # requests[t].old
    BY <1>4, <1>5, <1>r DEF Apart
  <1>7. Decided(p)
    BY <1>1, <1>2, <1>4, <1>5, <1>r DEF Decided
  <1>8. p.pc \notin Promoting
    BY <1>2 DEF Promoting
  <1>9. ASSUME NEW k \in canonical PROVE k \in abandoned' \/ Holds(p, k) \/ ~Holds(q, k)
    BY <1>1, <1>2, <1>3, <1>4 DEF Holds, Promoting
  <1> QED BY <1>2, <1>3, <1>6, <1>7, <1>8, <1>9, <1>r, QuietImages

(* objectDeleter.Delete: only a contended key can still be wanted. *)
LEMMA DeleteImages ==
    ASSUME AccountInv, ImageInv, NEW s \in Slots, DeleteOldImage(s)
    PROVE  ImageInv'
  <1>1. PICK k : k = requests[s].old
    OBVIOUS
  <1>2. /\ requests[s].pc = "cleanup" /\ users' = users /\ contended' = contended
        /\ canonical' = canonical \ {k} /\ abandoned' = abandoned \ {k}
    BY <1>1 DEF DeleteOldImage
  <1>3. requests[s].drop /\ k \in Keys /\ requests \in [Slots -> Request]
    BY <1>1, <1>2 DEF AccountInv, TypeOK, ShapeInv, Shape
  <1>4. requests'[s] = Idle /\ \A t \in Slots \ {s} : requests'[t] = requests[t]
    BY <1>3 DEF DeleteOldImage, Continue
  <1>5. Live' = Live
    BY <1>2 DEF Live
  <1>6. \A t \in Slots : Apart(t, requests[t]) /\ Promoted(requests[t]) /\ Decided(requests[t])
    BY DEF ImageInv, RequestInv
  <1>7. k \notin contended => /\ \A u \in Live : users[u].image # k
                              /\ \A t \in Slots \ {s} : requests[t].image # k
    BY <1>1, <1>2, <1>3, <1>6 DEF Decided, Apart
  <1>8. RowInv'
    BY <1>2, <1>5 DEF ImageInv, RowInv
  <1>9. UncontendedImageExists'
    BY <1>2, <1>5, <1>7 DEF ImageInv, UncontendedImageExists
  <1>10. Apart(s, requests[s])' /\ Promoted(requests[s])' /\ Decided(requests[s])'
    BY <1>4, IdleShape, ProfileAssumption DEF Apart, Promoted, Decided, Promoting
  <1>11. ASSUME NEW t \in Slots \ {s}
         PROVE  Apart(t, requests[t])' /\ Promoted(requests[t])' /\ Decided(requests[t])'
    <2>1. /\ requests'[t] = requests[t]
          /\ Apart(t, requests[t]) /\ Promoted(requests[t]) /\ Decided(requests[t])
      BY <1>4, <1>6
    <2>2. ASSUME requests[t].old \in Keys \ contended, NEW r \in Slots \ {t}
          PROVE  requests'[r].old # requests[t].old /\ requests'[r].image # requests[t].old
      BY <1>4, <2>1, <2>2, IdleShape, ProfileAssumption DEF Apart
    <2>3. Promoted(requests[t])'
      BY <1>2, <1>7, <2>1 DEF Promoted
    <2>4. Decided(requests[t])'
      BY <1>2, <1>5, <2>1 DEF Decided
    <2> QED BY <1>2, <2>1, <2>2, <2>3, <2>4 DEF Apart
  <1>12. ASSUME NEW j \in canonical' \ contended' PROVE Held(j)'
    <2>1. j # k /\ Held(j)
      BY <1>2, <1>12 DEF ImageInv, LeakInv
    <2>2. ~Holds(requests[s], j)
      BY <1>1, <1>2, <2>1 DEF Holds, Promoting
    <2>3. CASE j \in abandoned \/ Named(j)
      BY <1>2, <1>5, <2>1, <2>3 DEF Held, Named
    <2>4. ASSUME NEW t \in Slots, Holds(requests[t], j) PROVE Held(j)'
      BY <1>4, <2>2, <2>4 DEF Held, Holds
    <2> QED BY <2>1, <2>3, <2>4 DEF Held
  <1> QED BY <1>8, <1>9, <1>10, <1>11, <1>12 DEF ImageInv, RequestInv, LeakInv

LEMMA CrashImages ==
    ASSUME AccountInv, ImageInv, Crash
    PROVE  ImageInv'
  <1>1. /\ requests' = [s \in Slots |-> Idle] /\ users' = users
        /\ canonical' = canonical /\ contended' = contended
        /\ abandoned' = abandoned \cup UNION {LeftBehind(requests[s]) : s \in Running}
    BY DEF Crash
  <1>2. Live' = Live /\ \A k \in canonical : k \in Keys
    BY <1>1 DEF Live, AccountInv, TypeOK
  <1>3. RequestInv'
    BY <1>1, IdleShape, ProfileAssumption DEF RequestInv, Apart, Promoted, Decided, Promoting
  <1>4. ASSUME NEW k \in canonical \ contended PROVE Held(k)'
    <2>1. Held(k)
      BY <1>4 DEF ImageInv, LeakInv
    <2>2. CASE k \in abandoned \/ Named(k)
      BY <1>1, <1>2, <2>2 DEF Held, Named
    <2>3. ASSUME NEW s \in Slots, Holds(requests[s], k) PROVE Held(k)'
      <3>1. s \in Running
        BY <2>3 DEF Holds, Running, Promoting
      <3>2. k \in LeftBehind(requests[s]) \/ Named(k)
        BY <1>2, <1>4, <2>3 DEF Holds, LeftBehind, Named, Promoting
      <3> QED BY <1>1, <1>2, <3>1, <3>2 DEF Held, Named
    <2> QED BY <2>1, <2>2, <2>3 DEF Held
  <1>5. RowInv' /\ UncontendedImageExists'
    BY <1>1, <1>2 DEF ImageInv, RowInv, UncontendedImageExists
  <1> QED BY <1>1, <1>3, <1>4, <1>5 DEF ImageInv, LeakInv

LEMMA ImageStep == AccountInv /\ ImageInv /\ [Next]_vars => ImageInv'
  <1> SUFFICES ASSUME AccountInv, ImageInv, [Next]_vars PROVE ImageInv'
    OBVIOUS
  <1>1. ASSUME UNCHANGED <<users, canonical, requests, abandoned, contended>> PROVE ImageInv'
    BY <1>1 DEF ImageInv, RowInv, RequestInv, Apart, Promoted, Decided, LeakInv, Held, Named,
       UncontendedImageExists, Live
  <1>2. ASSUME ClientStep PROVE ImageInv'
    <2>1. CASE \E k \in Keys : PresignProfileImage(k) \/ Upload(k) \/ ExpireUpload(k)
      BY <1>1, <2>1 DEF PresignProfileImage, Upload, ExpireUpload
    <2>2. ASSUME NEW s \in Slots, s \notin Running, NEW w \in Wallets, NEW r \in Roles,
                 \/ \E u \in Users, e \in Emails, k \in Keys \cup {None} :
                        HandleRegister(s, u, w, r, e, k)
                 \/ \E e \in Emails, i \in ImageUpdates :
                        HandleReplaceProfile(s, w, r, e, i)
                 \/ HandleDeleteProfile(s, w, r)
          PROVE  ImageInv'
      BY <2>2, BeginStep, BeginImages
    <2> QED BY <1>2, <2>1, <2>2 DEF ClientStep
  <1>3. ASSUME NEW s \in Slots, Serve(s) PROVE ImageInv'
    BY <1>3, StepImages, CheckImages, CommitImages, DiscardImages, DeleteImages DEF Serve
  <1>4. ASSUME FailureStep PROVE ImageInv'
    <2>1. CASE Crash
      BY <2>1, CrashImages
    <2>2. ASSUME NEW s \in Slots, CallFails(s) \/ CommitUnconfirmed(s) \/ RemovalFails(s)
          PROVE  ImageInv'
      BY <2>2, RefuseImages, CommitImages, DiscardImages DEF CallFails
    <2> QED BY <1>4, <2>1, <2>2 DEF FailureStep
  <1>5. CASE UNCHANGED vars
    BY <1>1, <1>5 DEF vars
  <1> QED BY <1>2, <1>3, <1>4, <1>5 DEF Next

(***************************************************************************)
(* Who answers for each image object, step by step, while any number of    *)
(* requests overlap: nobody gives up what another has in hand, without the *)
(* key being counted as contended.                                         *)
(***************************************************************************)
THEOREM ImagesInvariant == Spec => []ImageInv
  BY InitImages, ImageStep, AccountsInvariant, PTL DEF Spec

(***************************************************************************)
(* The reference check protects every profile that merely names an image:  *)
(* a live profile's image exists, whatever requests of others replace or   *)
(* delete, unless one was giving up that very key while another held it.   *)
(***************************************************************************)
THEOREM UncontendedImagesStay == Spec => []UncontendedImageExists
  <1>1. ImageInv => UncontendedImageExists
    BY DEF ImageInv
  <1> QED BY <1>1, ImagesInvariant, PTL

(***************************************************************************)
(* Only failures and contention leak objects: one under profiles/ that no  *)
(* live profile names and no request has in hand was left by a request     *)
(* that failed, or one request was giving it up while another held it.     *)
(***************************************************************************)
THEOREM LeaksAreFailures == Spec => []NoSilentLeak
  <1>1. ImageInv => NoSilentLeak
    <2>1. ASSUME NEW s \in Slots, NEW k, Holds(requests[s], k)
          PROVE  s \in Running /\ (requests[s].image = k \/ requests[s].old = k)
      BY <2>1 DEF Holds, Promoting, Running
    <2> QED BY <2>1 DEF ImageInv, LeakInv, Held, NoSilentLeak, Named
  <1> QED BY <1>1, ImagesInvariant, PTL

-----------------------------------------------------------------------------
(***************************************************************************)
(* Refinement: a wallet's account is its live row.  Only a commit changes  *)
(* it, and what the transaction has locked and entered by then is what the *)
(* single step of AccountRegistry asks for.                                *)
(***************************************************************************)
AccountOfRow(u) ==
    [role |-> users[u].role, email |-> users[u].email, image |-> users[u].image]

(* OneAccount: the row AccountOf picks is the only one. *)
RowsAreAccounts ==
    \A u \in Live : users[u].wallet \in Wallets => AccountOf(users[u].wallet) = AccountOfRow(u)

LEMMA AccountIsRow == OneAccount /\ RowInv => RowsAreAccounts
  <1> SUFFICES ASSUME OneAccount, RowInv, NEW u \in Live, users[u].wallet \in Wallets
               PROVE  AccountOf(users[u].wallet) = AccountOfRow(u)
    BY DEF RowsAreAccounts
  <1>1. u \in Users
    BY DEF Live
  <1>2. \A v \in Users : users[v].wallet = users[u].wallet => v = u
    BY ProfileAssumption DEF OneAccount, RowInv
  <1>3. (CHOOSE v \in Users : users[v].wallet = users[u].wallet) = u
    BY <1>1, <1>2
  <1> QED BY <1>1, <1>3 DEF AccountOf, AccountOfRow

OthersHaveNone ==
    \A w \in Wallets : (\A u \in Live : users[u].wallet # w) => AccountOf(w) = None

LEMMA NoRowNoAccount == RowInv => OthersHaveNone
  BY ProfileAssumption DEF RowInv, AccountOf, OthersHaveNone

LEMMA AccountsNext == (OneAccount /\ RowInv => RowsAreAccounts /\ OthersHaveNone)'
  BY AccountIsRow, NoRowNoAccount, PTL

(* A wallet has an account exactly if it has a live row. *)
LEMMA RegisteredHasRow ==
    ASSUME RowInv, NEW w \in Registry!Registered
    PROVE  w \in Wallets /\ \E u \in Live : users[u].wallet = w
  <1>1. w \in Wallets /\ AccountOf(w) # None
    BY DEF Registry!Registered, AccountsOfWallets
  <1> QED BY <1>1, NoRowNoAccount DEF OthersHaveNone

LEMMA RowIsRegistered ==
    ASSUME AccountInv, RowInv, NEW u \in Live, users[u].wallet \in Wallets
    PROVE  users[u].wallet \in Registry!Registered
  <1>1. AccountOf(users[u].wallet) = AccountOfRow(u)
    BY AccountIsRow DEF AccountInv, RowsAreAccounts
  <1>2. users[u] \in UserRow
    BY DEF AccountInv, TypeOK, Live
  <1>3. AccountOfRow(u) # None
    BY <1>2, AccountAssumption DEF AccountOfRow, UserRow
  <1> QED BY <1>1, <1>3 DEF Registry!Registered, AccountsOfWallets

(* What a transaction has entered is free in the registry. *)
LEMMA EnteredEmailFree ==
    ASSUME AccountInv, RowInv, NEW s \in Slots, requests[s].pc = "commit",
           requests[s].kind # "delete"
    PROVE  Registry!EmailFree(requests[s].wallet, requests[s].email)
  <1> SUFFICES ASSUME NEW v \in Registry!Registered, v # requests[s].wallet
               PROVE  AccountsOfWallets[v].email # requests[s].email
    BY DEF Registry!EmailFree
  <1>1. v \in Wallets /\ \E u \in Live : users[u].wallet = v
    BY RegisteredHasRow
  <1>2. PICK u \in Live : users[u].wallet = v
    BY <1>1
  <1>3. AccountsOfWallets[v] = AccountOfRow(u)
    BY <1>1, <1>2, AccountIsRow DEF AccountInv, RowsAreAccounts, AccountsOfWallets
  <1>4. u # requests[s].user
    BY <1>2 DEF AccountInv, LockInv, Locks, Holding, Live
  <1>5. users[u].email # requests[s].email
    BY <1>4 DEF AccountInv, ReserveInv, Reserves, HasEmail
  <1> QED BY <1>3, <1>5 DEF AccountOfRow

LEMMA AloneWithWallet ==
    ASSUME AccountInv, NEW s \in Slots, requests[s].pc = "commit",
           NEW u \in Live, u # requests[s].user
    PROVE  users[u].wallet # requests[s].wallet
  <1>1. CASE requests[s].kind = "register"
    BY <1>1 DEF AccountInv, ReserveInv, Reserves, HasWallet
  <1>2. CASE requests[s].kind # "register"
    <2>1. /\ requests[s].user \in Live
          /\ users[requests[s].user].wallet = requests[s].wallet
      BY <1>2 DEF AccountInv, ShapeInv, Shape, LockInv, Locks, Holding, Live
    <2> QED BY <2>1 DEF AccountInv, OneAccount
  <1> QED BY <1>1, <1>2

(* The wallets of others keep their accounts. *)
LEMMA OtherWallets ==
    ASSUME AccountInv, RowInv, OneAccount', RowInv', NEW v \in Wallets, NEW u \in Users,
           \A x \in Users \ {u} : users'[x] = users[x],
           u \in Live => users[u].wallet # v,
           u \in Live' => users'[u].wallet # v
    PROVE  AccountOf(v)' = AccountOf(v)
  <1>1. CASE \E x \in Live : users[x].wallet = v
    <2>1. PICK x \in Live : users[x].wallet = v
      BY <1>1
    <2>2. x \in Users \ {u} /\ users'[x] = users[x] /\ x \in Live'
      BY <2>1 DEF Live
    <2>3. AccountOf(v) = AccountOfRow(x)
      BY <2>1, AccountIsRow DEF AccountInv, RowsAreAccounts
    <2>4. AccountOf(v)' = AccountOfRow(x)'
      BY <2>1, <2>2, AccountsNext DEF RowsAreAccounts
    <2> QED BY <2>2, <2>3, <2>4 DEF AccountOfRow
  <1>2. CASE \A x \in Live : users[x].wallet # v
    <2>1. \A x \in Live' : users'[x].wallet # v
      BY <1>2 DEF Live
    <2> QED BY <1>2, <2>1, NoRowNoAccount, AccountsNext DEF OthersHaveNone
  <1> QED BY <1>1, <1>2

LEMMA CommitRefines ==
    ASSUME AccountInv, RowInv, AccountInv', RowInv', NEW s \in Slots,
           requests[s].pc = "commit",
           users' = [users EXCEPT ![requests[s].user] = CommittedRow(requests[s])]
    PROVE  Registry!RegistryNext \/ UNCHANGED AccountsOfWallets
  <1> DEFINE A == AccountsOfWallets
  <1>q. PICK q : q = requests[s]
    OBVIOUS
  <1>1. /\ q.user \in Users /\ users \in [Users -> UserRow] /\ q \in Request /\ Shape(q)
        /\ Locks(s, q) /\ q.wallet \in Wallets /\ q.kind \in {"register", "replace", "delete"}
    BY <1>q DEF AccountInv, TypeOK, ShapeInv, Shape, LockInv, Open
  <1>2. (\A u \in Users \ {q.user} : users'[u] = users[u]) /\ users'[q.user] = CommittedRow(q)
    BY <1>q, <1>1
  <1>3. q.kind = "register" => q.user \notin Live
    BY <1>1 DEF Locks, Live
  <1>4. q.kind # "register" => /\ q.user \in Live /\ users[q.user].wallet = q.wallet
                               /\ users[q.user].role = q.role
    BY <1>q, <1>1 DEF Locks, Holding, Live
  <1>5. q.kind = "delete" => q.user \notin Live'
    BY <1>2, RowColumns DEF Live
  <1>6. q.kind # "delete" =>
            /\ q.user \in Live' /\ users'[q.user].wallet = q.wallet
            /\ users'[q.user].role = q.role /\ users'[q.user].email = q.email
            /\ users'[q.user].image = NewImage(q)
    BY <1>1, <1>2, RowColumns DEF Live
  <1>7. ASSUME NEW v \in Wallets, v # q.wallet PROVE AccountOf(v)' = AccountOf(v)
    <2>1. (q.user \in Live => users[q.user].wallet # v)
          /\ (q.user \in Live' => users'[q.user].wallet # v)
      BY <1>1, <1>3, <1>4, <1>5, <1>6, <1>7
    <2> QED BY <1>1, <1>2, <2>1, OtherWallets DEF AccountInv
  <1>8. \A a : AccountOf(q.wallet)' = a => A' = [A EXCEPT ![q.wallet] = a]
    BY <1>1, <1>7 DEF AccountsOfWallets
  <1>9. A'[q.wallet] = A[q.wallet] => A' = A
    BY <1>1, <1>7 DEF AccountsOfWallets
  <1>10. \A u \in Live : u # q.user => users[u].wallet # q.wallet
    BY <1>q, AloneWithWallet
  <1>11. CASE q.kind = "delete"
    <2>1. q.wallet \in Registry!Registered
      BY <1>1, <1>4, <1>11, RowIsRegistered
    <2>2. \A u \in Live' : users'[u].wallet # q.wallet
      BY <1>2, <1>5, <1>10, <1>11 DEF Live
    <2>3. AccountOf(q.wallet)' = None
      BY <1>1, <2>2, AccountsNext DEF AccountInv, OthersHaveNone
    <2>4. Registry!DeleteAccount(q.wallet)
      BY <1>8, <2>1, <2>3 DEF Registry!DeleteAccount
    <2> QED BY <1>1, <1>9, <2>4 DEF Registry!RegistryNext
  <1>12. CASE q.kind # "delete"
    <2> DEFINE new == [role |-> q.role, email |-> q.email, image |-> NewImage(q)]
    <2>1. AccountOf(q.wallet)' = AccountOfRow(q.user)'
      BY <1>1, <1>6, <1>12, AccountsNext DEF AccountInv, RowsAreAccounts
    <2>2. AccountOf(q.wallet)' = new
      BY <1>6, <1>12, <2>1 DEF AccountOfRow
    <2>3. Registry!EmailFree(q.wallet, q.email)
      BY <1>q, <1>12, EnteredEmailFree
    <2>4. q.role \in Roles /\ q.email \in Emails /\ NewImage(q) \in Keys \cup {None}
      <3>1. q.image \in Keys \cup {None, Keep} /\ q.old \in Keys \cup {None}
        BY <1>1 DEF Request, ImageUpdates
      <3>2. NewImage(q) \in Keys \cup {None}
        BY <3>1 DEF NewImage
      <3>3. q.role \in Roles /\ q.email \in Emails
        BY <1>q, <1>1, <1>12 DEF Shape, Open
      <3> QED BY <3>2, <3>3
    <2>5. CASE q.kind = "register"
      <3>1. q.wallet \notin Registry!Registered
        BY <1>3, <1>10, <2>5, RegisteredHasRow
      <3>2. Registry!RegisterAccount(q.wallet, q.role, q.email, NewImage(q))
        BY <1>8, <2>2, <2>3, <3>1 DEF Registry!RegisterAccount
      <3> QED BY <1>1, <1>9, <2>4, <3>2 DEF Registry!RegistryNext, Registry!Roles, Roles
    <2>6. CASE q.kind = "replace"
      <3>1. A[q.wallet] = AccountOfRow(q.user)
        BY <1>1, <1>4, <2>6, AccountIsRow DEF AccountInv, RowsAreAccounts, AccountsOfWallets
      <3>2. A[q.wallet].role = q.role /\ q.wallet \in Registry!Registered
        BY <1>1, <1>4, <2>6, <3>1, RowIsRegistered DEF AccountOfRow
      <3>3. Registry!ReplaceAccount(q.wallet, q.email, NewImage(q))
        BY <1>8, <2>2, <2>3, <3>2 DEF Registry!ReplaceAccount
      <3> QED BY <1>1, <1>9, <2>4, <3>3 DEF Registry!RegistryNext
    <2> QED BY <1>1, <1>12, <2>5, <2>6
  <1> QED BY <1>11, <1>12

LEMMA RegistryStep ==
    AccountInv /\ ImageInv /\ AccountInv' /\ ImageInv' /\ [Next]_vars
        => [Registry!RegistryNext]_AccountsOfWallets
  <1> SUFFICES ASSUME AccountInv, RowInv, AccountInv', RowInv', [Next]_vars
               PROVE  Registry!RegistryNext \/ UNCHANGED AccountsOfWallets
    BY DEF ImageInv
  <1>1. CASE users' = users
    BY <1>1 DEF AccountsOfWallets, AccountOf
  <1>2. CASE \E s \in Slots : Commit(s) \/ CommitUnconfirmed(s)
    BY <1>2, CommitRefines DEF Commit, CommitUnconfirmed
  <1>3. users' = users \/ \E s \in Slots : Commit(s) \/ CommitUnconfirmed(s)
    <2>1. ASSUME NEW s \in Slots, Serve(s) PROVE users' = users \/ Commit(s)
      BY <2>1 DEF Serve, PromoteStat, PromoteCopy, SelectProfile, GrantLock, WriteProfile,
         ClaimEmail, ClaimWallet, DeadlockDetected, CheckReferences, DiscardStaging,
         DeleteOldImage, TakeLock, Refuse
    <2>2. CASE ClientStep
      <3>1. CASE \E k \in Keys : PresignProfileImage(k) \/ Upload(k) \/ ExpireUpload(k)
        BY <3>1 DEF PresignProfileImage, Upload, ExpireUpload
      <3>2. ASSUME NEW s \in Slots, NEW w \in Wallets, NEW r \in Roles,
                   \/ \E u \in Users, e \in Emails, k \in Keys \cup {None} :
                          HandleRegister(s, u, w, r, e, k)
                   \/ \E e \in Emails, i \in ImageUpdates :
                          HandleReplaceProfile(s, w, r, e, i)
                   \/ HandleDeleteProfile(s, w, r)
            PROVE  users' = users
        BY <3>2, BeginStep DEF Begins, Begin
      <3> QED BY <2>2, <3>1, <3>2 DEF ClientStep
    <2>3. CASE FailureStep
      BY <2>3 DEF FailureStep, CallFails, RemovalFails, Crash, Refuse
    <2> QED BY <2>1, <2>2, <2>3 DEF Next, vars
  <1> QED BY <1>1, <1>2, <1>3

(***************************************************************************)
(* The overlapping registrations, replacements and deletions of both roles *)
(* implement the account registry: each request that commits is one step,  *)
(* all others change no account, through deadlocks, failures, lost answers *)
(* of COMMIT and crashes.                                                  *)
(***************************************************************************)
THEOREM RegistryRefinement == Spec => ImplementsRegistry
  <1>1. Init => Registry!RegistryInit
    <2> SUFFICES ASSUME Init PROVE AccountsOfWallets = [w \in Wallets |-> None]
      BY DEF Registry!RegistryInit
    <2>1. \A u \in Users : users[u].wallet = None
      BY DEF Init, NoUser
    <2> QED BY <2>1, ProfileAssumption DEF AccountsOfWallets, AccountOf
  <1> QED BY <1>1, RegistryStep, AccountsInvariant, ImagesInvariant, PTL
      DEF Spec, ImplementsRegistry, Registry!RegistrySpec

=============================================================================
