------------------------------- MODULE SignIn -------------------------------
(***************************************************************************)
(* Signing in and acting with the token: the API hands out a SIWE message, *)
(* keeps a copy in Redis until it expires, and exchanges the signed        *)
(* message for a JWT that carries the wallet and the role the wallet had   *)
(* at that moment.  Later requests are authenticated by the token alone;   *)
(* endpoints check the role in the token, repositories the role in the     *)
(* database, and the account can change in between.                        *)
(*                                                                         *)
(* Accounts change as AccountRegistry says.  Time is counted in seconds,   *)
(* the resolution of the times in messages and tokens.                     *)
(***************************************************************************)
EXTENDS AccountRegistry, Naturals, FiniteSets

CONSTANTS
    Nonces,          \* rand.Text(), one per message
    Slots,           \* requests the API serves at the same time
    MessageTTL,      \* AuthConfig.MessageTTL
    AccessTokenTTL,  \* AuthConfig.AccessTokenTTL
    MaxTime,         \* bound on the clock
    MaxFaults        \* bound on failed calls

ASSUME SignInAssumption ==
    /\ None \notin Nonces /\ None \notin Wallets /\ None \notin Roles
    /\ None \notin Account
    /\ MessageTTL \in Nat \ {0} /\ AccessTokenTTL \in Nat \ {0}
    /\ MaxTime \in Nat /\ MaxFaults \in Nat

VARIABLES
    now,      \* the clock
    issued,   \* issued[n]: the message with nonce n the client was given
    store,    \* store[n]: Redis entry siwe:message:n
    calls,    \* calls[s]: the request slot s serves, or has answered
    tokens,   \* the access tokens in the clients' hands
    minted,   \* minted[n]: how many tokens the message n has been worth
    faults    \* failures so far

vars == <<accounts, now, issued, store, calls, tokens, minted, faults>>

(* What of a message the code looks at: its address and expirationTime. *)
Message == [wallet : Wallets, expires : Nat]

Entry == [message : Message, until : Nat]

(* Claims; a wallet without an account gets the empty role. *)
Token == [wallet : Wallets, role : Roles \cup {None}, expires : Nat,
          nonce : Nonces \cup {None}]

(***************************************************************************)
(* The authenticated routes: the role whose account they are about, and    *)
(* whether the handler asks for that role in the token.  "campaign" stands *)
(* for the creation of a campaign and for its detail.                      *)
(***************************************************************************)
Endpoints ==
    {[op |-> o, role |-> r, guarded |-> FALSE] :
        o \in {"register", "get", "replace", "delete"}, r \in Roles}
    \cup {[op |-> o, role |-> "fundraiser", guarded |-> TRUE] :
        o \in {"campaign", "list"}}
    \cup {[op |-> "donations", role |-> "supporter", guarded |-> TRUE],
          [op |-> "me", role |-> None, guarded |-> FALSE]}

Call ==
    [pc       : {"idle", "consume", "profile", "token", "act", "donations", "done"},
     endpoint : Endpoints \cup {None},
     nonce    : Nonces \cup {None},
     message  : Message \cup {None},
     wallet   : Wallets \cup {None},
     role     : Roles \cup {None},
     result   : {"none", "ok", "refused", "forbidden", "notFound", "empty"}]

Idle == [pc |-> "idle", endpoint |-> None, nonce |-> None, message |-> None,
         wallet |-> None, role |-> None, result |-> "none"]

TypeOK ==
    /\ accounts \in [Wallets -> Account \cup {None}]
    /\ now \in 0 .. MaxTime
    /\ issued \in [Nonces -> Message \cup {None}]
    /\ store \in [Nonces -> Entry \cup {None}]
    /\ calls \in [Slots -> Call]
    /\ tokens \in SUBSET Token
    /\ minted \in [Nonces -> Nat]
    /\ faults \in 0 .. MaxFaults

Init ==
    /\ RegistryInit
    /\ now = 0
    /\ issued = [n \in Nonces |-> None]
    /\ store = [n \in Nonces |-> None]
    /\ calls = [s \in Slots |-> Idle]
    /\ tokens = {}
    /\ minted = [n \in Nonces |-> 0]
    /\ faults = 0

-----------------------------------------------------------------------------
Free(s) == calls[s].pc \in {"idle", "done"}

(* The answer of slot s. *)
Answer(s, result) ==
    calls' = [calls EXCEPT ![s] = [Idle EXCEPT !.pc = "done", !.result = result]]

(* Redis drops entries whose TTL has passed. *)
Tick ==
    /\ now < MaxTime
    /\ now' = now + 1
    /\ store' = [n \in Nonces |->
           IF store[n] # None /\ store[n].until <= now + 1 THEN None ELSE store[n]]
    /\ tokens' = {t \in tokens : t.expires > now + 1}
    /\ UNCHANGED <<accounts, issued, calls, minted, faults>>

(* POST /auth/message: CreateMessage under a fresh nonce. *)
CreateMessage(w, n) ==
    LET m == [wallet |-> w, expires |-> now + MessageTTL] IN
    /\ issued[n] = None
    /\ issued' = [issued EXCEPT ![n] = m]
    /\ store' = [store EXCEPT ![n] = [message |-> m, until |-> now + MessageTTL]]
    /\ UNCHANGED <<accounts, now, calls, tokens, minted, faults>>

(***************************************************************************)
(* POST /auth/verify up to siweMsg.Verify: the message parses, names this  *)
(* URI and chain, has not expired and is signed by the address it names.   *)
(* The nonce is known from a message handed out; the text may differ from  *)
(* it in the address.                                                      *)
(***************************************************************************)
HandleVerify(s, n, v) ==
    /\ Free(s)
    /\ issued[n] # None
    /\ now <= issued[n].expires
    /\ calls' = [calls EXCEPT ![s] =
           [Idle EXCEPT !.pc = "consume", !.nonce = n, !.wallet = v,
                        !.message = [issued[n] EXCEPT !.wallet = v]]]
    /\ UNCHANGED <<accounts, now, issued, store, tokens, minted, faults>>

(* Variant: GET instead of GETDEL. *)
ConsumeMessage_get(s) ==
    LET c == calls[s] IN
    /\ c.pc = "consume"
    /\ IF store[c.nonce] # None /\ store[c.nonce].message = c.message
         THEN calls' = [calls EXCEPT ![s].pc = "profile"]
         ELSE Answer(s, "refused")
    /\ UNCHANGED <<accounts, now, issued, store, tokens, minted, faults>>

(* Variant: the stored copy is not compared with the message. *)
ConsumeMessage_anyText(s) ==
    LET c == calls[s] IN
    /\ c.pc = "consume"
    /\ IF store[c.nonce] # None
         THEN calls' = [calls EXCEPT ![s].pc = "profile"]
         ELSE Answer(s, "refused")
    /\ store' = [store EXCEPT ![c.nonce] = None]
    /\ UNCHANGED <<accounts, now, issued, tokens, minted, faults>>

(* GetDelete, then the comparison with the stored text. *)
ConsumeMessage(s) ==
    LET c == calls[s] IN
    /\ c.pc = "consume"
    /\ IF store[c.nonce] # None /\ store[c.nonce].message = c.message
         THEN calls' = [calls EXCEPT ![s].pc = "profile"]
         ELSE Answer(s, "refused")
    /\ store' = [store EXCEPT ![c.nonce] = None]
    /\ UNCHANGED <<accounts, now, issued, tokens, minted, faults>>

(* Variant: the columns are scanned in the wrong order. *)
FindProfile_wrongColumn(s) ==
    LET w == calls[s].wallet IN
    /\ calls[s].pc = "profile"
    /\ calls' = [calls EXCEPT ![s].pc = "token",
                     ![s].role = IF w \in Registered THEN accounts[w].email ELSE None]
    /\ UNCHANGED <<accounts, now, issued, store, tokens, minted, faults>>

(* Variant: a wallet without an account cannot sign in. *)
FindProfile_registeredOnly(s) ==
    LET w == calls[s].wallet IN
    /\ calls[s].pc = "profile"
    /\ IF w \in Registered
         THEN calls' = [calls EXCEPT ![s].pc = "token", ![s].role = accounts[w].role]
         ELSE Answer(s, "refused")
    /\ UNCHANGED <<accounts, now, issued, store, tokens, minted, faults>>

(* FindProfileByWalletAddress *)
FindProfile(s) ==
    LET w == calls[s].wallet IN
    /\ calls[s].pc = "profile"
    /\ calls' = [calls EXCEPT ![s].pc = "token",
                     ![s].role = IF w \in Registered THEN accounts[w].role ELSE None]
    /\ UNCHANGED <<accounts, now, issued, store, tokens, minted, faults>>

(* Generate, for a verified message or for an account just registered. *)
IssueAccessToken(s) ==
    LET c == calls[s] IN
    /\ c.pc = "token"
    /\ tokens' = tokens \cup {[wallet |-> c.wallet, role |-> c.role,
                               expires |-> now + AccessTokenTTL, nonce |-> c.nonce]}
    /\ minted' = IF c.nonce = None THEN minted
                 ELSE [minted EXCEPT ![c.nonce] = @ + 1]
    /\ Answer(s, "ok")
    /\ UNCHANGED <<accounts, now, issued, store, faults>>

-----------------------------------------------------------------------------
(***************************************************************************)
(* Authenticate and the handler's role check: from here on the request     *)
(* acts for the wallet of the token, whatever becomes of the token.        *)
(***************************************************************************)
HandleAuthenticated(s, t, ep) ==
    /\ Free(s)
    /\ now < t.expires
    /\ calls' = [calls EXCEPT ![s] =
           IF ep.guarded /\ t.role # ep.role
             THEN [Idle EXCEPT !.pc = "done", !.result = "forbidden"]
             ELSE [Idle EXCEPT !.pc = "act", !.endpoint = ep, !.wallet = t.wallet]]
    /\ UNCHANGED <<accounts, now, issued, store, tokens, minted, faults>>

(* The account the repository's query finds for the endpoint. *)
FindByWalletAddress(w, ep) ==
    /\ w \in Registered
    /\ ep.role # None => accounts[w].role = ep.role

(* Create of either repository, which ignores the role in the token; the   *)
(* handler goes on to issue a token for the new role.                      *)
Register(s) ==
    LET c == calls[s] IN
    /\ c.pc = "act" /\ c.endpoint.op = "register"
    /\ \/ /\ \E e \in Emails : RegisterAccount(c.wallet, c.endpoint.role, e, None)
          /\ calls' = [calls EXCEPT ![s].pc = "token", ![s].role = c.endpoint.role]
       \/ UNCHANGED accounts /\ Answer(s, "refused")
    /\ UNCHANGED <<now, issued, store, tokens, minted, faults>>

(* ReplaceProfile and DeleteProfile as AccountRegistry has them; either    *)
(* may be refused (e-mail taken, open campaigns).                          *)
ChangeAccount(s) ==
    LET c == calls[s] IN
    /\ c.pc = "act" /\ c.endpoint.op \in {"replace", "delete"}
    /\ FindByWalletAddress(c.wallet, c.endpoint)
    /\ \/ /\ c.endpoint.op = "replace"
          /\ \E e \in Emails : ReplaceAccount(c.wallet, e, None)
          /\ Answer(s, "ok")
       \/ /\ c.endpoint.op = "delete"
          /\ DeleteAccount(c.wallet)
          /\ Answer(s, "ok")
       \/ UNCHANGED accounts /\ Answer(s, "refused")
    /\ UNCHANGED <<now, issued, store, tokens, minted, faults>>

(* GetMe, GetProfile, Create of a campaign (which locks the fundraiser     *)
(* row), ListForFundraiser and FindByIDForFundraiser, whose queries all    *)
(* ask for the live account of the role themselves.                        *)
UseAccount(s) ==
    LET c == calls[s] IN
    /\ c.pc = "act" /\ c.endpoint.op \in {"me", "get", "campaign", "list"}
    /\ FindByWalletAddress(c.wallet, c.endpoint)
    /\ Answer(s, "ok")
    /\ UNCHANGED <<accounts, now, issued, store, tokens, minted, faults>>

(* ListDonations: findSupporter, a query of its own, ... *)
FindSupporter(s) ==
    LET c == calls[s] IN
    /\ c.pc = "act" /\ c.endpoint.op = "donations"
    /\ FindByWalletAddress(c.wallet, c.endpoint)
    /\ calls' = [calls EXCEPT ![s].pc = "donations"]
    /\ UNCHANGED <<accounts, now, issued, store, tokens, minted, faults>>

(* ... and the list of what the wallet has given, which asks for no        *)
(* account: by now it may be gone or have the other role.                  *)
ListDonations(s) ==
    /\ calls[s].pc = "donations"
    /\ Answer(s, "ok")
    /\ UNCHANGED <<accounts, now, issued, store, tokens, minted, faults>>

(* ErrProfileNotFound, ErrCampaignNotFound; ListForFundraiser and GetMe    *)
(* answer 200 instead, the former with an empty page.                      *)
AccountMissing(s) ==
    LET c == calls[s] IN
    /\ c.pc = "act" /\ c.endpoint.op # "register"
    /\ ~FindByWalletAddress(c.wallet, c.endpoint)
    /\ Answer(s, IF c.endpoint.op \in {"list", "me"} THEN "empty" ELSE "notFound")
    /\ UNCHANGED <<accounts, now, issued, store, tokens, minted, faults>>

(* Redis, PostgreSQL or the signer fails, or the client goes away. *)
CallFails(s) ==
    /\ faults < MaxFaults
    /\ ~Free(s)
    /\ faults' = faults + 1
    /\ Answer(s, "refused")
    /\ UNCHANGED <<accounts, now, issued, store, tokens, minted>>

-----------------------------------------------------------------------------
Verify(s) == ConsumeMessage(s) \/ FindProfile(s) \/ IssueAccessToken(s)

Act(s) ==
    \/ Register(s) \/ ChangeAccount(s) \/ UseAccount(s) \/ AccountMissing(s)
    \/ FindSupporter(s) \/ ListDonations(s)

Next ==
    \/ Tick
    \/ \E w \in Wallets, n \in Nonces : CreateMessage(w, n)
    \/ \E s \in Slots :
           \/ \E n \in Nonces, v \in Wallets : HandleVerify(s, n, v)
           \/ \E t \in tokens, ep \in Endpoints : HandleAuthenticated(s, t, ep)
           \/ Verify(s) \/ Act(s) \/ CallFails(s)

Spec == Init /\ [][Next]_vars

-----------------------------------------------------------------------------
(***************************************************************************)
(* A message is worth one token: counting the requests that have consumed  *)
(* it and not yet been answered, never more than one token comes of it,    *)
(* however many copies of the signed message are sent at once.             *)
(***************************************************************************)
Holding(n) == {s \in Slots : calls[s].nonce = n /\ calls[s].pc \in {"profile", "token"}}

OneTokenPerMessage ==
    \A n \in Nonces :
        /\ minted[n] <= 1
        /\ Holding(n) # {} => minted[n] = 0 /\ store[n] = None
        /\ \A s, t \in Holding(n) : s = t

(***************************************************************************)
(* A token obtained with a message is for the wallet the message was       *)
(* created for.                                                            *)
(***************************************************************************)
TokenNamesRecipient ==
    \A t \in tokens : t.nonce # None => t.wallet = issued[t.nonce].wallet

(***************************************************************************)
(* Consuming the message is the point of no return: Verify deletes it      *)
(* before it reads the profile and signs the token.  The request that has  *)
(* consumed it ends with the token, for a wallet without an account too,   *)
(* unless a call fails.                                                    *)
(***************************************************************************)
ConsumedMessageHonoured ==
    [][\A n \in Nonces : \A s \in Holding(n) :
          s \notin Holding(n)' => minted'[n] = 1 \/ faults' > faults]_vars
=============================================================================
