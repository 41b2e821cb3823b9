---------------------------- MODULE SignInProofs ----------------------------
(***************************************************************************)
(* Proofs about SignIn, for any set of wallets, messages and concurrent    *)
(* requests and any number of failures.                                    *)
(*                                                                         *)
(* OneTokenPerMessage needs that a stored message has been worth nothing   *)
(* yet (MessageInv): consuming it is what moves it from the store into the *)
(* hands of one request.  TokenNamesRecipient needs that a request which   *)
(* has passed the comparison with the stored text acts for the wallet the  *)
(* message was created for (CallInv).                                      *)
(***************************************************************************)
EXTENDS SignIn, TLAPS

(* Where a request is tells what it knows. *)
CallInv ==
    \A s \in Slots :
        /\ calls[s].pc \in {"consume", "profile"} => calls[s].nonce \in Nonces
        /\ calls[s].pc = "consume" =>
               calls[s].message \in Message /\ calls[s].message.wallet = calls[s].wallet
        /\ calls[s].pc \in {"consume", "profile", "token", "act"} => calls[s].wallet \in Wallets
        /\ calls[s].pc = "act" => calls[s].endpoint \in Endpoints /\ calls[s].nonce = None
        /\ calls[s].pc \in {"profile", "token"} /\ calls[s].nonce # None =>
               calls[s].wallet = issued[calls[s].nonce].wallet
        /\ calls[s].pc \in {"consume", "profile", "token"} /\ calls[s].nonce # None =>
               issued[calls[s].nonce] # None

(* A message in the store has not been used, and neither has one that has  *)
(* not been created.                                                       *)
MessageInv ==
    \A n \in Nonces :
        /\ store[n] # None => store[n].message = issued[n]
        /\ store[n] # None \/ issued[n] = None => minted[n] = 0 /\ Holding(n) = {}

(* The message of a token is known. *)
TokenInv == \A t \in tokens : t.nonce # None => /\ issued[t.nonce] # None
                                                /\ t.wallet = issued[t.nonce].wallet

SignInInv == TypeOK /\ CallInv /\ MessageInv /\ OneTokenPerMessage /\ TokenInv

-----------------------------------------------------------------------------
(* A slot without a request, and the answers to one, are well typed. *)
LEMMA IdleType ==
    /\ Idle \in Call
    /\ \A r \in {"ok", "refused", "notFound", "empty"} :
           [Idle EXCEPT !.pc = "done", !.result = r] \in Call
  BY DEF Idle, Call

(* Nobody has asked for anything yet. *)
LEMMA InitSignIn == Init => SignInInv
  <1> SUFFICES ASSUME Init PROVE SignInInv
    OBVIOUS
  <1> USE DEF Init, RegistryInit
  <1>1. TypeOK
    BY SignInAssumption, IdleType DEF TypeOK
  <1>2. CallInv /\ TokenInv
    BY DEF CallInv, TokenInv, Idle
  <1>3. MessageInv /\ OneTokenPerMessage
    BY DEF MessageInv, OneTokenPerMessage, Holding, Idle
  <1> QED BY <1>1, <1>2, <1>3 DEF SignInInv

-----------------------------------------------------------------------------
(* Every step keeps the types. *)
LEMMA TypeStep ==
    ASSUME TypeOK, CallInv, [Next]_vars
    PROVE  TypeOK'
  <1> USE DEF TypeOK
  <1>1. CASE Tick
    BY <1>1, SignInAssumption DEF Tick
  <1>2. ASSUME NEW w \in Wallets, NEW n \in Nonces, CreateMessage(w, n) PROVE TypeOK'
    <2>1. [wallet |-> w, expires |-> now + MessageTTL] \in Message
      BY SignInAssumption DEF Message
    <2> QED BY <1>2, <2>1, SignInAssumption DEF CreateMessage, Entry
  <1>3. ASSUME NEW s \in Slots, NEW n \in Nonces, NEW v \in Wallets, HandleVerify(s, n, v)
        PROVE  TypeOK'
    <2>1. issued[n] \in Message
      BY <1>3 DEF HandleVerify
    <2>2. [issued[n] EXCEPT !.wallet = v] \in Message
      BY <2>1 DEF Message
    <2> DEFINE m == [issued[n] EXCEPT !.wallet = v]
    <2>3. calls' = [calls EXCEPT ![s] = [Idle EXCEPT !.pc = "consume", !.nonce = n,
                                             !.wallet = v, !.message = m]]
      BY <1>3 DEF HandleVerify
    <2> HIDE DEF m
    <2>4. [Idle EXCEPT !.pc = "consume", !.nonce = n, !.wallet = v, !.message = m] \in Call
      BY <2>2 DEF Idle, Call, m
    <2> QED BY <1>3, <2>3, <2>4 DEF HandleVerify
  <1>4. ASSUME NEW s \in Slots, NEW t \in tokens, NEW ep \in Endpoints,
               HandleAuthenticated(s, t, ep)
        PROVE  TypeOK'
    <2>1. t.wallet \in Wallets
      BY DEF Token
    <2>2. [Idle EXCEPT !.pc = "done", !.result = "forbidden"] \in Call
      BY DEF Idle, Call
    <2>3. [Idle EXCEPT !.pc = "act", !.endpoint = ep, !.wallet = t.wallet] \in Call
      BY <2>1 DEF Idle, Call
    <2> QED BY <1>4, <2>2, <2>3 DEF HandleAuthenticated
  <1>5. ASSUME NEW s \in Slots, Verify(s) PROVE TypeOK'
    <2>1. CASE ConsumeMessage(s)
      <3>1. [calls[s] EXCEPT !.pc = "profile"] \in Call
        BY DEF Call
      <3> QED BY <2>1, <3>1, IdleType DEF ConsumeMessage, Answer
    <2>2. CASE FindProfile(s)
      <3>1. calls[s].wallet \in Wallets
        BY <2>2 DEF CallInv, FindProfile
      <3> DEFINE w == calls[s].wallet
                 role == IF w \in Registered THEN accounts[w].role ELSE None
      <3>2. role \in Roles \cup {None}
        BY <3>1, SignInAssumption DEF Registered, Account
      <3>3. calls' = [calls EXCEPT ![s] = [calls[s] EXCEPT !.pc = "token", !.role = role]]
        BY <2>2 DEF FindProfile
      <3> HIDE DEF role
      <3>4. [calls[s] EXCEPT !.pc = "token", !.role = role] \in Call
        BY <3>2 DEF Call
      <3> QED BY <2>2, <3>3, <3>4 DEF FindProfile
    <2>3. CASE IssueAccessToken(s)
      <3>1. calls[s].wallet \in Wallets /\ calls[s].role \in Roles \cup {None}
            /\ calls[s].nonce \in Nonces \cup {None}
        BY <2>3 DEF CallInv, IssueAccessToken, Call
      <3>2. [wallet |-> calls[s].wallet, role |-> calls[s].role,
             expires |-> now + AccessTokenTTL, nonce |-> calls[s].nonce] \in Token
        BY <3>1, SignInAssumption DEF Token
      <3>3. minted' \in [Nonces -> Nat]
        BY <2>3, <3>1 DEF IssueAccessToken
      <3>4. tokens' \in SUBSET Token
        BY <2>3, <3>2 DEF IssueAccessToken
      <3> QED BY <2>3, <3>3, <3>4, IdleType DEF IssueAccessToken, Answer
    <2> QED BY <1>5, <2>1, <2>2, <2>3 DEF Verify
  <1>6. ASSUME NEW s \in Slots, Act(s) PROVE TypeOK'
    <2>0. calls[s].pc = "act" => calls[s].wallet \in Wallets /\ calls[s].endpoint \in Endpoints
      BY DEF CallInv
    <2>1. CASE Register(s)
      <3>1. \A ep \in Endpoints : ep.op = "register" => ep.role \in Roles
        BY DEF Endpoints, Roles
      <3>2. calls[s].endpoint.role \in Roles
        BY <2>0, <2>1, <3>1 DEF Register
      <3>3. [calls[s] EXCEPT !.pc = "token", !.role = calls[s].endpoint.role] \in Call
        BY <3>2 DEF Call
      <3>4. calls' \in [Slots -> Call]
        BY <2>1, <3>3, IdleType DEF Register, Answer
      <3>5. accounts' \in [Wallets -> Account \cup {None}]
        <4>1. CASE UNCHANGED accounts
          BY <4>1
        <4>2. CASE \E e \in Emails :
                     RegisterAccount(calls[s].wallet, calls[s].endpoint.role, e, None)
          <5>1. PICK e \in Emails :
                     RegisterAccount(calls[s].wallet, calls[s].endpoint.role, e, None)
            BY <4>2
          <5>2. [role |-> calls[s].endpoint.role, email |-> e, image |-> None] \in Account
            BY <3>2 DEF Account
          <5> QED BY <2>0, <5>1, <5>2 DEF RegisterAccount
        <4> QED BY <2>1, <4>1, <4>2 DEF Register
      <3> QED BY <2>1, <3>4, <3>5 DEF Register
    <2>2. CASE ChangeAccount(s)
      <3>1. calls' \in [Slots -> Call]
        BY <2>2, IdleType DEF ChangeAccount, Answer
      <3>2. accounts' \in [Wallets -> Account \cup {None}]
        <4>1. CASE UNCHANGED accounts
          BY <4>1
        <4>2. CASE DeleteAccount(calls[s].wallet)
          BY <2>0, <4>2 DEF DeleteAccount
        <4>3. CASE \E e \in Emails : ReplaceAccount(calls[s].wallet, e, None)
          <5>1. PICK e \in Emails : ReplaceAccount(calls[s].wallet, e, None)
            BY <4>3
          <5>2. accounts[calls[s].wallet] \in Account
            BY <2>0, <5>1 DEF ReplaceAccount, Registered
          <5>3. [role |-> accounts[calls[s].wallet].role, email |-> e, image |-> None] \in Account
            BY <5>2 DEF Account
          <5> QED BY <2>0, <5>1, <5>3 DEF ReplaceAccount
        <4> QED BY <2>2, <4>1, <4>2, <4>3 DEF ChangeAccount
      <3> QED BY <2>2, <3>1, <3>2 DEF ChangeAccount
    <2>3. CASE UseAccount(s)
      BY <2>3, IdleType DEF UseAccount, Answer
    <2>4. CASE AccountMissing(s)
      BY <2>4, IdleType DEF AccountMissing, Answer
    <2>5. CASE FindSupporter(s)
      <3>1. [calls[s] EXCEPT !.pc = "donations"] \in Call
        BY DEF Call
      <3> QED BY <2>5, <3>1 DEF FindSupporter
    <2>6. CASE ListDonations(s)
      BY <2>6, IdleType DEF ListDonations, Answer
    <2> QED BY <1>6, <2>1, <2>2, <2>3, <2>4, <2>5, <2>6 DEF Act
  <1>7. ASSUME NEW s \in Slots, CallFails(s) PROVE TypeOK'
    BY <1>7, IdleType, SignInAssumption DEF CallFails, Answer
  <1>8. CASE UNCHANGED vars
    BY <1>8 DEF vars
  <1> QED BY <1>1, <1>2, <1>3, <1>4, <1>5, <1>6, <1>7, <1>8 DEF Next

-----------------------------------------------------------------------------
(***************************************************************************)
(* The rest of the invariant, step by step.  A step of slot s leaves the   *)
(* other slots as they are, so Holding changes by s at most.               *)
(***************************************************************************)
LEMMA InvStep ==
    ASSUME SignInInv, TypeOK', [Next]_vars
    PROVE  CallInv' /\ MessageInv' /\ OneTokenPerMessage' /\ TokenInv'
  <1> USE DEF SignInInv
  <1> DEFINE Goal == CallInv' /\ MessageInv' /\ OneTokenPerMessage' /\ TokenInv'
  (* An answer, with the store and the counters as they are. *)
  <1>0. ASSUME NEW s \in Slots, NEW r, Answer(s, r), ~Free(s),
               UNCHANGED <<issued, store, tokens, minted>>
        PROVE  Goal
    <2>1. /\ \A t \in Slots \ {s} : calls'[t] = calls[t]
          /\ calls'[s].pc = "done"
      BY <1>0 DEF Answer, TypeOK, Idle
    <2>2. \A n \in Nonces : Holding(n)' \subseteq Holding(n)
      BY <2>1 DEF Holding
    <2>3. CallInv'
      BY <1>0, <2>1 DEF CallInv
    <2>4. MessageInv' /\ OneTokenPerMessage'
      BY <1>0, <2>2 DEF MessageInv, OneTokenPerMessage
    <2> QED BY <1>0, <2>3, <2>4 DEF TokenInv
  <1>1. CASE Tick
    <2>1. \A n \in Nonces : Holding(n)' = Holding(n) /\ (store'[n] = store[n] \/ store'[n] = None)
      BY <1>1 DEF Tick, Holding, TypeOK
    <2>2. MessageInv' /\ OneTokenPerMessage'
      BY <1>1, <2>1 DEF Tick, MessageInv, OneTokenPerMessage
    <2> QED BY <1>1, <2>2 DEF Tick, CallInv, TokenInv
  <1>2. ASSUME NEW w \in Wallets, NEW n \in Nonces, CreateMessage(w, n) PROVE Goal
    <2>1. /\ issued[n] = None /\ UNCHANGED <<calls, minted, tokens>>
          /\ issued' \in [Nonces -> Message \cup {None}]
          /\ \A k \in Nonces \ {n} : issued'[k] = issued[k] /\ store'[k] = store[k]
          /\ store'[n].message = issued'[n]
      BY <1>2 DEF CreateMessage, TypeOK
    <2>2. \A k \in Nonces : Holding(k)' = Holding(k)
      BY <2>1 DEF Holding
    <2>3. CallInv'
      <3>1. \A s \in Slots : calls[s] \in Call
        BY DEF TypeOK
      <3>2. \A s \in Slots : calls[s].nonce \in Nonces \cup {None}
        BY <3>1 DEF Call
      <3> QED BY <2>1, <3>2 DEF CallInv
    <2>4. MessageInv' /\ OneTokenPerMessage'
      BY <2>1, <2>2 DEF MessageInv, OneTokenPerMessage
    <2>5. TokenInv'
      <3>1. \A t \in tokens : t.nonce \in Nonces \cup {None}
        BY DEF TypeOK, Token
      <3> QED BY <2>1, <3>1 DEF TokenInv
    <2> QED BY <2>3, <2>4, <2>5
  <1>3. ASSUME NEW s \in Slots, NEW n \in Nonces, NEW v \in Wallets, HandleVerify(s, n, v)
        PROVE  Goal
    <2>1. /\ \A t \in Slots \ {s} : calls'[t] = calls[t]
          /\ UNCHANGED <<issued, store, tokens, minted>>
          /\ issued[n] # None
          /\ calls'[s].pc = "consume" /\ calls'[s].nonce = n /\ calls'[s].wallet = v
      BY <1>3 DEF HandleVerify, TypeOK, Idle
    <2>2. issued[n] \in Message
      BY <2>1 DEF TypeOK
    <2>3. calls'[s].message \in Message /\ calls'[s].message.wallet = v
      <3>1. calls'[s].message = [issued[n] EXCEPT !.wallet = v]
        BY <1>3 DEF HandleVerify, TypeOK, Idle
      <3> QED BY <2>2, <3>1 DEF Message
    <2>4. \A k \in Nonces : Holding(k)' \subseteq Holding(k)
      BY <2>1 DEF Holding
    <2>5. CallInv'
      BY <2>1, <2>3 DEF CallInv
    <2>6. MessageInv' /\ OneTokenPerMessage'
      BY <2>1, <2>4 DEF MessageInv, OneTokenPerMessage
    <2> QED BY <2>1, <2>5, <2>6 DEF TokenInv
  <1>4. ASSUME NEW s \in Slots, NEW t \in tokens, NEW ep \in Endpoints,
               HandleAuthenticated(s, t, ep)
        PROVE  Goal
    <2>1. /\ \A u \in Slots \ {s} : calls'[u] = calls[u]
          /\ UNCHANGED <<issued, store, tokens, minted>>
          /\ calls'[s].pc \in {"act", "done"}
          /\ calls'[s].pc = "act" => /\ calls'[s].endpoint = ep /\ calls'[s].wallet = t.wallet
                                     /\ calls'[s].nonce = None
      BY <1>4 DEF HandleAuthenticated, TypeOK, Idle
    <2>2. t.wallet \in Wallets
      BY DEF TypeOK, Token
    <2>3. \A k \in Nonces : Holding(k)' \subseteq Holding(k)
      BY <2>1 DEF Holding
    <2>4. CallInv'
      BY <2>1, <2>2 DEF CallInv
    <2>5. MessageInv' /\ OneTokenPerMessage'
      BY <2>1, <2>3 DEF MessageInv, OneTokenPerMessage
    <2> QED BY <2>1, <2>4, <2>5 DEF TokenInv
  <1>5. ASSUME NEW s \in Slots, ConsumeMessage(s) PROVE Goal
    <2>0. PICK n : n = calls[s].nonce
      OBVIOUS
    <2>1. n \in Nonces /\ calls[s].pc = "consume" /\ issued[n] # None
          /\ UNCHANGED <<issued, tokens, minted>>
      BY <1>5, <2>0, SignInAssumption DEF ConsumeMessage, CallInv
    <2>2. /\ \A t \in Slots \ {s} : calls'[t] = calls[t]
          /\ store'[n] = None /\ \A k \in Nonces \ {n} : store'[k] = store[k]
      BY <1>5, <2>0, <2>1 DEF ConsumeMessage, Answer, TypeOK
    <2>3. CASE store[n] # None /\ store[n].message = calls[s].message
      <3>1. calls'[s] = [calls[s] EXCEPT !.pc = "profile"]
        BY <1>5, <2>0, <2>3 DEF ConsumeMessage, TypeOK
      <3>2. /\ calls'[s].pc = "profile" /\ calls'[s].nonce = n
            /\ calls'[s].wallet = calls[s].wallet
        <4>1. calls[s] \in Call
          BY DEF TypeOK
        <4> QED BY <2>0, <3>1, <4>1 DEF Call
      <3>3. calls[s].wallet = issued[n].wallet
        BY <2>1, <2>3 DEF CallInv, MessageInv
      <3>4. /\ \A k \in Nonces \ {n} : Holding(k)' = Holding(k)
            /\ Holding(n) = {} /\ minted[n] = 0 /\ Holding(n)' = {s}
        BY <2>1, <2>2, <2>3, <3>2 DEF Holding, MessageInv
      <3>5. CallInv'
        BY <2>1, <2>2, <3>2, <3>3 DEF CallInv
      <3>6. MessageInv' /\ OneTokenPerMessage'
        BY <2>1, <2>2, <3>4 DEF MessageInv, OneTokenPerMessage
      <3> QED BY <2>1, <3>5, <3>6 DEF TokenInv
    <2>4. CASE ~(store[n] # None /\ store[n].message = calls[s].message)
      <3>1. calls'[s].pc = "done"
        <4>1. Answer(s, "refused")
          BY <1>5, <2>0, <2>4 DEF ConsumeMessage
        <4> QED BY <4>1 DEF Answer, TypeOK, Idle
      <3>2. \A k \in Nonces : Holding(k)' \subseteq Holding(k)
        BY <2>2, <3>1 DEF Holding
      <3>3. CallInv'
        BY <2>1, <2>2, <3>1 DEF CallInv
      <3>4. MessageInv' /\ OneTokenPerMessage'
        BY <2>1, <2>2, <3>2 DEF MessageInv, OneTokenPerMessage
      <3> QED BY <2>1, <3>3, <3>4 DEF TokenInv
    <2> QED BY <2>3, <2>4
  <1>6. ASSUME NEW s \in Slots, FindProfile(s) PROVE Goal
    <2>1. /\ \A t \in Slots \ {s} : calls'[t] = calls[t]
          /\ UNCHANGED <<issued, store, tokens, minted>>
          /\ calls[s].pc = "profile" /\ calls'[s].pc = "token"
          /\ calls'[s].nonce = calls[s].nonce /\ calls'[s].wallet = calls[s].wallet
      <3>1. calls[s] \in Call
        BY DEF TypeOK
      <3> QED BY <1>6, <3>1 DEF FindProfile, TypeOK, Call
    <2>2. \A k \in Nonces : Holding(k)' = Holding(k)
      BY <2>1 DEF Holding
    <2>3. CallInv'
      BY <2>1 DEF CallInv
    <2>4. MessageInv' /\ OneTokenPerMessage'
      BY <2>1, <2>2 DEF MessageInv, OneTokenPerMessage
    <2> QED BY <2>1, <2>3, <2>4 DEF TokenInv
  <1>7. ASSUME NEW s \in Slots, IssueAccessToken(s) PROVE Goal
    <2>0. PICK n : n = calls[s].nonce
      OBVIOUS
    <2> DEFINE new == [wallet |-> calls[s].wallet, role |-> calls[s].role,
                       expires |-> now + AccessTokenTTL, nonce |-> n]
    <2>1. /\ \A t \in Slots \ {s} : calls'[t] = calls[t]
          /\ UNCHANGED <<issued, store>> /\ tokens' = tokens \cup {new}
          /\ calls[s].pc = "token" /\ calls'[s].pc = "done"
      BY <2>0, <1>7 DEF IssueAccessToken, Answer, TypeOK, Idle
    <2>2. n \in Nonces \cup {None}
      <3>1. calls[s] \in Call
        BY DEF TypeOK
      <3> QED BY <2>0, <3>1 DEF Call
    <2>3. CallInv'
      BY <2>1 DEF CallInv
    <2>4. TokenInv'
      BY <2>0, <2>1 DEF TokenInv, CallInv
    <2>5. CASE n = None
      <3>1. \A k \in Nonces : Holding(k)' = Holding(k) /\ minted'[k] = minted[k]
        BY <2>0, <1>7, <2>1, <2>5, SignInAssumption DEF Holding, IssueAccessToken
      <3> QED BY <2>1, <2>3, <2>4, <3>1 DEF MessageInv, OneTokenPerMessage
    <2>6. CASE n # None
      <3>1. /\ n \in Nonces /\ s \in Holding(n)
            /\ minted'[n] = minted[n] + 1
            /\ \A k \in Nonces \ {n} : minted'[k] = minted[k]
        BY <2>0, <1>7, <2>1, <2>2, <2>6 DEF Holding, IssueAccessToken, TypeOK
      <3>2. minted[n] = 0 /\ store[n] = None /\ Holding(n) = {s}
        BY <3>1 DEF OneTokenPerMessage
      <3>3. /\ Holding(n)' = {}
            /\ \A k \in Nonces \ {n} : Holding(k)' = Holding(k)
        BY <2>0, <2>1, <3>1, <3>2 DEF Holding
      <3>4. issued[n] # None
        BY <2>0, <2>1, <2>6 DEF CallInv
      <3>5. MessageInv'
        BY <2>1, <3>1, <3>2, <3>3, <3>4 DEF MessageInv
      <3>6. OneTokenPerMessage'
        BY <2>1, <3>1, <3>2, <3>3 DEF OneTokenPerMessage
      <3> QED BY <2>3, <2>4, <3>5, <3>6
    <2> QED BY <2>5, <2>6
  <1>8. ASSUME NEW s \in Slots, Act(s) PROVE Goal
    <2>0. ~Free(s) /\ UNCHANGED <<issued, store, tokens, minted>>
      BY <1>8 DEF Act, Free, Register, ChangeAccount, UseAccount, AccountMissing,
         FindSupporter, ListDonations
    <2>1. CASE \E r : Answer(s, r)
      BY <1>0, <2>0, <2>1
    <2>2. CASE /\ calls[s].pc = "act"
               /\ calls' = [calls EXCEPT ![s].pc = "token", ![s].role = calls[s].endpoint.role]
      <3>1. /\ \A t \in Slots \ {s} : calls'[t] = calls[t]
            /\ calls'[s].pc = "token" /\ calls'[s].wallet = calls[s].wallet
            /\ calls'[s].nonce = None
        <4>1. calls[s] \in Call /\ calls[s].nonce = None
          BY <2>2 DEF TypeOK, CallInv
        <4> QED BY <2>2, <4>1 DEF TypeOK, Call
      <3>2. calls[s].wallet \in Wallets
        BY <2>2 DEF CallInv
      <3>3. \A k \in Nonces : Holding(k)' \subseteq Holding(k)
        BY <3>1, SignInAssumption DEF Holding
      <3>4. CallInv'
        BY <2>0, <3>1, <3>2 DEF CallInv
      <3>5. MessageInv' /\ OneTokenPerMessage'
        BY <2>0, <3>3 DEF MessageInv, OneTokenPerMessage
      <3> QED BY <2>0, <3>4, <3>5 DEF TokenInv
    <2>3. CASE FindSupporter(s)
      <3>1. calls[s].pc = "act" /\ calls[s] \in Call
        BY <2>3 DEF FindSupporter, TypeOK
      <3>2. calls'[s].pc = "donations" /\ \A t \in Slots \ {s} : calls'[t] = calls[t]
        BY <2>3, <3>1 DEF FindSupporter, TypeOK, Call
      <3>3. \A k \in Nonces : Holding(k)' \subseteq Holding(k)
        BY <3>2 DEF Holding
      <3>4. CallInv'
        BY <2>0, <3>2 DEF CallInv
      <3>5. MessageInv' /\ OneTokenPerMessage'
        BY <2>0, <3>3 DEF MessageInv, OneTokenPerMessage
      <3> QED BY <2>0, <3>4, <3>5 DEF TokenInv
    <2> QED BY <1>8, <2>1, <2>2, <2>3 DEF Act, Register, ChangeAccount, UseAccount,
               AccountMissing, ListDonations
  <1>9. ASSUME NEW s \in Slots, CallFails(s) PROVE Goal
    BY <1>0, <1>9 DEF CallFails
  <1>10. CASE UNCHANGED vars
    <2>1. \A k \in Nonces : Holding(k)' = Holding(k)
      BY <1>10 DEF vars, Holding
    <2> QED BY <1>10, <2>1 DEF vars, CallInv, MessageInv, OneTokenPerMessage, TokenInv
  <1> QED BY <1>1, <1>2, <1>3, <1>4, <1>5, <1>6, <1>7, <1>8, <1>9, <1>10 DEF Next, Verify

-----------------------------------------------------------------------------
(* The conjunction is an invariant of the specification. *)
THEOREM SignInInvariant == Spec => []SignInInv
  <1>1. SignInInv /\ [Next]_vars => SignInInv'
    BY TypeStep, InvStep DEF SignInInv
  <1> QED BY <1>1, InitSignIn, PTL DEF Spec

(* Every reachable state of the sign-in model is well typed. *)
THEOREM SignInTypes == Spec => []TypeOK
  <1>1. SignInInv => TypeOK
    BY DEF SignInInv
  <1> QED BY <1>1, SignInInvariant, PTL

(***************************************************************************)
(* However many copies of a signed message reach Verify at once, GetDelete *)
(* gives it to one of them and one token comes of it at most.              *)
(***************************************************************************)
THEOREM TokenOncePerMessage == Spec => []OneTokenPerMessage
  <1>1. SignInInv => OneTokenPerMessage
    BY DEF SignInInv
  <1> QED BY <1>1, SignInInvariant, PTL

(***************************************************************************)
(* The token goes to the wallet the message was created for, whatever text *)
(* was signed with its nonce.                                              *)
(***************************************************************************)
THEOREM TokenForRecipient == Spec => []TokenNamesRecipient
  <1>1. SignInInv => TokenNamesRecipient
    BY DEF SignInInv, TokenInv, TokenNamesRecipient
  <1> QED BY <1>1, SignInInvariant, PTL

(***************************************************************************)
(* A request that has consumed its message leaves Verify with the token,   *)
(* unless a call fails: the account is looked up after the point of no     *)
(* return and never turns the request away.                                *)
(***************************************************************************)
THEOREM ConsumedBecomesToken == Spec => ConsumedMessageHonoured
  <1> DEFINE Step ==
        \A n \in Nonces : \A s \in Holding(n) :
            s \notin Holding(n)' => minted'[n] = 1 \/ faults' > faults
  <1>1. SignInInv /\ [Next]_vars => Step
    <2> SUFFICES ASSUME SignInInv, [Next]_vars, NEW n \in Nonces, NEW s \in Holding(n),
                        s \notin Holding(n)'
                 PROVE  minted'[n] = 1 \/ faults' > faults
      OBVIOUS
    <2>1. /\ s \in Slots /\ calls[s].nonce = n /\ calls[s].pc \in {"profile", "token"}
          /\ calls'[s] # calls[s]
      BY DEF Holding
    <2>2. PICK t \in Slots : \/ \E k \in Nonces, v \in Wallets : HandleVerify(t, k, v)
                             \/ \E k \in tokens, ep \in Endpoints : HandleAuthenticated(t, k, ep)
                             \/ Verify(t) \/ Act(t) \/ CallFails(t)
      BY <2>1 DEF Next, Tick, CreateMessage, vars
    <2>3. t = s
      <3>1. \E c : calls' = [calls EXCEPT ![t] = c]
        BY <2>2 DEF HandleVerify, HandleAuthenticated, Verify, ConsumeMessage, FindProfile,
           IssueAccessToken, Act, Register, ChangeAccount, UseAccount, AccountMissing,
           FindSupporter, ListDonations, CallFails, Answer
      <3> QED BY <2>1, <3>1 DEF SignInInv, TypeOK
    <2>4. FindProfile(s) \/ IssueAccessToken(s) \/ CallFails(s)
      BY <2>1, <2>2, <2>3 DEF HandleVerify, HandleAuthenticated, Free, Verify,
         ConsumeMessage, Act, Register, ChangeAccount, UseAccount, AccountMissing,
         FindSupporter, ListDonations
    <2>5. ~FindProfile(s)
      <3>1. FindProfile(s) => calls'[s].pc = "token" /\ calls'[s].nonce = n
        BY <2>1 DEF FindProfile, SignInInv, TypeOK, Call
      <3> QED BY <2>1, <3>1 DEF Holding
    <2>6. CASE IssueAccessToken(s)
      <3>1. minted[n] = 0 /\ n # None
        BY <2>1, SignInAssumption DEF SignInInv, OneTokenPerMessage
      <3> QED BY <2>1, <2>6, <3>1 DEF IssueAccessToken, SignInInv, TypeOK
    <2>7. CASE CallFails(s)
      BY <2>7 DEF CallFails, SignInInv, TypeOK
    <2> QED BY <2>4, <2>5, <2>6, <2>7
  <1>2. SignInInv /\ [Next]_vars => [Step]_vars
    BY <1>1
  <1> QED BY <1>2, SignInInvariant, PTL DEF Spec, ConsumedMessageHonoured
=============================================================================
