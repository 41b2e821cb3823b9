-------------------------- MODULE CampaignLifecycle --------------------------
(***************************************************************************)
(* What the campaign service promises about profiles and campaigns, with   *)
(* no requests, locks, queue or retries: every operation is one step that  *)
(* sees the whole state.  CampaignDeployment implements it.                *)
(***************************************************************************)
CONSTANTS Ids, Accounts, WalletOf, Keys, Payloads, Deployments, None

VARIABLES
    profiles,  \* profiles[a]: "none", "live" or "deleted"
    book       \* book[c]: the campaign c

lifecycleVars == <<profiles, book>>

Unwritten == [status |-> "absent", fundraiser |-> None, key |-> None,
              payload |-> None, contract |-> None]

Open(c) == book[c].status \in {"pending", "active"}

LifecycleInit ==
    /\ profiles = [a \in Accounts |-> "none"]
    /\ book = [c \in Ids |-> Unwritten]

(* A wallet has one live profile at a time. *)
OpenProfile(a) ==
    /\ profiles[a] = "none"
    /\ \A b \in Accounts : WalletOf[b] = WalletOf[a] => profiles[b] # "live"
    /\ profiles' = [profiles EXCEPT ![a] = "live"]
    /\ UNCHANGED book

(* A profile with an open campaign cannot be deleted. *)
DeleteProfile(a) ==
    /\ profiles[a] = "live"
    /\ \A c \in Ids : book[c].fundraiser = a => ~Open(c)
    /\ profiles' = [profiles EXCEPT ![a] = "deleted"]
    /\ UNCHANGED book

(* Only a live profile creates campaigns, one per idempotency key. *)
CreateCampaign(c, a, k, p) ==
    /\ book[c] = Unwritten
    /\ profiles[a] = "live"
    /\ \A d \in Ids : ~(book[d].fundraiser = a /\ book[d].key = k)
    /\ book' = [book EXCEPT ![c] = [status |-> "pending", fundraiser |-> a,
                                    key |-> k, payload |-> p, contract |-> None]]
    /\ UNCHANGED profiles

(* A pending campaign goes live with a contract no campaign has. *)
GoLive(c, d) ==
    /\ book[c].status = "pending"
    /\ \A e \in Ids : book[e].contract # d
    /\ book' = [book EXCEPT ![c].status = "active", ![c].contract = d]
    /\ UNCHANGED profiles

EndCampaign(c) ==
    /\ Open(c)
    /\ book' = [book EXCEPT ![c].status = "closed"]
    /\ UNCHANGED profiles

LifecycleNext ==
    \/ \E a \in Accounts : OpenProfile(a) \/ DeleteProfile(a)
    \/ \E c \in Ids, a \in Accounts, k \in Keys, p \in Payloads : CreateCampaign(c, a, k, p)
    \/ \E c \in Ids, d \in Deployments : GoLive(c, d)
    \/ \E c \in Ids : EndCampaign(c)

LifecycleSpec == LifecycleInit /\ [][LifecycleNext]_lifecycleVars
=============================================================================
