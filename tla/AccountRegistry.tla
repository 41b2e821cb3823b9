-------------------------- MODULE AccountRegistry --------------------------
(***************************************************************************)
(* What the two profile repositories promise together: every wallet has at *)
(* most one account, supporter or fundraiser, an e-mail belongs to at most *)
(* one account, and registration, replacement and deletion are single      *)
(* steps.  Profiles implements this specification; SignIn is written on    *)
(* top of it.                                                              *)
(***************************************************************************)
CONSTANTS
    Wallets,   \* wallet addresses
    Emails,    \* normalized e-mail addresses
    Keys,      \* profile image keys
    None       \* SQL NULL, a nil pointer

VARIABLE accounts   \* accounts[w]: the live account of wallet w, or None

Roles == {"supporter", "fundraiser"}

Account == [role : Roles, email : Emails, image : Keys \cup {None}]

Registered == {w \in Wallets : accounts[w] # None}

EmailFree(w, e) == \A v \in Registered \ {w} : accounts[v].email # e

RegistryInit == accounts = [w \in Wallets |-> None]

RegisterAccount(w, r, e, k) ==
    /\ w \notin Registered
    /\ EmailFree(w, e)
    /\ accounts' = [accounts EXCEPT ![w] = [role |-> r, email |-> e, image |-> k]]

ReplaceAccount(w, e, k) ==
    /\ w \in Registered
    /\ EmailFree(w, e)
    /\ accounts' = [accounts EXCEPT
           ![w] = [role |-> accounts[w].role, email |-> e, image |-> k]]

DeleteAccount(w) ==
    /\ w \in Registered
    /\ accounts' = [accounts EXCEPT ![w] = None]

(* A replacement by the same values changes nothing: it is a stuttering step. *)
RegistryNext ==
    \E w \in Wallets :
        /\ accounts'[w] # accounts[w]
        /\ \/ \E r \in Roles, e \in Emails, k \in Keys \cup {None} :
                  RegisterAccount(w, r, e, k)
           \/ \E e \in Emails, k \in Keys \cup {None} : ReplaceAccount(w, e, k)
           \/ DeleteAccount(w)

RegistrySpec == RegistryInit /\ [][RegistryNext]_accounts
=============================================================================
