--------------------------- MODULE AtomicAccounts ---------------------------
(***************************************************************************)
(* What logins, sessions and profiles promise, whatever the stores, their  *)
(* failures and the handlers in between do: an account is opened once, by  *)
(* whoever a provider vouches for, and edited only from a browser that has *)
(* authenticated for it; only such a browser is given a session; and what  *)
(* is remembered for the sessions is something the account has been.       *)
(***************************************************************************)
CONSTANTS Devices, Emails, Providers, Names, None

VARIABLES accounts,    \* email -> profile, None before the first login
          versions,    \* email -> the profiles that the account has had
          granted,     \* browser -> the account it has a session of
          remembered,  \* email -> the profile kept for the sessions
          proofs       \* the authentications that were completed

vars == <<accounts, versions, granted, remembered, proofs>>

Init ==
    /\ accounts = [e \in Emails |-> None]
    /\ versions = [e \in Emails |-> {}]
    /\ granted = [d \in Devices |-> None]
    /\ remembered = [e \in Emails |-> None]
    /\ proofs = {}

Proof(d, e, p) == [device |-> d, email |-> e, provider |-> p]

Owner(d, e) == accounts[e] # None /\ Proof(d, e, accounts[e].provider) \in proofs

Authenticate(d, e, p) ==
    /\ proofs' = proofs \cup {Proof(d, e, p)}
    /\ UNCHANGED <<accounts, versions, granted, remembered>>

Become(e, profile) ==
    /\ accounts' = [accounts EXCEPT ![e] = profile]
    /\ versions' = [versions EXCEPT ![e] = @ \cup {profile}]
    /\ UNCHANGED <<granted, remembered, proofs>>

Open(d, e, p, n) ==
    /\ accounts[e] = None /\ Proof(d, e, p) \in proofs
    /\ Become(e, [provider |-> p, name |-> n, new_user |-> TRUE])

Edit(d, e, n) ==
    /\ Owner(d, e)
    /\ Become(e, [accounts[e] EXCEPT !.name = n, !.new_user = FALSE])

Grant(d, e) ==
    /\ Owner(d, e)
    /\ granted' = [granted EXCEPT ![d] = e]
    /\ UNCHANGED <<accounts, versions, remembered, proofs>>

TakeBack(d) ==
    /\ granted' = [granted EXCEPT ![d] = None]
    /\ UNCHANGED <<accounts, versions, remembered, proofs>>

Remember(e, profile) ==
    /\ profile \in versions[e] \cup {None}
    /\ remembered' = [remembered EXCEPT ![e] = profile]
    /\ UNCHANGED <<accounts, versions, granted, proofs>>

Next ==
    \/ \E d \in Devices : TakeBack(d)
    \/ \E d \in Devices, e \in Emails :
           \/ Grant(d, e)
           \/ \E p \in Providers : Authenticate(d, e, p)
           \/ \E p \in Providers, n \in Names : Open(d, e, p, n)
           \/ \E n \in Names : Edit(d, e, n)
    \/ \E e \in Emails : \E profile \in versions[e] \cup {None} : Remember(e, profile)

Spec == Init /\ [][Next]_vars
=============================================================================
