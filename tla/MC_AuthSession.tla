--------------------------- MODULE MC_AuthSession ---------------------------
(* One account that two providers know and one that shares a browser with   *)
(* it, two browsers, three requests.                                        *)
EXTENDS AuthSession, TLC

CONSTANTS d1, d2, e1, e2, google, facebook, n0, n1, n2, r1, r2, r3

Req(op, d, p, n, flaw) ==
    [op |-> op, device |-> d, email |-> e1, provider |-> p, name |-> n, flaw |-> flaw]

\* Two providers give different names; an update gives a third.
MCInputs ==
    {Req("login", d, google, n0, "none") : d \in Devices}
        \cup {Req("login", d2, facebook, n1, f) : f \in {"none", "oauth"}}
        \cup {Req("update", d, google, n2, f) : d \in Devices, f \in {"none"}}
        \cup {Req("update", d1, google, n2, f) : f \in {"body", "user"}}
        \cup {[Req("login", d1, google, n1, "none") EXCEPT !.email = e2]}
        \cup {Req("logout", d1, google, n0, "none"), Req("info", d2, google, n0, "none")}

Symm == Permutations(Requests)
=============================================================================
