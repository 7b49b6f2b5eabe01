---------------------------- MODULE AuthSession ----------------------------
(***************************************************************************)
(* Logins, sessions and profiles: src/internal/auth/auth.go, UpdateProfile *)
(* and GetUserInfo of src/internal/web/handlers.go, and the users table.   *)
(* A session is a signed cookie with the user's id in the browser and a    *)
(* copy of the user's row in the cache (Valkey) under that id: all devices *)
(* of a user share the entry.  Row and entry are written one after the     *)
(* other, by handlers of several requests at a time.                       *)
(*                                                                         *)
(* Users are named by their email: it is unique in the table, a row never  *)
(* goes and never changes its email, so email and id stand for each other. *)
(***************************************************************************)
EXTENDS Naturals

CONSTANTS Requests, Devices, Emails, Providers, Names,
          Inputs,        \* what a request may ask for
          None

Ops == {"login", "logout", "info", "update"}
Profiles == [provider : Providers, name : Names, new_user : BOOLEAN]

\* The first thing wrong with a request: the provider does not vouch for the
\* login, the body is invalid, or its user_id is not the session's.
Flaws == {"none", "oauth", "body", "user"}

ASSUME AuthAssumption ==
    /\ Inputs \subseteq [op : Ops, device : Devices, email : Emails,
                         provider : Providers, name : Names, flaw : Flaws]
    /\ None \notin Inputs /\ None \notin Emails /\ None \notin Profiles

VARIABLES users,     \* table users: email -> profile, None if there is no row
          cache,     \* the sessions in the cache
          cookie,    \* the user whose session a browser's cookie names
          input,     \* what each request asks
          pc,        \* how far its handler is
          id,        \* the session id that it works on
          user,      \* the row that it holds in memory
          status,    \* the HTTP status sent, 0 for none
          gone,      \* requests whose process has ended
          vouched,   \* history: completed authentications
          stored,    \* history: what each user's row has been
          overlapped, \* history: users for whom two requests overlapped
                      \* between taking the row and setting the session
          stragglers  \* history: requests that were past their check of the
                      \* user's session when it went

stores == <<users, cache, stored>>
marks == <<vouched, overlapped, stragglers>>
vars == <<stores, marks, cookie, input, pc, id, user, status, gone>>

\* Where a handler is; in Writing it has sent a command to a store.
Writing == {"create", "update", "set", "del"}
Places == Writing \cup {"new", "oauth", "find", "session", "reply", "done", "lost"}

TypeOK ==
    /\ users \in [Emails -> Profiles \cup {None}]
    /\ cache \in [Emails -> Profiles \cup {None}]
    /\ cookie \in [Devices -> Emails \cup {None}]
    /\ input \in [Requests -> Inputs \cup {None}]
    /\ pc \in [Requests -> Places]
    /\ id \in [Requests -> Emails \cup {None}]
    /\ user \in [Requests -> Profiles \cup {None}]
    /\ status \in [Requests -> {0, 200, 307, 400, 401, 403, 500}]
    /\ gone \subseteq Requests
    /\ vouched \subseteq [device : Devices, email : Emails, provider : Providers]
    /\ stored \in [Emails -> SUBSET Profiles]
    /\ overlapped \subseteq Emails
    /\ stragglers \in [Emails -> SUBSET Requests]

Init ==
    /\ users = [e \in Emails |-> None]
    /\ cache = [e \in Emails |-> None]
    /\ cookie = [d \in Devices |-> None]
    /\ input = [r \in Requests |-> None]
    /\ pc = [r \in Requests |-> "new"]
    /\ id = [r \in Requests |-> None]
    /\ user = [r \in Requests |-> None]
    /\ status = [r \in Requests |-> 0]
    /\ gone = {}
    /\ vouched = {}
    /\ stored = [e \in Emails |-> {}]
    /\ overlapped = {}
    /\ stragglers = [e \in Emails |-> {}]

-----------------------------------------------------------------------------
(* Steps that handlers share.                                               *)

\* A request arrives with the cookie its browser has.
Receive(r, i) ==
    /\ pc[r] = "new"
    /\ input' = [input EXCEPT ![r] = i]
    /\ id' = [id EXCEPT ![r] = cookie[i.device]]
    /\ pc' = [pc EXCEPT ![r] = CASE i.op = "login" -> "oauth"
                                 [] i.op = "logout" -> "del"
                                 [] OTHER -> "session"]
    /\ UNCHANGED <<stores, cookie, user, status, gone, marks>>

At(r, place) == pc[r] = place /\ (place \in Writing \/ r \notin gone)

Go(r, next) ==
    /\ pc' = [pc EXCEPT ![r] = IF r \in gone THEN "lost" ELSE next]
    /\ UNCHANGED <<input, gone, cookie, status>>

\* A response that carries a cookie, and one that does not.
Answer(r, code, next) ==
    /\ pc' = [pc EXCEPT ![r] = IF r \in gone THEN "lost" ELSE next]
    /\ status' = [status EXCEPT ![r] = IF r \in gone THEN 0 ELSE code]
    /\ UNCHANGED <<input, gone, cookie>>

Fail(r, code) == Answer(r, code, "done")

\* A response with a cookie reaches the browser, or gets lost.
Respond(r) ==
    /\ At(r, "reply")
    /\ pc' = [pc EXCEPT ![r] = "done"]
    /\ cookie' \in {cookie, [cookie EXCEPT ![input[r].device] = id[r]]}
    /\ UNCHANGED <<stores, input, id, user, status, gone, marks>>

\* The handler has taken the row of e, and will put it into the session.
ToSession(r, e) ==
    /\ Go(r, "set")
    /\ id' = [id EXCEPT ![r] = e]
    /\ overlapped' = IF \E q \in Requests \ {r} : pc[q] = "set" /\ id[q] = e
                     THEN overlapped \cup {e} ELSE overlapped
    /\ UNCHANGED <<vouched, stragglers>>

\* The session of e goes; requests that it has let through go on.
EndSession(e) ==
    /\ cache' = [cache EXCEPT ![e] = None]
    /\ stragglers' = [stragglers EXCEPT ![e] =
                        {q \in Requests : pc[q] \in {"update", "set"} /\ id[q] = e}]
    /\ UNCHANGED <<vouched, overlapped>>

-----------------------------------------------------------------------------
(* CallbackHandler.                                                         *)

CompleteUserAuth(r) ==
    /\ At(r, "oauth")
    /\ IF input[r].flaw = "oauth"
       THEN Fail(r, 500) /\ UNCHANGED vouched
       ELSE /\ Go(r, "find")
            /\ vouched' = vouched \cup {[device |-> input[r].device,
                                         email |-> input[r].email,
                                         provider |-> input[r].provider]}
    /\ UNCHANGED <<stores, id, user, overlapped, stragglers>>

FirstProfile(i) == [provider |-> i.provider, name |-> i.name, new_user |-> TRUE]

\* Mutant of GetUserByEmail: an existing row is taken whatever its provider.
GetUserAnyProvider(r) ==
    LET e == input[r].email
    IN  /\ At(r, "find")
        /\ \/ /\ users[e] = None
              /\ Go(r, "create")
              /\ user' = [user EXCEPT ![r] = FirstProfile(input[r])]
              /\ UNCHANGED <<id, marks>>
           \/ /\ users[e] # None
              /\ ToSession(r, e)
              /\ user' = [user EXCEPT ![r] = users[e]]
        /\ UNCHANGED stores

\* The query may fail; an unknown email is a first login; a known one needs
\* its own provider, or the browser is sent to the error page.
GetUserByEmail(r) ==
    LET e == input[r].email
    IN  /\ At(r, "find")
        /\ \/ Fail(r, 500) /\ UNCHANGED <<id, user, marks>>
           \/ /\ users[e] = None
              /\ Go(r, "create")
              /\ user' = [user EXCEPT ![r] = FirstProfile(input[r])]
              /\ UNCHANGED <<id, marks>>
           \/ /\ users[e] # None /\ users[e].provider # input[r].provider
              /\ Fail(r, 307)
              /\ UNCHANGED <<id, user, marks>>
           \/ /\ users[e] # None /\ users[e].provider = input[r].provider
              /\ ToSession(r, e)
              /\ user' = [user EXCEPT ![r] = users[e]]
        /\ UNCHANGED stores

Store(e, profile) ==
    /\ users' = [users EXCEPT ![e] = profile]
    /\ stored' = [stored EXCEPT ![e] = @ \cup {profile}]

\* Mutant of CreateUser: ON CONFLICT DO UPDATE.
CreateOrReplaceUser(r) ==
    /\ At(r, "create")
    /\ Store(input[r].email, user[r])
    /\ ToSession(r, input[r].email)
    /\ UNCHANGED <<cache, user>>

\* The unique email refuses a second row.  The insert may also fail, or seem
\* to, for other reasons.
CreateUser(r) ==
    LET e == input[r].email
    IN  /\ At(r, "create")
        /\ \/ Fail(r, 500) /\ UNCHANGED <<users, stored, id, marks>>
           \/ /\ users[e] = None
              /\ Store(e, user[r])
              /\ ToSession(r, e) \/ (Fail(r, 500) /\ UNCHANGED <<id, marks>>)
        /\ UNCHANGED <<cache, user>>

\* The cookie is already in the headers of a callback's response, and goes
\* out even when the cache fails.
SessionIsSet(r, code) ==
    IF input[r].op = "login" THEN Answer(r, IF code = 200 THEN 307 ELSE code, "reply")
                             ELSE Fail(r, code)

\* Mutant of SetSessionData: under the key that the browser's cookie names.
SetSessionOfBrowser(r) ==
    LET named == cookie[input[r].device]
        key == IF named = None THEN id[r] ELSE named
    IN  /\ At(r, "set")
        /\ SessionIsSet(r, 200) /\ cache' = [cache EXCEPT ![key] = user[r]]
        /\ UNCHANGED <<users, stored, id, user, marks>>

SetSessionData(r) ==
    /\ At(r, "set")
    /\ \/ SessionIsSet(r, 200) /\ cache' = [cache EXCEPT ![id[r]] = user[r]]
       \/ SessionIsSet(r, 500) /\ cache' = [cache EXCEPT ![id[r]] = user[r]]
       \/ SessionIsSet(r, 500) /\ UNCHANGED cache
    /\ UNCHANGED <<users, stored, id, user, marks>>

CallbackHandler(r) ==
    /\ pc[r] # "new" /\ input[r].op = "login"
    /\ \/ CompleteUserAuth(r)
       \/ GetUserByEmail(r)
       \/ CreateUser(r)
       \/ SetSessionData(r)
       \/ Respond(r)

-----------------------------------------------------------------------------
(* LogoutHandler, AuthMiddleware and the handlers behind it.                *)

\* The entry goes, then the cookie; a cookie that names no session just goes.
DeleteSession(r) ==
    /\ At(r, "del")
    /\ id' = [id EXCEPT ![r] = None]
    /\ \/ id[r] = None /\ Answer(r, 307, "reply") /\ UNCHANGED <<cache, marks>>
       \/ /\ id[r] # None
          /\ EndSession(id[r])
          /\ Answer(r, 307, "reply") \/ Answer(r, 500, "reply")
       \/ id[r] # None /\ Answer(r, 500, "reply") /\ UNCHANGED <<cache, marks>>
    /\ UNCHANGED <<users, stored, user>>

LogoutHandler(r) ==
    /\ pc[r] # "new" /\ input[r].op = "logout"
    /\ DeleteSession(r) \/ Respond(r)

\* Mutant of AuthMiddleware: a session that is not in the cache is taken from
\* the users table.
AuthMiddlewareRefills(r) ==
    /\ At(r, "session") /\ id[r] # None /\ users[id[r]] # None
    /\ user' = [user EXCEPT ![r] = IF cache[id[r]] = None THEN users[id[r]]
                                                         ELSE cache[id[r]]]
    /\ IF input[r].op = "info" THEN Fail(r, 200) ELSE Go(r, "update")
    /\ UNCHANGED <<stores, id, marks>>

\* The session's user is a copy of the cache entry from here on.  A cookie that
\* cannot be decoded is an error of the server.
AuthMiddleware(r) ==
    /\ At(r, "session")
    /\ \/ /\ Fail(r, 401) \/ (id[r] = None /\ Fail(r, 500))
          /\ UNCHANGED user
       \/ /\ id[r] # None
          /\ cache[id[r]] # None
          /\ user' = [user EXCEPT ![r] = cache[id[r]]]
          /\ IF input[r].op = "info" THEN Fail(r, 200) ELSE Go(r, "update")
    /\ UNCHANGED <<stores, id, marks>>

GetUserInfo(r) ==
    /\ pc[r] # "new" /\ input[r].op = "info"
    /\ AuthMiddleware(r)

Edited(profile, name) == [profile EXCEPT !.name = name, !.new_user = FALSE]

\* Mutants of UpdateUser: the session is set whether or not the statement has
\* been executed; and the copy in hand keeps its name.
UpdateSessionAnyway(r) ==
    /\ At(r, "update") /\ input[r].flaw = "none"
    /\ user' = [user EXCEPT ![r] = Edited(@, input[r].name)]
    /\ ToSession(r, id[r])
    /\ UNCHANGED <<users, stored>> \/ Store(id[r], Edited(users[id[r]], input[r].name))
    /\ UNCHANGED cache

UpdateKeepingName(r) ==
    /\ At(r, "update") /\ input[r].flaw = "none" /\ users[id[r]] # None
    /\ Store(id[r], Edited(users[id[r]], input[r].name))
    /\ user' = [user EXCEPT ![r].new_user = FALSE]
    /\ ToSession(r, id[r])
    /\ UNCHANGED cache

\* The checks of the body, then the statement, which changes name and
\* new_user only; the copy in hand is changed alike.
UpdateUser(r) ==
    LET name == input[r].name
    IN  /\ At(r, "update")
        /\ \/ /\ \/ input[r].flaw = "body" /\ Fail(r, 400)
                 \/ input[r].flaw = "user" /\ Fail(r, 403)
                 \/ input[r].flaw = "none" /\ Fail(r, 500)
              /\ UNCHANGED <<users, stored, id, user, marks>>
           \/ /\ input[r].flaw = "none" /\ users[id[r]] # None
              /\ Store(id[r], Edited(users[id[r]], name))
              /\ user' = [user EXCEPT ![r] = Edited(@, name)]
              /\ ToSession(r, id[r]) \/ (Fail(r, 500) /\ UNCHANGED <<id, marks>>)
        /\ UNCHANGED cache

UpdateProfile(r) ==
    /\ pc[r] # "new" /\ input[r].op = "update"
    /\ \/ AuthMiddleware(r)
       \/ UpdateUser(r)
       \/ SetSessionData(r)

-----------------------------------------------------------------------------
(* Time and crashes.                                                        *)

\* 24 hours after it was set.
Expire(e) ==
    /\ cache[e] # None
    /\ EndSession(e)
    /\ UNCHANGED <<users, stored, cookie, input, pc, id, user, status, gone>>

\* 30 days after it was set.
CookieExpires(d) ==
    /\ cookie[d] # None
    /\ cookie' = [cookie EXCEPT ![d] = None]
    /\ UNCHANGED <<stores, input, pc, id, user, status, gone, marks>>

\* The process ends and starts again; a command that was sent to a store may
\* still be executed.
Restart ==
    /\ gone' = {r \in Requests : pc[r] \in Writing}
    /\ pc' = [r \in Requests |->
                IF pc[r] \in Writing \cup {"new", "done", "lost"} THEN pc[r] ELSE "lost"]
    /\ UNCHANGED <<stores, cookie, input, id, user, status, marks>>

Handler(r) ==
    CallbackHandler(r) \/ LogoutHandler(r) \/ GetUserInfo(r) \/ UpdateProfile(r)

Next ==
    \/ \E r \in Requests, i \in Inputs : Receive(r, i)
    \/ \E r \in Requests : Handler(r)
    \/ \E e \in Emails : Expire(e)
    \/ \E d \in Devices : CookieExpires(d)
    \/ Restart

Spec == Init /\ [][Next]_vars

-----------------------------------------------------------------------------
(* Safety.                                                                  *)

Vouched(d, e) ==
    users[e] # None /\ [device |-> d, email |-> e, provider |-> users[e].provider] \in vouched

\* Whoever holds or uses a session of an account has authenticated, from that
\* browser, with the provider the account was created with, however first
\* logins with different providers race.
SessionsAreVouched ==
    /\ \A d \in Devices : cookie[d] # None => Vouched(d, cookie[d])
    /\ \A r \in Requests : pc[r] # "new" /\ id[r] # None => Vouched(input[r].device, id[r])

\* A cached session is something the user's row has been, never a mix and
\* never ahead of the row.
SessionsWereRows ==
    \A e \in Emails : cache[e] # None => cache[e] \in stored[e]

\* The first login decides on the account's provider, and once the profile
\* has been edited the row never asks for it again.
AccountIsKept ==
    [][\A e \in Emails : users[e] # None =>
          /\ users'[e] # None
          /\ users'[e].provider = users[e].provider
          /\ users'[e].new_user => users[e].new_user]_vars

\* A session that was ended by a logout, on any device, or that has expired
\* comes back by a login, or by a profile update that it had let through before
\* it went; a cookie that outlives it brings nothing back.
SessionReturnsByLogin ==
    [][\A e \in Emails : cache[e] = None /\ cache'[e] # None =>
          \E r \in Requests :
              /\ pc[r] = "set" /\ pc'[r] # "set" /\ id[r] = e
              /\ input[r].op = "login" \/ r \in stragglers[e]]_vars

Quiet == gone = {} /\ \A r \in Requests :
            pc[r] \in {"new", "done"} /\ status[r] \notin {400, 401, 403, 500}

\* With all requests answered and none of them failed, a session that is
\* there is the user's row.
SessionIsProfile ==
    Quiet => \A e \in Emails : cache[e] # None => cache[e] = users[e]

\* So it is if no two requests overlapped between taking the user's row and
\* setting the session: the copy in hand never differs from the row by itself.
SessionIsProfileUnlessRaced ==
    Quiet => \A e \in Emails \ overlapped : cache[e] # None => cache[e] = users[e]

-----------------------------------------------------------------------------
(* What an invariant has to say besides, to be inductive.                   *)

\* What a handler has in hand at each place.
InHand ==
    \A r \in Requests :
        /\ pc[r] = "new" <=> input[r] = None
        /\ pc[r] \in {"find", "create"} =>
             [device |-> input[r].device, email |-> input[r].email,
              provider |-> input[r].provider] \in vouched
        /\ pc[r] = "create" => user[r] = FirstProfile(input[r])
        /\ pc[r] \in {"update", "set"} => id[r] # None /\ user[r] \in stored[id[r]]

\* The row is the last of what it has been; the provider never changed.
RowsKeepProvider ==
    \A e \in Emails :
        /\ users[e] = None => stored[e] = {}
        /\ users[e] # None => /\ users[e] \in stored[e]
                              /\ \A x \in stored[e] : x.provider = users[e].provider

SessionInv ==
    /\ TypeOK
    /\ InHand
    /\ RowsKeepProvider
    /\ SessionsAreVouched
    /\ SessionsWereRows

-----------------------------------------------------------------------------
(* Seen from the stores and the browsers, every handler is a few steps of   *)
(* AtomicAccounts, and so is every failure, retry, expiry and crash.        *)
Accounts == INSTANCE AtomicAccounts
                WITH accounts <- users, versions <- stored, granted <- cookie,
                     remembered <- cache, proofs <- vouched

ImplementsAtomicAccounts == Accounts!Spec
=============================================================================
