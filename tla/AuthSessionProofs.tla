-------------------------- MODULE AuthSessionProofs --------------------------
(* Sessions and profiles for any sets of requests, devices, emails, providers *)
(* and names: SessionInv is inductive, one lemma for each kind of step.       *)
EXTENDS AuthSession, TLAPS

\* What a step of a handler to another place does.
LEMMA GoStep ==
  ASSUME NEW r \in Requests, NEW next \in Places, TypeOK, Go(r, next)
  PROVE  /\ pc' \in [Requests -> Places] /\ pc'[r] \in {next, "lost"}
         /\ \A q \in Requests \ {r} : pc'[q] = pc[q]
         /\ input' = input /\ gone' = gone /\ cookie' = cookie /\ status' = status
  BY DEF Go, TypeOK, Places, Writing

\* What an answer does.
LEMMA AnswerStep ==
  ASSUME NEW r \in Requests, NEW next \in {"done", "reply"},
         NEW code \in {200, 307, 400, 401, 403, 500}, TypeOK, Answer(r, code, next)
  PROVE  /\ pc' \in [Requests -> Places] /\ pc'[r] \in {"done", "reply", "lost"}
         /\ \A q \in Requests \ {r} : pc'[q] = pc[q]
         /\ input' = input /\ gone' = gone /\ cookie' = cookie
         /\ status' \in [Requests -> {0, 200, 307, 400, 401, 403, 500}]
  BY DEF Answer, TypeOK, Places, Writing

\* A handler that answers without having touched anything else.
LEMMA AnswerKeeps ==
  ASSUME NEW r \in Requests, NEW next \in {"done", "reply"},
         NEW code \in {200, 307, 400, 401, 403, 500}, SessionInv, pc[r] # "new",
         Answer(r, code, next), UNCHANGED <<stores, id, user, marks>>
  PROVE  SessionInv'
  <1> USE AnswerStep DEF SessionInv, stores, marks
  <1>1. TypeOK'
    BY DEF TypeOK
  <1>2. InHand'
    BY DEF InHand
  <1>3. RowsKeepProvider' /\ SessionsAreVouched' /\ SessionsWereRows'
    BY DEF RowsKeepProvider, SessionsAreVouched, Vouched, SessionsWereRows
  <1> QED
    BY <1>1, <1>2, <1>3

LEMMA SessionInit == Init => SessionInv
  BY AuthAssumption
  DEF Init, SessionInv, TypeOK, Places, InHand, RowsKeepProvider,
      SessionsAreVouched, SessionsWereRows

\* A request takes the cookie of its browser.
LEMMA ReceiveStep ==
  ASSUME NEW r \in Requests, NEW i \in Inputs, SessionInv, Receive(r, i)
  PROVE  SessionInv'
  <1> USE DEF Receive, SessionInv, stores, marks
  <1>1. i.device \in Devices /\ i # None
    BY AuthAssumption
  <1>2. pc' = [pc EXCEPT ![r] = pc'[r]] /\ pc'[r] \in {"oauth", "del", "session"}
    BY DEF TypeOK
  <1>3. TypeOK'
    BY <1>1, <1>2 DEF TypeOK, Places, Writing
  <1>4. InHand'
    BY <1>1, <1>2 DEF TypeOK, InHand
  <1>5. SessionsAreVouched'
    BY <1>1, <1>2 DEF TypeOK, SessionsAreVouched, Vouched
  <1>6. RowsKeepProvider' /\ SessionsWereRows'
    BY DEF RowsKeepProvider, SessionsWereRows
  <1> QED
    BY <1>3, <1>4, <1>5, <1>6

\* An input in hand has the fields of a request.
LEMMA InputKnown ==
  ASSUME NEW r \in Requests, SessionInv, pc[r] # "new"
  PROVE  /\ input[r].device \in Devices /\ input[r].email \in Emails
         /\ input[r].email # None /\ input[r].provider \in Providers
         /\ input[r].name \in Names
  <1>1. input[r] \in Inputs
    <2>1. input[r] # None
      BY DEF SessionInv, InHand
    <2>2. input[r] \in Inputs \cup {None}
      BY DEF SessionInv, TypeOK
    <2> QED
      BY <2>1, <2>2
  <1> QED
    BY <1>1, AuthAssumption

\* A handler on the way to the session has a user and one of its rows.
LEMMA InHandKnown ==
  ASSUME NEW r \in Requests, SessionInv, pc[r] \in {"update", "set"}
  PROVE  /\ id[r] \in Emails /\ id[r] # None
         /\ user[r] \in stored[id[r]] /\ user[r] \in Profiles
  <1>1. id[r] # None /\ user[r] \in stored[id[r]]
    BY DEF SessionInv, InHand
  <1>2. id[r] \in Emails /\ stored[id[r]] \subseteq Profiles
    BY <1>1 DEF SessionInv, TypeOK
  <1> QED
    BY <1>1, <1>2

\* Profiles are equal when their fields are.
LEMMA SameProfile ==
  ASSUME NEW x \in Profiles, NEW y \in Profiles,
         x.provider = y.provider, x.name = y.name, x.new_user = y.new_user
  PROVE  x = y
  BY DEF Profiles

\* What an edit of a profile leaves of it.
LEMMA EditedIs ==
  ASSUME NEW profile \in Profiles, NEW name \in Names
  PROVE  Edited(profile, name)
           = [provider |-> profile.provider, name |-> name, new_user |-> FALSE]
  <1> DEFINE edited == Edited(profile, name)
             row == [provider |-> profile.provider, name |-> name, new_user |-> FALSE]
  <1>1. edited \in Profiles /\ row \in Profiles
    BY DEF Edited, Profiles
  <1>2. edited.provider = row.provider /\ edited.name = row.name
        /\ edited.new_user = row.new_user
    BY DEF Edited, Profiles
  <1>3. edited = row
    <2> HIDE DEF edited, row
    <2> QED
      BY <1>1, <1>2, SameProfile
  <1> QED
    BY <1>3

\* The provider vouches for the browser's user.
LEMMA CompleteUserAuthStep ==
  ASSUME NEW r \in Requests, SessionInv, CompleteUserAuth(r)
  PROVE  SessionInv'
  <1> pc[r] = "oauth"
    BY DEF CompleteUserAuth, At
  <1>1. CASE input[r].flaw = "oauth"
    BY <1>1, AnswerKeeps DEF CompleteUserAuth, Fail, marks
  <1>2. CASE input[r].flaw # "oauth"
    <2> DEFINE mark == [device |-> input[r].device, email |-> input[r].email,
                        provider |-> input[r].provider]
    <2>1. /\ Go(r, "find") /\ vouched' = vouched \cup {mark}
          /\ UNCHANGED <<stores, id, user, overlapped, stragglers>>
      BY <1>2 DEF CompleteUserAuth
    <2>2. mark \in [device : Devices, email : Emails, provider : Providers]
      BY InputKnown
    <2> USE <2>1, GoStep DEF SessionInv, stores, Places
    <2>3. TypeOK'
      BY <2>2 DEF TypeOK
    <2>4. InHand'
      BY DEF InHand
    <2>5. SessionsAreVouched'
      BY DEF SessionsAreVouched, Vouched
    <2>6. RowsKeepProvider' /\ SessionsWereRows'
      BY DEF RowsKeepProvider, SessionsWereRows
    <2> QED
      BY <2>3, <2>4, <2>5, <2>6
  <1> QED
    BY <1>1, <1>2

\* A handler takes an account's row towards the session: the row is the
\* account's, old or just stored, and the browser has been vouched for.
LEMMA ToSessionStep ==
  ASSUME NEW r \in Requests, NEW e \in Emails, NEW profile \in Profiles,
         SessionInv, pc[r] # "new", ToSession(r, e), cache' = cache,
         user' = [user EXCEPT ![r] = profile],
         Store(e, profile) \/ (UNCHANGED <<users, stored>> /\ users[e] # None
                               /\ profile \in stored[e]),
         users[e] # None => profile.provider = users[e].provider,
         [device |-> input[r].device, email |-> e, provider |-> profile.provider] \in vouched
  PROVE  SessionInv'
  <1> USE DEF SessionInv
  <1>1. Go(r, "set") /\ UNCHANGED <<vouched, stragglers>> /\ id' = [id EXCEPT ![r] = e]
    BY DEF ToSession
  <1>2. e # None /\ profile # None
    BY AuthAssumption
  <1>3. /\ users' \in [Emails -> Profiles \cup {None}]
        /\ stored' \in [Emails -> SUBSET Profiles]
        /\ users'[e] # None /\ users'[e].provider = profile.provider
        /\ profile \in stored'[e]
        /\ \A a \in Emails \ {e} : users'[a] = users[a] /\ stored'[a] = stored[a]
    <2>1. CASE Store(e, profile)
      BY <1>2, <2>1 DEF Store, TypeOK
    <2>2. CASE UNCHANGED <<users, stored>> /\ users[e] # None /\ profile \in stored[e]
      BY <2>2 DEF TypeOK
    <2> QED
      BY <2>1, <2>2
  <1>4. /\ \A a \in Emails : stored[a] \subseteq stored'[a]
        /\ stored'[e] \subseteq stored[e] \cup {profile}
        /\ \A a \in Emails : users[a] # None =>
              users'[a] # None /\ users'[a].provider = users[a].provider
    BY <1>3 DEF Store, TypeOK
  <1>5. overlapped' \subseteq Emails
    BY DEF ToSession, TypeOK
  <1> USE <1>1, GoStep DEF Places, Writing
  <1>6. TypeOK'
    BY <1>3, <1>5 DEF TypeOK
  <1>7. InHand'
    BY <1>2, <1>3, <1>4 DEF InHand, TypeOK
  <1>8. RowsKeepProvider'
    <2>1. users'[e] \in stored'[e]
      BY <1>3 DEF Store, TypeOK, RowsKeepProvider
    <2>2. \A x \in stored'[e] : x.provider = users'[e].provider
      BY <1>3, <1>4 DEF RowsKeepProvider
    <2> QED
      BY <1>3, <2>1, <2>2 DEF RowsKeepProvider
  <1>9. SessionsAreVouched'
    <2>1. \A d \in Devices, a \in Emails : Vouched(d, a) => Vouched(d, a)'
      BY <1>4 DEF Vouched
    <2>2. Vouched(input[r].device, e)'
      BY <1>3 DEF Vouched
    <2>3. \A q \in Requests \ {r} : id'[q] = id[q] /\ pc'[q] = pc[q]
      BY DEF TypeOK
    <2>4. id'[r] = e
      BY DEF TypeOK
    <2>5. \A d \in Devices : cookie[d] # None => cookie[d] \in Emails
      BY DEF TypeOK
    <2>6. ASSUME NEW q \in Requests, pc'[q] # "new", id'[q] # None
          PROVE  Vouched(input[q].device, id[q])'
      <3>1. CASE q = r
        BY <2>2, <2>4, <3>1 DEF Vouched
      <3>2. CASE q # r
        <4>1. pc[q] # "new" /\ id[q] \in Emails /\ Vouched(input[q].device, id[q])
          BY <2>3, <2>6, <3>2 DEF TypeOK, SessionsAreVouched
        <4>2. input[q].device \in Devices
          BY <4>1, InputKnown
        <4> QED
          BY <2>1, <2>3, <3>2, <4>1, <4>2 DEF Vouched
      <3> QED
        BY <3>1, <3>2
    <2> QED
      BY <2>1, <2>5, <2>6 DEF SessionsAreVouched, Vouched
  <1>10. SessionsWereRows'
    BY <1>4 DEF SessionsWereRows
  <1> QED
    BY <1>6, <1>7, <1>8, <1>9, <1>10

\* A row is written and the handler ends without a session.
LEMMA StoreAndFailStep ==
  ASSUME NEW r \in Requests, NEW e \in Emails, NEW profile \in Profiles,
         SessionInv, pc[r] # "new", Fail(r, 500), UNCHANGED <<cache, id, marks>>,
         user' \in [Requests -> Profiles \cup {None}],
         \A q \in Requests \ {r} : user'[q] = user[q],
         Store(e, profile),
         users[e] # None => profile.provider = users[e].provider
  PROVE  SessionInv'
  <1> USE AnswerStep DEF SessionInv, Fail, marks
  <1>1. e # None /\ profile # None
    BY AuthAssumption
  <1>2. /\ users' = [users EXCEPT ![e] = profile]
        /\ stored' = [stored EXCEPT ![e] = @ \cup {profile}]
    BY DEF Store
  <1>3. TypeOK'
    BY <1>2 DEF TypeOK
  <1>4. InHand'
    BY <1>2 DEF InHand, TypeOK
  <1>5. RowsKeepProvider'
    BY <1>1, <1>2 DEF RowsKeepProvider, TypeOK
  <1>6. SessionsAreVouched'
    <2>1. \A a \in Emails : users[a] # None =>
             users'[a] # None /\ users'[a].provider = users[a].provider
      BY <1>1, <1>2 DEF TypeOK
    <2>2. \A d \in Devices, a \in Emails : Vouched(d, a) => Vouched(d, a)'
      BY <2>1 DEF Vouched
    <2>3. \A d \in Devices : cookie[d] # None => cookie[d] \in Emails
      BY DEF TypeOK
    <2>4. ASSUME NEW q \in Requests, pc'[q] # "new", id'[q] # None
          PROVE  Vouched(input[q].device, id[q])'
      <3>1. pc[q] # "new" /\ id[q] \in Emails /\ Vouched(input[q].device, id[q])
        BY <2>4 DEF TypeOK, SessionsAreVouched
      <3>2. input[q].device \in Devices
        BY <3>1, InputKnown
      <3> QED
        BY <2>2, <3>1, <3>2 DEF Vouched
    <2>5. \A d \in Devices : cookie'[d] # None => Vouched(d, cookie[d])'
      <3> SUFFICES ASSUME NEW d \in Devices, cookie'[d] # None
                   PROVE  Vouched(d, cookie[d])'
        OBVIOUS
      <3>1. cookie'[d] = cookie[d]
        OBVIOUS
      <3>2. PICK a \in Emails : a = cookie[d] /\ Vouched(d, a)
        BY <2>3, <3>1 DEF SessionsAreVouched
      <3>3. Vouched(d, a)'
        BY <2>2, <3>2
      <3> HIDE DEF SessionInv, Fail, marks
      <3> QED
        BY <3>1, <3>2, <3>3 DEF Vouched
    <2> QED
      BY <2>4, <2>5 DEF SessionsAreVouched
  <1>7. SessionsWereRows'
    BY <1>2 DEF SessionsWereRows, TypeOK
  <1> QED
    BY <1>3, <1>4, <1>5, <1>6, <1>7

-----------------------------------------------------------------------------
LEMMA GetUserByEmailStep ==
  ASSUME NEW r \in Requests, SessionInv, GetUserByEmail(r), input[r].op = "login"
  PROVE  SessionInv'
  <1> DEFINE e == input[r].email
  <1> pc[r] = "find"
    BY DEF GetUserByEmail, At
  <1>1. /\ e \in Emails /\ input[r].provider \in Providers /\ input[r].name \in Names
        /\ [device |-> input[r].device, email |-> e, provider |-> input[r].provider]
             \in vouched
    BY InputKnown DEF SessionInv, InHand
  <1>2. CASE \E code \in {307, 500} : Fail(r, code) /\ UNCHANGED <<stores, id, user, marks>>
    BY <1>2, AnswerKeeps DEF Fail
  <1>3. CASE /\ Go(r, "create")
             /\ user' = [user EXCEPT ![r] = FirstProfile(input[r])]
             /\ UNCHANGED <<stores, id, marks>>
    <2> USE <1>3, GoStep DEF SessionInv, stores, marks, Places, Writing
    <2>1. FirstProfile(input[r]) \in Profiles
      BY <1>1 DEF FirstProfile, Profiles
    <2>2. TypeOK'
      BY <2>1 DEF TypeOK
    <2>3. InHand'
      BY DEF InHand, TypeOK
    <2>4. RowsKeepProvider' /\ SessionsAreVouched' /\ SessionsWereRows'
      BY DEF RowsKeepProvider, SessionsAreVouched, Vouched, SessionsWereRows
    <2> QED
      BY <2>2, <2>3, <2>4
  <1>4. CASE /\ users[e] # None /\ users[e].provider = input[r].provider
             /\ ToSession(r, e) /\ user' = [user EXCEPT ![r] = users[e]]
             /\ UNCHANGED stores
    <2>1. users[e] \in Profiles /\ users[e] \in stored[e]
      BY <1>1, <1>4 DEF SessionInv, TypeOK, RowsKeepProvider
    <2> QED
      BY <1>1, <1>4, <2>1, ToSessionStep DEF stores
  <1> QED
    BY <1>2, <1>3, <1>4 DEF GetUserByEmail

LEMMA CreateUserStep ==
  ASSUME NEW r \in Requests, SessionInv, CreateUser(r), input[r].op = "login"
  PROVE  SessionInv'
  <1> DEFINE e == input[r].email
  <1> pc[r] = "create"
    BY DEF CreateUser, At
  <1>1. /\ e \in Emails /\ user[r] = FirstProfile(input[r])
        /\ [device |-> input[r].device, email |-> e, provider |-> input[r].provider]
             \in vouched
    BY InputKnown DEF SessionInv, InHand
  <1>2. user[r] \in Profiles /\ user[r].provider = input[r].provider
    BY <1>1, InputKnown DEF FirstProfile, Profiles
  <1>3. user' = user /\ user' = [user EXCEPT ![r] = user[r]]
    BY DEF CreateUser, SessionInv, TypeOK
  <1>4. CASE Fail(r, 500) /\ UNCHANGED <<users, stored, id, marks>>
    BY <1>3, <1>4, AnswerKeeps DEF CreateUser, Fail, stores
  <1>5. CASE users[e] = None /\ Store(e, user[r]) /\ ToSession(r, e)
    BY <1>1, <1>2, <1>3, <1>5, ToSessionStep DEF CreateUser
  <1>6. CASE users[e] = None /\ Store(e, user[r]) /\ Fail(r, 500) /\ UNCHANGED <<id, marks>>
    <2>1. user' \in [Requests -> Profiles \cup {None}]
      BY <1>3 DEF SessionInv, TypeOK
    <2> QED
      BY <1>1, <1>2, <1>3, <1>6, <2>1, StoreAndFailStep DEF CreateUser
  <1> QED
    BY <1>4, <1>5, <1>6 DEF CreateUser

\* What is put into the cache is in the user's row, or has been.
LEMMA SetSessionDataStep ==
  ASSUME NEW r \in Requests, SessionInv, SetSessionData(r)
  PROVE  SessionInv'
  <1> pc[r] = "set"
    BY DEF SetSessionData, At
  <1>1. PICK next \in {"done", "reply"}, code \in {200, 307, 500} : Answer(r, code, next)
    BY DEF SetSessionData, SessionIsSet, Fail
  <1>2. id[r] \in Emails /\ user[r] \in stored[id[r]] /\ user[r] \in Profiles
    BY InHandKnown
  <1>3. /\ UNCHANGED <<users, stored, id, user, vouched, overlapped, stragglers>>
        /\ cache' = cache \/ cache' = [cache EXCEPT ![id[r]] = user[r]]
    BY DEF SetSessionData, marks
  <1> USE <1>1, <1>2, <1>3, AnswerStep DEF SessionInv
  <1>4. TypeOK'
    BY DEF TypeOK
  <1>5. InHand'
    BY DEF InHand
  <1>6. SessionsWereRows'
    BY DEF SessionsWereRows, TypeOK
  <1>7. RowsKeepProvider' /\ SessionsAreVouched'
    BY DEF RowsKeepProvider, SessionsAreVouched, Vouched
  <1> QED
    BY <1>4, <1>5, <1>6, <1>7

LEMMA DeleteSessionStep ==
  ASSUME NEW r \in Requests, SessionInv, DeleteSession(r)
  PROVE  SessionInv'
  <1> pc[r] = "del"
    BY DEF DeleteSession, At
  <1>1. PICK code \in {307, 500} : Answer(r, code, "reply")
    BY DEF DeleteSession
  <1>2. /\ UNCHANGED <<users, stored, user, vouched, overlapped>>
        /\ id' = [id EXCEPT ![r] = None]
        /\ cache' = cache \/ cache' = [cache EXCEPT ![id[r]] = None]
        /\ stragglers' \in [Emails -> SUBSET Requests]
    BY DEF DeleteSession, EndSession, marks, SessionInv, TypeOK
  <1> USE <1>1, <1>2, AnswerStep DEF SessionInv
  <1>3. TypeOK'
    BY DEF TypeOK
  <1>4. InHand'
    BY DEF InHand, TypeOK
  <1>5. SessionsWereRows'
    BY DEF SessionsWereRows, TypeOK
  <1>6. RowsKeepProvider' /\ SessionsAreVouched'
    BY DEF RowsKeepProvider, SessionsAreVouched, Vouched, TypeOK
  <1> QED
    BY <1>3, <1>4, <1>5, <1>6

LEMMA AuthMiddlewareStep ==
  ASSUME NEW r \in Requests, SessionInv, AuthMiddleware(r)
  PROVE  SessionInv'
  <1> pc[r] = "session"
    BY DEF AuthMiddleware, At
  <1>1. CASE (Fail(r, 401) \/ Fail(r, 500)) /\ UNCHANGED user
    BY <1>1, AnswerKeeps DEF AuthMiddleware, Fail
  <1>2. CASE /\ id[r] # None /\ cache[id[r]] # None
             /\ user' = [user EXCEPT ![r] = cache[id[r]]]
             /\ IF input[r].op = "info" THEN Fail(r, 200) ELSE Go(r, "update")
    <2>1. /\ UNCHANGED <<users, stored, cache, id, vouched, overlapped, stragglers>>
          /\ user' = [user EXCEPT ![r] = cache[id[r]]]
      BY <1>2 DEF AuthMiddleware, stores, marks
    <2>2. /\ pc' \in [Requests -> Places]
          /\ pc'[r] \in {"update", "done", "reply", "lost"}
          /\ \A q \in Requests \ {r} : pc'[q] = pc[q]
          /\ input' = input /\ gone' = gone /\ cookie' = cookie
          /\ status' \in [Requests -> {0, 200, 307, 400, 401, 403, 500}]
      BY <1>2, GoStep, AnswerStep DEF Fail, SessionInv, Places, Writing, TypeOK
    <2>3. /\ id[r] \in Emails /\ cache[id[r]] \in Profiles
          /\ cache[id[r]] \in stored[id[r]]
      BY <1>2 DEF SessionInv, TypeOK, SessionsWereRows
    <2> USE <2>1, <2>2, <2>3 DEF SessionInv
    <2>4. TypeOK'
      BY DEF TypeOK
    <2>5. InHand'
      <3>1. pc'[r] = "update" => id[r] # None /\ user'[r] \in stored[id[r]]
        BY <1>2 DEF TypeOK
      <3>2. \A q \in Requests \ {r} : user'[q] = user[q]
        BY DEF TypeOK
      <3> QED
        BY <3>1, <3>2 DEF InHand
    <2>6. RowsKeepProvider' /\ SessionsAreVouched' /\ SessionsWereRows'
      BY DEF RowsKeepProvider, SessionsAreVouched, Vouched, SessionsWereRows
    <2> QED
      BY <2>4, <2>5, <2>6
  <1> QED
    BY <1>1, <1>2 DEF AuthMiddleware

\* The copy in hand, edited, is the row, edited: they differ in nothing else.
LEMMA EditsAgree ==
  ASSUME NEW r \in Requests, SessionInv, pc[r] = "update"
  PROVE  /\ id[r] \in Emails /\ users[id[r]] \in Profiles
         /\ Edited(user[r], input[r].name) = Edited(users[id[r]], input[r].name)
  <1> DEFINE e == id[r]
             old == users[e]
  <1>1. e \in Emails /\ e # None /\ user[r] \in stored[e] /\ user[r] \in Profiles
    BY InHandKnown
  <1>2. old \in Profiles /\ old # None
    <2>1. Vouched(input[r].device, e)
      BY <1>1 DEF SessionInv, SessionsAreVouched
    <2> QED
      BY <1>1, <2>1 DEF SessionInv, TypeOK, Vouched
  <1>3. user[r].provider = old.provider
    BY <1>1, <1>2 DEF SessionInv, RowsKeepProvider
  <1>4. \A x \in Profiles : Edited(x, input[r].name)
           = [provider |-> x.provider, name |-> input[r].name, new_user |-> FALSE]
    BY EditedIs, InputKnown
  <1> QED
    BY <1>1, <1>2, <1>3, <1>4

LEMMA UpdateUserStep ==
  ASSUME NEW r \in Requests, SessionInv, UpdateUser(r)
  PROVE  SessionInv'
  <1> DEFINE e == id[r]
             old == users[e]
             profile == Edited(old, input[r].name)
  <1> pc[r] = "update"
    BY DEF UpdateUser, At
  <1>1. e \in Emails /\ e # None /\ user[r] \in stored[e] /\ user[r] \in Profiles
    BY InHandKnown
  <1>2. Vouched(input[r].device, e)
    BY <1>1 DEF SessionInv, SessionsAreVouched
  <1>3. /\ old \in Profiles
        /\ Edited(user[r], input[r].name) = profile
    BY EditsAgree
  <1>4. profile = [provider |-> old.provider, name |-> input[r].name, new_user |-> FALSE]
    BY <1>3, EditedIs, InputKnown
  <1>5. profile \in Profiles /\ profile.provider = old.provider
    BY <1>3, <1>4, InputKnown DEF Profiles
  <1>6. CASE \E code \in {400, 403, 500} :
               Fail(r, code) /\ UNCHANGED <<users, stored, id, user, marks>>
    BY <1>6, AnswerKeeps DEF UpdateUser, Fail, stores
  <1>7. CASE /\ Store(e, profile)
             /\ user' = [user EXCEPT ![r] = Edited(@, input[r].name)]
             /\ ToSession(r, e) \/ (Fail(r, 500) /\ UNCHANGED <<id, marks>>)
    <2>1. user' = [user EXCEPT ![r] = profile]
      BY <1>3, <1>7
    <2>2. user' \in [Requests -> Profiles \cup {None}]
      BY <1>5, <2>1 DEF SessionInv, TypeOK
    <2>3. \A q \in Requests \ {r} : user'[q] = user[q]
      BY <2>1 DEF SessionInv, TypeOK
    <2>4. [device |-> input[r].device, email |-> e, provider |-> old.provider] \in vouched
      BY <1>2 DEF Vouched
    <2>5. cache' = cache
      BY DEF UpdateUser
    <2> HIDE DEF profile
    <2>6. CASE ToSession(r, e)
      BY <1>1, <1>5, <1>7, <2>1, <2>4, <2>5, <2>6, ToSessionStep
    <2>7. CASE Fail(r, 500) /\ UNCHANGED <<id, marks>>
      BY <1>1, <1>5, <1>7, <2>2, <2>3, <2>5, <2>7, StoreAndFailStep
    <2> QED
      BY <1>7, <2>6, <2>7
  <1> QED
    BY <1>6, <1>7 DEF UpdateUser

\* The browser gets a cookie that its request was vouched for, or none.
LEMMA RespondStep ==
  ASSUME NEW r \in Requests, SessionInv, Respond(r)
  PROVE  SessionInv'
  <1> pc[r] = "reply"
    BY DEF Respond, At
  <1> USE DEF Respond, SessionInv, stores, marks
  <1>1. input[r].device \in Devices
    BY InputKnown
  <1>2. cookie' \in [Devices -> Emails \cup {None}]
        /\ \A d \in Devices : \/ cookie'[d] = cookie[d]
                              \/ d = input[r].device /\ cookie'[d] = id[r]
    BY <1>1 DEF TypeOK
  <1>3. TypeOK'
    BY <1>2 DEF TypeOK, Places
  <1>4. InHand'
    BY DEF InHand, TypeOK
  <1>5. SessionsAreVouched'
    BY <1>2 DEF SessionsAreVouched, Vouched, TypeOK
  <1>6. RowsKeepProvider' /\ SessionsWereRows'
    BY DEF RowsKeepProvider, SessionsWereRows
  <1> QED
    BY <1>3, <1>4, <1>5, <1>6

LEMMA EnvironmentStep ==
  ASSUME SessionInv, \/ \E e \in Emails : Expire(e)
                     \/ \E d \in Devices : CookieExpires(d)
                     \/ Restart
  PROVE  SessionInv'
  <1> USE DEF SessionInv, stores, marks
  <1>1. ASSUME NEW e \in Emails, Expire(e)
        PROVE  SessionInv'
    BY <1>1 DEF Expire, EndSession, TypeOK, InHand, RowsKeepProvider, SessionsAreVouched, Vouched,
       SessionsWereRows
  <1>2. ASSUME NEW d \in Devices, CookieExpires(d)
        PROVE  SessionInv'
    BY <1>2 DEF CookieExpires, TypeOK, InHand, RowsKeepProvider, SessionsAreVouched,
       Vouched, SessionsWereRows
  <1>3. CASE Restart
    <2> USE <1>3 DEF Restart
    <2>1. TypeOK'
      BY DEF TypeOK, Places, Writing
    <2>2. InHand'
      BY DEF TypeOK, InHand, Writing
    <2>3. RowsKeepProvider' /\ SessionsAreVouched' /\ SessionsWereRows'
      BY DEF TypeOK, RowsKeepProvider, SessionsAreVouched, Vouched, SessionsWereRows, Writing
    <2> QED
      BY <2>1, <2>2, <2>3
  <1> QED
    BY <1>1, <1>2, <1>3

\* SessionInv is inductive.
LEMMA SessionStep == SessionInv /\ [Next]_vars => SessionInv'
  <1> SUFFICES ASSUME SessionInv, [Next]_vars PROVE SessionInv'
    OBVIOUS
  <1>1. ASSUME NEW r \in Requests, Handler(r)
        PROVE  SessionInv'
    BY <1>1, CompleteUserAuthStep, GetUserByEmailStep, CreateUserStep, SetSessionDataStep,
       DeleteSessionStep, AuthMiddlewareStep, UpdateUserStep, RespondStep
    DEF Handler, CallbackHandler, LogoutHandler, GetUserInfo, UpdateProfile
  <1>2. CASE UNCHANGED vars
    BY <1>2 DEF vars, stores, marks, SessionInv, TypeOK, InHand, RowsKeepProvider,
       SessionsAreVouched, Vouched, SessionsWereRows
  <1> QED
    BY <1>1, <1>2, ReceiveStep, EnvironmentStep DEF Next

-----------------------------------------------------------------------------
\* The invariant of the sessions.
THEOREM SessionCorrect == Spec => []SessionInv
  BY SessionInit, SessionStep, PTL DEF Spec

\* No browser holds or uses a session of an account that the account's own
\* provider has not vouched for from that browser.
THEOREM OnlyVouched == Spec => []SessionsAreVouched
  <1>1. SessionInv => SessionsAreVouched
    BY DEF SessionInv
  <1> QED
    BY <1>1, SessionCorrect, PTL

\* Every cached session is a state the user's row has been in.
THEOREM SessionsFromRows == Spec => []SessionsWereRows
  <1>1. SessionInv => SessionsWereRows
    BY DEF SessionInv
  <1> QED
    BY <1>1, SessionCorrect, PTL

\* An account keeps its provider, and is edited for good.
THEOREM AccountStays == Spec => AccountIsKept
  <1> DEFINE Kept == \A e \in Emails : users[e] # None =>
                       /\ users'[e] # None
                       /\ users'[e].provider = users[e].provider
                       /\ users'[e].new_user => users[e].new_user
  <1>1. SessionInv /\ [Next]_vars => [Kept]_vars
    <2> SUFFICES ASSUME SessionInv, [Next]_vars, ~UNCHANGED vars
                 PROVE  Kept
      OBVIOUS
    <2>1. CASE users' = users
      BY <2>1
    <2>2. ASSUME NEW r \in Requests, CreateUser(r), users' # users
          PROVE  Kept
      BY <2>2 DEF CreateUser, Store, SessionInv, TypeOK
    <2>3. ASSUME NEW r \in Requests, UpdateUser(r), users' # users
          PROVE  Kept
      <3> DEFINE e == id[r]
                 old == users[e]
      <3>1. /\ old # None
            /\ users' = [users EXCEPT ![e] = Edited(old, input[r].name)]
        BY <2>3 DEF UpdateUser, Store
      <3>2. e \in Emails
        BY <2>3, InHandKnown DEF UpdateUser, At
      <3>3. old \in Profiles
        BY <3>1, <3>2 DEF SessionInv, TypeOK
      <3>4. Edited(old, input[r].name)
              = [provider |-> old.provider, name |-> input[r].name, new_user |-> FALSE]
        BY <2>3, <3>3, EditedIs, InputKnown DEF UpdateUser, At
      <3>5. Edited(old, input[r].name) \in Profiles
        BY <2>3, <3>3, <3>4, InputKnown DEF Profiles, UpdateUser, At
      <3>6. Edited(old, input[r].name) # None
        BY <3>5, AuthAssumption
      <3> QED
        BY <3>1, <3>2, <3>4, <3>6 DEF SessionInv, TypeOK
    <2> QED
      BY <2>1, <2>2, <2>3
      DEF Next, Receive, Handler, CallbackHandler, LogoutHandler, GetUserInfo, UpdateProfile,
          CompleteUserAuth, GetUserByEmail, SetSessionData, DeleteSession, AuthMiddleware,
          Respond, Expire, CookieExpires, Restart, stores
  <1> QED
    BY <1>1, SessionCorrect, PTL DEF Spec, AccountIsKept

-----------------------------------------------------------------------------
(* Session and row agree unless two requests overlapped.                    *)

\* Nothing has failed and no request was lost.
Clean ==
    /\ gone = {}
    /\ \A r \in Requests : pc[r] # "lost" /\ status[r] \notin {400, 401, 403, 500}

\* A request has its status from when it is answered, and ends in its process
\* or in a command to a store.
Ends ==
    /\ \A r \in Requests : status[r] # 0 => pc[r] \in {"reply", "done", "lost"}
    /\ \A r \in gone : pc[r] \in Writing \cup {"lost"}

Setting(r, e) == pc[r] = "set" /\ id[r] = e

\* At most one request is about to set the session of e, it has e's row in
\* hand, and without it the session is the row.
InStep(e) ==
    /\ \A q, r \in Requests : Setting(q, e) /\ Setting(r, e) => q = r
    /\ \A r \in Requests : Setting(r, e) => user[r] = users[e]
    /\ cache[e] # None => cache[e] = users[e] \/ \E r \in Requests : Setting(r, e)

Synced == Ends /\ (Clean => \A e \in Emails \ overlapped : InStep(e))

\* What has failed stays so: a step of one request to its answer or to a place
\* that is no answer.
LEMMA EndsStep ==
  ASSUME NEW r \in Requests, TypeOK, Ends, gone' = gone,
         pc[r] \notin {"reply", "done", "lost"},
         \/ \E next \in Places \ {"new"} : Go(r, next)
         \/ \E next \in {"done", "reply"}, code \in {200, 307, 400, 401, 403, 500} :
               Answer(r, code, next)
  PROVE  Ends' /\ (Clean' => Clean)
  <1>1. CASE \E next \in Places \ {"new"} : Go(r, next)
    BY <1>1 DEF Go, TypeOK, Ends, Clean, Writing
  <1>2. CASE \E next \in {"done", "reply"}, code \in {200, 307, 400, 401, 403, 500} :
               Answer(r, code, next)
    BY <1>2 DEF Answer, TypeOK, Ends, Clean, Writing
  <1> QED
    BY <1>1, <1>2

\* After a failure nothing is clean.
LEMMA FailureShows ==
  ASSUME NEW r \in Requests, TypeOK, NEW next \in {"done", "reply"},
         NEW code \in {400, 401, 403, 500}, Answer(r, code, next)
  PROVE  ~Clean'
  BY DEF Answer, TypeOK, Clean

\* A step that takes and sets no session leaves those there are, or ends them.
LEMMA CalmStep ==
  ASSUME TypeOK, Synced, Ends', Clean' => Clean,
         users' = users, overlapped' = overlapped,
         \A r \in Requests : /\ pc'[r] = "set" <=> pc[r] = "set"
                             /\ pc[r] = "set" => id'[r] = id[r] /\ user'[r] = user[r],
         \A e \in Emails : cache'[e] \in {cache[e], None}
  PROVE  Synced'
  <1> SUFFICES ASSUME Clean', NEW e \in Emails \ overlapped PROVE InStep(e)'
    BY DEF Synced
  <1>1. InStep(e)
    BY DEF Synced
  <1>2. \A r \in Requests : Setting(r, e)' <=> Setting(r, e)
    BY DEF Setting
  <1> QED
    BY <1>1, <1>2 DEF InStep, Setting

\* A request takes the row of e, as it is or as it has just stored it.
LEMMA TakeStep ==
  ASSUME NEW r \in Requests, NEW e \in Emails, NEW profile,
         TypeOK, Synced, pc[r] \in {"find", "create", "update"}, ToSession(r, e),
         cache' = cache, user' = [user EXCEPT ![r] = profile],
         users' = [users EXCEPT ![e] = profile]
  PROVE  Synced'
  <1>1. Go(r, "set") /\ gone' = gone /\ id' = [id EXCEPT ![r] = e]
    BY DEF ToSession, Go
  <1>2. Ends' /\ (Clean' => Clean)
    BY <1>1, EndsStep DEF Synced, Places, Writing
  <1> SUFFICES ASSUME Clean', NEW a \in Emails \ overlapped' PROVE InStep(a)'
    BY <1>2 DEF Synced
  <1>3. pc' = [pc EXCEPT ![r] = "set"]
    <2>1. r \notin gone
      BY <1>1 DEF Clean
    <2> QED
      BY <1>1, <2>1 DEF Go
  <1>4. a \in Emails \ overlapped /\ InStep(a)
    <2>1. overlapped \subseteq overlapped'
      BY DEF ToSession
    <2> QED
      BY <1>2, <2>1 DEF Synced
  <1>5. \A q \in Requests \ {r} : /\ Setting(q, a)' <=> Setting(q, a)
                                  /\ user'[q] = user[q]
    BY <1>1, <1>3 DEF Setting, TypeOK
  <1>6. ~Setting(r, a) /\ (Setting(r, a)' <=> a = e)
    BY <1>1, <1>3 DEF Setting, TypeOK
  <1>7. CASE a = e
    <2>1. \A q \in Requests \ {r} : ~Setting(q, e)
      BY <1>7 DEF ToSession, Setting
    <2>2. user'[r] = users'[e]
      BY DEF TypeOK
    <2> QED
      BY <1>5, <1>6, <1>7, <2>1, <2>2 DEF InStep
  <1>8. CASE a # e
    <2>1. users'[a] = users[a]
      BY <1>8
    <2>2. \A q \in Requests : Setting(q, a)' <=> Setting(q, a)
      BY <1>5, <1>6, <1>8
    <2>3. \A q \in Requests : Setting(q, a) => user'[q] = user[q]
      BY <1>5, <1>6
    <2> QED
      BY <1>4, <2>1, <2>2, <2>3 DEF InStep
  <1> QED
    BY <1>7, <1>8

\* The session becomes the row in hand, and the request is no longer about to
\* set it.
LEMMA SetStep ==
  ASSUME NEW r \in Requests, SessionInv, Synced, SetSessionData(r)
  PROVE  Synced'
  <1> DEFINE e == id[r]
  <1>1. TypeOK /\ pc[r] = "set" /\ e \in Emails /\ user[r] # None
    BY InHandKnown, AuthAssumption DEF SetSessionData, At, SessionInv
  <1>2. /\ UNCHANGED <<users, id, user, overlapped>>
        /\ \E next \in {"done", "reply"} :
             \/ Answer(r, 500, next)
             \/ /\ \E code \in {200, 307} : Answer(r, code, next)
                /\ cache' = [cache EXCEPT ![e] = user[r]]
    BY DEF SetSessionData, SessionIsSet, Fail, marks
  <1>3. PICK next \in {"done", "reply"}, code \in {200, 307, 500} :
          /\ Answer(r, code, next)
          /\ code # 500 => cache' = [cache EXCEPT ![e] = user[r]]
    BY <1>2
  <1>4. Ends' /\ (Clean' => Clean)
    <2>1. gone' = gone
      BY <1>3 DEF Answer
    <2>2. \E n \in {"done", "reply"}, c \in {200, 307, 400, 401, 403, 500} : Answer(r, c, n)
      BY <1>3
    <2> QED
      BY <1>1, <2>1, <2>2, EndsStep DEF Synced
  <1> SUFFICES ASSUME Clean', NEW a \in Emails \ overlapped' PROVE InStep(a)'
    BY <1>4 DEF Synced
  <1>5. cache' = [cache EXCEPT ![e] = user[r]]
    BY <1>1, <1>3, FailureShows
  <1>6. InStep(a)
    BY <1>2, <1>4 DEF Synced
  <1>7. \A q \in Requests : Setting(q, a)' <=> Setting(q, a) /\ q # r
    <2>1. pc'[r] # "set" /\ \A q \in Requests \ {r} : pc'[q] = pc[q]
      BY <1>1, <1>3, AnswerStep
    <2> QED
      BY <1>2, <2>1 DEF Setting
  <1>8. CASE a = e
    <2>1. Setting(r, a)
      BY <1>1, <1>8 DEF Setting
    <2>2. \A q \in Requests : ~Setting(q, a)'
      BY <1>6, <1>7, <2>1 DEF InStep
    <2>3. cache'[a] = users'[a]
      BY <1>1, <1>2, <1>5, <1>6, <1>8, <2>1 DEF InStep, TypeOK
    <2> QED
      BY <2>2, <2>3 DEF InStep
  <1>9. CASE a # e
    <2>1. cache'[a] = cache[a]
      BY <1>5, <1>9
    <2>2. \A q \in Requests : Setting(q, a)' <=> Setting(q, a)
      BY <1>7, <1>9 DEF Setting
    <2> QED
      BY <1>2, <1>6, <2>1, <2>2 DEF InStep
  <1> QED
    BY <1>8, <1>9

\* A handler that fails leaves nothing to show; one that goes on without the
\* row, or answers, touches no session but to end it.
LEMMA CalmHandler ==
  ASSUME NEW r \in Requests, TypeOK, Synced,
         pc[r] \notin {"reply", "done", "lost", "set"},
         \/ \E next \in Places \ {"new", "set"} : Go(r, next)
         \/ \E next \in {"done", "reply"}, code \in {200, 307, 400, 401, 403, 500} :
               Answer(r, code, next),
         users' = users, overlapped' = overlapped,
         \A q \in Requests \ {r} : id'[q] = id[q] /\ user'[q] = user[q],
         \A e \in Emails : cache'[e] \in {cache[e], None}
  PROVE  Synced'
  <1>1. gone' = gone
    BY DEF Go, Answer
  <1>2. Ends' /\ (Clean' => Clean)
    BY <1>1, EndsStep DEF Synced
  <1>3. pc'[r] # "set" /\ \A q \in Requests \ {r} : pc'[q] = pc[q]
    BY GoStep, AnswerStep
  <1> QED
    BY <1>2, <1>3, CalmStep

LEMMA FailedStep ==
  ASSUME NEW r \in Requests, TypeOK, Synced, pc[r] \notin {"reply", "done", "lost"},
         NEW code \in {400, 401, 403, 500}, Fail(r, code)
  PROVE  Synced'
  <1>1. Answer(r, code, "done") /\ gone' = gone
    BY DEF Fail, Answer
  <1> QED
    BY <1>1, EndsStep, FailureShows DEF Synced

\* A request takes cookie and input; its answer has nothing to do with a session.
LEMMA ReceiveSynced ==
  ASSUME NEW r \in Requests, NEW i \in Inputs, TypeOK, Synced, Receive(r, i)
  PROVE  Synced'
  <1> USE DEF Receive, stores, marks
  <1>1. pc' = [pc EXCEPT ![r] = pc'[r]] /\ pc'[r] \in {"oauth", "del", "session"}
    BY DEF TypeOK
  <1>2. Ends' /\ (Clean' => Clean)
    BY <1>1 DEF Synced, Ends, Clean, TypeOK, Writing
  <1> QED
    BY <1>1, <1>2, CalmStep DEF TypeOK

LEMMA LoginSynced ==
  ASSUME NEW r \in Requests, SessionInv, Synced, pc[r] # "new", input[r].op = "login",
         CompleteUserAuth(r) \/ GetUserByEmail(r) \/ CreateUser(r)
  PROVE  Synced'
  <1> DEFINE e == input[r].email
  <1>1. TypeOK /\ e \in Emails
    BY InputKnown DEF SessionInv
  <1>2. CASE CompleteUserAuth(r)
    <2>1. pc[r] = "oauth" /\ UNCHANGED <<users, cache, id, user, overlapped>>
      BY <1>2 DEF CompleteUserAuth, At, stores
    <2>2. Fail(r, 500) \/ Go(r, "find")
      BY <1>2 DEF CompleteUserAuth
    <2> QED
      BY <1>1, <2>1, <2>2, FailedStep, CalmHandler DEF Places
  <1>3. CASE GetUserByEmail(r)
    <2>1. pc[r] = "find" /\ users' = users /\ cache' = cache
      BY <1>3 DEF GetUserByEmail, At, stores
    <2>2. CASE Fail(r, 500)
      BY <1>1, <2>1, <2>2, FailedStep
    <2>3. CASE /\ Go(r, "create") \/ Answer(r, 307, "done")
               /\ overlapped' = overlapped /\ id' = id
               /\ user' = [user EXCEPT ![r] = user'[r]]
      <3>1. \A q \in Requests \ {r} : user'[q] = user[q]
        BY <1>1, <2>3 DEF TypeOK
      <3> QED
        BY <1>1, <2>1, <2>3, <3>1, CalmHandler DEF Places, Writing
    <2>4. CASE ToSession(r, e) /\ user' = [user EXCEPT ![r] = users[e]]
      <3>1. users' = [users EXCEPT ![e] = users[e]]
        BY <1>1, <2>1 DEF TypeOK
      <3> QED
        BY <1>1, <2>1, <2>4, <3>1, TakeStep
    <2> QED
      BY <1>1, <1>3, <2>2, <2>3, <2>4 DEF GetUserByEmail, Fail, marks, TypeOK
  <1>4. CASE CreateUser(r)
    <2>1. pc[r] = "create" /\ cache' = cache /\ user' = user
      BY <1>4 DEF CreateUser, At
    <2>2. CASE Fail(r, 500)
      BY <1>1, <2>1, <2>2, FailedStep
    <2>3. CASE Store(e, user[r]) /\ ToSession(r, e)
      <3>1. user' = [user EXCEPT ![r] = user[r]]
        BY <1>1, <2>1 DEF TypeOK
      <3> QED
        BY <1>1, <2>1, <2>3, <3>1, TakeStep DEF Store
    <2> QED
      BY <1>4, <2>2, <2>3 DEF CreateUser
  <1> QED
    BY <1>2, <1>3, <1>4

LEMMA MiddlewareSynced ==
  ASSUME NEW r \in Requests, SessionInv, Synced, AuthMiddleware(r)
  PROVE  Synced'
  <1>1. /\ TypeOK /\ pc[r] = "session"
        /\ UNCHANGED <<users, cache, id, overlapped>>
    BY DEF AuthMiddleware, At, SessionInv, stores, marks
  <1>2. CASE Fail(r, 401) \/ Fail(r, 500)
    BY <1>1, <1>2, FailedStep
  <1>3. CASE /\ Answer(r, 200, "done") \/ Go(r, "update")
             /\ user' = [user EXCEPT ![r] = cache[id[r]]]
    BY <1>1, <1>3, CalmHandler DEF Places, Writing
  <1> QED
    BY <1>2, <1>3 DEF AuthMiddleware, Fail

LEMMA DeleteSynced ==
  ASSUME NEW r \in Requests, SessionInv, Synced, DeleteSession(r)
  PROVE  Synced'
  <1>1. /\ TypeOK /\ pc[r] = "del"
        /\ UNCHANGED <<users, user, overlapped>> /\ id' = [id EXCEPT ![r] = None]
        /\ cache' = cache \/ cache' = [cache EXCEPT ![id[r]] = None]
    BY DEF DeleteSession, EndSession, At, SessionInv, marks
  <1>2. Answer(r, 307, "reply") \/ Answer(r, 500, "reply")
    BY DEF DeleteSession
  <1>3. \A e \in Emails : cache'[e] \in {cache[e], None}
    BY <1>1 DEF TypeOK
  <1> QED
    BY <1>1, <1>2, <1>3, CalmHandler

LEMMA UpdateSynced ==
  ASSUME NEW r \in Requests, SessionInv, Synced, UpdateUser(r)
  PROVE  Synced'
  <1> DEFINE e == id[r]
             profile == Edited(users[e], input[r].name)
  <1>1. TypeOK /\ pc[r] = "update" /\ cache' = cache
    BY DEF UpdateUser, At, SessionInv
  <1>2. e \in Emails /\ Edited(user[r], input[r].name) = profile
    BY <1>1, EditsAgree
  <1>3. CASE \E code \in {400, 403, 500} : Fail(r, code)
    BY <1>1, <1>3, FailedStep
  <1>4. CASE /\ Store(e, profile) /\ ToSession(r, e)
             /\ user' = [user EXCEPT ![r] = Edited(@, input[r].name)]
    <2>1. user' = [user EXCEPT ![r] = profile]
      BY <1>2, <1>4
    <2> HIDE DEF profile
    <2> QED
      BY <1>1, <1>2, <1>4, <2>1, TakeStep DEF Store
  <1> QED
    BY <1>3, <1>4 DEF UpdateUser

\* Responses, expiries and restarts touch no session but to end it.
LEMMA RestSynced ==
  ASSUME TypeOK, Synced, \/ \E r \in Requests : Respond(r)
                         \/ \E e \in Emails : Expire(e)
                         \/ \E d \in Devices : CookieExpires(d)
                         \/ Restart
  PROVE  Synced'
  <1> USE DEF stores, marks
  <1>1. ASSUME NEW r \in Requests, Respond(r)
        PROVE  Synced'
    <2>1. pc[r] = "reply" /\ pc' = [pc EXCEPT ![r] = "done"]
          /\ UNCHANGED <<users, cache, id, user, status, gone, overlapped>>
      BY <1>1 DEF Respond, At
    <2>2. Ends' /\ (Clean' => Clean)
      BY <2>1 DEF Synced, Ends, Clean, TypeOK, Writing
    <2> QED
      BY <2>1, <2>2, CalmStep DEF TypeOK
  <1>2. ASSUME NEW e \in Emails, Expire(e)
        PROVE  Synced'
    <2>1. Ends' /\ (Clean' => Clean)
      BY <1>2 DEF Expire, EndSession, Synced, Ends, Clean
    <2> QED
      BY <1>2, <2>1, CalmStep DEF Expire, EndSession, TypeOK
  <1>3. ASSUME NEW d \in Devices, CookieExpires(d)
        PROVE  Synced'
    <2>1. Ends' /\ (Clean' => Clean)
      BY <1>3 DEF CookieExpires, Synced, Ends, Clean
    <2> QED
      BY <1>3, <2>1, CalmStep DEF CookieExpires
  <1>4. CASE Restart
    <2>1. Ends' /\ (Clean' => Clean)
      BY <1>4 DEF Restart, Synced, Ends, Clean, TypeOK, Writing
    <2> QED
      BY <1>4, <2>1, CalmStep DEF Restart, TypeOK, Writing
  <1> QED
    BY <1>1, <1>2, <1>3, <1>4

LEMMA SyncedStep == SessionInv /\ Synced /\ [Next]_vars => Synced'
  <1> SUFFICES ASSUME SessionInv, Synced, [Next]_vars PROVE Synced'
    OBVIOUS
  <1>1. TypeOK
    BY DEF SessionInv
  <1>2. ASSUME NEW r \in Requests, Handler(r)
        PROVE  Synced'
    BY <1>1, <1>2, LoginSynced, SetStep, RestSynced, DeleteSynced, MiddlewareSynced,
       UpdateSynced
    DEF Handler, CallbackHandler, LogoutHandler, GetUserInfo, UpdateProfile
  <1>3. CASE UNCHANGED vars
    BY <1>3 DEF vars, stores, marks, Synced, Ends, Clean, InStep, Setting
  <1> QED
    BY <1>1, <1>2, <1>3, ReceiveSynced, RestSynced DEF Next

\* Between sessions and rows there is no difference but what overlapping
\* requests, failures and restarts leave behind.
THEOREM SessionsFollowRows == Spec => []SessionIsProfileUnlessRaced
  <1>1. Init => Synced
    BY DEF Init, Synced, Ends, Clean, InStep, Setting
  <1>2. Synced => SessionIsProfileUnlessRaced
    BY DEF Synced, Clean, InStep, Setting, SessionIsProfileUnlessRaced, Quiet
  <1> QED
    BY <1>1, <1>2, SyncedStep, SessionCorrect, PTL DEF Spec

-----------------------------------------------------------------------------
(* A session comes back by a login, or by a straggler.                       *)

\* A request that was let through to its statement has its session still there,
\* or is one of the stragglers.
ThroughIsKnown ==
    \A r \in Requests :
        pc[r] \in {"update", "set"} /\ input[r].op # "login" =>
            cache[id[r]] # None \/ r \in stragglers[id[r]]

\* A step that lets no request through and ends no session.
LEMMA ThroughStays ==
  ASSUME ThroughIsKnown, stragglers' = stragglers,
         \A q \in Requests : pc'[q] \in {"update", "set"} /\ input'[q].op # "login" =>
            /\ pc[q] \in {"update", "set"} /\ input[q].op # "login" /\ id'[q] = id[q]
            /\ cache[id[q]] # None => cache'[id[q]] # None
  PROVE  ThroughIsKnown'
  BY DEF ThroughIsKnown

\* When a session ends all those that it has let through are recorded.
LEMMA EndKnown ==
  ASSUME SessionInv, ThroughIsKnown, NEW e \in Emails, EndSession(e), input' = input,
         \A q \in Requests : pc'[q] \in {"update", "set"} =>
            pc[q] \in {"update", "set"} /\ id'[q] = id[q]
  PROVE  ThroughIsKnown'
  <1> SUFFICES ASSUME NEW q \in Requests, pc'[q] \in {"update", "set"},
                      input'[q].op # "login"
               PROVE  cache'[id'[q]] # None \/ q \in stragglers'[id'[q]]
    BY DEF ThroughIsKnown
  <1>1. pc[q] \in {"update", "set"} /\ id'[q] = id[q] /\ id[q] \in Emails
    BY InHandKnown
  <1>2. CASE id[q] = e
    BY <1>1, <1>2 DEF EndSession, SessionInv, TypeOK
  <1>3. CASE id[q] # e
    BY <1>1, <1>3 DEF EndSession, SessionInv, TypeOK, ThroughIsKnown
  <1> QED
    BY <1>2, <1>3

\* A handler that answers, or fails, lets nobody through.
LEMMA AnswerKnown ==
  ASSUME NEW r \in Requests, NEW next \in {"done", "reply"},
         NEW code \in {200, 307, 400, 401, 403, 500}, SessionInv, ThroughIsKnown,
         Answer(r, code, next), UNCHANGED <<cache, stragglers>>,
         \A q \in Requests \ {r} : id'[q] = id[q]
  PROVE  ThroughIsKnown'
  BY AnswerStep, ThroughStays DEF SessionInv

LEMMA LoginKnown ==
  ASSUME NEW r \in Requests, SessionInv, ThroughIsKnown, input[r].op = "login",
         CompleteUserAuth(r) \/ GetUserByEmail(r) \/ CreateUser(r)
  PROVE  ThroughIsKnown'
  <1>1. /\ input' = input /\ UNCHANGED <<cache, stragglers>>
        /\ \A q \in Requests \ {r} : pc'[q] = pc[q] /\ id'[q] = id[q]
    BY DEF CompleteUserAuth, GetUserByEmail, CreateUser, ToSession, Fail, Answer, Go,
       stores, marks, SessionInv, TypeOK
  <1> QED
    BY <1>1, ThroughStays

LEMMA SetKnown ==
  ASSUME NEW r \in Requests, SessionInv, ThroughIsKnown, SetSessionData(r)
  PROVE  ThroughIsKnown'
  <1>1. pc[r] = "set" /\ user[r] # None /\ id[r] \in Emails
    BY InHandKnown, AuthAssumption DEF SetSessionData, At
  <1>2. /\ UNCHANGED <<id, stragglers>>
        /\ cache' = cache \/ cache' = [cache EXCEPT ![id[r]] = user[r]]
        /\ \E next \in {"done", "reply"}, code \in {200, 307, 500} : Answer(r, code, next)
    BY DEF SetSessionData, SessionIsSet, Fail, marks
  <1>3. input' = input /\ pc'[r] \notin {"update", "set"}
        /\ \A q \in Requests \ {r} : pc'[q] = pc[q]
    BY <1>2, AnswerStep DEF SessionInv
  <1>4. \A q \in Requests : pc[q] \in {"update", "set"} /\ cache[id[q]] # None
                             => cache'[id[q]] # None
    BY <1>1, <1>2, InHandKnown DEF SessionInv, TypeOK
  <1> QED
    BY <1>2, <1>3, <1>4, ThroughStays

LEMMA MiddlewareKnown ==
  ASSUME NEW r \in Requests, SessionInv, ThroughIsKnown, AuthMiddleware(r)
  PROVE  ThroughIsKnown'
  <1>1. UNCHANGED <<cache, id, stragglers>> /\ TypeOK
    BY DEF AuthMiddleware, stores, marks, SessionInv
  <1>2. CASE \E code \in {200, 401, 500} : Fail(r, code)
    BY <1>1, <1>2, AnswerKnown DEF Fail
  <1>3. CASE Go(r, "update") /\ cache[id[r]] # None
    BY <1>1, <1>3, GoStep DEF ThroughIsKnown, Places, Writing
  <1> QED
    BY <1>2, <1>3 DEF AuthMiddleware

LEMMA UpdateKnown ==
  ASSUME NEW r \in Requests, SessionInv, ThroughIsKnown, UpdateUser(r)
  PROVE  ThroughIsKnown'
  <1>1. /\ pc[r] = "update" /\ input' = input /\ UNCHANGED <<cache, stragglers>>
        /\ id' = id /\ \A q \in Requests \ {r} : pc'[q] = pc[q]
    BY DEF UpdateUser, At, ToSession, Fail, Answer, Go, marks, SessionInv, TypeOK
  <1> QED
    BY <1>1, ThroughStays

LEMMA DeleteKnown ==
  ASSUME NEW r \in Requests, SessionInv, ThroughIsKnown, DeleteSession(r)
  PROVE  ThroughIsKnown'
  <1>1. /\ \E code \in {307, 500} : Answer(r, code, "reply")
        /\ \A q \in Requests \ {r} : id'[q] = id[q]
    BY DEF DeleteSession, SessionInv, TypeOK
  <1>2. CASE UNCHANGED <<cache, stragglers>>
    BY <1>1, <1>2, AnswerKnown
  <1>3. CASE EndSession(id[r]) /\ id[r] # None
    <2>1. /\ input' = input /\ pc'[r] \notin {"update", "set"}
          /\ \A q \in Requests \ {r} : pc'[q] = pc[q]
      BY <1>1, AnswerStep DEF SessionInv
    <2>2. id[r] \in Emails
      BY <1>3 DEF SessionInv, TypeOK
    <2> QED
      BY <1>1, <1>3, <2>1, <2>2, EndKnown
  <1> QED
    BY <1>2, <1>3 DEF DeleteSession, marks

LEMMA KnownStep == SessionInv /\ ThroughIsKnown /\ [Next]_vars => ThroughIsKnown'
  <1> SUFFICES ASSUME SessionInv, ThroughIsKnown, [Next]_vars PROVE ThroughIsKnown'
    OBVIOUS
  <1>1. ASSUME NEW r \in Requests, NEW i \in Inputs, Receive(r, i)
        PROVE  ThroughIsKnown'
    BY <1>1, ThroughStays DEF Receive, stores, marks, SessionInv, TypeOK
  <1>2. ASSUME NEW r \in Requests, Respond(r)
        PROVE  ThroughIsKnown'
    BY <1>2, ThroughStays DEF Respond, stores, marks, SessionInv, TypeOK
  <1>3. ASSUME NEW e \in Emails, Expire(e)
        PROVE  ThroughIsKnown'
    BY <1>3, EndKnown DEF Expire
  <1>4. ASSUME NEW d \in Devices, CookieExpires(d)
        PROVE  ThroughIsKnown'
    BY <1>4, ThroughStays DEF CookieExpires, stores, marks
  <1>5. CASE Restart
    BY <1>5, ThroughStays DEF Restart, stores, marks, SessionInv, TypeOK
  <1>6. CASE UNCHANGED vars
    BY <1>6, ThroughStays DEF vars, stores, marks
  <1> QED
    BY <1>1, <1>2, <1>3, <1>4, <1>5, <1>6, LoginKnown, SetKnown, MiddlewareKnown,
       UpdateKnown, DeleteKnown
    DEF Next, Handler, CallbackHandler, LogoutHandler, GetUserInfo, UpdateProfile

\* A session that was logged out, or has expired, comes back by a login only, or
\* by a profile update that it had let through before it went.
THEOREM SessionsReturn == Spec => SessionReturnsByLogin
  <1> DEFINE Returns == \A e \in Emails : cache[e] = None /\ cache'[e] # None =>
                          \E r \in Requests :
                              /\ pc[r] = "set" /\ pc'[r] # "set" /\ id[r] = e
                              /\ input[r].op = "login" \/ r \in stragglers[e]
  <1>1. Init => ThroughIsKnown
    BY DEF Init, ThroughIsKnown
  <1>2. SessionInv /\ ThroughIsKnown /\ [Next]_vars => [Returns]_vars
    <2> SUFFICES ASSUME SessionInv, ThroughIsKnown, [Next]_vars, NEW e \in Emails,
                        cache[e] = None, cache'[e] # None
                 PROVE  \E r \in Requests :
                            /\ pc[r] = "set" /\ pc'[r] # "set" /\ id[r] = e
                            /\ input[r].op = "login" \/ r \in stragglers[e]
      OBVIOUS
    <2>1. ASSUME NEW r \in Requests, SetSessionData(r)
          PROVE  \E q \in Requests :
                     /\ pc[q] = "set" /\ pc'[q] # "set" /\ id[q] = e
                     /\ input[q].op = "login" \/ q \in stragglers[e]
      <3>1. pc[r] = "set" /\ id[r] = e
        BY <2>1 DEF SetSessionData, At, SessionInv, TypeOK
      <3>2. pc'[r] # "set"
        BY <2>1 DEF SetSessionData, SessionIsSet, Fail, Answer, SessionInv, TypeOK
      <3> QED
        BY <3>1, <3>2 DEF ThroughIsKnown
    <2>2. ASSUME NEW a \in Emails \cup {None}, EndSession(a)
          PROVE  FALSE
      BY <2>2 DEF EndSession, SessionInv, TypeOK
    <2>3. cache' # cache
      OBVIOUS
    <2> QED
      BY <2>1, <2>2, <2>3
      DEF Next, Receive, Handler, CallbackHandler, LogoutHandler, GetUserInfo, UpdateProfile,
          CompleteUserAuth, GetUserByEmail, CreateUser, UpdateUser, DeleteSession,
          AuthMiddleware, Respond, Expire, CookieExpires, Restart, stores, vars,
          SessionInv, TypeOK
  <1> QED
    BY <1>1, <1>2, KnownStep, SessionCorrect, PTL DEF Spec, SessionReturnsByLogin

-----------------------------------------------------------------------------
(* The handlers implement AtomicAccounts.                                   *)

AccountsStep == Accounts!Next \/ UNCHANGED Accounts!vars

\* The browser of a request that works on a session owns the account.
LEMMA WorksOnItsOwn ==
  ASSUME NEW r \in Requests, SessionInv, pc[r] # "new", id[r] # None
  PROVE  Accounts!Owner(input[r].device, id[r])
  BY DEF SessionInv, SessionsAreVouched, Vouched, Accounts!Owner, Accounts!Proof

\* An authentication is one whoever fails afterwards.
LEMMA AuthenticatesOnce ==
  ASSUME NEW r \in Requests, SessionInv, CompleteUserAuth(r)
  PROVE  AccountsStep
  <1>1. CASE UNCHANGED vouched
    BY <1>1 DEF CompleteUserAuth, Fail, Answer, Go, stores, AccountsStep, Accounts!vars
  <1>2. CASE ~UNCHANGED vouched
    <2>1. Accounts!Authenticate(input[r].device, input[r].email, input[r].provider)
      BY <1>2 DEF CompleteUserAuth, Go, stores, Accounts!Authenticate, Accounts!Proof
    <2> QED
      BY <2>1, InputKnown DEF CompleteUserAuth, At, AccountsStep, Accounts!Next
  <1> QED
    BY <1>1, <1>2

\* The insert opens the account for somebody who was vouched for.
LEMMA InsertOpens ==
  ASSUME NEW r \in Requests, SessionInv, CreateUser(r)
  PROVE  AccountsStep
  <1> DEFINE i == input[r]
  <1>1. cache' = cache /\ cookie' = cookie /\ vouched' = vouched
    BY DEF CreateUser, ToSession, Fail, Answer, Go, marks
  <1>2. CASE UNCHANGED <<users, stored>>
    BY <1>1, <1>2 DEF AccountsStep, Accounts!vars
  <1>3. CASE ~UNCHANGED <<users, stored>>
    <2>1. pc[r] = "create" /\ users[i.email] = None /\ Store(i.email, user[r])
      BY <1>3 DEF CreateUser, At
    <2>2. user[r] = [provider |-> i.provider, name |-> i.name, new_user |-> TRUE]
      BY <2>1 DEF SessionInv, InHand, FirstProfile
    <2>3. Accounts!Proof(i.device, i.email, i.provider) \in vouched
      BY <2>1 DEF SessionInv, InHand, Accounts!Proof
    <2>4. Accounts!Open(i.device, i.email, i.provider, i.name)
      BY <1>1, <2>1, <2>2, <2>3 DEF Store, Accounts!Open, Accounts!Become
    <2> QED
      BY <2>1, <2>4, InputKnown DEF AccountsStep, Accounts!Next
  <1> QED
    BY <1>2, <1>3

\* The update edits the account of the session, for the session's own browser.
LEMMA UpdateEdits ==
  ASSUME NEW r \in Requests, SessionInv, UpdateUser(r)
  PROVE  AccountsStep
  <1> DEFINE e == id[r]
             d == input[r].device
             n == input[r].name
  <1>0. pc[r] = "update"
    BY DEF UpdateUser, At
  <1>1. cache' = cache /\ cookie' = cookie /\ vouched' = vouched
    BY DEF UpdateUser, ToSession, Fail, Answer, Go, marks
  <1>2. CASE UNCHANGED <<users, stored>>
    BY <1>1, <1>2 DEF AccountsStep, Accounts!vars
  <1>3. CASE ~UNCHANGED <<users, stored>>
    <2>1. Store(e, Edited(users[e], n))
      BY <1>3 DEF UpdateUser
    <2>2. e \in Emails /\ e # None
      BY <1>0, InHandKnown
    <2>3. Accounts!Owner(d, e)
      BY <1>0, <2>2, WorksOnItsOwn
    <2>4. Accounts!Edit(d, e, n)
      BY <1>1, <2>1, <2>3 DEF Store, Edited, Accounts!Edit, Accounts!Become
    <2> QED
      BY <1>0, <2>2, <2>4, InputKnown DEF AccountsStep, Accounts!Next
  <1> QED
    BY <1>2, <1>3

\* What is put into the cache is a version of the account, or nothing.
LEMMA CacheRemembers ==
  ASSUME NEW r \in Requests, SessionInv, SetSessionData(r) \/ DeleteSession(r)
  PROVE  AccountsStep
  <1> DEFINE e == id[r]
  <1>1. UNCHANGED <<users, stored, cookie, vouched>>
    BY DEF SetSessionData, DeleteSession, EndSession, SessionIsSet, Fail, Answer, marks
  <1>2. CASE UNCHANGED cache
    BY <1>1, <1>2 DEF AccountsStep, Accounts!vars
  <1>3. CASE SetSessionData(r) /\ ~UNCHANGED cache
    <2>1. cache' = [cache EXCEPT ![e] = user[r]] /\ pc[r] = "set"
      BY <1>3 DEF SetSessionData, At
    <2>2. e \in Emails /\ user[r] \in stored[e]
      BY <2>1, InHandKnown
    <2>3. Accounts!Remember(e, user[r])
      BY <1>1, <2>1, <2>2 DEF Accounts!Remember
    <2> QED
      BY <2>2, <2>3 DEF AccountsStep, Accounts!Next
  <1>4. CASE DeleteSession(r) /\ ~UNCHANGED cache
    <2>1. cache' = [cache EXCEPT ![e] = None] /\ e # None
      BY <1>4 DEF DeleteSession, EndSession
    <2>2. e \in Emails
      BY <2>1 DEF SessionInv, TypeOK
    <2>3. Accounts!Remember(e, None)
      BY <1>1, <2>1 DEF Accounts!Remember
    <2> QED
      BY <2>2, <2>3 DEF AccountsStep, Accounts!Next
  <1> QED
    BY <1>2, <1>3, <1>4

\* An answer gives its browser the session of an account it owns, or takes
\* back the one it has.
LEMMA AnswerGrants ==
  ASSUME NEW r \in Requests, SessionInv, Respond(r)
  PROVE  AccountsStep
  <1> DEFINE d == input[r].device
  <1>0. pc[r] # "new" /\ UNCHANGED <<users, stored, cache, vouched>>
    BY DEF Respond, At, stores, marks
  <1>1. d \in Devices /\ id[r] \in Emails \cup {None}
    BY <1>0, InputKnown DEF SessionInv, TypeOK
  <1>2. CASE cookie' = cookie
    BY <1>0, <1>2 DEF AccountsStep, Accounts!vars
  <1>3. CASE cookie' = [cookie EXCEPT ![d] = id[r]] /\ id[r] = None
    BY <1>0, <1>1, <1>3 DEF Accounts!TakeBack, AccountsStep, Accounts!Next
  <1>4. CASE cookie' = [cookie EXCEPT ![d] = id[r]] /\ id[r] # None
    <2>1. Accounts!Grant(d, id[r])
      BY <1>0, <1>4, WorksOnItsOwn DEF Accounts!Grant
    <2> QED
      BY <1>1, <1>4, <2>1 DEF AccountsStep, Accounts!Next
  <1> QED
    BY <1>2, <1>3, <1>4 DEF Respond

LEMMA AccountsInit == Init => Accounts!Init
  BY DEF Init, Accounts!Init

LEMMA AccountsSteps == SessionInv /\ [Next]_vars => [Accounts!Next]_(Accounts!vars)
  <1> SUFFICES ASSUME SessionInv, [Next]_vars PROVE AccountsStep
    BY DEF AccountsStep
  <1>1. ASSUME NEW r \in Requests, Handler(r)
        PROVE  AccountsStep
    <2>1. CASE CompleteUserAuth(r) \/ CreateUser(r) \/ SetSessionData(r)
                 \/ DeleteSession(r) \/ UpdateUser(r) \/ Respond(r)
      BY <2>1, AuthenticatesOnce, InsertOpens, CacheRemembers, UpdateEdits, AnswerGrants
    <2>2. CASE GetUserByEmail(r) \/ AuthMiddleware(r)
      BY <2>2 DEF GetUserByEmail, AuthMiddleware, ToSession, Fail, Answer, Go, stores,
         marks, AccountsStep, Accounts!vars
    <2> QED
      BY <1>1, <2>1, <2>2
      DEF Handler, CallbackHandler, LogoutHandler, GetUserInfo, UpdateProfile
  <1>2. ASSUME NEW e \in Emails, Expire(e)
        PROVE  AccountsStep
    <2>1. Accounts!Remember(e, None)
      BY <1>2 DEF Expire, EndSession, Accounts!Remember
    <2> QED
      BY <2>1 DEF AccountsStep, Accounts!Next
  <1>3. ASSUME NEW d \in Devices, CookieExpires(d)
        PROVE  AccountsStep
    BY <1>3 DEF CookieExpires, stores, marks, Accounts!TakeBack, AccountsStep,
       Accounts!Next
  <1>4. CASE Restart \/ UNCHANGED vars
    BY <1>4 DEF Restart, vars, stores, marks, AccountsStep, Accounts!vars
  <1>5. ASSUME NEW r \in Requests, NEW i \in Inputs, Receive(r, i)
        PROVE  AccountsStep
    BY <1>5 DEF Receive, stores, marks, AccountsStep, Accounts!vars
  <1> QED
    BY <1>1, <1>2, <1>3, <1>4, <1>5 DEF Next

\* Accounts are opened, edited and used by their owners only, and a session
\* never shows what the account has not been, whatever fails in between.
THEOREM SessionsAreAccounts == Spec => ImplementsAtomicAccounts
  BY AccountsInit, AccountsSteps, SessionCorrect, PTL
  DEF Spec, ImplementsAtomicAccounts, Accounts!Spec
=============================================================================
