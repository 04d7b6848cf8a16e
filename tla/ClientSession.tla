---------------------------- MODULE ClientSession ----------------------------
(***************************************************************************)
(* The browser's side of a session.  The tabs of one browser share the     *)
(* tokens in localStorage and the cookie; each keeps its own store, read   *)
(* from the persisted one when it loads, and its own queue of the requests *)
(* that met a 401 while a refresh was under way.                           *)
(*                                                                         *)
(* A pair of tokens is a number, given out in order; `issued' says whose   *)
(* it is.  Of the server only what it answers: AuthSessions models it.     *)
(***************************************************************************)
EXTENDS Integers, Sequences

CONSTANTS
  Tabs,
  Slots,      \* bound: requests of one tab under way at a time
  Users, Root,\* Root is the SuperAdmin, who may impersonate
  MaxTokens   \* bound: pairs given out

ASSUME ClientAssumption == Root \in Users /\ "none" \notin Users /\ MaxTokens \in Nat

NoToken == 0        \* the empty string, and null
NoStash == [user |-> "none", access |-> NoToken, refresh |-> NoToken]
SignedOut == [user |-> "none", access |-> NoToken, refresh |-> NoToken, stash |-> NoStash]
NoTokens  == [access |-> NoToken, refresh |-> NoToken]

\* `tok' is the access token it was sent with; a logout has the store's refresh token in
\* its body; `use' is the token a refresh sends and `got' what it gave.
Idle == [st |-> "idle", kind |-> "read", tok |-> NoToken, retry |-> FALSE,
         body |-> NoToken, use |-> NoToken, got |-> NoToken]

VARIABLES
  issued,         \* issued[n]: whose the n-th pair is, and the login it goes back to
  live,           \* the access tokens the server takes
  valid,          \* the refresh tokens the server has stored
  storage,        \* ys_access_token and ys_refresh_token
  cookie,         \* ys-auth: the user whose role the pages are gated by
  persisted,      \* the store as the last tab saved it
  store,          \* store[t]: the store of t
  req,            \* req[t][q]: the requests of t
  isRefreshing,   \* isRefreshing[t]
  leaving,        \* leaving[t]: the login page was asked for and is not there yet
  excused,        \* the browser was not told what became of its refresh token
  loggedOut       \* the logins whose logout the server carried out

vars == <<issued, live, valid, storage, cookie, persisted, store, req, isRefreshing, leaving,
          excused, loggedOut>>
server == <<issued, live, valid>>
ghosts == <<excused, loggedOut>>

Tokens   == DOMAIN issued
Stores   == {persisted} \cup {store[t] : t \in Tabs}
Owner(n) == issued[n].user

Init ==
  /\ issued = <<>> /\ live = {} /\ valid = {}
  /\ storage = NoTokens /\ cookie = "none" /\ persisted = SignedOut
  /\ store        = [t \in Tabs |-> SignedOut]
  /\ req          = [t \in Tabs |-> [q \in Slots |-> Idle]]
  /\ isRefreshing = [t \in Tabs |-> FALSE]
  /\ leaving      = [t \in Tabs |-> FALSE]
  /\ excused = FALSE /\ loggedOut = {}

-----------------------------------------------------------------------------
(* What the server gives out.                                               *)

NextToken == Len(issued) + 1

\* generateTokens, and generateImpersonationToken, which gives no refresh token.
Issue(user, login, refreshTokens) ==
  /\ NextToken <= MaxTokens
  /\ issued' = Append(issued, [user |-> user, login |-> login])
  /\ live'   = live \cup {NextToken}
  /\ valid'  = refreshTokens

\* A password change, a reset or a deactivation deletes the stored tokens of a user.
Revoke ==
  \E u \in Users :
    LET gone == {n \in valid : Owner(n) = u}
    IN  /\ gone # {}
        /\ valid' = valid \ gone /\ excused' = (excused \/ storage.refresh \in gone)
        /\ UNCHANGED <<issued, live, storage, cookie, persisted, store, req, isRefreshing, leaving, loggedOut>>

-----------------------------------------------------------------------------
(* The store.                                                               *)

\* set(): the tab's store and, by the persist middleware, the saved one.
Set(t, s) == store' = [store EXCEPT ![t] = s] /\ persisted' = s

\* A load of a page: the tab's store is the saved one, its requests are gone with their
\* answers.  A refresh among them may have spent its token, a logout deleted its own.
Loaded(t) ==
  /\ store'        = [store EXCEPT ![t] = persisted]
  /\ req'          = [req EXCEPT ![t] = [q \in Slots |-> Idle]]
  /\ isRefreshing' = [isRefreshing EXCEPT ![t] = FALSE]
  /\ leaving'      = [leaving EXCEPT ![t] = FALSE]
  /\ LET used(st) == {req[t][q].use : q \in {p \in Slots : req[t][p].st = st}}
         handed   == {req[t][q].body : q \in {p \in Slots : req[t][p].st = "sent"
                                                         /\ req[t][p].kind = "logout"}}
     IN  \E spent \in SUBSET (used("refreshing") \cup handed) :
           /\ valid'  = valid \ spent
           /\ excused' = (excused \/ storage.refresh \in spent)
  /\ UNCHANGED <<issued, live, storage, cookie, persisted, loggedOut>>

\* The user reloads the page.
Reload(t) == Loaded(t)

\* The login page that was asked for is there.
Unload(t) == leaving[t] /\ Loaded(t)

\* Another page of the same load: DashboardLayout's `me' is cancelled with the page.
Navigate(t) ==
  /\ \E q \in Slots : req[t][q].kind = "me"
  /\ req' = [req EXCEPT ![t] = [q \in Slots |->
               IF req[t][q].kind = "me" THEN [req[t][q] EXCEPT !.kind = "read"] ELSE req[t][q]]]
  /\ UNCHANGED <<server, storage, cookie, persisted, store, isRefreshing, leaving, ghosts>>

\* handleLogin of the login page, which only shows to a tab and a cookie signed out.
Login(t) ==
  \E u \in Users :
    /\ store[t].user = "none" /\ cookie = "none" /\ ~leaving[t]
    /\ \A q \in Slots : req[t][q].kind # "logout"
    /\ Issue(u, NextToken, valid \cup {NextToken})
    /\ storage' = [access |-> NextToken, refresh |-> NextToken] /\ excused' = FALSE
    /\ cookie'  = u
    /\ Set(t, [user |-> u, access |-> NextToken, refresh |-> NextToken, stash |-> NoStash])
    /\ UNCHANGED <<req, isRefreshing, leaving, loggedOut>>

-----------------------------------------------------------------------------
(* Requests.                                                                *)

\* A page's query, the identity's re-sync (not while impersonating), or the logout.
Send(t, q) ==
  \E kind \in {"read", "me", "logout"} :
    LET s == store[t]
    IN  /\ req[t][q].st = "idle" /\ s.user # "none"
        /\ kind = "me" => s.stash = NoStash
        /\ kind = "logout" => s.refresh # NoToken
        /\ kind # "read" => \A p \in Slots : req[t][p].kind # kind
        /\ req' = [req EXCEPT ![t][q] =
             [Idle EXCEPT !.st = "sent", !.kind = kind, !.tok = storage.access,
                          !.body = IF kind = "logout" THEN s.refresh ELSE NoToken]]
        /\ UNCHANGED <<server, storage, cookie, persisted, store, isRefreshing, leaving, ghosts>>

\* Mutant: the cookie stays.
ClearStore(t) == storage' = NoTokens /\ cookie' = cookie /\ excused' = FALSE /\ Set(t, SignedOut)

\* clearTokens and clearAuth.
Clear(t) == storage' = NoTokens /\ cookie' = "none" /\ excused' = FALSE /\ Set(t, SignedOut)

\* handleLogout with no refresh token in the store does not ask the server.
LogoutUnasked(t) ==
  /\ store[t].user # "none" /\ store[t].refresh = NoToken
  /\ Clear(t)
  /\ UNCHANGED <<server, req, isRefreshing, leaving, loggedOut>>

\* Mutant: the logout leaves the stored token.
RevokedNothing(t, q) == valid

\* logout deletes the token it was handed.
Revoked(t, q) == valid \ {req[t][q].body}

\* The logout of q is over for the page, carried out by the server or not: its handler
\* answers 200 when the delete fails, too.
LoggedOut(t, q) ==
  /\ \/ /\ valid' = Revoked(t, q)
        /\ loggedOut' = loggedOut \cup {issued[req[t][q].body].login}
     \/ UNCHANGED <<valid, loggedOut>>

\* The server takes the access token, and the page takes the answer: updateUser merges
\* what `me' says into the user there is, if there is one.
Served(t, q) ==
  LET r == req[t][q]
      s == store[t]
  IN  /\ r.st = "sent" /\ r.tok \in live
      /\ req' = [req EXCEPT ![t][q] = Idle]
      /\ \/ r.kind = "read" /\ UNCHANGED <<valid, storage, cookie, persisted, store, ghosts>>
         \/ /\ r.kind = "me"
            /\ Set(t, IF s.user = "none" THEN s ELSE [s EXCEPT !.user = Owner(r.tok)])
            /\ cookie' = IF s.user = "none" THEN cookie ELSE Owner(r.tok)
            /\ UNCHANGED <<valid, storage, ghosts>>
         \/ r.kind = "logout" /\ Clear(t) /\ LoggedOut(t, q)
      /\ UNCHANGED <<issued, live, isRefreshing, leaving>>

\* A second 401, any other error, no network, or the 15 s of the api instance are over:
\* the request fails, whatever the server made of it.  The logout clears all the same.
Failed(t, q) ==
  LET r == req[t][q]
  IN  /\ r.st = "sent"
      /\ req' = [req EXCEPT ![t][q] = Idle]
      /\ \/ r.kind # "logout" /\ UNCHANGED <<valid, storage, cookie, persisted, store, ghosts>>
         \/ r.kind = "logout" /\ Clear(t) /\ LoggedOut(t, q)
      /\ UNCHANGED <<issued, live, isRefreshing, leaving>>

\* The requests of ended fail before the server was asked again, the logout among them too.
GivenUp(t, ended) ==
  /\ req' = [req EXCEPT ![t] = [q \in Slots |-> IF q \in ended THEN Idle ELSE req[t][q]]]
  /\ UNCHANGED loggedOut

\* clearAuth and window.location.href: the page goes on until the login page is there.
Kick(t) == Clear(t) /\ leaving' = [leaving EXCEPT ![t] = TRUE]

\* Mutant: a 401 does not look whether a refresh is under way.
UnauthorizedAlone(t, q) ==
  LET r == req[t][q]
  IN  /\ r.st = "sent" /\ ~r.retry /\ live' = live \ {r.tok}
      /\ isRefreshing' = [isRefreshing EXCEPT ![t] = TRUE]
      /\ \/ /\ storage.refresh # NoToken
            /\ req' = [req EXCEPT ![t][q] = [@ EXCEPT !.st = "refreshing", !.retry = TRUE,
                                                         !.use = storage.refresh]]
            /\ UNCHANGED <<issued, valid, storage, cookie, persisted, store, leaving, ghosts>>
         \/ storage.refresh = NoToken /\ GivenUp(t, {q}) /\ Kick(t) /\ UNCHANGED <<issued, valid>>

\* A first 401, the access token's time being up: it queues behind the refresh under way,
\* starts one, or has no token to, in which case isRefreshing stays set.
Unauthorized(t, q) ==
  LET r == req[t][q]
  IN  /\ r.st = "sent" /\ ~r.retry /\ live' = live \ {r.tok}
      /\ isRefreshing' = [isRefreshing EXCEPT ![t] = TRUE]
      /\ \/ /\ isRefreshing[t]
            /\ req' = [req EXCEPT ![t][q].st = "queued"]
            /\ UNCHANGED <<issued, valid, storage, cookie, persisted, store, leaving, ghosts>>
         \/ /\ ~isRefreshing[t] /\ storage.refresh # NoToken
            /\ req' = [req EXCEPT ![t][q] = [@ EXCEPT !.st = "refreshing", !.retry = TRUE,
                                                         !.use = storage.refresh]]
            /\ UNCHANGED <<issued, valid, storage, cookie, persisted, store, leaving, ghosts>>
         \/ /\ ~isRefreshing[t] /\ storage.refresh = NoToken
            /\ GivenUp(t, {q}) /\ Kick(t) /\ UNCHANGED <<issued, valid>>

\* axios.post, which has no timeout: the token is rotated and the pair on its way; or the
\* call ends with an error, or never ends, the old token spent or not.
Refresh(t, q) ==
  LET use == req[t][q].use
  IN  /\ req[t][q].st = "refreshing"
      /\ \/ /\ use \in valid
            /\ Issue(Owner(use), issued[use].login, (valid \ {use}) \cup {NextToken})
            /\ req' = [req EXCEPT ![t][q] = [@ EXCEPT !.st = "refreshed", !.got = NextToken]]
         \/ /\ valid' \in {valid, valid \ {use}}
            /\ \E end \in {"refused", "lost"} : req' = [req EXCEPT ![t][q].st = end]
            /\ UNCHANGED <<issued, live>>
      /\ excused' = (excused \/ storage.refresh = use)
      /\ UNCHANGED <<storage, cookie, persisted, store, isRefreshing, leaving, loggedOut>>

\* The request is sent again, with the pair the refresh got.
Again(t, p, got) == [req[t][p] EXCEPT !.st = "sent", !.tok = got, !.use = NoToken, !.got = NoToken]

\* Mutant: the queue waits for the flush of a refresh that has ended.
RefreshDoneUnflushed(t, q) ==
  LET got == req[t][q].got
  IN  /\ req[t][q].st = "refreshed"
      /\ storage' = [access |-> got, refresh |-> got]
      /\ req' = [req EXCEPT ![t][q] = Again(t, q, got)]
      /\ isRefreshing' = [isRefreshing EXCEPT ![t] = FALSE]
      /\ UNCHANGED <<server, cookie, persisted, store, leaving, ghosts>>

\* setTokens, flush(null, accessToken) and the request again.  The store keeps its tokens.
RefreshDone(t, q) ==
  LET got == req[t][q].got
  IN  /\ req[t][q].st = "refreshed"
      /\ storage' = [access |-> got, refresh |-> got]
      /\ req' = [req EXCEPT ![t] = [p \in Slots |->
           IF p = q \/ req[t][p].st = "queued" THEN Again(t, p, got) ELSE req[t][p]]]
      /\ isRefreshing' = [isRefreshing EXCEPT ![t] = FALSE]
      /\ excused' = (got \notin valid)
      /\ UNCHANGED <<server, cookie, persisted, store, leaving, loggedOut>>

\* flush(e): those that queued fail with it.
RefreshFailed(t, q) ==
  /\ req[t][q].st = "refused"
  /\ GivenUp(t, {q} \cup {p \in Slots : req[t][p].st = "queued"})
  /\ Kick(t) /\ UNCHANGED server
  /\ isRefreshing' = [isRefreshing EXCEPT ![t] = FALSE]

-----------------------------------------------------------------------------
(* Impersonation.                                                           *)

\* Mutant: the tokens stay those of the SuperAdmin.
ImpersonateInStore(t, u) ==
  LET s == store[t]
  IN  /\ cookie = Root /\ storage.access \in live /\ Owner(storage.access) = Root
      /\ Issue(u, NextToken, valid)
      /\ cookie' = u
      /\ Set(t, [s EXCEPT !.user = u])
      /\ UNCHANGED <<storage, req, isRefreshing, leaving, ghosts>>

\* impersonateShowroom and startImpersonation: an access token of an owner, no refresh
\* token; the session there was is kept aside unless one is already.
Impersonate(t, u) ==
  LET s == store[t]
      own == [user |-> s.user, access |-> s.access, refresh |-> s.refresh]
  IN  /\ cookie = Root /\ storage.access \in live /\ Owner(storage.access) = Root
      /\ u # Root /\ Issue(u, NextToken, valid)
      /\ storage' = [access |-> NextToken, refresh |-> NoToken] /\ excused' = FALSE
      /\ cookie'  = u
      /\ Set(t, [user |-> u, access |-> NextToken, refresh |-> NoToken,
                 stash |-> IF s.stash # NoStash THEN s.stash
                           ELSE IF s.user # "none" /\ s.access # NoToken /\ s.refresh # NoToken
                                THEN own ELSE NoStash])
      /\ UNCHANGED <<req, isRefreshing, leaving, loggedOut>>

\* The session kept aside is back as it was, tokens spent since included.
ExitImpersonation(t) ==
  LET own == store[t].stash
  IN  /\ own # NoStash
      /\ storage' = [access |-> own.access, refresh |-> own.refresh]
      /\ cookie'  = own.user
      /\ Set(t, [user |-> own.user, access |-> own.access, refresh |-> own.refresh, stash |-> NoStash])
      /\ excused' = TRUE
      /\ UNCHANGED <<server, req, isRefreshing, leaving, loggedOut>>

-----------------------------------------------------------------------------
Answer(t, q) == Served(t, q) \/ Failed(t, q) \/ Unauthorized(t, q)

Next ==
  \/ Revoke
  \/ \E t \in Tabs : \/ Reload(t) \/ Unload(t) \/ Navigate(t) \/ Login(t) \/ LogoutUnasked(t)
                     \/ \E u \in Users : Impersonate(t, u)
                     \/ ExitImpersonation(t)
                     \/ \E q \in Slots : \/ Send(t, q) \/ Answer(t, q) \/ Refresh(t, q)
                                         \/ RefreshDone(t, q) \/ RefreshFailed(t, q)

Spec == Init /\ [][Next]_vars

\* The server or the 15 s of the api instance's timeout answer every request, the browser
\* runs what waits for an answer, and loads a page it was asked for.  A refresh has no such
\* timeout: it is answered, fails, or is lost for good.
Fairness ==
  \A t \in Tabs :
    /\ WF_vars(Unload(t))
    /\ \A q \in Slots :
         WF_vars(Answer(t, q) \/ Refresh(t, q) \/ RefreshDone(t, q) \/ RefreshFailed(t, q))

FairSpec == Spec /\ Fairness

-----------------------------------------------------------------------------
Given   == 0..Len(issued)
Session == [user : Users \cup {"none"}, access : Given, refresh : Given]
Store   == [user : Users \cup {"none"}, access : Given, refresh : Given, stash : Session]
Request == [st : {"idle", "sent", "queued", "refreshing", "refreshed", "refused", "lost"},
            kind : {"read", "me", "logout"}, tok : Given, retry : BOOLEAN,
            body : Given, use : Given, got : Given]

\* The state stays in its domain; what is stored, sent and taken was given out.
TypeOK ==
  /\ issued \in Seq([user : Users, login : Nat]) /\ Len(issued) <= MaxTokens
  /\ live \cup valid \subseteq Tokens
  /\ loggedOut \subseteq Given /\ excused \in BOOLEAN
  /\ storage \in [access : Given, refresh : Given]
  /\ cookie \in Users \cup {"none"}
  /\ persisted \in Store /\ store \in [Tabs -> Store]
  /\ req \in [Tabs -> [Slots -> Request]]
  /\ isRefreshing \in [Tabs -> BOOLEAN] /\ leaving \in [Tabs -> BOOLEAN]

\* Each refresh token is sent once: the queue never makes two requests spend the same one,
\* and a token is sent in vain only if the browser could not know: it was deleted at the
\* server, or spent by a refresh whose answer a reload or an impersonation kept from the
\* browser, or that another tab has not had yet.
SentInVain(t, q) ==
  /\ req[t][q].st # "refreshing" /\ req'[t][q].st = "refreshing"
  /\ \/ req'[t][q].use \notin valid
     \/ \E p \in Slots \ {q} : req[t][p].st = "refreshing" /\ req[t][p].use = req'[t][q].use

RefreshSentOnce ==
  [][\A t \in Tabs : \A q \in Slots : SentInVain(t, q) =>
       /\ excused
       /\ \A p \in Slots : req[t][p].st # "refreshing"]_vars

\* Whoever waits for a refresh is answered, refused, or gone with the page: no request stays
\* in the queue of a refresh that is over.  A refresh that is never answered keeps its queue.
EveryRequestEnds ==
  \A t \in Tabs : \A q \in Slots :
    (req[t][q].st # "idle") ~> (req[t][q].st = "idle" \/ \E p \in Slots : req[t][p].st = "lost")

\* In a browser with one tab the cookie the pages are gated by and the user the layout
\* shows are the same one, through logins, kicks, re-syncs and impersonations.
GateAgreesWithStore ==
  \A t \in Tabs : Tabs = {t} => store[t] = persisted /\ cookie = store[t].user

\* In a browser with one tab the user shown and the tokens in use, or those of the session
\* kept aside, part only when an answer asked for before a logout or a change of identity
\* comes after it.  A session that has parted can be kept aside as it is, and be back later.
Parted(t) ==
  LET s == store[t]
  IN  \/ s.user # "none" /\ \E n \in {storage.access, s.access} \ {NoToken} : Owner(n) # s.user
      \/ s.stash.access # NoToken /\ Owner(s.stash.access) # s.stash.user
Late(t) ==
  \E q \in Slots : \/ req[t][q].st = "refreshed" /\ Owner(req[t][q].got) # store[t].user
                   \/ req[t][q].kind = "me" /\ Owner(req[t][q].tok) # store[t].user
PartedByLateAnswer ==
  [][\A t \in Tabs : Tabs = {t} /\ Parted(t)' /\ ~Parted(t) => Late(t)]_vars

\* docs/YS_MATRIX_DISCOVERY_REPORT.md:29: a logout revokes the refresh token; one that the
\* server carried out, that is.
LogoutRevokes == \A n \in valid : issued[n].login \notin loggedOut

\* What a logout that the server carried out leaves valid is a token a refresh had put in
\* place of the store's.
LogoutLeavesRefreshed ==
  \A n \in valid : issued[n].login \in loggedOut => n # issued[n].login

-----------------------------------------------------------------------------
(* The inductive invariant.                                                 *)

\* One request of a tab refreshes at a time, and isRefreshing stands for it, or for a kick
\* that found no token.
Refreshing(t, q) == req[t][q].st \in {"refreshing", "refreshed", "refused", "lost"}

QueueInv ==
  \A t \in Tabs :
    /\ \A p, q \in Slots : Refreshing(t, p) /\ Refreshing(t, q) => p = q
    /\ \A q \in Slots : Refreshing(t, q) => isRefreshing[t]
    /\ isRefreshing[t] => leaving[t] \/ \E q \in Slots : Refreshing(t, q)

\* The one token the browser would send is stored at the server, or the client is excused.
UsableInv == excused \/ storage.refresh \in valid \cup {NoToken}

\* The refresh token of a store is the one its login gave; a token of a later refresh is not.
FirstPairs == {NoToken} \cup {n \in Tokens : issued[n].login = n}

LogoutInv ==
  /\ \A n \in Tokens : issued[n].login \in Tokens
  /\ loggedOut \subseteq Tokens
  /\ \A s \in Stores : s.refresh \in FirstPairs /\ s.stash.refresh \in FirstPairs
  /\ \A t \in Tabs : \A q \in Slots :
       /\ req[t][q].body \in FirstPairs
       /\ req[t][q].kind = "logout" => req[t][q].body # NoToken
  /\ LogoutLeavesRefreshed

IInv == TypeOK /\ QueueInv /\ UsableInv /\ LogoutInv /\ GateAgreesWithStore
=============================================================================
