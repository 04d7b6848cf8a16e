----------------------------- MODULE BrowserProofs -----------------------------
(***************************************************************************)
(* Theorems about the browser.                                             *)
(*                                                                         *)
(* ClientSession, for any number of tabs, requests, users and pairs of     *)
(* tokens: isRefreshing stands for the one request of a tab that           *)
(* refreshes; the refresh token the browser would send is stored at the    *)
(* server unless the browser cannot know what became of it; the token a    *)
(* store holds is the one its login gave, whatever came later; and of a    *)
(* single tab the store, the saved store and the cookie move as one.       *)
(*                                                                         *)
(* Workbench, for any rows the user comes to, any role and any number of   *)
(* writes: the tables say that a page's own writes mark what it shows and  *)
(* that its offers fit what the server asks; the invariant PagesInv says   *)
(* why a key is behind, that its rows are those of an open business, and   *)
(* what a write under way was offered on.                                  *)
(***************************************************************************)
EXTENDS ClientSession, Workbench, TLAPS

LEMMA IssueGives ==
  ASSUME TypeOK, NEW user \in Users, NEW login \in Nat, NEW refreshTokens,
         Issue(user, login, refreshTokens)
  PROVE  /\ issued' \in Seq([user : Users, login : Nat]) /\ Len(issued') <= MaxTokens
         /\ NextToken \in Nat \ {0} /\ NextToken \notin Tokens
         /\ Tokens' = Tokens \cup {NextToken} /\ Given' = Given \cup {NextToken}
         /\ issued'[NextToken].user = user /\ issued'[NextToken].login = login
         /\ \A n \in Tokens : issued'[n] = issued[n]
         /\ live' = live \cup {NextToken} /\ valid' = refreshTokens
  <1> DEFINE e == [user |-> user, login |-> login]
             S == [user : Users, login : Nat]
  <1>1. e \in S /\ issued \in Seq(S) /\ e.user = user /\ e.login = login
    BY DEF TypeOK
  <1>2. issued' = Append(issued, e) /\ Len(issued) + 1 <= MaxTokens
    BY DEF Issue, NextToken
  <1> HIDE DEF e, S
  <1>3. /\ Len(issued) \in Nat /\ issued' \in Seq(S) /\ Len(issued') = Len(issued) + 1
        /\ issued'[Len(issued) + 1] = e /\ \A n \in 1..Len(issued) : issued'[n] = issued[n]
        /\ DOMAIN issued = 1..Len(issued) /\ DOMAIN issued' = 1..Len(issued')
    BY <1>1, <1>2
  <1>4. issued' \in Seq([user : Users, login : Nat])
    BY <1>3 DEF S
  <1>5. QED
    BY <1>1, <1>2, <1>3, <1>4 DEF Issue, NextToken, Tokens, Given

LEMMA GivenTokens ==
  ASSUME TypeOK
  PROVE  Given = {NoToken} \cup Tokens /\ NoToken \notin Tokens /\ NoToken \in Given /\ Tokens \subseteq Nat
  BY DEF TypeOK, Given, Tokens, NoToken

LEMMA OwnerTyped == ASSUME TypeOK, NEW n \in Tokens PROVE Owner(n) \in Users
  <1> DEFINE S == [user : Users, login : Nat]
  <1>1. issued \in Seq(S) /\ n \in DOMAIN issued
    BY DEF TypeOK, Tokens
  <1> HIDE DEF S
  <1>2. issued[n] \in S
    BY <1>1
  <1>3. QED
    BY <1>2 DEF Owner, S

LEMMA IdleTyped ==
  ASSUME TypeOK
  PROVE  Idle \in Request /\ Idle.st = "idle" /\ Idle.kind = "read" /\ Idle.body = NoToken
  BY GivenTokens DEF Idle, Request

LEMMA OutTyped ==
  ASSUME TypeOK
  PROVE  /\ SignedOut \in Store /\ SignedOut.user = "none" /\ SignedOut.refresh = NoToken
         /\ SignedOut.access = NoToken /\ SignedOut.stash = NoStash
         /\ NoStash \in Session /\ NoStash.refresh = NoToken /\ NoStash.access = NoToken
         /\ NoTokens \in [access : Given, refresh : Given]
         /\ NoTokens.refresh = NoToken /\ NoTokens.access = NoToken
  BY GivenTokens DEF SignedOut, NoStash, Store, Session, NoTokens

\* More tokens are given out, and the types grow with them.
LEMMA Grows ==
  ASSUME Given \subseteq Given'
  PROVE  /\ Session \subseteq Session' /\ Store \subseteq Store' /\ Request \subseteq Request'
         /\ [access : Given, refresh : Given] \subseteq [access : Given, refresh : Given]'
  <1>1. Session \subseteq Session'
    BY DEF Session
  <1>2. QED
    BY <1>1 DEF Session, Store, Request

LEMMA InitIInv == ASSUME MaxTokens \in Nat, Init PROVE IInv
  <1>1. issued = <<>> /\ Len(issued) = 0 /\ Tokens = {} /\ Given = {0}
    BY DEF Init, Tokens, Given
  <1>2. SignedOut \in Store /\ NoTokens \in [access : Given, refresh : Given] /\ Idle \in Request
    BY <1>1 DEF SignedOut, NoTokens, Idle, Store, Session, NoStash, Request, NoToken
  <1>3. TypeOK
    <2>1. /\ isRefreshing \in [Tabs -> BOOLEAN] /\ leaving \in [Tabs -> BOOLEAN]
          /\ req \in [Tabs -> [Slots -> Request]] /\ store \in [Tabs -> Store]
      BY <1>2 DEF Init
    <2>2. issued \in Seq([user : Users, login : Nat]) /\ Len(issued) <= MaxTokens
      BY <1>1
    <2>3. /\ live \cup valid \subseteq Tokens /\ loggedOut \subseteq Given /\ excused \in BOOLEAN
          /\ storage \in [access : Given, refresh : Given] /\ cookie \in Users \cup {"none"}
          /\ persisted \in Store
      BY <1>2 DEF Init
    <2>4. QED
      BY <2>1, <2>2, <2>3 DEF TypeOK
  <1>4. QueueInv
    <2>1. \A t \in Tabs : \A q \in Slots : ~Refreshing(t, q)
      BY DEF Init, Refreshing, Idle
    <2>2. \A t \in Tabs : isRefreshing[t] = FALSE
      BY Zenon DEF Init
    <2>3. QED
      BY <2>1, <2>2, Zenon DEF QueueInv
  <1>5. UsableInv
    BY OutTyped, <1>3 DEF Init, UsableInv
  <1>6. LogoutInv
    BY <1>1, OutTyped, IdleTyped, <1>3 DEF Init, LogoutInv, Stores, FirstPairs, LogoutLeavesRefreshed
  <1>7. GateAgreesWithStore
    BY OutTyped, <1>3 DEF Init, GateAgreesWithStore
  <1>8. QED
    BY <1>3, <1>4, <1>5, <1>6, <1>7 DEF IInv

-----------------------------------------------------------------------------
(* What the parts of a step do to the invariant.                            *)

\* One request of one tab becomes r.
LEMMA OneRequest ==
  ASSUME TypeOK, NEW t \in Tabs, NEW q \in Slots, NEW r, req' = [req EXCEPT ![t][q] = r]
  PROVE  /\ req'[t][q] = r
         /\ \A u \in Tabs, p \in Slots : (u # t \/ p # q) => req'[u][p] = req[u][p]
         /\ r \in Request' /\ Request \subseteq Request' => req' \in [Tabs -> [Slots -> Request']]
  BY DEF TypeOK

\* A tab's store, and the saved one with it.
LEMMA OneStore ==
  ASSUME IInv, NEW t \in Tabs, store' = [store EXCEPT ![t] = persisted'], persisted' \in Store',
         Store \subseteq Store'
  PROVE  /\ store' \in [Tabs -> Store'] /\ Stores' \subseteq Stores \cup {persisted'}
         /\ cookie' = persisted'.user => GateAgreesWithStore'
         /\ persisted'.user \in Users \cup {"none"}
  <1>1. store' \in [Tabs -> Store'] /\ store'[t] = persisted' /\ \A u \in Tabs \ {t} : store'[u] = store[u]
    BY DEF IInv, TypeOK
  <1>2. Stores' \subseteq Stores \cup {persisted'}
    BY <1>1 DEF Stores
  <1>3. cookie' = persisted'.user => GateAgreesWithStore'
    BY <1>1 DEF GateAgreesWithStore
  <1>4. persisted'.user \in Users \cup {"none"}
    BY DEF Store
  <1>5. QED
    BY <1>1, <1>2, <1>3, <1>4

LEMMA QueueKept ==
  ASSUME IInv,
         \A t \in Tabs :
           \/ /\ isRefreshing'[t] = isRefreshing[t] /\ leaving'[t] = leaving[t]
              /\ \A q \in Slots : Refreshing(t, q)' = Refreshing(t, q)
           \/ (isRefreshing'[t] => leaving'[t]) /\ \A q \in Slots : ~Refreshing(t, q)'
           \/ isRefreshing'[t] /\ \E p \in Slots : \A q \in Slots : Refreshing(t, q)' <=> p = q
  PROVE  QueueInv'
  <1> SUFFICES ASSUME NEW t \in Tabs
               PROVE  /\ \A p, q \in Slots : Refreshing(t, p)' /\ Refreshing(t, q)' => p = q
                      /\ \A q \in Slots : Refreshing(t, q)' => isRefreshing'[t]
                      /\ isRefreshing'[t] => leaving'[t] \/ \E q \in Slots : Refreshing(t, q)'
    BY DEF QueueInv
  <1>1. CASE /\ isRefreshing'[t] = isRefreshing[t] /\ leaving'[t] = leaving[t]
             /\ \A q \in Slots : Refreshing(t, q)' = Refreshing(t, q)
    BY <1>1 DEF IInv, QueueInv
  <1>2. CASE (isRefreshing'[t] => leaving'[t]) /\ \A q \in Slots : ~Refreshing(t, q)'
    BY <1>2
  <1>3. CASE isRefreshing'[t] /\ \E p \in Slots : \A q \in Slots : Refreshing(t, q)' <=> p = q
    BY <1>3
  <1>4. QED
    BY <1>1, <1>2, <1>3

LEMMA LogoutKept ==
  ASSUME IInv, FirstPairs \subseteq FirstPairs',
         \A n \in Tokens' : issued'[n].login \in Tokens', loggedOut' \subseteq Tokens',
         \A s \in Stores' : s \in Stores \/ (s.refresh \in FirstPairs' /\ s.stash.refresh \in FirstPairs'),
         \A t \in Tabs, q \in Slots :
           \/ req'[t][q].body = req[t][q].body /\ req'[t][q].kind \in {req[t][q].kind, "read", "me"}
           \/ req'[t][q].body \in FirstPairs' /\ (req'[t][q].kind = "logout" => req'[t][q].body # NoToken),
         \A n \in valid' : issued'[n].login \in loggedOut' => n # issued'[n].login
  PROVE  LogoutInv'
  <1>1. \A s \in Stores' : s.refresh \in FirstPairs' /\ s.stash.refresh \in FirstPairs'
    BY DEF IInv, LogoutInv
  <1>2. \A t \in Tabs : \A q \in Slots :
          /\ req'[t][q].body \in FirstPairs'
          /\ req'[t][q].kind = "logout" => req'[t][q].body # NoToken
    BY DEF IInv, LogoutInv
  <1>3. LogoutLeavesRefreshed'
    BY DEF LogoutLeavesRefreshed
  <1>4. QED
    BY <1>1, <1>2, <1>3 DEF LogoutInv

\* Nothing is given out.
LEMMA IssuedFrame ==
  ASSUME IInv, UNCHANGED issued
  PROVE  /\ Tokens' = Tokens /\ Given' = Given /\ Session' = Session /\ Store' = Store
         /\ Request' = Request /\ FirstPairs' = FirstPairs
         /\ [access : Given, refresh : Given]' = [access : Given, refresh : Given]
         /\ \A n \in Tokens' : issued'[n].login \in Tokens'
         /\ loggedOut' = loggedOut => loggedOut' \subseteq Tokens'
         /\ valid' \subseteq valid /\ UNCHANGED loggedOut =>
              \A n \in valid' : issued'[n].login \in loggedOut' => n # issued'[n].login
  <1>1. Tokens' = Tokens /\ Given' = Given
    BY DEF Tokens, Given
  <1>2. Session' = Session /\ Request' = Request
    BY <1>1 DEF Session, Request
  <1>3. Store' = Store
    BY <1>1, <1>2 DEF Store
  <1>4. FirstPairs' = FirstPairs
    BY <1>1 DEF FirstPairs
  <1>5. \A n \in Tokens' : issued'[n].login \in Tokens'
    BY <1>1 DEF IInv, LogoutInv
  <1>6. QED
    BY <1>1, <1>2, <1>3, <1>4, <1>5 DEF IInv, LogoutInv, LogoutLeavesRefreshed

-----------------------------------------------------------------------------
(* The steps.                                                               *)

LEMMA RevokeKeeps == ASSUME IInv, Revoke PROVE IInv'
  <1>1. /\ UNCHANGED <<issued, live, storage, cookie, persisted, store, req, isRefreshing, leaving, loggedOut>>
        /\ valid' \subseteq valid
    BY DEF Revoke
  <1>2. /\ excused' \in BOOLEAN
        /\ storage.refresh \in valid => excused' \/ storage.refresh \in valid'
        /\ excused => excused'
    BY DEF Revoke, IInv, TypeOK
  <1>3. TypeOK'
    BY <1>1, <1>2, IssuedFrame, GivenTokens DEF IInv, TypeOK
  <1>4. QueueInv'
    BY <1>1, QueueKept DEF Refreshing
  <1>5. UsableInv'
    BY <1>1, <1>2 DEF IInv, UsableInv
  <1>6. LogoutInv'
    <2>1. Stores' = Stores
      BY <1>1 DEF Stores
    <2>2. QED
      BY <1>1, <2>1, IssuedFrame, LogoutKept
  <1>7. GateAgreesWithStore'
    BY <1>1 DEF IInv, GateAgreesWithStore
  <1>8. QED
    BY <1>3, <1>4, <1>5, <1>6, <1>7 DEF IInv

\* A load of the page drops its requests, and what they have spent is excused.
LEMMA LoadedKeeps == ASSUME IInv, NEW t \in Tabs, Loaded(t) PROVE IInv'
  <1> DEFINE used(st) == {req[t][q].use : q \in {p \in Slots : req[t][p].st = st}}
             handed == {req[t][q].body : q \in {p \in Slots : req[t][p].st = "sent"
                                                           /\ req[t][p].kind = "logout"}}
  <1>1. /\ store' = [store EXCEPT ![t] = persisted']
        /\ req' = [req EXCEPT ![t] = [q \in Slots |-> Idle]]
        /\ isRefreshing' = [isRefreshing EXCEPT ![t] = FALSE]
        /\ leaving' = [leaving EXCEPT ![t] = FALSE]
        /\ UNCHANGED <<issued, live, storage, cookie, persisted, loggedOut>>
    BY DEF Loaded
  <1>2. PICK spent \in SUBSET (used("refreshing") \cup handed) :
          valid' = valid \ spent /\ excused' = (excused \/ storage.refresh \in spent)
    BY DEF Loaded
  <1> HIDE DEF used, handed
  <1>4. valid' \subseteq valid /\ excused' \in BOOLEAN
    BY <1>2 DEF IInv, TypeOK
  <1>5. persisted' \in Store' /\ Store \subseteq Store'
    BY <1>1, IssuedFrame DEF IInv, TypeOK
  <1>6. store' \in [Tabs -> Store'] /\ Stores' \subseteq Stores \cup {persisted'}
    BY <1>1, <1>5, OneStore
  <1>7. /\ req' \in [Tabs -> [Slots -> Request']]
        /\ isRefreshing' \in [Tabs -> BOOLEAN] /\ leaving' \in [Tabs -> BOOLEAN]
        /\ ~isRefreshing'[t] /\ \A q \in Slots : req'[t][q] = Idle
        /\ \A u \in Tabs \ {t} : /\ req'[u] = req[u] /\ isRefreshing'[u] = isRefreshing[u]
                                 /\ leaving'[u] = leaving[u]
    BY <1>1, IdleTyped, IssuedFrame DEF IInv, TypeOK
  <1>8. TypeOK'
    BY <1>1, <1>4, <1>5, <1>6, <1>7, IssuedFrame DEF IInv, TypeOK
  <1>9. QueueInv'
    BY <1>7, IdleTyped, QueueKept DEF Refreshing, IInv
  <1>10. Stores' \subseteq Stores
    BY <1>1, <1>6 DEF Stores
  <1>11. UsableInv'
    BY <1>1, <1>2 DEF IInv, UsableInv
  <1>12. LogoutInv'
    <2>1. \A u \in Tabs, q \in Slots :
            \/ req'[u][q] = req[u][q]
            \/ req'[u][q].body \in FirstPairs' /\ req'[u][q].kind = "read"
      BY <1>7, IdleTyped DEF IInv, FirstPairs
    <2>2. QED
      BY <1>1, <1>4, <1>10, <2>1, IssuedFrame, LogoutKept
  <1>13. GateAgreesWithStore'
    BY <1>1, <1>6, OneStore, <1>5 DEF IInv, TypeOK, GateAgreesWithStore
  <1>14. QED
    BY <1>8, <1>9, <1>11, <1>12, <1>13 DEF IInv

LEMMA NavigateKeeps == ASSUME IInv, NEW t \in Tabs, Navigate(t) PROVE IInv'
  <1>1. /\ UNCHANGED <<issued, live, valid, storage, cookie, persisted, store, isRefreshing, leaving, excused, loggedOut>>
        /\ req' = [req EXCEPT ![t] = [q \in Slots |->
             IF req[t][q].kind = "me" THEN [req[t][q] EXCEPT !.kind = "read"] ELSE req[t][q]]]
    BY DEF Navigate, server, ghosts
  <1>2. ASSUME NEW q \in Slots
        PROVE  LET r == [req[t][q] EXCEPT !.kind = "read"]
               IN  /\ r \in Request /\ r.st = req[t][q].st /\ r.got = req[t][q].got
                   /\ r.body = req[t][q].body /\ r.kind = "read"
    <2>1. req[t][q] \in Request
      BY DEF IInv, TypeOK
    <2>2. QED
      BY <2>1 DEF Request
  <1>3. /\ req' \in [Tabs -> [Slots -> Request]]
        /\ \A u \in Tabs, q \in Slots : 
             /\ req'[u][q].st = req[u][q].st /\ req'[u][q].got = req[u][q].got
             /\ req'[u][q].body = req[u][q].body /\ req'[u][q].kind \in {req[u][q].kind, "read"}
    BY <1>1, <1>2 DEF IInv, TypeOK
  <1>4. TypeOK'
    BY <1>1, <1>3, IssuedFrame DEF IInv, TypeOK
  <1>5. QueueInv'
    BY <1>1, <1>3, QueueKept DEF Refreshing
  <1>6. Stores' = Stores
    BY <1>1 DEF Stores
  <1>7. UsableInv'
    BY <1>1 DEF IInv, UsableInv
  <1>8. LogoutInv'
    BY <1>1, <1>3, <1>6, IssuedFrame, LogoutKept
  <1>9. GateAgreesWithStore'
    BY <1>1 DEF IInv, GateAgreesWithStore
  <1>10. QED
    BY <1>4, <1>5, <1>7, <1>8, <1>9 DEF IInv

LEMMA SendKeeps == ASSUME IInv, NEW t \in Tabs, NEW q \in Slots, Send(t, q) PROVE IInv'
  <1>a. PICK kind \in {"read", "me", "logout"} :
          /\ req[t][q].st = "idle" /\ (kind = "logout" => store[t].refresh # NoToken)
          /\ req' = [req EXCEPT ![t][q] =
               [Idle EXCEPT !.st = "sent", !.kind = kind, !.tok = storage.access,
                            !.body = IF kind = "logout" THEN store[t].refresh ELSE NoToken]]
    BY DEF Send
  <1>1. PICK r :
          /\ r = [Idle EXCEPT !.st = "sent", !.kind = kind, !.tok = storage.access,
                              !.body = IF kind = "logout" THEN store[t].refresh ELSE NoToken]
          /\ req[t][q].st = "idle" /\ req' = [req EXCEPT ![t][q] = r]
          /\ kind = "logout" => store[t].refresh # NoToken
    BY <1>a
  <1>2. UNCHANGED <<issued, live, valid, storage, cookie, persisted, store, isRefreshing, leaving, excused, loggedOut>>
    BY DEF Send, server, ghosts
  <1>3. /\ r \in Request /\ r.st = "sent" /\ r.kind = kind
        /\ r.body = IF kind = "logout" THEN store[t].refresh ELSE NoToken
    <2>1. store[t].refresh \in Given /\ storage.access \in Given
      BY DEF IInv, TypeOK, Store
    <2>2. QED
      BY <1>1, <2>1, IdleTyped DEF IInv, Request
  <1>4. /\ req'[t][q] = r /\ req' \in [Tabs -> [Slots -> Request']]
        /\ \A u \in Tabs, p \in Slots : (u # t \/ p # q) => req'[u][p] = req[u][p]
    <2>1. r \in Request' /\ Request \subseteq Request' /\ TypeOK
      BY <1>2, <1>3, IssuedFrame DEF IInv
    <2>2. req' = [req EXCEPT ![t][q] = r]
      BY <1>1
    <2>3. QED
      BY <2>1, <2>2, OneRequest, ZenonT(60)
  <1>5. TypeOK'
    BY <1>2, <1>4, IssuedFrame DEF IInv, TypeOK
  <1>6. QueueInv'
    BY <1>1, <1>2, <1>3, <1>4, QueueKept DEF Refreshing
  <1>7. Stores' = Stores
    BY <1>2 DEF Stores
  <1>8. UsableInv'
    BY <1>2 DEF IInv, UsableInv
  <1>9. LogoutInv'
    <2>1. r.body \in FirstPairs /\ (kind = "logout" => r.body # NoToken)
      BY <1>1, <1>3 DEF IInv, LogoutInv, Stores, FirstPairs
    <2>2. QED
      BY <1>2, <1>3, <1>4, <1>7, <2>1, IssuedFrame, LogoutKept
  <1>10. GateAgreesWithStore'
    BY <1>2 DEF IInv, GateAgreesWithStore
  <1>11. QED
    BY <1>5, <1>6, <1>8, <1>9, <1>10 DEF IInv

\* A pair is given out: what was said of the earlier ones is true as before.
LEMMA IssueFrame ==
  ASSUME IInv, NEW user \in Users, NEW login \in Tokens \cup {NextToken}, NEW refreshTokens,
         Issue(user, login, refreshTokens)
  PROVE  /\ issued' \in Seq([user : Users, login : Nat]) /\ Len(issued') <= MaxTokens
         /\ NextToken # NoToken /\ NextToken \notin Tokens /\ NextToken \in Given'
         /\ Tokens' = Tokens \cup {NextToken} /\ Given \subseteq Given'
         /\ Store \subseteq Store' /\ Session \subseteq Session' /\ Request \subseteq Request'
         /\ [access : Given, refresh : Given] \subseteq [access : Given, refresh : Given]'
         /\ issued'[NextToken].user = user /\ issued'[NextToken].login = login
         /\ \A n \in Tokens : issued'[n] = issued[n]
         /\ live' = live \cup {NextToken} /\ valid' = refreshTokens
         /\ FirstPairs \subseteq FirstPairs' /\ (login = NextToken => NextToken \in FirstPairs')
         /\ \A n \in Tokens' : issued'[n].login \in Tokens'
         /\ NextToken \notin loggedOut /\ loggedOut \subseteq Tokens'
         /\ \A n \in valid : issued'[n].login \in loggedOut => n # issued'[n].login
  <1>1. TypeOK /\ login \in Nat
    BY GivenTokens DEF IInv, NextToken, TypeOK
  <1>2. /\ issued' \in Seq([user : Users, login : Nat]) /\ Len(issued') <= MaxTokens
        /\ NextToken \in Nat \ {0} /\ NextToken \notin Tokens
        /\ Tokens' = Tokens \cup {NextToken} /\ Given' = Given \cup {NextToken}
        /\ issued'[NextToken].user = user /\ issued'[NextToken].login = login
        /\ \A n \in Tokens : issued'[n] = issued[n]
        /\ live' = live \cup {NextToken} /\ valid' = refreshTokens
    BY <1>1, IssueGives
  <1>3. /\ Store \subseteq Store' /\ Session \subseteq Session' /\ Request \subseteq Request'
        /\ [access : Given, refresh : Given] \subseteq [access : Given, refresh : Given]'
    BY <1>2, Grows
  <1>4. FirstPairs \subseteq FirstPairs' /\ (login = NextToken => NextToken \in FirstPairs')
    BY <1>2 DEF FirstPairs
  <1>5. \A n \in Tokens' : issued'[n].login \in Tokens'
    BY <1>2 DEF IInv, LogoutInv
  <1>6. /\ NextToken \notin loggedOut /\ loggedOut \subseteq Tokens'
        /\ \A n \in valid : issued'[n].login \in loggedOut => n # issued'[n].login
    BY <1>2 DEF IInv, TypeOK, LogoutInv, LogoutLeavesRefreshed
  <1>7. QED
    BY <1>2, <1>3, <1>4, <1>5, <1>6 DEF NoToken

LEMMA SessionTyped ==
  ASSUME NEW user \in Users, NEW access \in Given', NEW refresh \in Given', NEW stash \in Session',
         NEW s, s = [user |-> user, access |-> access, refresh |-> refresh, stash |-> stash]
  PROVE  s \in Store' /\ s.user = user /\ s.access = access /\ s.refresh = refresh /\ s.stash = stash
  BY DEF Store

LEMMA LoginKeeps == ASSUME IInv, NEW t \in Tabs, Login(t) PROVE IInv'
  <1> DEFINE n == NextToken
  <1>1. PICK u \in Users :
          /\ Issue(u, n, valid \cup {n})
          /\ storage' = [access |-> n, refresh |-> n] /\ cookie' = u
          /\ persisted' = [user |-> u, access |-> n, refresh |-> n, stash |-> NoStash]
          /\ store' = [store EXCEPT ![t] = persisted']
          /\ excused' = FALSE /\ UNCHANGED <<req, isRefreshing, leaving, loggedOut>>
    BY DEF Login, Set
  <1>2. /\ issued' \in Seq([user : Users, login : Nat]) /\ Len(issued') <= MaxTokens
        /\ n # NoToken /\ n \notin Tokens /\ n \in Given'
        /\ Tokens' = Tokens \cup {n} /\ Given \subseteq Given'
        /\ Store \subseteq Store' /\ Session \subseteq Session' /\ Request \subseteq Request'
        /\ issued'[n].login = n
        /\ live' = live \cup {n} /\ valid' = valid \cup {n}
        /\ FirstPairs \subseteq FirstPairs' /\ n \in FirstPairs'
        /\ \A k \in Tokens' : issued'[k].login \in Tokens'
        /\ n \notin loggedOut /\ loggedOut \subseteq Tokens'
        /\ \A k \in valid : issued'[k].login \in loggedOut => k # issued'[k].login
    BY <1>1, IssueFrame
  <1> HIDE DEF n
  <1>3. NoStash \in Session' /\ NoStash.refresh = NoToken
    BY <1>2, OutTyped DEF IInv
  <1>4. persisted' \in Store' /\ persisted'.user = u /\ persisted'.refresh = n /\ persisted'.stash = NoStash
    BY <1>1, <1>2, <1>3, SessionTyped
  <1>5. store' \in [Tabs -> Store'] /\ Stores' \subseteq Stores \cup {persisted'} /\ GateAgreesWithStore'
    BY <1>1, <1>2, <1>4, OneStore
  <1>6. storage' \in [access : Given, refresh : Given]' /\ storage'.refresh = n
    BY <1>1, <1>2
  <1>7. TypeOK'
    <2>1. live' \cup valid' \subseteq Tokens' /\ loggedOut' \subseteq Given'
      BY <1>1, <1>2 DEF IInv, TypeOK
    <2>2. req' \in [Tabs -> [Slots -> Request']]
      BY <1>1, <1>2 DEF IInv, TypeOK
    <2>3. /\ excused' \in BOOLEAN /\ cookie' \in Users \cup {"none"}
          /\ isRefreshing' \in [Tabs -> BOOLEAN] /\ leaving' \in [Tabs -> BOOLEAN]
      BY <1>1 DEF IInv, TypeOK
    <2>4. QED
      BY <1>2, <1>4, <1>5, <1>6, <2>1, <2>2, <2>3 DEF TypeOK
  <1>8. QueueInv'
    BY <1>1, QueueKept DEF Refreshing
  <1>10. UsableInv'
    BY <1>2, <1>6 DEF UsableInv
  <1>11. LogoutInv'
    <2>1. NoToken \in FirstPairs'
      BY DEF FirstPairs
    <2>2. \A s \in Stores' : s \in Stores \/ (s.refresh \in FirstPairs' /\ s.stash.refresh \in FirstPairs')
      BY <1>2, <1>3, <1>4, <1>5, <2>1
    <2>3. QED
      BY <1>1, <1>2, <2>2, LogoutKept
  <1>12. QED
    BY <1>5, <1>7, <1>8, <1>10, <1>11 DEF IInv

\* clearTokens and clearAuth, while nothing is given out.
LEMMA ClearKeeps ==
  ASSUME IInv, NEW t \in Tabs, Clear(t), UNCHANGED issued, live' \subseteq live,
         valid' \subseteq valid, loggedOut' \subseteq Tokens,
         isRefreshing' \in [Tabs -> BOOLEAN], leaving' \in [Tabs -> BOOLEAN], QueueInv',
         \A n \in valid' : issued[n].login \in loggedOut' => n # issued[n].login,
         req' \in [Tabs -> [Slots -> Request]],
         \A u \in Tabs, q \in Slots : req'[u][q] = req[u][q] \/ req'[u][q] = Idle
  PROVE  IInv'
  <1>1. /\ storage' = NoTokens /\ cookie' = "none" /\ persisted' = SignedOut /\ excused' = FALSE
        /\ store' = [store EXCEPT ![t] = persisted']
    BY DEF Clear, Set
  <1>2. persisted' \in Store' /\ Store \subseteq Store' /\ NoTokens \in [access : Given, refresh : Given]'
    BY <1>1, IssuedFrame, OutTyped DEF IInv
  <1>3. store' \in [Tabs -> Store'] /\ Stores' \subseteq Stores \cup {persisted'} /\ GateAgreesWithStore'
    BY <1>1, <1>2, OneStore, OutTyped DEF IInv
  <1>4. TypeOK'
    BY <1>1, <1>2, <1>3, IssuedFrame, GivenTokens DEF IInv, TypeOK
  <1>6. NoToken \in FirstPairs'
    BY DEF FirstPairs
  <1>7. UsableInv'
    BY <1>1, OutTyped DEF IInv, UsableInv
  <1>8. LogoutInv'
    <2>1. \A s \in Stores' : s \in Stores \/ (s.refresh \in FirstPairs' /\ s.stash.refresh \in FirstPairs')
      BY <1>1, <1>3, <1>6, OutTyped DEF IInv
    <2>2. \A u \in Tabs, q \in Slots :
            \/ req'[u][q] = req[u][q]
            \/ req'[u][q].body \in FirstPairs' /\ req'[u][q].kind = "read"
      BY <1>6, IdleTyped DEF IInv
    <2>3. \A n \in valid' : issued'[n].login \in loggedOut' => n # issued'[n].login
      OBVIOUS
    <2>4. QED
      BY <2>1, <2>2, <2>3, IssuedFrame, LogoutKept
  <1>9. QED
    BY <1>3, <1>4, <1>7, <1>8 DEF IInv

LEMMA LogoutUnaskedKeeps == ASSUME IInv, NEW t \in Tabs, LogoutUnasked(t) PROVE IInv'
  <1>1. /\ Clear(t) /\ UNCHANGED <<issued, live, valid, req, isRefreshing, leaving, loggedOut>>
    BY DEF LogoutUnasked, server
  <1>2. QueueInv'
    BY <1>1, QueueKept DEF Refreshing
  <1>3. QED
    BY <1>1, <1>2, ClearKeeps, GivenTokens DEF IInv, TypeOK, LogoutInv, LogoutLeavesRefreshed

\* A step that is of requests alone, none of them a logout that was not one before.
LEMMA RequestsKeep ==
  ASSUME IInv, UNCHANGED <<issued, valid, storage, cookie, persisted, store, excused, loggedOut>>,
         live' \subseteq live, req' \in [Tabs -> [Slots -> Request]], isRefreshing' \in [Tabs -> BOOLEAN],
         leaving' \in [Tabs -> BOOLEAN], QueueInv',
         \A u \in Tabs, q \in Slots :
           \/ req'[u][q] = Idle
           \/ /\ req'[u][q].body = req[u][q].body /\ req'[u][q].kind = req[u][q].kind
  PROVE  IInv'
  <1>1. TypeOK'
    BY IssuedFrame DEF IInv, TypeOK
  <1>2. Stores' = Stores /\ NoToken \in FirstPairs
    BY DEF Stores, FirstPairs
  <1>3. UsableInv'
    BY DEF IInv, UsableInv
  <1>4. LogoutInv'
    <2>1. \A u \in Tabs, q \in Slots :
           \/ req'[u][q].body = req[u][q].body /\ req'[u][q].kind \in {req[u][q].kind, "read", "me"}
           \/ req'[u][q].body \in FirstPairs' /\ (req'[u][q].kind = "logout" => req'[u][q].body # NoToken)
      BY <1>2, IssuedFrame, IdleTyped DEF IInv
    <2>2. QED
      BY <1>2, <2>1, IssuedFrame, LogoutKept
  <1>5. GateAgreesWithStore'
    BY DEF IInv, GateAgreesWithStore
  <1>6. QED
    BY <1>1, <1>3, <1>4, <1>5 DEF IInv

\* The request is answered.
LEMMA Answered ==
  ASSUME IInv, NEW t \in Tabs, NEW q \in Slots, req' = [req EXCEPT ![t][q] = Idle],
         req[t][q].st = "sent"
  PROVE  /\ req' \in [Tabs -> [Slots -> Request]]
         /\ \A u \in Tabs, p \in Slots : \/ req'[u][p] = req[u][p]
                                         \/ req'[u][p] = Idle /\ req[u][p].st = "sent"
  <1>1. Idle \in Request
    BY IdleTyped DEF IInv
  <1>2. QED
    BY <1>1 DEF IInv, TypeOK

\* updateUser: only the user of a store there is, and the cookie with it.
LEMMA MeServedKeeps ==
  ASSUME IInv, NEW t \in Tabs, NEW q \in Slots, NEW u \in Users \cup {"none"},
         req[t][q].st = "sent", req' = [req EXCEPT ![t][q] = Idle],
         Set(t, [store[t] EXCEPT !.user = u]),
         cookie' = u \/ (u = "none" /\ store[t].user = "none" /\ cookie' = cookie),
         UNCHANGED <<issued, live, valid, storage, isRefreshing, leaving, excused, loggedOut>>
  PROVE  IInv'
  <1>1. /\ store' = [store EXCEPT ![t] = persisted'] /\ persisted' = [store[t] EXCEPT !.user = u]
    BY DEF Set
  <1>2. store[t] \in Store /\ store[t] \in Stores
    BY DEF IInv, TypeOK, Stores
  <1>3. /\ persisted' \in Store /\ persisted'.user = u
        /\ persisted'.refresh = store[t].refresh /\ persisted'.stash = store[t].stash
    BY <1>1, <1>2 DEF Store
  <1>4. /\ store' \in [Tabs -> Store'] /\ Stores' \subseteq Stores \cup {persisted'}
        /\ cookie' = u => GateAgreesWithStore'
    BY <1>1, <1>3, IssuedFrame, OneStore
  <1>5. GateAgreesWithStore'
    <2>1. CASE u = "none" /\ store[t].user = "none" /\ cookie' = cookie
      BY <1>1, <1>2, <1>3, <2>1 DEF IInv, TypeOK, GateAgreesWithStore
    <2>2. QED
      BY <1>4, <2>1
  <1>6. /\ req' \in [Tabs -> [Slots -> Request]]
        /\ \A v \in Tabs, p \in Slots : \/ req'[v][p] = req[v][p]
                                        \/ req'[v][p] = Idle /\ req[v][p].st = "sent"
    BY Answered
  <1>7. TypeOK'
    BY <1>3, <1>4, <1>6, IssuedFrame DEF IInv, TypeOK
  <1>8. QueueInv'
    BY <1>6, IdleTyped, QueueKept DEF Refreshing, IInv
  <1>9. NoToken \in FirstPairs
    BY DEF FirstPairs
  <1>10. UsableInv'
    BY DEF IInv, UsableInv
  <1>11. LogoutInv'
    <2>1. \A s \in Stores' : s \in Stores \/ (s.refresh \in FirstPairs' /\ s.stash.refresh \in FirstPairs')
      BY <1>2, <1>3, <1>4, IssuedFrame DEF IInv, LogoutInv
    <2>2. \A v \in Tabs, p \in Slots :
            \/ req'[v][p] = req[v][p]
            \/ req'[v][p].body \in FirstPairs' /\ req'[v][p].kind = "read"
      BY <1>6, <1>9, IssuedFrame, IdleTyped DEF IInv
    <2>3. QED
      BY <2>1, <2>2, IssuedFrame, LogoutKept
  <1>12. QED
    BY <1>5, <1>7, <1>8, <1>10, <1>11 DEF IInv

\* The answer is that of a query, or a query's failure.
LEMMA ReadAnswered ==
  ASSUME IInv, NEW t \in Tabs, NEW q \in Slots, req[t][q].st = "sent", req' = [req EXCEPT ![t][q] = Idle],
         UNCHANGED <<issued, live, valid, storage, cookie, persisted, store, isRefreshing, leaving, ghosts>>
  PROVE  IInv'
  <1>1. /\ req' \in [Tabs -> [Slots -> Request]]
        /\ \A v \in Tabs, p \in Slots : \/ req'[v][p] = req[v][p]
                                        \/ req'[v][p] = Idle /\ req[v][p].st = "sent"
    BY Answered
  <1>2. QueueInv'
    BY <1>1, IdleTyped, QueueKept DEF Refreshing, IInv
  <1>3. isRefreshing' \in [Tabs -> BOOLEAN] /\ leaving' \in [Tabs -> BOOLEAN]
    BY DEF IInv, TypeOK
  <1>4. UNCHANGED <<issued, live, valid, storage, cookie, persisted, store, excused, loggedOut>>
    BY DEF ghosts
  <1>5. QED
    BY <1>1, <1>2, <1>3, <1>4, RequestsKeep

\* The logout is over, at the server too or not.
LEMMA LogoutAnswered ==
  ASSUME IInv, NEW t \in Tabs, NEW q \in Slots, req[t][q].st = "sent",
         req[t][q].kind = "logout", req' = [req EXCEPT ![t][q] = Idle], Clear(t), LoggedOut(t, q),
         UNCHANGED <<issued, live, isRefreshing, leaving>>
  PROVE  IInv'
  <1> DEFINE n == req[t][q].body
  <1>1. n \in Tokens /\ issued[n].login = n
    BY DEF IInv, LogoutInv, FirstPairs
  <1>2. \/ valid' = valid \ {n} /\ loggedOut' = loggedOut \cup {n}
        \/ valid' = valid /\ loggedOut' = loggedOut
    BY <1>1 DEF LoggedOut, Revoked
  <1> HIDE DEF n
  <1>3. valid' \subseteq valid /\ loggedOut' \subseteq Tokens
    BY <1>1, <1>2 DEF IInv, LogoutInv
  <1>4. \A k \in valid' : issued[k].login \in loggedOut' => k # issued[k].login
    BY <1>1, <1>2 DEF IInv, LogoutInv, LogoutLeavesRefreshed
  <1>5. /\ req' \in [Tabs -> [Slots -> Request]]
        /\ \A v \in Tabs, p \in Slots : \/ req'[v][p] = req[v][p]
                                        \/ req'[v][p] = Idle /\ req[v][p].st = "sent"
    BY Answered
  <1>6. QueueInv'
    BY <1>5, IdleTyped, QueueKept DEF Refreshing, IInv
  <1>7. isRefreshing' \in [Tabs -> BOOLEAN] /\ leaving' \in [Tabs -> BOOLEAN]
    BY DEF IInv, TypeOK
  <1>8. QED
    BY <1>3, <1>4, <1>5, <1>6, <1>7, ClearKeeps

LEMMA ServedKeeps == ASSUME IInv, NEW t \in Tabs, NEW q \in Slots, Served(t, q) PROVE IInv'
  <1>1. /\ req[t][q].st = "sent" /\ req[t][q].tok \in live
        /\ req' = [req EXCEPT ![t][q] = Idle] /\ UNCHANGED <<issued, live, isRefreshing, leaving>>
    BY DEF Served
  <1>2. CASE req[t][q].kind = "read" /\ UNCHANGED <<valid, storage, cookie, persisted, store, ghosts>>
    BY <1>1, <1>2, ReadAnswered
  <1>3. CASE /\ Set(t, IF store[t].user = "none" THEN store[t]
                       ELSE [store[t] EXCEPT !.user = Owner(req[t][q].tok)])
             /\ cookie' = (IF store[t].user = "none" THEN cookie ELSE Owner(req[t][q].tok))
             /\ UNCHANGED <<valid, storage, ghosts>>
    <2>1. store[t] \in Store /\ Owner(req[t][q].tok) \in Users
      BY <1>1, OwnerTyped DEF IInv, TypeOK
    <2>2. CASE store[t].user = "none"
      <3>1. store[t] = [store[t] EXCEPT !.user = "none"]
        BY <2>1, <2>2 DEF Store
      <3>2. Set(t, [store[t] EXCEPT !.user = "none"])
        BY <1>3, <2>2, <3>1
      <3>3. QED
        BY <1>1, <1>3, <2>2, <3>2, MeServedKeeps DEF ghosts
    <2>3. CASE store[t].user # "none"
      <3>1. PICK u \in Users \cup {"none"} : u = Owner(req[t][q].tok)
        BY <2>1
      <3>2. Set(t, [store[t] EXCEPT !.user = u]) /\ cookie' = u
        BY <1>3, <2>3, <3>1
      <3>3. QED
        BY <1>1, <1>3, <3>2, MeServedKeeps DEF ghosts
    <2>4. QED
      BY <2>2, <2>3
  <1>4. CASE req[t][q].kind = "logout" /\ Clear(t) /\ LoggedOut(t, q)
    BY <1>1, <1>4, LogoutAnswered
  <1>5. QED
    BY <1>2, <1>3, <1>4 DEF Served

LEMMA FailedKeeps == ASSUME IInv, NEW t \in Tabs, NEW q \in Slots, Failed(t, q) PROVE IInv'
  BY ReadAnswered, LogoutAnswered DEF Failed

\* The requests of ended fail with the login page asked for.
LEMMA GivenUpKeeps ==
  ASSUME IInv, NEW t \in Tabs, NEW ended \in SUBSET Slots, GivenUp(t, ended), Kick(t),
         UNCHANGED <<issued, valid>>, live' \subseteq live,
         \A q \in Slots : Refreshing(t, q) => q \in ended,
         isRefreshing' \in [Tabs -> BOOLEAN],
         \A u \in Tabs \ {t} : isRefreshing'[u] = isRefreshing[u]
  PROVE  IInv'
  <1>1. /\ Clear(t) /\ UNCHANGED loggedOut
        /\ leaving' = [leaving EXCEPT ![t] = TRUE]
        /\ req' = [req EXCEPT ![t] = [q \in Slots |-> IF q \in ended THEN Idle ELSE req[t][q]]]
    BY DEF GivenUp, Kick
  <1>2. /\ loggedOut' \subseteq Tokens
        /\ \A n \in valid' : issued[n].login \in loggedOut' => n # issued[n].login
    BY <1>1 DEF IInv, LogoutInv, LogoutLeavesRefreshed
  <1>6. /\ req' \in [Tabs -> [Slots -> Request]] /\ leaving' \in [Tabs -> BOOLEAN] /\ leaving'[t]
        /\ \A q \in Slots : req'[t][q] = IF q \in ended THEN Idle ELSE req[t][q]
        /\ \A u \in Tabs \ {t} : req'[u] = req[u] /\ leaving'[u] = leaving[u]
    BY <1>1, IdleTyped DEF IInv, TypeOK
  <1>7. QueueInv'
    <2>1. \A q \in Slots : ~Refreshing(t, q)'
      BY <1>6, IdleTyped DEF Refreshing, IInv
    <2>2. \A u \in Tabs \ {t} : \A q \in Slots : Refreshing(u, q)' = Refreshing(u, q)
      BY <1>6 DEF Refreshing
    <2>3. QED
      BY <1>6, <2>1, <2>2, QueueKept
  <1>8. \A u \in Tabs, q \in Slots : req'[u][q] = req[u][q] \/ req'[u][q] = Idle
    BY <1>6
  <1>9. QED
    BY <1>1, <1>2, <1>6, <1>7, <1>8, ClearKeeps

LEMMA UnauthorizedKeeps == ASSUME IInv, NEW t \in Tabs, NEW q \in Slots, Unauthorized(t, q) PROVE IInv'
  <1>0. live' \subseteq live
    BY DEF Unauthorized
  <1>1. CASE /\ isRefreshing[t] /\ req[t][q].st = "sent" /\ req' = [req EXCEPT ![t][q].st = "queued"]
             /\ isRefreshing' = [isRefreshing EXCEPT ![t] = TRUE]
             /\ UNCHANGED <<issued, valid, storage, cookie, persisted, store, leaving, ghosts>>
    <2>1. PICK r : r = [req[t][q] EXCEPT !.st = "queued"] /\ req' = [req EXCEPT ![t][q] = r]
      BY <1>1 DEF IInv, TypeOK
    <2>2. /\ r \in Request /\ r.st = "queued" /\ r.body = req[t][q].body
          /\ r.kind = req[t][q].kind
      <3>1. req[t][q] \in Request
        BY DEF IInv, TypeOK
      <3>2. QED
        BY <2>1, <3>1 DEF Request
    <2>3. req' = [req EXCEPT ![t][q] = r]
      BY <2>1
    <2>4. /\ UNCHANGED <<issued, valid, storage, cookie, persisted, store, excused, loggedOut>>
          /\ UNCHANGED leaving
      BY <1>1 DEF ghosts
    <2>5. /\ req'[t][q] = r /\ req' \in [Tabs -> [Slots -> Request]]
          /\ \A u \in Tabs, p \in Slots : (u # t \/ p # q) => req'[u][p] = req[u][p]
      BY <2>2, <2>3 DEF IInv, TypeOK
    <2>6. /\ isRefreshing' \in [Tabs -> BOOLEAN] /\ leaving' \in [Tabs -> BOOLEAN]
          /\ isRefreshing'[t] /\ isRefreshing[t]
          /\ \A u \in Tabs \ {t} : isRefreshing'[u] = isRefreshing[u]
      BY <1>1, <2>4 DEF IInv, TypeOK
    <2>7. QueueInv'
      <3>1. \A u \in Tabs : \A p \in Slots : Refreshing(u, p)' = Refreshing(u, p)
        BY <1>1, <2>2, <2>5 DEF Refreshing
      <3>2. \A u \in Tabs : isRefreshing'[u] = isRefreshing[u]
        BY <2>6
      <3>3. QED
        BY <2>4, <3>1, <3>2, QueueKept
    <2>8. QED
      BY <2>2, <2>4, <2>5, <2>6, <2>7, <1>0, RequestsKeep
  <1>2. CASE /\ ~isRefreshing[t] /\ storage.refresh # NoToken
             /\ req' = [req EXCEPT ![t][q] = [@ EXCEPT !.st = "refreshing", !.retry = TRUE,
                                                          !.use = storage.refresh]]
             /\ isRefreshing' = [isRefreshing EXCEPT ![t] = TRUE]
             /\ UNCHANGED <<issued, valid, storage, cookie, persisted, store, leaving, ghosts>>
    <2>1. PICK r : /\ r = [req[t][q] EXCEPT !.st = "refreshing", !.retry = TRUE, !.use = storage.refresh]
                   /\ req' = [req EXCEPT ![t][q] = r]
      BY <1>2 DEF IInv, TypeOK
    <2>2. /\ r \in Request /\ r.st = "refreshing" /\ r.body = req[t][q].body
          /\ r.kind = req[t][q].kind
      <3>1. req[t][q] \in Request /\ storage.refresh \in Given
        BY DEF IInv, TypeOK
      <3>2. QED
        BY <2>1, <3>1 DEF Request
    <2>3. req' = [req EXCEPT ![t][q] = r]
      BY <2>1
    <2>4. UNCHANGED <<issued, valid, storage, cookie, persisted, store, excused, loggedOut>>
      BY <1>2 DEF ghosts
    <2>5. /\ req'[t][q] = r /\ req' \in [Tabs -> [Slots -> Request]]
          /\ \A u \in Tabs, p \in Slots : (u # t \/ p # q) => req'[u][p] = req[u][p]
      BY <2>2, <2>3 DEF IInv, TypeOK
    <2>6. /\ isRefreshing' \in [Tabs -> BOOLEAN] /\ isRefreshing'[t] /\ leaving' = leaving
          /\ leaving' \in [Tabs -> BOOLEAN]
          /\ \A u \in Tabs \ {t} : isRefreshing'[u] = isRefreshing[u]
      BY <1>2 DEF IInv, TypeOK
    <2>7. \A p \in Slots : Refreshing(t, p)' <=> q = p
      BY <1>2, <2>2, <2>5 DEF IInv, QueueInv, Refreshing
    <2>8. \A u \in Tabs \ {t} : \A p \in Slots : Refreshing(u, p)' = Refreshing(u, p)
      BY <2>5 DEF Refreshing
    <2>9. QueueInv'
      BY <2>6, <2>7, <2>8, QueueKept
    <2>10. QED
      BY <2>2, <2>4, <2>5, <2>6, <2>9, <1>0, RequestsKeep
  <1>3. CASE /\ ~isRefreshing[t] /\ isRefreshing' = [isRefreshing EXCEPT ![t] = TRUE]
             /\ GivenUp(t, {q}) /\ Kick(t) /\ UNCHANGED <<issued, valid>>
    <2>1. /\ isRefreshing' \in [Tabs -> BOOLEAN]
          /\ \A u \in Tabs \ {t} : isRefreshing'[u] = isRefreshing[u]
      BY <1>3 DEF IInv, TypeOK
    <2>2. \A p \in Slots : ~Refreshing(t, p)
      BY <1>3 DEF IInv, QueueInv
    <2>3. QED
      BY <1>0, <1>3, <2>1, <2>2, GivenUpKeeps
  <1>4. QED
    BY <1>1, <1>2, <1>3 DEF Unauthorized

LEMMA RefreshKeeps == ASSUME IInv, NEW t \in Tabs, NEW q \in Slots, Refresh(t, q) PROVE IInv'
  <1> DEFINE use == req[t][q].use
  <1>1. /\ req[t][q].st = "refreshing" /\ excused' = (excused \/ storage.refresh = use)
        /\ UNCHANGED <<storage, cookie, persisted, store, isRefreshing, leaving, loggedOut>>
    BY DEF Refresh
  <1>2. CASE /\ use \in valid /\ Issue(Owner(use), issued[use].login, (valid \ {use}) \cup {NextToken})
             /\ req' = [req EXCEPT ![t][q] = [@ EXCEPT !.st = "refreshed", !.got = NextToken]]
    <2>1. use \in Tokens /\ Owner(use) \in Users /\ issued[use].login \in Tokens
      BY <1>2, OwnerTyped DEF IInv, TypeOK, LogoutInv
    <2>2. PICK user, login, rest :
            /\ user \in Users /\ login \in Tokens \cup {NextToken}
            /\ user = Owner(use) /\ login = issued[use].login /\ rest = (valid \ {use}) \cup {NextToken}
            /\ Issue(user, login, rest)
      BY <1>2, <2>1
    <2>3. /\ issued' \in Seq([user : Users, login : Nat]) /\ Len(issued') <= MaxTokens
          /\ NextToken # NoToken /\ NextToken \notin Tokens /\ NextToken \in Given'
          /\ Tokens' = Tokens \cup {NextToken} /\ Given \subseteq Given'
          /\ Store \subseteq Store' /\ Session \subseteq Session' /\ Request \subseteq Request'
          /\ [access : Given, refresh : Given] \subseteq [access : Given, refresh : Given]'
          /\ issued'[NextToken].login = login
          /\ live' = live \cup {NextToken} /\ valid' = rest
          /\ FirstPairs \subseteq FirstPairs'
          /\ \A n \in Tokens' : issued'[n].login \in Tokens'
          /\ loggedOut \subseteq Tokens'
          /\ \A n \in valid : issued'[n].login \in loggedOut => n # issued'[n].login
      BY <2>2, IssueFrame
    <2>4. PICK r : /\ r = [req[t][q] EXCEPT !.st = "refreshed", !.got = NextToken]
                   /\ req' = [req EXCEPT ![t][q] = r]
      BY <1>2 DEF IInv, TypeOK
    <2>5. /\ r \in Request' /\ r.st = "refreshed" /\ r.got = NextToken /\ r.body = req[t][q].body
          /\ r.kind = req[t][q].kind
      <3>1. req[t][q] \in Request'
        BY <2>3 DEF IInv, TypeOK
      <3>2. QED
        BY <2>3, <2>4, <3>1 DEF Request
    <2>6. req' = [req EXCEPT ![t][q] = r]
      BY <2>4
    <2>7. /\ req'[t][q] = r /\ req' \in [Tabs -> [Slots -> Request']]
          /\ \A u \in Tabs, p \in Slots : (u # t \/ p # q) => req'[u][p] = req[u][p]
      <3>1. req \in [Tabs -> [Slots -> Request']]
        BY <2>3 DEF IInv, TypeOK
      <3>2. QED
        BY <2>5, <2>6, <3>1
    <2>8. TypeOK'
      BY <1>1, <2>1, <2>2, <2>3, <2>7 DEF IInv, TypeOK
    <2>9. QueueInv'
      BY <1>1, <2>5, <2>7, QueueKept DEF Refreshing
    <2>10. Stores' = Stores
      BY <1>1 DEF Stores
    <2>11. UsableInv'
      BY <1>1, <2>2, <2>3 DEF IInv, UsableInv
    <2>12. LogoutInv'
      <3>1. \A n \in valid' : issued'[n].login \in loggedOut' => n # issued'[n].login
        BY <1>1, <2>1, <2>2, <2>3
      <3>2. QED
        BY <1>1, <2>3, <2>5, <2>7, <2>10, <3>1, LogoutKept
    <2>13. GateAgreesWithStore'
      BY <1>1 DEF IInv, GateAgreesWithStore
    <2>14. QED
      BY <2>8, <2>9, <2>11, <2>12, <2>13 DEF IInv
  <1>3. ASSUME NEW end \in {"refused", "lost"}, valid' \in {valid, valid \ {use}},
               req' = [req EXCEPT ![t][q].st = end], UNCHANGED <<issued, live>>
        PROVE  IInv'
    <2>1. PICK r : r = [req[t][q] EXCEPT !.st = end] /\ req' = [req EXCEPT ![t][q] = r]
      BY <1>3 DEF IInv, TypeOK
    <2>2. r \in Request /\ r.st = end /\ r.body = req[t][q].body /\ r.kind = req[t][q].kind
      <3>1. req[t][q] \in Request
        BY DEF IInv, TypeOK
      <3>2. QED
        BY <2>1, <3>1 DEF Request
    <2>3. req' = [req EXCEPT ![t][q] = r]
      BY <2>1
    <2>4. /\ req'[t][q] = r /\ req' \in [Tabs -> [Slots -> Request]]
          /\ \A u \in Tabs, p \in Slots : (u # t \/ p # q) => req'[u][p] = req[u][p]
      BY <2>2, <2>3 DEF IInv, TypeOK
    <2>5. TypeOK'
      BY <1>1, <1>3, <2>4, IssuedFrame DEF IInv, TypeOK
    <2>6. QueueInv'
      BY <1>1, <2>2, <2>4, QueueKept DEF Refreshing
    <2>7. Stores' = Stores /\ valid' \subseteq valid
      BY <1>1, <1>3 DEF Stores
    <2>8. UsableInv'
      BY <1>1, <1>3 DEF IInv, UsableInv
    <2>9. LogoutInv'
      BY <1>1, <1>3, <2>2, <2>4, <2>7, IssuedFrame, LogoutKept
    <2>10. GateAgreesWithStore'
      BY <1>1 DEF IInv, GateAgreesWithStore
    <2>11. QED
      BY <2>5, <2>6, <2>8, <2>9, <2>10 DEF IInv
  <1>4. QED
    BY <1>2, <1>3 DEF Refresh

LEMMA RefreshDoneKeeps == ASSUME IInv, NEW t \in Tabs, NEW q \in Slots, RefreshDone(t, q) PROVE IInv'
  <1> DEFINE got == req[t][q].got
             again(p) == p = q \/ req[t][p].st = "queued"
  <1>1. /\ req[t][q].st = "refreshed" /\ storage' = [access |-> got, refresh |-> got]
        /\ req' = [req EXCEPT ![t] = [p \in Slots |-> IF again(p) THEN Again(t, p, got) ELSE req[t][p]]]
        /\ isRefreshing' = [isRefreshing EXCEPT ![t] = FALSE]
        /\ excused' = (got \notin valid)
        /\ UNCHANGED <<issued, live, valid, cookie, persisted, store, leaving, loggedOut>>
    BY DEF RefreshDone, server
  <1>2. got \in Given
    BY DEF IInv, TypeOK, Request
  <1>3. ASSUME NEW p \in Slots
        PROVE  /\ Again(t, p, got) \in Request /\ Again(t, p, got).st = "sent"
               /\ Again(t, p, got).body = req[t][p].body /\ Again(t, p, got).kind = req[t][p].kind
    <2>1. req[t][p] \in Request /\ NoToken \in Given
      BY GivenTokens DEF IInv, TypeOK
    <2>2. QED
      BY <1>2, <2>1 DEF Request, Again
  <1> HIDE DEF got
  <1>4. /\ req' \in [Tabs -> [Slots -> Request]] /\ isRefreshing' \in [Tabs -> BOOLEAN] /\ ~isRefreshing'[t]
        /\ \A p \in Slots : req'[t][p] = IF again(p) THEN Again(t, p, got) ELSE req[t][p]
        /\ \A u \in Tabs \ {t} : req'[u] = req[u] /\ isRefreshing'[u] = isRefreshing[u]
    BY <1>1, <1>3 DEF IInv, TypeOK
  <1>5. storage' \in [access : Given, refresh : Given] /\ storage'.refresh = got
    BY <1>1, <1>2
  <1>6. TypeOK'
    BY <1>1, <1>4, <1>5, IssuedFrame DEF IInv, TypeOK
  <1>7. QueueInv'
    <2>1. \A p \in Slots : ~Refreshing(t, p)'
      <3>1. \A p \in Slots : Refreshing(t, p) => p = q
        BY <1>1 DEF IInv, QueueInv, Refreshing
      <3>2. QED
        BY <1>3, <1>4, <3>1 DEF Refreshing
    <2>2. \A u \in Tabs \ {t} : \A p \in Slots : Refreshing(u, p)' = Refreshing(u, p)
      BY <1>4 DEF Refreshing
    <2>3. leaving' = leaving
      BY <1>1
    <2>4. QED
      BY <1>4, <2>1, <2>2, <2>3, QueueKept
  <1>8. Stores' = Stores
    BY <1>1 DEF Stores
  <1>9. \A u \in Tabs, p \in Slots :
          /\ req'[u][p].body = req[u][p].body /\ req'[u][p].kind = req[u][p].kind
    BY <1>3, <1>4
  <1>10. UsableInv'
    BY <1>1, <1>5 DEF UsableInv
  <1>11. LogoutInv'
    BY <1>1, <1>8, <1>9, IssuedFrame, LogoutKept
  <1>12. GateAgreesWithStore'
    BY <1>1 DEF IInv, GateAgreesWithStore
  <1>13. QED
    BY <1>6, <1>7, <1>10, <1>11, <1>12 DEF IInv

LEMMA RefreshFailedKeeps ==
  ASSUME IInv, NEW t \in Tabs, NEW q \in Slots, RefreshFailed(t, q) PROVE IInv'
  <1>1. PICK ended \in SUBSET Slots :
          ended = {q} \cup {p \in Slots : req[t][p].st = "queued"}
    OBVIOUS
  <1>2. /\ GivenUp(t, ended) /\ Kick(t) /\ req[t][q].st = "refused" /\ UNCHANGED server
        /\ isRefreshing' = [isRefreshing EXCEPT ![t] = FALSE]
    BY <1>1 DEF RefreshFailed
  <1>3. /\ isRefreshing' \in [Tabs -> BOOLEAN]
        /\ \A u \in Tabs \ {t} : isRefreshing'[u] = isRefreshing[u]
    BY <1>2 DEF IInv, TypeOK
  <1>4. \A p \in Slots : Refreshing(t, p) => p = q
    BY <1>2 DEF IInv, QueueInv, Refreshing
  <1>5. QED
    BY <1>1, <1>2, <1>3, <1>4, GivenUpKeeps DEF server

\* What startImpersonation keeps aside is typed, and its refresh token is the store's or
\* that of the session already aside.
LEMMA StashTyped ==
  ASSUME IInv, NEW t \in Tabs, NEW stash,
         stash = IF store[t].stash # NoStash THEN store[t].stash
                 ELSE IF store[t].user # "none" /\ store[t].access # NoToken /\ store[t].refresh # NoToken
                      THEN [user |-> store[t].user, access |-> store[t].access, refresh |-> store[t].refresh]
                      ELSE NoStash
  PROVE  /\ stash \in Session
         /\ stash.refresh \in {NoToken, store[t].refresh, store[t].stash.refresh}
  <1>1. store[t] \in Store /\ NoStash \in Session /\ NoStash.refresh = NoToken
    BY OutTyped DEF IInv, TypeOK
  <1>2. /\ store[t].stash \in Session /\ store[t].user \in Users \cup {"none"}
        /\ store[t].access \in Given /\ store[t].refresh \in Given
    BY <1>1 DEF Store
  <1>3. CASE stash = store[t].stash
    BY <1>2, <1>3
  <1>4. CASE stash = [user |-> store[t].user, access |-> store[t].access, refresh |-> store[t].refresh]
    BY <1>2, <1>4 DEF Session
  <1>5. CASE stash = NoStash
    BY <1>1, <1>5
  <1>6. QED
    BY <1>3, <1>4, <1>5

LEMMA ImpersonateKeeps ==
  ASSUME IInv, NEW t \in Tabs, NEW u \in Users, Impersonate(t, u) PROVE IInv'
  <1> DEFINE n == NextToken
  <1>1. PICK stash :
          /\ stash = IF store[t].stash # NoStash THEN store[t].stash
                     ELSE IF store[t].user # "none" /\ store[t].access # NoToken /\ store[t].refresh # NoToken
                          THEN [user |-> store[t].user, access |-> store[t].access, refresh |-> store[t].refresh]
                          ELSE NoStash
          /\ persisted' = [user |-> u, access |-> n, refresh |-> NoToken, stash |-> stash]
    BY DEF Impersonate, Set
  <1>2. /\ Issue(u, n, valid) /\ storage' = [access |-> n, refresh |-> NoToken] /\ cookie' = u
        /\ store' = [store EXCEPT ![t] = persisted']
        /\ excused' = FALSE /\ UNCHANGED <<req, isRefreshing, leaving, loggedOut>>
    BY <1>1 DEF Impersonate, Set
  <1>3. PICK rest : rest = valid /\ Issue(u, n, rest)
    BY <1>2
  <1>4. /\ issued' \in Seq([user : Users, login : Nat]) /\ Len(issued') <= MaxTokens
        /\ n # NoToken /\ n \notin Tokens /\ n \in Given'
        /\ Tokens' = Tokens \cup {n} /\ Given \subseteq Given'
        /\ Store \subseteq Store' /\ Session \subseteq Session' /\ Request \subseteq Request'
        /\ live' = live \cup {n} /\ valid' = valid
        /\ FirstPairs \subseteq FirstPairs'
        /\ \A k \in Tokens' : issued'[k].login \in Tokens'
        /\ loggedOut \subseteq Tokens'
        /\ \A k \in valid : issued'[k].login \in loggedOut => k # issued'[k].login
    BY <1>3, IssueFrame
  <1> HIDE DEF n
  <1>5. stash \in Session' /\ stash.refresh \in {NoToken, store[t].refresh, store[t].stash.refresh}
    BY <1>1, <1>4, StashTyped
  <1>6. NoToken \in Given'
    BY <1>4, GivenTokens DEF IInv
  <1>7. /\ persisted' \in Store' /\ persisted'.user = u /\ persisted'.refresh = NoToken
        /\ persisted'.stash = stash
    BY <1>1, <1>4, <1>5, <1>6, SessionTyped
  <1>8. store' \in [Tabs -> Store'] /\ Stores' \subseteq Stores \cup {persisted'} /\ GateAgreesWithStore'
    BY <1>2, <1>4, <1>7, OneStore
  <1>9. storage' \in [access : Given, refresh : Given]' /\ storage'.refresh = NoToken
    BY <1>2, <1>4, <1>6
  <1>10. TypeOK'
    <2>1. live' \cup valid' \subseteq Tokens' /\ loggedOut' \subseteq Given'
      BY <1>2, <1>4 DEF IInv, TypeOK
    <2>2. req' \in [Tabs -> [Slots -> Request']]
      BY <1>2, <1>4 DEF IInv, TypeOK
    <2>3. /\ excused' \in BOOLEAN /\ cookie' \in Users \cup {"none"}
          /\ isRefreshing' \in [Tabs -> BOOLEAN] /\ leaving' \in [Tabs -> BOOLEAN]
      BY <1>2 DEF IInv, TypeOK
    <2>4. QED
      BY <1>4, <1>7, <1>8, <1>9, <2>1, <2>2, <2>3 DEF TypeOK
  <1>11. QueueInv'
    BY <1>2, QueueKept DEF Refreshing
  <1>12. NoToken \in FirstPairs' /\ store[t] \in Stores
    BY DEF FirstPairs, Stores
  <1>13. UsableInv'
    BY <1>9 DEF UsableInv
  <1>14. LogoutInv'
    <2>1. stash.refresh \in FirstPairs'
      BY <1>4, <1>5, <1>12 DEF IInv, LogoutInv
    <2>2. \A s \in Stores' : s \in Stores \/ (s.refresh \in FirstPairs' /\ s.stash.refresh \in FirstPairs')
      BY <1>7, <1>8, <1>12, <2>1
    <2>3. QED
      BY <1>2, <1>4, <2>2, LogoutKept
  <1>15. QED
    BY <1>8, <1>10, <1>11, <1>13, <1>14 DEF IInv

LEMMA ExitImpersonationKeeps ==
  ASSUME IInv, NEW t \in Tabs, ExitImpersonation(t) PROVE IInv'
  <1> DEFINE own == store[t].stash
  <1>1. /\ storage' = [access |-> own.access, refresh |-> own.refresh] /\ cookie' = own.user
        /\ persisted' = [user |-> own.user, access |-> own.access, refresh |-> own.refresh, stash |-> NoStash]
        /\ store' = [store EXCEPT ![t] = persisted']
        /\ excused' = TRUE
        /\ UNCHANGED <<issued, live, valid, req, isRefreshing, leaving, loggedOut>>
    BY DEF ExitImpersonation, Set, server
  <1>2. own \in Session /\ store[t] \in Stores /\ NoStash \in Session /\ NoStash.refresh = NoToken
    BY OutTyped DEF IInv, TypeOK, Store, Stores
  <1>3. own.user \in Users \cup {"none"} /\ own.access \in Given /\ own.refresh \in Given
    BY <1>2 DEF Session
  <1>4. own.refresh \in FirstPairs
    BY <1>2 DEF IInv, LogoutInv
  <1> HIDE DEF own
  <1>5. /\ persisted' \in Store' /\ persisted'.user = own.user /\ persisted'.refresh = own.refresh
        /\ persisted'.stash = NoStash
    BY <1>1, <1>2, <1>3, IssuedFrame DEF Store
  <1>6. /\ store' \in [Tabs -> Store'] /\ Stores' \subseteq Stores \cup {persisted'}
        /\ GateAgreesWithStore'
    BY <1>1, <1>5, IssuedFrame, OneStore
  <1>7. /\ storage' \in [access : Given, refresh : Given] /\ storage'.refresh = own.refresh
        /\ cookie' \in Users \cup {"none"}
    BY <1>1, <1>3
  <1>8. TypeOK'
    BY <1>1, <1>5, <1>6, <1>7, IssuedFrame DEF IInv, TypeOK
  <1>9. QueueInv'
    BY <1>1, QueueKept DEF Refreshing
  <1>10. NoToken \in FirstPairs
    BY DEF FirstPairs
  <1>11. UsableInv'
    BY <1>1 DEF UsableInv
  <1>12. LogoutInv'
    <2>1. \A s \in Stores' : s \in Stores \/ (s.refresh \in FirstPairs' /\ s.stash.refresh \in FirstPairs')
      BY <1>1, <1>2, <1>4, <1>5, <1>6, <1>10, IssuedFrame
    <2>2. QED
      BY <1>1, <2>1, IssuedFrame, LogoutKept
  <1>13. QED
    BY <1>6, <1>8, <1>9, <1>11, <1>12 DEF IInv

LEMMA NextKeeps == ASSUME IInv, [Next]_vars PROVE IInv'
  <1>1. CASE Revoke
    BY <1>1, RevokeKeeps
  <1>2. ASSUME NEW t \in Tabs,
               \/ Reload(t) \/ Unload(t) \/ Navigate(t) \/ Login(t) \/ LogoutUnasked(t)
               \/ ExitImpersonation(t)
        PROVE  IInv'
    BY <1>2, LoadedKeeps, NavigateKeeps, LoginKeeps, LogoutUnaskedKeeps, ExitImpersonationKeeps
       DEF Reload, Unload
  <1>3. ASSUME NEW t \in Tabs, NEW u \in Users, Impersonate(t, u) PROVE IInv'
    BY <1>3, ImpersonateKeeps
  <1>4. ASSUME NEW t \in Tabs, NEW q \in Slots,
               \/ Send(t, q) \/ Answer(t, q) \/ Refresh(t, q) \/ RefreshDone(t, q) \/ RefreshFailed(t, q)
        PROVE  IInv'
    BY <1>4, SendKeeps, ServedKeeps, FailedKeeps, UnauthorizedKeeps, RefreshKeeps, RefreshDoneKeeps,
       RefreshFailedKeeps DEF Answer
  <1>5. CASE UNCHANGED vars
    <2>1. /\ UNCHANGED <<issued, live, valid, storage, cookie, persisted, store, excused, loggedOut>>
          /\ UNCHANGED <<req, isRefreshing, leaving>>
      BY <1>5 DEF vars, server, ghosts
    <2>2. /\ QueueInv' /\ req' \in [Tabs -> [Slots -> Request]] /\ isRefreshing' \in [Tabs -> BOOLEAN]
          /\ leaving' \in [Tabs -> BOOLEAN]
      BY <2>1, QueueKept DEF Refreshing, IInv, TypeOK
    <2>3. QED
      BY <2>1, <2>2, RequestsKeep
  <1>6. QED
    BY <1>1, <1>2, <1>3, <1>4, <1>5 DEF Next

\* The conjuncts of IInv hold together, through every refresh, logout and impersonation.
THEOREM Invariance == Spec => []IInv
  BY InitIInv, NextKeeps, ClientAssumption, PTL DEF Spec

\* Only tokens that were given out are stored, sent and taken.
THEOREM TypeCorrect == Spec => []TypeOK
  BY Invariance, PTL DEF IInv

\* With a single tab the pages are gated by the user shown: whatever writes the store writes
\* the cookie, and a load finds the store it saved.
THEOREM GateAgrees == Spec => []GateAgreesWithStore
  BY Invariance, PTL DEF IInv

\* A logout that the server carried out revokes the pair of its login; only a token that a
\* refresh had put in its place stays valid.  Of a logout whose call or delete fails, which
\* the page takes for one that did not, nothing is said: the login's own token may live on.
THEOREM LogoutLeaves == Spec => []LogoutLeavesRefreshed
  BY Invariance, PTL DEF IInv, LogoutInv

-----------------------------------------------------------------------------
(* The refresh.                                                             *)

\* Only a first 401 sends a refresh, when none is under way, with the token stored.
LEMMA RefreshStarts ==
  ASSUME IInv, [Next]_vars, NEW t \in Tabs, NEW q \in Slots,
         req[t][q].st # "refreshing", req'[t][q].st = "refreshing"
  PROVE  ~isRefreshing[t] /\ req'[t][q].use = storage.refresh /\ storage.refresh # NoToken
  <1>1. /\ Idle.st = "idle" /\ req \in [Tabs -> [Slots -> Request]]
        /\ \A u \in Tabs, p \in Slots : req[u][p] \in Request
    BY IdleTyped DEF IInv, TypeOK
  <1>2. \A u \in Tabs : ~Loaded(u) /\ \A ended \in SUBSET Slots : ~GivenUp(u, ended)
    BY <1>1 DEF Loaded, GivenUp
  <1>3. ASSUME NEW u \in Tabs, Navigate(u) PROVE FALSE
    <2>1. req' = [req EXCEPT ![u] = [p \in Slots |->
             IF req[u][p].kind = "me" THEN [req[u][p] EXCEPT !.kind = "read"] ELSE req[u][p]]]
      BY <1>3 DEF Navigate
    <2>2. [req[u][q] EXCEPT !.kind = "read"].st = req[u][q].st
      BY <1>1 DEF Request
    <2>3. QED
      BY <1>1, <2>1, <2>2
  <1>4. ASSUME NEW u \in Tabs, NEW p \in Slots, Send(u, p) PROVE FALSE
    <2>1. PICK r : r.st = "sent" /\ req' = [req EXCEPT ![u][p] = r]
      BY <1>4 DEF Send, Idle
    <2>2. QED
      BY <1>1, <2>1
  <1>5. ASSUME NEW u \in Tabs, NEW p \in Slots, Served(u, p) \/ Failed(u, p) PROVE FALSE
    BY <1>1, <1>5 DEF Served, Failed
  <1>6. ASSUME NEW u \in Tabs, NEW p \in Slots, Unauthorized(u, p)
        PROVE  ~isRefreshing[t] /\ req'[t][q].use = storage.refresh /\ storage.refresh # NoToken
    <2>1. CASE req' = [req EXCEPT ![u][p].st = "queued"]
      <3>1. [req[u][p] EXCEPT !.st = "queued"].st = "queued"
        BY <1>1 DEF Request
      <3>2. QED
        BY <1>1, <2>1, <3>1
    <2>2. CASE /\ ~isRefreshing[u] /\ storage.refresh # NoToken
               /\ req' = [req EXCEPT ![u][p] = [@ EXCEPT !.st = "refreshing", !.retry = TRUE,
                                                            !.use = storage.refresh]]
      <3>1. [req[u][p] EXCEPT !.st = "refreshing", !.retry = TRUE, !.use = storage.refresh].use = storage.refresh
        BY <1>1 DEF Request
      <3>2. QED
        BY <1>1, <2>2, <3>1
    <2>3. CASE GivenUp(u, {p})
      BY <1>2, <2>3
    <2>4. QED
      BY <1>6, <2>1, <2>2, <2>3 DEF Unauthorized
  <1>7. ASSUME NEW u \in Tabs, NEW p \in Slots, Refresh(u, p) PROVE FALSE
    <2>1. /\ [req[u][p] EXCEPT !.st = "refreshed", !.got = NextToken].st = "refreshed"
          /\ \A end : [req[u][p] EXCEPT !.st = end].st = end
      BY <1>1 DEF Request
    <2>2. CASE req' = [req EXCEPT ![u][p] = [req[u][p] EXCEPT !.st = "refreshed", !.got = NextToken]]
      BY <1>1, <2>1, <2>2
    <2>3. ASSUME NEW end \in {"refused", "lost"}, req' = [req EXCEPT ![u][p].st = end] PROVE FALSE
      <3>1. req' = [req EXCEPT ![u][p] = [req[u][p] EXCEPT !.st = end]]
        BY <1>1, <2>3
      <3>2. QED
        BY <1>1, <2>1, <3>1
    <2>4. QED
      BY <1>1, <1>7, <2>2, <2>3 DEF Refresh
  <1>8. ASSUME NEW u \in Tabs, NEW p \in Slots, RefreshDone(u, p) PROVE FALSE
    <2>1. req' = [req EXCEPT ![u] = [k \in Slots |->
             IF k = p \/ req[u][k].st = "queued" THEN Again(u, k, req[u][p].got) ELSE req[u][k]]]
      BY <1>8 DEF RefreshDone
    <2>2. Again(u, q, req[u][p].got).st = "sent"
      BY <1>1 DEF Request, Again
    <2>3. QED
      BY <1>1, <2>1, <2>2
  <1>9. CASE UNCHANGED req
    BY <1>9
  <1>10. QED
    <2>1. CASE Revoke \/ UNCHANGED vars
      BY <1>9, <2>1 DEF Revoke, vars
    <2>2. ASSUME NEW u \in Tabs,
                 \/ Reload(u) \/ Unload(u) \/ Login(u) \/ LogoutUnasked(u) \/ ExitImpersonation(u)
                 \/ \E o \in Users : Impersonate(u, o)
          PROVE  FALSE
      BY <1>2, <2>2 DEF Reload, Unload, Login, LogoutUnasked, ExitImpersonation, Impersonate
    <2>3. ASSUME NEW u \in Tabs, NEW p \in Slots, RefreshFailed(u, p) PROVE FALSE
      BY <1>2, <2>3 DEF RefreshFailed
    <2>4. QED
      BY <1>3, <1>4, <1>5, <1>6, <1>7, <1>8, <2>1, <2>2, <2>3 DEF Next, Answer

\* A tab starts a refresh only while it has none under way, and with a token that is stored at
\* the server unless it ended there without the browser being told.
THEOREM RefreshIsSentOnce == Spec => RefreshSentOnce
  <1>1. ASSUME IInv, [Next]_vars, NEW t \in Tabs, NEW q \in Slots, SentInVain(t, q)
        PROVE  excused /\ \A p \in Slots : req[t][p].st # "refreshing"
    <2>1. ~isRefreshing[t] /\ req'[t][q].use = storage.refresh /\ storage.refresh # NoToken
      BY <1>1, RefreshStarts DEF SentInVain
    <2>2. \A p \in Slots : req[t][p].st # "refreshing"
      BY <1>1, <2>1 DEF IInv, QueueInv, Refreshing
    <2>3. storage.refresh \notin valid
      BY <1>1, <2>1, <2>2 DEF SentInVain
    <2>4. QED
      BY <1>1, <2>1, <2>2, <2>3 DEF IInv, UsableInv
  <1>2. IInv /\ [Next]_vars =>
          [\A t \in Tabs : \A q \in Slots : SentInVain(t, q) =>
             /\ excused
             /\ \A p \in Slots : req[t][p].st # "refreshing"]_vars
    BY <1>1
  <1>3. QED
    BY <1>2, Invariance, PTL DEF Spec, RefreshSentOnce

-----------------------------------------------------------------------------
(* The user shown and the tokens in use.                                    *)

\* Of a token given out it is known whose it is, and stays known.
LEMMA OwnersStay ==
  ASSUME IInv, [Next]_vars
  PROVE  \A n \in Tokens : issued'[n] = issued[n]
  <1>1. ASSUME NEW t \in Tabs, Login(t) PROVE \A n \in Tokens : issued'[n] = issued[n]
    <2>1. PICK u, rest : u \in Users /\ Issue(u, NextToken, rest)
      BY <1>1 DEF Login
    <2>2. QED
      BY <2>1, IssueFrame
  <1>2. ASSUME NEW t \in Tabs, NEW u \in Users, Impersonate(t, u)
        PROVE  \A n \in Tokens : issued'[n] = issued[n]
    <2>1. PICK rest : Issue(u, NextToken, rest)
      BY <1>2 DEF Impersonate
    <2>2. QED
      BY <2>1, IssueFrame
  <1>3. ASSUME NEW t \in Tabs, NEW q \in Slots, Refresh(t, q)
        PROVE  \A n \in Tokens : issued'[n] = issued[n]
    <2> DEFINE use == req[t][q].use
    <2>1. CASE use \in valid /\ Issue(Owner(use), issued[use].login, (valid \ {use}) \cup {NextToken})
      <3>1. use \in Tokens /\ Owner(use) \in Users /\ issued[use].login \in Tokens
        BY <2>1, OwnerTyped DEF IInv, TypeOK, LogoutInv
      <3>2. PICK user, login, rest :
              user \in Users /\ login \in Tokens \cup {NextToken} /\ Issue(user, login, rest)
        BY <2>1, <3>1
      <3>3. QED
        BY <3>2, IssueFrame
    <2>2. QED
      BY <1>3, <2>1 DEF Refresh
  <1>4. ASSUME NEW t \in Tabs, NEW q \in Slots,
               \/ Send(t, q) \/ Answer(t, q) \/ RefreshDone(t, q) \/ RefreshFailed(t, q)
        PROVE  UNCHANGED issued
    <2>1. CASE Send(t, q) \/ RefreshDone(t, q)
      BY <2>1 DEF Send, RefreshDone, server
    <2>2. CASE Served(t, q) \/ Failed(t, q)
      BY <2>2 DEF Served, Failed
    <2>3. CASE Unauthorized(t, q) \/ RefreshFailed(t, q)
      BY <2>3 DEF Unauthorized, RefreshFailed, GivenUp, server
    <2>4. QED
      BY <1>4, <2>1, <2>2, <2>3 DEF Answer
  <1>5. ASSUME NEW t \in Tabs,
               Reload(t) \/ Unload(t) \/ Navigate(t) \/ LogoutUnasked(t) \/ ExitImpersonation(t)
        PROVE  UNCHANGED issued
    BY <1>5 DEF Reload, Unload, Loaded, Navigate, LogoutUnasked, ExitImpersonation, server
  <1>6. CASE Revoke \/ UNCHANGED vars
    BY <1>6 DEF Revoke, vars
  <1>7. QED
    BY <1>1, <1>2, <1>3, <1>4, <1>5, <1>6 DEF Next

\* A store that is whole after a step: what it holds is its user's, and its stash's.
LEMMA NotParted ==
  ASSUME NEW t \in Tabs,
         store'[t].user # "none" =>
           \A n \in {storage'.access, store'[t].access} \ {NoToken} : issued'[n].user = store'[t].user,
         store'[t].stash.access # NoToken => issued'[store'[t].stash.access].user = store'[t].stash.user
  PROVE  ~Parted(t)'
  BY DEF Parted, Owner

\* The same, of the state before the step, with the tokens known after it.
LEMMA Whole ==
  ASSUME IInv, [Next]_vars, NEW t \in Tabs, ~Parted(t)
  PROVE  LET s == store[t]
         IN  /\ s.user # "none" =>
                  \A n \in {storage.access, s.access} \ {NoToken} : issued'[n].user = s.user
             /\ s.stash.access # NoToken => issued'[s.stash.access].user = s.stash.user
  <1>1. store[t] \in Store /\ storage.access \in Given
    BY DEF IInv, TypeOK
  <1>2. store[t].access \in Given /\ store[t].stash \in Session
    BY <1>1 DEF Store
  <1>3. store[t].stash.access \in Given
    BY <1>2 DEF Session
  <1>4. /\ \A n \in {storage.access, store[t].access} \ {NoToken} : issued'[n] = issued[n]
        /\ store[t].stash.access # NoToken => issued'[store[t].stash.access] = issued[store[t].stash.access]
    BY <1>1, <1>2, <1>3, OwnersStay, GivenTokens DEF IInv
  <1>5. QED
    BY <1>4 DEF Parted, Owner

\* A step of one tab that leaves its store and what is in localStorage as they were.
LEMMA StaysWhole ==
  ASSUME IInv, [Next]_vars, NEW t \in Tabs, ~Parted(t), store'[t] = store[t], UNCHANGED storage
  PROVE  ~Parted(t)'
  BY Whole, NotParted

\* A store that is cleared.
LEMMA ClearedWhole ==
  ASSUME IInv, NEW t \in Tabs, store'[t] = SignedOut
  PROVE  ~Parted(t)'
  BY OutTyped, NotParted DEF IInv

\* With a single tab the user shown and the tokens in use part only as an answer comes that
\* was asked for under another user: a refreshed pair, or an identity re-synced.
THEOREM PartsByLateAnswer == Spec => PartedByLateAnswer
  <1>1. ASSUME IInv, [Next]_vars, NEW t \in Tabs, Tabs = {t}, ~Parted(t), ~Late(t) PROVE ~Parted(t)'
    <2> DEFINE s == store[t]
    <2>1. /\ s.user # "none" =>
               \A n \in {storage.access, s.access} \ {NoToken} : issued'[n].user = s.user
          /\ s.stash.access # NoToken => issued'[s.stash.access].user = s.stash.user
      BY <1>1, Whole
    <2>2. s \in Store /\ DOMAIN store = Tabs /\ s = persisted
      BY <1>1 DEF IInv, TypeOK, GateAgreesWithStore
    <2>3. CASE UNCHANGED <<store, storage>>
      BY <1>1, <2>3, StaysWhole
    <2>4. ASSUME Clear(t) PROVE ~Parted(t)'
      BY <1>1, <2>2, <2>4, ClearedWhole DEF Clear, Set
    <2>5. CASE Reload(t) \/ Unload(t)
      BY <1>1, <2>2, <2>5, StaysWhole DEF Reload, Unload, Loaded
    <2>6. CASE Login(t)
      <3>1. PICK u \in Users :
              /\ Issue(u, NextToken, valid \cup {NextToken})
              /\ storage'.access = NextToken
              /\ store'[t] = [user |-> u, access |-> NextToken, refresh |-> NextToken, stash |-> NoStash]
        BY <2>2, <2>6 DEF Login, Set
      <3>2. issued'[NextToken].user = u
        BY <1>1, <3>1, IssueFrame
      <3>3. QED
        BY <1>1, <3>1, <3>2, NotParted, OutTyped DEF IInv
    <2>7. ASSUME NEW q \in Slots, Served(t, q) PROVE ~Parted(t)'
      <3>1. CASE /\ req[t][q].kind = "me" /\ UNCHANGED storage
                 /\ Set(t, IF s.user = "none" THEN s ELSE [s EXCEPT !.user = Owner(req[t][q].tok)])
        <4>1. Owner(req[t][q].tok) = s.user
          BY <1>1, <3>1 DEF Late
        <4>2. [s EXCEPT !.user = s.user] = s
          BY <2>2 DEF Store
        <4>3. store'[t] = s
          BY <2>2, <3>1, <4>1, <4>2 DEF Set
        <4>4. QED
          BY <1>1, <3>1, <4>3, StaysWhole
      <3>2. QED
        BY <2>3, <2>4, <2>7, <3>1 DEF Served
    <2>8. ASSUME NEW q \in Slots, Failed(t, q) \/ Unauthorized(t, q) PROVE ~Parted(t)'
      <3>1. CASE Failed(t, q)
        BY <2>3, <2>4, <3>1 DEF Failed
      <3>2. CASE Unauthorized(t, q)
        BY <2>3, <2>4, <3>2 DEF Unauthorized, Kick
      <3>3. QED
        BY <2>8, <3>1, <3>2
    <2>9. ASSUME NEW q \in Slots, RefreshDone(t, q) PROVE ~Parted(t)'
      <3>1. /\ req[t][q].st = "refreshed" /\ storage'.access = req[t][q].got /\ store' = store
            /\ issued' = issued
        BY <2>9 DEF RefreshDone, server
      <3>2. issued[req[t][q].got].user = s.user
        BY <1>1, <3>1 DEF Late, Owner
      <3>3. QED
        BY <1>1, <2>1, <3>1, <3>2, NotParted
    <2>10. ASSUME NEW u \in Users, Impersonate(t, u) PROVE ~Parted(t)'
      <3>1. PICK stash, rest :
              /\ stash = IF s.stash # NoStash THEN s.stash
                         ELSE IF s.user # "none" /\ s.access # NoToken /\ s.refresh # NoToken
                              THEN [user |-> s.user, access |-> s.access, refresh |-> s.refresh]
                              ELSE NoStash
              /\ Issue(u, NextToken, rest) /\ storage'.access = NextToken
              /\ store'[t] = [user |-> u, access |-> NextToken, refresh |-> NoToken, stash |-> stash]
        BY <2>2, <2>10 DEF Impersonate, Set
      <3>2. issued'[NextToken].user = u
        BY <1>1, <3>1, IssueFrame
      <3>3. stash.access # NoToken => issued'[stash.access].user = stash.user
        BY <1>1, <2>1, <3>1, OutTyped DEF IInv
      <3>4. QED
        BY <1>1, <3>1, <3>2, <3>3, NotParted
    <2>11. CASE ExitImpersonation(t)
      <3>1. /\ storage'.access = s.stash.access
            /\ store'[t] = [user |-> s.stash.user, access |-> s.stash.access,
                            refresh |-> s.stash.refresh, stash |-> NoStash]
        BY <2>2, <2>11 DEF ExitImpersonation, Set
      <3>2. QED
        BY <1>1, <2>1, <3>1, NotParted, OutTyped DEF IInv
    <2>12. CASE Revoke \/ Navigate(t) \/ UNCHANGED vars
      BY <2>3, <2>12 DEF Revoke, Navigate, vars
    <2>13. ASSUME NEW q \in Slots, Send(t, q) \/ Refresh(t, q) \/ RefreshFailed(t, q) PROVE ~Parted(t)'
      BY <2>3, <2>4, <2>13 DEF Send, Refresh, RefreshFailed, Kick
    <2>14. CASE LogoutUnasked(t)
      BY <2>4, <2>14 DEF LogoutUnasked
    <2>15. QED
      BY <1>1, <2>5, <2>6, <2>7, <2>8, <2>9, <2>10, <2>11, <2>12, <2>13, <2>14 DEF Next, Answer
  <1>2. IInv /\ [Next]_vars =>
          [\A t \in Tabs : Tabs = {t} /\ Parted(t)' /\ ~Parted(t) => Late(t)]_vars
    BY <1>1
  <1>3. QED
    BY <1>2, Invariance, PTL DEF Spec, PartedByLateAnswer

-----------------------------------------------------------------------------
(* The tables of Workbench.                                                 *)

\* What the tables of the queries say, group by group.
LEMMA TradeRows ==
  /\ DOMAIN TradeReads = {"sales", "sales-summary", "sales-overdue-count", "overdue", "upcoming",
         "inventory", "inv-stats", "inv-low-stock", "low-stock", "inventory-picker",
         "customers-picker"}
  /\ TradeReads["sales"] = {"sale", "installment"}
  /\ TradeReads["sales-summary"] = {"sale"}
  /\ \A k \in {"sales-overdue-count", "overdue", "upcoming"} :
       TradeReads[k] = {"installment", "sale"}
  /\ \A k \in {"inventory", "inv-stats", "inv-low-stock", "low-stock", "inventory-picker"} :
       TradeReads[k] = {"item"}
  /\ TradeReads["customers-picker"] = {"customer"}
  <1>1. /\ DOMAIN SaleReads = {"sales"}
        /\ SaleReads["sales"] = {"sale", "installment"}
    BY DEF SaleReads, :>, @@
  <1>2. /\ DOMAIN DueReads = {"sales-summary", "sales-overdue-count", "overdue", "upcoming"}
        /\ DueReads["sales-summary"] = {"sale"}
        /\ \A k \in {"sales-overdue-count", "overdue", "upcoming"} :
             DueReads[k] = {"installment", "sale"}
    BY DEF DueReads, :>, @@
  <1>3. /\ DOMAIN StockReads = {"inventory", "inv-stats", "inv-low-stock", "low-stock"}
        /\ \A k \in {"inventory", "inv-stats", "inv-low-stock", "low-stock"} :
             StockReads[k] = {"item"}
    BY DEF StockReads, :>, @@
  <1>4. /\ DOMAIN PickerReads = {"inventory-picker", "customers-picker"}
        /\ PickerReads["inventory-picker"] = {"item"}
        /\ PickerReads["customers-picker"] = {"customer"}
    BY DEF PickerReads, :>, @@
  <1>5. QED
    BY <1>1, <1>2, <1>3, <1>4 DEF TradeReads, @@

LEMMA PartnerRows ==
  /\ DOMAIN PartnerReads = {"suppliers", "supplier-stats", "sup-payments", "suppliers-list",
         "customers", "search", "expenses"}
  /\ PartnerReads["suppliers"] = {"supplier", "debt", "item"}
  /\ PartnerReads["supplier-stats"] = {"supplier", "debt"}
  /\ PartnerReads["sup-payments"] = {"debt"}
  /\ PartnerReads["suppliers-list"] = {"supplier"}
  /\ PartnerReads["customers"] = {"customer", "sale"}
  /\ PartnerReads["search"] = {"customer", "supplier", "item", "sale"}
  /\ PartnerReads["expenses"] = {"expense"}
  <1>1. /\ DOMAIN SupplierReads = {"suppliers", "supplier-stats", "sup-payments", "suppliers-list"}
        /\ SupplierReads["suppliers"] = {"supplier", "debt", "item"}
        /\ SupplierReads["supplier-stats"] = {"supplier", "debt"}
        /\ SupplierReads["sup-payments"] = {"debt"}
        /\ SupplierReads["suppliers-list"] = {"supplier"}
    BY DEF SupplierReads, :>, @@
  <1>2. /\ DOMAIN CustomerReads = {"customers"}
        /\ CustomerReads["customers"] = {"customer", "sale"}
    BY DEF CustomerReads, :>, @@
  <1>3. /\ DOMAIN SearchReads = {"search"}
        /\ SearchReads["search"] = {"customer", "supplier", "item", "sale"}
    BY DEF SearchReads, :>, @@
  <1>4. /\ DOMAIN ExpenseReads = {"expenses"}
        /\ ExpenseReads["expenses"] = {"expense"}
    BY DEF ExpenseReads, :>, @@
  <1>5. QED
    BY <1>1, <1>2, <1>3, <1>4 DEF PartnerReads, @@

LEMMA CachedRows ==
  /\ DOMAIN CachedReads = {"kpis", "chart", "revenue", "top-items", "monthly", "profit-bd",
         "net-profit"}
  /\ CachedReads["kpis"] = {"sale", "item", "customer", "installment", "debt"}
  /\ \A k \in {"chart", "revenue", "profit-bd", "top-items", "monthly"} :
       CachedReads[k] = {"sale"}
  /\ CachedReads["net-profit"] = {"sale", "expense"}
  BY DEF CachedReads, FigureReads, BestSellers, ProfitReads, :>, @@

LEMMA PaperRows ==
  /\ DOMAIN PaperReads = {"invoice", "activity", "recent-activity"}
  /\ PaperReads["invoice"] = {"sale", "installment"}
  /\ \A k \in {"activity", "recent-activity"} :
       PaperReads[k] = {"trail"}
  BY DEF PaperReads, InvoiceReads, TrailReads, :>, @@

LEMMA OfficeRows ==
  /\ DOMAIN OfficeReads = {"home-account-status", "billing-status", "billing-payments",
         "billing-current", "tenant-users", "notifications", "showroom-profile"}
  /\ \A k \in {"home-account-status", "billing-status"} :
       OfficeReads[k] = {"plan", "claim", "onboarded", "staff"}
  /\ OfficeReads["billing-payments"] = {"claim"}
  /\ OfficeReads["billing-current"] = {"plan"}
  /\ OfficeReads["tenant-users"] = {"staff"}
  /\ OfficeReads["notifications"] = {"bell"}
  /\ OfficeReads["showroom-profile"] = {"onboarded"}
  <1>1. /\ DOMAIN AccountReads = {"home-account-status", "billing-status"}
        /\ \A k \in {"home-account-status", "billing-status"} :
             AccountReads[k] = {"plan", "claim", "onboarded", "staff"}
    BY DEF AccountReads, :>, @@
  <1>2. /\ DOMAIN ClaimReads = {"billing-payments", "billing-current"}
        /\ ClaimReads["billing-payments"] = {"claim"}
        /\ ClaimReads["billing-current"] = {"plan"}
    BY DEF ClaimReads, :>, @@
  <1>3. /\ DOMAIN StaffReads = {"tenant-users"}
        /\ StaffReads["tenant-users"] = {"staff"}
    BY DEF StaffReads, :>, @@
  <1>4. /\ DOMAIN BellReads = {"notifications"}
        /\ BellReads["notifications"] = {"bell"}
    BY DEF BellReads, :>, @@
  <1>5. /\ DOMAIN ProfileOfShowroom = {"showroom-profile"}
        /\ ProfileOfShowroom["showroom-profile"] = {"onboarded"}
    BY DEF ProfileOfShowroom, :>, @@
  <1>6. QED
    BY <1>1, <1>2, <1>3, <1>4, <1>5 DEF OfficeReads, @@

LEMMA OperatorRows ==
  /\ DOMAIN OperatorReads = {"admin-payments", "admin-payment", "admin-sub-health",
         "admin-platform-subscriptions", "admin-showrooms", "admin-users", "admin-audit",
         "admin-prof", "admin-profiles", "profiles-select", "admin-admins", "superadmin-users",
         "superadmin-reset-requests", "subscriptions", "subscriptions-summary", "showrooms",
         "showroom-stats"}
  /\ \A k \in {"admin-payments", "admin-payment"} :
       OperatorReads[k] = {"claim"}
  /\ \A k \in {"admin-sub-health", "admin-platform-subscriptions"} :
       OperatorReads[k] = {"plan", "claim"}
  /\ \A k \in {"admin-showrooms", "showrooms"} :
       OperatorReads[k] = {"showroom"}
  /\ OperatorReads["admin-users"] = {"staff"}
  /\ OperatorReads["admin-audit"] = {"trail"}
  /\ \A k \in {"admin-prof", "profiles-select"} :
       OperatorReads[k] = {"profile"}
  /\ OperatorReads["admin-profiles"] = {"profile", "administrator"}
  /\ OperatorReads["admin-admins"] = {"administrator", "profile"}
  /\ OperatorReads["superadmin-users"] = {"staff", "administrator"}
  /\ OperatorReads["superadmin-reset-requests"] = {"wish"}
  /\ OperatorReads["subscriptions"] = {"plan", "showroom"}
  /\ OperatorReads["subscriptions-summary"] = {"plan"}
  /\ OperatorReads["showroom-stats"] = {"sale", "item", "staff"}
  <1>1. /\ DOMAIN PaymentReads = {"admin-payments", "admin-payment", "admin-sub-health",
         "admin-platform-subscriptions"}
        /\ \A k \in {"admin-payments", "admin-payment"} :
             PaymentReads[k] = {"claim"}
        /\ \A k \in {"admin-sub-health", "admin-platform-subscriptions"} :
             PaymentReads[k] = {"plan", "claim"}
    BY DEF PaymentReads, :>, @@
  <1>2. /\ DOMAIN PlatformReads = {"admin-showrooms", "admin-users", "admin-audit"}
        /\ PlatformReads["admin-showrooms"] = {"showroom"}
        /\ PlatformReads["admin-users"] = {"staff"}
        /\ PlatformReads["admin-audit"] = {"trail"}
    BY DEF PlatformReads, :>, @@
  <1>3. /\ DOMAIN AuthorityReads = {"admin-prof", "admin-profiles", "profiles-select",
                                    "admin-admins"}
        /\ \A k \in {"admin-prof", "profiles-select"} :
             AuthorityReads[k] = {"profile"}
        /\ AuthorityReads["admin-profiles"] = {"profile", "administrator"}
        /\ AuthorityReads["admin-admins"] = {"administrator", "profile"}
    BY DEF AuthorityReads, :>, @@
  <1>4. /\ DOMAIN PeopleReads = {"superadmin-users", "superadmin-reset-requests"}
        /\ PeopleReads["superadmin-users"] = {"staff", "administrator"}
        /\ PeopleReads["superadmin-reset-requests"] = {"wish"}
    BY DEF PeopleReads, :>, @@
  <1>5. /\ DOMAIN LicenceReads = {"subscriptions", "subscriptions-summary"}
        /\ LicenceReads["subscriptions"] = {"plan", "showroom"}
        /\ LicenceReads["subscriptions-summary"] = {"plan"}
    BY DEF LicenceReads, :>, @@
  <1>6. /\ DOMAIN ShowroomReads = {"showrooms", "showroom-stats"}
        /\ ShowroomReads["showrooms"] = {"showroom"}
        /\ ShowroomReads["showroom-stats"] = {"sale", "item", "staff"}
    BY DEF ShowroomReads, :>, @@
  <1>7. /\ DOMAIN OperatorReads = DOMAIN PaymentReads \cup DOMAIN PlatformReads
           \cup DOMAIN AuthorityReads
                                \cup DOMAIN PeopleReads \cup DOMAIN LicenceReads
                                    \cup DOMAIN ShowroomReads
        /\ \A k \in DOMAIN PaymentReads   : OperatorReads[k] = PaymentReads[k]
        /\ \A k \in DOMAIN PlatformReads  : OperatorReads[k] = PlatformReads[k]
        /\ \A k \in DOMAIN AuthorityReads : OperatorReads[k] = AuthorityReads[k]
        /\ \A k \in DOMAIN PeopleReads    : OperatorReads[k] = PeopleReads[k]
        /\ \A k \in DOMAIN LicenceReads   : OperatorReads[k] = LicenceReads[k]
        /\ \A k \in DOMAIN ShowroomReads  : OperatorReads[k] = ShowroomReads[k]
    <2>1. /\ DOMAIN PaymentReads \cap (DOMAIN PlatformReads \cup DOMAIN AuthorityReads
             \cup DOMAIN PeopleReads
                                     \cup DOMAIN LicenceReads \cup DOMAIN ShowroomReads) = {}
          /\ DOMAIN PlatformReads \cap (DOMAIN AuthorityReads \cup DOMAIN PeopleReads
                                     \cup DOMAIN LicenceReads \cup DOMAIN ShowroomReads) = {}
          /\ DOMAIN AuthorityReads \cap (DOMAIN PeopleReads \cup DOMAIN LicenceReads
                                     \cup DOMAIN ShowroomReads) = {}
          /\ DOMAIN PeopleReads \cap (DOMAIN LicenceReads \cup DOMAIN ShowroomReads) = {}
          /\ DOMAIN LicenceReads \cap DOMAIN ShowroomReads = {}
      BY <1>1, <1>2, <1>3, <1>4, <1>5, <1>6
    <2>2. QED
      BY <2>1 DEF OperatorReads, @@
  <1>8. QED
    BY <1>1, <1>2, <1>3, <1>4, <1>5, <1>6, <1>7

\* The keys of the groups are apart: a key reads what its group says.
LEMMA ReadsOf ==
  /\ DOMAIN Reads = Keys /\ Cached = DOMAIN CachedReads
  /\ Keys = DOMAIN BusinessReads \cup DOMAIN PaperReads \cup DOMAIN OfficeReads
      \cup DOMAIN OperatorReads
  /\ DOMAIN BusinessReads = DOMAIN TradeReads \cup DOMAIN PartnerReads \cup DOMAIN CachedReads
  /\ DOMAIN BusinessReads \cap (DOMAIN PaperReads \cup DOMAIN OfficeReads
      \cup DOMAIN OperatorReads) = {}
  /\ DOMAIN PaperReads \cap (DOMAIN OfficeReads \cup DOMAIN OperatorReads) = {}
  /\ \A k \in DOMAIN TradeReads    : Reads[k] = TradeReads[k]
  /\ \A k \in DOMAIN PartnerReads  : Reads[k] = PartnerReads[k]
  /\ \A k \in DOMAIN CachedReads   : Reads[k] = CachedReads[k]
  /\ \A k \in DOMAIN PaperReads    : Reads[k] = PaperReads[k]
  /\ \A k \in DOMAIN OfficeReads   : Reads[k] = OfficeReads[k]
  /\ \A k \in DOMAIN OperatorReads : Reads[k] = OperatorReads[k]
  <1>1. /\ DOMAIN TradeReads \cap (DOMAIN PartnerReads \cup DOMAIN CachedReads) = {}
        /\ DOMAIN PartnerReads \cap DOMAIN CachedReads = {}
    BY TradeRows, PartnerRows, CachedRows
  <1>2. /\ DOMAIN BusinessReads = DOMAIN TradeReads \cup DOMAIN PartnerReads \cup DOMAIN CachedReads
        /\ \A k \in DOMAIN TradeReads   : BusinessReads[k] = TradeReads[k]
        /\ \A k \in DOMAIN PartnerReads : BusinessReads[k] = PartnerReads[k]
        /\ \A k \in DOMAIN CachedReads  : BusinessReads[k] = CachedReads[k]
    BY <1>1 DEF BusinessReads, @@
  <1>3. \A k \in DOMAIN PaperReads :
          k \notin DOMAIN BusinessReads \cup DOMAIN OfficeReads \cup DOMAIN OperatorReads
    BY <1>2, TradeRows, PartnerRows, CachedRows, PaperRows, OfficeRows, OperatorRows
  <1>4. \A k \in DOMAIN OfficeReads : k \notin DOMAIN BusinessReads \cup DOMAIN OperatorReads
    BY <1>2, TradeRows, PartnerRows, CachedRows, OfficeRows, OperatorRows
  <1>5. \A k \in DOMAIN OperatorReads : k \notin DOMAIN BusinessReads
    BY <1>2, TradeRows, PartnerRows, CachedRows, OperatorRows
  <1>6. QED
    BY <1>2, <1>3, <1>4, <1>5 DEF Reads, Keys, Cached, @@

\* The writes by their names.
LEMMA OpsAre ==
  /\ DOMAIN Ops = DOMAIN BusinessWrites \cup DOMAIN AccountWrites \cup DOMAIN PlatformWrites
  /\ DOMAIN BusinessWrites = {"CreateSale", "CancelSale", "PayInstallment", "PayLast", "CreateCustomer",
         "UpdateCustomer", "DeactivateCustomer", "ReactivateCustomer", "CreateSupplier",
         "UpdateSupplier", "DeactivateSupplier", "ReactivateSupplier", "PaySupplier",
         "CreateItem", "UpdateItem", "RemoveItem", "BulkCreate", "ReactivateItem",
         "CreateExpense", "UpdateExpense", "RemoveExpense"}
  /\ DOMAIN AccountWrites = {"CreateStaff", "DisableStaff", "EnableStaff", "RequestPlan", "RenewPlan",
         "AttachProof", "CancelClaim", "ReadBell", "Onboard", "SaveBusiness"}
  /\ DOMAIN PlatformWrites = {"ApprovePayment", "RejectPayment", "SaveProfile", "DeleteProfile",
         "SaveAdministrator", "ToggleAdministrator", "SaveUser", "ResetPassword", "RenewLicense",
         "CreateShowroom", "ToggleShowroom"}
  /\ \A op \in DOMAIN BusinessWrites : Ops[op] = BusinessWrites[op]
  /\ \A op \in DOMAIN AccountWrites  : Ops[op] = AccountWrites[op]
  /\ \A op \in DOMAIN PlatformWrites : Ops[op] = PlatformWrites[op]
  <1>1. DOMAIN BusinessWrites = {"CreateSale", "CancelSale", "PayInstallment", "PayLast", "CreateCustomer",
           "UpdateCustomer", "DeactivateCustomer", "ReactivateCustomer", "CreateSupplier",
           "UpdateSupplier", "DeactivateSupplier", "ReactivateSupplier", "PaySupplier",
           "CreateItem", "UpdateItem", "RemoveItem", "BulkCreate", "ReactivateItem",
           "CreateExpense", "UpdateExpense", "RemoveExpense"}
    BY DEF BusinessWrites
  <1>2. DOMAIN AccountWrites = {"CreateStaff", "DisableStaff", "EnableStaff", "RequestPlan", "RenewPlan",
           "AttachProof", "CancelClaim", "ReadBell", "Onboard", "SaveBusiness"}
    BY DEF AccountWrites
  <1>3. DOMAIN PlatformWrites = {"ApprovePayment", "RejectPayment", "SaveProfile",
           "DeleteProfile", "SaveAdministrator", "ToggleAdministrator", "SaveUser",
           "ResetPassword", "RenewLicense", "CreateShowroom", "ToggleShowroom"}
    BY DEF PlatformWrites
  <1>4. /\ DOMAIN BusinessWrites \cap (DOMAIN AccountWrites \cup DOMAIN PlatformWrites) = {}
        /\ DOMAIN AccountWrites \cap DOMAIN PlatformWrites = {}
    BY <1>1, <1>2, <1>3
  <1>5. QED
    BY <1>1, <1>2, <1>3, <1>4 DEF Ops, @@

\* A write by its fields.
LEMMA OpHas ==
  ASSUME NEW may, NEW needs, NEW sets, NEW marks
  PROVE  LET o == Op(may, needs, sets, marks)
         IN  /\ o.may = may /\ o.needs = needs /\ o.marks = marks
             /\ DOMAIN o.sets = DOMAIN sets \cup {"trail"}
             /\ \A x \in DOMAIN sets : o.sets[x] = sets[x]
             /\ "trail" \notin DOMAIN sets => o.sets["trail"] = "more"
  BY DEF Op, @@

\* Each name stands for its write.
LEMMA BusinessAre ==
  /\ Ops["CreateSale"] = CreateSale
  /\ Ops["CancelSale"] = CancelSale
  /\ Ops["PayInstallment"] = PayInstallment
  /\ Ops["PayLast"] = PayLast
  /\ Ops["CreateCustomer"] = CreateCustomer
  /\ Ops["UpdateCustomer"] = UpdateCustomer
  /\ Ops["DeactivateCustomer"] = DeactivateCustomer
  /\ Ops["ReactivateCustomer"] = ReactivateCustomer
  /\ Ops["CreateSupplier"] = CreateSupplier
  /\ Ops["UpdateSupplier"] = UpdateSupplier
  /\ Ops["DeactivateSupplier"] = DeactivateSupplier
  /\ Ops["ReactivateSupplier"] = ReactivateSupplier
  /\ Ops["PaySupplier"] = PaySupplier
  /\ Ops["CreateItem"] = CreateItem
  /\ Ops["UpdateItem"] = UpdateItem
  /\ Ops["RemoveItem"] = RemoveItem
  /\ Ops["BulkCreate"] = BulkCreate
  /\ Ops["ReactivateItem"] = ReactivateItem
  /\ Ops["CreateExpense"] = CreateExpense
  /\ Ops["UpdateExpense"] = UpdateExpense
  /\ Ops["RemoveExpense"] = RemoveExpense
  BY OpsAre DEF BusinessWrites

LEMMA AccountAre ==
  /\ Ops["CreateStaff"] = CreateStaff
  /\ Ops["DisableStaff"] = DisableStaff
  /\ Ops["EnableStaff"] = EnableStaff
  /\ Ops["RequestPlan"] = RequestPlan
  /\ Ops["RenewPlan"] = RenewPlan
  /\ Ops["AttachProof"] = AttachProof
  /\ Ops["CancelClaim"] = CancelClaim
  /\ Ops["ReadBell"] = ReadBell
  /\ Ops["Onboard"] = Onboard
  /\ Ops["SaveBusiness"] = SaveBusiness
  BY OpsAre DEF AccountWrites

LEMMA PlatformAre ==
  /\ Ops["ApprovePayment"] = ApprovePayment
  /\ Ops["RejectPayment"] = RejectPayment
  /\ Ops["SaveProfile"] = SaveProfile
  /\ Ops["DeleteProfile"] = DeleteProfile
  /\ Ops["SaveAdministrator"] = SaveAdministrator
  /\ Ops["ToggleAdministrator"] = ToggleAdministrator
  /\ Ops["SaveUser"] = SaveUser
  /\ Ops["ResetPassword"] = ResetPassword
  /\ Ops["RenewLicense"] = RenewLicense
  /\ Ops["CreateShowroom"] = CreateShowroom
  /\ Ops["ToggleShowroom"] = ToggleShowroom
  BY OpsAre DEF PlatformWrites

\* What a write sets and marks; it sets statuses there are, and closes no business again.
Harmless(o) ==
  \A x \in DOMAIN o.sets :
    /\ x \in DOMAIN Statuses /\ o.sets[x] \in Statuses[x]
    /\ x = "plan" => o.sets[x] # "trial"
    /\ x = "claim" => o.sets[x] # "none"
    /\ x = "onboarded" => o.sets[x] = "yes"
Writes(o, rows, marks) == DOMAIN o.sets = rows /\ o.marks = marks /\ Harmless(o)

LEMMA StatusesAre ==
  /\ DOMAIN Statuses = {"sale", "item", "installment", "customer", "supplier", "debt", "expense",
         "staff", "plan", "claim", "onboarded", "bell", "showroom", "profile", "administrator",
         "wish", "trail"}
  /\ Statuses.sale = {"none", "ACTIVE", "more", "COMPLETED", "CANCELLED"}
  /\ Statuses.item = {"none", "IN_STOCK", "more", "SOLD", "archived"}
  /\ Statuses.installment = {"none", "due", "some", "paid"}
  /\ Statuses.customer = {"active", "archived", "more"}
  /\ Statuses.supplier = {"active", "archived", "more"}
  /\ Statuses.debt = {"owed", "settled"}
  /\ Statuses.expense = {"there", "more", "gone"}
  /\ Statuses.staff = {"active", "inactive", "more", "full"}
  /\ Statuses.plan = {"trial", "running"}
  /\ Statuses.claim = {"none", "PENDING", "closed"}
  /\ Statuses.onboarded = {"no", "yes"}
  /\ Statuses.bell = {"unread", "read"}
  /\ Statuses.showroom = {"active", "inactive", "more"}
  /\ Statuses.profile = {"carried", "more", "gone"}
  /\ Statuses.administrator = {"active", "inactive", "more"}
  /\ Statuses.wish = {"asked", "answered"}
  /\ Statuses.trail = {"some", "more"}
  BY DEF Statuses

\* What each write sets, beside the trail, and the keys it marks.
LEMMA BusinessWriteRows ==
  /\ Writes(Ops["CreateSale"], {"sale", "item", "installment", "trail"}, SaleKeys \cup StockKeys)
  /\ Writes(Ops["CancelSale"], {"sale", "item", "trail"}, SaleKeys \cup StockKeys)
  /\ Writes(Ops["PayInstallment"], {"installment", "trail"}, PayKeys)
  /\ Writes(Ops["PayLast"], {"installment", "sale", "trail"}, PayKeys)
  /\ Writes(Ops["CreateCustomer"], {"customer", "trail"}, CustomerKeys)
  /\ Writes(Ops["UpdateCustomer"], {"customer", "trail"}, CustomerKeys)
  /\ Writes(Ops["DeactivateCustomer"], {"customer", "trail"}, CustomerKeys)
  /\ Writes(Ops["ReactivateCustomer"], {"customer", "trail"}, CustomerKeys)
  /\ Writes(Ops["CreateSupplier"], {"supplier", "trail"}, SupplierKeys)
  /\ Writes(Ops["UpdateSupplier"], {"supplier", "trail"}, SupplierKeys)
  /\ Writes(Ops["DeactivateSupplier"], {"supplier", "trail"}, SupplierKeys)
  /\ Writes(Ops["ReactivateSupplier"], {"supplier", "trail"}, {"suppliers", "supplier-stats"})
  /\ Writes(Ops["PaySupplier"], {"debt", "trail"}, SupplierKeys)
  /\ Writes(Ops["CreateItem"], {"item", "trail"}, StockKeys)
  /\ Writes(Ops["UpdateItem"], {"item", "trail"}, StockKeys)
  /\ Writes(Ops["RemoveItem"], {"item", "trail"}, StockKeys)
  /\ Writes(Ops["BulkCreate"], {"item", "trail"}, StockKeys)
  /\ Writes(Ops["ReactivateItem"], {"item", "trail"}, StockKeys)
  /\ Writes(Ops["CreateExpense"], {"expense", "trail"}, ExpenseKeys)
  /\ Writes(Ops["UpdateExpense"], {"expense", "trail"}, ExpenseKeys)
  /\ Writes(Ops["RemoveExpense"], {"expense", "trail"}, ExpenseKeys)
  <1>1. /\ Writes(Ops["CreateSale"], {"sale", "item", "installment", "trail"},
                     SaleKeys \cup StockKeys)
        /\ Writes(Ops["CancelSale"], {"sale", "item", "trail"},
                     SaleKeys \cup StockKeys)
        /\ Writes(Ops["PayInstallment"], {"installment", "trail"}, PayKeys)
        /\ Writes(Ops["PayLast"], {"installment", "sale", "trail"}, PayKeys)
        /\ Writes(Ops["CreateCustomer"], {"customer", "trail"}, CustomerKeys)
        /\ Writes(Ops["UpdateCustomer"], {"customer", "trail"}, CustomerKeys)
        /\ Writes(Ops["DeactivateCustomer"], {"customer", "trail"}, CustomerKeys)
        /\ Writes(Ops["ReactivateCustomer"], {"customer", "trail"}, CustomerKeys)
        /\ Writes(Ops["CreateSupplier"], {"supplier", "trail"}, SupplierKeys)
        /\ Writes(Ops["UpdateSupplier"], {"supplier", "trail"}, SupplierKeys)
        /\ Writes(Ops["DeactivateSupplier"], {"supplier", "trail"}, SupplierKeys)
    BY OpHas, StatusesAre, BusinessAre DEF CreateSale, CancelSale, PayInstallment, PayLast, CreateCustomer,
           UpdateCustomer, DeactivateCustomer, ReactivateCustomer, CreateSupplier, UpdateSupplier,
           DeactivateSupplier, Anyway, Writes, Harmless
  <1>2. /\ Writes(Ops["ReactivateSupplier"], {"supplier", "trail"},
                     {"suppliers", "supplier-stats"})
        /\ Writes(Ops["PaySupplier"], {"debt", "trail"}, SupplierKeys)
        /\ Writes(Ops["CreateItem"], {"item", "trail"}, StockKeys)
        /\ Writes(Ops["UpdateItem"], {"item", "trail"}, StockKeys)
        /\ Writes(Ops["RemoveItem"], {"item", "trail"}, StockKeys)
        /\ Writes(Ops["BulkCreate"], {"item", "trail"}, StockKeys)
        /\ Writes(Ops["ReactivateItem"], {"item", "trail"}, StockKeys)
        /\ Writes(Ops["CreateExpense"], {"expense", "trail"}, ExpenseKeys)
        /\ Writes(Ops["UpdateExpense"], {"expense", "trail"}, ExpenseKeys)
        /\ Writes(Ops["RemoveExpense"], {"expense", "trail"}, ExpenseKeys)
    BY OpHas, StatusesAre, BusinessAre DEF ReactivateSupplier, PaySupplier, CreateItem,
           UpdateItem, RemoveItem, BulkCreate, ReactivateItem, CreateExpense, UpdateExpense,
           RemoveExpense, Anyway, Writes, Harmless
  <1>3. QED
    BY <1>1, <1>2

LEMMA AccountWriteRows ==
  /\ Writes(Ops["CreateStaff"], {"staff", "trail"}, StaffKeys)
  /\ Writes(Ops["DisableStaff"], {"staff", "trail"}, StaffKeys \cup {"billing-status"})
  /\ Writes(Ops["EnableStaff"], {"staff", "trail"}, StaffKeys \cup {"billing-status"})
  /\ Writes(Ops["RequestPlan"], {"claim", "trail"}, BillingKeys)
  /\ Writes(Ops["RenewPlan"], {"claim", "trail"}, BillingKeys)
  /\ Writes(Ops["AttachProof"], {"claim", "trail"}, BillingKeys)
  /\ Writes(Ops["CancelClaim"], {"claim", "trail"}, BillingKeys)
  /\ Writes(Ops["ReadBell"], {"bell"}, {"notifications"})
  /\ Writes(Ops["Onboard"], {"onboarded", "trail"}, {})
  /\ Writes(Ops["SaveBusiness"], {"onboarded", "trail"}, {"showroom-profile"})
  BY OpHas, StatusesAre, AccountAre DEF CreateStaff, DisableStaff, EnableStaff, RequestPlan,
         RenewPlan, AttachProof, CancelClaim, ReadBell, Onboard, SaveBusiness, Anyway, Writes, Harmless

LEMMA PlatformWriteRows ==
  /\ Writes(Ops["ApprovePayment"], {"plan", "claim", "trail"}, PaymentKeys)
  /\ Writes(Ops["RejectPayment"], {"claim", "trail"}, PaymentKeys)
  /\ Writes(Ops["SaveProfile"], {"profile", "trail"}, ProfileKeys)
  /\ Writes(Ops["DeleteProfile"], {"profile", "trail"}, ProfileKeys)
  /\ Writes(Ops["SaveAdministrator"], {"administrator", "trail"}, {"admin-admins"})
  /\ Writes(Ops["ToggleAdministrator"], {"administrator", "trail"}, {"admin-admins"})
  /\ Writes(Ops["SaveUser"], {"staff", "trail"}, {"superadmin-users"})
  /\ Writes(Ops["ResetPassword"], {"wish", "trail"}, {})
  /\ Writes(Ops["RenewLicense"], {"plan", "trail"}, {"subscriptions", "subscriptions-summary"})
  /\ Writes(Ops["CreateShowroom"], {"showroom", "trail"}, {"showrooms"})
  /\ Writes(Ops["ToggleShowroom"], {"showroom", "trail"}, {"showrooms"})
  BY OpHas, StatusesAre, PlatformAre DEF ApprovePayment, RejectPayment, SaveProfile,
         DeleteProfile, SaveAdministrator, ToggleAdministrator, SaveUser, ResetPassword,
         RenewLicense, CreateShowroom, ToggleShowroom, Anyway, Writes, Harmless

\* A key reads rows there are.
LEMMA ReadRows == \A k \in Keys : Reads[k] \subseteq DOMAIN Statuses
  BY ReadsOf, StatusesAre, TradeRows, PartnerRows, CachedRows, PaperRows, OfficeRows, OperatorRows

\* The panels: what they show, and the writes they offer.
Bears(panel, keys, ops) == panel.shows = keys /\ \A offer \in panel.offers : offer.op \in ops
LEMMA PanelRows ==
  /\ Bears(Frame, {"notifications"}, {"ReadBell"})
  /\ Bears(Home, {"home-account-status"}, {})
  /\ Bears(HomeFigures, {"kpis", "chart"}, {})
  /\ Bears(HomeLists, {"overdue", "upcoming", "low-stock"}, {})
  /\ Bears(HomeTrail, {"recent-activity"}, {})
  /\ Bears(Welcome, {}, {"Onboard"})
  /\ Bears(Settings, {"showroom-profile"}, {"SaveBusiness"})
  /\ Bears(SalesTable, SaleKeys, {"CancelSale"})
  /\ Bears(SaleForm, {"inventory-picker", "customers-picker"}, {"CreateCustomer", "CreateSale"})
  /\ Bears(SaleDrawer, {"sales"}, {"CancelSale", "PayInstallment", "PayLast"})
  /\ Bears(DueTables, {"overdue", "upcoming"}, {"PayInstallment", "PayLast"})
  /\ Bears(InvoicePaper, {"invoice"}, {})
  /\ Bears(Charts, Cached \ {"chart"}, {})
  /\ Bears(StockTable, StockKeys \cup {"suppliers-list"}, {"UpdateItem", "RemoveItem"})
  /\ Bears(StockForms, {}, {"CreateItem", "BulkCreate"})
  /\ Bears(StockArchive, {"inventory"}, {"ReactivateItem"})
  /\ Bears(SupplierTable, {"suppliers", "supplier-stats"}, {"DeactivateSupplier"})
  /\ Bears(SupplierForms, {}, {"CreateSupplier"})
  /\ Bears(SupplierSheet, {"suppliers", "sup-payments"}, {"UpdateSupplier", "PaySupplier"})
  /\ Bears(SupplierArchive, {"suppliers"}, {"ReactivateSupplier"})
  /\ Bears(CustomerTable, {"customers"}, {"DeactivateCustomer"})
  /\ Bears(CustomerForms, {"customers"}, {"CreateCustomer", "UpdateCustomer"})
  /\ Bears(CustomerArchive, {"customers"}, {"ReactivateCustomer"})
  /\ Bears(ExpenseTable, {"expenses"}, {"RemoveExpense"})
  /\ Bears(ExpenseForms, {"expenses"}, {"CreateExpense", "UpdateExpense"})
  /\ Bears(StaffTable, {"tenant-users", "home-account-status"}, 
              {"CreateStaff", "DisableStaff", "EnableStaff"})
  /\ Bears(TrailTable, {"activity"}, {})
  /\ Bears(BillingState, {"billing-status", "billing-payments"}, {})
  /\ Bears(PlanCards, {"billing-status"}, {"RequestPlan"})
  /\ Bears(ActivePlan, {"billing-status"}, {"RenewPlan"})
  /\ Bears(PendingClaim, {"billing-payments", "billing-current"}, {"AttachProof", "CancelClaim"})
  /\ Bears(PastClaims, {"billing-payments"}, {})
  /\ Bears(RenewCards, {"billing-status"}, {"RenewPlan"})
  /\ Bears(PlatformHome,
              {"admin-prof", "admin-admins", "admin-users", "admin-showrooms", "admin-sub-health",
                  "admin-payments"},
              {})
  /\ Bears(PaymentTable, {"admin-payments"}, {})
  /\ Bears(PaymentModal, {"admin-payment"}, {"ApprovePayment", "RejectPayment"})
  /\ Bears(Inbox, {"notifications"}, {"ReadBell"})
  /\ Bears(Search, {"search"}, {})
  /\ Bears(PlatformUsers, {"admin-users"}, {})
  /\ Bears(PlatformShowrooms, {"admin-showrooms"}, {})
  /\ Bears(PlatformPlans, {"admin-platform-subscriptions"}, {})
  /\ Bears(ProfileTable, {"admin-profiles"}, {"SaveProfile", "DeleteProfile"})
  /\ Bears(AdministratorTable, {"admin-admins", "profiles-select"},
              {"SaveAdministrator", "ToggleAdministrator"})
  /\ Bears(AuditTable, {"admin-audit"}, {})
  /\ Bears(PeopleTable, {"superadmin-users", "superadmin-reset-requests"},
              {"SaveUser", "ResetPassword"})
  /\ Bears(LicenseTable, {"subscriptions", "subscriptions-summary"}, {"RenewLicense"})
  /\ Bears(ShowroomTable, {"showrooms", "showroom-stats"}, {"CreateShowroom", "ToggleShowroom"})
  BY DEF Frame, Home, HomeFigures, HomeLists, HomeTrail, Welcome, Settings, SalesTable, SaleForm,
         SaleDrawer, DueTables, InvoicePaper, Charts, StockTable, StockForms, StockArchive,
         SupplierTable, SupplierForms, SupplierSheet, SupplierArchive, CustomerTable,
         CustomerForms, CustomerArchive, ExpenseTable, ExpenseForms, StaffTable, TrailTable,
         BillingState, PlanCards, ActivePlan, PendingClaim, PastClaims, RenewCards, PlatformHome,
         PaymentTable, PaymentModal, Inbox, Search, PlatformUsers, PlatformShowrooms,
         PlatformPlans, ProfileTable, AdministratorTable, AuditTable, PeopleTable, LicenseTable,
         ShowroomTable, PayButtons, Bears, Panel, Button, Form, Anyway

\* The pages by their names.
LEMMA PagesAre ==
  /\ DOMAIN Pages = {"dashboard", "ownDashboard", "onboarding", "settings", "sales", "saleForm",
         "saleDrawer", "installments", "invoices", "analytics", "inventory", "oldInventory",
         "suppliers", "oldSuppliers", "customers", "oldCustomers", "expenses", "users",
         "activity", "billing", "renewing", "admin", "payments", "inbox", "search", "adminUsers",
         "adminShowrooms", "plans", "profiles", "administrators", "audit", "superUsers",
         "licences", "showrooms"}
  /\ Pages["dashboard"] = {Home, HomeFigures, HomeLists}
  /\ Pages["ownDashboard"] = {Home, HomeFigures, HomeLists, HomeTrail}
  /\ Pages["onboarding"] = {Welcome}
  /\ Pages["settings"] = {Settings}
  /\ Pages["sales"] = {SalesTable}
  /\ Pages["saleForm"] = {SalesTable, SaleForm}
  /\ Pages["saleDrawer"] = {SalesTable, SaleDrawer}
  /\ Pages["installments"] = {DueTables}
  /\ Pages["invoices"] = {InvoicePaper}
  /\ Pages["analytics"] = {Charts}
  /\ Pages["inventory"] = {StockTable, StockForms}
  /\ Pages["oldInventory"] = {StockArchive}
  /\ Pages["suppliers"] = {SupplierTable, SupplierForms, SupplierSheet}
  /\ Pages["oldSuppliers"] = {SupplierArchive}
  /\ Pages["customers"] = {CustomerTable, CustomerForms}
  /\ Pages["oldCustomers"] = {CustomerArchive}
  /\ Pages["expenses"] = {ExpenseTable, ExpenseForms}
  /\ Pages["users"] = {StaffTable}
  /\ Pages["activity"] = {TrailTable}
  /\ Pages["billing"] = {BillingState, PlanCards, ActivePlan, PendingClaim, PastClaims}
  /\ Pages["renewing"] = {BillingState, RenewCards, PendingClaim, PastClaims}
  /\ Pages["admin"] = {PlatformHome}
  /\ Pages["payments"] = {PaymentTable, PaymentModal}
  /\ Pages["inbox"] = {Inbox}
  /\ Pages["search"] = {Search}
  /\ Pages["adminUsers"] = {PlatformUsers}
  /\ Pages["adminShowrooms"] = {PlatformShowrooms}
  /\ Pages["plans"] = {PlatformPlans}
  /\ Pages["profiles"] = {ProfileTable}
  /\ Pages["administrators"] = {AdministratorTable}
  /\ Pages["audit"] = {AuditTable}
  /\ Pages["superUsers"] = {PeopleTable}
  /\ Pages["licences"] = {LicenseTable}
  /\ Pages["showrooms"] = {ShowroomTable}
  BY DEF Pages

\* An offer against what the server asks: who and on which row, but for what it refuses anyway.
Allowed(offer, x) == IF x \in DOMAIN offer.when THEN offer.when[x] ELSE Statuses[x]
Fits(offer, p) ==
  LET op == offer.op
  IN  /\ op \in DOMAIN Ops
      /\ \A who \in offer.by \ Ops[op].may :
           op = "CancelSale" /\ who = "STAFF" /\ p = "saleDrawer"
      /\ offer.on = "none" => DOMAIN Ops[op].needs = {}
      /\ offer.on # "none" =>
           /\ offer.on \in Keys /\ DOMAIN offer.when \subseteq Reads[offer.on]
           /\ op \in DOMAIN BusinessWrites => offer.on \in DOMAIN BusinessReads
           /\ \A x \in DOMAIN Ops[op].needs : \A s \in Allowed(offer, x) :
                s \in Ops[op].needs[x] \/ <<op, x, s>> \in RefusedAnyway

\* Every offer of every page fits what the server asks.
LEMMA OffersFit == \A p \in DOMAIN Pages : \A offer \in Offers[p] : Fits(offer, p)
  <1> SUFFICES ASSUME NEW p \in DOMAIN Pages, NEW panel \in Panels(p), NEW offer \in panel.offers
               PROVE  Fits(offer, p)
    BY DEF Offers
  <1>1. \/ panel \in {Home, HomeFigures, HomeLists, HomeTrail, InvoicePaper, Charts, TrailTable,
                    BillingState, PastClaims, PlatformHome, PaymentTable, Search, PlatformUsers,
                    PlatformShowrooms, PlatformPlans, AuditTable}
        \/ panel \in {Frame, Welcome, Settings, SalesTable, SaleForm, StockTable,
                    StockForms, StockArchive, SupplierTable, SupplierForms, SupplierSheet,
                    SupplierArchive, CustomerTable, CustomerForms, CustomerArchive, ExpenseTable,
                    ExpenseForms, StaffTable, PlanCards, ActivePlan, PendingClaim, RenewCards,
                    PaymentModal, Inbox, ProfileTable, AdministratorTable, PeopleTable,
                    LicenseTable, ShowroomTable}
        \/ panel = SaleDrawer /\ p = "saleDrawer"
        \/ panel = DueTables
    BY PagesAre DEF Panels
  <1>2. CASE panel \in {Home, HomeFigures, HomeLists, HomeTrail, InvoicePaper, Charts, TrailTable,
                    BillingState, PastClaims, PlatformHome, PaymentTable, Search, PlatformUsers,
                    PlatformShowrooms, PlatformPlans, AuditTable}
    BY <1>2, PanelRows DEF Bears
  <1> USE OpHas, ReadsOf, OpsAre, StatusesAre DEF Fits, RefusedAnyway, Allowed, Panel, Button, Form,
          Anyway, Everyone, Plus, Platform
  <1>3. CASE panel \in {Frame, Inbox}
    BY <1>3, AccountAre, OfficeRows DEF Frame, ReadBell, Inbox
  <1>4. CASE panel \in {Welcome, Settings, StaffTable}
    BY <1>4, AccountAre, OfficeRows
       DEF Welcome, Onboard, Settings, SaveBusiness, StaffTable, CreateStaff, DisableStaff, EnableStaff,
           Seats
  <1>5. CASE panel \in {SalesTable, SaleForm}
    BY <1>5, BusinessAre, TradeRows
       DEF SalesTable, CancelSale, SaleForm, CreateCustomer, CreateSale, InStock, Live
  <1>6. CASE panel \in {StockTable, StockForms, StockArchive}
    BY <1>6, BusinessAre, TradeRows
       DEF InStock, StockTable, UpdateItem, RemoveItem, StockForms, CreateItem, BulkCreate, StockArchive,
           ReactivateItem
  <1>7. CASE panel \in {SupplierTable, SupplierForms, SupplierSheet, SupplierArchive}
    BY <1>7, BusinessAre, PartnerRows
       DEF SupplierTable, DeactivateSupplier, SupplierForms, CreateSupplier, SupplierSheet,
           UpdateSupplier, PaySupplier, SupplierArchive, ReactivateSupplier
  <1>8. CASE panel \in {CustomerTable, CustomerForms, CustomerArchive}
    BY <1>8, BusinessAre, PartnerRows
       DEF CustomerTable, DeactivateCustomer, CustomerForms, CreateCustomer, UpdateCustomer,
           CustomerArchive, ReactivateCustomer
  <1>9. CASE panel \in {ExpenseTable, ExpenseForms}
    BY <1>9, BusinessAre, PartnerRows
       DEF ExpenseTable, RemoveExpense, ExpenseForms, CreateExpense, UpdateExpense
  <1>10. CASE panel \in {PlanCards, ActivePlan, RenewCards}
    BY <1>10, AccountAre, OfficeRows DEF PlanCards, RequestPlan, ActivePlan, RenewPlan, RenewCards
  <1>11. CASE panel = PendingClaim
    BY <1>11, AccountAre, OfficeRows DEF PendingClaim, AttachProof, CancelClaim
  <1>12. CASE panel \in {PaymentModal, LicenseTable, ShowroomTable}
    BY <1>12, PlatformAre, OperatorRows
       DEF PaymentModal, ApprovePayment, RejectPayment, LicenseTable, RenewLicense, ShowroomTable,
           CreateShowroom, ToggleShowroom
  <1>13. CASE panel \in {ProfileTable, AdministratorTable, PeopleTable}
    BY <1>13, PlatformAre, OperatorRows
       DEF ProfileTable, SaveProfile, DeleteProfile, AdministratorTable, SaveAdministrator,
           ToggleAdministrator, PeopleTable, SaveUser, ResetPassword
  <1>14. CASE panel = SaleDrawer /\ p = "saleDrawer"
    BY <1>14, BusinessAre, TradeRows
       DEF SaleDrawer, PayButtons, CancelSale, PayInstallment, PayLast, Live, NotCancelled, :>, @@
  <1>15. CASE panel = DueTables
    BY <1>15, BusinessAre, TradeRows
       DEF DueTables, PayButtons, PayInstallment, PayLast, Live, NotCancelled, :>, @@
  <1>16. QED
    BY <1>1, <1>2, <1>3, <1>4, <1>5, <1>6, <1>7, <1>8, <1>9, <1>10, <1>11, <1>12, <1>13, <1>14,
       <1>15

\* A page shows the keys of its panels, which are keys there are, and offers their writes.
LEMMA ShowsAre ==
  /\ \A p \in DOMAIN Pages : \A k \in Shows[p] : \E panel \in Panels(p) : k \in panel.shows
  /\ \A p \in DOMAIN Pages : \A op \in OfferedOn(p) : \E panel \in Panels(p) :
       \E offer \in panel.offers : op = offer.op
  /\ \A p \in DOMAIN Pages : Shows[p] \subseteq Keys
  <1>1. /\ \A p \in DOMAIN Pages : \A k \in Shows[p] : \E panel \in Panels(p) : k \in panel.shows
        /\ \A p \in DOMAIN Pages : \A op \in OfferedOn(p) : \E panel \in Panels(p) :
             \E offer \in panel.offers : op = offer.op
    BY DEF Shows, OfferedOn, Offers
  <1>2. \A p \in DOMAIN Pages : \A panel \in Panels(p) :
          panel \in {Frame, Home, HomeFigures, HomeLists, HomeTrail, Welcome, Settings,
                    SalesTable, SaleForm, SaleDrawer, DueTables, InvoicePaper, Charts, StockTable,
                    StockForms, StockArchive, SupplierTable, SupplierForms, SupplierSheet,
                    SupplierArchive, CustomerTable, CustomerForms, CustomerArchive, ExpenseTable,
                    ExpenseForms, StaffTable, TrailTable, BillingState, PlanCards, ActivePlan,
                    PendingClaim, PastClaims, RenewCards, PlatformHome, PaymentTable,
                    PaymentModal, Inbox, Search, PlatformUsers, PlatformShowrooms, PlatformPlans,
                    ProfileTable, AdministratorTable, AuditTable, PeopleTable, LicenseTable,
                    ShowroomTable}
    BY PagesAre DEF Panels
  <1>3. \A panel \in {Frame, Home, HomeFigures, HomeLists, HomeTrail, Welcome, Settings,
                                SalesTable, SaleForm, SaleDrawer, DueTables, InvoicePaper, Charts,
                                StockTable, StockForms, StockArchive, SupplierTable,
                                SupplierForms, SupplierSheet, SupplierArchive, CustomerTable,
                                CustomerForms, CustomerArchive, ExpenseTable, ExpenseForms,
                                StaffTable, TrailTable, BillingState, PlanCards, ActivePlan,
                                PendingClaim, PastClaims, RenewCards, PlatformHome, PaymentTable,
                                PaymentModal, Inbox, Search, PlatformUsers, PlatformShowrooms,
                                PlatformPlans, ProfileTable, AdministratorTable, AuditTable,
                                PeopleTable, LicenseTable,
                                    ShowroomTable} : panel.shows \subseteq Keys
    BY PanelRows, ReadsOf, TradeRows, PartnerRows, CachedRows, PaperRows, OfficeRows, OperatorRows
       DEF Bears, SaleKeys, StockKeys
  <1>4. QED
    BY <1>1, <1>2, <1>3

Told(k, op) ==
  Reads[k] \cap DOMAIN Ops[op].sets # {} =>
    /\ k \in Ops[op].marks /\ k \notin DOMAIN PaperReads
    /\ k \in DOMAIN BusinessReads => op \in DOMAIN BusinessWrites
\* On its own page a write marks every key whose rows it sets, and none that another gate closes.
LEMMA PagesTell ==
  \A p \in DOMAIN Pages : \A op \in OfferedOn(p), k \in Shows[p] \ LeftByTheirButtons : Told(k, op)
  <1> SUFFICES ASSUME NEW p \in DOMAIN Pages, NEW op \in OfferedOn(p),
                      NEW k \in Shows[p] \ LeftByTheirButtons
               PROVE  Told(k, op)
    OBVIOUS
  <1>1. \E panel \in Panels(p) : k \in panel.shows
    BY ShowsAre
  <1>2. \E panel \in Panels(p) : \E offer \in panel.offers : op = offer.op
    BY ShowsAre
  <1>3. CASE op = "ReadBell"
    <2>1. k \in Keys /\ (k # "notifications" => "bell" \notin Reads[k])
      BY ShowsAre, ReadsOf, TradeRows, PartnerRows, CachedRows, PaperRows, OfficeRows, OperatorRows
    <2>2. QED
      BY <1>3, <2>1, AccountWriteRows, ReadsOf, OfficeRows DEF Told, Writes
  <1>4. CASE p \in {"dashboard", "ownDashboard", "invoices", "analytics", "activity", "admin",
                    "inbox", "search", "adminUsers", "adminShowrooms", "plans", "audit"}
    BY <1>2, <1>3, <1>4, PagesAre, PanelRows DEF Panels, Bears
  <1>5. CASE p = "onboarding"
    <2>1. /\ op \in {"Onboard", "ReadBell"}
          /\ k \in {"notifications"}
      BY <1>1, <1>2, <1>5, PagesAre, PanelRows DEF Panels, Bears, LeftByTheirButtons
    <2>2. QED
      BY <1>3, <2>1, ReadsOf, OpsAre, OfficeRows, AccountWriteRows
         DEF Told, Writes
  <1>6. CASE p = "settings"
    <2>1. /\ op \in {"SaveBusiness", "ReadBell"}
          /\ k \in {"showroom-profile", "notifications"}
      BY <1>1, <1>2, <1>6, PagesAre, PanelRows DEF Panels, Bears, LeftByTheirButtons
    <2>2. QED
      BY <1>3, <2>1, ReadsOf, OpsAre, OfficeRows, AccountWriteRows
         DEF Told, Writes
  <1>7. CASE p = "sales"
    <2>1. /\ op \in {"CancelSale", "ReadBell"}
          /\ k \in {"sales", "sales-summary", "sales-overdue-count", "notifications"}
      BY <1>1, <1>2, <1>7, PagesAre, PanelRows DEF Panels, Bears, LeftByTheirButtons, SaleKeys
    <2>2. QED
      BY <1>3, <2>1, ReadsOf, OpsAre, TradeRows, OfficeRows, BusinessWriteRows
         DEF Told, Writes, SaleKeys, StockKeys
  <1>8. CASE p = "saleForm"
    <2>1. /\ op \in {"CancelSale", "CreateCustomer", "CreateSale", "ReadBell"}
          /\ k \in {"sales", "sales-summary", "sales-overdue-count", "customers-picker",
                    "notifications"}
      BY <1>1, <1>2, <1>8, PagesAre, PanelRows DEF Panels, Bears, LeftByTheirButtons, SaleKeys
    <2>2. QED
      BY <1>3, <2>1, ReadsOf, OpsAre, TradeRows, OfficeRows, BusinessWriteRows
         DEF Told, Writes, SaleKeys, StockKeys, CustomerKeys
  <1>9. CASE p = "saleDrawer"
    <2>1. /\ op \in {"CancelSale", "PayInstallment", "PayLast", "ReadBell"}
          /\ k \in {"sales", "sales-summary", "sales-overdue-count", "notifications"}
      BY <1>1, <1>2, <1>9, PagesAre, PanelRows DEF Panels, Bears, LeftByTheirButtons, SaleKeys
    <2>2. QED
      BY <1>3, <2>1, ReadsOf, OpsAre, TradeRows, OfficeRows, BusinessWriteRows
         DEF Told, Writes, SaleKeys, StockKeys, PayKeys
  <1>10. CASE p = "installments"
    <2>1. /\ op \in {"PayInstallment", "PayLast", "ReadBell"}
          /\ k \in {"overdue", "upcoming", "notifications"}
      BY <1>1, <1>2, <1>10, PagesAre, PanelRows DEF Panels, Bears, LeftByTheirButtons
    <2>2. QED
      BY <1>3, <2>1, ReadsOf, OpsAre, TradeRows, OfficeRows, BusinessWriteRows
         DEF Told, Writes, SaleKeys, PayKeys
  <1>11. CASE p = "inventory"
    <2>1. /\ op \in {"UpdateItem", "RemoveItem", "CreateItem", "BulkCreate", "ReadBell"}
          /\ k \in {"inventory", "inv-stats", "inv-low-stock", "suppliers-list", "notifications"}
      BY <1>1, <1>2, <1>11, PagesAre, PanelRows DEF Panels, Bears, LeftByTheirButtons, StockKeys
    <2>2. QED
      BY <1>3, <2>1, ReadsOf, OpsAre, TradeRows, PartnerRows, OfficeRows, BusinessWriteRows
         DEF Told, Writes, StockKeys
  <1>12. CASE p = "oldInventory"
    <2>1. /\ op \in {"ReactivateItem", "ReadBell"}
          /\ k \in {"inventory", "notifications"}
      BY <1>1, <1>2, <1>12, PagesAre, PanelRows DEF Panels, Bears, LeftByTheirButtons
    <2>2. QED
      BY <1>3, <2>1, ReadsOf, OpsAre, TradeRows, OfficeRows, BusinessWriteRows
         DEF Told, Writes, StockKeys
  <1>13. CASE p = "suppliers"
    <2>1. /\ op \in {"DeactivateSupplier", "CreateSupplier", "UpdateSupplier", "PaySupplier",
                    "ReadBell"}
          /\ k \in {"suppliers", "supplier-stats", "sup-payments", "notifications"}
      BY <1>1, <1>2, <1>13, PagesAre, PanelRows DEF Panels, Bears, LeftByTheirButtons
    <2>2. QED
      BY <1>3, <2>1, ReadsOf, OpsAre, PartnerRows, OfficeRows, BusinessWriteRows
         DEF Told, Writes, SupplierKeys
  <1>14. CASE p = "oldSuppliers"
    <2>1. /\ op \in {"ReactivateSupplier", "ReadBell"}
          /\ k \in {"suppliers", "notifications"}
      BY <1>1, <1>2, <1>14, PagesAre, PanelRows DEF Panels, Bears, LeftByTheirButtons
    <2>2. QED
      BY <1>3, <2>1, ReadsOf, OpsAre, PartnerRows, OfficeRows, BusinessWriteRows
         DEF Told, Writes
  <1>15. CASE p = "customers"
    <2>1. /\ op \in {"DeactivateCustomer", "CreateCustomer", "UpdateCustomer", "ReadBell"}
          /\ k \in {"customers", "notifications"}
      BY <1>1, <1>2, <1>15, PagesAre, PanelRows DEF Panels, Bears, LeftByTheirButtons
    <2>2. QED
      BY <1>3, <2>1, ReadsOf, OpsAre, PartnerRows, OfficeRows, BusinessWriteRows
         DEF Told, Writes, CustomerKeys
  <1>16. CASE p = "oldCustomers"
    <2>1. /\ op \in {"ReactivateCustomer", "ReadBell"}
          /\ k \in {"customers", "notifications"}
      BY <1>1, <1>2, <1>16, PagesAre, PanelRows DEF Panels, Bears, LeftByTheirButtons
    <2>2. QED
      BY <1>3, <2>1, ReadsOf, OpsAre, PartnerRows, OfficeRows, BusinessWriteRows
         DEF Told, Writes, CustomerKeys
  <1>17. CASE p = "expenses"
    <2>1. /\ op \in {"RemoveExpense", "CreateExpense", "UpdateExpense", "ReadBell"}
          /\ k \in {"expenses", "notifications"}
      BY <1>1, <1>2, <1>17, PagesAre, PanelRows DEF Panels, Bears, LeftByTheirButtons
    <2>2. QED
      BY <1>3, <2>1, ReadsOf, OpsAre, PartnerRows, OfficeRows, BusinessWriteRows
         DEF Told, Writes, ExpenseKeys
  <1>18. CASE p = "users"
    <2>1. /\ op \in {"CreateStaff", "DisableStaff", "EnableStaff", "ReadBell"}
          /\ k \in {"home-account-status", "tenant-users", "notifications"}
      BY <1>1, <1>2, <1>18, PagesAre, PanelRows DEF Panels, Bears, LeftByTheirButtons
    <2>2. QED
      BY <1>3, <2>1, ReadsOf, OpsAre, OfficeRows, AccountWriteRows
         DEF Told, Writes, StaffKeys
  <1>19. CASE p = "billing"
    <2>1. /\ op \in {"RequestPlan", "RenewPlan", "AttachProof", "CancelClaim", "ReadBell"}
          /\ k \in {"billing-status", "billing-payments", "billing-current", "notifications"}
      BY <1>1, <1>2, <1>19, PagesAre, PanelRows DEF Panels, Bears, LeftByTheirButtons
    <2>2. QED
      BY <1>3, <2>1, ReadsOf, OpsAre, OfficeRows, AccountWriteRows
         DEF Told, Writes, BillingKeys
  <1>20. CASE p = "renewing"
    <2>1. /\ op \in {"RenewPlan", "AttachProof", "CancelClaim", "ReadBell"}
          /\ k \in {"billing-status", "billing-payments", "billing-current", "notifications"}
      BY <1>1, <1>2, <1>20, PagesAre, PanelRows DEF Panels, Bears, LeftByTheirButtons
    <2>2. QED
      BY <1>3, <2>1, ReadsOf, OpsAre, OfficeRows, AccountWriteRows
         DEF Told, Writes, BillingKeys
  <1>21. CASE p = "payments"
    <2>1. /\ op \in {"ApprovePayment", "RejectPayment", "ReadBell"}
          /\ k \in {"admin-payments", "notifications"}
      BY <1>1, <1>2, <1>21, PagesAre, PanelRows DEF Panels, Bears, LeftByTheirButtons
    <2>2. QED
      BY <1>3, <2>1, ReadsOf, OpsAre, OperatorRows, OfficeRows, PlatformWriteRows
         DEF Told, Writes, PaymentKeys
  <1>22. CASE p = "profiles"
    <2>1. /\ op \in {"SaveProfile", "DeleteProfile", "ReadBell"}
          /\ k \in {"admin-profiles", "notifications"}
      BY <1>1, <1>2, <1>22, PagesAre, PanelRows DEF Panels, Bears, LeftByTheirButtons
    <2>2. QED
      BY <1>3, <2>1, ReadsOf, OpsAre, OperatorRows, OfficeRows, PlatformWriteRows
         DEF Told, Writes, ProfileKeys
  <1>23. CASE p = "administrators"
    <2>1. /\ op \in {"SaveAdministrator", "ToggleAdministrator", "ReadBell"}
          /\ k \in {"profiles-select", "admin-admins", "notifications"}
      BY <1>1, <1>2, <1>23, PagesAre, PanelRows DEF Panels, Bears, LeftByTheirButtons
    <2>2. QED
      BY <1>3, <2>1, ReadsOf, OpsAre, OperatorRows, OfficeRows, PlatformWriteRows
         DEF Told, Writes
  <1>24. CASE p = "superUsers"
    <2>1. /\ op \in {"SaveUser", "ResetPassword", "ReadBell"}
          /\ k \in {"superadmin-users", "notifications"}
      BY <1>1, <1>2, <1>24, PagesAre, PanelRows DEF Panels, Bears, LeftByTheirButtons
    <2>2. QED
      BY <1>3, <2>1, ReadsOf, OpsAre, OperatorRows, OfficeRows, PlatformWriteRows
         DEF Told, Writes
  <1>25. CASE p = "licences"
    <2>1. /\ op \in {"RenewLicense", "ReadBell"}
          /\ k \in {"subscriptions", "subscriptions-summary", "notifications"}
      BY <1>1, <1>2, <1>25, PagesAre, PanelRows DEF Panels, Bears, LeftByTheirButtons
    <2>2. QED
      BY <1>3, <2>1, ReadsOf, OpsAre, OperatorRows, OfficeRows, PlatformWriteRows
         DEF Told, Writes
  <1>26. CASE p = "showrooms"
    <2>1. /\ op \in {"CreateShowroom", "ToggleShowroom", "ReadBell"}
          /\ k \in {"showrooms", "showroom-stats", "notifications"}
      BY <1>1, <1>2, <1>26, PagesAre, PanelRows DEF Panels, Bears, LeftByTheirButtons
    <2>2. QED
      BY <1>3, <2>1, ReadsOf, OpsAre, OperatorRows, OfficeRows, PlatformWriteRows
         DEF Told, Writes
  <1>27. QED
    BY <1>4, <1>5, <1>6, <1>7, <1>8, <1>9, <1>10, <1>11, <1>12, <1>13, <1>14, <1>15, <1>16, <1>17,
       <1>18, <1>19, <1>20, <1>21, <1>22, <1>23, <1>24, <1>25, <1>26, PagesAre

\* A write is asked for rows there are.
LEMMA AllNeeds == \A op \in DOMAIN Ops : DOMAIN Ops[op].needs \subseteq DOMAIN Statuses
  <1>1. \A op \in DOMAIN BusinessWrites : DOMAIN Ops[op].needs \subseteq DOMAIN Statuses
    BY OpHas, OpsAre, BusinessAre, StatusesAre DEF CreateSale, CancelSale, PayInstallment, PayLast,
           CreateCustomer, UpdateCustomer, DeactivateCustomer, ReactivateCustomer, CreateSupplier,
           UpdateSupplier, DeactivateSupplier, ReactivateSupplier, PaySupplier, CreateItem,
           UpdateItem, RemoveItem, BulkCreate, ReactivateItem, CreateExpense, UpdateExpense,
           RemoveExpense, Anyway
  <1>2. \A op \in DOMAIN AccountWrites : DOMAIN Ops[op].needs \subseteq DOMAIN Statuses
    BY OpHas, OpsAre, AccountAre, StatusesAre DEF CreateStaff, DisableStaff, EnableStaff,
           RequestPlan, RenewPlan, AttachProof, CancelClaim, ReadBell, Onboard, SaveBusiness, Anyway
  <1>3. \A op \in DOMAIN PlatformWrites : DOMAIN Ops[op].needs \subseteq DOMAIN Statuses
    BY OpHas, OpsAre, PlatformAre, StatusesAre DEF ApprovePayment, RejectPayment, SaveProfile,
           DeleteProfile, SaveAdministrator, ToggleAdministrator, SaveUser, ResetPassword,
           RenewLicense, CreateShowroom, ToggleShowroom, Anyway
  <1>4. QED
    BY <1>1, <1>2, <1>3, OpsAre

-----------------------------------------------------------------------------
(* The invariant of the pages, step by step.                                *)


\* The reasons that are no writes; and rows, once the business is open, keep it so.
LEMMA ReasonsAre ==
  /\ "kept" \notin DOMAIN Ops /\ "lost" \notin DOMAIN Ops /\ "elsewhere" \notin DOMAIN Ops
  /\ "none" \notin DOMAIN Ops
  /\ Reasons = DOMAIN Ops \cup {"kept", "lost", "elsewhere"}
  BY OpsAre DEF Reasons, NotTheirs

LEMMA AllHarmless == \A op \in DOMAIN Ops : Harmless(Ops[op])
  BY OpsAre, BusinessWriteRows, AccountWriteRows, PlatformWriteRows DEF Writes

\* The fields of a request and of a cache entry.
LEMMA EntriesHave ==
  /\ NoRequest.op = "none" /\ NoRequest.stage = "none"
  /\ DOMAIN NoRequest = {"op", "on", "page", "row", "stage"}
  /\ Empty.due = TRUE /\ Empty.shown = NoData /\ Empty.why = {}
  /\ DOMAIN Empty = {"due", "shown", "why"}
  BY DEF NoRequest, Empty

KeyInv(k) == Explained(k) /\ Opened(k) /\ Marked(k)

\* A change of the rows keeps their types and an open business, and explains what is behind.
LEMMA ChangeKeeps ==
  ASSUME NEW op \in DOMAIN Ops, NEW because \in Reasons, PagesTypeOK, Change(op, because),
         \A k \in Keys : Explained(k) /\ Opened(k)
  PROVE  /\ IsWorld(world)' /\ (BusinessOpen => BusinessOpen')
         /\ DOMAIN cache' = Keys
         /\ \A k \in Keys :
              /\ DOMAIN cache'[k] = DOMAIN Empty
              /\ cache'[k].due = cache[k].due /\ cache'[k].shown = cache[k].shown
              /\ cache[k].why \subseteq cache'[k].why
              /\ cache'[k].why \subseteq cache[k].why \cup {because}
              /\ because \in cache'[k].why \ cache[k].why => Reads[k] \cap DOMAIN Ops[op].sets # {}
              /\ Explained(k)' /\ Opened(k)'
  <1> DEFINE stays(x) == \/ x \notin DOMAIN Ops[op].sets
                         \/ op \in Edits /\ world[x] \in {"archived", "full"}
             becomes == [x \in DOMAIN world |-> IF stays(x) THEN world[x] ELSE Ops[op].sets[x]]
             touched == {x \in DOMAIN world : becomes[x] # world[x]}
  <1>1. world' = becomes
    BY DEF Change
  <1>2. cache' = [k \in Keys |-> IF Has(k) /\ Reads[k] \cap touched # {}
                                 THEN [cache[k] EXCEPT !.why = @ \cup {because}] ELSE cache[k]]
    BY DEF Change
  <1>3. Harmless(Ops[op]) /\ IsWorld(world)
    BY AllHarmless DEF PagesTypeOK
  <1>4. touched \subseteq DOMAIN Ops[op].sets
    OBVIOUS
  <1>5. IsWorld(world)'
    BY <1>1, <1>3 DEF IsWorld, Harmless
  <1>6. BusinessOpen => BusinessOpen'
    BY <1>1, <1>3, StatusesAre DEF IsWorld, Harmless, BusinessOpen, AccountOpen
  <1> HIDE DEF becomes, touched
  <1>7. ASSUME NEW k \in Keys
        PROVE  /\ DOMAIN cache'[k] = DOMAIN Empty
               /\ cache'[k].due = cache[k].due /\ cache'[k].shown = cache[k].shown
               /\ cache'[k].why = IF Has(k) /\ Reads[k] \cap touched # {}
                                  THEN cache[k].why \cup {because} ELSE cache[k].why
    BY <1>2, EntriesHave DEF PagesTypeOK
  <1>8. ASSUME NEW k \in Keys
        PROVE  Explained(k)' /\ Opened(k)'
    <2>1. Has(k)' = Has(k)
      BY <1>7 DEF Has
    <2>2. Opened(k)'
      BY <2>1, <1>6 DEF Opened
    <2>3. CASE Has(k) /\ Reads[k] \cap touched # {}
      BY <2>2, <2>3, <1>7 DEF Explained
    <2>4. CASE Has(k) /\ Reads[k] \cap touched = {}
      <3>1. \A x \in Reads[k] : x \in DOMAIN world => world'[x] = world[x]
        BY <2>4, <1>1 DEF touched, becomes
      <3>2. Reads[k] \subseteq DOMAIN world
        BY <1>3, ReadRows DEF IsWorld
      <3>3. Now(k)' = Now(k)
        BY <3>1, <3>2 DEF Now
      <3>4. QED
        BY <2>1, <2>2, <2>4, <3>3, <1>7 DEF Explained, Behind
    <2>5. QED
      BY <2>1, <2>2, <2>3, <2>4 DEF Explained, Behind
  <1>9. DOMAIN cache' = Keys
    BY <1>2
  <1>10. QED
    BY <1>4, <1>5, <1>6, <1>7, <1>8, <1>9

LEMMA PagesInitInv == PagesInit => PagesInv
  <1> SUFFICES ASSUME PagesInit PROVE PagesInv
    OBVIOUS
  <1>1. IsWorld(world) /\ role \in Roles
    BY WorkbenchAssumption DEF PagesInit
  <1>2. \A k \in Keys : ~Has(k) /\ cache[k].why = {} /\ cache[k].due = TRUE
    BY EntriesHave DEF PagesInit, Has
  <1>3. PagesTypeOK
    <2>1. DOMAIN cache = Keys /\ \A k \in Keys : cache[k] = Empty
      BY DEF PagesInit
    <2>2. DOMAIN resp = Cached /\ \A k \in Cached : resp[k] = NoData
      BY DEF PagesInit
    <2>3. page = "none" /\ write = NoRequest /\ turns \in 0..(MaxTurns + MaxBefore) /\ writes \in 0..MaxWrites
      BY WorkbenchAssumption DEF PagesInit
    <2>4. QED
      BY <1>1, <1>2, <2>1, <2>2, <2>3, EntriesHave DEF PagesTypeOK
  <1>4. \A k \in Keys : KeyInv(k)
    BY <1>2 DEF KeyInv, Explained, Behind, Opened, Marked
  <1>5. Offered
    BY EntriesHave DEF PagesInit, Offered
  <1>6. QED
    BY <1>3, <1>4, <1>5 DEF PagesInv, KeyInv

\* What is shown of which rows stays; the reasons may grow by what is no write, and a key
\* may be marked.
LEMMA SameShown ==
  ASSUME NEW k \in Keys, KeyInv(k), UNCHANGED world,
         cache'[k].shown = cache[k].shown,
             cache'[k].why \cap DOMAIN Ops = cache[k].why \cap DOMAIN Ops,
         cache[k].why \subseteq cache'[k].why, cache[k].due = TRUE => cache'[k].due = TRUE,
         \A op \in cache[k].why \cap DOMAIN Ops :
           k \in Ops[op].marks /\ write.stage = "written" /\ write.op = op =>
             cache'[k].due = TRUE \/ "lost" \in cache'[k].why \/ UNCHANGED write
  PROVE  KeyInv(k)'
  <1>1. Now(k)' = Now(k) /\ Has(k)' = Has(k) /\ BusinessOpen' = BusinessOpen
    BY DEF Now, Has, BusinessOpen, AccountOpen
  <1>2. Explained(k)'
    BY <1>1 DEF KeyInv, Explained, Behind
  <1>3. Opened(k)'
    BY <1>1 DEF KeyInv, Opened
  <1>4. ASSUME NEW op \in cache'[k].why \cap DOMAIN Ops
        PROVE  /\ Reads[k] \cap DOMAIN Ops[op].sets # {}
               /\ op \in DOMAIN BusinessWrites => BusinessOpen'
               /\ k \in Ops[op].marks => \/ cache'[k].due = TRUE \/ "lost" \in cache'[k].why
                                         \/ write'.stage = "written" /\ write'.op = op
    BY <1>1, <1>4 DEF KeyInv, Marked
  <1>5. QED
    BY <1>2, <1>3, <1>4 DEF KeyInv, Marked

\* The parts of PagesTypeOK.
CacheTyped ==
  DOMAIN cache = Keys /\ \A k \in Keys :
    /\ DOMAIN cache[k] = DOMAIN Empty
    /\ cache[k].due \in BOOLEAN /\ cache[k].why \subseteq Reasons
    /\ Has(k) => DOMAIN cache[k].shown = Reads[k]
RespTyped == DOMAIN resp = Cached /\ \A k \in Cached : resp[k] # NoData => DOMAIN resp[k] = Reads[k]
WriteTyped ==
  DOMAIN write = DOMAIN NoRequest /\ \/ write = NoRequest
                                     \/ write.op \in DOMAIN Ops /\ write.stage \in {"sent",
                                         "written"}
PageTyped == page \in DOMAIN Pages \cup {"none"}
CountsTyped == turns \in 0..(MaxTurns + MaxBefore) /\ writes \in 0..MaxWrites

\* PagesInv in its parts, before a step and after it.
PagesParts ==
  /\ IsWorld(world) /\ role \in Roles
  /\ PageTyped /\ CacheTyped /\ RespTyped /\ WriteTyped /\ CountsTyped
  /\ (\A k \in Keys : KeyInv(k)) /\ Offered
LEMMA PagesInParts == (PagesInv => PagesParts) /\ (PagesParts' => PagesInv')
  BY
     DEF PagesInv, PagesTypeOK, PagesParts, PageTyped, CacheTyped, RespTyped, WriteTyped,
         CountsTyped,
         KeyInv

LEMMA VisitKeeps ==
  ASSUME PagesInv, NEW p \in PagesOf(role), NEW aged \in BOOLEAN, Visit(p, aged)
  PROVE  PagesInv'
  <1>0. PagesParts
    BY PagesInParts
  <1>1. \A k \in Keys : cache'[k] = IF aged /\ k \in Shows[p] THEN [cache[k] EXCEPT !.due = TRUE]
                                    ELSE cache[k]
    BY DEF Visit
  <1>2. ASSUME NEW k \in Keys
        PROVE  /\ DOMAIN cache'[k] = DOMAIN Empty /\ cache'[k].due \in BOOLEAN
               /\ cache'[k].shown = cache[k].shown /\ cache'[k].why = cache[k].why
               /\ cache[k].due = TRUE => cache'[k].due = TRUE
    <2>1. DOMAIN cache[k] = {"due", "shown", "why"} /\ cache[k].due \in BOOLEAN
      BY <1>0, EntriesHave DEF PagesParts, CacheTyped
    <2>2. CASE cache'[k] = cache[k]
      BY <2>1, <2>2, EntriesHave
    <2>3. CASE cache'[k] = [cache[k] EXCEPT !.due = TRUE]
      BY <2>1, <2>3, EntriesHave
    <2>4. QED
      BY <1>1, <2>2, <2>3
  <1>3. UNCHANGED <<world, role, write, resp, writes>>
    BY DEF Visit
  <1>4. CacheTyped'
    BY <1>2, <1>0 DEF Visit, PagesParts, CacheTyped, Has
  <1>5. RespTyped' /\ WriteTyped'
    BY <1>3, <1>0 DEF PagesParts, RespTyped, WriteTyped
  <1>6. PageTyped'
    BY PagesAre DEF Visit, PageTyped, PagesOf, StaffPages, OwnerPages, PlatformPages
  <1>7. CountsTyped'
    BY <1>0, WorkbenchAssumption DEF PagesParts, Visit, MoreTurns, CountsTyped
  <1>8. \A k \in Keys : KeyInv(k)'
    BY <1>2, <1>3, <1>0, SameShown DEF PagesParts
  <1>9. Offered'
    BY <1>0, <1>3 DEF PagesParts, Offered, BusinessOpen, AccountOpen
  <1>10. QED
    BY <1>0, <1>3, <1>4, <1>5, <1>6, <1>7, <1>8, <1>9, PagesInParts DEF PagesParts

LEMMA NowTyped == \A k \in Keys : DOMAIN Now(k) = Reads[k]
  BY DEF Now

LEMMA LoadKeeps == ASSUME PagesInv, page # "none", Load PROVE PagesInv'
  <1> DEFINE asked == Due(page)
  <1>0. PagesParts
    BY PagesInParts
  <1>1. /\ \A k \in Keys : cache'[k] = IF k \notin asked THEN cache[k]
                                       ELSE [due |-> FALSE, shown |-> Reply(k),
                                             why |-> IF Reply(k) = Now(k) THEN {} ELSE {"kept"}]
        /\ DOMAIN cache' = Keys
    BY DEF Load
  <1>2. /\ \A k \in Cached : resp'[k] = IF k \in asked THEN Reply(k) ELSE resp[k]
        /\ DOMAIN resp' = Cached
    BY DEF Load
  <1>3. UNCHANGED <<world, role, page, write, turns, writes>>
    BY DEF Load, counts
  <1>4. asked \subseteq Keys /\ \A k \in asked : Open(k)
    BY <1>0, ShowsAre DEF Due, PagesParts, PageTyped
  <1>5. \A k \in asked : Reply(k) # NoData => DOMAIN Reply(k) = Reads[k]
    BY <1>0, <1>4, NowTyped DEF PagesParts, RespTyped, Reply
  <1> HIDE DEF asked
  <1>6. ASSUME NEW k \in asked
        PROVE  /\ DOMAIN cache'[k] = DOMAIN Empty /\ cache'[k].due = FALSE
               /\ cache'[k].shown = Reply(k)
               /\ cache'[k].why = IF Reply(k) = Now(k) THEN {} ELSE {"kept"}
    BY <1>1, <1>4, EntriesHave
  <1>7. CacheTyped'
    <2>1. ASSUME NEW k \in Keys
          PROVE  /\ DOMAIN cache'[k] = DOMAIN Empty
                 /\ cache'[k].due \in BOOLEAN /\ cache'[k].why \subseteq Reasons
                 /\ Has(k)' => DOMAIN cache'[k].shown = Reads[k]
      <3>1. CASE k \in asked
        BY <1>5, <1>6, <3>1, ReasonsAre DEF Has
      <3>2. CASE k \notin asked
        BY <1>0, <1>1, <3>2 DEF PagesParts, CacheTyped, Has
      <3>3. QED
        BY <3>1, <3>2
    <2>2. QED
      BY <1>1, <2>1 DEF CacheTyped
  <1>8. RespTyped'
    BY <1>0, <1>2, <1>5 DEF PagesParts, RespTyped
  <1>9. WriteTyped' /\ PageTyped' /\ CountsTyped' /\ Offered'
    BY <1>0, <1>3
       DEF PagesParts, WriteTyped, PageTyped, CountsTyped, Offered, BusinessOpen, AccountOpen
  <1>10. ASSUME NEW k \in Keys PROVE KeyInv(k)'
    <2>1. CASE k \notin asked
      BY <1>0, <1>1, <1>3, <2>1, SameShown DEF PagesParts
    <2>2. CASE k \in asked
      <3>1. Now(k)' = Now(k) /\ BusinessOpen' = BusinessOpen
        BY <1>3 DEF Now, BusinessOpen, AccountOpen
      <3>2. Explained(k)' /\ Opened(k)'
        BY <1>4, <1>6, <2>2, <3>1 DEF Explained, Behind, Opened, Open
      <3>3. Marked(k)'
        BY <1>6, <2>2, ReasonsAre DEF Marked
      <3>4. QED
        BY <3>2, <3>3 DEF KeyInv
    <2>3. QED
      BY <2>1, <2>2
  <1>11. QED
    BY <1>0, <1>3, <1>7, <1>8, <1>9, <1>10, PagesInParts DEF PagesParts

LEMMA ForgetKeeps == ASSUME PagesInv, Forget PROVE PagesInv'
  <1>0. PagesParts
    BY PagesInParts
  <1>1. RespTyped'
    BY DEF Forget, RespTyped
  <1>2. UNCHANGED <<world, role, page, cache, write, turns, writes>>
    BY DEF Forget, counts
  <1>3. WriteTyped' /\ PageTyped' /\ CountsTyped' /\ CacheTyped' /\ Offered'
    BY <1>0, <1>2 DEF PagesParts, WriteTyped, PageTyped, CountsTyped, CacheTyped, Has, Offered,
                      BusinessOpen, AccountOpen
  <1>4. \A k \in Keys : KeyInv(k)'
    BY <1>0, <1>2, SameShown DEF PagesParts
  <1>5. QED
    BY <1>0, <1>1, <1>2, <1>3, <1>4, PagesInParts DEF PagesParts

LEMMA PollKeeps == ASSUME PagesInv, Poll PROVE PagesInv'
  <1>0. PagesParts
    BY PagesInParts
  <1>1. "notifications" \in Keys /\ "notifications" \notin DOMAIN BusinessReads
    BY ReadsOf, OfficeRows, TradeRows, PartnerRows, CachedRows
  <1>2. UNCHANGED <<world, role, page, resp, write, turns, writes>>
    BY DEF Poll, counts
  <1>3. /\ DOMAIN cache' = Keys
        /\ \A k \in Keys \ {"notifications"} : cache'[k] = cache[k]
        /\ cache'["notifications"] = [due |-> FALSE, shown |-> Now("notifications"), why |-> {}]
    BY <1>0, <1>1 DEF Poll, PagesParts, CacheTyped
  <1>4. /\ DOMAIN cache'["notifications"] = DOMAIN Empty /\ cache'["notifications"].due = FALSE
        /\ cache'["notifications"].shown = Now("notifications") /\ cache'["notifications"].why = {}
    BY <1>3, EntriesHave
  <1>5. CacheTyped'
    <2>1. \A k \in Keys \ {"notifications"} :
            /\ DOMAIN cache'[k] = DOMAIN Empty
            /\ cache'[k].due \in BOOLEAN /\ cache'[k].why \subseteq Reasons
            /\ cache'[k].shown # NoData => DOMAIN cache'[k].shown = Reads[k]
      BY <1>0, <1>3 DEF PagesParts, CacheTyped, Has
    <2>2. DOMAIN cache'["notifications"].shown = Reads["notifications"]
      BY <1>1, <1>4, NowTyped
    <2>3. QED
      BY <1>3, <1>4, <2>1, <2>2 DEF CacheTyped, Has
  <1>6. RespTyped' /\ WriteTyped' /\ PageTyped' /\ CountsTyped' /\ Offered'
    BY <1>0, <1>2 DEF PagesParts, RespTyped, WriteTyped, PageTyped, CountsTyped, Offered,
                      BusinessOpen, AccountOpen
  <1>7. KeyInv("notifications")'
    <2>1. Now("notifications")' = Now("notifications")
      BY <1>2 DEF Now
    <2>2. QED
      BY <1>1, <1>4, <2>1 DEF KeyInv, Explained, Behind, Opened, Marked
  <1>8. \A k \in Keys \ {"notifications"} : KeyInv(k)'
    BY <1>0, <1>2, <1>3, SameShown DEF PagesParts
  <1>9. QED
    BY <1>0, <1>2, <1>5, <1>6, <1>7, <1>8, PagesInParts DEF PagesParts

LEMMA ClickKeeps ==
  ASSUME PagesInv, page # "none", NEW offer \in Offers[page], Click(offer)
  PROVE  PagesInv'
  <1>0. PagesParts
    BY PagesInParts
  <1>1. page \in DOMAIN Pages /\ Fits(offer, page)
    BY <1>0, OffersFit DEF PagesParts, PageTyped
  <1>2. UNCHANGED <<world, role, page, cache, resp, turns>>
    BY DEF Click
  <1>3. /\ write' = [op |-> offer.op, on |-> offer.on, page |-> page, stage |-> "sent",
                     row |-> IF offer.on = "none" THEN NoData ELSE cache[offer.on].shown]
        /\ write = NoRequest
    BY DEF Click
  <1>4. /\ write'.op = offer.op /\ write'.on = offer.on /\ write'.page = page
        /\ write'.stage = "sent" /\ DOMAIN write' = DOMAIN NoRequest
        /\ offer.on # "none" => write'.row = cache[offer.on].shown
    BY <1>3, EntriesHave
  <1>5. WriteTyped'
    BY <1>1, <1>4 DEF WriteTyped, Fits
  <1>6. CountsTyped'
    BY <1>0, <1>2, WorkbenchAssumption DEF Click, PagesParts, CountsTyped
  <1>7. PageTyped' /\ CacheTyped' /\ RespTyped'
    BY <1>0, <1>2 DEF PagesParts, PageTyped, CacheTyped, RespTyped, Has
  <1>8. Offered'
    <2>1. role \in offer.by
      BY DEF Click, Visible
    <2>2. ASSUME offer.on # "none"
          PROVE  /\ offer.on \in DOMAIN BusinessReads => BusinessOpen
                 /\ \A x \in DOMAIN offer.when : cache[offer.on].shown[x] \in offer.when[x]
      BY <1>0, <1>1, <2>2 DEF Click, Visible, PagesParts, KeyInv, Opened, Fits
    <2>3. BusinessOpen' = BusinessOpen
      BY <1>2 DEF BusinessOpen, AccountOpen
    <2>4. QED
      BY <1>1, <1>2, <1>4, <2>1, <2>2, <2>3 DEF Offered
  <1>9. \A k \in Keys : KeyInv(k)'
    BY <1>0, <1>2, <1>3, EntriesHave, SameShown DEF PagesParts
  <1>10. QED
    BY <1>0, <1>2, <1>5, <1>6, <1>7, <1>8, <1>9, PagesInParts DEF PagesParts

\* What a change of the rows leaves of the reasons of a key that was marked.
LEMMA ChangeMarks ==
  ASSUME PagesParts, NEW op \in DOMAIN Ops, NEW because \in Reasons, Change(op, because),
      NEW k \in Keys,
         because \in DOMAIN Ops =>
           /\ because = op /\ write'.stage = "written" /\ write'.op = op
           /\ op \in DOMAIN BusinessWrites => BusinessOpen,
         write.stage = "written" => UNCHANGED write
  PROVE  KeyInv(k)'
  <1>1. PagesTypeOK /\ \A kk \in Keys : Explained(kk) /\ Opened(kk)
    BY
       DEF PagesParts, KeyInv, PagesTypeOK, PageTyped, CacheTyped, RespTyped, WriteTyped,
           CountsTyped
  <1>2. /\ (BusinessOpen => BusinessOpen') /\ Explained(k)' /\ Opened(k)'
        /\ cache'[k].due = cache[k].due /\ cache[k].why \subseteq cache'[k].why
        /\ cache'[k].why \subseteq cache[k].why \cup {because}
        /\ because \in cache'[k].why \ cache[k].why => Reads[k] \cap DOMAIN Ops[op].sets # {}
    BY <1>1, ChangeKeeps
  <1>3. ASSUME NEW o \in cache'[k].why \cap DOMAIN Ops
        PROVE  /\ Reads[k] \cap DOMAIN Ops[o].sets # {}
               /\ o \in DOMAIN BusinessWrites => BusinessOpen'
               /\ k \in Ops[o].marks => \/ cache'[k].due \/ "lost" \in cache'[k].why
                                        \/ write'.stage = "written" /\ write'.op = o
    <2>1. CASE o \in cache[k].why
      <3>1. /\ Reads[k] \cap DOMAIN Ops[o].sets # {}
            /\ o \in DOMAIN BusinessWrites => BusinessOpen
            /\ k \in Ops[o].marks => \/ cache[k].due \/ "lost" \in cache[k].why
                                     \/ write.stage = "written" /\ write.op = o
        BY <2>1 DEF PagesParts, KeyInv, Marked
      <3>2. QED
        BY <1>2, <3>1
    <2>2. CASE o \notin cache[k].why
      BY <1>2, <1>3, <2>2
    <2>3. QED
      BY <2>1, <2>2
  <1>4. QED
    BY <1>2, <1>3 DEF KeyInv, Marked

\* The types, after a change of the rows.
LEMMA ChangeTyped ==
  ASSUME PagesParts, NEW op \in DOMAIN Ops, NEW because \in Reasons, Change(op, because)
  PROVE  IsWorld(world)' /\ (BusinessOpen => BusinessOpen') /\ CacheTyped'
  <1>1. PagesTypeOK /\ \A k \in Keys : Explained(k) /\ Opened(k)
    BY
       DEF PagesParts, KeyInv, PagesTypeOK, PageTyped, CacheTyped, RespTyped, WriteTyped,
           CountsTyped
  <1>2. /\ IsWorld(world)' /\ (BusinessOpen => BusinessOpen') /\ DOMAIN cache' = Keys
        /\ \A k \in Keys :
             /\ DOMAIN cache'[k] = DOMAIN Empty
             /\ cache'[k].due = cache[k].due /\ cache'[k].shown = cache[k].shown
             /\ cache'[k].why \subseteq cache[k].why \cup {because}
    BY <1>1, ChangeKeeps
  <1>3. QED
    BY <1>2 DEF PagesParts, CacheTyped, Has

LEMMA ApplyKeeps == ASSUME PagesInv, Apply PROVE PagesInv'
  <1>0. PagesParts
    BY PagesInParts
  <1>1. write.op \in DOMAIN Ops /\ write.op \in Reasons
    BY <1>0, EntriesHave, ReasonsAre DEF Apply, PagesParts, WriteTyped
  <1>2. Change(write.op, write.op) /\ UNCHANGED <<role, page, resp, turns, writes>>
    BY DEF Apply, counts
  <1>3. write'.stage = "written" /\ write'.op = write.op /\ DOMAIN write' = DOMAIN NoRequest
    BY <1>0, EntriesHave DEF Apply, PagesParts, WriteTyped
  <1>4. IsWorld(world)' /\ CacheTyped'
    BY <1>0, <1>1, <1>2, ChangeTyped
  <1>5. write.op \in DOMAIN BusinessWrites => BusinessOpen
    BY DEF Apply, Accepts
  <1>6. \A k \in Keys : KeyInv(k)'
    BY <1>0, <1>1, <1>2, <1>3, <1>5, ChangeMarks DEF Apply
  <1>7. WriteTyped' /\ PageTyped' /\ RespTyped' /\ CountsTyped'
    BY <1>0, <1>1, <1>2, <1>3 DEF PagesParts, WriteTyped, PageTyped, RespTyped, CountsTyped
  <1>8. Offered'
    BY <1>3 DEF Offered
  <1>9. QED
    BY <1>0, <1>2, <1>4, <1>6, <1>7, <1>8, PagesInParts DEF PagesParts

LEMMA ElsewhereKeeps == ASSUME PagesInv, NEW op \in Others, Elsewhere(op) PROVE PagesInv'
  <1>0. PagesParts
    BY PagesInParts
  <1>1. op \in DOMAIN Ops /\ "elsewhere" \in Reasons /\ "elsewhere" \notin DOMAIN Ops
    BY WorkbenchAssumption, ReasonsAre
  <1>2. Change(op, "elsewhere") /\ UNCHANGED <<role, page, resp, write, writes>>
    BY DEF Elsewhere
  <1>3. IsWorld(world)' /\ (BusinessOpen => BusinessOpen') /\ CacheTyped'
    BY <1>0, <1>1, <1>2, ChangeTyped
  <1>4. \A k \in Keys : KeyInv(k)'
    BY <1>0, <1>1, <1>2, ChangeMarks
  <1>5. CountsTyped'
    BY <1>0, WorkbenchAssumption DEF Elsewhere, MoreTurns, PagesParts, CountsTyped
  <1>6. WriteTyped' /\ PageTyped' /\ RespTyped'
    BY <1>0, <1>2 DEF PagesParts, WriteTyped, PageTyped, RespTyped
  <1>7. Offered'
    BY <1>0, <1>2, <1>3 DEF PagesParts, Offered
  <1>8. QED
    BY <1>0, <1>2, <1>3, <1>4, <1>5, <1>6, <1>7, PagesInParts DEF PagesParts

LEMMA RefuseKeeps == ASSUME PagesInv, Refuse PROVE PagesInv'
  <1>0. PagesParts
    BY PagesInParts
  <1>1. write.stage = "sent" /\ write' = NoRequest /\ UNCHANGED <<world, role, page, cache, resp,
        turns, writes>>
    BY DEF Refuse, counts
  <1>2. WriteTyped' /\ PageTyped' /\ CacheTyped' /\ RespTyped' /\ CountsTyped'
    BY <1>0, <1>1 DEF PagesParts, WriteTyped, PageTyped, CacheTyped, RespTyped, CountsTyped, Has
  <1>3. Offered'
    BY <1>1, EntriesHave DEF Offered
  <1>4. \A k \in Keys : KeyInv(k)'
    BY <1>0, <1>1, SameShown DEF PagesParts
  <1>5. QED
    BY <1>0, <1>1, <1>2, <1>3, <1>4, PagesInParts DEF PagesParts

LEMMA DoneKeeps == ASSUME PagesInv, Done PROVE PagesInv'
  <1>0. PagesParts
    BY PagesInParts
  <1>1. write' = NoRequest /\ UNCHANGED <<world, role, resp, turns, writes>>
    BY DEF Done, counts
  <1>2. /\ DOMAIN cache' = Keys
        /\ \A k \in Keys : cache'[k] = IF k \in Ops[write.op].marks THEN [cache[k] EXCEPT !.due = TRUE]
                                       ELSE cache[k]
    BY DEF Done
  <1>3. ASSUME NEW k \in Keys
        PROVE  /\ DOMAIN cache'[k] = DOMAIN Empty
               /\ cache'[k].shown = cache[k].shown /\ cache'[k].why = cache[k].why
               /\ cache'[k].due = IF k \in Ops[write.op].marks THEN TRUE ELSE cache[k].due
    <2>1. DOMAIN cache[k] = DOMAIN Empty
      BY <1>0 DEF PagesParts, CacheTyped
    <2>2. CASE k \in Ops[write.op].marks
      BY <1>2, <2>1, <2>2, EntriesHave
    <2>3. CASE k \notin Ops[write.op].marks
      BY <1>2, <2>1, <2>3
    <2>4. QED
      BY <2>2, <2>3
  <1>4. CacheTyped'
    BY <1>0, <1>2, <1>3 DEF PagesParts, CacheTyped, Has
  <1>5. PageTyped'
    BY <1>0, PagesAre DEF Done, PagesParts, PageTyped
  <1>6. WriteTyped' /\ RespTyped' /\ CountsTyped'
    BY <1>0, <1>1 DEF PagesParts, WriteTyped, RespTyped, CountsTyped
  <1>7. Offered'
    BY <1>1, EntriesHave DEF Offered
  <1>8. \A k \in Keys : KeyInv(k)'
    BY <1>0, <1>1, <1>3, SameShown DEF PagesParts
  <1>9. QED
    BY <1>0, <1>1, <1>4, <1>5, <1>6, <1>7, <1>8, PagesInParts DEF PagesParts

LEMMA LoseKeeps == ASSUME PagesInv, Lose PROVE PagesInv'
  <1>0. PagesParts
    BY PagesInParts
  <1>1. write' = NoRequest /\ UNCHANGED <<world, role, page, resp, turns, writes>>
    BY DEF Lose, counts
  <1>2. /\ DOMAIN cache' = Keys
        /\ \A k \in Keys : cache'[k] = IF write.op \in cache[k].why
                                       THEN [cache[k] EXCEPT !.why = cache[k].why \cup {"lost"}]
                                       ELSE cache[k]
    BY <1>0 DEF Lose, PagesParts, CacheTyped, Empty
  <1>3. ASSUME NEW k \in Keys
        PROVE  /\ DOMAIN cache'[k] = DOMAIN Empty
               /\ cache'[k].shown = cache[k].shown /\ cache'[k].due = cache[k].due
               /\ cache'[k].why = IF write.op \in cache[k].why THEN cache[k].why \cup {"lost"}
                                  ELSE cache[k].why
    <2>1. DOMAIN cache[k] = DOMAIN Empty
      BY <1>0 DEF PagesParts, CacheTyped
    <2>2. CASE write.op \in cache[k].why
      BY <1>2, <2>1, <2>2, EntriesHave
    <2>3. CASE write.op \notin cache[k].why
      BY <1>2, <2>1, <2>3
    <2>4. QED
      BY <2>2, <2>3
  <1>4. CacheTyped'
    BY <1>0, <1>2, <1>3, ReasonsAre DEF PagesParts, CacheTyped, Has
  <1>5. WriteTyped' /\ PageTyped' /\ RespTyped' /\ CountsTyped'
    BY <1>0, <1>1 DEF PagesParts, WriteTyped, PageTyped, RespTyped, CountsTyped
  <1>6. Offered'
    BY <1>1, EntriesHave DEF Offered
  <1>7. \A k \in Keys : KeyInv(k)'
    BY <1>0, <1>1, <1>3, ReasonsAre, SameShown DEF PagesParts
  <1>8. QED
    BY <1>0, <1>1, <1>4, <1>5, <1>6, <1>7, PagesInParts DEF PagesParts

LEMMA RedirectKeeps == ASSUME PagesInv, Redirect PROVE PagesInv'
  <1>0. PagesParts
    BY PagesInParts
  <1>1. UNCHANGED <<world, role, cache, resp, write, turns, writes>>
    BY DEF Redirect, counts
  <1>2. PageTyped'
    BY PagesAre DEF Redirect, Leads, PageTyped
  <1>3. WriteTyped' /\ CacheTyped' /\ RespTyped' /\ CountsTyped' /\ Offered'
    BY <1>0, <1>1 DEF PagesParts, WriteTyped, CacheTyped, Has, RespTyped, CountsTyped, Offered,
                      BusinessOpen, AccountOpen
  <1>4. \A k \in Keys : KeyInv(k)'
    BY <1>0, <1>1, SameShown DEF PagesParts
  <1>5. QED
    BY <1>0, <1>1, <1>2, <1>3, <1>4, PagesInParts DEF PagesParts

\* Every step keeps the invariant.
LEMMA PagesStepInv == PagesInv /\ [PagesNext]_pageVars => PagesInv'
  <1> SUFFICES ASSUME PagesInv, [PagesNext]_pageVars PROVE PagesInv'
    OBVIOUS
  <1>1. CASE UNCHANGED pageVars
    BY <1>1
       DEF pageVars, PagesInv, PagesTypeOK, Explained, Opened, Marked, Offered, Behind, Has, Now,
                BusinessOpen, AccountOpen
  <1>2. CASE \E p \in PagesOf(role), aged \in BOOLEAN : Visit(p, aged)
    BY <1>2, VisitKeeps
  <1>3. CASE page # "none" /\ Load
    BY <1>3, LoadKeeps
  <1>4. CASE page # "none" /\ \E offer \in Offers[page] : Click(offer)
    BY <1>4, ClickKeeps
  <1>5. CASE \E op \in Others : Elsewhere(op)
    BY <1>5, ElsewhereKeeps
  <1>6. QED
    BY <1>1, <1>2, <1>3, <1>4, <1>5, ForgetKeeps, PollKeeps, RedirectKeeps, ApplyKeeps, RefuseKeeps,
       DoneKeeps, LoseKeeps DEF PagesNext

\* The invariant of the pages (see Workbench), for any rows and roles the user may come with.
THEOREM PagesInvariance == PagesSpec => []PagesInv
  <1>1. PagesInit => PagesInv
    BY PagesInitInv
  <1>2. PagesInv /\ [PagesNext]_pageVars => PagesInv'
    BY PagesStepInv
  <1>3. QED
    BY <1>1, <1>2, PTL DEF PagesSpec

\* What is shown and kept of a key has the rows its query reads; the rows have statuses there
\* are, and a write under way is one of the writes.
THEOREM PagesTypeCorrect == PagesSpec => []PagesTypeOK
  <1>1. PagesInv => PagesTypeOK
    BY DEF PagesInv
  <1>2. QED
    BY <1>1, PagesInvariance, PTL

\* A page at rest shows what its own buttons wrote: their marks reach every key of the page that
\* reads a row they set, but for the three keys they leave (the invalidateQueries of the pages).
THEOREM WritesAreShown == PagesSpec => []PageShowsItsWrites
  <1>1. PagesInv => PageShowsItsWrites
    <2> SUFFICES ASSUME PagesInv, AtRest, NEW k \in Shows[page] \ LeftByTheirButtons, Behind(k)
                 PROVE  \/ cache[k].why \cap NotTheirs # {}
                        \/ cache[k].why # {} /\ cache[k].why \cap OfferedOn(page) = {}
      BY DEF PageShowsItsWrites
    <2>1. page \in DOMAIN Pages /\ k \in Keys /\ write = NoRequest /\ Due(page) = {}
      BY ShowsAre DEF PagesInv, PagesTypeOK, AtRest
    <2>2. Explained(k) /\ Marked(k) /\ cache[k].why \subseteq Reasons
      BY <2>1 DEF PagesInv, PagesTypeOK
    <2>3. cache[k].why # {}
      BY <2>2 DEF Explained
    <2>4. ASSUME NEW op \in cache[k].why \cap OfferedOn(page), cache[k].why \cap NotTheirs = {}
          PROVE  FALSE
      <3>1. op \in DOMAIN Ops
        BY <2>2, <2>4 DEF Reasons
      <3>2. /\ Reads[k] \cap DOMAIN Ops[op].sets # {}
            /\ op \in DOMAIN BusinessWrites => BusinessOpen
            /\ k \in Ops[op].marks => cache[k].due
        BY <2>1, <2>2, <2>4, <3>1, EntriesHave DEF Marked, NotTheirs
      <3>3. Told(k, op)
        BY <2>1, <2>4, PagesTell
      <3>4. cache[k].due /\ Open(k)
        BY <3>2, <3>3 DEF Told, Open
      <3>5. QED
        BY <2>1, <3>4 DEF Due
    <2>5. QED
      BY <2>3, <2>4
  <1>2. QED
    BY <1>1, PagesInvariance, PTL

\* A write under way was offered on what it holds.
LEMMA SentWasOffered ==
  ASSUME PagesInv, write.stage = "sent"
  PROVE  \E offer, p : /\ Fits(offer, p) /\ p = write.page
                       /\ write.op = offer.op /\ write.on = offer.on /\ role \in offer.by
                       /\ offer.on # "none" =>
                            /\ offer.on \in DOMAIN BusinessReads => BusinessOpen
                            /\ \A x \in DOMAIN offer.when : write.row[x] \in offer.when[x]
  BY OffersFit DEF PagesInv, Offered

\* What the buttons offer is what the services accept, by role and by status, unless the row has
\* changed since it was shown, but for the nine offers that are named: those of RefusedAnyway,
\* the forms of a business that is not open, and the drawer's cancellation for STAFF.
THEOREM RefusalsAreOfStaleRows == PagesSpec => RefusedOnlyIfBehind
  <1>1. ASSUME PagesInv, Refuse
        PROVE  \/ write.on # "none" /\ write.row # Now(write.on)
               \/ \E x \in DOMAIN world : <<write.op, x, world[x]>> \in RefusedAnyway
               \/ write.on = "none" /\ write.op \in DOMAIN BusinessWrites /\ ~BusinessOpen
               \/ write.op = "CancelSale" /\ role = "STAFF" /\ write.page = "saleDrawer"
    <2>1. write.stage = "sent" /\ ~Accepts(write.op, role)
      BY <1>1 DEF Refuse
    <2>2. PICK offer, p : /\ Fits(offer, p) /\ p = write.page
                          /\ write.op = offer.op /\ write.on = offer.on /\ role \in offer.by
                          /\ offer.on # "none" =>
                               /\ offer.on \in DOMAIN BusinessReads => BusinessOpen
                               /\ \A x \in DOMAIN offer.when : write.row[x] \in offer.when[x]
      BY <1>1, <2>1, SentWasOffered
    <2>3. CASE role \notin Ops[offer.op].may
      BY <2>2, <2>3 DEF Fits
    <2>4. CASE role \in Ops[offer.op].may /\ offer.on = "none"
      BY <2>1, <2>2, <2>4 DEF Fits, Accepts
    <2>5. CASE role \in Ops[offer.op].may /\ offer.on # "none" /\ write.row = Now(offer.on)
      <3>1. offer.op \in DOMAIN BusinessWrites => BusinessOpen
        BY <2>2, <2>5 DEF Fits
      <3>2. PICK x \in DOMAIN Ops[offer.op].needs : world[x] \notin Ops[offer.op].needs[x]
        BY <2>1, <2>2, <2>5, <3>1 DEF Accepts
      <3>3. ASSUME x \in DOMAIN offer.when PROVE world[x] \in offer.when[x]
        BY <2>2, <2>5, <3>3 DEF Fits, Now
      <3>4. x \in DOMAIN Statuses
        BY <2>2, AllNeeds DEF Fits
      <3>5. world[x] \in Allowed(offer, x)
        BY <1>1, <3>3, <3>4 DEF Allowed, PagesInv, PagesTypeOK, IsWorld
      <3>6. <<offer.op, x, world[x]>> \in RefusedAnyway
        BY <2>2, <2>5, <3>2, <3>5 DEF Fits
      <3>7. x \in DOMAIN world
        BY <1>1, <3>4 DEF PagesInv, PagesTypeOK, IsWorld
      <3>8. QED
        BY <2>2, <3>6, <3>7
    <2>6. QED
      BY <2>2, <2>3, <2>4, <2>5
  <1>2. PagesInv /\ [PagesNext]_pageVars =>
          [Refuse => \/ write.on # "none" /\ write.row # Now(write.on)
                     \/ \E x \in DOMAIN world : <<write.op, x, world[x]>> \in RefusedAnyway
                     \/ write.on = "none" /\ write.op \in DOMAIN BusinessWrites /\ ~BusinessOpen
                     \/ write.op = "CancelSale" /\ role = "STAFF" /\ write.page = "saleDrawer"]_pageVars
    BY <1>1
  <1>3. QED
    BY <1>2, PagesInvariance, PTL DEF PagesSpec, RefusedOnlyIfBehind

================================================================================
