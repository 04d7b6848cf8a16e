----------------------------- MODULE AccountProofs -----------------------------
(***************************************************************************)
(* Theorems about Accounts for any showrooms, e-mails, plans and requests. *)
(* The arguments: an owner comes with its showroom and nobody but the      *)
(* SuperAdmin touches one, because what a request deactivates was STAFF    *)
(* when it looked and stays so; and the one claim of a showroom that was   *)
(* given no time is its trial, which runs and shuts the account gate, or   *)
(* is over and shuts the licence's.                                        *)
(***************************************************************************)
EXTENDS Accounts, SequenceTheorems, FiniteSetTheorems, WellFoundedInduction, TLAPS

\* What a claim appended, or changed in place, makes of the list.
LEMMA Appended ==
  ASSUME NEW list \in Seq(ClaimRow), NEW c \in ClaimRow
  PROVE  /\ Append(list, c) \in Seq(ClaimRow) /\ Len(Append(list, c)) = Len(list) + 1
         /\ \A i \in 1..Len(list) : Append(list, c)[i] = list[i]
  OBVIOUS

LEMMA ChangedInPlace ==
  ASSUME TypeOK, NEW s \in Showrooms, NEW i \in DOMAIN claims[s], NEW c \in ClaimRow,
         claims' = [claims EXCEPT ![s][i] = c]
  PROVE  /\ claims' \in [Showrooms -> Seq(ClaimRow)]
         /\ claims'[s][i] = c /\ \A j \in DOMAIN claims[s] : j # i => claims'[s][j] = claims[s][j]
         /\ \A z \in Showrooms : Len(claims'[z]) = Len(claims[z]) /\ (z # s => claims'[z] = claims[z])
  <1> DEFINE list == [claims[s] EXCEPT ![i] = c]
  <1>1. claims[s] \in Seq(ClaimRow) /\ claims \in [Showrooms -> Seq(ClaimRow)]
    BY DEF TypeOK
  <1>2. list \in Seq(ClaimRow) /\ Len(list) = Len(claims[s])
    BY <1>1
  <1>3. claims' = [claims EXCEPT ![s] = list]
    OBVIOUS
  <1>4. list[i] = c /\ \A j \in DOMAIN claims[s] : j # i => list[j] = claims[s][j]
    BY <1>1
  <1> HIDE DEF list
  <1>5. claims'[s] = list /\ \A z \in Showrooms : z # s => claims'[z] = claims[z]
    BY <1>1, <1>3
  <1>6. QED
    BY <1>1, <1>2, <1>3, <1>4, <1>5

LEMMA NoRequestTyped == NoRequest \in Request
  BY DEF NoRequest, Request, Kinds

LEMMA ClaimTyped ==
  ASSUME NEW status \in Statuses, NEW limit \in Limits \cup {NoLimit}
  PROVE  Claim(status, limit) \in ClaimRow /\ Claim(status, limit).status = status
  BY DEF Claim, ClaimRow

\* An overtaken request is the request it was.
LEMMA Overtaken ==
  ASSUME TypeOK, NEW r \in Requests \cup {"none"}, NEW s \in Showrooms, req' = Overtake(r, s)
  PROVE  /\ req' \in [Requests -> Request]
         /\ \A q \in Requests : q # r => /\ req'[q].s = req[q].s /\ req'[q].e = req[q].e
                                         /\ req'[q].kind = req[q].kind
  <1>1. \A q \in Requests : req[q] \in Request
    BY DEF TypeOK
  <1>2. ASSUME NEW q \in Requests
        PROVE  LET p == [req[q] EXCEPT !.overtaken = @ \/ req[q].s = s]
               IN  /\ p \in Request /\ p.s = req[q].s /\ p.e = req[q].e /\ p.kind = req[q].kind
    <2>1. (req[q].overtaken \/ req[q].s = s) \in BOOLEAN
      OBVIOUS
    <2>2. QED
      BY <1>1, <2>1 DEF Request
  <1>3. QED
    BY <1>2, NoRequestTyped DEF Overtake

LEMMA InitIInv == Init => IInv
  <1> SUFFICES ASSUME Init PROVE IInv
    OBVIOUS
  <1>1. TypeOK
    <2>1. NoShowroom \in Showroom /\ NoUser \in User /\ NoRequest \in Request
      BY NoRequestTyped, AccountsAssumption DEF NoShowroom, Showroom, NoUser, User
    <2>2. <<>> \in Seq(ClaimRow) /\ Len(<<>>) = 0
      OBVIOUS
    <2>3. QED
      BY <2>1, <2>2, AccountsAssumption DEF Init, TypeOK, Taken, NoUser, NoShowroom
  <1>2. \A s \in Showrooms : ~showrooms[s].exists
    BY DEF Init, NoShowroom
  <1>3. QED
    BY <1>1, <1>2 DEF Init, IInv, RequestInv, TrialInv, ShowroomHasOwner

-----------------------------------------------------------------------------
(* Registration.                                                            *)

LEMMA RegisterStartKeeps ==
  ASSUME IInv, NEW r \in Requests, RegisterStart(r) PROVE IInv'
  <1>1. PICK s \in Showrooms, e \in Emails, kind \in {"register", "create"} :
          /\ req' = [req EXCEPT ![r] = [NoRequest EXCEPT !.kind = kind, !.s = s, !.e = e]]
          /\ pc' = [pc EXCEPT ![r] = "bootstrap"]
          /\ UNCHANGED <<showrooms, users, claims, edits, granted>>
    BY DEF RegisterStart, Goto
  <1>2. [NoRequest EXCEPT !.kind = kind, !.s = s, !.e = e] \in Request
    BY NoRequestTyped DEF Request, Kinds
  <1>3. TypeOK'
    BY <1>1, <1>2 DEF IInv, TypeOK, Taken
  <1>4. RequestInv'
    BY <1>1 DEF IInv, TypeOK, RequestInv, NoRequest
  <1>5. QED
    BY <1>1, <1>3, <1>4 DEF IInv, TrialInv, ShowroomHasOwner, Owners, Active

LEMMA RegisterCommitKeeps ==
  ASSUME IInv, NEW r \in Requests, RegisterCommit(r) PROVE IInv'
  <1> DEFINE s == req[r].s
             e == req[r].e
  <1>1. /\ pc[r] = "bootstrap" /\ pc' = [pc EXCEPT ![r] = "idle"]
        /\ req' = [req EXCEPT ![r] = NoRequest] /\ UNCHANGED edits
        /\ s \in Showrooms /\ e \in Emails
    BY DEF RegisterCommit, Ends, Goto, IInv, RequestInv
  <1>2. /\ req' \in [Requests -> Request] /\ pc' \in [Requests -> {"idle", "bootstrap", "write"}]
        /\ pc'[r] = "idle" /\ \A q \in Requests \ {r} : pc'[q] = pc[q] /\ req'[q] = req[q]
    BY <1>1, NoRequestTyped DEF IInv, TypeOK
  <1>3. CASE UNCHANGED <<showrooms, users, claims, granted>>
    <2>1. TypeOK'
      BY <1>1, <1>2, <1>3 DEF IInv, TypeOK, Taken
    <2>2. RequestInv'
      BY <1>1, <1>2, <1>3 DEF IInv, RequestInv
    <2>3. QED
      BY <1>1, <1>3, <2>1, <2>2 DEF IInv, TrialInv, ShowroomHasOwner, Owners, Active
  <1>4. CASE ~showrooms[s].exists /\ ~Taken(e) /\ Bootstrap(req[r].kind, s, e)
    <2> DEFINE first == Claim(IF req[r].kind = "create" THEN "ACTIVE" ELSE "TRIAL", NoLimit)
               kept  == [exists |-> TRUE, active |-> TRUE, onboarded |-> req[r].kind = "create",
                         license |-> 1]
    <2>1. /\ showrooms' = [showrooms EXCEPT ![s] = kept]
          /\ users' = [users EXCEPT ![e] = [showroom |-> s, role |-> "OWNER", active |-> TRUE]]
          /\ claims' = [claims EXCEPT ![s] = <<first>>]
          /\ granted' = IF req[r].kind = "create" THEN granted \cup {s} ELSE granted
      BY <1>4 DEF Bootstrap
    <2>2. kept \in Showroom /\ kept.exists /\ kept.license = 1
      BY AccountsAssumption DEF Showroom
    <2>3. first \in ClaimRow /\ (req[r].kind # "create" => first.status = "TRIAL")
      BY ClaimTyped DEF Statuses
    <2> HIDE DEF first, kept
    <2>4. /\ <<first>> \in Seq(ClaimRow) /\ Len(<<first>>) = 1 /\ <<first>> # <<>>
          /\ <<first>>[1] = first
      BY <2>3
    <2>5. /\ showrooms'[s] = kept /\ claims'[s] = <<first>>
          /\ users'[e].showroom = s /\ users'[e].role = "OWNER" /\ users'[e].active
          /\ \A z \in Showrooms \ {s} : showrooms'[z] = showrooms[z] /\ claims'[z] = claims[z]
          /\ \A d \in Emails \ {e} : users'[d] = users[d]
      BY <1>1, <2>1 DEF IInv, TypeOK
    <2>6. TypeOK'
      <3>1. showrooms' \in [Showrooms -> Showroom] /\ users' \in [Emails -> User]
        BY <1>1, <2>1, <2>2 DEF IInv, TypeOK, User
      <3>2. claims' \in [Showrooms -> Seq(ClaimRow)]
        BY <1>1, <2>1, <2>4 DEF IInv, TypeOK
      <3>3. \A z \in Showrooms : Len(claims'[z]) <= MaxClaims /\ showrooms'[z].license <= Len(claims'[z])
        <4> TAKE z \in Showrooms
        <4>1. CASE z = s
          <5>1. Len(claims'[z]) = 1 /\ showrooms'[z].license = 1
            BY <2>2, <2>4, <2>5, <4>1
          <5>2. QED
            BY <5>1, AccountsAssumption
        <4>2. CASE z # s
          BY <2>5, <4>2 DEF IInv, TypeOK
        <4>3. QED
          BY <4>1, <4>2
      <3>4. \A d \in Emails : Taken(d)' => showrooms'[users'[d].showroom].exists
        <4> SUFFICES ASSUME NEW d \in Emails, users'[d].showroom # "none"
                     PROVE  showrooms'[users'[d].showroom].exists
          BY DEF Taken
        <4>1. CASE d = e
          BY <1>1, <2>2, <2>5, <4>1
        <4>2. CASE d # e
          <5>1. users'[d].showroom = users[d].showroom /\ users[d].showroom # "none"
            BY <2>5, <4>2
          <5>2. users[d].showroom \in Showrooms /\ showrooms[users[d].showroom].exists
            BY <5>1 DEF IInv, TypeOK, Taken, User
          <5>3. QED
            BY <1>4, <2>5, <5>1, <5>2
        <4>3. QED
          BY <4>1, <4>2
      <3>5. granted' \subseteq Showrooms
        BY <1>1, <2>1 DEF IInv, TypeOK
      <3>6. QED
        BY <1>1, <1>2, <3>1, <3>2, <3>3, <3>4, <3>5 DEF IInv, TypeOK
    <2>7. RequestInv'
      <3> SUFFICES ASSUME NEW q \in Requests
                   PROVE  /\ pc'[q] # "idle" => req'[q].s \in Showrooms /\ req'[q].e \in Emails
                          /\ pc'[q] = "write" =>
                               /\ showrooms'[req'[q].s].exists
                               /\ req'[q].kind \in {"insert", "deactivate", "reactivate"}
                               /\ req'[q].kind # "insert" =>
                                    /\ users'[req'[q].e].showroom = req'[q].s
                                    /\ edits'[req'[q].s] = 0 => users'[req'[q].e].role = "STAFF"
        BY DEF RequestInv
      <3>1. CASE q = r
        BY <1>2, <3>1
      <3>2. CASE q # r
        <4>1. pc'[q] = pc[q] /\ req'[q] = req[q]
          BY <1>2, <3>2
        <4>2. pc[q] # "idle" => req[q].s \in Showrooms /\ req[q].e \in Emails
          BY DEF IInv, RequestInv
        <4>3. ASSUME pc[q] = "write"
              PROVE  showrooms'[req[q].s].exists /\ req[q].kind \in {"insert", "deactivate", "reactivate"}
          BY <1>4, <2>5, <4>2, <4>3 DEF IInv, RequestInv
        <4>4. ASSUME pc[q] = "write", req[q].kind # "insert"
              PROVE  /\ users'[req[q].e].showroom = req[q].s
                     /\ edits'[req[q].s] = 0 => users'[req[q].e].role = "STAFF"
          <5>1. users[req[q].e].showroom = req[q].s /\ req[q].s \in Showrooms /\ req[q].e \in Emails
            BY <4>2, <4>4 DEF IInv, RequestInv
          <5>2. req[q].e # e
            BY <1>4, <5>1, AccountsAssumption DEF Taken
          <5>3. QED
            BY <1>1, <2>5, <4>4, <5>1, <5>2 DEF IInv, RequestInv
        <4>5. QED
          BY <4>1, <4>2, <4>3, <4>4
      <3>3. QED
        BY <3>1, <3>2
    <2>8. TrialInv'
      <3> SUFFICES ASSUME NEW z \in Showrooms, showrooms'[z].exists
                   PROVE  /\ claims'[z] # <<>>
                          /\ z \notin granted' /\ Len(claims'[z]) = 1 =>
                               /\ showrooms'[z].license = 1
                               /\ \/ claims'[z][1].status = "TRIAL"
                                  \/ claims'[z][1].status = "EXPIRED" /\ claims'[z][1].over
        BY DEF TrialInv
      <3>1. CASE z = s
        BY <2>1, <2>2, <2>3, <2>4, <2>5, <3>1
      <3>2. CASE z # s
        BY <2>1, <2>5, <3>2 DEF IInv, TrialInv
      <3>3. QED
        BY <3>1, <3>2
    <2>9. ShowroomHasOwner'
      <3> SUFFICES ASSUME NEW z \in Showrooms, showrooms'[z].exists, edits'[z] = 0
                   PROVE  Owners(z)' # {} /\ claims'[z] # <<>>
        BY DEF ShowroomHasOwner
      <3>1. claims'[z] # <<>>
        BY <2>8 DEF TrialInv
      <3>2. CASE z = s
        BY <1>1, <2>5, <3>1, <3>2 DEF Owners, Active
      <3>3. CASE z # s
        <4>1. PICK o \in Owners(z) : TRUE
          BY <1>1, <2>5, <3>3 DEF IInv, ShowroomHasOwner
        <4>2. o # e
          BY <1>4, <4>1, AccountsAssumption DEF Owners, Active, Taken
        <4>3. QED
          BY <2>5, <3>1, <4>1, <4>2 DEF Owners, Active
      <3>4. QED
        BY <3>2, <3>3
    <2>10. QED
      BY <2>6, <2>7, <2>8, <2>9 DEF IInv
  <1>5. QED
    BY <1>3, <1>4 DEF RegisterCommit
-----------------------------------------------------------------------------
(* Users.                                                                   *)

\* A request that has looked, and found what it is about.
LEMMA BeginKeeps ==
  ASSUME IInv, NEW r \in Requests, NEW s \in Showrooms, NEW e \in Emails,
         NEW kind \in {"insert", "deactivate", "reactivate"}, NEW q \in Request,
         req' = [req EXCEPT ![r] = q], q.kind = kind, q.s = s, q.e = e,
         pc' = [pc EXCEPT ![r] = "write"], UNCHANGED <<showrooms, users, claims, edits, granted>>,
         showrooms[s].exists,
         kind # "insert" => users[e].showroom = s /\ users[e].role = "STAFF"
  PROVE  IInv'
  <1>2. TypeOK'
    BY DEF IInv, TypeOK, Taken
  <1>3. RequestInv'
    <2>1. \A p \in Requests \ {r} : pc'[p] = pc[p] /\ req'[p] = req[p]
      BY DEF IInv, TypeOK
    <2>2. /\ pc'[r] = "write" /\ req'[r].s = s /\ req'[r].e = e /\ req'[r].kind = kind
      BY DEF IInv, TypeOK
    <2>3. QED
      BY <2>1, <2>2 DEF IInv, RequestInv
  <1>4. QED
    BY <1>2, <1>3 DEF IInv, TrialInv, ShowroomHasOwner, Owners, Active

LEMMA CreateUserStartKeeps ==
  ASSUME IInv, NEW r \in Requests, CreateUserStart(r) PROVE IInv'
  <1>1. PICK s \in Followed, e \in Emails, role \in {"OWNER", "STAFF"} :
          /\ showrooms[s].exists /\ pc' = [pc EXCEPT ![r] = "write"]
          /\ req' = [req EXCEPT ![r] =
                       [NoRequest EXCEPT !.kind = "insert", !.s = s, !.e = e, !.role = role]]
          /\ UNCHANGED <<showrooms, users, claims, edits, granted>>
    BY DEF CreateUserStart, Goto
  <1> DEFINE q == [NoRequest EXCEPT !.kind = "insert", !.s = s, !.e = e, !.role = role]
  <1>2. q \in Request /\ q.kind = "insert" /\ q.s = s /\ q.e = e
    BY AccountsAssumption, NoRequestTyped DEF Request, Kinds
  <1>3. s \in Showrooms
    BY AccountsAssumption
  <1>4. req' = [req EXCEPT ![r] = q]
    BY <1>1
  <1> HIDE DEF q
  <1>5. QED
    BY <1>1, <1>2, <1>3, <1>4, BeginKeeps

LEMMA SetUserActiveStartKeeps ==
  ASSUME IInv, NEW r \in Requests, SetUserActiveStart(r) PROVE IInv'
  <1>1. PICK actor \in Emails, e \in Emails :
          LET s == users[actor].showroom
          IN  /\ OwnerOf(actor, s) /\ users[e].showroom = s /\ users[e].role = "STAFF"
              /\ req' = [req EXCEPT ![r] =
                           [NoRequest EXCEPT !.s = s, !.e = e,
                              !.kind = IF users[e].active THEN "deactivate" ELSE "reactivate"]]
              /\ pc' = [pc EXCEPT ![r] = "write"]
              /\ UNCHANGED <<showrooms, users, claims, edits, granted>>
    BY DEF SetUserActiveStart, Goto
  <1> DEFINE s == users[actor].showroom
             kind == IF users[e].active THEN "deactivate" ELSE "reactivate"
  <1>2. s \in Showrooms /\ showrooms[s].exists
    BY <1>1, AccountsAssumption DEF OwnerOf, IInv, TypeOK, Taken
  <1>3. /\ users[e].showroom = s /\ users[e].role = "STAFF" /\ kind \in {"insert", "deactivate", "reactivate"}
        /\ pc' = [pc EXCEPT ![r] = "write"]
        /\ UNCHANGED <<showrooms, users, claims, edits, granted>>
    BY <1>1
  <1> DEFINE q == [NoRequest EXCEPT !.s = s, !.e = e, !.kind = kind]
  <1>4. req' = [req EXCEPT ![r] = q]
    BY <1>1
  <1> HIDE DEF s, kind
  <1>5. q \in Request /\ q.kind = kind /\ q.s = s /\ q.e = e
    BY <1>2, <1>3, NoRequestTyped DEF Request, Kinds
  <1> HIDE DEF q
  <1>6. QED
    BY <1>2, <1>3, <1>4, <1>5, BeginKeeps

\* An inserted user was nobody; a toggled one is no owner while no edit came.
LEMMA WriteUserKeeps ==
  ASSUME IInv, NEW r \in Requests, WriteUser(r) PROVE IInv'
  <1> DEFINE s == req[r].s
             e == req[r].e
             row == IF req[r].kind = "insert"
                    THEN [showroom |-> s, role |-> req[r].role, active |-> TRUE]
                    ELSE [users[e] EXCEPT !.active = req[r].kind = "reactivate"]
  <1>1. /\ pc[r] = "write" /\ pc' = [pc EXCEPT ![r] = "idle"]
        /\ UNCHANGED <<showrooms, claims, edits, granted>>
        /\ users' = users \/ (users' = [users EXCEPT ![e] = row] /\ (req[r].kind = "insert" => ~Taken(e)))
        /\ req' = Overtake(r, s) \/ req' = [req EXCEPT ![r] = NoRequest]
    <2> DEFINE written == req[r].kind = "insert" => ~Taken(e)
    <2>1. /\ pc[r] = "write" /\ Goto(r, "idle")
          /\ users' = IF written THEN [users EXCEPT ![e] = row] ELSE users
          /\ req'   = IF written THEN Overtake(r, s) ELSE [req EXCEPT ![r] = NoRequest]
          /\ UNCHANGED <<showrooms, claims, edits, granted>>
      BY DEF WriteUser
    <2> HIDE DEF row
    <2>2. QED
      BY <2>1 DEF Goto
  <1>2. /\ s \in Showrooms /\ e \in Emails /\ showrooms[s].exists
        /\ req[r].kind # "insert" => users[e].showroom = s /\ (edits[s] = 0 => users[e].role = "STAFF")
    BY <1>1 DEF IInv, RequestInv
  <1>3. /\ req' \in [Requests -> Request]
        /\ \A q \in Requests \ {r} : /\ pc'[q] = pc[q]
                                     /\ req'[q].s = req[q].s /\ req'[q].e = req[q].e
                                     /\ req'[q].kind = req[q].kind
    <2>1. \A q \in Requests \ {r} : pc'[q] = pc[q]
      BY <1>1 DEF IInv, TypeOK
    <2>2. CASE req' = Overtake(r, s)
      BY <1>2, <2>1, <2>2, Overtaken DEF IInv
    <2>3. CASE req' = [req EXCEPT ![r] = NoRequest]
      BY <2>1, <2>3, NoRequestTyped DEF IInv, TypeOK
    <2>4. QED
      BY <1>1, <2>2, <2>3
  <1>4. /\ row \in User /\ row.showroom = s
        /\ req[r].kind # "insert" => row.role = users[e].role
    <2>1. req[r] \in Request /\ users[e] \in User /\ (req[r].kind = "reactivate") \in BOOLEAN
      BY <1>2 DEF IInv, TypeOK
    <2>2. CASE req[r].kind = "insert"
      BY <1>2, <2>1, <2>2 DEF Request, User
    <2>3. CASE req[r].kind # "insert"
      BY <1>2, <2>1, <2>3 DEF User
    <2>4. QED
      BY <2>2, <2>3
  <1> HIDE DEF row
  <1>5. /\ users' \in [Emails -> User] /\ users'[e] \in {users[e], row}
        /\ \A d \in Emails \ {e} : users'[d] = users[d]
    BY ZenonT(60), <1>1, <1>2, <1>4 DEF IInv, TypeOK
  <1>6. TypeOK'
    <2>1. \A d \in Emails : Taken(d)' => showrooms'[users'[d].showroom].exists
      <3> SUFFICES ASSUME NEW d \in Emails, users'[d].showroom # "none"
                   PROVE  showrooms[users'[d].showroom].exists
        BY <1>1 DEF Taken
      <3>1. CASE users'[d] = users[d]
        BY <3>1 DEF IInv, TypeOK, Taken
      <3>2. CASE users'[d] # users[d]
        BY <1>2, <1>4, <1>5, <3>2
      <3>3. QED
        BY <3>1, <3>2
    <2>2. pc' \in [Requests -> {"idle", "bootstrap", "write"}]
      BY <1>1 DEF IInv, TypeOK
    <2>3. QED
      BY <1>1, <1>3, <1>5, <2>1, <2>2 DEF IInv, TypeOK
  <1>7. RequestInv'
    <2> SUFFICES ASSUME NEW q \in Requests, q # r
                 PROVE  /\ pc[q] # "idle" => req[q].s \in Showrooms /\ req[q].e \in Emails
                        /\ pc[q] = "write" =>
                             /\ showrooms[req[q].s].exists
                             /\ req[q].kind \in {"insert", "deactivate", "reactivate"}
                             /\ req[q].kind # "insert" =>
                                  /\ users'[req[q].e].showroom = req[q].s
                                  /\ edits[req[q].s] = 0 => users'[req[q].e].role = "STAFF"
      <3>1. pc'[r] = "idle"
        BY <1>1 DEF IInv, TypeOK
      <3>2. QED
        BY <1>1, <1>3, <3>1 DEF RequestInv
    <2>1. ASSUME pc[q] = "write", req[q].kind # "insert", users'[req[q].e] # users[req[q].e]
          PROVE  /\ users'[req[q].e].showroom = req[q].s
                 /\ edits[req[q].s] = 0 => users'[req[q].e].role = "STAFF"
      <3>1. /\ req[q].e \in Emails /\ req[q].s \in Showrooms /\ users[req[q].e].showroom = req[q].s
            /\ edits[req[q].s] = 0 => users[req[q].e].role = "STAFF"
        BY <2>1 DEF IInv, RequestInv
      <3>2. req[q].e = e /\ users'[e] = row
        BY <1>5, <2>1, <3>1
      <3>3. req[r].kind # "insert"
        <4>1. Taken(e)
          BY <3>1, <3>2, AccountsAssumption DEF Taken
        <4>2. QED
          BY <1>1, <2>1, <3>2, <4>1
      <3>4. QED
        BY <1>2, <1>4, <3>1, <3>2, <3>3
    <2>2. QED
      BY <2>1 DEF IInv, RequestInv
  <1>8. ShowroomHasOwner'
    <2> SUFFICES ASSUME NEW z \in Showrooms, showrooms[z].exists, edits[z] = 0
                 PROVE  Owners(z)' # {} /\ claims[z] # <<>>
      BY <1>1 DEF ShowroomHasOwner
    <2>1. claims[z] # <<>> /\ \E o \in Emails : o \in Owners(z)
      BY DEF IInv, ShowroomHasOwner, Owners, Active
    <2>2. PICK o \in Emails : o \in Owners(z)
      BY <2>1
    <2>3. users[o].showroom = z /\ users[o].active /\ users[o].role = "OWNER"
      BY <2>2 DEF Owners, Active
    <2>4. users'[o] = users[o]
      <3>1. CASE o # e
        BY <1>5, <3>1
      <3>2. CASE o = e /\ req[r].kind = "insert"
        <4>1. Taken(e)
          BY <2>3, <3>2, AccountsAssumption DEF Taken
        <4>2. QED
          BY <1>1, <3>2, <4>1
      <3>3. CASE o = e /\ req[r].kind # "insert"
        BY <1>2, <2>3, <3>3
      <3>4. QED
        BY <3>1, <3>2, <3>3
    <2>5. QED
      BY <2>1, <2>3, <2>4 DEF Owners, Active
  <1>9. TrialInv'
    BY <1>1 DEF IInv, TrialInv
  <1>10. QED
    BY <1>6, <1>7, <1>8, <1>9 DEF IInv
\* What the SuperAdmin edits is edited from then on, and other showrooms' users are
\* not those it edits.
LEMMA UpdateUserKeeps == ASSUME IInv, UpdateUser PROVE IInv'
  <1>1. PICK e \in Emails, role \in {"OWNER", "STAFF"}, active \in BOOLEAN :
          LET s == users[e].showroom
          IN  /\ s \in Followed /\ edits[s] < MaxEdits
              /\ users' = [users EXCEPT ![e].role = role, ![e].active = active]
              /\ edits' = [edits EXCEPT ![s] = @ + 1]
              /\ req'   = Overtake("none", s)
              /\ UNCHANGED <<showrooms, claims, pc, granted>>
    BY DEF UpdateUser
  <1> DEFINE s == users[e].showroom
  <1>2. s \in Showrooms /\ edits[s] < MaxEdits
    BY <1>1, AccountsAssumption
  <1>3. /\ users' \in [Emails -> User] /\ users'[e].showroom = s
        /\ \A d \in Emails \ {e} : users'[d] = users[d]
    <2>1. [users[e] EXCEPT !.role = role, !.active = active] \in User
      BY DEF IInv, TypeOK, User
    <2>2. users' = [users EXCEPT ![e] = [users[e] EXCEPT !.role = role, !.active = active]]
      BY <1>1 DEF IInv, TypeOK
    <2>3. [users[e] EXCEPT !.role = role, !.active = active].showroom = s
      BY DEF IInv, TypeOK, User
    <2>4. QED
      BY <2>1, <2>2, <2>3 DEF IInv, TypeOK
  <1>4. /\ edits' \in [Showrooms -> 0..MaxEdits] /\ edits'[s] # 0
        /\ \A z \in Showrooms \ {s} : edits'[z] = edits[z]
    <2>1. edits \in [Showrooms -> 0..MaxEdits] /\ edits' = [edits EXCEPT ![s] = @ + 1]
      BY <1>1 DEF IInv, TypeOK
    <2>2. edits[s] + 1 \in 0..MaxEdits /\ edits[s] + 1 # 0
      BY <1>2, <2>1, AccountsAssumption
    <2>3. QED
      BY <1>2, <2>1, <2>2
  <1>5. /\ req' \in [Requests -> Request]
        /\ \A q \in Requests : /\ req'[q].s = req[q].s /\ req'[q].e = req[q].e
                               /\ req'[q].kind = req[q].kind
    <2>1. \A q \in Requests : q # "none"
      BY AccountsAssumption
    <2>2. req' = Overtake("none", s) /\ TypeOK
      BY <1>1 DEF IInv
    <2> HIDE DEF s
    <2>3. QED
      BY <1>2, <2>1, <2>2, Overtaken
  <1> HIDE DEF s
  <1>6. UNCHANGED <<showrooms, claims, pc, granted>> /\ users[e].showroom = s
    BY <1>1 DEF s
  <1>7. TypeOK'
    <2>1. \A d \in Emails : users'[d].showroom = users[d].showroom
      BY <1>3, <1>6
    <2>2. QED
      BY <1>3, <1>4, <1>5, <1>6, <2>1 DEF IInv, TypeOK, Taken
  <1>8. RequestInv'
    <2> SUFFICES ASSUME NEW q \in Requests
                 PROVE  /\ pc[q] # "idle" => req[q].s \in Showrooms /\ req[q].e \in Emails
                        /\ pc[q] = "write" =>
                             /\ showrooms[req[q].s].exists
                             /\ req[q].kind \in {"insert", "deactivate", "reactivate"}
                             /\ req[q].kind # "insert" =>
                                  /\ users'[req[q].e].showroom = req[q].s
                                  /\ edits'[req[q].s] = 0 => users'[req[q].e].role = "STAFF"
      BY <1>5, <1>6 DEF RequestInv
    <2>1. ASSUME pc[q] = "write", req[q].kind # "insert"
          PROVE  /\ users'[req[q].e].showroom = req[q].s
                 /\ edits'[req[q].s] = 0 => users'[req[q].e].role = "STAFF"
      <3>1. /\ req[q].e \in Emails /\ req[q].s \in Showrooms /\ users[req[q].e].showroom = req[q].s
            /\ edits[req[q].s] = 0 => users[req[q].e].role = "STAFF"
        BY <2>1 DEF IInv, RequestInv
      <3>2. CASE req[q].e = e
        BY <1>3, <1>4, <1>6, <3>1, <3>2
      <3>3. CASE req[q].e # e
        <4>1. users'[req[q].e] = users[req[q].e]
          BY <1>3, <3>1, <3>3
        <4>2. QED
          BY <1>4, <3>1, <4>1
      <3>4. QED
        BY <3>2, <3>3
    <2>2. QED
      BY <2>1 DEF IInv, RequestInv
  <1>9. ShowroomHasOwner'
    <2> SUFFICES ASSUME NEW z \in Showrooms, showrooms[z].exists, edits'[z] = 0
                 PROVE  Owners(z)' # {} /\ claims[z] # <<>>
      BY <1>6 DEF ShowroomHasOwner
    <2>1. z # s /\ edits[z] = 0
      BY <1>4
    <2>2. claims[z] # <<>> /\ \E o \in Emails : o \in Owners(z)
      BY <2>1 DEF IInv, ShowroomHasOwner, Owners, Active
    <2>3. PICK o \in Emails : o \in Owners(z)
      BY <2>2
    <2>4. users'[o] = users[o]
      BY <1>3, <1>6, <2>1, <2>3 DEF Owners, Active
    <2>5. QED
      BY <2>2, <2>3, <2>4 DEF Owners, Active
  <1>10. TrialInv'
    BY <1>6 DEF IInv, TrialInv
  <1>11. QED
    BY <1>7, <1>8, <1>9, <1>10 DEF IInv

-----------------------------------------------------------------------------
(* The showroom and its claims.                                             *)

\* A step that touches no user and no request, and takes no claim away.
SameUsers == UNCHANGED <<users, pc, edits>> /\ granted' \subseteq Showrooms

RowsTyped == showrooms' \in [Showrooms -> Showroom] /\ claims' \in [Showrooms -> Seq(ClaimRow)]

RowsKept ==
  \A z \in Showrooms : /\ showrooms'[z].exists = showrooms[z].exists
                       /\ Len(claims'[z]) <= MaxClaims
                       /\ showrooms'[z].license <= Len(claims'[z])
                       /\ claims[z] # <<>> => claims'[z] # <<>>

RequestsKept ==
  /\ req' \in [Requests -> Request]
  /\ \A q \in Requests : req'[q].s = req[q].s /\ req'[q].e = req[q].e /\ req'[q].kind = req[q].kind

LEMMA UsersKept ==
  ASSUME IInv, SameUsers, RowsTyped, RowsKept, RequestsKept
  PROVE  TypeOK' /\ RequestInv' /\ ShowroomHasOwner'
  <1>1. TypeOK'
    <2>1. \A d \in Emails : Taken(d)' => showrooms'[users'[d].showroom].exists
      BY ZenonT(60) DEF SameUsers, RowsTyped, RowsKept, RequestsKept, IInv, TypeOK, Taken, User
    <2>2. QED
      BY <2>1 DEF SameUsers, RowsTyped, RowsKept, RequestsKept, IInv, TypeOK
  <1>2. RequestInv'
    BY DEF SameUsers, RowsTyped, RowsKept, RequestsKept, IInv, RequestInv
  <1>3. ShowroomHasOwner'
    BY DEF SameUsers, RowsTyped, RowsKept, RequestsKept, IInv, ShowroomHasOwner, Owners, Active
  <1>4. QED
    BY <1>1, <1>2, <1>3

LEMMA ShowroomStepsKeep == ASSUME IInv, OnboardShowroom \/ UpdateShowroom PROVE IInv'
  <1>1. PICK s \in Showrooms, active \in BOOLEAN, onboarded \in BOOLEAN :
          /\ showrooms' = [showrooms EXCEPT ![s].active = active, ![s].onboarded = onboarded]
          /\ UNCHANGED <<users, claims, pc, req, granted, edits>>
    <2>1. CASE OnboardShowroom
      <3>1. PICK e \in Emails :
              /\ users[e].showroom \in Followed
              /\ showrooms' = [showrooms EXCEPT ![users[e].showroom].onboarded = TRUE]
              /\ UNCHANGED <<users, claims, pc, req, edits, granted>>
        BY <2>1 DEF OnboardShowroom, OwnerOf
      <3>2. PICK s \in Showrooms : s = users[e].showroom
        BY <3>1, AccountsAssumption
      <3>3. showrooms[s] \in Showroom
        BY DEF IInv, TypeOK
      <3>4. showrooms' = [showrooms EXCEPT ![s].active = showrooms[s].active, ![s].onboarded = TRUE]
        BY <3>1, <3>2, <3>3 DEF IInv, TypeOK, Showroom
      <3>5. showrooms[s].active \in BOOLEAN
        BY <3>3 DEF Showroom
      <3>6. QED
        BY <3>1, <3>4, <3>5
    <2>2. CASE UpdateShowroom
      <3>1. PICK s \in Showrooms, active \in BOOLEAN :
              /\ showrooms' = [showrooms EXCEPT ![s].active = active]
              /\ UNCHANGED <<users, claims, pc, req, edits, granted>>
        BY <2>2, AccountsAssumption DEF UpdateShowroom
      <3>2. showrooms[s] \in Showroom
        BY DEF IInv, TypeOK
      <3>3. showrooms' = [showrooms EXCEPT ![s].active = active, ![s].onboarded = showrooms[s].onboarded]
        BY <3>1, <3>2 DEF IInv, TypeOK, Showroom
      <3>4. showrooms[s].onboarded \in BOOLEAN
        BY <3>2 DEF Showroom
      <3>5. QED
        BY <3>1, <3>3, <3>4
    <2>3. QED
      BY <2>1, <2>2
  <1>2. /\ showrooms' \in [Showrooms -> Showroom]
        /\ \A z \in Showrooms : /\ showrooms'[z].exists = showrooms[z].exists
                                /\ showrooms'[z].license = showrooms[z].license
    <2> DEFINE k == [showrooms[s] EXCEPT !.active = active, !.onboarded = onboarded]
    <2>1. showrooms[s] \in Showroom /\ showrooms \in [Showrooms -> Showroom]
      BY DEF IInv, TypeOK
    <2>2. k \in Showroom /\ k.exists = showrooms[s].exists /\ k.license = showrooms[s].license
      BY <2>1 DEF Showroom
    <2>3. showrooms' = [showrooms EXCEPT ![s] = k]
      BY <1>1, <2>1
    <2> HIDE DEF k
    <2>4. QED
      BY <2>1, <2>2, <2>3
  <1>3. TypeOK' /\ RequestInv' /\ ShowroomHasOwner'
    <2>1. SameUsers /\ RowsTyped /\ RowsKept /\ RequestsKept
      BY <1>1, <1>2 DEF SameUsers, RowsTyped, RowsKept, RequestsKept, IInv, TypeOK
    <2>2. QED
      BY <2>1, UsersKept
  <1>4. TrialInv'
    BY <1>1, <1>2 DEF IInv, TrialInv
  <1>5. QED
    BY <1>3, <1>4 DEF IInv

\* One more claim: of a showroom that is given time, or that has one already.
AppendsClaim(s, c) ==
  /\ Len(claims[s]) < MaxClaims
  /\ claims' = [claims EXCEPT ![s] = Append(@, c)]
  /\ \/ showrooms' = showrooms /\ showrooms[s].exists /\ granted' = granted
     \/ /\ showrooms' = [showrooms EXCEPT ![s].active = TRUE, ![s].license = Len(claims[s]) + 1]
        /\ granted' = granted \cup {s}
  /\ UNCHANGED <<users, pc, req, edits>>

LEMMA AppendKeeps ==
  ASSUME IInv, NEW s \in Showrooms, NEW c \in ClaimRow, AppendsClaim(s, c) PROVE IInv'
  <1>1. /\ claims[s] \in Seq(ClaimRow) /\ Len(claims[s]) \in Nat /\ MaxClaims \in Nat
        /\ claims \in [Showrooms -> Seq(ClaimRow)]
    BY AccountsAssumption DEF AppendsClaim, IInv, TypeOK
  <1>0. Len(claims[s]) < MaxClaims
    BY DEF AppendsClaim
  <1> DEFINE list == Append(claims[s], c)
  <1>2. list \in Seq(ClaimRow) /\ Len(list) = Len(claims[s]) + 1 /\ list # <<>>
    BY <1>1
  <1>3. /\ claims' \in [Showrooms -> Seq(ClaimRow)] /\ claims'[s] = list
        /\ \A z \in Showrooms \ {s} : claims'[z] = claims[z]
    BY <1>1, <1>2 DEF AppendsClaim
  <1> HIDE DEF list
  <1>4. /\ showrooms' \in [Showrooms -> Showroom]
        /\ \A z \in Showrooms : /\ showrooms'[z].exists = showrooms[z].exists
                                /\ \/ showrooms'[z].license = showrooms[z].license
                                   \/ z = s /\ showrooms'[z].license = Len(claims[s]) + 1
    <2>1. CASE showrooms' = showrooms
      BY <2>1 DEF IInv, TypeOK
    <2>2. CASE showrooms' = [showrooms EXCEPT ![s].active = TRUE, ![s].license = Len(claims[s]) + 1]
      <3> DEFINE n == Len(claims[s]) + 1
                 k == [showrooms[s] EXCEPT !.active = TRUE, !.license = n]
      <3>1. n \in 0..MaxClaims /\ showrooms[s] \in Showroom
        BY <1>0, <1>1 DEF IInv, TypeOK
      <3>2. showrooms' = [showrooms EXCEPT ![s] = k]
        BY <2>2 DEF IInv, TypeOK
      <3>3. n = Len(claims[s]) + 1
        OBVIOUS
      <3> HIDE DEF n
      <3>4. k \in Showroom /\ k.exists = showrooms[s].exists /\ k.license = n
        BY <3>1 DEF Showroom
      <3> HIDE DEF k
      <3>5. QED
        BY <3>2, <3>3, <3>4 DEF IInv, TypeOK
    <2>3. QED
      BY <2>1, <2>2 DEF AppendsClaim
  <1>5. \A z \in Showrooms : /\ Len(claims'[z]) <= MaxClaims
                            /\ showrooms'[z].license <= Len(claims'[z])
    <2> TAKE z \in Showrooms
    <2>1. CASE z = s
      <3>1. showrooms[s].license <= Len(claims[s]) /\ showrooms[s].license \in Nat
        BY AccountsAssumption DEF IInv, TypeOK, Showroom
      <3>2. QED
        BY SMTT(30), <1>0, <1>1, <1>2, <1>3, <1>4, <2>1, <3>1
    <2>2. CASE z # s
      BY <1>3, <1>4, <2>2 DEF IInv, TypeOK
    <2>3. QED
      BY <2>1, <2>2
  <1>6. TypeOK' /\ RequestInv' /\ ShowroomHasOwner'
    <2>1. SameUsers
      BY DEF AppendsClaim, SameUsers, IInv, TypeOK
    <2>2. RowsTyped
      BY <1>3, <1>4 DEF RowsTyped
    <2>3. RowsKept
      <3>1. ASSUME NEW z \in Showrooms
            PROVE  /\ showrooms'[z].exists = showrooms[z].exists /\ Len(claims'[z]) <= MaxClaims
                   /\ showrooms'[z].license <= Len(claims'[z])
                   /\ claims[z] # <<>> => claims'[z] # <<>>
        <4>1. claims[z] # <<>> => claims'[z] # <<>>
          BY <1>2, <1>3
        <4>2. showrooms'[z].exists = showrooms[z].exists
          BY <1>4
        <4>3. Len(claims'[z]) <= MaxClaims /\ showrooms'[z].license <= Len(claims'[z])
          BY <1>5
        <4>4. QED
          BY <4>1, <4>2, <4>3
      <3>2. QED
        BY <3>1 DEF RowsKept
    <2>4. RequestsKept
      BY DEF AppendsClaim, RequestsKept, IInv, TypeOK
    <2>5. QED
      BY <2>1, <2>2, <2>3, <2>4, UsersKept
  <1>7. TrialInv'
    <2> SUFFICES ASSUME NEW z \in Showrooms, showrooms'[z].exists
                 PROVE  /\ claims'[z] # <<>>
                        /\ z \notin granted' /\ Len(claims'[z]) = 1 =>
                             /\ showrooms'[z].license = 1
                             /\ \/ claims'[z][1].status = "TRIAL"
                                \/ claims'[z][1].status = "EXPIRED" /\ claims'[z][1].over
      BY DEF TrialInv
    <2>1. CASE z = s
      <3>1. s \in granted' \/ Len(claims[s]) >= 1
        <4>1. CASE showrooms[s].exists
          <5>1. claims[s] # <<>>
            BY <4>1 DEF IInv, TrialInv
          <5>2. QED
            BY <1>1, <5>1
        <4>2. CASE ~showrooms[s].exists
          BY <4>2 DEF AppendsClaim
        <4>3. QED
          BY <4>1, <4>2
      <3>2. QED
        BY SMTT(30), <1>1, <1>2, <1>3, <2>1, <3>1
    <2>2. CASE z # s
      <3>1. z \notin granted' => z \notin granted
        BY DEF AppendsClaim
      <3>2. QED
        BY SMTT(30), <1>3, <1>4, <2>2, <3>1 DEF IInv, TrialInv
    <2>3. QED
      BY <2>1, <2>2
  <1>8. QED
    BY <1>6, <1>7 DEF IInv

LEMMA NewClaimsKeep == ASSUME IInv, RenewSubscription \/ RequestSubscription PROVE IInv'
  <1>1. CASE RenewSubscription
    <2>1. PICK s \in Showrooms :
            /\ Len(claims[s]) < MaxClaims
            /\ claims' = [claims EXCEPT ![s] = Append(@, Claim("ACTIVE", NoLimit))]
            /\ showrooms' = [showrooms EXCEPT ![s].active = TRUE, ![s].license = Len(claims[s]) + 1]
            /\ granted' = granted \cup {s} /\ UNCHANGED <<users, pc, req, edits>>
      BY <1>1, AccountsAssumption DEF RenewSubscription
    <2>2. Claim("ACTIVE", NoLimit) \in ClaimRow
      BY ClaimTyped DEF Statuses
    <2>3. QED
      BY <2>1, <2>2, AppendKeeps DEF AppendsClaim
  <1>2. CASE RequestSubscription
    <2>1. PICK e \in Emails, limit \in Limits :
            /\ OwnerOf(e, users[e].showroom) /\ Len(claims[users[e].showroom]) < MaxClaims
            /\ claims' = [claims EXCEPT ![users[e].showroom] = Append(@, Claim("PENDING_PAYMENT", limit))]
            /\ UNCHANGED <<showrooms, users, pc, req, edits, granted>>
      BY <1>2 DEF RequestSubscription
    <2>2. PICK s \in Showrooms : s = users[e].showroom /\ showrooms[s].exists
      BY <2>1, AccountsAssumption DEF OwnerOf, IInv, TypeOK, Taken
    <2>3. Claim("PENDING_PAYMENT", limit) \in ClaimRow
      BY ClaimTyped DEF Statuses
    <2>4. /\ Len(claims[s]) < MaxClaims
          /\ claims' = [claims EXCEPT ![s] = Append(@, Claim("PENDING_PAYMENT", limit))]
      BY <2>1, <2>2
    <2>5. QED
      BY <2>1, <2>2, <2>3, <2>4, AppendKeeps DEF AppendsClaim
  <1>3. QED
    BY <1>1, <1>2

\* A claim that changes is not the trial of a showroom that has nothing else, or it
\* runs out, or expires when it has.
LEMMA ChangeKeeps ==
  ASSUME IInv, NEW s \in Showrooms, NEW i \in DOMAIN claims[s], NEW c \in ClaimRow,
         claims' = [claims EXCEPT ![s][i] = c],
         showrooms' \in [Showrooms -> Showroom],
         \A z \in Showrooms : /\ showrooms'[z].exists = showrooms[z].exists
                              /\ \/ showrooms'[z].license = showrooms[z].license
                                 \/ z = s /\ showrooms'[z].license = i,
         req' = req \/ req' = Overtake("none", s),
         UNCHANGED <<users, pc, edits, granted>>,
         claims[s][i].status \in {"TRIAL", "EXPIRED"} =>
           /\ c.status = "TRIAL" \/ (c.status = "EXPIRED" /\ c.over)
           /\ showrooms' = showrooms
  PROVE  IInv'
  <1>1. /\ claims' \in [Showrooms -> Seq(ClaimRow)]
        /\ claims'[s][i] = c /\ \A j \in DOMAIN claims[s] : j # i => claims'[s][j] = claims[s][j]
        /\ \A z \in Showrooms : Len(claims'[z]) = Len(claims[z]) /\ (z # s => claims'[z] = claims[z])
    BY ChangedInPlace DEF IInv
  <1>2. /\ claims[s] \in Seq(ClaimRow) /\ i \in 1..Len(claims[s]) /\ Len(claims[s]) \in Nat
    BY DEF IInv, TypeOK
  <1>3. /\ req' \in [Requests -> Request]
        /\ \A q \in Requests : /\ req'[q].s = req[q].s /\ req'[q].e = req[q].e
                               /\ req'[q].kind = req[q].kind
    <2>1. CASE req' = req
      BY <2>1 DEF IInv, TypeOK
    <2>2. CASE req' = Overtake("none", s)
      <3>1. \A q \in Requests : q # "none"
        BY AccountsAssumption
      <3>2. QED
        BY <2>2, <3>1, Overtaken DEF IInv
    <2>3. QED
      BY <2>1, <2>2
  <1>4. TypeOK' /\ RequestInv' /\ ShowroomHasOwner'
    <2>1. SameUsers
      BY DEF SameUsers, IInv, TypeOK
    <2>2. RowsTyped
      BY <1>1 DEF RowsTyped
    <2>3. RowsKept
      <3>1. ASSUME NEW z \in Showrooms
            PROVE  /\ showrooms'[z].exists = showrooms[z].exists /\ Len(claims'[z]) <= MaxClaims
                   /\ showrooms'[z].license <= Len(claims'[z])
                   /\ claims[z] # <<>> => claims'[z] # <<>>
        <4>1. /\ claims[z] \in Seq(ClaimRow) /\ claims'[z] \in Seq(ClaimRow)
              /\ Len(claims[z]) <= MaxClaims /\ showrooms[z].license <= Len(claims[z])
          BY <1>1 DEF IInv, TypeOK
        <4>2. showrooms'[z].license <= Len(claims'[z])
          BY <1>1, <1>2, <4>1
        <4>3. claims[z] # <<>> => claims'[z] # <<>>
          BY <1>1, <4>1, EmptySeq
        <4>4. QED
          BY <1>1, <4>1, <4>2, <4>3
      <3>2. QED
        BY <3>1 DEF RowsKept
    <2>4. RequestsKept
      BY <1>3 DEF RequestsKept
    <2>5. QED
      BY <2>1, <2>2, <2>3, <2>4, UsersKept
  <1>5. TrialInv'
    <2> SUFFICES ASSUME NEW z \in Showrooms, showrooms'[z].exists
                 PROVE  /\ claims'[z] # <<>>
                        /\ z \notin granted' /\ Len(claims'[z]) = 1 =>
                             /\ showrooms'[z].license = 1
                             /\ \/ claims'[z][1].status = "TRIAL"
                                \/ claims'[z][1].status = "EXPIRED" /\ claims'[z][1].over
      BY DEF TrialInv
    <2>1. claims'[z] # <<>>
      <3>1. claims[z] # <<>> /\ claims[z] \in Seq(ClaimRow) /\ claims'[z] \in Seq(ClaimRow)
        BY <1>1 DEF IInv, TypeOK, TrialInv
      <3>2. Len(claims[z]) # 0 /\ Len(claims'[z]) = Len(claims[z])
        BY <1>1, <3>1, EmptySeq
      <3>3. QED
        BY <3>1, <3>2, EmptySeq
    <2>2. CASE z = s
      <3>1. ASSUME z \notin granted', Len(claims'[z]) = 1
            PROVE  /\ showrooms'[z].license = 1
                   /\ \/ claims'[z][1].status = "TRIAL"
                      \/ claims'[z][1].status = "EXPIRED" /\ claims'[z][1].over
        <4>1. Len(claims[s]) = 1 /\ i = 1 /\ s \notin granted
          BY <1>1, <1>2, <2>2, <3>1
        <4>2. showrooms[s].exists
          BY <2>2
        <4>3. showrooms[s].license = 1 /\ claims[s][1].status \in {"TRIAL", "EXPIRED"}
          BY <4>1, <4>2 DEF IInv, TrialInv
        <4>4. (c.status = "TRIAL" \/ (c.status = "EXPIRED" /\ c.over)) /\ showrooms' = showrooms
          BY <4>1, <4>3
        <4>5. claims'[s][1] = c
          BY <1>1, <4>1
        <4>6. QED
          BY <2>2, <4>3, <4>4, <4>5
      <3>2. QED
        BY <2>1, <3>1
    <2>3. CASE z # s
      BY <1>1, <2>1, <2>3 DEF IInv, TrialInv
    <2>4. QED
      BY <2>1, <2>2, <2>3
  <1>6. QED
    BY <1>4, <1>5 DEF IInv

LEMMA ClaimStepsKeep ==
  ASSUME IInv, CancelRequest \/ ActivateSubscription \/ PeriodEnds \/ ExpireClaim PROVE IInv'
  <1>1. /\ \A s \in Showrooms : \A i \in DOMAIN claims[s] : claims[s][i] \in ClaimRow
        /\ showrooms \in [Showrooms -> Showroom]
    BY DEF IInv, TypeOK
  <1>2. \A s \in Showrooms : \A i \in Pending(s) : i \in DOMAIN claims[s] /\ claims[s][i].status = "PENDING_PAYMENT"
    BY DEF Pending
  <1>3. CASE CancelRequest
    <2>1. PICK s \in Showrooms : \E i \in Pending(s) :
            /\ claims' = [claims EXCEPT ![s][i].status = "CANCELLED"]
            /\ UNCHANGED <<showrooms, users, pc, req, edits, granted>>
      BY <1>3, AccountsAssumption DEF CancelRequest
    <2>2. PICK i \in DOMAIN claims[s] :
            /\ claims[s][i].status = "PENDING_PAYMENT"
            /\ claims' = [claims EXCEPT ![s][i] = [claims[s][i] EXCEPT !.status = "CANCELLED"]]
            /\ UNCHANGED <<showrooms, users, pc, req, edits, granted>>
      BY <1>2, <2>1
    <2>3. [claims[s][i] EXCEPT !.status = "CANCELLED"] \in ClaimRow
      BY <1>1 DEF ClaimRow, Statuses
    <2>4. QED
      BY <1>1, <2>2, <2>3, ChangeKeeps
  <1>4. CASE ActivateSubscription
    <2>1. PICK s \in Showrooms : \E i \in Pending(s) :
            /\ claims' = [claims EXCEPT ![s][i].status = "ACTIVE"]
            /\ showrooms' = [showrooms EXCEPT ![s].active = TRUE, ![s].license = i]
            /\ req' = Overtake("none", s) /\ UNCHANGED <<users, pc, edits, granted>>
      BY <1>4, AccountsAssumption DEF ActivateSubscription
    <2>2. PICK i \in DOMAIN claims[s] :
            /\ claims[s][i].status = "PENDING_PAYMENT"
            /\ claims' = [claims EXCEPT ![s][i] = [claims[s][i] EXCEPT !.status = "ACTIVE"]]
            /\ showrooms' = [showrooms EXCEPT ![s].active = TRUE, ![s].license = i]
            /\ req' = Overtake("none", s) /\ UNCHANGED <<users, pc, edits, granted>>
      BY <1>2, <2>1
    <2>3. [claims[s][i] EXCEPT !.status = "ACTIVE"] \in ClaimRow
      BY <1>1 DEF ClaimRow, Statuses
    <2>4. /\ showrooms' \in [Showrooms -> Showroom]
          /\ \A z \in Showrooms : /\ showrooms'[z].exists = showrooms[z].exists
                                  /\ \/ showrooms'[z].license = showrooms[z].license
                                     \/ z = s /\ showrooms'[z].license = i
      <3>1. i \in 0..MaxClaims
        <4>1. Len(claims[s]) <= MaxClaims /\ claims[s] \in Seq(ClaimRow)
          BY DEF IInv, TypeOK
        <4>2. QED
          BY <4>1, AccountsAssumption
      <3> DEFINE k == [showrooms[s] EXCEPT !.active = TRUE, !.license = i]
      <3>2. k \in Showroom /\ k.exists = showrooms[s].exists /\ k.license = i
        BY <1>1, <3>1 DEF Showroom
      <3>3. showrooms' = [showrooms EXCEPT ![s] = k]
        BY <1>1, <2>2
      <3> HIDE DEF k
      <3>4. QED
        BY <1>1, <3>2, <3>3
    <2>5. QED
      BY <2>2, <2>3, <2>4, ChangeKeeps
  <1>5. CASE PeriodEnds
    <2>1. PICK s \in Showrooms : \E i \in DOMAIN claims[s] :
            /\ claims[s][i].status \in {"TRIAL", "ACTIVE"}
            /\ claims' = [claims EXCEPT ![s][i].over = TRUE]
            /\ req' = Overtake("none", s) /\ UNCHANGED <<showrooms, users, pc, edits, granted>>
      BY <1>5, AccountsAssumption DEF PeriodEnds
    <2>2. PICK i \in DOMAIN claims[s] :
            /\ claims[s][i].status \in {"TRIAL", "ACTIVE"}
            /\ claims' = [claims EXCEPT ![s][i] = [claims[s][i] EXCEPT !.over = TRUE]]
            /\ req' = Overtake("none", s) /\ UNCHANGED <<showrooms, users, pc, edits, granted>>
      BY <2>1
    <2> DEFINE c == [claims[s][i] EXCEPT !.over = TRUE]
    <2>3. c \in ClaimRow /\ c.status = claims[s][i].status
      BY <1>1 DEF ClaimRow
    <2>4. claims' = [claims EXCEPT ![s][i] = c]
      BY <2>2
    <2> HIDE DEF c
    <2>5. QED
      BY <1>1, <2>2, <2>3, <2>4, ChangeKeeps
  <1>6. CASE ExpireClaim
    <2>1. PICK s \in Showrooms : \E i \in DOMAIN claims[s] :
            /\ claims[s][i].over
            /\ claims' = [claims EXCEPT ![s][i].status = "EXPIRED"]
            /\ req' = Overtake("none", s) /\ UNCHANGED <<showrooms, users, pc, edits, granted>>
      BY <1>6, AccountsAssumption DEF ExpireClaim
    <2>2. PICK i \in DOMAIN claims[s] :
            /\ claims[s][i].over
            /\ claims' = [claims EXCEPT ![s][i] = [claims[s][i] EXCEPT !.status = "EXPIRED"]]
            /\ req' = Overtake("none", s) /\ UNCHANGED <<showrooms, users, pc, edits, granted>>
      BY <2>1
    <2> DEFINE c == [claims[s][i] EXCEPT !.status = "EXPIRED"]
    <2>3. c \in ClaimRow /\ c.status = "EXPIRED" /\ c.over
      BY <1>1, <2>2 DEF ClaimRow, Statuses
    <2>4. claims' = [claims EXCEPT ![s][i] = c]
      BY <2>2
    <2> HIDE DEF c
    <2>5. QED
      BY <1>1, <2>2, <2>3, <2>4, ChangeKeeps
  <1>7. QED
    BY <1>3, <1>4, <1>5, <1>6

LEMMA NextKeeps == IInv /\ [Next]_vars => IInv'
  <1> SUFFICES ASSUME IInv, [Next]_vars PROVE IInv'
    OBVIOUS
  <1>1. ASSUME NEW r \in Requests,
               \/ RegisterStart(r) \/ RegisterCommit(r) \/ CreateUserStart(r)
               \/ SetUserActiveStart(r) \/ WriteUser(r)
        PROVE  IInv'
    BY <1>1, RegisterStartKeeps, RegisterCommitKeeps, CreateUserStartKeeps, SetUserActiveStartKeeps,
       WriteUserKeeps
  <1>2. CASE UNCHANGED vars
    BY <1>2 DEF vars, IInv, TypeOK, Taken, RequestInv, TrialInv, ShowroomHasOwner, Owners, Active
  <1>3. QED
    BY <1>1, <1>2, UpdateUserKeeps, ShowroomStepsKeep, NewClaimsKeep, ClaimStepsKeep DEF Next

-----------------------------------------------------------------------------
(* The limit of users.                                                      *)

LEMMA GreatestOfInterval ==
  ASSUME NEW n \in Nat, NEW S \in SUBSET (1..n), S # {}
  PROVE  \E m \in S : \A k \in S : k <= m
  <1> DEFINE R == OpToRel(<, Nat)
             T == {d \in Nat : \E k \in S : d = n - k}
  <1>1. IsWellFoundedOn(R, Nat)
    BY NatLessThanWellFounded
  <1>2. \A x, y \in Nat : x < y => <<x, y>> \in R
    BY DEF OpToRel
  <1> HIDE DEF R
  <1>3. T \subseteq Nat /\ T # {}
    <2>1. PICK k \in S : TRUE
      OBVIOUS
    <2>2. n - k \in Nat
      OBVIOUS
    <2>3. QED
      BY <2>2
  <1>4. PICK d \in T : \A y \in T : ~(<<y, d>> \in R)
    <2> HIDE DEF T
    <2>1. QED
      BY <1>1, <1>3, WFMin
  <1>5. PICK m \in S : d = n - m
    OBVIOUS
  <1>6. ASSUME NEW k \in S PROVE k <= m
    <2>1. n - k \in T /\ n - k \in Nat /\ d \in Nat /\ m \in Nat /\ k \in Nat
      OBVIOUS
    <2>2. ~(n - k < d)
      BY <1>2, <1>4, <2>1
    <2>3. QED
      BY <1>5, <2>1, <2>2
  <1>7. QED
    BY <1>6

\* The limit is that of the last limited claim: what leaves those alone leaves it.
LEMMA LimitKept ==
  ASSUME TypeOK, NEW s \in Showrooms, Limited(s)' = Limited(s),
         \A i \in Limited(s) : claims'[s][i] = claims[s][i]
  PROVE  UserLimit(s)' = UserLimit(s)
  <1> DEFINE last == CHOOSE i \in Limited(s) : \A j \in Limited(s) : j <= i
  <1>1. CASE Limited(s) = {}
    BY <1>1 DEF UserLimit
  <1>2. CASE Limited(s) # {}
    <2>1. Limited(s) \in SUBSET (1..Len(claims[s])) /\ Len(claims[s]) \in Nat
      BY DEF Limited, TypeOK
    <2>2. \E m \in Limited(s) : \A k \in Limited(s) : k <= m
      BY <1>2, <2>1, GreatestOfInterval
    <2>3. last \in Limited(s)
      BY <2>2
    <2>4. claims'[s][last] = claims[s][last]
      BY <2>3
    <2>5. UserLimit(s)' = (LET c == claims'[s][last] IN IF Limited(s) = {} \/ c.over THEN NoLimit ELSE c.limit)
      BY DEF UserLimit
    <2>6. QED
      BY <2>4, <2>5 DEF UserLimit
  <1>3. QED
    BY <1>1, <1>2

LEMMA LimitTyped == ASSUME TypeOK, NEW s \in Showrooms PROVE UserLimit(s) \in Nat
  <1>1. CASE Limited(s) = {}
    BY <1>1 DEF UserLimit, NoLimit
  <1>2. CASE Limited(s) # {}
    <2> DEFINE last == CHOOSE i \in Limited(s) : \A j \in Limited(s) : j <= i
    <2>1. Limited(s) \in SUBSET (1..Len(claims[s])) /\ Len(claims[s]) \in Nat
      BY DEF Limited, TypeOK
    <2>2. \E m \in Limited(s) : \A k \in Limited(s) : k <= m
      BY <1>2, <2>1, GreatestOfInterval
    <2>3. last \in Limited(s)
      BY <2>2
    <2>4. claims[s][last].limit \in Nat
      <3>1. claims[s] \in Seq(ClaimRow) /\ last \in DOMAIN claims[s]
        BY <2>3 DEF Limited, TypeOK
      <3>2. claims[s][last] \in ClaimRow
        BY <3>1
      <3> HIDE DEF last
      <3>3. claims[s][last].limit \in Limits \cup {NoLimit}
        BY <3>2 DEF ClaimRow
      <3>4. Limits \subseteq Nat /\ NoLimit \in Nat
        BY AccountsAssumption DEF NoLimit
      <3>5. QED
        BY <3>3, <3>4
    <2>5. QED
      BY <1>2, <2>4 DEF UserLimit, NoLimit
  <1>3. QED
    BY <1>1, <1>2

\* One showroom's part of the invariant is kept where its users and its limit are, by
\* requests that are no newer.
LEMMA CountKept ==
  ASSUME NEW s \in Showrooms, CountOf(s), Active(s)' = Active(s), UserLimit(s)' = UserLimit(s),
         showrooms'[s].exists \/ (~showrooms[s].exists /\ claims'[s] = claims[s]),
         \A q \in Requests :
           pc'[q] = "write" /\ req'[q].s = s /\ req'[q].kind # "deactivate" /\ ~req'[q].overtaken
             => pc[q] = "write" /\ req[q].s = s /\ req[q].kind # "deactivate" /\ ~req[q].overtaken
  PROVE  CountOf(s)'
  <1>1. BelowLimit(s)' = BelowLimit(s)
    BY DEF BelowLimit
  <1>2. QED
    BY <1>1 DEF CountOf

\* Of the requests on the showroom itself none is left that is not overtaken, and those
\* on others are as they were.
LEMMA OvertakenMarked ==
  ASSUME TypeOK, NEW r \in Requests \cup {"none"}, NEW z \in Showrooms, req' = Overtake(r, z)
  PROVE  \A q \in Requests :
           /\ req'[q].s = z => req'[q].overtaken
           /\ req'[q].s \in Showrooms \ {z} => req'[q] = req[q]
  <1> SUFFICES ASSUME NEW q \in Requests
               PROVE  /\ req'[q].s = z => req'[q].overtaken
                      /\ req'[q].s \in Showrooms \ {z} => req'[q] = req[q]
    OBVIOUS
  <1>1. CASE q = r
    BY <1>1, AccountsAssumption DEF Overtake, NoRequest
  <1>2. CASE q # r
    <2> DEFINE o == req[q].overtaken \/ req[q].s = z
               p == [req[q] EXCEPT !.overtaken = o]
    <2>1. req'[q] = p
      BY <1>2 DEF Overtake
    <2>2. req[q] \in Request /\ o \in BOOLEAN
      BY DEF TypeOK
    <2>3. p.s = req[q].s /\ p.overtaken = o
      BY <2>2 DEF Request
    <2>4. req[q].s # z => o = req[q].overtaken
      BY <2>2 DEF Request
    <2>5. req[q].s # z => p = req[q]
      BY <2>2, <2>4 DEF Request
    <2>6. QED
      BY <2>1, <2>3, <2>5
  <1>3. QED
    BY <1>1, <1>2

\* A step that overtakes the requests on one showroom, and leaves the others alone.
LEMMA OvertakingKeeps ==
  ASSUME IInv, CountInv, NEW z \in Showrooms, NEW r \in Requests \cup {"none"}, req' = Overtake(r, z),
         \A q \in Requests : q # r => pc'[q] = pc[q],
         \A s \in Showrooms : showrooms'[s].exists = showrooms[s].exists,
         showrooms[z].exists,
         \A s \in Showrooms \ {z} : Active(s)' = Active(s) /\ claims'[s] = claims[s]
  PROVE  CountInv'
  <1>0. \A q \in Requests : /\ req'[q].s = z => req'[q].overtaken
                            /\ req'[q].s \in Showrooms \ {z} => req'[q] = req[q]
    BY OvertakenMarked DEF IInv
  <1>1. CountOf(z)'
    <2>1. showrooms'[z].exists
      OBVIOUS
    <2>2. QED
      BY ZenonT(60), <1>0, <2>1 DEF CountOf
  <1>2. ASSUME NEW s \in Showrooms \ {z} PROVE CountOf(s)'
    <2>1. UserLimit(s)' = UserLimit(s)
      <3>1. claims'[s] = claims[s] /\ TypeOK
        BY DEF IInv
      <3>2. Limited(s)' = Limited(s)
        BY <3>1 DEF Limited
      <3>3. QED
        BY <3>1, <3>2, LimitKept
    <2>2. ASSUME NEW q \in Requests, pc'[q] = "write", req'[q].s = s
          PROVE  pc[q] = "write" /\ req[q] = req'[q]
      <3>1. req'[q] = req[q]
        BY <1>0, <2>2
      <3>2. q # r
        BY <2>2, AccountsAssumption DEF Overtake, NoRequest
      <3>3. QED
        BY <2>2, <3>1, <3>2
    <2>3. \A q \in Requests :
            pc'[q] = "write" /\ req'[q].s = s /\ req'[q].kind # "deactivate" /\ ~req'[q].overtaken
              => pc[q] = "write" /\ req[q].s = s /\ req[q].kind # "deactivate" /\ ~req[q].overtaken
      BY <2>2
    <2>4. CountOf(s) /\ Active(s)' = Active(s) /\ claims'[s] = claims[s]
      BY DEF CountInv
    <2>5. QED
      BY <2>1, <2>3, <2>4, CountKept
  <1>3. QED
    BY <1>1, <1>2 DEF CountInv

\* A step that does no more to the requests than begin or end one of them.
LEMMA CountStays ==
  ASSUME CountInv, TypeOK, NEW r \in Requests \cup {"none"},
         \A q \in Requests : q # r => pc'[q] = pc[q] /\ req'[q] = req[q],
         r \in Requests => pc'[r] # "write",
         UNCHANGED users,
         \A s \in Showrooms :
           /\ showrooms'[s].exists = showrooms[s].exists
           /\ ~showrooms[s].exists => claims'[s] = claims[s]
           /\ Limited(s)' = Limited(s)
           /\ \A i \in Limited(s) : claims'[s][i] = claims[s][i]
  PROVE  CountInv'
  <1> SUFFICES ASSUME NEW s \in Showrooms PROVE CountOf(s)'
    BY DEF CountInv
  <1>1. CountOf(s)
    BY DEF CountInv
  <1>2. UserLimit(s)' = UserLimit(s)
    BY LimitKept
  <1>3. Active(s)' = Active(s)
    BY DEF Active
  <1>4. \A q \in Requests :
          pc'[q] = "write" /\ req'[q].s = s /\ req'[q].kind # "deactivate" /\ ~req'[q].overtaken
            => pc[q] = "write" /\ req[q].s = s /\ req[q].kind # "deactivate" /\ ~req[q].overtaken
    OBVIOUS
  <1>5. QED
    BY <1>1, <1>2, <1>3, <1>4, CountKept

\* A request that begins to let a user in has just found the limit not reached.
LEMMA BeginCounts ==
  ASSUME IInv, CountInv, NEW r \in Requests, NEW z \in Showrooms,
         \A q \in Requests \ {r} : pc'[q] = pc[q] /\ req'[q] = req[q],
         req'[r].s = z, req'[r].kind # "deactivate" => BelowLimit(z),
         UNCHANGED <<showrooms, users, claims>>
  PROVE  CountInv'
  <1> SUFFICES ASSUME NEW s \in Showrooms PROVE CountOf(s)'
    BY DEF CountInv
  <1>1. CountOf(s)
    BY DEF CountInv
  <1>2. BelowLimit(s)' = BelowLimit(s)
    BY DEF BelowLimit, UserLimit, Limited, Active
  <1>3. QED
    BY <1>1, <1>2 DEF CountOf

LEMMA CountInit == Init => CountInv
  BY DEF Init, CountInv, CountOf

LEMMA RequestStepsCount ==
  ASSUME IInv, CountInv, NEW r \in Requests,
         RegisterStart(r) \/ RegisterCommit(r) \/ CreateUserStart(r) \/ SetUserActiveStart(r)
  PROVE  CountInv'
  <1>0. TypeOK /\ pc \in [Requests -> {"idle", "bootstrap", "write"}] /\ req \in [Requests -> Request]
    BY DEF IInv, TypeOK
  <1>1. CASE RegisterStart(r)
    <2>1. /\ pc' = [pc EXCEPT ![r] = "bootstrap"] /\ UNCHANGED <<showrooms, users, claims>>
          /\ \E q : req' = [req EXCEPT ![r] = q]
      BY <1>1 DEF RegisterStart, Goto
    <2>2. \A q \in Requests : q # r => pc'[q] = pc[q] /\ req'[q] = req[q]
      BY <1>0, <2>1
    <2>3. pc'[r] # "write"
      BY <1>0, <2>1
    <2>4. \A s \in Showrooms : Limited(s)' = Limited(s)
      BY <2>1 DEF Limited
    <2>5. QED
      BY <1>0, <2>1, <2>2, <2>3, <2>4, CountStays
  <1>2. CASE RegisterCommit(r)
    <2> DEFINE z == req[r].s
               e == req[r].e
    <2>1. /\ pc[r] = "bootstrap" /\ pc' = [pc EXCEPT ![r] = "idle"]
          /\ req' = [req EXCEPT ![r] = NoRequest] /\ z \in Showrooms /\ e \in Emails
      BY <1>2 DEF RegisterCommit, Ends, Goto, IInv, RequestInv
    <2>2. /\ \A q \in Requests : q # r => pc'[q] = pc[q] /\ req'[q] = req[q]
          /\ pc'[r] # "write"
      BY <1>0, <2>1
    <2>3. CASE UNCHANGED <<showrooms, users, claims, granted>>
      <3>1. \A s \in Showrooms : Limited(s)' = Limited(s)
        BY <2>3 DEF Limited
      <3>2. QED
        BY <1>0, <2>2, <2>3, <3>1, CountStays
    <2>4. CASE ~showrooms[z].exists /\ ~Taken(e) /\ Bootstrap(req[r].kind, z, e)
      <3>1. /\ showrooms'[z].exists
            /\ \A s \in Showrooms \ {z} : showrooms'[s] = showrooms[s] /\ claims'[s] = claims[s]
            /\ users' = [users EXCEPT ![e] = [showroom |-> z, role |-> "OWNER", active |-> TRUE]]
        BY <2>1, <2>4 DEF Bootstrap, IInv, TypeOK
      <3>2. \A s \in Showrooms \ {z} : Active(s)' = Active(s)
        BY <2>1, <2>4, <3>1, AccountsAssumption DEF Active, Taken, IInv, TypeOK
      <3>3. ASSUME NEW s \in Showrooms PROVE CountOf(s)'
        <4>1. CASE s = z
          <5>1. \A q \in Requests : pc'[q] = "write" => pc[q] = "write" /\ req'[q].s # z
            BY <2>2, <2>4 DEF IInv, RequestInv
          <5>2. QED
            BY ZenonT(60), <3>1, <4>1, <5>1 DEF CountOf
        <4>2. CASE s # z
          <5>1. Active(s)' = Active(s) /\ UserLimit(s)' = UserLimit(s)
            <6>1. claims'[s] = claims[s] /\ TypeOK
              BY <3>1, <4>2 DEF IInv
            <6>2. Limited(s)' = Limited(s)
              BY <6>1 DEF Limited
            <6>3. QED
              BY <3>2, <4>2, <6>1, <6>2, LimitKept
          <5>2. CountOf(s) /\ showrooms'[s] = showrooms[s] /\ claims'[s] = claims[s]
            BY <3>1, <4>2 DEF CountInv
          <5>3. \A q \in Requests :
                  pc'[q] = "write" /\ req'[q].s = s /\ req'[q].kind # "deactivate" /\ ~req'[q].overtaken
                    => pc[q] = "write" /\ req[q].s = s /\ req[q].kind # "deactivate" /\ ~req[q].overtaken
            BY <2>2
          <5>4. QED
            BY <5>1, <5>2, <5>3, CountKept
        <4>3. QED
          BY <4>1, <4>2
      <3>4. QED
        BY <3>3 DEF CountInv
    <2>5. QED
      BY <1>2, <2>3, <2>4 DEF RegisterCommit
  <1>3. CASE CreateUserStart(r)
    <2>1. PICK z \in Followed, e \in Emails, role \in {"OWNER", "STAFF"} :
            /\ BelowLimit(z) /\ pc' = [pc EXCEPT ![r] = "write"]
            /\ req' = [req EXCEPT ![r] =
                         [NoRequest EXCEPT !.kind = "insert", !.s = z, !.e = e, !.role = role]]
            /\ UNCHANGED <<showrooms, users, claims, edits, granted>>
      BY <1>3 DEF CreateUserStart, Goto
    <2>2. /\ z \in Showrooms /\ \A q \in Requests \ {r} : pc'[q] = pc[q] /\ req'[q] = req[q]
          /\ req'[r].s = z
      BY <1>0, <2>1, AccountsAssumption DEF NoRequest
    <2>3. QED
      BY <2>1, <2>2, BeginCounts
  <1>4. CASE SetUserActiveStart(r)
    <2>1. PICK actor \in Emails, e \in Emails :
            LET s == users[actor].showroom
            IN  /\ OwnerOf(actor, s) /\ (~users[e].active => BelowLimit(s))
                /\ req' = [req EXCEPT ![r] =
                             [NoRequest EXCEPT !.s = s, !.e = e,
                                !.kind = IF users[e].active THEN "deactivate" ELSE "reactivate"]]
                /\ pc' = [pc EXCEPT ![r] = "write"]
                /\ UNCHANGED <<showrooms, users, claims, edits, granted>>
      BY <1>4 DEF SetUserActiveStart, Goto
    <2>2. PICK z \in Showrooms : z = users[actor].showroom
      BY <2>1, AccountsAssumption DEF OwnerOf
    <2>3. /\ \A q \in Requests \ {r} : pc'[q] = pc[q] /\ req'[q] = req[q]
          /\ req'[r].s = z /\ (req'[r].kind # "deactivate" => ~users[e].active)
      BY <1>0, <2>1, <2>2 DEF NoRequest
    <2>4. req'[r].kind # "deactivate" => BelowLimit(z)
      BY <2>1, <2>2, <2>3
    <2>5. QED
      BY <2>1, <2>2, <2>3, <2>4, BeginCounts
  <1>5. QED
    BY <1>1, <1>2, <1>3, <1>4

\* A user that is written belongs to the request's showroom, before and after, unless
\* it was nobody.
LEMMA WrittenUser ==
  ASSUME IInv, NEW r \in Requests, WriteUser(r), NEW z, z = req[r].s, NEW e, e = req[r].e
  PROVE  /\ pc[r] = "write" /\ z \in Showrooms /\ e \in Emails /\ showrooms[z].exists
         /\ \A q \in Requests : q # r => pc'[q] = pc[q]
         /\ \/ UNCHANGED users /\ req' = [req EXCEPT ![r] = NoRequest]
            \/ req' = Overtake(r, z)
         /\ \A s \in Showrooms : s # z => Active(s)' = Active(s)
         /\ Active(z)' \subseteq Active(z) \cup {e}
         /\ req[r].kind = "deactivate" => Active(z)' \subseteq Active(z)
  <1> DEFINE row == IF req[r].kind = "insert"
                    THEN [showroom |-> z, role |-> req[r].role, active |-> TRUE]
                    ELSE [users[e] EXCEPT !.active = req[r].kind = "reactivate"]
             written == req[r].kind = "insert" => ~Taken(e)
  <1>1. /\ pc[r] = "write" /\ pc' = [pc EXCEPT ![r] = "idle"]
        /\ users' = IF written THEN [users EXCEPT ![e] = row] ELSE users
        /\ req'   = IF written THEN Overtake(r, z) ELSE [req EXCEPT ![r] = NoRequest]
    BY DEF WriteUser, Goto
  <1>2. /\ z \in Showrooms /\ e \in Emails /\ showrooms[z].exists
        /\ req[r].kind # "insert" => users[e].showroom = z
    BY <1>1 DEF IInv, RequestInv
  <1>3. \A q \in Requests : q # r => pc'[q] = pc[q]
    BY <1>1 DEF IInv, TypeOK
  <1>4. /\ users \in [Emails -> User] /\ (req[r].kind = "reactivate") \in BOOLEAN
    BY DEF IInv, TypeOK
  <1>5. row.showroom = z /\ (req[r].kind = "deactivate" => ~row.active)
    BY <1>2, <1>4 DEF User
  <1>6. CASE ~written
    BY <1>1, <1>2, <1>3, <1>6 DEF Active
  <1>7. CASE written
    <2>1. users[e].showroom = z \/ users[e].showroom = "none"
      BY <1>2, <1>7 DEF Taken
    <2> HIDE DEF row
    <2>2. users'[e] = row /\ \A d \in Emails \ {e} : users'[d] = users[d]
      BY <1>1, <1>2, <1>4, <1>7
    <2>3. ASSUME NEW s \in Showrooms, s # z PROVE Active(s)' = Active(s)
      <3>1. \A d \in Emails : (users'[d].showroom = s /\ users'[d].active) <=> (users[d].showroom = s /\ users[d].active)
        BY <1>5, <2>1, <2>2, <2>3, AccountsAssumption
      <3>2. QED
        BY <3>1 DEF Active
    <2>4. Active(z)' \subseteq Active(z) \cup {e}
      BY <2>2 DEF Active
    <2>5. ASSUME req[r].kind = "deactivate" PROVE Active(z)' \subseteq Active(z)
      BY <1>5, <2>2, <2>5 DEF Active
    <2>6. QED
      BY <1>1, <1>2, <1>3, <1>7, <2>3, <2>4, <2>5
  <1>8. QED
    BY <1>6, <1>7

LEMMA WriteUserCounts ==
  ASSUME IInv, CountInv, NEW r \in Requests, WriteUser(r) PROVE CountInv'
  <1>1. PICK z, e : z = req[r].s /\ e = req[r].e
    OBVIOUS
  <1>2. /\ z \in Showrooms /\ showrooms[z].exists
        /\ \A q \in Requests : q # r => pc'[q] = pc[q]
        /\ \/ UNCHANGED users /\ req' = [req EXCEPT ![r] = NoRequest]
           \/ req' = Overtake(r, z)
        /\ \A s \in Showrooms : s # z => Active(s)' = Active(s)
    BY <1>1, WrittenUser
  <1>3. UNCHANGED <<showrooms, claims>> /\ pc' = [pc EXCEPT ![r] = "idle"]
    BY DEF WriteUser, Goto
  <1>4. TypeOK /\ pc'[r] # "write"
    BY <1>3 DEF IInv, TypeOK
  <1>5. CASE UNCHANGED users /\ req' = [req EXCEPT ![r] = NoRequest]
    <2>1. \A q \in Requests : q # r => req'[q] = req[q]
      BY <1>4, <1>5 DEF TypeOK
    <2>2. \A s \in Showrooms : Limited(s)' = Limited(s)
      BY <1>3 DEF Limited
    <2>3. QED
      BY <1>2, <1>3, <1>4, <1>5, <2>1, <2>2, CountStays
  <1>6. CASE req' = Overtake(r, z)
    BY <1>2, <1>3, <1>6, OvertakingKeeps
  <1>7. QED
    BY <1>2, <1>5, <1>6

LEMMA UpdateUserCounts == ASSUME IInv, CountInv, UpdateUser PROVE CountInv'
  <1>1. PICK e \in Emails, role \in {"OWNER", "STAFF"}, active \in BOOLEAN :
          LET s == users[e].showroom
          IN  /\ s \in Followed
              /\ users' = [users EXCEPT ![e].role = role, ![e].active = active]
              /\ req'   = Overtake("none", s)
              /\ UNCHANGED <<showrooms, claims, pc, granted>>
    BY DEF UpdateUser
  <1>2. PICK z \in Showrooms : z = users[e].showroom
    BY <1>1, AccountsAssumption
  <1>3. users \in [Emails -> User] /\ showrooms[z].exists
    BY <1>2, AccountsAssumption DEF IInv, TypeOK, Taken
  <1>4. users'[e].showroom = z /\ \A d \in Emails \ {e} : users'[d] = users[d]
    <2>1. users' = [users EXCEPT ![e] = [users[e] EXCEPT !.role = role, !.active = active]]
      BY <1>1, <1>3
    <2>2. [users[e] EXCEPT !.role = role, !.active = active].showroom = z
      BY <1>2, <1>3 DEF User
    <2>3. QED
      BY <1>3, <2>1, <2>2
  <1>5. \A s \in Showrooms \ {z} : Active(s)' = Active(s)
    BY <1>2, <1>4 DEF Active
  <1>6. QED
    BY <1>1, <1>2, <1>3, <1>5, OvertakingKeeps

\* No limit comes with a claim that is appended, and none goes with one withdrawn.
LEMMA AppendCounts ==
  ASSUME IInv, CountInv, NEW z \in Showrooms, NEW c \in ClaimRow,
         c.status # "ACTIVE" \/ c.limit = NoLimit, showrooms[z].exists,
         claims' = [claims EXCEPT ![z] = Append(@, c)],
         \A s \in Showrooms : showrooms'[s].exists = showrooms[s].exists,
         UNCHANGED <<users, pc, req>>
  PROVE  CountInv'
  <1>1. /\ TypeOK /\ claims[z] \in Seq(ClaimRow) /\ claims \in [Showrooms -> Seq(ClaimRow)]
        /\ claims'[z] = Append(claims[z], c) /\ \A s \in Showrooms \ {z} : claims'[s] = claims[s]
    BY DEF IInv, TypeOK
  <1>2. /\ DOMAIN claims'[z] = 1..(Len(claims[z]) + 1) /\ Len(claims[z]) \in Nat
        /\ DOMAIN claims[z] = 1..Len(claims[z])
        /\ \A i \in DOMAIN claims[z] : claims'[z][i] = claims[z][i]
        /\ claims'[z][Len(claims[z]) + 1] = c
    BY <1>1
  <1>3. \A i \in DOMAIN claims'[z] : i \in DOMAIN claims[z] \/ i = Len(claims[z]) + 1
    BY <1>2
  <1>4. Limited(z)' = Limited(z)
    BY <1>2, <1>3 DEF Limited
  <1>5. ASSUME NEW s \in Showrooms
        PROVE  /\ ~showrooms[s].exists => claims'[s] = claims[s]
               /\ Limited(s)' = Limited(s) /\ \A i \in Limited(s) : claims'[s][i] = claims[s][i]
    <2>1. CASE s = z
      BY <1>2, <1>4, <2>1 DEF Limited
    <2>2. CASE s # z
      BY <1>1, <2>2 DEF Limited
    <2>3. QED
      BY <2>1, <2>2
  <1>6. "none" \notin Requests
    BY AccountsAssumption
  <1>7. QED
    BY <1>1, <1>5, <1>6, CountStays

LEMMA ShowroomStepsCount ==
  ASSUME IInv, CountInv,
         OnboardShowroom \/ UpdateShowroom \/ RenewSubscription \/ RequestSubscription \/ CancelRequest
  PROVE  CountInv'
  <1>0. /\ TypeOK /\ showrooms \in [Showrooms -> Showroom] /\ claims \in [Showrooms -> Seq(ClaimRow)]
        /\ "none" \notin Requests
    BY AccountsAssumption DEF IInv, TypeOK
  <1>1. CASE OnboardShowroom \/ UpdateShowroom
    <2>1. /\ UNCHANGED <<users, claims, pc, req>>
          /\ \A s \in Showrooms : showrooms'[s].exists = showrooms[s].exists
      <3>1. CASE OnboardShowroom
        BY <1>0, <3>1 DEF OnboardShowroom, Showroom
      <3>2. CASE UpdateShowroom
        BY <1>0, <3>2 DEF UpdateShowroom, Showroom
      <3>3. QED
        BY <1>1, <3>1, <3>2
    <2>2. \A s \in Showrooms : Limited(s)' = Limited(s)
      BY <2>1 DEF Limited
    <2>3. QED
      BY <1>0, <2>1, <2>2, CountStays
  <1>2. CASE RenewSubscription
    <2>1. PICK s \in Showrooms :
            /\ showrooms[s].exists
            /\ claims' = [claims EXCEPT ![s] = Append(@, Claim("ACTIVE", NoLimit))]
            /\ showrooms' = [showrooms EXCEPT ![s].active = TRUE, ![s].license = Len(claims[s]) + 1]
            /\ UNCHANGED <<users, pc, req, edits>>
      BY <1>2, AccountsAssumption DEF RenewSubscription
    <2>2. Claim("ACTIVE", NoLimit) \in ClaimRow /\ Claim("ACTIVE", NoLimit).limit = NoLimit
      BY ClaimTyped DEF Statuses, Claim
    <2>3. \A z \in Showrooms : showrooms'[z].exists = showrooms[z].exists
      BY <1>0, <2>1 DEF Showroom
    <2>4. QED
      BY <2>1, <2>2, <2>3, AppendCounts
  <1>3. CASE RequestSubscription
    <2>1. PICK e \in Emails, limit \in Limits :
            /\ OwnerOf(e, users[e].showroom)
            /\ claims' = [claims EXCEPT ![users[e].showroom] = Append(@, Claim("PENDING_PAYMENT", limit))]
            /\ UNCHANGED <<showrooms, users, pc, req, edits, granted>>
      BY <1>3 DEF RequestSubscription
    <2>2. PICK s \in Showrooms : s = users[e].showroom /\ showrooms[s].exists
      BY <2>1, AccountsAssumption DEF OwnerOf, IInv, TypeOK, Taken
    <2>3. Claim("PENDING_PAYMENT", limit) \in ClaimRow /\ Claim("PENDING_PAYMENT", limit).status # "ACTIVE"
      BY ClaimTyped DEF Statuses
    <2>4. claims' = [claims EXCEPT ![s] = Append(@, Claim("PENDING_PAYMENT", limit))]
      BY <2>1, <2>2
    <2>5. QED
      BY <2>1, <2>2, <2>3, <2>4, AppendCounts
  <1>4. CASE CancelRequest
    <2>1. PICK z, i :
            /\ z \in Showrooms /\ i \in Pending(z)
            /\ claims' = [claims EXCEPT ![z][i].status = "CANCELLED"]
            /\ UNCHANGED <<showrooms, users, pc, req, edits, granted>>
      BY <1>4, AccountsAssumption DEF CancelRequest
    <2>2. /\ z \in Showrooms /\ i \in DOMAIN claims[z] /\ claims[z][i].status = "PENDING_PAYMENT"
          /\ claims' = [claims EXCEPT ![z][i] = [claims[z][i] EXCEPT !.status = "CANCELLED"]]
          /\ claims[z][i] \in ClaimRow
      BY <1>0, <2>1 DEF Pending
    <2> DEFINE c == [claims[z][i] EXCEPT !.status = "CANCELLED"]
    <2>3. c \in ClaimRow /\ c.status = "CANCELLED"
      BY <2>2 DEF ClaimRow, Statuses
    <2>4. claims' = [claims EXCEPT ![z][i] = c]
      BY <2>2
    <2> HIDE DEF c
    <2>5. /\ claims' \in [Showrooms -> Seq(ClaimRow)]
          /\ claims'[z][i] = c /\ \A j \in DOMAIN claims[z] : j # i => claims'[z][j] = claims[z][j]
          /\ \A s \in Showrooms : Len(claims'[s]) = Len(claims[s]) /\ (s # z => claims'[s] = claims[s])
      <3>1. TypeOK /\ z \in Showrooms /\ i \in DOMAIN claims[z] /\ c \in ClaimRow
        BY <1>0, <2>2, <2>3
      <3>2. QED
        BY <2>4, <3>1, ChangedInPlace
    <2>6. DOMAIN claims'[z] = DOMAIN claims[z]
      BY <1>0, <2>2, <2>5
    <2>7. showrooms[z].exists
      BY <2>2 DEF CountInv, CountOf
    <2>8. ASSUME NEW s \in Showrooms
          PROVE  /\ ~showrooms[s].exists => claims'[s] = claims[s]
                 /\ Limited(s)' = Limited(s) /\ \A j \in Limited(s) : claims'[s][j] = claims[s][j]
      <3>1. CASE s = z
        BY <2>2, <2>3, <2>5, <2>6, <2>7, <3>1 DEF Limited
      <3>2. CASE s # z
        BY <2>2, <2>5, <3>2 DEF Limited
      <3>3. QED
        BY <3>1, <3>2
    <2>9. QED
      BY <1>0, <2>1, <2>8, CountStays
  <1>5. QED
    BY <1>1, <1>2, <1>3, <1>4

LEMMA ClaimStepsCount ==
  ASSUME IInv, CountInv, ActivateSubscription \/ PeriodEnds \/ ExpireClaim PROVE CountInv'
  <1>0. /\ showrooms \in [Showrooms -> Showroom] /\ claims \in [Showrooms -> Seq(ClaimRow)]
    BY DEF IInv, TypeOK
  <1>1. PICK z \in Showrooms : /\ claims[z] # <<>> /\ req' = Overtake("none", z) /\ UNCHANGED <<users, pc>>
                               /\ \A s \in Showrooms : showrooms'[s].exists = showrooms[s].exists
                               /\ \A s \in Showrooms \ {z} : claims'[s] = claims[s]
    <2>1. CASE ActivateSubscription
      <3>1. PICK z, i :
              /\ z \in Showrooms /\ i \in Pending(z)
              /\ claims' = [claims EXCEPT ![z][i].status = "ACTIVE"]
              /\ showrooms' = [showrooms EXCEPT ![z].active = TRUE, ![z].license = i]
              /\ req' = Overtake("none", z) /\ UNCHANGED <<users, pc, edits, granted>>
        BY <2>1, AccountsAssumption DEF ActivateSubscription
      <3>2. /\ claims[z] # <<>> /\ \A s \in Showrooms \ {z} : claims'[s] = claims[s]
            /\ \A s \in Showrooms : showrooms'[s].exists = showrooms[s].exists
        BY <1>0, <3>1 DEF Pending, Showroom
      <3>3. QED
        BY <3>1, <3>2
    <2>2. CASE PeriodEnds
      <3>1. PICK z, i :
              /\ z \in Showrooms /\ i \in DOMAIN claims[z]
              /\ claims' = [claims EXCEPT ![z][i].over = TRUE]
              /\ req' = Overtake("none", z) /\ UNCHANGED <<showrooms, users, pc, edits, granted>>
        BY <2>2, AccountsAssumption DEF PeriodEnds
      <3>2. /\ claims[z] # <<>> /\ \A s \in Showrooms \ {z} : claims'[s] = claims[s]
        BY <1>0, <3>1
      <3>3. QED
        BY <3>1, <3>2
    <2>3. CASE ExpireClaim
      <3>1. PICK z, i :
              /\ z \in Showrooms /\ i \in DOMAIN claims[z]
              /\ claims' = [claims EXCEPT ![z][i].status = "EXPIRED"]
              /\ req' = Overtake("none", z) /\ UNCHANGED <<showrooms, users, pc, edits, granted>>
        BY <2>3, AccountsAssumption DEF ExpireClaim
      <3>2. /\ claims[z] # <<>> /\ \A s \in Showrooms \ {z} : claims'[s] = claims[s]
        BY <1>0, <3>1
      <3>3. QED
        BY <3>1, <3>2
    <2>4. QED
      BY <2>1, <2>2, <2>3
  <1>2. showrooms[z].exists
    BY <1>1 DEF CountInv, CountOf
  <1>3. \A s \in Showrooms \ {z} : Active(s)' = Active(s) /\ claims'[s] = claims[s]
    BY <1>1 DEF Active
  <1>4. QED
    BY <1>1, <1>2, <1>3, OvertakingKeeps

LEMMA CountNext == IInv /\ CountInv /\ [Next]_vars => CountInv'
  <1> SUFFICES ASSUME IInv, CountInv, [Next]_vars PROVE CountInv'
    OBVIOUS
  <1>1. CASE UNCHANGED vars
    <2>1. ASSUME NEW s \in Showrooms PROVE CountOf(s)'
      <3>1. UNCHANGED <<UserLimit(s), Active(s)>> /\ CountOf(s)
        BY <1>1 DEF vars, UserLimit, Limited, Active, CountInv
      <3>2. QED
        BY <1>1, <3>1 DEF vars, CountOf, BelowLimit
    <2>2. QED
      BY <2>1 DEF CountInv
  <1>2. QED
    BY <1>1, RequestStepsCount, WriteUserCounts, UpdateUserCounts, ShowroomStepsCount,
       ClaimStepsCount DEF Next

\* One user more is what a request adds, and it adds none to a limit that is reached.
LEMMA LimitStep ==
  ASSUME IInv, CountInv, [Next]_vars, NEW s \in Showrooms,
         Cardinality(Active(s)') > Cardinality(Active(s)),
         UserLimit(s) # NoLimit, Cardinality(Active(s)') > UserLimit(s), ~UpdateUser
  PROVE  \E r \in Requests : req[r].overtaken /\ req[r].s = s
  <1>0. IsFiniteSet(Active(s)) /\ Cardinality(Active(s)) \in Nat
    BY AccountsAssumption, FS_Subset, FS_CardinalityType DEF Active
  <1>1. Active(s)' # Active(s)
    <2>1. ~(Cardinality(Active(s)) > Cardinality(Active(s)))
      BY <1>0
    <2>2. QED
      BY <2>1
  <1>2. ~UNCHANGED users
    BY <1>1 DEF Active
  <1>3. PICK r \in Requests : RegisterCommit(r) \/ WriteUser(r)
    BY <1>2 DEF Next, vars, RegisterStart, CreateUserStart, SetUserActiveStart, OnboardShowroom,
       UpdateShowroom, RenewSubscription, RequestSubscription, CancelRequest, ActivateSubscription,
       PeriodEnds, ExpireClaim
  <1>4. CASE RegisterCommit(r)
    <2>1. PICK z, e : z = req[r].s /\ e = req[r].e
      OBVIOUS
    <2>2. z \in Showrooms /\ e \in Emails /\ ~showrooms[z].exists /\ ~Taken(e) /\ Bootstrap(req[r].kind, z, e)
      BY <1>2, <1>4, <2>1 DEF RegisterCommit, IInv, RequestInv
    <2>3. users' = [users EXCEPT ![e] = [showroom |-> z, role |-> "OWNER", active |-> TRUE]]
      BY <2>2 DEF Bootstrap
    <2>4. s = z
      BY <1>1, <2>2, <2>3, AccountsAssumption DEF Active, Taken, IInv, TypeOK
    <2>5. claims[s] = <<>>
      BY <2>2, <2>4 DEF CountInv, CountOf
    <2>6. QED
      BY <2>5 DEF UserLimit, Limited
  <1>5. CASE WriteUser(r)
    <2>1. PICK z, e : z = req[r].s /\ e = req[r].e
      OBVIOUS
    <2>2. /\ pc[r] = "write" /\ z \in Showrooms
          /\ \A y \in Showrooms : y # z => Active(y)' = Active(y)
          /\ Active(z)' \subseteq Active(z) \cup {e}
          /\ req[r].kind = "deactivate" => Active(z)' \subseteq Active(z)
      BY <1>5, <2>1, WrittenUser
    <2>3. s = z
      BY <1>1, <2>2
    <2>4. req[r].kind # "deactivate"
      <3>1. ASSUME Active(s)' \subseteq Active(s) PROVE FALSE
        <4>1. Cardinality(Active(s)') <= Cardinality(Active(s)) /\ IsFiniteSet(Active(s)')
          BY <1>0, <3>1, FS_Subset
        <4>2. Cardinality(Active(s)') \in Nat
          BY <4>1, FS_CardinalityType
        <4>3. QED
          BY <1>0, <4>1, <4>2
      <3>2. QED
        BY <2>2, <2>3, <3>1
    <2>5. CASE ~req[r].overtaken
      <3>1. Cardinality(Active(s)) < UserLimit(s)
        BY <2>1, <2>2, <2>3, <2>4, <2>5 DEF CountInv, CountOf, BelowLimit
      <3>2. /\ IsFiniteSet(Active(s) \cup {e}) /\ Cardinality(Active(s) \cup {e}) \in Nat
            /\ Cardinality(Active(s) \cup {e}) <= Cardinality(Active(s)) + 1
        <4> DEFINE A == Active(s)
        <4> HIDE DEF A
        <4>1. IsFiniteSet(A) /\ Cardinality(A) \in Nat
          BY <1>0 DEF A
        <4>2. /\ IsFiniteSet(A \cup {e})
              /\ Cardinality(A \cup {e}) = IF e \in A THEN Cardinality(A) ELSE Cardinality(A) + 1
          BY <4>1, FS_AddElement
        <4>3. Cardinality(A \cup {e}) \in Nat /\ Cardinality(A \cup {e}) <= Cardinality(A) + 1
          BY <4>1, <4>2
        <4>4. QED
          BY <4>2, <4>3 DEF A
      <3>3. Cardinality(Active(s)') <= Cardinality(Active(s) \cup {e}) /\ IsFiniteSet(Active(s)')
        BY <2>2, <2>3, <3>2, FS_Subset
      <3>4. Cardinality(Active(s)') \in Nat
        BY <3>3, FS_CardinalityType
      <3>5. UserLimit(s) \in Nat
        BY LimitTyped DEF IInv
      <3>6. QED
        BY <1>0, <3>1, <3>2, <3>3, <3>4, <3>5
    <2>6. QED
      BY <2>1, <2>3, <2>5
  <1>6. QED
    BY <1>3, <1>4, <1>5

-----------------------------------------------------------------------------
\* The inductive invariant holds in every state.
THEOREM Invariance == Spec => []IInv
  BY InitIInv, NextKeeps, PTL DEF Spec

\* Every row has its type; a user's showroom exists and its licence is one of its claims.
THEOREM TypeCorrect == Spec => []TypeOK
  <1>1. IInv => TypeOK
    BY DEF IInv
  <1>2. QED
    BY Invariance, <1>1, PTL

\* Registrations that race for an e-mail or a slug leave no showroom without an owner,
\* and no request of its users takes the last one away.
THEOREM OwnerComesWithShowroom == Spec => []ShowroomHasOwner
  <1>1. IInv => ShowroomHasOwner
    BY DEF IInv
  <1>2. QED
    BY Invariance, <1>1, PTL

\* A showroom that registered itself passes checkLicense and requireAccountActive only
\* after it asked for a plan, unless the SuperAdmin gave it time.
THEOREM PlanComesFirst == Spec => []NoBusinessBeforePlan
  <1>1. IInv => NoBusinessBeforePlan
    <2> SUFFICES ASSUME IInv, NEW e \in Emails, MayDoBusiness(e), users[e].showroom \notin granted
                 PROVE  Len(claims[users[e].showroom]) > 1
      BY DEF NoBusinessBeforePlan
    <2> DEFINE s == users[e].showroom
    <2>1. s \in Showrooms /\ showrooms[s].exists
      BY DEF MayDoBusiness, Taken, IInv, TypeOK, User
    <2>2. claims[s] # <<>> /\ claims[s] \in Seq(ClaimRow) /\ Len(claims[s]) \in Nat
      BY <2>1 DEF IInv, TypeOK, TrialInv
    <2>3. CASE Len(claims[s]) = 1
      <3>1. /\ showrooms[s].license = 1
            /\ claims[s][1].status = "TRIAL" \/ (claims[s][1].status = "EXPIRED" /\ claims[s][1].over)
        BY <2>1, <2>3 DEF IInv, TrialInv
      <3>2. ~claims[s][1].over /\ claims[s][1].status # "TRIAL"
        BY <2>2, <2>3, <3>1 DEF MayDoBusiness, CheckLicense, Licensed, AccountActive, Latest
      <3>3. QED
        BY <3>1, <3>2
    <2>4. Len(claims[s]) # 0
      BY <2>2, EmptySeq
    <2> HIDE DEF s
    <2>5. Len(claims[s]) # 1 => Len(claims[s]) > 1
      <3>1. ASSUME NEW n \in Nat, n # 0, n # 1 PROVE n > 1
        BY <3>1
      <3>2. QED
        BY <2>2, <2>4, <3>1
    <2>6. QED
      BY <2>3, <2>5 DEF s
  <1>2. QED
    BY Invariance, <1>1, PTL

-----------------------------------------------------------------------------
(* The gates and the status that is shown.                                  *)

\* A claim is added that is not EXPIRED.
LEMMA AppendExpires ==
  ASSUME IInv, ExpiredInv, NEW z \in Showrooms, NEW c \in ClaimRow, c.status # "EXPIRED",
         claims' = [claims EXCEPT ![z] = Append(@, c)]
  PROVE  ExpiredInv'
  <1>1. /\ claims[z] \in Seq(ClaimRow) /\ claims'[z] = Append(claims[z], c)
        /\ \A s \in Showrooms \ {z} : claims'[s] = claims[s]
    BY DEF IInv, TypeOK
  <1>2. \A i \in DOMAIN claims'[z] : claims'[z][i] = c \/ (i \in DOMAIN claims[z] /\ claims'[z][i] = claims[z][i])
    BY <1>1
  <1>3. QED
    BY <1>1, <1>2 DEF ExpiredInv

\* A claim is changed into c, EXPIRED only if it is over.
LEMMA ChangeExpires ==
  ASSUME IInv, ExpiredInv, NEW z \in Showrooms, NEW i \in DOMAIN claims[z], NEW c \in ClaimRow,
         c.status = "EXPIRED" => c.over, claims' = [claims EXCEPT ![z][i] = c]
  PROVE  ExpiredInv'
  <1>1. /\ claims' \in [Showrooms -> Seq(ClaimRow)] /\ claims \in [Showrooms -> Seq(ClaimRow)]
        /\ claims'[z][i] = c /\ \A j \in DOMAIN claims[z] : j # i => claims'[z][j] = claims[z][j]
        /\ \A s \in Showrooms : Len(claims'[s]) = Len(claims[s]) /\ (s # z => claims'[s] = claims[s])
    BY ChangedInPlace DEF IInv, TypeOK
  <1>2. DOMAIN claims'[z] = DOMAIN claims[z]
    BY <1>1
  <1>3. QED
    BY <1>1, <1>2 DEF ExpiredInv

LEMMA ExpiredNext == IInv /\ ExpiredInv /\ [Next]_vars => ExpiredInv'
  <1> SUFFICES ASSUME IInv, ExpiredInv, [Next]_vars PROVE ExpiredInv'
    OBVIOUS
  <1>0. TypeOK /\ claims \in [Showrooms -> Seq(ClaimRow)] /\ Followed \subseteq Showrooms
    BY AccountsAssumption DEF IInv, TypeOK
  <1>1. CASE UNCHANGED claims
    BY <1>1 DEF ExpiredInv
  <1>2. ASSUME NEW r \in Requests, RegisterCommit(r) PROVE ExpiredInv'
    <2>1. CASE Bootstrap(req[r].kind, req[r].s, req[r].e)
      <3>1. PICK status \in {"ACTIVE", "TRIAL"} :
              claims' = [claims EXCEPT ![req[r].s] = <<Claim(status, NoLimit)>>]
        BY <2>1 DEF Bootstrap
      <3>2. Claim(status, NoLimit).status # "EXPIRED"
        BY DEF Claim
      <3>3. ASSUME NEW s \in Showrooms, claims'[s] # claims[s]
            PROVE  claims'[s] = <<Claim(status, NoLimit)>>
        BY <1>0, <3>1, <3>3
      <3>4. ASSUME NEW s \in Showrooms, NEW i \in DOMAIN claims'[s], claims'[s][i].status = "EXPIRED"
            PROVE  claims'[s][i].over
        BY <3>2, <3>3, <3>4 DEF ExpiredInv
      <3>5. QED
        BY <3>4 DEF ExpiredInv
    <2>2. QED
      BY <1>1, <1>2, <2>1 DEF RegisterCommit
  <1>3. CASE RenewSubscription
    <2>1. PICK s \in Followed : claims' = [claims EXCEPT ![s] = Append(@, Claim("ACTIVE", NoLimit))]
      BY <1>3 DEF RenewSubscription
    <2>2. Claim("ACTIVE", NoLimit) \in ClaimRow /\ Claim("ACTIVE", NoLimit).status # "EXPIRED"
      BY ClaimTyped DEF Statuses
    <2>3. QED
      BY <1>0, <2>1, <2>2, AppendExpires
  <1>4. CASE RequestSubscription
    <2>1. PICK e \in Emails, limit \in Limits :
            /\ OwnerOf(e, users[e].showroom)
            /\ claims' = [claims EXCEPT ![users[e].showroom] = Append(@, Claim("PENDING_PAYMENT", limit))]
      BY <1>4 DEF RequestSubscription
    <2>2. PICK s \in Showrooms : s = users[e].showroom
      BY <1>0, <2>1 DEF OwnerOf
    <2>3. Claim("PENDING_PAYMENT", limit) \in ClaimRow /\ Claim("PENDING_PAYMENT", limit).status # "EXPIRED"
      BY ClaimTyped DEF Statuses
    <2>4. QED
      BY <2>1, <2>2, <2>3, AppendExpires
  <1>5. CASE CancelRequest \/ ActivateSubscription
    <2>1. PICK z \in Showrooms, status \in {"CANCELLED", "ACTIVE"} : \E i \in Pending(z) :
            claims' = [claims EXCEPT ![z][i].status = status]
      BY <1>0, <1>5 DEF CancelRequest, ActivateSubscription
    <2>2. PICK i \in DOMAIN claims[z] : claims' = [claims EXCEPT ![z][i].status = status]
      BY <2>1 DEF Pending
    <2>3. PICK c : c = [claims[z][i] EXCEPT !.status = status] /\ claims' = [claims EXCEPT ![z][i] = c]
      BY <1>0, <2>2
    <2>4. claims[z][i] \in ClaimRow
      BY <1>0
    <2>5. c \in ClaimRow /\ c.status # "EXPIRED"
      BY <2>3, <2>4 DEF ClaimRow, Statuses
    <2>6. claims' = [claims EXCEPT ![z][i] = c]
      BY <2>3
    <2>7. QED
      BY <2>5, <2>6, ChangeExpires
  <1>6. CASE PeriodEnds
    <2>1. PICK z \in Showrooms : \E i \in DOMAIN claims[z] : claims' = [claims EXCEPT ![z][i].over = TRUE]
      BY <1>0, <1>6 DEF PeriodEnds
    <2>2. PICK i \in DOMAIN claims[z] : claims' = [claims EXCEPT ![z][i].over = TRUE]
      BY <2>1
    <2>3. PICK c : c = [claims[z][i] EXCEPT !.over = TRUE] /\ claims' = [claims EXCEPT ![z][i] = c]
      BY <1>0, <2>2
    <2>4. claims[z][i] \in ClaimRow
      BY <1>0
    <2>5. c \in ClaimRow /\ c.over
      BY <2>3, <2>4 DEF ClaimRow
    <2>6. claims' = [claims EXCEPT ![z][i] = c]
      BY <2>3
    <2>7. QED
      BY <2>5, <2>6, ChangeExpires
  <1>7. CASE ExpireClaim
    <2>1. PICK z \in Showrooms : \E i \in DOMAIN claims[z] :
            claims[z][i].over /\ claims' = [claims EXCEPT ![z][i].status = "EXPIRED"]
      BY <1>0, <1>7 DEF ExpireClaim
    <2>2. PICK i \in DOMAIN claims[z] :
            claims[z][i].over /\ claims' = [claims EXCEPT ![z][i].status = "EXPIRED"]
      BY <2>1
    <2>3. PICK c : c = [claims[z][i] EXCEPT !.status = "EXPIRED"] /\ claims' = [claims EXCEPT ![z][i] = c]
      BY <1>0, <2>2
    <2>4. claims[z][i] \in ClaimRow
      BY <1>0
    <2>5. c \in ClaimRow /\ c.over
      BY <2>2, <2>3, <2>4 DEF ClaimRow, Statuses
    <2>6. claims' = [claims EXCEPT ![z][i] = c]
      BY <2>3
    <2>7. QED
      BY <2>5, <2>6, ChangeExpires
  <1>8. QED
    BY <1>1, <1>2, <1>3, <1>4, <1>5, <1>6, <1>7 DEF Next, vars, RegisterStart, CreateUserStart,
       SetUserActiveStart, WriteUser, UpdateUser, OnboardShowroom, UpdateShowroom

\* Whoever passes the gates is shown ACTIVE, unless the latest claim waits, was cancelled,
\* or is not the one that gave the licence: checkLicense and requireAccountActive, which
\* read other columns than getAccountStatus, agree with it on everybody else.
THEOREM GatesFollowStatus == Spec => []GateFollowsStatus
  <1>1. Init => ExpiredInv
    BY DEF Init, ExpiredInv
  <1>2. IInv /\ ExpiredInv => GateFollowsStatus
    <2> SUFFICES ASSUME IInv, ExpiredInv, NEW e \in Emails, MayDoBusiness(e)
                 PROVE  LET s == users[e].showroom
                        IN  \/ AccountStatus(s) = "ACTIVE"
                            \/ claims[s][Len(claims[s])].status \in {"PENDING_PAYMENT", "CANCELLED"}
                            \/ showrooms[s].license # Len(claims[s])
      BY DEF GateFollowsStatus
    <2>1. PICK s \in Showrooms : s = users[e].showroom
      BY DEF MayDoBusiness, Taken, IInv, TypeOK, User
    <2> SUFFICES ASSUME claims[s][Len(claims[s])].status \notin {"PENDING_PAYMENT", "CANCELLED"},
                        showrooms[s].license = Len(claims[s])
                 PROVE  AccountStatus(s) = "ACTIVE"
      BY <2>1
    <2> DEFINE n == Len(claims[s])
               c == claims[s][n]
               actionable == {i \in DOMAIN claims[s] : claims[s][i].status # "CANCELLED"}
    <2>2. showrooms[s].active /\ n # 0 /\ ~c.over
      BY <2>1 DEF MayDoBusiness, CheckLicense, Licensed
    <2>3. claims[s] \in Seq(ClaimRow) /\ n \in Nat /\ DOMAIN claims[s] = 1..n
      BY DEF IInv, TypeOK
    <2>4. n \in DOMAIN claims[s] /\ c \in ClaimRow /\ claims[s] # <<>>
      BY <2>2, <2>3
    <2>5. c.status = "ACTIVE"
      <3>1. c.status # "TRIAL"
        BY <2>1, <2>4 DEF MayDoBusiness, AccountActive, Latest
      <3>2. c.status # "EXPIRED"
        BY <2>2, <2>4 DEF ExpiredInv
      <3>3. QED
        BY <2>4, <3>1, <3>2 DEF ClaimRow, Statuses
    <2>6. n \in actionable /\ \A j \in actionable : j <= n
      BY <2>3, <2>4, <2>5
    <2>7. (CHOOSE i \in actionable : \A j \in actionable : j <= i) = n
      <3>1. \A i \in actionable : (\A j \in actionable : j <= i) => i = n
        BY <2>3, <2>6
      <3>2. QED
        BY <2>6, <3>1
    <2>8. AccountStatus(s) = DeriveAccountStatus(showrooms[s].active, c)
      BY <2>6, <2>7 DEF AccountStatus
    <2> HIDE DEF c
    <2>9. DeriveAccountStatus(TRUE, c) = "ACTIVE"
      BY <2>2, <2>5 DEF DeriveAccountStatus
    <2>10. showrooms[s].active = TRUE
      BY <2>2 DEF IInv, TypeOK, Showroom
    <2>11. QED
      BY <2>8, <2>9, <2>10
  <1>3. QED
    BY Invariance, <1>1, <1>2, ExpiredNext, PTL DEF Spec

-----------------------------------------------------------------------------
(* The limit.                                                               *)

\* enforceUserLimit counts before the write it lets through, yet the active users of a
\* showroom grow past the limit of its plan only where the SuperAdmin activates one, or
\* where a request on the same showroom overtook the count.
THEOREM LimitHoldsWithoutRaces == Spec => LimitPassedOnlyByRace
  <1>1. IInv /\ CountInv /\ [Next]_vars =>
          [\A s \in Showrooms :
             (/\ Cardinality(Active(s)') > Cardinality(Active(s))
              /\ UserLimit(s) # NoLimit /\ Cardinality(Active(s)') > UserLimit(s))
             => UpdateUser \/ \E r \in Requests : req[r].overtaken /\ req[r].s = s]_vars
    BY LimitStep
  <1>2. QED
    BY Invariance, CountInit, CountNext, <1>1, PTL DEF Spec, LimitPassedOnlyByRace
=============================================================================
