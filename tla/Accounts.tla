------------------------------ MODULE Accounts ------------------------------
(***************************************************************************)
(* Showrooms from their registration on: the showroom row, its users, its  *)
(* claims to a subscription, and the gates a business request passes.      *)
(* Registration is one transaction.  Staff is created, and reactivated,    *)
(* behind a count of the active users that is taken earlier than the       *)
(* write, with other requests between the two.                             *)
(*                                                                         *)
(* A user is its e-mail and a showroom its slug, both unique.  A claim's   *)
(* time is one event, its end, and license_expiry is the end of the claim  *)
(* that wrote it last.  SubscriptionLifecycle models the statements of the *)
(* claims' transitions; here each is one step.                             *)
(***************************************************************************)
EXTENDS Integers, Sequences, FiniteSets

CONSTANTS
  Showrooms,   \* slugs
  Followed,    \* bound: the showrooms that go on after their registration
  Emails,
  Limits,      \* the users_limit of the plans that can be bought
  MaxClaims,   \* bound: claims of one showroom
  MaxEdits,    \* bound: edits of one showroom's users by the SuperAdmin
  Requests

NoLimit == 0
NoUser  == [showroom |-> "none", role |-> "STAFF", active |-> FALSE]

ASSUME AccountsAssumption ==
  /\ "none" \notin Showrooms /\ "none" \notin Requests
  /\ Followed \subseteq Showrooms /\ MaxEdits \in Nat
  /\ IsFiniteSet(Emails)
  /\ Limits \subseteq Nat \ {NoLimit} /\ MaxClaims \in Nat \ {0}

VARIABLES
  showrooms,   \* showrooms[s]: the row
  users,       \* users[e]: the row, of no showroom before it is created
  claims,      \* claims[s]: the subscription rows of s, oldest first
  pc, req,     \* the requests between their checks and their write
  edits,       \* edits[s]: how often the SuperAdmin edited users of s
  granted      \* showrooms that were given a subscription by the SuperAdmin

vars == <<showrooms, users, claims, pc, req, edits, granted>>

\* `license' is the index of the claim whose end license_expiry is.
NoShowroom == [exists |-> FALSE, active |-> FALSE, onboarded |-> FALSE, license |-> 0]
NoRequest  == [kind |-> "none", s |-> "none", e |-> "none", role |-> "STAFF", overtaken |-> FALSE]

\* A database with no showroom but the system's, which no tenant sees.
Init ==
  /\ showrooms = [s \in Showrooms |-> NoShowroom]
  /\ users     = [e \in Emails |-> NoUser]
  /\ claims    = [s \in Showrooms |-> <<>>]
  /\ pc        = [r \in Requests |-> "idle"]
  /\ req       = [r \in Requests |-> NoRequest]
  /\ edits = [s \in Showrooms |-> 0] /\ granted = {}

-----------------------------------------------------------------------------
(* What the rows say.                                                       *)

Taken(e)   == users[e].showroom # "none"
Active(s)  == {e \in Emails : users[e].showroom = s /\ users[e].active}

Claim(status, limit) == [status |-> status, limit |-> limit, over |-> FALSE]
Latest(list)         == list[Len(list)]

\* deriveAccountStatus.
DeriveAccountStatus(active, c) ==
  CASE ~active                           -> "SUSPENDED"
    [] active /\ c.status \in {"none", "TRIAL"} -> "PENDING"
    [] active /\ c.status = "PENDING_PAYMENT"   -> "PENDING_PAYMENT"
    [] active /\ c.status = "ACTIVE" /\ ~c.over -> "ACTIVE"
    [] OTHER                             -> "EXPIRED"

\* getAccountStatus: of the latest claim that is no cancelled one.
AccountStatus(s) ==
  LET actionable == {i \in DOMAIN claims[s] : claims[s][i].status # "CANCELLED"}
      last == claims[s][CHOOSE i \in actionable : \A j \in actionable : j <= i]
  IN  DeriveAccountStatus(showrooms[s].active,
        IF actionable = {} THEN Claim("none", NoLimit) ELSE last)

\* license_expiry has not passed.
Licensed(s) == showrooms[s].license # 0 /\ ~claims[s][showrooms[s].license].over

\* getUserLimit: of the latest ACTIVE claim with a limit, unless that is over.
Limited(s) == {i \in DOMAIN claims[s] : claims[s][i].status = "ACTIVE" /\ claims[s][i].limit # NoLimit}

UserLimit(s) ==
  LET last == claims[s][CHOOSE i \in Limited(s) : \A j \in Limited(s) : j <= i]
  IN  IF Limited(s) = {} \/ last.over THEN NoLimit ELSE last.limit

\* Mutant: a limit of n lets n + 1 in.
BelowLimitOrAt(s) == UserLimit(s) = NoLimit \/ Cardinality(Active(s)) <= UserLimit(s)

\* enforceUserLimit.
BelowLimit(s) == UserLimit(s) = NoLimit \/ Cardinality(Active(s)) < UserLimit(s)

-----------------------------------------------------------------------------
(* The gates of a business route, for a user that is no SuperAdmin.  The     *)
(* trail of activities asks all of them but the last.                       *)

Authenticated(e) == users[e].active

\* Mutant: the licence's date is not looked at.
CheckLicenseOfActive(s) == showrooms[s].active

CheckLicense(s)  == showrooms[s].active /\ Licensed(s)

\* Mutant: the gate lets a trial through.
AccountActiveAlways(s) == TRUE

\* requireAccountActive: the latest claim, whatever its status, is not a trial.
AccountActive(s) == claims[s] # <<>> => Latest(claims[s]).status # "TRIAL"

EnsureOnboarded(s) == showrooms[s].onboarded

MayDoBusiness(e) ==
  LET s == users[e].showroom
  IN  /\ Taken(e) /\ Authenticated(e)
      /\ CheckLicense(s) /\ AccountActive(s) /\ EnsureOnboarded(s)

\* An owner on the routes of users and subscriptions: no gate but those.
OwnerOf(e, s) == users[e].showroom = s /\ s \in Followed /\ users[e].role = "OWNER" /\ Authenticated(e)

-----------------------------------------------------------------------------
(* Registration, by the public and by the SuperAdmin.                       *)

Goto(r, label) == pc' = [pc EXCEPT ![r] = label]
Ends(r) == Goto(r, "idle") /\ req' = [req EXCEPT ![r] = NoRequest]

\* registerAccount and createShowroom look for the e-mail (and the latter for the
\* slug) before they hash the password.
RegisterStart(r) ==
  \E s \in Showrooms, e \in Emails, kind \in {"register", "create"} :
    /\ pc[r] = "idle" /\ ~Taken(e)
    /\ kind = "create" => ~showrooms[s].exists
    /\ req' = [req EXCEPT ![r] = [NoRequest EXCEPT !.kind = kind, !.s = s, !.e = e]]
    /\ Goto(r, "bootstrap")
    /\ UNCHANGED <<showrooms, users, claims, edits, granted>>

\* The showroom, its OWNER and its first claim.  The public gets a trial and the
\* wizard, the SuperAdmin's showroom is ready.
Bootstrap(kind, s, e) ==
  /\ showrooms' = [showrooms EXCEPT ![s] =
                     [exists |-> TRUE, active |-> TRUE,
                      onboarded |-> kind = "create", license |-> 1]]
  /\ users' = [users EXCEPT ![e] = [showroom |-> s, role |-> "OWNER", active |-> TRUE]]
  /\ claims' = [claims EXCEPT ![s] =
                  <<Claim(IF kind = "create" THEN "ACTIVE" ELSE "TRIAL", NoLimit)>>]
  /\ granted' = IF kind = "create" THEN granted \cup {s} ELSE granted

\* Mutant: the three rows are not one transaction.
RegisterPiecemeal(r) ==
  LET s == req[r].s
      e == req[r].e
  IN  /\ pc[r] = "bootstrap" /\ Ends(r)
      /\ \/ /\ ~showrooms[s].exists /\ ~Taken(e)
            /\ Bootstrap(req[r].kind, s, e)
         \/ /\ ~showrooms[s].exists /\ Taken(e)
            /\ showrooms' = [showrooms EXCEPT ![s].exists = TRUE, ![s].active = TRUE]
            /\ UNCHANGED <<users, claims, granted>>
         \/ /\ showrooms[s].exists
            /\ UNCHANGED <<showrooms, users, claims, granted>>
      /\ UNCHANGED edits

\* One transaction: a slug or an e-mail that was taken meanwhile undoes all of it.
RegisterCommit(r) ==
  LET s == req[r].s
      e == req[r].e
  IN  /\ pc[r] = "bootstrap" /\ Ends(r)
      /\ \/ ~showrooms[s].exists /\ ~Taken(e) /\ Bootstrap(req[r].kind, s, e)
         \/ /\ showrooms[s].exists \/ Taken(e)
            /\ UNCHANGED <<showrooms, users, claims, granted>>
      /\ UNCHANGED edits

-----------------------------------------------------------------------------
(* Users.                                                                   *)

\* The other requests on s whose check is out of date after this step.
Overtake(r, s) ==
  [q \in Requests |-> IF q = r THEN NoRequest
                     ELSE [req[q] EXCEPT !.overtaken = @ \/ req[q].s = s]]

\* register and createUserForShowroom: an owner adds STAFF, the SuperAdmin an owner
\* too.  The e-mail is free and the limit not reached when they look.
CreateUserStart(r) ==
  \E s \in Followed, e \in Emails, role \in {"OWNER", "STAFF"} :
    /\ pc[r] = "idle" /\ showrooms[s].exists /\ ~Taken(e) /\ BelowLimit(s)
    /\ req' = [req EXCEPT ![r] =
                 [NoRequest EXCEPT !.kind = "insert", !.s = s, !.e = e, !.role = role]]
    /\ Goto(r, "write")
    /\ UNCHANGED <<showrooms, users, claims, edits, granted>>

\* setUserActive of one of an owner's STAFF, where it is a change; a reactivation
\* looks at the limit.
SetUserActiveStart(r) ==
  \E actor, e \in Emails :
    LET s == users[actor].showroom
    IN  /\ pc[r] = "idle" /\ OwnerOf(actor, s) /\ CheckLicense(s)
        /\ users[e].showroom = s /\ users[e].role = "STAFF" /\ e # actor
        /\ ~users[e].active => BelowLimit(s)
        /\ req' = [req EXCEPT ![r] =
                     [NoRequest EXCEPT !.s = s, !.e = e,
                        !.kind = IF users[e].active THEN "deactivate" ELSE "reactivate"]]
        /\ Goto(r, "write")
        /\ UNCHANGED <<showrooms, users, claims, edits, granted>>

\* The insert, which the unique e-mail may refuse, or the update by primary key,
\* which nothing refuses.
WriteUser(r) ==
  LET s == req[r].s
      e == req[r].e
      row == IF req[r].kind = "insert"
             THEN [showroom |-> s, role |-> req[r].role, active |-> TRUE]
             ELSE [users[e] EXCEPT !.active = req[r].kind = "reactivate"]
      written == req[r].kind = "insert" => ~Taken(e)
  IN  /\ pc[r] = "write" /\ Goto(r, "idle")
      /\ users' = IF written THEN [users EXCEPT ![e] = row] ELSE users
      /\ req'   = IF written THEN Overtake(r, s) ELSE [req EXCEPT ![r] = NoRequest]
      /\ UNCHANGED <<showrooms, claims, edits, granted>>

\* updateUser of the SuperAdmin: any role of a showroom and any state, no limit.
UpdateUser ==
  \E e \in Emails, role \in {"OWNER", "STAFF"}, active \in BOOLEAN :
    LET s == users[e].showroom
    IN  /\ s \in Followed /\ edits[s] < MaxEdits
        /\ users' = [users EXCEPT ![e].role = role, ![e].active = active]
        /\ edits' = [edits EXCEPT ![s] = @ + 1]
        /\ req'   = Overtake("none", s)
        /\ UNCHANGED <<showrooms, claims, pc, granted>>

-----------------------------------------------------------------------------
(* The showroom and its claims.                                             *)

\* onboardShowroom, by the owner on its own showroom.
OnboardShowroom ==
  \E e \in Emails :
    LET s == users[e].showroom
    IN  /\ OwnerOf(e, s) /\ CheckLicense(s)
        /\ showrooms' = [showrooms EXCEPT ![s].onboarded = TRUE]
        /\ UNCHANGED <<users, claims, pc, req, edits, granted>>

\* renewSubscription, from updateShowroom, /licenses/renew or /subscriptions/renew: an
\* ACTIVE claim with no limit, whatever claims there are.
RenewSubscription ==
  \E s \in Followed :
    /\ showrooms[s].exists /\ Len(claims[s]) < MaxClaims
    /\ claims'    = [claims EXCEPT ![s] = Append(@, Claim("ACTIVE", NoLimit))]
    /\ showrooms' = [showrooms EXCEPT ![s].active = TRUE, ![s].license = Len(claims[s]) + 1]
    /\ granted'   = granted \cup {s}
    /\ UNCHANGED <<users, pc, req, edits>>

\* updateShowroom with is_active.
UpdateShowroom ==
  \E s \in Followed, active \in BOOLEAN :
    /\ showrooms[s].exists
    /\ showrooms' = [showrooms EXCEPT ![s].active = active]
    /\ UNCHANGED <<users, claims, pc, req, edits, granted>>

Pending(s) == {i \in DOMAIN claims[s] : claims[s][i].status = "PENDING_PAYMENT"}

\* requestSubscription and requestRenewal: one pending claim, by the partial unique
\* index.  No licence is asked for.
RequestSubscription ==
  \E e \in Emails, limit \in Limits :
    LET s == users[e].showroom
    IN  /\ OwnerOf(e, s) /\ Pending(s) = {} /\ Len(claims[s]) < MaxClaims
        /\ claims' = [claims EXCEPT ![s] = Append(@, Claim("PENDING_PAYMENT", limit))]
        /\ UNCHANGED <<showrooms, users, pc, req, edits, granted>>

\* cancelPendingRequest, rejectPayment and the scan of stale requests.
CancelRequest ==
  \E s \in Followed : \E i \in Pending(s) :
    /\ claims' = [claims EXCEPT ![s][i].status = "CANCELLED"]
    /\ UNCHANGED <<showrooms, users, pc, req, edits, granted>>

\* activateSubscription: the claim's limit counts from now on.
ActivateSubscription ==
  \E s \in Followed : \E i \in Pending(s) :
    /\ claims'    = [claims EXCEPT ![s][i].status = "ACTIVE"]
    /\ showrooms' = [showrooms EXCEPT ![s].active = TRUE, ![s].license = i]
    /\ req'       = Overtake("none", s)
    /\ UNCHANGED <<users, pc, edits, granted>>

\* The end of a claim's time passes; a claim that gave time has one.
PeriodEnds ==
  \E s \in Followed : \E i \in DOMAIN claims[s] :
    /\ claims[s][i].status \in {"TRIAL", "ACTIVE"} /\ ~claims[s][i].over
    /\ claims' = [claims EXCEPT ![s][i].over = TRUE]
    /\ req'    = Overtake("none", s)
    /\ UNCHANGED <<showrooms, users, pc, edits, granted>>

\* runSubscriptionExpiryScan on one claim.
ExpireClaim ==
  \E s \in Followed : \E i \in DOMAIN claims[s] :
    /\ claims[s][i].status \in {"TRIAL", "ACTIVE"} /\ claims[s][i].over
    /\ claims' = [claims EXCEPT ![s][i].status = "EXPIRED"]
    /\ req'    = Overtake("none", s)
    /\ UNCHANGED <<showrooms, users, pc, edits, granted>>

Next ==
  \/ \E r \in Requests : RegisterStart(r) \/ RegisterCommit(r) \/ CreateUserStart(r)
                          \/ SetUserActiveStart(r) \/ WriteUser(r)
  \/ UpdateUser \/ OnboardShowroom \/ UpdateShowroom \/ RenewSubscription
  \/ RequestSubscription \/ CancelRequest \/ ActivateSubscription
  \/ PeriodEnds \/ ExpireClaim

Spec == Init /\ [][Next]_vars

-----------------------------------------------------------------------------
(* Properties.                                                              *)

Statuses == {"TRIAL", "PENDING_PAYMENT", "ACTIVE", "CANCELLED", "EXPIRED"}
Kinds    == {"none", "register", "create", "insert", "deactivate", "reactivate"}

Showroom == [exists : BOOLEAN, active : BOOLEAN, onboarded : BOOLEAN, license : 0..MaxClaims]
User     == [showroom : Showrooms \cup {"none"}, role : {"OWNER", "STAFF"}, active : BOOLEAN]
ClaimRow == [status : Statuses, limit : Limits \cup {NoLimit}, over : BOOLEAN]
Request  == [kind : Kinds, s : Showrooms \cup {"none"}, e : Emails \cup {"none"},
             role : {"OWNER", "STAFF"}, overtaken : BOOLEAN]

\* Every row and every request has its type; a user belongs to a showroom that exists
\* and license_expiry was written by one of the showroom's claims.
TypeOK ==
  /\ showrooms \in [Showrooms -> Showroom]
  /\ users \in [Emails -> User]
  /\ claims \in [Showrooms -> Seq(ClaimRow)]
  /\ \A s \in Showrooms : Len(claims[s]) <= MaxClaims /\ showrooms[s].license <= Len(claims[s])
  /\ \A e \in Emails : Taken(e) => showrooms[users[e].showroom].exists
  /\ pc \in [Requests -> {"idle", "bootstrap", "write"}]
  /\ req \in [Requests -> Request]
  /\ edits \in [Showrooms -> 0..MaxEdits] /\ granted \subseteq Showrooms

\* The users who can enter a showroom and run it.
Owners(s) == {e \in Active(s) : users[e].role = "OWNER"}

\* A showroom that exists has an active owner who can log in and a claim, unless the
\* SuperAdmin edited its users: no race of two registrations for an e-mail or a slug
\* leaves one behind that nobody can enter.
ShowroomHasOwner ==
  \A s \in Showrooms : showrooms[s].exists /\ edits[s] = 0 =>
    Owners(s) # {} /\ claims[s] # <<>>

\* The active users of a showroom grow beyond its plan's limit only where the SuperAdmin
\* activates one, or where the count a request was let through with had been overtaken
\* by another request: one request after the other never passes the limit.
LimitPassedOnlyByRace ==
  [][\A s \in Showrooms :
       (/\ Cardinality(Active(s)') > Cardinality(Active(s))
        /\ UserLimit(s) # NoLimit /\ Cardinality(Active(s)') > UserLimit(s))
       => UpdateUser \/ \E r \in Requests : req[r].overtaken /\ req[r].s = s]_vars

\* A showroom that registered itself, and that the SuperAdmin never gave time, reaches
\* the business routes only after it asked for a plan: the trial's licence is valid but
\* the account gate is shut, as account.middleware.js:12-15 says and against the comment
\* of registerAccount (TrialHasAccess below).
NoBusinessBeforePlan ==
  \A e \in Emails : MayDoBusiness(e) /\ users[e].showroom \notin granted =>
    Len(claims[users[e].showroom]) > 1

\* The gates ask three columns (is_active, license_expiry, the latest row's status) and
\* never the status the account is shown.  Whoever they let through is shown ACTIVE all
\* the same, where the latest claim neither waits for its review nor was cancelled, and
\* is the one license_expiry comes from: an account shown SUSPENDED or EXPIRED, whose
\* scan may not have run, is kept out.
GateFollowsStatus ==
  \A e \in Emails :
    LET s == users[e].showroom
    IN  MayDoBusiness(e) =>
          \/ AccountStatus(s) = "ACTIVE"
          \/ claims[s][Len(claims[s])].status \in {"PENDING_PAYMENT", "CANCELLED"}
          \/ showrooms[s].license # Len(claims[s])

\* account.middleware.js:13-15: an account whose status is PENDING is blocked from every
\* business route until it purchases.  The code does not keep this: the gate looks at the
\* latest claim of any status, the status shown skips cancelled ones.
BlockedUntilPurchase ==
  \A e \in Emails : MayDoBusiness(e) => AccountStatus(users[e].showroom) # "PENDING"

\* auth.controller.js:409-411, of an account that registered itself: "derived ACTIVE while
\* the trial has time left (trial grants full access - license checks pass via
\* license_expiry)".  The code does not keep this: an active user of an active showroom
\* that completed the wizard is kept off the business routes while its trial runs.
TrialHasAccess ==
  \A e \in Emails :
    LET s == users[e].showroom
    IN  /\ Taken(e) /\ Authenticated(e) /\ CheckLicense(s) /\ EnsureOnboarded(s)
        /\ claims[s][Len(claims[s])].status = "TRIAL"
        => MayDoBusiness(e)

-----------------------------------------------------------------------------
(* The inductive invariant of ShowroomHasOwner and NoBusinessBeforePlan.     *)

\* A request between its check and its write is about a showroom and an e-mail; one
\* that toggles a user toggles STAFF of that showroom, unless the SuperAdmin edited it.
RequestInv ==
  \A r \in Requests :
    /\ pc[r] # "idle" => req[r].s \in Showrooms /\ req[r].e \in Emails
    /\ pc[r] = "write" =>
         /\ showrooms[req[r].s].exists /\ req[r].kind \in {"insert", "deactivate", "reactivate"}
         /\ req[r].kind # "insert" =>
              /\ users[req[r].e].showroom = req[r].s
              /\ edits[req[r].s] = 0 => users[req[r].e].role = "STAFF"

\* The claim of a showroom nobody gave time is its trial, running or expired.
TrialInv ==
  \A s \in Showrooms :
    /\ showrooms[s].exists => claims[s] # <<>>
    /\ showrooms[s].exists /\ s \notin granted /\ Len(claims[s]) = 1 =>
         /\ showrooms[s].license = 1
         /\ claims[s][1].status = "TRIAL" \/ (claims[s][1].status = "EXPIRED" /\ claims[s][1].over)

IInv == TypeOK /\ RequestInv /\ TrialInv /\ ShowroomHasOwner

\* What GateFollowsStatus needs besides: a claim is EXPIRED only after its end.
ExpiredInv ==
  \A s \in Showrooms : \A i \in DOMAIN claims[s] :
    claims[s][i].status = "EXPIRED" => claims[s][i].over

\* What LimitPassedOnlyByRace needs besides: a request that lets one more user in, and
\* that nothing overtook, still finds the limit not reached; a showroom that does not
\* exist has no plan.
CountOf(s) ==
  /\ ~showrooms[s].exists => claims[s] = <<>>
  /\ \A r \in Requests :
       pc[r] = "write" /\ req[r].s = s /\ req[r].kind # "deactivate" /\ ~req[r].overtaken
         => BelowLimit(s)

CountInv == \A s \in Showrooms : CountOf(s)
=============================================================================
