--------------------------- MODULE Administration ---------------------------
(***************************************************************************)
(* Delegated platform administration: profiles with their grants, the      *)
(* administrators that carry one, and the requests that create, change and *)
(* delete them.  Every profile change passes the amplification gate before *)
(* its transaction and again inside it, where the gate reads through its   *)
(* own connection: what it saw can be stale when the change is written.    *)
(*                                                                         *)
(* A grant stands for a permission at the one scope the validation allows  *)
(* for it.  Root is the SUPER_ADMIN, who passes every gate.  OwnerRole is  *)
(* the seeded OWNER row, the fallback of a user without a profile.  Names, *)
(* e-mail uniqueness, passwords and audit rows change nothing read here.   *)
(***************************************************************************)
EXTENDS Integers, FiniteSets

CONSTANTS
  Profiles,     \* the profiles that can be created: a profile is its unique name
  Admins,       \* the accounts that can be created as administrators
  Root,         \* the SUPER_ADMIN
  OwnerRole,    \* the system profile an account without a profile falls back to
  None,
  PlatformKeys, \* the platform permissions of the catalog
  TenantKeys,   \* the permissions of a showroom's own surface
  OwnerGrants,  \* what the OWNER row is seeded with
  RouteKey,     \* RouteKey[kind]: the platform permission the route of kind requires
  Drafts,       \* the profiles a request may ask for
  Deltas,       \* the changes a request may ask for
  Requests

Kinds  == {"createProfile", "updateProfile", "deleteProfile", "createAdmin", "updateAdmin"}
Scopes == {"GLOBAL", "SHOWROOM"}

\* The catalog, and the one scope at which a grant of a permission is valid.
Grants     == PlatformKeys \cup TenantKeys
ScopeOf(g) == IF g \in PlatformKeys THEN "GLOBAL" ELSE "SHOWROOM"

Rows   == Profiles \cup {OwnerRole}
Row    == [exists : BOOLEAN, scope : Scopes, grants : SUBSET Grants]
OwnerRow == [exists |-> TRUE, scope |-> "SHOWROOM", grants |-> OwnerGrants]

\* What the schemas of createProfile and updateProfile let through.
Draft  == {draft \in Row : draft.exists /\ draft.grants # {}}
Delta  == [scope : Scopes \cup {"same"}, granted : SUBSET Grants, revoked : SUBSET Grants]

ASSUME AdministrationAssumption ==
  /\ Root \notin Admins /\ None \notin Rows /\ OwnerRole \notin Profiles
  /\ PlatformKeys \cap TenantKeys = {} /\ OwnerGrants \subseteq TenantKeys
  /\ RouteKey \in [Kinds -> PlatformKeys]
  /\ Drafts \subseteq Draft
  /\ Deltas \subseteq Delta

VARIABLES
  profiles,   \* profiles[p]: the row, with its profile_permissions
  admins,     \* admins[a]: the user row on the system showroom
  pc,         \* pc[r]: the next step of r, idle before and after it
  req,        \* req[r]: who asks for what, and what r has read
  reach,      \* every grant that Root ever put in a profile
  met         \* administrators that took a profile while its deletion was under way

vars == <<profiles, admins, pc, req, reach, met>>

Absent    == [exists |-> FALSE, scope |-> "GLOBAL", grants |-> {}]
NoAdmin   == [exists |-> FALSE, active |-> FALSE, profile |-> None]
NoDelta   == [scope |-> "same", granted |-> {}, revoked |-> {}]
NoRequest == [kind |-> "none", actor |-> Root, as |-> None, profile |-> None, admin |-> None,
              delta |-> NoDelta, candidate |-> Absent, on |-> TRUE]

\* What seedAuthorization leaves: the system profile and nobody but Root.
Init ==
  /\ profiles = [p \in Rows |->
       IF p = OwnerRole THEN OwnerRow ELSE Absent]
  /\ admins = [a \in Admins |-> NoAdmin]
  /\ pc     = [r \in Requests |-> "idle"]
  /\ req    = [r \in Requests |-> NoRequest]
  /\ reach = {} /\ met = {}

-----------------------------------------------------------------------------
(* Resolution of authority.                                                 *)

\* effectiveAuthorization of a user whose row said profile p: the row by its id,
\* the role's own without one, nothing at all when the row is missing.
Effective(p) ==
  LET row == profiles[IF p = None THEN OwnerRole ELSE p]
  IN  IF row.exists THEN row ELSE [Absent EXCEPT !.scope = "SHOWROOM"]

\* hasPermission: the permission at the scope it is asked for.
HasPermission(grants, key, scope) == key \in grants /\ ScopeOf(key) = scope

\* containsAll: every record of required is among the granted ones.
ContainsAll(granted, required) == required \subseteq granted

\* authenticate, requireScope(GLOBAL) and requirePermission of the route.
Admitted(actor, kind) ==
  \/ actor = Root
  \/ /\ actor \in Admins /\ admins[actor].exists /\ admins[actor].active
     /\ Effective(admins[actor].profile).scope = "GLOBAL"
     /\ HasPermission(Effective(admins[actor].profile).grants, RouteKey[kind], "GLOBAL")

\* Mutant: the gate of profile targets forgets the containment of the grants.
GateOnScopeOnly(actor, as, candidate) ==
  \/ actor = Root
  \/ Effective(as).scope = "GLOBAL"
  \/ candidate.scope = Effective(as).scope

\* validateProfileTarget for a target that is no system row: Root, or an actor
\* whose scope and grants cover the candidate's, resolved at the time of the call.
MayDefine(actor, as, candidate) ==
  \/ actor = Root
  \/ /\ Effective(as).scope = "GLOBAL" \/ candidate.scope = Effective(as).scope
     /\ ContainsAll(Effective(as).grants, candidate.grants)

Allowed(r) == MayDefine(req[r].actor, req[r].as, req[r].candidate)

\* is_system: the handlers refuse to touch or to assign the row.
Protected(p) == p = OwnerRole

-----------------------------------------------------------------------------
(* A request arrives: it passes the guards of its route with the profile    *)
(* its user row has now, reads its target, and is gated for the first time. *)

Goto(r, label) == pc' = [pc EXCEPT ![r] = label]

\* r ends, answered or refused.
Ends(r) ==
  /\ Goto(r, "idle")
  /\ req' = [req EXCEPT ![r] = NoRequest]

\* r goes on to label with what it has read, when its first checks pass.
Starts(r, request, checks, label) ==
  /\ pc[r] = "idle" /\ Admitted(request.actor, request.kind) /\ checks
  /\ req' = [req EXCEPT ![r] = request]
  /\ Goto(r, label)
  /\ UNCHANGED <<profiles, admins, reach, met>>

ProfileOf(actor) == IF actor = Root THEN None ELSE admins[actor].profile

Asks(kind, actor) ==
  [NoRequest EXCEPT !.kind = kind, !.actor = actor, !.as = ProfileOf(actor)]

People == {Root} \cup {a \in Admins : admins[a].exists}

\* createProfileSchema: at least one grant, any of the two scopes.
CreateProfileStart(r) ==
  \E actor \in People, p \in Profiles, candidate \in Drafts :
    LET ask == Asks("createProfile", actor)
    IN  Starts(r, [ask EXCEPT !.profile = p, !.candidate = candidate],
               MayDefine(actor, ask.as, candidate), "recheck")

\* The candidate is what the row that was read would become.
UpdateProfileStart(r) ==
  \E actor \in People, p \in Rows, delta \in Deltas :
    LET row == profiles[p]
        candidate == [exists |-> TRUE,
                      scope  |-> IF delta.scope = "same" THEN row.scope ELSE delta.scope,
                      grants |-> (row.grants \ delta.revoked) \cup delta.granted]
        ask == Asks("updateProfile", actor)
    IN  Starts(r, [ask EXCEPT !.profile = p, !.delta = delta, !.candidate = candidate],
               row.exists /\ ~Protected(p) /\ MayDefine(actor, ask.as, candidate), "recheck")

Carriers(p) == {a \in Admins : admins[a].exists /\ admins[a].profile = p}

\* Mutant: the profile's users are not counted.
DeleteProfileUncounted(r) ==
  \E actor \in People, p \in Rows :
    LET ask == Asks("deleteProfile", actor)
    IN  Starts(r, [ask EXCEPT !.profile = p, !.candidate = profiles[p]],
               /\ profiles[p].exists /\ ~Protected(p)
               /\ MayDefine(actor, ask.as, profiles[p]), "recheck")

\* A profile in use is refused: its users are counted here and not again.
DeleteProfileStart(r) ==
  \E actor \in People, p \in Rows :
    LET ask == Asks("deleteProfile", actor)
    IN  Starts(r, [ask EXCEPT !.profile = p, !.candidate = profiles[p]],
               /\ profiles[p].exists /\ ~Protected(p) /\ Carriers(p) = {}
               /\ MayDefine(actor, ask.as, profiles[p]), "recheck")

\* The assignment of profile p, checked once: a GLOBAL profile that is no system
\* row and that the actor may define.
Assignable(actor, as, p) ==
  /\ profiles[p].exists /\ ~Protected(p) /\ profiles[p].scope = "GLOBAL"
  /\ MayDefine(actor, as, profiles[p])

CreateAdministratorStart(r) ==
  \E actor \in People, a \in Admins, p \in Rows :
    LET ask == Asks("createAdmin", actor)
    IN  Starts(r, [ask EXCEPT !.profile = p, !.admin = a, !.as = None],
               ~admins[a].exists /\ Assignable(actor, ask.as, p), "write")

\* An administrator is a user with a profile; a profile_id equal to the one that
\* was read is written like any other, and is not gated.
UpdateAdministratorStart(r) ==
  \E actor \in People, a \in Admins, p \in Rows \cup {None}, on \in BOOLEAN :
    LET ask == Asks("updateAdmin", actor)
    IN  Starts(r, [ask EXCEPT !.profile = p, !.admin = a, !.on = on, !.as = None],
               /\ admins[a].exists /\ admins[a].profile # None
               /\ p \notin {None, admins[a].profile} => Assignable(actor, ask.as, p), "write")

-----------------------------------------------------------------------------
(* The transaction: the gate again for profiles, then the writes.  A row    *)
(* that is gone or a name that is taken ends it with an error.              *)

\* A deletion that is refused here deletes nothing and still answers success.
\* What an update or a deletion was checked for is not looked at again.
Recheck(r) ==
  /\ pc[r] = "recheck"
  /\ \/ Allowed(r) /\ Goto(r, "write") /\ req[r].kind = "createProfile" /\ UNCHANGED req
     \/ /\ Allowed(r) /\ Goto(r, "write") /\ req[r].kind # "createProfile"
        /\ req' = [req EXCEPT ![r].candidate = Absent, ![r].as = None]
     \/ ~Allowed(r) /\ Ends(r)
  /\ UNCHANGED <<profiles, admins, reach, met>>

Writes(r, kind) == pc[r] = "write" /\ req[r].kind = kind /\ Ends(r)

\* What Root grants can be passed on from here.
Granted(r, grants) == reach' = IF req[r].actor = Root THEN reach \cup grants ELSE reach

CreateProfileWrite(r) ==
  LET p == req[r].profile
  IN  /\ Writes(r, "createProfile")
      /\ IF profiles[p].exists
           THEN UNCHANGED <<profiles, reach>>
           ELSE profiles' = [profiles EXCEPT ![p] = req[r].candidate]
                /\ Granted(r, req[r].candidate.grants)
      /\ UNCHANGED <<admins, met>>

\* The deltas are applied to the row as it is by now: granted first, then revoked.
UpdateProfileWrite(r) ==
  LET p == req[r].profile
      delta == req[r].delta
  IN  /\ Writes(r, "updateProfile")
      /\ IF ~profiles[p].exists
           THEN UNCHANGED <<profiles, reach>>
           ELSE /\ profiles' = [profiles EXCEPT
                     ![p].scope = IF delta.scope = "same" THEN @ ELSE delta.scope,
                     ![p].grants = (@ \cup delta.granted) \ delta.revoked]
                /\ Granted(r, delta.granted)
      /\ UNCHANGED <<admins, met>>

\* The foreign key of users is ON DELETE SET NULL.
DeleteProfileWrite(r) ==
  LET p == req[r].profile
  IN  /\ Writes(r, "deleteProfile")
      /\ profiles' = [profiles EXCEPT ![p] = Absent]
      /\ admins' = [a \in Admins |->
           IF a \in Carriers(p) THEN [admins[a] EXCEPT !.profile = None] ELSE admins[a]]
      /\ UNCHANGED <<reach, met>>

\* A deletion of p that has counted its users and not deleted it yet.
Deleting(p) ==
  \E s \in Requests : pc[s] # "idle" /\ req[s].kind = "deleteProfile" /\ req[s].profile = p

Takes(a, p) == met' = IF Deleting(p) THEN met \cup {a} ELSE met \ {a}

CreateAdministratorWrite(r) ==
  LET a == req[r].admin
      p == req[r].profile
  IN  /\ Writes(r, "createAdmin")
      /\ IF admins[a].exists \/ ~profiles[p].exists
           THEN UNCHANGED <<admins, met>>
           ELSE /\ admins' = [admins EXCEPT ![a] = [exists |-> TRUE, active |-> TRUE, profile |-> p]]
                /\ Takes(a, p)
      /\ UNCHANGED <<profiles, reach>>

UpdateAdministratorWrite(r) ==
  LET a == req[r].admin
      p == req[r].profile
  IN  /\ Writes(r, "updateAdmin")
      /\ \/ /\ p # None /\ ~profiles[p].exists
            /\ UNCHANGED <<admins, met>>
         \/ /\ p # None /\ profiles[p].exists
            /\ admins' = [admins EXCEPT ![a].active = req[r].on, ![a].profile = p]
            /\ Takes(a, p)
         \/ /\ p = None
            /\ admins' = [admins EXCEPT ![a].active = req[r].on]
            /\ UNCHANGED met
      /\ UNCHANGED <<profiles, reach>>

Next ==
  \E r \in Requests :
    \/ CreateProfileStart(r) \/ UpdateProfileStart(r) \/ DeleteProfileStart(r)
    \/ CreateAdministratorStart(r) \/ UpdateAdministratorStart(r)
    \/ Recheck(r)
    \/ CreateProfileWrite(r) \/ UpdateProfileWrite(r) \/ DeleteProfileWrite(r)
    \/ CreateAdministratorWrite(r) \/ UpdateAdministratorWrite(r)

Spec == Init /\ [][Next]_vars

-----------------------------------------------------------------------------
(* Properties.                                                              *)

Request == [kind : Kinds \cup {"none"}, actor : Admins \cup {Root}, as : Rows \cup {None},
            profile : Rows \cup {None}, admin : Admins \cup {None}, delta : Delta,
            candidate : Row, on : BOOLEAN]

\* The rows and the requests stay within the schema, and the system row is never
\* written (SYSTEM_PROFILE_PROTECTED).
TypeOK ==
  /\ profiles \in [Rows -> Row]
  /\ profiles[OwnerRole] = OwnerRow
  /\ admins \in [Admins -> [exists : BOOLEAN, active : BOOLEAN, profile : Rows \cup {None}]]
  /\ pc \in [Requests -> {"idle", "recheck", "write"}]
  /\ req \in [Requests -> Request]
  /\ reach \subseteq Grants
  /\ met \subseteq Admins

\* No chain of delegates, however their requests interleave with each other and
\* with revocations, puts a grant in a profile that Root never put in one ("no
\* privilege amplification"): a stale gate can let an old grant back, not a new one.
PowersComeFromRoot == \A p \in Profiles : profiles[p].grants \subseteq reach

\* An administrator loses its profile, and falls back to the OWNER row, only when
\* it was given that profile between the count of a deletion and the deletion.
ProfileLostOnlyToRace ==
  \A a \in Admins : admins[a].exists /\ admins[a].profile = None => a \in met

\* "Re-validate inside the write window - check-then-write is race-free": the
\* profile a delegate creates is covered by what the delegate may do right then.
CreationsAreCovered ==
  [][\A r \in Requests :
       pc[r] = "write" /\ pc'[r] = "idle" /\ req[r].kind = "createProfile" => Allowed(r)]_vars

-----------------------------------------------------------------------------
(* The inductive invariant.                                                 *)

\* What a request on its way was admitted for: no system row, and no grant of a
\* delegate's own that Root never gave.
RequestInv ==
  \A r \in Requests :
    /\ pc[r] = "idle" => req[r].kind = "none"
    /\ req[r].kind \in {"createProfile", "updateProfile", "deleteProfile"} => req[r].profile \in Profiles
    /\ req[r].kind = "createAdmin" => req[r].admin \in Admins /\ req[r].profile \in Rows
    /\ req[r].kind = "updateAdmin" => req[r].admin \in Admins
    /\ req[r].actor # Root /\ req[r].kind = "createProfile" => req[r].candidate.grants \subseteq reach
    /\ req[r].actor # Root /\ req[r].kind = "updateProfile" => req[r].delta.granted \subseteq reach

\* Whoever carries a profile whose deletion is on its way took it meanwhile.
MetInv ==
  \A r \in Requests : \A a \in Admins :
    req[r].kind = "deleteProfile" /\ admins[a].exists /\ admins[a].profile = req[r].profile => a \in met

IInv == TypeOK /\ RequestInv /\ MetInv /\ PowersComeFromRoot /\ ProfileLostOnlyToRace
=============================================================================
