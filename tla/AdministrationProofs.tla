------------------------- MODULE AdministrationProofs -------------------------
(***************************************************************************)
(* Theorems about Administration for any catalog, any profiles, and any    *)
(* number of delegates and of requests at once.  The argument: who passes  *)
(* the guard of a platform route carries a profile (without one he is an   *)
(* OWNER, of showroom scope), and the gate lets him hand on what that      *)
(* profile has at the time, which by induction Root put in one.            *)
(***************************************************************************)
EXTENDS Administration, TLAPS

LEMMA Apart ==
  /\ OwnerRole \in Rows /\ Profiles \subseteq Rows /\ None \notin Rows
  /\ \A p \in Rows : p \in Profiles \/ p = OwnerRole
  /\ OwnerRole \notin Profiles /\ Root \notin Admins
  BY AdministrationAssumption DEF Rows

LEMMA Typed ==
  /\ Absent \in Row /\ NoDelta \in Delta /\ NoRequest \in Request
  /\ NoRequest.kind = "none" /\ NoRequest.actor = Root
  /\ OwnerRow \in Row /\ OwnerRow.scope = "SHOWROOM"
  <1>1. Absent \in Row /\ NoDelta \in Delta
    BY DEF Absent, Row, Scopes, NoDelta, Delta
  <1>2. OwnerRow \in Row /\ OwnerRow.scope = "SHOWROOM"
    BY AdministrationAssumption DEF OwnerRow, Row, Scopes, Grants
  <1>3. NoRequest \in Request /\ NoRequest.kind = "none" /\ NoRequest.actor = Root
    BY <1>1 DEF NoRequest, Request
  <1>4. QED
    BY <1>1, <1>2, <1>3

LEMMA AsTyped ==
  ASSUME TypeOK, NEW actor \in People
  PROVE  /\ actor \in Admins \cup {Root}
         /\ ProfileOf(actor) \in Rows \cup {None}
  <1>1. actor = Root \/ (actor \in Admins /\ actor # Root)
    BY Apart DEF People
  <1>2. CASE actor = Root
    BY <1>2 DEF ProfileOf
  <1>3. CASE actor \in Admins /\ actor # Root
    BY <1>3 DEF TypeOK, ProfileOf
  <1>4. QED
    BY <1>1, <1>2, <1>3

LEMMA Asked ==
  ASSUME TypeOK, NEW kind \in Kinds, NEW actor \in People
  PROVE  /\ Asks(kind, actor) \in Request
         /\ Asks(kind, actor).kind = kind /\ Asks(kind, actor).actor = actor
         /\ Asks(kind, actor).as = ProfileOf(actor)
  <1>1. actor \in Admins \cup {Root} /\ ProfileOf(actor) \in Rows \cup {None}
    BY AsTyped
  <1>2. NoRequest \in Request
    BY Typed
  <1> DEFINE q == [NoRequest EXCEPT !.kind = kind, !.actor = actor, !.as = ProfileOf(actor)]
  <1>3. q \in Request /\ q.kind = kind /\ q.actor = actor /\ q.as = ProfileOf(actor)
    BY <1>1, <1>2 DEF Request
  <1>4. QED
    BY <1>3 DEF Asks

\* A delegate hands on nothing but what Root once put in a profile.
LEMMA Reached ==
  ASSUME IInv, NEW actor \in People, actor # Root, NEW kind, Admitted(actor, kind),
         NEW candidate, MayDefine(actor, admins[actor].profile, candidate)
  PROVE  candidate.grants \subseteq reach
  <1> DEFINE as == admins[actor].profile
  <1>1. actor \in Admins /\ as \in Rows \cup {None}
    BY DEF IInv, TypeOK, People
  <1>2. Effective(as).scope = "GLOBAL" /\ candidate.grants \subseteq Effective(as).grants
    BY <1>1, Apart DEF Admitted, MayDefine, ContainsAll
  <1>3. profiles[OwnerRole].exists /\ profiles[OwnerRole].scope # "GLOBAL"
    BY DEF IInv, TypeOK, OwnerRow
  <1>4. as \in Profiles /\ profiles[as].exists
    BY <1>1, <1>2, <1>3, Apart DEF Effective, Absent
  <1>5. Effective(as) = profiles[as]
    BY <1>4, Apart DEF Effective
  <1>6. QED
    BY <1>2, <1>4, <1>5 DEF IInv, PowersComeFromRoot

-----------------------------------------------------------------------------
LEMMA InitIInv == Init => IInv
  <1> SUFFICES ASSUME Init PROVE IInv
    OBVIOUS
  <1> USE DEF Init
  <1>1. TypeOK
    <2>1. profiles \in [Rows -> Row] /\ profiles[OwnerRole] = OwnerRow
      BY Typed, Apart
    <2>2. req \in [Requests -> Request] /\ admins \in [Admins -> [exists : BOOLEAN, active : BOOLEAN, profile : Rows \cup {None}]]
      BY Typed DEF NoAdmin
    <2>3. QED
      BY <2>1, <2>2 DEF TypeOK
  <1>2. RequestInv /\ MetInv
    BY Typed DEF RequestInv, MetInv
  <1>3. PowersComeFromRoot
    BY Apart DEF PowersComeFromRoot, Absent
  <1>4. ProfileLostOnlyToRace
    BY DEF ProfileLostOnlyToRace, NoAdmin
  <1>5. QED
    BY <1>1, <1>2, <1>3, <1>4 DEF IInv

-----------------------------------------------------------------------------
(* A request arrives: nothing but its own record changes.                   *)

\* What a request has to satisfy when it starts.
Sound(request) ==
  /\ request.kind \in {"createProfile", "updateProfile", "deleteProfile"} => request.profile \in Profiles
  /\ request.kind = "createAdmin" => request.admin \in Admins /\ request.profile \in Rows
  /\ request.kind = "updateAdmin" => request.admin \in Admins
  /\ request.actor # Root /\ request.kind = "createProfile" => request.candidate.grants \subseteq reach
  /\ request.actor # Root /\ request.kind = "updateProfile" => request.delta.granted \subseteq reach
  /\ request.kind = "deleteProfile" => Carriers(request.profile) = {}

LEMMA StartKeeps ==
  ASSUME IInv, NEW r \in Requests, NEW request \in Request, NEW label \in {"recheck", "write"},
         req' = [req EXCEPT ![r] = request], pc' = [pc EXCEPT ![r] = label],
         UNCHANGED <<profiles, admins, reach, met>>, Sound(request)
  PROVE  IInv'
  <1>1. TypeOK'
    BY DEF IInv, TypeOK
  <1>2. /\ req'[r] = request /\ pc'[r] # "idle"
        /\ \A s \in Requests \ {r} : req'[s] = req[s] /\ pc'[s] = pc[s]
    BY DEF IInv, TypeOK
  <1>3. RequestInv'
    <2> SUFFICES ASSUME NEW s \in Requests
                 PROVE  /\ pc'[s] = "idle" => req'[s].kind = "none"
                        /\ req'[s].kind \in {"createProfile", "updateProfile", "deleteProfile"}
                             => req'[s].profile \in Profiles
                        /\ req'[s].kind = "createAdmin" => req'[s].admin \in Admins /\ req'[s].profile \in Rows
                        /\ req'[s].kind = "updateAdmin" => req'[s].admin \in Admins
                        /\ req'[s].actor # Root /\ req'[s].kind = "createProfile"
                             => req'[s].candidate.grants \subseteq reach
                        /\ req'[s].actor # Root /\ req'[s].kind = "updateProfile"
                             => req'[s].delta.granted \subseteq reach
      BY DEF RequestInv
    <2>1. CASE s = r
      BY <1>2, <2>1 DEF Sound
    <2>2. CASE s # r
      BY <1>2, <2>2 DEF IInv, RequestInv
    <2>3. QED
      BY <2>1, <2>2
  <1>4. MetInv'
    <2> SUFFICES ASSUME NEW s \in Requests, NEW a \in Admins, req'[s].kind = "deleteProfile",
                        admins[a].exists, admins[a].profile = req'[s].profile
                 PROVE  a \in met
      BY DEF MetInv
    <2>1. s # r
      BY <1>2 DEF Sound, Carriers
    <2>2. QED
      BY <1>2, <2>1 DEF IInv, MetInv
  <1>5. PowersComeFromRoot' /\ ProfileLostOnlyToRace'
    BY DEF IInv, PowersComeFromRoot, ProfileLostOnlyToRace
  <1>6. QED
    BY <1>1, <1>3, <1>4, <1>5 DEF IInv

LEMMA CreateProfileStartKeeps == ASSUME IInv, NEW r \in Requests, CreateProfileStart(r) PROVE IInv'
  <1> DEFINE k == "createProfile"
  <1>1. PICK actor \in People, p \in Profiles, candidate \in Drafts :
          Starts(r, [Asks(k, actor) EXCEPT !.profile = p, !.candidate = candidate],
                 MayDefine(actor, Asks(k, actor).as, candidate), "recheck")
    BY DEF CreateProfileStart
  <1> DEFINE request == [Asks(k, actor) EXCEPT !.profile = p, !.candidate = candidate]
  <1>2. /\ Asks(k, actor) \in Request /\ Asks(k, actor).kind = k
        /\ Asks(k, actor).actor = actor /\ Asks(k, actor).as = ProfileOf(actor)
    BY Asked DEF IInv, Kinds
  <1>3. candidate \in Row
    BY AdministrationAssumption DEF Draft
  <1>4. ProfileOf(actor) \in Rows \cup {None} /\ actor \in Admins \cup {Root}
    BY AsTyped DEF IInv
  <1>5. request \in Request /\ request.kind = k /\ request.actor = actor
        /\ request.profile = p /\ request.candidate = candidate
    BY <1>2, <1>3, <1>4, Typed, Apart DEF IInv, TypeOK, Request
  <1>6. actor # Root => candidate.grants \subseteq reach
    <2> HAVE actor # Root
    <2>1. Admitted(actor, k) /\ MayDefine(actor, admins[actor].profile, candidate)
      BY <1>1, <1>2, Asked DEF Starts, ProfileOf
    <2>2. QED
      BY <2>1, Reached
  <1>7. Sound(request)
    BY <1>5, <1>6 DEF Sound
  <1>8. /\ req' = [req EXCEPT ![r] = request] /\ pc' = [pc EXCEPT ![r] = "recheck"]
        /\ UNCHANGED <<profiles, admins, reach, met>>
    BY <1>1 DEF Starts, Goto
  <1> HIDE DEF request
  <1>9. QED
    BY <1>5, <1>7, <1>8, StartKeeps

LEMMA UpdateProfileStartKeeps == ASSUME IInv, NEW r \in Requests, UpdateProfileStart(r) PROVE IInv'
  <1> DEFINE k == "updateProfile"
             Becomes(p, delta) ==
               [exists |-> TRUE,
                scope  |-> IF delta.scope = "same" THEN profiles[p].scope ELSE delta.scope,
                grants |-> (profiles[p].grants \ delta.revoked) \cup delta.granted]
  <1>1. PICK actor \in People, p \in Rows, delta \in Deltas :
          Starts(r, [Asks(k, actor) EXCEPT !.profile = p, !.delta = delta, !.candidate = Becomes(p, delta)],
                 /\ profiles[p].exists /\ ~Protected(p)
                 /\ MayDefine(actor, Asks(k, actor).as, Becomes(p, delta)), "recheck")
    BY DEF UpdateProfileStart
  <1> DEFINE candidate == Becomes(p, delta)
             request == [Asks(k, actor) EXCEPT !.profile = p, !.delta = delta, !.candidate = candidate]
  <1>2. /\ Asks(k, actor) \in Request /\ Asks(k, actor).kind = k
        /\ Asks(k, actor).actor = actor /\ Asks(k, actor).as = ProfileOf(actor)
    BY Asked DEF IInv, Kinds
  <1>3. delta \in Delta /\ profiles[p] \in Row
    BY AdministrationAssumption DEF IInv, TypeOK
  <1>4. candidate \in Row
    BY <1>3 DEF Row, Delta, Scopes
  <1>5. ProfileOf(actor) \in Rows \cup {None} /\ actor \in Admins \cup {Root}
    BY AsTyped DEF IInv
  <1>6. request \in Request /\ request.kind = k /\ request.actor = actor
        /\ request.profile = p /\ request.delta = delta /\ request.candidate = candidate
    BY <1>2, <1>3, <1>4, <1>5 DEF IInv, TypeOK, Request
  <1>7. p \in Profiles
    BY <1>1, Apart DEF Starts, Protected
  <1>8. actor # Root => delta.granted \subseteq reach
    <2> HAVE actor # Root
    <2>1. Admitted(actor, k) /\ MayDefine(actor, admins[actor].profile, candidate)
      BY <1>1, <1>2, Asked DEF Starts, ProfileOf
    <2>2. candidate.grants \subseteq reach
      BY <2>1, Reached
    <2>3. QED
      BY <2>2
  <1>9. Sound(request)
    BY <1>6, <1>7, <1>8 DEF Sound
  <1>10. /\ req' = [req EXCEPT ![r] = request] /\ pc' = [pc EXCEPT ![r] = "recheck"]
        /\ UNCHANGED <<profiles, admins, reach, met>>
    BY <1>1 DEF Starts, Goto
  <1> HIDE DEF request
  <1>11. QED
    BY <1>6, <1>9, <1>10, StartKeeps

LEMMA DeleteProfileStartKeeps == ASSUME IInv, NEW r \in Requests, DeleteProfileStart(r) PROVE IInv'
  <1> DEFINE k == "deleteProfile"
  <1>1. PICK actor \in People, p \in Rows :
          Starts(r, [Asks(k, actor) EXCEPT !.profile = p, !.candidate = profiles[p]],
                 /\ profiles[p].exists /\ ~Protected(p) /\ Carriers(p) = {}
                 /\ MayDefine(actor, Asks(k, actor).as, profiles[p]), "recheck")
    BY DEF DeleteProfileStart
  <1> DEFINE request == [Asks(k, actor) EXCEPT !.profile = p, !.candidate = profiles[p]]
  <1>2. /\ Asks(k, actor) \in Request /\ Asks(k, actor).kind = k
        /\ Asks(k, actor).actor = actor /\ Asks(k, actor).as = ProfileOf(actor)
    BY Asked DEF IInv, Kinds
  <1>3. ProfileOf(actor) \in Rows \cup {None} /\ actor \in Admins \cup {Root} /\ profiles[p] \in Row
    BY AsTyped DEF IInv, TypeOK
  <1>4. request \in Request /\ request.kind = k /\ request.actor = actor
        /\ request.profile = p
    BY <1>2, <1>3, Typed DEF IInv, TypeOK, Request
  <1>5. p \in Profiles /\ Carriers(p) = {}
    BY <1>1, Apart DEF Starts, Protected
  <1>6. Sound(request)
    BY <1>4, <1>5 DEF Sound
  <1>7. /\ req' = [req EXCEPT ![r] = request] /\ pc' = [pc EXCEPT ![r] = "recheck"]
        /\ UNCHANGED <<profiles, admins, reach, met>>
    BY <1>1 DEF Starts, Goto
  <1> HIDE DEF request
  <1>8. QED
    BY <1>4, <1>6, <1>7, StartKeeps

LEMMA CreateAdministratorStartKeeps ==
  ASSUME IInv, NEW r \in Requests, CreateAdministratorStart(r) PROVE IInv'
  <1> DEFINE k == "createAdmin"
  <1>1. PICK actor \in People, a \in Admins, p \in Rows :
          Starts(r, [Asks(k, actor) EXCEPT !.profile = p, !.admin = a, !.as = None],
                 ~admins[a].exists /\ Assignable(actor, Asks(k, actor).as, p), "write")
    BY DEF CreateAdministratorStart
  <1> DEFINE request == [Asks(k, actor) EXCEPT !.profile = p, !.admin = a, !.as = None]
  <1>2. /\ Asks(k, actor) \in Request /\ Asks(k, actor).kind = k
        /\ Asks(k, actor).actor = actor /\ Asks(k, actor).as = ProfileOf(actor)
    BY Asked DEF IInv, Kinds
  <1>3. request \in Request /\ request.kind = k /\ request.actor = actor
        /\ request.profile = p /\ request.admin = a
    BY <1>2, AsTyped, Typed DEF IInv, TypeOK, Request
  <1>4. Sound(request)
    BY <1>3 DEF Sound
  <1>5. /\ req' = [req EXCEPT ![r] = request] /\ pc' = [pc EXCEPT ![r] = "write"]
        /\ UNCHANGED <<profiles, admins, reach, met>>
    BY <1>1 DEF Starts, Goto
  <1> HIDE DEF request
  <1>6. QED
    BY <1>3, <1>4, <1>5, StartKeeps

LEMMA UpdateAdministratorStartKeeps ==
  ASSUME IInv, NEW r \in Requests, UpdateAdministratorStart(r) PROVE IInv'
  <1> DEFINE k == "updateAdmin"
  <1>1. PICK actor \in People, a \in Admins, p \in Rows \cup {None}, on \in BOOLEAN :
          Starts(r, [Asks(k, actor) EXCEPT !.profile = p, !.admin = a, !.on = on, !.as = None],
                 /\ admins[a].exists /\ admins[a].profile # None
                 /\ p \notin {None, admins[a].profile} => Assignable(actor, Asks(k, actor).as, p), "write")
    BY DEF UpdateAdministratorStart
  <1> DEFINE request == [Asks(k, actor) EXCEPT !.profile = p, !.admin = a, !.on = on, !.as = None]
  <1>2. /\ Asks(k, actor) \in Request /\ Asks(k, actor).kind = k
        /\ Asks(k, actor).actor = actor /\ Asks(k, actor).as = ProfileOf(actor)
    BY Asked DEF IInv, Kinds
  <1>3. request \in Request /\ request.kind = k /\ request.actor = actor /\ request.admin = a
    BY <1>2, AsTyped, Typed DEF IInv, TypeOK, Request
  <1>4. Sound(request)
    BY <1>3 DEF Sound
  <1>5. /\ req' = [req EXCEPT ![r] = request] /\ pc' = [pc EXCEPT ![r] = "write"]
        /\ UNCHANGED <<profiles, admins, reach, met>>
    BY <1>1 DEF Starts, Goto
  <1> HIDE DEF request
  <1>6. QED
    BY <1>3, <1>4, <1>5, StartKeeps

-----------------------------------------------------------------------------
(* A request ends: its record is cleared, and nothing else about requests.  *)

LEMMA EndTyped ==
  ASSUME TypeOK, NEW r \in Requests, Ends(r)
  PROVE  /\ pc' \in [Requests -> {"idle", "recheck", "write"}] /\ req' \in [Requests -> Request]
         /\ pc'[r] = "idle" /\ req'[r] = NoRequest
         /\ \A s \in Requests \ {r} : pc'[s] = pc[s] /\ req'[s] = req[s]
  BY Typed DEF TypeOK, Ends, Goto

LEMMA EndKeeps ==
  ASSUME IInv, NEW r \in Requests, Ends(r), reach \subseteq reach'
  PROVE  RequestInv'
  <1> SUFFICES ASSUME NEW s \in Requests
               PROVE  /\ pc'[s] = "idle" => req'[s].kind = "none"
                      /\ req'[s].kind \in {"createProfile", "updateProfile", "deleteProfile"}
                           => req'[s].profile \in Profiles
                      /\ req'[s].kind = "createAdmin" => req'[s].admin \in Admins /\ req'[s].profile \in Rows
                      /\ req'[s].kind = "updateAdmin" => req'[s].admin \in Admins
                      /\ req'[s].actor # Root /\ req'[s].kind = "createProfile"
                           => req'[s].candidate.grants \subseteq reach'
                      /\ req'[s].actor # Root /\ req'[s].kind = "updateProfile"
                           => req'[s].delta.granted \subseteq reach'
    BY DEF RequestInv
  <1>1. CASE s = r
    <2>1. req'[s] = NoRequest
      BY <1>1, EndTyped DEF IInv
    <2>2. QED
      BY <2>1, Typed
  <1>2. CASE s # r
    <2>1. pc'[s] = pc[s] /\ req'[s] = req[s]
      BY <1>2, EndTyped DEF IInv
    <2>2. QED
      BY <2>1 DEF IInv, RequestInv
  <1>3. QED
    BY <1>1, <1>2

\* The administrators and who was met stay as they are.
LEMMA EndKeepsMet ==
  ASSUME IInv, NEW r \in Requests, Ends(r), UNCHANGED <<admins, met>>
  PROVE  MetInv' /\ ProfileLostOnlyToRace'
  <1>1. \A s \in Requests : req'[s].kind = "deleteProfile" => req'[s] = req[s]
    BY EndTyped, Typed DEF IInv
  <1>2. MetInv'
    BY <1>1 DEF IInv, MetInv
  <1>3. ProfileLostOnlyToRace'
    BY DEF IInv, ProfileLostOnlyToRace
  <1>4. QED
    BY <1>2, <1>3

LEMMA RecheckKeeps == ASSUME IInv, NEW r \in Requests, Recheck(r) PROVE IInv'
  <1> USE DEF Recheck, Goto
  <1>1. CASE pc' = [pc EXCEPT ![r] = "write"] /\ req[r].kind = "createProfile" /\ UNCHANGED req
    <2>1. TypeOK'
      BY <1>1 DEF IInv, TypeOK
    <2>2. RequestInv' /\ MetInv' /\ PowersComeFromRoot' /\ ProfileLostOnlyToRace'
      BY <1>1 DEF IInv, TypeOK, RequestInv, MetInv, PowersComeFromRoot, ProfileLostOnlyToRace
    <2>3. QED
      BY <2>1, <2>2 DEF IInv
  <1>2. CASE /\ pc' = [pc EXCEPT ![r] = "write"] /\ req[r].kind # "createProfile"
             /\ req' = [req EXCEPT ![r].candidate = Absent, ![r].as = None]
    <2> DEFINE q == [req[r] EXCEPT !.candidate = Absent, !.as = None]
    <2>1. /\ req[r] \in Request /\ q \in Request
          /\ q.kind = req[r].kind /\ q.actor = req[r].actor /\ q.profile = req[r].profile
          /\ q.admin = req[r].admin /\ q.delta = req[r].delta
      BY Typed DEF IInv, TypeOK, Request
    <2>2. req' = [req EXCEPT ![r] = q]
      BY <1>2 DEF IInv, TypeOK
    <2> HIDE DEF q
    <2>3. TypeOK'
      BY <1>2, <2>1, <2>2 DEF IInv, TypeOK
    <2>4. /\ req'[r] = q /\ pc'[r] = "write"
          /\ \A s \in Requests \ {r} : req'[s] = req[s] /\ pc'[s] = pc[s]
      BY <1>2, <2>2 DEF IInv, TypeOK
    <2>5. RequestInv'
      <3> SUFFICES ASSUME NEW s \in Requests
                   PROVE  /\ pc'[s] = "idle" => req'[s].kind = "none"
                          /\ req'[s].kind \in {"createProfile", "updateProfile", "deleteProfile"}
                               => req'[s].profile \in Profiles
                          /\ req'[s].kind = "createAdmin" => req'[s].admin \in Admins /\ req'[s].profile \in Rows
                          /\ req'[s].kind = "updateAdmin" => req'[s].admin \in Admins
                          /\ req'[s].actor # Root /\ req'[s].kind = "createProfile"
                               => req'[s].candidate.grants \subseteq reach
                          /\ req'[s].actor # Root /\ req'[s].kind = "updateProfile"
                               => req'[s].delta.granted \subseteq reach
        BY DEF RequestInv
      <3>1. CASE s = r
        BY ZenonT(60), <1>2, <2>1, <2>4, <3>1 DEF IInv, RequestInv
      <3>2. CASE s # r
        BY <2>4, <3>2 DEF IInv, RequestInv
      <3>3. QED
        BY <3>1, <3>2
    <2>6. MetInv'
      <3>1. \A s \in Requests : req'[s].kind = req[s].kind /\ req'[s].profile = req[s].profile
        BY <2>1, <2>4
      <3>2. QED
        BY <3>1 DEF IInv, MetInv
    <2>7. PowersComeFromRoot' /\ ProfileLostOnlyToRace'
      BY DEF IInv, PowersComeFromRoot, ProfileLostOnlyToRace
    <2>8. QED
      BY <2>3, <2>5, <2>6, <2>7 DEF IInv
  <1>3. CASE Ends(r)
    <2>1. TypeOK'
      BY <1>3, EndTyped DEF IInv, TypeOK
    <2>2. PowersComeFromRoot'
      BY DEF IInv, PowersComeFromRoot
    <2>3. QED
      BY <1>3, <2>1, <2>2, EndKeeps, EndKeepsMet DEF IInv
  <1>4. QED
    BY <1>1, <1>2, <1>3

LEMMA CreateProfileWriteKeeps == ASSUME IInv, NEW r \in Requests, CreateProfileWrite(r) PROVE IInv'
  <1> DEFINE p == req[r].profile
             c == req[r].candidate
  <1> USE DEF CreateProfileWrite, Writes, Granted
  <1>0. Ends(r) /\ p \in Profiles /\ c \in Row /\ req[r].actor \in Admins \cup {Root}
    BY DEF IInv, TypeOK, RequestInv, Request
  <1>1. CASE UNCHANGED <<profiles, reach>>
    <2>1. TypeOK' /\ PowersComeFromRoot'
      BY <1>0, <1>1, EndTyped DEF IInv, TypeOK, PowersComeFromRoot
    <2>2. QED
      BY <1>0, <1>1, <2>1, EndKeeps, EndKeepsMet DEF IInv
  <1>2. CASE profiles' = [profiles EXCEPT ![p] = c]
             /\ reach' = IF req[r].actor = Root THEN reach \cup c.grants ELSE reach
    <2>1. c.grants \subseteq Grants /\ c.grants \subseteq reach' /\ reach \subseteq reach'
      BY <1>0, <1>2 DEF IInv, RequestInv, Row
    <2>2. profiles' \in [Rows -> Row] /\ profiles'[OwnerRole] = OwnerRow
      BY <1>0, <1>2, Apart DEF IInv, TypeOK
    <2>3. TypeOK'
      BY <1>0, <1>2, <2>1, <2>2, EndTyped DEF IInv, TypeOK
    <2>4. PowersComeFromRoot'
      <3> SUFFICES ASSUME NEW x \in Profiles PROVE profiles'[x].grants \subseteq reach'
        BY DEF PowersComeFromRoot
      <3>1. profiles'[x] = IF x = p THEN c ELSE profiles[x]
        BY <1>2, Apart DEF IInv, TypeOK
      <3>2. QED
        BY <2>1, <3>1 DEF IInv, PowersComeFromRoot
    <2>5. QED
      BY <1>0, <2>1, <2>3, <2>4, EndKeeps, EndKeepsMet DEF IInv
  <1>3. QED
    BY <1>1, <1>2

LEMMA UpdateProfileWriteKeeps == ASSUME IInv, NEW r \in Requests, UpdateProfileWrite(r) PROVE IInv'
  <1> DEFINE p == req[r].profile
             d == req[r].delta
             row == [profiles[p] EXCEPT !.scope = IF d.scope = "same" THEN @ ELSE d.scope,
                                        !.grants = (@ \cup d.granted) \ d.revoked]
  <1> USE DEF UpdateProfileWrite, Writes, Granted
  <1>0. Ends(r) /\ p \in Profiles /\ d \in Delta /\ profiles[p] \in Row
    BY Apart DEF IInv, TypeOK, RequestInv, Request
  <1>1. CASE UNCHANGED <<profiles, reach>>
    <2>1. TypeOK' /\ PowersComeFromRoot'
      BY <1>0, <1>1, EndTyped DEF IInv, TypeOK, PowersComeFromRoot
    <2>2. QED
      BY <1>0, <1>1, <2>1, EndKeeps, EndKeepsMet DEF IInv
  <1>2. CASE /\ profiles' = [profiles EXCEPT
                  ![p].scope = IF d.scope = "same" THEN @ ELSE d.scope,
                  ![p].grants = (@ \cup d.granted) \ d.revoked]
             /\ reach' = IF req[r].actor = Root THEN reach \cup d.granted ELSE reach
    <2>1. d.granted \subseteq Grants /\ d.granted \subseteq reach' /\ reach \subseteq reach'
      BY <1>0, <1>2 DEF IInv, RequestInv, Delta
    <2>2. row \in Row /\ row.grants \subseteq profiles[p].grants \cup d.granted
      BY <1>0 DEF Row, Delta, Scopes
    <2>3. profiles' = [profiles EXCEPT ![p] = row]
      BY <1>0, <1>2, Apart DEF IInv, TypeOK, Row
    <2> HIDE DEF row
    <2>4. profiles' \in [Rows -> Row] /\ profiles'[OwnerRole] = OwnerRow
      BY <1>0, <2>2, <2>3, Apart DEF IInv, TypeOK
    <2>5. TypeOK'
      BY <1>0, <1>2, <2>1, <2>4, EndTyped DEF IInv, TypeOK
    <2>6. PowersComeFromRoot'
      <3> SUFFICES ASSUME NEW x \in Profiles PROVE profiles'[x].grants \subseteq reach'
        BY DEF PowersComeFromRoot
      <3>1. profiles'[x] = IF x = p THEN row ELSE profiles[x]
        BY <2>3, Apart DEF IInv, TypeOK
      <3>2. profiles[x].grants \subseteq reach
        BY DEF IInv, PowersComeFromRoot
      <3>3. QED
        BY <2>1, <2>2, <3>1, <3>2
    <2>7. QED
      BY <1>0, <2>1, <2>5, <2>6, EndKeeps, EndKeepsMet DEF IInv
  <1>3. QED
    BY <1>1, <1>2

LEMMA DeleteProfileWriteKeeps == ASSUME IInv, NEW r \in Requests, DeleteProfileWrite(r) PROVE IInv'
  <1> DEFINE p == req[r].profile
  <1> USE DEF DeleteProfileWrite, Writes
  <1>0. Ends(r) /\ p \in Profiles /\ req[r].kind = "deleteProfile"
    BY DEF IInv, RequestInv
  <1>1. \A a \in Admins :
          admins'[a] = IF a \in Carriers(p) THEN [admins[a] EXCEPT !.profile = None] ELSE admins[a]
    OBVIOUS
  <1>2. TypeOK'
    <2>1. profiles' \in [Rows -> Row] /\ profiles'[OwnerRole] = OwnerRow
      BY <1>0, Typed, Apart DEF IInv, TypeOK
    <2>2. admins' \in [Admins -> [exists : BOOLEAN, active : BOOLEAN, profile : Rows \cup {None}]]
      BY DEF IInv, TypeOK
    <2>3. QED
      BY <1>0, <2>1, <2>2, EndTyped DEF IInv, TypeOK
  <1>3. \A a \in Admins : /\ admins'[a].exists = admins[a].exists
                          /\ admins'[a].profile = None \/ admins'[a] = admins[a]
    BY <1>1 DEF IInv, TypeOK
  <1>4. MetInv'
    <2> SUFFICES ASSUME NEW s \in Requests, NEW a \in Admins, req'[s].kind = "deleteProfile",
                        admins'[a].exists, admins'[a].profile = req'[s].profile
                 PROVE  a \in met
      BY DEF MetInv
    <2>1. req'[s] = req[s]
      BY <1>0, EndTyped, Typed DEF IInv
    <2>2. admins'[a].profile # None
      BY <2>1, Apart DEF IInv, RequestInv
    <2>3. QED
      BY <1>3, <2>1, <2>2 DEF IInv, MetInv
  <1>5. ProfileLostOnlyToRace'
    <2> SUFFICES ASSUME NEW a \in Admins, admins'[a].exists, admins'[a].profile = None PROVE a \in met
      BY DEF ProfileLostOnlyToRace
    <2>1. CASE a \in Carriers(p)
      BY <1>0, <2>1 DEF IInv, MetInv, Carriers
    <2>2. CASE a \notin Carriers(p)
      BY <1>1, <2>2 DEF IInv, ProfileLostOnlyToRace
    <2>3. QED
      BY <2>1, <2>2
  <1>6. PowersComeFromRoot'
    <2> SUFFICES ASSUME NEW x \in Profiles PROVE profiles'[x].grants \subseteq reach'
      BY DEF PowersComeFromRoot
    <2>1. profiles'[x] = Absent \/ profiles'[x] = profiles[x]
      BY Apart DEF IInv, TypeOK
    <2>2. QED
      BY <2>1 DEF Absent, IInv, PowersComeFromRoot
  <1>7. RequestInv'
    BY <1>0, EndKeeps
  <1>8. QED
    BY <1>2, <1>4, <1>5, <1>6, <1>7 DEF IInv

\* An administrator gets profile p from a request that ends.
LEMMA TakeKeeps ==
  ASSUME IInv, NEW r \in Requests, Ends(r), NEW a \in Admins, NEW p \in Rows, Takes(a, p),
         NEW on \in BOOLEAN,
         req[r].kind # "deleteProfile", UNCHANGED <<profiles, reach>>,
         admins' \in [Admins -> [exists : BOOLEAN, active : BOOLEAN, profile : Rows \cup {None}]],
         admins'[a].profile = p, \A b \in Admins \ {a} : admins'[b] = admins[b]
  PROVE  IInv'
  <1>1. met' \subseteq Admins /\ \A b \in Admins \ {a} : b \in met => b \in met'
    BY DEF Takes, IInv, TypeOK
  <1>2. TypeOK'
    BY <1>1, EndTyped DEF IInv, TypeOK
  <1>3. MetInv'
    <2> SUFFICES ASSUME NEW s \in Requests, NEW b \in Admins, req'[s].kind = "deleteProfile",
                        admins'[b].exists, admins'[b].profile = req'[s].profile
                 PROVE  b \in met'
      BY DEF MetInv
    <2>1. req'[s] = req[s]
      BY EndTyped, Typed DEF IInv
    <2>2. CASE b = a
      <3>1. pc[s] # "idle" /\ req[s].kind = "deleteProfile" /\ req[s].profile = p
        BY <2>1, <2>2 DEF IInv, RequestInv
      <3>2. Deleting(p)
        BY <3>1 DEF Deleting
      <3>3. QED
        BY <2>2, <3>2 DEF Takes
    <2>3. CASE b # a
      BY <1>1, <2>1, <2>3 DEF IInv, MetInv
    <2>4. QED
      BY <2>2, <2>3
  <1>4. ProfileLostOnlyToRace'
    BY <1>1, Apart DEF IInv, ProfileLostOnlyToRace
  <1>5. PowersComeFromRoot' /\ RequestInv'
    BY EndKeeps DEF IInv, PowersComeFromRoot
  <1>6. QED
    BY <1>2, <1>3, <1>4, <1>5 DEF IInv

LEMMA CreateAdministratorWriteKeeps ==
  ASSUME IInv, NEW r \in Requests, CreateAdministratorWrite(r) PROVE IInv'
  <1> DEFINE a == req[r].admin
             p == req[r].profile
  <1> USE DEF CreateAdministratorWrite, Writes
  <1>0. Ends(r) /\ a \in Admins /\ p \in Rows /\ req[r].kind # "deleteProfile"
    BY DEF IInv, RequestInv
  <1>1. CASE UNCHANGED <<admins, met>>
    <2>1. TypeOK' /\ PowersComeFromRoot'
      BY <1>0, <1>1, EndTyped DEF IInv, TypeOK, PowersComeFromRoot
    <2>2. QED
      BY <1>0, <1>1, <2>1, EndKeeps, EndKeepsMet DEF IInv
  <1>2. CASE /\ admins' = [admins EXCEPT ![a] = [exists |-> TRUE, active |-> TRUE, profile |-> p]]
             /\ Takes(a, p)
    <2>1. /\ admins' \in [Admins -> [exists : BOOLEAN, active : BOOLEAN, profile : Rows \cup {None}]]
          /\ admins'[a].profile = p /\ \A b \in Admins \ {a} : admins'[b] = admins[b]
      BY <1>0, <1>2 DEF IInv, TypeOK
    <2>2. QED
      BY <1>0, <1>2, <2>1, TakeKeeps
  <1>3. QED
    BY <1>1, <1>2

LEMMA UpdateAdministratorWriteKeeps ==
  ASSUME IInv, NEW r \in Requests, UpdateAdministratorWrite(r) PROVE IInv'
  <1> DEFINE a == req[r].admin
             p == req[r].profile
             on == req[r].on
  <1> USE DEF UpdateAdministratorWrite, Writes
  <1>0. /\ Ends(r) /\ a \in Admins /\ p \in Rows \cup {None} /\ on \in BOOLEAN
        /\ req[r].kind # "deleteProfile"
    BY DEF IInv, RequestInv, TypeOK, Request
  <1>1. CASE UNCHANGED <<admins, met>>
    <2>1. TypeOK' /\ PowersComeFromRoot'
      BY <1>0, <1>1, EndTyped DEF IInv, TypeOK, PowersComeFromRoot
    <2>2. QED
      BY <1>0, <1>1, <2>1, EndKeeps, EndKeepsMet DEF IInv
  <1>2. CASE p # None /\ admins' = [admins EXCEPT ![a].active = on, ![a].profile = p] /\ Takes(a, p)
    <2>1. p \in Rows
      BY <1>0, <1>2
    <2>2. admins[a] \in [exists : BOOLEAN, active : BOOLEAN, profile : Rows \cup {None}]
      BY <1>0 DEF IInv, TypeOK
    <2>3. /\ admins' \in [Admins -> [exists : BOOLEAN, active : BOOLEAN, profile : Rows \cup {None}]]
          /\ admins'[a].profile = p /\ \A b \in Admins \ {a} : admins'[b] = admins[b]
      BY <1>0, <1>2, <2>1, <2>2 DEF IInv, TypeOK
    <2>4. QED
      BY <1>0, <1>2, <2>1, <2>3, TakeKeeps
  <1>3. CASE p = None /\ admins' = [admins EXCEPT ![a].active = on] /\ UNCHANGED met
    <2>1. admins[a] \in [exists : BOOLEAN, active : BOOLEAN, profile : Rows \cup {None}]
      BY <1>0 DEF IInv, TypeOK
    <2>2. /\ admins' \in [Admins -> [exists : BOOLEAN, active : BOOLEAN, profile : Rows \cup {None}]]
          /\ \A b \in Admins : admins'[b].exists = admins[b].exists /\ admins'[b].profile = admins[b].profile
      BY <1>0, <1>3, <2>1 DEF IInv, TypeOK
    <2>3. TypeOK'
      BY <1>0, <1>3, <2>2, EndTyped DEF IInv, TypeOK
    <2>4. \A s \in Requests : req'[s].kind = "deleteProfile" => req'[s] = req[s]
      BY <1>0, EndTyped, Typed DEF IInv
    <2>5. MetInv' /\ ProfileLostOnlyToRace'
      BY <1>3, <2>2, <2>4 DEF IInv, MetInv, ProfileLostOnlyToRace
    <2>6. RequestInv' /\ PowersComeFromRoot'
      BY <1>0, EndKeeps DEF IInv, PowersComeFromRoot
    <2>7. QED
      BY <2>3, <2>5, <2>6 DEF IInv
  <1>4. QED
    BY <1>1, <1>2, <1>3

LEMMA NextKeeps == IInv /\ [Next]_vars => IInv'
  <1> SUFFICES ASSUME IInv, [Next]_vars PROVE IInv'
    OBVIOUS
  <1>1. ASSUME NEW r \in Requests,
               \/ CreateProfileStart(r) \/ UpdateProfileStart(r) \/ DeleteProfileStart(r)
               \/ CreateAdministratorStart(r) \/ UpdateAdministratorStart(r)
        PROVE  IInv'
    BY <1>1, CreateProfileStartKeeps, UpdateProfileStartKeeps, DeleteProfileStartKeeps,
       CreateAdministratorStartKeeps, UpdateAdministratorStartKeeps
  <1>2. ASSUME NEW r \in Requests,
               \/ Recheck(r)
               \/ CreateProfileWrite(r) \/ UpdateProfileWrite(r) \/ DeleteProfileWrite(r)
               \/ CreateAdministratorWrite(r) \/ UpdateAdministratorWrite(r)
        PROVE  IInv'
    BY <1>2, RecheckKeeps, CreateProfileWriteKeeps, UpdateProfileWriteKeeps, DeleteProfileWriteKeeps,
       CreateAdministratorWriteKeeps, UpdateAdministratorWriteKeeps
  <1>3. CASE UNCHANGED vars
    BY <1>3 DEF vars, IInv, TypeOK, RequestInv, MetInv, PowersComeFromRoot, ProfileLostOnlyToRace
  <1>4. QED
    BY <1>1, <1>2, <1>3 DEF Next

-----------------------------------------------------------------------------
\* The inductive invariant holds in every state.
THEOREM Invariance == Spec => []IInv
  BY InitIInv, NextKeeps, PTL DEF Spec

\* Every variable has its type, and nobody writes the system row.
THEOREM TypeCorrect == Spec => []TypeOK
  <1>1. IInv => TypeOK
    BY DEF IInv
  <1>2. QED
    BY Invariance, <1>1, PTL

\* validateProfileTarget amplifies no privilege, whatever chain of delegates and
\* whatever interleaving of gates, rechecks, writes and revocations.
THEOREM NoAmplification == Spec => []PowersComeFromRoot
  <1>1. IInv => PowersComeFromRoot
    BY DEF IInv
  <1>2. QED
    BY Invariance, <1>1, PTL

\* deleteProfile takes a profile away from nobody but those who got it after the
\* count.
THEOREM NobodyElseLosesProfile == Spec => []ProfileLostOnlyToRace
  <1>1. IInv => ProfileLostOnlyToRace
    BY DEF IInv
  <1>2. QED
    BY Invariance, <1>1, PTL
=============================================================================
