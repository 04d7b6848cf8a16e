---------------------------- MODULE AuthSessions ----------------------------
(***************************************************************************)
(* One account, the refresh tokens and reset links that belong to it, and  *)
(* the requests that sign in, rotate, sign out, change or reset the        *)
(* password, deactivate the account and pass the second factor.  A request *)
(* is a sequence of statements with other requests between any two: what   *)
(* it read can be stale when it writes.  Statements of one transaction     *)
(* become visible together, and a deleteMany takes the rows that were      *)
(* committed when it began, waiting for those another transaction holds.   *)
(*                                                                         *)
(* Time is three events: a lock, a token and a link run out.  A password   *)
(* is its version; a login presents a version that is or was right, or     *)
(* Wrong.  Mail, audit rows and last_login change nothing read here.       *)
(***************************************************************************)
EXTENDS Integers, FiniteSets, SequencesExt

CONSTANTS
  Requests,     \* the requests, and the tokens and links they create
  Device,       \* the token of a session that is open from the start
  Threshold,    \* SECURITY.login.lockoutThreshold: 5 in the code
  BackupCodes,  \* the account's backup codes, in the order they are stored
  Roles         \* the roles the account may have

Wrong  == -1
Tokens == Requests \cup {Device}

ASSUME SessionAssumption ==
  /\ IsFiniteSet(Requests) /\ Device \notin Requests
  /\ Threshold \in Nat \ {0}
  /\ BackupCodes \in Seq(STRING)
  /\ \A i, j \in DOMAIN BackupCodes : BackupCodes[i] = BackupCodes[j] => i = j
  /\ Roles \subseteq {"STAFF", "SUPER_ADMIN"}

\* A verification with a code of the app has "" for the backup code, which none is.
ASSUME CodesAssumption == "" \notin Range(BackupCodes)

VARIABLES
  account,   \* the user row and its showroom's is_active
  tokens,    \* tokens[t]: the refresh_tokens row that t created
  links,     \* links[r]: the password_reset_tokens row that r created
  pc,        \* pc[r]: the next statement of r, or its answer
  req,       \* req[r]: what r presents and what it has read
  failures,  \* how many logins failed on a wrong password
  born,      \* born[t]: the password version t goes back to
  raced,     \* requests that were under way while a revocation was deleting its rows
  met,       \* pairs of reset requests that were between their two statements together
  clash      \* two backup codes were being checked at the same time

rowVars     == <<account, tokens, links>>
historyVars == <<failures, born, raced, met, clash>>
vars        == <<account, tokens, links, pc, req, failures, born, raced, met, clash>>

NoRequest == [kind |-> "none", pw |-> Wrong, with |-> Device, code |-> "", index |-> 0,
              seen |-> account, doomed |-> {}]

Init ==
  /\ \E role \in Roles, totp \in BOOLEAN :
       /\ totp => role = "SUPER_ADMIN"
       /\ account = [role |-> role, pw |-> 0, attempts |-> 0, locked |-> "no", active |-> TRUE,
                     showroom |-> TRUE, totp |-> totp,
                     codes |-> IF totp THEN BackupCodes ELSE <<>>]
  /\ tokens = [t \in Tokens |-> IF t = Device THEN "live" ELSE "none"]
  /\ links  = [r \in Requests |-> "none"]
  /\ pc     = [r \in Requests |-> "idle"]
  /\ req    = [r \in Requests |-> NoRequest]
  /\ failures = 0 /\ raced = {} /\ met = {} /\ clash = FALSE
  /\ born = [t \in Tokens |-> 0]

Goto(r, label) == pc' = [pc EXCEPT ![r] = label]

\* r arrives, with what it presents, and its first read is of the account.
Begins(r, kind, pw, with, code, label) ==
  /\ pc[r] = "idle"
  /\ req' = [req EXCEPT ![r] = [NoRequest EXCEPT !.kind = kind, !.pw = pw, !.with = with,
                                                 !.code = code]]
  /\ Goto(r, label)

Stored(t) == tokens[t] \in {"live", "expired"}

\* A rotation that has deleted t and not committed holds its row; a reset holds
\* the user's row from its first statement to its commit.
Held(t)  == \E r \in Requests : pc[r] = "rotating" /\ req[r].with = t
InTx(r)  == req[r].kind \in {"reset", "adminReset"}
RowFree  == ~\E r \in Requests : InTx(r) /\ pc[r] \in {"revoke", "revoking"}

\* authenticate, and the gate of an inactive showroom behind it.
Authenticated == account.active /\ (account.role = "SUPER_ADMIN" \/ account.showroom)

\* A revocation is deleting rows, and does not see those that are stored meanwhile.
Revoking == \E s \in Requests : pc[s] = "revoking"

\* generateTokens and the row of its digest: a token never seen before.
Mints(r, pw) ==
  /\ tokens' = [tokens EXCEPT ![r] = "live"]
  /\ born' = [born EXCEPT ![r] = pw]

-----------------------------------------------------------------------------
(* Signing in.                                                              *)

\* The row is read once, with everything the login decides on.
LoginRead(r) ==
  \E p \in {Wrong} \cup 0..account.pw :
    /\ Begins(r, "login", p, Device, "",
              IF account.locked = "yes" \/ ~account.active THEN "refused" ELSE "compare")
    /\ UNCHANGED <<rowVars, historyVars>>

\* After bcrypt.compare: the counter of the row that was read, plus one, or cleared.
LoginCompareUpTo(r, limit, left) ==
  LET seen == req[r].seen
      next == seen.attempts + 1
  IN  /\ pc[r] = "compare"
      /\ IF req[r].pw # seen.pw
           THEN /\ RowFree
                /\ account' = IF next >= limit
                                THEN [account EXCEPT !.attempts = left, !.locked = "yes"]
                                ELSE [account EXCEPT !.attempts = next]
                /\ failures' = failures + 1
                /\ Goto(r, "refused")
           ELSE /\ IF seen.attempts # 0 \/ seen.locked # "no"
                     THEN RowFree /\ account' = [account EXCEPT !.attempts = 0, !.locked = "no"]
                     ELSE UNCHANGED account
                /\ Goto(r, CASE seen.role = "SUPER_ADMIN" -> "temp"
                             [] seen.showroom             -> "open"
                             [] OTHER                     -> "refused")
                /\ UNCHANGED failures
      /\ UNCHANGED <<tokens, links, req, born, raced, met, clash>>

\* Mutant: the account locks one failure early.
LoginComparesEarly(r) == LoginCompareUpTo(r, Threshold - 1, 0)

LoginCompare(r) == LoginCompareUpTo(r, Threshold, 0)

\* The session's refresh token is stored: the last statement of a login, and of
\* a verified second factor.
LoginOpen(r) ==
  /\ pc[r] = "open"
  /\ Mints(r, req[r].pw)
  /\ raced' = IF Revoking THEN raced \cup {r} ELSE raced
  /\ Goto(r, "ok")
  /\ UNCHANGED <<account, links, req, failures, met, clash>>

-----------------------------------------------------------------------------
(* Rotation and sign-out.                                                   *)

\* The token's row, then the user's.  A token that is out of time falls to the
\* signature check or to the row's expires_at, which deletes it; so does the
\* showroom's deactivation.
RefreshRead(r) ==
  \E t \in Tokens :
    /\ tokens[t] # "none"
    /\ \/ /\ tokens[t] # "live" \/ ~account.active
          /\ Begins(r, "refresh", Wrong, t, "", "refused")
          /\ UNCHANGED tokens
       \/ /\ tokens[t] = "expired" \/ (tokens[t] = "live" /\ account.active /\ ~Authenticated)
          /\ ~Held(t)
          /\ Begins(r, "refresh", Wrong, t, "", "refused")
          /\ tokens' = [tokens EXCEPT ![t] = "gone"]
       \/ /\ tokens[t] = "live" /\ Authenticated
          /\ Begins(r, "refresh", Wrong, t, "", "rotate")
          /\ UNCHANGED tokens
    /\ UNCHANGED <<account, links, historyVars>>

\* Mutant: the delete of the transaction tolerates a row that is gone (deleteMany).
RotateTolerant(r) ==
  /\ pc[r] = "rotate" /\ ~Held(req[r].with)
  /\ Goto(r, "rotating")
  /\ UNCHANGED <<rowVars, req, historyVars>>

\* First statement of the transaction: waits for the row, P2025 if it is gone.
RotateDelete(r) ==
  /\ pc[r] = "rotate" /\ ~Held(req[r].with)
  /\ Goto(r, IF Stored(req[r].with) THEN "rotating" ELSE "refused")
  /\ UNCHANGED <<rowVars, req, historyVars>>

\* Second statement and commit: the successor is stored, the token is gone.
RotateCommit(r) ==
  LET t == req[r].with
  IN  /\ pc[r] = "rotating"
      /\ tokens' = [tokens EXCEPT ![t] = "gone", ![r] = "live"]
      /\ born' = [born EXCEPT ![r] = born[t]]
      /\ raced' = IF t \in raced \/ Revoking THEN raced \cup {r} ELSE raced
      /\ Goto(r, "ok")
      /\ UNCHANGED <<account, links, req, failures, met, clash>>

\* deleteMany of the presented token, whatever became of it.
Logout(r) ==
  \E t \in Tokens :
    /\ Authenticated /\ ~Held(t) /\ tokens[t] # "none"
    /\ Begins(r, "logout", Wrong, t, "", "ok")
    /\ tokens' = [tokens EXCEPT ![t] = "gone"]
    /\ UNCHANGED <<account, links, historyVars>>

-----------------------------------------------------------------------------
(* New passwords, deactivation, and the revocation they end with.           *)

\* The user's row, with the password, and the comparison with the current one.
ChangeRead(r) ==
  \E p \in {Wrong} \cup 0..account.pw :
    /\ Authenticated
    /\ Begins(r, "change", p, Device, "", IF p = account.pw THEN "write" ELSE "refused")
    /\ UNCHANGED <<rowVars, historyVars>>

\* A link that is open and an account that is active, both read before the
\* transaction; nothing in it looks at them again.
ResetRead(r) ==
  \E l \in Requests :
    /\ links[l] # "none"
    /\ Begins(r, "reset", Wrong, l, "",
              IF links[l] = "open" /\ account.active THEN "write" ELSE "refused")
    /\ UNCHANGED <<rowVars, historyVars>>

\* resetUserPassword, by an administrator: anybody's but another SuperAdmin's; a
\* SuperAdmin's own (self) is let through.
AdminResetRead(r) ==
  \E self \in BOOLEAN :
    /\ self => account.role = "SUPER_ADMIN" /\ Authenticated
    /\ Begins(r, "adminReset", Wrong, Device, "",
              IF account.role = "SUPER_ADMIN" /\ ~self THEN "refused" ELSE "write")
    /\ UNCHANGED <<rowVars, historyVars>>

\* setUserActive reads the row: staff only, and only a change goes on.
ToggleRead(r) ==
  \E on \in BOOLEAN :
    /\ Begins(r, IF on THEN "activate" ELSE "deactivate", Wrong, Device, "",
              IF account.role = "STAFF" /\ account.active # on THEN "write" ELSE "refused")
    /\ UNCHANGED <<rowVars, historyVars>>

\* What the write of r makes of the row.
Written(r) ==
  CASE req[r].kind \in {"change", "reset"} ->
         [account EXCEPT !.pw = @ + 1, !.attempts = 0, !.locked = "no"]
    [] req[r].kind = "adminReset" -> [account EXCEPT !.pw = @ + 1]
    [] OTHER                      -> [account EXCEPT !.active = (req[r].kind = "activate")]

\* Mutant: the new password is written and no session revoked.
WriteOnly(r) ==
  /\ pc[r] = "write" /\ RowFree
  /\ account' = Written(r)
  /\ Goto(r, "ok")
  /\ UNCHANGED <<tokens, links, req, historyVars>>

\* The update of the user's row: visible at once, or with its transaction.
Write(r) ==
  /\ pc[r] = "write" /\ RowFree
  /\ account' = IF InTx(r) THEN account ELSE Written(r)
  /\ Goto(r, IF req[r].kind = "activate" THEN "ok" ELSE "revoke")
  /\ UNCHANGED <<tokens, links, req, historyVars>>

\* A token that r may still create, or a second factor that may still be passed.
UnderWay(r) == pc[r] \in {"compare", "open", "rotate", "rotating", "temp", "read", "consume"}

\* refreshToken.deleteMany begins: the rows committed by now.
RevokeScan(r) ==
  /\ pc[r] = "revoke"
  /\ req' = [req EXCEPT ![r].doomed = {t \in Tokens : Stored(t)}]
  /\ raced' = raced \cup {s \in Requests : UnderWay(s)}
  /\ Goto(r, "revoking")
  /\ UNCHANGED <<rowVars, failures, born, met, clash>>

\* It ends when no row it chose is held, and with it the transaction of a reset,
\* which also burns its link.
RevokeFinish(r) ==
  /\ pc[r] = "revoking"
  /\ \A t \in req[r].doomed : ~Held(t)
  /\ tokens' = [t \in Tokens |-> IF t \in req[r].doomed THEN "gone" ELSE tokens[t]]
  /\ account' = IF InTx(r) THEN Written(r) ELSE account
  /\ links' = IF req[r].kind = "reset" THEN [links EXCEPT ![req[r].with] = "used"] ELSE links
  /\ raced' = raced \cup {s \in Requests : UnderWay(s)}
  /\ Goto(r, "ok")
  /\ UNCHANGED <<req, failures, born, met, clash>>

-----------------------------------------------------------------------------
(* Reset links: two statements, no transaction.                             *)

\* Mutant: earlier links are left as they are.
ForgotKeeps(r) ==
  /\ account.active
  /\ Begins(r, "forgot", Wrong, Device, "", "create")
  /\ met' = met \cup {{r, s} : s \in {q \in Requests : pc[q] = "create"}}
  /\ UNCHANGED <<rowVars, failures, born, raced, clash>>

\* The links not used are marked used.  Nothing happens for an inactive account.
ForgotInvalidate(r) ==
  /\ account.active
  /\ Begins(r, "forgot", Wrong, Device, "", "create")
  /\ links' = [l \in Requests |-> IF links[l] \in {"open", "late"} THEN "used" ELSE links[l]]
  /\ met' = met \cup {{r, s} : s \in {q \in Requests : pc[q] = "create"}}
  /\ UNCHANGED <<account, tokens, failures, born, raced, clash>>

\* The new link, mailed or not.
ForgotCreate(r) ==
  /\ pc[r] = "create"
  /\ links' = [links EXCEPT ![r] = "open"]
  /\ Goto(r, "ok")
  /\ UNCHANGED <<account, tokens, req, historyVars>>

-----------------------------------------------------------------------------
(* The second factor of an administrator: a login ends with a temporary     *)
(* token, which set-up, confirmation and verification present.              *)

\* validate() passes on what the schema of the route names: the code, and not
\* the secret that the handler asks for next.
ValidatedBody(body) == [field \in DOMAIN body \cap {"code"} |-> body[field]]

\* enroll answers with a secret and stores nothing; confirmEnrollment stores it
\* when the body has it and the code is right for it.
ConfirmEnrollment(r) ==
  \E l \in Requests, right \in BOOLEAN :
    LET body == ValidatedBody([code |-> right, secret |-> TRUE])
    IN  /\ pc[l] = "temp" /\ ~req[l].seen.totp
        /\ Begins(r, "confirm", Wrong, l, IF right THEN "right" ELSE "wrong",
                  IF ~account.totp /\ "secret" \in DOMAIN body /\ body.code THEN "ok" ELSE "refused")
        /\ account' = IF ~account.totp /\ "secret" \in DOMAIN body /\ body.code
                        THEN [account EXCEPT !.totp = TRUE, !.codes = BackupCodes] ELSE account
        /\ UNCHANGED <<tokens, links, historyVars>>

CheckingCode(s) == req[s].code # "" /\ pc[s] \in {"read", "consume"}

\* The row with its backup codes; a code from the app is right or wrong, a backup
\* code is right at the index where the row that was read has it.
VerifyRead(r) ==
  \E l \in Requests :
    /\ pc[l] = "temp"
    /\ \/ \E right \in BOOLEAN :
            /\ Begins(r, "verify", req[l].pw, l, "",
                      IF account.totp /\ right THEN "open" ELSE "refused")
            /\ UNCHANGED clash
       \/ \E i \in DOMAIN BackupCodes :
            LET at == {j \in DOMAIN account.codes : account.codes[j] = BackupCodes[i]}
            IN  /\ pc[r] = "idle"
                /\ req' = [req EXCEPT ![r] =
                     [NoRequest EXCEPT !.kind = "verify", !.pw = req[l].pw, !.with = l,
                        !.code = BackupCodes[i], !.index = IF at = {} THEN 0 ELSE CHOOSE j \in at : TRUE]]
                /\ Goto(r, IF account.totp /\ at # {} THEN "read" ELSE "refused")
                /\ clash' = (clash \/ \E s \in Requests : CheckingCode(s))
    /\ raced' = IF l \in raced THEN raced \cup {r} ELSE raced
    /\ UNCHANGED <<rowVars, failures, born, met>>

\* consumeBackupCode reads the list again.
ConsumeRead(r) ==
  /\ pc[r] = "read"
  /\ req' = [req EXCEPT ![r].seen = account]
  /\ Goto(r, "consume")
  /\ UNCHANGED <<rowVars, historyVars>>

\* Mutant: the code is found and not consumed.
ConsumeNothing(r) ==
  /\ pc[r] = "consume" /\ RowFree
  /\ Goto(r, "open")
  /\ UNCHANGED <<rowVars, req, historyVars>>

\* It writes the list it read without the index that was found before.
ConsumeWrite(r) ==
  LET list == req[r].seen.codes
  IN  /\ pc[r] = "consume" /\ RowFree
      /\ account' = [account EXCEPT !.codes =
                       IF req[r].index \in DOMAIN list THEN RemoveAt(list, req[r].index) ELSE list]
      /\ Goto(r, "open")
      /\ UNCHANGED <<tokens, links, req, historyVars>>

-----------------------------------------------------------------------------
(* What time, and the administrator of showrooms, do meanwhile.             *)

LockLapses ==
  /\ account.locked = "yes"
  /\ account' = [account EXCEPT !.locked = "lapsed"]
  /\ UNCHANGED <<tokens, links, pc, req, historyVars>>

TokenExpires ==
  /\ \E t \in Tokens : tokens[t] = "live" /\ tokens' = [tokens EXCEPT ![t] = "expired"]
  /\ UNCHANGED <<account, links, pc, req, historyVars>>

LinkExpires ==
  /\ \E l \in Requests : links[l] = "open" /\ links' = [links EXCEPT ![l] = "late"]
  /\ UNCHANGED <<account, tokens, pc, req, historyVars>>

ShowroomDeactivated ==
  /\ account.showroom
  /\ account' = [account EXCEPT !.showroom = FALSE]
  /\ UNCHANGED <<tokens, links, pc, req, historyVars>>

Finished == {"ok", "refused", "temp"}

AllAnswered == (\A r \in Requests : pc[r] \in Finished) /\ UNCHANGED vars

Next ==
  \/ \E r \in Requests :
       \/ LoginRead(r) \/ LoginCompare(r) \/ LoginOpen(r)
       \/ RefreshRead(r) \/ RotateDelete(r) \/ RotateCommit(r) \/ Logout(r)
       \/ ChangeRead(r) \/ ResetRead(r) \/ AdminResetRead(r) \/ ToggleRead(r)
       \/ Write(r) \/ RevokeScan(r) \/ RevokeFinish(r)
       \/ ForgotInvalidate(r) \/ ForgotCreate(r)
       \/ ConfirmEnrollment(r) \/ VerifyRead(r) \/ ConsumeRead(r) \/ ConsumeWrite(r)
  \/ LockLapses \/ TokenExpires \/ LinkExpires \/ ShowroomDeactivated
  \/ AllAnswered

Spec == Init /\ [][Next]_vars

-----------------------------------------------------------------------------
(* Properties.                                                              *)

Steps == {"idle", "compare", "open", "rotate", "rotating", "write", "revoke", "revoking",
          "create", "read", "consume"} \cup Finished

Kinds == {"none", "login", "refresh", "logout", "change", "reset", "adminReset", "activate",
          "deactivate", "forgot", "confirm", "verify"}

Account == [role : Roles, pw : Nat, attempts : 0..(Threshold - 1), locked : {"no", "yes", "lapsed"},
            active : BOOLEAN, showroom : BOOLEAN, totp : BOOLEAN, codes : Seq(Range(BackupCodes))]

Request == [kind : Kinds, pw : Nat \cup {Wrong}, with : Tokens,
            code : Range(BackupCodes) \cup {"", "right", "wrong"}, index : Nat, seen : Account,
            doomed : SUBSET Tokens]

\* The rows and the requests stay within what the schema and the handlers allow;
\* the counter never reaches the threshold, it locks instead.
TypeOK ==
  /\ account \in Account
  /\ tokens \in [Tokens -> {"none", "live", "expired", "gone"}]
  /\ links \in [Requests -> {"none", "open", "late", "used"}]
  /\ pc \in [Requests -> Steps]
  /\ req \in [Requests -> Request]
  /\ failures \in Nat
  /\ born \in [Tokens -> Nat \cup {Wrong}]
  /\ raced \subseteq Requests
  /\ met \subseteq SUBSET Requests
  /\ clash \in BOOLEAN

\* A refresh token is traded for one successor, however many requests present it
\* at once ("one-time use" of refreshToken).
TokenSpentOnce ==
  \A r, s \in Requests :
    req[r].kind = "refresh" /\ req[s].kind = "refresh" /\ pc[r] = "ok" /\ pc[s] = "ok"
      /\ req[r].with = req[s].with => r = s

\* A session that goes back to an earlier password outlives the revocation of the
\* change or reset only if the login, the rotation or the second factor it comes
\* from was under way while the revocation was deleting its rows.
SurvivorsWereUnderWay ==
  \A t \in Tokens :
    Stored(t) /\ born[t] < account.pw =>
      \/ t \in raced
      \/ \E r \in Requests : req[r].kind = "change" /\ pc[r] \in {"revoke", "revoking"}

\* However the reads and the writes of the counter interleave, an account is
\* locked only after as many wrong passwords as the threshold says: stale reads
\* can lose failures and never invent one.
LockNeedsFailures == account.locked # "no" => failures >= Threshold

\* Two reset links work at the same time only if their requests were both between
\* marking the earlier links used and storing their own.
OpenLinksMet ==
  \A l, m \in Requests : links[l] = "open" /\ links[m] = "open" => l = m \/ {l, m} \in met

\* A backup code that has passed the second factor is not in the list any more,
\* unless two codes were ever being checked at the same time.
UsedCodesAreGone ==
  clash \/ \A r \in Requests :
             req[r].kind = "verify" /\ pc[r] \in {"open", "ok"} => req[r].code \notin Range(account.codes)

\* "Verify first TOTP code and activate MFA", confirmEnrollment's own comment
\* says: the right code, with the secret it was made from, switches the factor on.
RightCodeConfirms ==
  \A r \in Requests : req[r].kind = "confirm" /\ req[r].code = "right" => pc[r] = "ok" \/ account.totp

-----------------------------------------------------------------------------
(* The inductive invariants: IInv for TokenSpentOnce and LockNeedsFailures. *)

\* A token is there once its request is answered, a rotation has its token for
\* itself until it commits, and a spent token stays gone.
TokenInv ==
  \A r \in Requests :
    /\ pc[r] # "ok" => tokens[r] = "none"
    /\ pc[r] = "rotating" => Stored(req[r].with)
    /\ pc[r] = "rotating" => \A s \in Requests : pc[s] = "rotating" /\ req[s].with = req[r].with => s = r
    /\ req[r].kind = "refresh" => pc[r] \in {"rotate", "rotating", "ok", "refused"}
    /\ req[r].kind = "refresh" /\ pc[r] = "ok" => tokens[req[r].with] = "gone"
    /\ \A t \in req[r].doomed : tokens[t] # "none"

\* No count, stored or read, is ahead of the failures.
CountInv ==
  /\ account.attempts <= failures
  /\ \A r \in Requests : pc[r] = "compare" => req[r].seen.attempts <= failures

IInv == TypeOK /\ TokenInv /\ CountInv /\ TokenSpentOnce /\ LockNeedsFailures

\* Who is on the way to a session, and went by a password that is not the last.
Changing == \E r \in Requests : req[r].kind = "change" /\ pc[r] \in {"revoke", "revoking"}

Behind(r) ==
  \/ pc[r] = "compare" /\ req[r].seen.pw < account.pw
  \/ pc[r] \in {"open", "temp", "read", "consume"} /\ req[r].pw < account.pw

\* For SurvivorsWereUnderWay: a revocation on its way misses no token that a
\* request did not store meanwhile.
SurvivorInv ==
  /\ \A r \in Requests : Behind(r) => r \in raced \/ Changing
  /\ \A r \in Requests : pc[r] = "revoking" =>
       \A t \in Tokens : Stored(t) => t \in req[r].doomed \/ t \in raced
  /\ SurvivorsWereUnderWay

\* For OpenLinksMet: who is between the two statements has met everyone else
\* there, and whoever has come out since.
LinkInv ==
  /\ \A l, m \in Requests : pc[l] = "create" /\ pc[m] = "create" => l = m \/ {l, m} \in met
  /\ \A l, m \in Requests : pc[l] = "create" /\ links[m] = "open" => l = m \/ {l, m} \in met
  /\ OpenLinksMet

\* For UsedCodesAreGone: until two codes are checked at once, the one that is has
\* its index in the list to itself, and the list that is written back is the row's.
CodeInv ==
  /\ \A r \in Requests : req[r].kind = "verify" => pc[r] \in {"read", "consume", "open", "ok", "refused"}
  /\ clash \/ \A i, j \in DOMAIN account.codes : account.codes[i] = account.codes[j] => i = j
  /\ clash \/ \A r \in Requests : pc[r] \in {"read", "consume"} =>
                /\ \A s \in Requests : pc[s] \in {"read", "consume"} => s = r
                /\ req[r].index \in DOMAIN account.codes
                /\ account.codes[req[r].index] = req[r].code
                /\ pc[r] = "consume" => req[r].seen.codes = account.codes
  /\ UsedCodesAreGone
=============================================================================
