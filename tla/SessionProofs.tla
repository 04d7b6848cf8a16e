----------------------------- MODULE SessionProofs -----------------------------
(***************************************************************************)
(* Theorems about AuthSessions for any number of requests, any threshold   *)
(* and any backup codes.  The arguments: a rotation has its token's row to *)
(* itself from the delete to the commit, and who finds the row gone is     *)
(* refused; and a count that was read is behind the failures there have    *)
(* been, so that the one more it is written back as never overtakes them.  *)
(* On top of that inductive invariant, three more, each of them on who is  *)
(* on the way: for the sessions that outlive a revocation, for the reset   *)
(* links that work together, and for the backup codes that are spent.      *)
(***************************************************************************)
EXTENDS AuthSessions, SequenceTheorems, TLAPS

CodesUsed == Range(BackupCodes) \cup {"", "right", "wrong"}

LEMMA BackupCodesTyped == BackupCodes \in Seq(Range(BackupCodes)) /\ Range(BackupCodes) \subseteq STRING
  <1>1. BackupCodes \in [1..Len(BackupCodes) -> STRING] /\ Len(BackupCodes) \in Nat
    BY SessionAssumption
  <1>2. DOMAIN BackupCodes = 1..Len(BackupCodes)
    BY <1>1
  <1>3. BackupCodes \in [1..Len(BackupCodes) -> Range(BackupCodes)]
    BY <1>1, <1>2 DEF Range
  <1>4. Range(BackupCodes) \subseteq STRING
    BY <1>1, <1>2 DEF Range
  <1>5. QED
    BY <1>1, <1>3, <1>4

LEMMA NoRequestTyped ==
  ASSUME TypeOK
  PROVE  /\ NoRequest \in Request /\ NoRequest.kind = "none" /\ NoRequest.with = Device
         /\ NoRequest.seen = account /\ NoRequest.doomed = {}
  <1>1. account \in Account /\ Device \in Tokens /\ Wrong \in Nat \cup {Wrong} /\ 0 \in Nat
    BY DEF TypeOK, Tokens
  <1>2. QED
    BY <1>1 DEF NoRequest, Request, Kinds

LEMMA Begun ==
  ASSUME TypeOK, NEW r \in Requests, NEW kind \in Kinds, NEW pw \in Nat \cup {Wrong},
         NEW with \in Tokens, NEW code \in CodesUsed, NEW label \in Steps,
         Begins(r, kind, pw, with, code, label)
  PROVE  /\ req' \in [Requests -> Request] /\ pc' \in [Requests -> Steps]
         /\ pc[r] = "idle" /\ pc'[r] = label
         /\ req'[r].kind = kind /\ req'[r].with = with /\ req'[r].seen = account
         /\ req'[r].doomed = {}
         /\ \A s \in Requests \ {r} : pc'[s] = pc[s] /\ req'[s] = req[s]
  <1> DEFINE q == [NoRequest EXCEPT !.kind = kind, !.pw = pw, !.with = with, !.code = code]
  <1>1. q \in Request /\ q.kind = kind /\ q.with = with /\ q.seen = account /\ q.doomed = {}
    BY NoRequestTyped DEF Request, CodesUsed
  <1>2. pc[r] = "idle" /\ req' = [req EXCEPT ![r] = q] /\ pc' = [pc EXCEPT ![r] = label]
    BY DEF Begins, Goto
  <1> HIDE DEF q
  <1>3. QED
    BY <1>1, <1>2 DEF TypeOK

LEMMA Moved ==
  ASSUME TypeOK, NEW r \in Requests, NEW label \in Steps, Goto(r, label), UNCHANGED req
  PROVE  /\ req' \in [Requests -> Request] /\ pc' \in [Requests -> Steps] /\ pc'[r] = label
         /\ \A s \in Requests \ {r} : pc'[s] = pc[s] /\ req'[s] = req[s]
  BY DEF TypeOK, Goto

LEMMA AccountTyped ==
  ASSUME TypeOK
  PROVE  /\ account.attempts \in Nat /\ account.attempts < Threshold /\ Threshold \in Nat
         /\ account.pw \in Nat /\ failures \in Nat
         /\ \A r \in Requests : req[r].seen \in Account /\ req[r].seen.attempts \in Nat
  <1>1. Threshold \in Nat /\ \A n \in 0..(Threshold - 1) : n \in Nat /\ n < Threshold
    BY SessionAssumption
  <1>2. account.attempts \in 0..(Threshold - 1) /\ account.pw \in Nat /\ failures \in Nat
    BY DEF TypeOK, Account
  <1>3. \A r \in Requests : req[r].seen \in Account
    BY DEF TypeOK, Request
  <1>4. \A r \in Requests : req[r].seen.attempts \in 0..(Threshold - 1)
    BY <1>3 DEF Account
  <1>5. QED
    BY <1>1, <1>2, <1>3, <1>4

-----------------------------------------------------------------------------
LEMMA InitIInv == Init => IInv
  <1> SUFFICES ASSUME Init PROVE IInv
    OBVIOUS
  <1>1. account \in Account /\ account.attempts = 0 /\ account.locked = "no"
    <2>1. PICK role \in Roles, totp \in BOOLEAN :
            account = [role |-> role, pw |-> 0, attempts |-> 0, locked |-> "no", active |-> TRUE,
                       showroom |-> TRUE, totp |-> totp, codes |-> IF totp THEN BackupCodes ELSE <<>>]
      BY DEF Init
    <2>2. (IF totp THEN BackupCodes ELSE <<>>) \in Seq(Range(BackupCodes))
      BY BackupCodesTyped
    <2>3. 0 \in 0..(Threshold - 1)
      BY SessionAssumption
    <2>4. QED
      BY <2>1, <2>2, <2>3 DEF Account
  <1>2. NoRequest \in Request /\ NoRequest.kind = "none" /\ NoRequest.doomed = {}
    BY <1>1 DEF NoRequest, Request, Kinds, Tokens
  <1>3. TypeOK
    BY <1>1, <1>2 DEF Init, TypeOK, Steps, Finished
  <1>4. TokenInv /\ TokenSpentOnce
    BY <1>2, SessionAssumption DEF Init, TokenInv, TokenSpentOnce, Tokens
  <1>5. CountInv /\ LockNeedsFailures
    BY <1>1 DEF Init, CountInv, LockNeedsFailures
  <1>6. QED
    BY <1>3, <1>4, <1>5 DEF IInv

-----------------------------------------------------------------------------
(* Most steps are of one request, spend no token of a rotation and count    *)
(* nothing.                                                                 *)

LEMMA TokensKept ==
  ASSUME IInv, TypeOK', NEW r \in Requests,
         \A s \in Requests \ {r} : pc'[s] = pc[s] /\ req'[s] = req[s],
         pc[r] # "ok", pc'[r] # "rotating",
         req'[r].kind = "refresh" => pc'[r] \in {"rotate", "refused"},
         \A t \in req'[r].doomed : tokens[t] # "none",
         \A t \in Tokens : \/ tokens'[t] = tokens[t]
                           \/ tokens'[t] = "gone" /\ tokens[t] # "none" /\ ~Held(t)
  PROVE  TokenInv' /\ TokenSpentOnce'
  <1>0. \A s \in Requests : s \in Tokens /\ req[s].with \in Tokens /\ req[s].doomed \subseteq Tokens
    BY DEF IInv, TypeOK, Request, Tokens
  <1>1. TokenInv'
    <2> SUFFICES ASSUME NEW s \in Requests
                 PROVE  /\ pc'[s] # "ok" => tokens'[s] = "none"
                        /\ pc'[s] = "rotating" => Stored(req[s].with)'
                        /\ pc'[s] = "rotating" =>
                             \A z \in Requests : pc'[z] = "rotating" /\ req'[z].with = req'[s].with => z = s
                        /\ req'[s].kind = "refresh" => pc'[s] \in {"rotate", "rotating", "ok", "refused"}
                        /\ req'[s].kind = "refresh" /\ pc'[s] = "ok" => tokens'[req'[s].with] = "gone"
                        /\ \A t \in req'[s].doomed : tokens'[t] # "none"
      BY DEF TokenInv, Stored
    <2>1. pc'[s] # "ok" => tokens'[s] = "none"
      BY <1>0 DEF IInv, TokenInv
    <2>2. CASE s = r
      <3>1. req'[r].doomed \subseteq Tokens
        BY DEF TypeOK, Request
      <3>2. QED
        BY <2>1, <2>2, <3>1
    <2>3. CASE s # r
      <3>1. pc'[s] = pc[s] /\ req'[s] = req[s]
        BY <2>3
      <3>2. pc'[s] = "rotating" => Stored(req[s].with)'
        BY <1>0, <3>1 DEF IInv, TokenInv, Stored, Held
      <3>3. pc'[s] = "rotating" =>
              \A z \in Requests : pc'[z] = "rotating" /\ req'[z].with = req'[s].with => z = s
        BY <3>1 DEF IInv, TokenInv
      <3>4. \A t \in req'[s].doomed : tokens'[t] # "none"
        BY <1>0, <3>1 DEF IInv, TokenInv
      <3>5. req'[s].kind = "refresh" /\ pc'[s] = "ok" => tokens'[req'[s].with] = "gone"
        BY <1>0, <3>1 DEF IInv, TokenInv
      <3>6. req'[s].kind = "refresh" => pc'[s] \in {"rotate", "rotating", "ok", "refused"}
        BY <3>1 DEF IInv, TokenInv
      <3>7. QED
        BY <2>1, <3>2, <3>3, <3>4, <3>5, <3>6
    <2>4. QED
      BY <2>2, <2>3
  <1>2. TokenSpentOnce'
    BY DEF IInv, TokenSpentOnce
  <1>3. QED
    BY <1>1, <1>2

LEMMA CountsKept ==
  ASSUME IInv, TypeOK', NEW r \in Requests,
         \A s \in Requests \ {r} : pc'[s] = pc[s] /\ req'[s] = req[s],
         pc'[r] = "compare" => req'[r].seen = account,
         account'.attempts \in {0, account.attempts},
         account'.locked # "no" => account.locked # "no", UNCHANGED failures
  PROVE  CountInv' /\ LockNeedsFailures'
  <1>1. account'.attempts <= failures'
    BY AccountTyped DEF IInv, CountInv
  <1>2. ASSUME NEW s \in Requests, pc'[s] = "compare" PROVE req'[s].seen.attempts <= failures'
    BY <1>2 DEF IInv, CountInv
  <1>3. QED
    BY <1>1, <1>2 DEF IInv, CountInv, LockNeedsFailures

-----------------------------------------------------------------------------
(* Signing in.                                                              *)

LEMMA LoginReadKeeps == ASSUME IInv, NEW r \in Requests, LoginRead(r) PROVE IInv'
  <1>1. PICK p \in {Wrong} \cup 0..account.pw, label \in {"refused", "compare"} :
          /\ Begins(r, "login", p, Device, "", label)
          /\ UNCHANGED <<rowVars, historyVars>>
    BY DEF LoginRead
  <1>2. /\ p \in Nat \cup {Wrong} /\ Device \in Tokens /\ "" \in CodesUsed
        /\ label \in Steps /\ "login" \in Kinds
    BY AccountTyped DEF IInv, Tokens, CodesUsed, Steps, Finished, Kinds
  <1>3. /\ req' \in [Requests -> Request] /\ pc' \in [Requests -> Steps]
        /\ pc[r] = "idle" /\ pc'[r] = label /\ req'[r].kind = "login"
        /\ req'[r].seen = account /\ req'[r].doomed = {}
        /\ \A s \in Requests \ {r} : pc'[s] = pc[s] /\ req'[s] = req[s]
    BY <1>1, <1>2, Begun DEF IInv
  <1>4. TypeOK'
    BY <1>1, <1>3 DEF IInv, TypeOK, rowVars, historyVars
  <1>5. TokenInv' /\ TokenSpentOnce'
    BY <1>1, <1>3, <1>4, TokensKept DEF rowVars
  <1>6. CountInv' /\ LockNeedsFailures'
    BY <1>1, <1>3, <1>4, CountsKept DEF rowVars, historyVars
  <1>7. QED
    BY <1>4, <1>5, <1>6 DEF IInv

LEMMA LoginCompareKeeps == ASSUME IInv, NEW r \in Requests, LoginCompare(r) PROVE IInv'
  <1> DEFINE seen == req[r].seen
             next == seen.attempts + 1
  <1>0. pc[r] = "compare" /\ UNCHANGED <<tokens, links, req, born, raced, met, clash>>
    BY DEF LoginCompare, LoginCompareUpTo
  <1>1. PICK label \in {"refused", "temp", "open"} : Goto(r, label)
    BY DEF LoginCompare, LoginCompareUpTo
  <1>2. /\ req' \in [Requests -> Request] /\ pc' \in [Requests -> Steps] /\ pc'[r] = label
        /\ \A s \in Requests \ {r} : pc'[s] = pc[s] /\ req'[s] = req[s]
    BY <1>0, <1>1, Moved DEF IInv, Steps, Finished
  <1>3. /\ seen.attempts \in Nat /\ account \in Account /\ Threshold \in Nat /\ Threshold > 0
        /\ seen.attempts <= failures /\ failures \in Nat
    BY <1>0, AccountTyped, SessionAssumption DEF IInv, TypeOK, CountInv
  <1>4. CASE /\ account' = IF next >= Threshold
                             THEN [account EXCEPT !.attempts = 0, !.locked = "yes"]
                             ELSE [account EXCEPT !.attempts = next]
             /\ failures' = failures + 1
    <2>1. /\ account' \in Account /\ account'.attempts <= failures'
          /\ account'.locked # "no" => account.locked # "no" \/ failures' >= Threshold
      <3>1. CASE next >= Threshold
        <4>1. account' = [account EXCEPT !.attempts = 0, !.locked = "yes"]
          BY <1>4, <3>1
        <4>2. 0 \in 0..(Threshold - 1)
          BY <1>3
        <4>3. account' \in Account /\ account'.attempts = 0
          BY <1>3, <4>1, <4>2 DEF Account
        <4>4. QED
          BY <1>3, <1>4, <3>1, <4>3
      <3>2. CASE ~(next >= Threshold)
        <4>1. account' = [account EXCEPT !.attempts = next]
          BY <1>4, <3>2
        <4>2. next \in 0..(Threshold - 1)
          BY <1>3, <3>2
        <4>3. account' \in Account /\ account'.attempts = next /\ account'.locked = account.locked
          BY <1>3, <4>1, <4>2 DEF Account
        <4>4. QED
          BY <1>3, <1>4, <4>3
      <3>3. QED
        BY <3>1, <3>2
    <2>2. TypeOK'
      BY <1>0, <1>2, <1>3, <1>4, <2>1 DEF IInv, TypeOK
    <2>3. TokenInv' /\ TokenSpentOnce'
      <3>1. req'[r].kind # "refresh" /\ \A t \in req'[r].doomed : tokens[t] # "none"
        BY <1>0 DEF IInv, TokenInv
      <3>2. QED
        BY <1>0, <1>2, <2>2, <3>1, TokensKept
    <2>4. CountInv'
      <3>1. ASSUME NEW s \in Requests, pc'[s] = "compare" PROVE req'[s].seen.attempts <= failures'
        <4>1. pc[s] = "compare" /\ req'[s] = req[s]
          BY <1>0, <1>2, <3>1
        <4>2. req[s].seen.attempts <= failures /\ req[s].seen.attempts \in Nat
          BY <4>1, AccountTyped DEF IInv, CountInv
        <4>3. QED
          BY <1>3, <1>4, <4>1, <4>2
      <3>2. QED
        BY <2>1, <3>1 DEF CountInv
    <2>5. LockNeedsFailures'
      BY <1>3, <1>4, <2>1, AccountTyped DEF IInv, LockNeedsFailures
    <2>6. QED
      BY <2>2, <2>3, <2>4, <2>5 DEF IInv
  <1>5. CASE /\ account' = account \/ account' = [account EXCEPT !.attempts = 0, !.locked = "no"]
             /\ UNCHANGED failures
    <2>1. /\ account' \in Account /\ account'.attempts \in {0, account.attempts}
          /\ account'.locked # "no" => account.locked # "no"
      <3>1. 0 \in 0..(Threshold - 1)
        BY <1>3
      <3>2. CASE account' = account
        BY <1>3, <3>2
      <3>3. CASE account' = [account EXCEPT !.attempts = 0, !.locked = "no"]
        <4>1. account' \in Account /\ account'.attempts = 0 /\ account'.locked = "no"
          BY <1>3, <3>1, <3>3 DEF Account
        <4>2. QED
          BY <4>1
      <3>4. QED
        BY <1>5, <3>2, <3>3
    <2>2. TypeOK'
      BY <1>0, <1>2, <1>5, <2>1 DEF IInv, TypeOK
    <2>3. TokenInv' /\ TokenSpentOnce'
      <3>1. req'[r].kind # "refresh" /\ \A t \in req'[r].doomed : tokens[t] # "none"
        BY <1>0 DEF IInv, TokenInv
      <3>2. QED
        BY <1>0, <1>2, <2>2, <3>1, TokensKept
    <2>4. CountInv' /\ LockNeedsFailures'
      BY <1>2, <1>5, <2>1, <2>2, CountsKept
    <2>5. QED
      BY <2>2, <2>3, <2>4 DEF IInv
  <1>6. QED
    BY <1>4, <1>5 DEF LoginCompare, LoginCompareUpTo

\* A token that was not there comes into being.
LEMMA MintKeeps ==
  ASSUME IInv, TypeOK', NEW r \in Requests, pc[r] # "ok", pc[r] # "rotating", Goto(r, "ok"),
         req[r].kind # "refresh", UNCHANGED <<req, account, failures>>,
         tokens' = [tokens EXCEPT ![r] = "live"]
  PROVE  TokenInv' /\ TokenSpentOnce' /\ CountInv' /\ LockNeedsFailures'
  <1>0. \A s \in Requests : s \in Tokens /\ req[s].with \in Tokens /\ req[s].doomed \subseteq Tokens
    BY DEF IInv, TypeOK, Request, Tokens
  <1>1. /\ pc'[r] = "ok" /\ \A s \in Requests \ {r} : pc'[s] = pc[s]
        /\ tokens[r] = "none" /\ tokens'[r] = "live"
        /\ \A t \in Tokens \ {r} : tokens'[t] = tokens[t]
    BY <1>0 DEF Goto, IInv, TypeOK, TokenInv
  <1>2. TokenInv'
    <2> SUFFICES ASSUME NEW s \in Requests
                 PROVE  /\ pc'[s] # "ok" => tokens'[s] = "none"
                        /\ pc'[s] = "rotating" => Stored(req[s].with)'
                        /\ pc'[s] = "rotating" =>
                             \A z \in Requests : pc'[z] = "rotating" /\ req[z].with = req[s].with => z = s
                        /\ req[s].kind = "refresh" => pc'[s] \in {"rotate", "rotating", "ok", "refused"}
                        /\ req[s].kind = "refresh" /\ pc'[s] = "ok" => tokens'[req[s].with] = "gone"
                        /\ \A t \in req[s].doomed : tokens'[t] # "none"
      BY DEF TokenInv, Stored
    <2>1. pc'[s] # "ok" => tokens'[s] = "none"
      BY <1>0, <1>1 DEF IInv, TokenInv
    <2>2. pc'[s] = "rotating" => Stored(req[s].with)'
      BY <1>0, <1>1 DEF IInv, TokenInv, Stored
    <2>3. pc'[s] = "rotating" =>
            \A z \in Requests : pc'[z] = "rotating" /\ req[z].with = req[s].with => z = s
      BY <1>1 DEF IInv, TokenInv
    <2>4. req[s].kind = "refresh" => pc'[s] \in {"rotate", "rotating", "ok", "refused"}
      BY <1>1 DEF IInv, TokenInv
    <2>5. req[s].kind = "refresh" /\ pc'[s] = "ok" => tokens'[req[s].with] = "gone"
      BY <1>0, <1>1 DEF IInv, TokenInv
    <2>6. \A t \in req[s].doomed : tokens'[t] # "none"
      BY <1>0, <1>1 DEF IInv, TokenInv
    <2>7. QED
      BY <2>1, <2>2, <2>3, <2>4, <2>5, <2>6
  <1>3. TokenSpentOnce'
    BY <1>1 DEF IInv, TokenSpentOnce
  <1>4. CountInv' /\ LockNeedsFailures'
    BY <1>1 DEF IInv, CountInv, LockNeedsFailures
  <1>5. QED
    BY <1>2, <1>3, <1>4

LEMMA LoginOpenKeeps == ASSUME IInv, NEW r \in Requests, LoginOpen(r) PROVE IInv'
  <1> USE DEF LoginOpen, Mints
  <1>1. /\ pc[r] = "open" /\ Goto(r, "ok") /\ req[r].kind # "refresh"
        /\ UNCHANGED <<account, links, req, failures, met, clash>>
    BY DEF IInv, TokenInv
  <1>2. req' \in [Requests -> Request] /\ pc' \in [Requests -> Steps]
    BY <1>1, Moved DEF IInv, Steps, Finished
  <1>3. tokens' \in [Tokens -> {"none", "live", "expired", "gone"}] /\ born' \in [Tokens -> Nat \cup {Wrong}]
    BY DEF IInv, TypeOK, Request
  <1>4. raced' \subseteq Requests
    BY DEF IInv, TypeOK
  <1>5. TypeOK'
    BY <1>1, <1>2, <1>3, <1>4 DEF IInv, TypeOK
  <1>6. QED
    BY <1>1, <1>5, MintKeeps DEF IInv

-----------------------------------------------------------------------------
(* Rotation and sign-out.                                                   *)

LEMMA RefreshReadKeeps == ASSUME IInv, NEW r \in Requests, RefreshRead(r) PROVE IInv'
  <1>1. PICK t \in Tokens, label \in {"refused", "rotate"} :
          /\ Begins(r, "refresh", Wrong, t, "", label)
          /\ tokens[t] # "none"
          /\ UNCHANGED tokens \/ (tokens' = [tokens EXCEPT ![t] = "gone"] /\ ~Held(t))
          /\ UNCHANGED <<account, links, historyVars>>
    BY DEF RefreshRead
  <1>2. "" \in CodesUsed /\ label \in Steps /\ "refresh" \in Kinds /\ Wrong \in Nat \cup {Wrong}
    BY DEF CodesUsed, Steps, Finished, Kinds
  <1>3. /\ req' \in [Requests -> Request] /\ pc' \in [Requests -> Steps]
        /\ pc[r] = "idle" /\ pc'[r] = label /\ req'[r].doomed = {}
        /\ \A s \in Requests \ {r} : pc'[s] = pc[s] /\ req'[s] = req[s]
    BY <1>1, <1>2, Begun DEF IInv
  <1>4. TypeOK'
    BY <1>1, <1>3 DEF IInv, TypeOK, historyVars
  <1>5. TokenInv' /\ TokenSpentOnce'
    <2>1. \A u \in Tokens : \/ tokens'[u] = tokens[u]
                            \/ tokens'[u] = "gone" /\ tokens[u] # "none" /\ ~Held(u)
      BY <1>1 DEF IInv, TypeOK
    <2>2. QED
      BY <1>3, <1>4, <2>1, TokensKept
  <1>6. CountInv' /\ LockNeedsFailures'
    BY <1>1, <1>3, <1>4, CountsKept DEF historyVars
  <1>7. QED
    BY <1>4, <1>5, <1>6 DEF IInv

LEMMA RotateDeleteKeeps == ASSUME IInv, NEW r \in Requests, RotateDelete(r) PROVE IInv'
  <1> DEFINE with == req[r].with
  <1> USE DEF RotateDelete
  <1>1. /\ pc[r] = "rotate" /\ ~Held(with) /\ UNCHANGED <<rowVars, req, historyVars>>
        /\ with \in Tokens
    BY DEF IInv, TypeOK, Request
  <1>2. PICK label \in {"rotating", "refused"} :
          Goto(r, label) /\ (label = "rotating" => Stored(with))
    OBVIOUS
  <1>3. /\ req' \in [Requests -> Request] /\ pc' \in [Requests -> Steps] /\ pc'[r] = label
        /\ \A s \in Requests \ {r} : pc'[s] = pc[s] /\ req'[s] = req[s]
    BY <1>1, <1>2, Moved DEF IInv, Steps, Finished
  <1>4. TypeOK'
    BY <1>1, <1>3 DEF IInv, TypeOK, rowVars, historyVars
  <1>5. TokenInv'
    <2> SUFFICES ASSUME NEW s \in Requests
                 PROVE  /\ pc'[s] # "ok" => tokens[s] = "none"
                        /\ pc'[s] = "rotating" => Stored(req[s].with)
                        /\ pc'[s] = "rotating" =>
                             \A z \in Requests : pc'[z] = "rotating" /\ req[z].with = req[s].with => z = s
                        /\ req[s].kind = "refresh" => pc'[s] \in {"rotate", "rotating", "ok", "refused"}
                        /\ req[s].kind = "refresh" /\ pc'[s] = "ok" => tokens[req[s].with] = "gone"
                        /\ \A t \in req[s].doomed : tokens[t] # "none"
      BY <1>1 DEF TokenInv, Stored, rowVars
    <2>1. pc'[s] = "rotating" =>
            \A z \in Requests : pc'[z] = "rotating" /\ req[z].with = req[s].with => z = s
      BY <1>1, <1>3 DEF IInv, TokenInv, Held
    <2>2. pc'[s] = "rotating" => Stored(req[s].with)
      BY <1>1, <1>2, <1>3 DEF IInv, TokenInv
    <2>3. CASE s = r
      BY <1>1, <1>3, <2>1, <2>2, <2>3 DEF IInv, TokenInv
    <2>4. CASE s # r
      BY <1>3, <2>1, <2>2, <2>4 DEF IInv, TokenInv
    <2>5. QED
      BY <2>3, <2>4
  <1>6. TokenSpentOnce'
    BY <1>1, <1>3 DEF IInv, TokenSpentOnce
  <1>7. CountInv' /\ LockNeedsFailures'
    BY <1>1, <1>3, <1>4, CountsKept DEF rowVars, historyVars
  <1>8. QED
    BY <1>4, <1>5, <1>6, <1>7 DEF IInv

LEMMA RotateCommitKeeps == ASSUME IInv, NEW r \in Requests, RotateCommit(r) PROVE IInv'
  <1> DEFINE t == req[r].with
  <1>0. req' = req
    BY DEF RotateCommit
  <1>1. /\ pc[r] = "rotating" /\ Goto(r, "ok") /\ UNCHANGED <<account, links, req, failures, met, clash>>
        /\ t \in Tokens /\ r \in Tokens /\ tokens[r] = "none" /\ Stored(t) /\ t # r
    BY DEF RotateCommit, IInv, TypeOK, Request, Tokens, TokenInv, Stored
  <1>2. /\ req' \in [Requests -> Request] /\ pc' \in [Requests -> Steps] /\ pc'[r] = "ok"
        /\ \A s \in Requests \ {r} : pc'[s] = pc[s] /\ req'[s] = req[s]
    BY <1>1, Moved DEF IInv, Steps, Finished
  <1>3. tokens' \in [Tokens -> {"none", "live", "expired", "gone"}] /\ born' \in [Tokens -> Nat \cup {Wrong}]
    BY <1>1 DEF RotateCommit, IInv, TypeOK
  <1>4. TypeOK'
    BY <1>1, <1>2, <1>3 DEF RotateCommit, IInv, TypeOK
  <1>5. /\ tokens'[r] = "live" /\ tokens'[t] = "gone"
        /\ \A u \in Tokens \ {r, t} : tokens'[u] = tokens[u]
    BY <1>1 DEF RotateCommit, IInv, TypeOK
  <1>6. \A s \in Requests : s \in Tokens /\ req[s].with \in Tokens /\ req[s].doomed \subseteq Tokens
    BY DEF IInv, TypeOK, Request, Tokens
  <1>7. TokenInv'
    <2> SUFFICES ASSUME NEW s \in Requests
                 PROVE  /\ pc'[s] # "ok" => tokens'[s] = "none"
                        /\ pc'[s] = "rotating" => Stored(req[s].with)'
                        /\ pc'[s] = "rotating" =>
                             \A z \in Requests : pc'[z] = "rotating" /\ req[z].with = req[s].with => z = s
                        /\ req[s].kind = "refresh" => pc'[s] \in {"rotate", "rotating", "ok", "refused"}
                        /\ req[s].kind = "refresh" /\ pc'[s] = "ok" => tokens'[req[s].with] = "gone"
                        /\ \A u \in req[s].doomed : tokens'[u] # "none"
      BY <1>0 DEF TokenInv, Stored
    <2>1. pc'[s] # "ok" => tokens'[s] = "none"
      <3> HAVE pc'[s] # "ok"
      <3>1. s # r /\ tokens[s] = "none"
        BY <1>2 DEF IInv, TokenInv
      <3>2. s # t
        BY <1>1, <3>1 DEF Stored
      <3>3. QED
        BY <1>5, <1>6, <3>1, <3>2
    <2>2. pc'[s] = "rotating" => Stored(req[s].with)'
      <3> HAVE pc'[s] = "rotating"
      <3>1. s # r /\ pc[s] = "rotating" /\ Stored(req[s].with) /\ req[s].with # t
        BY <1>1, <1>2 DEF IInv, TokenInv
      <3>2. req[s].with # r
        BY <1>1, <3>1 DEF Stored
      <3>3. tokens'[req[s].with] = tokens[req[s].with]
        BY <1>5, <1>6, <3>1, <3>2
      <3>4. QED
        BY <1>1, <3>1, <3>3 DEF Stored
    <2>3. pc'[s] = "rotating" =>
            \A z \in Requests : pc'[z] = "rotating" /\ req[z].with = req[s].with => z = s
      BY <1>2 DEF IInv, TokenInv
    <2>4. req[s].kind = "refresh" => pc'[s] \in {"rotate", "rotating", "ok", "refused"}
      BY <1>2 DEF IInv, TokenInv
    <2>5. req[s].kind = "refresh" /\ pc'[s] = "ok" => tokens'[req[s].with] = "gone"
      <3> HAVE req[s].kind = "refresh" /\ pc'[s] = "ok"
      <3>1. CASE s = r
        BY <1>5, <3>1
      <3>2. CASE s # r
        <4>1. tokens[req[s].with] = "gone"
          BY <1>2, <3>2 DEF IInv, TokenInv
        <4>2. req[s].with # r
          BY <1>1, <4>1
        <4>3. QED
          BY <1>5, <1>6, <4>1, <4>2
      <3>3. QED
        BY <3>1, <3>2
    <2>6. ASSUME NEW u \in req[s].doomed PROVE tokens'[u] # "none"
      <3>1. u \in Tokens /\ tokens[u] # "none"
        BY <1>6 DEF IInv, TokenInv
      <3>2. QED
        BY <1>5, <3>1
    <2>7. QED
      BY <2>1, <2>2, <2>3, <2>4, <2>5, <2>6
  <1>8. TokenSpentOnce'
    <2> SUFFICES ASSUME NEW x \in Requests, NEW y \in Requests,
                        req[x].kind = "refresh", req[y].kind = "refresh",
                        pc'[x] = "ok", pc'[y] = "ok", req[x].with = req[y].with
                 PROVE  x = y
      BY <1>0 DEF TokenSpentOnce
    <2>1. \A s \in Requests \ {r} : req[s].kind = "refresh" /\ pc'[s] = "ok" => req[s].with # t
      BY <1>1, <1>2 DEF IInv, TokenInv, Stored
    <2>2. CASE x # r /\ y # r
      BY <1>2, <2>2 DEF IInv, TokenSpentOnce
    <2>3. QED
      BY <2>1, <2>2
  <1>9. CountInv' /\ LockNeedsFailures'
    BY <1>1, <1>2, <1>4, CountsKept
  <1>10. QED
    BY <1>4, <1>7, <1>8, <1>9 DEF IInv

LEMMA LogoutKeeps == ASSUME IInv, NEW r \in Requests, Logout(r) PROVE IInv'
  <1>1. PICK t \in Tokens :
          /\ ~Held(t) /\ tokens[t] # "none"
          /\ Begins(r, "logout", Wrong, t, "", "ok")
          /\ tokens' = [tokens EXCEPT ![t] = "gone"]
          /\ UNCHANGED <<account, links, historyVars>>
    BY DEF Logout
  <1>2. "" \in CodesUsed /\ "ok" \in Steps /\ "logout" \in Kinds /\ Wrong \in Nat \cup {Wrong}
    BY DEF CodesUsed, Steps, Finished, Kinds
  <1>3. /\ req' \in [Requests -> Request] /\ pc' \in [Requests -> Steps]
        /\ pc[r] = "idle" /\ pc'[r] = "ok" /\ req'[r].doomed = {} /\ req'[r].kind = "logout"
        /\ \A s \in Requests \ {r} : pc'[s] = pc[s] /\ req'[s] = req[s]
    BY <1>1, <1>2, Begun DEF IInv
  <1>4. TypeOK'
    BY <1>1, <1>3 DEF IInv, TypeOK, historyVars
  <1>5. TokenInv' /\ TokenSpentOnce'
    <2>1. \A u \in Tokens : \/ tokens'[u] = tokens[u]
                            \/ tokens'[u] = "gone" /\ tokens[u] # "none" /\ ~Held(u)
      BY <1>1 DEF IInv, TypeOK
    <2>2. QED
      BY <1>3, <1>4, <2>1, TokensKept
  <1>6. CountInv' /\ LockNeedsFailures'
    BY <1>1, <1>3, <1>4, CountsKept DEF historyVars
  <1>7. QED
    BY <1>4, <1>5, <1>6 DEF IInv

-----------------------------------------------------------------------------
(* New passwords, deactivation, and the revocation they end with.           *)

\* A request that begins and touches no token and no count.
LEMMA BeginKeeps ==
  ASSUME IInv, NEW r \in Requests, NEW kind \in Kinds \ {"refresh"}, NEW pw \in Nat \cup {Wrong},
         NEW with \in Tokens, NEW code \in CodesUsed, NEW label \in Steps \ {"compare", "rotating"},
         Begins(r, kind, pw, with, code, label),
         UNCHANGED <<account, tokens, failures, born>>,
         links' \in [Requests -> {"none", "open", "late", "used"}],
         raced' \subseteq Requests, met' \subseteq SUBSET Requests, clash' \in BOOLEAN
  PROVE  IInv'
  <1>1. /\ req' \in [Requests -> Request] /\ pc' \in [Requests -> Steps]
        /\ pc[r] = "idle" /\ pc'[r] = label /\ req'[r].doomed = {} /\ req'[r].kind = kind
        /\ \A s \in Requests \ {r} : pc'[s] = pc[s] /\ req'[s] = req[s]
    BY Begun DEF IInv
  <1>2. TypeOK'
    BY <1>1 DEF IInv, TypeOK
  <1>3. TokenInv' /\ TokenSpentOnce'
    BY <1>1, <1>2, TokensKept
  <1>4. CountInv' /\ LockNeedsFailures'
    BY <1>1, <1>2, CountsKept
  <1>5. QED
    BY <1>2, <1>3, <1>4 DEF IInv

LEMMA ChangeReadKeeps == ASSUME IInv, NEW r \in Requests, ChangeRead(r) PROVE IInv'
  <1>1. PICK p \in {Wrong} \cup 0..account.pw, label \in {"write", "refused"} :
          Begins(r, "change", p, Device, "", label) /\ UNCHANGED <<rowVars, historyVars>>
    BY DEF ChangeRead
  <1>2. /\ p \in Nat \cup {Wrong} /\ Device \in Tokens /\ "" \in CodesUsed
        /\ label \in Steps \ {"compare", "rotating"} /\ "change" \in Kinds \ {"refresh"}
    BY AccountTyped DEF IInv, Tokens, CodesUsed, Steps, Finished, Kinds
  <1>3. QED
    BY <1>1, <1>2, BeginKeeps DEF rowVars, historyVars, IInv, TypeOK

LEMMA ResetReadKeeps == ASSUME IInv, NEW r \in Requests, ResetRead(r) PROVE IInv'
  <1>1. PICK l \in Requests, label \in {"write", "refused"} :
          Begins(r, "reset", Wrong, l, "", label) /\ UNCHANGED <<rowVars, historyVars>>
    BY DEF ResetRead
  <1>2. /\ Wrong \in Nat \cup {Wrong} /\ l \in Tokens /\ "" \in CodesUsed
        /\ label \in Steps \ {"compare", "rotating"} /\ "reset" \in Kinds \ {"refresh"}
    BY DEF Tokens, CodesUsed, Steps, Finished, Kinds
  <1>3. QED
    BY <1>1, <1>2, BeginKeeps DEF rowVars, historyVars, IInv, TypeOK

LEMMA AdminResetReadKeeps == ASSUME IInv, NEW r \in Requests, AdminResetRead(r) PROVE IInv'
  <1>1. PICK label \in {"write", "refused"} :
          Begins(r, "adminReset", Wrong, Device, "", label) /\ UNCHANGED <<rowVars, historyVars>>
    BY DEF AdminResetRead
  <1>2. /\ Wrong \in Nat \cup {Wrong} /\ Device \in Tokens /\ "" \in CodesUsed
        /\ label \in Steps \ {"compare", "rotating"} /\ "adminReset" \in Kinds \ {"refresh"}
    BY DEF Tokens, CodesUsed, Steps, Finished, Kinds
  <1>3. QED
    BY <1>1, <1>2, BeginKeeps DEF rowVars, historyVars, IInv, TypeOK

LEMMA ToggleReadKeeps == ASSUME IInv, NEW r \in Requests, ToggleRead(r) PROVE IInv'
  <1>1. PICK kind \in {"activate", "deactivate"}, label \in {"write", "refused"} :
          Begins(r, kind, Wrong, Device, "", label) /\ UNCHANGED <<rowVars, historyVars>>
    BY DEF ToggleRead
  <1>2. /\ Wrong \in Nat \cup {Wrong} /\ Device \in Tokens /\ "" \in CodesUsed
        /\ label \in Steps \ {"compare", "rotating"} /\ kind \in Kinds \ {"refresh"}
    BY DEF Tokens, CodesUsed, Steps, Finished, Kinds
  <1>3. QED
    BY <1>1, <1>2, BeginKeeps DEF rowVars, historyVars, IInv, TypeOK

\* What a write makes of the row counts nothing and locks nothing.
LEMMA WrittenTyped ==
  ASSUME TypeOK, NEW r \in Requests
  PROVE  /\ Written(r) \in Account /\ Written(r).attempts \in {0, account.attempts}
         /\ Written(r).locked # "no" => account.locked # "no"
  <1>1. /\ account \in Account /\ account.pw + 1 \in Nat /\ 0 \in 0..(Threshold - 1)
    BY SessionAssumption DEF TypeOK, Account
  <1>2. CASE req[r].kind \in {"change", "reset"}
    <2>1. Written(r) = [account EXCEPT !.pw = @ + 1, !.attempts = 0, !.locked = "no"]
      BY <1>2 DEF Written
    <2>2. QED
      BY <1>1, <2>1 DEF Account
  <1>3. CASE req[r].kind = "adminReset"
    <2>1. Written(r) = [account EXCEPT !.pw = @ + 1]
      BY <1>3 DEF Written
    <2>2. QED
      BY <1>1, <2>1 DEF Account
  <1>4. CASE req[r].kind \notin {"change", "reset", "adminReset"}
    <2>1. Written(r) = [account EXCEPT !.active = (req[r].kind = "activate")]
      BY <1>4 DEF Written
    <2>2. (req[r].kind = "activate") \in BOOLEAN
      OBVIOUS
    <2>3. QED
      BY <1>1, <2>1, <2>2 DEF Account
  <1>5. QED
    BY <1>2, <1>3, <1>4

LEMMA WriteKeeps == ASSUME IInv, NEW r \in Requests, Write(r) PROVE IInv'
  <1>1. /\ pc[r] = "write" /\ UNCHANGED <<tokens, links, req, historyVars>>
        /\ account' \in {account, Written(r)} /\ req[r].kind # "refresh"
    BY DEF Write, IInv, TokenInv
  <1>2. PICK label \in {"ok", "revoke"} : Goto(r, label)
    BY DEF Write
  <1>3. /\ req' \in [Requests -> Request] /\ pc' \in [Requests -> Steps] /\ pc'[r] = label
        /\ \A s \in Requests \ {r} : pc'[s] = pc[s] /\ req'[s] = req[s]
    BY <1>1, <1>2, Moved DEF IInv, Steps, Finished
  <1>4. account' \in Account /\ account'.attempts \in {0, account.attempts}
        /\ (account'.locked # "no" => account.locked # "no")
    BY <1>1, WrittenTyped DEF IInv, TypeOK
  <1>5. TypeOK'
    BY <1>1, <1>3, <1>4 DEF IInv, TypeOK, historyVars
  <1>6. TokenInv' /\ TokenSpentOnce'
    <2>1. req'[r].kind # "refresh" /\ \A t \in req'[r].doomed : tokens[t] # "none"
      BY <1>1 DEF IInv, TokenInv
    <2>2. QED
      BY <1>1, <1>3, <1>5, <2>1, TokensKept
  <1>7. CountInv' /\ LockNeedsFailures'
    BY <1>1, <1>3, <1>4, <1>5, CountsKept DEF historyVars
  <1>8. QED
    BY <1>5, <1>6, <1>7 DEF IInv

LEMMA RevokeScanKeeps == ASSUME IInv, NEW r \in Requests, RevokeScan(r) PROVE IInv'
  <1> DEFINE stored == {t \in Tokens : Stored(t)}
  <1>1. /\ pc[r] = "revoke" /\ pc' = [pc EXCEPT ![r] = "revoking"]
        /\ req' = [req EXCEPT ![r].doomed = stored]
        /\ raced' \subseteq Requests /\ req[r].kind # "refresh"
        /\ UNCHANGED <<rowVars, failures, born, met, clash>>
    BY DEF RevokeScan, Goto, IInv, TypeOK, TokenInv
  <1>2. [req[r] EXCEPT !.doomed = stored] \in Request
    <2>1. req[r] \in Request /\ stored \in SUBSET Tokens
      BY DEF IInv, TypeOK
    <2> HIDE DEF stored
    <2>2. QED
      BY <2>1 DEF Request
  <1>3. /\ req' \in [Requests -> Request] /\ pc' \in [Requests -> Steps] /\ pc'[r] = "revoking"
        /\ req'[r].doomed = stored /\ req'[r].kind = req[r].kind
        /\ \A s \in Requests \ {r} : pc'[s] = pc[s] /\ req'[s] = req[s]
    BY <1>1, <1>2 DEF IInv, TypeOK, Request, Steps
  <1>4. TypeOK'
    BY <1>1, <1>3 DEF IInv, TypeOK, rowVars
  <1>5. TokenInv' /\ TokenSpentOnce'
    <2>1. \A t \in req'[r].doomed : tokens[t] # "none"
      BY <1>3 DEF Stored
    <2>2. QED
      BY <1>1, <1>3, <1>4, <2>1, TokensKept DEF rowVars
  <1>6. CountInv' /\ LockNeedsFailures'
    BY <1>1, <1>3, <1>4, CountsKept DEF rowVars
  <1>7. QED
    BY <1>4, <1>5, <1>6 DEF IInv

LEMMA RevokeFinishKeeps == ASSUME IInv, NEW r \in Requests, RevokeFinish(r) PROVE IInv'
  <1>1. /\ pc[r] = "revoking" /\ \A t \in req[r].doomed : ~Held(t)
        /\ tokens' = [t \in Tokens |-> IF t \in req[r].doomed THEN "gone" ELSE tokens[t]]
        /\ account' \in {account, Written(r)} /\ Goto(r, "ok")
        /\ links' = IF req[r].kind = "reset" THEN [links EXCEPT ![req[r].with] = "used"] ELSE links
        /\ UNCHANGED <<req, failures, born, met, clash>>
        /\ raced' \subseteq Requests /\ req[r].kind # "refresh"
    BY DEF RevokeFinish, IInv, TypeOK, TokenInv
  <1>2. /\ req' \in [Requests -> Request] /\ pc' \in [Requests -> Steps] /\ pc'[r] = "ok"
        /\ \A s \in Requests \ {r} : pc'[s] = pc[s] /\ req'[s] = req[s]
    BY <1>1, Moved DEF IInv, Steps, Finished
  <1>3. account' \in Account /\ account'.attempts \in {0, account.attempts}
        /\ (account'.locked # "no" => account.locked # "no")
    BY <1>1, WrittenTyped DEF IInv, TypeOK
  <1>4. TypeOK'
    <2>1. links' \in [Requests -> {"none", "open", "late", "used"}]
      BY <1>1 DEF IInv, TypeOK
    <2>2. tokens' \in [Tokens -> {"none", "live", "expired", "gone"}]
      BY <1>1 DEF IInv, TypeOK
    <2>3. QED
      BY <1>1, <1>2, <1>3, <2>1, <2>2 DEF IInv, TypeOK
  <1>5. TokenInv' /\ TokenSpentOnce'
    <2>1. req'[r].kind # "refresh" /\ \A t \in req[r].doomed : tokens[t] # "none"
      BY <1>1 DEF IInv, TokenInv
    <2>2. \A t \in Tokens : \/ tokens'[t] = tokens[t]
                            \/ tokens'[t] = "gone" /\ tokens[t] # "none" /\ ~Held(t)
      BY <1>1, <2>1
    <2>3. \A t \in req'[r].doomed : tokens[t] # "none"
      BY <1>1, <2>1
    <2>4. QED
      BY <1>1, <1>2, <1>4, <2>1, <2>2, <2>3, TokensKept
  <1>6. CountInv' /\ LockNeedsFailures'
    BY <1>1, <1>2, <1>3, <1>4, CountsKept
  <1>7. QED
    BY <1>4, <1>5, <1>6 DEF IInv

-----------------------------------------------------------------------------
(* Reset links and the second factor.                                       *)

LEMMA ForgotInvalidateKeeps == ASSUME IInv, NEW r \in Requests, ForgotInvalidate(r) PROVE IInv'
  <1>1. /\ Begins(r, "forgot", Wrong, Device, "", "create")
        /\ UNCHANGED <<account, tokens, failures, born, raced, clash>>
        /\ links' = [l \in Requests |-> IF links[l] \in {"open", "late"} THEN "used" ELSE links[l]]
        /\ met' = met \cup {{r, s} : s \in {q \in Requests : pc[q] = "create"}}
    BY DEF ForgotInvalidate
  <1>2. /\ Wrong \in Nat \cup {Wrong} /\ Device \in Tokens /\ "" \in CodesUsed
        /\ "create" \in Steps \ {"compare", "rotating"} /\ "forgot" \in Kinds \ {"refresh"}
    BY DEF Tokens, CodesUsed, Steps, Kinds
  <1>3. links' \in [Requests -> {"none", "open", "late", "used"}] /\ met' \subseteq SUBSET Requests
    <2>1. links \in [Requests -> {"none", "open", "late", "used"}] /\ met \subseteq SUBSET Requests
      BY DEF IInv, TypeOK
    <2>2. links' \in [Requests -> {"none", "open", "late", "used"}]
      BY <1>1, <2>1
    <2>3. \A s \in Requests : {r, s} \in SUBSET Requests
      OBVIOUS
    <2>4. {{r, s} : s \in {q \in Requests : pc[q] = "create"}} \subseteq SUBSET Requests
      BY <2>3
    <2>5. QED
      BY <1>1, <2>1, <2>2, <2>4
  <1>4. raced' \subseteq Requests /\ clash' \in BOOLEAN
    BY <1>1 DEF IInv, TypeOK
  <1>5. QED
    BY <1>1, <1>2, <1>3, <1>4, BeginKeeps

LEMMA ForgotCreateKeeps == ASSUME IInv, NEW r \in Requests, ForgotCreate(r) PROVE IInv'
  <1>1. /\ pc[r] = "create" /\ Goto(r, "ok") /\ req[r].kind # "refresh"
        /\ links' = [links EXCEPT ![r] = "open"]
        /\ UNCHANGED <<account, tokens, req, historyVars>>
    BY DEF ForgotCreate, IInv, TokenInv
  <1>2. /\ req' \in [Requests -> Request] /\ pc' \in [Requests -> Steps] /\ pc'[r] = "ok"
        /\ \A s \in Requests \ {r} : pc'[s] = pc[s] /\ req'[s] = req[s]
    BY <1>1, Moved DEF IInv, Steps, Finished
  <1>3. TypeOK'
    BY <1>1, <1>2 DEF IInv, TypeOK, historyVars
  <1>4. TokenInv' /\ TokenSpentOnce'
    <2>1. req'[r].kind # "refresh" /\ \A t \in req'[r].doomed : tokens[t] # "none"
      BY <1>1 DEF IInv, TokenInv
    <2>2. QED
      BY <1>1, <1>2, <1>3, <2>1, TokensKept
  <1>5. CountInv' /\ LockNeedsFailures'
    BY <1>1, <1>2, <1>3, CountsKept DEF historyVars
  <1>6. QED
    BY <1>3, <1>4, <1>5 DEF IInv

LEMMA ConfirmEnrollmentKeeps == ASSUME IInv, NEW r \in Requests, ConfirmEnrollment(r) PROVE IInv'
  <1>1. PICK l \in Requests, code \in {"right", "wrong"}, label \in {"ok", "refused"} :
          /\ Begins(r, "confirm", Wrong, l, code, label)
          /\ account' \in {account, [account EXCEPT !.totp = TRUE, !.codes = BackupCodes]}
          /\ UNCHANGED <<tokens, links, historyVars>>
    BY DEF ConfirmEnrollment
  <1>2. /\ Wrong \in Nat \cup {Wrong} /\ l \in Tokens /\ code \in CodesUsed
        /\ label \in Steps /\ "confirm" \in Kinds
    BY DEF Tokens, CodesUsed, Steps, Finished, Kinds
  <1>3. /\ req' \in [Requests -> Request] /\ pc' \in [Requests -> Steps]
        /\ pc[r] = "idle" /\ pc'[r] = label /\ req'[r].doomed = {} /\ req'[r].kind = "confirm"
        /\ \A s \in Requests \ {r} : pc'[s] = pc[s] /\ req'[s] = req[s]
    BY <1>1, <1>2, Begun DEF IInv
  <1>4. account' \in Account /\ account'.attempts = account.attempts /\ account'.locked = account.locked
    BY <1>1, BackupCodesTyped DEF IInv, TypeOK, Account
  <1>5. TypeOK'
    BY <1>1, <1>3, <1>4 DEF IInv, TypeOK, historyVars
  <1>6. TokenInv' /\ TokenSpentOnce'
    BY <1>1, <1>3, <1>5, TokensKept
  <1>7. CountInv' /\ LockNeedsFailures'
    BY <1>1, <1>3, <1>4, <1>5, CountsKept DEF historyVars
  <1>8. QED
    BY <1>5, <1>6, <1>7 DEF IInv
LEMMA VerifyReadKeeps == ASSUME IInv, NEW r \in Requests, VerifyRead(r) PROVE IInv'
  <1>1. PICK l \in Requests :
          /\ \/ \E right \in BOOLEAN :
                  /\ Begins(r, "verify", req[l].pw, l, "",
                            IF account.totp /\ right THEN "open" ELSE "refused")
                  /\ UNCHANGED clash
             \/ \E i \in DOMAIN BackupCodes :
                  LET at == {j \in DOMAIN account.codes : account.codes[j] = BackupCodes[i]}
                  IN  /\ pc[r] = "idle"
                      /\ req' = [req EXCEPT ![r] =
                           [NoRequest EXCEPT !.kind = "verify", !.pw = req[l].pw, !.with = l,
                              !.code = BackupCodes[i],
                              !.index = IF at = {} THEN 0 ELSE CHOOSE j \in at : TRUE]]
                      /\ Goto(r, IF account.totp /\ at # {} THEN "read" ELSE "refused")
                      /\ clash' = (clash \/ \E s \in Requests : CheckingCode(s))
          /\ raced' = IF l \in raced THEN raced \cup {r} ELSE raced
          /\ UNCHANGED <<rowVars, failures, born, met>>
    BY DEF VerifyRead
  <1>2. raced' \subseteq Requests /\ l \in Tokens /\ req[l].pw \in Nat \cup {Wrong}
    BY <1>1 DEF IInv, TypeOK, Request, Tokens
  <1>3. CASE \E right \in BOOLEAN :
               /\ Begins(r, "verify", req[l].pw, l, "",
                         IF account.totp /\ right THEN "open" ELSE "refused")
               /\ UNCHANGED clash
    <2>1. PICK label \in {"open", "refused"} :
            Begins(r, "verify", req[l].pw, l, "", label) /\ UNCHANGED clash
      BY <1>3
    <2>2. /\ "" \in CodesUsed /\ label \in Steps \ {"compare", "rotating"}
          /\ "verify" \in Kinds \ {"refresh"}
      BY DEF CodesUsed, Steps, Finished, Kinds
    <2>3. /\ links' \in [Requests -> {"none", "open", "late", "used"}]
          /\ met' \subseteq SUBSET Requests /\ clash' \in BOOLEAN
          /\ UNCHANGED <<account, tokens, failures, born>>
      BY <1>1, <2>1 DEF IInv, TypeOK, rowVars
    <2>4. QED
      BY <1>2, <2>1, <2>2, <2>3, BeginKeeps
  <1>4. ASSUME NEW i \in DOMAIN BackupCodes,
               LET at == {j \in DOMAIN account.codes : account.codes[j] = BackupCodes[i]}
               IN  /\ pc[r] = "idle"
                   /\ req' = [req EXCEPT ![r] =
                        [NoRequest EXCEPT !.kind = "verify", !.pw = req[l].pw, !.with = l,
                           !.code = BackupCodes[i],
                           !.index = IF at = {} THEN 0 ELSE CHOOSE j \in at : TRUE]]
                   /\ Goto(r, IF account.totp /\ at # {} THEN "read" ELSE "refused")
                   /\ clash' = (clash \/ \E s \in Requests : CheckingCode(s))
        PROVE  IInv'
    <2> DEFINE at == {j \in DOMAIN account.codes : account.codes[j] = BackupCodes[i]}
               n  == IF at = {} THEN 0 ELSE CHOOSE j \in at : TRUE
               q  == [NoRequest EXCEPT !.kind = "verify", !.pw = req[l].pw, !.with = l,
                                       !.code = BackupCodes[i], !.index = n]
    <2>1. n \in Nat
      <3>1. account.codes \in Seq(Range(BackupCodes))
        BY DEF IInv, TypeOK, Account
      <3>2. \A j \in DOMAIN account.codes : j \in Nat
        BY <3>1
      <3>3. at # {} => (CHOOSE j \in at : TRUE) \in at
        OBVIOUS
      <3>4. QED
        BY <3>2, <3>3
    <2>2. BackupCodes[i] \in Range(BackupCodes)
      BY DEF Range
    <2> HIDE DEF n
    <2>3. NoRequest \in Request /\ NoRequest.doomed = {}
      BY NoRequestTyped DEF IInv
    <2>4. q \in Request /\ q.kind = "verify" /\ q.doomed = {}
      BY <1>2, <2>1, <2>2, <2>3 DEF Request, Kinds
    <2>5. pc[r] = "idle" /\ req' = [req EXCEPT ![r] = q] /\ clash' \in BOOLEAN
      BY <1>4 DEF n, IInv, TypeOK
    <2> HIDE DEF q
    <2>6. PICK label \in {"read", "refused"} : pc' = [pc EXCEPT ![r] = label]
      BY <1>4 DEF Goto
    <2>7. /\ req' \in [Requests -> Request] /\ pc' \in [Requests -> Steps] /\ pc'[r] = label
          /\ req'[r].doomed = {} /\ req'[r].kind = "verify"
          /\ \A s \in Requests \ {r} : pc'[s] = pc[s] /\ req'[s] = req[s]
      BY <2>4, <2>5, <2>6 DEF IInv, TypeOK, Steps, Finished
    <2>8. TypeOK'
      BY <1>1, <1>2, <2>5, <2>7 DEF IInv, TypeOK, rowVars
    <2>9. TokenInv' /\ TokenSpentOnce'
      BY <1>1, <2>5, <2>7, <2>8, TokensKept DEF rowVars
    <2>10. CountInv' /\ LockNeedsFailures'
      BY <1>1, <2>7, <2>8, CountsKept DEF rowVars
    <2>11. QED
      BY <2>8, <2>9, <2>10 DEF IInv
  <1>5. QED
    BY <1>1, <1>3, <1>4

LEMMA ConsumeReadKeeps == ASSUME IInv, NEW r \in Requests, ConsumeRead(r) PROVE IInv'
  <1>1. /\ pc[r] = "read" /\ pc' = [pc EXCEPT ![r] = "consume"] /\ req[r].kind # "refresh"
        /\ req' = [req EXCEPT ![r].seen = account] /\ UNCHANGED <<rowVars, historyVars>>
    BY DEF ConsumeRead, Goto, IInv, TokenInv
  <1>2. [req[r] EXCEPT !.seen = account] \in Request
    <2>1. req[r] \in Request /\ account \in Account
      BY DEF IInv, TypeOK
    <2>2. QED
      BY <2>1 DEF Request
  <1>3. /\ req' \in [Requests -> Request] /\ pc' \in [Requests -> Steps] /\ pc'[r] = "consume"
        /\ req'[r].doomed = req[r].doomed /\ req'[r].kind = req[r].kind
        /\ \A s \in Requests \ {r} : pc'[s] = pc[s] /\ req'[s] = req[s]
    BY <1>1, <1>2 DEF IInv, TypeOK, Request, Steps
  <1>4. TypeOK'
    BY <1>1, <1>3 DEF IInv, TypeOK, rowVars, historyVars
  <1>5. TokenInv' /\ TokenSpentOnce'
    <2>1. \A t \in req'[r].doomed : tokens[t] # "none"
      BY <1>3 DEF IInv, TokenInv
    <2>2. QED
      BY <1>1, <1>3, <1>4, <2>1, TokensKept DEF rowVars
  <1>6. CountInv' /\ LockNeedsFailures'
    BY <1>1, <1>3, <1>4, CountsKept DEF rowVars, historyVars
  <1>7. QED
    BY <1>4, <1>5, <1>6 DEF IInv

LEMMA RemovedTyped ==
  ASSUME NEW S, NEW s \in Seq(S), NEW i \in DOMAIN s
  PROVE  RemoveAt(s, i) \in Seq(S)
  <1>1. i \in 1..Len(s) /\ Len(s) \in Nat
    OBVIOUS
  <1>2. SubSeq(s, 1, i - 1) \in Seq(S) /\ SubSeq(s, i + 1, Len(s)) \in Seq(S)
    BY <1>1, SubSeqProperties
  <1>3. QED
    BY <1>2, ConcatProperties DEF RemoveAt

LEMMA ConsumeWriteKeeps == ASSUME IInv, NEW r \in Requests, ConsumeWrite(r) PROVE IInv'
  <1> DEFINE list == req[r].seen.codes
             rest == IF req[r].index \in DOMAIN list THEN RemoveAt(list, req[r].index) ELSE list
  <1>1. /\ pc[r] = "consume" /\ Goto(r, "open") /\ req[r].kind # "refresh"
        /\ account' = [account EXCEPT !.codes = rest]
        /\ UNCHANGED <<tokens, links, req, historyVars>>
    BY DEF ConsumeWrite, IInv, TokenInv
  <1>2. /\ req' \in [Requests -> Request] /\ pc' \in [Requests -> Steps] /\ pc'[r] = "open"
        /\ \A s \in Requests \ {r} : pc'[s] = pc[s] /\ req'[s] = req[s]
    BY <1>1, Moved DEF IInv, Steps
  <1>3. rest \in Seq(Range(BackupCodes))
    <2>1. list \in Seq(Range(BackupCodes))
      BY DEF IInv, TypeOK, Request, Account
    <2>2. QED
      BY <2>1, RemovedTyped
  <1> HIDE DEF rest
  <1>4. account' \in Account /\ account'.attempts = account.attempts /\ account'.locked = account.locked
    BY <1>1, <1>3 DEF IInv, TypeOK, Account
  <1>5. TypeOK'
    BY <1>1, <1>2, <1>4 DEF IInv, TypeOK, historyVars
  <1>6. TokenInv' /\ TokenSpentOnce'
    <2>1. req'[r].kind # "refresh" /\ \A t \in req'[r].doomed : tokens[t] # "none"
      BY <1>1 DEF IInv, TokenInv
    <2>2. QED
      BY <1>1, <1>2, <1>5, <2>1, TokensKept
  <1>7. CountInv' /\ LockNeedsFailures'
    BY <1>1, <1>2, <1>4, <1>5, CountsKept DEF historyVars
  <1>8. QED
    BY <1>5, <1>6, <1>7 DEF IInv

-----------------------------------------------------------------------------
(* Time and the rest, and all of Next.                                      *)

LEMMA TimeKeeps ==
  ASSUME IInv, LockLapses \/ TokenExpires \/ LinkExpires \/ ShowroomDeactivated PROVE IInv'
  <1>1. CASE LockLapses
    <2>1. /\ account.locked = "yes" /\ account' = [account EXCEPT !.locked = "lapsed"]
          /\ UNCHANGED <<tokens, links, pc, req, historyVars>>
      BY <1>1 DEF LockLapses
    <2>2. account' \in Account /\ account'.attempts = account.attempts
      BY <2>1 DEF IInv, TypeOK, Account
    <2>3. TypeOK'
      BY <2>1, <2>2 DEF IInv, TypeOK, historyVars
    <2>4. QED
      BY <2>1, <2>2, <2>3 DEF IInv, TokenInv, Stored, TokenSpentOnce, CountInv, LockNeedsFailures, historyVars
  <1>2. CASE TokenExpires
    <2>1. PICK t \in Tokens : tokens[t] = "live" /\ tokens' = [tokens EXCEPT ![t] = "expired"]
      BY <1>2 DEF TokenExpires
    <2>2. UNCHANGED <<account, links, pc, req, historyVars>>
      BY <1>2 DEF TokenExpires
    <2>3. TypeOK'
      BY <2>1, <2>2 DEF IInv, TypeOK, historyVars
    <2>4. \A u \in Tokens : /\ tokens'[u] = "none" <=> tokens[u] = "none"
                            /\ tokens'[u] = "gone" <=> tokens[u] = "gone"
                            /\ tokens[u] \in {"live", "expired"} => tokens'[u] \in {"live", "expired"}
      BY <2>1 DEF IInv, TypeOK
    <2>5. \A s \in Requests : s \in Tokens /\ req[s].with \in Tokens /\ req[s].doomed \subseteq Tokens
      BY DEF IInv, TypeOK, Request, Tokens
    <2>6. TokenInv'
      BY <2>2, <2>4, <2>5 DEF IInv, TokenInv, Stored
    <2>7. QED
      BY <2>2, <2>3, <2>6 DEF IInv, TokenSpentOnce, CountInv, LockNeedsFailures, historyVars
  <1>3. CASE LinkExpires
    <2>1. PICK l \in Requests : links' = [links EXCEPT ![l] = "late"]
      BY <1>3 DEF LinkExpires
    <2>2. UNCHANGED <<account, tokens, pc, req, historyVars>>
      BY <1>3 DEF LinkExpires
    <2>3. TypeOK'
      BY <2>1, <2>2 DEF IInv, TypeOK, historyVars
    <2>4. QED
      BY <2>2, <2>3 DEF IInv, TokenInv, Stored, TokenSpentOnce, CountInv, LockNeedsFailures, historyVars
  <1>4. CASE ShowroomDeactivated
    <2>1. /\ account' = [account EXCEPT !.showroom = FALSE]
          /\ UNCHANGED <<tokens, links, pc, req, historyVars>>
      BY <1>4 DEF ShowroomDeactivated
    <2>2. account' \in Account /\ account'.attempts = account.attempts /\ account'.locked = account.locked
      BY <2>1 DEF IInv, TypeOK, Account
    <2>3. TypeOK'
      BY <2>1, <2>2 DEF IInv, TypeOK, historyVars
    <2>4. QED
      BY <2>1, <2>2, <2>3 DEF IInv, TokenInv, Stored, TokenSpentOnce, CountInv, LockNeedsFailures, historyVars
  <1>5. QED
    BY <1>1, <1>2, <1>3, <1>4

LEMMA NextKeeps == IInv /\ [Next]_vars => IInv'
  <1> SUFFICES ASSUME IInv, [Next]_vars PROVE IInv'
    OBVIOUS
  <1>1. ASSUME NEW r \in Requests,
               \/ LoginRead(r) \/ LoginCompare(r) \/ LoginOpen(r)
               \/ RefreshRead(r) \/ RotateDelete(r) \/ RotateCommit(r) \/ Logout(r)
        PROVE  IInv'
    BY <1>1, LoginReadKeeps, LoginCompareKeeps, LoginOpenKeeps, RefreshReadKeeps, RotateDeleteKeeps,
       RotateCommitKeeps, LogoutKeeps
  <1>2. ASSUME NEW r \in Requests,
               \/ ChangeRead(r) \/ ResetRead(r) \/ AdminResetRead(r) \/ ToggleRead(r)
               \/ Write(r) \/ RevokeScan(r) \/ RevokeFinish(r)
        PROVE  IInv'
    BY <1>2, ChangeReadKeeps, ResetReadKeeps, AdminResetReadKeeps, ToggleReadKeeps, WriteKeeps,
       RevokeScanKeeps, RevokeFinishKeeps
  <1>3. ASSUME NEW r \in Requests,
               \/ ForgotInvalidate(r) \/ ForgotCreate(r)
               \/ ConfirmEnrollment(r) \/ VerifyRead(r) \/ ConsumeRead(r) \/ ConsumeWrite(r)
        PROVE  IInv'
    BY <1>3, ForgotInvalidateKeeps, ForgotCreateKeeps, ConfirmEnrollmentKeeps, VerifyReadKeeps,
       ConsumeReadKeeps, ConsumeWriteKeeps
  <1>4. CASE LockLapses \/ TokenExpires \/ LinkExpires \/ ShowroomDeactivated
    BY <1>4, TimeKeeps
  <1>5. CASE UNCHANGED vars
    <2>1. TypeOK'
      BY <1>5 DEF vars, IInv, TypeOK
    <2>2. QED
      BY <1>5, <2>1 DEF vars, IInv, TokenInv, Stored, TokenSpentOnce, CountInv, LockNeedsFailures
  <1>6. QED
    BY <1>1, <1>2, <1>3, <1>4, <1>5 DEF Next, AllAnswered

-----------------------------------------------------------------------------
\* The inductive invariant holds in every state.
THEOREM Invariance == Spec => []IInv
  BY InitIInv, NextKeeps, PTL DEF Spec

\* Every variable has its type; no count reaches the threshold.
THEOREM TypeCorrect == Spec => []TypeOK
  <1>1. IInv => TypeOK
    BY DEF IInv
  <1>2. QED
    BY Invariance, <1>1, PTL

\* refreshToken trades a token for one successor, however many present it at once.
THEOREM OneSuccessor == Spec => []TokenSpentOnce
  <1>1. IInv => TokenSpentOnce
    BY DEF IInv
  <1>2. QED
    BY Invariance, <1>1, PTL

\* login locks an account on no fewer wrong passwords than the threshold says.
THEOREM NoLockUnearned == Spec => []LockNeedsFailures
  <1>1. IInv => LockNeedsFailures
    BY DEF IInv
  <1>2. QED
    BY Invariance, <1>1, PTL

-----------------------------------------------------------------------------
(* Sessions that outlive a revocation.                                      *)

LEMMA PasswordsTyped ==
  ASSUME TypeOK
  PROVE  /\ account.pw \in Nat
         /\ \A r \in Requests : /\ req[r].pw \in Nat \cup {Wrong} /\ req[r].seen.pw \in Nat
                                /\ req[r].doomed \subseteq Tokens /\ req[r].with \in Tokens
         /\ Requests \subseteq Tokens
  BY DEF TypeOK, Account, Request, Tokens

\* What the invariant asks of a step that stores no token, revokes nothing and
\* writes no password.
LEMMA Quiet ==
  ASSUME IInv, SurvivorInv, NEW r \in Requests,
         \A s \in Requests \ {r} : pc'[s] = pc[s] /\ req'[s] = req[s],
         pc[r] \notin {"revoke", "revoking"}, pc'[r] # "revoking",
         Behind(r)' => r \in raced' \/ Changing,
         raced \subseteq raced', account'.pw = account.pw, UNCHANGED born,
         \A t \in Tokens : Stored(t)' => Stored(t)
  PROVE  SurvivorInv'
  <1>1. Changing => Changing'
    BY DEF Changing
  <1>2. ASSUME NEW s \in Requests, Behind(s)' PROVE s \in raced' \/ Changing'
    <2>1. CASE s = r
      BY <1>1, <1>2, <2>1
    <2>2. CASE s # r
      <3>1. Behind(s)
        BY <1>2, <2>2 DEF Behind
      <3>2. QED
        BY <1>1, <3>1 DEF SurvivorInv
    <2>3. QED
      BY <2>1, <2>2
  <1>3. ASSUME NEW s \in Requests, pc'[s] = "revoking", NEW t \in Tokens, Stored(t)'
        PROVE  t \in req'[s].doomed \/ t \in raced'
    BY <1>3 DEF SurvivorInv
  <1>4. SurvivorsWereUnderWay'
    BY <1>1 DEF SurvivorInv, SurvivorsWereUnderWay, Changing
  <1>5. QED
    BY <1>2, <1>3, <1>4 DEF SurvivorInv

\* A step of one request that leaves it neither signing in nor revoking.
LEMMA Aside ==
  ASSUME IInv, SurvivorInv, NEW r \in Requests,
         \A s \in Requests \ {r} : pc'[s] = pc[s] /\ req'[s] = req[s],
         pc[r] \notin {"revoke", "revoking"},
         pc'[r] \notin {"compare", "open", "temp", "read", "consume", "revoking"},
         raced \subseteq raced', account'.pw = account.pw, UNCHANGED born,
         \A t \in Tokens : Stored(t)' => Stored(t)
  PROVE  SurvivorInv'
  <1>1. ~Behind(r)'
    BY DEF Behind
  <1>2. QED
    BY <1>1, Quiet

\* A new token, of a request that had set out before.
LEMMA Minted ==
  ASSUME IInv, SurvivorInv, NEW r \in Requests, UNCHANGED req,
         pc[r] \in {"open", "rotating"}, Goto(r, "ok"),
         raced \subseteq raced', UNCHANGED account,
         \A t \in Tokens \ {r} : born'[t] = born[t] /\ (Stored(t)' => Stored(t)),
         born'[r] < account.pw => r \in raced' \/ Changing,
         Revoking => r \in raced'
  PROVE  SurvivorInv'
  <1>1. pc'[r] = "ok" /\ \A s \in Requests \ {r} : pc'[s] = pc[s]
    BY DEF Goto, IInv, TypeOK
  <1>2. Changing => Changing'
    BY <1>1 DEF Changing
  <1>3. ASSUME NEW s \in Requests, Behind(s)' PROVE s \in raced' \/ Changing'
    <2>1. s # r
      BY <1>1, <1>3 DEF Behind
    <2>2. Behind(s)
      BY <1>1, <1>3, <2>1 DEF Behind
    <2>3. QED
      BY <1>2, <2>2 DEF SurvivorInv
  <1>4. ASSUME NEW s \in Requests, pc'[s] = "revoking", NEW t \in Tokens, Stored(t)'
        PROVE  t \in req'[s].doomed \/ t \in raced'
    <2>1. s # r /\ pc[s] = "revoking"
      BY <1>1, <1>4
    <2>2. CASE t = r
      BY <2>1, <2>2 DEF Revoking
    <2>3. CASE t # r
      BY <1>4, <2>1, <2>3 DEF SurvivorInv
    <2>4. QED
      BY <2>2, <2>3
  <1>5. ASSUME NEW t \in Tokens, Stored(t)', born'[t] < account.pw PROVE t \in raced' \/ Changing'
    <2>1. CASE t = r
      BY <1>2, <1>5, <2>1
    <2>2. CASE t # r
      BY <1>2, <1>5, <2>2 DEF SurvivorInv, SurvivorsWereUnderWay, Changing
    <2>3. QED
      BY <2>1, <2>2
  <1>6. SurvivorsWereUnderWay'
    BY <1>5 DEF SurvivorsWereUnderWay, Changing
  <1>7. QED
    BY <1>3, <1>4, <1>6 DEF SurvivorInv

LEMMA InitSurvivor == Init => SurvivorInv
  <1> SUFFICES ASSUME Init PROVE SurvivorInv
    OBVIOUS
  <1>1. account.pw = 0 /\ \A t \in Tokens : born[t] = 0
    BY DEF Init
  <1>2. \A r \in Requests : pc[r] = "idle"
    BY DEF Init
  <1>3. QED
    BY <1>1, <1>2 DEF SurvivorInv, Behind, SurvivorsWereUnderWay

-----------------------------------------------------------------------------
(* The steps of a request that signs in, rotates or signs out.              *)

LEMMA LoginReadSpares ==
  ASSUME IInv, SurvivorInv, NEW r \in Requests, LoginRead(r) PROVE SurvivorInv'
  <1>1. PICK p \in {Wrong} \cup 0..account.pw, label \in {"refused", "compare"} :
          Begins(r, "login", p, Device, "", label) /\ UNCHANGED <<rowVars, historyVars>>
    BY DEF LoginRead
  <1>2. /\ p \in Nat \cup {Wrong} /\ Device \in Tokens /\ "" \in CodesUsed
        /\ label \in Steps /\ "login" \in Kinds
    BY PasswordsTyped DEF IInv, Tokens, CodesUsed, Steps, Finished, Kinds
  <1>3. /\ pc[r] = "idle" /\ pc'[r] = label /\ req'[r].seen = account
        /\ \A s \in Requests \ {r} : pc'[s] = pc[s] /\ req'[s] = req[s]
    BY <1>1, <1>2, Begun DEF IInv
  <1>4. /\ raced \subseteq raced' /\ account' = account /\ UNCHANGED born
        /\ \A t \in Tokens : Stored(t)' => Stored(t)
    BY <1>1 DEF rowVars, historyVars, Stored
  <1>5. ~Behind(r)'
    BY <1>3, <1>4, PasswordsTyped DEF Behind, IInv
  <1>6. QED
    BY <1>3, <1>4, <1>5, Quiet

LEMMA LoginCompareSpares ==
  ASSUME IInv, SurvivorInv, NEW r \in Requests, LoginCompare(r) PROVE SurvivorInv'
  <1>1. /\ pc[r] = "compare" /\ UNCHANGED <<tokens, links, req, born, raced, met, clash>>
        /\ account' \in {account,
                         [account EXCEPT !.attempts = 0, !.locked = "yes"],
                         [account EXCEPT !.attempts = req[r].seen.attempts + 1],
                         [account EXCEPT !.attempts = 0, !.locked = "no"]}
    BY DEF LoginCompare, LoginCompareUpTo
  <1>2. PICK label \in {"refused", "temp", "open"} :
          Goto(r, label) /\ (label = "refused" \/ req[r].pw = req[r].seen.pw)
    BY DEF LoginCompare, LoginCompareUpTo
  <1>3. pc'[r] = label /\ \A s \in Requests \ {r} : pc'[s] = pc[s] /\ req'[s] = req[s]
    BY <1>1, <1>2 DEF Goto, IInv, TypeOK
  <1>4. account'.pw = account.pw
    BY <1>1 DEF IInv, TypeOK, Account
  <1>5. ASSUME Behind(r)' PROVE r \in raced' \/ Changing
    <2>1. Behind(r)
      BY <1>1, <1>2, <1>3, <1>4, <1>5 DEF Behind
    <2>2. QED
      BY <1>1, <2>1 DEF SurvivorInv
  <1>6. raced \subseteq raced' /\ UNCHANGED born /\ \A t \in Tokens : Stored(t)' => Stored(t)
    BY <1>1 DEF Stored
  <1>7. QED
    BY <1>1, <1>2, <1>3, <1>4, <1>5, <1>6, Quiet

LEMMA LoginOpenSpares ==
  ASSUME IInv, SurvivorInv, NEW r \in Requests, LoginOpen(r) PROVE SurvivorInv'
  <1>1. /\ pc[r] = "open" /\ Goto(r, "ok") /\ UNCHANGED <<account, req>>
        /\ tokens' = [tokens EXCEPT ![r] = "live"] /\ born' = [born EXCEPT ![r] = req[r].pw]
        /\ raced' = IF Revoking THEN raced \cup {r} ELSE raced
    BY DEF LoginOpen, Mints
  <1>2. born'[r] = req[r].pw /\ \A t \in Tokens \ {r} : born'[t] = born[t] /\ (Stored(t)' => Stored(t))
    BY <1>1, PasswordsTyped DEF IInv, TypeOK, Stored
  <1>3. ASSUME born'[r] < account.pw PROVE r \in raced' \/ Changing
    <2>1. Behind(r)
      BY <1>1, <1>2, <1>3 DEF Behind
    <2>2. QED
      BY <1>1, <2>1 DEF SurvivorInv
  <1>4. raced \subseteq raced' /\ (Revoking => r \in raced')
    BY <1>1
  <1>5. QED
    BY <1>1, <1>2, <1>3, <1>4, Minted

LEMMA RefreshReadSpares ==
  ASSUME IInv, SurvivorInv, NEW r \in Requests, RefreshRead(r) PROVE SurvivorInv'
  <1>1. PICK t \in Tokens, label \in {"refused", "rotate"} :
          /\ Begins(r, "refresh", Wrong, t, "", label)
          /\ tokens' = tokens \/ tokens' = [tokens EXCEPT ![t] = "gone"]
          /\ UNCHANGED <<account, links, historyVars>>
    BY DEF RefreshRead
  <1>2. /\ Wrong \in Nat \cup {Wrong} /\ "" \in CodesUsed /\ label \in Steps /\ "refresh" \in Kinds
    BY DEF CodesUsed, Steps, Finished, Kinds
  <1>3. /\ pc[r] = "idle" /\ pc'[r] = label
        /\ \A s \in Requests \ {r} : pc'[s] = pc[s] /\ req'[s] = req[s]
    BY <1>1, <1>2, Begun DEF IInv
  <1>4. \A u \in Tokens : Stored(u)' => Stored(u)
    BY <1>1 DEF Stored, IInv, TypeOK
  <1>5. raced \subseteq raced' /\ account'.pw = account.pw /\ UNCHANGED born
    BY <1>1 DEF historyVars
  <1>6. QED
    BY <1>3, <1>4, <1>5, Aside

LEMMA RotateDeleteSpares ==
  ASSUME IInv, SurvivorInv, NEW r \in Requests, RotateDelete(r) PROVE SurvivorInv'
  <1>1. PICK label \in {"rotating", "refused"} :
          pc[r] = "rotate" /\ Goto(r, label) /\ UNCHANGED <<rowVars, req, historyVars>>
    BY DEF RotateDelete
  <1>2. pc'[r] = label /\ \A s \in Requests \ {r} : pc'[s] = pc[s] /\ req'[s] = req[s]
    BY <1>1 DEF Goto, IInv, TypeOK
  <1>3. /\ raced \subseteq raced' /\ account'.pw = account.pw /\ UNCHANGED born
        /\ \A t \in Tokens : Stored(t)' => Stored(t)
    BY <1>1 DEF rowVars, historyVars, Stored
  <1>4. QED
    BY <1>1, <1>2, <1>3, Aside

LEMMA RotateCommitSpares ==
  ASSUME IInv, SurvivorInv, NEW r \in Requests, RotateCommit(r) PROVE SurvivorInv'
  <1> DEFINE t == req[r].with
  <1>1. /\ pc[r] = "rotating" /\ Goto(r, "ok") /\ UNCHANGED <<account, req>>
        /\ tokens' = [tokens EXCEPT ![t] = "gone", ![r] = "live"]
        /\ born' = [born EXCEPT ![r] = born[t]]
        /\ raced' = IF t \in raced \/ Revoking THEN raced \cup {r} ELSE raced
    BY DEF RotateCommit
  <1>2. t \in Tokens /\ Stored(t)
    BY <1>1, PasswordsTyped DEF IInv, TokenInv
  <1>3. born'[r] = born[t] /\ \A u \in Tokens \ {r} : born'[u] = born[u] /\ (Stored(u)' => Stored(u))
    BY <1>1, <1>2, PasswordsTyped DEF IInv, TypeOK, Stored
  <1>4. ASSUME born'[r] < account.pw PROVE r \in raced' \/ Changing
    BY <1>1, <1>2, <1>3, <1>4 DEF SurvivorInv, SurvivorsWereUnderWay, Changing
  <1>5. raced \subseteq raced' /\ (Revoking => r \in raced')
    BY <1>1
  <1> HIDE DEF t
  <1>6. QED
    BY <1>1, <1>3, <1>4, <1>5, Minted

LEMMA LogoutSpares ==
  ASSUME IInv, SurvivorInv, NEW r \in Requests, Logout(r) PROVE SurvivorInv'
  <1>1. PICK t \in Tokens :
          /\ Begins(r, "logout", Wrong, t, "", "ok")
          /\ tokens' = [tokens EXCEPT ![t] = "gone"]
          /\ UNCHANGED <<account, links, historyVars>>
    BY DEF Logout
  <1>2. /\ Wrong \in Nat \cup {Wrong} /\ "" \in CodesUsed /\ "ok" \in Steps /\ "logout" \in Kinds
    BY DEF CodesUsed, Steps, Finished, Kinds
  <1>3. /\ pc[r] = "idle" /\ pc'[r] = "ok"
        /\ \A s \in Requests \ {r} : pc'[s] = pc[s] /\ req'[s] = req[s]
    BY <1>1, <1>2, Begun DEF IInv
  <1>4. \A u \in Tokens : Stored(u)' => Stored(u)
    BY <1>1 DEF Stored, IInv, TypeOK
  <1>5. raced \subseteq raced' /\ account'.pw = account.pw /\ UNCHANGED born
    BY <1>1 DEF historyVars
  <1>6. QED
    BY <1>3, <1>4, <1>5, Aside

-----------------------------------------------------------------------------
(* New passwords, deactivation, and the revocation they end with.           *)

LEMMA PasswordReadsSpare ==
  ASSUME IInv, SurvivorInv, NEW r \in Requests,
         ChangeRead(r) \/ ResetRead(r) \/ AdminResetRead(r) \/ ToggleRead(r)
  PROVE  SurvivorInv'
  <1>1. PICK kind \in {"change", "reset", "adminReset", "activate", "deactivate"},
             pw \in {Wrong} \cup 0..account.pw, with \in Tokens, label \in {"write", "refused"} :
          Begins(r, kind, pw, with, "", label) /\ UNCHANGED <<rowVars, historyVars>>
    <2>1. Device \in Tokens /\ Requests \subseteq Tokens
      BY DEF Tokens
    <2>2. CASE ChangeRead(r)
      BY <2>1, <2>2 DEF ChangeRead
    <2>3. CASE ResetRead(r)
      BY <2>1, <2>3 DEF ResetRead
    <2>4. CASE AdminResetRead(r)
      BY <2>1, <2>4 DEF AdminResetRead
    <2>5. CASE ToggleRead(r)
      BY <2>1, <2>5 DEF ToggleRead
    <2>6. QED
      BY <2>2, <2>3, <2>4, <2>5
  <1>2. pw \in Nat \cup {Wrong} /\ "" \in CodesUsed /\ label \in Steps /\ kind \in Kinds
    BY PasswordsTyped DEF IInv, CodesUsed, Steps, Finished, Kinds
  <1>3. /\ pc[r] = "idle" /\ pc'[r] = label
        /\ \A s \in Requests \ {r} : pc'[s] = pc[s] /\ req'[s] = req[s]
    BY <1>1, <1>2, Begun DEF IInv
  <1>4. /\ raced \subseteq raced' /\ account'.pw = account.pw /\ UNCHANGED born
        /\ \A t \in Tokens : Stored(t)' => Stored(t)
    BY <1>1 DEF rowVars, historyVars, Stored
  <1>5. QED
    BY <1>3, <1>4, Aside

\* A change of password has its revocation before it; a reset has not committed;
\* nobody else writes one.
LEMMA WriteSpares ==
  ASSUME IInv, SurvivorInv, NEW r \in Requests, Write(r) PROVE SurvivorInv'
  <1>1. /\ pc[r] = "write" /\ account' = (IF InTx(r) THEN account ELSE Written(r))
        /\ UNCHANGED <<tokens, links, req, historyVars>>
    BY DEF Write
  <1>2. PICK label \in {"ok", "revoke"} :
          Goto(r, label) /\ (req[r].kind # "activate" => label = "revoke")
    BY DEF Write
  <1>3. pc'[r] = label /\ \A s \in Requests \ {r} : pc'[s] = pc[s] /\ req'[s] = req[s]
    BY <1>1, <1>2 DEF Goto, IInv, TypeOK
  <1>4. raced' = raced /\ UNCHANGED born /\ \A t \in Tokens : Stored(t)' => Stored(t)
    BY <1>1 DEF historyVars, Stored
  <1>5. CASE req[r].kind = "change"
    <2>1. Changing'
      BY <1>1, <1>2, <1>3, <1>5 DEF Changing
    <2>2. ASSUME NEW s \in Requests, pc'[s] = "revoking", NEW t \in Tokens, Stored(t)'
          PROVE  t \in req'[s].doomed \/ t \in raced'
      BY <1>1, <1>3, <1>4, <2>2 DEF SurvivorInv
    <2>3. SurvivorsWereUnderWay'
      BY <2>1 DEF SurvivorsWereUnderWay, Changing
    <2>4. QED
      BY <2>1, <2>2, <2>3 DEF SurvivorInv
  <1>6. CASE req[r].kind # "change"
    <2>1. account'.pw = account.pw
      BY <1>1, <1>6 DEF InTx, Written, IInv, TypeOK, Account
    <2>2. QED
      BY <1>1, <1>3, <1>4, <2>1, Aside
  <1>7. QED
    BY <1>5, <1>6

\* Every token there is is among those chosen.
LEMMA RevokeScanSpares ==
  ASSUME IInv, SurvivorInv, NEW r \in Requests, RevokeScan(r) PROVE SurvivorInv'
  <1> DEFINE stored == {t \in Tokens : Stored(t)}
  <1>1. /\ pc[r] = "revoke" /\ pc' = [pc EXCEPT ![r] = "revoking"]
        /\ req' = [req EXCEPT ![r].doomed = stored]
        /\ raced \subseteq raced' /\ UNCHANGED <<rowVars, failures, born, met, clash>>
    BY DEF RevokeScan, Goto
  <1>2. /\ pc'[r] = "revoking" /\ req'[r].kind = req[r].kind
        /\ req'[r].doomed = stored
        /\ \A s \in Requests \ {r} : pc'[s] = pc[s] /\ req'[s] = req[s]
    <2> DEFINE q == [req[r] EXCEPT !.doomed = stored]
    <2>1. req' = [req EXCEPT ![r] = q] /\ req[r] \in Request /\ stored \in SUBSET Tokens
      BY <1>1 DEF IInv, TypeOK
    <2> HIDE DEF stored
    <2>2. q \in Request /\ q.kind = req[r].kind /\ q.doomed = stored
      BY <2>1 DEF Request
    <2> HIDE DEF q
    <2>3. QED
      BY <1>1, <2>1, <2>2 DEF IInv, TypeOK
  <1>3. account' = account /\ born' = born /\ \A t \in Tokens : Stored(t)' => Stored(t)
    BY <1>1 DEF rowVars, Stored
  <1>4. Changing => Changing'
    BY <1>2 DEF Changing
  <1>5. ASSUME NEW s \in Requests, Behind(s)' PROVE s \in raced' \/ Changing'
    <2>1. s # r
      BY <1>2, <1>5 DEF Behind
    <2>2. Behind(s)
      BY <1>2, <1>3, <1>5, <2>1 DEF Behind
    <2>3. QED
      BY <1>1, <1>4, <2>2 DEF SurvivorInv
  <1>6. ASSUME NEW s \in Requests, pc'[s] = "revoking", NEW t \in Tokens, Stored(t)'
        PROVE  t \in req'[s].doomed \/ t \in raced'
    <2>1. CASE s = r
      BY <1>2, <1>3, <1>6, <2>1
    <2>2. CASE s # r
      BY <1>1, <1>2, <1>3, <1>6, <2>2 DEF SurvivorInv
    <2>3. QED
      BY <2>1, <2>2
  <1>7. SurvivorsWereUnderWay'
    BY <1>1, <1>3, <1>4 DEF SurvivorInv, SurvivorsWereUnderWay, Changing
  <1>8. QED
    BY <1>5, <1>6, <1>7 DEF SurvivorInv

\* What is left after a revocation was stored while it ran, and whoever is on
\* the way has raced it.
LEMMA RevokeFinishSpares ==
  ASSUME IInv, SurvivorInv, NEW r \in Requests, RevokeFinish(r) PROVE SurvivorInv'
  <1>1. /\ pc[r] = "revoking" /\ Goto(r, "ok") /\ UNCHANGED <<req, failures, born, met, clash>>
        /\ tokens' = [t \in Tokens |-> IF t \in req[r].doomed THEN "gone" ELSE tokens[t]]
        /\ raced' = raced \cup {s \in Requests : UnderWay(s)}
    BY DEF RevokeFinish
  <1>2. pc'[r] = "ok" /\ \A s \in Requests \ {r} : pc'[s] = pc[s]
    BY <1>1 DEF Goto, IInv, TypeOK
  <1>3. \A t \in Tokens : Stored(t)' => Stored(t) /\ t \notin req[r].doomed
    BY <1>1 DEF Stored
  <1>4. ASSUME NEW s \in Requests, Behind(s)' PROVE s \in raced'
    <2>1. s # r /\ UnderWay(s)
      BY <1>2, <1>4 DEF Behind, UnderWay
    <2>2. QED
      BY <1>1, <2>1
  <1>5. \A t \in Tokens : Stored(t)' => t \in raced'
    BY <1>1, <1>3 DEF SurvivorInv
  <1>6. SurvivorsWereUnderWay'
    BY <1>5 DEF SurvivorsWereUnderWay
  <1>7. QED
    BY <1>4, <1>5, <1>6 DEF SurvivorInv

-----------------------------------------------------------------------------
(* Reset links, the second factor, time.                                    *)

LEMMA ForgotInvalidateSpares ==
  ASSUME IInv, SurvivorInv, NEW r \in Requests, ForgotInvalidate(r) PROVE SurvivorInv'
  <1>1. /\ Begins(r, "forgot", Wrong, Device, "", "create")
        /\ UNCHANGED <<account, tokens, failures, born, raced, clash>>
    BY DEF ForgotInvalidate
  <1>2. /\ Wrong \in Nat \cup {Wrong} /\ Device \in Tokens /\ "" \in CodesUsed
        /\ "create" \in Steps /\ "forgot" \in Kinds
    BY DEF Tokens, CodesUsed, Steps, Kinds
  <1>3. /\ pc[r] = "idle" /\ pc'[r] = "create"
        /\ \A s \in Requests \ {r} : pc'[s] = pc[s] /\ req'[s] = req[s]
    BY <1>1, <1>2, Begun DEF IInv
  <1>4. \A t \in Tokens : Stored(t)' => Stored(t)
    BY <1>1 DEF Stored
  <1>5. QED
    BY <1>1, <1>3, <1>4, Aside

LEMMA ForgotCreateSpares ==
  ASSUME IInv, SurvivorInv, NEW r \in Requests, ForgotCreate(r) PROVE SurvivorInv'
  <1>1. pc[r] = "create" /\ Goto(r, "ok") /\ UNCHANGED <<account, tokens, req, historyVars>>
    BY DEF ForgotCreate
  <1>2. pc'[r] = "ok" /\ \A s \in Requests \ {r} : pc'[s] = pc[s] /\ req'[s] = req[s]
    BY <1>1 DEF Goto, IInv, TypeOK
  <1>3. /\ raced \subseteq raced' /\ account'.pw = account.pw /\ UNCHANGED born
        /\ \A t \in Tokens : Stored(t)' => Stored(t)
    BY <1>1 DEF historyVars, Stored
  <1>4. QED
    BY <1>1, <1>2, <1>3, Aside

LEMMA ConfirmEnrollmentSpares ==
  ASSUME IInv, SurvivorInv, NEW r \in Requests, ConfirmEnrollment(r) PROVE SurvivorInv'
  <1>1. PICK l \in Requests, code \in {"right", "wrong"}, label \in {"ok", "refused"} :
          /\ Begins(r, "confirm", Wrong, l, code, label)
          /\ account' \in {account, [account EXCEPT !.totp = TRUE, !.codes = BackupCodes]}
          /\ UNCHANGED <<tokens, links, historyVars>>
    BY DEF ConfirmEnrollment
  <1>2. /\ Wrong \in Nat \cup {Wrong} /\ l \in Tokens /\ code \in CodesUsed
        /\ label \in Steps /\ "confirm" \in Kinds
    BY DEF Tokens, CodesUsed, Steps, Finished, Kinds
  <1>3. /\ pc[r] = "idle" /\ pc'[r] = label
        /\ \A s \in Requests \ {r} : pc'[s] = pc[s] /\ req'[s] = req[s]
    BY <1>1, <1>2, Begun DEF IInv
  <1>4. account'.pw = account.pw
    BY <1>1 DEF IInv, TypeOK, Account
  <1>5. raced \subseteq raced' /\ UNCHANGED born /\ \A t \in Tokens : Stored(t)' => Stored(t)
    BY <1>1 DEF historyVars, Stored
  <1>6. QED
    BY <1>3, <1>4, <1>5, Aside

\* The second factor goes on from a login, as far behind as that.
LEMMA VerifyReadSpares ==
  ASSUME IInv, SurvivorInv, NEW r \in Requests, VerifyRead(r) PROVE SurvivorInv'
  <1>1. PICK l \in Requests :
          /\ pc[l] = "temp"
          /\ \/ \E right \in BOOLEAN :
                  /\ Begins(r, "verify", req[l].pw, l, "",
                            IF account.totp /\ right THEN "open" ELSE "refused")
                  /\ UNCHANGED clash
             \/ \E i \in DOMAIN BackupCodes :
                  LET at == {j \in DOMAIN account.codes : account.codes[j] = BackupCodes[i]}
                  IN  /\ pc[r] = "idle"
                      /\ req' = [req EXCEPT ![r] =
                           [NoRequest EXCEPT !.kind = "verify", !.pw = req[l].pw, !.with = l,
                              !.code = BackupCodes[i],
                              !.index = IF at = {} THEN 0 ELSE CHOOSE j \in at : TRUE]]
                      /\ Goto(r, IF account.totp /\ at # {} THEN "read" ELSE "refused")
                      /\ clash' = (clash \/ \E s \in Requests : CheckingCode(s))
          /\ raced' = IF l \in raced THEN raced \cup {r} ELSE raced
          /\ UNCHANGED <<rowVars, failures, born, met>>
    BY DEF VerifyRead
  <1>2. /\ pc[r] = "idle" /\ req'[r].pw = req[l].pw /\ pc'[r] \in {"open", "read", "refused"}
        /\ \A s \in Requests \ {r} : pc'[s] = pc[s] /\ req'[s] = req[s]
    <2>1. ASSUME NEW right \in BOOLEAN,
                 Begins(r, "verify", req[l].pw, l, "", IF account.totp /\ right THEN "open" ELSE "refused")
          PROVE  <1>2!:
      <3>1. PICK label \in {"open", "refused"} : Begins(r, "verify", req[l].pw, l, "", label)
        BY <2>1
      <3>2. QED
        BY <3>1 DEF Begins, Goto, NoRequest, IInv, TypeOK
    <2>2. ASSUME NEW code, NEW n, NEW label \in {"read", "refused"}, pc[r] = "idle", Goto(r, label),
                 req' = [req EXCEPT ![r] =
                           [NoRequest EXCEPT !.kind = "verify", !.pw = req[l].pw, !.with = l,
                                             !.code = code, !.index = n]]
          PROVE  <1>2!:
      BY <2>2 DEF Goto, NoRequest, IInv, TypeOK
    <2>3. ASSUME NEW i \in DOMAIN BackupCodes,
                 LET at == {j \in DOMAIN account.codes : account.codes[j] = BackupCodes[i]}
                 IN  /\ pc[r] = "idle"
                     /\ req' = [req EXCEPT ![r] =
                          [NoRequest EXCEPT !.kind = "verify", !.pw = req[l].pw, !.with = l,
                             !.code = BackupCodes[i],
                             !.index = IF at = {} THEN 0 ELSE CHOOSE j \in at : TRUE]]
                     /\ Goto(r, IF account.totp /\ at # {} THEN "read" ELSE "refused")
          PROVE  <1>2!:
      <3> DEFINE at == {j \in DOMAIN account.codes : account.codes[j] = BackupCodes[i]}
                 n  == IF at = {} THEN 0 ELSE CHOOSE j \in at : TRUE
      <3>1. PICK label \in {"read", "refused"} : Goto(r, label)
        BY <2>3
      <3>2. req' = [req EXCEPT ![r] =
                      [NoRequest EXCEPT !.kind = "verify", !.pw = req[l].pw, !.with = l,
                                        !.code = BackupCodes[i], !.index = n]]
        BY <2>3
      <3> HIDE DEF n
      <3>3. QED
        BY <2>2, <2>3, <3>1, <3>2
    <2>4. QED
      BY <1>1, <2>1, <2>3
  <1>3. ASSUME Behind(r)' PROVE r \in raced' \/ Changing
    <2>1. Behind(l)
      BY <1>1, <1>2, <1>3 DEF Behind, rowVars
    <2>2. QED
      BY <1>1, <2>1 DEF SurvivorInv
  <1>4. /\ raced \subseteq raced' /\ account'.pw = account.pw /\ UNCHANGED born
        /\ \A t \in Tokens : Stored(t)' => Stored(t)
    BY <1>1 DEF rowVars, Stored
  <1>5. QED
    BY <1>2, <1>3, <1>4, Quiet

LEMMA ConsumeReadSpares ==
  ASSUME IInv, SurvivorInv, NEW r \in Requests, ConsumeRead(r) PROVE SurvivorInv'
  <1>1. /\ pc[r] = "read" /\ Goto(r, "consume")
        /\ req' = [req EXCEPT ![r].seen = account] /\ UNCHANGED <<rowVars, historyVars>>
    BY DEF ConsumeRead
  <1>2. /\ pc'[r] = "consume" /\ req'[r].pw = req[r].pw
        /\ \A s \in Requests \ {r} : pc'[s] = pc[s] /\ req'[s] = req[s]
    BY <1>1 DEF Goto, IInv, TypeOK, Request
  <1>3. /\ raced = raced' /\ account' = account /\ UNCHANGED born
        /\ \A t \in Tokens : Stored(t)' => Stored(t)
    BY <1>1 DEF rowVars, historyVars, Stored
  <1>4. ASSUME Behind(r)' PROVE r \in raced' \/ Changing
    BY <1>1, <1>2, <1>3, <1>4 DEF Behind, SurvivorInv
  <1>5. QED
    BY <1>1, <1>2, <1>3, <1>4, Quiet

LEMMA ConsumeWriteSpares ==
  ASSUME IInv, SurvivorInv, NEW r \in Requests, ConsumeWrite(r) PROVE SurvivorInv'
  <1>1. PICK rest :
          /\ pc[r] = "consume" /\ Goto(r, "open")
          /\ account' = [account EXCEPT !.codes = rest] /\ UNCHANGED <<tokens, links, req, historyVars>>
    BY DEF ConsumeWrite
  <1>2. pc'[r] = "open" /\ \A s \in Requests \ {r} : pc'[s] = pc[s] /\ req'[s] = req[s]
    BY <1>1 DEF Goto, IInv, TypeOK
  <1>3. /\ raced = raced' /\ account'.pw = account.pw /\ UNCHANGED born
        /\ \A t \in Tokens : Stored(t)' => Stored(t)
    BY <1>1 DEF historyVars, Stored, IInv, TypeOK, Account
  <1>4. ASSUME Behind(r)' PROVE r \in raced' \/ Changing
    BY <1>1, <1>2, <1>3, <1>4 DEF Behind, SurvivorInv
  <1>5. QED
    BY <1>1, <1>2, <1>3, <1>4, Quiet

\* Time stores no token, and the administrator's deactivation of a showroom
\* writes no password.
LEMMA TimeSpares ==
  ASSUME IInv, SurvivorInv, LockLapses \/ TokenExpires \/ LinkExpires \/ ShowroomDeactivated
  PROVE  SurvivorInv'
  <1>1. /\ UNCHANGED <<pc, req, historyVars>> /\ account'.pw = account.pw
        /\ \A t \in Tokens : Stored(t)' => Stored(t)
    <2>1. CASE LockLapses
      BY <2>1 DEF LockLapses, Stored, IInv, TypeOK, Account
    <2>2. CASE TokenExpires
      BY <2>2 DEF TokenExpires, Stored, IInv, TypeOK
    <2>3. CASE LinkExpires
      BY <2>3 DEF LinkExpires, Stored
    <2>4. CASE ShowroomDeactivated
      BY <2>4 DEF ShowroomDeactivated, Stored, IInv, TypeOK, Account
    <2>5. QED
      BY <2>1, <2>2, <2>3, <2>4
  <1>2. Changing' = Changing /\ \A s \in Requests : Behind(s)' = Behind(s)
    BY <1>1 DEF Changing, Behind
  <1>3. SurvivorsWereUnderWay'
    BY <1>1 DEF SurvivorInv, SurvivorsWereUnderWay, historyVars
  <1>4. QED
    BY <1>1, <1>2, <1>3 DEF SurvivorInv, historyVars

LEMMA NextSpares == IInv /\ SurvivorInv /\ [Next]_vars => SurvivorInv'
  <1> SUFFICES ASSUME IInv, SurvivorInv, [Next]_vars PROVE SurvivorInv'
    OBVIOUS
  <1>1. ASSUME NEW r \in Requests,
               \/ LoginRead(r) \/ LoginCompare(r) \/ LoginOpen(r)
               \/ RefreshRead(r) \/ RotateDelete(r) \/ RotateCommit(r) \/ Logout(r)
        PROVE  SurvivorInv'
    BY <1>1, LoginReadSpares, LoginCompareSpares, LoginOpenSpares, RefreshReadSpares,
       RotateDeleteSpares, RotateCommitSpares, LogoutSpares
  <1>2. ASSUME NEW r \in Requests,
               \/ ChangeRead(r) \/ ResetRead(r) \/ AdminResetRead(r) \/ ToggleRead(r)
               \/ Write(r) \/ RevokeScan(r) \/ RevokeFinish(r)
        PROVE  SurvivorInv'
    BY <1>2, PasswordReadsSpare, WriteSpares, RevokeScanSpares, RevokeFinishSpares
  <1>3. ASSUME NEW r \in Requests,
               \/ ForgotInvalidate(r) \/ ForgotCreate(r)
               \/ ConfirmEnrollment(r) \/ VerifyRead(r) \/ ConsumeRead(r) \/ ConsumeWrite(r)
        PROVE  SurvivorInv'
    BY <1>3, ForgotInvalidateSpares, ForgotCreateSpares, ConfirmEnrollmentSpares, VerifyReadSpares,
       ConsumeReadSpares, ConsumeWriteSpares
  <1>4. CASE LockLapses \/ TokenExpires \/ LinkExpires \/ ShowroomDeactivated
    BY <1>4, TimeSpares
  <1>5. CASE UNCHANGED vars
    BY <1>5 DEF vars, SurvivorInv, Behind, Changing, Stored, SurvivorsWereUnderWay
  <1>6. QED
    BY <1>1, <1>2, <1>3, <1>4, <1>5 DEF Next, AllAnswered

\* A session of an earlier password outlives the revocation of a change or a
\* reset only if its request was under way while the rows were being deleted.
THEOREM SurvivorsRaced == Spec => []SurvivorsWereUnderWay
  <1>1. Init => IInv /\ SurvivorInv
    BY InitIInv, InitSurvivor
  <1>2. (IInv /\ SurvivorInv) /\ [Next]_vars => (IInv /\ SurvivorInv)'
    BY NextKeeps, NextSpares
  <1>3. IInv /\ SurvivorInv => SurvivorsWereUnderWay
    BY DEF SurvivorInv
  <1>4. QED
    BY <1>1, <1>2, <1>3, PTL DEF Spec

-----------------------------------------------------------------------------
(* Reset links that work together.                                          *)

\* What the invariant asks of a step that is not of a request for a link.
LEMMA NoLink ==
  ASSUME LinkInv, met' = met,
         \A s \in Requests : pc'[s] = "create" => pc[s] = "create",
         \A s \in Requests : links'[s] = "open" => links[s] = "open"
  PROVE  LinkInv'
  BY DEF LinkInv, OpenLinksMet

\* Whoever comes between the two statements has just marked the links that were
\* open, and meets those who are there.
LEMMA ForgotInvalidateMeets ==
  ASSUME IInv, LinkInv, NEW r \in Requests, ForgotInvalidate(r) PROVE LinkInv'
  <1>1. /\ pc' = [pc EXCEPT ![r] = "create"]
        /\ links' = [l \in Requests |-> IF links[l] \in {"open", "late"} THEN "used" ELSE links[l]]
        /\ met' = met \cup {{r, s} : s \in {q \in Requests : pc[q] = "create"}}
    BY DEF ForgotInvalidate, Begins, Goto
  <1>2. \A l \in Requests : links'[l] # "open"
    BY <1>1
  <1>3. \A s \in Requests \ {r} : pc'[s] = pc[s]
    BY <1>1 DEF IInv, TypeOK
  <1>4. ASSUME NEW s \in Requests, pc[s] = "create" PROVE {r, s} \in met' /\ {s, r} \in met'
    <2>1. {r, s} \in met' /\ {s, r} = {r, s}
      BY <1>1, <1>4
    <2>2. QED
      BY <2>1
  <1>5. ASSUME NEW l \in Requests, NEW m \in Requests, pc'[l] = "create", pc'[m] = "create"
        PROVE  l = m \/ {l, m} \in met'
    <2>1. CASE l # r /\ m # r
      BY <1>1, <1>3, <1>5, <2>1 DEF LinkInv
    <2>2. CASE l = r /\ m # r
      BY <1>3, <1>4, <1>5, <2>2
    <2>3. CASE l # r /\ m = r
      BY <1>3, <1>4, <1>5, <2>3
    <2>4. QED
      BY <2>1, <2>2, <2>3
  <1>6. QED
    BY <1>2, <1>5 DEF LinkInv, OpenLinksMet

\* A new link is open beside those of requests that were met.
LEMMA ForgotCreateMeets ==
  ASSUME IInv, LinkInv, NEW r \in Requests, ForgotCreate(r) PROVE LinkInv'
  <1>1. /\ pc[r] = "create" /\ pc' = [pc EXCEPT ![r] = "ok"]
        /\ links' = [links EXCEPT ![r] = "open"] /\ met' = met
    BY DEF ForgotCreate, Goto, historyVars
  <1>2. /\ pc'[r] = "ok" /\ links'[r] = "open"
        /\ \A s \in Requests \ {r} : pc'[s] = pc[s] /\ links'[s] = links[s]
    BY <1>1 DEF IInv, TypeOK
  <1>3. ASSUME NEW l \in Requests, NEW m \in Requests, pc'[l] = "create", links'[m] = "open"
        PROVE  l = m \/ {l, m} \in met'
    BY <1>1, <1>2, <1>3 DEF LinkInv
  <1>4. ASSUME NEW l \in Requests, NEW m \in Requests, links'[l] = "open", links'[m] = "open"
        PROVE  l = m \/ {l, m} \in met'
    <2>1. CASE l # r /\ m # r
      BY <1>1, <1>2, <1>4, <2>1 DEF LinkInv, OpenLinksMet
    <2>2. CASE l = r /\ m # r
      BY <1>1, <1>2, <1>4, <2>2 DEF LinkInv
    <2>3. CASE l # r /\ m = r
      <3>1. {r, l} \in met /\ {r, l} = {l, r}
        BY <1>1, <1>2, <1>4, <2>3 DEF LinkInv
      <3>2. QED
        BY <1>1, <2>3, <3>1
    <2>4. QED
      BY <2>1, <2>2, <2>3
  <1>5. QED
    BY <1>1, <1>2, <1>3, <1>4 DEF LinkInv, OpenLinksMet

LEMMA NextMeets == IInv /\ LinkInv /\ [Next]_vars => LinkInv'
  <1> SUFFICES ASSUME IInv, LinkInv, [Next]_vars PROVE LinkInv'
    OBVIOUS
  <1>1. ASSUME NEW r \in Requests, NEW label, label # "create", pc' = [pc EXCEPT ![r] = label],
               met' = met, UNCHANGED links
        PROVE  LinkInv'
    BY <1>1, NoLink DEF IInv, TypeOK
  <1>2. ASSUME NEW r \in Requests,
               \/ LoginRead(r) \/ LoginCompare(r) \/ LoginOpen(r)
               \/ RefreshRead(r) \/ RotateDelete(r) \/ RotateCommit(r) \/ Logout(r)
        PROVE  LinkInv'
    <2>1. CASE LoginRead(r)
      BY <1>1, <2>1 DEF LoginRead, Begins, Goto, rowVars, historyVars
    <2>2. CASE LoginCompare(r)
      BY <1>1, <2>2 DEF LoginCompare, LoginCompareUpTo, Goto
    <2>3. CASE LoginOpen(r)
      BY <1>1, <2>3 DEF LoginOpen, Goto
    <2>4. CASE RefreshRead(r)
      BY <1>1, <2>4 DEF RefreshRead, Begins, Goto, historyVars
    <2>5. CASE RotateDelete(r)
      BY <1>1, <2>5 DEF RotateDelete, Goto, rowVars, historyVars
    <2>6. CASE RotateCommit(r)
      BY <1>1, <2>6 DEF RotateCommit, Goto
    <2>7. CASE Logout(r)
      BY <1>1, <2>7 DEF Logout, Begins, Goto, historyVars
    <2>8. QED
      BY <1>2, <2>1, <2>2, <2>3, <2>4, <2>5, <2>6, <2>7
  <1>3. ASSUME NEW r \in Requests,
               \/ ChangeRead(r) \/ ResetRead(r) \/ AdminResetRead(r) \/ ToggleRead(r)
               \/ Write(r) \/ RevokeScan(r)
        PROVE  LinkInv'
    <2>1. CASE ChangeRead(r)
      BY <1>1, <2>1 DEF ChangeRead, Begins, Goto, rowVars, historyVars
    <2>2. CASE ResetRead(r)
      BY <1>1, <2>2 DEF ResetRead, Begins, Goto, rowVars, historyVars
    <2>3. CASE AdminResetRead(r)
      BY <1>1, <2>3 DEF AdminResetRead, Begins, Goto, rowVars, historyVars
    <2>4. CASE ToggleRead(r)
      BY <1>1, <2>4 DEF ToggleRead, Begins, Goto, rowVars, historyVars
    <2>5. CASE Write(r)
      BY <1>1, <2>5 DEF Write, Goto, historyVars
    <2>6. CASE RevokeScan(r)
      BY <1>1, <2>6 DEF RevokeScan, Goto, rowVars
    <2>7. QED
      BY <1>3, <2>1, <2>2, <2>3, <2>4, <2>5, <2>6
  <1>4. ASSUME NEW r \in Requests, RevokeFinish(r) PROVE LinkInv'
    <2>1. /\ pc' = [pc EXCEPT ![r] = "ok"] /\ met' = met
          /\ links' = IF req[r].kind = "reset" THEN [links EXCEPT ![req[r].with] = "used"] ELSE links
      BY <1>4 DEF RevokeFinish, Goto
    <2>2. /\ \A s \in Requests : pc'[s] = "create" => pc[s] = "create"
          /\ \A s \in Requests : links'[s] = "open" => links[s] = "open"
      BY <2>1 DEF IInv, TypeOK
    <2>3. QED
      BY <2>1, <2>2, NoLink
  <1>5. ASSUME NEW r \in Requests,
               ConfirmEnrollment(r) \/ VerifyRead(r) \/ ConsumeRead(r) \/ ConsumeWrite(r)
        PROVE  LinkInv'
    <2>1. CASE ConfirmEnrollment(r)
      BY <1>1, <2>1 DEF ConfirmEnrollment, Begins, Goto, historyVars
    <2>2. CASE VerifyRead(r)
      BY <1>1, <2>2 DEF VerifyRead, Begins, Goto, rowVars
    <2>3. CASE ConsumeRead(r)
      BY <1>1, <2>3 DEF ConsumeRead, Goto, rowVars, historyVars
    <2>4. CASE ConsumeWrite(r)
      BY <1>1, <2>4 DEF ConsumeWrite, Goto, historyVars
    <2>5. QED
      BY <1>5, <2>1, <2>2, <2>3, <2>4
  <1>6. CASE LockLapses \/ TokenExpires \/ LinkExpires \/ ShowroomDeactivated
    <2>1. /\ pc' = pc /\ met' = met
          /\ \A s \in Requests : links'[s] = "open" => links[s] = "open"
      BY <1>6 DEF LockLapses, TokenExpires, LinkExpires, ShowroomDeactivated, historyVars, IInv, TypeOK
    <2>2. QED
      BY <2>1, NoLink
  <1>7. CASE UNCHANGED vars
    BY <1>7, NoLink DEF vars
  <1>8. QED
    BY <1>2, <1>3, <1>4, <1>5, <1>6, <1>7, ForgotInvalidateMeets, ForgotCreateMeets DEF Next, AllAnswered

\* Two reset links of forgotPassword work at the same time only if their requests
\* were both between marking the earlier links used and storing their own.
THEOREM LinksMet == Spec => []OpenLinksMet
  <1>1. Init => IInv /\ LinkInv
    BY InitIInv DEF Init, LinkInv, OpenLinksMet
  <1>2. (IInv /\ LinkInv) /\ [Next]_vars => (IInv /\ LinkInv)'
    BY NextKeeps, NextMeets
  <1>3. IInv /\ LinkInv => OpenLinksMet
    BY DEF LinkInv
  <1>4. QED
    BY <1>1, <1>2, <1>3, PTL DEF Spec

-----------------------------------------------------------------------------
(* Backup codes.                                                            *)

\* A list without the place i keeps what the others had, and no value comes in.
LEMMA RemovedElements ==
  ASSUME NEW S, NEW s \in Seq(S), NEW i \in DOMAIN s,
         \A j, k \in DOMAIN s : s[j] = s[k] => j = k
  PROVE  /\ Range(RemoveAt(s, i)) \subseteq Range(s) \ {s[i]}
         /\ \A j, k \in DOMAIN RemoveAt(s, i) : RemoveAt(s, i)[j] = RemoveAt(s, i)[k] => j = k
  <1> DEFINE front == SubSeq(s, 1, i - 1)
             back  == SubSeq(s, i + 1, Len(s))
             rest  == front \o back
             at(j) == IF j < i THEN j ELSE j + 1
  <1>1. /\ Len(s) \in Nat /\ i \in 1..Len(s) /\ DOMAIN s = 1..Len(s)
        /\ i \in Int /\ 1 <= i /\ i <= Len(s)
    OBVIOUS
  <1>2. /\ front \in Seq(S) /\ Len(front) = i - 1
        /\ \A j \in 1..(i - 1) : front[j] = s[j]
    BY <1>1, SubSeqProperties
  <1>3. /\ back \in Seq(S) /\ Len(back) = Len(s) - i
        /\ \A j \in 1..(Len(s) - i) : back[j] = s[i + j]
    BY <1>1, SubSeqProperties
  <1> HIDE DEF front, back
  <1>4. /\ rest \in Seq(S) /\ Len(rest) = Len(s) - 1
        /\ \A j \in 1..Len(rest) : rest[j] = IF j <= i - 1 THEN front[j] ELSE back[j - (i - 1)]
    <2>1. /\ rest \in Seq(S) /\ Len(rest) = Len(front) + Len(back)
          /\ \A j \in 1..(Len(front) + Len(back)) :
               rest[j] = IF j <= Len(front) THEN front[j] ELSE back[j - Len(front)]
      <3>1. front \in Seq(S) /\ back \in Seq(S)
        BY <1>2, <1>3
      <3>2. QED
        BY <3>1, ConcatProperties, Zenon
    <2> HIDE DEF rest
    <2>2. QED
      BY <1>1, <1>2, <1>3, <2>1
  <1> HIDE DEF rest
  <1>5. ASSUME NEW j \in DOMAIN rest
        PROVE  at(j) \in DOMAIN s /\ at(j) # i /\ rest[j] = s[at(j)]
    <2>1. j \in 1..Len(rest) /\ j \in Int /\ 1 <= j /\ j <= Len(s) - 1
      BY <1>1, <1>4
    <2>2. CASE j < i
      BY <1>1, <1>2, <1>4, <2>1, <2>2
    <2>3. CASE ~(j < i)
      <3>1. j - (i - 1) \in 1..(Len(s) - i) /\ i + (j - (i - 1)) = j + 1
        BY <1>1, <2>1, <2>3
      <3>2. back[j - (i - 1)] = s[j + 1]
        BY <1>3, <3>1
      <3>3. QED
        BY <1>1, <1>4, <2>1, <2>3, <3>2
    <2>4. QED
      BY <2>2, <2>3
  <1>6. \A j \in DOMAIN rest : j \in Int
    BY <1>1, <1>4
  <1>7. \A j, k \in DOMAIN rest : at(j) = at(k) => j = k
    BY <1>1, <1>6
  <1> HIDE DEF at
  <1>8. \A j, k \in DOMAIN rest : rest[j] = rest[k] => j = k
    BY <1>5, <1>7
  <1>9. Range(rest) \subseteq Range(s) \ {s[i]}
    BY <1>5 DEF Range
  <1>10. RemoveAt(s, i) = rest
    BY DEF RemoveAt, rest, front, back
  <1>11. QED
    BY <1>8, <1>9, <1>10

LEMMA CodesTyped ==
  ASSUME TypeOK
  PROVE  /\ account.codes \in Seq(Range(BackupCodes)) /\ "" \notin Range(account.codes)
         /\ \A r \in Requests : req[r].seen.codes \in Seq(Range(BackupCodes))
  <1>1. /\ account.codes \in Seq(Range(BackupCodes))
        /\ \A r \in Requests : req[r].seen.codes \in Seq(Range(BackupCodes))
    BY DEF TypeOK, Account, Request
  <1>2. Range(account.codes) \subseteq Range(BackupCodes)
    BY <1>1 DEF Range
  <1>3. "" \notin Range(account.codes)
    BY <1>2, CodesAssumption
  <1>4. QED
    BY <1>1, <1>3

\* What the invariant asks of a step that reads no code and writes none.
LEMMA CodesKept ==
  ASSUME CodeInv, NEW r \in Requests, account'.codes = account.codes, clash' = clash,
         \A s \in Requests \ {r} : pc'[s] = pc[s] /\ req'[s] = req[s],
         pc'[r] \notin {"read", "consume"},
         req'[r].kind = "verify" =>
           /\ pc'[r] \in {"open", "ok", "refused"}
           /\ pc'[r] # "refused" => clash \/ req'[r].code \notin Range(account.codes)
  PROVE  CodeInv'
  <1>1. clash \/ \A i, j \in DOMAIN account'.codes : account'.codes[i] = account'.codes[j] => i = j
    BY DEF CodeInv
  <1>2. \A s \in Requests :
          req'[s].kind = "verify" => pc'[s] \in {"read", "consume", "open", "ok", "refused"}
    BY DEF CodeInv
  <1>3. ASSUME ~clash, NEW s \in Requests, pc'[s] \in {"read", "consume"}
        PROVE  /\ \A q \in Requests : pc'[q] \in {"read", "consume"} => q = s
               /\ req'[s].index \in DOMAIN account'.codes
               /\ account'.codes[req'[s].index] = req'[s].code
               /\ pc'[s] = "consume" => req'[s].seen.codes = account'.codes
    <2>1. s # r /\ pc[s] \in {"read", "consume"} /\ pc'[s] = pc[s] /\ req'[s] = req[s]
      BY <1>3
    <2>2. \A q \in Requests : pc'[q] \in {"read", "consume"} => pc[q] \in {"read", "consume"}
      OBVIOUS
    <2>3. QED
      BY <1>3, <2>1, <2>2 DEF CodeInv
  <1>4. UsedCodesAreGone'
    BY DEF CodeInv, UsedCodesAreGone
  <1>5. QED
    BY <1>1, <1>2, <1>3, <1>4 DEF CodeInv

\* A request that arrives for anything but the second factor.
LEMMA OtherBegins ==
  ASSUME IInv, CodeInv, NEW r \in Requests, NEW kind \in Kinds \ {"verify"},
         NEW pw \in Nat \cup {Wrong}, NEW with \in Tokens, NEW code \in CodesUsed,
         NEW label \in Steps \ {"read", "consume"}, Begins(r, kind, pw, with, code, label),
         account'.codes = account.codes, clash' = clash
  PROVE  CodeInv'
  <1>1. /\ req'[r].kind = kind /\ pc'[r] = label
        /\ \A s \in Requests \ {r} : pc'[s] = pc[s] /\ req'[s] = req[s]
    BY Begun DEF IInv
  <1>2. QED
    BY <1>1, CodesKept

LEMMA ReadsSpareCodes ==
  ASSUME IInv, CodeInv, NEW r \in Requests,
         \/ LoginRead(r) \/ RefreshRead(r) \/ Logout(r) \/ ForgotInvalidate(r)
         \/ ChangeRead(r) \/ ResetRead(r) \/ AdminResetRead(r) \/ ToggleRead(r)
  PROVE  CodeInv'
  <1>0. Device \in Tokens /\ Requests \subseteq Tokens
    BY DEF Tokens
  <1>1. PICK kind \in Kinds \ {"none", "confirm", "verify"}, pw \in {Wrong} \cup 0..account.pw,
             with \in Tokens, label \in {"refused", "compare", "rotate", "ok", "write", "create"} :
          Begins(r, kind, pw, with, "", label) /\ UNCHANGED <<account, clash>>
    <2>1. CASE LoginRead(r)
      BY <1>0, <2>1 DEF LoginRead, rowVars, historyVars, Kinds
    <2>2. CASE RefreshRead(r)
      BY <2>2 DEF RefreshRead, historyVars, Kinds
    <2>3. CASE Logout(r)
      BY <2>3 DEF Logout, historyVars, Kinds
    <2>4. CASE ForgotInvalidate(r)
      BY <1>0, <2>4 DEF ForgotInvalidate, Kinds
    <2>5. CASE ChangeRead(r)
      BY <1>0, <2>5 DEF ChangeRead, rowVars, historyVars, Kinds
    <2>6. CASE ResetRead(r)
      BY <1>0, <2>6 DEF ResetRead, rowVars, historyVars, Kinds
    <2>7. CASE AdminResetRead(r)
      BY <1>0, <2>7 DEF AdminResetRead, rowVars, historyVars, Kinds
    <2>8. CASE ToggleRead(r)
      BY <1>0, <2>8 DEF ToggleRead, rowVars, historyVars, Kinds
    <2>9. QED
      BY <2>1, <2>2, <2>3, <2>4, <2>5, <2>6, <2>7, <2>8
  <1>2. /\ pw \in Nat \cup {Wrong} /\ "" \in CodesUsed /\ kind \in Kinds \ {"verify"}
        /\ label \in Steps \ {"read", "consume"}
    BY PasswordsTyped DEF IInv, CodesUsed, Steps, Finished
  <1>3. QED
    BY <1>1, <1>2, OtherBegins

\* A request that goes on, to its session or to anything else.
LEMMA OtherMoves ==
  ASSUME IInv, CodeInv, NEW r \in Requests, NEW label, label \notin {"read", "consume"},
         pc[r] \notin {"read", "consume", "ok", "refused"}, pc[r] = "open" => label = "ok",
         Goto(r, label), \A s \in Requests : req'[s].kind = req[s].kind /\ req'[s].code = req[s].code,
         \A s \in Requests \ {r} : req'[s] = req[s],
         account'.codes = account.codes, clash' = clash
  PROVE  CodeInv'
  <1>1. pc'[r] = label /\ \A s \in Requests \ {r} : pc'[s] = pc[s]
    BY DEF Goto, IInv, TypeOK
  <1>2. ASSUME req'[r].kind = "verify"
        PROVE  pc'[r] = "ok" /\ (clash \/ req'[r].code \notin Range(account.codes))
    <2>1. pc[r] = "open" /\ req[r].kind = "verify"
      BY <1>2 DEF CodeInv
    <2>2. clash \/ req[r].code \notin Range(account.codes)
      BY <2>1 DEF CodeInv, UsedCodesAreGone
    <2>3. QED
      BY <1>1, <2>1, <2>2
  <1>3. QED
    BY <1>1, <1>2, CodesKept

LEMMA SigningSparesCodes ==
  ASSUME IInv, CodeInv, NEW r \in Requests,
         LoginCompare(r) \/ LoginOpen(r) \/ RotateDelete(r) \/ RotateCommit(r) \/ ForgotCreate(r)
  PROVE  CodeInv'
  <1>1. CASE LoginCompare(r)
    <2>1. /\ pc[r] = "compare" /\ UNCHANGED <<tokens, links, req, born, raced, met, clash>>
          /\ account' \in {account,
                           [account EXCEPT !.attempts = 0, !.locked = "yes"],
                           [account EXCEPT !.attempts = req[r].seen.attempts + 1],
                           [account EXCEPT !.attempts = 0, !.locked = "no"]}
      BY <1>1 DEF LoginCompare, LoginCompareUpTo
    <2>2. PICK label \in {"refused", "temp", "open"} : Goto(r, label)
      BY <1>1 DEF LoginCompare, LoginCompareUpTo
    <2>3. account'.codes = account.codes
      BY <2>1 DEF IInv, TypeOK, Account
    <2>4. QED
      BY <2>1, <2>2, <2>3, OtherMoves
  <1>2. CASE LoginOpen(r)
    BY <1>2, OtherMoves DEF LoginOpen
  <1>3. CASE RotateDelete(r)
    <2>1. PICK label \in {"rotating", "refused"} : Goto(r, label)
      BY <1>3 DEF RotateDelete
    <2>2. QED
      BY <1>3, <2>1, OtherMoves DEF RotateDelete, rowVars, historyVars
  <1>4. CASE RotateCommit(r)
    BY <1>4, OtherMoves DEF RotateCommit
  <1>5. CASE ForgotCreate(r)
    BY <1>5, OtherMoves DEF ForgotCreate, historyVars
  <1>6. QED
    BY <1>1, <1>2, <1>3, <1>4, <1>5

LEMMA WrittenCodes ==
  ASSUME TypeOK, NEW r \in Requests PROVE Written(r).codes = account.codes
  BY DEF TypeOK, Account, Written

LEMMA PasswordsSpareCodes ==
  ASSUME IInv, CodeInv, NEW r \in Requests, Write(r) \/ RevokeScan(r) \/ RevokeFinish(r)
  PROVE  CodeInv'
  <1>1. CASE Write(r)
    <2>1. /\ pc[r] = "write" /\ req' = req /\ clash' = clash
          /\ account' = account \/ account' = Written(r)
      BY <1>1 DEF Write, historyVars
    <2>2. PICK label \in {"ok", "revoke"} : Goto(r, label)
      BY <1>1 DEF Write
    <2>3. account'.codes = account.codes
      BY <2>1, WrittenCodes DEF IInv
    <2>4. QED
      BY <2>1, <2>2, <2>3, OtherMoves
  <1>2. CASE RevokeScan(r)
    <2>1. /\ pc[r] = "revoke" /\ Goto(r, "revoking") /\ account' = account /\ clash' = clash
          /\ req' = [req EXCEPT ![r].doomed = {t \in Tokens : Stored(t)}]
      BY <1>2 DEF RevokeScan, rowVars
    <2>2. /\ \A s \in Requests : req'[s].kind = req[s].kind /\ req'[s].code = req[s].code
          /\ \A s \in Requests \ {r} : req'[s] = req[s]
      <3> DEFINE stored == {t \in Tokens : Stored(t)}
      <3>1. req' = [req EXCEPT ![r].doomed = stored]
        BY <2>1
      <3>2. req[r] \in Request /\ stored \in SUBSET Tokens
        BY DEF IInv, TypeOK
      <3> DEFINE q == [req[r] EXCEPT !.doomed = stored]
      <3> HIDE DEF stored
      <3>3. q.kind = req[r].kind /\ q.code = req[r].code
        BY <3>2 DEF Request
      <3>4. req' = [req EXCEPT ![r] = q]
        BY <3>1
      <3> HIDE DEF q
      <3>5. QED
        BY <3>3, <3>4 DEF IInv, TypeOK
    <2>3. QED
      BY <2>1, <2>2, OtherMoves
  <1>3. CASE RevokeFinish(r)
    <2>1. /\ pc[r] = "revoking" /\ Goto(r, "ok") /\ req' = req /\ clash' = clash
          /\ account' = account \/ account' = Written(r)
      BY <1>3 DEF RevokeFinish
    <2>2. account'.codes = account.codes
      BY <2>1, WrittenCodes DEF IInv
    <2>3. QED
      BY <2>1, <2>2, OtherMoves
  <1>4. QED
    BY <1>1, <1>2, <1>3

\* The body of a confirmation has no secret once it is validated.
LEMMA ConfirmEnrollmentSparesCodes ==
  ASSUME IInv, CodeInv, NEW r \in Requests, ConfirmEnrollment(r) PROVE CodeInv'
  <1>1. ASSUME NEW body PROVE "secret" \notin DOMAIN ValidatedBody(body)
    BY DEF ValidatedBody
  <1>2. PICK l \in Requests, code \in {"right", "wrong"}, label \in {"ok", "refused"} :
          Begins(r, "confirm", Wrong, l, code, label) /\ UNCHANGED <<account, clash>>
    BY <1>1 DEF ConfirmEnrollment, historyVars
  <1>3. /\ Wrong \in Nat \cup {Wrong} /\ l \in Tokens /\ code \in CodesUsed
        /\ label \in Steps \ {"read", "consume"} /\ "confirm" \in Kinds \ {"verify"}
    BY DEF Tokens, CodesUsed, Steps, Finished, Kinds
  <1>4. account'.codes = account.codes /\ clash' = clash
    BY <1>2
  <1>5. QED
    BY <1>2, <1>3, <1>4, OtherBegins

\* A code is at one place of the list that was read, or refused.
LEMMA VerifyReadSparesCodes ==
  ASSUME IInv, CodeInv, NEW r \in Requests, VerifyRead(r) PROVE CodeInv'
  <1>1. PICK l \in Requests :
          /\ \/ \E right \in BOOLEAN :
                  /\ Begins(r, "verify", req[l].pw, l, "",
                            IF account.totp /\ right THEN "open" ELSE "refused")
                  /\ UNCHANGED clash
             \/ \E i \in DOMAIN BackupCodes :
                  LET at == {j \in DOMAIN account.codes : account.codes[j] = BackupCodes[i]}
                  IN  /\ pc[r] = "idle"
                      /\ req' = [req EXCEPT ![r] =
                           [NoRequest EXCEPT !.kind = "verify", !.pw = req[l].pw, !.with = l,
                              !.code = BackupCodes[i],
                              !.index = IF at = {} THEN 0 ELSE CHOOSE j \in at : TRUE]]
                      /\ Goto(r, IF account.totp /\ at # {} THEN "read" ELSE "refused")
                      /\ clash' = (clash \/ \E s \in Requests : CheckingCode(s))
          /\ account' = account
    BY DEF VerifyRead, rowVars
  <1>2. ASSUME NEW label \in {"open", "refused"}, Begins(r, "verify", req[l].pw, l, "", label),
               UNCHANGED clash
        PROVE  CodeInv'
    <2>1. /\ req'[r].code = "" /\ pc'[r] = label
          /\ \A s \in Requests \ {r} : pc'[s] = pc[s] /\ req'[s] = req[s]
      BY <1>2 DEF Begins, Goto, NoRequest, IInv, TypeOK
    <2>2. QED
      BY <1>1, <1>2, <2>1, CodesKept, CodesTyped DEF IInv
  <1>3. ASSUME NEW i \in DOMAIN BackupCodes, NEW index, NEW label \in {"read", "refused"},
               label = "read" => index \in DOMAIN account.codes /\ account.codes[index] = BackupCodes[i],
               pc[r] = "idle", Goto(r, label),
               req' = [req EXCEPT ![r] =
                         [NoRequest EXCEPT !.kind = "verify", !.pw = req[l].pw, !.with = l,
                                           !.code = BackupCodes[i], !.index = index]],
               clash' = (clash \/ \E s \in Requests : CheckingCode(s))
        PROVE  CodeInv'
    <2>1. /\ req'[r].kind = "verify" /\ req'[r].code = BackupCodes[i] /\ req'[r].index = index
          /\ pc'[r] = label
          /\ \A s \in Requests \ {r} : pc'[s] = pc[s] /\ req'[s] = req[s]
      BY <1>3 DEF Goto, NoRequest, IInv, TypeOK
    <2>2. \A s \in Requests : req'[s].kind = "verify" => pc'[s] \in {"read", "consume", "open", "ok", "refused"}
      BY <2>1 DEF CodeInv
    <2>3. ASSUME ~clash' PROVE \A s \in Requests : pc[s] \notin {"read", "consume"}
      <3>1. ~clash /\ \A s \in Requests : ~CheckingCode(s)
        BY <1>3, <2>3
      <3>2. ASSUME NEW s \in Requests, pc[s] \in {"read", "consume"} PROVE FALSE
        <4>1. req[s].code \in Range(account.codes)
          BY <3>1, <3>2 DEF CodeInv, Range
        <4>2. req[s].code # ""
          BY <4>1, CodesTyped DEF IInv
        <4>3. QED
          BY <3>1, <3>2, <4>2 DEF CheckingCode
      <3>3. QED
        BY <3>2
    <2>4. ASSUME ~clash', NEW s \in Requests, pc'[s] \in {"read", "consume"}
          PROVE  /\ \A q \in Requests : pc'[q] \in {"read", "consume"} => q = s
                 /\ req'[s].index \in DOMAIN account'.codes
                 /\ account'.codes[req'[s].index] = req'[s].code
                 /\ pc'[s] = "consume" => req'[s].seen.codes = account'.codes
      <3>1. s = r /\ label = "read" /\ \A q \in Requests : pc'[q] \in {"read", "consume"} => q = r
        BY <2>1, <2>3, <2>4
      <3>2. QED
        BY <1>1, <1>3, <2>1, <3>1
    <2>5. UsedCodesAreGone'
      BY <1>1, <1>3, <2>1 DEF CodeInv, UsedCodesAreGone
    <2>6. QED
      BY <1>1, <2>2, <2>4, <2>5 DEF CodeInv
  <1>4. ASSUME NEW i \in DOMAIN BackupCodes,
               LET at == {j \in DOMAIN account.codes : account.codes[j] = BackupCodes[i]}
               IN  /\ pc[r] = "idle"
                   /\ req' = [req EXCEPT ![r] =
                        [NoRequest EXCEPT !.kind = "verify", !.pw = req[l].pw, !.with = l,
                           !.code = BackupCodes[i],
                           !.index = IF at = {} THEN 0 ELSE CHOOSE j \in at : TRUE]]
                   /\ Goto(r, IF account.totp /\ at # {} THEN "read" ELSE "refused")
                   /\ clash' = (clash \/ \E s \in Requests : CheckingCode(s))
        PROVE  CodeInv'
    <2> DEFINE at == {j \in DOMAIN account.codes : account.codes[j] = BackupCodes[i]}
               index == IF at = {} THEN 0 ELSE CHOOSE j \in at : TRUE
               label == IF account.totp /\ at # {} THEN "read" ELSE "refused"
    <2>1. at # {} => index \in at
      OBVIOUS
    <2>2. /\ pc[r] = "idle" /\ Goto(r, label) /\ clash' = (clash \/ \E s \in Requests : CheckingCode(s))
          /\ req' = [req EXCEPT ![r] =
                       [NoRequest EXCEPT !.kind = "verify", !.pw = req[l].pw, !.with = l,
                                         !.code = BackupCodes[i], !.index = index]]
      BY <1>4
    <2> HIDE DEF index
    <2>3. label \in {"read", "refused"}
      OBVIOUS
    <2>4. label = "read" => index \in DOMAIN account.codes /\ account.codes[index] = BackupCodes[i]
      BY <2>1
    <2> HIDE DEF label
    <2>5. QED
      BY <1>3, <2>2, <2>3, <2>4
  <1>5. QED
    BY <1>1, <1>2, <1>4

LEMMA ConsumeReadSparesCodes ==
  ASSUME IInv, CodeInv, NEW r \in Requests, ConsumeRead(r) PROVE CodeInv'
  <1>1. /\ pc[r] = "read" /\ Goto(r, "consume") /\ UNCHANGED <<account, clash>>
        /\ req' = [req EXCEPT ![r].seen = account]
    BY DEF ConsumeRead, rowVars, historyVars
  <1>2. /\ pc'[r] = "consume" /\ req'[r].kind = req[r].kind /\ req'[r].code = req[r].code
        /\ req'[r].index = req[r].index /\ req'[r].seen = account
        /\ \A s \in Requests \ {r} : pc'[s] = pc[s] /\ req'[s] = req[s]
    <2> DEFINE q == [req[r] EXCEPT !.seen = account]
    <2>1. req[r] \in Request /\ req' = [req EXCEPT ![r] = q]
      BY <1>1 DEF IInv, TypeOK
    <2>2. q.kind = req[r].kind /\ q.code = req[r].code /\ q.index = req[r].index /\ q.seen = account
      BY <2>1 DEF Request
    <2> HIDE DEF q
    <2>3. QED
      BY <1>1, <2>1, <2>2 DEF Goto, IInv, TypeOK
  <1>3. \A s \in Requests : req'[s].kind = "verify" => pc'[s] \in {"read", "consume", "open", "ok", "refused"}
    BY <1>2 DEF CodeInv
  <1>4. ASSUME ~clash, NEW s \in Requests, pc'[s] \in {"read", "consume"}
        PROVE  /\ \A q \in Requests : pc'[q] \in {"read", "consume"} => q = s
               /\ req'[s].index \in DOMAIN account'.codes
               /\ account'.codes[req'[s].index] = req'[s].code
               /\ pc'[s] = "consume" => req'[s].seen.codes = account'.codes
    <2>1. \A q \in Requests : pc'[q] \in {"read", "consume"} => pc[q] \in {"read", "consume"}
      BY <1>1, <1>2
    <2>2. s = r /\ \A q \in Requests : pc'[q] \in {"read", "consume"} => q = r
      BY <1>1, <1>4, <2>1 DEF CodeInv
    <2>3. QED
      BY <1>1, <1>2, <1>4, <2>2 DEF CodeInv
  <1>5. UsedCodesAreGone'
    BY <1>1, <1>2 DEF CodeInv, UsedCodesAreGone
  <1>6. QED
    BY <1>1, <1>3, <1>4, <1>5 DEF CodeInv

\* The list is the row's, and the code's place the one that is taken out.
LEMMA ConsumeWriteSparesCodes ==
  ASSUME IInv, CodeInv, NEW r \in Requests, ConsumeWrite(r) PROVE CodeInv'
  <1> DEFINE list == req[r].seen.codes
             rest == IF req[r].index \in DOMAIN list THEN RemoveAt(list, req[r].index) ELSE list
  <1>1. /\ pc[r] = "consume" /\ Goto(r, "open") /\ req' = req /\ clash' = clash
        /\ account' = [account EXCEPT !.codes = rest]
    BY DEF ConsumeWrite, historyVars
  <1>2. pc'[r] = "open" /\ \A s \in Requests \ {r} : pc'[s] = pc[s]
    BY <1>1 DEF Goto, IInv, TypeOK
  <1>3. account'.codes = rest
    BY <1>1 DEF IInv, TypeOK, Account
  <1>4. \A s \in Requests : req'[s].kind = "verify" => pc'[s] \in {"read", "consume", "open", "ok", "refused"}
    BY <1>1, <1>2 DEF CodeInv
  <1>5. UsedCodesAreGone' /\ (clash \/ \A i, j \in DOMAIN rest : rest[i] = rest[j] => i = j)
    <2>1. CASE clash
      BY <1>1, <2>1 DEF UsedCodesAreGone
    <2>2. CASE ~clash
      <3>1. /\ list = account.codes /\ req[r].index \in DOMAIN list /\ list[req[r].index] = req[r].code
            /\ \A i, j \in DOMAIN list : list[i] = list[j] => i = j
        BY <1>1, <2>2 DEF CodeInv
      <3>2. rest = RemoveAt(list, req[r].index) /\ list \in Seq(Range(BackupCodes))
        BY <3>1, CodesTyped DEF IInv
      <3> HIDE DEF rest, list
      <3>3. /\ Range(rest) \subseteq Range(list) \ {req[r].code}
            /\ \A i, j \in DOMAIN rest : rest[i] = rest[j] => i = j
        BY <3>1, <3>2, RemovedElements
      <3>4. ASSUME NEW s \in Requests, req'[s].kind = "verify", pc'[s] \in {"open", "ok"}
            PROVE  req'[s].code \notin Range(rest)
        <4>1. CASE s = r
          BY <1>1, <3>3, <4>1
        <4>2. CASE s # r
          <5>1. req[s].kind = "verify" /\ pc[s] \in {"open", "ok"} /\ req'[s] = req[s]
            BY <1>1, <1>2, <3>4, <4>2
          <5>2. req[s].code \notin Range(account.codes)
            BY <2>2, <5>1 DEF CodeInv, UsedCodesAreGone
          <5>3. QED
            BY <3>1, <3>3, <5>1, <5>2
        <4>3. QED
          BY <4>1, <4>2
      <3>5. QED
        BY <1>3, <3>3, <3>4 DEF UsedCodesAreGone
    <2>3. QED
      BY <2>1, <2>2
  <1>6. ASSUME ~clash, NEW s \in Requests PROVE pc'[s] \notin {"read", "consume"}
    BY <1>1, <1>2, <1>6 DEF CodeInv
  <1> HIDE DEF rest
  <1>7. QED
    BY <1>1, <1>3, <1>4, <1>5, <1>6 DEF CodeInv

LEMMA TimeSparesCodes ==
  ASSUME IInv, CodeInv, LockLapses \/ TokenExpires \/ LinkExpires \/ ShowroomDeactivated
  PROVE  CodeInv'
  <1>1. UNCHANGED <<pc, req, clash>> /\ account'.codes = account.codes
    <2>1. CASE LockLapses
      BY <2>1 DEF LockLapses, historyVars, IInv, TypeOK, Account
    <2>2. CASE TokenExpires
      BY <2>2 DEF TokenExpires, historyVars
    <2>3. CASE LinkExpires
      BY <2>3 DEF LinkExpires, historyVars
    <2>4. CASE ShowroomDeactivated
      BY <2>4 DEF ShowroomDeactivated, historyVars, IInv, TypeOK, Account
    <2>5. QED
      BY <2>1, <2>2, <2>3, <2>4
  <1>2. QED
    BY <1>1 DEF CodeInv, UsedCodesAreGone

LEMMA NextSparesCodes == IInv /\ CodeInv /\ [Next]_vars => CodeInv'
  <1> SUFFICES ASSUME IInv, CodeInv, [Next]_vars PROVE CodeInv'
    OBVIOUS
  <1>1. CASE UNCHANGED vars
    BY <1>1 DEF vars, CodeInv, UsedCodesAreGone
  <1>2. QED
    BY <1>1, ReadsSpareCodes, SigningSparesCodes, PasswordsSpareCodes, ConfirmEnrollmentSparesCodes,
       VerifyReadSparesCodes, ConsumeReadSparesCodes, ConsumeWriteSparesCodes, TimeSparesCodes
       DEF Next, AllAnswered

LEMMA InitCodes == Init => CodeInv
  <1> SUFFICES ASSUME Init PROVE CodeInv
    OBVIOUS
  <1>1. \A r \in Requests : pc[r] = "idle" /\ req[r].kind = "none"
    BY DEF Init, NoRequest
  <1>2. account.codes = BackupCodes \/ account.codes = <<>>
    BY DEF Init
  <1>3. \A i, j \in DOMAIN account.codes : account.codes[i] = account.codes[j] => i = j
    <2>1. CASE account.codes = BackupCodes
      BY <2>1, SessionAssumption
    <2>2. CASE account.codes = <<>>
      BY <2>2
    <2>3. QED
      BY <1>2, <2>1, <2>2
  <1>4. QED
    BY <1>1, <1>3 DEF CodeInv, UsedCodesAreGone

\* consumeBackupCode takes a code out of the list it was found in: one that has
\* passed the second factor is gone, unless two were checked at the same time.
THEOREM CodesSpentOnce == Spec => []UsedCodesAreGone
  <1>1. Init => IInv /\ CodeInv
    BY InitIInv, InitCodes
  <1>2. (IInv /\ CodeInv) /\ [Next]_vars => (IInv /\ CodeInv)'
    BY NextKeeps, NextSparesCodes
  <1>3. IInv /\ CodeInv => UsedCodesAreGone
    BY DEF CodeInv
  <1>4. QED
    BY <1>1, <1>2, <1>3, PTL DEF Spec
=============================================================================
