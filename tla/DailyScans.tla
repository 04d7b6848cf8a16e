------------------------------ MODULE DailyScans ------------------------------
(***************************************************************************)
(* The daily job as one showroom sees it: every server instance triggers   *)
(* it, the insert of the day's run key picks one, and that one warns about *)
(* the end of the licence (runLicenseExpiryScan) and then about the end of *)
(* each subscription period, which it flips to EXPIRED on its last day     *)
(* (runSubscriptionExpiryScan).  A notification can fail, a run can be cut *)
(* off, a day can pass without one, and a renewal commits between any two  *)
(* statements of a run.  A renewal buys months or names a date, which may  *)
(* be near or past, and a showroom can be switched off: the licence scan   *)
(* passes it over.                                                         *)
(*                                                                         *)
(* The other two scans of the job are in InstallmentSales and              *)
(* SubscriptionLifecycle.  The cron fires 24 hours apart, so a run is over *)
(* before the next day's: NewDay waits for it.                             *)
(***************************************************************************)
EXTENDS Integers, FiniteSets

CONSTANTS
  Instances,      \* server instances, and whatever else triggers the job
  MaxPeriods,     \* bound on the licence's periods; each is a subscription row
  LicenseLevels,  \* warnDaysBefore: 30, 7 and 1 in the code
  PeriodLevels,   \* thresholds: 7, 3 and 1 in the code, besides 0
  FirstDays,      \* days the first period lasts
  Term,           \* days a renewal by months buys
  Dates,          \* the days ahead that a renewal to a date may name, besides the past
  MaxMissed,      \* bound on the days without a run
  MaxCrashes,     \* bound on the runs cut off
  MaxFailures     \* bound on the notifications that fail

Periods == 1..MaxPeriods
Null    == -1       \* a level column that was never set
Over    == -1       \* days left of what ended before today

ASSUME ScanAssumption ==
  /\ MaxPeriods \in Nat \ {0}
  /\ IsFiniteSet(LicenseLevels) /\ LicenseLevels \subseteq Nat \ {0} /\ LicenseLevels # {}
  /\ IsFiniteSet(PeriodLevels) /\ PeriodLevels \subseteq Nat \ {0}
  /\ FirstDays \in Nat /\ Term \in Nat \ {0} /\ Dates \subseteq Nat
  /\ MaxMissed \in Nat /\ MaxCrashes \in Nat /\ MaxFailures \in Nat

\* The days that can be lost: those without a run, the runs cut off and the
\* notifications that fail.
Losses == MaxMissed + MaxCrashes + MaxFailures

VARIABLES
  period,    \* the licence's period: the latest subscription row
  left,      \* days until showroom.license_expiry, or Over
  sentDays,  \* showroom.license_warning_sent_days, or Null
  active,    \* showroom.is_active
  rowLeft,   \* rowLeft[k]: days until expires_at of subscription row k, or Over
  rowStatus, \* rowStatus[k]: its status, "NONE" before it exists
  rowSent,   \* rowSent[k]: its expiry_notified_days, or Null
  claimed,   \* today's run key is in scheduled_job_runs
  pc,        \* pc[i]: where the run of instance i is
  about,     \* about[i]: what the notification i sends is about, [period, level]
  batch,     \* batch[i]: the rows i has selected and not begun
  missed, crashes, failures,  \* how often each has happened
  licenseWarned, \* licenseWarned[k][l]: licence warnings of level l delivered in period k
  rowWarned,     \* rowWarned[k][l]: subscription warnings of level l delivered about row k
  owed,          \* {period} where it is owed a warning: it began with more days than can
                 \* be lost, and no scan passed it over, its warning due, with the showroom off
  midRun         \* the periods that began while a run was at the licence

licenseVars == <<period, left, sentDays, active, owed>>
rowVars     == <<rowLeft, rowStatus, rowSent>>
countVars   == <<missed, crashes, failures>>
noticeVars  == <<licenseWarned, rowWarned>>
vars        == <<period, left, sentDays, active, owed, rowLeft, rowStatus, rowSent, claimed, pc, about,
                 batch, missed, crashes, failures, licenseWarned, rowWarned, midRun>>

Nothing == [period |-> 1, level |-> 0]  \* what no run is about

Init ==
  /\ period = 1 /\ left = FirstDays /\ sentDays = Null
  /\ active = TRUE /\ owed = IF FirstDays > Losses THEN {1} ELSE {}
  /\ rowLeft   = [k \in Periods |-> IF k = 1 THEN FirstDays ELSE Over]
  /\ rowStatus = [k \in Periods |-> IF k = 1 THEN "ACTIVE" ELSE "NONE"]
  /\ rowSent   = [k \in Periods |-> Null]
  /\ claimed   = FALSE
  /\ pc        = [i \in Instances |-> "idle"]
  /\ about     = [i \in Instances |-> Nothing]
  /\ batch     = [i \in Instances |-> {}]
  /\ missed = 0 /\ crashes = 0 /\ failures = 0
  /\ licenseWarned = [k \in Periods |-> [l \in LicenseLevels |-> 0]]
  /\ rowWarned     = [k \in Periods |-> [l \in PeriodLevels \cup {0} |-> 0]]
  /\ midRun = {}

Goto(i, label) == pc' = [pc EXCEPT ![i] = label]

\* The levels a licence or period with d days left qualifies for: the most
\* urgent one, or none.
Applicable(levels, d) == {l \in levels : l >= d /\ \A m \in levels : m >= d => l <= m}

\* Warned at this level already, or at a more urgent one.
Warned(sent, l) == sent # Null /\ sent <= l

-----------------------------------------------------------------------------
(* Days, renewals and triggers.                                             *)

Yesterday(d) == IF d = Over THEN Over ELSE d - 1

\* A day ends, with or without a run.
NewDay ==
  /\ \A i \in Instances : pc[i] = "idle"
  /\ IF claimed THEN UNCHANGED missed ELSE missed < MaxMissed /\ missed' = missed + 1
  /\ left' = Yesterday(left)
  /\ rowLeft' = [k \in Periods |-> Yesterday(rowLeft[k])]
  /\ claimed' = FALSE
  /\ UNCHANGED <<period, sentDays, active, owed, rowStatus, rowSent, pc, about,
                 batch, crashes, failures, noticeVars, midRun>>

\* The date a renewal gives the licence: months from its end, or from today
\* where it is over; or the date the SuperAdmin names, whatever that is.
NewExpiry == {(IF left = Over THEN 0 ELSE left) + Term, Over} \cup Dates

\* Mutant: the licence is extended and its warning level kept.
RenewKeepsLevel ==
  /\ period < MaxPeriods
  /\ \E end \in NewExpiry :
       /\ period' = period + 1
       /\ left' = end
       /\ owed' = IF end > Losses THEN {period + 1} ELSE {}
       /\ rowLeft' = [rowLeft EXCEPT ![period + 1] = end]
       /\ rowStatus' = [rowStatus EXCEPT ![period + 1] = "ACTIVE"]
  /\ active' = TRUE
  /\ midRun' = IF \E i \in Instances : pc[i] \in {"warn", "stamp"}
                 THEN midRun \cup {period + 1} ELSE midRun
  /\ UNCHANGED <<sentDays, rowSent, claimed, pc, about, batch, countVars, noticeVars>>

\* renewSubscription, by months or to a date, or an approved claim: a new row, the
\* licence moved, the showroom switched on, and its warnings start over.
Renew ==
  /\ period < MaxPeriods
  /\ \E end \in NewExpiry :
       /\ period' = period + 1
       /\ left' = end
       /\ owed' = IF end > Losses THEN {period + 1} ELSE {}
       /\ rowLeft' = [rowLeft EXCEPT ![period + 1] = end]
       /\ rowStatus' = [rowStatus EXCEPT ![period + 1] = "ACTIVE"]
  /\ sentDays' = Null
  /\ active' = TRUE
  /\ midRun' = IF \E i \in Instances : pc[i] \in {"warn", "stamp"}
                 THEN midRun \cup {period + 1} ELSE midRun
  /\ UNCHANGED <<rowSent, claimed, pc, about, batch, countVars, noticeVars>>

\* updateShowroom's plain field: the SuperAdmin switches the showroom off or on.
SetActive ==
  /\ active' = ~active
  /\ UNCHANGED <<period, left, sentDays, owed, rowVars, claimed, pc, about, batch,
                 countVars, noticeVars, midRun>>

\* Mutant: no unique constraint on the run key.
ClaimRunAlways(i) ==
  /\ pc[i] = "idle"
  /\ claimed' = TRUE
  /\ Goto(i, "license")
  /\ UNCHANGED <<licenseVars, rowVars, about, batch, countVars, noticeVars, midRun>>

\* The insert of the run key wins; an instance that finds it taken (P2002) skips.
ClaimRun(i) ==
  /\ pc[i] = "idle" /\ ~claimed
  /\ claimed' = TRUE
  /\ Goto(i, "license")
  /\ UNCHANGED <<licenseVars, rowVars, about, batch, countVars, noticeVars, midRun>>

-----------------------------------------------------------------------------
(* runLicenseExpiryScan.                                                    *)

\* The warning this showroom is due: its most urgent level, unless it was warned
\* at that or at a more urgent one.
LicenseDue == {l \in Applicable(LicenseLevels, left) : left # Over /\ ~Warned(sentDays, l)}

\* The select of the showrooms in the window, the active ones, and what it says of
\* this one.
SelectLicense(i) ==
  /\ pc[i] = "license"
  /\ \/ \E l \in LicenseDue :
          /\ active
          /\ about' = [about EXCEPT ![i] = [period |-> period, level |-> l]]
          /\ Goto(i, "warn")
          /\ UNCHANGED owed
     \/ /\ ~active \/ LicenseDue = {}
        /\ owed' = IF LicenseDue = {} THEN owed ELSE {}
        /\ Goto(i, "periods")
        /\ UNCHANGED about
  /\ UNCHANGED <<period, left, sentDays, active, rowVars, claimed, batch, countVars,
                 noticeVars, midRun>>

\* The notification fails, and the guard is left as it is: the next row.
Fail(i, label) ==
  /\ failures < MaxFailures /\ failures' = failures + 1
  /\ Goto(i, label)

\* notifyLicenseExpiring: it may fail.
WarnLicense(i) ==
  /\ pc[i] = "warn"
  /\ \/ /\ licenseWarned' = [licenseWarned EXCEPT ![about[i].period][about[i].level] = @ + 1]
        /\ Goto(i, "stamp")
        /\ UNCHANGED failures
     \/ Fail(i, "periods") /\ UNCHANGED licenseWarned
  /\ UNCHANGED <<licenseVars, rowVars, claimed, about, batch, missed, crashes, rowWarned, midRun>>

\* By primary key, whatever period the licence is in by now.
StampLicense(i) ==
  /\ pc[i] = "stamp"
  /\ sentDays' = about[i].level
  /\ Goto(i, "periods")
  /\ UNCHANGED <<period, left, active, owed, rowVars, claimed, about, batch,
                 countVars, noticeVars, midRun>>

-----------------------------------------------------------------------------
(* runSubscriptionExpiryScan.                                               *)

\* ACTIVE rows that end within the largest level, over or not.
SelectPeriods(i) ==
  /\ pc[i] = "periods"
  /\ batch' = [batch EXCEPT ![i] =
       {k \in Periods : rowStatus[k] = "ACTIVE" /\ \E l \in PeriodLevels \cup {0} : rowLeft[k] <= l}]
  /\ Goto(i, "next")
  /\ UNCHANGED <<licenseVars, rowVars, claimed, about, countVars, noticeVars, midRun>>

\* The level a row is due for: 0 from its last day on.
Due(k) == IF rowLeft[k] <= 0 THEN {0} ELSE Applicable(PeriodLevels, rowLeft[k])

\* The next row, those that end first first: skipped, or warned about.
NextPeriod(i, k) ==
  /\ pc[i] = "next" /\ k \in batch[i]
  /\ \A j \in batch[i] : rowLeft[k] <= rowLeft[j]
  /\ batch' = [batch EXCEPT ![i] = @ \ {k}]
  /\ \E l \in Due(k) :
       IF Warned(rowSent[k], l) THEN UNCHANGED <<about, pc>>
       ELSE /\ about' = [about EXCEPT ![i] = [period |-> k, level |-> l]]
            /\ Goto(i, "notify")
  /\ UNCHANGED <<licenseVars, rowVars, claimed, countVars, noticeVars, midRun>>

\* Mutant: the guard is set whether or not the notification went out.
NotifyStampsAlways(i) ==
  /\ pc[i] = "notify"
  /\ \/ /\ rowWarned' = [rowWarned EXCEPT ![about[i].period][about[i].level] = @ + 1]
        /\ Goto(i, "advance")
        /\ UNCHANGED <<failures, rowSent>>
     \/ /\ Fail(i, "next")
        /\ rowSent' = [rowSent EXCEPT ![about[i].period] = about[i].level]
        /\ UNCHANGED rowWarned
  /\ UNCHANGED <<licenseVars, rowLeft, rowStatus, claimed, about, batch, missed, crashes,
                 licenseWarned, midRun>>

\* Mutant: the outcome of the notification is not looked at.
NotifyIgnoresFailure(i) ==
  /\ pc[i] = "notify"
  /\ \/ /\ rowWarned' = [rowWarned EXCEPT ![about[i].period][about[i].level] = @ + 1]
        /\ Goto(i, "advance")
        /\ UNCHANGED failures
     \/ Fail(i, "advance") /\ UNCHANGED rowWarned
  /\ UNCHANGED <<licenseVars, rowVars, claimed, about, batch, missed, crashes, licenseWarned,
                 midRun>>

\* notifySubscriptionExpiring or notifySubscriptionExpired: it may fail.
NotifyPeriod(i) ==
  /\ pc[i] = "notify"
  /\ \/ /\ rowWarned' = [rowWarned EXCEPT ![about[i].period][about[i].level] = @ + 1]
        /\ Goto(i, "advance")
        /\ UNCHANGED failures
     \/ Fail(i, "next") /\ UNCHANGED rowWarned
  /\ UNCHANGED <<licenseVars, rowVars, claimed, about, batch, missed, crashes, licenseWarned,
                 midRun>>

\* The flip ACTIVE -> EXPIRED of a row whose end was announced.
ExpirePeriod(i) ==
  LET k == about[i].period
  IN  /\ pc[i] = "advance" /\ about[i].level = 0
      /\ IF rowStatus[k] = "ACTIVE"
           THEN /\ rowStatus' = [rowStatus EXCEPT ![k] = "EXPIRED"]
                /\ rowSent' = [rowSent EXCEPT ![k] = 0]
           ELSE UNCHANGED <<rowStatus, rowSent>>
      /\ Goto(i, "next")
      /\ UNCHANGED <<licenseVars, rowLeft, claimed, about, batch, countVars, noticeVars, midRun>>

\* The level moves where it was never set or is below the one just sent.
AdvanceLevel(i) ==
  LET k == about[i].period
  IN  /\ pc[i] = "advance" /\ about[i].level # 0
      /\ IF rowSent[k] = Null \/ rowSent[k] < about[i].level
           THEN rowSent' = [rowSent EXCEPT ![k] = about[i].level]
           ELSE UNCHANGED rowSent
      /\ Goto(i, "next")
      /\ UNCHANGED <<licenseVars, rowLeft, rowStatus, claimed, about, batch, countVars,
                     noticeVars, midRun>>

EndRun(i) ==
  /\ pc[i] = "next" /\ batch[i] = {}
  /\ Goto(i, "idle")
  /\ about' = [about EXCEPT ![i] = Nothing]
  /\ UNCHANGED <<licenseVars, rowVars, claimed, batch, countVars, noticeVars, midRun>>

\* A statement throws or the process stops: the day's claim stays taken.
Crash(i) ==
  /\ pc[i] # "idle"
  /\ crashes < MaxCrashes /\ crashes' = crashes + 1
  /\ Goto(i, "idle")
  /\ batch' = [batch EXCEPT ![i] = {}]
  /\ about' = [about EXCEPT ![i] = Nothing]
  /\ UNCHANGED <<licenseVars, rowVars, claimed, missed, failures, noticeVars, midRun>>

-----------------------------------------------------------------------------
RunStep(i) ==
  \/ SelectLicense(i) \/ WarnLicense(i) \/ StampLicense(i)
  \/ SelectPeriods(i) \/ (\E k \in Periods : NextPeriod(i, k))
  \/ NotifyPeriod(i) \/ ExpirePeriod(i) \/ AdvanceLevel(i) \/ EndRun(i)

Next ==
  \/ NewDay \/ Renew \/ SetActive
  \/ \E i \in Instances : ClaimRun(i) \/ RunStep(i) \/ Crash(i)

Spec == Init /\ [][Next]_vars

\* Days pass, some instance is triggered every day, and a run goes on.
Fairness ==
  /\ WF_vars(NewDay)
  /\ WF_vars(\E i \in Instances : ClaimRun(i))
  /\ \A i \in Instances : WF_vars(RunStep(i))

FairSpec == Spec /\ Fairness

-----------------------------------------------------------------------------
(* Properties.                                                              *)

\* Every variable has its type.
TypeOK ==
  /\ period \in Periods /\ left \in Nat \cup {Over}
  /\ sentDays \in LicenseLevels \cup {Null}
  /\ active \in BOOLEAN /\ owed \subseteq Periods
  /\ rowLeft \in [Periods -> Nat \cup {Over}]
  /\ rowStatus \in [Periods -> {"NONE", "ACTIVE", "EXPIRED"}]
  /\ rowSent \in [Periods -> PeriodLevels \cup {0, Null}]
  /\ claimed \in BOOLEAN
  /\ pc \in [Instances ->
               {"idle", "license", "warn", "stamp", "periods", "next", "notify", "advance"}]
  /\ about \in [Instances -> [period : Periods, level : LicenseLevels \cup PeriodLevels \cup {0}]]
  /\ batch \in [Instances -> SUBSET Periods]
  /\ missed \in 0..MaxMissed /\ crashes \in 0..MaxCrashes /\ failures \in 0..MaxFailures
  /\ licenseWarned \in [Periods -> [LicenseLevels -> Nat]]
  /\ rowWarned \in [Periods -> [PeriodLevels \cup {0} -> Nat]]
  /\ midRun \subseteq Periods

\* However many instances trigger the job, a licence is warned about once at each
\* level, and again only if a run was cut off before it could note that.
LicenseWarnedOnce ==
  \A k \in Periods : \A l \in LicenseLevels : licenseWarned[k][l] <= 1 + crashes

\* "A missed run catches up to the correct level": where the window is no shorter
\* than the days that can be lost, no licence lapses without a warning, but one
\* that began with no more days than that (a renewal to a near or past date), one
\* whose warning fell due while the showroom was off, and one that was renewed
\* while a run was at it.
LapseIsWarned ==
  (left = Over /\ period \in owed \ midRun) =>
    \E l \in LicenseLevels : licenseWarned[period][l] > 0

\* A subscription is EXPIRED only after its end was announced.
ExpiryIsAnnounced == \A k \in Periods : rowStatus[k] = "EXPIRED" => rowWarned[k][0] > 0

\* A subscription that is over does not stay ACTIVE: failed notifications and
\* lost days delay the flip and do not prevent it.
PeriodsExpire == \A k \in Periods : (rowLeft[k] = Over /\ rowStatus[k] = "ACTIVE") ~>
                                      (rowStatus[k] = "EXPIRED")

\* expiry_notified_days: "stores the SMALLEST threshold already notified", so a
\* level is "never replayed".
PeriodWarnedOnce ==
  \A k \in Periods : \A l \in PeriodLevels : rowWarned[k][l] <= 1 + crashes

\* license_warning_sent_days is reset by a renewal, "otherwise a stale value from
\* a PAST expiry cycle would suppress every future warning": a licence of more than
\* the days that can be lost has been warned about when it lapses, but for a
\* showroom that was off when the warning was due.
RenewalRestartsWarnings ==
  (left = Over /\ period \in owed) =>
    \E l \in LicenseLevels : licenseWarned[period][l] > 0
-----------------------------------------------------------------------------
(* The inductive invariant.                                                 *)

\* One instance runs at a time, and only where the day is claimed.
OneRunInv ==
  /\ \A i, j \in Instances : pc[i] # "idle" /\ pc[j] # "idle" => i = j
  /\ \A i \in Instances : pc[i] # "idle" => claimed

\* Each warning about the licence that the stored level does not tell of is one
\* that a run was cut off behind, or is about to store.
LicenseInv ==
  /\ \A k \in Periods, l \in LicenseLevels : k > period => licenseWarned[k][l] = 0
  /\ \A l \in LicenseLevels :
       ~Warned(sentDays, l) /\ (\A i \in Instances : pc[i] = "stamp" => about[i] # [period |-> period, level |-> l])
         => licenseWarned[period][l] <= crashes

\* What the run at the licence is about: it has not been stored yet.
WarnInv ==
  \A i \in Instances : pc[i] \in {"warn", "stamp"} =>
    /\ about[i].level \in LicenseLevels /\ about[i].period <= period
    /\ sentDays = Null \/ (about[i].period = period /\ sentDays > about[i].level)
    /\ pc[i] = "warn" => licenseWarned[about[i].period][about[i].level] <= crashes

\* What the run at the periods is about: an end is announced before the flip.
PeriodInv ==
  \A i \in Instances :
    /\ pc[i] \in {"notify", "advance"} => about[i].level \in PeriodLevels \cup {0}
    /\ pc[i] = "advance" /\ about[i].level = 0 => rowWarned[about[i].period][0] > 0

\* The days that can be lost fit into the licence's window.
WindowCovers == \E l \in LicenseLevels : l >= Losses

\* Nobody was told that the running period ends, though it began with days enough;
\* nor is a run to blame that was at the licence when it began, or the showroom
\* that was off.
Unwarned ==
  /\ period \in owed \ midRun
  /\ \A l \in LicenseLevels : licenseWarned[period][l] = 0

\* A stored level tells of a warning, and so does a run about to store one.
SentInv ==
  /\ sentDays # Null => period \in midRun \/ \E l \in LicenseLevels : licenseWarned[period][l] > 0
  /\ \A i \in Instances : pc[i] \in {"warn", "stamp"} =>
       /\ about[i].period = period \/ period \in midRun
       /\ pc[i] = "stamp" => licenseWarned[about[i].period][about[i].level] > 0

\* While nobody was told, the days left make up for those still to be lost; once
\* the day's run is past the licence, with one to spare for the day itself.
WindowInv ==
  LET lost == missed + crashes + failures
  IN  Unwarned =>
        /\ left # Over /\ left + lost >= Losses
        /\ claimed /\ (\A i \in Instances : pc[i] \notin {"license", "warn"})
             => left + lost > Losses

IInv ==
  /\ TypeOK /\ OneRunInv /\ LicenseInv /\ WarnInv /\ PeriodInv
  /\ LicenseWarnedOnce /\ ExpiryIsAnnounced

\* The part of it that needs the window to cover what can be lost.
LapseInv == SentInv /\ WindowInv
=============================================================================
