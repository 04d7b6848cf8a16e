------------------------------ MODULE DailyProofs ------------------------------
(***************************************************************************)
(* Theorems about DailyScans for any number of instances, periods and      *)
(* levels, and any bounds on lost days, cut-off runs and failures.  The    *)
(* argument: the day's claim lets one instance run, and what that one is   *)
(* at a notice about is not stored yet; so a second notice at a level of a *)
(* licence takes a run that was cut off between notice and stamp.          *)
(***************************************************************************)
EXTENDS DailyScans, WellFoundedInduction, TLAPS

LEMMA Counters ==
  ASSUME TypeOK
  PROVE  /\ missed \in Nat /\ crashes \in Nat /\ failures \in Nat /\ period \in Nat
         /\ \A k \in Periods : k \in Nat /\ \A l \in LicenseLevels : licenseWarned[k][l] \in Nat
         /\ \A l \in LicenseLevels \cup PeriodLevels : l \in Nat /\ l > 0
  BY ScanAssumption DEF TypeOK, Periods

LEMMA InitIInv == Init => IInv
  <1> SUFFICES ASSUME Init PROVE IInv
    OBVIOUS
  <1> USE DEF Init
  <1>1. TypeOK
    <2>1. 1 \in Periods /\ 0 \in 0..MaxMissed /\ 0 \in 0..MaxCrashes /\ 0 \in 0..MaxFailures
      BY ScanAssumption DEF Periods
    <2>2. /\ left \in Nat /\ sentDays = Null
          /\ rowLeft \in [Periods -> Nat \cup {Over}]
      BY ScanAssumption
    <2>3. /\ licenseWarned \in [Periods -> [LicenseLevels -> Nat]]
          /\ rowWarned \in [Periods -> [PeriodLevels \cup {0} -> Nat]]
      OBVIOUS
    <2>4. owed \subseteq Periods /\ active \in BOOLEAN
      BY <2>1
    <2>5. [period |-> 1, level |-> 0] \in [period : Periods, level : LicenseLevels \cup PeriodLevels \cup {0}]
      BY <2>1
    <2>6. QED
      BY <2>1, <2>2, <2>3, <2>4, <2>5 DEF TypeOK, Nothing
  <1>2. OneRunInv /\ WarnInv /\ PeriodInv /\ ExpiryIsAnnounced
    BY DEF OneRunInv, WarnInv, PeriodInv, ExpiryIsAnnounced
  <1>3. \A k \in Periods, l \in LicenseLevels : licenseWarned[k][l] = 0
    OBVIOUS
  <1>4. LicenseInv /\ LicenseWarnedOnce
    BY <1>3, ScanAssumption DEF LicenseInv, LicenseWarnedOnce, Periods
  <1>5. QED
    BY <1>1, <1>2, <1>4 DEF IInv

-----------------------------------------------------------------------------
(* What a step leaves alone needs no argument per action.                   *)

LEMMA LicenseKept ==
  ASSUME IInv, TypeOK', NEW i \in Instances,
         UNCHANGED <<period, sentDays, crashes, licenseWarned>>,
         \A j \in Instances \ {i} : pc'[j] = pc[j] /\ about'[j] = about[j],
         pc[i] # "stamp", pc'[i] \notin {"warn", "stamp"}
  PROVE  LicenseInv' /\ WarnInv' /\ LicenseWarnedOnce'
  <1>1. LicenseInv'
    <2>1. \A k \in Periods, l \in LicenseLevels : k > period => licenseWarned[k][l] = 0
      BY DEF IInv, LicenseInv
    <2>2. ASSUME NEW l \in LicenseLevels, ~Warned(sentDays, l),
                 \A j \in Instances : pc'[j] = "stamp" => about'[j] # [period |-> period, level |-> l]
          PROVE  licenseWarned[period][l] <= crashes
      <3>1. \A j \in Instances : pc[j] = "stamp" => about[j] # [period |-> period, level |-> l]
        BY <2>2
      <3>2. QED
        BY <2>2, <3>1 DEF IInv, LicenseInv
    <2>3. QED
      BY <2>1, <2>2 DEF LicenseInv, Warned
  <1>2. WarnInv'
    BY DEF IInv, WarnInv
  <1>3. LicenseWarnedOnce'
    BY DEF IInv, LicenseWarnedOnce
  <1>4. QED
    BY <1>1, <1>2, <1>3

LEMMA RunKept ==
  ASSUME IInv, NEW i \in Instances, pc[i] # "idle", UNCHANGED claimed,
         \A j \in Instances \ {i} : pc'[j] = pc[j]
  PROVE  OneRunInv'
  BY DEF IInv, OneRunInv

LEMMA PeriodKept ==
  ASSUME IInv, UNCHANGED rowWarned, NEW i \in Instances,
         \A j \in Instances \ {i} : pc'[j] = pc[j] /\ about'[j] = about[j],
         pc'[i] \notin {"notify", "advance"}
  PROVE  PeriodInv'
  BY DEF IInv, PeriodInv

-----------------------------------------------------------------------------
LEMMA NewDayKeeps == IInv /\ NewDay => IInv'
  <1> SUFFICES ASSUME IInv, NewDay PROVE IInv'
    OBVIOUS
  <1> USE DEF NewDay, rowVars, noticeVars
  <1>1. TypeOK'
    <2>1. \A d \in Nat \cup {Over} : Yesterday(d) \in Nat \cup {Over}
      BY DEF Yesterday, Over
    <2>2. left' \in Nat \cup {Over} /\ rowLeft' \in [Periods -> Nat \cup {Over}]
      BY <2>1 DEF IInv, TypeOK
    <2>3. missed' \in 0..MaxMissed
      BY ScanAssumption DEF IInv, TypeOK
    <2>4. QED
      BY <2>2, <2>3 DEF IInv, TypeOK
  <1>2. OneRunInv' /\ WarnInv' /\ PeriodInv' /\ ExpiryIsAnnounced' /\ LicenseWarnedOnce'
    BY DEF IInv, OneRunInv, WarnInv, PeriodInv, ExpiryIsAnnounced, LicenseWarnedOnce
  <1>3. LicenseInv'
    BY DEF IInv, LicenseInv, Warned
  <1>4. QED
    BY <1>1, <1>2, <1>3 DEF IInv

LEMMA RenewKeeps == IInv /\ Renew => IInv'
  <1> SUFFICES ASSUME IInv, Renew PROVE IInv'
    OBVIOUS
  <1> USE DEF Renew, countVars, noticeVars
  <1> PICK end \in NewExpiry :
        /\ left' = end /\ owed' = (IF end > Losses THEN {period + 1} ELSE {})
        /\ rowLeft' = [rowLeft EXCEPT ![period + 1] = end]
    OBVIOUS
  <1>0. period + 1 \in Periods /\ end \in Nat \cup {Over} /\ period \in Nat
    BY ScanAssumption DEF IInv, TypeOK, Periods, Over, NewExpiry
  <1>1. TypeOK'
    <2>1. period' \in Periods /\ left' \in Nat \cup {Over} /\ sentDays' = Null
      BY <1>0
    <2>2. rowLeft' \in [Periods -> Nat \cup {Over}] /\ rowStatus' \in [Periods -> {"NONE", "ACTIVE", "EXPIRED"}]
      BY <1>0 DEF IInv, TypeOK
    <2>3. midRun' \subseteq Periods
      BY <1>0 DEF IInv, TypeOK
    <2>4. owed' \subseteq Periods /\ active' \in BOOLEAN
      BY <1>0
    <2>5. QED
      BY <2>1, <2>2, <2>3, <2>4 DEF IInv, TypeOK
  <1>2. OneRunInv' /\ PeriodInv' /\ LicenseWarnedOnce'
    BY DEF IInv, OneRunInv, PeriodInv, LicenseWarnedOnce
  <1>3. ExpiryIsAnnounced'
    BY DEF IInv, TypeOK, ExpiryIsAnnounced
  <1>4. WarnInv'
    <2> SUFFICES ASSUME NEW i \in Instances, pc[i] \in {"warn", "stamp"}
                 PROVE  /\ about[i].level \in LicenseLevels /\ about[i].period <= period + 1
                        /\ pc[i] = "warn" => licenseWarned[about[i].period][about[i].level] <= crashes
      BY DEF WarnInv
    <2>1. about[i].period \in Periods
      BY DEF IInv, TypeOK
    <2>2. QED
      BY <1>0, <2>1 DEF IInv, WarnInv, Periods
  <1>5. LicenseInv'
    <2>1. \A k \in Periods, l \in LicenseLevels : k > period + 1 => licenseWarned[k][l] = 0
      BY <1>0 DEF IInv, LicenseInv, Periods
    <2>2. \A l \in LicenseLevels : licenseWarned[period + 1][l] <= crashes
      BY <1>0, Counters DEF IInv, LicenseInv
    <2>3. QED
      BY <2>1, <2>2 DEF LicenseInv
  <1>6. QED
    BY <1>1, <1>2, <1>3, <1>4, <1>5 DEF IInv

LEMMA SetActiveKeeps == IInv /\ SetActive => IInv'
  <1> SUFFICES ASSUME IInv, SetActive PROVE IInv'
    OBVIOUS
  <1> USE DEF SetActive, rowVars, countVars, noticeVars
  <1>1. TypeOK'
    BY DEF IInv, TypeOK
  <1>2. OneRunInv' /\ LicenseInv' /\ WarnInv' /\ PeriodInv'
    BY DEF IInv, OneRunInv, LicenseInv, Warned, WarnInv, PeriodInv
  <1>3. LicenseWarnedOnce' /\ ExpiryIsAnnounced'
    BY DEF IInv, LicenseWarnedOnce, ExpiryIsAnnounced
  <1>4. QED
    BY <1>1, <1>2, <1>3 DEF IInv

\* What an idle run is about has its type.
LEMMA NothingTyped ==
  Nothing \in [period : Periods, level : LicenseLevels \cup PeriodLevels \cup {0}]
  <1>1. 1 \in Periods
    BY ScanAssumption DEF Periods
  <1>2. QED
    BY <1>1 DEF Nothing

LEMMA ClaimRunKeeps == ASSUME NEW i \in Instances, IInv, ClaimRun(i) PROVE IInv'
  <1> USE DEF ClaimRun, Goto, licenseVars, rowVars, countVars, noticeVars
  <1>0. /\ pc'[i] = "license" /\ pc[i] = "idle"
        /\ \A j \in Instances \ {i} : pc'[j] = pc[j] /\ about'[j] = about[j]
    BY DEF IInv, TypeOK
  <1>1. TypeOK'
    BY DEF IInv, TypeOK
  <1>2. OneRunInv'
    BY <1>0 DEF IInv, OneRunInv
  <1>3. PeriodInv'
    BY <1>0, PeriodKept
  <1>4. LicenseInv' /\ WarnInv' /\ LicenseWarnedOnce'
    BY <1>0, <1>1, LicenseKept
  <1>5. ExpiryIsAnnounced'
    BY DEF IInv, ExpiryIsAnnounced
  <1>6. QED
    BY <1>1, <1>2, <1>3, <1>4, <1>5 DEF IInv

LEMMA SelectLicenseKeeps == ASSUME NEW i \in Instances, IInv, SelectLicense(i) PROVE IInv'
  <1> USE DEF SelectLicense, Goto, licenseVars, rowVars, countVars, noticeVars
  <1>0. /\ pc[i] = "license"
        /\ \A j \in Instances \ {i} : pc'[j] = pc[j] /\ about'[j] = about[j]
    BY DEF IInv, TypeOK
  <1>1. OneRunInv'
    BY <1>0, RunKept
  <1>2. ExpiryIsAnnounced'
    BY DEF IInv, ExpiryIsAnnounced
  <1>3. CASE pc' = [pc EXCEPT ![i] = "periods"] /\ UNCHANGED about
    <2>0. pc'[i] = "periods"
      BY <1>3 DEF IInv, TypeOK
    <2>1. TypeOK'
      BY <1>3 DEF IInv, TypeOK
    <2>2. PeriodInv'
      BY <1>0, <2>0, PeriodKept
    <2>3. LicenseInv' /\ WarnInv' /\ LicenseWarnedOnce'
      BY <1>0, <2>0, <2>1, LicenseKept
    <2>4. QED
      BY <1>1, <1>2, <2>1, <2>2, <2>3 DEF IInv
  <1>4. ASSUME NEW l \in Applicable(LicenseLevels, left), ~Warned(sentDays, l),
               about' = [about EXCEPT ![i] = [period |-> period, level |-> l]],
               pc' = [pc EXCEPT ![i] = "warn"]
        PROVE  IInv'
    <2>0. l \in LicenseLevels /\ period \in Periods /\ pc'[i] = "warn"
          /\ about'[i] = [period |-> period, level |-> l]
      BY <1>4 DEF Applicable, IInv, TypeOK
    <2>1. TypeOK'
      BY <1>4, <2>0 DEF IInv, TypeOK
    <2>2. PeriodInv'
      BY <1>0, <2>0, PeriodKept
    <2>3. \A j \in Instances : pc[j] # "stamp" /\ pc'[j] # "stamp"
      BY <1>0, <2>0 DEF IInv, OneRunInv
    <2>4. licenseWarned[period][l] <= crashes
      BY <1>4, <2>0, <2>3 DEF IInv, LicenseInv
    <2>5. sentDays = Null \/ sentDays > l
      <3>1. l \in Nat /\ (sentDays \in Nat \/ sentDays = Null)
        BY <2>0, ScanAssumption DEF IInv, TypeOK
      <3>2. sentDays = Null \/ ~(sentDays <= l)
        BY <1>4 DEF Warned
      <3>3. QED
        BY <3>1, <3>2
    <2>6. WarnInv'
      <3>1. ASSUME NEW j \in Instances, pc'[j] \in {"warn", "stamp"} PROVE j = i
        BY <1>0, <3>1 DEF IInv, OneRunInv
      <3>2. period <= period
        BY Counters DEF IInv
      <3>3. QED
        BY <2>0, <2>4, <2>5, <3>1, <3>2 DEF WarnInv
    <2>7. LicenseInv'
      <3>1. \A k \in Periods, m \in LicenseLevels : k > period => licenseWarned[k][m] = 0
        BY DEF IInv, LicenseInv
      <3>2. \A m \in LicenseLevels : ~Warned(sentDays, m) => licenseWarned[period][m] <= crashes
        BY <2>3 DEF IInv, LicenseInv
      <3>3. QED
        BY <3>1, <3>2 DEF LicenseInv, Warned
    <2>8. LicenseWarnedOnce'
      BY DEF IInv, LicenseWarnedOnce
    <2>9. QED
      BY <1>1, <1>2, <2>1, <2>2, <2>6, <2>7, <2>8 DEF IInv
  <1>5. QED
    BY <1>3, <1>4 DEF LicenseDue

LEMMA WarnLicenseKeeps == ASSUME NEW i \in Instances, IInv, WarnLicense(i) PROVE IInv'
  <1> USE DEF WarnLicense, Goto, Fail, licenseVars, rowVars
  <1> DEFINE a == about[i]
  <1>0. /\ pc[i] = "warn" /\ UNCHANGED about
        /\ \A j \in Instances \ {i} : pc'[j] = pc[j] /\ about'[j] = about[j]
    BY DEF IInv, TypeOK
  <1>1. OneRunInv'
    BY <1>0, RunKept
  <1>2. ExpiryIsAnnounced'
    BY DEF IInv, ExpiryIsAnnounced
  <1>3. CASE pc' = [pc EXCEPT ![i] = "periods"] /\ UNCHANGED licenseWarned
             /\ failures < MaxFailures /\ failures' = failures + 1
    <2>0. pc'[i] = "periods"
      BY <1>3 DEF IInv, TypeOK
    <2>1. TypeOK'
      <3>1. failures' \in 0..MaxFailures
        BY <1>3, ScanAssumption DEF IInv, TypeOK
      <3>2. QED
        BY <1>3, <3>1 DEF IInv, TypeOK
    <2>2. PeriodInv'
      BY <1>0, <2>0, PeriodKept
    <2>3. LicenseInv' /\ WarnInv' /\ LicenseWarnedOnce'
      BY <1>0, <1>3, <2>0, <2>1, LicenseKept
    <2>4. QED
      BY <1>1, <1>2, <2>1, <2>2, <2>3 DEF IInv
  <1>4. CASE licenseWarned' = [licenseWarned EXCEPT ![a.period][a.level] = @ + 1]
             /\ pc' = [pc EXCEPT ![i] = "stamp"] /\ UNCHANGED failures
    <2>0. /\ pc'[i] = "stamp" /\ a.level \in LicenseLevels /\ a.period \in Periods /\ a.period <= period
          /\ a = [period |-> a.period, level |-> a.level]
          /\ licenseWarned[a.period][a.level] <= crashes
      BY <1>0, <1>4 DEF IInv, TypeOK, WarnInv
    <2>1. TypeOK'
      <3>1. licenseWarned' \in [Periods -> [LicenseLevels -> Nat]]
        BY <1>4, <2>0 DEF IInv, TypeOK
      <3>2. QED
        BY <1>4, <3>1 DEF IInv, TypeOK
    <2>2. PeriodInv'
      BY <1>0, <2>0, PeriodKept
    <2>3. ASSUME NEW k \in Periods, NEW l \in LicenseLevels
          PROVE  licenseWarned'[k][l] = IF k = a.period /\ l = a.level THEN licenseWarned[k][l] + 1
                                                                        ELSE licenseWarned[k][l]
      BY <1>4, <2>0 DEF IInv, TypeOK
    <2>4. LicenseWarnedOnce'
      <3> SUFFICES ASSUME NEW k \in Periods, NEW l \in LicenseLevels PROVE licenseWarned'[k][l] <= 1 + crashes
        BY DEF LicenseWarnedOnce
      <3>1. licenseWarned[k][l] <= 1 + crashes
        BY DEF IInv, LicenseWarnedOnce
      <3>2. QED
        BY <2>0, <2>3, <3>1, Counters DEF IInv
    <2>5. WarnInv'
      <3>1. ASSUME NEW j \in Instances, pc'[j] \in {"warn", "stamp"} PROVE j = i
        BY <1>0, <3>1 DEF IInv, OneRunInv
      <3>2. pc'[i] # "warn" /\ about'[i] = a
        BY <1>0, <2>0
      <3>3. sentDays = Null \/ (a.period = period /\ sentDays > a.level)
        BY <1>0 DEF IInv, WarnInv
      <3>4. QED
        BY <2>0, <3>1, <3>2, <3>3 DEF WarnInv
    <2>6. LicenseInv'
      <3>1. ASSUME NEW k \in Periods, NEW l \in LicenseLevels, k > period PROVE licenseWarned'[k][l] = 0
        <4>1. k # a.period
          BY <2>0, <3>1, Counters DEF IInv
        <4>2. QED
          BY <2>3, <3>1, <4>1 DEF IInv, LicenseInv
      <3>2. ASSUME NEW l \in LicenseLevels, ~Warned(sentDays, l),
                   \A j \in Instances : pc'[j] = "stamp" => about'[j] # [period |-> period, level |-> l]
            PROVE  licenseWarned'[period][l] <= crashes
        <4>1. a # [period |-> period, level |-> l]
          BY <1>0, <2>0, <3>2
        <4>2. ~(period = a.period /\ l = a.level) /\ period \in Periods
          BY <2>0, <4>1 DEF IInv, TypeOK
        <4>3. \A j \in Instances : pc[j] = "stamp" => about[j] # [period |-> period, level |-> l]
          BY <1>0 DEF IInv, OneRunInv
        <4>4. licenseWarned[period][l] <= crashes
          BY <3>2, <4>3 DEF IInv, LicenseInv
        <4>5. QED
          BY <2>3, <4>2, <4>4
      <3>3. QED
        BY <3>1, <3>2 DEF LicenseInv, Warned
    <2>7. QED
      BY <1>1, <1>2, <2>1, <2>2, <2>4, <2>5, <2>6 DEF IInv
  <1>5. QED
    BY <1>3, <1>4

LEMMA StampLicenseKeeps == ASSUME NEW i \in Instances, IInv, StampLicense(i) PROVE IInv'
  <1> USE DEF StampLicense, Goto, rowVars, countVars, noticeVars
  <1> DEFINE a == about[i]
  <1>0. /\ pc[i] = "stamp" /\ pc'[i] = "periods" /\ UNCHANGED about /\ sentDays' = a.level
        /\ \A j \in Instances \ {i} : pc'[j] = pc[j] /\ about'[j] = about[j]
    BY DEF IInv, TypeOK
  <1>1. /\ a.level \in LicenseLevels /\ a.period \in Periods /\ a.period <= period
        /\ a = [period |-> a.period, level |-> a.level]
        /\ sentDays = Null \/ (a.period = period /\ sentDays > a.level)
    BY <1>0 DEF IInv, TypeOK, WarnInv
  <1>2. TypeOK'
    BY <1>0, <1>1 DEF IInv, TypeOK
  <1>3. OneRunInv'
    BY <1>0, RunKept
  <1>4. PeriodInv'
    BY <1>0, PeriodKept
  <1>5. ExpiryIsAnnounced' /\ LicenseWarnedOnce'
    BY DEF IInv, ExpiryIsAnnounced, LicenseWarnedOnce
  <1>6. WarnInv'
    <2>1. \A j \in Instances : pc'[j] \notin {"warn", "stamp"}
      BY <1>0 DEF IInv, OneRunInv
    <2>2. QED
      BY <2>1 DEF WarnInv
  <1>7. LicenseInv'
    <2>1. \A k \in Periods, l \in LicenseLevels : k > period => licenseWarned[k][l] = 0
      BY DEF IInv, LicenseInv
    <2>2. ASSUME NEW l \in LicenseLevels, ~Warned(a.level, l) PROVE licenseWarned[period][l] <= crashes
      <3>1. l \in Nat /\ a.level \in Nat /\ a.level > 0 /\ l < a.level
        BY <1>1, <2>2, Counters DEF Warned, Null, IInv
      <3>2. ~Warned(sentDays, l)
        BY <1>1, <3>1, Counters DEF Warned, Null, IInv, TypeOK
      <3>3. \A j \in Instances : pc[j] = "stamp" => about[j] # [period |-> period, level |-> l]
        BY <1>0, <1>1, <3>1 DEF IInv, OneRunInv
      <3>4. QED
        BY <3>2, <3>3 DEF IInv, LicenseInv
    <2>3. QED
      BY <1>0, <2>1, <2>2 DEF LicenseInv, Warned
  <1>8. QED
    BY <1>2, <1>3, <1>4, <1>5, <1>6, <1>7 DEF IInv

-----------------------------------------------------------------------------
LEMMA SelectPeriodsKeeps == ASSUME NEW i \in Instances, IInv, SelectPeriods(i) PROVE IInv'
  <1> USE DEF SelectPeriods, Goto, licenseVars, rowVars, countVars, noticeVars
  <1>0. /\ pc[i] = "periods" /\ pc'[i] = "next"
        /\ \A j \in Instances \ {i} : pc'[j] = pc[j] /\ about'[j] = about[j]
    BY DEF IInv, TypeOK
  <1>1. TypeOK'
    BY DEF IInv, TypeOK
  <1>2. QED
    BY <1>0, <1>1, RunKept, PeriodKept, LicenseKept DEF IInv, ExpiryIsAnnounced

LEMMA NextPeriodKeeps ==
  ASSUME NEW i \in Instances, NEW k \in Periods, IInv, NextPeriod(i, k) PROVE IInv'
  <1> USE DEF NextPeriod, Goto, licenseVars, rowVars, countVars, noticeVars
  <1> PICK l \in Due(k) :
        IF Warned(rowSent[k], l) THEN UNCHANGED <<about, pc>>
        ELSE /\ about' = [about EXCEPT ![i] = [period |-> k, level |-> l]]
             /\ Goto(i, "notify")
    OBVIOUS
  <1>0. l \in PeriodLevels \cup {0}
    BY DEF Due, Applicable
  <1>1. /\ pc[i] = "next" /\ pc'[i] \in {"next", "notify"}
        /\ pc'[i] = "notify" => about'[i].level = l
        /\ \A j \in Instances \ {i} : pc'[j] = pc[j] /\ about'[j] = about[j]
    BY DEF IInv, TypeOK
  <1>2. TypeOK'
    <2>1. [period |-> k, level |-> l]
            \in [period : Periods, level : LicenseLevels \cup PeriodLevels \cup {0}]
      BY <1>0
    <2>2. CASE UNCHANGED <<about, pc>>
      BY <2>2 DEF IInv, TypeOK
    <2>3. CASE /\ about' = [about EXCEPT ![i] = [period |-> k, level |-> l]]
               /\ pc' = [pc EXCEPT ![i] = "notify"]
      BY <2>1, <2>3 DEF IInv, TypeOK
    <2>4. QED
      BY <2>2, <2>3
  <1>3. PeriodInv'
    BY <1>0, <1>1 DEF IInv, PeriodInv
  <1>4. OneRunInv'
    BY <1>1, RunKept
  <1>5. LicenseInv' /\ WarnInv' /\ LicenseWarnedOnce'
    BY <1>1, <1>2, LicenseKept
  <1>6. ExpiryIsAnnounced'
    BY DEF IInv, ExpiryIsAnnounced
  <1>7. QED
    BY <1>2, <1>3, <1>4, <1>5, <1>6 DEF IInv

LEMMA NotifyPeriodKeeps == ASSUME NEW i \in Instances, IInv, NotifyPeriod(i) PROVE IInv'
  <1> USE DEF NotifyPeriod, Goto, Fail, licenseVars, rowVars
  <1> DEFINE a == about[i]
  <1>0. /\ pc[i] = "notify" /\ pc'[i] \in {"next", "advance"} /\ UNCHANGED about
        /\ \A j \in Instances \ {i} : pc'[j] = pc[j] /\ about'[j] = about[j]
        /\ a.level \in PeriodLevels \cup {0} /\ a.period \in Periods
    BY DEF IInv, TypeOK, PeriodInv
  <1>1. OneRunInv'
    BY <1>0, RunKept
  <1>2. CASE pc' = [pc EXCEPT ![i] = "next"] /\ UNCHANGED rowWarned
             /\ failures < MaxFailures /\ failures' = failures + 1
    <2>0. pc'[i] = "next"
      BY <1>2 DEF IInv, TypeOK
    <2>1. TypeOK'
      <3>1. failures' \in 0..MaxFailures
        BY <1>2, ScanAssumption DEF IInv, TypeOK
      <3>2. QED
        BY <1>2, <3>1 DEF IInv, TypeOK
    <2>2. PeriodInv'
      BY <1>0, <1>2, <2>0, PeriodKept
    <2>3. ExpiryIsAnnounced'
      BY <1>2 DEF IInv, ExpiryIsAnnounced
    <2>4. LicenseInv' /\ WarnInv' /\ LicenseWarnedOnce'
      BY <1>0, <2>0, <2>1, LicenseKept
    <2>5. QED
      BY <1>1, <2>1, <2>2, <2>3, <2>4 DEF IInv
  <1>3. CASE rowWarned' = [rowWarned EXCEPT ![a.period][a.level] = @ + 1]
             /\ pc' = [pc EXCEPT ![i] = "advance"] /\ UNCHANGED failures
    <2>0. pc'[i] = "advance"
      BY <1>3 DEF IInv, TypeOK
    <2>1. TypeOK'
      <3>1. rowWarned' \in [Periods -> [PeriodLevels \cup {0} -> Nat]]
        <4> DEFINE L == PeriodLevels \cup {0}
        <4>1. rowWarned \in [Periods -> [L -> Nat]] /\ a.level \in L /\ a.period \in Periods
          BY <1>0 DEF IInv, TypeOK
        <4>2. rowWarned[a.period][a.level] + 1 \in Nat
          BY <4>1
        <4>3. [rowWarned[a.period] EXCEPT ![a.level] = @ + 1] \in [L -> Nat]
          BY <4>1, <4>2
        <4>4. rowWarned' = [rowWarned EXCEPT ![a.period] = [rowWarned[a.period] EXCEPT ![a.level] = @ + 1]]
          BY <1>3
        <4> HIDE DEF L
        <4>5. rowWarned' \in [Periods -> [L -> Nat]]
          BY <4>1, <4>3, <4>4
        <4>6. QED
          BY <4>5 DEF L
      <3>2. QED
        BY <1>3, <3>1 DEF IInv, TypeOK
    <2>2. ASSUME NEW k \in Periods, rowWarned[k][0] > 0 PROVE rowWarned'[k][0] > 0
      <3>1. rowWarned[k] \in [PeriodLevels \cup {0} -> Nat] /\ rowWarned[k][0] \in Nat
        BY ZenonT(60) DEF IInv, TypeOK
      <3>2. \/ rowWarned'[k][0] = rowWarned[k][0]
            \/ rowWarned'[k][0] = rowWarned[k][0] + 1
        BY <1>0, <1>3, <3>1 DEF IInv, TypeOK
      <3>3. QED
        BY <2>2, <3>1, <3>2
    <2>3. ExpiryIsAnnounced'
      BY <2>2 DEF IInv, ExpiryIsAnnounced
    <2>4. PeriodInv'
      <3>1. a.level = 0 => rowWarned'[a.period][0] > 0
        BY <1>0, <1>3 DEF IInv, TypeOK
      <3>2. \A j \in Instances \ {i} : pc'[j] \notin {"notify", "advance"}
        BY <1>0 DEF IInv, OneRunInv
      <3>3. QED
        BY <1>0, <3>1, <3>2 DEF PeriodInv
    <2>5. LicenseInv' /\ WarnInv' /\ LicenseWarnedOnce'
      BY <1>0, <2>0, <2>1, LicenseKept
    <2>6. QED
      BY <1>1, <2>1, <2>3, <2>4, <2>5 DEF IInv
  <1>4. QED
    BY <1>2, <1>3

LEMMA ExpirePeriodKeeps == ASSUME NEW i \in Instances, IInv, ExpirePeriod(i) PROVE IInv'
  <1> USE DEF ExpirePeriod, Goto, licenseVars, countVars, noticeVars
  <1>0. /\ pc[i] = "advance" /\ pc'[i] = "next" /\ about[i].level = 0 /\ about[i].period \in Periods
        /\ \A j \in Instances \ {i} : pc'[j] = pc[j] /\ about'[j] = about[j]
    BY DEF IInv, TypeOK
  <1>1. TypeOK'
    BY <1>0 DEF IInv, TypeOK
  <1>2. ExpiryIsAnnounced'
    <2>1. rowWarned[about[i].period][0] > 0
      BY <1>0 DEF IInv, PeriodInv
    <2>2. \A k \in Periods : rowStatus'[k] = "EXPIRED" => rowStatus[k] = "EXPIRED" \/ k = about[i].period
      BY <1>0 DEF IInv, TypeOK
    <2>3. QED
      BY <2>1, <2>2 DEF IInv, ExpiryIsAnnounced
  <1>3. OneRunInv'
    BY <1>0, RunKept
  <1>4. PeriodInv'
    BY <1>0, PeriodKept
  <1>5. LicenseInv' /\ WarnInv' /\ LicenseWarnedOnce'
    BY <1>0, <1>1, LicenseKept
  <1>6. QED
    BY <1>1, <1>2, <1>3, <1>4, <1>5 DEF IInv

LEMMA AdvanceLevelKeeps == ASSUME NEW i \in Instances, IInv, AdvanceLevel(i) PROVE IInv'
  <1> USE DEF AdvanceLevel, Goto, licenseVars, countVars, noticeVars
  <1>0. /\ pc[i] = "advance" /\ pc'[i] = "next" /\ about[i].level \in PeriodLevels \cup {0}
        /\ about[i].period \in Periods
        /\ \A j \in Instances \ {i} : pc'[j] = pc[j] /\ about'[j] = about[j]
    BY DEF IInv, TypeOK, PeriodInv
  <1>1. TypeOK'
    BY <1>0 DEF IInv, TypeOK
  <1>2. OneRunInv' /\ PeriodInv'
    BY <1>0, RunKept, PeriodKept
  <1>3. LicenseInv' /\ WarnInv' /\ LicenseWarnedOnce'
    BY <1>0, <1>1, LicenseKept
  <1>4. ExpiryIsAnnounced'
    BY DEF IInv, ExpiryIsAnnounced
  <1>5. QED
    BY <1>1, <1>2, <1>3, <1>4 DEF IInv

LEMMA EndRunKeeps == ASSUME NEW i \in Instances, IInv, EndRun(i) PROVE IInv'
  <1> USE DEF EndRun, Goto, licenseVars, rowVars, countVars, noticeVars
  <1>0. /\ pc[i] = "next" /\ pc'[i] = "idle"
        /\ \A j \in Instances \ {i} : pc'[j] = pc[j] /\ about'[j] = about[j]
    BY DEF IInv, TypeOK
  <1>1. TypeOK'
    BY NothingTyped DEF IInv, TypeOK
  <1>2. OneRunInv' /\ PeriodInv'
    BY <1>0, RunKept, PeriodKept
  <1>3. LicenseInv' /\ WarnInv' /\ LicenseWarnedOnce'
    BY <1>0, <1>1, LicenseKept
  <1>4. ExpiryIsAnnounced'
    BY DEF IInv, ExpiryIsAnnounced
  <1>5. QED
    BY <1>1, <1>2, <1>3, <1>4 DEF IInv

LEMMA CrashKeeps == ASSUME NEW i \in Instances, IInv, Crash(i) PROVE IInv'
  <1> USE DEF Crash, Goto, licenseVars, rowVars, noticeVars
  <1>0. /\ pc[i] # "idle" /\ pc'[i] = "idle" /\ crashes' = crashes + 1 /\ crashes \in Nat
        /\ \A j \in Instances \ {i} : pc[j] = "idle" /\ pc'[j] = "idle"
    BY Counters DEF IInv, TypeOK, OneRunInv
  <1>1. TypeOK'
    <2>1. crashes' \in 0..MaxCrashes
      BY ScanAssumption DEF IInv, TypeOK
    <2>2. QED
      BY <2>1, NothingTyped DEF IInv, TypeOK
  <1>2. OneRunInv' /\ PeriodInv' /\ WarnInv' /\ ExpiryIsAnnounced'
    BY <1>0 DEF IInv, OneRunInv, PeriodInv, WarnInv, ExpiryIsAnnounced
  <1>3. \A k \in Periods, l \in LicenseLevels : licenseWarned[k][l] <= 1 + crashes
    BY DEF IInv, LicenseWarnedOnce
  <1>4. LicenseWarnedOnce'
    BY <1>0, <1>3, Counters DEF IInv, LicenseWarnedOnce
  <1>5. LicenseInv'
    <2>1. \A k \in Periods, l \in LicenseLevels : k > period => licenseWarned[k][l] = 0
      BY DEF IInv, LicenseInv
    <2>2. \A l \in LicenseLevels : licenseWarned[period][l] <= crashes'
      BY <1>0, <1>3, Counters DEF IInv, TypeOK
    <2>3. QED
      BY <2>1, <2>2 DEF LicenseInv
  <1>6. QED
    BY <1>1, <1>2, <1>4, <1>5 DEF IInv

LEMMA NextKeeps == IInv /\ [Next]_vars => IInv'
  <1> SUFFICES ASSUME IInv, [Next]_vars PROVE IInv'
    OBVIOUS
  <1>1. CASE NewDay \/ Renew \/ SetActive
    BY <1>1, NewDayKeeps, RenewKeeps, SetActiveKeeps
  <1>2. ASSUME NEW i \in Instances, ClaimRun(i) \/ Crash(i) PROVE IInv'
    BY <1>2, ClaimRunKeeps, CrashKeeps
  <1>3. ASSUME NEW i \in Instances, RunStep(i) PROVE IInv'
    BY <1>3, SelectLicenseKeeps, WarnLicenseKeeps, StampLicenseKeeps, SelectPeriodsKeeps,
       NextPeriodKeeps, NotifyPeriodKeeps, ExpirePeriodKeeps, AdvanceLevelKeeps, EndRunKeeps
       DEF RunStep
  <1>4. CASE UNCHANGED vars
    BY <1>4 DEF vars, IInv, TypeOK, OneRunInv, LicenseInv, Warned, WarnInv, PeriodInv,
       LicenseWarnedOnce, ExpiryIsAnnounced
  <1>5. QED
    BY <1>1, <1>2, <1>3, <1>4 DEF Next

-----------------------------------------------------------------------------
(* No licence lapses without a warning.                                     *)

LEMMA LeastOfNaturals ==
  ASSUME NEW S \in SUBSET Nat, S # {}
  PROVE  \E m \in S : \A n \in S : m <= n
  <1> DEFINE R == OpToRel(<, Nat)
  <1>1. IsWellFoundedOn(R, Nat)
    BY NatLessThanWellFounded
  <1>2. \A x, y \in Nat : x < y => <<x, y>> \in R
    BY DEF OpToRel
  <1> HIDE DEF R
  <1>3. \E x \in S : \A y \in S : ~(<<y, x>> \in R)
    BY <1>1, WFMin
  <1>4. \A x, y \in Nat : ~(y < x) => x <= y
    OBVIOUS
  <1>5. QED
    BY <1>2, <1>3, <1>4

\* Within the largest level some level applies.
LEMMA SomeLevelApplies ==
  ASSUME NEW d \in Nat, NEW w \in LicenseLevels, d <= w
  PROVE  Applicable(LicenseLevels, d) # {}
  <1> DEFINE S == {l \in LicenseLevels : l >= d}
  <1>1. S \in SUBSET Nat /\ w \in S
    BY ScanAssumption
  <1>2. PICK m \in S : \A n \in S : m <= n
    BY <1>1, LeastOfNaturals
  <1>3. QED
    BY <1>2 DEF Applicable

\* The lost days are never more than the bounds allow.
LEMMA LostBounded ==
  ASSUME TypeOK
  PROVE  /\ missed \in Nat /\ crashes \in Nat /\ failures \in Nat
         /\ MaxMissed \in Nat /\ MaxCrashes \in Nat /\ MaxFailures \in Nat
         /\ Losses \in Nat /\ missed + crashes + failures <= Losses
         /\ missed < MaxMissed => missed + 1 + crashes + failures <= Losses
         /\ left \in Nat \/ left = Over
         /\ Term \in Nat /\ FirstDays \in Nat /\ period \in Nat
  BY ScanAssumption DEF TypeOK, Periods, Losses

LEMMA LapseInit == Init => LapseInv
  <1> SUFFICES ASSUME Init PROVE LapseInv
    OBVIOUS
  <1>1. SentInv
    BY DEF Init, SentInv
  <1>2. WindowInv
    BY ScanAssumption DEF Init, WindowInv, Unwarned, Losses, Over
  <1>3. QED
    BY <1>1, <1>2 DEF LapseInv

\* A step of a run elsewhere than at the licence does not disturb it.
LEMMA LapseKept ==
  ASSUME LapseInv, NEW i \in Instances,
         UNCHANGED <<period, left, sentDays, owed, claimed, licenseWarned, midRun,
                     missed, crashes, failures>>,
         \A j \in Instances \ {i} : pc'[j] = pc[j] /\ about'[j] = about[j],
         pc[i] \notin {"license", "warn", "stamp"},
         pc'[i] \notin {"license", "warn", "stamp"}
  PROVE  LapseInv'
  <1>1. SentInv'
    BY DEF LapseInv, SentInv, Unwarned
  <1>2. WindowInv'
    <2>1. (\A j \in Instances : pc'[j] \notin {"license", "warn"})
            => \A j \in Instances : pc[j] \notin {"license", "warn"}
      OBVIOUS
    <2>2. QED
      BY <2>1 DEF LapseInv, WindowInv, Unwarned
  <1>3. QED
    BY <1>1, <1>2 DEF LapseInv

\* A failed notification or a run cut off adds to the lost days what the day
\* would have had to spare.
LEMMA LossSpares ==
  ASSUME IInv, LapseInv, NEW i \in Instances,
         UNCHANGED <<period, left, sentDays, owed, claimed, licenseWarned, midRun>>,
         \A j \in Instances \ {i} : pc'[j] = pc[j] /\ about'[j] = about[j],
         pc'[i] \notin {"license", "warn", "stamp"},
         missed' \in Nat, crashes' \in Nat, failures' \in Nat,
         missed' + crashes' + failures' = missed + crashes + failures + 1
  PROVE  LapseInv'
  <1>1. SentInv'
    BY DEF LapseInv, SentInv, Unwarned
  <1>2. ASSUME Unwarned PROVE left # Over /\ left + (missed' + crashes' + failures') > Losses
    <2>1. left # Over /\ left + (missed + crashes + failures) >= Losses
      BY <1>2 DEF LapseInv, WindowInv
    <2>2. QED
      BY <2>1, LostBounded DEF IInv
  <1>3. Unwarned' => Unwarned
    BY DEF Unwarned
  <1>4. WindowInv'
    <2>1. Losses \in Nat /\ (left \in Nat \/ left = Over)
      BY LostBounded DEF IInv
    <2>2. left + (missed' + crashes' + failures') > Losses
            => left + (missed' + crashes' + failures') >= Losses
      BY <2>1 DEF Over
    <2>3. QED
      BY <1>2, <1>3, <2>2 DEF WindowInv
  <1>5. QED
    BY <1>1, <1>4 DEF LapseInv

LEMMA LapseNewDay == IInv /\ LapseInv /\ NewDay => LapseInv'
  <1> SUFFICES ASSUME IInv, LapseInv, NewDay PROVE LapseInv'
    OBVIOUS
  <1> USE DEF NewDay, rowVars, noticeVars
  <1>1. SentInv'
    BY DEF LapseInv, SentInv, Unwarned
  <1>2. ASSUME Unwarned
        PROVE  left' # Over /\ left' + (missed' + crashes + failures) >= Losses
    <2>0. left \in Nat /\ left' = left - 1
          /\ left + (missed + crashes + failures) >= Losses
      BY <1>2, LostBounded DEF IInv, LapseInv, WindowInv, Yesterday
    <2>1. CASE claimed
      <3>1. missed' = missed /\ left + (missed + crashes + failures) > Losses
        BY <1>2, <2>1 DEF LapseInv, WindowInv
      <3>2. QED
        BY <2>0, <3>1, LostBounded DEF IInv, Over
    <2>2. CASE ~claimed
      <3>1. missed' = missed + 1 /\ missed < MaxMissed
        BY <2>2
      <3>2. QED
        BY <2>0, <3>1, LostBounded DEF IInv, Over
    <2>3. QED
      BY <2>1, <2>2
  <1>3. WindowInv'
    BY <1>2 DEF WindowInv, Unwarned
  <1>4. QED
    BY <1>1, <1>3 DEF LapseInv

LEMMA LapseRenew == IInv /\ LapseInv /\ Renew => LapseInv'
  <1> SUFFICES ASSUME IInv, LapseInv, Renew PROVE LapseInv'
    OBVIOUS
  <1> USE DEF Renew, countVars, noticeVars
  <1>1. period' = period + 1 /\ period \in Nat /\ period + 1 \in Periods /\ sentDays' = Null
    BY ScanAssumption DEF IInv, TypeOK, Periods
  <1>2. SentInv'
    <2> SUFFICES ASSUME NEW i \in Instances, pc[i] \in {"warn", "stamp"}
                 PROVE  /\ period' \in midRun'
                        /\ pc[i] = "stamp" => licenseWarned[about[i].period][about[i].level] > 0
      BY <1>1 DEF SentInv
    <2>1. QED
      BY DEF LapseInv, SentInv
  <1>3. PICK end \in NewExpiry : left' = end /\ owed' = (IF end > Losses THEN {period + 1} ELSE {})
    BY Zenon DEF Renew
  <1>4. end \in Nat \cup {Over} /\ Losses \in Nat
    <2>1. Losses \in Nat /\ (left \in Nat \/ left = Over)
      BY LostBounded DEF IInv
    <2>2. QED
      BY <2>1, ScanAssumption DEF NewExpiry, Over
  <1>5. owed' # {} => left' # Over /\ left' > Losses
    BY <1>3, <1>4 DEF Over
  <1>6. owed' # {} => /\ left' # Over
                     /\ left' + (missed + crashes + failures) >= Losses
                     /\ left' + (missed + crashes + failures) > Losses
    <2>1. left' \in Int
      BY <1>3, <1>4 DEF Over
    <2>2. QED
      BY <1>4, <1>5, <2>1, LostBounded DEF IInv
  <1>7. WindowInv'
    BY <1>6 DEF WindowInv, Unwarned
  <1>8. QED
    BY <1>2, <1>7 DEF LapseInv

LEMMA LapseSetActive == LapseInv /\ SetActive => LapseInv'
  BY DEF SetActive, LapseInv, SentInv, WindowInv, Unwarned, countVars, noticeVars

LEMMA LapseClaimRun == ASSUME NEW i \in Instances, IInv, LapseInv, ClaimRun(i) PROVE LapseInv'
  <1> USE DEF ClaimRun, Goto, licenseVars, rowVars, countVars, noticeVars
  <1>0. pc'[i] = "license" /\ \A j \in Instances \ {i} : pc'[j] = pc[j]
    BY DEF IInv, TypeOK
  <1>1. SentInv'
    BY <1>0 DEF LapseInv, SentInv, Unwarned
  <1>2. WindowInv'
    BY <1>0 DEF LapseInv, WindowInv, Unwarned
  <1>3. QED
    BY <1>1, <1>2 DEF LapseInv

LEMMA LapseSelectLicense ==
  ASSUME NEW i \in Instances, IInv, LapseInv, WindowCovers, SelectLicense(i) PROVE LapseInv'
  <1> USE DEF SelectLicense, Goto, rowVars, countVars, noticeVars
  <1>0. /\ pc[i] = "license" /\ \A j \in Instances \ {i} : pc'[j] = pc[j] /\ about'[j] = about[j]
    BY DEF IInv, TypeOK
  <1>1. CASE \E l \in LicenseDue :
               /\ about' = [about EXCEPT ![i] = [period |-> period, level |-> l]]
               /\ pc' = [pc EXCEPT ![i] = "warn"]
               /\ UNCHANGED owed
    <2>1. pc'[i] = "warn" /\ about'[i].period = period
      BY <1>1 DEF IInv, TypeOK
    <2>2. SentInv'
      BY <1>0, <2>1 DEF LapseInv, SentInv
    <2>3. WindowInv'
      BY <1>1, <2>1 DEF LapseInv, WindowInv, Unwarned
    <2>4. QED
      BY <2>2, <2>3 DEF LapseInv
  <1>2. CASE /\ owed' = (IF LicenseDue = {} THEN owed ELSE {})
             /\ pc' = [pc EXCEPT ![i] = "periods"] /\ UNCHANGED about
    <2>1. pc'[i] = "periods"
      BY <1>2 DEF IInv, TypeOK
    <2>2. SentInv'
      BY <1>0, <1>2, <2>1 DEF LapseInv, SentInv
    <2>3. ASSUME Unwarned, LicenseDue = {}
          PROVE  /\ left # Over
                 /\ left + (missed + crashes + failures) >= Losses
                 /\ left + (missed + crashes + failures) > Losses
      <3>1. /\ left # Over /\ sentDays = Null
            /\ left + (missed + crashes + failures) >= Losses
        BY <2>3 DEF LapseInv, WindowInv, SentInv, Unwarned
      <3>2. Applicable(LicenseLevels, left) = {}
        BY <2>3, <3>1 DEF Warned, LicenseDue
      <3>3. PICK w \in LicenseLevels : w >= Losses
        BY DEF WindowCovers
      <3>4. left \in Nat /\ w \in Nat
        BY <3>1, LostBounded, ScanAssumption DEF IInv
      <3>5. ~(left <= w)
        BY <3>2, <3>4, SomeLevelApplies
      <3>6. QED
        BY <3>1, <3>3, <3>4, <3>5, LostBounded DEF IInv
    <2>4. Unwarned' => Unwarned /\ LicenseDue = {}
      BY <1>2 DEF Unwarned
    <2>5. WindowInv'
      BY <2>3, <2>4 DEF WindowInv
    <2>6. QED
      BY <2>2, <2>5 DEF LapseInv
  <1>3. QED
    BY <1>1, <1>2

LEMMA LapseWarnLicense ==
  ASSUME NEW i \in Instances, IInv, LapseInv, WarnLicense(i) PROVE LapseInv'
  <1> USE DEF WarnLicense, Goto, Fail, licenseVars, rowVars
  <1> DEFINE a == about[i]
  <1>0. /\ pc[i] = "warn" /\ UNCHANGED about
        /\ \A j \in Instances \ {i} : pc'[j] = pc[j] /\ about'[j] = about[j]
    BY DEF IInv, TypeOK
  <1>1. CASE pc' = [pc EXCEPT ![i] = "periods"] /\ UNCHANGED licenseWarned /\ failures' = failures + 1
    <2>1. pc'[i] = "periods"
      BY <1>1 DEF IInv, TypeOK
    <2>2. /\ missed' \in Nat /\ crashes' \in Nat /\ failures' \in Nat
          /\ missed' + crashes' + failures' = missed + crashes + failures + 1
      BY <1>1, LostBounded DEF IInv
    <2>3. QED
      BY <1>0, <1>1, <2>1, <2>2, LossSpares
  <1>2. CASE /\ licenseWarned' = [licenseWarned EXCEPT ![a.period][a.level] = @ + 1]
             /\ pc' = [pc EXCEPT ![i] = "stamp"] /\ UNCHANGED failures
    <2>0. /\ pc'[i] = "stamp" /\ a.level \in LicenseLevels /\ a.period \in Periods
          /\ \A j \in Instances \ {i} : pc'[j] \notin {"license", "warn", "stamp"}
      BY <1>0, <1>2 DEF IInv, TypeOK, WarnInv, OneRunInv
    <2>1. licenseWarned'[a.period][a.level] > 0
      <3>1. licenseWarned \in [Periods -> [LicenseLevels -> Nat]]
        BY DEF IInv, TypeOK
      <3>2. licenseWarned[a.period][a.level] \in Nat
        BY <2>0, <3>1
      <3>3. licenseWarned'[a.period][a.level] = licenseWarned[a.period][a.level] + 1
        BY <1>2, <2>0, <3>1
      <3>4. QED
        BY <3>2, <3>3
    <2>2. a.period = period \/ period \in midRun
      BY <1>0 DEF LapseInv, SentInv
    <2>3. ~Unwarned'
      BY <2>0, <2>1, <2>2 DEF Unwarned
    <2>4. SentInv'
      BY <1>0, <2>0, <2>1, <2>2, <2>3 DEF SentInv
    <2>5. WindowInv'
      BY <2>3 DEF WindowInv
    <2>6. QED
      BY <2>4, <2>5 DEF LapseInv
  <1>3. QED
    BY <1>1, <1>2

LEMMA LapseStampLicense ==
  ASSUME NEW i \in Instances, IInv, LapseInv, StampLicense(i) PROVE LapseInv'
  <1> USE DEF StampLicense, Goto, rowVars, countVars, noticeVars
  <1> DEFINE a == about[i]
  <1>0. /\ pc[i] = "stamp" /\ pc'[i] = "periods"
        /\ \A j \in Instances \ {i} : pc'[j] \notin {"license", "warn", "stamp"}
    BY DEF IInv, TypeOK, OneRunInv
  <1>1. /\ licenseWarned[a.period][a.level] > 0 /\ a.level \in LicenseLevels
        /\ a.period = period \/ period \in midRun
    BY <1>0 DEF IInv, WarnInv, LapseInv, SentInv
  <1>2. ~Unwarned'
    BY <1>1 DEF Unwarned
  <1>3. SentInv' /\ WindowInv'
    BY <1>0, <1>1, <1>2 DEF SentInv, WindowInv
  <1>4. QED
    BY <1>3 DEF LapseInv

LEMMA LapseCrash == ASSUME NEW i \in Instances, IInv, LapseInv, Crash(i) PROVE LapseInv'
  <1> USE DEF Crash, Goto, licenseVars, rowVars, noticeVars
  <1>1. pc'[i] = "idle" /\ \A j \in Instances \ {i} : pc'[j] = pc[j] /\ about'[j] = about[j]
    BY DEF IInv, TypeOK
  <1>2. /\ missed' \in Nat /\ crashes' \in Nat /\ failures' \in Nat
        /\ missed' + crashes' + failures' = missed + crashes + failures + 1
    BY LostBounded DEF IInv
  <1>3. QED
    BY <1>1, <1>2, LossSpares

\* The rest of the run is about the subscription's periods.
LEMMA LapsePeriods ==
  ASSUME NEW i \in Instances, IInv, LapseInv,
         \/ SelectPeriods(i) \/ (\E k \in Periods : NextPeriod(i, k))
         \/ NotifyPeriod(i) \/ ExpirePeriod(i) \/ AdvanceLevel(i) \/ EndRun(i)
  PROVE  LapseInv'
  <1> USE DEF Goto, licenseVars, countVars
  <1>1. CASE SelectPeriods(i)
    <2>1. /\ pc[i] = "periods" /\ pc'[i] = "next"
          /\ \A j \in Instances \ {i} : pc'[j] = pc[j] /\ about'[j] = about[j]
      BY <1>1 DEF SelectPeriods, IInv, TypeOK
    <2>2. QED
      BY <1>1, <2>1, LapseKept DEF SelectPeriods, noticeVars
  <1>2. ASSUME NEW k \in Periods, NextPeriod(i, k) PROVE LapseInv'
    <2>1. PICK l \in Due(k) :
            IF Warned(rowSent[k], l) THEN UNCHANGED <<about, pc>>
            ELSE /\ about' = [about EXCEPT ![i] = [period |-> k, level |-> l]]
                 /\ pc' = [pc EXCEPT ![i] = "notify"]
      BY <1>2 DEF NextPeriod
    <2>2. /\ pc[i] = "next" /\ pc'[i] \in {"next", "notify"}
          /\ \A j \in Instances \ {i} : pc'[j] = pc[j] /\ about'[j] = about[j]
      BY <1>2, <2>1 DEF NextPeriod, IInv, TypeOK
    <2>3. QED
      BY <1>2, <2>2, LapseKept DEF NextPeriod, noticeVars
  <1>3. CASE NotifyPeriod(i)
    <2>1. /\ pc[i] = "notify" /\ pc'[i] \in {"next", "advance"}
          /\ \A j \in Instances \ {i} : pc'[j] = pc[j] /\ about'[j] = about[j]
          /\ failures' = failures \/ failures' = failures + 1
      BY <1>3 DEF NotifyPeriod, Fail, IInv, TypeOK
    <2>2. CASE failures' = failures
      BY <1>3, <2>1, <2>2, LapseKept DEF NotifyPeriod
    <2>3. CASE failures' = failures + 1
      <3>1. /\ missed' \in Nat /\ crashes' \in Nat /\ failures' \in Nat
            /\ missed' + crashes' + failures' = missed + crashes + failures + 1
        BY <1>3, <2>3, LostBounded DEF IInv, NotifyPeriod
      <3>2. QED
        BY <1>3, <2>1, <3>1, LossSpares DEF NotifyPeriod
    <2>4. QED
      BY <2>1, <2>2, <2>3
  <1>4. CASE ExpirePeriod(i)
    <2>1. /\ pc[i] = "advance" /\ pc'[i] = "next"
          /\ \A j \in Instances \ {i} : pc'[j] = pc[j] /\ about'[j] = about[j]
      BY <1>4 DEF ExpirePeriod, IInv, TypeOK
    <2>2. QED
      BY <1>4, <2>1, LapseKept DEF ExpirePeriod, noticeVars
  <1>5. CASE AdvanceLevel(i)
    <2>1. /\ pc[i] = "advance" /\ pc'[i] = "next"
          /\ \A j \in Instances \ {i} : pc'[j] = pc[j] /\ about'[j] = about[j]
      BY <1>5 DEF AdvanceLevel, IInv, TypeOK
    <2>2. QED
      BY <1>5, <2>1, LapseKept DEF AdvanceLevel, noticeVars
  <1>6. CASE EndRun(i)
    <2>1. /\ pc[i] = "next" /\ pc'[i] = "idle"
          /\ \A j \in Instances \ {i} : pc'[j] = pc[j] /\ about'[j] = about[j]
      BY <1>6 DEF EndRun, IInv, TypeOK
    <2>2. QED
      BY <1>6, <2>1, LapseKept DEF EndRun, noticeVars
  <1>7. QED
    BY <1>1, <1>2, <1>3, <1>4, <1>5, <1>6

LEMMA LapseNext == WindowCovers /\ IInv /\ LapseInv /\ [Next]_vars => LapseInv'
  <1> SUFFICES ASSUME WindowCovers, IInv, LapseInv, [Next]_vars PROVE LapseInv'
    OBVIOUS
  <1>1. CASE NewDay \/ Renew \/ SetActive
    BY <1>1, LapseNewDay, LapseRenew, LapseSetActive
  <1>2. ASSUME NEW i \in Instances, ClaimRun(i) \/ RunStep(i) \/ Crash(i) PROVE LapseInv'
    BY <1>2, LapseClaimRun, LapseCrash, LapseSelectLicense, LapseWarnLicense, LapseStampLicense,
       LapsePeriods DEF RunStep
  <1>3. CASE UNCHANGED vars
    BY <1>3 DEF vars, LapseInv, SentInv, WindowInv, Unwarned
  <1>4. QED
    BY <1>1, <1>2, <1>3 DEF Next

-----------------------------------------------------------------------------
\* The inductive invariant holds in every state.
THEOREM Invariance == Spec => []IInv
  BY InitIInv, NextKeeps, PTL DEF Spec

\* Every variable has its type.
THEOREM TypeCorrect == Spec => []TypeOK
  <1>1. IInv => TypeOK
    BY DEF IInv
  <1>2. QED
    BY Invariance, <1>1, PTL

\* runLicenseExpiryScan warns once at each level of a licence, however many
\* instances trigger the job and however renewals fall, but for runs cut off.
THEOREM OneWarningPerLevel == Spec => []LicenseWarnedOnce
  <1>1. IInv => LicenseWarnedOnce
    BY DEF IInv
  <1>2. QED
    BY Invariance, <1>1, PTL

\* runSubscriptionExpiryScan flips no subscription to EXPIRED that nobody was
\* told of.
THEOREM NoSilentExpiry == Spec => []ExpiryIsAnnounced
  <1>1. IInv => ExpiryIsAnnounced
    BY DEF IInv
  <1>2. QED
    BY Invariance, <1>1, PTL

\* "A missed run catches up to the correct level": where the days that can be lost
\* fit into the licence's window, no licence that began with more days than those
\* lapses unwarned, whatever dates renewals name, but for a showroom that was off
\* when its warning was due and for a renewal in the middle of a run.
THEOREM NoSilentLapse == ASSUME WindowCovers PROVE Spec => []LapseIsWarned
  <1>1. Init => LapseInv
    BY LapseInit
  <1>2. IInv /\ LapseInv /\ [Next]_vars => LapseInv'
    BY LapseNext
  <1>3. TypeOK /\ LapseInv => LapseIsWarned
    <2> SUFFICES ASSUME TypeOK, LapseInv, left = Over, period \in owed \ midRun,
                        \A l \in LicenseLevels : ~(licenseWarned[period][l] > 0)
                 PROVE  FALSE
      BY DEF LapseIsWarned
    <2>1. \A l \in LicenseLevels : licenseWarned[period][l] = 0
      BY DEF TypeOK
    <2>2. QED
      BY <2>1 DEF LapseInv, WindowInv, Unwarned
  <1>4. IInv => TypeOK
    BY DEF IInv
  <1>5. QED
    BY <1>1, <1>2, <1>3, <1>4, Invariance, PTL DEF Spec
=============================================================================
