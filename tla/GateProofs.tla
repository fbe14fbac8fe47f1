----------------------------- MODULE GateProofs -----------------------------
(* The promises of the guards, for every limit, window, clock resolution and *)
(* set of callers: types, how far a signed event is single-use, the budget   *)
(* of writes, and the life of a cooldown.                                    *)
EXTENDS Gate, LimitsProofs

LEMMA WriteKeysOK == WriteKeys \subseteq RateKeys
BY GateAssumption DEF WriteKeys, RateKeys

(* Every call that sweeps uses the window of reads or the one of writes.     *)
LEMMA ReadIsAllow ==
    ASSUME NEW ip \in Ips
    PROVE  /\ <<"read", ip>> \in RateKeys \ WriteKeys
           /\ RateAfterRead(ip) = RateAfterAllow(<<"read", ip>>, ReadMax, ReadWindow)
BY GateAssumption DEF RateKeys, WriteKeys, WriteBuckets, RateAfterRead

LEMMA WriteIsAllow ==
    ASSUME NEW key \in WriteKeys
    PROVE  /\ key \in RateKeys
           /\ RateAfterWrite(key[1], key[2]) = RateAfterAllow(key, WriteMax, WriteWindow)
           /\ AllowedWrite(key[1], key[2]) = Allowed(key, WriteMax, WriteWindow)
<1>1. key = <<key[1], key[2]>> BY DEF WriteKeys
<1> QED BY <1>1, WriteKeysOK DEF RateAfterWrite, AllowedWrite

-----------------------------------------------------------------------------
(* Types *)

LEMMA GateInitOK == GateInit => GateTypeOK
<1> SUFFICES ASSUME GateInit PROVE GateTypeOK OBVIOUS
<1>1. LimitsTypeOK
  BY LimitsAssumption
  DEF GateInit, LimitsInit, LimitsTypeOK, NoEntries, RateOK, SeenOK
<1>2. HitsOK(NoHits) BY DEF HitsOK, NoHits
<1> QED BY <1>1, <1>2 DEF GateInit, NoHistory, GateTypeOK

LEMMA HistoryFrame ==
    GateTypeOK /\ LimitsTypeOK' /\ UNCHANGED <<clock, history>> => GateTypeOK'
BY DEF GateTypeOK, history, HitsOK

LEMMA GateStepOK == GateTypeOK /\ [GateNext]_gateVars => GateTypeOK'
<1> SUFFICES ASSUME GateTypeOK, [GateNext]_gateVars PROVE GateTypeOK' OBVIOUS
<1> USE DEF GateTypeOK
<1>0. clock \in Nat /\ RateOK(rate) /\ SeenOK(seen) BY DEF LimitsTypeOK
<1>1. ASSUME NEW e \in AuthEvents, Authenticate(e) PROVE GateTypeOK'
  <2>1. SeenOK(SeenAfter(e.id)) BY <1>0, SeenAfterOK
  <2>2. RateOK(rate') /\ SeenOK(seen') /\ UNCHANGED clock
    <3>1. SeenOK(seen') = SeenOK(SeenAfter(e.id)) BY <1>1 DEF Authenticate, SeenOK
    <3> QED BY <1>0, <1>1, <2>1, <3>1 DEF Authenticate
  <2>3. LimitsTypeOK' BY <2>2, LimitsFrame
  <2>4. firstPass' \in [AuthEvents -> {Never} \cup 0 .. clock] /\ replayed' \subseteq AuthEvents
    BY <1>0, <1>1 DEF Authenticate
  <2> QED BY <1>1, <2>3, <2>4 DEF Authenticate, HitsOK
<1>2. ASSUME NEW ip \in Ips, Read(ip) PROVE GateTypeOK'
  <2>1. RateOK(RateAfterRead(ip))
    <3>1. RateOK(RateAfterAllow(<<"read", ip>>, ReadMax, ReadWindow))
      BY <1>0, ReadIsAllow, AllowOK
    <3> QED BY <3>1, ReadIsAllow
  <2>2. LimitsTypeOK' BY <1>0, <1>2, <2>1, LimitsFrame DEF Read
  <2> QED BY <1>2, <2>2, HistoryFrame DEF Read
<1>3. ASSUME NEW key \in WriteKeys, Write(key) PROVE GateTypeOK'
  <2>1. RateOK(RateAfterWrite(key[1], key[2])) BY <1>0, WriteIsAllow, AllowOK
  <2>2. LimitsTypeOK' BY <1>0, <1>3, <2>1, LimitsFrame DEF Write
  <2>3. HitsOK(OneMore(Recent(granted[key], WriteWindow)))
    BY <1>0, RecentOK, OneMoreOK
  <2>4. DOMAIN granted' = WriteKeys /\ \A k \in WriteKeys : HitsOK(granted'[k])
    BY <1>3, <2>3 DEF Write
  <2>5. \A k \in WriteKeys : HitsOK(granted[k])'
    BY <1>3, <2>4 DEF Write, HitsOK
  <2> QED BY <1>3, <2>2, <2>4, <2>5 DEF Write
<1>4. ASSUME NEW k \in Keys, CheckCooldown(k) PROVE GateTypeOK'
  <2>1. RateOK(RateAfterCheck(k)) BY <1>0, CheckOK
  <2>2. LimitsTypeOK' BY <1>0, <1>4, <2>1, LimitsFrame DEF CheckCooldown
  <2> QED BY <1>4, <2>2, HistoryFrame DEF CheckCooldown
<1>5. ASSUME NEW k \in Keys, RecordChange(k) PROVE GateTypeOK'
  <2>1. RateOK(RateAfterRecord(k)) BY <1>0, RecordOK
  <2>2. LimitsTypeOK' BY <1>0, <1>5, <2>1, LimitsFrame DEF RecordChange
  <2>3. armed' \in [Keys -> {Never} \cup 0 .. clock] BY <1>0, <1>5 DEF RecordChange
  <2> QED BY <1>5, <2>2, <2>3 DEF RecordChange, HitsOK
<1>6. CASE Tick /\ UNCHANGED <<rate, seen, history>>
  <2>1. clock' = clock + 1 /\ clock' \in 0 .. MaxClock
    BY <1>0, <1>6, LimitsAssumption DEF Tick
  <2>2. RateOK(rate)' /\ SeenOK(seen)'
    BY <1>0, <1>6, <2>1 DEF RateOK, SeenOK, HitsOK
  <2>3. \A key \in WriteKeys : HitsOK(granted[key])'
    BY <1>0, <1>6, <2>1 DEF HitsOK, history
  <2>4. firstPass' \in [AuthEvents -> {Never} \cup 0 .. clock']
    <3>1. \A e \in AuthEvents : firstPass[e] \in {Never} \cup 0 .. clock'
      BY <1>0, <2>1
    <3> QED BY <1>6, <3>1 DEF history
  <2>5. armed' \in [Keys -> {Never} \cup 0 .. clock']
    <3>1. \A k \in Keys : armed[k] \in {Never} \cup 0 .. clock' BY <1>0, <2>1
    <3> QED BY <1>6, <3>1 DEF history
  <2> QED BY <1>6, <2>1, <2>2, <2>3, <2>4, <2>5 DEF LimitsTypeOK, history
<1>7. CASE GateRestart
  <2>1. LimitsTypeOK'
    BY <1>7 DEF GateRestart, Forget, LimitsTypeOK, NoEntries, RateOK, SeenOK
  <2>2. \A key \in WriteKeys : HitsOK(granted[key])'
    BY <1>7 DEF GateRestart, NoHistory, HitsOK, NoHits
  <2> QED BY <1>7, <2>1, <2>2 DEF GateRestart, NoHistory
<1>8. CASE UNCHANGED gateVars
  <2>1. UNCHANGED <<limitVars, clock, history>> BY <1>8 DEF gateVars, limitVars
  <2> QED BY <2>1, LimitsSame, HistoryFrame
<1> QED BY <1>1, <1>2, <1>3, <1>4, <1>5, <1>6, <1>7, <1>8 DEF GateNext

(* Whatever the order of calls, ticks and restarts, the maps hold hits and   *)
(* ids of the past only, and so do the histories.                            *)
THEOREM GateTypeCorrect == GateSpec => []GateTypeOK
BY GateInitOK, GateStepOK, PTL DEF GateSpec


-----------------------------------------------------------------------------
(* Single use of a signed event *)

(* An event let through was dated no more than the skew ahead of its arrival *)
(* and is on record as of that arrival, or has aged past its retention. It   *)
(* passed twice only if it arrived in the first second that accepts it.      *)
Passed(e) ==
    /\ Secs(firstPass[e]) >= e.at - Skew
    /\ \/ e.id \in DOMAIN seen /\ seen[e.id] = firstPass[e]
       \/ Now - Secs(firstPass[e]) >= AuthMaxAge + Skew
    /\ e \in replayed => Secs(firstPass[e]) = e.at - Skew

ReplayInv ==
    /\ \A e \in AuthEvents : firstPass[e] # Never => Passed(e)
    /\ \A e \in replayed : firstPass[e] # Never

(* An id that has been forgotten is as old as the retention.                 *)
LEMMA Forgotten ==
    ASSUME GateTypeOK, NEW e \in AuthEvents, firstPass[e] # Never, Passed(e),
           e.id \notin Retained
    PROVE  Now - Secs(firstPass[e]) >= AuthMaxAge + Skew
<1> DEFINE fp == firstPass[e]
<1>1. fp \in Nat /\ clock \in Nat BY DEF GateTypeOK, LimitsTypeOK, Never
<1>2. CASE e.id \in DOMAIN seen /\ seen[e.id] = fp
  <2>1. ~Within(fp, Retention) BY <1>2 DEF Retained
  <2> HIDE DEF fp
  <2>2. Now - Secs(fp) >= AuthMaxAge + Skew BY <1>1, <2>1, DroppedBy
  <2> QED BY <2>2 DEF fp
<1> QED BY <1>2 DEF Passed

LEMMA ReplayStepOK ==
    GateTypeOK /\ GateTypeOK' /\ ReplayInv /\ [GateNext]_gateVars => ReplayInv'
<1> SUFFICES ASSUME GateTypeOK, GateTypeOK', ReplayInv, [GateNext]_gateVars
             PROVE  ReplayInv'
  OBVIOUS
<1>0. /\ clock \in Nat /\ Now \in Int
      /\ \A e \in AuthEvents : firstPass[e] # Never => Secs(firstPass[e]) \in Int
      /\ AuthMaxAge \in Int /\ \A e \in AuthEvents : e.at \in Int
  <2>1. clock \in Nat BY DEF GateTypeOK, LimitsTypeOK
  <2>2. \A e \in AuthEvents : firstPass[e] # Never => firstPass[e] \in Nat
    BY <2>1 DEF GateTypeOK
  <2> QED BY <2>1, <2>2, SecsType, LimitsAssumption, GateAssumption DEF Now
<1>1. ASSUME NEW e \in AuthEvents, Authenticate(e) PROVE ReplayInv'
  <2>1. UNCHANGED <<clock, Now>> BY <1>1 DEF Authenticate, Now
  <2>2. seen' = SeenAfter(e.id) BY <1>1 DEF Authenticate
  <2>3. AgeAccepted(e.at) BY <1>1 DEF Authenticate
  <2>4. ASSUME NEW f \in AuthEvents, firstPass[f] # Never, f.id \in Retained, seen[f.id] = firstPass[f]
        PROVE  f.id \in DOMAIN seen' /\ seen'[f.id] = firstPass[f]
    BY <2>2, <2>4 DEF SeenAfter
  <2>5. ASSUME NEW f \in AuthEvents, firstPass[f] # Never
        PROVE  \/ f.id \in DOMAIN seen' /\ seen'[f.id] = firstPass[f]
               \/ Now - Secs(firstPass[f]) >= AuthMaxAge + Skew
    <3>1. Passed(f) BY <2>5 DEF ReplayInv
    <3>2. CASE f.id \notin Retained BY <2>5, <3>1, <3>2, Forgotten
    <3>3. CASE f.id \in Retained BY <2>4, <2>5, <3>1, <3>3 DEF Passed
    <3> QED BY <3>2, <3>3
  <2>6. CASE ~FirstUse(e.id)
    <3>1. UNCHANGED <<firstPass, replayed>> BY <1>1, <2>6 DEF Authenticate
    <3> QED BY <2>1, <2>5, <3>1 DEF ReplayInv, Passed, Now, Secs
  <2>7. CASE FirstUse(e.id) /\ firstPass[e] = Never
    <3>1. /\ firstPass' = [firstPass EXCEPT ![e] = clock]
          /\ replayed' = replayed
      BY <1>1, <2>7 DEF Authenticate
    <3>2. e \notin replayed BY <2>7 DEF ReplayInv
    <3>3. firstPass' [e] = clock /\ \A f \in AuthEvents \ {e} : firstPass'[f] = firstPass[f]
      BY <3>1 DEF GateTypeOK
    <3>4. e.id \in DOMAIN seen' /\ seen'[e.id] = clock
      BY <2>2, <2>7 DEF SeenAfter, FirstUse
    <3>5. Now >= e.at - Skew BY <1>0, <2>3 DEF AgeAccepted, Skew
    <3>6. Passed(e)'
      BY <2>1, <3>1, <3>2, <3>3, <3>4, <3>5 DEF Passed, Now, Secs
    <3>7. ASSUME NEW f \in AuthEvents, f # e, firstPass'[f] # Never PROVE Passed(f)'
      <4>1. firstPass'[f] = firstPass[f] /\ firstPass[f] # Never BY <3>3, <3>7
      <4>2. Passed(f) BY <4>1 DEF ReplayInv
      <4> QED BY <2>1, <2>5, <3>1, <4>1, <4>2 DEF Passed, Now, Secs
    <3>8. \A f \in replayed' : firstPass'[f] # Never
      BY <3>1, <3>2, <3>3 DEF ReplayInv, GateTypeOK
    <3> QED BY <3>6, <3>7, <3>8 DEF ReplayInv
  <2>8. CASE FirstUse(e.id) /\ firstPass[e] # Never
    <3>1. UNCHANGED firstPass /\ replayed' = replayed \cup {e}
      BY <1>1, <2>8 DEF Authenticate, GateTypeOK
    <3>2. Passed(e) BY <2>8 DEF ReplayInv
    <3>3. Now - Secs(firstPass[e]) >= AuthMaxAge + Skew
      BY <2>8, <3>2, Forgotten DEF FirstUse
    <3>4. Secs(firstPass[e]) = e.at - Skew
      BY <1>0, <2>3, <2>8, <3>2, <3>3 DEF AgeAccepted, Passed, Skew
    <3>5. ASSUME NEW f \in AuthEvents, firstPass'[f] # Never PROVE Passed(f)'
      <4>1. firstPass[f] # Never /\ Passed(f) BY <3>1, <3>5 DEF ReplayInv
      <4>2. f \in replayed' => Secs(firstPass[f]) = f.at - Skew
        BY <3>1, <3>4, <4>1 DEF Passed
      <4> QED BY <2>1, <2>5, <3>1, <4>1, <4>2 DEF Passed, Now, Secs
    <3>6. \A f \in replayed' : firstPass'[f] # Never BY <2>8, <3>1 DEF ReplayInv
    <3> QED BY <3>5, <3>6 DEF ReplayInv
  <2> QED BY <2>6, <2>7, <2>8
<1>2. ASSUME UNCHANGED <<clock, seen, firstPass, replayed>> PROVE ReplayInv'
  BY <1>2 DEF ReplayInv, Passed, Now, Secs
<1>3. CASE Tick /\ UNCHANGED <<rate, seen, history>>
  <2>1. /\ UNCHANGED <<seen, firstPass, replayed>>
        /\ Now' \in Int /\ Now' >= Now
    <3>1. clock' = clock + 1 BY <1>3 DEF Tick
    <3> QED BY <1>0, <1>3, <3>1, SecsGrow, SecsType DEF history, Now
  <2>2. ASSUME NEW e \in AuthEvents, firstPass'[e] # Never PROVE Passed(e)'
    <3>1. firstPass[e] # Never /\ Passed(e) BY <2>1, <2>2 DEF ReplayInv
    <3>2. Secs(firstPass[e])' = Secs(firstPass[e]) BY <2>1 DEF Secs
    <3>3. Now - Secs(firstPass[e]) >= AuthMaxAge + Skew
            => Now' - Secs(firstPass[e]) >= AuthMaxAge + Skew
      BY <1>0, <2>1, <3>1 DEF Skew
    <3> QED BY <2>1, <3>1, <3>2, <3>3 DEF Passed
  <2> QED BY <2>1, <2>2 DEF ReplayInv
<1>4. CASE GateRestart
  BY <1>4 DEF GateRestart, NoHistory, ReplayInv
<1> QED BY <1>1, <1>2, <1>3, <1>4
        DEF GateNext, Read, Write, CheckCooldown, RecordChange, gateVars, limitVars, history

(* However calls, ticks and restarts fall, an event that one process lets    *)
(* through twice was first used while the clock showed the first second of   *)
(* its acceptance: auth_event_fresh keeps an id for auth_max_age + 5 s.      *)
THEOREM GateReplays == GateSpec => []ReplayedOnlyFromFirstSecond
<1>1. GateInit => ReplayInv BY DEF GateInit, NoHistory, ReplayInv
<1>2. GateTypeOK /\ ReplayInv => ReplayedOnlyFromFirstSecond
  BY DEF GateTypeOK, ReplayInv, Passed, ReplayedOnlyFromFirstSecond
<1> QED BY <1>1, <1>2, GateTypeCorrect, ReplayStepOK, PTL DEF GateSpec


-----------------------------------------------------------------------------
(* The life of a cooldown *)

(* A change recorded less than the cooldown ago is in the entry of its key,  *)
(* where cooldown_active looks for it.                                       *)
CooldownInv ==
    \A k \in Keys :
        armed[k] # Never /\ Within(armed[k], Cooldown) =>
            /\ <<"namechange", k>> \in DOMAIN rate
            /\ armed[k] \in DOMAIN rate[<<"namechange", k>>]

(* Reads and writes leave it there when no sweep has the shorter window.     *)
LEMMA CooldownSurvives ==
    ASSUME NoEarlySweep(Cooldown), GateTypeOK, CooldownInv,
           NEW secs \in {ReadWindow, WriteWindow}, NEW max,
           NEW key \in RateKeys, key[1] # "namechange",
           rate' = RateAfterAllow(key, max, secs), UNCHANGED <<clock, armed>>
    PROVE  CooldownInv'
<1> SUFFICES ASSUME NEW k \in Keys, armed[k] # Never, Within(armed[k], Cooldown)
             PROVE  /\ <<"namechange", k>> \in DOMAIN rate'
                    /\ armed[k] \in DOMAIN rate'[<<"namechange", k>>]
  BY DEF CooldownInv, Within
<1> DEFINE entry == <<"namechange", k>>
<1>1. entry # key OBVIOUS
<1>2. entry \in DOMAIN rate /\ armed[k] \in DOMAIN rate[entry] BY DEF CooldownInv
<1>3. clock \in Nat /\ RateOK(rate) /\ Cooldown \in Nat
  BY LimitsAssumption DEF GateTypeOK, LimitsTypeOK
<1> HIDE DEF entry
<1>4. entry \in DOMAIN rate' /\ rate'[entry] = rate[entry]
  BY <1>1, <1>2, <1>3, AllowOther
<1> QED BY <1>2, <1>4 DEF entry

LEMMA CooldownStepOK ==
    ASSUME NoEarlySweep(Cooldown)
    PROVE  GateTypeOK /\ CooldownInv /\ [GateNext]_gateVars => CooldownInv'
<1> SUFFICES ASSUME GateTypeOK, CooldownInv, [GateNext]_gateVars PROVE CooldownInv'
  OBVIOUS
<1>0. clock \in Nat /\ armed \in [Keys -> {Never} \cup Nat]
  BY DEF GateTypeOK, LimitsTypeOK
<1>1. ASSUME UNCHANGED <<clock, rate, armed>> PROVE CooldownInv'
  BY <1>1 DEF CooldownInv, Within
<1>2. ASSUME NEW ip \in Ips, Read(ip) PROVE CooldownInv'
  <2>1. rate' = RateAfterAllow(<<"read", ip>>, ReadMax, ReadWindow)
    BY <1>2, ReadIsAllow DEF Read
  <2> QED BY <1>2, <2>1, ReadIsAllow, CooldownSurvives DEF Read, history
<1>3. ASSUME NEW key \in WriteKeys, Write(key) PROVE CooldownInv'
  <2>1. rate' = RateAfterAllow(key, WriteMax, WriteWindow)
    BY <1>3, WriteIsAllow DEF Write
  <2>2. key[1] # "namechange" BY GateAssumption DEF WriteKeys, WriteBuckets
  <2> QED BY <1>3, <2>1, <2>2, WriteIsAllow, CooldownSurvives DEF Write
<1>4. ASSUME NEW k \in Keys, CheckCooldown(k) PROVE CooldownInv'
  <2>1. UNCHANGED <<clock, armed>> BY <1>4 DEF CheckCooldown, history
  <2>2. ASSUME NEW h, NEW t \in DOMAIN h, Within(t, Cooldown)
        PROVE  t \in DOMAIN Recent(h, Cooldown)
    BY <2>2 DEF Recent
  <2>3. ASSUME NEW e \in DOMAIN rate, NEW t \in DOMAIN rate[e], Within(t, Cooldown)
        PROVE  e \in DOMAIN rate' /\ t \in DOMAIN rate'[e]
    BY <1>4, <2>2, <2>3 DEF CheckCooldown, RateAfterCheck
  <2> QED BY <2>1, <2>3 DEF CooldownInv, Within
<1>5. ASSUME NEW k \in Keys, RecordChange(k) PROVE CooldownInv'
  <2> DEFINE entry == <<"namechange", k>>
  <2>1. /\ clock' = clock
        /\ armed' = [armed EXCEPT ![k] = clock]
        /\ rate' = WithHits(entry, OneMore(HitsOf(entry)))
    BY <1>5 DEF RecordChange, RateAfterRecord
  <2>2. entry \in DOMAIN rate' /\ clock \in DOMAIN rate'[entry]
    BY <2>1 DEF WithHits, OneMore
  <2>3. ASSUME NEW j \in Keys, j # k, <<"namechange", j>> \in DOMAIN rate
        PROVE  /\ <<"namechange", j>> \in DOMAIN rate'
               /\ rate'[<<"namechange", j>>] = rate[<<"namechange", j>>]
    BY <2>1, <2>3 DEF WithHits
  <2>4. ASSUME NEW j \in Keys, armed'[j] # Never, Within(armed'[j], Cooldown)
        PROVE  /\ <<"namechange", j>> \in DOMAIN rate'
               /\ armed'[j] \in DOMAIN rate'[<<"namechange", j>>]
    <3>1. CASE j = k BY <1>0, <2>1, <2>2, <3>1
    <3>2. CASE j # k
      <4>1. armed'[j] = armed[j] BY <1>0, <2>1, <3>2
      <4> QED BY <2>3, <2>4, <3>2, <4>1 DEF CooldownInv
    <3> QED BY <3>1, <3>2
  <2> QED BY <2>1, <2>4 DEF CooldownInv, Within
<1>6. CASE Tick /\ UNCHANGED <<rate, seen, history>>
  <2>1. clock' = clock + 1 /\ UNCHANGED <<rate, armed>> BY <1>6 DEF Tick, history
  <2>2. TicksPerSec \in Nat /\ Cooldown \in Nat BY LimitsAssumption
  <2>3. \A t \in Nat : (clock' - t < Cooldown * TicksPerSec => clock - t < Cooldown * TicksPerSec)
    BY <1>0, <2>1, <2>2
  <2> QED BY <1>0, <2>1, <2>3 DEF CooldownInv, Within, Span
<1>7. CASE GateRestart
  BY <1>7 DEF GateRestart, NoHistory, CooldownInv
<1> QED BY <1>1, <1>2, <1>3, <1>4, <1>5, <1>6, <1>7
        DEF GateNext, Authenticate, gateVars, limitVars, history

(* As long as no sweep works with a window shorter than the cooldown, or the *)
(* map never grows to be swept, a recorded name change is found for as long  *)
(* as the cooldown lasts. With neither, above MapCap, it may be swept away.  *)
THEOREM GateCooldowns ==
    ASSUME NoEarlySweep(Cooldown) PROVE GateSpec => []CooldownKept
<1>1. GateInit => CooldownInv BY DEF GateInit, NoHistory, CooldownInv
<1>2. CooldownInv => CooldownKept
  BY DEF CooldownInv, CooldownKept, CooldownActive, HitsOf, Within
<1>3. GateTypeOK /\ CooldownInv /\ [GateNext]_gateVars => CooldownInv'
  BY CooldownStepOK
<1> QED BY <1>1, <1>2, <1>3, GateTypeCorrect, PTL DEF GateSpec

-----------------------------------------------------------------------------
(* The budget of writes *)

(* The calls allowed inside the window are on record, each as often as it    *)
(* was allowed, in an entry that is never too long to count; and they are    *)
(* within the budget.                                                        *)
OnRecord(key) ==
    \A t \in DOMAIN granted[key] :
        Within(t, WriteWindow) =>
            /\ key \in DOMAIN rate /\ t \in DOMAIN rate[key]
            /\ granted[key][t] <= rate[key][t]

InBudget(key) ==
    /\ IsFiniteSet(Instants(Recent(granted[key], WriteWindow)))
    /\ Length(Recent(granted[key], WriteWindow)) <= WriteMax

BudgetInv ==
    /\ AllFinite(rate)
    /\ \A key \in WriteKeys : OnRecord(key) /\ InBudget(key)


(* A step that leaves the clock and the grants leaves the budget.            *)
LEMMA BudgetFrame ==
    ASSUME NEW key \in WriteKeys, UNCHANGED clock, granted'[key] = granted[key], InBudget(key)
    PROVE  InBudget(key)'
BY DEF InBudget, Recent, Within

(* Within a tick nothing in an empty list, or in an empty window, counts.    *)
LEMMA NothingGranted ==
    ASSUME NEW hits, NEW secs, \A t \in DOMAIN hits : ~Within(t, secs)
    PROVE  IsFiniteSet(Instants(Recent(hits, secs))) /\ Length(Recent(hits, secs)) = 0
<1>1. Instants(Recent(hits, secs)) = {} BY DEF Instants, Recent
<1> QED BY <1>1, FS_EmptySet DEF Length

(* A call of allow for another entry leaves this one on record.              *)
LEMMA OnRecordOther ==
    ASSUME NoEarlySweep(WriteWindow), GateTypeOK,
           NEW secs \in {ReadWindow, WriteWindow}, NEW max,
           NEW key \in RateKeys, NEW other \in WriteKeys, other # key, OnRecord(other),
           rate' = RateAfterAllow(key, max, secs), UNCHANGED clock,
           granted'[other] = granted[other]
    PROVE  OnRecord(other)'
<1>1. clock \in Nat /\ RateOK(rate) /\ WriteWindow \in Nat
  BY LimitsAssumption DEF GateTypeOK, LimitsTypeOK
<1>2. ASSUME NEW t \in DOMAIN granted[other], Within(t, WriteWindow)
      PROVE  /\ other \in DOMAIN rate' /\ t \in DOMAIN rate'[other]
             /\ granted[other][t] <= rate'[other][t]
  <2>1. /\ other \in DOMAIN rate /\ t \in DOMAIN rate[other]
        /\ granted[other][t] <= rate[other][t]
    BY <1>2 DEF OnRecord
  <2>2. other \in DOMAIN rate' /\ rate'[other] = rate[other]
    BY <1>1, <1>2, <2>1, AllowOther
  <2> QED BY <2>1, <2>2
<1> QED BY <1>2 DEF OnRecord, Within

(* The call that is counted: what is granted is what goes on record.         *)
LEMMA WriteCounts ==
    ASSUME GateTypeOK, AllFinite(rate), NEW key \in WriteKeys,
           OnRecord(key), InBudget(key), Write(key)
    PROVE  OnRecord(key)' /\ InBudget(key)'
<1> DEFINE g == Recent(granted[key], WriteWindow)
           r == Recent(HitsOf(key), WriteWindow)
<1>1. clock \in Nat /\ RateOK(rate) /\ HitsOK(granted[key])
  BY DEF GateTypeOK, LimitsTypeOK
<1>2. /\ clock' = clock
      /\ rate' = RateAfterAllow(key, WriteMax, WriteWindow)
      /\ granted'[key] = IF Allowed(key, WriteMax, WriteWindow)
                         THEN OneMore(g) ELSE granted[key]
  BY WriteIsAllow DEF Write, GateTypeOK
<1>3. WriteWindow \in Nat /\ WriteMax \in Nat /\ TicksPerSec \in Nat BY LimitsAssumption
<1>4. HitsOK(g) /\ HitsOK(r) BY <1>1, RecentOK, HitsOfOK
<1>5. HitsOK(OneMore(g)) /\ HitsOK(OneMore(r)) BY <1>1, <1>4, OneMoreOK
<1>6. HitsOK(granted'[key]) BY <1>1, <1>2, <1>5
<1>7. CASE WriteWindow = 0
  <2>1. \A t \in DOMAIN granted'[key] : ~Within(t, WriteWindow)
    BY <1>1, <1>3, <1>6, <1>7 DEF HitsOK, Within, Span
  <2>2. /\ IsFiniteSet(Instants(Recent(granted'[key], WriteWindow)))
        /\ Length(Recent(granted'[key], WriteWindow)) = 0
    BY <2>1, NothingGranted
  <2>3. InBudget(key)' BY <1>2, <1>3, <2>2 DEF InBudget, Recent, Within
  <2> QED BY <1>2, <2>1, <2>3 DEF OnRecord, Within
<1>8. CASE WriteWindow > 0
  <2>1. /\ key \in DOMAIN rate'
        /\ rate'[key] = IF Allowed(key, WriteMax, WriteWindow) THEN OneMore(r) ELSE r
    BY <1>1, <1>2, <1>8, WriteIsAllow, AllowSelf
  <2>2. \A t \in DOMAIN g : t \in DOMAIN r /\ g[t] \in Nat /\ r[t] \in Nat /\ g[t] <= r[t]
    <3>1. \A t \in DOMAIN g : t \in DOMAIN r /\ g[t] <= r[t]
      BY DEF OnRecord, Recent, HitsOf
    <3> QED BY <1>4, <3>1 DEF HitsOK
  <2>3. IsFiniteSet(Instants(r))
    BY NoHitsFinite, RecentFinite DEF AllFinite, HitsOf
  <2>4. IsFiniteSet(Instants(g)) /\ Length(g) \in Nat /\ Length(g) <= Length(r)
    BY <2>2, <2>3, FewerInstants
  <2>5. Length(r) \in Nat BY <1>1, <1>4, <2>3, PushLength
  <2>6. CASE Allowed(key, WriteMax, WriteWindow)
    <3>1. Length(g) < WriteMax BY <1>3, <2>4, <2>5, <2>6 DEF Allowed
    <3>2. IsFiniteSet(Instants(OneMore(g))) /\ Length(OneMore(g)) <= Length(g) + 1
      BY <1>1, <1>4, <2>4, PushLength
    <3>3. \A t \in DOMAIN Recent(OneMore(g), WriteWindow) :
             /\ t \in DOMAIN OneMore(g) /\ OneMore(g)[t] \in Nat
             /\ Recent(OneMore(g), WriteWindow)[t] = OneMore(g)[t]
      BY <1>5 DEF Recent, HitsOK
    <3>4. /\ IsFiniteSet(Instants(Recent(OneMore(g), WriteWindow)))
          /\ Length(Recent(OneMore(g), WriteWindow)) \in Nat
          /\ Length(Recent(OneMore(g), WriteWindow)) <= Length(OneMore(g))
      BY <3>2, <3>3, FewerInstants
    <3>5. Length(OneMore(g)) \in Nat BY <3>2, FS_CardinalityType DEF Length
    <3>6. Length(Recent(OneMore(g), WriteWindow)) <= WriteMax
      BY <1>3, <2>4, <3>1, <3>2, <3>4, <3>5
    <3>7. InBudget(key)'
      <4>1. granted'[key] = OneMore(g) BY <1>2, <2>6
      <4>2. Recent(granted[key], WriteWindow)' = Recent(OneMore(g), WriteWindow)
        BY <1>2, <4>1 DEF Recent, Within
      <4> QED BY <3>4, <3>6, <4>2 DEF InBudget, Length, Instants
    <3>8. ASSUME NEW t \in DOMAIN OneMore(g)
          PROVE  t \in DOMAIN OneMore(r) /\ OneMore(g)[t] <= OneMore(r)[t]
      <4>1. CASE t = clock BY <2>2, <1>4, <4>1 DEF OneMore, HitsOK
      <4>2. CASE t # clock
        <5>1. t \in DOMAIN g /\ OneMore(g)[t] = g[t] BY <4>2 DEF OneMore
        <5>2. t \in DOMAIN r /\ OneMore(r)[t] = r[t] BY <2>2, <4>2, <5>1 DEF OneMore
        <5>3. t \in DOMAIN OneMore(r) BY <5>2 DEF OneMore
        <5> QED BY <2>2, <5>1, <5>2, <5>3
      <4> QED BY <4>1, <4>2
    <3>9. OnRecord(key)'
      <4>1. granted'[key] = OneMore(g) /\ rate'[key] = OneMore(r) BY <1>2, <2>1, <2>6
      <4> QED BY <1>2, <2>1, <3>8, <4>1 DEF OnRecord, Within
    <3> QED BY <3>7, <3>9
  <2>7. CASE ~Allowed(key, WriteMax, WriteWindow)
    <3>1. granted'[key] = granted[key] /\ rate'[key] = r BY <1>2, <2>1, <2>7
    <3>2. InBudget(key)' BY <1>2, <3>1, BudgetFrame
    <3>3. \A t \in DOMAIN granted[key] :
             Within(t, WriteWindow) => t \in DOMAIN r /\ granted[key][t] <= r[t]
      BY <2>2 DEF Recent
    <3> QED BY <1>2, <2>1, <3>1, <3>2, <3>3 DEF OnRecord, Within
  <2> QED BY <2>6, <2>7
<1> QED BY <1>3, <1>7, <1>8


LEMMA BudgetStepOK ==
    ASSUME NoEarlySweep(WriteWindow)
    PROVE  GateTypeOK /\ BudgetInv /\ [GateNext]_gateVars => BudgetInv'
<1> SUFFICES ASSUME GateTypeOK, BudgetInv, [GateNext]_gateVars PROVE BudgetInv'
  OBVIOUS
<1>0. clock \in Nat /\ RateOK(rate) BY DEF GateTypeOK, LimitsTypeOK
<1>1. ASSUME UNCHANGED <<clock, rate, granted>> PROVE BudgetInv'
  BY <1>1 DEF BudgetInv, OnRecord, InBudget, AllFinite, Recent, Within
<1>2. ASSUME NEW ip \in Ips, Read(ip) PROVE BudgetInv'
  <2>1. /\ rate' = RateAfterAllow(<<"read", ip>>, ReadMax, ReadWindow)
        /\ UNCHANGED <<clock, granted>>
    BY <1>2, ReadIsAllow DEF Read, history
  <2>2. AllFinite(rate)'
    <3>1. AllFinite(RateAfterAllow(<<"read", ip>>, ReadMax, ReadWindow))
      BY <1>0, ReadIsAllow, AllowFinite DEF BudgetInv
    <3> QED BY <2>1, <3>1 DEF AllFinite, Instants
  <2>3. ASSUME NEW key \in WriteKeys PROVE OnRecord(key)' /\ InBudget(key)'
    BY <2>1, ReadIsAllow, OnRecordOther, BudgetFrame DEF BudgetInv
  <2> QED BY <2>2, <2>3 DEF BudgetInv
<1>3. ASSUME NEW key \in WriteKeys, Write(key) PROVE BudgetInv'
  <2>1. /\ rate' = RateAfterAllow(key, WriteMax, WriteWindow)
        /\ UNCHANGED clock
        /\ \A other \in WriteKeys \ {key} : granted'[other] = granted[other]
    BY <1>3, WriteIsAllow DEF Write, GateTypeOK
  <2>2. AllFinite(rate)'
    <3>1. AllFinite(RateAfterAllow(key, WriteMax, WriteWindow))
      BY <1>0, WriteIsAllow, AllowFinite DEF BudgetInv
    <3> QED BY <2>1, <3>1 DEF AllFinite, Instants
  <2>3. OnRecord(key)' /\ InBudget(key)' BY <1>3, WriteCounts DEF BudgetInv
  <2>4. ASSUME NEW other \in WriteKeys, other # key
        PROVE  OnRecord(other)' /\ InBudget(other)'
    BY <2>1, <2>4, WriteIsAllow, OnRecordOther, BudgetFrame DEF BudgetInv
  <2> QED BY <2>2, <2>3, <2>4 DEF BudgetInv
<1>4. ASSUME NEW k \in Keys, CheckCooldown(k) \/ RecordChange(k) PROVE BudgetInv'
  <2>1. UNCHANGED <<clock, granted>> BY <1>4 DEF CheckCooldown, RecordChange, history
  <2>2. ASSUME NEW key \in WriteKeys, key \in DOMAIN rate
        PROVE  key \in DOMAIN rate' /\ rate'[key] = rate[key]
    <3>1. key # <<"namechange", k>> BY GateAssumption DEF WriteKeys, WriteBuckets
    <3> QED BY <1>4, <2>2, <3>1
            DEF CheckCooldown, RecordChange, RateAfterCheck, RateAfterRecord, WithHits
  <2>3. AllFinite(rate)'
    <3>1. ASSUME CheckCooldown(k) PROVE AllFinite(RateAfterCheck(k))
      BY RecentFinite DEF BudgetInv, AllFinite, RateAfterCheck
    <3>2. AllFinite(RateAfterRecord(k))
      <4> DEFINE hits == HitsOf(<<"namechange", k>>)
      <4>1. HitsOK(hits) BY <1>0, HitsOfOK
      <4>2. IsFiniteSet(Instants(hits)) BY NoHitsFinite DEF BudgetInv, AllFinite, HitsOf
      <4>3. IsFiniteSet(Instants(OneMore(hits))) BY <1>0, <4>1, <4>2, PushLength
      <4> QED BY <4>3 DEF BudgetInv, AllFinite, RateAfterRecord, WithHits
    <3>3. rate' \in {RateAfterCheck(k), RateAfterRecord(k)}
      BY <1>4 DEF CheckCooldown, RecordChange
    <3>4. CASE CheckCooldown(k)
      BY <3>1, <3>4 DEF CheckCooldown, AllFinite, Instants
    <3>5. CASE RecordChange(k)
      BY <3>2, <3>5 DEF RecordChange, AllFinite, Instants
    <3> QED BY <1>4, <3>4, <3>5
  <2>4. ASSUME NEW key \in WriteKeys PROVE OnRecord(key)' /\ InBudget(key)'
    <3>1. OnRecord(key) /\ InBudget(key) BY DEF BudgetInv
    <3>2. OnRecord(key)' BY <2>1, <2>2, <3>1 DEF OnRecord, Within
    <3>3. InBudget(key)' BY <2>1, <3>1, BudgetFrame
    <3> QED BY <3>2, <3>3
  <2> QED BY <2>3, <2>4 DEF BudgetInv
<1>5. CASE Tick /\ UNCHANGED <<rate, seen, history>>
  <2>1. clock' = clock + 1 /\ UNCHANGED <<rate, granted>> BY <1>5 DEF Tick, history
  <2>2. TicksPerSec \in Nat /\ WriteWindow \in Nat /\ WriteMax \in Nat BY LimitsAssumption
  <2>3. ASSUME NEW t \in Nat, Within(t, WriteWindow)' PROVE Within(t, WriteWindow)
    BY <1>0, <2>1, <2>2, <2>3 DEF Within, Span
  <2>4. ASSUME NEW key \in WriteKeys PROVE OnRecord(key)' /\ InBudget(key)'
    <3>1. OnRecord(key) /\ InBudget(key) /\ HitsOK(granted[key])
      BY DEF BudgetInv, GateTypeOK
    <3>2. OnRecord(key)' BY <2>1, <2>3, <3>1 DEF OnRecord, HitsOK
    <3> DEFINE before == Recent(granted[key], WriteWindow)
               after == before'
    <3>3. \A t \in DOMAIN after :
             /\ t \in DOMAIN before /\ before[t] \in Nat /\ after[t] \in Nat
             /\ after[t] <= before[t]
      BY <2>1, <2>3, <3>1 DEF Recent, HitsOK
    <3>4. IsFiniteSet(Instants(before)) /\ Length(before) <= WriteMax
      BY <3>1 DEF InBudget
    <3>5. Length(before) \in Nat BY <3>4, FS_CardinalityType DEF Length
    <3> HIDE DEF before, after
    <3>6. IsFiniteSet(Instants(after)) /\ Length(after) \in Nat /\ Length(after) <= Length(before)
      BY <3>3, <3>4, FewerInstants
    <3>7. Length(after) <= WriteMax BY <2>2, <3>4, <3>5, <3>6
    <3>8. InBudget(key)' BY <3>6, <3>7 DEF InBudget, Length, Instants, before, after
    <3> QED BY <3>2, <3>8
  <2>5. AllFinite(rate)' BY <2>1 DEF BudgetInv, AllFinite, Instants
  <2> QED BY <2>4, <2>5 DEF BudgetInv
<1>6. CASE GateRestart
  <2>1. rate' = NoEntries /\ granted' = [key \in WriteKeys |-> NoHits]
    BY <1>6 DEF GateRestart, Forget, NoHistory
  <2>2. AllFinite(rate)' BY <2>1 DEF AllFinite, NoEntries
  <2>3. DOMAIN NoHits = {} BY DEF NoHits
  <2>4. IsFiniteSet(Instants(Recent(NoHits, WriteWindow)')) /\ Length(Recent(NoHits, WriteWindow)') = 0
    <3>1. Instants(Recent(NoHits, WriteWindow)') = {} BY <2>3 DEF Instants, Recent
    <3> QED BY <3>1, FS_EmptySet DEF Length
  <2>5. WriteMax \in Nat BY LimitsAssumption
  <2>6. ASSUME NEW key \in WriteKeys PROVE OnRecord(key)' /\ InBudget(key)'
    <3>1. granted'[key] = NoHits BY <2>1
    <3>2. OnRecord(key)' BY <2>3, <3>1 DEF OnRecord
    <3>3. InBudget(key)'
      BY <2>4, <2>5, <3>1 DEF InBudget, Length, Instants, Recent
    <3> QED BY <3>2, <3>3
  <2> QED BY <2>2, <2>6 DEF BudgetInv
<1> QED BY <1>1, <1>2, <1>3, <1>4, <1>5, <1>6
        DEF GateNext, Authenticate, gateVars, limitVars, history

LEMMA BudgetInitOK == GateInit => BudgetInv
<1> SUFFICES ASSUME GateInit PROVE BudgetInv OBVIOUS
<1>1. rate = NoEntries /\ granted = [key \in WriteKeys |-> NoHits]
  BY DEF GateInit, LimitsInit, NoHistory
<1>2. DOMAIN NoHits = {} BY DEF NoHits
<1>3. IsFiniteSet(Instants(Recent(NoHits, WriteWindow))) /\ Length(Recent(NoHits, WriteWindow)) = 0
  BY <1>2, NothingGranted
<1>4. WriteMax \in Nat BY LimitsAssumption
<1> QED BY <1>1, <1>2, <1>3, <1>4 DEF BudgetInv, OnRecord, InBudget, AllFinite, NoEntries

(* As long as no sweep works with a window shorter than the one of writes,   *)
(* or the map never grows to be swept, no order of reads, checks, sweeps and *)
(* restarts lets an address through more often than write_rate_max within    *)
(* one window of the write bucket.                                           *)
THEOREM GateBudget ==
    ASSUME NoEarlySweep(WriteWindow) PROVE GateSpec => []WriteBudget
<1>1. BudgetInv => WriteBudget BY DEF BudgetInv, InBudget, WriteBudget
<1>2. GateTypeOK /\ BudgetInv /\ [GateNext]_gateVars => BudgetInv'
  BY BudgetStepOK
<1> QED BY <1>1, <1>2, BudgetInitOK, GateTypeCorrect, PTL DEF GateSpec
=============================================================================
