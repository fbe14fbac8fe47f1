---------------------------- MODULE LimitsProofs ----------------------------
(* Lemmas about the calls on the in-memory maps. The proofs about the guards *)
(* alone (GateProofs) and about every handler (ServerProofs) cite them.      *)
EXTENDS Limits, TLAPS, FiniteSetTheorems

-----------------------------------------------------------------------------
(* Calls on the maps keep their types. *)

(* Pruning a hit list, as cooldown_active and allow do, keeps its type.      *)
LEMMA RecentOK ==
    ASSUME NEW hits, NEW secs, HitsOK(hits)
    PROVE  HitsOK(Recent(hits, secs))
BY DEF HitsOK, Recent

(* Pushing the current instant keeps the type of a hit list.                 *)
LEMMA OneMoreOK ==
    ASSUME NEW hits, clock \in Nat, HitsOK(hits)
    PROVE  HitsOK(OneMore(hits))
BY DEF HitsOK, OneMore

(* entry(key).or_default() is a hit list, present or not.                    *)
LEMMA HitsOfOK ==
    ASSUME NEW key, RateOK(rate)
    PROVE  HitsOK(HitsOf(key))
BY DEF RateOK, HitsOK, HitsOf, NoHits

(* Storing a hit list under a key of the map keeps the type of the map.      *)
LEMMA WithHitsOK ==
    ASSUME NEW key \in RateKeys, NEW hits, RateOK(rate), HitsOK(hits)
    PROVE  RateOK(WithHits(key, hits))
BY DEF RateOK, WithHits

(* The sweep drops entries and changes none.                                 *)
LEMMA SweptOK ==
    ASSUME NEW map, NEW secs, RateOK(map)
    PROVE  RateOK(Swept(map, secs))
BY DEF RateOK, Swept

(* App::allow keeps the type of the map, allowed or not, swept or not.       *)
LEMMA AllowOK ==
    ASSUME NEW key \in RateKeys, NEW max, NEW secs, clock \in Nat, RateOK(rate)
    PROVE  RateOK(RateAfterAllow(key, max, secs))
<1> DEFINE recent == Recent(HitsOf(key), secs)
<1>1. HitsOK(recent) BY HitsOfOK, RecentOK
<1>2. HitsOK(OneMore(recent)) BY <1>1, OneMoreOK
<1>3. RateOK(WithHits(key, recent)) BY <1>1, WithHitsOK
<1>4. RateOK(WithHits(key, OneMore(recent))) BY <1>2, WithHitsOK
<1>5. RateOK(Swept(WithHits(key, OneMore(recent)), secs)) BY <1>4, SweptOK
<1> QED BY <1>3, <1>5 DEF RateAfterAllow

(* App::cooldown_active keeps the type of the map.                           *)
LEMMA CheckOK ==
    ASSUME NEW key, RateOK(rate)
    PROVE  RateOK(RateAfterCheck(key))
BY RecentOK DEF RateOK, RateAfterCheck

(* App::record_op keeps the type of the map.                                 *)
LEMMA RecordOK ==
    ASSUME NEW key \in Keys, clock \in Nat, RateOK(rate)
    PROVE  RateOK(RateAfterRecord(key))
<1>1. HitsOK(OneMore(HitsOf(<<"namechange", key>>))) BY HitsOfOK, OneMoreOK
<1>2. <<"namechange", key>> \in RateKeys BY DEF RateKeys
<1> QED BY <1>1, <1>2, WithHitsOK DEF RateAfterRecord

(* auth_event_fresh keeps the type of the replay set.                        *)
LEMMA SeenAfterOK ==
    ASSUME NEW id, clock \in Nat, SeenOK(seen)
    PROVE  SeenOK(SeenAfter(id))
BY DEF SeenOK, SeenAfter, Retained

(* The limits stay well typed when one map is replaced by a well-typed one.  *)
LEMMA LimitsFrame ==
    ASSUME LimitsTypeOK, UNCHANGED clock, RateOK(rate'), SeenOK(seen')
    PROVE  LimitsTypeOK'
BY DEF LimitsTypeOK, RateOK, SeenOK, HitsOK

LEMMA LimitsSame == LimitsTypeOK /\ UNCHANGED limitVars => LimitsTypeOK'
BY DEF LimitsTypeOK, limitVars, RateOK, SeenOK, HitsOK


-----------------------------------------------------------------------------
(* Lengths and ages *)

(* An instant that a window of whole seconds has left behind is as many      *)
(* seconds back on the clock that unix_now() shows.                          *)
LEMMA Elapsed ==
    ASSUME NEW t \in Nat, NEW secs \in Nat, clock \in Nat, ~Within(t, secs)
    PROVE  Now - Secs(t) >= secs
<1> DEFINE a == clock \div TicksPerSec
           b == t \div TicksPerSec
<1>1. TicksPerSec \in Nat \ {0} BY LimitsAssumption
<1>2. a \in Int /\ clock < a * TicksPerSec + TicksPerSec BY <1>1
<1>3. b \in Int /\ b * TicksPerSec <= t BY <1>1
<1>4. clock - t >= secs * TicksPerSec BY <1>1 DEF Within, Span
<1> HIDE DEF a, b
<1>5. (a - b + 1) * TicksPerSec > secs * TicksPerSec BY <1>1, <1>2, <1>3, <1>4
<1>6. a - b >= secs
  <2> SUFFICES ASSUME a - b + 1 <= secs PROVE FALSE BY <1>2, <1>3
  <2>1. secs - (a - b + 1) \in Nat BY <1>2, <1>3
  <2>2. (secs - (a - b + 1)) * TicksPerSec >= 0 BY <1>1, <2>1
  <2>3. (secs - (a - b + 1)) * TicksPerSec = secs * TicksPerSec - (a - b + 1) * TicksPerSec
    BY <1>1, <1>2, <1>3
  <2> QED BY <1>1, <1>2, <1>3, <1>5, <2>2, <2>3
<1> QED BY <1>6 DEF a, b, Now, Secs

LEMMA SecsType == ASSUME NEW t \in Nat PROVE Secs(t) \in Int
BY LimitsAssumption DEF Secs

(* The clock of whole seconds does not go back.                              *)
LEMMA SecsGrow ==
    ASSUME NEW t \in Nat PROVE Secs(t + 1) >= Secs(t)
<1> DEFINE a == (t + 1) \div TicksPerSec
           b == t \div TicksPerSec
<1>1. TicksPerSec \in Nat \ {0} BY LimitsAssumption
<1>2. a \in Int /\ t + 1 < a * TicksPerSec + TicksPerSec BY <1>1
<1>3. b \in Int /\ b * TicksPerSec <= t BY <1>1
<1> HIDE DEF a, b
<1>4. a >= b
  <2> SUFFICES ASSUME a + 1 <= b PROVE FALSE BY <1>2, <1>3
  <2>1. b - (a + 1) \in Nat BY <1>2, <1>3
  <2>2. (b - (a + 1)) * TicksPerSec >= 0 BY <1>1, <2>1
  <2>3. (b - (a + 1)) * TicksPerSec = b * TicksPerSec - a * TicksPerSec - TicksPerSec
    BY <1>1, <1>2, <1>3
  <2> QED BY <1>1, <1>2, <1>3, <2>2, <2>3
<1> QED BY <1>4 DEF a, b, Secs

(* Whatever the cast and the sum wrap to, a used id is kept for a span that  *)
(* reaches the age and the skew.                                             *)
LEMMA RetentionReaches == Retention \in Nat /\ Retention >= AuthMaxAge + Skew
<1> DEFINE s == AuthMaxAge + Skew
<1>1. Word \in Nat /\ Word > 10 /\ AuthMaxAge \in Int /\ s \in Int
  BY LimitsAssumption DEF Skew
<1>2. s < Word BY <1>1, LimitsAssumption DEF Skew
<1> HIDE DEF s
<1>3. s % Word \in Nat BY <1>1
<1>4. CASE s \in Nat
  <2>1. s % Word = s BY <1>1, <1>2, <1>4
  <2> QED BY <1>3, <1>4, <2>1 DEF Retention, s
<1>5. CASE s \notin Nat BY <1>1, <1>3, <1>5 DEF Retention, s
<1> QED BY <1>4, <1>5

(* An id that the retention has dropped arrived that many seconds ago.       *)
LEMMA DroppedBy ==
    ASSUME NEW t \in Nat, clock \in Nat, ~Within(t, Retention)
    PROVE  Now - Secs(t) >= AuthMaxAge + Skew
<1>1. Now - Secs(t) >= Retention BY RetentionReaches, Elapsed
<1>2. Now \in Int /\ Secs(t) \in Int BY SecsType DEF Now
<1>3. AuthMaxAge \in Int BY LimitsAssumption
<1> QED BY <1>1, <1>2, <1>3, RetentionReaches DEF Skew

(* A longer window holds whatever a shorter one does.                        *)
LEMMA WiderWindow ==
    ASSUME NEW t \in Nat, NEW short \in Nat, NEW long \in Nat, clock \in Nat,
           short <= long, Within(t, short)
    PROVE  Within(t, long)
<1>1. TicksPerSec \in Nat BY LimitsAssumption
<1>2. short * TicksPerSec <= long * TicksPerSec BY <1>1
<1> QED BY <1>1, <1>2 DEF Within, Span

(* hits.len() is monotone in the hits.                                       *)
LEMMA FewerInstants ==
    ASSUME NEW few, NEW many, IsFiniteSet(Instants(many)),
           \A t \in DOMAIN few : few[t] \in Nat,
           \A t \in DOMAIN few : t \in DOMAIN many /\ many[t] \in Nat /\ few[t] <= many[t]
    PROVE  /\ IsFiniteSet(Instants(few))
           /\ Length(few) \in Nat /\ Length(few) <= Length(many)
<1>1. \A t \in DOMAIN few : 1 .. few[t] \subseteq 1 .. many[t] OBVIOUS
<1>2. Instants(few) \in SUBSET Instants(many) BY <1>1 DEF Instants
<1> QED BY <1>2, FS_Subset, FS_CardinalityType DEF Length

(* push(now) makes a hit list longer by one.                                 *)
LEMMA PushLength ==
    ASSUME NEW hits, HitsOK(hits), clock \in Nat, IsFiniteSet(Instants(hits))
    PROVE  /\ IsFiniteSet(Instants(OneMore(hits)))
           /\ Length(hits) \in Nat
           /\ Length(OneMore(hits)) <= Length(hits) + 1
<1> DEFINE n == IF clock \in DOMAIN hits THEN hits[clock] + 1 ELSE 1
           more == OneMore(hits)
<1>1. \A t \in DOMAIN hits : hits[t] \in Nat BY DEF HitsOK
<1>2. /\ DOMAIN more = DOMAIN hits \cup {clock}
      /\ more[clock] = n
      /\ \A t \in DOMAIN hits \ {clock} : more[t] = hits[t]
  BY DEF OneMore
<1>3. n \in Nat BY <1>1
<1>4. 1 .. n \subseteq (IF clock \in DOMAIN hits THEN 1 .. hits[clock] ELSE {}) \cup {n}
  BY <1>1
<1>5. Instants(more) \in SUBSET (Instants(hits) \cup {<<clock, n>>})
  <2> SUFFICES ASSUME NEW t \in DOMAIN more, NEW i \in 1 .. more[t]
               PROVE  <<t, i>> \in Instants(hits) \cup {<<clock, n>>}
    BY DEF Instants
  <2>1. CASE t # clock BY <1>2, <2>1 DEF Instants
  <2>2. CASE t = clock BY <1>2, <1>4, <2>2 DEF Instants
  <2> QED BY <2>1, <2>2
<1> HIDE DEF more, n
<1>6. /\ IsFiniteSet(Instants(hits) \cup {<<clock, n>>})
      /\ Cardinality(Instants(hits) \cup {<<clock, n>>}) <= Length(hits) + 1
      /\ Length(hits) \in Nat
  <2> DEFINE I == Instants(hits)
             x == <<clock, n>>
  <2>1. IsFiniteSet(I) OBVIOUS
  <2> HIDE DEF I, x
  <2>2. Cardinality(I) \in Nat BY <2>1, FS_CardinalityType
  <2>3. /\ IsFiniteSet(I \cup {x})
        /\ Cardinality(I \cup {x}) = IF x \in I THEN Cardinality(I) ELSE Cardinality(I) + 1
    BY <2>1, FS_AddElement
  <2>4. Cardinality(I \cup {x}) <= Cardinality(I) + 1 BY <2>2, <2>3
  <2> QED BY <2>2, <2>3, <2>4 DEF Length, I, x
<1>7. IsFiniteSet(Instants(more)) /\ Length(more) \in Nat
  BY <1>5, <1>6, FS_Subset, FS_CardinalityType DEF Length
<1>8. Length(more) <= Cardinality(Instants(hits) \cup {<<clock, n>>})
  BY <1>5, <1>6, FS_Subset DEF Length
<1> QED BY <1>6, <1>7, <1>8, FS_CardinalityType DEF more


-----------------------------------------------------------------------------
(* What the calls leave of an entry *)

(* No sweep drops a hit younger than window: either the map stays below the  *)
(* size at which it is swept, or the windows of the calls that sweep, those  *)
(* of reads and of writes, are not the shorter ones.                         *)
NoEarlySweep(window) ==
    \/ IsFiniteSet(RateKeys) /\ Cardinality(RateKeys) <= MapCap
    \/ ReadWindow >= window /\ WriteWindow >= window

(* An entry with a hit younger than window survives a sweep.                 *)
LEMMA SweptKeeps ==
    ASSUME NEW window \in Nat, NoEarlySweep(window), NEW secs \in {ReadWindow, WriteWindow},
           NEW map, RateOK(map), clock \in Nat,
           NEW key \in DOMAIN map, NEW t \in DOMAIN map[key], Within(t, window)
    PROVE  key \in DOMAIN Swept(map, secs) /\ Swept(map, secs)[key] = map[key]
<1>1. CASE IsFiniteSet(RateKeys) /\ Cardinality(RateKeys) <= MapCap
  <2>1. DOMAIN map \in SUBSET RateKeys BY DEF RateOK
  <2>2. Cardinality(DOMAIN map) <= Cardinality(RateKeys) BY <1>1, <2>1, FS_Subset
  <2>3. IsFiniteSet(DOMAIN map) BY <1>1, <2>1, FS_Subset
  <2>4. Cardinality(DOMAIN map) \in Nat /\ Cardinality(RateKeys) \in Nat /\ MapCap \in Nat
    BY <1>1, <2>3, FS_CardinalityType, LimitsAssumption
  <2> QED BY <1>1, <2>2, <2>4 DEF Swept
<1>2. CASE ReadWindow >= window /\ WriteWindow >= window
  <2>1. secs \in Nat /\ window <= secs BY <1>2, LimitsAssumption
  <2>2. t \in Nat BY DEF RateOK, HitsOK
  <2>3. Within(t, secs) BY <2>1, <2>2, WiderWindow
  <2> QED BY <2>3 DEF Swept
<1> QED BY <1>1, <1>2 DEF NoEarlySweep

(* App::allow for one entry leaves another that has a hit younger than       *)
(* window as it is.                                                          *)
LEMMA AllowOther ==
    ASSUME NEW window \in Nat, NoEarlySweep(window), NEW secs \in {ReadWindow, WriteWindow},
           NEW max, NEW key \in RateKeys, RateOK(rate), clock \in Nat,
           NEW other \in DOMAIN rate, other # key,
           NEW t \in DOMAIN rate[other], Within(t, window)
    PROVE  /\ other \in DOMAIN RateAfterAllow(key, max, secs)
           /\ RateAfterAllow(key, max, secs)[other] = rate[other]
<1> DEFINE recent == Recent(HitsOf(key), secs)
           pruned == WithHits(key, recent)
           pushed == WithHits(key, OneMore(recent))
<1>1. HitsOK(recent) BY HitsOfOK, RecentOK
<1>2. RateOK(pushed) BY <1>1, OneMoreOK, WithHitsOK
<1>3. /\ other \in DOMAIN pruned /\ pruned[other] = rate[other]
      /\ other \in DOMAIN pushed /\ pushed[other] = rate[other]
  BY DEF WithHits
<1> HIDE DEF pruned, pushed
<1>4. other \in DOMAIN Swept(pushed, secs) /\ Swept(pushed, secs)[other] = rate[other]
  BY <1>2, <1>3, SweptKeeps
<1>5. RateAfterAllow(key, max, secs) \in {pruned, Swept(pushed, secs)}
  BY DEF RateAfterAllow, pruned, pushed
<1> QED BY <1>3, <1>4, <1>5

(* ... and its own entry: the hits inside the window, and the new one when   *)
(* the call was allowed. A hit just pushed keeps the entry out of the sweep. *)
LEMMA AllowSelf ==
    ASSUME NEW secs \in {ReadWindow, WriteWindow}, secs > 0,
           NEW max, NEW key \in RateKeys, RateOK(rate), clock \in Nat
    PROVE  LET recent == Recent(HitsOf(key), secs)
           IN  /\ key \in DOMAIN RateAfterAllow(key, max, secs)
               /\ RateAfterAllow(key, max, secs)[key] =
                     IF Allowed(key, max, secs) THEN OneMore(recent) ELSE recent
<1> DEFINE recent == Recent(HitsOf(key), secs)
           pushed == WithHits(key, OneMore(recent))
<1>1. key \in DOMAIN pushed /\ pushed[key] = OneMore(recent) BY DEF WithHits
<1>2. clock \in DOMAIN OneMore(recent) BY DEF OneMore
<1>3. Within(clock, secs)
  <2>1. secs \in Nat \ {0} /\ TicksPerSec \in Nat \ {0} BY LimitsAssumption
  <2>2. secs * TicksPerSec > 0 BY <2>1
  <2> QED BY <2>2 DEF Within, Span
<1> HIDE DEF pushed
<1>4. key \in DOMAIN Swept(pushed, secs) /\ Swept(pushed, secs)[key] = OneMore(recent)
  BY <1>1, <1>2, <1>3 DEF Swept
<1>5. CASE Allowed(key, max, secs) BY <1>4, <1>5 DEF RateAfterAllow, pushed
<1>6. CASE ~Allowed(key, max, secs)
  BY <1>6 DEF RateAfterAllow, WithHits
<1> QED BY <1>5, <1>6

(* The entries of a map that sweeping leaves are entries it had.             *)
LEMMA SweptSub ==
    ASSUME NEW map, NEW secs
    PROVE  /\ DOMAIN Swept(map, secs) \subseteq DOMAIN map
           /\ \A k \in DOMAIN Swept(map, secs) : Swept(map, secs)[k] = map[k]
BY DEF Swept

(* Every list of hits is finite, whatever its entry.                         *)
AllFinite(map) == \A k \in DOMAIN map : IsFiniteSet(Instants(map[k]))

LEMMA NoHitsFinite == IsFiniteSet(Instants(NoHits))
<1>1. Instants(NoHits) = {} BY DEF Instants, NoHits
<1> QED BY <1>1, FS_EmptySet

(* Pruning a list of hits keeps it finite.                                   *)
LEMMA RecentFinite ==
    ASSUME NEW hits, NEW secs, IsFiniteSet(Instants(hits))
    PROVE  IsFiniteSet(Instants(Recent(hits, secs)))
<1>1. Instants(Recent(hits, secs)) \in SUBSET Instants(hits) BY DEF Instants, Recent
<1> QED BY <1>1, FS_Subset

(* allow keeps every list of hits finite.                                    *)
LEMMA AllowFinite ==
    ASSUME NEW key \in RateKeys, NEW max, NEW secs,
           RateOK(rate), AllFinite(rate), clock \in Nat
    PROVE  AllFinite(RateAfterAllow(key, max, secs))
<1> DEFINE recent == Recent(HitsOf(key), secs)
           pruned == WithHits(key, recent)
           pushed == WithHits(key, OneMore(recent))
<1>1. IsFiniteSet(Instants(HitsOf(key))) BY NoHitsFinite DEF HitsOf, AllFinite
<1>2. IsFiniteSet(Instants(recent)) BY <1>1, RecentFinite
<1>3. HitsOK(recent) BY HitsOfOK, RecentOK
<1>4. IsFiniteSet(Instants(OneMore(recent))) BY <1>2, <1>3, PushLength
<1>5. AllFinite(pruned) BY <1>2 DEF AllFinite, WithHits
<1>6. AllFinite(pushed) BY <1>4 DEF AllFinite, WithHits
<1> HIDE DEF pruned, pushed
<1>7. AllFinite(Swept(pushed, secs)) BY <1>6, SweptSub DEF AllFinite
<1> QED BY <1>5, <1>7 DEF RateAfterAllow, pruned, pushed


-----------------------------------------------------------------------------
(* A key that is not in cooldown *)

(* ... does not enter it when the hits in its entry only grow fewer or older.*)
LEMMA StaysQuiet ==
    ASSUME NEW k, ~CooldownActive(k), RateOK(rate), clock \in Nat, clock' \in Nat,
           clock' >= clock,
           LET e == <<"namechange", k>>
           IN  e \in DOMAIN rate' =>
                  e \in DOMAIN rate /\ DOMAIN rate'[e] \subseteq DOMAIN rate[e]
    PROVE  ~CooldownActive(k)'
<1> DEFINE e == <<"namechange", k>>
<1>1. SUFFICES ASSUME NEW t \in DOMAIN HitsOf(e)', Within(t, Cooldown)' PROVE FALSE
  BY DEF CooldownActive
<1>2. e \in DOMAIN rate' /\ t \in DOMAIN rate'[e] BY <1>1 DEF HitsOf, NoHits
<1>3. e \in DOMAIN rate /\ t \in DOMAIN rate[e] BY <1>2
<1>4. t \in Nat BY <1>3 DEF RateOK, HitsOK
<1>5. Cooldown \in Nat /\ TicksPerSec \in Nat BY LimitsAssumption
<1>6. Within(t, Cooldown)
  <2>1. Cooldown * TicksPerSec \in Nat BY <1>5
  <2>2. clock' - t < Cooldown * TicksPerSec BY <1>1 DEF Within, Span
  <2> QED BY <1>4, <2>1, <2>2 DEF Within, Span
<1> QED BY <1>3, <1>6 DEF CooldownActive, HitsOf

(* A call of allow, whatever it sweeps, brings no key into cooldown.         *)
LEMMA AllowQuiet ==
    ASSUME NEW k, ~CooldownActive(k), RateOK(rate), clock \in Nat, UNCHANGED clock,
           NEW key \in RateKeys, key[1] # "namechange", NEW max, NEW secs,
           rate' = RateAfterAllow(key, max, secs)
    PROVE  ~CooldownActive(k)'
<1> DEFINE e == <<"namechange", k>>
           recent == Recent(HitsOf(key), secs)
           pruned == WithHits(key, recent)
           pushed == WithHits(key, OneMore(recent))
<1>1. e # key OBVIOUS
<1>2. /\ e \in DOMAIN pruned => e \in DOMAIN rate /\ pruned[e] = rate[e]
      /\ e \in DOMAIN pushed => e \in DOMAIN rate /\ pushed[e] = rate[e]
  BY <1>1 DEF WithHits
<1> HIDE DEF pruned, pushed, e
<1>3. e \in DOMAIN Swept(pushed, secs)
        => e \in DOMAIN pushed /\ Swept(pushed, secs)[e] = pushed[e]
  BY SweptSub
<1>4. rate' \in {pruned, Swept(pushed, secs)} BY DEF RateAfterAllow, pruned, pushed
<1>5. e \in DOMAIN rate' => e \in DOMAIN rate /\ rate'[e] = rate[e]
  BY <1>2, <1>3, <1>4
<1> QED BY <1>5, StaysQuiet DEF e

(* Nor does the check of any key.                                            *)
LEMMA CheckQuiet ==
    ASSUME NEW k, ~CooldownActive(k), RateOK(rate), clock \in Nat, UNCHANGED clock,
           NEW key, rate' = RateAfterCheck(key)
    PROVE  ~CooldownActive(k)'
<1>1. ASSUME NEW e \in DOMAIN rate'
      PROVE  e \in DOMAIN rate /\ DOMAIN rate'[e] \subseteq DOMAIN rate[e]
  BY DEF RateAfterCheck, Recent
<1> DEFINE e == <<"namechange", k>>
<1>2. e \in DOMAIN rate' => e \in DOMAIN rate /\ DOMAIN rate'[e] \subseteq DOMAIN rate[e]
  BY <1>1
<1> QED BY <1>2, StaysQuiet

(* Nor does a change recorded for another key.                               *)
LEMMA RecordQuiet ==
    ASSUME NEW k, ~CooldownActive(k), RateOK(rate), clock \in Nat, UNCHANGED clock,
           NEW key, key # k, rate' = RateAfterRecord(key)
    PROVE  ~CooldownActive(k)'
<1>1. <<"namechange", k>> # <<"namechange", key>> OBVIOUS
<1>2. <<"namechange", k>> \in DOMAIN rate'
        => /\ <<"namechange", k>> \in DOMAIN rate
           /\ rate'[<<"namechange", k>>] = rate[<<"namechange", k>>]
  BY <1>1 DEF RateAfterRecord, WithHits
<1> QED BY <1>2, StaysQuiet
=============================================================================
