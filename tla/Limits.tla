------------------------------- MODULE Limits -------------------------------
(* The three in-memory guards of src/src/ratelimit.rs, and the freshness     *)
(* test of src/src/auth.rs that the replay set is paired with:               *)
(*   - rate: App.rate, hits per "bucket:who", which holds the sliding        *)
(*     windows of reads and writes and the name-change cooldown alike;       *)
(*   - seen: App.seen_auth, the NIP-98 event ids used so far.                *)
(* Every operator is one call under one lock. Time is a clock of ticks (an   *)
(* Instant); TicksPerSec of them make the whole second that unix_now() and   *)
(* Timestamp::now() return. A Vec<Instant> is how many times each tick was   *)
(* pushed: only its length and the age of its elements are ever looked at.   *)
EXTENDS Identities, Integers, FiniteSets

CONSTANTS
    Word,           \* 2^64, or a smaller word that is wide enough
    TicksPerSec,    \* the resolution of Instant, in ticks
    AuthMaxAge,     \* auth_max_age_secs, an i64
    ReadMax, ReadWindow, WriteMax, WriteWindow,   \* windows in seconds
    Cooldown,       \* name_change_cooldown, in seconds
    MapCap,         \* the 50_000 entries above which the map is swept
    MaxClock        \* bound: the last tick of a behaviour

(* The seconds an event may be dated ahead of the server's clock.            *)
Skew == 5

ASSUME LimitsAssumption ==
    /\ TicksPerSec \in Nat \ {0}
    /\ Word \in Nat /\ Word > 2 * Skew
    /\ AuthMaxAge \in -(Word \div 2) .. (Word \div 2) - 1
    /\ {ReadMax, ReadWindow, WriteMax, WriteWindow} \subseteq Nat
    /\ {Cooldown, MapCap, MaxClock} \subseteq Nat

VARIABLES clock, rate, seen

limitVars == <<clock, rate, seen>>

WriteBuckets == {"reg", "unreg", "transfer"}
RateKeys == ((WriteBuckets \cup {"read"}) \X Ips) \cup ({"namechange"} \X Keys)

Secs(t) == t \div TicksPerSec
Now == Secs(clock)
Span(secs) == secs * TicksPerSec

NoEntries == [k \in {} |-> {}]

-----------------------------------------------------------------------------
(* The rate map *)

Within(t, secs) == clock - t < Span(secs)

NoHits == [t \in {} |-> 0]

(* hits.len(): every push of a tick counts. *)
Instants(hits) == UNION {{t} \X (1 .. hits[t]) : t \in DOMAIN hits}
Length(hits) == Cardinality(Instants(hits))

(* hits.retain(..): drop the hits older than the window. *)
Recent(hits, secs) ==
    [t \in {u \in DOMAIN hits : Within(u, secs)} |-> hits[t]]

HitsOf(key) == IF key \in DOMAIN rate THEN rate[key] ELSE NoHits

WithHits(key, hits) ==
    [k \in DOMAIN rate \cup {key} |-> IF k = key THEN hits ELSE rate[k]]

OneMore(hits) ==
    [t \in DOMAIN hits \cup {clock} |->
        IF t = clock /\ t \in DOMAIN hits THEN hits[t] + 1
        ELSE IF t = clock THEN 1 ELSE hits[t]]

(* Mutant of Swept: the map is cleared. *)
MutCleared(map, secs) == IF Cardinality(DOMAIN map) > MapCap THEN NoEntries ELSE map
(* Above MapCap every entry, whatever its bucket, is dropped when it holds   *)
(* no hit inside the window of the call that happens to sweep.               *)
Swept(map, secs) ==
    IF Cardinality(DOMAIN map) > MapCap
    THEN [k \in {j \in DOMAIN map : \E t \in DOMAIN map[j] : Within(t, secs)}
            |-> map[k]]
    ELSE map

(* App::allow: the verdict, and the map it leaves behind. *)
(* Mutant of Allowed: one call too many. *)
MutOneMore(key, max, secs) == Length(Recent(HitsOf(key), secs)) <= max
Allowed(key, max, secs) == Length(Recent(HitsOf(key), secs)) < max

RateAfterAllow(key, max, secs) ==
    IF Allowed(key, max, secs)
    THEN Swept(WithHits(key, OneMore(Recent(HitsOf(key), secs))), secs)
    ELSE WithHits(key, Recent(HitsOf(key), secs))

AllowedRead(ip) == Allowed(<<"read", ip>>, ReadMax, ReadWindow)
RateAfterRead(ip) == RateAfterAllow(<<"read", ip>>, ReadMax, ReadWindow)
AllowedWrite(bucket, ip) == Allowed(<<bucket, ip>>, WriteMax, WriteWindow)
RateAfterWrite(bucket, ip) ==
    RateAfterAllow(<<bucket, ip>>, WriteMax, WriteWindow)

(* App::cooldown_active("namechange", key, ..): the check prunes the entry   *)
(* it finds and creates none.                                                *)
CooldownActive(key) ==
    \E t \in DOMAIN HitsOf(<<"namechange", key>>) : Within(t, Cooldown)

RateAfterCheck(key) ==
    [k \in DOMAIN rate |->
        IF k = <<"namechange", key>> THEN Recent(rate[k], Cooldown) ELSE rate[k]]

(* App::record_op("namechange", key) *)
(* Mutant of RateAfterRecord: another bucket than the one that is checked. *)
MutOtherBucket(key) == WithHits(<<"release", key>>, OneMore(HitsOf(<<"release", key>>)))
RateAfterRecord(key) ==
    WithHits(<<"namechange", key>>, OneMore(HitsOf(<<"namechange", key>>)))

-----------------------------------------------------------------------------
(* Freshness and single use of a signed auth event *)

(* verify_nip98: at is the created_at of the event, in seconds. *)
AgeAccepted(at) == Now - at <= AuthMaxAge /\ Now - at >= -Skew

(* Mutant of Retention: the skew is forgotten. *)
MutNoSkew == AuthMaxAge % Word
(* auth_max_age_secs as u64 + 5, the seconds a used id is kept: the cast of  *)
(* a negative age wraps, and in a release build the sum wraps back.          *)
Retention == (AuthMaxAge + Skew) % Word

(* auth_event_fresh: ids older than the replay window are dropped first,     *)
(* whether the event is then let through or refused.                         *)
Retained == {id \in DOMAIN seen : Within(seen[id], Retention)}
(* Mutant of FirstUse: the replay set is not consulted. *)
MutAnyUse(id) == TRUE
FirstUse(id) == id \notin Retained
(* Mutant of SeenAfter: the end of the window is kept, not the arrival. *)
MutExpiry(id) ==
    [i \in Retained \cup {id} |->
        IF i \in Retained THEN seen[i] ELSE clock + Span(AuthMaxAge)]
SeenAfter(id) ==
    [i \in Retained \cup {id} |-> IF i \in Retained THEN seen[i] ELSE clock]

-----------------------------------------------------------------------------
LimitsInit == clock = 0 /\ rate = NoEntries /\ seen = NoEntries

Tick == clock < MaxClock /\ clock' = clock + 1

(* A restart of the process: both maps live in memory only. *)
Forget == rate' = NoEntries /\ seen' = NoEntries /\ UNCHANGED clock

(* No hit and no event lies in the future of the clock. *)
HitsOK(hits) ==
    /\ DOMAIN hits \subseteq 0 .. clock
    /\ \A t \in DOMAIN hits : hits[t] \in Nat \ {0}
RateOK(map) ==
    /\ DOMAIN map \subseteq RateKeys
    /\ \A k \in DOMAIN map : HitsOK(map[k])
SeenOK(map) == \A id \in DOMAIN map : map[id] \in 0 .. clock

LimitsTypeOK == clock \in 0 .. MaxClock /\ RateOK(rate) /\ SeenOK(seen)
=============================================================================
