-------------------------------- MODULE Gate --------------------------------
(* The guards of Limits as a component of their own, called in any order by  *)
(* any number of handlers: what they promise over time, apart from what the  *)
(* handlers then do. The history variables remember what the maps may have   *)
(* forgotten.                                                                *)
EXTENDS Limits

CONSTANTS
    AuthEvents,     \* signed events: [id |-> .., at |-> created_at]
    Buckets,        \* the write buckets called
    MaxChanges      \* bound: name changes on record for one key

ASSUME GateAssumption ==
    /\ Buckets \subseteq WriteBuckets
    /\ MaxChanges \in Nat
    /\ \A e \in AuthEvents : e.at \in Int /\ \A f \in AuthEvents : e.id = f.id => e = f

VARIABLES
    firstPass,      \* the tick at which an event was first let through
    replayed,       \* events let through a second time since the last start
    granted,        \* write calls allowed inside the current window, by entry
    armed           \* the last name change recorded for a key

history == <<firstPass, replayed, granted, armed>>
gateVars == <<limitVars, history>>

Never == -1
WriteKeys == Buckets \X Ips

NoHistory(firstPassed, again, grants, changes) ==
    /\ firstPassed = [e \in AuthEvents |-> Never]
    /\ again = {}
    /\ grants = [k \in WriteKeys |-> NoHits]
    /\ changes = [k \in Keys |-> Never]

GateInit == LimitsInit /\ NoHistory(firstPass, replayed, granted, armed)

(* verify_nip98 then auth_event_fresh, which read the clock one after the    *)
(* other without suspending: they see the same tick.                         *)
Authenticate(e) ==
    /\ AgeAccepted(e.at)
    /\ seen' = SeenAfter(e.id)
    /\ IF FirstUse(e.id)
       THEN /\ firstPass' = [firstPass EXCEPT ![e] = IF @ = Never THEN clock ELSE @]
            /\ replayed' = IF firstPass[e] = Never THEN replayed ELSE replayed \cup {e}
       ELSE UNCHANGED <<firstPass, replayed>>
    /\ UNCHANGED <<clock, rate, granted, armed>>

Read(ip) == rate' = RateAfterRead(ip) /\ UNCHANGED <<clock, seen, history>>

Write(key) ==
    /\ rate' = RateAfterWrite(key[1], key[2])
    /\ granted' = IF AllowedWrite(key[1], key[2])
                  THEN [granted EXCEPT ![key] = OneMore(Recent(@, WriteWindow))]
                  ELSE granted
    /\ UNCHANGED <<clock, seen, firstPass, replayed, armed>>

CheckCooldown(k) == rate' = RateAfterCheck(k) /\ UNCHANGED <<clock, seen, history>>

RecordChange(k) ==
    /\ Length(HitsOf(<<"namechange", k>>)) < MaxChanges
    /\ rate' = RateAfterRecord(k)
    /\ armed' = [armed EXCEPT ![k] = clock]
    /\ UNCHANGED <<clock, seen, firstPass, replayed, granted>>

(* Replay protection and cooldowns are promised from one start to the next. *)
GateRestart == Forget /\ NoHistory(firstPass', replayed', granted', armed')

GateNext ==
    \/ \E e \in AuthEvents : Authenticate(e)
    \/ \E ip \in Ips : Read(ip)
    \/ \E key \in WriteKeys : Write(key)
    \/ \E k \in Keys : CheckCooldown(k) \/ RecordChange(k)
    \/ Tick /\ UNCHANGED <<rate, seen, history>>
    \/ GateRestart

GateSpec == GateInit /\ [][GateNext]_gateVars

-----------------------------------------------------------------------------
(* The README says of the replay set that events are single-use within the   *)
(* freshness window: no event is let through twice by one process.           *)
SingleUse == replayed = {}

(* What the code keeps: the retention of auth_max_age + 5 s outlasts the     *)
(* acceptance of an event unless it was first used while the clock showed    *)
(* the very first second that verify_nip98 accepts it in.                    *)
ReplayedOnlyFromFirstSecond ==
    \A e \in replayed : Secs(firstPass[e]) = e.at - Skew

(* Whatever reads, checks and sweeps fall between them, the write calls an   *)
(* address gets through in a bucket never exceed write_rate_max within one   *)
(* write window.                                                             *)
WriteBudget ==
    \A key \in WriteKeys : Length(Recent(granted[key], WriteWindow)) <= WriteMax

(* A key whose name change was recorded less than the cooldown ago is still  *)
(* found in cooldown, whatever calls came between: "Releasing a name arms a  *)
(* cooldown (default 10 min)".                                               *)
CooldownKept ==
    \A k \in Keys :
        armed[k] # Never /\ clock - armed[k] < Span(Cooldown) => CooldownActive(k)

GateTypeOK ==
    /\ LimitsTypeOK
    /\ firstPass \in [AuthEvents -> {Never} \cup 0 .. clock]
    /\ replayed \subseteq AuthEvents
    /\ DOMAIN granted = WriteKeys
    /\ \A key \in WriteKeys : HitsOK(granted[key])
    /\ armed \in [Keys -> {Never} \cup 0 .. clock]
=============================================================================
