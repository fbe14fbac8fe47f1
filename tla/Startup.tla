------------------------------ MODULE Startup -------------------------------
(* The process from its environment to the requests it lets through: main,   *)
(* App::open and routes over the configuration, the name rules and NIP-98.   *)
(* While the service is up, clients try out disguises of a name, or present  *)
(* one signed event with any call.                                           *)
EXTENDS Config, Nip98

CONSTANTS
    Calls,          \* authenticated calls: method, path, body, transfer
    Events,         \* signed auth events, see Nip98
    NoEvent,
    Seeds,          \* the names that disguises are made of
    MaxLength       \* bound: of a disguise

ASSUME StartupAssumption ==
    /\ Calls \subseteq [method : STRING, path : Seq(STRING), body : STRING,
                       transfer : BOOLEAN]
    /\ \A c \in Calls : c.path # <<>>
    /\ \A c, d \in Calls : c.path = d.path => c.transfer = d.transfer
    /\ \A ev \in Events :
         Tagged(ev.tags, "u") # {} => LastTag(ev.tags, "u").url \in UrlType
    /\ NoEvent \notin Events
    /\ Seeds \subseteq Seq(STRING)

VARIABLES
    status,         \* "down", "up", or "refused" to start
    cfg,            \* the configuration the process runs with
    origin, name,   \* a seed, and the disguise of it that is tried now
    event,          \* the event a client holds
    served          \* the calls this process accepted it for

vars == <<status, cfg, origin, name, event, served>>

NoConfig == <<>>

Init ==
    /\ status = "down" /\ cfg = NoConfig /\ served = {}
    /\ \/ event = NoEvent /\ origin \in Seeds
       \/ event \in Events /\ origin = <<>>
    /\ name = origin

Start ==
    /\ status # "up"
    /\ \E e \in Envs : Starts(e) /\ cfg' = FromEnv(e)
    /\ status' = "up"
    /\ UNCHANGED <<origin, name, event, served>>

Refuse ==
    /\ status # "up"
    /\ \E e \in Envs : ~Starts(e)
    /\ status' = "refused"
    /\ UNCHANGED <<cfg, origin, name, event, served>>

Stop ==
    /\ status = "up"
    /\ status' = "down" /\ cfg' = NoConfig /\ served' = {}
    /\ UNCHANGED <<origin, name, event>>

(* What availability makes of a name, and register before it looks it up.    *)
Verdict(c, s) ==
    IF Panics(s, c.nameMin, c.nameMax) THEN "panic"
    ELSE IF ~ValidName(s, c.nameMin, c.nameMax) THEN "invalid"
    ELSE IF IsReserved(s, c.extra) THEN "reserved"
    ELSE "free"

(* One character of the name is taken for its twin, or a separator goes in   *)
(* or out.                                                                   *)
Insert(s, i, c) == SubSeq(s, 1, i) \o <<c>> \o SubSeq(s, i + 1, Len(s))
Remove(s, i) == SubSeq(s, 1, i - 1) \o SubSeq(s, i + 1, Len(s))
Swapped(s, i, c) == [s EXCEPT ![i] = c]

Disguise ==
    /\ status = "up" /\ event = NoEvent
    /\ \/ /\ Len(name) < MaxLength
          /\ \E i \in 0 .. Len(name), c \in Separators : name' = Insert(name, i, c)
       \/ \E i \in DOMAIN name : name[i] \in Separators /\ name' = Remove(name, i)
       \/ \E i \in DOMAIN name, d \in DOMAIN Twins :
            \/ name[i] = d /\ name' = Swapped(name, i, Twins[d])
            \/ name[i] = Twins[d] /\ name' = Swapped(name, i, d)
    /\ UNCHANGED <<status, cfg, origin, event, served>>

(* The routes of transfers exist only when transfers are on.                 *)
Mounted(c, call) == call.transfer => c.transfers

Accepts(c, ev, call) ==
    Mounted(c, call) /\ VerifyNip98(ev, call, c.base, c.maxAge)

Deliver ==
    /\ status = "up" /\ event # NoEvent
    /\ \E call \in Calls : /\ Accepts(cfg, event, call)
                           /\ served' = served \cup {call}
    /\ UNCHANGED <<status, cfg, origin, name, event>>

Next == Start \/ Refuse \/ Stop \/ Disguise \/ Deliver

Spec == Init /\ [][Next]_vars

-----------------------------------------------------------------------------
Up == status = "up"

(* No name that a request may carry, the empty one included, makes the       *)
(* handler panic: valid_name indexes the first byte of what has passed the   *)
(* length test.                                                              *)
NoPanic == Up => Verdict(cfg, name) # "panic"

(* However often a name is disguised, by digits for letters and separators   *)
(* in and out, it stays reserved if its origin was and free if it was free:  *)
(* fold_lookalike blocks every disguise of a term and nothing more.          *)
VerdictFollowsOrigin ==
    Up => (IsReserved(name, cfg.extra) <=> IsReserved(origin, cfg.extra))

(* No disguise of a label of the operator's domain, but for the last one, is *)
(* free to take: "a domain's brand can't be claimed (or look-alike-folded)"  *)
(* (names.rs), in whatever case and with whatever dots the domain is written.*)
BrandKept ==
    Up => \A i, j \in DOMAIN cfg.domain :
            i < j /\ cfg.domain[j] # <<>> /\ origin = ToLower(cfg.domain[i])
                => Verdict(cfg, name) # "free"

(* One signed event lets at most one call through, whatever tags it carries  *)
(* and at whatever routes it is presented. Paths that end in a slash are     *)
(* left out: the only one routed releases a name that no one can register.   *)
OneCallPerEvent ==
    LET Plain == {c \in served : c.path[Len(c.path)] # ""}
    IN \A c, d \in Plain : c = d

(* An event that is accepted was signed for the domain that the names are    *)
(* served under.                                                             *)
HostBound == served # {} => LastTag(event.tags, "u").url.host = cfg.domain

(* "A wrong BASE_URL silently breaks every authenticated call (the u-tag     *)
(* never matches), so we refuse to start" (config.rs): a service that is up  *)
(* accepts each of its calls when the event is signed for its public URL.    *)
Fresh(call) ==
    [wellFormed |-> TRUE, age |-> 0,
     tags |-> << [kind |-> "u", url |-> [Trimmed(cfg.base) EXCEPT !.segs = @ \o call.path]],
                 [kind |-> "method", method |-> call.method],
                 [kind |-> "payload", hash |-> {call.body}] >>]
SignedCallsAccepted ==
    Up => \A call \in Calls : Mounted(cfg, call) /\ cfg.maxAge >= 0
                                => Accepts(cfg, Fresh(call), call)
=============================================================================
