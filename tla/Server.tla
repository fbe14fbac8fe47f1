------------------------------- MODULE Server -------------------------------
(* What every handler shares: the tables, the in-memory guards, and the      *)
(* connections requests arrive on. A connection carries one request at a     *)
(* time (HTTP/1.1); tokio runs the handlers of different connections in      *)
(* parallel, and each section under one lock is one step. Between two steps  *)
(* a handler holds no lock, and everything it goes on with is in its locals. *)
EXTENDS Store, Limits

CONSTANTS
    Conns,
    IpOf,           \* the client address of a connection
    Requests,       \* signed messages and reads, see ServerAssumption
    Traffic,        \* Traffic[c]: those that may arrive, and arrive again, on c
    NoRequest

Reads == {"resolve", "reverse", "readOffer"}
RegistryWrites == {"register", "release"}
TransferWrites == {"lodge", "revoke", "claim"}

ASSUME ServerAssumption ==
    /\ IpOf \in [Conns -> Ips]
    /\ Traffic \in [Conns -> SUBSET Requests]
    /\ NoRequest \notin Requests
    /\ \A m \in Requests :
        /\ m.op \in Reads \cup RegistryWrites \cup TransferWrites
        /\ m.op \notin Reads => m.key \in Keys /\ m.at \in Int
        /\ m.op \in RegistryWrites \cup {"resolve"} => m.name \in Names
        /\ m.op = "reverse" => m.pubkey \in Keys
        /\ m.op = "register" => /\ m.pubkey \in Keys
                                /\ m.body \in {"ok", "malformed", "badName", "reserved"}
        /\ m.op \in TransferWrites \cup {"readOffer"} => m.offer \in Offers
        /\ m.op = "claim" => m.proof \in ProofType /\ m.body \in {"ok", "malformed"}
        /\ \A w \in Requests :
            m.op \notin Reads /\ w.op \notin Reads /\ m.id = w.id => m.at = w.at

VARIABLES
    pc,             \* where the handler of a connection stands
    msg,            \* the request it serves
    loc,            \* its locals: the offer row it read, its clock, a height, the
                    \* endpoint it asks, and the tip when it asked for a kernel
    ans             \* the HTTP status of the last response, 0 while it is due

connVars == <<pc, msg, loc, ans>>
serverVars == <<storeVars, limitVars, connVars>>

Locals == [row : OfferRow, now : Nat, height : Nat \cup {None}, asked : Nat, node : Nat]
NoLocals == [row |-> NoOffer, now |-> 0, height |-> None, asked |-> 0, node |-> 1]

RegisterStages == {"cooldown", "lookup", "nameOf", "insert"}
ReleaseStages == {"owner", "update", "arm"}
LodgeStages == {"terms", "byName", "byAddress", "lodge"}
SettleStages == {"tip", "mark", "reread"}
RevokeStages == {"revoke", "revokeTip", "revokeMark", "flip"}
ClaimStages == {"offer", "sold", "seller", "kernel", "depth", "excess", "buyer",
                "txn", "armSeller"}
Stages == {"idle", "auth", "resolve", "reverse"} \cup RegisterStages \cup ReleaseStages
    \cup LodgeStages \cup SettleStages \cup RevokeStages \cup ClaimStages

(* The handler of c goes on at a stage; or it answers and is gone.           *)
Goto(c, stage) == pc' = [pc EXCEPT ![c] = stage] /\ UNCHANGED <<msg, ans>>

Reply(c, status) ==
    /\ pc' = [pc EXCEPT ![c] = "idle"]
    /\ msg' = [msg EXCEPT ![c] = NoRequest]
    /\ loc' = [loc EXCEPT ![c] = NoLocals]
    /\ ans' = [ans EXCEPT ![c] = status]

-----------------------------------------------------------------------------
(* The prologue of every handler *)

Bucket(m) == CASE m.op = "register" -> "reg"
               [] m.op = "release" -> "unreg"
               [] OTHER -> "transfer"

MayEnter(m, ip) ==
    IF m.op \in Reads THEN AllowedRead(ip) ELSE AllowedWrite(Bucket(m), ip)
RateAfterEntry(m, ip) ==
    IF m.op \in Reads THEN RateAfterRead(ip) ELSE RateAfterWrite(Bucket(m), ip)

FirstStage(m) == CASE m.op \in {"resolve", "reverse"} -> m.op
                   [] m.op = "readOffer" -> "offer"
                   [] OTHER -> "auth"

(* The stage a handler goes on at once its auth event is accepted. *)
Signed(m) == CASE m.op = "register" -> "cooldown"
               [] m.op = "release" -> "owner"
               [] m.op = "lodge" -> "terms"
               [] m.op = "revoke" -> "revoke"
               [] OTHER -> "offer"

Admit(c, m) ==
    /\ pc[c] = "idle"
    /\ MayEnter(m, IpOf[c])
    /\ rate' = RateAfterEntry(m, IpOf[c])
    /\ pc' = [pc EXCEPT ![c] = FirstStage(m)]
    /\ msg' = [msg EXCEPT ![c] = m]
    /\ ans' = [ans EXCEPT ![c] = 0]
    /\ UNCHANGED <<storeVars, clock, seen, loc>>

RateLimited(c, m) ==
    /\ pc[c] = "idle"
    /\ ~MayEnter(m, IpOf[c])
    /\ rate' = RateAfterEntry(m, IpOf[c])
    /\ Reply(c, 429)
    /\ UNCHANGED <<storeVars, clock, seen>>

(* verify_nip98 and auth_event_fresh. An event with a bad signature, url,    *)
(* method or payload hash is refused as a stale one is.                      *)
Authenticate(c) ==
    LET m == msg[c] IN
    /\ pc[c] = "auth"
    /\ \/ /\ ~AgeAccepted(m.at)
          /\ Reply(c, 401)
          /\ UNCHANGED seen
       \/ /\ AgeAccepted(m.at) /\ ~FirstUse(m.id)
          /\ Reply(c, 401)
          /\ seen' = SeenAfter(m.id)
       \/ /\ AgeAccepted(m.at) /\ FirstUse(m.id)
          /\ Goto(c, Signed(m)) /\ UNCHANGED loc
          /\ seen' = SeenAfter(m.id)
    /\ UNCHANGED <<storeVars, clock, rate>>

Arrive == \E c \in Conns : \E m \in Traffic[c] : Admit(c, m) \/ RateLimited(c, m)

-----------------------------------------------------------------------------
ServerInit ==
    /\ StoreInit
    /\ LimitsInit
    /\ pc = [c \in Conns |-> "idle"]
    /\ msg = [c \in Conns |-> NoRequest]
    /\ loc = [c \in Conns |-> NoLocals]
    /\ ans = [c \in Conns |-> 0]

ServerTick == Tick /\ UNCHANGED <<storeVars, rate, seen, connVars>>

(* The process dies between any two steps and is started again: committed    *)
(* statements stay, the maps and every handler are gone.                     *)
Restart ==
    /\ Forget
    /\ pc' = [c \in Conns |-> "idle"]
    /\ msg' = [c \in Conns |-> NoRequest]
    /\ loc' = [c \in Conns |-> NoLocals]
    /\ ans' = [c \in Conns |-> 0]
    /\ UNCHANGED storeVars

ConnTypeOK ==
    /\ pc \in [Conns -> Stages]
    /\ msg \in [Conns -> Requests \cup {NoRequest}]
    /\ \A c \in Conns : pc[c] # "idle" => msg[c] \in Requests
    /\ loc \in [Conns -> Locals]
    /\ ans \in [Conns -> Nat]

ServerTypeOK == StoreTypeOK /\ LimitsTypeOK /\ ConnTypeOK

(* A handler stands only where a request of its kind can take it.            *)
Fits(m, stage) ==
    /\ stage = "auth" => m.op \notin Reads
    /\ stage \in {"resolve", "reverse"} => m.op = stage
    /\ stage \in RegisterStages => m.op = "register"
    /\ stage \in ReleaseStages => m.op = "release"
    /\ stage \in LodgeStages => m.op = "lodge"
    /\ stage \in RevokeStages => m.op = "revoke"
    /\ stage \in SettleStages \cup {"offer"} => m.op \in {"claim", "readOffer"}
    /\ stage \in ClaimStages \ {"offer"} => m.op = "claim"
StagesMatch == \A c \in Conns : Fits(msg[c], pc[c])

-----------------------------------------------------------------------------
(* The handler of a signed request that the replay set has let through.      *)
Underway(c) == pc[c] \notin {"idle", "auth"} /\ msg[c].op \notin Reads

(* A signed event is acted on once: two deliveries of it are never both past *)
(* the replay set of one process, on whatever connections they arrive, as    *)
(* long as it is younger than auth_max_age. In the last second in which it   *)
(* is accepted an event that came as early as can be may come again (Gate).  *)
NoDoubleService ==
    \A c, d \in Conns :
        c # d /\ Underway(c) /\ Underway(d) /\ msg[c].id = msg[d].id
            => Now - msg[c].at >= AuthMaxAge
=============================================================================
