--------------------------- MODULE RegistryProofs ---------------------------
(* The registry keeps its types and never lets a key hold two active names,  *)
(* for any number of keys, names, connections and requests, with restarts    *)
(* and failing statements. The argument rests on two facts. The insert and   *)
(* the release are the only statements on names; and the insert is admitted  *)
(* by the index, so nothing a handler read earlier has to be true any more.  *)
EXTENDS Registry, ServerProofs

RegistryInv == ServerInv /\ OneActiveName

-----------------------------------------------------------------------------
(* The steps of a handler *)

LEMMA RegisterCooldownOK ==
    ASSUME RegistryInv, NEW c \in Conns, RegisterCooldown(c)
    PROVE  RegistryInv'
<1> USE DEF RegistryInv, ServerInv, ServerTypeOK
<1>1. msg[c] \in Requests /\ pc[c] # "idle" /\ msg[c].op = "register"
  BY DEF RegisterCooldown, ConnTypeOK, StagesMatch, Fits, RegisterStages
<1>2. LimitsTypeOK'
  BY CheckOK, LimitsFrame DEF RegisterCooldown, LimitsTypeOK
<1>3. ConnOK'
  <2>1. CASE Reply(c, 429) BY <2>1, ReplyOK DEF ConnOK
  <2>2. CASE Reply(c, BodyRefusal(msg[c]))
    <3>1. BodyRefusal(msg[c]) \in Nat BY DEF BodyRefusal
    <3> QED BY <2>2, <3>1, ReplyOK DEF ConnOK
  <2>3. CASE Goto(c, "lookup") /\ UNCHANGED loc
    <3>1. "lookup" \in Stages /\ Fits(msg[c], "lookup")
      BY <1>1 DEF Stages, RegisterStages, Fits, ReleaseStages, LodgeStages, RevokeStages,
         SettleStages, ClaimStages
    <3> QED BY <1>1, <2>3, <3>1, GotoOK DEF ConnOK, ConnTypeOK
  <2> QED BY <2>1, <2>2, <2>3 DEF RegisterCooldown
<1>4. StoreTypeOK' /\ OneActiveName' BY OwnersSame DEF RegisterCooldown
<1> QED BY <1>2, <1>3, <1>4 DEF ConnOK

LEMMA RegisterLookupOK ==
    ASSUME RegistryInv, NEW c \in Conns, RegisterLookup(c)
    PROVE  RegistryInv'
<1> USE DEF RegistryInv, ServerInv, ServerTypeOK
<1>1. msg[c] \in Requests /\ pc[c] # "idle" /\ msg[c].op = "register"
  BY DEF RegisterLookup, ConnTypeOK, StagesMatch, Fits, RegisterStages
<1>2. Reply(c, 200) \/ Reply(c, 409) \/ (Goto(c, "nameOf") /\ UNCHANGED loc)
  BY DEF RegisterLookup
<1>3. "nameOf" \in Stages /\ Fits(msg[c], "nameOf")
  BY <1>1 DEF Stages, RegisterStages, Fits, ReleaseStages, LodgeStages, RevokeStages,
     SettleStages, ClaimStages
<1>4. ConnOK' BY <1>1, <1>2, <1>3, ReplyOK, GotoOK DEF ConnOK, ConnTypeOK
<1>5. LimitsTypeOK' BY LimitsSame DEF RegisterLookup
<1>6. StoreTypeOK' /\ OneActiveName' BY OwnersSame DEF RegisterLookup
<1> QED BY <1>4, <1>5, <1>6 DEF ConnOK

LEMMA RegisterNameOfOK ==
    ASSUME RegistryInv, NEW c \in Conns, RegisterNameOf(c)
    PROVE  RegistryInv'
<1> USE DEF RegistryInv, ServerInv, ServerTypeOK
<1>1. msg[c] \in Requests /\ pc[c] # "idle" /\ msg[c].op = "register"
  BY DEF RegisterNameOf, ConnTypeOK, StagesMatch, Fits, RegisterStages
<1>2. Reply(c, 409) \/ (Goto(c, "insert") /\ UNCHANGED loc)
  BY DEF RegisterNameOf
<1>3. "insert" \in Stages /\ Fits(msg[c], "insert")
  BY <1>1 DEF Stages, RegisterStages, Fits, ReleaseStages, LodgeStages, RevokeStages,
     SettleStages, ClaimStages
<1>4. ConnOK' BY <1>1, <1>2, <1>3, ReplyOK, GotoOK DEF ConnOK, ConnTypeOK
<1>5. LimitsTypeOK' BY LimitsSame DEF RegisterNameOf
<1>6. StoreTypeOK' /\ OneActiveName' BY OwnersSame DEF RegisterNameOf
<1> QED BY <1>4, <1>5, <1>6 DEF ConnOK

LEMMA RegisterInsertOK ==
    ASSUME RegistryInv, NEW c \in Conns, RegisterInsert(c)
    PROVE  RegistryInv'
<1> USE DEF RegistryInv, ServerInv, ServerTypeOK
<1>1. msg[c] \in Requests /\ msg[c].op = "register"
  BY DEF RegisterInsert, ConnTypeOK, StagesMatch, Fits, RegisterStages
<1>2. msg[c].name \in Names /\ msg[c].pubkey \in Keys
  BY <1>1, RequestOK DEF RegistryWrites
<1>3. ConnOK'
  <2>1. Reply(c, 201) \/ Reply(c, 409) \/ Reply(c, 500) BY DEF RegisterInsert
  <2> QED BY <2>1, ReplyOK DEF ConnOK
<1>4. LimitsTypeOK' BY LimitsSame DEF RegisterInsert
<1>5. StoreTypeOK' /\ OneActiveName'
  <2>1. UNCHANGED <<offers, transfers>> BY DEF RegisterInsert
  <2>2. CASE names' = NamesWith(msg[c].name, msg[c].pubkey)
             /\ MayInsert(msg[c].name, msg[c].pubkey)
    BY <1>2, <2>1, <2>2, GrantOK DEF MayInsert, StoreTypeOK
  <2>3. CASE UNCHANGED names
    BY <2>1, <2>3, OwnersSame DEF storeVars
  <2> QED BY <2>2, <2>3 DEF RegisterInsert
<1> QED BY <1>3, <1>4, <1>5 DEF ConnOK

LEMMA ReleaseOwnerOK ==
    ASSUME RegistryInv, NEW c \in Conns, ReleaseOwner(c)
    PROVE  RegistryInv'
<1> USE DEF RegistryInv, ServerInv, ServerTypeOK
<1>1. msg[c] \in Requests /\ pc[c] # "idle" /\ msg[c].op = "release"
  BY DEF ReleaseOwner, ConnTypeOK, StagesMatch, Fits, ReleaseStages
<1>2. Reply(c, 403) \/ Reply(c, 404) \/ (Goto(c, "update") /\ UNCHANGED loc)
  BY DEF ReleaseOwner
<1>3. "update" \in Stages /\ Fits(msg[c], "update")
  BY <1>1 DEF Stages, ReleaseStages, Fits, RegisterStages, LodgeStages, RevokeStages,
     SettleStages, ClaimStages
<1>4. ConnOK' BY <1>1, <1>2, <1>3, ReplyOK, GotoOK DEF ConnOK, ConnTypeOK
<1>5. LimitsTypeOK' BY LimitsSame DEF ReleaseOwner
<1>6. StoreTypeOK' /\ OneActiveName' BY OwnersSame DEF ReleaseOwner
<1> QED BY <1>4, <1>5, <1>6 DEF ConnOK

LEMMA ReleaseUpdateOK ==
    ASSUME RegistryInv, NEW c \in Conns, ReleaseUpdate(c)
    PROVE  RegistryInv'
<1> USE DEF RegistryInv, ServerInv, ServerTypeOK
<1>1. msg[c] \in Requests /\ pc[c] # "idle" /\ msg[c].op = "release"
  BY DEF ReleaseUpdate, ConnTypeOK, StagesMatch, Fits, ReleaseStages
<1>2. msg[c].name \in Names BY <1>1, RequestOK DEF RegistryWrites
<1>3. Reply(c, 500) \/ (Goto(c, "arm") /\ UNCHANGED loc) BY DEF ReleaseUpdate
<1>4. "arm" \in Stages /\ Fits(msg[c], "arm")
  BY <1>1 DEF Stages, ReleaseStages, Fits, RegisterStages, LodgeStages, RevokeStages,
     SettleStages, ClaimStages
<1>5. ConnOK' BY <1>1, <1>3, <1>4, ReplyOK, GotoOK DEF ConnOK, ConnTypeOK
<1>6. LimitsTypeOK' BY LimitsSame DEF ReleaseUpdate
<1>7. StoreTypeOK' /\ OneActiveName'
  BY <1>2, ReleasedOK, OwnersSame DEF ReleaseUpdate, storeVars
<1> QED BY <1>5, <1>6, <1>7 DEF ConnOK

LEMMA ReleaseRecordOK ==
    ASSUME RegistryInv, NEW c \in Conns, ReleaseRecord(c)
    PROVE  RegistryInv'
<1> USE DEF RegistryInv, ServerInv, ServerTypeOK
<1>1. msg[c] \in Requests /\ msg[c].op = "release"
  BY DEF ReleaseRecord, ConnTypeOK, StagesMatch, Fits, ReleaseStages
<1>2. msg[c].key \in Keys BY <1>1, RequestOK DEF Reads
<1>3. LimitsTypeOK'
  <2>1. clock \in Nat /\ RateOK(rate) BY LimitsAssumption DEF LimitsTypeOK
  <2>2. RateOK(rate') BY <1>2, <2>1, RecordOK DEF ReleaseRecord
  <2> QED BY <2>2, LimitsFrame DEF ReleaseRecord, LimitsTypeOK
<1>4. ConnOK' BY ReplyOK DEF ReleaseRecord, ConnOK
<1>5. StoreTypeOK' /\ OneActiveName' BY OwnersSame DEF ReleaseRecord
<1> QED BY <1>3, <1>4, <1>5 DEF ConnOK

LEMMA ResolveOK ==
    ASSUME RegistryInv, NEW c \in Conns, Resolve(c) \/ ReverseResolve(c)
    PROVE  RegistryInv'
<1> USE DEF RegistryInv, ServerInv, ServerTypeOK
<1>1. Reply(c, 404) \/ Reply(c, 200) BY DEF Resolve, ReverseResolve
<1>2. ConnOK' BY <1>1, ReplyOK DEF ConnOK
<1>3. LimitsTypeOK' BY LimitsSame DEF Resolve, ReverseResolve
<1>4. StoreTypeOK' /\ OneActiveName' BY OwnersSame DEF Resolve, ReverseResolve
<1> QED BY <1>2, <1>3, <1>4 DEF ConnOK

(* Every step of a registry handler keeps the invariant.                     *)
LEMMA RegistryStepOK ==
    ASSUME RegistryInv, NEW c \in Conns, RegistryStep(c)
    PROVE  RegistryInv'
BY RegisterCooldownOK, RegisterLookupOK, RegisterNameOfOK, RegisterInsertOK,
   ReleaseOwnerOK, ReleaseUpdateOK, ReleaseRecordOK, ResolveOK DEF RegistryStep

(* The steps that precede a handler, the clock and a restart leave the       *)
(* tables alone.                                                             *)
LEMMA SharedStepOK ==
    ASSUME RegistryInv,
           Arrive \/ (\E c \in Conns : Authenticate(c)) \/ ServerTick \/ Restart
    PROVE  RegistryInv'
<1>1. ServerInv'
  BY AdmitOK, RateLimitedOK, AuthenticateOK, TickOK, RestartOK DEF RegistryInv, Arrive
<1>2. UNCHANGED storeVars
  BY DEF Arrive, Admit, RateLimited, Authenticate, ServerTick, Restart
<1>3. OneActiveName'
  BY <1>2 DEF RegistryInv, OneActiveName, storeVars
<1> QED BY <1>1, <1>3 DEF RegistryInv

-----------------------------------------------------------------------------
(* The registry is type correct, with every handler at a stage its request   *)
(* can take, and it never lets a key hold two active names.                  *)
THEOREM RegistryInvariant == RegistrySpec => []RegistryInv
<1>1. RegistryInit => RegistryInv
  <2> SUFFICES ASSUME ServerInit PROVE RegistryInv BY DEF RegistryInit
  <2>1. OneActiveName BY StoreAssumption DEF ServerInit, StoreInit, OneActiveName
  <2> QED BY <2>1, ServerInitOK DEF RegistryInv
<1>2. RegistryInv /\ [RegistryNext]_serverVars => RegistryInv'
  <2> SUFFICES ASSUME RegistryInv, [RegistryNext]_serverVars PROVE RegistryInv'
    OBVIOUS
  <2>1. CASE Arrive \/ ServerTick \/ Restart BY <2>1, SharedStepOK
  <2>2. ASSUME NEW c \in Conns, RegistryHandler(c) PROVE RegistryInv'
    BY <2>2, SharedStepOK, RegistryStepOK DEF RegistryHandler
  <2>3. CASE UNCHANGED serverVars
    <3>1. UNCHANGED storeVars /\ UNCHANGED limitVars /\ UNCHANGED connVars
      BY <2>3 DEF serverVars
    <3>2. ConnTypeOK' /\ StagesMatch'
      BY <3>1 DEF RegistryInv, ServerInv, ServerTypeOK, connVars, ConnTypeOK, StagesMatch
    <3> QED BY <3>1, <3>2, OwnersSame, LimitsSame DEF RegistryInv, ServerInv, ServerTypeOK
  <2> QED BY <2>1, <2>2, <2>3 DEF RegistryNext
<1> QED BY <1>1, <1>2, PTL DEF RegistrySpec

(* Type correctness of the registry.                                         *)
THEOREM RegistryTypeCorrect == RegistrySpec => []ServerTypeOK
<1>1. RegistryInv => ServerTypeOK BY DEF RegistryInv, ServerInv
<1> QED BY <1>1, RegistryInvariant, PTL

(* "One active name per key", for the service with transfers off.            *)
THEOREM RegistryOneActiveName == RegistrySpec => []OneActiveName
<1>1. RegistryInv => OneActiveName BY DEF RegistryInv
<1> QED BY <1>1, RegistryInvariant, PTL


-----------------------------------------------------------------------------
(* Single service *)

(* Every stage after the prologue goes on or answers, and leaves the clock   *)
(* and the replay set alone.                                                 *)
LEMMA RegistryMoves ==
    ASSUME NEW c \in Conns, RegistryStep(c)
    PROVE  pc[c] \notin {"idle", "auth"} /\ Moves(c) /\ UNCHANGED <<clock, seen>>
<1>1. BodyRefusal(msg[c]) \in Nat BY DEF BodyRefusal
<1>2. {"lookup", "nameOf", "insert", "update", "arm"} \subseteq Stages
  BY DEF Stages, RegisterStages, ReleaseStages
<1>3. /\ \A stage \in {"lookup", "nameOf", "insert", "update", "arm"} : Goto(c, stage) => Moves(c)
      /\ \A status \in Nat : Reply(c, status) => Moves(c)
  BY <1>2 DEF Moves
<1>4. CASE RegisterCooldown(c) BY <1>1, <1>3, <1>4 DEF RegisterCooldown
<1>5. CASE RegisterLookup(c) BY <1>3, <1>5 DEF RegisterLookup, limitVars
<1>6. CASE RegisterNameOf(c) BY <1>3, <1>6 DEF RegisterNameOf, limitVars
<1>7. CASE RegisterInsert(c) BY <1>3, <1>7 DEF RegisterInsert, limitVars
<1>8. CASE ReleaseOwner(c) BY <1>3, <1>8 DEF ReleaseOwner, limitVars
<1>9. CASE ReleaseUpdate(c) BY <1>3, <1>9 DEF ReleaseUpdate, limitVars
<1>10. CASE ReleaseRecord(c) BY <1>3, <1>10 DEF ReleaseRecord
<1>11. CASE Resolve(c) BY <1>3, <1>11 DEF Resolve, limitVars
<1>12. CASE ReverseResolve(c) BY <1>3, <1>12 DEF ReverseResolve, limitVars
<1> QED BY <1>4, <1>5, <1>6, <1>7, <1>8, <1>9, <1>10, <1>11, <1>12 DEF RegistryStep

(* No order of deliveries, restarts and ticks has two handlers under way for *)
(* one signed event that is younger than auth_max_age.                       *)
THEOREM RegistrySingleService == RegistrySpec => []NoDoubleService
<1>1. RegistryInit => SingleInv BY SingleInit DEF RegistryInit
<1>2. RegistryInv /\ SingleInv /\ [RegistryNext]_serverVars => SingleInv'
  <2> SUFFICES ASSUME RegistryInv, SingleInv, [RegistryNext]_serverVars PROVE SingleInv'
    OBVIOUS
  <2>0. ServerInv /\ ConnTypeOK BY DEF RegistryInv, ServerInv, ServerTypeOK
  <2>1. CASE Arrive BY <2>0, <2>1, SingleArrives
  <2>2. ASSUME NEW c \in Conns, Authenticate(c) PROVE SingleInv'
    BY <2>0, <2>2, SingleAuthenticates
  <2>3. ASSUME NEW c \in Conns, RegistryStep(c) PROVE SingleInv'
    BY <2>0, <2>3, RegistryMoves, SingleMoves
  <2>4. CASE ServerTick BY <2>0, <2>4, SingleTicks
  <2>5. CASE Restart BY <2>5, SingleRestarts
  <2>6. CASE UNCHANGED serverVars
    BY <2>6, SingleFrame DEF serverVars, limitVars, connVars, Underway
  <2> QED BY <2>1, <2>2, <2>3, <2>4, <2>5, <2>6 DEF RegistryNext, RegistryHandler
<1>3. SingleInv => NoDoubleService BY DEF SingleInv
<1> QED BY <1>1, <1>2, <1>3, RegistryInvariant, PTL DEF RegistrySpec


-----------------------------------------------------------------------------
(* Who releases, and what a cooldown blocks *)

(* A key that releases sends all it asks of the registry on one connection,  *)
(* and so one request at a time. Without this OnlyOwnerReleases fails: see   *)
(* registry_release_race.                                                    *)
OneRequestAtATime ==
    \A c, d \in Conns : \A m \in Traffic[c] : \A w \in Traffic[d] :
        m.op = "release" /\ w.op \in RegistryWrites /\ m.key = w.key => c = d

(* What a handler found before its last statement is still so at it, but for *)
(* a sale in between, which nothing keeps from the name or the key: the      *)
(* owner of the name it releases; that the key it registers is not cooling.  *)
(* With transfers off there are no sales; Authority has them.                *)
Owns(k, n) == Owner(n) = k \/ Sold(n)
Quiet(k) == ~CooldownActive(k) \/ SoldBy(k)

Orderly(c) ==
    /\ pc[c] # "idle" => msg[c] \in Traffic[c]
    /\ pc[c] = "update" => Owns(msg[c].key, msg[c].name)
    /\ pc[c] \in {"lookup", "nameOf", "insert"} =>
          msg[c].pubkey = msg[c].key /\ Quiet(msg[c].key)

OrderlyInv == \A c \in Conns : Orderly(c)

(* What the stage of a handler says of its request.                          *)
LEMMA StageRequest ==
    ASSUME RegistryInv, NEW c \in Conns
    PROVE  /\ ConnTypeOK /\ StoreTypeOK
           /\ clock \in Nat /\ RateOK(rate)
           /\ pc[c] \in ReleaseStages =>
                 /\ msg[c] \in Requests /\ msg[c].op = "release"
                 /\ msg[c].key \in Keys /\ msg[c].name \in Names
           /\ pc[c] \in RegisterStages =>
                 /\ msg[c] \in Requests /\ msg[c].op = "register"
                 /\ msg[c].key \in Keys /\ msg[c].name \in Names
<1>1. ConnTypeOK /\ StoreTypeOK /\ clock \in Nat /\ RateOK(rate) /\ StagesMatch
  BY LimitsAssumption DEF RegistryInv, ServerInv, ServerTypeOK, LimitsTypeOK
<1>2. CASE pc[c] \in ReleaseStages
  <2>1. msg[c] \in Requests /\ msg[c].op = "release"
    BY <1>1, <1>2 DEF ConnTypeOK, StagesMatch, Fits, ReleaseStages
  <2> QED BY <1>1, <2>1, <1>2, RequestOK DEF RegistryWrites, Reads, RegisterStages, ReleaseStages
<1>3. CASE pc[c] \in RegisterStages
  <2>1. msg[c] \in Requests /\ msg[c].op = "register"
    BY <1>1, <1>3 DEF ConnTypeOK, StagesMatch, Fits, RegisterStages
  <2> QED BY <1>1, <2>1, <1>3, RequestOK DEF RegistryWrites, Reads, RegisterStages, ReleaseStages
<1> QED BY <1>1, <1>2, <1>3

(* Both facts bear on a handler at one of these stages alone.                *)
LEMMA OrderlyElsewhere ==
    ASSUME NEW c \in Conns, pc'[c] \notin {"update", "lookup", "nameOf", "insert"},
           pc'[c] # "idle" => msg'[c] \in Traffic[c]
    PROVE  Orderly(c)'
BY DEF Orderly

(* A handler that stands still loses neither.                                *)
LEMMA OrderlyStays ==
    ASSUME NEW c \in Conns, Orderly(c), pc'[c] = pc[c], NEW m, m = msg[c], msg'[c] = m,
           pc[c] = "update" /\ Owns(m.key, m.name) => Owns(m.key, m.name)',
           pc[c] \in RegisterStages /\ Quiet(m.key) => Quiet(m.key)'
    PROVE  Orderly(c)'
<1>1. pc[c] = "update" => Owns(m.key, m.name)' BY DEF Orderly
<1>2. pc[c] \in {"lookup", "nameOf", "insert"} => m.pubkey = m.key /\ Quiet(m.key)'
  BY DEF Orderly, RegisterStages
<1>3. pc'[c] = "update" => Owns(msg[c].key, msg[c].name)'
  BY <1>1 DEF Owns, Owner, Sold
<1>4. pc'[c] \in {"lookup", "nameOf", "insert"} =>
         msg'[c].pubkey = msg'[c].key /\ Quiet(msg[c].key)'
  BY <1>2 DEF Quiet, CooldownActive, HitsOf, Within, SoldBy
<1> QED BY <1>3, <1>4 DEF Orderly

(* The facts do not depend on anything a step leaves alone.                  *)
LEMMA OwnsFrame ==
    ASSUME UNCHANGED <<names, transfers>>, NEW k, NEW n, Owns(k, n) PROVE Owns(k, n)'
BY DEF Owns, Owner, Sold

LEMMA QuietFrame ==
    ASSUME UNCHANGED <<clock, rate, transfers>>, NEW k, Quiet(k) PROVE Quiet(k)'
BY DEF Quiet, CooldownActive, HitsOf, Within, SoldBy

LEMMA QuietSales ==
    ASSUME transfers \subseteq transfers', NEW k, ~CooldownActive(k) => ~CooldownActive(k)',
           Quiet(k)
    PROVE  Quiet(k)'
BY DEF Quiet, SoldBy

LEMMA OwnsSales ==
    ASSUME transfers \subseteq transfers', NEW k, NEW n,
           Owner(n)' = Owner(n) \/ Sold(n)', Owns(k, n)
    PROVE  Owns(k, n)'
BY DEF Owns, Sold

(* The registry sells nothing.                                               *)
LEMMA RegistrySellsNothing == [RegistryNext]_serverVars => UNCHANGED transfers
<1>1. ASSUME NEW c \in Conns, RegistryStep(c) PROVE UNCHANGED transfers
  BY <1>1 DEF RegistryStep, RegisterCooldown, RegisterLookup, RegisterNameOf,
     RegisterInsert, ReleaseOwner, ReleaseUpdate, ReleaseRecord, Resolve, ReverseResolve,
     storeVars
<1> QED
  BY <1>1 DEF RegistryNext, RegistryHandler, Arrive, Admit, RateLimited, Authenticate,
     ServerTick, Restart, serverVars, storeVars

(* The owner that a release has found stays until it is done: an insert      *)
(* takes no active name, and no other release of that key is under way.      *)
LEMMA OwnerStays ==
    ASSUME OneRequestAtATime, RegistryInv, OrderlyInv, NEW c \in Conns, RegistryStep(c),
           NEW d \in Conns, d # c, pc[d] = "update", NEW m, m = msg[d]
    PROVE  Owner(m.name)' = Owner(m.name) \/ Sold(m.name)
<1> SUFFICES ASSUME ~Sold(m.name) PROVE Owner(m.name)' = Owner(m.name) OBVIOUS
<1>1. /\ StoreTypeOK
      /\ m \in Traffic[d] /\ m.op = "release"
      /\ m.key \in Keys /\ m.name \in Names
      /\ Owner(m.name) = m.key
  BY StageRequest DEF OrderlyInv, Orderly, Owns, ReleaseStages
<1>2. ~names[m.name].released BY <1>1, NoKeyAssumption DEF Owner
<1>3. CASE UNCHANGED names BY <1>3 DEF Owner
<1>4. CASE RegisterInsert(c) /\ names' # names
  <2>1. /\ names[msg[c].name].released
        /\ names' = NamesWith(msg[c].name, msg[c].pubkey)
    BY <1>4 DEF RegisterInsert, MayInsert
  <2>2. names'[m.name] = names[m.name]
    BY <1>1, <1>2, <2>1 DEF NamesWith, StoreTypeOK
  <2> QED BY <2>2 DEF Owner
<1>5. CASE ReleaseUpdate(c) /\ names' # names
  <2>1. pc[c] = "update" /\ names' = NamesReleased(msg[c].name)
    BY <1>5 DEF ReleaseUpdate
  <2>2. /\ msg[c] \in Traffic[c] /\ msg[c].op = "release"
        /\ Owns(msg[c].key, msg[c].name)
    BY <2>1, StageRequest DEF OrderlyInv, Orderly, ReleaseStages
  <2>3. msg[c].key # m.key
    BY <1>1, <2>2 DEF OneRequestAtATime, RegistryWrites
  <2>4. msg[c].name # m.name BY <1>1, <2>2, <2>3 DEF Owns
  <2>5. names'[m.name] = names[m.name]
    BY <1>1, <2>1, <2>4 DEF NamesReleased, StoreTypeOK
  <2> QED BY <2>5 DEF Owner
<1> QED BY <1>3, <1>4, <1>5
        DEF RegistryStep, RegisterCooldown, RegisterLookup, RegisterNameOf, RegisterInsert,
            ReleaseOwner, ReleaseUpdate, ReleaseRecord, Resolve, ReverseResolve, storeVars

(* A key that a registration has found out of cooldown stays so: only a      *)
(* release records a change, and no release of that key is under way.        *)
LEMMA KeyStaysQuiet ==
    ASSUME OneRequestAtATime, RegistryInv, OrderlyInv, NEW c \in Conns, RegistryStep(c),
           NEW d \in Conns, d # c, pc[d] \in RegisterStages,
           NEW k, k = msg[d].key, ~CooldownActive(k)
    PROVE  ~CooldownActive(k)'
<1>1. /\ clock \in Nat /\ RateOK(rate)
      /\ msg[d] \in Traffic[d] /\ msg[d].op = "register"
  BY StageRequest DEF OrderlyInv, Orderly, RegisterStages
<1>2. UNCHANGED clock BY RegistryMoves
<1>5. CASE UNCHANGED rate
  <2> DEFINE e == <<"namechange", k>>
  <2>1. e \in DOMAIN rate' => e \in DOMAIN rate /\ DOMAIN rate'[e] \subseteq DOMAIN rate[e]
    BY <1>5
  <2> QED BY <1>1, <1>2, <2>1, StaysQuiet
<1>6. CASE RegisterCooldown(c)
  BY <1>1, <1>2, <1>6, CheckQuiet DEF RegisterCooldown
<1>7. CASE ReleaseRecord(c)
  <2>1. pc[c] = "arm" /\ rate' = RateAfterRecord(msg[c].key) BY <1>7 DEF ReleaseRecord
  <2>2. msg[c] \in Traffic[c] /\ msg[c].op = "release"
    BY <2>1, StageRequest DEF OrderlyInv, Orderly, ReleaseStages
  <2>3. msg[c].key # k BY <1>1, <2>2 DEF OneRequestAtATime, RegistryWrites
  <2> QED BY <1>1, <1>2, <2>1, <2>3, RecordQuiet
<1> QED BY <1>5, <1>6, <1>7
        DEF RegistryStep, RegisterLookup, RegisterNameOf, RegisterInsert,
            ReleaseOwner, ReleaseUpdate, Resolve, ReverseResolve, limitVars


(* A handler that steps takes its own facts along: what it read in this step *)
(* under the lock, and what it knew before.                                  *)
LEMMA OrderlySteps ==
    ASSUME RegistryInv, NEW c \in Conns, Orderly(c), RegistryStep(c)
    PROVE  Orderly(c)'
<1>0. ConnTypeOK /\ StoreTypeOK /\ clock \in Nat /\ RateOK(rate) /\ pc[c] # "idle"
  BY StageRequest, RegistryMoves
<1>1. pc'[c] = "idle" \/ (msg'[c] = msg[c] /\ msg[c] \in Traffic[c])
  BY <1>0, RegistryMoves DEF Moves, Goto, Reply, ConnTypeOK, Orderly
<1>2. CASE pc'[c] \notin {"update", "lookup", "nameOf", "insert"}
  BY <1>1, <1>2, OrderlyElsewhere
<1>3. CASE pc'[c] = "update"
  <2>1. ReleaseOwner(c)
    BY <1>0, <1>3 DEF RegistryStep, RegisterCooldown, RegisterLookup, RegisterNameOf,
       RegisterInsert, ReleaseOwner, ReleaseUpdate, ReleaseRecord, Resolve, ReverseResolve,
       Goto, Reply, ConnTypeOK
  <2>2. PICK owner \in Lookup(msg[c].name) : MayRelease(msg[c], owner)
    BY <1>0, <1>3, <2>1 DEF ReleaseOwner, Reply, ConnTypeOK
  <2>3. msg[c].key \in Keys BY <2>1, StageRequest DEF ReleaseOwner, ReleaseStages
  <2>4. Owner(msg[c].name) = msg[c].key
    BY <2>2, <2>3, NoKeyAssumption DEF MayRelease, Lookup, OrFault
  <2>5. msg'[c] = msg[c] /\ UNCHANGED names BY <1>1, <1>3, <2>1 DEF ReleaseOwner, storeVars
  <2>6. pc'[c] # "idle" => msg'[c] \in Traffic[c] BY <1>1, <2>5
  <2> QED BY <1>3, <2>4, <2>5, <2>6 DEF Orderly, Owner, Owns
<1>4. CASE pc'[c] \in {"lookup", "nameOf", "insert"}
  <2>1. RegisterCooldown(c) \/ RegisterLookup(c) \/ RegisterNameOf(c)
    BY <1>0, <1>4 DEF RegistryStep, RegisterCooldown, RegisterLookup, RegisterNameOf,
       RegisterInsert, ReleaseOwner, ReleaseUpdate, ReleaseRecord, Resolve, ReverseResolve,
       Goto, Reply, ConnTypeOK
  <2>2. PICK m : m = msg[c] OBVIOUS
  <2>3. msg'[c] = m /\ m \in Traffic[c] BY <1>1, <1>4, <2>2
  <2>4. m.pubkey = m.key /\ Quiet(m.key)'
    <3>1. CASE RegisterCooldown(c)
      <4>1. ~InCooldown(msg[c]) /\ BodyRefusal(msg[c]) = 0
        BY <1>0, <1>4, <3>1 DEF RegisterCooldown, Reply, ConnTypeOK
      <4>2. m.pubkey = m.key /\ ~CooldownActive(m.key)
        BY <2>2, <4>1 DEF BodyRefusal, InCooldown
      <4>3. ~CooldownActive(m.key)' BY <1>0, <3>1, <4>2, CheckQuiet DEF RegisterCooldown
      <4> QED BY <4>2, <4>3 DEF Quiet
    <3>2. CASE RegisterLookup(c) \/ RegisterNameOf(c)
      <4>1. m.pubkey = m.key /\ Quiet(m.key)
        BY <2>2, <3>2 DEF Orderly, RegisterLookup, RegisterNameOf
      <4>2. UNCHANGED <<clock, rate, transfers>>
        BY <3>2 DEF RegisterLookup, RegisterNameOf, limitVars, storeVars
      <4> QED BY <4>1, <4>2, QuietFrame
    <3> QED BY <2>1, <3>1, <3>2
  <2>5. msg'[c].pubkey = msg'[c].key /\ Quiet(msg[c].key)' BY <2>2, <2>3, <2>4
  <2> QED BY <1>4, <2>2, <2>3, <2>5 DEF Orderly, Quiet, CooldownActive, HitsOf, Within, SoldBy
<1> QED BY <1>2, <1>3, <1>4

(* A request that arrives sweeps and counts under the keys of addresses.     *)
LEMMA EntryQuiet ==
    ASSUME RegistryInv, NEW c \in Conns, NEW m \in Traffic[c], UNCHANGED clock,
           rate' = RateAfterEntry(m, IpOf[c]), NEW k, ~CooldownActive(k)
    PROVE  ~CooldownActive(k)'
<1>1. IpOf[c] \in Ips BY ServerAssumption
<1>2. clock \in Nat /\ RateOK(rate) BY StageRequest
<1>3. Bucket(m) \in WriteBuckets BY DEF Bucket, WriteBuckets
<1>4. <<"read", IpOf[c]>> \in RateKeys /\ <<Bucket(m), IpOf[c]>> \in RateKeys
  BY <1>1, <1>3 DEF RateKeys
<1>5. CASE rate' = RateAfterAllow(<<"read", IpOf[c]>>, ReadMax, ReadWindow)
  BY <1>2, <1>4, <1>5, AllowQuiet
<1>6. CASE rate' = RateAfterAllow(<<Bucket(m), IpOf[c]>>, WriteMax, WriteWindow)
  <2>1. Bucket(m) # "namechange" BY <1>3 DEF WriteBuckets
  <2> QED BY <1>2, <1>4, <1>6, <2>1, AllowQuiet
<1> QED BY <1>5, <1>6 DEF RateAfterEntry, RateAfterRead, RateAfterWrite

LEMMA OrderlyArrives ==
    ASSUME RegistryInv, OrderlyInv, Arrive
    PROVE  OrderlyInv'
<1>1. PICK c \in Conns : \E m \in Traffic[c] : Admit(c, m) \/ RateLimited(c, m) BY DEF Arrive
<1>2. PICK m \in Traffic[c] : Admit(c, m) \/ RateLimited(c, m) BY <1>1
<1>3. ConnTypeOK BY StageRequest, <1>1
<1>4. /\ rate' = RateAfterEntry(m, IpOf[c]) /\ UNCHANGED <<clock, names, transfers>>
      /\ \A d \in Conns \ {c} : pc'[d] = pc[d] /\ msg'[d] = msg[d]
  BY <1>2, <1>3 DEF Admit, RateLimited, Reply, ConnTypeOK, storeVars
<1>5. Orderly(c)'
  <2>1. CASE RateLimited(c, m)
    BY <1>3, <2>1, OrderlyElsewhere DEF RateLimited, Reply, ConnTypeOK
  <2>2. CASE Admit(c, m)
    <3>1. pc'[c] = FirstStage(m) /\ msg'[c] = m BY <1>3, <2>2 DEF Admit, ConnTypeOK
    <3>2. FirstStage(m) \in {"resolve", "reverse", "offer", "auth"} BY DEF FirstStage
    <3> QED BY <3>1, <3>2, OrderlyElsewhere
  <2> QED BY <1>2, <2>1, <2>2
<1>6. ASSUME NEW d \in Conns, d # c PROVE Orderly(d)'
  <2>1. PICK w : w = msg[d] OBVIOUS
  <2>2. Owns(w.key, w.name) => Owns(w.key, w.name)' BY <1>4, OwnsFrame
  <2>3. Quiet(w.key) => Quiet(w.key)'
    <3>1. PICK k : k = w.key OBVIOUS
    <3>2. ~CooldownActive(k) => ~CooldownActive(k)' BY <1>4, EntryQuiet
    <3>3. Quiet(k) => Quiet(k)' BY <1>4, <3>2, QuietSales
    <3> QED BY <3>1, <3>3
  <2> QED BY <1>4, <1>6, <2>1, <2>2, <2>3, OrderlyStays DEF OrderlyInv
<1> QED BY <1>5, <1>6 DEF OrderlyInv

LEMMA OrderlyStepOK ==
    ASSUME OneRequestAtATime
    PROVE  RegistryInv /\ OrderlyInv /\ [RegistryNext]_serverVars => OrderlyInv'
<1> SUFFICES ASSUME RegistryInv, OrderlyInv, [RegistryNext]_serverVars PROVE OrderlyInv'
  OBVIOUS
<1>1. CASE Arrive BY <1>1, OrderlyArrives
<1>2. ASSUME NEW c \in Conns, Authenticate(c) PROVE OrderlyInv'
  <2>0. ConnTypeOK BY StageRequest
  <2>1. /\ UNCHANGED <<clock, names, rate, transfers>>
        /\ \A d \in Conns \ {c} : pc'[d] = pc[d] /\ msg'[d] = msg[d]
    BY <1>2, <2>0 DEF Authenticate, Goto, Reply, ConnTypeOK, storeVars
  <2>2. Signed(msg[c]) \notin {"update", "lookup", "nameOf", "insert", "idle"}
    BY DEF Signed
  <2>3. pc'[c] \notin {"update", "lookup", "nameOf", "insert"}
    BY <1>2, <2>0, <2>2 DEF Authenticate, Goto, Reply, ConnTypeOK
  <2>4. pc'[c] # "idle" => msg'[c] \in Traffic[c]
    BY <1>2, <2>0 DEF Authenticate, Goto, Reply, ConnTypeOK, OrderlyInv, Orderly
  <2>5. Orderly(c)' BY <2>3, <2>4, OrderlyElsewhere
  <2>6. ASSUME NEW d \in Conns, d # c PROVE Orderly(d)'
    <3>1. PICK m : m = msg[d] OBVIOUS
    <3>2. Owns(m.key, m.name) => Owns(m.key, m.name)' BY <2>1, OwnsFrame
    <3>3. Quiet(m.key) => Quiet(m.key)' BY <2>1, QuietFrame
    <3> QED BY <2>1, <2>6, <3>1, <3>2, <3>3, OrderlyStays DEF OrderlyInv
  <2> QED BY <2>5, <2>6 DEF OrderlyInv
<1>3. ASSUME NEW c \in Conns, RegistryStep(c) PROVE OrderlyInv'
  <2>0. ConnTypeOK BY StageRequest
  <2>1. Orderly(c)' BY <1>3, OrderlySteps DEF OrderlyInv
  <2>2. ASSUME NEW d \in Conns, d # c PROVE Orderly(d)'
    <3>1. pc'[d] = pc[d] /\ msg'[d] = msg[d]
      BY <1>3, <2>0, <2>2, RegistryMoves DEF Moves, Goto, Reply, ConnTypeOK
    <3>2. PICK m : m = msg[d] OBVIOUS
    <3>3. PICK k : k = m.key OBVIOUS
    <3>4. UNCHANGED transfers BY <1>3, RegistrySellsNothing DEF RegistryNext, RegistryHandler
    <3>5. pc[d] = "update" /\ Owns(k, m.name) => Owns(k, m.name)'
      <4> SUFFICES ASSUME pc[d] = "update", Owns(k, m.name) PROVE Owns(k, m.name)' OBVIOUS
      <4>1. Owner(m.name)' = Owner(m.name) \/ Sold(m.name)
        BY <1>3, <2>2, <3>2, OwnerStays
      <4>2. PICK n : n = m.name OBVIOUS
      <4>3. Owner(n)' = Owner(n) \/ Sold(n)' BY <3>4, <4>1, <4>2 DEF Sold
      <4> QED BY <3>4, <4>2, <4>3, OwnsSales
    <3>6. pc[d] \in RegisterStages /\ Quiet(k) => Quiet(k)'
      <4> SUFFICES ASSUME pc[d] \in RegisterStages, Quiet(k) PROVE Quiet(k)' OBVIOUS
      <4>1. ~CooldownActive(k) => ~CooldownActive(k)'
        BY <1>3, <2>2, <3>2, <3>3, KeyStaysQuiet
      <4> QED BY <3>4, <4>1, QuietSales
    <3> QED BY <3>1, <3>2, <3>3, <3>5, <3>6, OrderlyStays DEF OrderlyInv
  <2> QED BY <2>1, <2>2 DEF OrderlyInv
<1>4. CASE ServerTick
  <2>1. UNCHANGED <<pc, msg, names, rate, transfers>> /\ clock' = clock + 1
    BY <1>4 DEF ServerTick, Tick, connVars, storeVars
  <2>2. ASSUME NEW d \in Conns PROVE Orderly(d)'
    <3>1. PICK m : m = msg[d] OBVIOUS
    <3>2. Owns(m.key, m.name) => Owns(m.key, m.name)' BY <2>1, OwnsFrame
    <3>3. clock \in Nat /\ RateOK(rate) BY StageRequest
    <3>4. Quiet(m.key) => Quiet(m.key)'
      <4>1. PICK k : k = m.key OBVIOUS
      <4> DEFINE e == <<"namechange", k>>
      <4>2. e \in DOMAIN rate' => e \in DOMAIN rate /\ DOMAIN rate'[e] \subseteq DOMAIN rate[e]
        BY <2>1
      <4>3. ~CooldownActive(k) => ~CooldownActive(k)' BY <2>1, <3>3, <4>2, StaysQuiet
      <4>4. Quiet(k) => Quiet(k)' BY <2>1, <4>3, QuietSales
      <4> QED BY <4>1, <4>4
    <3> QED BY <2>1, <3>1, <3>2, <3>4, OrderlyStays DEF OrderlyInv
  <2> QED BY <2>2 DEF OrderlyInv
<1>5. CASE Restart BY <1>5 DEF Restart, OrderlyInv, Orderly
<1>6. CASE UNCHANGED serverVars
  BY <1>6 DEF serverVars, storeVars, limitVars, connVars, OrderlyInv, Orderly, Owns, Owner,
     Sold, Quiet, CooldownActive, HitsOf, Within, SoldBy
<1> QED BY <1>1, <1>2, <1>3, <1>4, <1>5, <1>6 DEF RegistryNext, RegistryHandler

LEMMA OrderlyInit == RegistryInit => OrderlyInv
BY DEF RegistryInit, ServerInit, OrderlyInv, Orderly


(* The two statements on names, for a step that changes the row of n.        *)
LEMMA RowChanges ==
    ASSUME RegistryInv, [RegistryNext]_serverVars,
           NEW n \in Names, names'[n] # names[n]
    PROVE  \E c \in Conns :
              \/ /\ RegisterInsert(c) /\ n = msg[c].name /\ msg[c].pubkey = names'[n].pubkey
                 /\ ~names'[n].released
              \/ /\ ReleaseUpdate(c) /\ n = msg[c].name
                 /\ pc[c] = "update" /\ pc'[c] = "arm" /\ names'[n].released
<1>1. PICK c \in Conns : RegistryStep(c) /\ names' # names
  BY DEF RegistryNext, RegistryHandler, Arrive, Admit, RateLimited, Authenticate,
         ServerTick, Restart, serverVars, storeVars
<1>2. ConnTypeOK /\ StoreTypeOK BY StageRequest
<1>3. CASE RegisterInsert(c)
  <2>1. names' = NamesWith(msg[c].name, msg[c].pubkey) BY <1>1, <1>3 DEF RegisterInsert
  <2> QED BY <1>2, <1>3, <2>1 DEF NamesWith, StoreTypeOK
<1>4. CASE ReleaseUpdate(c)
  <2>1. names' = NamesReleased(msg[c].name) /\ pc[c] = "update" /\ pc'[c] = "arm"
    BY <1>1, <1>2, <1>4 DEF ReleaseUpdate, Goto, ConnTypeOK
  <2>2. n = msg[c].name BY <1>2, <2>1 DEF NamesReleased, StoreTypeOK
  <2>3. names'[n].released BY <1>2, <2>1, <2>2 DEF NamesReleased, StoreTypeOK, NameRow
  <2> QED BY <1>4, <2>1, <2>2, <2>3
<1> QED BY <1>1, <1>3, <1>4
        DEF RegistryStep, RegisterCooldown, RegisterLookup, RegisterNameOf,
            ReleaseOwner, ReleaseRecord, Resolve, ReverseResolve, storeVars

LEMMA OrderlyInvariant ==
    ASSUME OneRequestAtATime PROVE RegistrySpec => []OrderlyInv
<1>1. RegistryInv /\ OrderlyInv /\ [RegistryNext]_serverVars => OrderlyInv'
  BY OrderlyStepOK
<1> QED BY <1>1, OrderlyInit, RegistryInvariant, PTL DEF RegistrySpec

LEMMA NothingSold == RegistrySpec => [](transfers = {})
<1>1. RegistryInit => transfers = {} BY DEF RegistryInit, ServerInit, StoreInit
<1>2. transfers = {} /\ [RegistryNext]_serverVars => (transfers = {})'
  BY RegistrySellsNothing
<1> QED BY <1>1, <1>2, PTL DEF RegistrySpec

(* A step of the registry that releases a name that was never sold serves    *)
(* the owner of the name.                                                    *)
LEMMA OwnerReleases ==
    ASSUME RegistryInv, OrderlyInv, [RegistryNext]_serverVars,
           NEW n \in Names, ~names[n].released, names'[n].released, ~Sold(n)
    PROVE  \E c \in Conns : /\ pc[c] = "update" /\ pc'[c] = "arm"
                            /\ msg[c].name = n
                            /\ msg[c].key = names[n].pubkey
<1>1. PICK c \in Conns : n = msg[c].name /\ pc[c] = "update" /\ pc'[c] = "arm"
  BY RowChanges
<1>2. Owner(n) = msg[c].key BY <1>1 DEF OrderlyInv, Orderly, Owns
<1> QED BY <1>1, <1>2 DEF Owner

(* One that takes a released name does so for a key that is not cooling, if  *)
(* the key has sold nothing.                                                 *)
LEMMA QuietTakes ==
    ASSUME RegistryInv, OrderlyInv, [RegistryNext]_serverVars,
           NEW n \in Names, names[n].released, ~names'[n].released,
           ~SoldBy(names'[n].pubkey)
    PROVE  ~CooldownActive(names'[n].pubkey)
<1>1. PICK c \in Conns : RegisterInsert(c) /\ msg[c].pubkey = names'[n].pubkey
  BY RowChanges
<1>2. msg[c].pubkey = msg[c].key /\ Quiet(msg[c].key)
  BY <1>1 DEF RegisterInsert, OrderlyInv, Orderly
<1> QED BY <1>1, <1>2 DEF Quiet, SoldBy, CooldownActive, HitsOf

(* "DELETE (owner)": as long as a key that releases has one request of its   *)
(* own under way at a time, a name that stops being active is released by a  *)
(* handler that serves its owner, though the UPDATE does not name the owner. *)
THEOREM RegistryOnlyOwnerReleases ==
    ASSUME OneRequestAtATime PROVE RegistrySpec => OnlyOwnerReleases
<1>1. RegistryInv /\ OrderlyInv /\ transfers = {} /\ [RegistryNext]_serverVars
        => [\A n \in Names :
              ~names[n].released /\ names'[n].released
                => \E c \in Conns : /\ pc[c] = "update" /\ pc'[c] = "arm"
                                    /\ msg[c].name = n
                                    /\ msg[c].key = names[n].pubkey]_serverVars
  BY OwnerReleases DEF Sold
<1> QED BY <1>1, NothingSold, OrderlyInvariant, RegistryInvariant, PTL
        DEF RegistrySpec, OnlyOwnerReleases

(* "Releasing a name arms a cooldown [..] that blocks re-registering a new   *)
(* name": under the same condition no registration succeeds for a key whose  *)
(* release is on record less than the cooldown ago, though the check comes   *)
(* four steps before the insert.                                             *)
THEOREM RegistryCooldownBlocks ==
    ASSUME OneRequestAtATime PROVE RegistrySpec => CooldownBlocks
<1>1. RegistryInv /\ OrderlyInv /\ transfers = {} /\ [RegistryNext]_serverVars
        => [\A n \in Names :
              names[n].released /\ ~names'[n].released
                => ~CooldownActive(names'[n].pubkey)]_serverVars
  BY QuietTakes DEF SoldBy
<1> QED BY <1>1, NothingSold, OrderlyInvariant, RegistryInvariant, PTL
        DEF RegistrySpec, CooldownBlocks
=============================================================================
