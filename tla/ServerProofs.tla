---------------------------- MODULE ServerProofs ----------------------------
(* Lemmas about what every handler is built from: the statements on the      *)
(* tables, and the prologue. The proofs about the registry, the transfers    *)
(* and the whole service cite them.                                          *)
EXTENDS Server, LimitsProofs

-----------------------------------------------------------------------------
(* The two statements on the names table *)

(* Granting a free key a name keeps the table typed and its owners unique.   *)
LEMMA GrantOK ==
    ASSUME StoreTypeOK, OneActiveName, NEW n \in Names, NEW k \in Keys,
           KeyFree(k, n), names' = NamesWith(n, k),
           offers' \in [Offers -> OfferRow], transfers' \subseteq TransferRow
    PROVE  StoreTypeOK' /\ OneActiveName'
<1>1. names' \in [Names -> NameRow]
  BY DEF StoreTypeOK, NamesWith, NameRow
<1>2. \A m \in Names : names'[m].released \/ names'[m].pubkey \in Keys
  BY DEF StoreTypeOK, NamesWith
<1>3. UniqueOwners(names')
  BY DEF StoreTypeOK, OneActiveName, UniqueOwners, NamesWith, KeyFree, Owner
<1> QED BY <1>1, <1>2, <1>3 DEF StoreTypeOK, OneActiveName

(* Releasing a name does, too, whoever owned it.                             *)
LEMMA ReleasedOK ==
    ASSUME StoreTypeOK, OneActiveName, NEW n \in Names,
           names' = NamesReleased(n), UNCHANGED <<offers, transfers>>
    PROVE  StoreTypeOK' /\ OneActiveName'
<1>1. names' \in [Names -> NameRow]
  BY DEF StoreTypeOK, NamesReleased, NameRow
<1>2. \A m \in Names : names'[m].released \/ names'[m].pubkey \in Keys
  BY DEF StoreTypeOK, NamesReleased
<1>3. UniqueOwners(names')
  BY DEF StoreTypeOK, OneActiveName, UniqueOwners, NamesReleased
<1> QED BY <1>1, <1>2, <1>3 DEF StoreTypeOK, OneActiveName

(* A step that touches no table keeps both.                                  *)
LEMMA StoreFrame == StoreTypeOK /\ UNCHANGED storeVars => StoreTypeOK'
BY DEF StoreTypeOK, storeVars

LEMMA OwnersSame ==
    StoreTypeOK /\ OneActiveName /\ UNCHANGED storeVars => StoreTypeOK' /\ OneActiveName'
BY StoreFrame DEF storeVars, OneActiveName

-----------------------------------------------------------------------------
(* What a step does to the connections *)

ConnOK == ConnTypeOK /\ StagesMatch

(* An answered handler leaves a connection that is idle and well typed.      *)
LEMMA ReplyOK ==
    ASSUME NEW c \in Conns, NEW status \in Nat, ConnOK, Reply(c, status)
    PROVE  ConnOK'
<1>1. NoLocals \in Locals
  BY DEF NoLocals, Locals, OfferRow, NoOffer, Statuses
<1>2. \A m : Fits(m, "idle")
  BY DEF Fits, RegisterStages, ReleaseStages, LodgeStages, RevokeStages, SettleStages,
         ClaimStages
<1>3. ConnTypeOK'
  BY <1>1 DEF ConnOK, ConnTypeOK, Reply, Stages
<1>4. StagesMatch'
  BY <1>2 DEF ConnOK, ConnTypeOK, StagesMatch, Reply
<1> QED BY <1>3, <1>4 DEF ConnOK

(* A handler that goes on keeps its request, at a stage that fits it.        *)
LEMMA GotoOK ==
    ASSUME NEW c \in Conns, NEW stage \in Stages, ConnOK, pc[c] # "idle",
           Goto(c, stage), Fits(msg[c], stage), loc' \in [Conns -> Locals]
    PROVE  ConnOK'
<1>1. ConnTypeOK' BY DEF ConnOK, ConnTypeOK, Goto
<1>2. StagesMatch' BY DEF ConnOK, ConnTypeOK, StagesMatch, Goto
<1> QED BY <1>1, <1>2 DEF ConnOK

(* What a request at a stage carries, by its kind.                           *)
LEMMA RequestOK ==
    ASSUME NEW m \in Requests
    PROVE  /\ m.op \in Reads \cup RegistryWrites \cup TransferWrites
           /\ m.op \notin Reads => m.key \in Keys /\ m.at \in Int
           /\ m.op \in RegistryWrites \cup {"resolve"} => m.name \in Names
           /\ m.op = "register" => m.pubkey \in Keys
           /\ m.op \in TransferWrites \cup {"readOffer"} => m.offer \in Offers
           /\ m.op = "claim" => m.proof \in ProofType
BY ServerAssumption

-----------------------------------------------------------------------------
(* The steps every handler shares *)

ServerInv == ServerTypeOK /\ StagesMatch

LEMMA ServerInitOK == ServerInit => ServerInv
<1> SUFFICES ASSUME ServerInit PROVE ServerInv OBVIOUS
<1>1. StoreTypeOK
  BY StoreAssumption DEF ServerInit, StoreInit, StoreTypeOK
<1>2. LimitsTypeOK
  BY LimitsAssumption
  DEF ServerInit, LimitsInit, LimitsTypeOK, NoEntries, RateOK, SeenOK
<1>3. NoLocals \in Locals
  BY DEF NoLocals, Locals, OfferRow, NoOffer, Statuses
<1>4. ConnTypeOK
  BY <1>3 DEF ServerInit, ConnTypeOK, Stages
<1>5. StagesMatch
  BY DEF ServerInit, StagesMatch, Fits, RegisterStages, ReleaseStages, LodgeStages,
         RevokeStages, SettleStages, ClaimStages
<1> QED BY <1>1, <1>2, <1>4, <1>5 DEF ServerInv, ServerTypeOK

(* The rate map after the admission call of a request, whatever its bucket.  *)
LEMMA EntryOK ==
    ASSUME NEW c \in Conns, NEW m \in Requests, LimitsTypeOK
    PROVE  RateOK(RateAfterEntry(m, IpOf[c]))
<1>1. IpOf[c] \in Ips BY ServerAssumption
<1>2. clock \in Nat /\ RateOK(rate) BY LimitsAssumption DEF LimitsTypeOK
<1>3. Bucket(m) \in WriteBuckets BY DEF Bucket, WriteBuckets
<1>4. <<"read", IpOf[c]>> \in RateKeys /\ <<Bucket(m), IpOf[c]>> \in RateKeys
  BY <1>1, <1>3 DEF RateKeys
<1>5. RateOK(RateAfterRead(IpOf[c]))
  BY <1>2, <1>4, AllowOK DEF RateAfterRead
<1>6. RateOK(RateAfterWrite(Bucket(m), IpOf[c]))
  BY <1>2, <1>4, AllowOK DEF RateAfterWrite
<1> QED BY <1>5, <1>6 DEF RateAfterEntry

LEMMA AdmitOK ==
    ASSUME ServerInv, NEW c \in Conns, NEW m \in Traffic[c], Admit(c, m)
    PROVE  ServerInv'
<1> USE DEF ServerInv, ServerTypeOK
<1>1. m \in Requests BY ServerAssumption
<1>2. FirstStage(m) \in Stages /\ Fits(m, FirstStage(m))
  BY <1>1, RequestOK DEF FirstStage, Stages, Fits, Reads, ClaimStages, RegisterStages,
     ReleaseStages, LodgeStages, RevokeStages, SettleStages
<1>3. ConnTypeOK' BY <1>1, <1>2 DEF Admit, ConnTypeOK
<1>4. StagesMatch' BY <1>2 DEF Admit, ConnTypeOK, StagesMatch
<1>5. LimitsTypeOK'
  BY <1>1, EntryOK, LimitsFrame DEF Admit, LimitsTypeOK
<1>6. StoreTypeOK' BY StoreFrame DEF Admit
<1> QED BY <1>3, <1>4, <1>5, <1>6

LEMMA RateLimitedOK ==
    ASSUME ServerInv, NEW c \in Conns, NEW m \in Traffic[c], RateLimited(c, m)
    PROVE  ServerInv'
<1> USE DEF ServerInv, ServerTypeOK
<1>1. m \in Requests BY ServerAssumption
<1>2. ConnOK' BY ReplyOK DEF RateLimited, ConnOK
<1>3. LimitsTypeOK'
  BY <1>1, EntryOK, LimitsFrame DEF RateLimited, LimitsTypeOK
<1>4. StoreTypeOK' BY StoreFrame DEF RateLimited
<1> QED BY <1>2, <1>3, <1>4 DEF ConnOK

LEMMA AuthenticateOK ==
    ASSUME ServerInv, NEW c \in Conns, Authenticate(c)
    PROVE  ServerInv'
<1> USE DEF ServerInv, ServerTypeOK
<1>1. /\ msg[c] \in Requests /\ pc[c] # "idle"
      /\ msg[c].op \notin Reads
  BY DEF Authenticate, ConnTypeOK, StagesMatch, Fits
<1>2. Signed(msg[c]) \in Stages /\ Fits(msg[c], Signed(msg[c]))
  BY <1>1, RequestOK DEF Signed, Stages, Fits, Reads, RegistryWrites, TransferWrites,
     ClaimStages, RegisterStages, ReleaseStages, LodgeStages, RevokeStages, SettleStages
<1>3. clock \in Nat /\ SeenOK(SeenAfter(msg[c].id))
  BY LimitsAssumption, SeenAfterOK DEF LimitsTypeOK
<1>4. LimitsTypeOK'
  <2>1. SeenOK(seen') /\ UNCHANGED <<clock, rate>>
    BY <1>3 DEF Authenticate, LimitsTypeOK
  <2> QED BY <2>1, LimitsFrame DEF LimitsTypeOK, RateOK, HitsOK
<1>5. ConnOK'
  <2>1. CASE Reply(c, 401) BY <2>1, ReplyOK DEF ConnOK
  <2>2. CASE Goto(c, Signed(msg[c])) /\ UNCHANGED loc
    BY <1>1, <1>2, <2>2, GotoOK DEF ConnOK, ConnTypeOK
  <2> QED BY <2>1, <2>2 DEF Authenticate
<1>6. StoreTypeOK' BY StoreFrame DEF Authenticate
<1> QED BY <1>4, <1>5, <1>6 DEF ConnOK

(* The clock only moves away from what the maps recorded.                    *)
LEMMA TickOK == ServerInv /\ ServerTick => ServerInv'
<1> SUFFICES ASSUME ServerInv, ServerTick PROVE ServerInv' OBVIOUS
<1> USE DEF ServerInv, ServerTypeOK
<1>1. clock' = clock + 1 /\ clock \in Nat /\ clock' \in 0 .. MaxClock
  BY LimitsAssumption DEF ServerTick, Tick, LimitsTypeOK
<1>2. RateOK(rate)' BY <1>1 DEF ServerTick, LimitsTypeOK, RateOK, HitsOK
<1>3. SeenOK(seen)' BY <1>1 DEF ServerTick, LimitsTypeOK, SeenOK
<1>4. ConnTypeOK' /\ StagesMatch'
  BY DEF ServerTick, connVars, ConnTypeOK, StagesMatch
<1>5. StoreTypeOK' BY StoreFrame DEF ServerTick
<1> QED BY <1>1, <1>2, <1>3, <1>4, <1>5 DEF LimitsTypeOK

(* A restart leaves a well-typed state: the tables it found, and nothing in  *)
(* memory.                                                                   *)
LEMMA RestartOK == ServerInv /\ Restart => ServerInv'
<1> SUFFICES ASSUME ServerInv, Restart PROVE ServerInv' OBVIOUS
<1> USE DEF ServerInv, ServerTypeOK
<1>1. LimitsTypeOK'
  BY DEF Restart, Forget, LimitsTypeOK, NoEntries, RateOK, SeenOK
<1>2. NoLocals \in Locals
  BY DEF NoLocals, Locals, OfferRow, NoOffer, Statuses
<1>3. ConnTypeOK' BY <1>2 DEF Restart, ConnTypeOK, Stages
<1>4. StagesMatch'
  BY DEF Restart, StagesMatch, Fits, RegisterStages, ReleaseStages, LodgeStages,
         RevokeStages, SettleStages, ClaimStages
<1>5. StoreTypeOK' BY StoreFrame DEF Restart
<1> QED BY <1>1, <1>3, <1>4, <1>5


-----------------------------------------------------------------------------
(* Single service of a signed event *)

(* What a handler does after its prologue: it goes on, or it answers.        *)
Moves(c) == (\E stage \in Stages : Goto(c, stage)) \/ (\E status \in Nat : Reply(c, status))

(* The event of a handler under way came no earlier than the skew allows and *)
(* is on record as of then, or it is as old as auth_max_age by now.          *)
Accepted(m) ==
    \/ Now - m.at >= AuthMaxAge
    \/ m.id \in DOMAIN seen /\ Secs(seen[m.id]) - m.at >= -Skew

SingleInv == NoDoubleService /\ \A c \in Conns : Underway(c) => Accepted(msg[c])

(* Requests that are under way stay so or end.                               *)
LEMMA SingleFrame ==
    ASSUME SingleInv, UNCHANGED <<clock, seen>>,
           \A c \in Conns : Underway(c)' => Underway(c) /\ msg'[c] = msg[c]
    PROVE  SingleInv'
<1>1. UNCHANGED Now BY DEF Now, Secs
<1>2. NoDoubleService' BY <1>1 DEF SingleInv, NoDoubleService
<1>3. ASSUME NEW c \in Conns, Underway(c)' PROVE Accepted(msg[c])'
  <2>1. Accepted(msg[c]) /\ msg'[c] = msg[c] BY <1>3 DEF SingleInv
  <2> QED BY <1>1, <2>1 DEF Accepted, Secs
<1> QED BY <1>2, <1>3 DEF SingleInv

LEMMA SingleMoves ==
    ASSUME ConnTypeOK, SingleInv, NEW c \in Conns, pc[c] \notin {"idle", "auth"}, Moves(c),
           UNCHANGED <<clock, seen>>
    PROVE  SingleInv'
<1>1. \A d \in Conns \ {c} : pc'[d] = pc[d] /\ msg'[d] = msg[d]
  BY DEF Moves, Goto, Reply, ConnTypeOK
<1>2. pc'[c] = "idle" \/ msg'[c] = msg[c]
  BY DEF Moves, Goto, Reply, ConnTypeOK
<1> QED BY <1>1, <1>2, SingleFrame DEF Underway

LEMMA SingleArrives ==
    ASSUME ConnTypeOK, SingleInv, Arrive
    PROVE  SingleInv'
<1>0. PICK c \in Conns : \E m \in Traffic[c] : Admit(c, m) \/ RateLimited(c, m) BY DEF Arrive
<1>1. PICK m \in Traffic[c] : Admit(c, m) \/ RateLimited(c, m) BY <1>0
<1>2. \A d \in Conns \ {c} : pc'[d] = pc[d] /\ msg'[d] = msg[d]
  BY <1>1 DEF Admit, RateLimited, Reply, ConnTypeOK
<1>3. ~Underway(c)'
  <2>1. CASE RateLimited(c, m) BY <2>1 DEF RateLimited, Reply, ConnTypeOK, Underway
  <2>2. CASE Admit(c, m)
    <3>1. pc'[c] = FirstStage(m) /\ msg'[c] = m BY <2>2 DEF Admit, ConnTypeOK
    <3>2. m.op \notin Reads => FirstStage(m) = "auth" BY DEF FirstStage, Reads
    <3> QED BY <3>1, <3>2 DEF Underway
  <2> QED BY <1>1, <2>1, <2>2
<1>4. UNCHANGED <<clock, seen>> BY <1>1 DEF Admit, RateLimited
<1> QED BY <1>2, <1>3, <1>4, SingleFrame DEF Underway

(* An id that the retention has dropped belongs to an event as old as        *)
(* auth_max_age: it came at most 5 s early and has been kept 5 s longer.     *)
LEMMA DroppedIsOld ==
    ASSUME LimitsTypeOK, NEW m, m.at \in Int, Accepted(m), m.id \notin Retained
    PROVE  Now - m.at >= AuthMaxAge
<1> DEFINE t == seen[m.id]
<1>1. AuthMaxAge \in Int BY LimitsAssumption
<1>2. clock \in Nat BY LimitsAssumption DEF LimitsTypeOK
<1>3. SUFFICES ASSUME m.id \in DOMAIN seen, Secs(t) - m.at >= -Skew
               PROVE  Now - m.at >= AuthMaxAge
  BY DEF Accepted
<1>4. t \in Nat BY <1>2, <1>3 DEF LimitsTypeOK, SeenOK
<1>5. ~Within(t, Retention) BY <1>3 DEF Retained
<1>6. Secs(t) \in Int /\ Now \in Int BY <1>2, <1>4, SecsType DEF Now
<1> HIDE DEF t
<1>7. Now - Secs(t) >= AuthMaxAge + Skew BY <1>2, <1>4, <1>5, DroppedBy
<1> QED BY <1>1, <1>3, <1>6, <1>7 DEF Skew

LEMMA SingleAuthenticates ==
    ASSUME ServerInv, SingleInv, NEW c \in Conns, Authenticate(c)
    PROVE  SingleInv'
<1> DEFINE i == msg[c].id
<1>0. ConnTypeOK /\ LimitsTypeOK BY DEF ServerInv, ServerTypeOK
<1>1. msg[c] \in Requests /\ msg[c].op \notin Reads
  BY <1>0 DEF Authenticate, ConnTypeOK, StagesMatch, Fits, ServerInv
<1>2. UNCHANGED <<clock, Now>> BY DEF Authenticate, Now, Secs
<1>3. \A d \in Conns \ {c} : pc'[d] = pc[d] /\ msg'[d] = msg[d]
  BY <1>0 DEF Authenticate, Goto, Reply, ConnTypeOK
<1>4. ASSUME NEW d \in Conns, Underway(d) PROVE msg[d] \in Requests /\ msg[d].at \in Int
  BY <1>0, <1>4, RequestOK DEF Underway, ConnTypeOK
<1>5. CASE ~AgeAccepted(msg[c].at)
  <2>1. UNCHANGED seen /\ ~Underway(c)'
    BY <1>0, <1>5 DEF Authenticate, Reply, Underway, ConnTypeOK
  <2> QED BY <1>2, <1>3, <2>1, SingleFrame DEF Underway
<1>6. CASE AgeAccepted(msg[c].at)
  <2>0. seen' = SeenAfter(i) BY <1>6 DEF Authenticate
  <2>1. ASSUME NEW d \in Conns, d # c, Underway(d)' PROVE Accepted(msg[d])'
    <3>1. Underway(d) /\ msg'[d] = msg[d] BY <1>3, <2>1 DEF Underway
    <3>2. Accepted(msg[d]) BY <3>1 DEF SingleInv
    <3>3. CASE msg[d].id \in Retained
      <4>1. msg[d].id \in DOMAIN seen' /\ seen'[msg[d].id] = seen[msg[d].id]
        BY <2>0, <3>3 DEF SeenAfter
      <4>2. msg[d].id \in DOMAIN seen BY <3>3 DEF Retained
      <4> QED BY <1>2, <3>1, <3>2, <4>1, <4>2 DEF Accepted, Secs
    <3>4. CASE msg[d].id \notin Retained
      <4>1. Now - msg[d].at >= AuthMaxAge BY <1>0, <1>4, <3>1, <3>2, <3>4, DroppedIsOld
      <4> QED BY <1>2, <3>1, <4>1 DEF Accepted
    <3> QED BY <3>3, <3>4
  <2>2. CASE ~FirstUse(i)
    <3>1. ~Underway(c)' BY <1>0, <2>2 DEF Authenticate, Reply, Underway, ConnTypeOK
    <3>2. \A d \in Conns : Underway(d)' => Underway(d) /\ msg'[d] = msg[d]
      BY <1>3, <3>1 DEF Underway
    <3>3. NoDoubleService' BY <1>2, <3>2 DEF SingleInv, NoDoubleService
    <3> QED BY <2>1, <3>1, <3>3 DEF SingleInv
  <2>3. CASE FirstUse(i)
    <3>1. msg' = msg BY <1>6, <2>3 DEF Authenticate, Goto
    <3>2. Accepted(msg[c])'
      <4>1. i \in DOMAIN seen' /\ seen'[i] = clock
        BY <2>0, <2>3 DEF SeenAfter, FirstUse
      <4>2. Secs(clock) - msg[c].at >= -Skew BY <1>6 DEF AgeAccepted, Now
      <4> QED BY <1>2, <3>1, <4>1, <4>2 DEF Accepted, Secs
    <3>3. ASSUME NEW d \in Conns, d # c, Underway(d)', msg[d].id = i
          PROVE  Now - msg[d].at >= AuthMaxAge
      <4>1. Underway(d) BY <1>3, <3>3 DEF Underway
      <4>2. Accepted(msg[d]) BY <4>1 DEF SingleInv
      <4>3. msg[d].id \notin Retained BY <2>3, <3>3 DEF FirstUse
      <4> QED BY <1>0, <1>4, <4>1, <4>2, <4>3, DroppedIsOld
    <3>4. ASSUME NEW d \in Conns, d # c, Underway(d)', msg[d].id = i
          PROVE  msg[c].at = msg[d].at
      <4>1. Underway(d) BY <1>3, <3>4 DEF Underway
      <4> QED BY <1>1, <1>4, <3>4, <4>1, ServerAssumption DEF Underway
    <3>5. NoDoubleService'
      <4> SUFFICES ASSUME NEW a \in Conns, NEW b \in Conns, a # b,
                          Underway(a)', Underway(b)', msg[a].id = msg[b].id
                   PROVE  Now - msg[a].at >= AuthMaxAge
        BY <1>2, <3>1 DEF NoDoubleService
      <4>1. CASE a = c BY <3>3, <3>4, <4>1
      <4>2. CASE b = c BY <3>3, <4>2
      <4>3. CASE a # c /\ b # c
        <5>1. Underway(a) /\ Underway(b) BY <1>3, <4>3 DEF Underway
        <5> QED BY <5>1 DEF SingleInv, NoDoubleService
      <4> QED BY <4>1, <4>2, <4>3
    <3> QED BY <2>1, <3>2, <3>5 DEF SingleInv
  <2> QED BY <2>2, <2>3
<1> QED BY <1>5, <1>6

LEMMA SingleTicks ==
    ASSUME ServerInv, SingleInv, ServerTick
    PROVE  SingleInv'
<1>0. ConnTypeOK /\ LimitsTypeOK BY DEF ServerInv, ServerTypeOK
<1>1. clock \in Nat /\ clock' = clock + 1 /\ UNCHANGED <<seen, pc, msg>>
  BY <1>0, LimitsAssumption DEF ServerTick, Tick, LimitsTypeOK, connVars
<1>2. Now \in Int /\ Now' \in Int /\ Now' >= Now
  BY <1>1, SecsGrow, SecsType DEF Now
<1>3. \A c \in Conns : Underway(c)' = Underway(c) BY <1>1 DEF Underway
<1>4. AuthMaxAge \in Int BY LimitsAssumption
<1>5. ASSUME NEW c \in Conns, Underway(c) PROVE msg[c].at \in Int
  BY <1>0, <1>5, RequestOK DEF Underway, ConnTypeOK
<1>6. ASSUME NEW c \in Conns, Underway(c), Now - msg[c].at >= AuthMaxAge
      PROVE  Now' - msg[c].at >= AuthMaxAge
  BY <1>2, <1>4, <1>5, <1>6
<1>7. ASSUME NEW c \in Conns, Underway(c)' PROVE Accepted(msg[c])'
  <2>1. Underway(c) /\ Accepted(msg[c]) BY <1>3, <1>7 DEF SingleInv
  <2> QED BY <1>1, <1>6, <2>1 DEF Accepted, Secs
<1>8. NoDoubleService' BY <1>1, <1>3, <1>6 DEF SingleInv, NoDoubleService
<1> QED BY <1>7, <1>8 DEF SingleInv

LEMMA SingleRestarts == Restart => SingleInv'
BY DEF Restart, SingleInv, NoDoubleService, Underway

LEMMA SingleInit == ServerInit => SingleInv
BY DEF ServerInit, SingleInv, NoDoubleService, Underway
=============================================================================
