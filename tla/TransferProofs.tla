--------------------------- MODULE TransferProofs ---------------------------
(* What the steps of the marketplace keep: the types of the tables and of    *)
(* the locals, the stages a request can be at, and one active name per key.  *)
(* The claim transaction is the one step here that writes names, and like    *)
(* the insert of a registration it goes through the index on active keys.    *)
EXTENDS Transfer, ServerProofs

ChainOK ==
    /\ tip \in 0 .. MaxTip
    /\ mined \in [Excesses -> 0 .. tip \cup {None}]

TransferInv == ServerInv /\ OneActiveName /\ ChainOK

-----------------------------------------------------------------------------
(* Lemmas about what the steps are built from *)

(* The whole second that a handler takes for its clock.                      *)
LEMMA NowOK == LimitsTypeOK => Now \in Nat
BY LimitsAssumption DEF LimitsTypeOK, Now, Secs

(* What a query of the offers table may answer is a row.                     *)
LEMMA RowOK ==
    ASSUME StoreTypeOK, NEW o \in Offers, NEW row \in GetOffer(o)
    PROVE  row \in OfferRow
<1>1. NoOffer \in OfferRow BY DEF NoOffer, OfferRow, Statuses
<1> QED BY <1>1 DEF GetOffer, OrFault, StoreTypeOK

(* The heights an endpoint may give, for the tip or for a kernel.            *)
LEMMA HeightsOK ==
    ASSUME ChainOK, NEW i, NEW h
    PROVE  /\ h \in TipHeights(i) => h \in Nat \cup {None}
           /\ \A x \in Excesses : h \in KernelHeights(i, x) => h \in Nat \cup {None}
BY DEF ChainOK, TipHeights, Views, KernelHeights, None

(* Marking an offer dead keeps the table typed; so does setting a status.    *)
LEMMA MarkedOK ==
    ASSUME StoreTypeOK, NEW o \in Offers, NEW status \in Statuses,
           NEW end \in Nat \cup {None}, NEW at \in Nat
    PROVE  OffersMarked(o, status, end, at) \in [Offers -> OfferRow]
<1>1. [status |-> status, end |-> end, changed |-> at] \in OfferRow
  BY DEF OfferRow
<1> QED BY <1>1 DEF OffersMarked, StoreTypeOK

LEMMA StatusSetOK ==
    ASSUME StoreTypeOK, NEW o \in Offers, NEW status \in Statuses
    PROVE  OffersSet(o, status) \in [Offers -> OfferRow]
<1>1. offers[o] \in OfferRow BY DEF StoreTypeOK
<1>2. [offers[o] EXCEPT !.status = status] \in OfferRow BY <1>1 DEF OfferRow
<1> QED BY <1>2 DEF OffersSet, StoreTypeOK

(* A step that rewrites the offers alone.                                    *)
LEMMA OffersStep ==
    ASSUME StoreTypeOK, OneActiveName, UNCHANGED <<names, transfers>>,
           offers' \in [Offers -> OfferRow]
    PROVE  StoreTypeOK' /\ OneActiveName'
BY DEF StoreTypeOK, OneActiveName

(* What a handler sets among its locals.                                     *)
LEMMA SetRowOK ==
    ASSUME loc \in [Conns -> Locals], NEW c \in Conns, NEW row \in OfferRow,
           NEW now \in Nat
    PROVE  /\ [loc EXCEPT ![c].row = row, ![c].now = now] \in [Conns -> Locals]
           /\ [loc EXCEPT ![c] = [NoLocals EXCEPT !.row = row, !.now = now]]
                 \in [Conns -> Locals]
           /\ [loc EXCEPT ![c].now = now] \in [Conns -> Locals]
BY DEF Locals, NoLocals

LEMMA SetHeightOK ==
    ASSUME loc \in [Conns -> Locals], NEW c \in Conns, NEW h \in Nat \cup {None},
           NEW asked \in Nat
    PROVE  /\ [loc EXCEPT ![c].height = h, ![c].node = 1] \in [Conns -> Locals]
           /\ [loc EXCEPT ![c].height = h, ![c].asked = asked] \in [Conns -> Locals]
           /\ [loc EXCEPT ![c].asked = 0, ![c].node = 1] \in [Conns -> Locals]
           /\ [loc EXCEPT ![c].node = NextNode(@), ![c].height = None, ![c].asked = 0]
                 \in [Conns -> Locals]
<1> DEFINE L == loc[c]
<1>1. L \in Locals OBVIOUS
<1>2. [L EXCEPT !.height = h, !.node = 1] \in Locals BY <1>1 DEF Locals
<1>3. [L EXCEPT !.height = h, !.asked = asked] \in Locals BY <1>1 DEF Locals
<1>4. [L EXCEPT !.asked = 0, !.node = 1] \in Locals BY <1>1 DEF Locals
<1>5. [L EXCEPT !.node = NextNode(@), !.height = None, !.asked = 0] \in Locals
  <2>1. NextNode(L.node) \in Nat BY <1>1 DEF Locals, NextNode
  <2> QED BY <1>1, <2>1 DEF Locals
<1> QED BY <1>2, <1>3, <1>4, <1>5

(* The stages each kind of transfer call can be at, and what a call at one   *)
(* of them carries.                                                          *)
LEMMA StagesFit ==
    ASSUME NEW m, NEW stage
    PROVE  /\ m.op = "lodge" /\ stage \in LodgeStages => stage \in Stages /\ Fits(m, stage)
           /\ m.op = "revoke" /\ stage \in RevokeStages => stage \in Stages /\ Fits(m, stage)
           /\ m.op = "claim" /\ stage \in ClaimStages => stage \in Stages /\ Fits(m, stage)
           /\ m.op \in {"claim", "readOffer"} /\ stage \in SettleStages
                 => stage \in Stages /\ Fits(m, stage)
BY DEF Stages, Fits, RegisterStages, ReleaseStages, LodgeStages, RevokeStages,
       SettleStages, ClaimStages

LEMMA AtStage ==
    ASSUME ConnOK, NEW c \in Conns
    PROVE  /\ pc[c] \in LodgeStages => msg[c].op = "lodge"
           /\ pc[c] \in RevokeStages => msg[c].op = "revoke"
           /\ pc[c] \in SettleStages \cup {"offer"} => msg[c].op \in {"claim", "readOffer"}
           /\ pc[c] \in ClaimStages \ {"offer"} => msg[c].op = "claim"
           /\ pc[c] \in LodgeStages \cup RevokeStages \cup SettleStages \cup ClaimStages
                 => /\ msg[c] \in Requests /\ pc[c] # "idle"
                    /\ OfferOf(c) \in Offers
                    /\ OfferOf(c).name \in Names /\ OfferOf(c).seller \in Keys
                    /\ OfferOf(c).buyer \in Keys
           /\ pc[c] \in ClaimStages \ {"offer"} => msg[c].proof.excess \in Excesses
<1>1. StagesMatch /\ ConnTypeOK BY DEF ConnOK
<1>2. Fits(msg[c], pc[c]) BY <1>1 DEF StagesMatch
<1>3. /\ pc[c] \in LodgeStages => msg[c].op = "lodge"
      /\ pc[c] \in RevokeStages => msg[c].op = "revoke"
      /\ pc[c] \in SettleStages \cup {"offer"} => msg[c].op \in {"claim", "readOffer"}
      /\ pc[c] \in ClaimStages \ {"offer"} => msg[c].op = "claim"
  BY <1>2 DEF Fits
<1>4. ASSUME pc[c] \in LodgeStages \cup RevokeStages \cup SettleStages \cup ClaimStages
      PROVE  /\ msg[c] \in Requests /\ pc[c] # "idle"
             /\ OfferOf(c) \in Offers
             /\ OfferOf(c).name \in Names /\ OfferOf(c).seller \in Keys
             /\ OfferOf(c).buyer \in Keys
  <2>1. pc[c] # "idle"
    BY <1>4 DEF LodgeStages, RevokeStages, SettleStages, ClaimStages
  <2>2. msg[c] \in Requests BY <1>1, <2>1 DEF ConnTypeOK
  <2>3. msg[c].op \in TransferWrites \cup {"readOffer"}
    BY <1>3, <1>4 DEF TransferWrites
  <2>4. OfferOf(c) \in Offers BY <2>2, <2>3, RequestOK DEF OfferOf
  <2>5. OfferOf(c) \in OfferType BY <2>4, StoreAssumption
  <2> QED BY <2>1, <2>2, <2>4, <2>5 DEF OfferType
<1>5. ASSUME pc[c] \in ClaimStages \ {"offer"} PROVE msg[c].proof.excess \in Excesses
  <2>1. msg[c].proof \in ProofType BY <1>3, <1>4, <1>5, RequestOK
  <2> QED BY <2>1 DEF ProofType
<1> QED BY <1>3, <1>4, <1>5

(* A step that writes no table and no map, with the connections in order.    *)
LEMMA QuietOK ==
    ASSUME TransferInv, UNCHANGED <<storeVars, limitVars, chainVars>>, ConnOK'
    PROVE  TransferInv'
<1>1. StoreTypeOK' /\ OneActiveName'
  BY OwnersSame DEF TransferInv, ServerInv, ServerTypeOK
<1>2. LimitsTypeOK' BY LimitsSame DEF TransferInv, ServerInv, ServerTypeOK
<1>3. ChainOK' BY DEF TransferInv, ChainOK, chainVars
<1> QED BY <1>1, <1>2, <1>3 DEF TransferInv, ServerInv, ServerTypeOK, ConnOK

(* A step that writes tables, and neither the maps nor the chain.            *)
LEMMA TableStepOK ==
    ASSUME TransferInv, UNCHANGED <<limitVars, chainVars>>, ConnOK',
           StoreTypeOK' /\ OneActiveName'
    PROVE  TransferInv'
<1>1. LimitsTypeOK' BY LimitsSame DEF TransferInv, ServerInv, ServerTypeOK
<1>2. ChainOK' BY DEF TransferInv, ChainOK, chainVars
<1> QED BY <1>1, <1>2 DEF TransferInv, ServerInv, ServerTypeOK, ConnOK

LEMMA PartsOK ==
    TransferInv => /\ ConnOK /\ ChainOK /\ StoreTypeOK /\ OneActiveName /\ LimitsTypeOK
                   /\ loc \in [Conns -> Locals] /\ Now \in Nat
BY NowOK DEF TransferInv, ServerInv, ServerTypeOK, ConnOK, ConnTypeOK

-----------------------------------------------------------------------------
(* The steps of a handler *)

(* A handler whose endpoint fails starts over with the next one.             *)
LEMMA AskNextOK ==
    ASSUME TransferInv, NEW c \in Conns, AskNext(c)
    PROVE  TransferInv'
<1> DEFINE stage == IF pc[c] = "depth" THEN "kernel" ELSE pc[c]
<1>1. ConnOK /\ loc \in [Conns -> Locals] BY PartsOK
<1>2. pc[c] \in Asking BY DEF AskNext
<1>3. loc' \in [Conns -> Locals] BY <1>1, SetHeightOK DEF AskNext, None
<1>4. stage \in Stages /\ Fits(msg[c], stage) /\ pc[c] # "idle"
  <2>1. CASE pc[c] = "depth"
    <3>1. msg[c].op = "claim" BY <1>1, <2>1, AtStage DEF ClaimStages
    <3> QED BY <2>1, <3>1, StagesFit DEF ClaimStages
  <2>2. CASE pc[c] # "depth"
    BY <1>1, <1>2, <2>2 DEF Asking, ConnOK, ConnTypeOK, StagesMatch
  <2> QED BY <2>1, <2>2
<1>5. Goto(c, stage) BY DEF AskNext
<1>6. ConnOK' BY <1>1, <1>3, <1>4, <1>5, GotoOK
<1> QED BY <1>6, QuietOK DEF AskNext

(* Lodging: the terms and the lookups.                                       *)
LEMMA LodgeTermsOK ==
    ASSUME TransferInv, NEW c \in Conns, LodgeTerms(c)
    PROVE  TransferInv'
<1>1. ConnOK /\ loc \in [Conns -> Locals] /\ Now \in Nat BY PartsOK
<1>2. msg[c].op = "lodge" /\ pc[c] # "idle"
  BY <1>1, AtStage DEF LodgeTerms, LodgeStages
<1>3. \/ Reply(c, TermsRefusal(msg[c], Now)) \/ Reply(c, 403)
      \/ Goto(c, "byName") /\ loc' = [loc EXCEPT ![c].now = Now]
  BY DEF LodgeTerms
<1>4. TermsRefusal(msg[c], Now) \in Nat BY DEF TermsRefusal
<1>5. "byName" \in Stages /\ Fits(msg[c], "byName")
  BY <1>2, StagesFit DEF LodgeStages
<1>6. [loc EXCEPT ![c].now = Now] \in [Conns -> Locals] BY <1>1 DEF Locals
<1>7. ConnOK' BY <1>1, <1>2, <1>3, <1>4, <1>5, <1>6, ReplyOK, GotoOK
<1> QED BY <1>7, QuietOK DEF LodgeTerms

LEMMA LodgeLookupOK ==
    ASSUME TransferInv, NEW c \in Conns, LodgeByName(c) \/ LodgeByAddress(c)
    PROVE  TransferInv'
<1>1. ConnOK /\ loc \in [Conns -> Locals] BY PartsOK
<1>2. msg[c].op = "lodge" /\ pc[c] # "idle"
  BY <1>1, AtStage DEF LodgeByName, LodgeByAddress, LodgeStages
<1>3. PICK stage \in LodgeStages : Reply(c, 409) \/ (Goto(c, stage) /\ UNCHANGED loc)
  BY DEF LodgeByName, LodgeByAddress, LodgeStages
<1>4. stage \in Stages /\ Fits(msg[c], stage) BY <1>2, StagesFit
<1>5. ConnOK' BY <1>1, <1>2, <1>3, <1>4, ReplyOK, GotoOK
<1> QED BY <1>5, QuietOK DEF LodgeByName, LodgeByAddress

LEMMA LodgeInsertOK ==
    ASSUME TransferInv, NEW c \in Conns, LodgeInsert(c)
    PROVE  TransferInv'
<1>1. ConnOK /\ StoreTypeOK /\ OneActiveName BY PartsOK
<1>2. Reply(c, 201) \/ Reply(c, 409) \/ Reply(c, 500) BY DEF LodgeInsert
<1>3. ConnOK' BY <1>1, <1>2, ReplyOK
<1>4. LiveOffer \in OfferRow BY DEF LiveOffer, NoOffer, OfferRow, Statuses
<1>5. offers' \in [Offers -> OfferRow] BY <1>1, <1>4 DEF LodgeInsert, StoreTypeOK
<1>6. StoreTypeOK' /\ OneActiveName' BY <1>1, <1>5, OffersStep DEF LodgeInsert
<1> QED BY <1>3, <1>6, TableStepOK DEF LodgeInsert

(* Reading an offer, and judging a claim on what was read.                   *)
LEMMA ActOnOK ==
    ASSUME TransferInv, NEW c \in Conns, pc[c] \in {"offer", "reread"},
           NEW row \in OfferRow, NEW now \in Nat, ActOn(c, row, now)
    PROVE  ConnOK'
<1>1. ConnOK /\ loc \in [Conns -> Locals] BY PartsOK
<1>2. pc[c] # "idle" OBVIOUS
<1>3. \/ Reply(c, 200) \/ Reply(c, RowRefusal(msg[c], row, now))
      \/ /\ msg[c].op = "claim"
         /\ \/ /\ Goto(c, "sold")
               /\ loc' = [loc EXCEPT ![c].row = row, ![c].now = now]
            \/ /\ Goto(c, "seller")
               /\ loc' = [loc EXCEPT ![c] = [NoLocals EXCEPT !.row = row, !.now = now]]
  BY DEF ActOn
<1>4. RowRefusal(msg[c], row, now) \in Nat BY DEF RowRefusal
<1>5. CASE Reply(c, 200) \/ Reply(c, RowRefusal(msg[c], row, now))
  BY <1>1, <1>4, <1>5, ReplyOK
<1>6. CASE msg[c].op = "claim" /\ Goto(c, "sold")
           /\ loc' = [loc EXCEPT ![c].row = row, ![c].now = now]
  <2>1. "sold" \in Stages /\ Fits(msg[c], "sold")
    BY <1>6, StagesFit DEF ClaimStages
  <2>2. loc' \in [Conns -> Locals] BY <1>1, <1>6, SetRowOK
  <2> QED BY <1>1, <1>2, <1>6, <2>1, <2>2, GotoOK
<1>7. CASE msg[c].op = "claim" /\ Goto(c, "seller")
           /\ loc' = [loc EXCEPT ![c] = [NoLocals EXCEPT !.row = row, !.now = now]]
  <2>1. "seller" \in Stages /\ Fits(msg[c], "seller")
    BY <1>7, StagesFit DEF ClaimStages
  <2>2. loc' \in [Conns -> Locals] BY <1>1, <1>7, SetRowOK
  <2> QED BY <1>1, <1>2, <1>7, <2>1, <2>2, GotoOK
<1> QED BY <1>3, <1>5, <1>6, <1>7

LEMMA ReadOfferRowOK ==
    ASSUME TransferInv, NEW c \in Conns, ReadOfferRow(c)
    PROVE  TransferInv'
<1>1. ConnOK /\ loc \in [Conns -> Locals] /\ StoreTypeOK /\ Now \in Nat BY PartsOK
<1>2. /\ pc[c] = "offer" /\ msg[c].op \in {"claim", "readOffer"}
      /\ OfferOf(c) \in Offers /\ pc[c] # "idle"
  BY <1>1, AtStage DEF ReadOfferRow, ClaimStages
<1>3. CASE Reply(c, 400) \/ Reply(c, 404)
  BY <1>1, <1>3, ReplyOK, QuietOK DEF ReadOfferRow
<1>4. ASSUME NEW row \in GetOffer(OfferOf(c)), ActOn(c, row, Now) PROVE TransferInv'
  <2>1. row \in OfferRow BY <1>1, <1>2, RowOK
  <2>2. ConnOK' BY <1>1, <1>2, <1>4, <2>1, ActOnOK
  <2> QED BY <2>2, QuietOK DEF ReadOfferRow
<1>5. ASSUME NEW row \in GetOffer(OfferOf(c)), Goto(c, "tip"),
             loc' = [loc EXCEPT ![c].row = row, ![c].now = Now]
      PROVE  TransferInv'
  <2>1. row \in OfferRow BY <1>1, <1>2, RowOK
  <2>2. loc' \in [Conns -> Locals] BY <1>1, <1>5, <2>1, SetRowOK
  <2>3. "tip" \in Stages /\ Fits(msg[c], "tip") BY <1>2, StagesFit DEF SettleStages
  <2>4. ConnOK' BY <1>1, <1>2, <1>5, <2>2, <2>3, GotoOK
  <2> QED BY <2>4, QuietOK DEF ReadOfferRow
<1> QED BY <1>3, <1>4, <1>5 DEF ReadOfferRow

(* The tip of the chain, for a settlement and for a revocation.              *)
LEMMA TipOK ==
    ASSUME TransferInv, NEW c \in Conns, SettleTip(c) \/ RevokeTip(c)
    PROVE  TransferInv'
<1>1. ConnOK /\ loc \in [Conns -> Locals] /\ ChainOK BY PartsOK
<1>2. \/ pc[c] = "tip" /\ Goto(c, "mark")
      \/ pc[c] = "revokeTip" /\ Goto(c, "revokeMark")
  BY DEF SettleTip, RevokeTip
<1>3. loc' \in [Conns -> Locals]
  <2>1. PICK h \in TipHeights(loc[c].node) :
          loc' = [loc EXCEPT ![c].height = h, ![c].node = 1]
    BY DEF SettleTip, RevokeTip
  <2>2. h \in Nat \cup {None} BY <1>1, HeightsOK
  <2> QED BY <1>1, <2>1, <2>2, SetHeightOK
<1>4. CASE pc[c] = "tip" /\ Goto(c, "mark")
  <2>1. msg[c].op \in {"claim", "readOffer"} BY <1>1, <1>4, AtStage DEF SettleStages
  <2>2. "mark" \in Stages /\ Fits(msg[c], "mark") BY <2>1, StagesFit DEF SettleStages
  <2>3. ConnOK' BY <1>1, <1>3, <1>4, <2>2, GotoOK
  <2> QED BY <2>3, QuietOK DEF SettleTip, RevokeTip
<1>5. CASE pc[c] = "revokeTip" /\ Goto(c, "revokeMark")
  <2>1. msg[c].op = "revoke" BY <1>1, <1>5, AtStage DEF RevokeStages
  <2>2. "revokeMark" \in Stages /\ Fits(msg[c], "revokeMark")
    BY <2>1, StagesFit DEF RevokeStages
  <2>3. ConnOK' BY <1>1, <1>3, <1>5, <2>2, GotoOK
  <2> QED BY <2>3, QuietOK DEF SettleTip, RevokeTip
<1> QED BY <1>2, <1>4, <1>5

(* The marks on an offer: by a settlement, and by a revocation.              *)
LEMMA SettleMarkOK ==
    ASSUME TransferInv, NEW c \in Conns, SettleMark(c)
    PROVE  TransferInv'
<1>1. ConnOK /\ loc \in [Conns -> Locals] /\ StoreTypeOK /\ OneActiveName BY PartsOK
<1>2. msg[c].op \in {"claim", "readOffer"} /\ pc[c] # "idle" /\ OfferOf(c) \in Offers
  BY <1>1, AtStage DEF SettleMark, SettleStages
<1>3. "reread" \in Stages /\ Fits(msg[c], "reread")
  BY <1>2, StagesFit DEF SettleStages
<1>4. ConnOK' BY <1>1, <1>2, <1>3, GotoOK DEF SettleMark
<1>5. loc[c].height \in Nat \cup {None} /\ loc[c].now \in Nat BY <1>1 DEF Locals
<1>6. offers' \in [Offers -> OfferRow]
  <2>1. "expired" \in Statuses BY DEF Statuses
  <2>2. OffersMarked(OfferOf(c), "expired", loc[c].height, loc[c].now)
           \in [Offers -> OfferRow]
    BY <1>1, <1>2, <1>5, <2>1, MarkedOK
  <2>3. offers \in [Offers -> OfferRow] BY <1>1 DEF StoreTypeOK
  <2> QED BY <2>2, <2>3 DEF SettleMark
<1>7. StoreTypeOK' /\ OneActiveName' BY <1>1, <1>6, OffersStep DEF SettleMark
<1> QED BY <1>4, <1>7, TableStepOK DEF SettleMark

LEMMA RevokeMarkOK ==
    ASSUME TransferInv, NEW c \in Conns, RevokeMark(c) \/ RevokeFlip(c)
    PROVE  TransferInv'
<1>1. ConnOK /\ loc \in [Conns -> Locals] /\ StoreTypeOK /\ OneActiveName BY PartsOK
<1>2. OfferOf(c) \in Offers
  BY <1>1, AtStage DEF RevokeMark, RevokeFlip, RevokeStages
<1>3. Reply(c, 200) BY DEF RevokeMark, RevokeFlip
<1>4. ConnOK' BY <1>1, <1>3, ReplyOK
<1>5. loc[c].height \in Nat \cup {None} /\ loc[c].now \in Nat BY <1>1 DEF Locals
<1>6. offers' \in [Offers -> OfferRow]
  <2>1. "revoked" \in Statuses BY DEF Statuses
  <2>2. OffersMarked(OfferOf(c), "revoked", loc[c].height, loc[c].now)
           \in [Offers -> OfferRow]
    BY <1>1, <1>2, <1>5, <2>1, MarkedOK
  <2>3. OffersSet(OfferOf(c), "revoked") \in [Offers -> OfferRow]
    BY <1>1, <1>2, <2>1, StatusSetOK
  <2>4. offers \in [Offers -> OfferRow] BY <1>1 DEF StoreTypeOK
  <2> QED BY <2>2, <2>3, <2>4 DEF RevokeMark, RevokeFlip
<1>7. UNCHANGED <<names, transfers, limitVars, chainVars>>
  BY DEF RevokeMark, RevokeFlip
<1>8. StoreTypeOK' /\ OneActiveName' BY <1>1, <1>6, <1>7, OffersStep
<1> QED BY <1>4, <1>7, <1>8, TableStepOK

LEMMA SettleRereadOK ==
    ASSUME TransferInv, NEW c \in Conns, SettleReread(c)
    PROVE  TransferInv'
<1>1. ConnOK /\ loc \in [Conns -> Locals] /\ StoreTypeOK BY PartsOK
<1>2. pc[c] = "reread" /\ OfferOf(c) \in Offers
  BY <1>1, AtStage DEF SettleReread, SettleStages
<1>3. loc[c].row \in OfferRow /\ loc[c].now \in Nat BY <1>1 DEF Locals
<1>4. PICK row \in GetOffer(OfferOf(c)) :
        ActOn(c, IF row = NoOffer THEN loc[c].row ELSE row, loc[c].now)
  BY DEF SettleReread
<1>5. row \in OfferRow BY <1>1, <1>2, RowOK
<1>6. ConnOK' BY <1>2, <1>3, <1>4, <1>5, ActOnOK
<1> QED BY <1>6, QuietOK DEF SettleReread

LEMMA RevokeReadOK ==
    ASSUME TransferInv, NEW c \in Conns, RevokeRead(c)
    PROVE  TransferInv'
<1>1. ConnOK /\ loc \in [Conns -> Locals] /\ StoreTypeOK /\ Now \in Nat BY PartsOK
<1>2. msg[c].op = "revoke" /\ pc[c] # "idle" /\ OfferOf(c) \in Offers
  BY <1>1, AtStage DEF RevokeRead, RevokeStages
<1>3. PICK row \in GetOffer(OfferOf(c)) :
        \/ Reply(c, 404) \/ Reply(c, 403) \/ Reply(c, RevokeAnswer(row))
        \/ Goto(c, "flip") /\ UNCHANGED loc
        \/ /\ Goto(c, "revokeTip")
           /\ loc' = [loc EXCEPT ![c].row = row, ![c].now = Now]
  BY DEF RevokeRead
<1>4. RevokeAnswer(row) \in Nat BY DEF RevokeAnswer
<1>5. row \in OfferRow BY <1>1, <1>2, RowOK
<1>6. /\ "flip" \in Stages /\ Fits(msg[c], "flip")
      /\ "revokeTip" \in Stages /\ Fits(msg[c], "revokeTip")
  BY <1>2, StagesFit DEF RevokeStages
<1>7. [loc EXCEPT ![c].row = row, ![c].now = Now] \in [Conns -> Locals]
  BY <1>1, <1>5, SetRowOK
<1>8. ConnOK'
  <2>1. CASE Reply(c, 404) \/ Reply(c, 403) \/ Reply(c, RevokeAnswer(row))
    BY <1>1, <1>4, <2>1, ReplyOK
  <2>2. CASE Goto(c, "flip") /\ UNCHANGED loc
    BY <1>1, <1>2, <1>6, <2>2, GotoOK
  <2>3. CASE Goto(c, "revokeTip")
             /\ loc' = [loc EXCEPT ![c].row = row, ![c].now = Now]
    BY <1>1, <1>2, <1>6, <1>7, <2>3, GotoOK
  <2> QED BY <1>3, <2>1, <2>2, <2>3
<1> QED BY <1>8, QuietOK DEF RevokeRead

(* The steps of a claim that write nothing.                                  *)
LEMMA ClaimCheckOK ==
    ASSUME TransferInv, NEW c \in Conns,
           ClaimSold(c) \/ ClaimSeller(c) \/ ClaimExcess(c) \/ ClaimBuyer(c)
    PROVE  TransferInv'
<1>1. ConnOK /\ loc \in [Conns -> Locals] BY PartsOK
<1>2. pc[c] \in ClaimStages \ {"offer"}
  BY DEF ClaimSold, ClaimSeller, ClaimExcess, ClaimBuyer, ClaimStages
<1>3. msg[c].op = "claim" /\ pc[c] # "idle" BY <1>1, <1>2, AtStage
<1>4. PICK stage \in ClaimStages :
        \/ Reply(c, 200) \/ Reply(c, 409) \/ Reply(c, 400)
        \/ Goto(c, stage) /\ UNCHANGED loc
  BY DEF ClaimSold, ClaimSeller, ClaimExcess, ClaimBuyer, ClaimStages, ProofRefusal
<1>5. stage \in Stages /\ Fits(msg[c], stage) BY <1>3, StagesFit
<1>6. ConnOK' BY <1>1, <1>3, <1>4, <1>5, ReplyOK, GotoOK
<1>7. UNCHANGED <<storeVars, limitVars, chainVars>>
  BY DEF ClaimSold, ClaimSeller, ClaimExcess, ClaimBuyer
<1> QED BY <1>6, <1>7, QuietOK

LEMMA ClaimNodeOK ==
    ASSUME TransferInv, NEW c \in Conns, ClaimKernel(c) \/ ClaimDepth(c)
    PROVE  TransferInv'
<1>1. ConnOK /\ loc \in [Conns -> Locals] /\ ChainOK BY PartsOK
<1>2. pc[c] \in ClaimStages \ {"offer"} BY DEF ClaimKernel, ClaimDepth, ClaimStages
<1>3. /\ msg[c].op = "claim" /\ pc[c] # "idle"
      /\ msg[c].proof.excess \in Excesses
  BY <1>1, <1>2, AtStage
<1>4. \/ Reply(c, 409) \/ Reply(c, 410)
      \/ /\ Goto(c, "depth")
         /\ \E h \in KernelHeights(loc[c].node, msg[c].proof.excess) :
               loc' = [loc EXCEPT ![c].height = h, ![c].asked = tip]
      \/ /\ Goto(c, "excess")
         /\ loc' = [loc EXCEPT ![c].asked = 0, ![c].node = 1]
  BY DEF ClaimKernel, ClaimDepth
<1>5. "depth" \in Stages /\ Fits(msg[c], "depth") /\ "excess" \in Stages /\ Fits(msg[c], "excess")
  BY <1>3, StagesFit DEF ClaimStages
<1>6. ConnOK'
  <2>1. CASE Reply(c, 409) \/ Reply(c, 410) BY <1>1, <2>1, ReplyOK
  <2>2. ASSUME Goto(c, "depth"),
               NEW h \in KernelHeights(loc[c].node, msg[c].proof.excess),
               loc' = [loc EXCEPT ![c].height = h, ![c].asked = tip]
        PROVE  ConnOK'
    <3>1. h \in Nat \cup {None} /\ tip \in Nat BY <1>1, <1>3, HeightsOK DEF ChainOK
    <3>2. loc' \in [Conns -> Locals] BY <1>1, <2>2, <3>1, SetHeightOK
    <3> QED BY <1>1, <1>3, <1>5, <2>2, <3>2, GotoOK
  <2>3. CASE Goto(c, "excess") /\ loc' = [loc EXCEPT ![c].asked = 0, ![c].node = 1]
    <3>1. loc' \in [Conns -> Locals] BY <1>1, <2>3, SetHeightOK
    <3> QED BY <1>1, <1>3, <1>5, <2>3, <3>1, GotoOK
  <2> QED BY <1>4, <2>1, <2>2, <2>3
<1>7. UNCHANGED <<storeVars, limitVars, chainVars>> BY DEF ClaimKernel, ClaimDepth
<1> QED BY <1>6, <1>7, QuietOK

(* The claim transaction: three tables, or none.                             *)
LEMMA ClaimTxnOK ==
    ASSUME TransferInv, NEW c \in Conns, ClaimTxn(c)
    PROVE  TransferInv'
<1> DEFINE o == OfferOf(c)
           x == msg[c].proof.excess
           sale == [offer |-> o, excess |-> x, height |-> loc[c].height]
<1>1. ConnOK /\ loc \in [Conns -> Locals] /\ StoreTypeOK /\ OneActiveName BY PartsOK
<1>2. /\ msg[c].op = "claim" /\ pc[c] # "idle" /\ o \in Offers
      /\ o.name \in Names /\ o.buyer \in Keys /\ x \in Excesses
  BY <1>1, AtStage DEF ClaimTxn, ClaimStages
<1>3. CASE UNCHANGED storeVars
  <2>1. Reply(c, 409) \/ Reply(c, 500)
         \/ (Goto(c, "armSeller") /\ UNCHANGED loc)
    BY DEF ClaimTxn
  <2>2. "armSeller" \in Stages /\ Fits(msg[c], "armSeller")
    BY <1>2, StagesFit DEF ClaimStages
  <2>3. ConnOK' BY <1>1, <1>2, <2>1, <2>2, ReplyOK, GotoOK
  <2> QED BY <1>3, <2>3, QuietOK DEF ClaimTxn
<1>4. CASE /\ MaySell(o, x)
           /\ names' = NamesWith(o.name, o.buyer)
           /\ transfers' = transfers \cup {sale}
           /\ offers' = OffersSet(o, "consumed")
           /\ Goto(c, "armSeller") /\ UNCHANGED loc
  <2>1. "armSeller" \in Stages /\ Fits(msg[c], "armSeller")
    BY <1>2, StagesFit DEF ClaimStages
  <2>2. ConnOK' BY <1>1, <1>2, <1>4, <2>1, GotoOK
  <2>3. offers' \in [Offers -> OfferRow]
    <3>1. "consumed" \in Statuses BY DEF Statuses
    <3> QED BY <1>1, <1>2, <1>4, <3>1, StatusSetOK
  <2>4. transfers' \subseteq TransferRow
    <3>1. loc[c].height \in Nat \cup {None} BY <1>1 DEF Locals
    <3>2. sale \in TransferRow BY <1>2, <3>1 DEF TransferRow
    <3> QED BY <1>1, <1>4, <3>2 DEF StoreTypeOK
  <2>5. KeyFree(o.buyer, o.name) BY <1>4 DEF MaySell
  <2>6. StoreTypeOK' /\ OneActiveName'
    BY <1>1, <1>2, <1>4, <2>3, <2>4, <2>5, GrantOK
  <2> QED BY <2>2, <2>6, TableStepOK DEF ClaimTxn
<1> QED BY <1>3, <1>4 DEF ClaimTxn

(* After a sale the cooldown of the seller is armed.                         *)
LEMMA ClaimRecordOK ==
    ASSUME TransferInv, NEW c \in Conns, ClaimRecord(c)
    PROVE  TransferInv'
<1>1. ConnOK /\ StoreTypeOK /\ OneActiveName /\ LimitsTypeOK /\ ChainOK BY PartsOK
<1>2. OfferOf(c).seller \in Keys
  BY <1>1, AtStage DEF ClaimRecord, ClaimStages
<1>3. ConnOK' BY <1>1, ReplyOK DEF ClaimRecord
<1>4. LimitsTypeOK'
  <2>1. clock \in Nat /\ RateOK(rate) BY <1>1, LimitsAssumption DEF LimitsTypeOK
  <2>2. RateOK(rate') BY <1>2, <2>1, RecordOK DEF ClaimRecord
  <2> QED BY <1>1, <2>2, LimitsFrame DEF ClaimRecord, LimitsTypeOK
<1>5. StoreTypeOK' /\ OneActiveName' BY <1>1, OwnersSame DEF ClaimRecord
<1>6. ChainOK' BY <1>1 DEF ClaimRecord, ChainOK, chainVars
<1> QED BY <1>3, <1>4, <1>5, <1>6 DEF TransferInv, ServerInv, ServerTypeOK, ConnOK

(* Every step of a transfer handler keeps the invariant.                     *)
LEMMA TransferStepOK ==
    ASSUME TransferInv, NEW c \in Conns, TransferStep(c)
    PROVE  TransferInv'
BY AskNextOK, LodgeTermsOK, LodgeLookupOK, LodgeInsertOK, ReadOfferRowOK, TipOK,
   SettleMarkOK, SettleRereadOK, RevokeReadOK, RevokeMarkOK, ClaimCheckOK, ClaimNodeOK,
   ClaimTxnOK, ClaimRecordOK
DEF TransferStep

(* So does the loss of a client, and what happens on the chain.              *)
LEMMA DropOK ==
    ASSUME TransferInv, NEW c \in Conns, Drop(c)
    PROVE  TransferInv'
<1>1. ConnOK' BY PartsOK, ReplyOK DEF Drop
<1> QED BY <1>1, QuietOK DEF Drop

LEMMA ChainStepOK == TransferInv /\ Chain => TransferInv'
<1> SUFFICES ASSUME TransferInv, Chain PROVE TransferInv' OBVIOUS
<1>1. UNCHANGED storeVars /\ UNCHANGED limitVars /\ UNCHANGED connVars
  BY DEF Chain, serverVars
<1>2. ConnOK' BY <1>1, PartsOK DEF ConnOK, connVars, ConnTypeOK, StagesMatch
<1>3. StoreTypeOK' /\ OneActiveName' /\ LimitsTypeOK'
  BY <1>1, PartsOK, OwnersSame, LimitsSame
<1>4. ChainOK'
  BY PartsOK, NodeAssumption DEF Chain, Mine, Reorg, ChainOK
<1> QED BY <1>2, <1>3, <1>4 DEF TransferInv, ServerInv, ServerTypeOK, ConnOK


-----------------------------------------------------------------------------
(* Every stage after the prologue goes on or answers, and leaves the clock   *)
(* and the replay set alone.                                                 *)
LEMMA TransferMoves ==
    ASSUME NEW c \in Conns, TransferStep(c)
    PROVE  pc[c] \notin {"idle", "auth"} /\ Moves(c) /\ UNCHANGED <<clock, seen>>
<1> DEFINE Next1 == {"byName", "byAddress", "lodge", "tip", "mark", "reread", "sold", "seller",
                     "flip", "revokeTip", "revokeMark", "kernel", "depth", "excess", "buyer",
                     "txn", "armSeller"}
<1>1. Next1 \subseteq Stages
  BY DEF Stages, LodgeStages, SettleStages, RevokeStages, ClaimStages
<1>2. /\ \A stage \in Next1 : Goto(c, stage) => Moves(c)
      /\ \A status \in Nat : Reply(c, status) => Moves(c)
  BY <1>1 DEF Moves
<1>3. /\ \A m, now : TermsRefusal(m, now) \in Nat
      /\ \A m, row, now : RowRefusal(m, row, now) \in Nat
      /\ \A o, p : ProofRefusal(o, p) \in Nat
      /\ \A row : RevokeAnswer(row) \in Nat
  BY DEF TermsRefusal, RowRefusal, ProofRefusal, RevokeAnswer
<1>4. ASSUME NEW row, NEW now, ActOn(c, row, now) PROVE Moves(c)
  BY <1>2, <1>3, <1>4 DEF ActOn
<1> USE DEF limitVars
<1>5. CASE AskNext(c)
  <2>1. pc[c] \in Asking /\ UNCHANGED <<clock, seen>> BY <1>5 DEF AskNext
  <2>2. Goto(c, "kernel") \/ Goto(c, pc[c]) BY <1>5 DEF AskNext
  <2> QED BY <1>2, <2>1, <2>2 DEF Asking
<1>6. CASE LodgeTerms(c) BY <1>2, <1>3, <1>6 DEF LodgeTerms
<1>7. CASE LodgeByName(c) \/ LodgeByAddress(c) BY <1>2, <1>7 DEF LodgeByName, LodgeByAddress
<1>8. CASE LodgeInsert(c) BY <1>2, <1>8 DEF LodgeInsert
<1>9. CASE ReadOfferRow(c)
  <2>1. pc[c] = "offer" /\ UNCHANGED <<clock, seen>> BY <1>9 DEF ReadOfferRow
  <2>2. \/ Reply(c, 400) \/ Reply(c, 404) \/ Goto(c, "tip")
        \/ \E row \in GetOffer(OfferOf(c)) : ActOn(c, row, Now)
    BY <1>9 DEF ReadOfferRow
  <2> QED BY <1>2, <1>4, <2>1, <2>2
<1>10. CASE SettleTip(c) \/ SettleMark(c) BY <1>2, <1>10 DEF SettleTip, SettleMark
<1>11. CASE SettleReread(c) BY <1>4, <1>11 DEF SettleReread
<1>12. CASE RevokeRead(c) BY <1>2, <1>3, <1>12 DEF RevokeRead
<1>13. CASE RevokeTip(c) \/ RevokeMark(c) \/ RevokeFlip(c)
  BY <1>2, <1>13 DEF RevokeTip, RevokeMark, RevokeFlip
<1>14. CASE ClaimSold(c) BY <1>2, <1>14 DEF ClaimSold
<1>15. CASE ClaimSeller(c) BY <1>2, <1>3, <1>15 DEF ClaimSeller
<1>16. CASE ClaimKernel(c) \/ ClaimDepth(c)
  <2>1. pc[c] \in {"kernel", "depth"} /\ UNCHANGED <<clock, seen>>
    BY <1>16 DEF ClaimKernel, ClaimDepth
  <2>2. Reply(c, 409) \/ Reply(c, 410) \/ Goto(c, "depth") \/ Goto(c, "excess")
    BY <1>16 DEF ClaimKernel, ClaimDepth
  <2> QED BY <1>2, <2>1, <2>2
<1>17. CASE ClaimExcess(c) \/ ClaimBuyer(c) BY <1>2, <1>17 DEF ClaimExcess, ClaimBuyer
<1>18. CASE ClaimTxn(c) \/ ClaimRecord(c) BY <1>2, <1>18 DEF ClaimTxn, ClaimRecord
<1> QED
  BY <1>5, <1>6, <1>7, <1>8, <1>9, <1>10, <1>11, <1>12, <1>13, <1>14, <1>15, <1>16, <1>17,
     <1>18 DEF TransferStep

(* A client that goes away ends its handler.                                 *)
LEMMA DropMoves ==
    ASSUME NEW c \in Conns, Drop(c)
    PROVE  pc[c] \notin {"idle", "auth"} /\ Moves(c) /\ UNCHANGED <<clock, seen>>
BY DEF Drop, Asking, Moves, limitVars
=============================================================================
