------------------------------ MODULE Transfer ------------------------------
(* The offer and claim handlers of src/src/handlers/transfer.rs, with the    *)
(* Grin chain they consult. A handler suspends while the node is asked; a    *)
(* client that goes away there drops it, and anything may have changed in    *)
(* the tables when the answer comes.                                         *)
EXTENDS Server, Node

CONSTANTS
    MinConf,        \* transfer_min_conf
    MaxTtl,         \* transfer_max_offer_ttl
    Grace           \* transfer_claim_grace

ASSUME TransferAssumption == {MinConf, MaxTtl, Grace} \subseteq Nat

vars == <<serverVars, chainVars>>

OfferOf(c) == msg[c].offer

(* An await on the node: where a handler can be dropped with its client, or  *)
(* find that an endpoint fails and go on to the next, from the start.        *)
Asking == {"tip", "revokeTip", "kernel", "depth"}

AskNext(c) ==
    /\ pc[c] \in Asking /\ FailsOver(loc[c].node)
    /\ Goto(c, IF pc[c] = "depth" THEN "kernel" ELSE pc[c])
    /\ loc' = [loc EXCEPT ![c].node = NextNode(@), ![c].height = None, ![c].asked = 0]
    /\ UNCHANGED <<storeVars, limitVars, chainVars>>

-----------------------------------------------------------------------------
(* Lodging an offer *)

(* The checks on the signed offer itself; 0 when all of them pass.           *)
TermsRefusal(m, now) ==
    IF m.offer.form = "unsigned" THEN 400
    ELSE IF m.offer.seller # m.key THEN 401
    ELSE IF m.offer.form = "badTerms" \/ ~Decodes(m.offer.addr) THEN 400
    ELSE IF m.offer.exp \notin now + 1 .. now + MaxTtl THEN 400
    ELSE 0

LodgeTerms(c) ==
    /\ pc[c] = "terms"
    /\ \/ TermsRefusal(msg[c], Now) # 0 /\ Reply(c, TermsRefusal(msg[c], Now))
       \/ /\ TermsRefusal(msg[c], Now) = 0
          /\ \E owner \in Lookup(OfferOf(c).name) :
                \/ owner # OfferOf(c).seller /\ Reply(c, 403)
                \/ /\ owner = OfferOf(c).seller
                   /\ Goto(c, "byName")
                   /\ loc' = [loc EXCEPT ![c].now = Now]
    /\ UNCHANGED <<storeVars, limitVars, chainVars>>

LodgeByName(c) ==
    /\ pc[c] = "byName"
    /\ \E other \in LiveOfferForName(OfferOf(c).name, loc[c].now) :
        \/ other /\ Reply(c, 409)
        \/ ~other /\ Goto(c, "byAddress") /\ UNCHANGED loc
    /\ UNCHANGED <<storeVars, limitVars, chainVars>>

LodgeByAddress(c) ==
    /\ pc[c] = "byAddress"
    /\ \E other \in LiveOfferBinding(OfferOf(c).addr, loc[c].now) :
        \/ other /\ Reply(c, 409)
        \/ ~other /\ Goto(c, "lodge") /\ UNCHANGED loc
    /\ UNCHANGED <<storeVars, limitVars, chainVars>>

(* insert_offer: the primary key refuses an offer that was lodged before,    *)
(* whatever became of it.                                                    *)
LodgeInsert(c) ==
    /\ pc[c] = "lodge"
    /\ \/ /\ offers[OfferOf(c)].status = "absent"
          /\ offers' = [offers EXCEPT ![OfferOf(c)] = LiveOffer]
          /\ Reply(c, 201)
       \/ offers[OfferOf(c)].status # "absent" /\ Reply(c, 409) /\ UNCHANGED offers
       \/ DbFaults /\ Reply(c, 500) /\ UNCHANGED offers
    /\ UNCHANGED <<names, transfers, limitVars, chainVars>>

-----------------------------------------------------------------------------
(* Reading an offer, and the start of a claim, which is the same *)

IsDead(row) == row.status \in {"revoked", "expired"}

(* state_changed_at.unwrap_or(now), and no height to prove a payment by.     *)
TooLate(row, now) ==
    /\ IsDead(row)
    /\ \/ row.changed # None /\ now - row.changed > Grace
       \/ row.end = None

(* Steps 3 and 4 of claim on the row as it now stands; 0 when they pass.     *)
RowRefusal(m, row, now) ==
    IF TooLate(row, now) THEN 410
    ELSE IF m.key # m.offer.buyer THEN 401
    ELSE 0

(* read_offer answers with the row; claim judges it.                         *)
ActOn(c, row, now) ==
    \/ msg[c].op = "readOffer" /\ Reply(c, 200)
    \/ /\ msg[c].op = "claim" /\ row.status = "consumed"
       /\ Goto(c, "sold") /\ loc' = [loc EXCEPT ![c].row = row, ![c].now = now]
    \/ /\ msg[c].op = "claim" /\ row.status # "consumed"
       /\ \/ RowRefusal(msg[c], row, now) # 0 /\ Reply(c, RowRefusal(msg[c], row, now))
          \/ /\ RowRefusal(msg[c], row, now) = 0
             /\ Goto(c, "seller")
             /\ loc' = [loc EXCEPT ![c] = [NoLocals EXCEPT !.row = row, !.now = now]]

(* The guard of settle_expiry. *)
Overdue(o, row, now) == row.status = "live" /\ o.exp < now

ReadOfferRow(c) ==
    /\ pc[c] = "offer"
    /\ \/ msg[c].op = "claim" /\ msg[c].body = "malformed" /\ Reply(c, 400)
       \/ /\ ~(msg[c].op = "claim" /\ msg[c].body = "malformed")
          /\ \E row \in GetOffer(OfferOf(c)) :
                \/ row.status = "absent" /\ Reply(c, 404)
                \/ /\ row.status # "absent" /\ ~Overdue(OfferOf(c), row, Now)
                   /\ ActOn(c, row, Now)
                \/ /\ Overdue(OfferOf(c), row, Now)
                   /\ Goto(c, "tip")
                   /\ loc' = [loc EXCEPT ![c].row = row, ![c].now = Now]
    /\ UNCHANGED <<storeVars, limitVars, chainVars>>

SettleTip(c) ==
    /\ pc[c] = "tip"
    /\ \E h \in TipHeights(loc[c].node) :
        loc' = [loc EXCEPT ![c].height = h, ![c].node = 1]
    /\ Goto(c, "mark")
    /\ UNCHANGED <<storeVars, limitVars, chainVars>>

(* The result of mark_offer_dead is ignored. *)
SettleMark(c) ==
    /\ pc[c] = "mark"
    /\ \/ offers' = OffersMarked(OfferOf(c), "expired", loc[c].height, loc[c].now)
       \/ DbFaults /\ UNCHANGED offers
    /\ Goto(c, "reread")
    /\ UNCHANGED <<names, transfers, loc, limitVars, chainVars>>

(* Mutant of SettleReread: the handler goes on with the row it came with. *)
MutOldRow(c) ==
    /\ pc[c] = "reread"
    /\ ActOn(c, loc[c].row, loc[c].now)
    /\ UNCHANGED <<storeVars, limitVars, chainVars>>
SettleReread(c) ==
    /\ pc[c] = "reread"
    /\ \E row \in GetOffer(OfferOf(c)) :
        ActOn(c, IF row = NoOffer THEN loc[c].row ELSE row, loc[c].now)
    /\ UNCHANGED <<storeVars, limitVars, chainVars>>
-----------------------------------------------------------------------------
(* Revoking an offer *)

(* Mutant of RevokeAnswer: any offer that is gone is as good as revoked. *)
MutGone(row) == IF row.status \in {"consumed", "revoked"} THEN 200 ELSE 0
(* The status answered without a change, 0 if there is one to make.          *)
RevokeAnswer(row) ==
    IF row.status = "consumed" THEN 409 ELSE IF row.status = "revoked" THEN 200 ELSE 0

(* Mutant of RevokeRead: whatever is not live is marked revoked. *)
MutForgets(c) ==
    /\ pc[c] = "revoke"
    /\ \E row \in GetOffer(OfferOf(c)) :
        /\ row.status \notin {"absent", "live"} /\ msg[c].key = OfferOf(c).seller
        /\ Goto(c, "flip") /\ UNCHANGED loc
    /\ UNCHANGED <<storeVars, limitVars, chainVars>>
RevokeRead(c) ==
    /\ pc[c] = "revoke"
    /\ \E row \in GetOffer(OfferOf(c)) :
        \/ row.status = "absent" /\ Reply(c, 404)
        \/ /\ row.status # "absent"
           /\ \/ msg[c].key # OfferOf(c).seller /\ Reply(c, 403)
              \/ /\ msg[c].key = OfferOf(c).seller
                 /\ \/ RevokeAnswer(row) # 0 /\ Reply(c, RevokeAnswer(row))
                    \/ row.status = "expired" /\ Goto(c, "flip") /\ UNCHANGED loc
                    \/ /\ row.status = "live"
                       /\ Goto(c, "revokeTip")
                       /\ loc' = [loc EXCEPT ![c].row = row, ![c].now = Now]
    /\ UNCHANGED <<storeVars, limitVars, chainVars>>

RevokeTip(c) ==
    /\ pc[c] = "revokeTip"
    /\ \E h \in TipHeights(loc[c].node) :
        loc' = [loc EXCEPT ![c].height = h, ![c].node = 1]
    /\ Goto(c, "revokeMark")
    /\ UNCHANGED <<storeVars, limitVars, chainVars>>

(* Answers 200 whatever mark_offer_dead found or failed on. *)
RevokeMark(c) ==
    /\ pc[c] = "revokeMark"
    /\ \/ offers' = OffersMarked(OfferOf(c), "revoked", loc[c].height, loc[c].now)
       \/ DbFaults /\ UNCHANGED offers
    /\ Reply(c, 200)
    /\ UNCHANGED <<names, transfers, limitVars, chainVars>>

(* An expired offer turns revoked with the death record it has; the          *)
(* statement does not look at the status again.                              *)
RevokeFlip(c) ==
    /\ pc[c] = "flip"
    /\ \/ offers' = OffersSet(OfferOf(c), "revoked")
       \/ DbFaults /\ UNCHANGED offers
    /\ Reply(c, 200)
    /\ UNCHANGED <<names, transfers, limitVars, chainVars>>

-----------------------------------------------------------------------------
(* Claiming a name *)

(* A consumed offer: the retry of the claim that consumed it succeeds.       *)
ClaimSold(c) ==
    /\ pc[c] = "sold"
    /\ \E same \in TransferForOffer(OfferOf(c), msg[c].proof.excess) :
        Reply(c, IF same THEN 200 ELSE 409)
    /\ UNCHANGED <<storeVars, limitVars, chainVars>>

(* Steps 6 to 8 of claim, the proof against the offer; 0 when they pass.     *)
ProofRefusal(o, p) ==
    IF ~VerifySignatures(p) THEN 400
    ELSE IF p.recipient # o.addr \/ StoredPrice(o) < 0 \/ p.amount # StoredPrice(o) THEN 409
    ELSE 0

ClaimSeller(c) ==
    /\ pc[c] = "seller"
    /\ \E owner \in Lookup(OfferOf(c).name) :
        \/ owner # OfferOf(c).seller /\ Reply(c, 409)
        \/ /\ owner = OfferOf(c).seller
           /\ \/ /\ ProofRefusal(OfferOf(c), msg[c].proof) # 0
                 /\ Reply(c, ProofRefusal(OfferOf(c), msg[c].proof))
              \/ /\ ProofRefusal(OfferOf(c), msg[c].proof) = 0
                 /\ Goto(c, "kernel") /\ UNCHANGED loc
    /\ UNCHANGED <<storeVars, limitVars, chainVars>>

(* Mutant of InTime: any height will do. *)
MutAnyHeight(row, h) == ~IsDead(row) \/ h # None
(* A payment confirmed at height h settled before the offer died. *)
InTime(row, h) == ~IsDead(row) \/ (h # None /\ h <= row.end)

(* Mutant of Confirmed: being on the chain is enough. *)
MutFound(depth) == depth # 0
Confirmed(depth) == depth # 0 /\ depth >= MinConf

ClaimKernel(c) ==
    LET x == msg[c].proof.excess
        i == loc[c].node IN
    /\ pc[c] = "kernel"
    /\ \/ NoKernel(i, x) /\ Reply(c, 409)
       \/ \E h \in KernelHeights(i, x) :
            /\ Goto(c, "depth")
            /\ loc' = [loc EXCEPT ![c].height = h, ![c].asked = tip]
    /\ UNCHANGED <<storeVars, limitVars, chainVars>>

ClaimDepth(c) ==
    /\ pc[c] = "depth"
    /\ \E depth \in Depths(loc[c].node, loc[c].height, loc[c].asked) :
        \/ ~Confirmed(depth) /\ Reply(c, 409)
        \/ Confirmed(depth) /\ ~InTime(loc[c].row, loc[c].height) /\ Reply(c, 410)
        \/ /\ Confirmed(depth) /\ InTime(loc[c].row, loc[c].height)
           /\ Goto(c, "excess")
           /\ loc' = [loc EXCEPT ![c].asked = 0, ![c].node = 1]
    /\ UNCHANGED <<storeVars, limitVars, chainVars>>

ClaimExcess(c) ==
    /\ pc[c] = "excess"
    /\ \E used \in ExcessUsed(msg[c].proof.excess) :
        \/ used /\ Reply(c, 409)
        \/ ~used /\ Goto(c, "buyer") /\ UNCHANGED loc
    /\ UNCHANGED <<storeVars, limitVars, chainVars>>

ClaimBuyer(c) ==
    /\ pc[c] = "buyer"
    /\ \E holds \in NameOf(OfferOf(c).buyer) :
        \/ holds /\ Reply(c, 409)
        \/ ~holds /\ Goto(c, "txn") /\ UNCHANGED loc
    /\ UNCHANGED <<storeVars, limitVars, chainVars>>

(* run_claim_txn: the guarded UPDATE moves one row and the unique indexes    *)
(* admit both writes, or nothing is written.                                 *)
(* Mutants of MaySell: no owner guard, no index on keys, none on excesses. *)
MutAnyOwner(o, x) == KeyFree(o.buyer, o.name) /\ TransferFree(o, x)
MutAnyBuyer(o, x) == Owner(o.name) = o.seller /\ TransferFree(o, x)
MutAnyExcess(o, x) ==
    Owner(o.name) = o.seller /\ KeyFree(o.buyer, o.name)
        /\ \A t \in transfers : t.offer # o
MaySell(o, x) ==
    /\ Owner(o.name) = o.seller
    /\ KeyFree(o.buyer, o.name)
    /\ TransferFree(o, x)

ClaimTxn(c) ==
    LET o == OfferOf(c)
        x == msg[c].proof.excess IN
    /\ pc[c] = "txn"
    /\ \/ /\ MaySell(o, x)
          /\ names' = NamesWith(o.name, o.buyer)
          /\ transfers' = transfers \cup
                {[offer |-> o, excess |-> x, height |-> loc[c].height]}
          /\ offers' = OffersSet(o, "consumed")
          /\ Goto(c, "armSeller") /\ UNCHANGED loc
       \/ ~MaySell(o, x) /\ Reply(c, 409) /\ UNCHANGED storeVars
       \/ DbFaults /\ Reply(c, 500) /\ UNCHANGED storeVars
    /\ UNCHANGED <<limitVars, chainVars>>

ClaimRecord(c) ==
    /\ pc[c] = "armSeller"
    /\ rate' = RateAfterRecord(OfferOf(c).seller)
    /\ Reply(c, 201)
    /\ UNCHANGED <<storeVars, clock, seen, chainVars>>

-----------------------------------------------------------------------------
TransferStep(c) ==
    \/ AskNext(c)
    \/ LodgeTerms(c) \/ LodgeByName(c) \/ LodgeByAddress(c) \/ LodgeInsert(c)
    \/ ReadOfferRow(c) \/ SettleTip(c) \/ SettleMark(c) \/ SettleReread(c)
    \/ RevokeRead(c) \/ RevokeTip(c) \/ RevokeMark(c) \/ RevokeFlip(c)
    \/ ClaimSold(c) \/ ClaimSeller(c) \/ ClaimKernel(c) \/ ClaimDepth(c)
    \/ ClaimExcess(c) \/ ClaimBuyer(c) \/ ClaimTxn(c) \/ ClaimRecord(c)

(* The client of a suspended handler goes away, and the handler with it.     *)
Drop(c) ==
    /\ pc[c] \in Asking
    /\ Reply(c, 0)
    /\ UNCHANGED <<storeVars, limitVars, chainVars>>

Chain == (Mine \/ Reorg) /\ UNCHANGED serverVars
=============================================================================
