----------------------------- MODULE MCAuthority ----------------------------
(* Instances of Authority, one Traffic per question.                         *)
EXTENDS Authority, TLC

CONSTANTS k1, k2, k3, k4, n1, n2, c1, c2, ip1, ip2, x1, x2, x3, x4

Register(id, k, n) == [op |-> "register", id |-> id, at |-> 0, key |-> k,
                       name |-> n, pubkey |-> k, body |-> "ok"]
Release(id, k, n) == [op |-> "release", id |-> id, at |-> 0, key |-> k, name |-> n]
Lodge(id, o) == [op |-> "lodge", id |-> id, at |-> 0, key |-> o.seller, offer |-> o]
Revoke(id, k, o) == [op |-> "revoke", id |-> id, at |-> 0, key |-> k, offer |-> o]
ReadOffer(o) == [op |-> "readOffer", offer |-> o]
Claim(id, k, o, p) == [op |-> "claim", id |-> id, at |-> 0, key |-> k, offer |-> o,
                       proof |-> p, body |-> "ok"]

Grin(key) == [hrp |-> "grin", key |-> key]
Offer(n, s, b, price, key, exp) ==
    [name |-> n, seller |-> s, buyer |-> b, price |-> price, addr |-> Grin(key),
     exp |-> exp, form |-> "ok"]

(* The buyers pay from the wallet "w". The payments they made, and the       *)
(* receipts of both wallets for each.                                        *)
Receipt(key, x, amount) ==
    [by |-> key, over |-> [amount |-> amount, excess |-> x, sender |-> "w"]]
Proof(x, amount, key) ==
    [amount |-> amount, excess |-> x,
     recipient |-> Grin(key), recipientSig |-> Receipt(key, x, amount),
     sender |-> Grin("w"), senderSig |-> Receipt("w", x, amount)]
ReceiptsOf(p) == {p.recipientSig, p.senderSig}

Owned(n, k) == [NoName EXCEPT !.pubkey = k, !.released = FALSE]
MCIpOf == (c1 :> ip1) @@ (c2 :> ip2)
Unmined == [x \in Excesses |-> None]
AllMined == [x \in Excesses |-> 1]

(* k1 owns n1 and has offered it to k2 for 1 coin until second 0. k2 pays    *)
(* and claims, twice if need be, while k1 revokes.                           *)
sale == Offer(n1, k1, k2, 1, "a", 0)
paid == Proof(x1, 1, "a")
SaleReceipts == ReceiptsOf(paid)
NamesSale == (n1 :> Owned(n1, k1)) @@ (n2 :> NoName)
SaleOffers == {sale}
AllLive == [o \in Offers |-> LiveOffer]
SaleTraffic == (c1 :> {Revoke("s1", k1, sale), Claim("b1", k2, sale, paid)})
            @@ (c2 :> {Claim("b2", k2, sale, paid), ReadOffer(sale)})
SaleRequests == UNION {SaleTraffic[c] : c \in Conns}

(* Two sellers with one receiving address: n1's offer has lapsed and was not *)
(* settled yet when n2's was lodged. Both buyers show the same payment,      *)
(* while the sellers release their names and the buyers register them.       *)
lapsed == Offer(n1, k1, k3, 1, "a", -1)
standing == Offer(n2, k2, k4, 1, "a", 0)
NamesTwo == (n1 :> Owned(n1, k1)) @@ (n2 :> Owned(n2, k2))
TwoOffers == {lapsed, standing}
RaceTraffic == (c1 :> {Claim("b1", k3, lapsed, paid), Release("s1", k1, n1),
                       Release("s2", k2, n2), Register("t1", k4, n1),
                       Register("t2", k3, n2)})
            @@ (c2 :> {Claim("b2", k4, standing, paid)})
RaceRequests == UNION {RaceTraffic[c] : c \in Conns}

(* k1 lodges two offers of n1 on two connections.                            *)
first == Offer(n1, k1, k2, 1, "a", 1)
second == Offer(n1, k1, k3, 2, "b", 1)
LodgeOffers == {first, second}
NoneLodged == [o \in Offers |-> NoOffer]
BothLodge == [c \in {c1, c2} |-> {Lodge("s1", first), Lodge("s2", second)}]
LodgeRequests == BothLodge[c1]

(* Every kind of transfer call and of refusal, with statements that fail. A  *)
(* price of 5 does not fit an i64; renewed was lodged and revoked before.    *)
(* x3 paid too much, x4 paid for huge. Of x1 there are also proofs that the  *)
(* signatures do not cover: for more, by the sender alone, from and to       *)
(* addresses of another chain, and to the other address of the same key.     *)
huge == Offer(n2, k3, k2, 5, "c", 1)
wrapped == [huge EXCEPT !.price = 7]
garbled == [huge EXCEPT !.form = "unsigned"]
vague == [huge EXCEPT !.form = "badTerms"]
elsewhere == [huge EXCEPT !.addr.hrp = "bc"]
stolen == Offer(n1, k3, k2, 1, "c", 1)
renewed == Offer(n1, k1, k2, 1, "b", 1)
sameAddress == Offer(n2, k3, k2, 1, "a", 1)
unknown == Offer(n2, k3, k2, 2, "c", 1)
RefusalOffers == {lapsed, sale, huge, wrapped, garbled, vague, elsewhere, stolen, renewed,
                  sameAddress, unknown}
NamesHuge == (n1 :> Owned(n1, k1)) @@ (n2 :> Owned(n2, k3))
RefusalsAtOpen == [o \in RefusalOffers |->
    IF o \in {lapsed, sale, huge} THEN LiveOffer
    ELSE IF o = renewed THEN [status |-> "revoked", end |-> 1, changed |-> 0]
    ELSE NoOffer]

receiptless == Proof(x3, 1, "a")
RefusalReceipts == {receiptless.senderSig} \cup UNION {ReceiptsOf(p) :
    p \in {paid, Proof(x2, 1, "a"), Proof(x3, 2, "a"), Proof(x4, 5, "c")}}

LodgeRefusals ==
    { Lodge("l1", garbled), [Lodge("l2", wrapped) EXCEPT !.key = k2], Lodge("l3", vague),
      Lodge("l4", stolen), Lodge("l5", renewed), Lodge("l6", sameAddress),
      Lodge("l7", wrapped), Lodge("l8", elsewhere) }
OfferRefusals ==
    { Revoke("v1", k2, sale), Revoke("v2", k1, sale), Revoke("v3", k3, unknown),
      Revoke("v4", k1, lapsed), ReadOffer(lapsed), ReadOffer(unknown) }
ClaimRefusals ==
    { [Claim("r1", k2, sale, paid) EXCEPT !.body = "malformed"],
      Claim("r2", k1, sale, paid), Claim("r3", k2, unknown, paid),
      Claim("r4", k2, sale, receiptless), Claim("f1", k2, huge, [paid EXCEPT !.amount = 5]),
      Claim("f2", k2, sale, [paid EXCEPT !.sender.hrp = "bc"]),
      Claim("f3", k2, sale, [paid EXCEPT !.recipient.hrp = "tgrin"]),
      Claim("r5", k2, sale, Proof(x3, 2, "a")), Claim("r6", k2, sale, Proof(x4, 5, "c")),
      Claim("r7", k2, huge, Proof(x4, 5, "c")), Claim("r8", k3, lapsed, Proof(x2, 1, "a")),
      Claim("b1", k2, sale, paid), Claim("b2", k2, sale, Proof(x2, 1, "a")) }
RegistryRefusals ==
    { [Register("w1", k2, n2) EXCEPT !.body = "reserved"], Register("w2", k2, n2),
      [Release("w3", k1, n1) EXCEPT !.at = -99], Release("w4", k4, n1),
      [op |-> "resolve", name |-> n1], [op |-> "reverse", pubkey |-> k2] }
RefusalRequests == RegistryRefusals \cup LodgeRefusals \cup OfferRefusals \cup ClaimRefusals
RefusalTraffic == (c1 :> RefusalRequests) @@ (c2 :> {})
=============================================================================
