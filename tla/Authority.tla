----------------------------- MODULE Authority ------------------------------
(* The whole service with transfers on: the registry and the marketplace     *)
(* over the same tables, guards and connections.                             *)
EXTENDS Registry, Transfer

Init ==
    /\ ServerInit
    /\ ChainInit

Handler(c) ==
    \/ (Authenticate(c) \/ RegistryStep(c)) /\ UNCHANGED chainVars
    \/ TransferStep(c)

Next ==
    \/ Arrive /\ UNCHANGED chainVars
    \/ \E c \in Conns : Handler(c)
    \/ \E c \in Conns : Drop(c)
    \/ ServerTick /\ UNCHANGED chainVars
    \/ Restart /\ UNCHANGED chainVars
    \/ Chain

(* The node client gives up on an endpoint after 20 s, so a suspended        *)
(* handler goes on as well; nothing obliges the chain to grow.               *)
Spec == Init /\ [][Next]_vars /\ \A c \in Conns : WF_vars(Handler(c))

-----------------------------------------------------------------------------
TypeOK ==
    /\ ServerTypeOK
    /\ tip \in 0 .. MaxTip
    /\ mined \in [Excesses -> 0 .. tip \cup {None}]

(* No payment buys twice and no offer is sold twice: "The UNIQUE on          *)
(* kernel_excess is the durable single-use guarantee" (db.rs).               *)
SpentOnce ==
    \A s, t \in transfers : s # t => s.excess # t.excess /\ s.offer # t.offer

(* The offers and the audit trail tell one story of a sale, whatever else    *)
(* was writing the status of the offer: what is consumed has its transfer,   *)
(* and what has a transfer is consumed, or was dead when it was sold and has *)
(* been flipped to revoked since (authority_consumed_flipped).               *)
SaleOnRecord ==
    /\ \A o \in Offers :
          offers[o].status = "consumed" => \E t \in transfers : t.offer = o
    /\ \A t \in transfers :
          \/ offers[t.offer].status = "consumed"
          \/ offers[t.offer].status = "revoked" /\ offers[t.offer].changed # None

(* A name goes from one owner to another without a release in between only   *)
(* by a transfer recorded in the same step, of that name, from the one to    *)
(* the other.                                                                *)
OwnerMovesOnlyBySale ==
    [][\A n \in Names :
        Owner(n) # NoKey /\ Owner(n)' \notin {NoKey, Owner(n)}
            => \E t \in transfers' \ transfers :
                 /\ t.offer.name = n
                 /\ t.offer.seller = Owner(n)
                 /\ t.offer.buyer = Owner(n)']_vars

(* Nobody but its owner releases a name that has not been sold ("DELETE      *)
(* (owner)"), while offers of it are claimed and the sales of other names    *)
(* commit. What a sale brings is the other half: a release that its seller   *)
(* began before takes the name from the buyer.                               *)
OwnerReleasesUnsold ==
    [][\A n \in Names :
        ~names[n].released /\ names'[n].released /\ ~Sold(n)
            => \E c \in Conns : /\ pc[c] = "update" /\ pc'[c] = "arm"
                                /\ msg[c].name = n
                                /\ msg[c].key = names[n].pubkey]_vars

(* Every sale on record was paid: the key of the address the seller signed   *)
(* has receipted the price the seller signed, in a kernel that is on the     *)
(* chain and as deep as transfer_min_conf asks, however the tables, the      *)
(* branch and the answers of the nodes changed while the claim was handled.  *)
PaidAndConfirmed ==
    \A t \in transfers :
        /\ mined[t.excess] # None
        /\ mined[t.excess] = t.height
        /\ tip - mined[t.excess] + 1 >= MinConf
        /\ \E r \in Receipts : /\ r.by = t.offer.addr.key
                               /\ r.over.amount = t.offer.price
                               /\ r.over.excess = t.excess

(* The height and the time an offer died at never change afterwards, not     *)
(* even by a second death that was decided on while the offer lived.         *)
DeathRecordKept ==
    [][\A o \in Offers :
        IsDead(offers[o]) => /\ offers'[o].end = offers[o].end
                             /\ offers'[o].changed = offers[o].changed]_vars

(* A late claim about to commit, of an offer it found dead, has a payment at *)
(* or below the height the table records for the death, and came in the      *)
(* grace window the table records.                                           *)
LateClaimInWindow ==
    \A c \in Conns :
        pc[c] \in {"excess", "buyer", "txn"} /\ IsDead(loc[c].row)
            => LET row == offers[OfferOf(c)] IN
               /\ loc[c].height # None /\ loc[c].height <= row.end
               /\ loc[c].now - row.changed <= Grace

(* No claim is judged on an offer as live when it had expired by the         *)
(* claim's clock.                                                            *)
OverdueNeverJudgedLive ==
    \A c \in Conns :
        pc[c] \in {"seller", "kernel", "depth", "excess", "buyer", "txn"}
            => ~Overdue(OfferOf(c), loc[c].row, loc[c].now)

-----------------------------------------------------------------------------
(* "At most one live offer per name" (transfer.rs), at any time the offers   *)
(* may still be taken up.                                                    *)
LiveOfferUnique ==
    \A o, p \in Offers :
        o.name = p.name /\ CountsAsLive(o, Now) /\ CountsAsLive(p, Now) => o = p

(* A consumed offer stays consumed: "Revoking a consumed offer conflicts"    *)
(* (tests/transfer.rs).                                                      *)
ConsumedIsTerminal ==
    [][\A o \in Offers :
        offers[o].status = "consumed" => offers'[o].status = "consumed"]_vars

(* "a payment must settle before the offer died" (db.rs): an offer is        *)
(* consumed only by a payment at or below the height it died at, if it died. *)
SettledBeforeDeath ==
    [][\A o \in Offers :
        IsDead(offers[o]) /\ offers'[o].status = "consumed"
            => \E t \in transfers' : /\ t.offer = o
                                     /\ InTime(offers[o], t.height)]_vars

(* A seller who is told that the offer is revoked has not sold by it, though *)
(* revoke_offer does not look at what mark_offer_dead did: so it is where    *)
(* the calls on one offer come one after the other.                          *)
RevokedMeansNotSold ==
    [][\A c \in Conns :
        pc[c] \in RevokeStages /\ pc'[c] = "idle" /\ ans'[c] = 200
            => \A t \in transfers' : t.offer # OfferOf(c)]_vars

(* Every request that enters is answered, or dropped with its client or with *)
(* the process.                                                              *)
EveryCallEnds == \A c \in Conns : pc[c] # "idle" ~> pc[c] = "idle"

-----------------------------------------------------------------------------
(* The abstract specification the tables implement. *)
Promise == INSTANCE NameAuthority WITH
    Nobody <- NoKey,
    Payments <- Excesses,
    owner <- [n \in Names |-> Owner(n)],
    spent <- {t.excess : t \in transfers}

ImplementsNameAuthority == Promise!AuthoritySpec
=============================================================================
