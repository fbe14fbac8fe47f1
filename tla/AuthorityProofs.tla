--------------------------- MODULE AuthorityProofs ---------------------------
(* The promises of the whole service, for any number of keys, names, offers, *)
(* payments, connections and endpoints, with restarts, lost clients and      *)
(* (where not said otherwise) failing statements.                            *)
(*                                                                           *)
(* The invariant has three layers. TransferInv: types, stages, one active    *)
(* name per key. OffersInv: what a suspended handler may still count on of   *)
(* the row it read. PaymentInv: how deep the payment of a claim is known to  *)
(* be; it alone needs a hypothesis, that transfer_min_conf is more than a    *)
(* reorganisation replaces plus the blocks mined in one question to a node.  *)
EXTENDS Authority, RegistryProofs, TransferProofs

-----------------------------------------------------------------------------
(* Types, and one active name per key *)

LEMMA AuthorityInitOK == Init => TransferInv
<1> SUFFICES ASSUME Init PROVE TransferInv OBVIOUS
<1>1. ServerInv BY ServerInitOK DEF Init
<1>2. OneActiveName BY StoreAssumption DEF Init, ServerInit, StoreInit, OneActiveName
<1>3. ChainOK BY NodeAssumption DEF Init, ChainInit, ChainOK
<1> QED BY <1>1, <1>2, <1>3 DEF TransferInv

LEMMA UnchangedOK == TransferInv /\ UNCHANGED vars => TransferInv'
<1> SUFFICES ASSUME TransferInv, UNCHANGED vars PROVE TransferInv' OBVIOUS
<1>1. UNCHANGED storeVars /\ UNCHANGED limitVars /\ UNCHANGED connVars /\ UNCHANGED chainVars
  BY DEF vars, serverVars
<1>2. ConnOK' BY <1>1, PartsOK DEF ConnOK, connVars, ConnTypeOK, StagesMatch
<1> QED BY <1>1, <1>2, QuietOK

LEMMA AuthorityStepOK == TransferInv /\ [Next]_vars => TransferInv'
<1> SUFFICES ASSUME TransferInv, [Next]_vars PROVE TransferInv' OBVIOUS
<1>1. RegistryInv /\ ChainOK BY DEF TransferInv, RegistryInv
<1>2. ASSUME RegistryInv', UNCHANGED chainVars PROVE TransferInv'
  BY <1>1, <1>2 DEF TransferInv, RegistryInv, ChainOK, chainVars
<1>3. CASE (Arrive \/ ServerTick \/ Restart) /\ UNCHANGED chainVars
  BY <1>1, <1>2, <1>3, SharedStepOK
<1>4. ASSUME NEW c \in Conns, Handler(c) PROVE TransferInv'
  BY <1>1, <1>2, <1>4, SharedStepOK, RegistryStepOK, TransferStepOK DEF Handler
<1>5. ASSUME NEW c \in Conns, Drop(c) PROVE TransferInv' BY <1>5, DropOK
<1> QED BY <1>3, <1>4, <1>5, ChainStepOK, UnchangedOK DEF Next

THEOREM AuthorityInvariant == Spec => []TransferInv
BY AuthorityInitOK, AuthorityStepOK, PTL DEF Spec

(* Type correctness of the whole service.                                    *)
THEOREM AuthorityTypeCorrect == Spec => []TypeOK
<1>1. TransferInv => TypeOK BY DEF TransferInv, ServerInv, ChainOK, TypeOK
<1> QED BY <1>1, AuthorityInvariant, PTL

(* "One active name per key", with transfers on.                             *)
THEOREM AuthorityOneActiveName == Spec => []OneActiveName
<1>1. TransferInv => OneActiveName BY DEF TransferInv
<1> QED BY <1>1, AuthorityInvariant, PTL

-----------------------------------------------------------------------------
(* One event, one service *)

(* With the marketplace on as well, where a client can go away in the middle *)
(* of a handler, no two handlers are under way for one signed event that is  *)
(* younger than auth_max_age.                                                *)
THEOREM AuthoritySingleService == Spec => []NoDoubleService
<1>1. Init => SingleInv BY SingleInit DEF Init
<1>2. TransferInv /\ SingleInv /\ [Next]_vars => SingleInv'
  <2> SUFFICES ASSUME TransferInv, SingleInv, [Next]_vars PROVE SingleInv' OBVIOUS
  <2>0. ServerInv /\ ConnTypeOK BY DEF TransferInv, ServerInv, ServerTypeOK
  <2>1. CASE Arrive BY <2>0, <2>1, SingleArrives
  <2>2. ASSUME NEW c \in Conns, Authenticate(c) PROVE SingleInv'
    BY <2>0, <2>2, SingleAuthenticates
  <2>3. ASSUME NEW c \in Conns, RegistryStep(c) \/ TransferStep(c) \/ Drop(c)
        PROVE  SingleInv'
    <3>1. pc[c] \notin {"idle", "auth"} /\ Moves(c) /\ UNCHANGED <<clock, seen>>
      BY <2>3, RegistryMoves, TransferMoves, DropMoves
    <3> QED BY <2>0, <3>1, SingleMoves
  <2>4. CASE ServerTick BY <2>0, <2>4, SingleTicks
  <2>5. CASE Restart BY <2>5, SingleRestarts
  <2>6. CASE UNCHANGED serverVars
    BY <2>6, SingleFrame DEF serverVars, limitVars, connVars, Underway
  <2>7. Chain \/ UNCHANGED vars => UNCHANGED serverVars BY DEF Chain, vars
  <2> QED BY <2>1, <2>2, <2>3, <2>4, <2>5, <2>6, <2>7 DEF Next, Handler
<1>3. SingleInv => NoDoubleService BY DEF SingleInv
<1> QED BY <1>1, <1>2, <1>3, AuthorityInvariant, PTL DEF Spec

-----------------------------------------------------------------------------
(* What any step does to the tables *)

(* The step sells o for the payment x, in a claim of c.                      *)
SaleBy(c) ==
    LET o == OfferOf(c)
        x == msg[c].proof.excess IN
    /\ pc[c] = "txn" /\ MaySell(o, x)
    /\ names' = NamesWith(o.name, o.buyer)
    /\ transfers' = transfers \cup {[offer |-> o, excess |-> x, height |-> loc[c].height]}
    /\ offers' = OffersSet(o, "consumed")
    /\ Goto(c, "armSeller")

(* Of what the marketplace does only a sale touches names or transfers.      *)
LEMMA OnlySales ==
    ASSUME NEW c \in Conns, TransferStep(c) \/ Drop(c)
    PROVE  UNCHANGED <<names, transfers>> \/ SaleBy(c)
<1>1. CASE ClaimTxn(c) BY <1>1 DEF ClaimTxn, SaleBy, storeVars
<1> QED
  BY <1>1 DEF TransferStep, Drop, AskNext, LodgeTerms, LodgeByName, LodgeByAddress,
     LodgeInsert, ReadOfferRow, SettleTip, SettleMark, SettleReread, RevokeRead,
     RevokeTip, RevokeMark, RevokeFlip, ClaimSold, ClaimSeller, ClaimKernel, ClaimDepth,
     ClaimExcess, ClaimBuyer, ClaimRecord, storeVars

(* Only a sale adds to the transfers; only an insert, a release and a sale   *)
(* touch the names.                                                          *)
LEMMA NamesMove ==
    ASSUME TransferInv, [Next]_vars
    PROVE  \/ UNCHANGED <<names, transfers>>
           \/ \E n \in Names, k \in Keys :
                 MayInsert(n, k) /\ names' = NamesWith(n, k) /\ UNCHANGED <<offers, transfers>>
           \/ \E n \in Names : names' = NamesReleased(n) /\ UNCHANGED <<offers, transfers>>
           \/ \E c \in Conns : SaleBy(c)
<1>1. ConnOK BY PartsOK
<1>2. CASE Arrive \/ ServerTick \/ Restart \/ Chain \/ UNCHANGED vars
  BY <1>2 DEF Arrive, Admit, RateLimited, ServerTick, Restart, Chain, vars, serverVars,
     storeVars
<1>3. ASSUME NEW c \in Conns, Drop(c) \/ Authenticate(c)
      PROVE  UNCHANGED <<names, transfers>>
  BY <1>3 DEF Drop, Authenticate, storeVars
<1>4. ASSUME NEW c \in Conns, RegistryStep(c)
      PROVE  \/ UNCHANGED <<names, transfers>>
             \/ \E n \in Names, k \in Keys :
                   MayInsert(n, k) /\ names' = NamesWith(n, k) /\ UNCHANGED <<offers, transfers>>
             \/ \E n \in Names : names' = NamesReleased(n) /\ UNCHANGED <<offers, transfers>>
  <2>1. CASE RegisterInsert(c)
    <3>1. msg[c] \in Requests /\ msg[c].op = "register"
      BY <1>1, <2>1 DEF RegisterInsert, ConnOK, ConnTypeOK, StagesMatch, Fits, RegisterStages
    <3>2. msg[c].name \in Names /\ msg[c].pubkey \in Keys
      BY <3>1, RequestOK DEF RegistryWrites
    <3> QED BY <2>1, <3>2 DEF RegisterInsert
  <2>2. CASE ReleaseUpdate(c)
    <3>1. msg[c] \in Requests /\ msg[c].op = "release"
      BY <1>1, <2>2 DEF ReleaseUpdate, ConnOK, ConnTypeOK, StagesMatch, Fits, ReleaseStages
    <3>2. msg[c].name \in Names BY <3>1, RequestOK DEF RegistryWrites
    <3> QED BY <2>2, <3>2 DEF ReleaseUpdate
  <2> QED
    BY <1>4, <2>1, <2>2 DEF RegistryStep, RegisterCooldown, RegisterLookup, RegisterNameOf,
       ReleaseOwner, ReleaseRecord, Resolve, ReverseResolve, storeVars
<1>5. ASSUME NEW c \in Conns, TransferStep(c)
      PROVE  UNCHANGED <<names, transfers>> \/ SaleBy(c)
  BY <1>5, OnlySales
<1> QED BY <1>2, <1>3, <1>4, <1>5 DEF Next, Handler

-----------------------------------------------------------------------------
(* The names and the payments *)

(* No payment buys twice and no offer is sold twice: the primary key and the *)
(* UNIQUE column of transfers hold whatever the claims checked before.       *)
THEOREM AuthoritySpentOnce == Spec => []SpentOnce
<1>1. Init => SpentOnce BY DEF Init, ServerInit, StoreInit, SpentOnce
<1>2. TransferInv /\ SpentOnce /\ [Next]_vars => SpentOnce'
  <2> SUFFICES ASSUME TransferInv, SpentOnce, [Next]_vars PROVE SpentOnce' OBVIOUS
  <2>1. CASE UNCHANGED transfers BY <2>1 DEF SpentOnce
  <2>2. ASSUME NEW c \in Conns, SaleBy(c) PROVE SpentOnce'
    BY <2>2 DEF SaleBy, SpentOnce, MaySell, TransferFree
  <2> QED BY <2>1, <2>2, NamesMove
<1> QED BY <1>1, <1>2, AuthorityInvariant, PTL DEF Spec

(* What the owner of a name is after each of the three writes.               *)
LEMMA OwnerAfter ==
    ASSUME StoreTypeOK, NEW n \in Names, NEW m \in Names
    PROVE  /\ \A k \in Keys : names' = NamesWith(n, k)
                 => Owner(m)' = IF m = n THEN k ELSE Owner(m)
           /\ names' = NamesReleased(n) => Owner(m)' = IF m = n THEN NoKey ELSE Owner(m)
BY DEF StoreTypeOK, Owner, NamesWith, NamesReleased, NameRow

(* A name moves from one owner to another only by a sale that is recorded in *)
(* the same step, whatever the handlers had read before it.                  *)
THEOREM AuthorityMovesBySale == Spec => OwnerMovesOnlyBySale
<1> DEFINE BySale == \A n \in Names :
        Owner(n) # NoKey /\ Owner(n)' \notin {NoKey, Owner(n)}
            => \E t \in transfers' \ transfers :
                 /\ t.offer.name = n
                 /\ t.offer.seller = Owner(n)
                 /\ t.offer.buyer = Owner(n)'
<1>1. TransferInv /\ [Next]_vars => BySale
  <2> SUFFICES ASSUME TransferInv, [Next]_vars, NEW n \in Names,
                      Owner(n) # NoKey, Owner(n)' \notin {NoKey, Owner(n)}
               PROVE  \E t \in transfers' \ transfers :
                         /\ t.offer.name = n
                         /\ t.offer.seller = Owner(n)
                         /\ t.offer.buyer = Owner(n)'
    OBVIOUS
  <2>1. StoreTypeOK /\ ConnOK BY PartsOK
  <2>2. ~UNCHANGED names BY DEF Owner
  <2>3. ~\E m \in Names : names' = NamesReleased(m) BY <2>1, OwnerAfter
  <2>4. ~\E m \in Names, k \in Keys : MayInsert(m, k) /\ names' = NamesWith(m, k)
    <3> SUFFICES ASSUME NEW m \in Names, NEW k \in Keys, MayInsert(m, k),
                        names' = NamesWith(m, k)
                 PROVE  FALSE
      OBVIOUS
    <3>1. Owner(m) = NoKey BY DEF MayInsert, Owner
    <3> QED BY <2>1, <3>1, OwnerAfter
  <2>5. PICK c \in Conns : SaleBy(c) BY <2>2, <2>3, <2>4, NamesMove
  <2> DEFINE t == [offer |-> OfferOf(c), excess |-> msg[c].proof.excess,
                   height |-> loc[c].height]
  <2>6. OfferOf(c).name \in Names /\ OfferOf(c).buyer \in Keys
    BY <2>1, <2>5, AtStage DEF SaleBy, ClaimStages
  <2>7. t \in transfers' \ transfers
    BY <2>5 DEF SaleBy, MaySell, TransferFree
  <2>8. OfferOf(c).name = n /\ Owner(n)' = OfferOf(c).buyer
    BY <2>1, <2>5, <2>6, OwnerAfter DEF SaleBy
  <2>9. OfferOf(c).seller = Owner(n) BY <2>5, <2>8 DEF SaleBy, MaySell
  <2> QED BY <2>7, <2>8, <2>9
<1> QED BY <1>1, AuthorityInvariant, PTL DEF Spec, OwnerMovesOnlyBySale

-----------------------------------------------------------------------------
(* The tables implement the abstract authority *)

owners == [n \in Names |-> Owner(n)]
payments == {t.excess : t \in transfers}

LEMMA OwnersUnique ==
    ASSUME StoreTypeOK, OneActiveName
    PROVE  /\ owners \in [Names -> Keys \cup {NoKey}]
           /\ \A m, n \in Names : owners[m] = owners[n] /\ owners[m] # NoKey => m = n
BY NoKeyAssumption DEF StoreTypeOK, OneActiveName, UniqueOwners, owners, Owner, NameRow

(* Each write of the tables is the step of the authority it is named for,    *)
(* and a release of a name that was released already is none.                *)
LEMMA GrantSimulates ==
    ASSUME StoreTypeOK, NEW n \in Names, NEW k \in Keys, MayInsert(n, k),
           names' = NamesWith(n, k), UNCHANGED transfers
    PROVE  Promise!Grant(n, k)
<1>1. owners' = [owners EXCEPT ![n] = k]
  BY OwnerAfter DEF owners
<1>2. owners[n] = NoKey /\ \A m \in Names : owners[m] # k
  BY NoKeyAssumption DEF MayInsert, KeyFree, Owner, owners
<1>3. payments' = payments BY DEF payments
<1> QED BY <1>1, <1>2, <1>3 DEF Promise!Grant, Promise!HasNone, owners, payments

LEMMA ReleaseSimulates ==
    ASSUME StoreTypeOK, NEW n \in Names, names' = NamesReleased(n), UNCHANGED transfers
    PROVE  Promise!Release(n) \/ (UNCHANGED owners /\ UNCHANGED payments)
<1>1. owners' = [owners EXCEPT ![n] = NoKey] BY OwnerAfter DEF owners
<1>2. payments' = payments BY DEF payments
<1>3. CASE owners[n] = NoKey BY <1>1, <1>2, <1>3 DEF owners
<1>4. CASE owners[n] # NoKey
  BY <1>1, <1>2, <1>4 DEF Promise!Release, owners, payments
<1> QED BY <1>3, <1>4

LEMMA SaleSimulates ==
    ASSUME TransferInv, NEW c \in Conns, SaleBy(c),
           NEW n \in Names, n = OfferOf(c).name,
           NEW k \in Keys, k = OfferOf(c).buyer,
           NEW x \in Excesses, x = msg[c].proof.excess
    PROVE  Promise!Sell(n, k, x)
<1>1. StoreTypeOK /\ ConnOK BY PartsOK
<1>2. OfferOf(c).seller \in Keys BY <1>1, AtStage DEF SaleBy, ClaimStages
<1>3. owners' = [owners EXCEPT ![n] = k]
  BY <1>1, OwnerAfter DEF owners, SaleBy
<1>4. owners[n] # NoKey BY <1>2, NoKeyAssumption DEF SaleBy, MaySell, owners
<1>5. \A m \in Names \ {n} : owners[m] # k
  BY DEF SaleBy, MaySell, KeyFree, owners
<1>6. x \notin payments BY DEF SaleBy, MaySell, TransferFree, payments
<1>7. payments' = payments \cup {x}
  <2> DEFINE t == [offer |-> OfferOf(c), excess |-> x, height |-> loc[c].height]
  <2>1. transfers' = transfers \cup {t} /\ t.excess = x BY DEF SaleBy
  <2> HIDE DEF t
  <2> QED BY <2>1 DEF payments
<1> QED BY <1>3, <1>4, <1>5, <1>6, <1>7 DEF Promise!Sell, owners, payments

(* The service implements NameAuthority, whose state is who owns which name  *)
(* and which payments are spent: every step of a handler grants, releases or *)
(* sells one name, or shows nothing.                                         *)
THEOREM AuthorityImplements == Spec => ImplementsNameAuthority
<1>1. Init => Promise!AuthorityInit
  <2> SUFFICES ASSUME Init PROVE Promise!AuthorityInit OBVIOUS
  <2>1. StoreTypeOK /\ OneActiveName BY AuthorityInitOK, PartsOK
  <2>2. payments = {} BY DEF Init, ServerInit, StoreInit, payments
  <2> QED BY <2>1, <2>2, OwnersUnique DEF Promise!AuthorityInit, owners, payments
<1>2. TransferInv /\ [Next]_vars
        => [Promise!AuthorityNext]_<<[n \in Names |-> Owner(n)], {t.excess : t \in transfers}>>
  <2> SUFFICES ASSUME TransferInv, [Next]_vars
               PROVE  Promise!AuthorityNext \/ (UNCHANGED owners /\ UNCHANGED payments)
    BY DEF owners, payments
  <2>1. StoreTypeOK /\ ConnOK BY PartsOK
  <2>2. CASE UNCHANGED <<names, transfers>> BY <2>2 DEF owners, Owner, payments
  <2>3. ASSUME NEW n \in Names, NEW k \in Keys, MayInsert(n, k),
               names' = NamesWith(n, k), UNCHANGED transfers
        PROVE  Promise!AuthorityNext
    BY <2>1, <2>3, GrantSimulates DEF Promise!AuthorityNext
  <2>4. ASSUME NEW n \in Names, names' = NamesReleased(n), UNCHANGED transfers
        PROVE  Promise!AuthorityNext \/ (UNCHANGED owners /\ UNCHANGED payments)
    BY <2>1, <2>4, ReleaseSimulates DEF Promise!AuthorityNext
  <2>5. ASSUME NEW c \in Conns, SaleBy(c) PROVE Promise!AuthorityNext
    <3>1. /\ OfferOf(c).name \in Names /\ OfferOf(c).buyer \in Keys
          /\ msg[c].proof.excess \in Excesses
      BY <2>1, <2>5, AtStage DEF SaleBy, ClaimStages
    <3>2. PICK n \in Names, k \in Keys, x \in Excesses :
            /\ n = OfferOf(c).name /\ k = OfferOf(c).buyer
            /\ x = msg[c].proof.excess
      BY <3>1
    <3>3. Promise!Sell(n, k, x) BY <2>5, <3>2, SaleSimulates
    <3> QED BY <3>3 DEF Promise!AuthorityNext
  <2> QED BY <2>2, <2>3, <2>4, <2>5, NamesMove
<1> QED
  BY <1>1, <1>2, AuthorityInvariant, PTL
  DEF Spec, ImplementsNameAuthority, Promise!AuthoritySpec

-----------------------------------------------------------------------------
(* What a suspended handler may count on *)

JudgedStages == {"seller", "kernel", "depth", "excess", "buyer", "txn"}
SettledStages == {"excess", "buyer", "txn"}

(* An offer that was lodged, and one whose life is over.                     *)
Lodged(o) == offers[o].status # "absent"
Over(o) == offers[o].status \notin {"absent", "live"}

(* What a claim may count on of the row it judged, whatever became of the    *)
(* offer since: a death it saw is the one on record, and the claim came      *)
(* within the grace after it.                                                *)
JudgedOK(o, row, now) ==
    /\ Lodged(o)
    /\ DbFaults \/ ~Overdue(o, row, now)
    /\ IsDead(row) => /\ Over(o)
                      /\ offers[o].end = row.end /\ offers[o].changed = row.changed
                      /\ row.end # None /\ row.changed # None
                      /\ now - row.changed <= Grace

HandlerOK(c) ==
    /\ pc[c] \in SettleStages =>
          Lodged(OfferOf(c)) /\ Overdue(OfferOf(c), loc[c].row, loc[c].now)
    /\ pc[c] = "reread" /\ ~DbFaults => Over(OfferOf(c))
    /\ pc[c] = "flip" => Over(OfferOf(c)) /\ offers[OfferOf(c)].changed # None
    /\ pc[c] \in JudgedStages => JudgedOK(OfferOf(c), loc[c].row, loc[c].now)
    /\ pc[c] \in SettledStages => InTime(loc[c].row, loc[c].height)

DeathsDated == \A o \in Offers : IsDead(offers[o]) => offers[o].changed # None

OffersInv == DeathsDated /\ \A c \in Conns : HandlerOK(c)

ActiveStages == SettleStages \cup JudgedStages \cup {"flip"}

(* What a step does to one offer: nothing; it is lodged; it dies, with a     *)
(* time; or its status changes after it was lodged, without its death record *)
(* changing.                                                                 *)
OfferMoves(o) ==
    \/ offers'[o] = offers[o]
    \/ ~Lodged(o) /\ offers'[o].status = "live"
    \/ /\ offers[o].status = "live" /\ IsDead(offers'[o])
       /\ offers'[o].changed # None
    \/ /\ \/ Lodged(o) /\ offers'[o].status = "consumed"
          \/ Over(o) /\ offers'[o].status = "revoked" /\ offers[o].changed # None
       /\ offers'[o].end = offers[o].end /\ offers'[o].changed = offers[o].changed

LEMMA MarkMoves ==
    ASSUME StoreTypeOK, NEW o \in Offers, NEW status \in {"expired", "revoked"},
           NEW end, NEW at \in Nat, offers' = OffersMarked(o, status, end, at)
    PROVE  \A p \in Offers : OfferMoves(p)
<1> SUFFICES ASSUME NEW p \in Offers PROVE OfferMoves(p) OBVIOUS
<1>1. offers \in [Offers -> OfferRow] BY DEF StoreTypeOK
<1>2. CASE p # o \/ offers[o].status # "live"
  BY <1>1, <1>2 DEF OffersMarked, OfferMoves
<1>3. CASE p = o /\ offers[o].status = "live"
  <2>1. offers'[p] = [status |-> status, end |-> end, changed |-> at]
    BY <1>1, <1>3 DEF OffersMarked
  <2>2. IsDead(offers'[p]) BY <2>1 DEF IsDead
  <2>3. offers'[p].changed # None BY <2>1 DEF None
  <2> QED BY <1>3, <2>2, <2>3 DEF OfferMoves
<1> QED BY <1>2, <1>3

LEMMA StatusMoves ==
    ASSUME StoreTypeOK, NEW o \in Offers, NEW status,
           \/ Lodged(o) /\ status = "consumed"
           \/ Over(o) /\ status = "revoked" /\ offers[o].changed # None,
           offers' = OffersSet(o, status)
    PROVE  \A p \in Offers : OfferMoves(p)
<1> SUFFICES ASSUME NEW p \in Offers PROVE OfferMoves(p) OBVIOUS
<1>1. offers \in [Offers -> OfferRow] BY DEF StoreTypeOK
<1>2. CASE p # o BY <1>1, <1>2 DEF OffersSet, OfferMoves
<1>3. CASE p = o
  <2>1. offers'[p] = [offers[p] EXCEPT !.status = status]
    BY <1>1, <1>3 DEF OffersSet
  <2>2. offers[p] \in OfferRow BY <1>1
  <2>3. /\ offers'[p].status = status /\ offers'[p].end = offers[p].end
        /\ offers'[p].changed = offers[p].changed
    BY <2>1, <2>2 DEF OfferRow
  <2> QED BY <1>3, <2>3 DEF OfferMoves
<1> QED BY <1>2, <1>3

(* Which steps write the offers at all.                                      *)
LEMMA OffersWritten ==
    ASSUME [Next]_vars
    PROVE  \/ UNCHANGED offers
           \/ \E c \in Conns : \/ LodgeInsert(c) \/ SettleMark(c) \/ RevokeMark(c)
                               \/ RevokeFlip(c) \/ SaleBy(c)
<1>1. CASE Arrive \/ ServerTick \/ Restart \/ Chain \/ UNCHANGED vars
  BY <1>1 DEF Arrive, Admit, RateLimited, ServerTick, Restart, Chain, vars, serverVars,
     storeVars
<1>2. ASSUME NEW c \in Conns, Drop(c) \/ Authenticate(c) \/ RegistryStep(c)
      PROVE  UNCHANGED offers
  BY <1>2 DEF Drop, Authenticate, RegistryStep, RegisterCooldown, RegisterLookup,
     RegisterNameOf, RegisterInsert, ReleaseOwner, ReleaseUpdate, ReleaseRecord,
     Resolve, ReverseResolve, storeVars
<1>3. ASSUME NEW c \in Conns, TransferStep(c)
      PROVE  \/ UNCHANGED offers
             \/ LodgeInsert(c) \/ SettleMark(c) \/ RevokeMark(c)
             \/ RevokeFlip(c) \/ SaleBy(c)
  <2>1. CASE ClaimTxn(c) BY <2>1 DEF ClaimTxn, SaleBy, storeVars
  <2> QED
    BY <1>3, <2>1 DEF TransferStep, AskNext, LodgeTerms, LodgeByName, LodgeByAddress,
       ReadOfferRow, SettleTip, SettleReread, RevokeRead, RevokeTip, ClaimSold,
       ClaimSeller, ClaimKernel, ClaimDepth, ClaimExcess, ClaimBuyer, ClaimRecord,
       storeVars
<1> QED BY <1>1, <1>2, <1>3 DEF Next, Handler

(* Every step moves every offer in one of these ways.                        *)
LEMMA OffersMove ==
    ASSUME TransferInv, OffersInv, [Next]_vars
    PROVE  \A o \in Offers : OfferMoves(o)
<1>1. ConnOK /\ StoreTypeOK /\ loc \in [Conns -> Locals] BY PartsOK
<1>2. CASE UNCHANGED offers BY <1>2 DEF OfferMoves
<1>3. ASSUME NEW c \in Conns, LodgeInsert(c) PROVE \A o \in Offers : OfferMoves(o)
  <2>1. LiveOffer.status = "live" BY DEF LiveOffer, NoOffer
  <2>2. \/ UNCHANGED offers
        \/ /\ offers[OfferOf(c)].status = "absent"
           /\ offers' = [offers EXCEPT ![OfferOf(c)] = LiveOffer]
    BY <1>3 DEF LodgeInsert
  <2> QED BY <1>1, <2>1, <2>2 DEF OfferMoves, Lodged, StoreTypeOK
<1>4. ASSUME NEW c \in Conns, SettleMark(c) \/ RevokeMark(c)
      PROVE  \A o \in Offers : OfferMoves(o)
  <2>1. OfferOf(c) \in Offers
    BY <1>1, <1>4, AtStage DEF SettleMark, RevokeMark, SettleStages, RevokeStages
  <2>2. loc[c].now \in Nat BY <1>1 DEF Locals
  <2>3. \/ offers' = OffersMarked(OfferOf(c), "expired", loc[c].height, loc[c].now)
        \/ offers' = OffersMarked(OfferOf(c), "revoked", loc[c].height, loc[c].now)
        \/ UNCHANGED offers
    BY <1>4 DEF SettleMark, RevokeMark
  <2> QED BY <1>1, <1>2, <2>1, <2>2, <2>3, MarkMoves
<1>5. ASSUME NEW c \in Conns, RevokeFlip(c) PROVE \A o \in Offers : OfferMoves(o)
  <2>1. OfferOf(c) \in Offers BY <1>1, <1>5, AtStage DEF RevokeFlip, RevokeStages
  <2>2. Over(OfferOf(c)) /\ offers[OfferOf(c)].changed # None
    BY <1>5 DEF RevokeFlip, OffersInv, HandlerOK
  <2>3. offers' = OffersSet(OfferOf(c), "revoked") \/ UNCHANGED offers
    BY <1>5 DEF RevokeFlip
  <2> QED BY <1>1, <1>2, <2>1, <2>2, <2>3, StatusMoves
<1>6. ASSUME NEW c \in Conns, SaleBy(c) PROVE \A o \in Offers : OfferMoves(o)
  <2>1. OfferOf(c) \in Offers BY <1>1, <1>6, AtStage DEF SaleBy, ClaimStages
  <2>2. Lodged(OfferOf(c))
    BY <1>6 DEF SaleBy, OffersInv, HandlerOK, JudgedOK, JudgedStages
  <2>3. offers' = OffersSet(OfferOf(c), "consumed") BY <1>6 DEF SaleBy
  <2> QED BY <1>1, <2>1, <2>2, <2>3, StatusMoves
<1> QED BY <1>2, <1>3, <1>4, <1>5, <1>6, OffersWritten

(* What a handler counts on survives every such move, while it stays where   *)
(* it is.                                                                    *)
LEMMA HandlerStays ==
    ASSUME NEW c \in Conns, HandlerOK(c), pc[c] \in ActiveStages => OfferMoves(OfferOf(c)),
           pc'[c] = pc[c], msg'[c] = msg[c], loc'[c] = loc[c]
    PROVE  HandlerOK(c)'
<1>1. CASE pc[c] \notin ActiveStages
  BY <1>1 DEF HandlerOK, ActiveStages, JudgedStages, SettledStages, SettleStages
<1>2. CASE pc[c] \in ActiveStages
  <2> DEFINE o == OfferOf(c)
  <2>1. OfferOf(c)' = OfferOf(c) BY DEF OfferOf
  <2>2. OfferMoves(o) BY <1>2
  <2>3. Lodged(o) => Lodged(o)' BY <2>1, <2>2 DEF OfferMoves, Lodged, IsDead
  <2>4. Over(o) => /\ Over(o)' /\ offers'[o].changed = offers[o].changed
                   /\ offers'[o].end = offers[o].end
    BY <2>1, <2>2 DEF OfferMoves, Lodged, Over, IsDead
  <2>5. JudgedOK(o, loc[c].row, loc[c].now) => JudgedOK(o, loc[c].row, loc[c].now)'
    BY <2>1, <2>3, <2>4 DEF JudgedOK, Overdue, Over, IsDead
  <2> QED BY <2>1, <2>3, <2>4, <2>5 DEF HandlerOK, Overdue, InTime
<1> QED BY <1>1, <1>2

(* A handler at any other stage counts on nothing.                           *)
LEMMA HandlerElsewhere ==
    ASSUME NEW c \in Conns, pc'[c] \notin ActiveStages
    PROVE  HandlerOK(c)'
BY DEF HandlerOK, ActiveStages, JudgedStages, SettledStages, SettleStages

(* A claim that judges the row now on record may count on it.                *)
LEMMA JudgeKeeps ==
    ASSUME TransferInv, DeathsDated, NEW c \in Conns, OfferOf(c) \in Offers,
           NEW row \in OfferRow, NEW now \in Nat, ActOn(c, row, now), UNCHANGED offers,
           Lodged(OfferOf(c)), DbFaults \/ ~Overdue(OfferOf(c), row, now),
           IsDead(row) => row = offers[OfferOf(c)]
    PROVE  HandlerOK(c)'
<1>1. ConnTypeOK /\ loc \in [Conns -> Locals] BY PartsOK DEF ConnOK
<1>2. \/ pc'[c] \in {"idle", "sold"}
      \/ /\ RowRefusal(msg[c], row, now) = 0
         /\ Goto(c, "seller")
         /\ loc' = [loc EXCEPT ![c] = [NoLocals EXCEPT !.row = row, !.now = now]]
  BY <1>1 DEF ActOn, Reply, Goto, ConnTypeOK
<1>3. CASE pc'[c] \in {"idle", "sold"}
  BY <1>3, HandlerElsewhere DEF ActiveStages, JudgedStages, SettleStages
<1>4. CASE /\ RowRefusal(msg[c], row, now) = 0
           /\ Goto(c, "seller")
           /\ loc' = [loc EXCEPT ![c] = [NoLocals EXCEPT !.row = row, !.now = now]]
  <2>1. pc'[c] = "seller" /\ msg'[c] = msg[c] BY <1>1, <1>4 DEF Goto, ConnTypeOK
  <2>2. loc'[c].row = row /\ loc'[c].now = now BY <1>1, <1>4 DEF NoLocals
  <2>3. JudgedOK(OfferOf(c), row, now)
    <3>1. ~TooLate(row, now) BY <1>4 DEF RowRefusal
    <3>2. Grace \in Nat BY TransferAssumption
    <3> SUFFICES ASSUME IsDead(row)
                 PROVE  /\ Over(OfferOf(c)) /\ row.end # None /\ row.changed # None
                        /\ now - row.changed <= Grace
      BY DEF JudgedOK
    <3>3. Over(OfferOf(c)) BY DEF IsDead, Over
    <3>4. row.changed # None BY DEF DeathsDated
    <3>5. row.changed \in Nat BY <3>4 DEF OfferRow
    <3> QED BY <3>1, <3>2, <3>3, <3>4, <3>5 DEF TooLate
  <2>4. OfferOf(c)' = OfferOf(c) BY <2>1 DEF OfferOf
  <2> QED
    BY <2>1, <2>2, <2>3, <2>4 DEF HandlerOK, JudgedOK, SettleStages, SettledStages, Lodged,
       Over, Overdue
<1> QED BY <1>2, <1>3, <1>4

(* A row that is not a missing one is the row on record.                     *)
LEMMA RowOnRecord ==
    ASSUME NEW o \in Offers, NEW row \in GetOffer(o), row.status # "absent"
    PROVE  row = offers[o] /\ Lodged(o)
BY DEF GetOffer, OrFault, NoOffer, Lodged

(* The steps of a transfer handler that touch its promises, one by one.      *)
LEMMA ReadKeeps ==
    ASSUME TransferInv, OffersInv, NEW c \in Conns, ReadOfferRow(c)
    PROVE  HandlerOK(c)'
<1>1. ConnOK /\ ConnTypeOK /\ loc \in [Conns -> Locals] /\ StoreTypeOK /\ Now \in Nat
  BY PartsOK DEF ConnOK
<1>2. OfferOf(c) \in Offers /\ UNCHANGED offers
  BY <1>1, AtStage DEF ReadOfferRow, ClaimStages, storeVars
<1>3. CASE Reply(c, 400) \/ Reply(c, 404)
  BY <1>1, <1>3, HandlerElsewhere DEF Reply, ConnTypeOK, ActiveStages, JudgedStages,
     SettleStages
<1>4. ASSUME NEW row \in GetOffer(OfferOf(c)), row.status # "absent",
             ~Overdue(OfferOf(c), row, Now), ActOn(c, row, Now)
      PROVE  HandlerOK(c)'
  <2>1. row = offers[OfferOf(c)] /\ Lodged(OfferOf(c)) BY <1>2, <1>4, RowOnRecord
  <2>2. row \in OfferRow BY <1>1, <1>2, RowOK
  <2> QED BY <1>1, <1>2, <1>4, <2>1, <2>2, JudgeKeeps DEF OffersInv
<1>5. ASSUME NEW row \in GetOffer(OfferOf(c)), Overdue(OfferOf(c), row, Now),
             Goto(c, "tip"), loc' = [loc EXCEPT ![c].row = row, ![c].now = Now]
      PROVE  HandlerOK(c)'
  <2>1. Lodged(OfferOf(c)) BY <1>2, <1>5, RowOnRecord DEF Overdue
  <2>2. pc'[c] = "tip" /\ msg'[c] = msg[c] BY <1>1, <1>5 DEF Goto, ConnTypeOK
  <2>3. loc'[c].row = row /\ loc'[c].now = Now BY <1>1, <1>5 DEF Locals
  <2>4. OfferOf(c)' = OfferOf(c) BY <2>2 DEF OfferOf
  <2> QED
    BY <1>2, <1>5, <2>1, <2>2, <2>3, <2>4 DEF HandlerOK, SettledStages, JudgedStages, Lodged,
       Overdue
<1> QED BY <1>3, <1>4, <1>5 DEF ReadOfferRow

LEMMA SettleKeeps ==
    ASSUME TransferInv, OffersInv, NEW c \in Conns, SettleTip(c) \/ SettleMark(c)
    PROVE  HandlerOK(c)'
<1>1. ConnOK /\ ConnTypeOK /\ loc \in [Conns -> Locals] /\ StoreTypeOK
  BY PartsOK DEF ConnOK
<1>2. OfferOf(c) \in Offers
  BY <1>1, AtStage DEF SettleTip, SettleMark, SettleStages
<1>3. Lodged(OfferOf(c)) /\ Overdue(OfferOf(c), loc[c].row, loc[c].now)
  BY DEF SettleTip, SettleMark, OffersInv, HandlerOK, SettleStages
<1>4. msg'[c] = msg[c] /\ OfferOf(c)' = OfferOf(c)
  BY <1>1 DEF SettleTip, SettleMark, Goto, OfferOf
<1>5. CASE SettleTip(c)
  <2>1. pc'[c] = "mark" /\ UNCHANGED offers
    BY <1>1, <1>5 DEF SettleTip, Goto, ConnTypeOK, storeVars
  <2>2. loc'[c].row = loc[c].row /\ loc'[c].now = loc[c].now
    BY <1>1, <1>5 DEF SettleTip, Locals
  <2> QED
    BY <1>3, <1>4, <2>1, <2>2 DEF HandlerOK, SettledStages, JudgedStages, Lodged, Overdue
<1>6. CASE SettleMark(c)
  <2>1. pc'[c] = "reread" /\ loc'[c] = loc[c]
    BY <1>1, <1>6 DEF SettleMark, Goto, ConnTypeOK
  <2>2. OfferMoves(OfferOf(c)) BY <1>1, <1>2, <1>6, MarkMoves DEF SettleMark, Locals, OfferMoves
  <2>3. Lodged(OfferOf(c))' BY <1>3, <1>4, <2>2 DEF OfferMoves, Lodged, IsDead
  <2>4. ~DbFaults => Over(OfferOf(c))'
    BY <1>1, <1>2, <1>3, <1>4, <1>6 DEF SettleMark, OffersMarked, Lodged, Over, StoreTypeOK
  <2> QED
    BY <1>3, <1>4, <2>1, <2>3, <2>4 DEF HandlerOK, SettledStages, JudgedStages, Overdue
<1> QED BY <1>5, <1>6

LEMMA RereadKeeps ==
    ASSUME TransferInv, OffersInv, NEW c \in Conns, SettleReread(c)
    PROVE  HandlerOK(c)'
<1> DEFINE o == OfferOf(c)
<1>1. ConnOK /\ loc \in [Conns -> Locals] /\ StoreTypeOK BY PartsOK
<1>2. o \in Offers /\ UNCHANGED offers
  BY <1>1, AtStage DEF SettleReread, SettleStages, storeVars
<1>3. /\ Lodged(o) /\ Overdue(o, loc[c].row, loc[c].now)
      /\ ~DbFaults => Over(o)
  BY DEF SettleReread, OffersInv, HandlerOK, SettleStages
<1>4. loc[c].row \in OfferRow /\ loc[c].now \in Nat BY <1>1 DEF Locals
<1>5. PICK row \in GetOffer(o) :
        ActOn(c, IF row = NoOffer THEN loc[c].row ELSE row, loc[c].now)
  BY DEF SettleReread
<1>6. row \in OfferRow /\ (row # NoOffer => row = offers[o])
  BY <1>1, <1>2, RowOK DEF GetOffer, OrFault
<1> DEFINE judged == IF row = NoOffer THEN loc[c].row ELSE row
<1>7. judged \in OfferRow BY <1>4, <1>6
<1>8. DbFaults \/ ~Overdue(o, judged, loc[c].now)
  <2>1. ASSUME ~DbFaults PROVE row = offers[o] /\ row # NoOffer
    BY <1>3, <2>1 DEF GetOffer, OrFault, Over, NoOffer
  <2> QED BY <1>3, <2>1 DEF Overdue, Over
<1>9. IsDead(judged) => judged = offers[o]
  BY <1>3, <1>6 DEF Overdue, IsDead
<1> QED BY <1>2, <1>3, <1>4, <1>5, <1>7, <1>8, <1>9, JudgeKeeps DEF OffersInv

LEMMA RevokeReadKeeps ==
    ASSUME TransferInv, OffersInv, NEW c \in Conns, RevokeRead(c)
    PROVE  HandlerOK(c)'
<1>1. ConnOK /\ ConnTypeOK /\ StoreTypeOK BY PartsOK DEF ConnOK
<1>2. OfferOf(c) \in Offers /\ UNCHANGED offers
  BY <1>1, AtStage DEF RevokeRead, RevokeStages, storeVars
<1>3. \/ pc'[c] \in {"idle", "revokeTip"}
      \/ /\ Goto(c, "flip")
         /\ \E row \in GetOffer(OfferOf(c)) : row.status = "expired"
  BY <1>1 DEF RevokeRead, Reply, Goto, ConnTypeOK
<1>4. CASE pc'[c] \in {"idle", "revokeTip"}
  BY <1>4, HandlerElsewhere DEF ActiveStages, JudgedStages, SettleStages
<1>5. ASSUME Goto(c, "flip"), NEW row \in GetOffer(OfferOf(c)), row.status = "expired"
      PROVE  HandlerOK(c)'
  <2>1. offers[OfferOf(c)].status = "expired" BY <1>2, <1>5, RowOnRecord
  <2>2. Over(OfferOf(c)) /\ offers[OfferOf(c)].changed # None
    BY <1>2, <2>1 DEF Over, OffersInv, DeathsDated, IsDead
  <2>3. pc'[c] = "flip" /\ OfferOf(c)' = OfferOf(c)
    BY <1>1, <1>5 DEF Goto, ConnTypeOK, OfferOf
  <2> QED
    BY <1>2, <2>2, <2>3 DEF HandlerOK, JudgedStages, SettleStages, SettledStages, Over
<1> QED BY <1>3, <1>4, <1>5

(* What a claim writes between its judgement and its transaction, unless it  *)
(* is answered there.                                                        *)
ClaimGoesTo(c) ==
    \/ \E stage \in {"kernel", "buyer", "txn"} : Goto(c, stage) /\ UNCHANGED loc
    \/ /\ Goto(c, "depth")
       /\ \E h : loc' = [loc EXCEPT ![c].height = h, ![c].asked = tip]
    \/ Goto(c, "excess") /\ loc' = [loc EXCEPT ![c].asked = 0, ![c].node = 1]

LEMMA ClaimGoesOn ==
    ASSUME ConnTypeOK, NEW c \in Conns, pc'[c] # "idle",
           ClaimSeller(c) \/ ClaimKernel(c) \/ ClaimDepth(c) \/ ClaimExcess(c) \/ ClaimBuyer(c)
    PROVE  ClaimGoesTo(c)
<1>1. ASSUME NEW status PROVE ~Reply(c, status) BY <1>1 DEF Reply, ConnTypeOK
<1>2. CASE ClaimSeller(c) BY <1>1, <1>2 DEF ClaimSeller, ClaimGoesTo
<1>3. CASE ClaimKernel(c) BY <1>1, <1>3 DEF ClaimKernel, ClaimGoesTo
<1>4. CASE ClaimDepth(c) BY <1>1, <1>4 DEF ClaimDepth, ClaimGoesTo
<1>5. CASE ClaimExcess(c) BY <1>1, <1>5 DEF ClaimExcess, ClaimGoesTo
<1>6. CASE ClaimBuyer(c) BY <1>1, <1>6 DEF ClaimBuyer, ClaimGoesTo
<1> QED BY <1>2, <1>3, <1>4, <1>5, <1>6

(* Such a step goes on with the request it has, and keeps what was judged.   *)
LEMMA ClaimHolds ==
    ASSUME ConnTypeOK, loc \in [Conns -> Locals], NEW c \in Conns, ClaimGoesTo(c)
    PROVE  /\ \E stage \in JudgedStages \ {"seller"} : Goto(c, stage)
           /\ pc'[c] \in JudgedStages \ {"seller"}
           /\ msg'[c] = msg[c] /\ OfferOf(c)' = OfferOf(c)
           /\ loc'[c].row = loc[c].row /\ loc'[c].now = loc[c].now
<1>1. PICK stage \in JudgedStages \ {"seller"} : Goto(c, stage)
  BY DEF ClaimGoesTo, JudgedStages
<1>2. pc'[c] = stage /\ msg' = msg BY <1>1 DEF Goto, ConnTypeOK
<1>3. OfferOf(c)' = OfferOf(c) BY <1>2 DEF OfferOf
<1>4. loc'[c].row = loc[c].row /\ loc'[c].now = loc[c].now
  <2>1. CASE UNCHANGED loc BY <2>1
  <2>2. ASSUME NEW h, loc' = [loc EXCEPT ![c].height = h, ![c].asked = tip]
        PROVE  <1>4
    BY <2>2 DEF Locals
  <2>3. CASE loc' = [loc EXCEPT ![c].asked = 0, ![c].node = 1] BY <2>3 DEF Locals
  <2> QED BY <2>1, <2>2, <2>3 DEF ClaimGoesTo
<1> QED BY <1>1, <1>2, <1>3, <1>4

LEMMA ClaimKeeps ==
    ASSUME TransferInv, OffersInv, NEW c \in Conns,
           ClaimSeller(c) \/ ClaimKernel(c) \/ ClaimDepth(c) \/ ClaimExcess(c) \/ ClaimBuyer(c)
    PROVE  HandlerOK(c)'
<1>1. ConnOK /\ ConnTypeOK /\ loc \in [Conns -> Locals] BY PartsOK DEF ConnOK
<1>2. pc[c] \in JudgedStages /\ UNCHANGED offers
  BY DEF ClaimSeller, ClaimKernel, ClaimDepth, ClaimExcess, ClaimBuyer, JudgedStages,
     storeVars
<1>3. JudgedOK(OfferOf(c), loc[c].row, loc[c].now)
  BY <1>2 DEF OffersInv, HandlerOK
<1>4. CASE pc'[c] = "idle"
  BY <1>4, HandlerElsewhere DEF ActiveStages, JudgedStages, SettleStages
<1>5. CASE pc'[c] # "idle"
  <2>1. /\ msg'[c] = msg[c] /\ OfferOf(c)' = OfferOf(c)
        /\ pc'[c] \in JudgedStages \ {"seller"}
    BY <1>1, <1>5, ClaimGoesOn, ClaimHolds
  <2>2. loc'[c].row = loc[c].row /\ loc'[c].now = loc[c].now
    BY <1>1, <1>5, ClaimGoesOn, ClaimHolds
  <2>3. JudgedOK(OfferOf(c), loc[c].row, loc[c].now)'
    BY <1>2, <1>3, <2>1, <2>2 DEF JudgedOK, Lodged, Over, Overdue, IsDead
  <2>4. pc'[c] \in SettledStages => InTime(loc[c].row, loc[c].height)'
    <3>1. CASE ClaimDepth(c)
      <4>1. InTime(loc[c].row, loc[c].height)
        BY <1>1, <1>5, <3>1 DEF ClaimDepth, Reply, ConnTypeOK
      <4>2. loc'[c].height = loc[c].height
        BY <1>1, <1>5, <3>1 DEF ClaimDepth, Reply, ConnTypeOK, Locals
      <4> QED BY <2>2, <4>1, <4>2 DEF InTime, IsDead
    <3>2. CASE ClaimExcess(c) \/ ClaimBuyer(c)
      <4>1. InTime(loc[c].row, loc[c].height)
        BY <3>2 DEF ClaimExcess, ClaimBuyer, OffersInv, HandlerOK, SettledStages
      <4>2. loc'[c] = loc[c]
        BY <1>1, <1>5, <3>2 DEF ClaimExcess, ClaimBuyer, Reply, ConnTypeOK
      <4> QED BY <4>1, <4>2 DEF InTime, IsDead
    <3>3. CASE ClaimSeller(c) \/ ClaimKernel(c)
      <4>1. ASSUME NEW status PROVE ~Reply(c, status) BY <1>1, <1>5, <4>1 DEF Reply, ConnTypeOK
      <4>2. CASE ClaimSeller(c)
        <5>1. Goto(c, "kernel") BY <4>1, <4>2 DEF ClaimSeller
        <5> QED BY <1>1, <5>1 DEF Goto, ConnTypeOK, SettledStages
      <4>3. CASE ClaimKernel(c)
        <5>1. Goto(c, "depth") BY <4>1, <4>3 DEF ClaimKernel
        <5> QED BY <1>1, <5>1 DEF Goto, ConnTypeOK, SettledStages
      <4> QED BY <3>3, <4>2, <4>3
    <3> QED BY <3>1, <3>2, <3>3
  <2> QED
    BY <2>1, <2>3, <2>4 DEF HandlerOK, JudgedStages, SettleStages
<1> QED BY <1>4, <1>5

LEMMA AskNextKeeps ==
    ASSUME TransferInv, OffersInv, NEW c \in Conns, AskNext(c)
    PROVE  HandlerOK(c)'
<1>1. ConnOK /\ ConnTypeOK /\ loc \in [Conns -> Locals] BY PartsOK DEF ConnOK
<1>2. /\ msg'[c] = msg[c] /\ OfferOf(c)' = OfferOf(c) /\ UNCHANGED offers
      /\ pc'[c] = IF pc[c] = "depth" THEN "kernel" ELSE pc[c]
  BY <1>1 DEF AskNext, Goto, ConnTypeOK, OfferOf, storeVars
<1>3. loc'[c].row = loc[c].row /\ loc'[c].now = loc[c].now
  BY <1>1 DEF AskNext, Locals
<1>4. pc[c] \in Asking BY DEF AskNext
<1>5. HandlerOK(c) BY DEF OffersInv
<1> QED
  BY <1>2, <1>3, <1>4, <1>5 DEF HandlerOK, JudgedOK, Asking, SettleStages, SettledStages,
     JudgedStages, Lodged, Over, Overdue, IsDead

(* A handler touches its own connection only.                                *)
LEMMA OthersStay ==
    ASSUME ConnTypeOK, NEW c \in Conns, NEW d \in Conns \ {c}, Handler(c) \/ Drop(c)
    PROVE  pc'[d] = pc[d] /\ msg'[d] = msg[d] /\ loc'[d] = loc[d]
<1> DEFINE Same == pc'[d] = pc[d] /\ msg'[d] = msg[d] /\ loc'[d] = loc[d]
<1>1. ASSUME NEW status, Reply(c, status) PROVE Same
  BY <1>1 DEF Reply, ConnTypeOK
<1>2. ASSUME NEW stage, Goto(c, stage), loc'[d] = loc[d] PROVE Same
  BY <1>2 DEF Goto, ConnTypeOK
<1>3. CASE Authenticate(c) BY <1>1, <1>2, <1>3 DEF Authenticate
<1>4. CASE RegistryStep(c)
  BY <1>1, <1>2, <1>4 DEF RegistryStep, RegisterCooldown, RegisterLookup, RegisterNameOf,
     RegisterInsert, ReleaseOwner, ReleaseUpdate, ReleaseRecord, Resolve, ReverseResolve
<1>5. ASSUME NEW row, NEW now, ActOn(c, row, now) PROVE Same
  BY <1>1, <1>2, <1>5 DEF ActOn, ConnTypeOK
<1>6. CASE LodgeTerms(c) \/ LodgeByName(c) \/ LodgeByAddress(c) \/ LodgeInsert(c)
  BY <1>1, <1>2, <1>6 DEF LodgeTerms, LodgeByName, LodgeByAddress, LodgeInsert, ConnTypeOK
<1>7. CASE \/ AskNext(c) \/ ReadOfferRow(c) \/ SettleTip(c) \/ SettleMark(c)
           \/ SettleReread(c)
  BY <1>1, <1>2, <1>5, <1>7 DEF AskNext, ReadOfferRow, SettleTip, SettleMark, SettleReread,
     ConnTypeOK
<1>8. CASE RevokeRead(c) \/ RevokeTip(c) \/ RevokeMark(c) \/ RevokeFlip(c)
  BY <1>1, <1>2, <1>8 DEF RevokeRead, RevokeTip, RevokeMark, RevokeFlip, ConnTypeOK
<1>9. CASE \/ ClaimSold(c) \/ ClaimSeller(c) \/ ClaimKernel(c) \/ ClaimDepth(c)
           \/ ClaimExcess(c) \/ ClaimBuyer(c) \/ ClaimTxn(c) \/ ClaimRecord(c)
  <2>1. CASE ClaimSold(c) BY <1>1, <1>2, <2>1 DEF ClaimSold
  <2>2. CASE ClaimSeller(c) BY <1>1, <1>2, <2>2 DEF ClaimSeller
  <2>3. CASE ClaimKernel(c) BY <1>1, <1>2, <2>3 DEF ClaimKernel, ConnTypeOK
  <2>4. CASE ClaimDepth(c) BY <1>1, <1>2, <2>4 DEF ClaimDepth, ConnTypeOK
  <2>5. CASE ClaimExcess(c) BY <1>1, <1>2, <2>5 DEF ClaimExcess
  <2>6. CASE ClaimBuyer(c) BY <1>1, <1>2, <2>6 DEF ClaimBuyer
  <2>7. CASE ClaimTxn(c) BY <1>1, <1>2, <2>7 DEF ClaimTxn
  <2>8. CASE ClaimRecord(c) BY <1>1, <1>2, <2>8 DEF ClaimRecord
  <2> QED BY <1>9, <2>1, <2>2, <2>3, <2>4, <2>5, <2>6, <2>7, <2>8
<1>10. CASE Drop(c) BY <1>1, <1>10 DEF Drop
<1> QED BY <1>3, <1>4, <1>6, <1>7, <1>8, <1>9, <1>10 DEF Handler, TransferStep

(* What a handler that acts may count on afterwards.                         *)
LEMMA HandlerKeeps ==
    ASSUME TransferInv, OffersInv, NEW c \in Conns, Handler(c) \/ Drop(c)
    PROVE  HandlerOK(c)'
<1>1. ConnOK /\ ConnTypeOK BY PartsOK DEF ConnOK
<1>2. SUFFICES ASSUME pc'[c] \in ActiveStages PROVE HandlerOK(c)'
  BY HandlerElsewhere
<1>3. "idle" \notin ActiveStages /\ "armSeller" \notin ActiveStages
  BY DEF ActiveStages, JudgedStages, SettleStages
<1>4. ASSUME NEW status PROVE ~Reply(c, status)
  BY <1>1, <1>2, <1>3 DEF Reply, ConnTypeOK
<1>5. ASSUME NEW stage, Goto(c, stage) PROVE stage \in ActiveStages
  BY <1>1, <1>2, <1>5 DEF Goto, ConnTypeOK
<1>6. ~Authenticate(c)
  BY <1>4, <1>5 DEF Authenticate, Signed, ActiveStages, JudgedStages, SettleStages
<1>7. ~RegistryStep(c)
  BY <1>4, <1>5 DEF RegistryStep, RegisterCooldown, RegisterLookup, RegisterNameOf,
     RegisterInsert, ReleaseOwner, ReleaseUpdate, ReleaseRecord, Resolve, ReverseResolve,
     ActiveStages, JudgedStages, SettleStages
<1>8. ~(LodgeTerms(c) \/ LodgeByName(c) \/ LodgeByAddress(c) \/ LodgeInsert(c))
  BY <1>4, <1>5 DEF LodgeTerms, LodgeByName, LodgeByAddress, LodgeInsert,
     ActiveStages, JudgedStages, SettleStages
<1>9. ~(RevokeTip(c) \/ RevokeMark(c) \/ RevokeFlip(c))
  BY <1>4, <1>5 DEF RevokeTip, RevokeMark, RevokeFlip, ActiveStages, JudgedStages,
     SettleStages
<1>10. ~(ClaimSold(c) \/ ClaimTxn(c) \/ ClaimRecord(c) \/ Drop(c))
  BY <1>3, <1>4, <1>5 DEF ClaimSold, ClaimTxn, ClaimRecord, Drop
<1> QED
  BY <1>6, <1>7, <1>8, <1>9, <1>10, ReadKeeps, SettleKeeps, RereadKeeps, RevokeReadKeeps,
     ClaimKeeps, AskNextKeeps
  DEF Handler, TransferStep

LEMMA OffersInitOK == Init => OffersInv
<1> SUFFICES ASSUME Init PROVE OffersInv OBVIOUS
<1>1. DeathsDated
  BY StoreAssumption DEF Init, ServerInit, StoreInit, DeathsDated, IsDead
<1>2. \A c \in Conns : pc[c] = "idle" BY DEF Init, ServerInit
<1> QED
  BY <1>1, <1>2 DEF OffersInv, HandlerOK, JudgedStages, SettledStages, SettleStages

LEMMA OffersStepOK == TransferInv /\ OffersInv /\ [Next]_vars => OffersInv'
<1> SUFFICES ASSUME TransferInv, OffersInv, [Next]_vars PROVE OffersInv' OBVIOUS
<1>1. ConnOK /\ ConnTypeOK /\ StoreTypeOK BY PartsOK DEF ConnOK
<1>2. \A o \in Offers : OfferMoves(o) BY OffersMove
<1>3. DeathsDated'
  <2> SUFFICES ASSUME NEW o \in Offers, IsDead(offers'[o]) PROVE offers'[o].changed # None
    BY DEF DeathsDated, IsDead
  <2>1. OfferMoves(o) BY <1>2
  <2> QED BY <2>1 DEF OfferMoves, OffersInv, DeathsDated, IsDead
<1>4. ASSUME NEW d \in Conns, pc'[d] = pc[d], msg'[d] = msg[d], loc'[d] = loc[d]
      PROVE  HandlerOK(d)'
  <2>1. pc[d] \in ActiveStages => OfferOf(d) \in Offers
    BY <1>1, AtStage DEF ActiveStages, JudgedStages, SettleStages, RevokeStages, ClaimStages
  <2> QED BY <1>2, <1>4, <2>1, HandlerStays DEF OffersInv
<1>5. \A d \in Conns : HandlerOK(d)'
  <2> SUFFICES ASSUME NEW d \in Conns PROVE HandlerOK(d)' OBVIOUS
  <2>1. CASE ServerTick \/ Chain \/ UNCHANGED vars
    BY <1>4, <2>1 DEF ServerTick, Chain, vars, serverVars, connVars
  <2>2. CASE Restart
    BY <2>2, HandlerElsewhere DEF Restart, ActiveStages, JudgedStages, SettleStages
  <2>3. ASSUME NEW c \in Conns, NEW m \in Traffic[c], Admit(c, m) \/ RateLimited(c, m)
        PROVE  HandlerOK(d)'
    <3>1. CASE d = c
      <4>1. pc'[c] \in {"idle", FirstStage(m)}
        BY <1>1, <2>3 DEF Admit, RateLimited, Reply, ConnTypeOK
      <4>2. m \in Requests BY ServerAssumption
      <4>3. FirstStage(m) \notin ActiveStages
        BY <4>2, RequestOK DEF FirstStage, ActiveStages, JudgedStages, SettleStages
      <4> QED
        BY <3>1, <4>1, <4>3, HandlerElsewhere DEF ActiveStages, JudgedStages, SettleStages
    <3>2. CASE d # c
      BY <1>1, <1>4, <2>3, <3>2 DEF Admit, RateLimited, Reply, ConnTypeOK
    <3> QED BY <3>1, <3>2
  <2>4. ASSUME NEW c \in Conns, Handler(c) \/ Drop(c) PROVE HandlerOK(d)'
    BY <1>1, <1>4, <2>4, HandlerKeeps, OthersStay
  <2> QED BY <2>1, <2>2, <2>3, <2>4 DEF Next, Arrive
<1> QED BY <1>3, <1>5 DEF OffersInv

THEOREM OffersInvariant == Spec => []OffersInv
BY OffersInitOK, OffersStepOK, AuthorityInvariant, PTL DEF Spec

(* The height and the time an offer died at never change: not by a second    *)
(* settlement, revocation or sale, and not by the flip of an expired offer.  *)
THEOREM AuthorityDeathRecord == Spec => DeathRecordKept
<1> DEFINE Kept == \A o \in Offers :
        IsDead(offers[o]) => /\ offers'[o].end = offers[o].end
                             /\ offers'[o].changed = offers[o].changed
<1>1. TransferInv /\ OffersInv /\ [Next]_vars => Kept
  BY OffersMove DEF OfferMoves, IsDead, Lodged
<1> QED BY <1>1, AuthorityInvariant, OffersInvariant, PTL DEF Spec, DeathRecordKept

(* A late claim about to commit has a payment at or below the height on      *)
(* record for the death of its offer, and came within the grace after it.    *)
THEOREM AuthorityLateClaim == Spec => []LateClaimInWindow
<1>1. TransferInv /\ OffersInv => LateClaimInWindow
  <2> SUFFICES ASSUME TransferInv, OffersInv, NEW c \in Conns,
                      pc[c] \in {"excess", "buyer", "txn"}, IsDead(loc[c].row)
               PROVE  LET row == offers[OfferOf(c)] IN
                      /\ loc[c].height # None /\ loc[c].height <= row.end
                      /\ loc[c].now - row.changed <= Grace
    BY DEF LateClaimInWindow
  <2>1. JudgedOK(OfferOf(c), loc[c].row, loc[c].now) /\ InTime(loc[c].row, loc[c].height)
    BY DEF OffersInv, HandlerOK, JudgedStages, SettledStages
  <2> QED BY <2>1 DEF JudgedOK, InTime
<1> QED BY <1>1, AuthorityInvariant, OffersInvariant, PTL

(* No claim is judged on an offer as live when it had expired by the claim's *)
(* clock, where statements do not fail: the row that is read again after the *)
(* settlement is never the lapsed one.                                       *)
THEOREM AuthorityOverdue ==
    ASSUME ~DbFaults
    PROVE  Spec => []OverdueNeverJudgedLive
<1>1. OffersInv => OverdueNeverJudgedLive
  BY DEF OffersInv, HandlerOK, JudgedOK, JudgedStages, OverdueNeverJudgedLive
<1> QED BY <1>1, OffersInvariant, PTL

-----------------------------------------------------------------------------
(* The payments *)

(* What an operator has to choose transfer_min_conf for: a payment that deep *)
(* is out of the reach of a reorganisation, even of one that comes while a   *)
(* node is asked; and a depth of 1, which is also what an unreadable height  *)
(* counts as, is not enough.                                                 *)
DeepEnough == MinConf > 1 /\ MinConf > MaxReorg + RpcBlocks

PaidStages == {"kernel", "depth", "excess", "buyer", "txn"}

(* How far the payment of a claim is known to be settled.                    *)
DeepIn(x, h) == h # None /\ mined[x] = h /\ tip - h + 1 >= MinConf

(* A claim that asks for the depth of its kernel saw it on the chain; should *)
(* it have left the branch since, it was not deep when the claim asked.      *)
PaymentOK(c) ==
    /\ pc[c] \in PaidStages => ProofRefusal(OfferOf(c), msg[c].proof) = 0
    /\ pc[c] = "depth" /\ loc[c].height # None =>
          /\ loc[c].height <= loc[c].asked /\ loc[c].asked <= tip
          /\ \/ mined[msg[c].proof.excess] = loc[c].height
             \/ loc[c].asked - loc[c].height < MaxReorg
    /\ pc[c] \in SettledStages => DeepIn(msg[c].proof.excess, loc[c].height)

PaymentInv == PaidAndConfirmed /\ \A c \in Conns : PaymentOK(c)

(* A payment so deep stays where it is, whatever happens on the chain.       *)
LEMMA DeepStays ==
    ASSUME DeepEnough, ChainOK, NEW x \in Excesses, NEW h \in Nat \cup {None}, DeepIn(x, h),
           Chain \/ UNCHANGED chainVars
    PROVE  DeepIn(x, h)'
<1>1. /\ h \in Nat /\ tip \in Nat /\ mined[x] = h
      /\ tip - h + 1 >= MinConf
      /\ MinConf \in Nat /\ MaxReorg \in Nat /\ RpcBlocks \in Nat
  BY TransferAssumption, NodeAssumption DEF DeepIn, ChainOK
<1>2. CASE UNCHANGED chainVars BY <1>2 DEF chainVars, DeepIn
<1>3. CASE Mine
  <2>1. tip' = tip + 1 BY <1>3 DEF Mine
  <2>2. mined'[x] = mined[x]
    BY <1>1, <1>3 DEF Mine, ChainOK, DeepIn
  <2> QED BY <1>1, <2>1, <2>2 DEF DeepIn
<1>4. CASE Reorg
  <2>1. ~(tip - mined[x] < MaxReorg) BY <1>1 DEF DeepEnough
  <2>2. mined'[x] = mined[x] BY <2>1, <1>4 DEF Reorg, ChainOK
  <2> QED BY <1>1, <1>4, <2>2 DEF DeepIn, Reorg
<1> QED BY <1>2, <1>3, <1>4 DEF Chain

(* A proof that passes is a receipt, by the key of the offer's address, for  *)
(* the price of the offer.                                                   *)
LEMMA ReceiptFound ==
    ASSUME NEW o \in Offers, NEW p \in ProofType, ProofRefusal(o, p) = 0
    PROVE  \E r \in Receipts : /\ r.by = o.addr.key
                               /\ r.over.amount = o.price
                               /\ r.over.excess = p.excess
<1>1. /\ VerifySignatures(p) /\ p.recipient = o.addr
      /\ StoredPrice(o) >= 0 /\ p.amount = StoredPrice(o)
  <2>1. VerifySignatures(p) BY DEF ProofRefusal
  <2>2. p.recipient = o.addr /\ ~(StoredPrice(o) < 0) /\ p.amount = StoredPrice(o)
    BY <2>1 DEF ProofRefusal
  <2>3. o.price \in Nat BY StoreAssumption DEF OfferType
  <2>4. StoredPrice(o) \in Int BY <2>3, StoreAssumption DEF StoredPrice
  <2> QED BY <2>1, <2>2, <2>4
<1>2. o.price \in Nat /\ o.price < 2 * HalfWord /\ HalfWord \in Nat
  BY StoreAssumption DEF OfferType
<1>3. p.amount = o.price BY <1>1, <1>2 DEF StoredPrice
<1>4. Verifies(o.addr.key, PaymentProofMessage(p), p.recipientSig)
  BY <1>1 DEF VerifySignatures
<1>5. p.recipientSig \in Receipts BY <1>4 DEF Verifies
<1>6. p.recipientSig.by = o.addr.key /\ p.recipientSig.over = PaymentProofMessage(p)
  BY <1>4 DEF Verifies
<1>7. PaymentProofMessage(p).amount = p.amount /\ PaymentProofMessage(p).excess = p.excess
  BY DEF PaymentProofMessage
<1> QED BY <1>3, <1>5, <1>6, <1>7

(* What is known of the payment of a claim survives the chain, while the     *)
(* claim stays where it is.                                                  *)
LEMMA PaymentStays ==
    ASSUME DeepEnough, TransferInv, NEW c \in Conns, PaymentOK(c),
           Chain \/ UNCHANGED chainVars,
           pc'[c] = pc[c], msg'[c] = msg[c], loc'[c] = loc[c]
    PROVE  PaymentOK(c)'
<1> DEFINE x == msg[c].proof.excess
           h == loc[c].height
<1>1. ConnOK /\ ChainOK /\ loc \in [Conns -> Locals] BY PartsOK
<1>2. OfferOf(c)' = OfferOf(c) BY DEF OfferOf
<1>3. h \in Nat \cup {None} /\ loc[c].asked \in Nat BY <1>1 DEF Locals
<1>4. pc[c] \in PaidStages => x \in Excesses
  BY <1>1, AtStage DEF PaidStages, ClaimStages
<1>5. CASE UNCHANGED chainVars
  BY <1>2, <1>5 DEF PaymentOK, DeepIn, chainVars
<1>6. CASE Chain
  <2>1. pc[c] \in SettledStages => DeepIn(x, h)'
    BY <1>1, <1>3, <1>4, <1>6, DeepStays DEF PaymentOK, PaidStages, SettledStages
  <2>2. ASSUME pc[c] = "depth", h # None
        PROVE  /\ h <= loc[c].asked /\ loc[c].asked <= tip'
               /\ mined'[x] = h \/ loc[c].asked - h < MaxReorg
    <3>1. h <= loc[c].asked /\ loc[c].asked <= tip
          /\ (mined[x] = h \/ loc[c].asked - h < MaxReorg)
      BY <2>2 DEF PaymentOK
    <3>2. tip' = tip \/ tip' = tip + 1 BY <1>6 DEF Chain, Mine, Reorg
    <3>3. x \in Excesses /\ tip \in Nat /\ h \in Nat BY <1>1, <1>3, <1>4, <2>2 DEF ChainOK, PaidStages
    <3>4. CASE loc[c].asked - h < MaxReorg
      BY <1>3, <3>1, <3>2, <3>3, <3>4
    <3>5. CASE mined[x] = h /\ Mine
      <4>1. mined'[x] = mined[x] BY <1>1, <2>2, <3>3, <3>5 DEF Mine, ChainOK
      <4> QED BY <1>3, <3>1, <3>2, <3>3, <3>5, <4>1
    <3>6. CASE mined[x] = h /\ Reorg
      <4>1. mined'[x] = mined[x] \/ tip - h < MaxReorg
        BY <1>1, <3>3, <3>6 DEF Reorg, ChainOK
      <4>2. MaxReorg \in Nat BY NodeAssumption
      <4> QED BY <1>3, <3>1, <3>2, <3>3, <3>6, <4>1, <4>2
    <3> QED BY <1>6, <3>1, <3>4, <3>5, <3>6 DEF Chain
  <2> QED BY <1>2, <2>1, <2>2 DEF PaymentOK, DeepIn
<1> QED BY <1>5, <1>6

LEMMA PaymentElsewhere ==
    ASSUME NEW c \in Conns, pc'[c] \notin PaidStages
    PROVE  PaymentOK(c)'
BY DEF PaymentOK, PaidStages, SettledStages

(* The proof is checked before the chain is asked.                           *)
LEMMA SellerPays ==
    ASSUME TransferInv, NEW c \in Conns, ClaimSeller(c)
    PROVE  PaymentOK(c)'
<1>1. ConnTypeOK BY PartsOK DEF ConnOK
<1>2. \/ pc'[c] = "idle"
      \/ /\ pc'[c] = "kernel" /\ msg'[c] = msg[c]
         /\ ProofRefusal(OfferOf(c), msg[c].proof) = 0
  BY <1>1 DEF ClaimSeller, Reply, Goto, ConnTypeOK
<1>3. CASE pc'[c] = "idle" BY <1>3, PaymentElsewhere DEF PaidStages
<1>4. CASE /\ pc'[c] = "kernel" /\ msg'[c] = msg[c]
           /\ ProofRefusal(OfferOf(c), msg[c].proof) = 0
  BY <1>4 DEF PaymentOK, PaidStages, SettledStages, OfferOf
<1> QED BY <1>2, <1>3, <1>4

(* A kernel is seen where it is mined, at or below the tip.                  *)
LEMMA KernelPays ==
    ASSUME TransferInv, NEW c \in Conns, PaymentOK(c), ClaimKernel(c)
    PROVE  PaymentOK(c)'
<1> DEFINE x == msg[c].proof.excess
<1>1. ConnOK /\ ConnTypeOK /\ loc \in [Conns -> Locals] /\ ChainOK
  BY PartsOK DEF ConnOK
<1>2. x \in Excesses BY <1>1, AtStage DEF ClaimKernel, ClaimStages
<1>3. \/ pc'[c] = "idle"
      \/ \E h \in KernelHeights(loc[c].node, x) :
            /\ pc'[c] = "depth" /\ msg'[c] = msg[c]
            /\ loc' = [loc EXCEPT ![c].height = h, ![c].asked = tip]
  BY <1>1 DEF ClaimKernel, Reply, Goto, ConnTypeOK
<1>4. CASE pc'[c] = "idle" BY <1>4, PaymentElsewhere DEF PaidStages
<1>5. ASSUME NEW h \in KernelHeights(loc[c].node, x), pc'[c] = "depth", msg'[c] = msg[c],
             loc' = [loc EXCEPT ![c].height = h, ![c].asked = tip]
      PROVE  PaymentOK(c)'
  <2>1. loc'[c].height = h /\ loc'[c].asked = tip BY <1>1, <1>5 DEF Locals
  <2>2. ProofRefusal(OfferOf(c), msg[c].proof) = 0
    BY DEF ClaimKernel, PaymentOK, PaidStages
  <2>3. UNCHANGED <<tip, mined>> BY DEF ClaimKernel, chainVars
  <2>4. h # None => h = mined[x] /\ h <= tip
    BY <1>1, <1>2, <1>5 DEF KernelHeights, ChainOK, None
  <2>5. tip \in Nat BY <1>1 DEF ChainOK
  <2> QED
    BY <1>5, <2>1, <2>2, <2>3, <2>4, <2>5 DEF PaymentOK, PaidStages, SettledStages, OfferOf
<1> QED BY <1>3, <1>4, <1>5

(* A depth that satisfies transfer_min_conf, answered in time, is the depth  *)
(* of the kernel where it still is: had it left the branch, so few blocks    *)
(* could have come since that the answer would not satisfy.                  *)
LEMMA DepthPays ==
    ASSUME DeepEnough, TransferInv, NEW c \in Conns, PaymentOK(c), ClaimDepth(c)
    PROVE  PaymentOK(c)'
<1> DEFINE x == msg[c].proof.excess
           h == loc[c].height
           a == loc[c].asked
<1>1. ConnOK /\ ConnTypeOK /\ loc \in [Conns -> Locals] /\ ChainOK
  BY PartsOK DEF ConnOK
<1>2. x \in Excesses /\ pc[c] = "depth" BY <1>1, AtStage DEF ClaimDepth, ClaimStages
<1>3. \/ pc'[c] = "idle"
      \/ /\ pc'[c] = "excess" /\ msg'[c] = msg[c]
         /\ loc' = [loc EXCEPT ![c].asked = 0, ![c].node = 1]
         /\ \E depth \in Depths(loc[c].node, h, a) : Confirmed(depth)
  BY <1>1 DEF ClaimDepth, Reply, Goto, ConnTypeOK
<1>4. CASE pc'[c] = "idle" BY <1>4, PaymentElsewhere DEF PaidStages
<1>5. ASSUME NEW depth \in Depths(loc[c].node, h, a), Confirmed(depth),
             pc'[c] = "excess", msg'[c] = msg[c],
             loc' = [loc EXCEPT ![c].asked = 0, ![c].node = 1]
      PROVE  PaymentOK(c)'
  <2>1. loc'[c].height = h BY <1>1, <1>5 DEF Locals
  <2>2. UNCHANGED <<tip, mined>> BY DEF ClaimDepth, chainVars
  <2>3. /\ MinConf \in Nat /\ MaxReorg \in Nat /\ RpcBlocks \in Nat
        /\ tip \in Nat /\ a \in Nat /\ h \in Nat \cup {None}
    BY <1>1, TransferAssumption, NodeAssumption DEF ChainOK, Locals
  <2>4. depth \notin {0, 1} BY <1>5, <2>3 DEF Confirmed, DeepEnough
  <2>5. ~(tip - a > RpcBlocks) /\ h # None
        /\ \E v \in Views : depth = Confirmations(v, h)
    BY <1>5, <2>4 DEF Depths
  <2>6. PICK v \in Views : depth = Confirmations(v, h) BY <2>5
  <2>7. v \in Nat /\ v <= tip BY <2>3, <2>6 DEF Views
  <2>8. h \in Nat BY <2>3, <2>5
  <2>9. v - h + 1 >= MinConf
    BY <1>5, <2>3, <2>4, <2>6, <2>7, <2>8 DEF Confirmations, Confirmed
  <2>10. h <= a /\ a <= tip /\ (mined[x] = h \/ a - h < MaxReorg)
    BY <1>2, <2>5 DEF PaymentOK
  <2>11. mined[x] = h
    <3> SUFFICES ASSUME a - h < MaxReorg PROVE FALSE BY <2>10
    <3>1. tip - a <= RpcBlocks BY <2>3, <2>5
    <3>2. tip - h + 1 <= MaxReorg + RpcBlocks BY <2>3, <2>8, <3>1
    <3> QED BY <2>3, <2>7, <2>8, <2>9, <3>2 DEF DeepEnough
  <2>12. DeepIn(x, h) BY <2>3, <2>5, <2>7, <2>8, <2>9, <2>11 DEF DeepIn
  <2>13. ProofRefusal(OfferOf(c), msg[c].proof) = 0
    BY <1>2 DEF PaymentOK, PaidStages
  <2> QED
    BY <1>5, <2>1, <2>2, <2>12, <2>13 DEF PaymentOK, PaidStages, DeepIn, OfferOf
<1> QED BY <1>3, <1>4, <1>5

LEMMA LaterPays ==
    ASSUME TransferInv, NEW c \in Conns, PaymentOK(c),
           AskNext(c) \/ ClaimExcess(c) \/ ClaimBuyer(c)
    PROVE  PaymentOK(c)'
<1>1. ConnTypeOK /\ loc \in [Conns -> Locals] BY PartsOK DEF ConnOK
<1>2. UNCHANGED <<tip, mined>> BY DEF AskNext, ClaimExcess, ClaimBuyer, chainVars
<1>3. CASE pc'[c] \notin PaidStages BY <1>3, PaymentElsewhere
<1>4. CASE pc'[c] \in PaidStages /\ AskNext(c)
  <2>1. pc'[c] = "kernel" /\ msg'[c] = msg[c] /\ pc[c] \in {"kernel", "depth"}
    BY <1>1, <1>4 DEF AskNext, Goto, ConnTypeOK, Asking, PaidStages
  <2> QED BY <2>1 DEF PaymentOK, PaidStages, SettledStages, OfferOf
<1>5. CASE pc'[c] \in PaidStages /\ (ClaimExcess(c) \/ ClaimBuyer(c))
  <2>1. /\ pc'[c] \in {"buyer", "txn"} /\ msg'[c] = msg[c] /\ loc'[c] = loc[c]
        /\ pc[c] \in SettledStages
    BY <1>1, <1>5 DEF ClaimExcess, ClaimBuyer, Reply, Goto, ConnTypeOK, PaidStages,
       SettledStages
  <2> QED
    BY <1>2, <2>1 DEF PaymentOK, PaidStages, SettledStages, OfferOf, DeepIn
<1> QED BY <1>3, <1>4, <1>5

LEMMA PaymentKeeps ==
    ASSUME DeepEnough, TransferInv, NEW c \in Conns, PaymentOK(c), Handler(c) \/ Drop(c)
    PROVE  PaymentOK(c)'
<1>1. ConnOK /\ ConnTypeOK BY PartsOK DEF ConnOK
<1>2. SUFFICES ASSUME pc'[c] \in PaidStages PROVE PaymentOK(c)'
  BY PaymentElsewhere
<1>3. ASSUME NEW status PROVE ~Reply(c, status)
  BY <1>1, <1>2 DEF Reply, ConnTypeOK, PaidStages
<1>4. ASSUME NEW stage, Goto(c, stage) PROVE stage \in PaidStages
  BY <1>1, <1>2, <1>4 DEF Goto, ConnTypeOK
<1>5. ~Authenticate(c) BY <1>3, <1>4 DEF Authenticate, Signed, PaidStages
<1>6. ~RegistryStep(c)
  BY <1>3, <1>4 DEF RegistryStep, RegisterCooldown, RegisterLookup, RegisterNameOf,
     RegisterInsert, ReleaseOwner, ReleaseUpdate, ReleaseRecord, Resolve, ReverseResolve,
     PaidStages
<1>7. ASSUME NEW row, NEW now PROVE ~ActOn(c, row, now)
  BY <1>3, <1>4 DEF ActOn, PaidStages
<1>8. ~(LodgeTerms(c) \/ LodgeByName(c) \/ LodgeByAddress(c) \/ LodgeInsert(c))
  BY <1>3, <1>4 DEF LodgeTerms, LodgeByName, LodgeByAddress, LodgeInsert, PaidStages
<1>9. ~(ReadOfferRow(c) \/ SettleTip(c) \/ SettleMark(c) \/ SettleReread(c))
  <2>1. ~ReadOfferRow(c)
    <3>1. ReadOfferRow(c) => \/ Reply(c, 400) \/ Reply(c, 404) \/ Goto(c, "tip")
                             \/ \E row : ActOn(c, row, Now)
      BY DEF ReadOfferRow
    <3>2. "tip" \notin PaidStages BY DEF PaidStages
    <3> QED BY <1>3, <1>4, <1>7, <3>1, <3>2
  <2>2. ~SettleReread(c) BY <1>7 DEF SettleReread
  <2> QED BY <1>4, <2>1, <2>2 DEF SettleTip, SettleMark, PaidStages
<1>10. ~(RevokeRead(c) \/ RevokeTip(c) \/ RevokeMark(c) \/ RevokeFlip(c))
  <2>1. ~RevokeRead(c)
    <3>1. RevokeRead(c) => \/ \E status : Reply(c, status)
                           \/ Goto(c, "flip") \/ Goto(c, "revokeTip")
      BY DEF RevokeRead
    <3>2. "flip" \notin PaidStages /\ "revokeTip" \notin PaidStages BY DEF PaidStages
    <3> QED BY <1>3, <1>4, <3>1, <3>2
  <2> QED BY <1>3, <1>4, <2>1 DEF RevokeTip, RevokeMark, RevokeFlip, PaidStages
<1>11. ~(ClaimSold(c) \/ ClaimTxn(c) \/ ClaimRecord(c) \/ Drop(c))
  BY <1>3, <1>4 DEF ClaimSold, ClaimTxn, ClaimRecord, Drop, PaidStages
<1> QED
  BY <1>5, <1>6, <1>8, <1>9, <1>10, <1>11, SellerPays, KernelPays, DepthPays, LaterPays
  DEF Handler, TransferStep

(* A sale is of a payment that is deep, for a proof that passed.             *)
LEMMA SalePaid ==
    ASSUME TransferInv, PaymentInv, NEW c \in Conns, SaleBy(c)
    PROVE  LET o == OfferOf(c)
               x == msg[c].proof.excess IN
           /\ DeepIn(x, loc[c].height)
           /\ \E r \in Receipts : /\ r.by = o.addr.key
                                  /\ r.over.amount = o.price
                                  /\ r.over.excess = x
<1>1. ConnOK /\ ConnTypeOK BY PartsOK DEF ConnOK
<1>2. /\ msg[c].op = "claim" /\ msg[c] \in Requests /\ OfferOf(c) \in Offers
  BY <1>1, AtStage DEF SaleBy, ClaimStages
<1>3. msg[c].proof \in ProofType BY <1>2, RequestOK
<1>4. /\ ProofRefusal(OfferOf(c), msg[c].proof) = 0
      /\ DeepIn(msg[c].proof.excess, loc[c].height)
  BY DEF SaleBy, PaymentInv, PaymentOK, PaidStages, SettledStages
<1> QED BY <1>2, <1>3, <1>4, ReceiptFound

LEMMA PaymentStepOK ==
    DeepEnough /\ TransferInv /\ PaymentInv /\ [Next]_vars => PaymentInv'
<1> SUFFICES ASSUME DeepEnough, TransferInv, PaymentInv, [Next]_vars PROVE PaymentInv'
  OBVIOUS
<1>1. ConnOK /\ ConnTypeOK /\ ChainOK /\ StoreTypeOK BY PartsOK DEF ConnOK
<1>2. Chain \/ UNCHANGED chainVars
  <2>1. ASSUME NEW c \in Conns, Handler(c) PROVE UNCHANGED chainVars
    BY <2>1 DEF Handler, TransferStep, AskNext, LodgeTerms, LodgeByName, LodgeByAddress,
       LodgeInsert, ReadOfferRow, SettleTip, SettleMark, SettleReread, RevokeRead,
       RevokeTip, RevokeMark, RevokeFlip, ClaimSold, ClaimSeller, ClaimKernel, ClaimDepth,
       ClaimExcess, ClaimBuyer, ClaimTxn, ClaimRecord
  <2> QED BY <2>1 DEF Next, Drop, vars
<1>3. PaidAndConfirmed'
  <2> DEFINE Paid(t) == /\ DeepIn(t.excess, t.height)
                        /\ \E r \in Receipts : /\ r.by = t.offer.addr.key
                                               /\ r.over.amount = t.offer.price
                                               /\ r.over.excess = t.excess
  <2> SUFFICES ASSUME NEW t \in transfers' PROVE Paid(t)'
    BY DEF PaidAndConfirmed, DeepIn
  <2>1. Paid(t) /\ t.excess \in Excesses /\ t.height \in Nat \cup {None}
    <3>1. CASE t \in transfers
      <4>1. /\ mined[t.excess] # None /\ mined[t.excess] = t.height
            /\ tip - mined[t.excess] + 1 >= MinConf
            /\ \E r \in Receipts : /\ r.by = t.offer.addr.key
                                   /\ r.over.amount = t.offer.price
                                   /\ r.over.excess = t.excess
        BY <3>1 DEF PaymentInv, PaidAndConfirmed
      <4>2. Paid(t) BY <4>1 DEF DeepIn
      <4> QED BY <1>1, <3>1, <4>2 DEF StoreTypeOK, TransferRow
    <3>2. CASE t \notin transfers
      <4>1. PICK c \in Conns : SaleBy(c) BY <3>2, NamesMove
      <4>2. t = [offer |-> OfferOf(c), excess |-> msg[c].proof.excess,
                 height |-> loc[c].height]
        BY <3>2, <4>1 DEF SaleBy
      <4>3. /\ t.offer = OfferOf(c) /\ t.excess = msg[c].proof.excess
            /\ t.height = loc[c].height
        BY <4>2
      <4>4. Paid(t) BY <4>1, <4>3, SalePaid
      <4>5. t.excess \in Excesses
        BY <1>1, <4>1, <4>3, AtStage DEF SaleBy, ClaimStages
      <4>6. t.height \in Nat \cup {None} BY <1>1, <4>3 DEF ConnTypeOK, Locals
      <4> QED BY <4>4, <4>5, <4>6
    <3> QED BY <3>1, <3>2
  <2>2. DeepIn(t.excess, t.height)' BY <1>1, <1>2, <2>1, DeepStays
  <2> QED BY <2>1, <2>2
<1>4. ASSUME NEW d \in Conns PROVE PaymentOK(d)'
  <2>1. PaymentOK(d) BY DEF PaymentInv
  <2>2. ASSUME pc'[d] = pc[d], msg'[d] = msg[d], loc'[d] = loc[d] PROVE PaymentOK(d)'
    BY <1>2, <2>1, <2>2, PaymentStays
  <2>3. CASE ServerTick \/ Chain \/ UNCHANGED vars
    BY <2>2, <2>3 DEF ServerTick, Chain, vars, serverVars, connVars
  <2>4. CASE Restart BY <2>4, PaymentElsewhere DEF Restart, PaidStages
  <2>5. ASSUME NEW c \in Conns, NEW m \in Traffic[c], Admit(c, m) \/ RateLimited(c, m)
        PROVE  PaymentOK(d)'
    <3>1. CASE d = c
      <4>1. pc'[c] \in {"idle", FirstStage(m)}
        BY <1>1, <2>5 DEF Admit, RateLimited, Reply, ConnTypeOK
      <4>2. m \in Requests BY ServerAssumption
      <4>3. FirstStage(m) \notin PaidStages
        BY <4>2, RequestOK DEF FirstStage, PaidStages
      <4> QED BY <3>1, <4>1, <4>3, PaymentElsewhere DEF PaidStages
    <3>2. CASE d # c
      BY <1>1, <2>2, <2>5, <3>2 DEF Admit, RateLimited, Reply, ConnTypeOK
    <3> QED BY <3>1, <3>2
  <2>6. ASSUME NEW c \in Conns, Handler(c) \/ Drop(c) PROVE PaymentOK(d)'
    BY <1>1, <2>1, <2>2, <2>6, PaymentKeeps, OthersStay
  <2> QED BY <2>3, <2>4, <2>5, <2>6 DEF Next, Arrive
<1> QED BY <1>3, <1>4 DEF PaymentInv

(* Every sale on record was paid, by a receipt for the price the seller      *)
(* signed, in a kernel that is on the chain as deep as transfer_min_conf     *)
(* asks, and it stays so.                                                    *)
THEOREM AuthorityPaid ==
    ASSUME DeepEnough
    PROVE  Spec => []PaidAndConfirmed
<1>1. Init => PaymentInv
  BY DEF Init, ServerInit, StoreInit, PaymentInv, PaidAndConfirmed, PaymentOK, PaidStages,
     SettledStages
<1>2. TransferInv /\ PaymentInv /\ [Next]_vars => PaymentInv' BY PaymentStepOK
<1>3. PaymentInv => PaidAndConfirmed BY DEF PaymentInv
<1> QED BY <1>1, <1>2, <1>3, AuthorityInvariant, PTL DEF Spec

-----------------------------------------------------------------------------
(* Who is served where *)

(* A handler serves what came on its connection.                             *)
Serving == \A c \in Conns : pc[c] # "idle" => msg[c] \in Traffic[c]

LEMMA ServingStep == TransferInv /\ Serving /\ [Next]_vars => Serving'
<1> SUFFICES ASSUME TransferInv, Serving, [Next]_vars, NEW d \in Conns, pc'[d] # "idle"
             PROVE  msg'[d] \in Traffic[d]
  BY DEF Serving
<1>1. ConnTypeOK BY PartsOK DEF ConnOK
<1>2. pc'[d] = pc[d] /\ msg'[d] = msg[d] => msg'[d] \in Traffic[d] BY DEF Serving
<1>3. CASE ServerTick \/ Chain \/ UNCHANGED vars
  BY <1>2, <1>3 DEF ServerTick, Chain, vars, serverVars, connVars
<1>4. ~Restart BY DEF Restart
<1>5. ASSUME NEW c \in Conns, NEW m \in Traffic[c], Admit(c, m) \/ RateLimited(c, m)
      PROVE  msg'[d] \in Traffic[d]
  BY <1>1, <1>2, <1>5 DEF Admit, RateLimited, Reply, ConnTypeOK
<1>6. ASSUME NEW c \in Conns, Handler(c) \/ Drop(c) PROVE msg'[d] \in Traffic[d]
  <2>1. CASE d # c BY <1>1, <1>2, <1>6, <2>1, OthersStay
  <2>2. CASE d = c /\ Authenticate(c)
    BY <1>1, <2>2 DEF Authenticate, Goto, Reply, ConnTypeOK, Serving
  <2>3. CASE d = c /\ (RegistryStep(c) \/ TransferStep(c) \/ Drop(c))
    <3>1. pc[c] \notin {"idle", "auth"} /\ Moves(c)
      BY <2>3, RegistryMoves, TransferMoves, DropMoves
    <3> QED BY <1>1, <2>3, <3>1 DEF Moves, Goto, Reply, ConnTypeOK, Serving
  <2> QED BY <1>6, <2>1, <2>2, <2>3 DEF Handler
<1> QED BY <1>3, <1>4, <1>5, <1>6 DEF Next, Arrive

-----------------------------------------------------------------------------
(* Sold and on record *)

(* A consumed offer was consumed before, or is sold in this step.            *)
LEMMA ConsumedBefore ==
    ASSUME TransferInv, [Next]_vars, NEW o \in Offers, offers'[o].status = "consumed"
    PROVE  \/ offers[o].status = "consumed"
           \/ \E c \in Conns : SaleBy(c) /\ OfferOf(c) = o
<1>1. offers \in [Offers -> OfferRow] BY PartsOK DEF StoreTypeOK
<1>2. CASE UNCHANGED offers BY <1>2
<1>3. ASSUME NEW c \in Conns, LodgeInsert(c) PROVE offers[o].status = "consumed"
  <2>1. LiveOffer.status = "live" BY DEF LiveOffer, NoOffer
  <2> QED BY <1>1, <1>3, <2>1 DEF LodgeInsert
<1>4. ASSUME NEW c \in Conns, SettleMark(c) \/ RevokeMark(c)
      PROVE  offers[o].status = "consumed"
  BY <1>1, <1>4 DEF SettleMark, RevokeMark, OffersMarked
<1>5. ASSUME NEW c \in Conns, RevokeFlip(c) PROVE offers[o].status = "consumed"
  BY <1>1, <1>5 DEF RevokeFlip, OffersSet, OfferRow
<1>6. ASSUME NEW c \in Conns, SaleBy(c), OfferOf(c) # o
      PROVE  offers[o].status = "consumed"
  BY <1>1, <1>6 DEF SaleBy, OffersSet
<1> QED BY <1>2, <1>3, <1>4, <1>5, <1>6, OffersWritten

(* The offer of a sale is consumed in the step that records the sale.        *)
LEMMA SaleConsumes ==
    ASSUME TransferInv, NEW c \in Conns, SaleBy(c)
    PROVE  /\ OfferOf(c) \in Offers
           /\ offers'[OfferOf(c)].status = "consumed"
           /\ transfers \subseteq transfers'
           /\ \E t \in transfers' : t.offer = OfferOf(c)
           /\ \A t \in transfers' \ transfers : t.offer = OfferOf(c)
<1>1. ConnOK /\ offers \in [Offers -> OfferRow] BY PartsOK DEF StoreTypeOK
<1>2. PICK o \in Offers : o = OfferOf(c) BY <1>1, AtStage DEF SaleBy, ClaimStages
<1>3. offers' = [offers EXCEPT ![o].status = "consumed"]
  BY <1>2 DEF SaleBy, OffersSet
<1>4. offers'[o].status = "consumed" BY <1>1, <1>3 DEF OfferRow
<1> DEFINE t == [offer |-> OfferOf(c), excess |-> msg[c].proof.excess,
                 height |-> loc[c].height]
<1>5. transfers' = transfers \cup {t} BY DEF SaleBy
<1>6. t.offer = OfferOf(c) OBVIOUS
<1> HIDE DEF t
<1> QED BY <1>2, <1>4, <1>5, <1>6

(* No transfer is ever deleted.                                              *)
LEMMA SalesKept == ASSUME TransferInv, [Next]_vars PROVE transfers \subseteq transfers'
BY NamesMove, SaleConsumes

(* The tables agree on what is sold, whatever settles, revokes and claims    *)
(* overlap, fail or are cut off by a restart: a mark touches live rows only, *)
(* and the flip keeps the death record that it found.                        *)
THEOREM AuthoritySaleOnRecord == Spec => []SaleOnRecord
<1>1. Init => SaleOnRecord
  BY StoreAssumption DEF Init, ServerInit, StoreInit, SaleOnRecord
<1>2. TransferInv /\ OffersInv /\ SaleOnRecord /\ [Next]_vars => SaleOnRecord'
  <2> SUFFICES ASSUME TransferInv, OffersInv, SaleOnRecord, [Next]_vars
               PROVE  SaleOnRecord'
    OBVIOUS
  <2>1. ASSUME NEW o \in Offers, offers'[o].status = "consumed"
        PROVE  \E t \in transfers' : t.offer = o
    <3>1. CASE offers[o].status = "consumed" BY <3>1, SalesKept DEF SaleOnRecord
    <3>2. ASSUME NEW c \in Conns, SaleBy(c), OfferOf(c) = o
          PROVE  \E t \in transfers' : t.offer = o
      BY <3>2, SaleConsumes
    <3> QED BY <2>1, <3>1, <3>2, ConsumedBefore
  <2>2. ASSUME NEW t \in transfers'
        PROVE  \/ offers'[t.offer].status = "consumed"
               \/ offers'[t.offer].status = "revoked" /\ offers'[t.offer].changed # None
    <3>1. CASE t \in transfers
      <4>1. PICK o \in Offers : o = t.offer
        BY <3>1, PartsOK DEF StoreTypeOK, TransferRow
      <4>2. \/ offers[o].status = "consumed"
            \/ offers[o].status = "revoked" /\ offers[o].changed # None
        BY <3>1, <4>1 DEF SaleOnRecord
      <4>3. OfferMoves(o) BY OffersMove
      <4>4. \/ offers'[o].status = "consumed"
            \/ offers'[o].status = "revoked" /\ offers'[o].changed # None
        BY <4>2, <4>3 DEF OfferMoves, Lodged
      <4> QED BY <4>1, <4>4
    <3>2. CASE t \notin transfers
      <4>1. PICK c \in Conns : SaleBy(c) BY <3>2, NamesMove
      <4> QED BY <2>2, <3>2, <4>1, SaleConsumes
    <3> QED BY <3>1, <3>2
  <2> QED BY <2>1, <2>2 DEF SaleOnRecord
<1> QED BY <1>1, <1>2, AuthorityInvariant, OffersInvariant, PTL DEF Spec

-----------------------------------------------------------------------------
(* One live offer per name *)

(* The offers of one name are lodged on one connection, one after the other. *)
(* Without this LiveOfferUnique fails: see authority_both_lodge.             *)
LodgesInTurn ==
    \A c, d \in Conns : \A m \in Traffic[c] : \A w \in Traffic[d] :
        m.op = "lodge" /\ w.op = "lodge" /\ m.offer.name = w.offer.name => c = d

(* The table found at open has one live offer per name, at second 0.         *)
UniqueAtOpen ==
    \A o, p \in Offers :
        /\ o.name = p.name /\ o.exp >= 0 /\ p.exp >= 0
        /\ OffersAtOpen[o].status = "live" /\ OffersAtOpen[p].status = "live"
        => o = p

(* What the checks of a lodge found is so until its insert.                  *)
NoneLive(name, now) == \A o \in Offers : o.name = name => ~CountsAsLive(o, now)

LodgingOK(c) ==
    /\ pc[c] \in {"byName", "byAddress", "lodge"} => loc[c].now <= Now
    /\ pc[c] \in {"byAddress", "lodge"} => NoneLive(OfferOf(c).name, loc[c].now)

UniqueInv ==
    /\ Serving
    /\ LiveOfferUnique
    /\ \A c \in Conns : LodgingOK(c)

(* An offer turns live only in the insert that lodges it.                    *)
LEMMA LiveMoves ==
    ASSUME TransferInv, OffersInv, [Next]_vars, NEW o \in Offers, NEW now,
           CountsAsLive(o, now)'
    PROVE  \/ CountsAsLive(o, now)
           \/ \E c \in Conns : /\ LodgeInsert(c) /\ OfferOf(c) = o
                               /\ offers' = [offers EXCEPT ![o] = LiveOffer]
<1>1. OfferMoves(o) BY OffersMove
<1>2. CASE offers[o].status = "live" BY <1>2 DEF CountsAsLive
<1>3. CASE offers[o].status # "live"
  <2>1. offers'[o].status = "live" /\ o.exp >= now BY DEF CountsAsLive
  <2>2. ~UNCHANGED offers BY <1>3, <2>1
  <2>3. PICK c \in Conns : \/ LodgeInsert(c) \/ SettleMark(c) \/ RevokeMark(c)
                           \/ RevokeFlip(c) \/ SaleBy(c)
    BY <2>2, OffersWritten
  <2>4. StoreTypeOK BY PartsOK
  <2>5. offers \in [Offers -> OfferRow] BY <2>4 DEF StoreTypeOK
  <2>6. ~(SettleMark(c) \/ RevokeMark(c))
    BY <1>3, <2>1, <2>5 DEF SettleMark, RevokeMark, OffersMarked
  <2>7. ~(RevokeFlip(c) \/ SaleBy(c))
    BY <1>3, <2>1, <2>5 DEF RevokeFlip, SaleBy, OffersSet, OfferRow
  <2>8. LodgeInsert(c) /\ offers' = [offers EXCEPT ![OfferOf(c)] = LiveOffer]
    BY <2>2, <2>3, <2>6, <2>7 DEF LodgeInsert
  <2>9. OfferOf(c) = o BY <1>3, <2>1, <2>5, <2>8
  <2> QED BY <2>8, <2>9
<1> QED BY <1>2, <1>3

(* An offer that is live later was live, by the same clock, before.          *)
LEMMA LiveBefore ==
    ASSUME NEW o \in Offers, NEW a \in Nat, NEW b \in Nat, a <= b, CountsAsLive(o, b)
    PROVE  CountsAsLive(o, a)
<1>1. o.exp \in Int BY StoreAssumption DEF OfferType
<1> QED BY <1>1 DEF CountsAsLive

LEMMA ClockGrows ==
    ASSUME TransferInv, [Next]_vars
    PROVE  Now \in Nat /\ Now' \in Nat /\ Now <= Now'
<1>1. TransferInv' BY AuthorityStepOK
<1>2. LimitsTypeOK /\ LimitsTypeOK' BY <1>1, PartsOK DEF TransferInv, ServerInv, ServerTypeOK
<1>3. clock \in Nat /\ clock' \in Nat BY <1>2, LimitsAssumption DEF LimitsTypeOK
<1>4. Now \in Nat BY <1>2, NowOK
<1>5. Now' \in Nat
  <2>1. PICK t \in Nat : t = clock' BY <1>3
  <2>2. t \div TicksPerSec \in Nat BY LimitsAssumption
  <2> QED BY <2>1, <2>2 DEF Now, Secs
<1>6. CASE UNCHANGED clock BY <1>4, <1>6 DEF Now, Secs
<1>7. CASE clock' = clock + 1
  <2>1. Secs(clock + 1) >= Secs(clock) BY <1>3, SecsGrow
  <2> QED BY <1>4, <1>5, <1>7, <2>1 DEF Now, Secs
<1>8. UNCHANGED clock \/ clock' = clock + 1
  <2>1. ASSUME NEW c \in Conns, Handler(c) \/ Drop(c) PROVE UNCHANGED clock
    BY <2>1, RegistryMoves, TransferMoves, DropMoves DEF Handler, Authenticate
  <2>2. Arrive => UNCHANGED clock BY DEF Arrive, Admit, RateLimited
  <2>3. Chain \/ UNCHANGED vars => UNCHANGED clock BY DEF Chain, vars, serverVars, limitVars
  <2>4. Restart => UNCHANGED clock BY DEF Restart, Forget
  <2>5. ServerTick => clock' = clock + 1 BY DEF ServerTick, Tick
  <2> QED BY <2>1, <2>2, <2>3, <2>4, <2>5 DEF Next
<1> QED BY <1>4, <1>5, <1>6, <1>7, <1>8

(* The lodge that inserts found no live offer of the name and finds none now.*)
LEMMA LodgeKeepsUnique ==
    ASSUME TransferInv, OffersInv, UniqueInv, [Next]_vars
    PROVE  LiveOfferUnique'
<1>1. Now \in Nat /\ Now' \in Nat /\ Now <= Now' BY ClockGrows
<1>2. ASSUME NEW o \in Offers, CountsAsLive(o, Now)'
      PROVE  \/ CountsAsLive(o, Now)
             \/ \E c \in Conns : /\ LodgeInsert(c) /\ OfferOf(c) = o
                                 /\ offers' = [offers EXCEPT ![o] = LiveOffer]
  <2>1. PICK later \in Nat : later = Now' BY <1>1
  <2>2. CountsAsLive(o, later)' BY <1>2, <2>1 DEF CountsAsLive
  <2>3. CASE CountsAsLive(o, later) BY <1>1, <2>1, <2>3, LiveBefore
  <2>4. CASE ~CountsAsLive(o, later) BY <2>2, <2>4, LiveMoves
  <2> QED BY <2>3, <2>4
<1>3. ASSUME NEW o \in Offers, NEW c \in Conns, LodgeInsert(c), OfferOf(c) = o,
             NEW p \in Offers, p.name = o.name
      PROVE  ~CountsAsLive(p, Now)
  <2>1. pc[c] = "lodge" BY <1>3 DEF LodgeInsert
  <2>2. loc[c].now <= Now /\ NoneLive(o.name, loc[c].now)
    BY <1>3, <2>1 DEF UniqueInv, LodgingOK
  <2>3. loc[c].now \in Nat BY PartsOK DEF Locals
  <2> QED BY <1>1, <1>3, <2>2, <2>3, LiveBefore DEF NoneLive
<1>4. ASSUME NEW o \in Offers, NEW p \in Offers, o # p, o.name = p.name,
             CountsAsLive(o, Now)', CountsAsLive(p, Now)', ~CountsAsLive(o, Now)
      PROVE  FALSE
  <2>1. PICK c \in Conns : /\ LodgeInsert(c) /\ OfferOf(c) = o
                           /\ offers' = [offers EXCEPT ![o] = LiveOffer]
    BY <1>2, <1>4
  <2>2. ~CountsAsLive(p, Now) BY <1>3, <1>4, <2>1
  <2>3. PICK d \in Conns : offers' = [offers EXCEPT ![p] = LiveOffer]
    BY <1>2, <1>4, <2>2
  <2>4. offers \in [Offers -> OfferRow] BY PartsOK DEF StoreTypeOK
  <2>5. offers'[p] = offers[p] BY <1>4, <2>1, <2>4
  <2>6. CountsAsLive(p, Now')
    BY <1>4, <2>5 DEF CountsAsLive
  <2> QED BY <1>1, <2>2, <2>6, LiveBefore
<1> SUFFICES ASSUME NEW o \in Offers, NEW p \in Offers, o # p, o.name = p.name,
                    CountsAsLive(o, Now)', CountsAsLive(p, Now)'
             PROVE  FALSE
  BY DEF LiveOfferUnique
<1>5. CountsAsLive(o, Now) /\ CountsAsLive(p, Now) BY <1>4
<1> QED BY <1>5 DEF UniqueInv, LiveOfferUnique

(* While a lodge goes on, no other one inserts an offer of its name: it      *)
(* would have to come on the same connection.                                *)
LEMMA LodgingWaits ==
    ASSUME LodgesInTurn, TransferInv, OffersInv, UniqueInv, [Next]_vars, NEW c \in Conns,
           pc'[c] = pc[c], msg'[c] = msg[c], loc'[c] = loc[c], ~LodgeInsert(c)
    PROVE  LodgingOK(c)'
<1>1. ConnOK BY PartsOK
<1>2. Now \in Nat /\ Now' \in Nat /\ Now <= Now' BY ClockGrows
<1>3. loc[c].now \in Nat BY PartsOK DEF Locals
<1>4. pc'[c] \in {"byName", "byAddress", "lodge"} => loc'[c].now <= Now'
  BY <1>2, <1>3 DEF UniqueInv, LodgingOK
<1>5. ASSUME pc[c] \in {"byAddress", "lodge"}, NEW p \in Offers,
             p.name = OfferOf(c).name, CountsAsLive(p, loc[c].now)'
      PROVE  FALSE
  <2>1. PICK now \in Nat : now = loc[c].now BY <1>3
  <2>2. CountsAsLive(p, now)' BY <1>5, <2>1 DEF CountsAsLive
  <2>3. ~CountsAsLive(p, now) BY <1>5, <2>1 DEF UniqueInv, LodgingOK, NoneLive
  <2>4. PICK d \in Conns : LodgeInsert(d) /\ OfferOf(d) = p BY <2>2, <2>3, LiveMoves
  <2>5. pc[d] = "lodge" /\ pc[c] # "idle" BY <1>5, <2>4 DEF LodgeInsert
  <2>6. msg[c] \in Traffic[c] /\ msg[d] \in Traffic[d] BY <2>5 DEF UniqueInv, Serving
  <2>7. msg[c].op = "lodge" /\ msg[d].op = "lodge"
    BY <1>1, <1>5, <2>5, AtStage DEF LodgeStages
  <2>8. msg[c].offer.name = msg[d].offer.name BY <1>5, <2>4 DEF OfferOf
  <2>9. c = d BY <2>6, <2>7, <2>8 DEF LodgesInTurn
  <2> QED BY <2>4, <2>9
<1>6. pc'[c] \in {"byAddress", "lodge"} => NoneLive(OfferOf(c).name, loc[c].now)'
  BY <1>5 DEF NoneLive, OfferOf, CountsAsLive
<1> QED BY <1>4, <1>6 DEF LodgingOK

LEMMA LodgingElsewhere ==
    ASSUME NEW c \in Conns, pc'[c] \notin {"byName", "byAddress", "lodge"}
    PROVE  LodgingOK(c)'
BY DEF LodgingOK

(* The handler that acts: the clock it goes by is the one of its first       *)
(* check, and without failing statements what a check finds is so.           *)
LEMMA LodgingKeeps ==
    ASSUME ~DbFaults, TransferInv, NEW c \in Conns, LodgingOK(c), Handler(c) \/ Drop(c)
    PROVE  LodgingOK(c)'
<1>1. ConnOK /\ ConnTypeOK /\ loc \in [Conns -> Locals] /\ Now \in Nat
  BY PartsOK DEF ConnOK
<1> DEFINE Stages1 == {"byName", "byAddress", "lodge"}
<1>2. CASE pc'[c] \notin Stages1 BY <1>2, LodgingElsewhere
<1>3. CASE pc'[c] \in Stages1
  <2>1. ASSUME NEW status PROVE ~Reply(c, status)
    BY <1>1, <1>3 DEF Reply, ConnTypeOK
  <2>2. ASSUME NEW stage, Goto(c, stage) PROVE stage \in Stages1
    BY <1>1, <1>3, <2>2 DEF Goto, ConnTypeOK
  <2>3. ~Authenticate(c) BY <2>1, <2>2 DEF Authenticate, Signed
  <2>4. ~RegistryStep(c)
    BY <2>1, <2>2 DEF RegistryStep, RegisterCooldown, RegisterLookup, RegisterNameOf,
       RegisterInsert, ReleaseOwner, ReleaseUpdate, ReleaseRecord, Resolve, ReverseResolve
  <2>5. ASSUME NEW row, NEW now PROVE ~ActOn(c, row, now) BY <2>1, <2>2 DEF ActOn
  <2>6. ~(ReadOfferRow(c) \/ SettleTip(c) \/ SettleMark(c) \/ SettleReread(c))
    <3>1. ReadOfferRow(c) => \/ Reply(c, 400) \/ Reply(c, 404) \/ Goto(c, "tip")
                             \/ \E row : ActOn(c, row, Now)
      BY DEF ReadOfferRow
    <3>2. ~ReadOfferRow(c) BY <2>1, <2>2, <2>5, <3>1
    <3>3. ~SettleReread(c) BY <2>5 DEF SettleReread
    <3> QED BY <2>2, <3>2, <3>3 DEF SettleTip, SettleMark
  <2>7. ~(RevokeRead(c) \/ RevokeTip(c) \/ RevokeMark(c) \/ RevokeFlip(c))
    <3>1. RevokeRead(c) => \/ \E status : Reply(c, status)
                           \/ Goto(c, "flip") \/ Goto(c, "revokeTip")
      BY DEF RevokeRead
    <3> QED BY <2>1, <2>2, <3>1 DEF RevokeTip, RevokeMark, RevokeFlip
  <2>8. ~(ClaimSold(c) \/ ClaimExcess(c) \/ ClaimBuyer(c) \/ ClaimTxn(c) \/ ClaimRecord(c))
    BY <2>1, <2>2 DEF ClaimSold, ClaimExcess, ClaimBuyer, ClaimTxn, ClaimRecord
  <2>9. ~(ClaimSeller(c) \/ ClaimKernel(c) \/ ClaimDepth(c))
    <3>1. ClaimSeller(c) => Goto(c, "kernel") \/ \E status : Reply(c, status)
      BY DEF ClaimSeller
    <3>2. ClaimKernel(c) => Goto(c, "depth") \/ Reply(c, 409) BY DEF ClaimKernel
    <3>3. ClaimDepth(c) => Goto(c, "excess") \/ Reply(c, 409) \/ Reply(c, 410)
      BY DEF ClaimDepth
    <3> QED BY <2>1, <2>2, <3>1, <3>2, <3>3
  <2>10. ~AskNext(c) BY <2>2 DEF AskNext, Asking
  <2>11. LodgeTerms(c) \/ LodgeByName(c) \/ LodgeByAddress(c)
    BY <2>1, <2>3, <2>4, <2>6, <2>7, <2>8, <2>9, <2>10
    DEF Handler, TransferStep, Drop, LodgeInsert
  <2>12. /\ UNCHANGED <<clock, offers>> /\ Now' = Now
         /\ msg'[c] = msg[c] /\ OfferOf(c)' = OfferOf(c)
    BY <2>1, <2>11 DEF LodgeTerms, LodgeByName, LodgeByAddress, Goto, OfferOf, storeVars,
       limitVars, Now, Secs
  <2>13. CASE LodgeTerms(c)
    <3>1. Goto(c, "byName") /\ loc' = [loc EXCEPT ![c].now = Now]
      BY <2>1, <2>13 DEF LodgeTerms
    <3>2. pc'[c] = "byName" BY <1>1, <3>1 DEF Goto, ConnTypeOK
    <3>3. loc'[c].now = Now BY <1>1, <3>1 DEF Locals
    <3> QED BY <1>1, <2>12, <3>2, <3>3 DEF LodgingOK
  <2>14. CASE LodgeByName(c)
    <3>1. pc'[c] = "byAddress" /\ loc'[c] = loc[c] /\ pc[c] = "byName"
      BY <1>1, <2>1, <2>14 DEF LodgeByName, Goto, ConnTypeOK
    <3>2. FALSE \in LiveOfferForName(OfferOf(c).name, loc[c].now)
      BY <2>1, <2>14 DEF LodgeByName, LiveOfferForName, OrFault
    <3>3. NoneLive(OfferOf(c).name, loc[c].now)
      BY <3>2 DEF LiveOfferForName, OrFault, NoneLive
    <3>4. NoneLive(OfferOf(c).name, loc[c].now)'
      BY <2>12, <3>1, <3>3 DEF NoneLive, CountsAsLive
    <3> QED BY <2>12, <3>1, <3>4 DEF LodgingOK
  <2>15. CASE LodgeByAddress(c)
    <3>1. pc'[c] = "lodge" /\ loc'[c] = loc[c] /\ pc[c] = "byAddress"
      BY <1>1, <2>1, <2>15 DEF LodgeByAddress, Goto, ConnTypeOK
    <3>2. NoneLive(OfferOf(c).name, loc[c].now)'
      BY <2>12, <3>1 DEF LodgingOK, NoneLive, CountsAsLive
    <3> QED BY <2>12, <3>1, <3>2 DEF LodgingOK
  <2> QED BY <2>11, <2>13, <2>14, <2>15
<1> QED BY <1>2, <1>3

LEMMA UniqueStepOK ==
    ASSUME ~DbFaults, LodgesInTurn
    PROVE  TransferInv /\ OffersInv /\ UniqueInv /\ [Next]_vars => UniqueInv'
<1> SUFFICES ASSUME TransferInv, OffersInv, UniqueInv, [Next]_vars PROVE UniqueInv' OBVIOUS
<1>1. ConnOK /\ ConnTypeOK BY PartsOK DEF ConnOK
<1>2. Serving' BY ServingStep DEF UniqueInv
<1>3. LiveOfferUnique' BY LodgeKeepsUnique
<1>4. ASSUME NEW d \in Conns PROVE LodgingOK(d)'
  <2>1. LodgingOK(d) BY DEF UniqueInv
  <2>2. CASE LodgeInsert(d)
    <3>1. pc'[d] = "idle" BY <1>1, <2>2 DEF LodgeInsert, Reply, ConnTypeOK
    <3> QED BY <3>1, LodgingElsewhere
  <2>3. ASSUME pc'[d] = pc[d], msg'[d] = msg[d], loc'[d] = loc[d] PROVE LodgingOK(d)'
    BY <2>2, <2>3, LodgingWaits
  <2>4. CASE ServerTick \/ Chain \/ UNCHANGED vars
    BY <2>3, <2>4 DEF ServerTick, Chain, vars, serverVars, connVars
  <2>5. CASE Restart BY <2>5, LodgingElsewhere DEF Restart
  <2>6. ASSUME NEW c \in Conns, NEW m \in Traffic[c], Admit(c, m) \/ RateLimited(c, m)
        PROVE  LodgingOK(d)'
    <3>1. CASE d # c
      BY <1>1, <2>3, <2>6, <3>1 DEF Admit, RateLimited, Reply, ConnTypeOK
    <3>2. CASE d = c
      <4>1. pc'[c] \in {"idle", FirstStage(m)}
        BY <1>1, <2>6 DEF Admit, RateLimited, Reply, ConnTypeOK
      <4>2. FirstStage(m) \notin {"byName", "byAddress", "lodge"} BY DEF FirstStage
      <4> QED BY <3>2, <4>1, <4>2, LodgingElsewhere
    <3> QED BY <3>1, <3>2
  <2>7. ASSUME NEW c \in Conns, Handler(c) \/ Drop(c) PROVE LodgingOK(d)'
    BY <1>1, <2>1, <2>3, <2>7, LodgingKeeps, OthersStay
  <2> QED BY <2>4, <2>5, <2>6, <2>7 DEF Next, Arrive
<1> QED BY <1>2, <1>3, <1>4 DEF UniqueInv

(* At most one live offer per name, if the offers of a name are lodged one   *)
(* after the other and the checks can read the table: there is no index      *)
(* behind them, and a failing read counts as "no other offer".               *)
THEOREM AuthorityLiveOfferUnique ==
    ASSUME ~DbFaults, LodgesInTurn, UniqueAtOpen
    PROVE  Spec => []LiveOfferUnique
<1>1. Init => UniqueInv
  <2> SUFFICES ASSUME Init PROVE UniqueInv OBVIOUS
  <2>1. \A c \in Conns : pc[c] = "idle" BY DEF Init, ServerInit
  <2>2. Now = 0
    <3>1. 0 \div TicksPerSec = 0 BY LimitsAssumption
    <3> QED BY <3>1 DEF Init, ServerInit, LimitsInit, Now, Secs
  <2>3. offers = OffersAtOpen BY DEF Init, ServerInit, StoreInit
  <2>4. LiveOfferUnique
    BY <2>2, <2>3 DEF LiveOfferUnique, CountsAsLive, UniqueAtOpen
  <2> QED BY <2>1, <2>4 DEF UniqueInv, Serving, LodgingOK
<1>2. TransferInv /\ OffersInv /\ UniqueInv /\ [Next]_vars => UniqueInv' BY UniqueStepOK
<1>3. UniqueInv => LiveOfferUnique BY DEF UniqueInv
<1> QED BY <1>1, <1>2, <1>3, AuthorityInvariant, OffersInvariant, PTL DEF Spec

-----------------------------------------------------------------------------
(* Who releases, and what a cooldown blocks, with transfers on *)

(* A step is one of the registry, or one of the marketplace.                 *)
LEMMA StepKinds ==
    ASSUME [Next]_vars
    PROVE  \/ [RegistryNext]_serverVars
           \/ \E c \in Conns : TransferStep(c) \/ Drop(c)
BY DEF Next, Handler, Chain, vars, RegistryNext, RegistryHandler

(* While a claim is answered its sale is on record.                          *)
SaleKnown(c) == pc[c] = "armSeller" => \E t \in transfers : t.offer = OfferOf(c)

LEMMA WhoArms ==
    ASSUME ConnTypeOK, NEW c \in Conns, Handler(c) \/ Drop(c), pc'[c] = "armSeller"
    PROVE  SaleBy(c)
<1>1. ASSUME NEW status PROVE ~Reply(c, status) BY <1>1 DEF Reply, ConnTypeOK
<1>2. ASSUME NEW stage, Goto(c, stage) PROVE stage = "armSeller"
  BY <1>2 DEF Goto, ConnTypeOK
<1>3. ~Authenticate(c) BY <1>1, <1>2 DEF Authenticate, Signed
<1>4. ~RegistryStep(c)
  BY <1>1, <1>2 DEF RegistryStep, RegisterCooldown, RegisterLookup, RegisterNameOf,
     RegisterInsert, ReleaseOwner, ReleaseUpdate, ReleaseRecord, Resolve, ReverseResolve
<1>5. ~(LodgeTerms(c) \/ LodgeByName(c) \/ LodgeByAddress(c) \/ LodgeInsert(c))
  BY <1>1, <1>2 DEF LodgeTerms, LodgeByName, LodgeByAddress, LodgeInsert
<1>6. ASSUME NEW row, NEW now PROVE ~ActOn(c, row, now) BY <1>1, <1>2 DEF ActOn
<1>7. ~(ReadOfferRow(c) \/ SettleTip(c) \/ SettleMark(c) \/ SettleReread(c))
  <2>1. ReadOfferRow(c) => \/ Reply(c, 400) \/ Reply(c, 404) \/ Goto(c, "tip")
                           \/ \E row : ActOn(c, row, Now)
    BY DEF ReadOfferRow
  <2>2. ~ReadOfferRow(c) BY <1>1, <1>2, <1>6, <2>1
  <2>3. ~SettleReread(c) BY <1>6 DEF SettleReread
  <2> QED BY <1>2, <2>2, <2>3 DEF SettleTip, SettleMark
<1>8. ~(RevokeRead(c) \/ RevokeTip(c) \/ RevokeMark(c) \/ RevokeFlip(c))
  <2>1. RevokeRead(c) => \/ \E status : Reply(c, status)
                         \/ Goto(c, "flip") \/ Goto(c, "revokeTip")
    BY DEF RevokeRead
  <2> QED BY <1>1, <1>2, <2>1 DEF RevokeTip, RevokeMark, RevokeFlip
<1>9. ~(ClaimSold(c) \/ ClaimExcess(c) \/ ClaimBuyer(c) \/ ClaimRecord(c) \/ Drop(c))
  BY <1>1, <1>2 DEF ClaimSold, ClaimExcess, ClaimBuyer, ClaimRecord, Drop
<1>10. ~(ClaimSeller(c) \/ ClaimKernel(c) \/ ClaimDepth(c))
  <2>1. ClaimSeller(c) => Goto(c, "kernel") \/ \E status : Reply(c, status)
    BY DEF ClaimSeller
  <2>2. ClaimKernel(c) => Goto(c, "depth") \/ Reply(c, 409) BY DEF ClaimKernel
  <2>3. ClaimDepth(c) => Goto(c, "excess") \/ Reply(c, 409) \/ Reply(c, 410)
    BY DEF ClaimDepth
  <2> QED BY <1>1, <1>2, <2>1, <2>2, <2>3
<1>11. ~AskNext(c)
  <2>1. AskNext(c) => pc[c] \in Asking /\ (Goto(c, pc[c]) \/ Goto(c, "kernel")) BY DEF AskNext
  <2>2. "armSeller" \notin Asking BY DEF Asking
  <2> QED BY <1>2, <2>1, <2>2
<1>12. ClaimTxn(c) BY <1>3, <1>4, <1>5, <1>7, <1>8, <1>9, <1>10, <1>11 DEF Handler, TransferStep
<1> QED BY <1>1, <1>12 DEF ClaimTxn, SaleBy

LEMMA SaleKnownStep ==
    ASSUME TransferInv, [Next]_vars, NEW d \in Conns, SaleKnown(d)
    PROVE  SaleKnown(d)'
<1>1. ConnTypeOK BY PartsOK DEF ConnOK
<1>2. transfers \subseteq transfers' BY SalesKept
<1>3. ASSUME pc'[d] = pc[d], msg'[d] = msg[d] PROVE SaleKnown(d)'
  BY <1>2, <1>3 DEF SaleKnown, OfferOf
<1>4. ASSUME pc'[d] # "armSeller" PROVE SaleKnown(d)' BY <1>4 DEF SaleKnown
<1>5. CASE ServerTick \/ Chain \/ UNCHANGED vars
  BY <1>3, <1>5 DEF ServerTick, Chain, vars, serverVars, connVars
<1>6. CASE Restart BY <1>4, <1>6 DEF Restart
<1>7. ASSUME NEW c \in Conns, NEW m \in Traffic[c], Admit(c, m) \/ RateLimited(c, m)
      PROVE  SaleKnown(d)'
  <2>1. CASE d # c
    BY <1>1, <1>3, <1>7, <2>1 DEF Admit, RateLimited, Reply, ConnTypeOK
  <2>2. CASE d = c
    <3>1. pc'[c] \in {"idle", FirstStage(m)}
      BY <1>1, <1>7 DEF Admit, RateLimited, Reply, ConnTypeOK
    <3>2. FirstStage(m) # "armSeller" BY DEF FirstStage
    <3> QED BY <1>4, <2>2, <3>1, <3>2
  <2> QED BY <2>1, <2>2
<1>8. ASSUME NEW c \in Conns, Handler(c) \/ Drop(c) PROVE SaleKnown(d)'
  <2>1. CASE d # c BY <1>1, <1>3, <1>8, <2>1, OthersStay
  <2>2. CASE d = c /\ pc'[c] # "armSeller" BY <1>4, <2>2
  <2>3. CASE d = c /\ pc'[c] = "armSeller"
    <3>1. SaleBy(c) BY <1>1, <1>8, <2>3, WhoArms
    <3>2. \E t \in transfers' : t.offer = OfferOf(c) BY <3>1, SaleConsumes
    <3>3. OfferOf(c)' = OfferOf(c) BY <3>1 DEF SaleBy, Goto, OfferOf
    <3> QED BY <2>3, <3>2, <3>3 DEF SaleKnown
  <2> QED BY <2>1, <2>2, <2>3
<1> QED BY <1>5, <1>6, <1>7, <1>8 DEF Next, Arrive

(* A sale that takes a name from under a release is on record.               *)
LEMMA OwnerUntilSale ==
    ASSUME TransferInv, NEW c \in Conns, SaleBy(c), NEW n \in Names
    PROVE  Owner(n)' = Owner(n) \/ Sold(n)'
<1>1. StoreTypeOK /\ ConnOK BY PartsOK
<1>2. OfferOf(c).name \in Names /\ OfferOf(c).buyer \in Keys
  BY <1>1, AtStage DEF SaleBy, ClaimStages
<1>3. CASE OfferOf(c).name = n BY <1>3, SaleConsumes DEF Sold
<1>4. CASE OfferOf(c).name # n
  <2>1. names'[n] = names[n] BY <1>1, <1>4 DEF SaleBy, NamesWith, StoreTypeOK
  <2> QED BY <2>1 DEF Owner
<1> QED BY <1>3, <1>4

(* The marketplace puts no key in cooldown but the seller of a sale.         *)
LEMMA QuietUntilSale ==
    ASSUME TransferInv, NEW c \in Conns, TransferStep(c) \/ Drop(c), SaleKnown(c),
           NEW k, ~CooldownActive(k)
    PROVE  ~CooldownActive(k)' \/ SoldBy(k)
<1>1. RegistryInv BY PartsOK DEF TransferInv, RegistryInv
<1>2. clock \in Nat /\ RateOK(rate) BY <1>1, StageRequest
<1>3. UNCHANGED clock BY TransferMoves, DropMoves
<1>4. CASE UNCHANGED rate
  <2> DEFINE e == <<"namechange", k>>
  <2>1. e \in DOMAIN rate' => e \in DOMAIN rate /\ DOMAIN rate'[e] \subseteq DOMAIN rate[e]
    BY <1>4
  <2> QED BY <1>2, <1>3, <2>1, StaysQuiet
<1>5. CASE ClaimRecord(c)
  <2>1. pc[c] = "armSeller" /\ rate' = RateAfterRecord(OfferOf(c).seller)
    BY <1>5 DEF ClaimRecord
  <2>2. CASE OfferOf(c).seller = k BY <2>1, <2>2 DEF SaleKnown, SoldBy
  <2>3. CASE OfferOf(c).seller # k BY <1>2, <1>3, <2>1, <2>3, RecordQuiet
  <2> QED BY <2>2, <2>3
<1> QED
  BY <1>4, <1>5 DEF TransferStep, Drop, AskNext, LodgeTerms, LodgeByName, LodgeByAddress,
     LodgeInsert, ReadOfferRow, SettleTip, SettleMark, SettleReread, RevokeRead,
     RevokeTip, RevokeMark, RevokeFlip, ClaimSold, ClaimSeller, ClaimKernel, ClaimDepth,
     ClaimExcess, ClaimBuyer, ClaimTxn, limitVars

(* What the handlers of the registry have found out survives the steps of    *)
(* the marketplace, or the sale is on record that undid it.                  *)
LEMMA OrderlyTransfers ==
    ASSUME TransferInv, OrderlyInv, \A c \in Conns : SaleKnown(c), NEW c \in Conns,
           TransferStep(c) \/ Drop(c), transfers \subseteq transfers'
    PROVE  OrderlyInv'
<1>1. ConnOK /\ ConnTypeOK BY PartsOK DEF ConnOK
<1>2. Orderly(c)'
  <2>1. pc[c] \notin {"idle", "auth"} /\ Moves(c) BY TransferMoves, DropMoves
  <2>2. pc'[c] = "idle" \/ (msg'[c] = msg[c] /\ msg[c] \in Traffic[c])
    BY <1>1, <2>1 DEF Moves, Goto, Reply, ConnTypeOK, OrderlyInv, Orderly
  <2>3. msg[c].op \notin RegistryWrites
    <3>1. pc[c] \in LodgeStages \cup RevokeStages \cup SettleStages \cup ClaimStages
      BY DEF TransferStep, Drop, Asking, AskNext, LodgeTerms, LodgeByName, LodgeByAddress,
         LodgeInsert, ReadOfferRow, SettleTip, SettleMark, SettleReread, RevokeRead,
         RevokeTip, RevokeMark, RevokeFlip, ClaimSold, ClaimSeller, ClaimKernel,
         ClaimDepth, ClaimExcess, ClaimBuyer, ClaimTxn, ClaimRecord, LodgeStages,
         RevokeStages, SettleStages, ClaimStages
    <3> QED BY <1>1, <3>1, AtStage DEF RegistryWrites
  <2>4. StagesMatch'
    <3>1. TransferInv' BY TransferStepOK, DropOK
    <3> QED BY <3>1 DEF TransferInv, ServerInv
  <2>5. pc'[c] \notin {"update", "lookup", "nameOf", "insert"}
    BY <2>2, <2>3, <2>4 DEF StagesMatch, Fits, RegistryWrites, RegisterStages, ReleaseStages
  <2> QED BY <2>2, <2>5, OrderlyElsewhere
<1>3. ASSUME NEW d \in Conns, d # c PROVE Orderly(d)'
  <2>1. pc'[d] = pc[d] /\ msg'[d] = msg[d]
    BY <1>1, <1>3, OthersStay DEF Handler
  <2>2. PICK m : m = msg[d] OBVIOUS
  <2>3. PICK k : k = m.key OBVIOUS
  <2>4. pc[d] = "update" /\ Owns(k, m.name) => Owns(k, m.name)'
    <3> SUFFICES ASSUME pc[d] = "update", Owns(k, m.name) PROVE Owns(k, m.name)' OBVIOUS
    <3>1. RegistryInv BY PartsOK DEF TransferInv, RegistryInv
    <3>2. PICK n \in Names : n = m.name BY <2>2, <3>1, StageRequest DEF ReleaseStages
    <3>3. CASE UNCHANGED <<names, transfers>> BY <3>3, OwnsFrame
    <3>4. CASE SaleBy(c)
      <4>1. Owner(n)' = Owner(n) \/ Sold(n)' BY <3>4, OwnerUntilSale
      <4> QED BY <3>2, <4>1, OwnsSales
    <3> QED BY <3>3, <3>4, OnlySales
  <2>5. Quiet(k) => Quiet(k)'
    <3>1. CASE SoldBy(k) BY <3>1 DEF Quiet, SoldBy
    <3>2. CASE ~CooldownActive(k)
      <4>1. ~CooldownActive(k)' \/ SoldBy(k) BY <3>2, QuietUntilSale
      <4> QED BY <4>1 DEF Quiet, SoldBy
    <3> QED BY <3>1, <3>2 DEF Quiet
  <2> QED BY <2>1, <2>2, <2>3, <2>4, <2>5, OrderlyStays DEF OrderlyInv
<1> QED BY <1>2, <1>3 DEF OrderlyInv

OrderlySalesInv == OrderlyInv /\ \A c \in Conns : SaleKnown(c)

LEMMA AuthorityOrderly ==
    ASSUME OneRequestAtATime PROVE Spec => []OrderlySalesInv
<1>1. Init => OrderlySalesInv
  <2>1. Init => OrderlyInv BY OrderlyInit DEF Init, RegistryInit
  <2>2. Init => \A c \in Conns : SaleKnown(c) BY DEF Init, ServerInit, SaleKnown
  <2> QED BY <2>1, <2>2 DEF OrderlySalesInv
<1>2. TransferInv /\ OrderlySalesInv /\ [Next]_vars => OrderlySalesInv'
  <2> SUFFICES ASSUME TransferInv, OrderlySalesInv, [Next]_vars PROVE OrderlySalesInv'
    OBVIOUS
  <2>1. \A c \in Conns : SaleKnown(c)' BY SaleKnownStep DEF OrderlySalesInv
  <2>2. ASSUME [RegistryNext]_serverVars PROVE OrderlyInv'
    <3>1. RegistryInv /\ OrderlyInv BY DEF TransferInv, RegistryInv, OrderlySalesInv
    <3> QED BY <2>2, <3>1, OrderlyStepOK
  <2>3. ASSUME NEW c \in Conns, TransferStep(c) \/ Drop(c) PROVE OrderlyInv'
    BY <2>3, SalesKept, OrderlyTransfers DEF OrderlySalesInv
  <2> QED BY <2>1, <2>2, <2>3, StepKinds DEF OrderlySalesInv
<1> QED BY <1>1, <1>2, AuthorityInvariant, PTL DEF Spec

(* The marketplace releases no name and takes up none that is released.      *)
LEMMA SalesKeepActive ==
    ASSUME TransferInv, NEW c \in Conns, TransferStep(c) \/ Drop(c), NEW n \in Names
    PROVE  names'[n].released <=> names[n].released
<1>1. StoreTypeOK /\ ConnOK BY PartsOK
<1>2. CASE SaleBy(c)
  <2>1. OfferOf(c).seller \in Keys /\ Owner(OfferOf(c).name) = OfferOf(c).seller
    BY <1>1, <1>2, AtStage DEF SaleBy, MaySell, ClaimStages
  <2>2. ~names[OfferOf(c).name].released BY <2>1, NoKeyAssumption DEF Owner
  <2>3. CASE n = OfferOf(c).name
    <3>1. ~names'[n].released BY <1>1, <1>2, <2>3 DEF SaleBy, NamesWith, StoreTypeOK
    <3> QED BY <2>2, <2>3, <3>1
  <2>4. CASE n # OfferOf(c).name
    <3>1. names'[n] = names[n] BY <1>1, <1>2, <2>4 DEF SaleBy, NamesWith, StoreTypeOK
    <3> QED BY <3>1
  <2> QED BY <2>3, <2>4
<1> QED BY <1>2, OnlySales

(* With transfers on, and with claims, settles and restarts overlapping as   *)
(* they like, a name that is not sold is released only by a handler that     *)
(* serves its owner, as long as a key that releases has one request of the   *)
(* registry under way at a time.                                             *)
THEOREM AuthorityOwnerReleasesUnsold ==
    ASSUME OneRequestAtATime PROVE Spec => OwnerReleasesUnsold
<1> DEFINE ByOwner == \A n \in Names :
        ~names[n].released /\ names'[n].released /\ ~Sold(n)
            => \E c \in Conns : /\ pc[c] = "update" /\ pc'[c] = "arm"
                                /\ msg[c].name = n
                                /\ msg[c].key = names[n].pubkey
<1>1. TransferInv /\ OrderlyInv /\ [Next]_vars => ByOwner
  BY StepKinds, OwnerReleases, SalesKeepActive DEF TransferInv, RegistryInv
<1>2. TransferInv /\ OrderlySalesInv /\ [Next]_vars => [ByOwner]_vars
  BY <1>1 DEF OrderlySalesInv
<1> QED BY <1>2, AuthorityOrderly, AuthorityInvariant, PTL DEF Spec, OwnerReleasesUnsold

(* And no name goes to a key that has sold none, while a release of it is on *)
(* record less than the cooldown ago. A key that sells while a registration  *)
(* of its own is past the check may still register.                          *)
CooldownBlocksUnsold ==
    [][\A n \in Names :
        names[n].released /\ ~names'[n].released /\ ~SoldBy(names'[n].pubkey)
            => ~CooldownActive(names'[n].pubkey)]_vars

THEOREM AuthorityCooldownBlocksUnsold ==
    ASSUME OneRequestAtATime PROVE Spec => CooldownBlocksUnsold
<1> DEFINE Blocks == \A n \in Names :
        names[n].released /\ ~names'[n].released /\ ~SoldBy(names'[n].pubkey)
            => ~CooldownActive(names'[n].pubkey)
<1>1. TransferInv /\ OrderlyInv /\ [Next]_vars => Blocks
  BY StepKinds, QuietTakes, SalesKeepActive DEF TransferInv, RegistryInv
<1>2. TransferInv /\ OrderlySalesInv /\ [Next]_vars => [Blocks]_vars
  BY <1>1 DEF OrderlySalesInv
<1> QED BY <1>2, AuthorityOrderly, AuthorityInvariant, PTL DEF Spec, CooldownBlocksUnsold
=============================================================================
