------------------------------- MODULE Store --------------------------------
(* The SQLite tables of src/src/db.rs and the statements run on them. The    *)
(* connection sits behind one mutex and every statement commits on its own,  *)
(* so each operator below is one atomic step; the claim transaction is the   *)
(* one place where several share a step. created_at, released_at and         *)
(* claimed_at are written and never read by a handler: only their being NULL *)
(* matters.                                                                  *)
EXTENDS PaymentProof, FiniteSets

CONSTANTS
    Names,
    Offers,         \* signed kind-3402 events, see OfferType
    HalfWord,       \* 2^63: where a u64 price turns negative as an i64
    DbFaults,       \* TRUE: a statement may fail (I/O error, busy, disk full)
    NamesAtOpen,    \* the tables found on disk when the process is started
    OffersAtOpen

VARIABLES names, offers, transfers

storeVars == <<names, offers, transfers>>

NameRow == [pubkey : Keys \cup {NoKey}, released : BOOLEAN]
NoName == [pubkey |-> NoKey, released |-> TRUE]

(* An offer event is its own id: the id hashes every field. form is what the *)
(* parser of lodge_offer makes of it.                                        *)
OfferForms == {"ok", "unsigned", "badTerms"}
OfferType == [name : Names, seller : Keys, buyer : Keys, price : Nat,
              addr : Address, exp : Int, form : OfferForms]

Statuses == {"absent", "live", "consumed", "revoked", "expired"}
OfferRow == [status : Statuses, end : Nat \cup {None}, changed : Nat \cup {None}]
NoOffer == [status |-> "absent", end |-> None, changed |-> None]
LiveOffer == [NoOffer EXCEPT !.status = "live"]

TransferRow == [offer : Offers, excess : Excesses, height : Nat \cup {None}]

(* At most one active row for a key: what idx_active_pubkey enforces. *)
UniqueOwners(table) ==
    \A m, n \in Names :
        ~table[m].released /\ ~table[n].released /\ table[m].pubkey = table[n].pubkey
            => m = n

ASSUME StoreAssumption ==
    /\ Offers \subseteq OfferType
    /\ HalfWord \in Nat \ {0} /\ \A o \in Offers : o.price < 2 * HalfWord
    /\ DbFaults \in BOOLEAN
    /\ NamesAtOpen \in [Names -> NameRow]
    /\ \A n \in Names : NamesAtOpen[n].released \/ NamesAtOpen[n].pubkey \in Keys
    /\ UniqueOwners(NamesAtOpen)
    /\ OffersAtOpen \in [Offers -> OfferRow]
    /\ \A o \in Offers : OffersAtOpen[o].status # "consumed"
    /\ \A o \in Offers : OffersAtOpen[o].status \in {"revoked", "expired"}
                            => OffersAtOpen[o].changed # None

-----------------------------------------------------------------------------
(* Queries. Each answers .ok(): an error reads as "nothing found".           *)

OrFault(answer, nothing) == {answer} \cup (IF DbFaults THEN {nothing} ELSE {})

Owner(n) == IF names[n].released THEN NoKey ELSE names[n].pubkey
Lookup(n) == OrFault(Owner(n), NoKey)

HoldsName(k) == \E n \in Names : Owner(n) = k
NameOf(k) == OrFault(HoldsName(k), FALSE)

GetOffer(o) == OrFault(offers[o], NoOffer)

CountsAsLive(o, now) == offers[o].status = "live" /\ o.exp >= now
LiveOfferForName(n, now) ==
    OrFault(\E o \in Offers : o.name = n /\ CountsAsLive(o, now), FALSE)
LiveOfferBinding(addr, now) ==
    OrFault(\E o \in Offers : o.addr = addr /\ CountsAsLive(o, now), FALSE)

SoldFor(o, x) == \E t \in transfers : t.offer = o /\ t.excess = x
TransferForOffer(o, x) == OrFault(SoldFor(o, x), FALSE)

UsedExcess(x) == \E t \in transfers : t.excess = x
ExcessUsed(x) == OrFault(UsedExcess(x), FALSE)

-----------------------------------------------------------------------------
(* Statements, as the table they leave *)

(* The partial unique index on active rows admits key k at name n. *)
KeyFree(k, n) == \A m \in Names \ {n} : Owner(m) # k

NamesWith(n, k) == [names EXCEPT ![n] = [pubkey |-> k, released |-> FALSE]]

(* UPDATE names SET released_at = .. WHERE name = n AND released_at IS NULL  *)
NamesReleased(n) == [names EXCEPT ![n].released = TRUE]

(* price as i64 *)
StoredPrice(o) == IF o.price < HalfWord THEN o.price ELSE o.price - 2 * HalfWord

(* Mutant of OffersMarked: the row is marked whatever its status. *)
MutMarkAny(o, status, end, at) ==
    [offers EXCEPT ![o] = [status |-> status, end |-> end, changed |-> at]]
(* mark_offer_dead: only a row still live is touched. *)
OffersMarked(o, status, end, at) ==
    IF offers[o].status = "live"
    THEN [offers EXCEPT ![o] = [status |-> status, end |-> end, changed |-> at]]
    ELSE offers

(* UPDATE offers SET status = .. WHERE offer_id = o, whatever it was. *)
(* Mutant of OffersSet: a status the readers do not know. *)
MutOtherStatus(o, status) == [offers EXCEPT ![o].status = "sold"]
OffersSet(o, status) == [offers EXCEPT ![o].status = status]

(* PRIMARY KEY offer_id and UNIQUE kernel_excess of transfers. *)
TransferFree(o, x) == \A t \in transfers : t.offer # o /\ t.excess # x

-----------------------------------------------------------------------------
StoreInit ==
    /\ names = NamesAtOpen
    /\ offers = OffersAtOpen
    /\ transfers = {}

StoreTypeOK ==
    /\ names \in [Names -> NameRow]
    /\ \A n \in Names : names[n].released \/ names[n].pubkey \in Keys
    /\ offers \in [Offers -> OfferRow]
    /\ transfers \subseteq TransferRow

(* A sale of the name, and one by the key, is on record.                     *)
Sold(n) == \E t \in transfers : t.offer.name = n
SoldBy(k) == \E t \in transfers : t.offer.seller = k

(* "One active name per key. Enforced at the database layer by a partial     *)
(* unique index" (README): no key ever holds two active names.               *)
OneActiveName == UniqueOwners(names)
=============================================================================
