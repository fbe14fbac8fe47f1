--------------------------- MODULE NameAuthority ----------------------------
(* What the service promises, without requests, tables or clocks: names with *)
(* at most one owner, owners with at most one name, and a name that changes  *)
(* hands for a payment which is spent by it. The documents it states:        *)
(* "One active name per key", "releasing is permanent, not a hold" and the   *)
(* name transfer that "swaps one database row in a single atomic             *)
(* transaction" of src/README.md.                                            *)
CONSTANTS Names, Keys, Nobody, Payments

VARIABLES
    owner,          \* who a name resolves to
    spent           \* the payments that bought a name

HasNone(k) == \A n \in Names : owner[n] # k

AuthorityInit ==
    /\ owner \in [Names -> Keys \cup {Nobody}]
    /\ \A m, n \in Names : owner[m] = owner[n] /\ owner[m] # Nobody => m = n
    /\ spent = {}

Grant(n, k) ==
    /\ owner[n] = Nobody /\ HasNone(k)
    /\ owner' = [owner EXCEPT ![n] = k]
    /\ UNCHANGED spent

Release(n) ==
    /\ owner[n] # Nobody
    /\ owner' = [owner EXCEPT ![n] = Nobody]
    /\ UNCHANGED spent

(* The buyer may be the seller: a sale to oneself moves nothing but the coin *)
Sell(n, k, p) ==
    /\ owner[n] # Nobody
    /\ \A m \in Names \ {n} : owner[m] # k
    /\ p \notin spent
    /\ owner' = [owner EXCEPT ![n] = k]
    /\ spent' = spent \cup {p}

AuthorityNext ==
    \E n \in Names :
        \/ \E k \in Keys : Grant(n, k)
        \/ Release(n)
        \/ \E k \in Keys, p \in Payments : Sell(n, k, p)

AuthoritySpec == AuthorityInit /\ [][AuthorityNext]_<<owner, spent>>
=============================================================================
