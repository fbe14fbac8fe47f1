----------------------------- MODULE MCRegistry -----------------------------
(* Instances of Registry: two keys that compete for two names over two       *)
(* connections. Every signed message exists once and may be delivered any    *)
(* number of times.                                                          *)
EXTENDS Registry, TLC

CONSTANTS k1, k2, n1, n2, c1, c2, ip1, ip2

Register(id, k, n) == [op |-> "register", id |-> id, at |-> -1, key |-> k,
                       name |-> n, pubkey |-> k, body |-> "ok"]
Release(id, k, n) == [op |-> "release", id |-> id, at |-> -1, key |-> k, name |-> n]

(* The one message that both connections carry is the youngest.              *)
Shared == [Register("2a", k2, n1) EXCEPT !.at = 0]

Messages1 == {Register("1a", k1, n1), Release("1b", k1, n1), Register("1c", k1, n2)}
Rival == {Shared, Register("2c", k2, n2)}

MCIpOf == (c1 :> ip1) @@ (c2 :> ip2)
Lookups == {[op |-> "resolve", name |-> n1], [op |-> "reverse", pubkey |-> k1]}
MCRequests == Messages1 \cup Rival \cup {Release("1d", k1, n1)} \cup Lookups

(* k1 sends one request at a time, on a connection of its own; k2 registers  *)
(* two names at once, and looks a name and a key up.                         *)
TwoRivals == (c1 :> Messages1 \cup {Shared}) @@ (c2 :> Rival \cup Lookups)

(* The same key uses both connections. *)
Anywhere == [c \in {c1, c2} |->
    {Register("1a", k1, n1), Release("1b", k1, n1), Release("1d", k1, n1),
     Register("1c", k1, n2), Shared}]

EmptyNames == [n \in {n1, n2} |-> NoName]
NoOffers == <<>>
=============================================================================
