----------------------------- MODULE Identities -----------------------------
(* The parties of the service, shared by the modules that name them.         *)
EXTENDS Integers

CONSTANTS
    Keys,           \* nostr public keys: owners, sellers, buyers
    NoKey,          \* "no owner": the None of a lookup
    Ips             \* values of X-Real-IP

(* The absence of a height or of a time: NULL in a column, None in a handler *)
None == -1

ASSUME NoKeyAssumption == NoKey \notin Keys
=============================================================================
