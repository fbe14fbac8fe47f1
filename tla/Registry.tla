------------------------------ MODULE Registry ------------------------------
(* Registration, release and resolution of names: src/src/handlers/          *)
(* registry.rs, and the reads of profile.rs and wellknown.rs. None of these  *)
(* handlers suspends, so a client that goes away does not stop one halfway;  *)
(* a restart does.                                                           *)
EXTENDS Server

(* The checks of register on its parsed body; 0 when all of them pass.       *)
BodyRefusal(m) ==
    IF m.body = "malformed" THEN 400
    ELSE IF m.pubkey # m.key THEN 401
    ELSE IF m.body = "badName" THEN 400
    ELSE IF m.body = "reserved" THEN 403
    ELSE 0

(* Mutant of InCooldown: the check is left out. *)
MutNoCooldown(m) == FALSE
InCooldown(m) == CooldownActive(m.key)

RegisterCooldown(c) ==
    /\ pc[c] = "cooldown"
    /\ rate' = RateAfterCheck(msg[c].key)
    /\ \/ InCooldown(msg[c]) /\ Reply(c, 429)
       \/ /\ ~InCooldown(msg[c])
          /\ \/ BodyRefusal(msg[c]) # 0 /\ Reply(c, BodyRefusal(msg[c]))
             \/ BodyRefusal(msg[c]) = 0 /\ Goto(c, "lookup") /\ UNCHANGED loc
    /\ UNCHANGED <<storeVars, clock, seen>>

RegisterLookup(c) ==
    /\ pc[c] = "lookup"
    /\ \E owner \in Lookup(msg[c].name) :
        \/ owner = msg[c].pubkey /\ Reply(c, 200)
        \/ owner \notin {msg[c].pubkey, NoKey} /\ Reply(c, 409)
        \/ owner = NoKey /\ Goto(c, "nameOf") /\ UNCHANGED loc
    /\ UNCHANGED <<storeVars, limitVars>>

RegisterNameOf(c) ==
    /\ pc[c] = "nameOf"
    /\ \E holds \in NameOf(msg[c].pubkey) :
        \/ holds /\ Reply(c, 409)
        \/ ~holds /\ Goto(c, "insert") /\ UNCHANGED loc
    /\ UNCHANGED <<storeVars, limitVars>>

(* The upsert takes a name with no row or a released one, and the index on   *)
(* active keys has the last word.                                            *)
(* Mutant of MayInsert: no unique index on active keys. *)
MutNoIndex(n, k) == names[n].released
MayInsert(n, k) == names[n].released /\ KeyFree(k, n)

RegisterInsert(c) ==
    LET m == msg[c] IN
    /\ pc[c] = "insert"
    /\ \/ /\ MayInsert(m.name, m.pubkey)
          /\ names' = NamesWith(m.name, m.pubkey)
          /\ Reply(c, 201)
       \/ /\ ~MayInsert(m.name, m.pubkey)
          /\ Reply(c, 409)
          /\ UNCHANGED names
       \/ /\ DbFaults
          /\ Reply(c, 500)
          /\ UNCHANGED names
    /\ UNCHANGED <<offers, transfers, limitVars>>

(* Mutant of MayRelease: any signer may release. *)
MutAnySigner(m, owner) == owner # NoKey
MayRelease(m, owner) == owner = m.key

ReleaseOwner(c) ==
    /\ pc[c] = "owner"
    /\ \E owner \in Lookup(msg[c].name) :
        \/ MayRelease(msg[c], owner) /\ Goto(c, "update") /\ UNCHANGED loc
        \/ owner # NoKey /\ ~MayRelease(msg[c], owner) /\ Reply(c, 403)
        \/ owner = NoKey /\ Reply(c, 404)
    /\ UNCHANGED <<storeVars, limitVars>>

(* The statement names the row only: whoever owns it by now loses it.        *)
ReleaseUpdate(c) ==
    /\ pc[c] = "update"
    /\ \/ /\ names' = NamesReleased(msg[c].name)
          /\ Goto(c, "arm") /\ UNCHANGED loc
       \/ /\ DbFaults
          /\ Reply(c, 500)
          /\ UNCHANGED names
    /\ UNCHANGED <<offers, transfers, limitVars>>

(* The cooldown is armed after the commit, in another map.                   *)
ReleaseRecord(c) ==
    /\ pc[c] = "arm"
    /\ rate' = RateAfterRecord(msg[c].key)
    /\ Reply(c, 200)
    /\ UNCHANGED <<storeVars, clock, seen>>

(* availability and well_known answer 200 with or without an owner, and      *)
(* profile 404 without. A name that is invalid, and one that availability    *)
(* finds reserved, get these answers before the lookup: no row holds them.   *)
Resolve(c) ==
    /\ pc[c] = "resolve"
    /\ \/ Reply(c, 200)
       \/ NoKey \in Lookup(msg[c].name) /\ Reply(c, 404)
    /\ UNCHANGED <<storeVars, limitVars>>

(* by_pubkey: the name a key holds, if any. *)
ReverseResolve(c) ==
    /\ pc[c] = "reverse"
    /\ \E holds \in NameOf(msg[c].pubkey) : Reply(c, IF holds THEN 200 ELSE 404)
    /\ UNCHANGED <<storeVars, limitVars>>

RegistryStep(c) ==
    \/ RegisterCooldown(c) \/ RegisterLookup(c) \/ RegisterNameOf(c)
    \/ RegisterInsert(c)
    \/ ReleaseOwner(c) \/ ReleaseUpdate(c) \/ ReleaseRecord(c)
    \/ Resolve(c) \/ ReverseResolve(c)

-----------------------------------------------------------------------------
(* The service with transfers off, its default. *)

RegistryInit == ServerInit

RegistryHandler(c) == Authenticate(c) \/ RegistryStep(c)

RegistryNext ==
    \/ Arrive
    \/ \E c \in Conns : RegistryHandler(c)
    \/ ServerTick
    \/ Restart

RegistrySpec == RegistryInit /\ [][RegistryNext]_serverVars

-----------------------------------------------------------------------------
(* A name that stops being active was released by a handler that serves its  *)
(* owner: "Control of the name is control of the key", "DELETE (owner)".     *)
OnlyOwnerReleases ==
    [][\A n \in Names :
        ~names[n].released /\ names'[n].released
            => \E c \in Conns : /\ pc[c] = "update" /\ pc'[c] = "arm"
                                /\ msg[c].name = n
                                /\ msg[c].key = names[n].pubkey]_serverVars

(* A registration never succeeds for a key whose release is on record less   *)
(* than the cooldown ago: "Releasing a name arms a cooldown [..] that blocks *)
(* re-registering a new name".                                               *)
CooldownBlocks ==
    [][\A n \in Names :
        names[n].released /\ ~names'[n].released
            => ~CooldownActive(names'[n].pubkey)]_serverVars
=============================================================================
