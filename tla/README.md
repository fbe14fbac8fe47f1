# goblin-nip05d in TLA+

A model of the name authority: its configuration and name rules, the signed
events that authorise a call, the guards in memory, the tables, the handlers
that register, release, offer and claim names, and the Grin nodes and the chain
that claims consult. TLC checks it on small instances; TLAPS proves, for every
instance, the safety properties that hold of the code's own traffic, some under a
stated hypothesis, and the refinement of the abstract name authority. `PROJECT.json` lists the runs, the source lines
each definition stands for, the mutants, the findings and the hazards.

Paths below are relative to the repository (`src/db.rs` is the crate's module).

## The system

| component | state | operations | interacts with | modules |
|---|---|---|---|---|
| configuration (`src/config.rs`) | the constants | `from_env`, `validate` | read once, by `main` | `Config`, `Startup` |
| name rules (`src/names.rs`) | reserved list | `valid_name`, `fold_lookalike`, `is_reserved`, `domain_reserved` | `register`, `availability`, `lodge_offer` | `NameRules`, `Startup` |
| NIP-98 (`src/auth.rs`) | none | `verify_nip98` | every authenticated handler | `Nip98`, `Startup`; the age in `Limits` |
| rate limiter, cooldowns, replay set (`src/ratelimit.rs`) | two maps in memory, each under a mutex | `allow_read`, `allow_write`, `cooldown_active`, `record_op`, `auth_event_fresh` | called first by every handler; one map holds rate windows and cooldowns | `Limits`, `Gate` |
| database (`src/db.rs`) | SQLite tables `names`, `offers`, `transfers`, one connection under a mutex | eight queries, the statements of the handlers, one transaction | every handler | `Store` |
| registry (`src/handlers/registry.rs`, `profile.rs`, `wellknown.rs`) | none of its own | `register`, `unregister`, `availability`, `profile`, `by_pubkey`, `well_known` | guards, tables | `Server`, `Registry` |
| transfers (`src/handlers/transfer.rs`) | none of its own | `lodge_offer`, `read_offer`, `revoke_offer`, `claim` (with `settle_expiry`, `run_claim_txn`) | guards, tables, node | `Transfer`, `Authority` |
| payment proofs (`src/proof.rs`) | none | parse, `verify_signatures` | `claim`, `lodge_offer` | `PaymentProof` |
| node client (`src/node.rs`) | a list of endpoints | `kernel`, `tip_height` | the Grin chain (external) | `Node` |
| router, shell (`src/handlers/mod.rs`, `src/main.rs`, `misc.rs`) | none | start or refuse to, mount routes, serve, restart | all | `Startup`, `Server`, `Authority` |
| relay write policy (`deploy/strfry`) | none | filter by event kind | none | not modelled |

What is hard here. Handlers of different connections run in parallel on tokio's
threads and share three mutexes, each held for one query or statement only, so
every check is stale by the time the next statement runs. The transfer handlers
also suspend while the Grin nodes are asked, for up to 20 s per question, one
endpoint after the other; the client may go away there, and the handler is
dropped. Statements commit one by
one, and the cooldown is armed in another map after the commit, so a crash falls
between them. Query errors read as "no row". Nothing in memory survives a
restart. The unique index on active keys, the keys of `transfers`, the owner
guard of the claim's UPDATE and the `status = 'live'` guard of
`mark_offer_dead` are what the code relies on in the end; the properties ask how
far they carry.

What makes each part correct:
- configuration and names: a service that starts can serve (no panic, no call
  that can never be accepted), its reserved names cannot be disguised, and a
  signed event is good for one call at one host;
- guards: single use of a signed event, a cooldown that lasts, a write budget;
- registry: one active name per key, only owners release, cooldowns block;
- transfers: no payment spent twice, names move only by a recorded sale, sales
  paid and confirmed, an offer's death recorded once and respected, one live
  offer per name, every call answered.

## Modules

- **Identities** names the parties. **Limits** is `ratelimit.rs`: a hit list is
  how often each clock tick was pushed, `rate` and `seen` are the two maps, and each operator is
  one call under one lock. The retention of a used id (`Retention`) is the cast and
  the sum of `ratelimit.rs:13` modulo `Word`. The clock counts ticks of an `Instant`;
  `TicksPerSec` of them make the second that `unix_now()` truncates to.
- **Gate** runs the guards alone, in any order, with history variables that
  remember what the maps may have forgotten.
- **NameRules** is `names.rs` over sequences of characters; its filter (`Without`)
  puts each element that stays at its rank among those that stay, since a recursive
  filter would be closed to proofs, and an ASSUME of `MCStartup` compares it with
  `SelectSeq`. **Config** what
  `from_env` makes of an environment and what `validate` refuses, **Nip98** which
  call a signed event with any list of tags is good for. All three are operators
  without state.
- **Startup** puts them to work: a process starts in some environment, or refuses
  to, and stops. While it is up a client disguises a name, one character at a time
  (`Disguise`), or presents one signed event with any call (`Deliver`).
- **PaymentProof** is `proof.rs`: addresses, the message both parties sign, and
  signatures, which hold if they are in `Receipts`, the set of those that were made.
- **Node** is `node.rs` over the Grin chain: `Mine` and `Reorg` are the chain;
  `NextNode`, `FailsOver` and `GivesUp` the walk over the endpoints; `TipHeights`,
  `KernelHeights`, `NoKernel` and `Depths` what the endpoint that is asked may make
  of a question.
- **Store** is `db.rs`: three tables as functions and a set; each query is the
  set of its possible answers (`OrFault` adds "nothing found" when statements
  may fail), each statement the table it leaves.
- **Server** holds the connections: `pc` (where the handler stands), `msg` (its
  request), `loc` (its locals), `ans` (the status it answered); the prologue
  every handler shares; restarts.
- **Registry** extends it with one action per locked section of `register` and
  `unregister`, and the reads. `RegistrySpec` is the service with transfers off,
  which is the default.
- **Transfer** has the transfer handlers in the same way, one action per locked
  section or await; `AskNext` is an endpoint that fails and is followed by the next.
- **Authority** composes `Registry` and `Transfer` over one `Server`; `Spec` adds
  fairness. Its properties follow.
- **NameAuthority** is the abstract promise: owners and spent payments, with
  `Grant`, `Release` and `Sell`. `Authority` implements it under the mapping
  `owner[n] = Owner(n)`, `spent` = the excesses in `transfers`; it says nothing
  of who may ask, which the action properties do.
- **MCStartup**, **MCGate**, **MCRegistry**, **MCAuthority** hold the instances.
- **LimitsProofs**, **GateProofs**, **ServerProofs**, **RegistryProofs**,
  **TransferProofs**, **AuthorityProofs**, **NameRulesProofs** and
  **StartupProofs** hold the proofs, each about the module it is named after.

A definition named `Mut...` is a plausible bug in the definition after it, with
the same parameters. Nothing uses it: replacing the definition by it breaks the
property that `PROJECT.json` pairs with it.

### What a step is, and what is abstracted

- A step is a section under one lock or the resumption after an await. Reading
  the clock, which takes no lock, is part of the step it stands next to; the age
  check and the replay check of one auth event see the same tick.
- Every field of a signed event is covered by its id, so a message or an offer
  is its own id. In `Server` all failures of NIP-98 other than age and replay answer
  401 and change nothing, and are represented by a stale event; `Nip98` has them. The form of a body is
  one of a few verdicts (`malformed`, `badName`, `reserved`; `unsigned`,
  `badTerms`), tested in the code's order.
- The three lookups of a name (`availability`, `profile`, `well_known`) are one
  action, `Resolve`: `availability` and `well_known` always answer 200, `profile`
  404 when the lookup finds nothing. Their early exits, for a name that is invalid
  or (in `availability`) reserved, give the same answers and read no table.
- `created_at`, `released_at` and `claimed_at` are written and never read, so
  only whether a name is released is kept. `price as i64` wraps at `HalfWord`,
  which stands for 2^63.
- A node error and a kernel that is not on the chain lead to one answer. Failing
  over to the next endpoint asks for the kernel again. Kernel and tip are two
  questions of one lookup, two calls of up to 20 s with an await at each:
  `RpcBlocks` bounds the blocks mined between the node's two answers, 40 s at
  most, and an endpoint is at most `Lag` blocks behind. A refused
  connection, a bad status, an undecodable body, an error in the envelope and a
  timeout are one failure: the code treats them alike.
- The base URL is its scheme, host, the text after the host's colon (which
  `validate` does not look at) and the segments after them, so that a
  slash at the end is an empty last segment. A payload hash is the set of the body
  it was made of. A setting that is read and only passed on is a constant of the
  module that uses it, and is in no environment.
- Bech32, hex and ed25519 are abstracted: an address is its prefix and its key,
  and a signature is who made it over what.
- `NamesAtOpen`, `OffersAtOpen` are what the database holds when the process
  starts, so that a run can begin at the interesting point; they meet
  `StoreAssumption`, in which a row that is dead has the time it died at, as every
  statement that marks one dead writes it.

## Runs

Every property of a passing run has a mutant that TLC refutes.

| run | shows |
|---|---|
| `startup_names` | fourteen environments, eight of which are refused: no name panics, every disguise of a name gets the verdict of its origin, the brand of the domain stays reserved, a signed event is good for one call at this host, and calls that are signed for the public URL are accepted |
| `startup_base_url` (violated) | a base URL that ends in a slash, finding 6 |
| `gate_guards` | over all orders of calls, ticks and restarts, when no swept call has a window shorter than the cooldown: budgets and cooldowns hold, and an event that is replayed was first used in the very first second of its acceptance |
| `gate_single_use` (violated) | the replay itself, finding 2 |
| `registry_races` | two keys compete for two names, with repeated messages, failing statements and restarts: one active name, one service per message that is younger than `auth_max_age`; and, since the key that releases sends one request at a time, only owners release and the cooldown blocks |
| `registry_release_race` (violated) | the same when that key uses both connections, finding 1 |
| `authority_sale` | a sale with late claims, revocation, expiry, reorganisations, two endpoints that lag and fail, drops and restarts: paid and confirmed, death recorded once, late claims inside it, an overdue offer never judged live, and the status of an offer and the transfers agree on what is sold |
| `authority_race` | two claims with one payment, releases and registrations of the same names, one of the offers left over from an owner who has gone: one name each, moves only by sales, a name that is not sold released by its owner only, one payment one name, the abstract promise, every call ends |
| `authority_refusals` | every call and every refusal on one connection, with the limiter on and failing statements: types, no sale without the seller's receipt for the price, a revocation answered 200 is one, and a sold offer stays sold |
| `authority_both_lodge`, `authority_consumed_flipped`, `authority_settled_first` (violated) | findings 3 to 5 |

A passing and a violated run over one property are meant to be read together:
the one shows under which traffic the promise holds, the other the traffic that
breaks it.

**Bounds.** Two connections, because every race found or excluded here is
between two handlers, and the messages of each can be delivered any number of
times, one after the other; `authority_refusals` has one, since a refusal needs
no partner. Two names and as many keys as the question has roles (owner, rival,
buyers). `MaxClock` leaves one window to pass (seven seconds in `gate_guards`,
the whole life of an event); `MaxTip` lets a payment be mined, reorganised,
mined again and confirmed; in `registry_races` most
events are accepted in tick 0 only and the one both connections carry in both
ticks, so that the clock passes a cooldown and an acceptance while a handler is
under way; `MaxChanges` caps the changes one key records in
`Gate`. Two endpoints are the least that can
fail over, restart and give up; the walk treats all but the last alike.
`startup_names` disguises six names of at most three characters and the empty one,
with room for two separators; an event has up to two URLs, one method and one
payload. `Word` stands for 2^64: 64 in the runs of `Limits`, whose ages are
positive; the proofs are for every age of the type.
Limits are small numbers in the order that the defaults have, or in the
opposite order where a run asks about it. In the runs about races writes are
not limited (`WriteWindow = 0`), for otherwise the limiter stops the traffic and
the race with it; `gate_guards` asks about the limiter, and `authority_refusals`
has it on. With `MapCap = 0` it also sweeps at every call, which drops the
cooldown entries: `authority_sale` and `authority_race` make no statement about
cooldowns. `MinConf` exceeds `MaxReorg + RpcBlocks` in `authority_sale`: a
kernel that is seen once and is deep enough when the tip is asked cannot have
been reorganised away, which is the reason the code has `transfer_min_conf`.
With a smaller `MinConf` `PaidAndConfirmed` fails there. Statements do not fail in
`authority_sale`: `OverdueNeverJudgedLive` is false when they do (observations).
Some runs leave out a case on purpose, and say nothing of it: `gate_guards` has no
sweep by a window shorter than the cooldown, which the defaults do have (60 s
against 600 s); the key that releases has one connection in `registry_races`, so the
overlap of finding 1 is excluded there, and since nothing is sold a release is never
overtaken by a sale; `authority_refusals` has one connection, so no claim wins while a
revocation asks for the tip, and `RevokedMeansNotSold` and `ConsumedIsTerminal`
there are about refusals and failing statements alone. `authority_race` and
`authority_refusals` keep the chain still; their questions are about the tables.

**Fairness.** Weak fairness on each connection's handler: tokio polls a task that
can go on, a mutex is held for one statement, and the node client gives up after
20 s (`src/node.rs`): at every await of the walk either an answer, a step to the
next endpoint or the end of the list is possible, and the list is finite. Nothing is assumed of clients, of the chain, or of the clock.
`EveryCallEnds` needs no more.

**Deadlock** is not checked: the service may have nothing to do, with the clock at its
bound and no connection idle.

## Findings

1. A second release by the former owner, overlapping with the first, takes the
   name from its new owner (`unregister`'s UPDATE does not name the owner).
2. An auth event post-dated by 5 s and used at once can be used once more: its
   id is forgotten at the start of the last second in which it is accepted.
3. Two overlapping lodges give a name two live offers.
4. Revoking an expired offer overwrites `consumed` when a late claim got in first.
5. A claim that read the offer live is not bound by a death recorded before it
   commits.
6. `GOBLIN_BASE_URL=https://goblin.st/` passes `validate`, and no call signed for
   the public URL is accepted: `verify_nip98` expects two slashes after the host.

1, 3, 4 and 5 need two overlapping requests, 2 a precise moment. Observations
that no run states as a violated promise:

- a registration past its cooldown check inserts after a release of the same key
  has been recorded (`CooldownBlocks` holds with one request at a time, and is
  proved for that: `RegistryCooldownBlocks`, and with transfers on
  `AuthorityCooldownBlocksUnsold`, for keys that have sold nothing);
- a sale that commits between the lookup of its seller's release and the UPDATE
  has the release take the name from the buyer who paid for it: finding 1 with a
  claim in the place of the registration. `OnlyOwnerReleases`, put to the traffic
  of `authority_race`, fails in this way. `OwnerReleasesUnsold` is what is left
  of it, and `AuthorityOwnerReleasesUnsold` proves that;
- above 50 000 entries, a call in a bucket with a short window sweeps running
  cooldowns away (`CooldownKept` holds when no window is shorter or the map stays
  smaller: `GateCooldowns`);
- a seller can be told "revoked" although the offer was sold while the tip was
  asked. No hypothesis about the code's own traffic excludes it: seller and
  buyer are different clients. The tables agree all the same (`SaleOnRecord`);
- an overdue offer whose marking fails is judged as a live one (where statements
  succeed it never is: `AuthorityOverdue`);
- a node URL of commas and blanks passes `validate` and leaves a client with no
  endpoint, so every claim answers `payment_unconfirmed`.

Nothing here breaks `OneActiveName`, `SpentOnce`, `OwnerMovesOnlyBySale` or the
refinement: the indexes and guards in SQL hold.

## Proofs

Every theorem is for all constants that meet the named assumptions:
`NoKeyAssumption`, `LimitsAssumption`, `StoreAssumption`, `ServerAssumption`
(the shape of requests; two signed requests with one id are one event and have
one date), `TransferAssumption`, `ProofAssumption`, `NodeAssumption`,
`GateAssumption`, `ConfigAssumption` and `StartupAssumption`, each in the module
of its constants. TLC evaluates them in every run of a module that extends it. What a theorem needs beyond them is a
hypothesis of its own, defined next to it; the tables below have them all.

The general argument is the same everywhere. The guards in SQL and the index are
read and written in one step, and what they protect is inductive with types
alone. All else the code decides on what it read some steps before, so the
invariant has to say what a suspended handler may still count on, and the proof
goes through every other handler that may run meanwhile. Where no such fact
survives, the property is false, and a run shows it. It is proved then for what is
left of it, or for traffic that one client can keep to by itself.

**`NameRulesProofs`** is about the filter and the fold of look-alikes, for names of
any length. The element that stands at place `j` of a filtered sequence is the one of rank
`j` (`WithoutAt`; ranks increase and leave no gap, `RankIncreases`, `RankOnto`). A
map that is one to one between what two names keep, and keeps the order, keeps the
ranks (`RankMoved`), so that names whose letters agree along such a map have one
fold (`SameFold`). A swapped twin is the identity map (`SwapUnseen`), a separator put
in a shift past its place (`GapUnseen`), and one taken out is one put in, read
backwards. This takes the place of an induction over the letters.

**`StartupProofs`** rests on two invariants. `Configured`: a service that is up
runs with the configuration of an environment that passed `validate`, and has
served only what that configuration accepts. `Disguised`: the name and its origin
have one fold. Verdicts are not inductive, folds are: `is_reserved` looks at the
folds of both sides and nothing else (`ReservedByFold`).

| theorem | property | why |
|---|---|---|
| `NeverPanics` | `NoPanic` | the lower bound that `validate` asks |
| `BoundToHost` | `HostBound` | trimming and appending a path leave the host alone (`TrimmedHost`) |
| `CallsPerEvent` | `OneCallPerEvent` | the URL of a call is not trimmed (`NothingToTrim`), so one URL is one path |
| `VerdictFollows` | `VerdictFollowsOrigin` | `Disguised`; the number of disguises, the names and the reserved list are any |
| `BrandStays` | `BrandKept` | `Configured` and `Disguised`: a label of the domain is kept (`LabelKept`) and in lower case on the list; an empty label leaves no letter (`LetterLeft`), so no disguise of it is a valid name |
| `SignedCallsPass` | `SignedCallsAccepted` | if `BasesTrimmed`: no `BASE_URL` to start with ends in a slash (finding 6 is the other case) |

**`LimitsProofs`** has what one call on the maps preserves: types, the length of a
hit list, the entries it leaves alone (`AllowOther`), the entries a sweep keeps
(`SweptKeeps`), and that no call but `record_op` puts a key under a cooldown (`AllowQuiet`,
`CheckQuiet`). **`GateProofs`** builds on them:

| theorem | property | invariant and hypothesis |
|---|---|---|
| `GateTypeCorrect` | `GateTypeOK` | |
| `GateReplays` | `ReplayedOnlyFromFirstSecond` | `Passed`: an event let through is on record as of then, or past its retention. The wrapped sum is never below `auth_max_age + 5`, whatever the age's sign (`RetentionReaches`). That the exception is exactly the first second comes out of the integer division of the clock (`Elapsed`) |
| `GateCooldowns` | `CooldownKept` | the entry of a running cooldown is in the map, if `NoEarlySweep(Cooldown)` |
| `GateBudget` | `WriteBudget` | the map has at least the hits that were granted, and those are within the budget, if `NoEarlySweep(WriteWindow)` |

`NoEarlySweep(w)`: the map never grows to be swept, or neither a read nor a write
sweeps with a window shorter than `w`. The defaults (reads 60 s, writes 3600 s, cooldown
600 s) meet it only as long as the map stays at or below 50 000 entries.

**`ServerProofs`** proves what the shared parts preserve: a handler that goes on
stands at a stage that fits its request (`GotoOK`), one that is answered leaves a
well-typed idle connection (`ReplyOK`), and so for admission, authentication,
ticks and restarts. `SingleInv` adds to `NoDoubleService` that the event of every
handler under way is on record as of an instant not before its date less the
skew, or has aged past `auth_max_age` (`Accepted`).

**`RegistryProofs`** is about `RegistrySpec`, from `RegistryInv`: types,
`StagesMatch` and `OneActiveName`. Types alone are not inductive: an insert
writes `msg[c].pubkey`, and only `StagesMatch` says that the request at that
stage is a registration and has one. `OneActiveName` needs no fact about what
handlers read before, which is the claim the code makes about the index:
`GrantOK` uses the guard of the insert (`KeyFree`), not the lookups.

| theorem | property | invariant and hypothesis |
|---|---|---|
| `RegistryTypeCorrect`, `RegistryOneActiveName` | `ServerTypeOK`, `OneActiveName` | `RegistryInv` |
| `RegistrySingleService` | `NoDoubleService` | `SingleInv` |
| `RegistryOnlyOwnerReleases`, `RegistryCooldownBlocks` | `OnlyOwnerReleases`, `CooldownBlocks` | `OrderlyInv`: the owner a release read still owns the name, a registration past its check is still not cooling. If `OneRequestAtATime`: a key that releases sends its registry requests on one connection |

**`TransferProofs`** extends the invariant to the transfer handlers and the chain:
`TransferInv` is types, stages, `OneActiveName` and `ChainOK`, one lemma per
action. `TransferMoves` says which stage a handler may go to and what that step
writes, so that later invariants need not unfold the actions again.
**`AuthorityProofs`** is about `Spec`, in layers, each inductive relative to those
before it:

- `TransferInv`;
- `OffersInv`: an offer on record as dead has a time of death, and `HandlerOK`
  says what a handler may count on at each stage: one that settles holds a row that
  is overdue; a claim that judged a dead row holds the death that is on record
  and came within the grace; one past the depth test has a height in time for the row
  it judged. `DeathRecordKept` is what makes these facts survive the other handlers;
- `PaymentInv`: a claim past the proof test has a proof without refusal; the kernel it saw
  is on the chain where it saw it, or was not deep when the tip was asked; past the
  depth test it is so deep that it stays (`DeepStays`);
- `SingleInv`, as above, over all handlers.

| theorem | property | layer and hypothesis |
|---|---|---|
| `AuthorityTypeCorrect`, `AuthorityOneActiveName` | `TypeOK`, `OneActiveName` | `TransferInv` |
| `AuthoritySingleService` | `NoDoubleService` | `SingleInv` |
| `AuthoritySpentOnce` | `SpentOnce` | the keys of `transfers`, asked in the claim's statement |
| `AuthorityMovesBySale` | `OwnerMovesOnlyBySale` | `NamesMove`: a step that writes names is a grant of a free name, a release or a sale by its owner |
| `AuthorityImplements` | `ImplementsNameAuthority` | the step simulation: `GrantSimulates`, `ReleaseSimulates`, `SaleSimulates`, all else stutters |
| `AuthorityDeathRecord`, `AuthorityLateClaim` | `DeathRecordKept`, `LateClaimInWindow` | `OffersInv` |
| `AuthorityOverdue` | `OverdueNeverJudgedLive` | `OffersInv`, if no statement fails |
| `AuthoritySaleOnRecord` | `SaleOnRecord` | `OffersInv`: a mark touches rows that are live, and a revocation that flips holds a row that was on record as dead |
| `AuthorityPaid` | `PaidAndConfirmed` | `PaymentInv`, if `DeepEnough`: `MinConf > 1` and `MinConf > MaxReorg + RpcBlocks` |

Three more hold of traffic in which those who change a name by request do so one at a
time, as a single client does; nothing is assumed of when its offers are claimed,
read or revoked:

| theorem | property | hypothesis |
|---|---|---|
| `AuthorityLiveOfferUnique` | `LiveOfferUnique` | `LodgesInTurn`: the offers of a name, which only its owner can lodge, are lodged on one connection (those of successive owners too); `UniqueAtOpen`; no statement fails |
| `AuthorityOwnerReleasesUnsold` | `OwnerReleasesUnsold` | `OneRequestAtATime`, as for the registry |
| `AuthorityCooldownBlocksUnsold` | `CooldownBlocksUnsold`, stated beside it: no name is granted to a key that has sold none and is cooling | `OneRequestAtATime` |

`LodgesInTurn` needs an invariant that carries what a lodge under way has read to its
insert (`UniqueInv`): it has not been overtaken by another lodge of the name. The
last two carry `OrderlyInv` of the registry over the steps of the marketplace. Its
facts are about what is not sold: a sale is the one step of another party that
takes a name from a release under way, or arms the cooldown of a key whose
registration is past its check, and both are real (the observations above).
So `Orderly` gives up a name, or a key, once a sale of it is on record (`Sold`,
`SoldBy`), and needs no claim to wait. Transfers are never deleted (`SalesKept`),
so what is given up stays so. The rest is that of all the other steps only a
handler of the same key could disturb it.

Only model-checked, or false and shown so:
- `EveryCallEnds` (liveness: fairness and ENABLED are beyond TLAPS);
- `RevokedMeansNotSold` and `ConsumedIsTerminal`, on one connection; with two they
  are false (an observation and finding 4). `SettledBeforeDeath` is false (finding
  5). A hypothesis that makes them true would serialise the buyer's claims with the
  seller's calls, which nothing in the code does, so none is stated. What of them is
  true is `AuthoritySaleOnRecord`, `AuthorityDeathRecord` and `AuthorityLateClaim`;
- `SingleUse`, which is violated (`GateReplays` has what is left of it).

That the filter by ranks is `SelectSeq`, which is defined by recursion, is compared
by TLC on short sequences only.

## Not modelled

The landing page and health check; JSON, base64, bech32, hex and the two
signature schemes; the log and the startup summary; how much memory the maps take; the relay and
its write policy, a separate process that shares nothing with the service. A
wall clock that is set back, and a branch of the chain deeper than
`MaxReorg`, are excluded. SQLite's own durability is taken for granted: a
committed statement survives a restart.

## Plan

1. Runs: an overdue offer whose marking fails; lodging in turn, which
   `AuthorityLiveOfferUnique` covers and no passing run shows; the cooldown of a
   key that releases with transfers on (`AuthorityCooldownBlocksUnsold`).
2. Questions left open: offers of a former owner that block the new one from
   lodging; what a client that never learns its claim succeeded may do.
