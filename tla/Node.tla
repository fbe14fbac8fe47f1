-------------------------------- MODULE Node --------------------------------
(* The Grin chain and the client of src/src/node.rs, which asks an ordered   *)
(* list of endpoints over HTTP. An endpoint may be up to Lag blocks behind   *)
(* the chain, answers two questions of one lookup independently (it may      *)
(* stand for several nodes), and may fail at each: a refused connection, a   *)
(* status, a body that does not decode, an error or an Err in the envelope,  *)
(* or no answer for 20 s. At most RpcBlocks blocks are mined from the height *)
(* that get_kernel reports to the one that get_tip reports of the endpoint:  *)
(* two calls, 40 s at the most.                                              *)
EXTENDS PaymentProof

CONSTANTS
    NumEndpoints,   \* grin_node_endpoints; none, if the setting is a comma
    TipAtOpen, MinedAtOpen,     \* the chain when the process is started
    MaxTip,         \* bound: the height the chain grows to
    MaxReorg,       \* blocks a reorganisation may replace
    Lag,            \* blocks an endpoint may be behind
    RpcBlocks       \* blocks mined between the two questions of one lookup

ASSUME NodeAssumption ==
    /\ {NumEndpoints, TipAtOpen, MaxTip, MaxReorg, Lag, RpcBlocks} \subseteq Nat
    /\ MinedAtOpen \in [Excesses -> 0 .. TipAtOpen \cup {None}]
    /\ TipAtOpen <= MaxTip

VARIABLES
    tip,            \* the height of the chain
    mined           \* the height a payment kernel is mined at, None if it is not

chainVars == <<tip, mined>>

ChainInit == tip = TipAtOpen /\ mined = MinedAtOpen

Mine ==
    /\ tip < MaxTip
    /\ tip' = tip + 1
    /\ \/ UNCHANGED mined
       \/ \E x \in Excesses : mined[x] = None /\ mined' = [mined EXCEPT ![x] = tip + 1]

(* A kernel in one of the last MaxReorg blocks may be left out of the branch *)
(* that replaces them.                                                       *)
Reorg ==
    /\ \E x \in Excesses : /\ mined[x] # None /\ tip - mined[x] < MaxReorg
                           /\ mined' = [mined EXCEPT ![x] = None]
    /\ UNCHANGED tip

-----------------------------------------------------------------------------
(* The walk over the endpoints: the loops of kernel and tip_height. Endpoint *)
(* i is asked first when i = 1; the one after it when it fails.              *)

(* Mutant of NextNode: after the last endpoint the first is tried again. *)
MutRoundRobin(i) == (i % NumEndpoints) + 1
NextNode(i) == i + 1

Listed(i) == i \in 1 .. NumEndpoints
FailsOver(i) == Listed(i) /\ Listed(NextNode(i))
GivesUp(i) == ~Listed(i) \/ ~Listed(NextNode(i))

Views == {v \in 0 .. tip : tip - v <= Lag}

(* What tip_height makes of endpoint i, if it goes no further; one that has  *)
(* no height to tell counts as failed. The caller takes an Err as None.      *)
TipHeights(i) ==
    (IF Listed(i) THEN Views ELSE {}) \cup (IF GivesUp(i) THEN {None} ELSE {})

(* kernel_one, the answer to get_kernel. A null ends the walk: an endpoint   *)
(* that is behind is not asked about by the next.                            *)
MayMiss(x) == mined[x] = None \/ \E v \in Views : v < mined[x]
KernelHeights(i, x) == IF Listed(i) /\ mined[x] # None THEN {mined[x], None} ELSE {}
NoKernel(i, x) == GivesUp(i) \/ MayMiss(x)

(* kernel_one, the depth by the answer to get_tip, asked of the same         *)
(* endpoint when the chain was at asked. A height that cannot be read makes  *)
(* one confirmation, and 0 stands for an Err of the last endpoint.           *)
Confirmations(v, h) == IF v < h THEN 1 ELSE v - h + 1
Depths(i, h, asked) ==
    (IF GivesUp(i) THEN {0} ELSE {})
    \cup (IF tip - asked > RpcBlocks THEN {} ELSE {1})
    \cup (IF tip - asked > RpcBlocks \/ h = None THEN {}
          ELSE {Confirmations(v, h) : v \in Views})
=============================================================================
