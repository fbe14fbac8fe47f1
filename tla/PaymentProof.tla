---------------------------- MODULE PaymentProof ----------------------------
(* Payment proofs: src/src/proof.rs. Keys of slatepack addresses and their   *)
(* signatures are symbols: a signature names who made it and what it is      *)
(* over, and holds only if it was made. All of a message is under both       *)
(* signatures, except the address of the recipient, whose key makes one.     *)
EXTENDS Identities, Integers

CONSTANTS
    Excesses,       \* kernel excesses, each of them one payment on the chain
    Receipts        \* the signatures that wallets have made

Address == [hrp : STRING, key : STRING]
MessageType == [amount : Nat, excess : Excesses, sender : STRING]
Signature == [by : STRING, over : MessageType]

(* The six fields that parse_payment_proof requires.                         *)
ProofType == [amount : Nat, excess : Excesses, recipient : Address,
              recipientSig : Signature, sender : Address, senderSig : Signature]

ASSUME ProofAssumption == Receipts \subseteq Signature

(* decode_grin_address: mainnet and floonet, and no other prefix.            *)
Decodes(address) == address.hrp \in {"grin", "tgrin"}

PaymentProofMessage(p) ==
    [amount |-> p.amount, excess |-> p.excess, sender |-> p.sender.key]

Verifies(key, message, sig) ==
    sig \in Receipts /\ sig = [by |-> key, over |-> message]

(* Mutant of VerifySignatures: the receipt of the recipient is not checked.  *)
MutSenderOnly(p) ==
    /\ Decodes(p.recipient) /\ Decodes(p.sender)
    /\ Verifies(p.sender.key, PaymentProofMessage(p), p.senderSig)
VerifySignatures(p) ==
    /\ Decodes(p.recipient) /\ Decodes(p.sender)
    /\ Verifies(p.recipient.key, PaymentProofMessage(p), p.recipientSig)
    /\ Verifies(p.sender.key, PaymentProofMessage(p), p.senderSig)
=============================================================================
