----------------------------- MODULE NameRules ------------------------------
(* The rules of src/src/names.rs. A name is a sequence of characters, each a *)
(* string of length one; a domain is a sequence of labels, which are names.  *)
EXTENDS Naturals, Sequences, FiniteSets

CONSTANT Reserved       \* the built-in list of reserved names

Lowers == <<"a", "b", "c", "d", "e", "f", "g", "h", "i", "j", "k", "l", "m",
            "n", "o", "p", "q", "r", "s", "t", "u", "v", "w", "x", "y", "z">>
Uppers == <<"A", "B", "C", "D", "E", "F", "G", "H", "I", "J", "K", "L", "M",
            "N", "O", "P", "Q", "R", "S", "T", "U", "V", "W", "X", "Y", "Z">>
Separators == {".", "_", "-"}
Alphanumerics == {Lowers[i] : i \in 1 .. 26}
                 \cup {"0", "1", "2", "3", "4", "5", "6", "7", "8", "9"}

ToLower(s) ==
    [i \in DOMAIN s |-> IF \E j \in 1 .. 26 : Uppers[j] = s[i]
                        THEN Lowers[CHOOSE j \in 1 .. 26 : Uppers[j] = s[i]]
                        ELSE s[i]]

ValidName(s, min, max) ==
    /\ Len(s) \in min .. max
    /\ \A i \in DOMAIN s : s[i] \in Alphanumerics \cup Separators
    /\ s[1] \in Alphanumerics /\ s[Len(s)] \in Alphanumerics

(* bytes[0] of an empty name that has passed the length test.                *)
Panics(s, min, max) == Len(s) \in min .. max /\ s = <<>>

(* A filter: what is left of s without the elements in drop, in its order,   *)
(* by the rank each has among those that stay. It is SelectSeq, without the  *)
(* recursion, which no proof could unfold; MCStartup compares the two.       *)
Kept(s, drop) == {i \in DOMAIN s : s[i] \notin drop}
Rank(s, drop, i) == Cardinality({k \in Kept(s, drop) : k <= i})
Without(s, drop) ==
    [j \in 1 .. Cardinality(Kept(s, drop)) |->
        s[CHOOSE i \in Kept(s, drop) : Rank(s, drop, i) = j]]

(* The letter a digit stands for.                                            *)
Twins == [d \in {"0", "1", "3", "4", "5", "7", "8", "9"} |->
            CASE d = "0" -> "o" [] d = "1" -> "i" [] d = "3" -> "e" [] d = "4" -> "a"
              [] d = "5" -> "s" [] d = "7" -> "t" [] d = "8" -> "b" [] d = "9" -> "g"]

Letter(c) == IF c \in DOMAIN Twins THEN Twins[c] ELSE c

(* Mutant of FoldLookalike: separators inside a name are kept. *)
MutDigitsOnly(s) == [i \in DOMAIN s |-> Letter(s[i])]
FoldLookalike(s) ==
    LET bare == Without(s, Separators)
    IN [i \in DOMAIN bare |-> Letter(bare[i])]

IsReserved(s, extra) ==
    \E r \in Reserved \cup extra : r = s \/ FoldLookalike(r) = FoldLookalike(s)

(* The labels but the last, empty ones aside; or the only one.               *)
KeptLabels(domain) ==
    LET labels == Without(domain, {<<>>})
    IN {labels[i] : i \in 1 .. (IF Len(labels) > 1 THEN Len(labels) - 1 ELSE Len(labels))}

(* Mutant of DomainReserved: the labels keep their case. *)
MutKeepCase(domain) == KeptLabels(domain)
DomainReserved(domain) == {ToLower(label) : label \in KeptLabels(domain)}
=============================================================================
