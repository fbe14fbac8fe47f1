-------------------------------- MODULE Nip98 -------------------------------
(* Which call a signed auth event is good for: verify_nip98 of               *)
(* src/src/auth.rs. A URL is a base (see Config) with the segments of a      *)
(* path; a payload hash is the set of the body it is the hash of, and {} for *)
(* a tag without a value, as tags of the other kinds without one are as none.*)
EXTENDS Integers, Sequences, FiniteSetsExt

(* trim_end_matches('/')                                                     *)
Trimmed(url) ==
    [url EXCEPT !.segs = SubSeq(@, 1, Max({0} \cup {i \in DOMAIN @ : @[i] # ""}))]

(* Mutant of UrlOf: the path of the base is lost. *)
MutNoMount(base, path) == [base EXCEPT !.segs = path]
UrlOf(base, path) == [base EXCEPT !.segs = @ \o path]

Tagged(tags, kind) == {i \in DOMAIN tags : tags[i].kind = kind}

(* A later tag of one kind replaces an earlier one.                          *)
LastTag(tags, kind) == tags[Max(Tagged(tags, kind))]

(* Mutant of UrlOk: any of the tags will do. *)
MutAnyTag(tags, expected) ==
    \E i \in Tagged(tags, "u") : Trimmed(tags[i].url) = Trimmed(expected)
UrlOk(tags, expected) ==
    /\ Tagged(tags, "u") # {}
    /\ Trimmed(LastTag(tags, "u").url) = Trimmed(expected)

MethodOk(tags, method) ==
    Tagged(tags, "method") # {} /\ LastTag(tags, "method").method = method

PayloadHash(tags) ==
    IF Tagged(tags, "payload") = {} THEN {} ELSE LastTag(tags, "payload").hash
PayloadOk(tags, body) ==
    LET hash == PayloadHash(tags) IN hash = {body} \/ (hash = {} /\ body = "")

VerifyNip98(event, call, base, maxAge) ==
    /\ event.wellFormed
    /\ -5 <= event.age /\ event.age <= maxAge
    /\ UrlOk(event.tags, UrlOf(base, call.path))
    /\ MethodOk(event.tags, call.method)
    /\ PayloadOk(event.tags, call.body)
=============================================================================
