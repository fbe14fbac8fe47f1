------------------------------- MODULE Config -------------------------------
(* The configuration of src/src/config.rs: what from_env makes of the        *)
(* environment and what validate refuses. Of the settings that are read with *)
(* env_parse those are kept that a check or another setting looks at; the    *)
(* rest are the CONSTANTS of the modules that use them.                      *)
EXTENDS NameRules, Integers

CONSTANTS
    Envs,           \* environments an operator may start the service in
    Word            \* 2^64

(* What fits an i64. *)
Signed == -(Word \div 2) .. (Word \div 2) - 1

(* A number is <<n>>, or <<>> if unset or unparsable; a switch is its text.  *)
(* A base URL has the text from the host's colon to the path, if any, and    *)
(* the segments that follow: <<>> for "https://h", <<"">> for "https://h/".  *)
(* Of the node URLs it matters whether *)
(* the setting is blank; how many there are in it is NumEndpoints of Node.   *)
UrlType == [https : BOOLEAN, host : Seq(Seq(STRING)), port : STRING, segs : Seq(STRING)]
EnvType == [domain : Seq(Seq(STRING)), base : UrlType,
            nameMin : Seq(Nat), nameMax : Seq(Nat), maxAge : Seq(Signed),
            file : {"none", "unreadable", "lines"}, lines : Seq(Seq(STRING)),
            transfers : STRING, nodeUrl : {"blank", "given"}]

ASSUME ConfigAssumption == Envs \subseteq EnvType /\ Word \in Nat /\ Word > 128

EnvParse(value, default) == IF value = <<>> THEN default ELSE value[1]
EnvBool(text, default) ==
    IF text = "unset" THEN default ELSE text \in {"1", "true", "yes", "on"}

(* load_reserved_file: blank lines and comments are skipped.                 *)
FileNames(lines) ==
    {ToLower(lines[i]) : i \in {j \in DOMAIN lines :
                                  lines[j] # <<>> /\ lines[j][1] # "#"}}

FromEnv(e) ==
    [domain |-> e.domain, base |-> e.base,
     nameMin |-> EnvParse(e.nameMin, 3), nameMax |-> EnvParse(e.nameMax, 20),
     maxAge |-> EnvParse(e.maxAge, 60),
     extra |-> DomainReserved(e.domain)
               \cup (IF e.file = "lines" THEN FileNames(e.lines) ELSE {}),
     transfers |-> EnvBool(e.transfers, FALSE), nodeUrl |-> e.nodeUrl]

(* Mutants of Validate: no lower bound on the length, no look at the host.   *)
MutNoMinimum(cfg) ==
    /\ cfg.domain # <<>> /\ cfg.base.https /\ cfg.base.host = cfg.domain
    /\ cfg.nameMin <= cfg.nameMax
    /\ cfg.transfers => cfg.nodeUrl = "given"
MutAnyHost(cfg) ==
    /\ cfg.domain # <<>> /\ cfg.base.https /\ cfg.base.host # <<>>
    /\ cfg.nameMin # 0 /\ cfg.nameMin <= cfg.nameMax
    /\ cfg.transfers => cfg.nodeUrl = "given"
(* The host is compared without what follows its colon, be it a number or    *)
(* not, and the path after it is not looked at.                              *)
Validate(cfg) ==
    /\ cfg.domain # <<>>
    /\ cfg.base.https /\ cfg.base.host # <<>>
    /\ cfg.base.host = cfg.domain
    /\ cfg.nameMin # 0 /\ cfg.nameMin <= cfg.nameMax
    /\ cfg.transfers => cfg.nodeUrl = "given"

Starts(e) == e.file # "unreadable" /\ Validate(FromEnv(e))
=============================================================================
