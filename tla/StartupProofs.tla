--------------------------- MODULE StartupProofs ----------------------------
(* What a process that has started may rely on, for every environment, name, *)
(* call and event: no panic in the name rules, a replay set that keeps ids   *)
(* long enough, and events that are bound to the domain and to one call.     *)
EXTENDS Startup, NameRulesProofs

-----------------------------------------------------------------------------
(* While the service is up it runs with a configuration that was read from   *)
(* some environment and validated, and it has served only what that          *)
(* configuration accepts of the event; otherwise it has served nothing.      *)
Configured ==
    /\ Up => \E e \in Envs : Starts(e) /\ cfg = FromEnv(e)
    /\ ~Up => served = {}
    /\ served # {} => event \in Events
    /\ \A c \in served : c \in Calls /\ Accepts(cfg, event, c)
    /\ event \in Events \cup {NoEvent}

(* Init and every step of the process and of its clients preserve it.        *)
LEMMA ConfiguredInductive == Spec => []Configured
<1>1. Init => Configured
  BY DEF Init, Configured, Up
<1>2. Configured /\ [Next]_vars => Configured'
  <2> SUFFICES ASSUME Configured, [Next]_vars
               PROVE  Configured'
    OBVIOUS
  <2>1. CASE Start
    BY <2>1 DEF Start, Configured, Up
  <2>2. CASE Refuse
    BY <2>2 DEF Refuse, Configured, Up
  <2>3. CASE Stop
    BY <2>3 DEF Stop, Configured, Up
  <2>4. CASE Disguise
    BY <2>4 DEF Disguise, Configured, Up
  <2>5. CASE Deliver
    BY <2>5 DEF Deliver, Configured, Up
  <2>6. CASE UNCHANGED vars
    BY <2>6 DEF vars, Configured, Up
  <2> QED BY <2>1, <2>2, <2>3, <2>4, <2>5, <2>6 DEF Next
<1> QED BY <1>1, <1>2, PTL DEF Spec

-----------------------------------------------------------------------------
(* A number that is set is one of the type the setting is parsed to.         *)
LEMMA EnvParseType ==
    ASSUME NEW S, NEW value \in Seq(S), NEW default \in S
    PROVE  EnvParse(value, default) \in S
BY DEF EnvParse

(* Types of a configuration that was read from an environment.               *)
LEMMA ConfigType ==
    ASSUME NEW e \in Envs
    PROVE  /\ FromEnv(e).nameMin \in Nat
           /\ FromEnv(e).maxAge \in Signed
           /\ FromEnv(e).base \in UrlType
<1>1. e.nameMin \in Seq(Nat) /\ e.maxAge \in Seq(Signed) /\ e.base \in UrlType
  BY ConfigAssumption DEF EnvType
<1>2. EnvParse(e.nameMin, 3) \in Nat
  BY <1>1, EnvParseType
<1>3. 60 \in Signed
  BY ConfigAssumption DEF Signed
<1>4. EnvParse(e.maxAge, 60) \in Signed
  BY <1>1, <1>3, EnvParseType
<1> QED BY <1>1, <1>2, <1>4 DEF FromEnv

(* valid_name indexes into no empty name: validate refuses name_min = 0.     *)
THEOREM NeverPanics == Spec => []NoPanic
<1>1. Configured => NoPanic
  <2> SUFFICES ASSUME Configured, Up
               PROVE  ~Panics(name, cfg.nameMin, cfg.nameMax)
    BY DEF NoPanic, Verdict
  <2>1. PICK e \in Envs : Starts(e) /\ cfg = FromEnv(e)
    BY DEF Configured
  <2>2. cfg.nameMin \in Nat /\ cfg.nameMin # 0
    BY <2>1, ConfigType DEF Starts, Validate
  <2> QED BY <2>2 DEF Panics
<1> QED BY <1>1, ConfiguredInductive, PTL

-----------------------------------------------------------------------------
(* What a disguise is written with: the provers do not know that a literal   *)
(* is a string, so the characters a disguise may bring in are named.         *)
Characters == STRING \cup Separators \cup DOMAIN Twins \cup {Twins[d] : d \in DOMAIN Twins}

(* However a name has been disguised, the fold of look-alikes gives for it   *)
(* what it gives for the name it was made of.                                *)
Disguised ==
    /\ name \in Seq(Characters) /\ origin \in Seq(Characters)
    /\ FoldLookalike(name) = FoldLookalike(origin)

(* What two parts of a sequence hold.                                        *)
LEMMA Parts ==
    ASSUME NEW S, NEW s \in Seq(S), NEW i \in 0 .. Len(s), NEW j \in 0 .. Len(s)
    PROVE  /\ Len(s) \in Nat
           /\ SubSeq(s, 1, i) \in Seq(S) /\ Len(SubSeq(s, 1, i)) = i
           /\ \A k \in 1 .. i : SubSeq(s, 1, i)[k] = s[k]
           /\ SubSeq(s, j + 1, Len(s)) \in Seq(S)
           /\ Len(SubSeq(s, j + 1, Len(s))) = Len(s) - j
           /\ \A k \in 1 .. Len(s) - j : SubSeq(s, j + 1, Len(s))[k] = s[j + k]
<1>1. Len(s) \in Nat BY LenProperties
<1>2. /\ \A k \in 1 .. i : s[k] \in S
      /\ \A k \in j + 1 .. Len(s) : s[k] \in S
  BY <1>1, ElementOfSeq
<1>3. /\ SubSeq(s, 1, i) \in Seq(S)
      /\ Len(SubSeq(s, 1, i)) = IF 1 <= i THEN i - 1 + 1 ELSE 0
      /\ \A k \in 1 .. i - 1 + 1 : SubSeq(s, 1, i)[k] = s[1 + k - 1]
  <2>1. 1 \in Int /\ i \in Int BY <1>1
  <2> QED BY <1>2, <2>1, SubSeqProperties
<1>4. /\ SubSeq(s, j + 1, Len(s)) \in Seq(S)
      /\ Len(SubSeq(s, j + 1, Len(s)))
           = IF j + 1 <= Len(s) THEN Len(s) - (j + 1) + 1 ELSE 0
      /\ \A k \in 1 .. Len(s) - (j + 1) + 1 :
           SubSeq(s, j + 1, Len(s))[k] = s[(j + 1) + k - 1]
  <2>1. j + 1 \in Int /\ Len(s) \in Int BY <1>1
  <2> QED BY <1>2, <2>1, SubSeqProperties
<1>5. /\ SubSeq(s, 1, i) \in Seq(S) /\ Len(SubSeq(s, 1, i)) = i
      /\ \A k \in 1 .. i : SubSeq(s, 1, i)[k] = s[k]
  <2> DEFINE head == SubSeq(s, 1, i)
  <2> HIDE DEF head
  <2>1. /\ head \in Seq(S) /\ Len(head) = IF 1 <= i THEN i - 1 + 1 ELSE 0
        /\ \A k \in 1 .. i - 1 + 1 : head[k] = s[1 + k - 1]
    BY <1>3 DEF head
  <2>2. head \in Seq(S) /\ Len(head) = i /\ \A k \in 1 .. i : head[k] = s[k]
    BY <1>1, <2>1
  <2> QED BY <2>2 DEF head
<1>6. /\ SubSeq(s, j + 1, Len(s)) \in Seq(S)
      /\ Len(SubSeq(s, j + 1, Len(s))) = Len(s) - j
      /\ \A k \in 1 .. Len(s) - j : SubSeq(s, j + 1, Len(s))[k] = s[j + k]
  <2> DEFINE tail == SubSeq(s, j + 1, Len(s))
             n == Len(s)
  <2> HIDE DEF tail, n
  <2>1. /\ tail \in Seq(S) /\ Len(tail) = IF j + 1 <= n THEN n - (j + 1) + 1 ELSE 0
        /\ \A k \in 1 .. n - (j + 1) + 1 : tail[k] = s[(j + 1) + k - 1]
    BY <1>4 DEF tail, n
  <2>2. n \in Nat /\ j \in 0 .. n BY <1>1 DEF n
  <2>3. /\ tail \in Seq(S) /\ Len(tail) = n - j
        /\ \A k \in 1 .. n - j : tail[k] = s[j + k]
    BY <2>1, <2>2
  <2> QED BY <2>3 DEF tail, n
<1> QED BY <1>1, <1>5, <1>6

(* ConcatProperties, for sequences that are hidden behind a name.            *)
LEMMA Joined ==
    ASSUME NEW S, NEW u \in Seq(S), NEW v \in Seq(S)
    PROVE  /\ u \o v \in Seq(S) /\ Len(u \o v) = Len(u) + Len(v)
           /\ \A k \in 1 .. Len(u) + Len(v) :
                (u \o v)[k] = IF k <= Len(u) THEN u[k] ELSE v[k - Len(u)]
BY ConcatProperties

(* A separator that is put in is one that could be left out.                 *)
LEMMA InsertUnseen ==
    ASSUME NEW S, NEW s \in Seq(S), NEW i \in 0 .. Len(s),
           NEW c \in S, c \in Separators
    PROVE  /\ Insert(s, i, c) \in Seq(S)
           /\ FoldLookalike(Insert(s, i, c)) = FoldLookalike(s)
<1> DEFINE head == SubSeq(s, 1, i)
           tail == SubSeq(s, i + 1, Len(s))
           u == head \o <<c>>
           t == u \o tail
<1>1. /\ Len(s) \in Nat
      /\ head \in Seq(S) /\ Len(head) = i /\ \A k \in 1 .. i : head[k] = s[k]
      /\ tail \in Seq(S) /\ Len(tail) = Len(s) - i
      /\ \A k \in 1 .. Len(s) - i : tail[k] = s[i + k]
  BY Parts
<1>2. <<c>> \in Seq(S) /\ Len(<<c>>) = 1 /\ <<c>>[1] = c OBVIOUS
<1> HIDE DEF head, tail
<1>3. /\ u \in Seq(S) /\ Len(u) = i + 1
      /\ \A k \in 1 .. i + 1 : u[k] = IF k <= i THEN head[k] ELSE <<c>>[k - i]
  BY <1>1, <1>2, ConcatProperties
<1>4. u[i + 1] = c /\ \A k \in 1 .. i : u[k] = s[k]
  <2> HIDE DEF u
  <2>1. i + 1 \in 1 .. i + 1 /\ ~(i + 1 <= i) /\ (i + 1) - i = 1 BY <1>1
  <2>2. u[i + 1] = c BY <1>2, <1>3, <2>1
  <2>3. ASSUME NEW k \in 1 .. i PROVE u[k] = s[k]
    <3>1. k \in 1 .. i + 1 /\ k <= i BY <1>1
    <3> QED BY <1>1, <1>3, <3>1
  <2> QED BY <2>2, <2>3
<1> HIDE DEF u
<1>5. /\ t \in Seq(S) /\ Len(t) = Len(s) + 1
      /\ \A k \in 1 .. Len(s) + 1 :
           t[k] = IF k <= i + 1 THEN u[k] ELSE tail[k - (i + 1)]
  <2>1. /\ t \in Seq(S) /\ Len(t) = Len(u) + Len(tail)
        /\ \A k \in 1 .. Len(u) + Len(tail) :
             t[k] = IF k <= Len(u) THEN u[k] ELSE tail[k - Len(u)]
    <3>1. u \in Seq(S) /\ tail \in Seq(S) BY <1>1, <1>3
    <3> QED BY <3>1, Joined
  <2>2. Len(u) + Len(tail) = Len(s) + 1 BY <1>1, <1>3
  <2> HIDE DEF t
  <2> QED BY <1>3, <2>1, <2>2
<1> HIDE DEF t
<1>6. t[i + 1] = c BY <1>1, <1>4, <1>5
<1>7. ASSUME NEW k \in 1 .. Len(s)
      PROVE  s[k] = t[IF k < i + 1 THEN k ELSE k + 1]
  <2>1. CASE k < i + 1
    <3>1. k \in 1 .. i /\ k \in 1 .. Len(s) + 1 /\ k <= i + 1 BY <1>1, <2>1
    <3> QED BY <1>4, <1>5, <2>1, <3>1
  <2>2. CASE ~(k < i + 1)
    <3>1. /\ k + 1 \in 1 .. Len(s) + 1 /\ ~(k + 1 <= i + 1)
          /\ (k + 1) - (i + 1) = k - i
          /\ k - i \in 1 .. Len(s) - i /\ i + (k - i) = k
      BY <1>1, <2>2
    <3>2. t[k + 1] = tail[k - i] BY <1>5, <3>1
    <3> QED BY <1>1, <2>2, <3>1, <3>2
  <2> QED BY <2>1, <2>2
<1>8. i + 1 \in 1 .. Len(t) BY <1>1, <1>5
<1>9. FoldLookalike(t) = FoldLookalike(s) BY <1>5, <1>6, <1>7, <1>8, GapUnseen
<1>10. Insert(s, i, c) = t BY DEF Insert, t, u, head, tail
<1> QED BY <1>5, <1>9, <1>10

(* A separator is left out.                                                  *)
LEMMA RemoveUnseen ==
    ASSUME NEW S, NEW s \in Seq(S), NEW i \in DOMAIN s, s[i] \in Separators
    PROVE  /\ Remove(s, i) \in Seq(S)
           /\ FoldLookalike(Remove(s, i)) = FoldLookalike(s)
<1> DEFINE head == SubSeq(s, 1, i - 1)
           tail == SubSeq(s, i + 1, Len(s))
           t == head \o tail
<1>1. Len(s) \in Nat /\ i \in 1 .. Len(s) BY LenProperties
<1>2. /\ head \in Seq(S) /\ Len(head) = i - 1
      /\ \A k \in 1 .. i - 1 : head[k] = s[k]
      /\ tail \in Seq(S) /\ Len(tail) = Len(s) - i
      /\ \A k \in 1 .. Len(s) - i : tail[k] = s[i + k]
  <2> DEFINE p == i - 1
  <2>1. p \in 0 .. Len(s) /\ i \in 0 .. Len(s) BY <1>1
  <2> HIDE DEF p, tail
  <2>2. /\ SubSeq(s, 1, p) \in Seq(S) /\ Len(SubSeq(s, 1, p)) = p
        /\ \A k \in 1 .. p : SubSeq(s, 1, p)[k] = s[k]
    BY <2>1, Parts
  <2>3. /\ tail \in Seq(S) /\ Len(tail) = Len(s) - i
        /\ \A k \in 1 .. Len(s) - i : tail[k] = s[i + k]
    BY <2>1, Parts DEF tail
  <2>4. /\ head \in Seq(S) /\ Len(head) = i - 1
        /\ \A k \in 1 .. i - 1 : head[k] = s[k]
    BY ONLY <2>2 DEF p, head
  <2> HIDE DEF head
  <2> QED BY <2>3, <2>4
<1> HIDE DEF head, tail
<1>3. /\ t \in Seq(S) /\ Len(t) = (i - 1) + (Len(s) - i)
      /\ \A k \in 1 .. (i - 1) + (Len(s) - i) :
           t[k] = IF k <= i - 1 THEN head[k] ELSE tail[k - (i - 1)]
  <2>1. /\ t \in Seq(S) /\ Len(t) = Len(head) + Len(tail)
        /\ \A k \in 1 .. Len(head) + Len(tail) :
             t[k] = IF k <= Len(head) THEN head[k] ELSE tail[k - Len(head)]
    <3>1. head \in Seq(S) /\ tail \in Seq(S) BY <1>2
    <3> QED BY <3>1, Joined
  <2> HIDE DEF t
  <2> QED BY <1>2, <2>1
<1> HIDE DEF t
<1>4. (i - 1) + (Len(s) - i) = Len(s) - 1 /\ Len(s) = Len(t) + 1
  <2> DEFINE n == Len(s)
             l == Len(t)
  <2>1. n \in Nat /\ i \in Int /\ l = (i - 1) + (n - i) BY <1>1, <1>3
  <2> HIDE DEF n, l
  <2>2. (i - 1) + (n - i) = n - 1 /\ n = l + 1 BY ONLY <2>1
  <2> QED BY <2>2 DEF n, l
<1>5. ASSUME NEW k \in 1 .. Len(t)
      PROVE  t[k] = s[IF k < i THEN k ELSE k + 1]
  <2>1. k \in 1 .. (i - 1) + (Len(s) - i) BY <1>3
  <2>2. CASE k < i
    <3>1. k \in 1 .. i - 1 /\ k <= i - 1 BY <1>1, <2>2
    <3> QED BY <1>2, <1>3, <2>1, <2>2, <3>1
  <2>3. CASE ~(k < i)
    <3>1. /\ ~(k <= i - 1) /\ k - (i - 1) \in 1 .. Len(s) - i
          /\ i + (k - (i - 1)) = k + 1
      <4> DEFINE n == Len(s)
      <4>1. n \in Nat /\ i \in 1 .. n BY <1>1
      <4>2. k \in 1 .. (i - 1) + (n - i) BY <2>1
      <4> HIDE DEF n
      <4>3. /\ ~(k <= i - 1) /\ k - (i - 1) \in 1 .. n - i
            /\ i + (k - (i - 1)) = k + 1
        <5>1. k \in Nat /\ i \in Nat /\ i <= k BY <2>3, <4>1, <4>2
        <5>2. k <= n - 1 BY <4>1, <4>2
        <5>3. ~(k <= i - 1) /\ i + (k - (i - 1)) = k + 1 BY <5>1
        <5>4. k - (i - 1) \in Nat /\ 1 <= k - (i - 1) BY <5>1
        <5>5. k - (i - 1) <= n - i BY <4>1, <5>1, <5>2
        <5> QED BY <4>1, <5>3, <5>4, <5>5
      <4> QED BY <4>3 DEF n
    <3>2. t[k] = tail[k - (i - 1)] BY <1>3, <2>1, <3>1
    <3> QED BY <1>2, <2>3, <3>1, <3>2
  <2> QED BY <2>2, <2>3
<1>6. FoldLookalike(t) = FoldLookalike(s) BY <1>1, <1>3, <1>4, <1>5, GapUnseen
<1> QED BY <1>3, <1>6 DEF Remove, t, head, tail

(* A digit is taken for its twin, or a twin for its digit.                   *)
LEMMA TwinUnseen ==
    ASSUME NEW S, NEW s \in Seq(S), NEW i \in DOMAIN s, NEW d \in DOMAIN Twins,
           NEW c \in S, \/ s[i] = d /\ c = Twins[d]
                        \/ s[i] = Twins[d] /\ c = d
    PROVE  /\ Swapped(s, i, c) \in Seq(S)
           /\ FoldLookalike(Swapped(s, i, c)) = FoldLookalike(s)
<1>1. s[i] \notin Separators /\ c \notin Separators BY TwinLetters
<1>2. Letter(c) = Letter(s[i]) BY TwinLetters
<1> QED BY <1>1, <1>2, SwapUnseen DEF Swapped

(* A name starts and ends with a letter or a digit.                          *)
LEMMA NoSeparator == Alphanumerics \cap Separators = {}
<1> DEFINE L == {"a", "b", "c", "d", "e", "f", "g", "h", "i", "j", "k", "l", "m",
                 "n", "o", "p", "q", "r", "s", "t", "u", "v", "w", "x", "y", "z"}
<1>1. Lowers \in Seq(L) /\ Len(Lowers) = 26 BY DEF Lowers
<1>2. L \cap Separators = {} BY DEF Separators
<1> HIDE DEF L
<1>3. \A k \in 1 .. 26 : Lowers[k] \in L BY <1>1, ElementOfSeq
<1> QED BY <1>2, <1>3 DEF Alphanumerics, Separators

(* A sequence over a set is one over a larger set.                           *)
LEMMA LargerAlphabet ==
    ASSUME NEW S, NEW T, S \subseteq T, NEW s \in Seq(S)
    PROVE  s \in Seq(T)
OBVIOUS

(* Init and every step preserve it: only the last disguise counts.           *)
LEMMA DisguisedInductive == Spec => []Disguised
<1>1. Init => Disguised
  <2>1. STRING \subseteq Characters BY DEF Characters
  <2>2. Seeds \subseteq Seq(Characters)
    BY <2>1, StartupAssumption, LargerAlphabet
  <2>3. <<>> \in Seq(Characters) OBVIOUS
  <2> QED BY <2>2, <2>3 DEF Init, Disguised
<1>2. Disguised /\ [Next]_vars => Disguised'
  <2> SUFFICES ASSUME Disguised, [Next]_vars
               PROVE  Disguised'
    OBVIOUS
  <2>1. CASE Start
    BY <2>1 DEF Start, Disguised
  <2>2. CASE Refuse
    BY <2>2 DEF Refuse, Disguised
  <2>3. CASE Stop
    BY <2>3 DEF Stop, Disguised
  <2>4. CASE Disguise
    <3>1. name \in Seq(Characters) BY DEF Disguised
    <3>2. name' \in Seq(Characters) /\ FoldLookalike(name') = FoldLookalike(name)
      <4>1. ASSUME NEW i \in 0 .. Len(name), NEW c \in Separators,
                   name' = Insert(name, i, c)
            PROVE  <3>2
        BY <3>1, <4>1, InsertUnseen DEF Characters
      <4>2. ASSUME NEW i \in DOMAIN name, name[i] \in Separators,
                   name' = Remove(name, i)
            PROVE  <3>2
        BY <3>1, <4>2, RemoveUnseen
      <4>3. ASSUME NEW i \in DOMAIN name, NEW d \in DOMAIN Twins,
                   \/ name[i] = d /\ name' = Swapped(name, i, Twins[d])
                   \/ name[i] = Twins[d] /\ name' = Swapped(name, i, d)
            PROVE  <3>2
        <5>1. d \in Characters /\ Twins[d] \in Characters BY DEF Characters
        <5> QED BY <3>1, <4>3, <5>1, TwinUnseen
      <4> QED BY <2>4, <4>1, <4>2, <4>3 DEF Disguise
    <3> QED BY <2>4, <3>2 DEF Disguise, Disguised
  <2>5. CASE Deliver
    BY <2>5 DEF Deliver, Disguised
  <2>6. CASE UNCHANGED vars
    BY <2>6 DEF vars, Disguised
  <2> QED BY <2>1, <2>2, <2>3, <2>4, <2>5, <2>6 DEF Next
<1> QED BY <1>1, <1>2, PTL DEF Spec

(* A disguise of any length and depth is reserved exactly if its origin is:  *)
(* is_reserved looks at the fold, which a disguise leaves as it was.         *)
THEOREM VerdictFollows == Spec => []VerdictFollowsOrigin
<1>1. Disguised => VerdictFollowsOrigin
  BY ReservedByFold DEF Disguised, VerdictFollowsOrigin
<1> QED BY <1>1, DisguisedInductive, PTL

(* No disguise of a label of the domain is free, whatever the domain. If the *)
(* label is empty its disguises have no letter, and none of them is valid.   *)
THEOREM BrandStays == Spec => []BrandKept
<1>1. Configured /\ Disguised => BrandKept
  <2> SUFFICES ASSUME Configured, Disguised, Up,
                      NEW i \in DOMAIN cfg.domain, NEW j \in DOMAIN cfg.domain,
                      i < j, cfg.domain[j] # <<>>, origin = ToLower(cfg.domain[i]),
                      Verdict(cfg, name) = "free"
               PROVE  FALSE
    BY DEF BrandKept
  <2>1. PICK e \in Envs : Starts(e) /\ cfg = FromEnv(e) BY DEF Configured
  <2>2. /\ cfg.domain \in Seq(Seq(STRING))
        /\ DomainReserved(cfg.domain) \subseteq cfg.extra
        /\ cfg.nameMin \in Nat /\ cfg.nameMin # 0
    <3>1. e.domain \in Seq(Seq(STRING)) BY ConfigAssumption DEF EnvType
    <3> QED BY <2>1, <3>1, ConfigType DEF Starts, Validate, FromEnv
  <2>3. /\ ~IsReserved(name, cfg.extra)
        /\ ValidName(name, cfg.nameMin, cfg.nameMax)
    BY DEF Verdict
  <2>4. FoldLookalike(name) = FoldLookalike(origin) BY DEF Disguised
  <2>5. CASE cfg.domain[i] # <<>>
    <3>1. cfg.domain[i] \in KeptLabels(cfg.domain) BY <2>2, <2>5, LabelKept
    <3>2. origin \in cfg.extra BY <2>2, <3>1 DEF DomainReserved
    <3> QED BY <2>3, <2>4, <3>2, ReservedByFold
  <2>6. CASE cfg.domain[i] = <<>>
    <3>1. origin = <<>> BY <2>6 DEF ToLower
    <3>2. 1 \in DOMAIN name /\ name[1] \notin Separators
      <4>1. Len(name) \in Nat /\ DOMAIN name = 1 .. Len(name)
        BY LenProperties DEF Disguised
      <4>2. Len(name) \in cfg.nameMin .. cfg.nameMax /\ name[1] \in Alphanumerics
        BY <2>3 DEF ValidName
      <4>3. Alphanumerics \cap Separators = {}
        BY NoSeparator
      <4>4. 1 \in DOMAIN name BY <2>2, <4>1, <4>2
      <4> QED BY <4>2, <4>3, <4>4
    <3> QED BY <2>4, <3>1, <3>2, LetterLeft DEF Disguised
  <2> QED BY <2>5, <2>6
<1> QED BY <1>1, ConfiguredInductive, DisguisedInductive, PTL

-----------------------------------------------------------------------------
(* Trimming takes slashes only: the host stays.                              *)
LEMMA TrimmedHost ==
    ASSUME NEW url \in UrlType
    PROVE  Trimmed(url).host = url.host
BY DEF Trimmed, UrlType

(* What trimming does to a sequence that does not end in the trimmed value.  *)
LEMMA NothingToTrim ==
    ASSUME NEW S, NEW s \in Seq(S), NEW b, s # <<>>, s[Len(s)] # b
    PROVE  SubSeq(s, 1, Max({0} \cup {i \in DOMAIN s : s[i] # b})) = s
<1> DEFINE last == {0} \cup {i \in DOMAIN s : s[i] # b}
<1>1. Len(s) \in Nat /\ Len(s) >= 1 /\ DOMAIN s = 1 .. Len(s)
  BY LenProperties, EmptySeq
<1>2. Len(s) \in last
  BY <1>1
<1>3. \A i \in last : i \in Int /\ Len(s) >= i
  BY <1>1
<1>4. Max(last) = Len(s)
  <2> HIDE DEF last
  <2>1. \A x \in last : (\A y \in last : x >= y) => x = Len(s)
    BY <1>1, <1>2, <1>3
  <2> QED BY <1>2, <1>3, <2>1 DEF Max
<1>5. SubSeq(s, 1, Len(s)) = s
  BY SubSeqFull
<1> QED BY <1>4, <1>5

(* The last value of a concatenation.                                        *)
LEMMA LastOfConcat ==
    ASSUME NEW S, NEW s \in Seq(S), NEW t \in Seq(S), t # <<>>
    PROVE  s \o t \in Seq(S) /\ s \o t # <<>> /\ (s \o t)[Len(s \o t)] = t[Len(t)]
<1>1. Len(s) \in Nat /\ Len(t) \in Nat /\ Len(t) >= 1
  BY LenProperties, EmptySeq
<1> DEFINE u == s \o t
<1>2. /\ u \in Seq(S) /\ Len(u) = Len(s) + Len(t)
      /\ \A i \in 1 .. Len(s) + Len(t) :
           u[i] = IF i <= Len(s) THEN s[i] ELSE t[i - Len(s)]
  BY ConcatProperties
<1> HIDE DEF u
<1>3. u # <<>> /\ u[Len(u)] = t[Len(t)]
  BY <1>1, <1>2
<1> QED BY <1>2, <1>3 DEF u

(* The URL of a call whose path does not end in a slash is left alone.       *)
LEMMA UrlOfPath ==
    ASSUME NEW base \in UrlType, NEW path \in Seq(STRING),
           path # <<>>, path[Len(path)] # ""
    PROVE  /\ UrlOf(base, path).host = base.host
           /\ Trimmed(UrlOf(base, path)).segs = base.segs \o path
<1> DEFINE s == base.segs \o path
<1>1. base.segs \in Seq(STRING)
  BY Zenon DEF UrlType
<1>2. s \in Seq(STRING) /\ s # <<>> /\ s[Len(s)] # ""
  BY <1>1, LastOfConcat
<1>3. SubSeq(s, 1, Max({0} \cup {i \in DOMAIN s : s[i] # ""})) = s
  BY <1>2, NothingToTrim
<1> HIDE DEF s
<1>4. UrlOf(base, path) = [base EXCEPT !.segs = s]
  BY DEF UrlOf, s
<1> QED BY <1>3, <1>4 DEF Trimmed, UrlType, s

(* What an accepted event says of the URL it was signed for.                 *)
LEMMA AcceptedUrl ==
    ASSUME Configured, NEW c \in served
    PROVE  /\ Trimmed(LastTag(event.tags, "u").url) = Trimmed(UrlOf(cfg.base, c.path))
           /\ LastTag(event.tags, "u").url \in UrlType
           /\ cfg.base \in UrlType
           /\ cfg.base.host = cfg.domain
<1>1. /\ Tagged(event.tags, "u") # {}
      /\ Trimmed(LastTag(event.tags, "u").url) = Trimmed(UrlOf(cfg.base, c.path))
  BY DEF Configured, Accepts, VerifyNip98, UrlOk
<1>2. event \in Events
  BY DEF Configured
<1>3. LastTag(event.tags, "u").url \in UrlType
  BY <1>1, <1>2, StartupAssumption
<1>4. PICK e \in Envs : Starts(e) /\ cfg = FromEnv(e)
  BY DEF Configured
<1>5. cfg.base \in UrlType /\ cfg.base.host = cfg.domain
  BY <1>4, ConfigType DEF Starts, Validate
<1> QED BY <1>1, <1>3, <1>5

(* The base URL may carry a path and slashes: an accepted event names the    *)
(* host of the domain all the same.                                          *)
THEOREM BoundToHost == Spec => []HostBound
<1>1. Configured => HostBound
  <2> SUFFICES ASSUME Configured, NEW c \in served
               PROVE  LastTag(event.tags, "u").url.host = cfg.domain
    BY DEF HostBound
  <2>1. UrlOf(cfg.base, c.path) \in [https : BOOLEAN, host : Seq(Seq(STRING)),
                                     port : STRING, segs : Seq(STRING)]
    <3>1. c.path \in Seq(STRING)
      BY StartupAssumption DEF Configured
    <3>2. cfg.base.segs \o c.path \in Seq(STRING)
      BY <3>1, AcceptedUrl, ConcatProperties DEF UrlType
    <3> QED BY <3>2, AcceptedUrl DEF UrlOf, UrlType
  <2>2. Trimmed(UrlOf(cfg.base, c.path)).host = UrlOf(cfg.base, c.path).host
    BY <2>1, TrimmedHost DEF UrlType
  <2>3. UrlOf(cfg.base, c.path).host = cfg.base.host
    BY AcceptedUrl DEF UrlOf, UrlType
  <2> QED BY <2>2, <2>3, AcceptedUrl, TrimmedHost
<1> QED BY <1>1, ConfiguredInductive, PTL

(* Calls that agree on every field are one call.                             *)
LEMMA SameCall ==
    ASSUME NEW S, NEW T, NEW B,
           NEW x \in [method : S, path : T, body : S, transfer : B],
           NEW y \in [method : S, path : T, body : S, transfer : B],
           x.method = y.method, x.path = y.path, x.body = y.body,
           x.transfer = y.transfer
    PROVE  x = y
OBVIOUS

(* Two calls that one event was accepted for are the same call: their URLs,  *)
(* methods and bodies are those of the tags that count.                      *)
THEOREM CallsPerEvent == Spec => []OneCallPerEvent
<1>1. Configured => OneCallPerEvent
  <2> SUFFICES ASSUME Configured,
                      NEW c \in served, c.path[Len(c.path)] # "",
                      NEW d \in served, d.path[Len(d.path)] # ""
               PROVE  c = d
    BY DEF OneCallPerEvent
  <2>1. /\ c \in Calls /\ c.path \in Seq(STRING) /\ c.path # <<>>
        /\ d \in Calls /\ d.path \in Seq(STRING) /\ d.path # <<>>
    BY StartupAssumption DEF Configured
  <2>2. c.path = d.path
    <3>1. cfg.base.segs \o c.path = cfg.base.segs \o d.path
      <4>1. Trimmed(UrlOf(cfg.base, c.path)) = Trimmed(UrlOf(cfg.base, d.path))
        BY AcceptedUrl, Zenon
      <4>2. Trimmed(UrlOf(cfg.base, c.path)).segs = cfg.base.segs \o c.path
        BY <2>1, AcceptedUrl, UrlOfPath
      <4>3. Trimmed(UrlOf(cfg.base, d.path)).segs = cfg.base.segs \o d.path
        BY <2>1, AcceptedUrl, UrlOfPath
      <4> QED BY <4>1, <4>2, <4>3, Zenon
    <3>2. cfg.base.segs \in Seq(STRING)
      BY AcceptedUrl, Zenon DEF UrlType
    <3> QED BY <2>1, <3>1, <3>2, ConcatSimplifications
  <2>3. c.method = d.method
    BY DEF Configured, Accepts, VerifyNip98, MethodOk
  <2>4. c.body = d.body
    <3>1. PayloadOk(event.tags, c.body) /\ PayloadOk(event.tags, d.body)
      BY DEF Configured, Accepts, VerifyNip98
    <3> QED BY <3>1 DEF PayloadOk
  <2>5. c.transfer = d.transfer
    BY <2>1, <2>2, StartupAssumption
  <2> QED BY <2>1, <2>2, <2>3, <2>4, <2>5, SameCall, StartupAssumption, Zenon
<1> QED BY <1>1, ConfiguredInductive, PTL

-----------------------------------------------------------------------------
(* No BASE_URL that the service may be started with ends in a slash. Without *)
(* this SignedCallsAccepted fails: see startup_base_url.                     *)
BasesTrimmed == \A e \in Envs : Starts(e) => Trimmed(e.base) = e.base

LEMMA OnlyOne == Max({1}) = 1 /\ Max({2}) = 2 /\ Max({3}) = 3
<1>1. ASSUME NEW n \in Int PROVE Max({n}) = n
  <2>1. \A x \in {n} : \A y \in {n} : x >= y BY <1>1
  <2> QED BY <2>1 DEF Max
<1> QED BY <1>1

(* A service that is up accepts each of its calls when the event is signed   *)
(* for its public URL, whatever the port and the path of that URL.           *)
THEOREM SignedCallsPass ==
    ASSUME BasesTrimmed
    PROVE  Spec => []SignedCallsAccepted
<1>1. Configured => SignedCallsAccepted
  <2> SUFFICES ASSUME Configured, Up, NEW call \in Calls, Mounted(cfg, call),
                      cfg.maxAge >= 0
               PROVE  VerifyNip98(Fresh(call), call, cfg.base, cfg.maxAge)
    BY DEF SignedCallsAccepted, Accepts
  <2>1. PICK e \in Envs : Starts(e) /\ cfg = FromEnv(e) BY DEF Configured
  <2>2. cfg.maxAge \in Int /\ cfg.base = e.base
    BY <2>1, ConfigType, ConfigAssumption DEF Signed, FromEnv
  <2>3. Trimmed(cfg.base) = cfg.base BY <2>1, <2>2 DEF BasesTrimmed
  <2> DEFINE u == [kind |-> "u", url |-> UrlOf(cfg.base, call.path)]
             m == [kind |-> "method", method |-> call.method]
             p == [kind |-> "payload", hash |-> {call.body}]
             tags == <<u, m, p>>
  <2>4. /\ Fresh(call).tags = tags /\ Fresh(call).wellFormed /\ Fresh(call).age = 0
    BY <2>3 DEF Fresh, UrlOf
  <2>5. DOMAIN tags = {1, 2, 3} /\ tags[1] = u /\ tags[2] = m /\ tags[3] = p OBVIOUS
  <2>6. u.kind = "u" /\ m.kind = "method" /\ p.kind = "payload" OBVIOUS
  <2>7. /\ u.url = UrlOf(cfg.base, call.path) /\ m.method = call.method
        /\ p.hash = {call.body}
    OBVIOUS
  <2> HIDE DEF tags, u, m, p
  <2>8. /\ Tagged(tags, "u") = {1} /\ Tagged(tags, "method") = {2}
        /\ Tagged(tags, "payload") = {3}
    BY <2>5, <2>6 DEF Tagged
  <2>9. /\ LastTag(tags, "u") = u /\ LastTag(tags, "method") = m
        /\ LastTag(tags, "payload") = p
    BY <2>5, <2>8, OnlyOne DEF LastTag
  <2>10. UrlOk(tags, UrlOf(cfg.base, call.path)) BY <2>7, <2>8, <2>9 DEF UrlOk
  <2>11. MethodOk(tags, call.method) BY <2>7, <2>8, <2>9 DEF MethodOk
  <2>12. PayloadOk(tags, call.body) BY <2>7, <2>8, <2>9 DEF PayloadOk, PayloadHash
  <2> QED BY <2>2, <2>4, <2>10, <2>11, <2>12 DEF VerifyNip98
<1> QED BY <1>1, ConfiguredInductive, PTL
=============================================================================
