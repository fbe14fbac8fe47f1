----------------------------- MODULE MCStartup ------------------------------
(* Environments, names, calls and events for Startup.                        *)
EXTENDS Startup

bot == <<"b", "o", "t">>
pay == <<"p", "a", "y">>
st == <<"s", "t">>
gob == <<"g", "0", "b">>
Brand == <<"G", "0", "b">>
cat == <<"c", "a", "t">>
own == <<"o", "w", "n">>
MCReserved == {bot, pay}

(* A brand with a digit and a capital, under a name authority's own label.   *)
home == << <<"i", "d">>, Brand, st >>
Https(domain) == [https |-> TRUE, host |-> domain, port |-> "", segs |-> <<>>]
Env(domain) ==
    [domain |-> domain, base |-> Https(domain), nameMin |-> <<>>, nameMax |-> <<>>,
     maxAge |-> <<>>, file |-> "none", lines |-> <<>>,
     transfers |-> "unset", nodeUrl |-> "blank"]

StartingEnvs ==
    { Env(home),
      [Env(home) EXCEPT !.base.port = ":8443", !.transfers = "on",
                        !.nodeUrl = "given"],
      [Env(home) EXCEPT !.base.segs = <<"nip05">>, !.nameMin = <<1>>, !.nameMax = <<4>>],
      [Env(Append(home, <<>>)) EXCEPT !.maxAge = <<-7>>],
      [Env(home) EXCEPT !.maxAge = <<-3>>, !.file = "lines",
                        !.lines = << <<"#", "c">>, <<>>, own, <<"C", "a", "t">> >>],
      [Env(<<Brand>>) EXCEPT !.maxAge = <<99>>, !.transfers = "no"] }
RefusedEnvs ==
    { Env(<<>>), [Env(home) EXCEPT !.base.https = FALSE],
      [Env(home) EXCEPT !.base.host = <<>>], [Env(home) EXCEPT !.base.host = <<cat, st>>],
      [Env(home) EXCEPT !.nameMin = <<0>>], [Env(home) EXCEPT !.nameMax = <<2>>],
      [Env(home) EXCEPT !.transfers = "1"], [Env(home) EXCEPT !.file = "unreadable"] }
NamesEnvs == StartingEnvs \cup RefusedEnvs

(* BASE_URL with a slash at its end.                                         *)
SlashEnvs == {Env(home), [Env(home) EXCEPT !.base.segs = <<"">>]}

(* The filter of NameRules is SelectSeq on every sequence of up to six.       *)
ASSUME WithoutIsSelectSeq ==
    \A n \in 0 .. 6 : \A s \in [1 .. n -> {"a", ".", "-"}] :
        Without(s, Separators) = SelectSeq(s, LAMBDA c : c \notin Separators)

MCSeeds == {<<>>, bot, gob, cat, own, <<"i", "d">>, st}

Call(method, path, body) ==
    [method |-> method, path |-> path, body |-> body,
     transfer |-> path[1] # "register"]
MCCalls ==
    { Call("POST", <<"register">>, "r1"), Call("POST", <<"register">>, "r2"),
      Call("DELETE", <<"register", "a">>, ""), Call("DELETE", <<"register", "b">>, ""),
      Call("DELETE", <<"register", "a", "">>, ""),
      Call("POST", <<"offer">>, "o1"), Call("DELETE", <<"offer", "a">>, ""),
      Call("POST", <<"claim">>, "r1") }

(* Events with every choice of one or two URLs, a method and a payload.      *)
Urls == {UrlOf(b, c.path) : b \in {e.base : e \in StartingEnvs},
                            c \in {d \in MCCalls : d.path[1] # "offer"}}
        \cup {UrlOf(Https(<<cat, st>>), <<"register">>)}
UTags == {[kind |-> "u", url |-> u] : u \in Urls}
MethodTags == {[kind |-> "method", method |-> m] : m \in {"POST", "DELETE"}}
PayloadTags == {[kind |-> "payload", hash |-> h] : h \in {{}, {""}, {"r1"}}}
Event(tags) == [wellFormed |-> TRUE, age |-> 0, tags |-> tags]
MCEvents ==
    {Event(<<u, m, p>>) : u \in UTags, m \in MethodTags, p \in PayloadTags}
    \cup {Event(<<u, m>>) : u \in UTags, m \in MethodTags}
    \cup {Event(<<u, v, m>>) : u \in UTags, v \in UTags, m \in MethodTags}
    \cup { [Event(<<u, m>>) EXCEPT !.age = -6] : u \in UTags, m \in MethodTags}
=============================================================================
