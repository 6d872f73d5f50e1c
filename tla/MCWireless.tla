----------------------------- MODULE MCWireless -----------------------------
(* Model values for WirelessCommand: results that map to valid documents, one *)
(* whose time the boundary refuses unless years are padded, two that do not   *)
(* map, and an item that is no object; and, for the mappings alone, many      *)
(* combinations of fields.                                                    *)
EXTENDS WirelessCommand

Netid(m) == <<"mac", m, "dashes">>

Plain(m) == [netid |-> Netid(m), ssid |-> <<"ssid", "home", "padded">>, channel |-> <<"digits", 6>>]

Early(m) == [netid |-> Netid(m), lasttime |-> <<"time", 1>>]

Nameless == [ssid |-> <<"ssid", "home", "padded">>]

\* WiGLE's time of a network never seen, east of Greenwich.
Overflowing(m) == [netid |-> Netid(m), firsttime |-> <<"time", 0>>]

Dict(result) == <<"dict", result>>

Other == <<"list", {}>>

\* Pages of two: short ones, full ones that end in an object or not, and more
\* results than the pages asked for hold.
MCOffers ==
    {<<Dict(Early(1)), Dict(Plain(2))>>,
     <<Dict(Overflowing(1)), Dict(Plain(2))>>,
     <<Other, Dict(Plain(1)), Other, Dict(Plain(2)), Dict(Plain(1))>>,
     <<Dict(Plain(1)), Dict(Nameless), Dict(Plain(2))>>,
     <<Other, Dict(Plain(1)), Dict(Plain(2)), Other, Dict(Plain(1))>>}

MCActors == <<"kismet", "wigle">>

Sent == {Plain(1), Plain(2), Early(1)}

MCDocuments ==
    UNION {{NetworkDocuments[r], HostedDocuments[r], HostDocuments[r]} : r \in Mapped}
        \cup {ManifestDocument(a) : a \in ToSet(MCActors)}

\* For the mappings: securities of up to three words with each flag; and each
\* number, time and name beside a netid.
Encryptions ==
    {None, Empty, IntOf(0), <<"bool", TRUE>>}
        \cup {<<"words", ws>> : ws \in UNION {kSubset(k, {"none", "wep", "wep64", "wpa", "wpa2",
                  "wpa3", "wpa2enterprise", "wpa3enterprise", "unknown"}) : k \in 1..3}}

Weps == {None, <<"bool", TRUE>>, <<"bool", FALSE>>, IntOf(0), IntOf(1), <<"words", {"y"}>>,
         <<"words", {"n"}>>}

Numbers ==
    {None, Empty, <<"bool", TRUE>>, IntOf(-1), IntOf(0), IntOf(14), IntOf(15), IntOf(197),
     FloatOf(-1), FloatOf(0), FloatOf(6), <<"digits", 6>>, <<"superscript">>, <<"decimal", 6>>, <<"dict">>}

Times ==
    {None, Empty, IntOf(5)} \cup {<<"time", y>> : y \in {0, 1, 999, 1000, 9999, 10000}}

Names == {None, Empty, IntOf(7), Str("x"), <<"ssid", "home", "padded">>}

MCResults ==
    Sent \cup {Nameless, Overflowing(1)} \cup
    {[netid |-> Netid(1), encryption |-> e, wep |-> w] : e \in Encryptions, w \in Weps}
        \cup {[netid |-> n, ssid |-> s] : n \in Names \cup {Netid(1)}, s \in Names}
        \cup {[netid |-> Netid(1), channel |-> n, qos |-> n, trilat |-> n, firsttime |-> t] :
                  n \in Numbers, t \in Times}

Frequencies ==
    {None, IntOf(-1), FloatOf(0), IntOf(2999), IntOf(4900), IntOf(5925), IntOf(7126), Str("x")}

SsidMaps == {None, <<"list", {}>>, <<"list", {<<"ssid", "home", "plain">>, Empty, IntOf(1)}>>}

MCDevices ==
    {[macaddr |-> n, type |-> t, advertised_ssid_map |-> m, lastssid |-> s, last_bssid |-> n] :
         n \in {None, Netid(1)},
         t \in {None, IntOf(0), IntOf(3)}
                   \cup {<<"type", {}>>, <<"type", {"ap"}>>, <<"type", {"bridge"}>>},
         m \in SsidMaps, s \in Names}
        \cup {[macaddr |-> Netid(1), type |-> <<"type", {"ap"}>>, channel |-> n, frequency |-> f,
               last_signal_dbm |-> n, packets |-> n, first_time |-> n, manuf |-> s,
               probed_ssid_map |-> m] :
                  n \in Numbers, f \in Frequencies, s \in {None, Str("x")}, m \in SsidMaps}
=============================================================================
