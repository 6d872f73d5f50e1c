-------------------------- MODULE WirelessDocuments --------------------------
(***************************************************************************)
(* The StarIntel documents of the wireless tools: how a WiGLE result and a *)
(* Kismet device become documents (wigle/mapping.py and kismet/mapping.py  *)
(* under tools/wireless/src/hackmode_wireless/), their deterministic ids,  *)
(* and the boundary that validates every document before it is published   *)
(* (transport.py).                                                         *)
(*                                                                         *)
(* A value of a JSON object is a tuple of a tag and what the code looks at *)
(*   <<"none">>       null, or an absent field                             *)
(*   <<"bool", b>>, <<"int", n>>, <<"float", n>>   (n: the integer part)   *)
(*   <<"list", vs>>, <<"dict">>                                            *)
(* and for strings                                                         *)
(*   <<"digits", n>>  one that str.isdigit() and int() take                *)
(*   <<"superscript">> one that str.isdigit() takes and int() does not     *)
(*   <<"decimal", n>> one that only float() takes                          *)
(*   <<"time", y>>    an ISO time, in the year y at UTC: 1 to 9999, or the *)
(*                    year before or after them, which datetime cannot be  *)
(*                    in and an offset from UTC may lead to                *)
(*   <<"mac", m, s>>  a spelling s of the hardware address m               *)
(*   <<"ssid", i, s>> a spelling s of the network name i                   *)
(*   <<"words", ws>>  words between separators, in any case                *)
(*   <<"type", ts>>   a device type, ts the "ap" or "bridge" in it         *)
(*   <<"id", ...>>    what an id or a source name is made of               *)
(*   <<"str", x>>     any other, "" a blank one                            *)
(* A float lies strictly above its integer part, and is finite.            *)
(***************************************************************************)
EXTENDS Integers

CONSTANTS Results,   \* objects WiGLE may send as a result
          Devices,   \* devices Kismet may report
          PadsYears  \* whether the interpreter's strftime("%Y") writes years
                     \* before 1000 with four digits: it does on Linux since
                     \* CPython 3.13 and late releases of 3.12, and did not
                     \* before (gh-120713); pyproject.toml allows both

ASSUME YearsAreNumbers ==
    \A r \in Results : \A f \in DOMAIN r : r[f][1] = "time" => r[f][2] \in 0..10000

ASSUME PadsYearsOrNot == PadsYears \in BOOLEAN

None == <<"none">>
Empty == <<"str", "">>
IntOf(n) == <<"int", n>>
FloatOf(n) == <<"float", n>>
Str(x) == <<"str", x>>

StringTags ==
    {"digits", "superscript", "decimal", "time", "short-time", "mac", "ssid", "words", "type",
     "id", "str"}

\* What Python takes for false.
Falsy == {None, Empty, IntOf(0), <<"bool", FALSE>>, <<"list", {}>>}

\* dict.get()
Get(object, field) == IF field \in DOMAIN object THEN object[field] ELSE None

-----------------------------------------------------------------------------
(* The contracts of transport.py: a kind for each field. *)

SecurityEnum == {"open", "wep", "wpa-psk", "wpa2-psk", "wpa2-enterprise", "wpa3-psk",
                 "wpa3-enterprise", "wpa2wpa3-psk", "unknown"}

BandEnum == {"2.4ghz", "5ghz", "6ghz", "unknown"}

StationTypeEnum == {"station", "ap", "bridge", "bridge-ap", "unknown"}

NetworkSpec ==
    [bssid |-> "string", ssid |-> "string", security |-> "security",
     cipher_suite |-> "string", auth_mode |-> "string", channel |-> "integer",
     frequency_mhz |-> "integer", band |-> "band", signal_dbm |-> "integer",
     latitude |-> "number", longitude |-> "number", location_accuracy_m |-> "number",
     observations |-> "integer", client_count |-> "integer", first_seen |-> "datetime",
     last_seen |-> "datetime", source_network_id |-> "string", vendor |-> "string",
     hosted_host_id |-> "string", qos |-> "integer"]

StationSpec ==
    [mac |-> "string", station_type |-> "station-type", vendor |-> "string",
     probe_ssids |-> "string-array", last_bssid |-> "string", signal_dbm |-> "integer",
     observations |-> "integer", first_seen |-> "datetime", last_seen |-> "datetime",
     source_device_id |-> "string", packets |-> "integer", data_bytes |-> "integer"]

\* Of the base schema, the fields that host_document, relation_document and
\* actor_manifest_document set.  Its date-time formats are advisory.
HostSpec ==
    [mac |-> "string", device_type |-> "string", network_id |-> "string",
     first_seen |-> "string", last_seen |-> "string"]

RelationSpec ==
    [subject |-> "string", predicate |-> "string", object |-> "string", source |-> "string",
     target |-> "string"]

ManifestSpec == [actor |-> "string", manifest_type |-> "string", name |-> "string"]

SpecOf ==
    [network |-> NetworkSpec, station |-> StationSpec, host |-> HostSpec,
     relation |-> RelationSpec, manifest |-> ManifestSpec]

RequiredOf ==
    [network |-> {"bssid", "security"}, station |-> {"mac"}, host |-> {}, relation |-> {},
     manifest |-> {}]

\* _check_field: whether VALUE is of KIND.
IsOfKind(kind, value) ==
    \/ kind = "string" /\ value[1] \in StringTags
    \/ kind = "integer" /\ value[1] = "int"
    \/ kind = "number" /\ value[1] \in {"int", "float"}
    \/ kind = "datetime" /\ value[1] = "time"
    \/ kind = "string-array" /\ value[1] = "list" /\ \A v \in value[2] : v[1] \in StringTags
    \/ kind = "security" /\ value \in {Str(s) : s \in SecurityEnum}
    \/ kind = "band" /\ value \in {Str(b) : b \in BandEnum}
    \/ kind = "station-type" /\ value \in {Str(t) : t \in StationTypeEnum}

\* SchemaBoundary.validate, for the data of a document; the envelope around it
\* is built by build_envelope alone.  A field the mapping leaves out is None
\* here, and a null counts as absent.
Validates(document) ==
    LET spec == SpecOf[document.dtype]
        data == document.data
    IN  /\ document.dtype \in DOMAIN SpecOf
        /\ DOMAIN data \subseteq DOMAIN spec
        /\ \A f \in RequiredOf[document.dtype] : Get(data, f) # None
        /\ \A f \in DOMAIN data : data[f] = None \/ IsOfKind(spec[f], data[f])

-----------------------------------------------------------------------------
(* Identity: an id is the parts of its key, of which the code takes a digest. *)

\* normalize_mac and normalize_ssid: the spelling all spellings share.
NormalMac(value) ==
    CASE value[1] = "mac" -> <<"mac", value[2], "normal">>
      [] value[1] \in StringTags \ {"mac"} -> value
      [] OTHER -> Empty

NormalSsid(value) ==
    CASE value[1] = "ssid" -> <<"ssid", value[2], "normal">>
      [] value[1] \in StringTags \ {"ssid"} -> value
      [] OTHER -> Empty

NetworkId(bssid, ssid, source) ==
    <<"id", "wireless-network", NormalMac(bssid), NormalSsid(ssid), source>>

StationId(mac, source) == <<"id", "wireless-station", NormalMac(mac), source>>

HostId(bssid) == <<"id", "host", bssid>>

BuildEnvelope(id, dtype, data) == [id |-> id, dtype |-> dtype, data |-> data]

\* relation_document
RelationDocument(subject, predicate, object) ==
    BuildEnvelope(<<"id", "relation", subject, predicate, object>>, "relation",
        [subject |-> subject, predicate |-> Str(predicate), object |-> object,
         source |-> subject, target |-> object])

\* actor_manifest_document
ManifestDocument(name) ==
    BuildEnvelope(<<"id", "actor-manifest", name>>, "manifest",
        [actor |-> Str(name), manifest_type |-> Str("actor-runtime"), name |-> Str(name)])

-----------------------------------------------------------------------------
(* map_encryption: the words of a security, and the wep flag.  A family has *)
(* the personal and the enterprise mode of one generation.                  *)

\* _SIMPLE_ENCRYPTION_MAP
SimpleEncryptionMap ==
    [none |-> "open", wep |-> "wep", wpa |-> "wpa-psk", wpa2 |-> "wpa2-psk",
     wpa3 |-> "wpa3-psk", wpa2enterprise |-> "wpa2-enterprise",
     wpa3enterprise |-> "wpa3-enterprise", unknown |-> "unknown"]

Simple(word) ==
    IF word \in DOMAIN SimpleEncryptionMap THEN SimpleEncryptionMap[word] ELSE "unknown"

\* Words that start with "wep"; "wep64" stands for those no row knows.
WepWords == {"wep", "wep64"}

\* _wep_flag_truthy
WepFlagTruthy(wep) ==
    \/ wep = <<"bool", TRUE>>
    \/ wep[1] = "int" /\ wep[2] # 0
    \/ wep[1] = "float"
    \/ wep = <<"digits", 1>>
    \/ wep[1] = "words" /\ wep[2] \in {{"t"}, {"true"}, {"y"}, {"yes"}, {"?"}}

\* _TOKEN_SPLIT_RE over str(encryption or "")
WordsOf(encryption) ==
    CASE encryption[1] = "words" -> encryption[2]
      [] encryption \in Falsy -> {}
      [] OTHER -> {"other"}

\* The securities of the words, and of the flag if it says more than they do.
Named(encryption, wep) ==
    LET words == IF WordsOf(encryption) = {} THEN {"none"} ELSE WordsOf(encryption)
    IN  {Simple(w) : w \in words}
            \cup IF WepFlagTruthy(wep) /\ words \cap WepWords = {} THEN {"wep"} ELSE {}

\* Remove X, which says nothing beside others.
Without(x, securities) == IF securities = {x} THEN securities ELSE securities \ {x}

Wpa2 == {"wpa2-psk", "wpa2-enterprise"}

Wpa3 == {"wpa3-psk", "wpa3-enterprise"}

Preference ==
    <<"wpa3-enterprise", "wpa3-psk", "wpa2-enterprise", "wpa2-psk", "wpa-psk", "wep", "open">>

Preferred(securities) ==
    LET ranks == {i \in 1..7 : Preference[i] \in securities}
    IN  IF ranks = {} THEN "unknown"
        ELSE Preference[CHOOSE i \in ranks : \A j \in ranks : i <= j]

Strongest(securities) ==
    IF securities \cap Wpa2 # {} /\ securities \cap Wpa3 # {} THEN "wpa2wpa3-psk"
    ELSE Preferred(securities)

MapEncryption(encryption, wep) ==
    LET named == Without("open", Without("unknown", Named(encryption, wep)))
    IN  Strongest(IF named \cap (Wpa2 \cup Wpa3 \cup {"wpa-psk"}) = {} THEN named
                  ELSE named \ {"wep"})

-----------------------------------------------------------------------------
(* wigle/mapping.py *)

BandFromChannel(number) ==
    CASE number \in 1..14 -> "2.4ghz"
      [] number \in 15..196 -> "5ghz"
      [] OTHER -> "unknown"

BandFromFrequency(mhz) ==
    CASE mhz \in 1..2999 -> "2.4ghz"
      [] mhz \in 4900..5924 -> "5ghz"
      [] mhz \in 5925..7125 -> "6ghz"
      [] OTHER -> "unknown"

\* Mutant of IntOrNone: a float stays one.
IntOrNoneAsIs(value) == IF value[1] \in {"int", "float"} THEN value ELSE None

\* int() refuses it, and the mapping of the result raises.
IntRaises(value) == value[1] = "superscript"

\* _int_or_none, of what int() takes; the integer part of a negative float is
\* the one above it.
IntOrNone(value) ==
    CASE value[1] \in {"int", "digits"} -> IntOf(value[2])
      [] value[1] = "float" -> IntOf(IF value[2] < 0 THEN value[2] + 1 ELSE value[2])
      [] OTHER -> None

FloatOrNone(value) ==
    IF value[1] \in {"int", "float", "digits", "decimal"} THEN FloatOf(value[2]) ELSE None

\* A date with fewer than four digits for its year is no ISO time.
Strftime(year) == IF PadsYears \/ year >= 1000 THEN <<"time", year>> ELSE <<"short-time", year>>

\* astimezone() overflows, and the mapping of the result raises.
TimeRaises(value) == value[1] = "time" /\ value[2] \notin 1..9999

\* _wigle_time, of what astimezone() takes
WigleTime(value) == IF value[1] = "time" THEN Strftime(value[2]) ELSE None

\* network_document raises without it.
HasNetid(result) == NormalMac(Get(result, "netid")) # Empty

\* network_document returns a document.
Maps(result) ==
    /\ HasNetid(result)
    /\ \A field \in {"channel", "qos"} : ~IntRaises(Get(result, field))
    /\ \A field \in {"firsttime", "lasttime"} : ~TimeRaises(Get(result, field))

\* network_document
NetworkDocument(result) ==
    LET bssid == NormalMac(Get(result, "netid"))
        ssid == IF Get(result, "ssid")[1] \in StringTags THEN result.ssid ELSE Empty
        source == <<"id", "wigle", bssid>>
        number == IntOrNone(Get(result, "channel"))
        tuned == number # None /\ number[2] > 0
    IN  BuildEnvelope(NetworkId(bssid, ssid, source), "network",
            [bssid |-> bssid,
             ssid |-> ssid,
             security |-> Str(MapEncryption(Get(result, "encryption"), Get(result, "wep"))),
             source_network_id |-> source,
             channel |-> IF tuned THEN number ELSE None,
             band |-> IF tuned THEN Str(BandFromChannel(number[2])) ELSE None,
             qos |-> IntOrNone(Get(result, "qos")),
             latitude |-> FloatOrNone(Get(result, "trilat")),
             longitude |-> FloatOrNone(Get(result, "trilong")),
             first_seen |-> WigleTime(Get(result, "firsttime")),
             last_seen |-> WigleTime(Get(result, "lasttime")),
             hosted_host_id |-> None])

\* host_document, and the link it leaves in the network's data.
HostDocument(network) ==
    BuildEnvelope(HostId(network.data.bssid), "host",
        [mac |-> network.data.bssid,
         device_type |-> Str("wifi-access-point"),
         network_id |-> network.data.source_network_id,
         first_seen |-> network.data.first_seen,
         last_seen |-> network.data.last_seen])

Hosted(network) == [network EXCEPT !.data.hosted_host_id = HostId(network.data.bssid)]

-----------------------------------------------------------------------------
(* kismet/mapping.py.  A device is a record by the last part of its paths;  *)
(* an SSID map is the list of its entries' SSIDs.                           *)

IsNumber(value) == value[1] \in {"int", "float"}

IsPositive(value) == IsNumber(value) /\ (value[2] > 0 \/ value = FloatOf(0))

\* The SSIDs of a map's entries that are strings and not blank.
Ssids(map) ==
    IF map[1] = "list" THEN {s \in map[2] : s[1] \in StringTags /\ s # Empty} ELSE {}

\* advertised_ssids, with the last SSID of older servers in their place.
AdvertisedSsids(device) ==
    LET advertised == Ssids(Get(device, "advertised_ssid_map"))
    IN  IF advertised = {} THEN Ssids(<<"list", {Get(device, "lastssid")}>>) ELSE advertised

TypeHas(device, part) ==
    Get(device, "type")[1] = "type" /\ part \in Get(device, "type")[2]

IsAp(device) == TypeHas(device, "ap") \/ AdvertisedSsids(device) # {}

\* station_type_from_device
StationType(device) ==
    CASE TypeHas(device, "bridge") /\ IsAp(device) -> "bridge-ap"
      [] TypeHas(device, "bridge") /\ ~IsAp(device) -> "bridge"
      [] ~TypeHas(device, "bridge") /\ IsAp(device) -> "ap"
      [] /\ ~TypeHas(device, "bridge")
         /\ ~IsAp(device)
         /\ Get(device, "type") \notin Falsy -> "station"
      [] OTHER -> "unknown"

\* _signal_dbm, and the packets of a station
IntOfNumber(value) == IF IsNumber(value) THEN IntOrNone(value) ELSE None

\* _channel and _frequency_mhz
Positive(value) == IF IsPositive(value) THEN IntOf(value[2]) ELSE None

\* _iso_epoch: all its times are alike here.
IsoEpoch(value) == IF IsPositive(value) THEN <<"time", 1970>> ELSE None

Vendor(device) ==
    IF Get(device, "manuf")[1] \in StringTags /\ device.manuf # Empty THEN device.manuf ELSE None

\* The channel counts only without a frequency, which a fraction of 1 MHz is.
KismetBand(frequency, number) ==
    CASE frequency \notin {None, IntOf(0)} -> Str(BandFromFrequency(frequency[2]))
      [] frequency \in {None, IntOf(0)} /\ number # None -> Str(BandFromChannel(number[2]))
      [] OTHER -> None

\* network_documents: one for each SSID, or one with none for a cloaked network.
KismetNetworks(device, sensor) ==
    LET mac == NormalMac(Get(device, "macaddr"))
        source == <<"id", sensor, mac>>
        ssids == IF AdvertisedSsids(device) = {} THEN {Empty} ELSE AdvertisedSsids(device)
        number == Positive(Get(device, "channel"))
        frequency == Positive(Get(device, "frequency"))
    IN  IF mac = Empty \/ ~IsAp(device) THEN {}
        ELSE {BuildEnvelope(NetworkId(mac, ssid, source), "network",
                [bssid |-> mac,
                 ssid |-> ssid,
                 security |-> Str(MapEncryption(Get(device, "crypt"), None)),
                 source_network_id |-> source,
                 channel |-> number,
                 frequency_mhz |-> frequency,
                 band |-> KismetBand(frequency, number),
                 signal_dbm |-> IntOfNumber(Get(device, "last_signal_dbm")),
                 vendor |-> Vendor(device),
                 first_seen |-> IsoEpoch(Get(device, "first_time")),
                 last_seen |-> IsoEpoch(Get(device, "last_time"))]) : ssid \in ssids}

\* station_document: of a device with an address.
KismetStation(device, sensor) ==
    LET mac == NormalMac(Get(device, "macaddr"))
        probes == Ssids(Get(device, "probed_ssid_map"))
        ap == NormalMac(Get(device, "last_bssid"))
    IN  BuildEnvelope(StationId(mac, <<"id", sensor>>), "station",
            [mac |-> mac,
             station_type |-> Str(StationType(device)),
             source_device_id |-> <<"id", sensor>>,
             probe_ssids |-> IF probes = {} THEN None ELSE <<"list", probes>>,
             last_bssid |-> IF ap = Empty THEN None ELSE ap,
             signal_dbm |-> IntOfNumber(Get(device, "last_signal_dbm")),
             vendor |-> Vendor(device),
             packets |-> IntOfNumber(Get(device, "packets")),
             first_seen |-> IsoEpoch(Get(device, "first_time")),
             last_seen |-> IsoEpoch(Get(device, "last_time"))])

\* observed_at_station_relations
KismetRelations(station, networks) ==
    {RelationDocument(station.id, "observed_at_station", n.id) : n \in networks}

-----------------------------------------------------------------------------
(* What the mappings promise; RabbitPublisher states it as its properties. *)

\* A time before the year 1000.
HasEarlyTime(result) ==
    \E field \in {"firsttime", "lasttime"} :
        LET value == Get(result, field) IN value[1] = "time" /\ value[2] < 1000

\* What the mappings make of a result passes the boundary (wigle/mapping.py:186,
\* transport.py:190), but where years are not padded: there the boundary refuses
\* the network of a time before the year 1000, and takes its host all the same.
EveryResultPasses ==
    \A r \in Results : Maps(r) =>
        /\ Validates(NetworkDocument(r)) <=> PadsYears \/ ~HasEarlyTime(r)
        /\ Validates(Hosted(NetworkDocument(r))) <=> PadsYears \/ ~HasEarlyTime(r)
        /\ Validates(HostDocument(Hosted(NetworkDocument(r))))

\* Whatever Kismet reports of a device with an address, its documents pass the
\* boundary (kismet/mapping.py:167, transport.py:190).
EveryDevicePasses ==
    \A d \in Devices : NormalMac(Get(d, "macaddr")) # Empty =>
        LET station == KismetStation(d, "sensor")
            networks == KismetNetworks(d, "sensor")
        IN  /\ \A x \in {station} \cup networks \cup KismetRelations(station, networks) :
                    Validates(x)
            /\ (networks # {}) <=> station.data.station_type \in {Str("ap"), Str("bridge-ap")}

WpaWords == {"wpa", "wpa2", "wpa3", "wpa2enterprise", "wpa3enterprise"}

\* wigle/mapping.py:14-24: no network is called open that a word or the flag
\* says is not, none wep that is wpa; one that names both of the last two
\* families of wpa is a transition network and not one of the two; and what no
\* row knows is unknown.
EverySecurityTabled ==
    \A r \in Results :
        LET words == WordsOf(Get(r, "encryption"))
            security == MapEncryption(Get(r, "encryption"), Get(r, "wep"))
        IN  /\ security = "open" =>
                   words \cap (WpaWords \cup {"wep"}) = {}
                       /\ (~WepFlagTruthy(Get(r, "wep")) \/ "wep64" \in words)
            /\ security = "wep" => words \cap WpaWords = {}
            /\ security = "wpa2wpa3-psk" <=>
                   words \cap {"wpa2", "wpa2enterprise"} # {}
                       /\ words \cap {"wpa3", "wpa3enterprise"} # {}
            /\ security = "unknown" <=>
                   words # {} /\ words \cap (DOMAIN SimpleEncryptionMap \ {"unknown"}) = {}
                       /\ (~WepFlagTruthy(Get(r, "wep")) \/ words \cap WepWords # {})
=============================================================================
