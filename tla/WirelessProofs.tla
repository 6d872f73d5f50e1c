--------------------------- MODULE WirelessProofs ---------------------------
(***************************************************************************)
(* Theorems about the wireless tools: what the mappings of WiGLE results   *)
(* and Kismet devices promise, for every set of Results and of Devices;    *)
(* what the publisher promises, for any documents and any number of        *)
(* attempts; and what one run of hm-wireless promises, for whatever WiGLE  *)
(* holds and any sizes of its pages and its mailbox.                       *)
(*                                                                         *)
(*   SecurityFollowsTable  map_encryption keeps to the table of the        *)
(*                         security of a network, for every set of words.  *)
(*   ResultsPass           of the results of WiGLE that map, the boundary  *)
(*                         refuses nothing where strftime pads years, and  *)
(*                         elsewhere the networks with a time before the   *)
(*                         year 1000.                                      *)
(*   DevicesPass           the boundary refuses nothing Kismet reports.    *)
(*   ConfirmedSends        a document is sent in confirm mode only.        *)
(*   ContractKept          the publishers keep PublishContract.            *)
(*   ExitsTruthfully       an exit without a failure has stored what was   *)
(*                         received and warned of what was not.            *)
(*   CommandKeepsContract  every command keeps PublishContract.            *)
(*                                                                         *)
(* The first goes from the table of one word (SimpleTable) to the          *)
(* securities a set of words names (WordsName), to what the order of       *)
(* preference takes of such a set (StrongestTable) and to that set once    *)
(* the transition pair is struck (StruckTable).  The next two give each    *)
(* conversion the kind of what it returns (ConvertedKinds, MadeKinds) and  *)
(* then check each field of a document against its specification.  The     *)
(* assumptions are YearsAreNumbers and that PadsYears is TRUE or FALSE,    *)
(* and only ResultsPass uses them: it holds of either interpreter.  The    *)
(* last two rest on CommandInv: Paging says that pages leave nothing out,  *)
(* Delivered that nothing is lost between a page and the sink, and         *)
(* SearchFlow and DirectFlow where a command can be while they matter.     *)
(***************************************************************************)
EXTENDS WirelessCommand, FiniteSetTheorems, SequenceTheorems, TLAPS

\* The words of the table.
KnownWords == {"none", "wep", "wpa", "wpa2", "wpa3", "wpa2enterprise", "wpa3enterprise"}

\* Each security but the unknown one has a word of its own.
LEMMA SimpleTable ==
    /\ \A x : Simple(x) \in SecurityEnum \ {"wpa2wpa3-psk"}
    /\ \A x : Simple(x) = "open" <=> x = "none"
    /\ \A x : Simple(x) = "wep" <=> x = "wep"
    /\ \A x : Simple(x) = "wpa-psk" <=> x = "wpa"
    /\ \A x : Simple(x) = "wpa2-psk" <=> x = "wpa2"
    /\ \A x : Simple(x) = "wpa3-psk" <=> x = "wpa3"
    /\ \A x : Simple(x) = "wpa2-enterprise" <=> x = "wpa2enterprise"
    /\ \A x : Simple(x) = "wpa3-enterprise" <=> x = "wpa3enterprise"
    /\ \A x : Simple(x) = "unknown" <=> x \notin KnownWords
<1> SUFFICES ASSUME NEW x
    PROVE /\ Simple(x) \in SecurityEnum \ {"wpa2wpa3-psk"}
          /\ Simple(x) = "open" <=> x = "none"
          /\ Simple(x) = "wep" <=> x = "wep"
          /\ Simple(x) = "wpa-psk" <=> x = "wpa"
          /\ Simple(x) = "wpa2-psk" <=> x = "wpa2"
          /\ Simple(x) = "wpa3-psk" <=> x = "wpa3"
          /\ Simple(x) = "wpa2-enterprise" <=> x = "wpa2enterprise"
          /\ Simple(x) = "wpa3-enterprise" <=> x = "wpa3enterprise"
          /\ Simple(x) = "unknown" <=> x \notin KnownWords
  OBVIOUS
<1>1. \/ x = "none" /\ Simple(x) = "open"
      \/ x = "wep" /\ Simple(x) = "wep"
      \/ x = "wpa" /\ Simple(x) = "wpa-psk"
      \/ x = "wpa2" /\ Simple(x) = "wpa2-psk"
      \/ x = "wpa3" /\ Simple(x) = "wpa3-psk"
      \/ x = "wpa2enterprise" /\ Simple(x) = "wpa2-enterprise"
      \/ x = "wpa3enterprise" /\ Simple(x) = "wpa3-enterprise"
      \/ x \notin KnownWords /\ Simple(x) = "unknown"
  BY DEF Simple, SimpleEncryptionMap, KnownWords
<1> QED
  BY <1>1 DEF KnownWords, SecurityEnum

\* A set of securities names WORDS, of which FLAGGED adds wep.
Names(ss, words, flagged) ==
    /\ ss # {} /\ ss \subseteq SecurityEnum \ {"wpa2wpa3-psk"}
    /\ "open" \in ss <=> "none" \in words
    /\ "wep" \in ss <=> "wep" \in words \/ flagged
    /\ "wpa-psk" \in ss <=> "wpa" \in words
    /\ "wpa2-psk" \in ss <=> "wpa2" \in words
    /\ "wpa3-psk" \in ss <=> "wpa3" \in words
    /\ "wpa2-enterprise" \in ss <=> "wpa2enterprise" \in words
    /\ "wpa3-enterprise" \in ss <=> "wpa3enterprise" \in words
    /\ "unknown" \in ss <=> words \ KnownWords # {}

\* The securities of a set of words, and of the flag, name those words.
LEMMA WordsName ==
    ASSUME NEW words, words # {}, NEW flagged \in BOOLEAN
    PROVE  Names({Simple(x) : x \in words} \cup IF flagged THEN {"wep"} ELSE {}, words, flagged)
<1> DEFINE ss == {Simple(x) : x \in words} \cup IF flagged THEN {"wep"} ELSE {}
<1>1. \A s : s \in ss <=> (\E x \in words : Simple(x) = s) \/ (flagged /\ s = "wep")
  OBVIOUS
<1> HIDE DEF ss
<1>2. ss # {} /\ ss \subseteq SecurityEnum \ {"wpa2wpa3-psk"}
  <2>1. PICK x : x \in words
    OBVIOUS
  <2>2. Simple(x) \in ss
    BY <1>1, <2>1
  <2>3. ASSUME NEW s \in ss PROVE s \in SecurityEnum \ {"wpa2wpa3-psk"}
    BY <1>1, SimpleTable DEF SecurityEnum
  <2> QED
    BY <2>2, <2>3
<1>3. "open" \in ss <=> "none" \in words
  BY <1>1, SimpleTable
<1>4. "wep" \in ss <=> "wep" \in words \/ flagged
  BY <1>1, SimpleTable
<1>5. "wpa-psk" \in ss <=> "wpa" \in words
  BY <1>1, SimpleTable
<1>6. "wpa2-psk" \in ss <=> "wpa2" \in words
  BY <1>1, SimpleTable
<1>7. "wpa3-psk" \in ss <=> "wpa3" \in words
  BY <1>1, SimpleTable
<1>8. "wpa2-enterprise" \in ss <=> "wpa2enterprise" \in words
  BY <1>1, SimpleTable
<1>9. "wpa3-enterprise" \in ss <=> "wpa3enterprise" \in words
  BY <1>1, SimpleTable
<1>10. "unknown" \in ss <=> words \ KnownWords # {}
  BY <1>1, SimpleTable
<1> QED
  BY <1>2, <1>3, <1>4, <1>5, <1>6, <1>7, <1>8, <1>9, <1>10 DEF Names, ss

\* Strongest picks a member, the transition network if there is one, and the
\* weakest two only when nothing else is there.
LEMMA StrongestTable ==
    ASSUME NEW ss, ss # {}, ss \subseteq SecurityEnum \ {"wpa2wpa3-psk"}
    PROVE  /\ Strongest(ss) = "wpa2wpa3-psk" <=> ss \cap Wpa2 # {} /\ ss \cap Wpa3 # {}
           /\ Strongest(ss) = "unknown" <=> ss = {"unknown"}
           /\ Strongest(ss) = "open" <=> "open" \in ss /\ ss \subseteq {"open", "unknown"}
           /\ Strongest(ss) = "wep" <=> "wep" \in ss /\ ss \subseteq {"wep", "open", "unknown"}
           /\ Strongest(ss) \in SecurityEnum
<1> DEFINE ranks == {i \in 1..7 : Preference[i] \in ss}
           first == CHOOSE i \in ranks : \A j \in ranks : i <= j
<1>1. /\ Preference[1] = "wpa3-enterprise" /\ Preference[2] = "wpa3-psk"
      /\ Preference[3] = "wpa2-enterprise" /\ Preference[4] = "wpa2-psk"
      /\ Preference[5] = "wpa-psk" /\ Preference[6] = "wep" /\ Preference[7] = "open"
  BY DEF Preference
<1>2. ranks = {} <=> ss = {"unknown"}
  <2>1. \A i \in 1..7 : i = 1 \/ i = 2 \/ i = 3 \/ i = 4 \/ i = 5 \/ i = 6 \/ i = 7
    OBVIOUS
  <2>2. /\ 1 \in ranks <=> "wpa3-enterprise" \in ss
        /\ 2 \in ranks <=> "wpa3-psk" \in ss
        /\ 3 \in ranks <=> "wpa2-enterprise" \in ss
        /\ 4 \in ranks <=> "wpa2-psk" \in ss
        /\ 5 \in ranks <=> "wpa-psk" \in ss
        /\ 6 \in ranks <=> "wep" \in ss
        /\ 7 \in ranks <=> "open" \in ss
    BY <1>1
  <2>3. ranks \subseteq 1..7
    OBVIOUS
  <2> HIDE DEF ranks
  <2>4. ranks = {} <=> {1, 2, 3, 4, 5, 6, 7} \cap ranks = {}
    BY <2>1, <2>3
  <2>5. ss = {"unknown"} <=>
            ss \cap {"wpa3-enterprise", "wpa3-psk", "wpa2-enterprise", "wpa2-psk", "wpa-psk", "wep",
                    "open"} = {}
    BY DEF SecurityEnum
  <2> QED
    BY <2>2, <2>4, <2>5
<1>3. Preferred(ss) = IF ranks = {} THEN "unknown" ELSE Preference[first]
  BY DEF Preferred
<1>4. ranks # {} => first \in ranks /\ \A j \in ranks : first <= j
  <2> HAVE ranks # {}
  <2>1. \E i \in ranks : \A j \in ranks : i <= j
    <3>1. \A i \in ranks : i = 1 \/ i = 2 \/ i = 3 \/ i = 4 \/ i = 5 \/ i = 6 \/ i = 7
      OBVIOUS
    <3>2. PICK k : k \in ranks
      OBVIOUS
    <3> HIDE DEF ranks
    <3>3. \/ 1 \in ranks \/ 2 \in ranks \/ 3 \in ranks \/ 4 \in ranks \/ 5 \in ranks
          \/ 6 \in ranks \/ 7 \in ranks
      BY <3>1, <3>2
    <3> QED
      BY <3>1, <3>3
  <2> QED
    BY <2>1
<1>5. ranks # {} => first \in 1..7 /\ Preference[first] \in ss
                    /\ \A j \in 1..7 : Preference[j] \in ss => first <= j
  BY <1>4
<1> HIDE DEF ranks, first
<1>6. /\ Preferred(ss) = "unknown" <=> ss = {"unknown"}
      /\ Preferred(ss) = "open" <=> "open" \in ss /\ ss \subseteq {"open", "unknown"}
      /\ Preferred(ss) = "wep" <=> "wep" \in ss /\ ss \subseteq {"wep", "open", "unknown"}
      /\ Preferred(ss) \in ss
  <2>1. CASE ss = {"unknown"}
    BY <1>2, <1>3, <2>1
  <2>2. CASE ss # {"unknown"}
    <3>1. Preferred(ss) = Preference[first] /\ first \in 1..7 /\ Preference[first] \in ss
          /\ \A j \in 1..7 : Preference[j] \in ss => first <= j
      BY <1>2, <1>3, <1>5, <2>2
    <3>2. first = 1 \/ first = 2 \/ first = 3 \/ first = 4 \/ first = 5 \/ first = 6 \/ first = 7
      BY <3>1
    <3> QED
      BY <1>1, <2>2, <3>1, <3>2 DEF SecurityEnum
  <2> QED
    BY <2>1, <2>2
<1> QED
  BY <1>6 DEF Strongest, Wpa2, Wpa3, SecurityEnum

\* What map_encryption strikes out decides nothing but open against the rest,
\* and wep against wpa.
Struck(ss) ==
    LET named == Without("open", Without("unknown", ss))
    IN  IF named \cap (Wpa2 \cup Wpa3 \cup {"wpa-psk"}) = {} THEN named ELSE named \ {"wep"}

\* What is struck leaves something, and leaves the stronger securities alone.
LEMMA StruckTable ==
    ASSUME NEW ss, ss # {}, ss \subseteq SecurityEnum \ {"wpa2wpa3-psk"}
    PROVE  /\ Struck(ss) # {} /\ Struck(ss) \subseteq ss
           /\ Struck(ss) \cap Wpa2 # {} <=> ss \cap Wpa2 # {}
           /\ Struck(ss) \cap Wpa3 # {} <=> ss \cap Wpa3 # {}
           /\ Struck(ss) = {"unknown"} <=> ss = {"unknown"}
           /\ "open" \in Struck(ss) => ss \subseteq {"open", "unknown"}
           /\ "wep" \in Struck(ss) => ss \subseteq {"wep", "open", "unknown"}
<1> DEFINE known == Without("unknown", ss)
           named == Without("open", known)
<1>1. /\ known # {} /\ known \subseteq ss
      /\ \A s \in ss : s # "unknown" => s \in known
      /\ "unknown" \in known => ss = {"unknown"}
  BY DEF Without
<1>2. /\ named # {} /\ named \subseteq known
      /\ \A s \in known : s # "open" => s \in named
      /\ "open" \in named => known = {"open"}
  BY <1>1 DEF Without
<1> HIDE DEF known, named
<1>3. /\ named # {} /\ named \subseteq ss
      /\ \A s \in ss : s \notin {"unknown", "open"} => s \in named
      /\ "unknown" \in named => ss = {"unknown"}
      /\ "open" \in named => ss \subseteq {"open", "unknown"}
  BY <1>1, <1>2
<1>4. Struck(ss) = IF named \cap (Wpa2 \cup Wpa3 \cup {"wpa-psk"}) = {} THEN named
                   ELSE named \ {"wep"}
  BY DEF Struck, known, named
<1>5. CASE named \cap (Wpa2 \cup Wpa3 \cup {"wpa-psk"}) = {}
  BY <1>3, <1>4, <1>5 DEF Wpa2, Wpa3, SecurityEnum
<1>6. CASE named \cap (Wpa2 \cup Wpa3 \cup {"wpa-psk"}) # {}
  BY <1>3, <1>4, <1>6 DEF Wpa2, Wpa3, SecurityEnum
<1> QED
  BY <1>5, <1>6


\* The security of any encryption and flag is one the boundary knows, and
\* follows from the words and the flag as SecurityAsTabled says.
LEMMA SecurityTable ==
    ASSUME NEW e, NEW w, NEW words, words = WordsOf(e),
           NEW security, security = MapEncryption(e, w)
    PROVE  /\ security \in SecurityEnum
           /\ security = "open" =>
                  words \cap (WpaWords \cup {"wep"}) = {}
                      /\ (~WepFlagTruthy(w) \/ "wep64" \in words)
           /\ security = "wep" => words \cap WpaWords = {}
           /\ security = "wpa2wpa3-psk" <=>
                  words \cap {"wpa2", "wpa2enterprise"} # {}
                      /\ words \cap {"wpa3", "wpa3enterprise"} # {}
           /\ security = "unknown" <=>
                  words # {} /\ words \cap (DOMAIN SimpleEncryptionMap \ {"unknown"}) = {}
                      /\ (~WepFlagTruthy(w) \/ words \cap WepWords # {})
<1> DEFINE named == IF words = {} THEN {"none"} ELSE words
           flagged == IF WepFlagTruthy(w) /\ named \cap WepWords = {} THEN TRUE ELSE FALSE
           ss == {Simple(x) : x \in named} \cup IF flagged THEN {"wep"} ELSE {}
<1>1. security = Strongest(Struck(ss))
  BY DEF MapEncryption, Struck, Named
<1>2. Names(ss, named, flagged)
  BY WordsName
<1>3. DOMAIN SimpleEncryptionMap \ {"unknown"} = KnownWords
  BY DEF SimpleEncryptionMap, KnownWords
<1>4. flagged <=> WepFlagTruthy(w) /\ named \cap WepWords = {}
  OBVIOUS
<1> HIDE DEF ss, flagged
<1>5. ss # {} /\ ss \subseteq SecurityEnum \ {"wpa2wpa3-psk"}
  BY <1>2 DEF Names
<1> DEFINE struck == Struck(ss)
<1>6. /\ struck # {} /\ struck \subseteq ss
      /\ struck \cap Wpa2 # {} <=> ss \cap Wpa2 # {}
      /\ struck \cap Wpa3 # {} <=> ss \cap Wpa3 # {}
      /\ struck = {"unknown"} <=> ss = {"unknown"}
      /\ "open" \in struck => ss \subseteq {"open", "unknown"}
      /\ "wep" \in struck => ss \subseteq {"wep", "open", "unknown"}
  BY <1>5, StruckTable
<1> HIDE DEF struck
<1>7. struck \subseteq SecurityEnum \ {"wpa2wpa3-psk"}
  BY <1>5, <1>6
<1>8. /\ security = "wpa2wpa3-psk" <=> struck \cap Wpa2 # {} /\ struck \cap Wpa3 # {}
      /\ security = "unknown" <=> struck = {"unknown"}
      /\ security = "open" => "open" \in struck
      /\ security = "wep" => "wep" \in struck
      /\ security \in SecurityEnum
  <2>1. security = Strongest(struck)
    BY <1>1 DEF struck
  <2> QED
    BY <1>6, <1>7, <2>1, StrongestTable
<1>9. security = "open" =>
          words \cap (WpaWords \cup {"wep"}) = {} /\ (~WepFlagTruthy(w) \/ "wep64" \in words)
  BY <1>2, <1>4, <1>6, <1>8 DEF Names, WpaWords, WepWords
<1>10. security = "wep" => words \cap WpaWords = {}
  BY <1>2, <1>6, <1>8 DEF Names, WpaWords
<1>11. security = "wpa2wpa3-psk" <=>
           words \cap {"wpa2", "wpa2enterprise"} # {} /\ words \cap {"wpa3", "wpa3enterprise"} # {}
  <2>1. /\ ss \cap Wpa2 # {} <=> named \cap {"wpa2", "wpa2enterprise"} # {}
        /\ ss \cap Wpa3 # {} <=> named \cap {"wpa3", "wpa3enterprise"} # {}
    BY <1>2 DEF Names, Wpa2, Wpa3
  <2> QED
    BY <1>6, <1>8, <2>1
<1>12. security = "unknown" <=>
           words # {} /\ words \cap (DOMAIN SimpleEncryptionMap \ {"unknown"}) = {}
               /\ (~WepFlagTruthy(w) \/ words \cap WepWords # {})
  <2>1. security = "unknown" <=> ss = {"unknown"}
    BY <1>6, <1>8
  <2>2. ss = {"unknown"} <=> named \cap KnownWords = {} /\ ~flagged
    <3>1. ASSUME ss = {"unknown"} PROVE named \cap KnownWords = {} /\ ~flagged
      BY <1>2, <3>1 DEF Names, KnownWords
    <3>2. ASSUME named \cap KnownWords = {}, ~flagged PROVE ss = {"unknown"}
      <4>1. \A s \in ss : s = "unknown"
        BY <1>2, <3>2 DEF Names, KnownWords, SecurityEnum
      <4> QED
        BY <1>5, <4>1
    <3> QED
      BY <3>1, <3>2
  <2> QED
    BY <1>3, <1>4, <2>1, <2>2 DEF KnownWords
<1> QED
  BY <1>8, <1>9, <1>10, <1>11, <1>12

\* wigle/mapping.py:76-112: whatever words and flag WiGLE sends, map_encryption
\* returns a security of the boundary, and open, wep, unknown and the transition
\* pair only as its table (mapping.py:14-24) says.
THEOREM SecurityFollowsTable == PublisherSpec => []SecurityAsTabled
<1>1. SecurityAsTabled
  BY SecurityTable DEF SecurityAsTabled, EverySecurityTabled
<1> QED
  BY <1>1, PTL

-----------------------------------------------------------------------------
\* What each conversion returns is nothing, or of the kind of its field.
LEMMA ConvertedKinds ==
    ASSUME NEW v
    PROVE  /\ IntOrNone(v) = None \/ IsOfKind("integer", IntOrNone(v))
           /\ FloatOrNone(v) = None \/ IsOfKind("number", FloatOrNone(v))
           /\ IntOfNumber(v) = None \/ IsOfKind("integer", IntOfNumber(v))
           /\ Positive(v) = None \/ IsOfKind("integer", Positive(v))
           /\ IsoEpoch(v) = None \/ IsOfKind("datetime", IsoEpoch(v))
           /\ NormalMac(v) # Empty => IsOfKind("string", NormalMac(v))
<1>1. IntOrNone(v) = None \/ IsOfKind("integer", IntOrNone(v))
  BY DEF IntOrNone, IsOfKind, IntOf
<1>2. FloatOrNone(v) = None \/ IsOfKind("number", FloatOrNone(v))
  BY DEF FloatOrNone, IsOfKind, FloatOf
<1>3. IntOfNumber(v) = None \/ IsOfKind("integer", IntOfNumber(v))
  BY <1>1 DEF IntOfNumber
<1>4. Positive(v) = None \/ IsOfKind("integer", Positive(v))
  BY DEF Positive, IsOfKind, IntOf
<1>5. IsoEpoch(v) = None \/ IsOfKind("datetime", IsoEpoch(v))
  BY DEF IsoEpoch, IsOfKind
<1>6. NormalMac(v) # Empty => IsOfKind("string", NormalMac(v))
  BY DEF NormalMac, IsOfKind, StringTags
<1> QED
  BY <1>1, <1>2, <1>3, <1>4, <1>5, <1>6

\* Both tables of bands end in bands the boundary knows.
LEMMA BandsAreKnown ==
    ASSUME NEW n
    PROVE  BandFromChannel(n) \in BandEnum /\ BandFromFrequency(n) \in BandEnum
BY DEF BandFromChannel, BandFromFrequency, BandEnum

\* A text is present.
LEMMA StringsArePresent == ASSUME NEW v, IsOfKind("string", v) PROVE v # None
BY DEF IsOfKind, None, StringTags

\* strftime spoils a time just when it does not pad years and the year is
\* before 1000.
LEMMA TimesAreLate ==
    ASSUME NEW v, v[1] = "time" => v[2] \in 0..10000
    PROVE  (WigleTime(v) = None \/ IsOfKind("datetime", WigleTime(v)))
               <=> PadsYears \/ ~(v[1] = "time" /\ v[2] < 1000)
<1>1. CASE v[1] # "time"
  BY <1>1 DEF WigleTime
<1>2. CASE v[1] = "time"
  <2> DEFINE y == v[2]
  <2>1. y \in 0..10000
    BY <1>2
  <2> HIDE DEF y
  <2>2. y < 1000 <=> ~(y >= 1000)
    BY <2>1
  <2> USE DEF y
  <2>3. WigleTime(v) = Strftime(v[2])
    BY <1>2 DEF WigleTime
  <2>4. CASE PadsYears
    <3>1. WigleTime(v) = <<"time", v[2]>>
      BY <2>3, <2>4 DEF Strftime
    <3>2. IsOfKind("datetime", WigleTime(v))
      BY <3>1 DEF IsOfKind
    <3> QED
      BY <2>4, <3>2
  <2>5. CASE ~PadsYears /\ v[2] >= 1000
    <3>1. WigleTime(v) = <<"time", v[2]>>
      BY <2>3, <2>5 DEF Strftime
    <3>2. IsOfKind("datetime", WigleTime(v))
      BY <3>1 DEF IsOfKind
    <3>3. ~(v[2] < 1000)
      BY <2>5, <2>2
    <3> QED
      BY <3>2, <3>3
  <2>6. CASE ~PadsYears /\ ~(v[2] >= 1000)
    <3>1. WigleTime(v) = <<"short-time", v[2]>>
      BY <2>3, <2>6 DEF Strftime
    <3>2. WigleTime(v) # None /\ ~IsOfKind("datetime", WigleTime(v))
      BY <3>1 DEF IsOfKind, None
    <3>3. v[2] < 1000
      BY <2>6, <2>2
    <3> QED
      BY <1>2, <2>6, <3>2, <3>3
  <2> QED
    BY <2>4, <2>5, <2>6
<1> QED
  BY <1>1, <1>2

\* A member of an enumeration, written as text, is of the kind that asks for it.
LEMMA MadeKinds ==
    ASSUME NEW x
    PROVE  /\ x \in SecurityEnum => IsOfKind("security", Str(x))
           /\ x \in BandEnum => IsOfKind("band", Str(x))
           /\ x \in StationTypeEnum => IsOfKind("station-type", Str(x))
           /\ IsOfKind("string", Str(x))
BY DEF IsOfKind, Str, StringTags

-----------------------------------------------------------------------------
(* wigle/mapping.py, for whatever WiGLE sends. *)

\* The fields of a network, but for its times, pass.
LEMMA NetworkFields ==
    ASSUME NEW r, HasNetid(r), NEW data, data = NetworkDocument(r).data
    PROVE  /\ DOMAIN data = {"bssid", "ssid", "security", "source_network_id", "channel", "band",
                             "qos", "latitude", "longitude", "first_seen", "last_seen",
                             "hosted_host_id"}
           /\ IsOfKind("string", data.bssid)
           /\ IsOfKind("string", data.ssid)
           /\ IsOfKind("security", data.security)
           /\ IsOfKind("string", data.source_network_id)
           /\ data.channel = None \/ IsOfKind("integer", data.channel)
           /\ data.band = None \/ IsOfKind("band", data.band)
           /\ data.qos = None \/ IsOfKind("integer", data.qos)
           /\ data.latitude = None \/ IsOfKind("number", data.latitude)
           /\ data.longitude = None \/ IsOfKind("number", data.longitude)
           /\ data.first_seen = WigleTime(Get(r, "firsttime"))
           /\ data.last_seen = WigleTime(Get(r, "lasttime"))
           /\ data.hosted_host_id = None
<1>1. IsOfKind("string", data.bssid)
  BY ConvertedKinds DEF NetworkDocument, BuildEnvelope, HasNetid
<1>2. IsOfKind("string", data.ssid)
  BY DEF NetworkDocument, BuildEnvelope, IsOfKind, Empty, Str, StringTags, Get, None
<1>3. IsOfKind("security", data.security)
  BY SecurityTable, MadeKinds DEF NetworkDocument, BuildEnvelope
<1>4. IsOfKind("string", data.source_network_id)
  BY DEF NetworkDocument, BuildEnvelope, IsOfKind, StringTags
<1>5. /\ data.channel = None \/ IsOfKind("integer", data.channel)
      /\ data.qos = None \/ IsOfKind("integer", data.qos)
      /\ data.latitude = None \/ IsOfKind("number", data.latitude)
      /\ data.longitude = None \/ IsOfKind("number", data.longitude)
  BY ConvertedKinds DEF NetworkDocument, BuildEnvelope
<1>6. data.band = None \/ IsOfKind("band", data.band)
  BY BandsAreKnown, MadeKinds DEF NetworkDocument, BuildEnvelope
<1> QED
  BY <1>1, <1>2, <1>3, <1>4, <1>5, <1>6 DEF NetworkDocument, BuildEnvelope

\* A network with nothing or an id for its host passes when its times do.
LEMMA NetworkValidates ==
    ASSUME NEW r, HasNetid(r), NEW document, document.dtype = "network",
           NEW hosting, hosting = None \/ IsOfKind("string", hosting),
           document.data = [NetworkDocument(r).data EXCEPT !.hosted_host_id = hosting]
    PROVE  Validates(document) <=>
               /\ WigleTime(Get(r, "firsttime")) = None
                      \/ IsOfKind("datetime", WigleTime(Get(r, "firsttime")))
               /\ WigleTime(Get(r, "lasttime")) = None
                      \/ IsOfKind("datetime", WigleTime(Get(r, "lasttime")))
<1> DEFINE data == NetworkDocument(r).data
           linked == [data EXCEPT !.hosted_host_id = hosting]
<1>1. /\ DOMAIN linked = {"bssid", "ssid", "security", "source_network_id", "channel", "band",
                          "qos", "latitude", "longitude", "first_seen", "last_seen",
                          "hosted_host_id"}
      /\ IsOfKind("string", linked.bssid)
      /\ IsOfKind("string", linked.ssid)
      /\ IsOfKind("security", linked.security)
      /\ IsOfKind("string", linked.source_network_id)
      /\ linked.channel = None \/ IsOfKind("integer", linked.channel)
      /\ linked.band = None \/ IsOfKind("band", linked.band)
      /\ linked.qos = None \/ IsOfKind("integer", linked.qos)
      /\ linked.latitude = None \/ IsOfKind("number", linked.latitude)
      /\ linked.longitude = None \/ IsOfKind("number", linked.longitude)
      /\ linked.first_seen = WigleTime(Get(r, "firsttime"))
      /\ linked.last_seen = WigleTime(Get(r, "lasttime"))
      /\ linked.hosted_host_id = hosting
  <2> HIDE DEF data
  <2> QED
    BY NetworkFields DEF data
<1> HIDE DEF linked
<1>2. SpecOf["network"] = NetworkSpec /\ RequiredOf["network"] = {"bssid", "security"}
      /\ "network" \in DOMAIN SpecOf
  BY DEF SpecOf, RequiredOf
<1>3. /\ DOMAIN linked \subseteq DOMAIN NetworkSpec
      /\ NetworkSpec.bssid = "string" /\ NetworkSpec.ssid = "string"
      /\ NetworkSpec.security = "security" /\ NetworkSpec.source_network_id = "string"
      /\ NetworkSpec.channel = "integer" /\ NetworkSpec.band = "band"
      /\ NetworkSpec.qos = "integer" /\ NetworkSpec.latitude = "number"
      /\ NetworkSpec.longitude = "number" /\ NetworkSpec.first_seen = "datetime"
      /\ NetworkSpec.last_seen = "datetime" /\ NetworkSpec.hosted_host_id = "string"
  BY <1>1 DEF NetworkSpec
<1>4. \A f \in {"bssid", "security"} : Get(linked, f) # None
  <2>1. linked.bssid # None
    BY <1>1, StringsArePresent
  <2>2. linked.security # None
    BY <1>1 DEF IsOfKind, None, Str, SecurityEnum
  <2> QED
    BY <1>1, <2>1, <2>2 DEF Get
<1>5. (\A f \in DOMAIN linked : linked[f] = None \/ IsOfKind(NetworkSpec[f], linked[f])) <=>
          /\ linked.first_seen = None \/ IsOfKind("datetime", linked.first_seen)
          /\ linked.last_seen = None \/ IsOfKind("datetime", linked.last_seen)
  BY <1>1, <1>3
<1>6. document.dtype = "network" /\ document.data = linked
  BY DEF linked
<1>7. Validates(document) <=>
          /\ DOMAIN linked \subseteq DOMAIN NetworkSpec
          /\ \A f \in {"bssid", "security"} : Get(linked, f) # None
          /\ \A f \in DOMAIN linked : linked[f] = None \/ IsOfKind(NetworkSpec[f], linked[f])
  BY <1>2, <1>6 DEF Validates
<1> QED
  BY <1>1, <1>3, <1>4, <1>5, <1>7

\* A host takes its times as text, which even a short year is.
LEMMA TimesAreText ==
    ASSUME NEW v
    PROVE  WigleTime(v) = None \/ IsOfKind("string", WigleTime(v))
BY DEF WigleTime, Strftime, IsOfKind, StringTags

\* The host of a network passes, whatever the times of the network are.
LEMMA HostValidates ==
    ASSUME NEW r, HasNetid(r), NEW network,
           NEW id, network.data = [NetworkDocument(r).data EXCEPT !.hosted_host_id = id]
    PROVE  Validates(HostDocument(network))
<1> DEFINE data == HostDocument(network).data
<1>1. /\ network.data.bssid = NetworkDocument(r).data.bssid
      /\ network.data.source_network_id = NetworkDocument(r).data.source_network_id
      /\ network.data.first_seen = WigleTime(Get(r, "firsttime"))
      /\ network.data.last_seen = WigleTime(Get(r, "lasttime"))
  BY DEF NetworkDocument, BuildEnvelope
<1>2. /\ DOMAIN data = {"mac", "device_type", "network_id", "first_seen", "last_seen"}
      /\ data.mac = network.data.bssid
      /\ data.device_type = Str("wifi-access-point")
      /\ data.network_id = network.data.source_network_id
      /\ data.first_seen = network.data.first_seen
      /\ data.last_seen = network.data.last_seen
  BY DEF HostDocument, BuildEnvelope
<1>3. HostDocument(network).dtype = "host"
  BY DEF HostDocument, BuildEnvelope
<1>4. SpecOf["host"] = HostSpec /\ RequiredOf["host"] = {} /\ "host" \in DOMAIN SpecOf
  BY DEF SpecOf, RequiredOf
<1> HIDE DEF data
<1>5. \A f \in DOMAIN data :
          f \in DOMAIN HostSpec /\ HostSpec[f] = "string"
              /\ (data[f] = None \/ IsOfKind("string", data[f]))
  <2>1. IsOfKind("string", data.mac) /\ IsOfKind("string", data.network_id)
    BY <1>1, <1>2, NetworkFields
  <2>2. IsOfKind("string", data.device_type)
    BY <1>2, MadeKinds
  <2>3. /\ data.first_seen = None \/ IsOfKind("string", data.first_seen)
        /\ data.last_seen = None \/ IsOfKind("string", data.last_seen)
    BY <1>1, <1>2, TimesAreText
  <2>4. /\ DOMAIN data = DOMAIN HostSpec
        /\ \A f \in DOMAIN HostSpec : HostSpec[f] = "string"
    BY <1>2 DEF HostSpec
  <2> QED
    BY <1>2, <2>1, <2>2, <2>3, <2>4
<1> QED
  BY <1>3, <1>4, <1>5 DEF Validates, data

\* wigle/mapping.py:157, transport.py:132: of whatever WiGLE sends that maps, the
\* boundary refuses nothing on an interpreter that pads years, and on another the
\* networks with a time before the year 1000 and nothing else.
THEOREM ResultsPass == PublisherSpec => []ResultsPassBoundary
<1>1. EveryResultPasses
  <2> SUFFICES ASSUME NEW r \in Results, Maps(r)
               PROVE  /\ Validates(NetworkDocument(r)) <=> PadsYears \/ ~HasEarlyTime(r)
                      /\ Validates(Hosted(NetworkDocument(r))) <=> PadsYears \/ ~HasEarlyTime(r)
                      /\ Validates(HostDocument(Hosted(NetworkDocument(r))))
    BY DEF EveryResultPasses
  <2> DEFINE OnTime(v) == WigleTime(v) = None \/ IsOfKind("datetime", WigleTime(v))
             network == NetworkDocument(r)
             id == HostId(network.data.bssid)
  <2>0. HasNetid(r)
    BY DEF Maps
  <2>1. (PadsYears \/ ~HasEarlyTime(r))
            <=> OnTime(Get(r, "firsttime")) /\ OnTime(Get(r, "lasttime"))
    <3> DEFINE EarlyTime(f) == Get(r, f)[1] = "time" /\ Get(r, f)[2] < 1000
    <3>1. ASSUME NEW f PROVE OnTime(Get(r, f)) <=> PadsYears \/ ~EarlyTime(f)
      <4>1. CASE f \in DOMAIN r
        <5>1. Get(r, f)[1] = "time" => Get(r, f)[2] \in 0..10000
          BY <4>1, YearsAreNumbers DEF Get
        <5> QED
          BY <5>1, TimesAreLate
      <4>2. CASE f \notin DOMAIN r
        <5>1. Get(r, f)[1] # "time"
          BY <4>2 DEF Get, None
        <5> QED
          BY <5>1, TimesAreLate
      <4> QED
        BY <4>1, <4>2
    <3>2. HasEarlyTime(r) <=> EarlyTime("firsttime") \/ EarlyTime("lasttime")
      BY DEF HasEarlyTime
    <3>3. /\ OnTime(Get(r, "firsttime")) <=> PadsYears \/ ~EarlyTime("firsttime")
          /\ OnTime(Get(r, "lasttime")) <=> PadsYears \/ ~EarlyTime("lasttime")
      BY <3>1
    <3> HIDE DEF EarlyTime, OnTime
    <3> QED
      BY <3>2, <3>3
  <2>2. IsOfKind("string", id)
    BY DEF IsOfKind, HostId, StringTags
  <2>3. /\ network.dtype = "network"
        /\ network.data = [network.data EXCEPT !.hosted_host_id = None]
    BY DEF NetworkDocument, BuildEnvelope
  <2>4. /\ Hosted(network).dtype = "network"
        /\ Hosted(network).data = [network.data EXCEPT !.hosted_host_id = id]
    BY DEF NetworkDocument, BuildEnvelope, Hosted
  <2>5. Validates(network) <=> PadsYears \/ ~HasEarlyTime(r)
    BY <2>0, <2>1, <2>3, NetworkValidates
  <2>6. Validates(Hosted(network)) <=> PadsYears \/ ~HasEarlyTime(r)
    BY <2>0, <2>1, <2>2, <2>4, NetworkValidates
  <2>7. Validates(HostDocument(Hosted(network)))
    BY <2>0, <2>4, HostValidates
  <2> QED
    BY <2>5, <2>6, <2>7
<1>2. ResultsPassBoundary
  BY <1>1 DEF ResultsPassBoundary
<1> QED
  BY <1>2, PTL

-----------------------------------------------------------------------------
(* kismet/mapping.py, for whatever Kismet reports. *)

\* An SSID Kismet reports is a text.
LEMMA SsidsAreStrings ==
    ASSUME NEW map, NEW s \in Ssids(map)
    PROVE  IsOfKind("string", s)
BY DEF Ssids, IsOfKind

\* A vendor is a text or nothing.
LEMMA VendorKind == ASSUME NEW d PROVE Vendor(d) = None \/ IsOfKind("string", Vendor(d))
BY DEF Vendor, IsOfKind, Get, None, StringTags

\* A band, from the frequency or else from the channel, is one the boundary knows.
LEMMA KismetBandKind ==
    ASSUME NEW frequency, NEW number
    PROVE  KismetBand(frequency, number) = None \/ IsOfKind("band", KismetBand(frequency, number))
BY BandsAreKnown, MadeKinds DEF KismetBand

\* Every network of an access point passes the boundary.
LEMMA KismetNetworkValidates ==
    ASSUME NEW d, NEW sensor, NEW x \in KismetNetworks(d, sensor)
    PROVE  Validates(x)
<1> DEFINE mac == NormalMac(Get(d, "macaddr"))
           ssids == IF AdvertisedSsids(d) = {} THEN {Empty} ELSE AdvertisedSsids(d)
<1>1. mac # Empty
  BY DEF KismetNetworks
<1>2. PICK ssid \in ssids : x.data.ssid = ssid /\ x.dtype = "network" /\ x.data.bssid = mac
          /\ x.data.security = Str(MapEncryption(Get(d, "crypt"), None))
          /\ x.data.source_network_id = <<"id", sensor, mac>>
          /\ x.data.channel = Positive(Get(d, "channel"))
          /\ x.data.frequency_mhz = Positive(Get(d, "frequency"))
          /\ x.data.band = KismetBand(Positive(Get(d, "frequency")), Positive(Get(d, "channel")))
          /\ x.data.signal_dbm = IntOfNumber(Get(d, "last_signal_dbm"))
          /\ x.data.vendor = Vendor(d)
          /\ x.data.first_seen = IsoEpoch(Get(d, "first_time"))
          /\ x.data.last_seen = IsoEpoch(Get(d, "last_time"))
          /\ DOMAIN x.data = {"bssid", "ssid", "security", "source_network_id", "channel",
                 "frequency_mhz", "band", "signal_dbm", "vendor", "first_seen", "last_seen"}
  BY DEF KismetNetworks, BuildEnvelope
<1>3. IsOfKind("string", x.data.bssid) /\ IsOfKind("string", x.data.source_network_id)
  BY <1>1, <1>2, ConvertedKinds DEF IsOfKind, StringTags
<1>4. IsOfKind("string", x.data.ssid)
  <2>1. IsOfKind("string", Empty)
    BY DEF IsOfKind, Empty, Str, StringTags
  <2> QED
    BY <1>2, <2>1, SsidsAreStrings DEF AdvertisedSsids
<1>5. IsOfKind("security", x.data.security)
  BY <1>2, SecurityTable, MadeKinds
<1>6. /\ x.data.channel = None \/ IsOfKind("integer", x.data.channel)
      /\ x.data.frequency_mhz = None \/ IsOfKind("integer", x.data.frequency_mhz)
      /\ x.data.signal_dbm = None \/ IsOfKind("integer", x.data.signal_dbm)
      /\ x.data.first_seen = None \/ IsOfKind("datetime", x.data.first_seen)
      /\ x.data.last_seen = None \/ IsOfKind("datetime", x.data.last_seen)
      /\ x.data.vendor = None \/ IsOfKind("string", x.data.vendor)
      /\ x.data.band = None \/ IsOfKind("band", x.data.band)
  BY <1>2, ConvertedKinds, VendorKind, KismetBandKind
<1> DEFINE data == x.data
<1> HIDE DEF data
<1>7. /\ {"bssid", "ssid", "security", "source_network_id", "channel", "frequency_mhz", "band",
          "signal_dbm", "vendor", "first_seen", "last_seen"} \subseteq DOMAIN NetworkSpec
      /\ NetworkSpec.bssid = "string" /\ NetworkSpec.ssid = "string"
      /\ NetworkSpec.security = "security" /\ NetworkSpec.source_network_id = "string"
      /\ NetworkSpec.channel = "integer" /\ NetworkSpec.frequency_mhz = "integer"
      /\ NetworkSpec.band = "band" /\ NetworkSpec.signal_dbm = "integer"
      /\ NetworkSpec.vendor = "string" /\ NetworkSpec.first_seen = "datetime"
      /\ NetworkSpec.last_seen = "datetime"
  BY DEF NetworkSpec
<1>8. \A f \in DOMAIN x.data :
          f \in DOMAIN NetworkSpec /\ (x.data[f] = None \/ IsOfKind(NetworkSpec[f], x.data[f]))
  BY <1>2, <1>3, <1>4, <1>5, <1>6, <1>7
<1>9. \A f \in {"bssid", "security"} : Get(x.data, f) # None
  <2>1. x.data.bssid # None
    BY <1>3, StringsArePresent
  <2>2. x.data.security # None
    BY <1>2 DEF None, Str
  <2> QED
    BY <1>2, <2>1, <2>2 DEF Get
<1>10. SpecOf["network"] = NetworkSpec /\ RequiredOf["network"] = {"bssid", "security"}
       /\ "network" \in DOMAIN SpecOf
  BY DEF SpecOf, RequiredOf
<1> QED
  BY <1>2, <1>8, <1>9, <1>10 DEF Validates

\* The station of a device with an address passes the boundary.
LEMMA KismetStationValidates ==
    ASSUME NEW d, NEW sensor, NormalMac(Get(d, "macaddr")) # Empty
    PROVE  Validates(KismetStation(d, sensor))
<1> DEFINE data == KismetStation(d, sensor).data
           probes == Ssids(Get(d, "probed_ssid_map"))
           ap == NormalMac(Get(d, "last_bssid"))
<1>1. /\ data.mac = NormalMac(Get(d, "macaddr"))
      /\ data.station_type = Str(StationType(d))
      /\ data.source_device_id = <<"id", sensor>>
      /\ data.probe_ssids = IF probes = {} THEN None ELSE <<"list", probes>>
      /\ data.last_bssid = IF ap = Empty THEN None ELSE ap
      /\ data.signal_dbm = IntOfNumber(Get(d, "last_signal_dbm"))
      /\ data.vendor = Vendor(d)
      /\ data.packets = IntOfNumber(Get(d, "packets"))
      /\ data.first_seen = IsoEpoch(Get(d, "first_time"))
      /\ data.last_seen = IsoEpoch(Get(d, "last_time"))
      /\ DOMAIN data = {"mac", "station_type", "source_device_id", "probe_ssids", "last_bssid",
                        "signal_dbm", "vendor", "packets", "first_seen", "last_seen"}
      /\ KismetStation(d, sensor).dtype = "station"
  BY DEF KismetStation, BuildEnvelope
<1> HIDE DEF data
<1>2. IsOfKind("string", data.mac) /\ IsOfKind("string", data.source_device_id)
  BY <1>1, ConvertedKinds DEF IsOfKind, StringTags
<1>3. IsOfKind("station-type", data.station_type)
  <2>1. StationType(d) \in StationTypeEnum
    BY DEF StationType, StationTypeEnum
  <2> QED
    BY <1>1, <2>1, MadeKinds
<1>4. data.probe_ssids = None \/ IsOfKind("string-array", data.probe_ssids)
  <2>1. \A s \in probes : s[1] \in StringTags
    BY DEF Ssids
  <2> HIDE DEF probes
  <2> QED
    BY <1>1, <2>1 DEF IsOfKind
<1>5. data.last_bssid = None \/ IsOfKind("string", data.last_bssid)
  BY <1>1, ConvertedKinds
<1>6. /\ data.signal_dbm = None \/ IsOfKind("integer", data.signal_dbm)
      /\ data.packets = None \/ IsOfKind("integer", data.packets)
      /\ data.first_seen = None \/ IsOfKind("datetime", data.first_seen)
      /\ data.last_seen = None \/ IsOfKind("datetime", data.last_seen)
      /\ data.vendor = None \/ IsOfKind("string", data.vendor)
  BY <1>1, ConvertedKinds, VendorKind
<1>7. /\ DOMAIN data \subseteq DOMAIN StationSpec
      /\ StationSpec.mac = "string" /\ StationSpec.station_type = "station-type"
      /\ StationSpec.source_device_id = "string" /\ StationSpec.probe_ssids = "string-array"
      /\ StationSpec.last_bssid = "string" /\ StationSpec.signal_dbm = "integer"
      /\ StationSpec.vendor = "string" /\ StationSpec.packets = "integer"
      /\ StationSpec.first_seen = "datetime" /\ StationSpec.last_seen = "datetime"
  BY <1>1 DEF StationSpec
<1>8. \A f \in DOMAIN data : data[f] = None \/ IsOfKind(StationSpec[f], data[f])
  BY <1>1, <1>2, <1>3, <1>4, <1>5, <1>6, <1>7
<1>9. \A f \in {"mac"} : Get(data, f) # None
  BY <1>1, <1>2, StringsArePresent DEF Get
<1>10. SpecOf["station"] = StationSpec /\ RequiredOf["station"] = {"mac"}
       /\ "station" \in DOMAIN SpecOf
  BY DEF SpecOf, RequiredOf
<1> QED
  BY <1>1, <1>7, <1>8, <1>9, <1>10 DEF Validates, data

\* The ids of the ends are made like every id.
LEMMA RelationValidates ==
    ASSUME NEW a, NEW b, NEW predicate, IsOfKind("string", a), IsOfKind("string", b)
    PROVE  Validates(RelationDocument(a, predicate, b))
<1> DEFINE data == RelationDocument(a, predicate, b).data
<1>1. /\ DOMAIN data = {"subject", "predicate", "object", "source", "target"}
      /\ data.subject = a /\ data.object = b /\ data.source = a /\ data.target = b
      /\ data.predicate = Str(predicate)
      /\ RelationDocument(a, predicate, b).dtype = "relation"
  BY DEF RelationDocument, BuildEnvelope
<1> HIDE DEF data
<1>2. /\ DOMAIN RelationSpec = {"subject", "predicate", "object", "source", "target"}
      /\ \A f \in DOMAIN RelationSpec : RelationSpec[f] = "string"
  BY DEF RelationSpec
<1>3. \A f \in DOMAIN data : IsOfKind("string", data[f])
  BY <1>1, MadeKinds
<1>4. SpecOf["relation"] = RelationSpec /\ RequiredOf["relation"] = {}
      /\ "relation" \in DOMAIN SpecOf
  BY DEF SpecOf, RequiredOf
<1> QED
  BY <1>1, <1>2, <1>3, <1>4 DEF Validates, data

\* Both mappings ask the same of a device: is it an access point.
LEMMA TypesAgree ==
    ASSUME NEW d, NEW sensor, NormalMac(Get(d, "macaddr")) # Empty
    PROVE  KismetNetworks(d, sensor) # {}
               <=> KismetStation(d, sensor).data.station_type \in {Str("ap"), Str("bridge-ap")}
<1>1. KismetNetworks(d, sensor) # {} <=> IsAp(d)
  <2>1. ~IsAp(d) => KismetNetworks(d, sensor) = {}
    BY DEF KismetNetworks
  <2> DEFINE ssids == IF AdvertisedSsids(d) = {} THEN {Empty} ELSE AdvertisedSsids(d)
  <2>2. PICK ssid : ssid \in ssids
    OBVIOUS
  <2>3. IsAp(d) => KismetNetworks(d, sensor) # {}
    BY <2>2 DEF KismetNetworks
  <2> QED
    BY <2>1, <2>3
<1>2. StationType(d) \in {"ap", "bridge-ap"} <=> IsAp(d)
  <2>1. CASE TypeHas(d, "bridge") /\ IsAp(d)
    BY <2>1, Zenon DEF StationType
  <2>2. CASE TypeHas(d, "bridge") /\ ~IsAp(d)
    <3>1. StationType(d) = "bridge"
      BY <2>2, Zenon DEF StationType
    <3> QED
      BY <2>2, <3>1
  <2>3. CASE ~TypeHas(d, "bridge") /\ IsAp(d)
    <3>1. StationType(d) = "ap"
      BY <2>3, Zenon DEF StationType
    <3> QED
      BY <2>3, <3>1
  <2>4. CASE ~TypeHas(d, "bridge") /\ ~IsAp(d)
    <3>1. StationType(d) \in {"station", "unknown"}
      BY <2>4, Zenon DEF StationType
    <3> QED
      BY <2>4, <3>1
  <2> QED
    BY <2>1, <2>2, <2>3, <2>4
<1>3. KismetStation(d, sensor).data.station_type = Str(StationType(d))
  BY DEF KismetStation, BuildEnvelope
<1> QED
  BY <1>1, <1>2, <1>3 DEF Str

\* kismet/mapping.py:167-307, transport.py:190: whatever Kismet reports of a
\* device with an address, its documents pass the boundary, and it has networks
\* just when its station is an access point.
THEOREM DevicesPass == PublisherSpec => []DevicesPassBoundary
<1>1. EveryDevicePasses
  <2> SUFFICES ASSUME NEW d \in Devices, NormalMac(Get(d, "macaddr")) # Empty,
                      NEW station, station = KismetStation(d, "sensor"),
                      NEW networks, networks = KismetNetworks(d, "sensor")
               PROVE  /\ \A x \in {station} \cup networks \cup KismetRelations(station, networks) :
                             Validates(x)
                      /\ networks # {} <=>
                             station.data.station_type \in {Str("ap"), Str("bridge-ap")}
    BY DEF EveryDevicePasses
  <2>1. Validates(station)
    BY KismetStationValidates
  <2>2. \A x \in networks : Validates(x)
    BY KismetNetworkValidates
  <2>3. ASSUME NEW x \in KismetRelations(station, networks) PROVE Validates(x)
    <3>1. PICK n \in networks : x = RelationDocument(station.id, "observed_at_station", n.id)
      BY <2>3 DEF KismetRelations
    <3>2. IsOfKind("string", station.id)
      BY DEF KismetStation, BuildEnvelope, StationId, IsOfKind, StringTags
    <3>3. IsOfKind("string", n.id)
      BY <3>1 DEF KismetNetworks, BuildEnvelope, NetworkId, IsOfKind, StringTags
    <3> QED
      BY <3>1, <3>2, <3>3, RelationValidates
  <2> QED
    BY <2>1, <2>2, <2>3, TypesAgree
<1>2. DevicesPassBoundary
  BY <1>1 DEF DevicesPassBoundary
<1> QED
  BY <1>2, PTL

\* What is published next keeps to the boundary and to the table of securities,
\* for any results and devices and on interpreters of either kind.
THEOREM MappingsKept == PublisherSpec => []MappingsHold
  BY ResultsPass, DevicesPass, SecurityFollowsTable, PTL DEF MappingsHold

-----------------------------------------------------------------------------
(* The publisher.  SentInConfirmMode is not inductive: an attempt uses the *)
(* channel that an earlier one left behind, so the invariant also says     *)
(* that none is left behind before it confirms.  A return is a promise     *)
(* because a send in confirm mode returns with the broker's copy; that     *)
(* copies stay below the attempts makes room for it in the type invariant. *)

\* A channel is without confirms only while it is set up.
PlainIsSetUp == channel = "plain" => step \in {"declare", "confirm"}

\* Every attempt but this one left at most one copy.
OneCopyEach == step \in Trying \cup {"write"} => copies < attempt

PublisherInv == PublisherTypeOK /\ SentInConfirmMode /\ PlainIsSetUp /\ OneCopyEach

LEMMA PublisherInitInv == PublisherInit => PublisherInv
BY PublisherAssumption
   DEF PublisherInit, PublisherInv, PublisherTypeOK, SentInConfirmMode, PlainIsSetUp,
       OneCopyEach, Trying

\* The document of a call is one of the callers'.
LEMMA CallIsDocument ==
    ASSUME PublisherTypeOK, step # "idle"
    PROVE  call \in Documents
BY DEF PublisherTypeOK

\* A sink's copies of a call stay within its attempts, and what it takes is a
\* document.
LEMMA TakingIsTyped ==
    ASSUME PublisherInv, step \in Trying \cup {"write"}, NEW n \in {0, 1}, SinkTakes(n)
    PROVE  copies' \in 0..attempt /\ taken' \subseteq Documents /\ flushed \subseteq taken'
<1>1. call \in Documents
  BY CallIsDocument DEF PublisherInv, Trying
<1>2. attempt \in Nat /\ copies \in Nat /\ copies < attempt
  BY PublisherAssumption DEF PublisherInv, PublisherTypeOK, OneCopyEach
<1> QED
  BY <1>1, <1>2 DEF SinkTakes, PublisherInv, PublisherTypeOK

LEMMA PublisherNextInv == PublisherInv /\ [PublisherNext]_publisherVars => PublisherInv'
<1> SUFFICES ASSUME PublisherInv, [PublisherNext]_publisherVars
             PROVE  PublisherInv'
  OBVIOUS
<1> USE PublisherAssumption
<1> USE DEF PublisherInv, PublisherTypeOK, SentInConfirmMode, PlainIsSetUp, OneCopyEach, Trying,
            link
<1>1. ASSUME NEW d \in Documents, Publish(d) PROVE PublisherInv'
  BY <1>1 DEF Publish
<1>2. CASE Collect
  BY <1>2 DEF Collect
<1>3. CASE Connect
  BY <1>3 DEF Connect
<1>4. CASE OpenChannel
  BY <1>4 DEF OpenChannel
<1>5. CASE DeclareExchange
  BY <1>5 DEF DeclareExchange
<1>6. CASE ConfirmDelivery
  BY <1>6 DEF ConfirmDelivery
<1>7. CASE Confirmed
  <2>1. PICK n \in {0, 1} : SinkTakes(n)
    BY <1>7 DEF Confirmed
  <2>2. copies' \in 0..attempt /\ taken' \subseteq Documents /\ flushed \subseteq taken'
    BY <1>7, <2>1, TakingIsTyped DEF Confirmed
  <2> QED
    BY <1>7, <2>2 DEF Confirmed
<1>8. CASE AttemptFails
  <2>1. PICK n \in {0, 1} : SinkTakes(n)
    BY <1>8 DEF AttemptFails
  <2>2. copies' \in 0..attempt /\ taken' \subseteq Documents /\ flushed \subseteq taken'
    BY <1>8, <2>1, TakingIsTyped DEF AttemptFails
  <2>3. CASE attempt < Retries
    BY <1>8, <2>2, <2>3 DEF AttemptFails
  <2>4. CASE ~(attempt < Retries)
    BY <1>8, <2>2, <2>4 DEF AttemptFails
  <2> QED
    BY <2>3, <2>4
<1>9. CASE Unroutable
  BY <1>9 DEF Unroutable
<1>10. CASE WriteLine
  <2>1. copies' \in 0..attempt /\ taken' \subseteq Documents /\ flushed \subseteq taken'
    BY <1>10, TakingIsTyped DEF WriteLine
  <2> QED
    BY <1>10, <2>1 DEF WriteLine
<1>11. CASE WriteFails
  BY <1>11 DEF WriteFails
<1>12. CASE ConnectionDrops \/ ChannelDrops
  BY <1>12 DEF ConnectionDrops, ChannelDrops
<1>13. CASE Close
  BY <1>13 DEF Close
<1>14. CASE UNCHANGED publisherVars
  BY <1>14 DEF publisherVars
<1> QED
  BY <1>1, <1>2, <1>3, <1>4, <1>5, <1>6, <1>7, <1>8, <1>9, <1>10, <1>11, <1>12, <1>13, <1>14
     DEF PublisherNext, Exchange

LEMMA PublisherInvariant == PublisherSpec => []PublisherInv
BY PublisherInitInv, PublisherNextInv, PTL DEF PublisherSpec

\* Every variable of the publishers keeps its type, the copies of a call within
\* its attempts among them.
THEOREM PublisherTypeCorrect == PublisherSpec => []PublisherTypeOK
<1>1. PublisherInv => PublisherTypeOK
  BY DEF PublisherInv
<1> QED
  BY <1>1, PublisherInvariant, PTL

\* transport.py:519: no failure leaves a channel without confirms behind for a
\* later attempt or call to send on.
THEOREM ConfirmedSends == PublisherSpec => []SentInConfirmMode
<1>1. PublisherInv => SentInConfirmMode
  BY DEF PublisherInv
<1> QED
  BY <1>1, PublisherInvariant, PTL

-----------------------------------------------------------------------------
LEMMA InitRefines == PublisherInit => Contract!Init
BY DEF PublisherInit, Contract!Init, Trying

\* A copy the sink takes while a call runs is a Take of the contract, whatever
\* becomes of the call.
LEMMA TakingRefines ==
    ASSUME PublisherInv, step \in Trying \cup {"write"}, SinkTakes(1), UNCHANGED call,
           step' \in Trying \cup {"write", "returned", "raised"}
    PROVE  Contract!Take
<1>1. copies \in Nat
  BY PublisherAssumption DEF PublisherInv, PublisherTypeOK
<1> QED
  BY <1>1 DEF SinkTakes, Contract!Take, Trying

LEMMA StepRefines ==
    PublisherInv /\ [PublisherNext]_publisherVars => [Contract!Next]_Contract!vars
<1> SUFFICES ASSUME PublisherInv, [PublisherNext]_publisherVars
             PROVE  [Contract!Next]_Contract!vars
  OBVIOUS
<1> USE DEF Contract!Next, Contract!vars, link
<1>1. ASSUME NEW d \in Documents, Publish(d) PROVE Contract!Call(d)
  BY <1>1 DEF Publish, Contract!Call, Trying
<1>2. CASE Collect
  BY <1>2 DEF Collect, Contract!Collect, Trying
<1>3. CASE Connect \/ OpenChannel \/ DeclareExchange \/ ConfirmDelivery
  BY <1>3 DEF Connect, OpenChannel, DeclareExchange, ConfirmDelivery, Trying
<1>4. CASE Confirmed
  <2>1. SinkTakes(1)
    BY <1>4 DEF Confirmed, PublisherInv, SentInConfirmMode
  <2> QED
    BY <1>4, <2>1, TakingRefines DEF Confirmed, Trying
<1>5. CASE AttemptFails
  <2>1. step' \in {"connect", "raised"} /\ UNCHANGED call
    BY <1>5 DEF AttemptFails
  <2>2. CASE SinkTakes(1)
    BY <1>5, <2>1, <2>2, TakingRefines DEF AttemptFails, Trying
  <2>3. CASE SinkTakes(0)
    <3>1. UNCHANGED <<copies, taken>>
      BY <2>3, PublisherAssumption DEF SinkTakes, PublisherInv, PublisherTypeOK
    <3> QED
      BY <1>5, <2>1, <3>1 DEF AttemptFails, Contract!Raise, Trying
  <2> QED
    BY <1>5, <2>2, <2>3 DEF AttemptFails
<1>6. CASE Unroutable \/ WriteFails
  BY <1>6 DEF Unroutable, WriteFails, Contract!Raise, Trying
<1>7. CASE WriteLine
  BY <1>7, TakingRefines DEF WriteLine
<1>8. CASE ConnectionDrops \/ ChannelDrops \/ Close \/ UNCHANGED publisherVars
  BY <1>8 DEF ConnectionDrops, ChannelDrops, Close, publisherVars
<1> QED
  BY <1>1, <1>2, <1>3, <1>4, <1>5, <1>6, <1>7, <1>8 DEF PublisherNext, Exchange

\* transport.py:428-433, :503-528: whatever fails, an invalid document never
\* reaches the sink, and publish() returns only when the sink took the document.
THEOREM ContractKept == PublisherSpec => ContractSpec
BY InitRefines, StepRefines, PublisherInvariant, PTL DEF PublisherSpec, ContractSpec, Contract!Spec

-----------------------------------------------------------------------------
(* WirelessCommand: what its steps keep. *)

\* publish() returns only if the sink has the document.
ReturnedIsTaken == step = "returned" => call \in taken

\* What a command is and has to publish.
Choice ==
    /\ mode \in Modes
    /\ mode # "search" => emitHosts = FALSE /\ announce = FALSE
    /\ IF mode = "manifests" THEN offers = [i \in DOMAIN Actors |-> <<"manifest", Actors[i]>>]
                             ELSE offers \in Offers

\* Only objects are taken out of the answers of WiGLE.
ReceivedKinds == mode # "manifests" => \A p \in received : IsDict(offers[p])

\* The documents the sink of the command has or will be given.
Reached == taken \cup ToSet(mail)

Healthy == exit = "ok" /\ ~failed

\* The documents of position P are on their way.
Sent(p) == Mappable(offers[p]) /\ DocumentsOf(offers[p]) \subseteq Reached

\* Without a failure, what was received is still to be yielded or on its way.
Delivered ==
    Healthy =>
        /\ \A p \in received : p \in items \/ Sent(p)
        /\ actor = "network" /\ emitHosts => HostOf(Item) \in Reached

\* All objects up to position N were received.
Covered(n) == \A p \in 1..n : IsDict(offers[p]) => p \in received

\* The last page was short, or full without a cursor and a netid to go on from.
Ended ==
    \/ upto = Len(offers)
    \/ upto \in 1..Len(offers) /\ upto % PageSize = 0 /\ ~HasStringNetid(offers[upto])

\* Pages leave nothing out, and a cursor stands at the end of a full page.
Paging ==
    mode \in {"search", "bluetooth"} =>
        /\ Covered(after) /\ Covered(last) /\ Covered(upto)
        /\ after % PageSize = 0 /\ last % PageSize = 0
        /\ turn # "end" => upto % PageSize = 0
        /\ fetch = "items" /\ turn = "end" => Ended
        /\ fetch = "over" => warned \/ Ended

Fetching == fetch \in {"request", "over"} => items = {}

\* Where the WiGLE actor, its sink and the command are in a search.
SearchFlow ==
    mode = "search" =>
        /\ main # "direct"
        /\ actor # "idle" => fetch # "off"
        /\ actor \in {"host", "network"} => fetch = "items" /\ items # {} /\ Mappable(Item)
        /\ actor = "host" => emitHosts
        /\ step # "idle" => mail # <<>> /\ call = Head(mail)
        /\ main \in {"start", "announce"} =>
               actor = "idle" /\ fetch = "off" /\ received = {} /\ mail = <<>>
        /\ main \notin {"start", "announce"} /\ actor = "idle" /\ Healthy =>
               items = {} /\ fetch = "off" /\ (warned \/ Ended)
        /\ main \in {"join sink", "stop wigle", "stop sink", "close", "done"} /\ exit = "ok" =>
               actor = "idle"
        /\ main \in {"stop wigle", "stop sink", "close", "done"} /\ exit = "ok" =>
               mail = <<>> /\ ~failed

\* Where a command is that publishes directly.
DirectFlow ==
    mode # "search" =>
        /\ main \in {"start", "direct", "close", "done"}
        /\ actor = "idle" /\ mail = <<>> /\ ~failed
        /\ main = "start" => step = "idle" /\ fetch = "off" /\ received = {}
        /\ main = "direct" /\ step # "idle" =>
               fetch = "items" /\ items # {} /\ Mappable(Item) /\ call = DocumentOf(Item)
        /\ main \in {"close", "done"} /\ exit = "ok" =>
               fetch = "over" /\ items = {} /\ step = "idle"

\* A command that ended well has flushed the file.
Closed == main = "done" /\ exit = "ok" => step = "idle" /\ (offline => flushed = taken)

\* The inductive invariant of a command.
CommandInv ==
    /\ PublisherInv /\ ReturnedIsTaken
    /\ TypeOK /\ Choice /\ ReceivedKinds
    /\ Fetching /\ Paging
    /\ SearchFlow /\ DirectFlow /\ Closed
    /\ Delivered

-----------------------------------------------------------------------------
(* Items and their documents. *)

LEMMA OffersType ==
    ASSUME Choice
    PROVE  offers \in Seq(ToSet(offers)) /\ Len(offers) \in Nat /\ DOMAIN offers = 1..Len(offers)
<1>1. CASE mode # "manifests"
  <2>1. offers \in Seq(ToSet(offers))
    BY <1>1, CommandAssumption DEF Choice
  <2> QED BY <2>1, LenProperties
<1>2. CASE mode = "manifests"
  <2>1. offers = [i \in DOMAIN Actors |-> <<"manifest", Actors[i]>>]
    BY <1>2 DEF Choice
  <2>2. Len(Actors) \in Nat /\ DOMAIN Actors = 1..Len(Actors)
    BY CommandAssumption, LenProperties
  <2>3. offers \in [1..Len(Actors) -> ToSet(offers)]
    BY <2>1, <2>2 DEF ToSet
  <2>4. offers \in Seq(ToSet(offers))
    BY <2>2, <2>3, SeqDef
  <2> QED BY <2>4, LenProperties
<1> QED BY <1>1, <1>2

\* A set of natural numbers has a least element: the intervals below its
\* elements are finite sets, of which one has no smaller one.
LEMMA Least ==
    ASSUME NEW T, T \subseteq Nat, T # {}
    PROVE  \E m \in T : \A k \in T : m <= k
<1> DEFINE Below(m) == 0..(m - 1)
           Order == StrictSubsetOrdering(Nat)
           Sets == {Below(m) : m \in T}
<1>1. \A m \in T : Below(m) \in SUBSET Nat /\ IsFiniteSet(Below(m))
  BY FS_Interval
<1>2. Sets \subseteq FiniteSubsetsOf(Nat) /\ Sets # {}
  BY <1>1 DEF FiniteSubsetsOf
<1>3. PICK x \in Sets : \A y \in Sets : <<y, x>> \notin Order
  <2> HIDE DEF Order, Sets
  <2>1. IsWellFoundedOn(Order, FiniteSubsetsOf(Nat))
    BY FS_StrictSubsetOrderingWellFounded DEF Order
  <2> QED BY <1>2, <2>1, WFMin, Zenon
<1>4. PICK m \in T : x = Below(m)
  BY <1>3
<1>5. ASSUME NEW k \in T, k < m
      PROVE  FALSE
  <2>1. Below(k) \in Sets /\ Below(k) \subseteq Nat /\ x \subseteq Nat
    BY <1>1, <1>4
  <2>2. Below(k) \subseteq x /\ k \in x /\ k \notin Below(k)
    BY <1>4, <1>5
  <2>3. <<Below(k), x>> \in Order
    BY <2>1, <2>2 DEF StrictSubsetOrdering
  <2> QED BY <1>3, <2>1, <2>3
<1>6. \A k \in T : m <= k
  BY <1>5
<1> QED BY <1>6

\* The first item is one of them.
LEMMA FirstType ==
    ASSUME Choice, items \subseteq DOMAIN offers, items # {}
    PROVE  First \in items /\ \A q \in items : First <= q
<1>1. items \subseteq Nat
  BY OffersType
<1>2. \E p \in items : \A q \in items : p <= q
  BY <1>1, Least, Zenon
<1> QED BY <1>2 DEF First

\* A position that was received, of an item that can be mapped, has its documents.
LEMMA DocumentsType ==
    ASSUME Choice, ReceivedKinds, NEW p \in received, received \subseteq DOMAIN offers,
           Mappable(offers[p])
    PROVE  DocumentsOf(offers[p]) \subseteq Documents
<1>1. CASE mode = "manifests"
  <2>1. p \in DOMAIN Actors /\ offers[p] = <<"manifest", Actors[p]>>
    BY <1>1 DEF Choice
  <2>2. DocumentsOf(offers[p]) = {ManifestDocument(Actors[p])}
    BY <1>1, <2>1 DEF DocumentsOf, DocumentOf
  <2> QED BY <2>1, <2>2, DocumentsAssumption
<1>2. CASE mode # "manifests"
  <2>1. IsDict(offers[p]) /\ offers \in Offers
    BY <1>2 DEF ReceivedKinds, Choice
  <2>2. Maps(offers[p][2]) /\ offers[p][1] # "manifest"
    BY <2>1 DEF Mappable, IsDict
  <2>3. offers[p][2] \in Mapped
    BY <2>1, <2>2 DEF Mapped, ToSet
  <2>4. {NetworkDocuments[offers[p][2]], HostedDocuments[offers[p][2]],
         HostDocuments[offers[p][2]]} \subseteq Documents
    BY <2>3, DocumentsAssumption
  <2> QED BY <2>2, <2>4 DEF DocumentsOf, DocumentOf, NetworkOf, HostOf
<1> QED BY <1>1, <1>2

\* The item at hand: its documents are those that are told or published.
LEMMA ItemType ==
    ASSUME CommandInv, items # {}, Mappable(Item)
    PROVE  /\ First \in items /\ First \in received
           /\ Item = offers[First]
           /\ DocumentsOf(Item) \subseteq Documents
           /\ DocumentOf(Item) \in DocumentsOf(Item)
           /\ mode # "search" => DocumentsOf(Item) = {DocumentOf(Item)}
           /\ mode = "search" => /\ NetworkOf(Item) \in DocumentsOf(Item)
                                 /\ DocumentsOf(Item) = {NetworkOf(Item)}
                                        \cup IF emitHosts THEN {HostOf(Item)} ELSE {}
<1> USE DEF CommandInv
<1>1. items \subseteq received /\ received \subseteq DOMAIN offers
  BY DEF TypeOK
<1>2. First \in items /\ First \in received
  BY <1>1, FirstType
<1>3. DocumentsOf(Item) \subseteq Documents
  BY <1>1, <1>2, DocumentsType DEF Item
<1>4. mode = "search" => DocumentOf(Item) = NetworkOf(Item)
  BY <1>2 DEF ReceivedKinds, DocumentOf, IsDict, Item
<1> QED BY <1>2, <1>3, <1>4 DEF Item, DocumentsOf

\* What stays while the command and its offers do.
LEMMA SameDocuments ==
    ASSUME UNCHANGED choice
    PROVE  /\ \A p : (DocumentsOf(offers[p]))' = DocumentsOf(offers[p])
           /\ \A p : (Mappable(offers[p]))' <=> Mappable(offers[p])
           /\ \A p : (HostOf(offers[p]))' = HostOf(offers[p])
           /\ \A p : (DocumentOf(offers[p]))' = DocumentOf(offers[p])
BY DEF choice, DocumentsOf, DocumentOf, NetworkOf, HostOf, Mappable

LEMMA SameItem ==
    ASSUME UNCHANGED choice, UNCHANGED items
    PROVE  /\ UNCHANGED <<First, Item>>
           /\ (Mappable(Item))' <=> Mappable(Item)
           /\ (HostOf(Item))' = HostOf(Item)
           /\ (DocumentOf(Item))' = DocumentOf(Item)
<1>1. UNCHANGED <<First, Item>>
  BY DEF First, Item, choice
<1> QED BY <1>1, SameDocuments DEF Item

LEMMA SameChoice ==
    ASSUME Choice, UNCHANGED choice
    PROVE  Choice'
BY DEF Choice, choice

\* Mailboxes.
LEMMA Appended ==
    ASSUME NEW m \in Seq(Documents), NEW d \in Documents
    PROVE  /\ Append(m, d) \in Seq(Documents) /\ Append(m, d) # <<>>
           /\ Len(Append(m, d)) = Len(m) + 1
           /\ ToSet(Append(m, d)) = ToSet(m) \cup {d}
           /\ m # <<>> => Head(Append(m, d)) = Head(m)
BY AppendProperties, LenProperties DEF ToSet

LEMMA Taken ==
    ASSUME NEW m \in Seq(Documents), m # <<>>
    PROVE  /\ Head(m) \in Documents /\ Tail(m) \in Seq(Documents)
           /\ Len(Tail(m)) = Len(m) - 1 /\ Len(m) \in Nat /\ Len(m) > 0
           /\ ToSet(m) = {Head(m)} \cup ToSet(Tail(m))
<1>1. /\ Head(m) \in Documents /\ Tail(m) \in Seq(Documents)
      /\ Len(Tail(m)) = Len(m) - 1
      /\ \A i \in 1..Len(Tail(m)) : Tail(m)[i] = m[i + 1]
  BY HeadTailProperties
<1>2. Len(m) \in Nat /\ Len(m) > 0 /\ DOMAIN m = 1..Len(m) /\ DOMAIN Tail(m) = 1..(Len(m) - 1)
  BY <1>1, LenProperties, EmptySeq
<1>3. Head(m) = m[1]
  BY <1>2
<1>4. \A i \in 1..Len(m) : i = 1 \/ (i - 1 \in 1..(Len(m) - 1) /\ m[i] = Tail(m)[i - 1])
  BY <1>1, <1>2
<1>5. \A i \in 1..(Len(m) - 1) : i + 1 \in 1..Len(m) /\ Tail(m)[i] = m[i + 1]
  BY <1>1, <1>2
<1>6. /\ ToSet(m) = {m[i] : i \in 1..Len(m)}
      /\ ToSet(Tail(m)) = {Tail(m)[i] : i \in 1..(Len(m) - 1)}
  BY <1>2 DEF ToSet
<1>7. ToSet(m) \subseteq {Head(m)} \cup ToSet(Tail(m))
  BY <1>3, <1>4, <1>6
<1>8. {Head(m)} \cup ToSet(Tail(m)) \subseteq ToSet(m)
  <2>1. 1 \in 1..Len(m)
    BY <1>2
  <2> QED BY <1>3, <1>5, <1>6, <2>1
<1>9. ToSet(m) = {Head(m)} \cup ToSet(Tail(m))
  BY <1>7, <1>8
<1> QED BY <1>1, <1>2, <1>9

-----------------------------------------------------------------------------
(* The publisher inside the command. *)

\* Every step of the command is one of its publisher, or none of its business.
LEMMA StepIsPublishers ==
    ASSUME CommandInv, [Next]_vars
    PROVE  [PublisherNext]_publisherVars
<1> USE DEF CommandInv
<1>1. CASE Client
  BY <1>1 DEF Client, Request, RequestFails, PageDone, Exhausted, Detail
<1>2. CASE Search
  BY <1>2 DEF Search, NextResult, TellHost, TellNetwork, WaitForSpace, SearchEnds
<1>3. CASE Sink
  <2>1. CASE Handle
    <3>1. PICK d \in Documents : d = Head(mail)
      BY <2>1, Taken DEF Handle, TypeOK
    <3> QED BY <2>1, <3>1 DEF Handle, PublisherNext
  <2>2. CASE Handled
    BY <2>2 DEF Handled, PublisherNext
  <2> QED BY <1>3, <2>1, <2>2 DEF Sink
<1>4. CASE Publisher \/ Broker
  BY <1>4 DEF Publisher, Broker, PublisherNext
<1>5. CASE Main
  <2>1. CASE PublishDirectly
    <3>1. PICK d \in Documents : d = DocumentOf(Item)
      BY <2>1, ItemType DEF PublishDirectly
    <3> QED BY <2>1, <3>1 DEF PublishDirectly, Item, PublisherNext
  <2>2. CASE ~PublishDirectly
    BY <1>5, <2>2 DEF Main, Begin, Announce, AnnounceFails, JoinWigle, JoinSink, StopWigle, StopSink,
                      Published, Aborted, DirectEnds, ClosePublisher, CloseFails, PublisherNext
  <2> QED BY <2>1, <2>2
<1>6. CASE Interrupt \/ UNCHANGED vars
  BY <1>6 DEF Interrupt, vars
<1> QED BY <1>1, <1>2, <1>3, <1>4, <1>5, <1>6 DEF Next

LEMMA ReturnedStep ==
    ASSUME PublisherInv, ReturnedIsTaken, [PublisherNext]_publisherVars
    PROVE  ReturnedIsTaken'
<1> USE DEF ReturnedIsTaken, link
<1>1. ASSUME NEW d \in Documents, Publish(d) PROVE ReturnedIsTaken'
  BY <1>1 DEF Publish
<1>2. CASE Collect \/ Connect \/ OpenChannel \/ DeclareExchange \/ ConfirmDelivery
  BY <1>2 DEF Collect, Connect, OpenChannel, DeclareExchange, ConfirmDelivery
<1>3. CASE Confirmed
  <2>1. channel = "confirming"
    BY <1>3 DEF Confirmed, PublisherInv, SentInConfirmMode
  <2>2. SinkTakes(1)
    BY <1>3, <2>1 DEF Confirmed
  <2> QED BY <1>3, <2>2 DEF Confirmed, SinkTakes
<1>4. CASE AttemptFails \/ Unroutable \/ WriteFails
  BY <1>4 DEF AttemptFails, Unroutable, WriteFails
<1>5. CASE WriteLine
  BY <1>5 DEF WriteLine, SinkTakes
<1>6. CASE ConnectionDrops \/ ChannelDrops \/ Close \/ UNCHANGED publisherVars
  BY <1>6 DEF ConnectionDrops, ChannelDrops, Close, publisherVars
<1> QED BY <1>1, <1>2, <1>3, <1>4, <1>5, <1>6 DEF PublisherNext, Exchange

\* A call under way keeps its document, and the sink loses none.
LEMMA ExchangeKeeps ==
    ASSUME Exchange
    PROVE  /\ step # "idle" /\ step' # "idle" /\ call' = call
           /\ taken \subseteq taken' /\ flushed' = flushed /\ offline' = offline
<1>1. CASE Connect \/ OpenChannel \/ DeclareExchange \/ ConfirmDelivery \/ Unroutable \/ WriteFails
  BY <1>1 DEF Connect, OpenChannel, DeclareExchange, ConfirmDelivery, Unroutable, WriteFails
<1>2. CASE Confirmed \/ AttemptFails \/ WriteLine
  BY <1>2 DEF Confirmed, AttemptFails, WriteLine, SinkTakes, Trying
<1> QED BY <1>1, <1>2 DEF Exchange

LEMMA PublisherGrows ==
    ASSUME CommandInv, [Next]_vars
    PROVE  taken \subseteq taken'
<1>1. [PublisherNext]_publisherVars
  BY StepIsPublishers
<1> QED BY <1>1, ExchangeKeeps DEF PublisherNext, Publish, Collect, ConnectionDrops, ChannelDrops,
                                  Close, publisherVars

-----------------------------------------------------------------------------
(* The steps of the command keep the invariant, one part at a time. *)

\* The sum of multiples of a page's size is one.
LEMMA NextMultiple ==
    ASSUME NEW n \in Nat, n % PageSize = 0
    PROVE  (n + PageSize) % PageSize = 0
<1>1. PageSize \in Nat \ {0}
  BY CommandAssumption
<1> DEFINE q == n \div PageSize
<1>2. q \in Int /\ n = PageSize * q
  BY <1>1
<1> HIDE DEF q
<1>3. n + PageSize = PageSize * (q + 1)
  BY <1>1, <1>2
<1>4. (PageSize * (q + 1)) % PageSize = 0
  BY <1>1, <1>2
<1> QED BY <1>3, <1>4

\* Where the next page starts and ends.
LEMMA PageTypes ==
    ASSUME TypeOK, Choice
    PROVE  /\ after \in 0..Len(offers) /\ last \in 0..Len(offers) /\ upto \in 0..Len(offers)
           /\ Len(offers) \in Nat /\ DOMAIN offers = 1..Len(offers)
           /\ Start \in {after, last}
           /\ PageEnd \in Start..Len(offers) /\ PageEnd - Start <= PageSize
           /\ PageEnd - Start < PageSize => PageEnd = Len(offers)
<1>1. after \in 0..Len(offers) /\ last \in 0..Len(offers) /\ upto \in 0..Len(offers)
  BY DEF TypeOK
<1>2. Len(offers) \in Nat /\ DOMAIN offers = 1..Len(offers)
  BY OffersType
<1>3. PageSize \in Nat /\ PageSize > 0
  BY CommandAssumption
<1>4. Start \in {after, last}
  BY DEF Start
<1>5. Start \in 0..Len(offers)
  BY <1>1, <1>4
<1>6. /\ PageEnd \in Start..Len(offers) /\ PageEnd - Start <= PageSize
      /\ PageEnd - Start < PageSize => PageEnd = Len(offers)
  <2> DEFINE start == Start
             length == Len(offers)
  <2>1. PageEnd = IF start + PageSize < length THEN start + PageSize ELSE length
    BY DEF PageEnd
  <2>2. start \in 0..length /\ length \in Nat
    BY <1>2, <1>5
  <2> HIDE DEF start, length
  <2>3. /\ PageEnd \in start..length /\ PageEnd - start <= PageSize
        /\ PageEnd - start < PageSize => PageEnd = length
    BY <1>3, <2>1, <2>2
  <2> QED BY <2>3 DEF start, length
<1> QED BY <1>1, <1>2, <1>4, <1>6

LEMMA ChoiceKept ==
    ASSUME [Next]_vars
    PROVE  UNCHANGED choice
<1>1. CASE Client \/ Search
  BY <1>1 DEF Client, Request, RequestFails, PageDone, Exhausted, Detail, Search, NextResult,
              TellHost, TellNetwork, WaitForSpace, SearchEnds
<1>2. CASE Sink \/ Publisher \/ Broker \/ Interrupt \/ UNCHANGED vars
  BY <1>2 DEF Sink, Handle, Handled, Publisher, Broker, Interrupt, vars
<1>3. CASE Main
  BY <1>3 DEF Main, Begin, Announce, AnnounceFails, JoinWigle, JoinSink, StopWigle, StopSink,
              PublishDirectly, Published, Aborted, DirectEnds, ClosePublisher, CloseFails
<1> QED BY <1>1, <1>2, <1>3 DEF Next

\* TypeOK by what changes together.
RunTypes ==
    /\ main \in {"start", "announce", "join wigle", "join sink", "stop wigle", "stop sink",
                 "direct", "close", "done"}
    /\ exit \in {"ok", "failed"}
    /\ actor \in {"idle", "search", "host", "network"}

FlagTypes ==
    /\ waiting \in BOOLEAN /\ failed \in BOOLEAN
    /\ waiting => actor \in {"host", "network"}

ClientTypes ==
    /\ warned \in BOOLEAN
    /\ fetch \in {"off", "request", "items", "over", "raised"}
    /\ page \in 0..(IF mode = "detail" THEN 1 ELSE MaxPages)
    /\ after \in 0..Len(offers) /\ last \in 0..Len(offers) /\ upto \in 0..Len(offers)
    /\ turn \in {"end", "cursor", "netid"}
    /\ received \subseteq DOMAIN offers
    /\ items \subseteq received

MailType == mail \in Seq(Documents) /\ Len(mail) <= Capacity

LEMMA TypeParts ==
    TypeOK <=> /\ PublisherTypeOK
               /\ mode \in Modes /\ emitHosts \in BOOLEAN /\ announce \in BOOLEAN
               /\ RunTypes /\ FlagTypes /\ ClientTypes /\ MailType
BY DEF TypeOK, RunTypes, FlagTypes, ClientTypes, MailType

\* A step of the client keeps the types of its variables.
LEMMA ClientStep ==
    ASSUME CommandInv, Client
    PROVE  ClientTypes'
<1> USE DEF CommandInv, ClientTypes, choice
<1>1. ClientTypes /\ Len(offers) \in Nat /\ DOMAIN offers = 1..Len(offers)
  BY TypeParts, OffersType
<1>2. CASE Request
  <2>1. UNCHANGED <<mode, offers, warned, after, last>> /\ mode # "detail" /\ fetch' = "items"
    BY <1>2 DEF Request
  <2>2. page' \in 0..MaxPages
    BY <1>1, <1>2, CommandAssumption DEF Request
  <2>3. items' \subseteq DOMAIN offers /\ PageEnd \in 0..Len(offers)
    BY <1>1, <1>2, PageTypes DEF Request
  <2>4. turn' \in {"end", "cursor", "netid"}
    BY <1>2 DEF Request
  <2>5. received' = received \cup items' /\ upto' = PageEnd
    BY <1>2 DEF Request
  <2> QED BY <1>1, <2>1, <2>2, <2>3, <2>4, <2>5
<1>3. CASE RequestFails \/ PageDone \/ Exhausted
  BY <1>1, <1>3 DEF RequestFails, PageDone, Exhausted
<1>4. CASE Detail
  <2>1. UNCHANGED <<mode, offers, warned, after, last, upto, turn>> /\ mode = "detail"
    BY <1>4 DEF Detail
  <2>2. CASE UNCHANGED page
    BY <1>1, <1>4, <2>1, <2>2 DEF Detail
  <2>3. CASE page = 0 /\ page' = 1 /\ UNCHANGED <<items, received, fetch>>
    BY <1>1, <2>1, <2>3
  <2> QED BY <1>4, <2>2, <2>3 DEF Detail
<1> QED BY <1>2, <1>3, <1>4 DEF Client

\* So do the others, which take items away.
LEMMA OthersStep ==
    ASSUME CommandInv, [Next]_vars, ~Client
    PROVE  ClientTypes'
<1> USE DEF CommandInv
<1>1. ClientTypes /\ UNCHANGED <<mode, offers>>
  BY TypeParts, ChoiceKept DEF choice
<1>2. CASE UNCHANGED client
  BY <1>1, <1>2 DEF ClientTypes, client
<1>3. CASE Search
  BY <1>1, <1>2, <1>3 DEF Search, NextResult, TellHost, TellNetwork, WaitForSpace, SearchEnds,
                          ClientTypes
<1>4. CASE Main
  <2>1. CASE Begin
    BY <1>1, <2>1 DEF Begin, ClientTypes
  <2>2. CASE Announce \/ Published
    BY <1>1, <2>2 DEF Announce, Published, ClientTypes
  <2> QED BY <1>2, <1>4, <2>1, <2>2
             DEF Main, AnnounceFails, JoinWigle, JoinSink, StopWigle, StopSink, PublishDirectly,
                 Aborted, DirectEnds, ClosePublisher, CloseFails
<1> QED BY <1>2, <1>3, <1>4
           DEF Next, Sink, Handle, Handled, Publisher, Broker, Interrupt, vars

\* The command and the actor.
LEMMA RunStep ==
    ASSUME CommandInv, [Next]_vars
    PROVE  RunTypes'
<1> USE DEF CommandInv, command, wigle, RunTypes
<1>1. RunTypes
  BY TypeParts
<1>2. CASE Client \/ Publisher \/ Broker \/ UNCHANGED vars
  BY <1>1, <1>2 DEF Client, Request, RequestFails, PageDone, Exhausted, Detail, Publisher, Broker,
                    vars
<1>3. CASE Search
  BY <1>1, <1>3 DEF Search, NextResult, TellHost, TellNetwork, WaitForSpace, SearchEnds
<1>4. CASE Sink
  BY <1>1, <1>4 DEF Sink, Handle, Handled
<1>5. CASE Main \/ Interrupt
  <2>1. CASE Begin
    <3>1. main' \in {"direct", "announce", "join wigle"}
      BY <2>1 DEF Begin
    <3> QED BY <1>1, <2>1, <3>1 DEF Begin
  <2>2. CASE Announce \/ AnnounceFails \/ JoinWigle \/ JoinSink \/ StopWigle \/ StopSink
    BY <1>1, <2>2 DEF Announce, AnnounceFails, JoinWigle, JoinSink, StopWigle, StopSink
  <2>3. CASE PublishDirectly \/ Published
    BY <1>1, <2>3 DEF PublishDirectly, Published
  <2>4. CASE Aborted \/ DirectEnds \/ ClosePublisher \/ CloseFails \/ Interrupt
    BY <1>1, <2>4 DEF Aborted, DirectEnds, ClosePublisher, CloseFails, Interrupt
  <2> QED BY <1>5, <2>1, <2>2, <2>3, <2>4 DEF Main
<1> QED BY <1>2, <1>3, <1>4, <1>5 DEF Next

\* Only a search that tells waits.
LEMMA FlagStep ==
    ASSUME CommandInv, [Next]_vars
    PROVE  FlagTypes'
<1> USE DEF CommandInv, command, wigle, FlagTypes
<1>1. FlagTypes
  BY TypeParts
<1>2. CASE UNCHANGED <<wigle, failed>>
  BY <1>1, <1>2
<1>3. CASE Search
  <2>1. CASE NextResult \/ SearchEnds
    <3>1. ~waiting' /\ waiting' \in BOOLEAN
      BY <1>1, <2>1 DEF NextResult, SearchEnds
    <3>2. failed' \in BOOLEAN
      BY <1>1, <2>1 DEF NextResult, SearchEnds
    <3> QED BY <3>1, <3>2
  <2>2. CASE TellHost \/ TellNetwork \/ WaitForSpace
    BY <1>1, <2>2 DEF TellHost, TellNetwork, WaitForSpace
  <2> QED BY <1>3, <2>1, <2>2 DEF Search
<1>4. CASE Handled
  BY <1>1, <1>4 DEF Handled
<1>5. CASE Begin \/ Announce
  <2>1. actor = "idle"
    BY <1>5 DEF Begin, Announce, SearchFlow, DirectFlow
  <2>2. ~waiting /\ UNCHANGED <<waiting, failed>>
    BY <1>1, <1>5, <2>1 DEF Begin, Announce
  <2> QED BY <1>1, <2>2
<1>6. CASE Client \/ Publisher \/ Broker \/ Interrupt \/ UNCHANGED vars
  BY <1>2, <1>6 DEF Client, Request, RequestFails, PageDone, Exhausted, Detail, Publisher, Broker,
                    Interrupt, vars
<1>7. CASE Main
  BY <1>2, <1>5, <1>7 DEF Main, AnnounceFails, JoinWigle, JoinSink, StopWigle, StopSink,
                          PublishDirectly, Published, Aborted, DirectEnds, ClosePublisher, CloseFails
<1> QED BY <1>2, <1>3, <1>4, <1>6, <1>7 DEF Next, Sink, Handle

\* What is told is a document, of an item that has one.
LEMMA Told ==
    ASSUME CommandInv, TellHost \/ TellNetwork
    PROVE  /\ mode = "search" /\ items # {} /\ Mappable(Item) /\ fetch = "items"
           /\ mail' \in Seq(Documents) /\ mail' # <<>> /\ Len(mail') = Len(mail) + 1
           /\ mail # <<>> => Head(mail') = Head(mail)
           /\ ToSet(mail) \subseteq ToSet(mail')
           /\ TellHost => emitHosts /\ HostOf(Item) \in ToSet(mail')
           /\ TellNetwork => NetworkOf(Item) \in ToSet(mail')
<1> USE DEF CommandInv
<1>1. mode = "search" /\ items # {} /\ Mappable(Item) /\ fetch = "items"
      /\ (actor = "host" => emitHosts)
  BY DEF TellHost, TellNetwork, SearchFlow, DirectFlow
<1>2. mail \in Seq(Documents)
  BY DEF TypeOK
<1>3. NetworkOf(Item) \in Documents /\ (emitHosts => HostOf(Item) \in Documents)
  BY <1>1, ItemType
<1>4. TellHost => emitHosts /\ mail' = Append(mail, HostOf(Item))
  BY <1>1 DEF TellHost
<1>5. TellNetwork => mail' = Append(mail, NetworkOf(Item))
  BY DEF TellNetwork
<1>6. PICK d \in Documents : mail' = Append(mail, d) /\ (TellHost => d = HostOf(Item))
                             /\ (TellNetwork => d = NetworkOf(Item))
  <2>1. ~(TellHost /\ TellNetwork)
    BY DEF TellHost, TellNetwork
  <2> QED BY <1>3, <1>4, <1>5, <2>1
<1>7. /\ Append(mail, d) \in Seq(Documents) /\ Append(mail, d) # <<>>
      /\ Len(Append(mail, d)) = Len(mail) + 1
      /\ ToSet(Append(mail, d)) = ToSet(mail) \cup {d}
      /\ mail # <<>> => Head(Append(mail, d)) = Head(mail)
  BY <1>2, Appended
<1> QED BY <1>1, <1>4, <1>6, <1>7

\* The mailbox of the sink.
LEMMA MailStep ==
    ASSUME CommandInv, [Next]_vars
    PROVE  MailType'
<1> USE DEF CommandInv, MailType
<1>1. MailType /\ Capacity \in Nat /\ Len(mail) \in Nat
  BY TypeParts, CommandAssumption, LenProperties
<1>2. CASE UNCHANGED mail
  BY <1>1, <1>2
<1>3. CASE TellHost \/ TellNetwork
  <2>1. Len(mail) < Capacity
    BY <1>3 DEF TellHost, TellNetwork
  <2>2. mail' \in Seq(Documents) /\ Len(mail') = Len(mail) + 1
    BY <1>3, Told
  <2> QED BY <1>1, <2>1, <2>2
<1>4. CASE Handled
  <2>1. mail # <<>> /\ mail' = Tail(mail)
    BY <1>4 DEF Handled
  <2>2. Tail(mail) \in Seq(Documents) /\ Len(Tail(mail)) = Len(mail) - 1
    BY <1>1, <2>1, Taken
  <2> QED BY <1>1, <2>1, <2>2
<1>5. CASE Client \/ Publisher \/ Broker \/ Interrupt \/ UNCHANGED vars
  BY <1>2, <1>5 DEF Client, Request, RequestFails, PageDone, Exhausted, Detail, Publisher, Broker,
                    Interrupt, vars
<1>6. CASE Main
  BY <1>2, <1>6 DEF Main, Begin, Announce, AnnounceFails, JoinWigle, JoinSink, StopWigle, StopSink,
                    PublishDirectly, Published, Aborted, DirectEnds, ClosePublisher, CloseFails
<1> QED BY <1>2, <1>3, <1>4, <1>5, <1>6
           DEF Next, Search, NextResult, WaitForSpace, SearchEnds, Sink, Handle

LEMMA TypeStep ==
    ASSUME CommandInv, [Next]_vars
    PROVE  TypeOK'
<1>1. PublisherTypeOK'
  BY StepIsPublishers, PublisherNextInv DEF PublisherInv, CommandInv
<1>2. mode' \in Modes /\ emitHosts' \in BOOLEAN /\ announce' \in BOOLEAN
  BY ChoiceKept DEF choice, CommandInv, TypeOK
<1>3. ClientTypes'
  BY ClientStep, OthersStep
<1>4. RunTypes' /\ FlagTypes' /\ MailType'
  BY RunStep, FlagStep, MailStep
<1> QED BY <1>1, <1>2, <1>3, <1>4 DEF TypeOK, RunTypes, FlagTypes, ClientTypes, MailType

\* Nobody but the client pages, and nobody else adds an item of a command that
\* has begun.
LEMMA OthersKeepPages ==
    ASSUME [Next]_vars, ~Client
    PROVE  /\ UNCHANGED <<warned, after, last, upto, turn>>
           /\ \/ Begin \/ Announce
              \/ UNCHANGED received /\ items' \subseteq items /\ fetch' \in {fetch, "off"}
<1> USE DEF client
<1>1. CASE UNCHANGED client
  BY <1>1
<1>2. CASE Search
  BY <1>1, <1>2 DEF Search, NextResult, TellHost, TellNetwork, WaitForSpace, SearchEnds
<1>3. CASE Main
  BY <1>1, <1>3 DEF Main, Begin, Announce, AnnounceFails, JoinWigle, JoinSink, StopWigle, StopSink,
                    PublishDirectly, Published, Aborted, DirectEnds, ClosePublisher, CloseFails
<1> QED BY <1>1, <1>2, <1>3
           DEF Next, Sink, Handle, Handled, Publisher, Broker, Interrupt, vars

\* A command that begins has nothing behind it.
LEMMA Beginning ==
    ASSUME CommandInv, Begin \/ Announce
    PROVE  /\ received = {} /\ items = {} /\ fetch = "off" /\ actor = "idle" /\ mail = <<>>
           /\ mode # "manifests" => items' = {} /\ received' = {} /\ fetch' \in {"off", "request"}
           /\ mode = "manifests" => fetch' = "items"
           /\ mode = "search" => \/ main' = "announce" /\ actor' = "idle" /\ fetch' = "off"
                                 \/ main' = "join wigle" /\ actor' = "search" /\ fetch' = "request"
           /\ mode # "search" => main' = "direct" /\ actor' = "idle"
<1> USE DEF CommandInv
<1>1. received = {} /\ fetch = "off" /\ actor = "idle" /\ mail = <<>>
  BY DEF Begin, Announce, SearchFlow, DirectFlow
<1>2. items = {}
  BY <1>1 DEF TypeOK
<1>3. CASE Begin
  <2>1. mode \in {"search", "bluetooth", "detail", "manifests"} /\ announce \in BOOLEAN
    BY CommandAssumption DEF TypeOK
  <2> QED BY <1>1, <1>2, <1>3, <2>1 DEF Begin, Choice
<1>4. CASE Announce
  <2>1. mode = "search"
    BY <1>4 DEF Announce, DirectFlow
  <2> QED BY <1>1, <1>2, <1>4, <2>1 DEF Announce
<1> QED BY <1>3, <1>4

LEMMA KindsStep ==
    ASSUME CommandInv, [Next]_vars
    PROVE  ReceivedKinds'
<1> USE DEF CommandInv, ReceivedKinds
<1>1. UNCHANGED <<mode, offers>> /\ ReceivedKinds
  BY ChoiceKept DEF choice
<1>2. CASE Client
  <2>1. CASE Request
    BY <1>1, <2>1 DEF Request, IsDict
  <2>2. CASE Detail
    BY <1>1, <2>2 DEF Detail, HasTruthyNetid, IsDict
  <2> QED BY <1>1, <1>2, <2>1, <2>2 DEF Client, RequestFails, PageDone, Exhausted, IsDict
<1>3. CASE Begin \/ Announce
  BY <1>1, <1>3, Beginning
<1>4. CASE ~Client /\ UNCHANGED received
  BY <1>1, <1>4 DEF IsDict
<1> QED BY <1>2, <1>3, <1>4, OthersKeepPages

LEMMA FetchingStep ==
    ASSUME CommandInv, [Next]_vars
    PROVE  Fetching'
<1> USE DEF CommandInv, Fetching
<1>1. CASE Client
  BY <1>1 DEF Client, Request, RequestFails, PageDone, Exhausted, Detail
<1>2. CASE Begin \/ Announce
  BY <1>2, Beginning
<1>3. CASE ~Client /\ items' \subseteq items /\ fetch' \in {fetch, "off"}
  BY <1>3
<1> QED BY <1>1, <1>2, <1>3, OthersKeepPages

\* A page that arrives goes on where the ones before it ended.
LEMMA RequestPages ==
    ASSUME CommandInv, Request, mode \in {"search", "bluetooth"}
    PROVE  Paging'
<1> USE DEF CommandInv
<1>1. UNCHANGED <<mode, offers, warned, after, last>> /\ received' = received \cup items'
      /\ upto' = PageEnd /\ fetch' = "items"
      /\ items' = {p \in (Start + 1)..PageEnd : IsDict(offers[p])}
  BY DEF Request, choice
<1>2. /\ after \in Nat /\ last \in Nat /\ Start \in {after, last}
      /\ Len(offers) \in Nat /\ PageSize \in Nat \ {0}
      /\ PageEnd \in Start..Len(offers) /\ PageEnd - Start <= PageSize
      /\ PageEnd - Start < PageSize => PageEnd = Len(offers)
  BY PageTypes, CommandAssumption
<1>3. Covered(after) /\ Covered(last) /\ after % PageSize = 0 /\ last % PageSize = 0
  BY DEF Paging
<1>4. Start \in Nat /\ Covered(Start) /\ Start % PageSize = 0
  BY <1>2, <1>3
<1>5. PageEnd - Start = PageSize => PageEnd = Start + PageSize
  BY <1>2, <1>4
<1>6. (Start + PageSize) % PageSize = 0
  BY <1>4, NextMultiple
<1>7. Covered(after)' /\ Covered(last)'
  BY <1>1, <1>3 DEF Covered, IsDict
<1>8. Covered(upto)'
  <2>1. ASSUME NEW p \in 1..PageEnd, IsDict(offers[p])
        PROVE  p \in received'
    <3>1. CASE p \in 1..Start
      BY <1>1, <1>4, <2>1, <3>1 DEF Covered
    <3>2. CASE p \in (Start + 1)..PageEnd
      BY <1>1, <2>1, <3>2
    <3> QED BY <1>2, <1>4, <2>1, <3>1, <3>2
  <2> QED BY <1>1, <2>1 DEF Covered, IsDict
<1>9. (turn' # "end" => upto' % PageSize = 0) /\ (turn' = "end" => Ended')
  <2>1. CASE PageEnd - Start < PageSize /\ turn' = "end"
    BY <1>1, <1>2, <2>1 DEF Ended
  <2>2. CASE PageEnd - Start = PageSize /\ turn' = "cursor"
    BY <1>1, <1>5, <1>6, <2>2
  <2>3. CASE /\ PageEnd - Start = PageSize
             /\ turn' = IF HasStringNetid(offers[PageEnd]) THEN "netid" ELSE "end"
    <3>1. upto' % PageSize = 0 /\ PageEnd \in 1..Len(offers)
      BY <1>1, <1>2, <1>4, <1>5, <1>6, <2>3
    <3> QED BY <1>1, <2>3, <3>1 DEF Ended, HasStringNetid, IsDict
  <2> QED BY <2>1, <2>2, <2>3 DEF Request
<1> QED BY <1>1, <1>3, <1>7, <1>8, <1>9 DEF Paging

LEMMA PagingStep ==
    ASSUME CommandInv, [Next]_vars
    PROVE  Paging'
<1> USE DEF CommandInv
<1>1. UNCHANGED <<mode, offers>> /\ Paging
  BY ChoiceKept DEF choice
<1>2. SUFFICES ASSUME mode \in {"search", "bluetooth"} PROVE Paging'
  BY <1>1 DEF Paging
<1>3. CASE Client
  <2>1. CASE Request
    BY <1>2, <2>1, RequestPages
  <2>2. CASE RequestFails \/ Exhausted
    BY <1>1, <1>2, <2>2
       DEF RequestFails, Exhausted, Paging, Covered, Ended, HasStringNetid, IsDict
  <2>3. CASE PageDone
    BY <1>1, <1>2, <2>3 DEF PageDone, Paging, Covered, Ended, HasStringNetid, IsDict
  <2> QED BY <1>2, <1>3, <2>1, <2>2, <2>3 DEF Client, Detail
<1>4. CASE ~Client
  <2>1. UNCHANGED <<warned, after, last, upto, turn, received>> /\ fetch' \in {fetch, "off", "request"}
    BY <1>2, <1>4, OthersKeepPages, Beginning
  <2> QED BY <1>1, <1>2, <2>1 DEF Paging, Covered, Ended, HasStringNetid, IsDict
<1> QED BY <1>3, <1>4

LEMMA SearchFlowStep ==
    ASSUME CommandInv, [Next]_vars
    PROVE  SearchFlow'
<1> USE DEF CommandInv, command, wigle, client, Healthy
<1>1. UNCHANGED <<mode, emitHosts, offers>>
  BY ChoiceKept DEF choice
<1>2. SUFFICES ASSUME mode = "search" PROVE SearchFlow'
  BY <1>1 DEF SearchFlow
<1>3. UNCHANGED items => ((Mappable(Item))' <=> Mappable(Item))
  BY SameItem, ChoiceKept
<1>4. UNCHANGED upto => (Ended' <=> Ended)
  BY <1>1 DEF Ended, HasStringNetid, IsDict
<1>5. SearchFlow /\ Fetching /\ (fetch = "over" => warned \/ Ended)
  BY <1>2 DEF Paging
<1> USE DEF SearchFlow
<1>6. CASE Client
  <2>1. /\ UNCHANGED <<command, wigle, mail, failed, publisherVars>> /\ fetch' # "off"
        /\ fetch \in {"request", "items"} /\ actor \notin {"host", "network"}
    BY <1>5, <1>2, <1>6
       DEF Client, Request, RequestFails, PageDone, Exhausted, Detail, Fetching
  <2> QED BY <1>1, <1>2, <1>5, <2>1 DEF publisherVars
<1>7. CASE Search
  <2> USE <1>1, <1>2, <1>3, <1>4, <1>5
  <2>1. CASE NextResult
    BY <2>1 DEF NextResult, publisherVars
  <2>2. CASE TellHost
    BY <2>2, Told DEF TellHost, publisherVars
  <2>3. CASE TellNetwork
    BY <2>3, Told DEF TellNetwork, publisherVars
  <2>4. CASE WaitForSpace
    BY <2>4 DEF WaitForSpace, publisherVars
  <2>5. CASE SearchEnds
    BY <2>5 DEF SearchEnds, publisherVars, Fetching
  <2> QED BY <1>7, <2>1, <2>2, <2>3, <2>4, <2>5 DEF Search
<1>8. CASE Sink \/ Publisher \/ Broker
  <2> USE <1>1, <1>2, <1>3, <1>4, <1>5
  <2>1. UNCHANGED <<main, exit, actor, fetch, items, received, warned, upto>>
    BY <1>8 DEF Sink, Handle, Handled, Publisher, Broker
  <2>2. CASE Handle
    <3>1. step' # "idle" /\ call' = Head(mail) /\ mail # <<>> /\ UNCHANGED <<mail, failed>>
      BY <2>2 DEF Handle, Publish
    <3> QED BY <2>1, <3>1
  <2>3. CASE Handled
    <3>1. step' = "idle" /\ mail # <<>> /\ (~failed' => ~failed)
      BY <2>3 DEF Handled, Collect
    <3> QED BY <2>1, <3>1
  <2>4. CASE Publisher
    <3>1. step # "idle" /\ UNCHANGED <<call, mail, failed>>
      BY <2>4, ExchangeKeeps DEF Publisher
    <3> QED BY <2>1, <3>1
  <2>5. CASE Broker
    <3>1. UNCHANGED <<step, call, mail, failed>>
      BY <2>5 DEF Broker, ConnectionDrops, ChannelDrops
    <3> QED BY <2>1, <3>1
  <2> QED BY <1>8, <2>2, <2>3, <2>4, <2>5 DEF Sink
<1>9. CASE Main \/ Interrupt
  <2> USE <1>1, <1>2, <1>3, <1>4, <1>5
  <2>1. CASE Begin \/ Announce
    <3>1. UNCHANGED <<mail, publisherVars>>
      BY <2>1 DEF Begin, Announce
    <3>2. /\ received' = {} /\ mail = <<>>
          /\ \/ main' = "announce" /\ actor' = "idle" /\ fetch' = "off"
             \/ main' = "join wigle" /\ actor' = "search" /\ fetch' = "request"
      BY <2>1, Beginning
    <3> QED BY <3>1, <3>2 DEF publisherVars
  <2>2. CASE AnnounceFails \/ JoinWigle \/ JoinSink \/ StopWigle \/ StopSink \/ CloseFails \/ Interrupt
    <3>1. UNCHANGED <<client, wigle, mail, failed, publisherVars>>
      BY <2>2 DEF AnnounceFails, JoinWigle, JoinSink, StopWigle, StopSink, CloseFails, Interrupt
    <3>2. UNCHANGED <<actor, fetch, items, received, warned, upto, mail, failed, step, call>>
      BY <3>1 DEF publisherVars
    <3>3. CASE AnnounceFails \/ CloseFails \/ Interrupt
      BY <3>2, <3>3 DEF AnnounceFails, CloseFails, Interrupt
    <3>4. CASE JoinWigle \/ JoinSink
      BY <3>2, <3>4 DEF JoinWigle, JoinSink
    <3>5. CASE StopWigle \/ StopSink
      BY <3>2, <3>5 DEF StopWigle, StopSink
    <3> QED BY <2>2, <3>3, <3>4, <3>5
  <2>3. CASE ClosePublisher
    BY <2>3 DEF ClosePublisher, Close
  <2> QED BY <1>9, <2>1, <2>2, <2>3
             DEF Main, PublishDirectly, Published, Aborted, DirectEnds
<1>10. CASE UNCHANGED vars
  BY <1>1, <1>2, <1>3, <1>4, <1>5, <1>10 DEF vars, publisherVars
<1> QED BY <1>6, <1>7, <1>8, <1>9, <1>10 DEF Next

LEMMA DirectFlowStep ==
    ASSUME CommandInv, [Next]_vars
    PROVE  DirectFlow'
<1> USE DEF CommandInv, command, wigle, client
<1>1. UNCHANGED <<mode, emitHosts, offers>>
  BY ChoiceKept DEF choice
<1>2. SUFFICES ASSUME mode # "search" PROVE DirectFlow'
  BY <1>1 DEF DirectFlow
<1>3. UNCHANGED items => ((Mappable(Item))' <=> Mappable(Item))
                         /\ (DocumentOf(Item))' = DocumentOf(Item)
  BY SameItem, ChoiceKept
<1>4. DirectFlow /\ Fetching
  OBVIOUS
<1> USE DEF DirectFlow
<1>5. CASE Client
  <2>1. UNCHANGED <<main, exit, actor, mail, failed, publisherVars>>
    BY <1>5 DEF Client, Request, RequestFails, PageDone, Exhausted, Detail
  <2>2. fetch = "request" \/ (fetch = "items" /\ items = {})
    BY <1>5 DEF Client, Request, RequestFails, PageDone, Exhausted, Detail
  <2> QED BY <1>1, <1>2, <1>4, <2>1, <2>2 DEF publisherVars
<1>6. CASE Search \/ Sink \/ Interrupt
  BY <1>2, <1>4, <1>6 DEF Search, NextResult, TellHost, TellNetwork, WaitForSpace, SearchEnds,
                          Sink, Handle, Handled, Interrupt
<1>7. CASE Publisher \/ Broker \/ UNCHANGED vars
  <2>1. UNCHANGED <<main, exit, actor, fetch, items, received, mail, failed, call>>
    BY <1>7, ExchangeKeeps DEF Publisher, Broker, ConnectionDrops, ChannelDrops, vars, publisherVars
  <2>2. step # "idle" \/ UNCHANGED step
    BY <1>7, ExchangeKeeps DEF Publisher, Broker, ConnectionDrops, ChannelDrops, vars, publisherVars
  <2> QED BY <1>1, <1>2, <1>3, <1>4, <2>1, <2>2
<1>8. CASE Main
  <2> USE <1>1, <1>2, <1>3, <1>4
  <2>1. CASE Begin
    <3>1. step = "idle" /\ UNCHANGED <<mail, failed, step>>
      BY <2>1 DEF Begin, publisherVars
    <3>2. mail = <<>> /\ main' = "direct" /\ actor' = "idle"
      BY <2>1, Beginning
    <3> QED BY <3>1, <3>2
  <2>2. CASE PublishDirectly
    <3>1. /\ UNCHANGED <<main, exit, actor, fetch, items, received, mail, failed>>
          /\ main = "direct" /\ fetch = "items" /\ items # {} /\ Mappable(Item)
          /\ call' = DocumentOf(Item)
      BY <2>2 DEF PublishDirectly, Publish
    <3> QED BY <3>1
  <2>3. CASE Published
    <3>1. UNCHANGED <<main, actor, mail, failed>> /\ main = "direct" /\ step' = "idle"
      BY <2>3 DEF Published, Collect
    <3> QED BY <3>1
  <2>4. CASE Aborted
    <3>1. UNCHANGED <<actor, mail, failed>> /\ main' \in {"done", "close"} /\ exit' = "failed"
      BY <2>4 DEF Aborted
    <3> QED BY <3>1
  <2>5. CASE DirectEnds
    <3>1. UNCHANGED <<actor, mail, failed, fetch, items, step>> /\ main = "direct" /\ fetch = "over"
          /\ main' = "close"
      BY <2>5 DEF DirectEnds, publisherVars
    <3> QED BY <3>1 DEF Fetching
  <2>6. CASE ClosePublisher \/ CloseFails
    <3>1. UNCHANGED <<actor, mail, failed, fetch, items, step>> /\ main = "close" /\ main' = "done"
          /\ (exit' = "failed" \/ UNCHANGED exit)
      BY <2>6 DEF ClosePublisher, Close, CloseFails, publisherVars
    <3> QED BY <3>1
  <2> QED BY <1>8, <2>1, <2>2, <2>3, <2>4, <2>5, <2>6
             DEF Main, Announce, AnnounceFails, JoinWigle, JoinSink, StopWigle, StopSink
<1> QED BY <1>5, <1>6, <1>7, <1>8 DEF Next

LEMMA ClosedStep ==
    ASSUME CommandInv, [Next]_vars
    PROVE  Closed'
<1> USE DEF CommandInv, command, Closed, publisherVars
<1>1. CASE Client
  BY <1>1 DEF Client, Request, RequestFails, PageDone, Exhausted, Detail
<1>2. CASE Search
  BY <1>2 DEF Search, NextResult, TellHost, TellNetwork, WaitForSpace, SearchEnds
<1>3. CASE Sink
  <2>1. mail # <<>> /\ UNCHANGED <<main, exit>>
    BY <1>3 DEF Sink, Handle, Handled
  <2> QED BY <2>1 DEF SearchFlow, DirectFlow
<1>4. CASE Publisher
  <2>1. step # "idle" /\ UNCHANGED <<main, exit>>
    BY <1>4, ExchangeKeeps DEF Publisher
  <2> QED BY <2>1
<1>5. CASE Broker \/ Interrupt \/ UNCHANGED vars
  BY <1>5 DEF Broker, ConnectionDrops, ChannelDrops, Interrupt, vars
<1>6. CASE Main
  <2>1. CASE ClosePublisher
    BY <2>1 DEF ClosePublisher, Close
  <2>2. CASE Begin
    BY <2>2 DEF Begin
  <2> QED BY <1>6, <2>1, <2>2
             DEF Main, Announce, AnnounceFails, JoinWigle, JoinSink, StopWigle, StopSink,
                 PublishDirectly, Published, Aborted, DirectEnds, CloseFails
<1> QED BY <1>1, <1>2, <1>3, <1>4, <1>5, <1>6 DEF Next

\* A failure stays one.
LEMMA HealthyBefore ==
    ASSUME CommandInv, [Next]_vars, Healthy'
    PROVE  Healthy
<1> USE DEF Healthy, command
<1>1. CASE UNCHANGED <<exit, failed>>
  BY <1>1
<1>2. CASE Client
  BY <1>1, <1>2 DEF Client, Request, RequestFails, PageDone, Exhausted, Detail
<1>3. CASE Search
  BY <1>1, <1>3 DEF Search, NextResult, TellHost, TellNetwork, WaitForSpace, SearchEnds
<1>4. CASE Sink \/ Publisher \/ Broker \/ Interrupt \/ UNCHANGED vars
  BY <1>1, <1>4 DEF Sink, Handle, Handled, Publisher, Broker, Interrupt, vars
<1>5. CASE Main
  BY <1>1, <1>5 DEF Main, Begin, Announce, AnnounceFails, JoinWigle, JoinSink, StopWigle, StopSink,
                    PublishDirectly, Published, Aborted, DirectEnds, ClosePublisher, CloseFails
<1> QED BY <1>2, <1>3, <1>4, <1>5 DEF Next

\* Without a failure, a document leaves the mailbox when its sink has it.
LEMMA ReachedGrows ==
    ASSUME CommandInv, [Next]_vars, Healthy'
    PROVE  Reached \subseteq Reached'
<1> USE DEF CommandInv
<1>1. taken \subseteq taken'
  BY PublisherGrows
<1>2. CASE UNCHANGED mail
  BY <1>1, <1>2 DEF Reached
<1>3. CASE TellHost \/ TellNetwork
  BY <1>1, <1>3, Told DEF Reached
<1>4. CASE Handled
  <2>1. mail \in Seq(Documents) /\ mail # <<>> /\ mail' = Tail(mail)
    BY <1>4 DEF Handled, TypeOK
  <2>2. ToSet(mail) = {Head(mail)} \cup ToSet(Tail(mail))
    BY <2>1, Taken
  <2>3. step \in {"returned", "raised"} /\ step # "raised"
    BY <1>4 DEF Handled, Collect, Healthy
  <2>4. call = Head(mail)
    BY <2>1, <2>3 DEF SearchFlow, DirectFlow
  <2>5. Head(mail) \in taken
    BY <2>3, <2>4 DEF ReturnedIsTaken
  <2> QED BY <1>1, <2>1, <2>2, <2>5 DEF Reached
<1>5. CASE Client \/ Publisher \/ Broker \/ Interrupt \/ UNCHANGED vars
  BY <1>2, <1>5 DEF Client, Request, RequestFails, PageDone, Exhausted, Detail, Publisher, Broker,
                    Interrupt, vars
<1>6. CASE Main
  BY <1>2, <1>6 DEF Main, Begin, Announce, AnnounceFails, JoinWigle, JoinSink, StopWigle, StopSink,
                    PublishDirectly, Published, Aborted, DirectEnds, ClosePublisher, CloseFails
<1> QED BY <1>2, <1>3, <1>4, <1>5, <1>6
           DEF Next, Search, NextResult, WaitForSpace, SearchEnds, Sink, Handle

\* What was on its way stays so, until the sink has it.
LEMMA StillSent ==
    ASSUME CommandInv, [Next]_vars, Healthy', NEW p, Sent(p)
    PROVE  Sent(p)'
<1>1. Reached \subseteq Reached'
  BY ReachedGrows
<1>2. (DocumentsOf(offers[p]))' = DocumentsOf(offers[p]) /\ ((Mappable(offers[p]))' <=> Mappable(offers[p]))
  BY ChoiceKept, SameDocuments
<1> QED BY <1>1, <1>2 DEF Sent

LEMMA DeliveredStep ==
    ASSUME CommandInv, [Next]_vars
    PROVE  Delivered'
<1> USE DEF CommandInv, client, wigle
<1>1. SUFFICES ASSUME Healthy' PROVE Delivered'
  BY DEF Delivered
<1>2. /\ Healthy /\ Reached \subseteq Reached' /\ UNCHANGED emitHosts
      /\ \A p : Sent(p) => Sent(p)'
      /\ \A p \in received : p \in items \/ Sent(p)
      /\ actor = "network" /\ emitHosts => HostOf(Item) \in Reached
  BY <1>1, HealthyBefore, ReachedGrows, StillSent, ChoiceKept DEF Delivered, choice
<1>3. UNCHANGED items => (HostOf(Item))' = HostOf(Item)
  BY SameItem, ChoiceKept
<1>4. CASE UNCHANGED <<received, items>> /\ (actor' = "network" => actor = "network" \/ ~emitHosts)
  BY <1>2, <1>3, <1>4 DEF Delivered
<1>5. CASE Client
  <2>1. CASE Request
    <3>1. items = {} /\ received' = received \cup items' /\ actor' = actor /\ actor # "network"
      BY <2>1 DEF Request, Fetching, SearchFlow, DirectFlow
    <3> QED BY <1>2, <3>1 DEF Delivered
  <2>2. CASE Detail /\ received' = items'
    <3>1. actor' = actor /\ actor # "network"
      BY <2>2 DEF Detail, SearchFlow, DirectFlow
    <3> QED BY <2>2, <3>1 DEF Delivered
  <2> QED BY <1>4, <1>5, <2>1, <2>2 DEF Client, RequestFails, PageDone, Exhausted, Detail
<1>6. CASE TellHost
  <2>1. HostOf(Item) \in Reached' /\ UNCHANGED <<received, items>>
    BY <1>6, Told DEF Reached, TellHost
  <2> QED BY <1>2, <1>3, <2>1 DEF Delivered
<1>7. CASE TellNetwork
  <2>1. /\ mode = "search" /\ items # {} /\ Mappable(Item) /\ NetworkOf(Item) \in Reached'
        /\ items' = items \ {First} /\ actor' = "search" /\ actor = "network"
        /\ UNCHANGED received
    BY <1>7, Told DEF TellNetwork, Reached
  <2>2. /\ Item = offers[First]
        /\ DocumentsOf(Item) = {NetworkOf(Item)} \cup IF emitHosts THEN {HostOf(Item)} ELSE {}
    BY <2>1, ItemType
  <2>3. DocumentsOf(Item) \subseteq Reached'
    BY <1>2, <2>1, <2>2
  <2>4. PICK first : first = First
    OBVIOUS
  <2>5. (DocumentsOf(offers[first]))' = DocumentsOf(offers[first])
        /\ ((Mappable(offers[first]))' <=> Mappable(offers[first]))
    BY ChoiceKept, SameDocuments
  <2>6. Sent(first)'
    BY <2>1, <2>2, <2>3, <2>4, <2>5 DEF Sent
  <2>7. \A p \in received' : p \in items' \/ Sent(p)'
    BY <1>2, <2>1, <2>4, <2>6
  <2> QED BY <2>1, <2>7 DEF Delivered
<1>8. CASE Published
  <2>1. /\ mode # "search" /\ items # {} /\ Mappable(Item) /\ call = DocumentOf(Item)
        /\ step = "returned" /\ taken' = taken
        /\ items' = items \ {First} /\ actor' = actor /\ actor = "idle" /\ UNCHANGED received
    BY <1>8 DEF Published, Collect, SearchFlow, DirectFlow
  <2>2. Item = offers[First] /\ DocumentsOf(Item) = {DocumentOf(Item)}
    BY <2>1, ItemType
  <2>3. DocumentsOf(Item) \subseteq Reached'
    BY <2>1, <2>2 DEF ReturnedIsTaken, Reached
  <2>4. PICK first : first = First
    OBVIOUS
  <2>5. (DocumentsOf(offers[first]))' = DocumentsOf(offers[first])
        /\ ((Mappable(offers[first]))' <=> Mappable(offers[first]))
    BY ChoiceKept, SameDocuments
  <2>6. Sent(first)'
    BY <2>1, <2>2, <2>3, <2>4, <2>5 DEF Sent
  <2>7. \A p \in received' : p \in items' \/ Sent(p)'
    BY <1>2, <2>1, <2>4, <2>6
  <2> QED BY <2>1, <2>7 DEF Delivered
<1>9. CASE Begin \/ Announce
  <2>1. received' = items'
    BY <1>9, Beginning DEF Begin, Announce
  <2>2. actor' # "network"
    BY <1>9, Beginning
  <2> QED BY <2>1, <2>2 DEF Delivered
<1>10. CASE NextResult \/ WaitForSpace \/ SearchEnds
  BY <1>4, <1>10 DEF NextResult, WaitForSpace, SearchEnds
<1>11. CASE Sink \/ Publisher \/ Broker \/ Interrupt \/ UNCHANGED vars
  BY <1>4, <1>11 DEF Sink, Handle, Handled, Publisher, Broker, Interrupt, vars
<1>12. CASE Main
  BY <1>4, <1>8, <1>9, <1>12
     DEF Main, AnnounceFails, JoinWigle, JoinSink, StopWigle, StopSink, PublishDirectly, Aborted,
         DirectEnds, ClosePublisher, CloseFails
<1> QED BY <1>5, <1>6, <1>7, <1>10, <1>11, <1>12 DEF Next, Search

-----------------------------------------------------------------------------
(* The theorems. *)

LEMMA CommandInitInv == Init => CommandInv
<1> SUFFICES ASSUME Init PROVE CommandInv
  OBVIOUS
<1>1. PublisherInv /\ ReturnedIsTaken
  BY PublisherInitInv DEF Init, PublisherInit, ReturnedIsTaken
<1>2. Choice /\ mode \in Modes /\ emitHosts \in BOOLEAN /\ announce \in BOOLEAN
  BY DEF Init, Choice
<1>3. Len(offers) \in Nat
  BY <1>2, OffersType
<1>4. RunTypes /\ FlagTypes
  BY DEF Init, RunTypes, FlagTypes
<1>5. ClientTypes
  <2>1. MaxPages \in Nat /\ 0 \in 0..(IF mode = "detail" THEN 1 ELSE MaxPages)
    BY CommandAssumption
  <2>2. /\ warned = FALSE /\ fetch = "off" /\ page = 0 /\ after = 0 /\ last = 0
        /\ items = {} /\ upto = 0 /\ turn = "end" /\ received = {}
    BY DEF Init
  <2>3. 0 \in 0..Len(offers)
    BY <1>3
  <2>4. page \in 0..(IF mode = "detail" THEN 1 ELSE MaxPages)
    BY <2>1, <2>2
  <2> HIDE DEF Init
  <2> QED BY <2>2, <2>3, <2>4 DEF ClientTypes
<1>6. MailType
  BY CommandAssumption DEF Init, MailType
<1>7. TypeOK
  BY <1>1, <1>2, <1>4, <1>5, <1>6, TypeParts DEF PublisherInv
<1>8. ReceivedKinds /\ Fetching /\ Delivered
  BY DEF Init, ReceivedKinds, Fetching, Delivered
<1>9. Paging
  BY CommandAssumption DEF Init, Paging, Covered
<1>10. SearchFlow /\ DirectFlow /\ Closed
  BY DEF Init, PublisherInit, SearchFlow, DirectFlow, Closed
<1> QED BY <1>1, <1>2, <1>7, <1>8, <1>9, <1>10 DEF CommandInv

LEMMA CommandNextInv == CommandInv /\ [Next]_vars => CommandInv'
<1> SUFFICES ASSUME CommandInv, [Next]_vars PROVE CommandInv'
  OBVIOUS
<1>1. PublisherInv' /\ ReturnedIsTaken'
  BY StepIsPublishers, PublisherNextInv, ReturnedStep DEF CommandInv
<1>2. TypeOK' /\ Choice'
  BY TypeStep, SameChoice, ChoiceKept DEF CommandInv
<1> QED BY <1>1, <1>2, KindsStep, FetchingStep, PagingStep, SearchFlowStep, DirectFlowStep,
           ClosedStep, DeliveredStep DEF CommandInv

LEMMA CommandInvariant == Spec => []CommandInv
BY CommandInitInv, CommandNextInv, PTL DEF Spec

\* Every variable of a command keeps its type: the mailbox its bound, and what
\* is to be yielded is a part of what was received.
THEOREM CommandTypeCorrect == Spec => []TypeOK
<1>1. CommandInv => TypeOK
  BY DEF CommandInv
<1> QED BY <1>1, CommandInvariant, PTL

\* A result with a netid that network_document takes has one the next page
\* can start from.
LEMMA NetidIsString ==
    ASSUME NEW r, HasNetid(r)
    PROVE  Get(r, "netid")[1] \in StringTags /\ r.netid # Empty
<1> DEFINE value == Get(r, "netid")
<1>1. NormalMac(value) # Empty
  BY DEF HasNetid
<1>2. value[1] \in StringTags
  BY <1>1 DEF NormalMac, StringTags
<1>3. value # Empty
  <2>1. Empty[1] = "str"
    BY DEF Empty
  <2>2. NormalMac(Empty) = Empty
    BY <2>1 DEF NormalMac, StringTags
  <2> QED BY <1>1, <2>2
<1>4. value = r.netid
  BY <1>2 DEF Get, None, StringTags
<1> QED BY <1>2, <1>3, <1>4

\* At an exit that reports no failure everything was yielded and is at the sink.
LEMMA AtCleanExit ==
    ASSUME CommandInv, main = "done", exit = "ok"
    PROVE  /\ items = {}
           /\ \A p \in received : Mappable(offers[p]) /\ DocumentsOf(offers[p]) \subseteq Stored
           /\ mode = "search" => warned \/ Ended
           /\ mode # "search" => fetch = "over"
<1> USE DEF CommandInv
<1>1. /\ mail = <<>> /\ ~failed /\ items = {}
      /\ mode = "search" => warned \/ Ended
      /\ mode # "search" => fetch = "over"
  BY DEF SearchFlow, DirectFlow, Healthy
<1>2. \A p \in received : Sent(p)
  BY <1>1 DEF Delivered, Healthy
<1>3. ToSet(mail) = {}
  BY <1>1 DEF ToSet
<1>4. Reached \subseteq Stored
  BY <1>3 DEF Reached, Stored, Closed
<1> QED BY <1>1, <1>2, <1>4 DEF Sent

LEMMA ExitIsComplete ==
    ASSUME CommandInv
    PROVE  CompleteOrWarned
<1> SUFFICES ASSUME main = "done", exit = "ok", mode \in {"search", "bluetooth"}, ~warned,
                    NEW p \in DOMAIN offers, p \notin received, IsDict(offers[p])
             PROVE  \E q \in 1..(p - 1) : q % PageSize = 0 /\ ~IsDict(offers[q])
  BY DEF CompleteOrWarned
<1> USE DEF CommandInv
<1>1. Len(offers) \in Nat /\ DOMAIN offers = 1..Len(offers) /\ upto \in 0..Len(offers)
  BY PageTypes
<1>2. Covered(upto) /\ Ended
  BY AtCleanExit DEF Paging
<1>3. p > upto
  BY <1>1, <1>2 DEF Covered
<1>4. upto \in 1..(p - 1) /\ upto % PageSize = 0 /\ ~HasStringNetid(offers[upto])
  <2>1. p \in 1..Len(offers)
    BY <1>1
  <2>2. p \in Nat /\ p <= Len(offers) /\ upto \in Nat /\ Len(offers) \in Nat
    BY <1>1, <2>1
  <2>3. upto # Len(offers)
    <3>1. ASSUME upto = Len(offers) PROVE p <= upto
      BY <2>2, <3>1
    <3> QED BY <1>3, <2>2, <3>1
  <2>4. upto \in 1..Len(offers) /\ upto % PageSize = 0 /\ ~HasStringNetid(offers[upto])
    BY <1>2, <2>3 DEF Ended
  <2>5. upto \in 1..(p - 1)
    BY <1>1, <1>3, <2>2, <2>4
  <2> QED BY <2>4, <2>5
<1>5. ASSUME IsDict(offers[upto])
      PROVE  FALSE
  <2>1. upto \in received
    BY <1>2, <1>4, <1>5 DEF Covered
  <2>2. HasNetid(offers[upto][2])
    BY <1>5, <2>1, AtCleanExit DEF Mappable, Maps, IsDict
  <2> QED BY <1>4, <1>5, <2>2, NetidIsString DEF HasStringNetid
<1> QED BY <1>4, <1>5

\* cli.py:268-304: an exit that reports no failure is the truth about both.
\* Every document of every result that was received is at the broker, or in the
\* file; and no result was left behind without a warning, but behind a full page
\* whose last item is no object.
THEOREM ExitsTruthfully == Spec => []ExitIsTruthful
<1>1. CommandInv => CleanExit
  BY AtCleanExit DEF CleanExit
<1>2. CommandInv => ExitIsTruthful
  BY <1>1, ExitIsComplete DEF ExitIsTruthful
<1> QED BY <1>2, CommandInvariant, PTL

\* cli.py:268-304, transport.py:503-528: whatever command runs the publisher, and
\* wherever it is cancelled, it keeps PublishContract.
THEOREM CommandKeepsContract == Spec => ContractSpec
<1>1. Init => PublisherInit
  BY DEF Init
<1>2. CommandInv /\ [Next]_vars => [PublisherNext]_publisherVars
  BY StepIsPublishers
<1>3. Spec => PublisherSpec
  BY <1>1, <1>2, CommandInvariant, PTL DEF Spec, PublisherSpec
<1> QED BY <1>3, ContractKept
=============================================================================
