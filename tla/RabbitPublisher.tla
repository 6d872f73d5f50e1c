-------------------------- MODULE RabbitPublisher ---------------------------
(***************************************************************************)
(* The publishers of the wireless tools (transport.py): RabbitPublisher    *)
(* with its connection, its channel in confirm mode and its attempts, and  *)
(* JsonlPublisher, which writes to a buffered file.  Every document goes   *)
(* through the boundary first (ValidatingPublisher).                       *)
(*                                                                         *)
(* An action is one exchange with the broker.  The connection may be lost  *)
(* at any time; the client learns of it when it uses the connection, or    *)
(* sees is_open turn false.  The delay between attempts is no action: the  *)
(* broker may do as much without it.                                       *)
(***************************************************************************)
EXTENDS WirelessDocuments

CONSTANTS Documents, \* what callers may publish
          Retries,   \* publish_retries of RabbitConfig
          NoDocument

ASSUME PublisherAssumption ==
    /\ Retries \in Nat \ {0}
    /\ NoDocument \notin Documents

VARIABLES offline,    \* transport_from_env chose the JSONL sink
          step,       \* where the call is
          call,       \* its document
          attempt,    \* number of its attempt
          copies,     \* copies of the document the sink took in this call
          connection, \* "lost": closed, and the client has not noticed
          channel,    \* "plain" until confirm_delivery
          taken,      \* documents the broker or the file handle has
          flushed     \* documents in the file

link == <<connection, channel>>
publisherVars == <<offline, step, call, attempt, copies, link, taken, flushed>>

Trying == {"connect", "channel", "declare", "confirm", "send"}

PublisherTypeOK ==
    /\ offline \in BOOLEAN
    /\ step \in Trying \cup {"idle", "write", "returned", "raised"}
    /\ call \in Documents \cup {NoDocument}
    /\ step = "idle" <=> call = NoDocument
    /\ attempt \in 0..Retries
    /\ copies \in 0..attempt
    /\ connection \in {"none", "open", "closed", "lost"}
    /\ channel \in {"none", "plain", "confirming"}
    /\ taken \subseteq Documents
    /\ flushed \subseteq taken

PublisherInit ==
    /\ offline \in BOOLEAN
    /\ step = "idle" /\ call = NoDocument /\ attempt = 0 /\ copies = 0
    /\ connection = "none" /\ channel = "none"
    /\ taken = {} /\ flushed = {}

-----------------------------------------------------------------------------
\* publish() of ValidatingPublisher, and again of RabbitPublisher.
Publish(d) ==
    /\ step = "idle"
    /\ call' = d
    /\ attempt' = 1
    /\ copies' = 0
    /\ step' = CASE ~Validates(d) -> "raised"
                 [] Validates(d) /\ offline -> "write"
                 [] OTHER -> "connect"
    /\ UNCHANGED <<offline, link, taken, flushed>>

\* The caller goes on with the result.
Collect ==
    /\ step \in {"returned", "raised"}
    /\ step' = "idle"
    /\ call' = NoDocument
    /\ attempt' = 0
    /\ copies' = 0
    /\ UNCHANGED <<offline, link, taken, flushed>>

\* _connect: what is_open calls open is used again, channel and all.
Connect ==
    /\ step = "connect"
    /\ IF connection \in {"open", "lost"}
       THEN UNCHANGED link
       ELSE connection' = "open" /\ channel' = "none"
    /\ step' = IF channel' = "none" THEN "channel" ELSE "send"
    /\ UNCHANGED <<offline, call, attempt, copies, taken, flushed>>

OpenChannel ==
    /\ step = "channel" /\ connection = "open"
    /\ channel' = "plain"
    /\ step' = "declare"
    /\ UNCHANGED <<offline, call, attempt, copies, connection, taken, flushed>>

DeclareExchange ==
    /\ step = "declare" /\ connection = "open"
    /\ step' = "confirm"
    /\ UNCHANGED <<offline, call, attempt, copies, link, taken, flushed>>

ConfirmDelivery ==
    /\ step = "confirm" /\ connection = "open"
    /\ channel' = "confirming"
    /\ step' = "send"
    /\ UNCHANGED <<offline, call, attempt, copies, connection, taken, flushed>>

\* The sink takes N more copies of the call's document.
SinkTakes(n) ==
    /\ copies' = copies + n
    /\ taken' = IF n > 0 THEN taken \cup {call} ELSE taken

\* basic_publish returns: on a channel in confirm mode, when the broker has
\* confirmed; on any other at once.
Confirmed ==
    /\ step = "send" /\ connection = "open"
    /\ \E n \in IF channel = "confirming" THEN {1} ELSE {0, 1} : SinkTakes(n)
    /\ step' = "returned"
    /\ UNCHANGED <<offline, call, attempt, link, flushed>>

\* Mutant of AttemptFails: the connection and its channel are kept.
AttemptFailsKeepsChannel ==
    /\ step \in Trying
    /\ \E n \in IF step = "send" /\ connection = "open" THEN {0, 1} ELSE {0} : SinkTakes(n)
    /\ IF attempt < Retries
       THEN step' = "connect" /\ attempt' = attempt + 1
       ELSE step' = "raised" /\ UNCHANGED attempt
    /\ UNCHANGED <<offline, call, link, flushed>>

\* An exchange fails, a message with or without a copy at the broker.  _reset,
\* and the next attempt if there is one.
AttemptFails ==
    /\ step \in Trying
    /\ \E n \in IF step = "send" /\ connection = "open" THEN {0, 1} ELSE {0} : SinkTakes(n)
    /\ connection' = "none" /\ channel' = "none"
    /\ IF attempt < Retries
       THEN step' = "connect" /\ attempt' = attempt + 1
       ELSE step' = "raised" /\ UNCHANGED attempt
    /\ UNCHANGED <<offline, call, flushed>>

\* The broker returns a mandatory message no queue is bound for: no reset, and
\* no other attempt.
Unroutable ==
    /\ step = "send" /\ connection = "open" /\ channel = "confirming"
    /\ step' = "raised"
    /\ UNCHANGED <<offline, call, attempt, copies, link, taken, flushed>>

\* JsonlPublisher.publish: the line is in the buffer of the file, if the buffer
\* has room or can be written.
WriteLine ==
    /\ step = "write"
    /\ SinkTakes(1)
    /\ step' = "returned"
    /\ UNCHANGED <<offline, call, attempt, link, flushed>>

WriteFails ==
    /\ step = "write"
    /\ step' = "raised"
    /\ UNCHANGED <<offline, call, attempt, copies, link, taken, flushed>>

\* The other side closes the connection.
ConnectionDrops ==
    /\ connection = "open"
    /\ connection' \in {"lost", "closed"}
    /\ UNCHANGED <<offline, step, call, attempt, copies, channel, taken, flushed>>

\* The broker closes the channel alone; during a call that is a failed exchange.
ChannelDrops ==
    /\ step = "idle" /\ channel # "none"
    /\ channel' = "none"
    /\ UNCHANGED <<offline, step, call, attempt, copies, connection, taken, flushed>>

\* close(): _reset, or the flush of the file.
Close ==
    /\ step = "idle"
    /\ connection' = "none" /\ channel' = "none"
    /\ flushed' = IF offline THEN taken ELSE flushed
    /\ UNCHANGED <<offline, step, call, attempt, copies, taken>>

-----------------------------------------------------------------------------
Exchange ==
    \/ Connect \/ OpenChannel \/ DeclareExchange \/ ConfirmDelivery \/ Confirmed
    \/ AttemptFails \/ Unroutable \/ WriteLine \/ WriteFails

PublisherNext ==
    \/ \E d \in Documents : Publish(d)
    \/ Collect \/ Exchange \/ ConnectionDrops \/ ChannelDrops \/ Close

PublisherSpec == PublisherInit /\ [][PublisherNext]_publisherVars

-----------------------------------------------------------------------------
(* Properties. *)

\* transport.py:519: whatever failed before, a document is sent only on a
\* channel in confirm mode, so that no failure leaves one behind that is not.
SentInConfirmMode == step = "send" => channel = "confirming"

\* wigle/mapping.py:157, transport.py:132: whatever result WiGLE sends next that
\* is mapped, the publisher takes its host and its network; but on interpreters
\* that do not pad years it refuses the network if a time is before the year 1000.
ResultsPassBoundary == step = "idle" => EveryResultPasses

\* kismet/mapping.py:167-307, transport.py:190: whatever device Kismet reports
\* next, the publisher takes its station, networks and relations.
DevicesPassBoundary == step = "idle" => EveryDevicePasses

\* wigle/mapping.py:14-24: the security of a network that is published next is
\* the one its table gives for the words and the flag.
SecurityAsTabled == step = "idle" => EverySecurityTabled

\* The mappings keep to the boundary and to their table, whatever is published.
MappingsHold == ResultsPassBoundary /\ DevicesPassBoundary /\ SecurityAsTabled

Contract ==
    INSTANCE PublishContract WITH
        Valid <- Validates,
        status <- IF step \in Trying \cup {"write"} THEN "calling" ELSE step,
        sent <- copies > 0

\* ValidatingPublisher and RabbitPublisher keep PublishContract: an invalid
\* document never reaches the sink, and publish() returns only if the sink took
\* the document in that call.
ContractSpec == Contract!Spec
=============================================================================
