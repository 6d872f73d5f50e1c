---------------------------- MODULE KismetPoller ----------------------------
(***************************************************************************)
(* hm-wireless kismet poll: the poller and the sink of KismetActorSystem   *)
(* (tools/wireless/src/hackmode_wireless/kismet/actors.py), the Kismet     *)
(* server they ask, the RabbitMQ publisher they feed, and the command that *)
(* drives them until a failure or an interrupt.                            *)
(*                                                                         *)
(* Both actors take one message at a time and stop after their earlier     *)
(* messages (module MailboxActor); here a mailbox is a queue.  A document  *)
(* is named by what its deterministic _id is made of.  The devices of one  *)
(* answer come in no particular order.                                     *)
(***************************************************************************)
EXTENDS Integers, Sequences

CONSTANTS Devices,   \* wireless devices in range
          APs,       \* those that are access points
          LastBssid, \* device -> the access point it was last associated with
          Retries,   \* publish_retries of RabbitConfig
          MaxClock,  \* bound: the server's clock
          MaxRuns    \* bound: times the command is run

ASSUME KismetAssumption ==
    /\ APs \subseteq Devices
    /\ LastBssid \in [Devices -> Devices \cup {"none"}]
    /\ Retries \in Nat \ {0}
    /\ MaxClock \in Nat \ {0}
    /\ MaxRuns \in Nat \ {0}

VARIABLES clock,    \* the server's timestamp
          modified, \* device -> its last time on the server, 0 before it is seen
          main,     \* where the command is
          run,      \* how often the command was run
          poller,   \* where the poller is in _poll_once
          cursor,   \* _PollState.cursor
          seen,     \* _PollState.seen
          stamp,    \* the timestamp the poll read
          batch,    \* the devices of the poll
          todo,     \* documents of the batch that are still to be emitted
          mail,     \* the sink's mailbox; its head is what the sink publishes
          attempt,  \* attempts at publishing the head
          failures, \* reports in ActorSystem.failures
          broker    \* documents the broker has

server == <<clock, modified>>
poll == <<poller, cursor, seen, stamp, batch, todo>>
sink == <<mail, attempt, broker>>
vars == <<server, main, run, poll, sink, failures>>

-----------------------------------------------------------------------------
Station(d) == <<"station", d>>

Network(d) == <<"network", d>>

Relation(d, ap) == <<"relation", d, ap>>

Documents ==
    {Station(d) : d \in Devices} \cup {Network(d) : d \in APs}
        \cup {Relation(d, ap) : d \in Devices, ap \in APs}

\* station_document and network_documents: every device is a station, an access
\* point is also a network.
Nodes(ds) == {Station(d) : d \in ds} \cup {Network(d) : d \in ds \cap APs}

\* Mutant of Relations: the access point need not be in the batch.
RelationsOfAll(ds) ==
    {Relation(d, LastBssid[d]) : d \in {e \in ds : LastBssid[e] \in APs}}

\* observed_at_station_relations: only for a network of the same batch.
Relations(ds) ==
    {Relation(d, LastBssid[d]) : d \in {e \in ds : LastBssid[e] \in ds \cap APs}}

\* KismetClient.devices_since
Since(ts) == {d \in Devices : modified[d] > 0 /\ modified[d] >= ts}

TypeOK ==
    /\ clock \in 1..MaxClock
    /\ modified \in [Devices -> 0..MaxClock]
    /\ main \in {"asleep", "join poller", "join sink", "stop poller", "stop sink", "done", "failed"}
    /\ run \in 1..MaxRuns
    /\ poller \in {"idle", "fetch", "stamp", "emit"}
    /\ cursor \in 0..MaxClock
    /\ seen \subseteq Documents
    /\ stamp \in 0..MaxClock
    /\ batch \subseteq Devices
    /\ todo \subseteq Documents
    /\ mail \in Seq(Documents) /\ \A i, j \in 1..Len(mail) : mail[i] = mail[j] => i = j
    /\ attempt \in 0..(Retries - 1)
    /\ failures \in Nat
    /\ broker \subseteq Documents

Fresh ==
    /\ main = "asleep" /\ poller = "idle" /\ cursor = 0 /\ seen = {} /\ stamp = 0
    /\ batch = {} /\ todo = {} /\ mail = <<>> /\ attempt = 0 /\ failures = 0

Init ==
    /\ clock = 1
    /\ modified = [d \in Devices |-> 0]
    /\ run = 1
    /\ broker = {}
    /\ Fresh

-----------------------------------------------------------------------------
(* The Kismet server, and the operator of the command. *)

Tick ==
    /\ clock < MaxClock
    /\ clock' = clock + 1
    /\ UNCHANGED <<modified, main, run, poll, sink, failures>>

Observe(d) ==
    /\ modified[d] # clock
    /\ modified' = [modified EXCEPT ![d] = clock]
    /\ UNCHANGED <<clock, main, run, poll, sink, failures>>

\* Ctrl-C cancels the command's task at one of its awaits.
Interrupt ==
    /\ main \in {"asleep", "join poller", "join sink"}
    /\ main' = "stop poller"
    /\ UNCHANGED <<server, run, poll, sink, failures>>

\* The command is run again: nothing is left of the last run.
Rerun ==
    /\ main \in {"done", "failed"}
    /\ run < MaxRuns
    /\ run' = run + 1
    /\ main' = "asleep" /\ cursor' = 0 /\ seen' = {} /\ stamp' = 0
    /\ batch' = {} /\ failures' = 0
    /\ UNCHANGED <<server, poller, todo, sink>>

-----------------------------------------------------------------------------
(* _kismet_poll and KismetActorSystem._run. *)

TellPollOnce ==
    /\ main = "asleep"
    /\ main' = "join poller"
    /\ poller' = "fetch"
    /\ UNCHANGED <<server, run, cursor, seen, stamp, batch, todo, sink, failures>>

JoinPoller ==
    /\ main = "join poller"
    /\ poller = "idle"
    /\ main' = "join sink"
    /\ UNCHANGED <<server, run, poll, sink, failures>>

\* The sink is idle: the first failure is raised, and ends the command.
JoinSink ==
    /\ main = "join sink"
    /\ mail = <<>>
    /\ main' = IF failures > 0 THEN "failed" ELSE "asleep"
    /\ UNCHANGED <<server, run, poll, sink, failures>>

\* ActorSystem.stop() stops the poller, then the sink.
StopPoller ==
    /\ main = "stop poller"
    /\ poller = "idle"
    /\ main' = "stop sink"
    /\ UNCHANGED <<server, run, poll, sink, failures>>

StopSink ==
    /\ main = "stop sink"
    /\ mail = <<>>
    /\ main' = "done"
    /\ UNCHANGED <<server, run, poll, sink, failures>>

-----------------------------------------------------------------------------
(* KismetPollerActor._poll_once. *)

Fetch ==
    /\ poller = "fetch"
    /\ batch' = Since(cursor)
    /\ poller' = "stamp"
    /\ UNCHANGED <<server, main, run, cursor, seen, stamp, todo, sink, failures>>

\* The clock is read after the devices.
ReadStamp ==
    /\ poller = "stamp"
    /\ stamp' = clock
    /\ todo' = Nodes(batch) \cup Relations(batch)
    /\ poller' = "emit"
    /\ UNCHANGED <<server, main, run, cursor, seen, batch, sink, failures>>

\* Mutant of RequestFails: the failure is not reported.
RequestFailsSilently ==
    /\ poller \in {"fetch", "stamp"}
    /\ poller' = "idle"
    /\ UNCHANGED <<server, main, run, cursor, seen, stamp, batch, todo, sink, failures>>

\* A request fails: the report ends the poll, and the cursor stays.
RequestFails ==
    /\ poller \in {"fetch", "stamp"}
    /\ poller' = "idle"
    /\ failures' = failures + 1
    /\ UNCHANGED <<server, main, run, cursor, seen, stamp, batch, todo, sink>>

\* _emit_new, for the relations after all else.
Emit(x) ==
    /\ poller = "emit"
    /\ x \in todo
    /\ x \in Relations(batch) => todo \subseteq Relations(batch)
    /\ todo' = todo \ {x}
    /\ seen' = seen \cup {x}
    /\ mail' = IF x \in seen THEN mail ELSE Append(mail, x)
    /\ UNCHANGED <<server, main, run, poller, cursor, stamp, batch, attempt, broker, failures>>

PollEnds ==
    /\ poller = "emit"
    /\ todo = {}
    /\ cursor' = stamp
    /\ poller' = "idle"
    /\ UNCHANGED <<server, main, run, seen, stamp, batch, todo, sink, failures>>

-----------------------------------------------------------------------------
(* KismetSinkActor.receive and RabbitPublisher.publish. *)

Confirmed ==
    /\ mail # <<>>
    /\ broker' = broker \cup {Head(mail)}
    /\ mail' = Tail(mail)
    /\ attempt' = 0
    /\ UNCHANGED <<server, main, run, poll, failures>>

\* Mutant of AttemptFails: the failure of the last attempt is not reported.
AttemptFailsSilently ==
    /\ mail # <<>>
    /\ broker' \in {broker, broker \cup {Head(mail)}}
    /\ IF attempt + 1 < Retries
       THEN attempt' = attempt + 1 /\ UNCHANGED <<mail, failures>>
       ELSE attempt' = 0 /\ mail' = Tail(mail) /\ UNCHANGED failures
    /\ UNCHANGED <<server, main, run, poll>>

\* Mutant of AttemptFails: one attempt too many.
AttemptFailsOnceMore ==
    /\ mail # <<>>
    /\ broker' \in {broker, broker \cup {Head(mail)}}
    /\ IF attempt < Retries
       THEN attempt' = attempt + 1 /\ UNCHANGED <<mail, failures>>
       ELSE attempt' = 0 /\ mail' = Tail(mail) /\ failures' = failures + 1
    /\ UNCHANGED <<server, main, run, poll>>

\* An attempt fails, with the document at the broker or not; the last one
\* raises, and the sink reports the failure and drops the message.
AttemptFails ==
    /\ mail # <<>>
    /\ broker' \in {broker, broker \cup {Head(mail)}}
    /\ IF attempt + 1 < Retries
       THEN attempt' = attempt + 1 /\ UNCHANGED <<mail, failures>>
       ELSE attempt' = 0 /\ mail' = Tail(mail) /\ failures' = failures + 1
    /\ UNCHANGED <<server, main, run, poll>>

\* UnroutableError is not tried again.
Unroutable ==
    /\ mail # <<>>
    /\ attempt' = 0 /\ mail' = Tail(mail) /\ failures' = failures + 1
    /\ UNCHANGED <<server, main, run, poll, broker>>

-----------------------------------------------------------------------------
Main == TellPollOnce \/ JoinPoller \/ JoinSink \/ StopPoller \/ StopSink

Poller == Fetch \/ ReadStamp \/ RequestFails \/ (\E x \in todo : Emit(x)) \/ PollEnds

Sink == Confirmed \/ AttemptFails \/ Unroutable

Next ==
    \/ Tick \/ (\E d \in Devices : Observe(d)) \/ Interrupt \/ Rerun
    \/ Main \/ Poller \/ Sink

Spec == Init /\ [][Next]_vars

FairSpec == Spec /\ WF_vars(Main) /\ WF_vars(Poller) /\ WF_vars(Sink)

-----------------------------------------------------------------------------
(* Properties. *)

\* A document that was marked as seen, and so is never emitted again by this
\* run, is at the broker or on its way, or a failure was reported.
NoSilentLoss ==
    \A x \in seen :
        x \in broker \/ (\E i \in 1..Len(mail) : mail[i] = x) \/ failures > 0

\* A relation never reaches the broker before the two documents it links,
\* unless a failure was reported in this run or an earlier run left it there.
RelationsAfterNodes ==
    [][\A d \in Devices, ap \in APs :
        Relation(d, ap) \in broker' \ broker /\ failures = 0
            => {Station(d), Network(ap)} \subseteq broker]_vars

\* A device the server knows, last modified when the cursor or later, is
\* emitted eventually, or the run comes to an end.
DeltaEmitted ==
    \A d \in Devices :
        (main = "asleep" /\ d \in Since(cursor))
            ~> (Station(d) \in seen \/ main \in {"done", "failed"})

\* kismet/actors.py:33, "Poll devices modified since the last cursor and emit
\* the delta": a device that will not be asked for again has been emitted.
NoDeviceSkipped ==
    poller = "idle" /\ failures = 0 =>
        \A d \in Devices : modified[d] \in 1..(cursor - 1) => Station(d) \in seen
=============================================================================
