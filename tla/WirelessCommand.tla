-------------------------- MODULE WirelessCommand ---------------------------
(***************************************************************************)
(* One run of hm-wireless (cli.py): wigle search, which composes the paged *)
(* client (wigle/client.py), the WiGLE actor and its sink over the actor   *)
(* runtime (wigle/actors.py, actor.py) and the publisher; and the commands *)
(* that publish directly: wigle bluetooth, wigle detail and manifests.     *)
(*                                                                         *)
(* The search runs on the event loop, requests and delays included, and    *)
(* gives it up only where it waits for space in the sink's mailbox; the    *)
(* publisher runs in a thread.  WiGLE holds the results in one order; a    *)
(* position of it is what a cursor or the netid of a result stands for.    *)
(* A mailbox is a queue whose head is being handled (MailboxActor).        *)
(***************************************************************************)
EXTENDS RabbitPublisher, Sequences, FiniteSets, SequencesExt

CONSTANTS Modes,     \* commands: "search", "bluetooth", "detail", "manifests"
          Offers,    \* what WiGLE may hold: sequences of items
          Actors,    \* names in ACTOR_MANIFESTS, sorted
          PageSize,  \* resultsPerPage
          MaxPages,  \* max_pages
          Capacity   \* mailbox_size of the sink

IsDict(item) == item[1] = "dict"

ASSUME CommandAssumption ==
    /\ Modes \subseteq {"search", "bluetooth", "detail", "manifests"}
    /\ \A offer \in Offers : offer \in Seq(ToSet(offer))
    /\ Actors \in Seq(ToSet(Actors))
    /\ PageSize \in Nat \ {0}
    /\ MaxPages \in Nat
    /\ Capacity \in Nat \ {0}

VARIABLES mode,      \* the command
          emitHosts, \* --emit-hosts
          announce,  \* a broker URL is in the environment
          offers,    \* what there is to publish
          main,      \* where the command is
          exit,      \* how it is going to end
          warned,    \* "hit max_pages before exhausting results" was logged
          fetch,     \* where _paginate is
          page,      \* requests made
          after,     \* search_after, 0 for none
          last,      \* lastnetid, 0 for none
          items,     \* positions of the page still to be yielded, the first next
          upto,      \* position of the last result of the page
          turn,      \* what follows the page: "end", "cursor" or "netid"
          received,  \* positions of all items yielded or to be yielded
          actor,     \* where the WiGLE actor is
          waiting,   \* it waits for space
          mail,      \* the sink's mailbox
          failed     \* ActorSystem.failures is not empty

choice == <<mode, emitHosts, announce, offers>>
command == <<main, exit>>
client == <<warned, fetch, page, after, last, items, upto, turn, received>>
wigle == <<actor, waiting>>
vars == <<choice, command, client, wigle, mail, failed, publisherVars>>

-----------------------------------------------------------------------------
\* Whether network_document takes the item.
Mappable(item) == item[1] = "manifest" \/ (IsDict(item) /\ Maps(item[2]))

\* The documents of each result WiGLE may hold.
Mapped ==
    {r \in {item[2] : item \in {i \in UNION {ToSet(offer) : offer \in Offers} : IsDict(i)}} :
        Maps(r)}

NetworkDocuments == [r \in Mapped |-> NetworkDocument(r)]

HostedDocuments == [r \in Mapped |-> Hosted(NetworkDocuments[r])]

HostDocuments == [r \in Mapped |-> HostDocument(HostedDocuments[r])]

NetworkOf(item) ==
    IF mode = "search" /\ emitHosts THEN HostedDocuments[item[2]] ELSE NetworkDocuments[item[2]]

HostOf(item) == HostDocuments[item[2]]

ASSUME DocumentsAssumption ==
    /\ \A r \in Mapped :
           {NetworkDocuments[r], HostedDocuments[r], HostDocuments[r]} \subseteq Documents
    /\ \A i \in DOMAIN Actors : ManifestDocument(Actors[i]) \in Documents

\* The document a direct command publishes for an item.
DocumentOf(item) ==
    IF item[1] = "manifest" THEN ManifestDocument(item[2]) ELSE NetworkOf(item)

\* All the documents an item ought to become.
DocumentsOf(item) ==
    {DocumentOf(item)} \cup IF mode = "search" /\ emitHosts THEN {HostOf(item)} ELSE {}

\* Whether lastnetid can name the item.
HasStringNetid(item) ==
    IsDict(item) /\ Get(item[2], "netid")[1] \in StringTags /\ item[2].netid # Empty

\* A netid that _wigle_detail does not skip.
HasTruthyNetid(item) ==
    IsDict(item) /\ Get(item[2], "netid") \notin Falsy

\* The item that is yielded next, or being handled.
First == CHOOSE p \in items : \A q \in items : p <= q

Item == offers[First]

TypeOK ==
    /\ PublisherTypeOK
    /\ mode \in Modes /\ emitHosts \in BOOLEAN /\ announce \in BOOLEAN
    /\ main \in {"start", "announce", "join wigle", "join sink", "stop wigle", "stop sink",
                 "direct", "close", "done"}
    /\ exit \in {"ok", "failed"}
    /\ warned \in BOOLEAN
    /\ fetch \in {"off", "request", "items", "over", "raised"}
    /\ page \in 0..(IF mode = "detail" THEN 1 ELSE MaxPages)
    /\ {after, last, upto} \subseteq 0..Len(offers)
    /\ turn \in {"end", "cursor", "netid"}
    /\ received \subseteq DOMAIN offers
    /\ items \subseteq received
    /\ actor \in {"idle", "search", "host", "network"}
    /\ waiting \in BOOLEAN
    /\ waiting => actor \in {"host", "network"}
    /\ mail \in Seq(Documents) /\ Len(mail) <= Capacity
    /\ failed \in BOOLEAN

Init ==
    /\ PublisherInit
    /\ mode \in Modes
    /\ emitHosts \in IF mode = "search" THEN BOOLEAN ELSE {FALSE}
    /\ announce \in IF mode = "search" THEN BOOLEAN ELSE {FALSE}
    /\ offers \in IF mode = "manifests" THEN {[i \in DOMAIN Actors |-> <<"manifest", Actors[i]>>]}
                  ELSE Offers
    /\ main = "start" /\ exit = "ok"
    /\ warned = FALSE /\ fetch = "off" /\ page = 0 /\ after = 0 /\ last = 0
    /\ items = {} /\ upto = 0 /\ turn = "end" /\ received = {}
    /\ actor = "idle" /\ waiting = FALSE
    /\ mail = <<>> /\ failed = FALSE

-----------------------------------------------------------------------------
(* WigleClient: _paginate and network_detail. *)

\* The position the next page starts from: the cursor, once there was one.
Start == IF after > 0 THEN after ELSE last

PageEnd == IF Start + PageSize < Len(offers) THEN Start + PageSize ELSE Len(offers)

\* A page arrives, with or without a searchAfter.  Only objects are yielded.
Request ==
    /\ fetch = "request" /\ mode # "detail"
    /\ page < MaxPages
    /\ page' = page + 1
    /\ items' = {p \in (Start + 1)..PageEnd : IsDict(offers[p])}
    /\ received' = received \cup items'
    /\ upto' = PageEnd
    /\ \/ PageEnd - Start < PageSize /\ turn' = "end"
       \/ PageEnd - Start = PageSize /\ turn' = "cursor"
       \/ /\ PageEnd - Start = PageSize
          /\ turn' = IF HasStringNetid(offers[PageEnd]) THEN "netid" ELSE "end"
    /\ fetch' = "items"
    /\ UNCHANGED <<choice, command, warned, after, last, wigle, mail, failed, publisherVars>>

\* An HTTP error, a reported failure, or an answer of another shape.
RequestFails ==
    /\ fetch = "request"
    /\ mode = "detail" \/ page < MaxPages
    /\ fetch' = "raised"
    /\ UNCHANGED <<choice, command, warned, page, after, last, items, upto, turn, received,
                   wigle, mail, failed, publisherVars>>

\* After the page: the delay, and the parameters of the next.
PageDone ==
    /\ fetch = "items" /\ items = {}
    /\ fetch' = IF turn = "end" THEN "over" ELSE "request"
    /\ after' = IF turn = "cursor" THEN upto ELSE after
    /\ last' = IF turn = "netid" THEN upto ELSE last
    /\ UNCHANGED <<choice, command, warned, page, items, upto, turn, received, wigle, mail, failed,
                   publisherVars>>

Exhausted ==
    /\ fetch = "request" /\ mode # "detail"
    /\ page = MaxPages
    /\ warned' = TRUE
    /\ fetch' = "over"
    /\ UNCHANGED <<choice, command, page, after, last, items, upto, turn, received, wigle, mail,
                   failed, publisherVars>>

\* network_detail answers, at once or after a 404 from the first of its paths.
Detail ==
    /\ fetch = "request" /\ mode = "detail"
    /\ \/ /\ items' = {p \in DOMAIN offers : HasTruthyNetid(offers[p])}
          /\ received' = items'
          /\ fetch' = "items"
          /\ UNCHANGED page
       \/ /\ page = 0
          /\ page' = 1
          /\ UNCHANGED <<items, received, fetch>>
    /\ UNCHANGED <<choice, command, warned, after, last, upto, turn, wigle, mail, failed,
                   publisherVars>>

Client == Request \/ RequestFails \/ PageDone \/ Exhausted \/ Detail

-----------------------------------------------------------------------------
(* WigleActor._search, and WigleSinkActor with the command's handler. *)

\* Mutant of LoopFree: the search keeps the loop while it waits.
LoopFreeAfterSearch == actor = "idle"

\* The event loop runs other tasks: the search is over, or waits.
LoopFree == actor = "idle" \/ waiting

\* A result is mapped; one that cannot be ends the search.
NextResult ==
    /\ actor = "search" /\ fetch = "items" /\ items # {}
    /\ IF Mappable(Item)
       THEN /\ actor' = IF emitHosts THEN "host" ELSE "network"
            /\ UNCHANGED <<fetch, failed>>
       ELSE actor' = "idle" /\ fetch' = "off" /\ failed' = TRUE
    /\ UNCHANGED <<choice, command, warned, page, after, last, items, upto, turn, received,
                   waiting, mail, publisherVars>>

\* tell(): the host, if asked for, and then the network.
TellHost ==
    /\ actor = "host" /\ Len(mail) < Capacity
    /\ mail' = Append(mail, HostOf(Item))
    /\ actor' = "network"
    /\ waiting' = FALSE
    /\ UNCHANGED <<choice, command, client, failed, publisherVars>>

\* Mutant of TellNetwork: there is always space.
TellNetworkUnbounded ==
    /\ actor = "network"
    /\ mail' = Append(mail, NetworkOf(Item))
    /\ items' = items \ {First}
    /\ actor' = "search"
    /\ waiting' = FALSE
    /\ UNCHANGED <<choice, command, warned, fetch, page, after, last, upto, turn, received,
                   failed, publisherVars>>

TellNetwork ==
    /\ actor = "network" /\ Len(mail) < Capacity
    /\ mail' = Append(mail, NetworkOf(Item))
    /\ items' = items \ {First}
    /\ actor' = "search"
    /\ waiting' = FALSE
    /\ UNCHANGED <<choice, command, warned, fetch, page, after, last, upto, turn, received,
                   failed, publisherVars>>

WaitForSpace ==
    /\ actor \in {"host", "network"} /\ ~waiting
    /\ Len(mail) = Capacity
    /\ waiting' = TRUE
    /\ UNCHANGED <<choice, command, client, actor, mail, failed, publisherVars>>

\* The generator ends or raises, and the search with it.
SearchEnds ==
    /\ actor = "search" /\ fetch \in {"over", "raised"}
    /\ actor' = "idle"
    /\ fetch' = "off"
    /\ failed' = (failed \/ fetch = "raised")
    /\ UNCHANGED <<choice, command, warned, page, after, last, items, upto, turn, received,
                   waiting, mail, publisherVars>>

Search == NextResult \/ TellHost \/ TellNetwork \/ WaitForSpace \/ SearchEnds

\* The sink hands its next document to a thread.
Handle ==
    /\ LoopFree
    /\ mail # <<>>
    /\ Publish(Head(mail))
    /\ UNCHANGED <<choice, command, client, wigle, mail, failed>>

\* Mutant of Handled: a failure is logged only.
HandledSilently ==
    /\ LoopFree
    /\ mail # <<>>
    /\ Collect
    /\ mail' = Tail(mail)
    /\ UNCHANGED <<choice, command, client, wigle, failed>>

\* The thread is done: a failure is reported, and the next message is due.
Handled ==
    /\ LoopFree
    /\ mail # <<>>
    /\ Collect
    /\ failed' = (failed \/ step = "raised")
    /\ mail' = Tail(mail)
    /\ UNCHANGED <<choice, command, client, wigle>>

Sink == Handle \/ Handled

\* The thread, or the command itself, in publish().
Publisher ==
    /\ Exchange
    /\ UNCHANGED <<choice, command, client, wigle, mail, failed>>

Broker ==
    /\ ConnectionDrops \/ ChannelDrops
    /\ UNCHANGED <<choice, command, client, wigle, mail, failed>>

-----------------------------------------------------------------------------
(* main(), _wigle_search and WigleActorSystem._run. *)

Begin ==
    /\ main = "start"
    /\ main' = CASE mode # "search" -> "direct"
                 [] mode = "search" /\ announce -> "announce"
                 [] OTHER -> "join wigle"
    /\ fetch' = IF mode = "manifests" THEN "items" ELSE IF announce THEN "off" ELSE "request"
    /\ items' = IF mode = "manifests" THEN DOMAIN offers ELSE {}
    /\ received' = items'
    /\ actor' = IF main' = "join wigle" THEN "search" ELSE "idle"
    /\ UNCHANGED <<choice, exit, warned, page, after, last, upto, turn, waiting, mail, failed,
                   publisherVars>>

\* ActorSystem.start: the actors' manifests go to the broker over a connection
\* of their own, whatever the sink; if that fails nothing is started.
Announce ==
    /\ main = "announce"
    /\ main' = "join wigle" /\ actor' = "search" /\ fetch' = "request"
    /\ UNCHANGED <<choice, exit, warned, page, after, last, items, upto, turn, received, waiting,
                   mail, failed, publisherVars>>

AnnounceFails ==
    /\ main = "announce"
    /\ main' = "close" /\ exit' = "failed"
    /\ UNCHANGED <<choice, client, wigle, mail, failed, publisherVars>>

JoinWigle ==
    /\ main = "join wigle" /\ LoopFree
    /\ actor = "idle"
    /\ main' = "join sink"
    /\ UNCHANGED <<choice, exit, client, wigle, mail, failed, publisherVars>>

\* Both mailboxes are empty: the first failure is raised.
JoinSink ==
    /\ main = "join sink" /\ LoopFree
    /\ mail = <<>>
    /\ exit' = IF failed THEN "failed" ELSE exit
    /\ main' = "stop wigle"
    /\ UNCHANGED <<choice, client, wigle, mail, failed, publisherVars>>

\* Ctrl-C cancels the command's task where it waits.
Interrupt ==
    /\ main \in {"join wigle", "join sink"} /\ LoopFree
    /\ main' = "stop wigle" /\ exit' = "failed"
    /\ UNCHANGED <<choice, client, wigle, mail, failed, publisherVars>>

\* ActorSystem.stop(), from the actor registered last to the first.
StopWigle ==
    /\ main = "stop wigle" /\ LoopFree
    /\ actor = "idle"
    /\ main' = "stop sink"
    /\ UNCHANGED <<choice, exit, client, wigle, mail, failed, publisherVars>>

StopSink ==
    /\ main = "stop sink" /\ mail = <<>>
    /\ main' = "close"
    /\ UNCHANGED <<choice, exit, client, wigle, mail, failed, publisherVars>>

\* A direct command publishes the next document.
PublishDirectly ==
    /\ main = "direct" /\ fetch = "items" /\ items # {}
    /\ Mappable(Item)
    /\ Publish(DocumentOf(Item))
    /\ UNCHANGED <<choice, command, client, wigle, mail, failed>>

Published ==
    /\ main = "direct"
    /\ step = "returned"
    /\ Collect
    /\ items' = items \ {First}
    /\ UNCHANGED <<choice, command, warned, fetch, page, after, last, upto, turn, received, wigle,
                   mail, failed>>

\* The first failure ends it; manifests does not even close its publisher.
Aborted ==
    /\ main = "direct"
    /\ main' = IF mode = "manifests" THEN "done" ELSE "close"
    /\ exit' = "failed"
    /\ \/ step = "raised" /\ Collect
       \/ /\ \/ fetch = "raised"
             \/ fetch = "items" /\ items # {} /\ ~Mappable(Item)
          /\ UNCHANGED publisherVars
    /\ UNCHANGED <<choice, client, wigle, mail, failed>>

DirectEnds ==
    /\ main = "direct" /\ fetch = "over"
    /\ main' = "close"
    /\ UNCHANGED <<choice, exit, client, wigle, mail, failed, publisherVars>>

ClosePublisher ==
    /\ main = "close"
    /\ Close
    /\ main' = "done"
    /\ UNCHANGED <<choice, exit, client, wigle, mail, failed>>

\* The last of the file cannot be written.
CloseFails ==
    /\ main = "close" /\ offline
    /\ main' = "done" /\ exit' = "failed"
    /\ UNCHANGED <<choice, client, wigle, mail, failed, publisherVars>>

Main ==
    \/ Begin \/ Announce \/ AnnounceFails \/ JoinWigle \/ JoinSink \/ StopWigle \/ StopSink
    \/ PublishDirectly \/ Published \/ Aborted \/ DirectEnds \/ ClosePublisher \/ CloseFails

Next == Client \/ Search \/ Sink \/ Publisher \/ Main \/ Broker \/ Interrupt

Spec == Init /\ [][Next]_vars

\* The event loop, the thread, the HTTP client and the broker's answers make
\* progress; nobody has to interrupt and no connection has to drop.
FairSpec ==
    Spec /\ WF_vars(Client) /\ WF_vars(Search) /\ WF_vars(Sink) /\ WF_vars(Publisher)
         /\ WF_vars(Main)

-----------------------------------------------------------------------------
(* Properties. *)

\* What the sink of the command has for good.
Stored == IF offline THEN flushed ELSE taken

\* A command that reports no failure has every document of every result it was
\* sent at the broker, or in the file (cli.py:268-304, wigle/actors.py:160-169).
CleanExit ==
    main = "done" /\ exit = "ok"
        => \A p \in received : DocumentsOf(offers[p]) \subseteq Stored

\* A search that reports no failure has seen every result there is, or warned
\* that it has not (wigle/client.py:164-201); a full page that ends in something
\* that is no object and has no cursor is taken for the last.
CompleteOrWarned ==
    main = "done" /\ exit = "ok" /\ mode \in {"search", "bluetooth"} /\ ~warned
        => \A p \in DOMAIN offers :
               p \in received \/ ~IsDict(offers[p])
                   \/ (\E q \in 1..(p - 1) : q % PageSize = 0 /\ ~IsDict(offers[q]))

\* cli.py:268-304: an exit without an error is the truth about both: what was
\* received is stored, and what was not received was warned of.
ExitIsTruthful == CleanExit /\ CompleteOrWarned

\* The command ends, whatever fails: the search never waits for a sink that
\* waits for it, and stop() returns (wigle/actors.py:160-172, cli.py:178-189).
CommandEnds == <>(main = "done")
=============================================================================
