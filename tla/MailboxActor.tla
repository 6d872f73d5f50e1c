---------------------------- MODULE MailboxActor ----------------------------
(***************************************************************************)
(* One actor of the wireless tools                                         *)
(* (tools/wireless/src/hackmode_wireless/actor.py): ActorRef's bounded     *)
(* mailbox, Actor's lifecycle, and the Pykka thread that owns delivery.    *)
(*                                                                         *)
(* Everything of the actor runs on one asyncio loop: an action is what     *)
(* runs there between two awaits.  The Pykka thread of each start runs     *)
(* beside the loop and hands it one message at a time.  The hooks          *)
(* pre_start, post_stop and receive may suspend and may fail; an asyncio   *)
(* cancellation may reach the task of a delivery.  A handler's ordinary    *)
(* failure is reported and then completes the message as success does, and *)
(* a failed post_stop ends as one that succeeded, but for what stop()      *)
(* raises: neither is told apart here.  The N-th start is the start N.     *)
(***************************************************************************)
EXTENDS Integers, Sequences, FiniteSets

CONSTANTS Clients,   \* asyncio tasks that use the actor
          Capacity,  \* mailbox_size
          Overlaps,  \* whether start() is called while a start or an end of the actor goes on
          MaxStarts, \* bound: calls of start() that get past its guard
          MaxTells,  \* bound: calls of tell()
          MaxCancels \* bound: deliveries that are cancelled

ASSUME MailboxAssumption ==
    /\ Capacity \in Nat \ {0} \* ActorRef.__init__ refuses any other
    /\ Overlaps \in BOOLEAN
    /\ MaxStarts \in Nat
    /\ MaxTells \in Nat
    /\ MaxCancels \in Nat

VARIABLES life,      \* _lifecycle_state
          worker,    \* _worker: the start whose Pykka actor it is, 0 for None
          accepting, \* _accepting
          stopped,   \* the event _stopped
          cleanup,   \* _cleanup_started
          finisher,  \* _finish_task is not None
          finish,    \* start -> how far the end of its Pykka actor got
          thread,    \* start -> its Pykka thread
          inbox,     \* start -> what is in its Pykka inbox
          delivery,  \* start -> the task that runs _deliver
          pending,   \* _pending
          idle,      \* the event _idle
          space,     \* the event _space
          client,    \* client -> the call it is in, and the start it made
          starts, tells, cancels

lifecycle == <<life, worker, accepting, stopped, cleanup, finisher, finish>>
pykka == <<thread, inbox, delivery>>
mailbox == <<pending, idle, space>>
vars == <<lifecycle, pykka, mailbox, client, starts, tells, cancels>>

Starts == 1..MaxStarts

Call == {"none", "pre_start", "post_stop", "await stopped", "await space", "retry tell", "await idle"}

Alive(w) == thread[w] \in {"waiting", "calling"}

\* The thread ended by the exception of a cancelled delivery, without on_stop.
Killed(w) == thread[w] = "killed"

\* Mutant of Full: the mailbox takes one message too many.
FullOneLate == pending > Capacity

Full == pending >= Capacity

TypeOK ==
    /\ life \in {"new", "starting", "running", "stopping", "stopped"}
    /\ worker \in {0} \cup Starts
    /\ {accepting, stopped, cleanup, finisher, idle, space} \subseteq BOOLEAN
    /\ finish \in [Starts -> {"none", "posted", "scheduled", "post_stop", "done"}]
    /\ thread \in [Starts -> {"none", "waiting", "calling", "stopped", "killed"}]
    /\ inbox \in [Starts -> Seq({"message", "stop"})]
    /\ delivery \in [Starts -> {"none", "submitted", "receiving", "done", "cancelled"}]
    /\ pending \in 0..Capacity
    /\ client \in [Clients -> [call: Call, start: {0} \cup Starts]]
    /\ starts \in 0..MaxStarts
    /\ tells \in 0..MaxTells
    /\ cancels \in 0..MaxCancels

NoCall == [call |-> "none", start |-> 0]

Init ==
    /\ life = "new" /\ worker = 0 /\ accepting = FALSE /\ stopped = TRUE
    /\ cleanup = FALSE /\ finisher = FALSE
    /\ finish = [w \in Starts |-> "none"]
    /\ thread = [w \in Starts |-> "none"]
    /\ inbox = [w \in Starts |-> <<>>]
    /\ delivery = [w \in Starts |-> "none"]
    /\ pending = 0 /\ idle = TRUE /\ space = TRUE
    /\ client = [c \in Clients |-> NoCall]
    /\ starts = 0 /\ tells = 0 /\ cancels = 0

-----------------------------------------------------------------------------
(* asyncio.Event: set() lets every task that waits at that moment go on,   *)
(* even if the event is cleared before it runs.                            *)

Resumes(state) ==
    CASE state.call = "await space" -> [state EXCEPT !.call = "retry tell"]
      [] OTHER -> NoCall

\* The clients after the events that wake the given calls are set, and after
\* client C, if it is one, has gone to STATE.
Waking(calls) ==
    client' = [c \in Clients |-> IF client[c].call \in calls THEN Resumes(client[c]) ELSE client[c]]

WakingThen(calls, c, state) ==
    client' = [d \in Clients |-> CASE d = c -> state
                                   [] d # c /\ client[d].call \in calls -> Resumes(client[d])
                                   [] OTHER -> client[d]]

Goes(c, state) == WakingThen({}, c, state)

-----------------------------------------------------------------------------
(* Actor.start().  A call that its guard refuses changes nothing.  The     *)
(* guard lets a start through while _finish_stop() awaits post_stop.       *)

Unsettled ==
    \/ \E w \in Starts : finish[w] \in {"posted", "scheduled", "post_stop"}
    \/ \E c \in Clients : client[c].call \in {"pre_start", "post_stop"}

Start(c) ==
    /\ client[c] = NoCall
    /\ starts < MaxStarts
    /\ worker = 0
    /\ life \notin {"starting", "running"}
    /\ Unsettled => Overlaps
    /\ starts' = starts + 1
    /\ life' = "starting"
    /\ stopped' = FALSE
    /\ finisher' = FALSE
    /\ cleanup' = FALSE
    /\ Goes(c, [call |-> "pre_start", start |-> starts + 1])
    /\ UNCHANGED <<worker, accepting, finish, pykka, mailbox, tells, cancels>>

\* pre_start returned: the Pykka actor is made, and accepts.
PreStartReturns(c) ==
    /\ client[c].call = "pre_start"
    /\ worker' = client[c].start
    /\ thread' = [thread EXCEPT ![client[c].start] = "waiting"]
    /\ life' = "running"
    /\ accepting' = TRUE
    /\ Goes(c, NoCall)
    /\ UNCHANGED <<stopped, cleanup, finisher, finish, inbox, delivery, mailbox, starts, tells, cancels>>

\* pre_start failed: _finish_stop() runs in the caller, up to post_stop.
PreStartFails(c) ==
    /\ client[c].call = "pre_start"
    /\ accepting' = FALSE
    /\ life' = "stopping"
    /\ cleanup' = TRUE
    /\ worker' = IF cleanup THEN worker ELSE 0
    /\ Goes(c, IF cleanup THEN NoCall ELSE [client[c] EXCEPT !.call = "post_stop"])
    /\ UNCHANGED <<stopped, finisher, finish, pykka, mailbox, starts, tells, cancels>>

\* The end of _finish_stop(): the actor is stopped, whatever it has become.
Ends ==
    /\ accepting' = FALSE
    /\ life' = "stopped"
    /\ space' = TRUE
    /\ stopped' = TRUE

FailedStartEnds(c) ==
    /\ client[c].call = "post_stop"
    /\ Ends
    /\ WakingThen({"await space", "await stopped"}, c, NoCall)
    /\ UNCHANGED <<worker, cleanup, finisher, finish, pykka, pending, idle, starts, tells, cancels>>

-----------------------------------------------------------------------------
(* Actor.request_stop() and Actor.stop(). *)

\* Mutant of StopsWorker: the actor keeps accepting until its thread is gone.
StopsWorkerAccepting ==
    /\ life' = "stopping"
    /\ UNCHANGED accepting
    /\ space' = TRUE
    /\ inbox' = [inbox EXCEPT ![worker] = IF Alive(worker) THEN Append(@, "stop") ELSE @]

\* Mutant of StopsWorker: a task that waits for space is not told.
StopsWorkerSilently ==
    /\ life' = "stopping"
    /\ accepting' = FALSE
    /\ UNCHANGED space
    /\ inbox' = [inbox EXCEPT ![worker] = IF Alive(worker) THEN Append(@, "stop") ELSE @]

\* Pykka's stop request goes behind the messages of the inbox; for an actor
\* that is dead it is lost.
StopsWorker ==
    /\ life' = "stopping"
    /\ accepting' = FALSE
    /\ space' = TRUE
    /\ inbox' = [inbox EXCEPT ![worker] = IF Alive(worker) THEN Append(@, "stop") ELSE @]

\* A Stop message, or stop() inside the actor's own receive: nobody waits.
RequestStop ==
    /\ worker # 0
    /\ life = "running"
    /\ StopsWorker
    /\ Waking(IF space' THEN {"await space"} ELSE {})
    /\ UNCHANGED <<worker, stopped, cleanup, finisher, finish, thread, delivery, pending, idle,
                   starts, tells, cancels>>

\* stop(): asks for the stop unless somebody has, and waits for the event.
Stop(c) ==
    LET waits == IF stopped THEN NoCall ELSE [call |-> "await stopped", start |-> 0]
    IN  /\ client[c] = NoCall
        /\ \/ /\ worker # 0 /\ life = "running"
              /\ StopsWorker
              /\ WakingThen(IF space' THEN {"await space"} ELSE {}, c, waits)
           \/ /\ \/ worker = 0 /\ life = "stopping"
                 \/ worker # 0 /\ life \in {"stopping", "stopped"}
              /\ Goes(c, waits)
              /\ UNCHANGED <<life, accepting, space, inbox>>
        /\ UNCHANGED <<worker, stopped, cleanup, finisher, finish, thread, delivery, pending, idle,
                       starts, tells, cancels>>

-----------------------------------------------------------------------------
(* ActorRef.tell(): a task waits for space in a loop.  A tell that raises  *)
(* (the actor does not accept, has no worker, or a dead one) ends.         *)

Delivers == ~Full /\ accepting /\ worker # 0 /\ Alive(worker)

Telling(c) ==
    \/ /\ Full /\ accepting
       /\ Goes(c, [call |-> IF space THEN "retry tell" ELSE "await space", start |-> 0])
       /\ UNCHANGED <<inbox, mailbox>>
    \/ /\ Full => ~accepting
       /\ ~Delivers
       /\ Goes(c, NoCall)
       /\ UNCHANGED <<inbox, mailbox>>
    \/ /\ Delivers
       /\ inbox' = [inbox EXCEPT ![worker] = Append(@, "message")]
       /\ pending' = pending + 1
       /\ idle' = FALSE
       /\ space' = (space /\ pending' < Capacity)
       /\ Goes(c, NoCall)

Tell(c) ==
    /\ client[c] = NoCall
    /\ tells < MaxTells
    /\ tells' = tells + 1
    /\ Telling(c)
    /\ UNCHANGED <<lifecycle, thread, delivery, starts, cancels>>

RetryTell(c) ==
    /\ client[c].call = "retry tell"
    /\ Telling(c)
    /\ UNCHANGED <<lifecycle, thread, delivery, starts, tells, cancels>>

\* ActorRef.join(): waits for the event _idle.
Join(c) ==
    /\ client[c] = NoCall
    /\ ~idle
    /\ Goes(c, [call |-> "await idle", start |-> 0])
    /\ UNCHANGED <<lifecycle, pykka, mailbox, starts, tells, cancels>>

-----------------------------------------------------------------------------
(* The Pykka thread of start W, and the loop's side of a delivery.         *)

\* The thread takes a message and submits _deliver to the loop, or takes the
\* stop request and posts _on_pykka_stopped there.
Take(w) ==
    /\ thread[w] = "waiting"
    /\ inbox[w] # <<>>
    /\ inbox' = [inbox EXCEPT ![w] = Tail(@)]
    /\ \/ /\ Head(inbox[w]) = "message"
          /\ thread' = [thread EXCEPT ![w] = "calling"]
          /\ delivery' = [delivery EXCEPT ![w] = "submitted"]
          /\ UNCHANGED finish
       \/ /\ Head(inbox[w]) = "stop"
          /\ thread' = [thread EXCEPT ![w] = "stopped"]
          /\ finish' = [finish EXCEPT ![w] = "posted"]
          /\ UNCHANGED delivery
    /\ UNCHANGED <<life, worker, accepting, stopped, cleanup, finisher, mailbox, client,
                   starts, tells, cancels>>

DeliveryBegins(w) ==
    /\ delivery[w] = "submitted"
    /\ delivery' = [delivery EXCEPT ![w] = "receiving"]
    /\ UNCHANGED <<lifecycle, thread, inbox, mailbox, client, starts, tells, cancels>>

\* ActorRef._completed(), in the finally of _deliver.
Completed ==
    /\ pending' = pending - 1
    /\ space' = TRUE
    /\ idle' = (idle \/ pending' = 0)
    /\ Waking({"await space"} \cup IF idle' THEN {"await idle"} ELSE {})

DeliveryEnds(w) ==
    /\ delivery[w] = "receiving"
    /\ delivery' = [delivery EXCEPT ![w] = "done"]
    /\ Completed
    /\ UNCHANGED <<lifecycle, thread, inbox, starts, tells, cancels>>

\* A cancellation while receive is suspended still completes the message; one
\* that comes before the task's first step does not even enter _deliver.
DeliveryCancelled(w) ==
    /\ cancels < MaxCancels
    /\ cancels' = cancels + 1
    /\ delivery' = [delivery EXCEPT ![w] = "cancelled"]
    /\ \/ delivery[w] = "receiving" /\ Completed
       \/ delivery[w] = "submitted" /\ UNCHANGED <<mailbox, client>>
    /\ UNCHANGED <<lifecycle, thread, inbox, starts, tells>>

\* The thread gets its result.  CancelledError is an Exception there: Pykka
\* ends an actor whose on_receive raises, and calls no on_stop.
ThreadResumes(w) ==
    /\ thread[w] = "calling"
    /\ delivery[w] \in {"done", "cancelled"}
    /\ thread' = [thread EXCEPT ![w] = IF delivery[w] = "done" THEN "waiting" ELSE "killed"]
    /\ delivery' = [delivery EXCEPT ![w] = "none"]
    /\ UNCHANGED <<lifecycle, inbox, mailbox, client, starts, tells, cancels>>

\* Actor._on_pykka_stopped()
OnPykkaStopped(w) ==
    /\ finish[w] = "posted"
    /\ accepting' = FALSE
    /\ space' = TRUE
    /\ life' = IF life = "stopped" THEN life ELSE "stopping"
    /\ finisher' = TRUE
    /\ finish' = [finish EXCEPT ![w] = IF finisher THEN "done" ELSE "scheduled"]
    /\ Waking({"await space"})
    /\ UNCHANGED <<worker, stopped, cleanup, pykka, pending, idle, starts, tells, cancels>>

\* Actor._finish_stop() as a task of its own, up to post_stop.
FinishStop(w) ==
    /\ finish[w] = "scheduled"
    /\ cleanup' = TRUE
    /\ worker' = IF cleanup THEN worker ELSE 0
    /\ finish' = [finish EXCEPT ![w] = IF cleanup THEN "done" ELSE "post_stop"]
    /\ UNCHANGED <<life, accepting, stopped, finisher, pykka, mailbox, client, starts, tells, cancels>>

\* Mutant of FinishStopEnds: a task that waits for the event is not woken.
FinishStopEndsUnseen(w) ==
    /\ finish[w] = "post_stop"
    /\ finish' = [finish EXCEPT ![w] = "done"]
    /\ Ends
    /\ Waking({"await space"})
    /\ UNCHANGED <<worker, cleanup, finisher, pykka, pending, idle, starts, tells, cancels>>

FinishStopEnds(w) ==
    /\ finish[w] = "post_stop"
    /\ finish' = [finish EXCEPT ![w] = "done"]
    /\ Ends
    /\ Waking({"await space", "await stopped"})
    /\ UNCHANGED <<worker, cleanup, finisher, pykka, pending, idle, starts, tells, cancels>>

-----------------------------------------------------------------------------
Calls(c) ==
    \/ Start(c) \/ PreStartReturns(c) \/ PreStartFails(c) \/ FailedStartEnds(c)
    \/ Stop(c) \/ Tell(c) \/ RetryTell(c) \/ Join(c)

\* What goes on without anybody calling: hooks and handlers end, the thread
\* and the loop run.
Runs(w) ==
    \/ Take(w) \/ DeliveryBegins(w) \/ DeliveryEnds(w) \/ ThreadResumes(w)
    \/ OnPykkaStopped(w) \/ FinishStop(w) \/ FinishStopEnds(w)

Next ==
    \/ \E c \in Clients : Calls(c)
    \/ RequestStop
    \/ \E w \in Starts : Runs(w) \/ DeliveryCancelled(w)

Spec == Init /\ [][Next]_vars

FairSpec ==
    /\ Spec
    /\ \A w \in Starts : WF_vars(Runs(w))
    /\ \A c \in Clients : WF_vars(PreStartReturns(c) \/ PreStartFails(c) \/ FailedStartEnds(c))
    /\ \A c \in Clients : WF_vars(RetryTell(c))

-----------------------------------------------------------------------------
(* Properties. *)

\* The places of the messages of W: 0 is its handler, the others its inbox.
Places(w) ==
    {i \in 0..Len(inbox[w]) :
        IF i = 0 THEN delivery[w] \in {"submitted", "receiving"} ELSE inbox[w][i] = "message"}

\* The messages in the inboxes and in the handlers.
Undone == UNION {{w} \X Places(w) : w \in Starts}

\* The events say what the counter says, and unless a delivery was cancelled
\* the counter says what is in the inboxes and in the handlers: so tell never
\* spins on a full mailbox, and join never returns over queued messages.
SignalsAgree ==
    /\ idle <=> pending = 0
    /\ accepting => (space <=> ~Full)
    /\ cancels = 0 => pending = Cardinality(Undone)

\* No task sleeps through what it waits for: it waits for space in a full
\* mailbox of an actor that accepts, for the end of a stop that has not ended,
\* for an idle mailbox while messages are pending.
NoLostWakeup ==
    \A c \in Clients :
        /\ client[c].call = "await space" => Full /\ accepting
        /\ client[c].call = "await stopped" => ~stopped
        /\ client[c].call = "await idle" => pending > 0

\* actor.py:71-98: the events may be trusted: they say what the queue says, and
\* whoever waits for one waits for what has not happened yet.
SignalsTrusted == SignalsAgree /\ NoLostWakeup

\* A call of stop() returns, unless a cancelled delivery killed the thread.
EveryStopReturns ==
    \A c \in Clients :
        client[c].call = "await stopped"
            ~> client[c].call # "await stopped" \/ \E w \in Starts : Killed(w)

\* actor.py:27, "Stop an actor after all earlier mailbox messages are
\* processed": when the actor says it is stopped, all that was told to any of
\* its threads has been handled.
StoppedMeansDrained ==
    life = "stopped" => Undone = {}
=============================================================================
