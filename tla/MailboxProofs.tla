--------------------------- MODULE MailboxProofs ---------------------------
(***************************************************************************)
(* For any clients, mailbox size, number of starts, messages and cancelled *)
(* deliveries: what MailboxActor's counter and events say may be trusted,  *)
(* and an actor that says it is stopped has handled all it was told.       *)
(*                                                                         *)
(* The invariant has two halves.  Counted relates the counter _pending to  *)
(* the messages that are in an inbox or in a handler, and holds however    *)
(* calls of start() overlap.  Phases says, for each state of the           *)
(* lifecycle, which Pykka threads may still be at work, and needs that no  *)
(* start begins before the one before it has ended.                        *)
(***************************************************************************)
EXTENDS MailboxActor, FiniteSetTheorems, TLAPS

\* A delivery that was cancelled before it began keeps its place in the
\* counter, and its thread does not go on.
Lost == \E w \in Starts : thread[w] = "killed" \/ delivery[w] = "cancelled"

\* The thread of a start is made by the start's task, once; it calls the loop
\* while a task delivers its message.
Threads ==
    /\ \A w \in Starts : thread[w] = "none" => inbox[w] = <<>>
    /\ \A w \in Starts : thread[w] = "calling" <=> delivery[w] # "none"
    /\ \A w \in Starts : w > starts => thread[w] = "none"
    /\ \A c \in Clients :
        client[c].call = "pre_start" =>
            client[c].start \in 1..starts /\ thread[client[c].start] = "none"
    /\ \A c, d \in Clients :
        client[c].call = "pre_start" /\ client[d].call = "pre_start" /\ client[c].start = client[d].start
            => c = d

\* The counter counts what is undone, and what was lost.
Counts ==
    /\ IsFiniteSet(Undone)
    /\ pending >= Cardinality(Undone)
    /\ ~Lost => pending = Cardinality(Undone)
    /\ cancels = 0 => ~Lost
    /\ idle <=> pending = 0

\* Who waits for the end of a stop, or of all messages, waits for something.
Waiters ==
    \A c \in Clients :
        /\ client[c].call = "await stopped" => ~stopped
        /\ client[c].call = "await idle" => pending > 0

Counted == TypeOK /\ Threads /\ Counts /\ Waiters

\* Nothing is left of the start W.
Over(w) ==
    /\ thread[w] \in {"none", "stopped"}
    /\ inbox[w] = <<>>
    /\ finish[w] \in {"none", "done"}

OthersOver == \A w \in Starts : w # worker => Over(w)

Hooks == {c \in Clients : client[c].call \in {"pre_start", "post_stop"}}

\* The thread of the actor may take messages, up to a stop request.
Working ==
    /\ worker # 0
    /\ finish[worker] = "none"
    /\ thread[worker] \in {"waiting", "calling", "killed"}
    /\ OthersOver
    /\ Hooks = {}
    /\ ~cleanup
    /\ ~finisher

StopIsLast == \A i \in 1..Len(inbox[worker]) : inbox[worker][i] = "stop" => i = Len(inbox[worker])

\* The thread of the actor took the stop request, and _finish_stop() is due.
Finishing ==
    /\ worker # 0
    /\ finish[worker] \in {"posted", "scheduled"}
    /\ finish[worker] = "posted" => ~finisher
    /\ thread[worker] = "stopped"
    /\ inbox[worker] = <<>>
    /\ OthersOver
    /\ Hooks = {}
    /\ ~cleanup

\* _finish_stop() is in post_stop, in a task of its own or in start().
Cleaning ==
    /\ worker = 0
    /\ \A w \in Starts : thread[w] \in {"none", "stopped"} /\ inbox[w] = <<>>
    /\ \/ /\ Hooks = {}
          /\ \E w \in Starts : finish[w] = "post_stop" /\ \A v \in Starts : v # w => finish[v] \in {"none", "done"}
       \/ /\ \A w \in Starts : finish[w] \in {"none", "done"}
          /\ \E c \in Clients : Hooks = {c} /\ client[c].call = "post_stop"

Rests == worker = 0 /\ OthersOver /\ space

Phases ==
    /\ life \in {"new", "stopped"} => Rests /\ Hooks = {}
    /\ life = "starting" =>
        /\ Rests /\ ~cleanup /\ ~finisher
        /\ \E c \in Clients : Hooks = {c} /\ client[c].call = "pre_start"
    /\ life = "running" =>
        /\ Working
        /\ \A i \in 1..Len(inbox[worker]) : inbox[worker][i] = "message"
        /\ space <=> ~Full
    /\ life = "stopping" => space /\ ((Working /\ StopIsLast) \/ Finishing \/ Cleaning)
    /\ accepting <=> life = "running"

SpaceAwaited == \A c \in Clients : client[c].call = "await space" => Full /\ accepting

\* A start whose thread was not made has nothing to finish.
Unbegun == \A w \in Starts : thread[w] = "none" => finish[w] = "none"

Ordered == Phases /\ SpaceAwaited /\ Unbegun

-----------------------------------------------------------------------------
(* The clients: who is woken, who goes on. *)

ClientType == [Clients -> [call: Call, start: {0} \cup Starts]]

\* The clients other than those in MOVED stay, but for those that are woken.
OthersStay(moved, calls) ==
    \A d \in Clients \ moved :
        \/ client[d].call \notin calls /\ client'[d] = client[d]
        \/ client[d].call \in calls /\ client'[d].call \in {"none", "retry tell"}

\* An event that is set resumes those that wait for it.
LEMMA ResumesType ==
    ASSUME NEW state \in [call: Call, start: {0} \cup Starts]
    PROVE  /\ Resumes(state) \in [call: Call, start: {0} \cup Starts]
           /\ Resumes(state).call \in {"none", "retry tell"}
<1>1. NoCall \in [call: Call, start: {0} \cup Starts] /\ NoCall.call = "none"
  BY DEF NoCall, Call
<1>2. CASE state.call = "await space"
  BY <1>2 DEF Resumes, Call
<1>3. CASE state.call # "await space"
  BY <1>1, <1>3 DEF Resumes
<1>. QED
  BY <1>2, <1>3

\* An event wakes clients and moves no other.
LEMMA WakingClients ==
    ASSUME client \in ClientType, NEW calls, Waking(calls)
    PROVE  client' \in ClientType /\ OthersStay({}, calls)
<1>1. \A c \in Clients : client[c] \in [call: Call, start: {0} \cup Starts]
  BY DEF ClientType
<1>. QED
  BY <1>1, ResumesType DEF Waking, ClientType, OthersStay

\* An event wakes clients while the one that set it goes on.
LEMMA WakingThenClients ==
    ASSUME client \in ClientType, NEW calls, NEW c \in Clients,
           NEW state \in [call: Call, start: {0} \cup Starts], WakingThen(calls, c, state)
    PROVE  client' \in ClientType /\ OthersStay({c}, calls) /\ client'[c] = state
<1>1. \A d \in Clients : client[d] \in [call: Call, start: {0} \cup Starts]
  BY DEF ClientType
<1>. QED
  BY <1>1, ResumesType DEF WakingThen, ClientType, OthersStay

-----------------------------------------------------------------------------
(* The messages that are undone. *)

\* A message that is undone is one of a start, at one of its places.
LEMMA UndoneIs ==
    /\ \A v, i : <<v, i>> \in Undone <=> v \in Starts /\ i \in Places(v)
    /\ \A p \in Undone : \E v \in Starts : \E i \in Places(v) : p = <<v, i>>
BY DEF Undone

\* The same after a step.
LEMMA UndoneIsNext ==
    /\ \A v, i : <<v, i>> \in Undone' <=> v \in Starts /\ i \in Places(v)'
    /\ \A p \in Undone' : \E v \in Starts : \E i \in Places(v)' : p = <<v, i>>
BY DEF Undone

\* What stays in its place stays undone.
LEMMA UndoneSame ==
    ASSUME \A v \in Starts : Places(v)' = Places(v)
    PROVE  Undone' = Undone
BY UndoneIs, UndoneIsNext

\* A message more at one place.
LEMMA UndoneAdds ==
    ASSUME NEW w \in Starts, NEW k, k \notin Places(w), Places(w)' = Places(w) \cup {k},
           \A v \in Starts : v # w => Places(v)' = Places(v)
    PROVE  Undone' = Undone \cup {<<w, k>>} /\ <<w, k>> \notin Undone
BY UndoneIs, UndoneIsNext

\* A message less.
LEMMA UndoneRemoves ==
    ASSUME NEW w \in Starts, NEW k, k \in Places(w), Places(w)' = Places(w) \ {k},
           \A v \in Starts : v # w => Places(v)' = Places(v)
    PROVE  Undone' = Undone \ {<<w, k>>} /\ <<w, k>> \in Undone
BY UndoneIs, UndoneIsNext

\* Moving all messages of a start one place forward keeps their number.
LEMMA UndoneShifts ==
    ASSUME IsFiniteSet(Undone), NEW w \in Starts, Places(w) \subseteq Int,
           Places(w)' = {i - 1 : i \in Places(w)},
           \A v \in Starts : v # w => Places(v)' = Places(v)
    PROVE  IsFiniteSet(Undone') /\ Cardinality(Undone') = Cardinality(Undone)
<1>. DEFINE f == [p \in Undone |-> IF p[1] = w THEN <<w, p[2] - 1>> ELSE p]
<1>1. \A p \in Undone : f[p] \in Undone'
  <2>. SUFFICES ASSUME NEW v \in Starts, NEW i \in Places(v), <<v, i>> \in Undone
                PROVE  f[<<v, i>>] \in Undone'
    BY UndoneIs
  <2>1. f[<<v, i>>] = IF v = w THEN <<w, i - 1>> ELSE <<v, i>>
    OBVIOUS
  <2>. QED
    BY <2>1, UndoneIsNext
<1>2. \A p, q \in Undone : f[p] = f[q] => p = q
  <2>. SUFFICES ASSUME NEW v \in Starts, NEW i \in Places(v), <<v, i>> \in Undone,
                       NEW u \in Starts, NEW j \in Places(u), <<u, j>> \in Undone,
                       f[<<v, i>>] = f[<<u, j>>]
                PROVE  <<v, i>> = <<u, j>>
    BY UndoneIs
  <2>1. /\ f[<<v, i>>] = IF v = w THEN <<w, i - 1>> ELSE <<v, i>>
        /\ f[<<u, j>>] = IF u = w THEN <<w, j - 1>> ELSE <<u, j>>
    OBVIOUS
  <2>. QED
    BY <2>1
<1>3. \A q \in Undone' : \E p \in Undone : f[p] = q
  <2>. SUFFICES ASSUME NEW q \in Undone'
                PROVE  \E p \in Undone : f[p] = q
    OBVIOUS
  <2>0. PICK v \in Starts : \E i \in Places(v)' : q = <<v, i>>
    BY UndoneIsNext
  <2>j. PICK j \in Places(v)' : q = <<v, j>>
    BY <2>0
  <2>1. CASE v = w
    <3>1. PICK i \in Places(w) : j = i - 1
      BY <2>1, <2>j
    <3>2. <<w, i>> \in Undone /\ f[<<w, i>>] = <<w, i - 1>>
      BY UndoneIs
    <3>. QED
      BY <2>1, <2>j, <3>1, <3>2
  <2>2. CASE v # w
    <3>1. <<v, j>> \in Undone /\ f[<<v, j>>] = <<v, j>>
      BY <2>2, <2>j, UndoneIs
    <3>. QED
      BY <2>j, <3>1
  <2>. QED
    BY <2>j, <2>1, <2>2
<1>. f \in [Undone -> Undone']
  BY <1>1
<1>. HIDE DEF f
<1>4. f \in Bijection(Undone, Undone')
  <2>1. f \in Injection(Undone, Undone')
    BY <1>2 DEF Injection, IsInjective
  <2>2. f \in Surjection(Undone, Undone')
    BY <1>3 DEF Surjection
  <2>. QED
    BY <2>1, <2>2 DEF Bijection
<1>5. ExistsBijection(Undone, Undone')
  BY <1>4 DEF ExistsBijection
<1>. QED
  BY <1>5, FS_Bijection

\* A start whose inbox stays, and whose handler is as busy as before, keeps its
\* places.
LEMMA PlacesSame ==
    ASSUME NEW v \in Starts, inbox'[v] = inbox[v],
           delivery'[v] \in {"submitted", "receiving"} <=> delivery[v] \in {"submitted", "receiving"}
    PROVE  Places(v)' = Places(v)
BY DEF Places

\* A stop request at the end of the inbox is no message, and a message there
\* has the last place.
LEMMA PlacesAppended ==
    ASSUME NEW v \in Starts, NEW x \in {"message", "stop"}, inbox[v] \in Seq({"message", "stop"}),
           inbox'[v] = Append(inbox[v], x), UNCHANGED delivery
    PROVE  /\ Len(inbox[v]) + 1 \notin Places(v)
           /\ Places(v)' = Places(v) \cup IF x = "message" THEN {Len(inbox[v]) + 1} ELSE {}
<1>1. /\ Len(inbox[v]) \in Nat /\ Len(inbox'[v]) = Len(inbox[v]) + 1
      /\ \A i \in 1..Len(inbox[v]) : inbox'[v][i] = inbox[v][i]
      /\ inbox'[v][Len(inbox[v]) + 1] = x
  OBVIOUS
<1>2. \A i \in 0..Len(inbox[v]) : i \in Places(v)' <=> i \in Places(v)
  BY <1>1 DEF Places
<1>3. Len(inbox[v]) + 1 \in Places(v)' <=> x = "message"
  BY <1>1 DEF Places
<1>4. Places(v) \subseteq 0..Len(inbox[v]) /\ Places(v)' \subseteq 0..(Len(inbox[v]) + 1)
  BY <1>1 DEF Places
<1>5. 0..(Len(inbox[v]) + 1) = 0..Len(inbox[v]) \cup {Len(inbox[v]) + 1}
  BY <1>1
<1>6. Len(inbox[v]) + 1 \notin Places(v)
  BY <1>1 DEF Places
<1>. QED
  BY <1>2, <1>3, <1>4, <1>5, <1>6

\* No message comes or goes.
LEMMA CountsSame ==
    ASSUME Counts, UNCHANGED <<pending, idle, cancels>>, Undone' = Undone, Lost' <=> Lost
    PROVE  Counts'
BY DEF Counts

\* The threads and their inboxes stay.
LEMMA CountsStay ==
    ASSUME Counts, UNCHANGED <<pending, idle, cancels, pykka>>
    PROVE  Counts'
<1>1. UNCHANGED <<thread, inbox, delivery>>
  BY DEF pykka
<1>2. Undone' = Undone
  BY <1>1 DEF Undone, Places
<1>3. Lost' <=> Lost
  BY <1>1 DEF Lost
<1>. QED
  BY <1>2, <1>3, CountsSame

\* Nobody begins a start, and no inbox but that of a thread is filled.
LEMMA ThreadsStay ==
    ASSUME Threads, UNCHANGED <<thread, delivery, starts>>,
           \A w \in Starts : thread[w] = "none" => inbox'[w] = inbox[w],
           \A c \in Clients : client'[c].call = "pre_start" => client'[c] = client[c]
    PROVE  Threads'
BY DEF Threads

\* A client begins no start, and waits for nothing that has happened.
Steady(c) ==
    /\ client'[c].call = "pre_start" => client'[c] = client[c]
    /\ client'[c].call = "await stopped" => ~stopped'
    /\ client'[c].call = "await idle" => pending' > 0

\* The clients that stay, or are woken, are steady when an event that happens
\* wakes those that wait for it.
LEMMA OthersSteady ==
    ASSUME Waiters, NEW moved, NEW calls, OthersStay(moved, calls),
           stopped' => stopped \/ "await stopped" \in calls,
           pending > 0 => pending' > 0 \/ "await idle" \in calls
    PROVE  \A c \in Clients \ moved : Steady(c)
BY DEF Waiters, OthersStay, Steady

\* A step that leaves the mailbox and the threads alone.
LEMMA QuietCounted ==
    ASSUME Counted, TypeOK', UNCHANGED <<pykka, pending, idle, cancels, starts>>,
           \A c \in Clients : Steady(c)
    PROVE  Counted'
<1>1. UNCHANGED <<thread, inbox, delivery>>
  BY DEF pykka
<1>2. Threads'
  BY <1>1, ThreadsStay DEF Counted, Steady
<1>3. Counts'
  BY CountsStay DEF Counted
<1>4. Waiters'
  BY DEF Waiters, Steady
<1>. QED
  BY <1>2, <1>3, <1>4 DEF Counted

-----------------------------------------------------------------------------
(* The counter, action by action. *)

\* A start begins: it gets a number nobody had.
LEMMA StartCounted ==
    ASSUME Counted, NEW c \in Clients, Start(c)
    PROVE  Counted'
<1>. USE DEF Counted, pykka, mailbox
<1>. DEFINE state == [call |-> "pre_start", start |-> starts + 1]
<1>t. /\ client \in ClientType /\ starts \in 0..MaxStarts /\ MaxStarts \in Nat
  BY MailboxAssumption DEF TypeOK, ClientType
<1>n. starts + 1 \in Starts /\ state \in [call: Call, start: {0} \cup Starts]
  BY <1>t DEF Start, Starts, Call
<1>c. client' \in ClientType /\ OthersStay({c}, {}) /\ client'[c] = state
  <2>1. WakingThen({}, c, state)
    BY DEF Start, Goes
  <2>. QED
    BY <1>t, <1>n, <2>1, WakingThenClients
<1>1. TypeOK'
  <2>1. starts' \in 0..MaxStarts
    BY <1>t, <1>n DEF Start, Starts
  <2>. QED
    BY <1>c, <2>1 DEF Start, TypeOK, ClientType
<1>2. Threads'
  <2>1. \A d \in Clients : d # c => client'[d] = client[d]
    BY <1>c DEF OthersStay
  <2>2. starts' = starts + 1 /\ UNCHANGED <<thread, inbox, delivery>>
    BY DEF Start
  <2>3. \A w \in Starts : w \in Int
    BY <1>t DEF Starts
  <2>4. thread'[starts + 1] = "none"
    BY <1>t, <1>n, <2>2, <2>3 DEF Threads
  <2>5. \A d \in Clients : client[d].call = "pre_start" => client[d].start \in 1..starts
    BY DEF Threads
  <2>. QED
    BY <1>c, <1>t, <2>1, <2>2, <2>3, <2>4, <2>5 DEF Threads
<1>3. Counts'
  BY CountsStay DEF Start
<1>4. Waiters'
  <2>1. \A d \in Clients : d # c => client'[d] = client[d]
    BY <1>c DEF OthersStay
  <2>2. client'[c].call = "pre_start" /\ ~stopped' /\ pending' = pending
    BY <1>c DEF Start
  <2>. QED
    BY <2>1, <2>2 DEF Waiters
<1>. QED
  BY <1>1, <1>2, <1>3, <1>4

\* The Pykka actor of a start is made: its thread has no message yet.
LEMMA PreStartReturnsCounted ==
    ASSUME Counted, NEW c \in Clients, PreStartReturns(c)
    PROVE  Counted'
<1>. USE DEF Counted, mailbox
<1>. DEFINE w == client[c].start
<1>t. client \in ClientType /\ thread \in [Starts -> {"none", "waiting", "calling", "stopped", "killed"}]
  BY DEF TypeOK, ClientType
<1>n. NoCall \in [call: Call, start: {0} \cup Starts] /\ NoCall.call = "none"
  BY DEF NoCall, Call
<1>w. w \in Starts /\ w \in 1..starts /\ thread[w] = "none" /\ inbox[w] = <<>> /\ delivery[w] = "none"
  <2>1. w \in 1..starts /\ thread[w] = "none" /\ starts \in 0..MaxStarts /\ MaxStarts \in Nat
    BY MailboxAssumption DEF PreStartReturns, Threads, TypeOK
  <2>2. w \in Starts
    BY <2>1 DEF Starts
  <2>. QED
    BY <2>1, <2>2 DEF Threads
<1>c. client' \in ClientType /\ OthersStay({c}, {}) /\ client'[c] = NoCall
  <2>1. WakingThen({}, c, NoCall)
    BY DEF PreStartReturns, Goes
  <2>. QED
    BY <1>t, <1>n, <2>1, WakingThenClients
<1>o. \A d \in Clients : d # c => client'[d] = client[d]
  BY <1>c DEF OthersStay
<1>h. thread' = [thread EXCEPT ![w] = "waiting"] /\ UNCHANGED <<inbox, delivery, pending, idle, cancels, starts, stopped>>
  BY DEF PreStartReturns
<1>1. TypeOK'
  <2>1. worker' \in {0} \cup Starts /\ life' = "running" /\ accepting' \in BOOLEAN
    BY <1>w DEF PreStartReturns
  <2>2. thread' \in [Starts -> {"none", "waiting", "calling", "stopped", "killed"}]
    BY <1>t, <1>h
  <2>. QED
    BY <1>c, <2>1, <2>2 DEF PreStartReturns, TypeOK, ClientType
<1>2. Threads'
  <2>1. \A v \in Starts : thread'[v] = IF v = w THEN "waiting" ELSE thread[v]
    BY <1>t, <1>h
  <2>2. \A v \in Starts : v > starts => v # w
    BY <1>w DEF TypeOK
  <2>3. \A d \in Clients : client'[d].call = "pre_start" =>
          d # c /\ client'[d] = client[d] /\ client[d].start \in Starts /\ client[d].start # w
    <3>1. \A d \in Clients : client[d].call = "pre_start" /\ d # c => client[d].start # w
      BY DEF Threads, PreStartReturns
    <3>2. \A d \in Clients : client[d].call = "pre_start" => client[d].start \in Starts
      <4>1. \A d \in Clients : client[d].call = "pre_start" => client[d].start \in 1..starts
        BY DEF Threads
      <4>2. starts \in 0..MaxStarts /\ MaxStarts \in Nat
        BY MailboxAssumption DEF TypeOK
      <4>. QED
        BY <4>1, <4>2 DEF Starts
    <3>. QED
      BY <1>c, <1>o, <1>n, <3>1, <3>2
  <2>. QED
    BY <1>h, <1>w, <2>1, <2>2, <2>3 DEF Threads
<1>3. Counts'
  <2>1. Undone' = Undone
    BY <1>h DEF Undone, Places
  <2>2. Lost' <=> Lost
    BY <1>h, <1>w, <1>t DEF Lost
  <2>. QED
    BY <1>h, <2>1, <2>2, CountsSame
<1>4. Waiters'
  BY <1>c, <1>o, <1>h, <1>n DEF Waiters
<1>. QED
  BY <1>1, <1>2, <1>3, <1>4

\* What a client may be doing.
LEMMA CallsType ==
    /\ NoCall \in [call: Call, start: {0} \cup Starts] /\ NoCall.call = "none"
    /\ \A k \in Call : [call |-> k, start |-> 0] \in [call: Call, start: {0} \cup Starts]
BY DEF NoCall, Call

\* A start that failed goes on to post_stop.
LEMMA PreStartFailsCounted ==
    ASSUME Counted, NEW c \in Clients, PreStartFails(c)
    PROVE  Counted'
<1>. DEFINE state == IF cleanup THEN NoCall ELSE [client[c] EXCEPT !.call = "post_stop"]
<1>t. client \in ClientType
  BY DEF Counted, TypeOK, ClientType
<1>n. state \in [call: Call, start: {0} \cup Starts] /\ state.call \in {"none", "post_stop"}
  <2>1. client[c] \in [call: Call, start: {0} \cup Starts]
    BY <1>t DEF ClientType
  <2>. QED
    BY <2>1, CallsType DEF Call
<1>c. client' \in ClientType /\ OthersStay({c}, {}) /\ client'[c] = state
  <2>1. WakingThen({}, c, state)
    BY DEF PreStartFails, Goes
  <2>. HIDE DEF state
  <2>. QED
    BY <1>t, <1>n, <2>1, WakingThenClients
<1>1. TypeOK'
  BY <1>c DEF Counted, PreStartFails, TypeOK, ClientType, pykka, mailbox
<1>2. UNCHANGED <<pykka, pending, idle, cancels, starts, stopped>>
  BY DEF PreStartFails, mailbox
<1>3. Steady(c)
  <2>. HIDE DEF state
  <2>. QED
    BY <1>c, <1>n DEF Steady
<1>4. \A d \in Clients \ {c} : Steady(d)
  BY <1>c, <1>2, OthersSteady DEF Counted
<1>. QED
  BY <1>1, <1>2, <1>3, <1>4, QuietCounted

\* The actor of a start that failed is stopped.
LEMMA FailedStartEndsCounted ==
    ASSUME Counted, NEW c \in Clients, FailedStartEnds(c)
    PROVE  Counted'
<1>t. client \in ClientType
  BY DEF Counted, TypeOK, ClientType
<1>c. client' \in ClientType /\ OthersStay({c}, {"await space", "await stopped"}) /\ client'[c] = NoCall
  BY <1>t, CallsType, WakingThenClients DEF FailedStartEnds
<1>1. TypeOK'
  BY <1>c DEF Counted, FailedStartEnds, Ends, TypeOK, ClientType, pykka
<1>2. UNCHANGED <<pykka, pending, idle, cancels, starts>>
  BY DEF FailedStartEnds
<1>3. Steady(c)
  BY <1>c, CallsType DEF Steady
<1>4. \A d \in Clients \ {c} : Steady(d)
  BY <1>c, <1>2, OthersSteady DEF Counted
<1>. QED
  BY <1>1, <1>2, <1>3, <1>4, QuietCounted

\* A task waits for an idle mailbox.
LEMMA JoinCounted ==
    ASSUME Counted, NEW c \in Clients, Join(c)
    PROVE  Counted'
<1>t. client \in ClientType /\ pending > 0
  <2>1. pending \in 0..Capacity /\ Capacity \in Nat
    BY Zenon, MailboxAssumption DEF Counted, TypeOK
  <2>2. pending # 0
    BY DEF Counted, Counts, Join
  <2>. QED
    BY <2>1, <2>2 DEF Counted, TypeOK, ClientType
<1>n. [call |-> "await idle", start |-> 0] \in [call: Call, start: {0} \cup Starts]
  BY CallsType DEF Call
<1>c. client' \in ClientType /\ OthersStay({c}, {}) /\ client'[c] = [call |-> "await idle", start |-> 0]
  BY <1>t, <1>n, WakingThenClients DEF Join, Goes
<1>2. UNCHANGED <<lifecycle, pykka, mailbox, starts, tells, cancels>>
  BY DEF Join
<1>1. TypeOK'
  BY <1>c, <1>2 DEF Counted, TypeOK, ClientType, lifecycle, pykka, mailbox
<1>3. Steady(c)
  <2>1. pending' > 0
    BY <1>2, <1>t DEF mailbox
  <2>2. [call |-> "await idle", start |-> 0].call = "await idle"
    OBVIOUS
  <2>. QED
    BY <1>c, <2>1, <2>2 DEF Steady
<1>4. \A d \in Clients \ {c} : Steady(d)
  BY <1>c, <1>2, OthersSteady DEF Counted, lifecycle, mailbox
<1>. QED
  BY <1>1, <1>2, <1>3, <1>4, QuietCounted DEF mailbox

\* The loop learns that a Pykka thread has stopped.
LEMMA OnPykkaStoppedCounted ==
    ASSUME Counted, NEW w \in Starts, OnPykkaStopped(w)
    PROVE  Counted'
<1>t. client \in ClientType
  BY DEF Counted, TypeOK, ClientType
<1>c. client' \in ClientType /\ OthersStay({}, {"await space"})
  BY <1>t, WakingClients DEF OnPykkaStopped
<1>1. TypeOK'
  BY <1>c DEF Counted, OnPykkaStopped, TypeOK, ClientType, pykka
<1>2. UNCHANGED <<pykka, pending, idle, cancels, starts, stopped>>
  BY DEF OnPykkaStopped
<1>3. \A d \in Clients \ {} : Steady(d)
  BY <1>c, <1>2, OthersSteady DEF Counted
<1>4. \A d \in Clients : Steady(d)
  BY <1>3
<1>. QED
  BY <1>1, <1>2, <1>4, QuietCounted

\* _finish_stop() begins as a task.
LEMMA FinishStopCounted ==
    ASSUME Counted, NEW w \in Starts, FinishStop(w)
    PROVE  Counted'
<1>1. TypeOK'
  BY DEF Counted, FinishStop, TypeOK, pykka, mailbox
<1>2. UNCHANGED <<pykka, pending, idle, cancels, starts, client, stopped>>
  BY DEF FinishStop, mailbox
<1>3. \A d \in Clients : Steady(d)
  BY <1>2 DEF Steady, Counted, Waiters
<1>. QED
  BY <1>1, <1>2, <1>3, QuietCounted

\* _finish_stop() ends.
LEMMA FinishStopEndsCounted ==
    ASSUME Counted, NEW w \in Starts, FinishStopEnds(w)
    PROVE  Counted'
<1>t. client \in ClientType
  BY DEF Counted, TypeOK, ClientType
<1>c. client' \in ClientType /\ OthersStay({}, {"await space", "await stopped"})
  BY <1>t, WakingClients DEF FinishStopEnds
<1>1. TypeOK'
  BY <1>c DEF Counted, FinishStopEnds, Ends, TypeOK, ClientType, pykka
<1>2. UNCHANGED <<pykka, pending, idle, cancels, starts>>
  BY DEF FinishStopEnds
<1>3. \A d \in Clients \ {} : Steady(d)
  BY <1>c, <1>2, OthersSteady DEF Counted
<1>4. \A d \in Clients : Steady(d)
  BY <1>3
<1>. QED
  BY <1>1, <1>2, <1>4, QuietCounted

\* The thread of the actor is asked to stop.
LEMMA StopsWorkerCounted ==
    ASSUME Counted, TypeOK', worker # 0, StopsWorker,
           UNCHANGED <<thread, delivery, pending, idle, cancels, starts>>,
           \A c \in Clients : Steady(c)
    PROVE  Counted'
<1>t. inbox \in [Starts -> Seq({"message", "stop"})] /\ worker \in Starts
  BY DEF Counted, TypeOK
<1>i. \/ inbox' = inbox
      \/ Alive(worker) /\ inbox' = [inbox EXCEPT ![worker] = Append(@, "stop")]
  BY <1>t DEF StopsWorker
<1>o. \A v \in Starts : v # worker => inbox'[v] = inbox[v]
  BY <1>i, <1>t
<1>1. Threads'
  <2>1. \A v \in Starts : thread[v] = "none" => inbox'[v] = inbox[v]
    BY <1>i, <1>t DEF Alive
  <2>. QED
    BY <2>1, ThreadsStay DEF Counted, Steady
<1>2. Undone' = Undone
  <2>. SUFFICES ASSUME NEW v \in Starts
                PROVE  Places(v)' = Places(v)
    BY UndoneSame
  <2>1. CASE inbox'[v] = inbox[v]
    BY <2>1, PlacesSame
  <2>2. CASE inbox'[v] # inbox[v]
    <3>1. inbox[v] \in Seq({"message", "stop"}) /\ inbox'[v] = Append(inbox[v], "stop")
      BY <2>2, <1>t, <1>i
    <3>. QED
      BY <3>1, PlacesAppended
  <2>. QED
    BY <2>1, <2>2
<1>3. Counts'
  <2>1. Lost' <=> Lost
    BY DEF Lost
  <2>. QED
    BY <1>2, <2>1, CountsSame DEF Counted
<1>4. Waiters'
  BY DEF Waiters, Steady
<1>. QED
  BY <1>1, <1>3, <1>4 DEF Counted

\* A stop request keeps the types of what it changes.
LEMMA StopsWorkerType ==
    ASSUME TypeOK, worker # 0, StopsWorker
    PROVE  /\ life' = "stopping" /\ {accepting', space'} \subseteq BOOLEAN
           /\ inbox' \in [Starts -> Seq({"message", "stop"})]
<1>1. inbox \in [Starts -> Seq({"message", "stop"})] /\ worker \in Starts
  BY DEF TypeOK
<1>2. inbox' \in [Starts -> Seq({"message", "stop"})]
  <2>1. inbox[worker] \in Seq({"message", "stop"}) /\ Append(inbox[worker], "stop") \in Seq({"message", "stop"})
    BY <1>1
  <2>. QED
    BY <1>1, <2>1 DEF StopsWorker
<1>. QED
  BY <1>2 DEF StopsWorker

\* A Stop message is handled.
LEMMA RequestStopCounted ==
    ASSUME Counted, RequestStop
    PROVE  Counted'
<1>t. client \in ClientType /\ worker # 0 /\ StopsWorker
  BY DEF Counted, TypeOK, ClientType, RequestStop
<1>c. client' \in ClientType /\ OthersStay({}, IF space' THEN {"await space"} ELSE {})
  BY <1>t, WakingClients DEF RequestStop
<1>2. UNCHANGED <<worker, stopped, cleanup, finisher, finish, thread, delivery, pending, idle, starts, tells, cancels>>
  BY DEF RequestStop
<1>1. TypeOK'
  BY <1>t, <1>c, <1>2, StopsWorkerType DEF Counted, TypeOK, ClientType
<1>3. \A d \in Clients \ {} : Steady(d)
  BY <1>c, <1>2, OthersSteady DEF Counted
<1>4. \A d \in Clients : Steady(d)
  BY <1>3
<1>. QED
  BY <1>t, <1>1, <1>2, <1>4, StopsWorkerCounted

\* A task stops the actor, or waits for the stop that somebody asked for.
LEMMA StopCounted ==
    ASSUME Counted, NEW c \in Clients, Stop(c)
    PROVE  Counted'
<1>. DEFINE waits == IF stopped THEN NoCall ELSE [call |-> "await stopped", start |-> 0]
<1>t. client \in ClientType
  BY DEF Counted, TypeOK, ClientType
<1>w. waits \in [call: Call, start: {0} \cup Starts] /\ waits.call # "pre_start" /\ waits.call # "await idle"
        /\ (waits.call = "await stopped" => ~stopped)
  BY CallsType DEF Call, NoCall
<1>2. UNCHANGED <<worker, stopped, cleanup, finisher, finish, thread, delivery, pending, idle, starts, tells, cancels>>
  BY DEF Stop
<1>3. \/ /\ worker # 0 /\ StopsWorker
         /\ WakingThen(IF space' THEN {"await space"} ELSE {}, c, waits)
      \/ /\ WakingThen({}, c, waits)
         /\ UNCHANGED <<life, accepting, space, inbox>>
  BY DEF Stop, Goes
<1>. HIDE DEF waits
<1>4. ASSUME NEW calls, calls \subseteq {"await space"}, WakingThen(calls, c, waits)
      PROVE  client' \in ClientType /\ \A d \in Clients : Steady(d)
  <2>1. client' \in ClientType /\ OthersStay({c}, calls) /\ client'[c] = waits
    BY <1>4, <1>t, <1>w, WakingThenClients
  <2>2. \A d \in Clients \ {c} : Steady(d)
    BY <2>1, <1>2, OthersSteady DEF Counted
  <2>3. Steady(c)
    BY <2>1, <1>w, <1>2 DEF Steady
  <2>. QED
    BY <2>1, <2>2, <2>3
<1>5. CASE worker # 0 /\ StopsWorker /\ WakingThen(IF space' THEN {"await space"} ELSE {}, c, waits)
  <2>1. client' \in ClientType /\ \A d \in Clients : Steady(d)
    BY <1>4, <1>5
  <2>2. TypeOK'
    BY <1>5, <1>2, <2>1, StopsWorkerType DEF Counted, TypeOK, ClientType
  <2>. QED
    BY <1>5, <1>2, <2>1, <2>2, StopsWorkerCounted
<1>6. CASE WakingThen({}, c, waits) /\ UNCHANGED <<life, accepting, space, inbox>>
  <2>1. client' \in ClientType /\ \A d \in Clients : Steady(d)
    BY <1>4, <1>6
  <2>2. TypeOK'
    BY <1>6, <1>2, <2>1 DEF Counted, TypeOK, ClientType
  <2>. QED
    BY <1>6, <1>2, <2>1, <2>2, QuietCounted DEF pykka
<1>. QED
  BY <1>3, <1>5, <1>6

\* The numbers that the counter and the set of messages are.
LEMMA Numbers ==
    ASSUME Counted
    PROVE  /\ pending \in Nat /\ pending <= Capacity /\ Capacity \in Nat \ {0}
           /\ Cardinality(Undone) \in Nat /\ IsFiniteSet(Undone)
<1>1. pending \in 0..Capacity /\ Capacity \in Nat \ {0}
  BY Zenon, MailboxAssumption DEF Counted, TypeOK
<1>2. IsFiniteSet(Undone)
  BY DEF Counted, Counts
<1>. QED
  BY <1>1, <1>2, FS_CardinalityType

\* A message is delivered to the thread of the actor.
Delivered ==
    /\ Delivers
    /\ inbox' = [inbox EXCEPT ![worker] = Append(@, "message")]
    /\ pending' = pending + 1
    /\ idle' = FALSE
    /\ space' = (space /\ pending' < Capacity)

\* A message more is counted.
LEMMA DeliveredCounts ==
    ASSUME Counted, Delivered, UNCHANGED <<thread, delivery, cancels>>
    PROVE  Counts' /\ pending' \in 0..Capacity /\ pending' > 0
<1>t. inbox \in [Starts -> Seq({"message", "stop"})] /\ worker \in Starts
  BY DEF Counted, TypeOK, Delivered, Delivers
<1>n. /\ pending \in Nat /\ pending <= Capacity /\ Capacity \in Nat \ {0} /\ ~(pending >= Capacity)
      /\ Cardinality(Undone) \in Nat /\ IsFiniteSet(Undone)
  BY Numbers DEF Delivered, Delivers, Full
<1>p. pending' = pending + 1 /\ ~idle'
  BY DEF Delivered
<1>u. \E k : \E w \in Starts : Undone' = Undone \cup {<<w, k>>} /\ <<w, k>> \notin Undone
  <2>1. PICK w \in Starts : w = worker
    BY <1>t
  <2>2. inbox[w] \in Seq({"message", "stop"}) /\ inbox'[w] = Append(inbox[w], "message")
          /\ \A v \in Starts : v # w => inbox'[v] = inbox[v]
    BY <2>1, <1>t DEF Delivered
  <2>k. PICK k : k = Len(inbox[w]) + 1
    OBVIOUS
  <2>3. Places(w)' = Places(w) \cup {k} /\ k \notin Places(w)
    BY <2>2, <2>k, PlacesAppended DEF Delivered
  <2>4. \A v \in Starts : v # w => Places(v)' = Places(v)
    BY <2>2, PlacesSame
  <2>. QED
    BY <2>3, <2>4, UndoneAdds
<1>c. IsFiniteSet(Undone') /\ Cardinality(Undone') = Cardinality(Undone) + 1
  BY <1>u, <1>n, FS_AddElement
<1>l. Lost' <=> Lost
  BY DEF Lost
<1>. QED
  BY <1>n, <1>p, <1>c, <1>l DEF Counted, Counts

\* A message is told, waits for space, or is refused.
LEMMA TellingCounted ==
    ASSUME Counted, NEW c \in Clients, Telling(c),
           UNCHANGED <<lifecycle, thread, delivery, starts, cancels>>, tells' \in 0..MaxTells
    PROVE  Counted'
<1>t. client \in ClientType /\ inbox \in [Starts -> Seq({"message", "stop"})]
  BY DEF Counted, TypeOK, ClientType
<1>u. UNCHANGED <<life, worker, accepting, stopped, cleanup, finisher, finish>>
  BY DEF lifecycle
<1>1. ASSUME NEW state \in [call: Call, start: {0} \cup Starts],
             state.call \in {"none", "retry tell", "await space"}, Goes(c, state),
             pending > 0 => pending' > 0
      PROVE  client' \in ClientType /\ \A d \in Clients : Steady(d)
  <2>1. client' \in ClientType /\ OthersStay({c}, {}) /\ client'[c] = state
    BY <1>1, <1>t, WakingThenClients DEF Goes
  <2>2. \A d \in Clients \ {c} : Steady(d)
    BY <2>1, <1>1, <1>u, OthersSteady DEF Counted
  <2>3. Steady(c)
    BY <2>1, <1>1 DEF Steady
  <2>. QED
    BY <2>1, <2>2, <2>3
<1>2. CASE UNCHANGED <<inbox, mailbox>>
  <2>0. PICK state \in [call: Call, start: {0} \cup Starts] :
            state.call \in {"none", "retry tell", "await space"} /\ Goes(c, state)
    <3>1. \A k \in {"retry tell", "await space"} :
            /\ [call |-> k, start |-> 0] \in [call: Call, start: {0} \cup Starts]
            /\ [call |-> k, start |-> 0].call = k
      BY CallsType DEF Call
    <3>. QED
      BY <3>1, CallsType DEF Telling
  <2>1. UNCHANGED <<pending, idle, space, inbox>>
    BY <1>2 DEF mailbox
  <2>2. client' \in ClientType /\ \A d \in Clients : Steady(d)
    BY <1>1, <2>0, <2>1
  <2>3. TypeOK'
    BY <1>u, <2>1, <2>2 DEF Counted, TypeOK, ClientType
  <2>. QED
    BY <2>1, <2>2, <2>3, QuietCounted DEF pykka
<1>3. CASE Delivered /\ Goes(c, NoCall)
  <2>0. Counts' /\ pending' \in 0..Capacity /\ pending' > 0
    BY <1>3, DeliveredCounts
  <2>1. client' \in ClientType /\ \A d \in Clients : Steady(d)
    BY <1>1, <1>3, <2>0, CallsType
  <2>2. worker \in Starts /\ thread[worker] # "none"
    BY <1>3 DEF Delivered, Delivers, Alive, Counted, TypeOK
  <2>3. TypeOK'
    <3>1. inbox' \in [Starts -> Seq({"message", "stop"})]
      <4>1. inbox[worker] \in Seq({"message", "stop"}) /\ Append(inbox[worker], "message") \in Seq({"message", "stop"})
        BY <1>t, <2>2
      <4>. QED
        BY <1>t, <1>3, <4>1 DEF Delivered
    <3>2. {idle', space'} \subseteq BOOLEAN
      BY <1>3 DEF Delivered
    <3>. QED
      BY <1>u, <2>0, <2>1, <3>1, <3>2 DEF Counted, TypeOK, ClientType
  <2>4. Threads'
    <3>1. \A w \in Starts : thread[w] = "none" => inbox'[w] = inbox[w]
      BY <1>3, <1>t, <2>2 DEF Delivered
    <3>. QED
      BY <2>1, <3>1, ThreadsStay DEF Counted, Steady
  <2>5. Waiters'
    BY <2>1 DEF Waiters, Steady
  <2>. QED
    BY <2>0, <2>3, <2>4, <2>5 DEF Counted
<1>. QED
  BY <1>2, <1>3 DEF Telling, Delivered

\* A call of tell(), and a task that tries again.
LEMMA TellCounted ==
    ASSUME Counted, NEW c \in Clients, Tell(c) \/ RetryTell(c)
    PROVE  Counted'
<1>1. tells \in 0..MaxTells /\ MaxTells \in Nat
  BY Zenon, MailboxAssumption DEF Counted, TypeOK
<1>2. tells' = tells \/ (tells < MaxTells /\ tells' = tells + 1)
  BY DEF Tell, RetryTell
<1>3. tells' \in 0..MaxTells
  BY <1>1, <1>2
<1>. QED
  BY <1>3, TellingCounted DEF Tell, RetryTell

\* The thread takes the first of its inbox: a message goes from there to the
\* handler.
LEMMA TakeCounted ==
    ASSUME Counted, NEW w \in Starts, Take(w)
    PROVE  Counted'
<1>t. /\ inbox \in [Starts -> Seq({"message", "stop"})]
      /\ thread \in [Starts -> {"none", "waiting", "calling", "stopped", "killed"}]
      /\ delivery \in [Starts -> {"none", "submitted", "receiving", "done", "cancelled"}]
      /\ finish \in [Starts -> {"none", "posted", "scheduled", "post_stop", "done"}]
  BY DEF Counted, TypeOK
<1>u. UNCHANGED <<life, worker, accepting, stopped, cleanup, finisher, pending, idle, space, client, starts, tells, cancels>>
  BY DEF Take, mailbox
<1>w. thread[w] = "waiting" /\ delivery[w] = "none" /\ inbox[w] # <<>> /\ inbox[w] \in Seq({"message", "stop"})
  BY <1>t DEF Take, Counted, Threads
<1>i. inbox'[w] = Tail(inbox[w]) /\ Tail(inbox[w]) \in Seq({"message", "stop"})
        /\ \A v \in Starts : v # w => inbox'[v] = inbox[v]
  BY <1>t, <1>w DEF Take
<1>m. \/ /\ Head(inbox[w]) = "message"
         /\ thread' = [thread EXCEPT ![w] = "calling"]
         /\ delivery' = [delivery EXCEPT ![w] = "submitted"]
         /\ UNCHANGED finish
      \/ /\ Head(inbox[w]) = "stop"
         /\ thread' = [thread EXCEPT ![w] = "stopped"]
         /\ finish' = [finish EXCEPT ![w] = "posted"]
         /\ UNCHANGED delivery
  BY DEF Take
<1>1. TypeOK'
  <2>1. inbox' \in [Starts -> Seq({"message", "stop"})]
    BY <1>t, <1>i DEF Take
  <2>2. /\ thread' \in [Starts -> {"none", "waiting", "calling", "stopped", "killed"}]
        /\ delivery' \in [Starts -> {"none", "submitted", "receiving", "done", "cancelled"}]
        /\ finish' \in [Starts -> {"none", "posted", "scheduled", "post_stop", "done"}]
    BY <1>t, <1>m
  <2>. QED
    BY <1>u, <2>1, <2>2 DEF Counted, TypeOK
<1>2. Threads'
  <2>1. \A v \in Starts : thread'[v] = "none" => thread[v] = "none" /\ v # w
    BY <1>t, <1>m, <1>w
  <2>2. \A v \in Starts : thread[v] = "none" => thread'[v] = "none"
    BY <1>t, <1>m, <1>w
  <2>3. \A v \in Starts : thread'[v] = "calling" <=> delivery'[v] # "none"
    <3>1. \A v \in Starts : thread[v] = "calling" <=> delivery[v] # "none"
      BY DEF Counted, Threads
    <3>. QED
      BY <1>t, <1>m, <1>w, <3>1
  <2>4. \A c \in Clients : client[c].call = "pre_start" => client[c].start \in Starts
    <3>1. \A c \in Clients : client[c].call = "pre_start" => client[c].start \in 1..starts
      BY DEF Counted, Threads
    <3>2. starts \in 0..MaxStarts /\ MaxStarts \in Nat
      BY Zenon, MailboxAssumption DEF Counted, TypeOK
    <3>. QED
      BY <3>1, <3>2 DEF Starts
  <2>. QED
    BY <1>i, <1>u, <2>1, <2>2, <2>3, <2>4 DEF Counted, Threads
<1>3. Counts'
  <2>p. /\ Len(inbox[w]) \in Nat \ {0} /\ Len(inbox'[w]) = Len(inbox[w]) - 1
        /\ \A i \in 1..Len(inbox'[w]) : inbox'[w][i] = inbox[w][i + 1]
        /\ Head(inbox[w]) = inbox[w][1]
    BY <1>w, <1>i
  <2>1. Places(w)' = {i - 1 : i \in Places(w)}
    <3>1. Places(w) = {i \in 1..Len(inbox[w]) : inbox[w][i] = "message"}
      BY <1>w, <2>p DEF Places
    <3>2. 0 \in Places(w)' <=> inbox[w][1] = "message"
      BY <1>t, <1>m, <1>w, <2>p DEF Places
    <3>3. \A i \in 1..Len(inbox'[w]) : i \in Places(w)' <=> inbox[w][i + 1] = "message"
      BY <2>p DEF Places
    <3>4. Places(w)' \subseteq 0..Len(inbox'[w])
      BY DEF Places
    <3>5. \A i \in Places(w)' : i + 1 \in Places(w) /\ i = (i + 1) - 1
      BY <2>p, <3>1, <3>2, <3>3, <3>4
    <3>6. \A i \in Places(w) : i - 1 \in Places(w)'
      <4>. SUFFICES ASSUME NEW i \in 1..Len(inbox[w]), inbox[w][i] = "message"
                    PROVE  i - 1 \in Places(w)'
        BY <3>1
      <4>1. CASE i = 1
        BY <4>1, <3>2
      <4>2. CASE i # 1
        <5>1. i - 1 \in 1..Len(inbox'[w]) /\ (i - 1) + 1 = i
          BY <4>2, <2>p
        <5>. QED
          BY <5>1, <3>3
      <4>. QED
        BY <4>1, <4>2
    <3>. QED
      BY <3>5, <3>6
  <2>2. \A v \in Starts : v # w => Places(v)' = Places(v)
    <3>. SUFFICES ASSUME NEW v \in Starts, v # w
                  PROVE  Places(v)' = Places(v)
      OBVIOUS
    <3>1. inbox'[v] = inbox[v] /\ delivery'[v] = delivery[v]
      BY <1>i, <1>m, <1>t
    <3>. QED
      BY <3>1, PlacesSame
  <2>3. Places(w) \subseteq Int
    BY <2>p DEF Places
  <2>4. IsFiniteSet(Undone') /\ Cardinality(Undone') = Cardinality(Undone)
    BY <2>1, <2>2, <2>3, UndoneShifts DEF Counted, Counts
  <2>5. Lost' <=> Lost
    BY <1>t, <1>m, <1>w DEF Lost
  <2>. QED
    BY <1>u, <2>4, <2>5 DEF Counted, Counts
<1>4. Waiters'
  BY <1>u DEF Counted, Waiters
<1>. QED
  BY <1>1, <1>2, <1>3, <1>4 DEF Counted

\* The loop begins with a message.
LEMMA DeliveryBeginsCounted ==
    ASSUME Counted, NEW w \in Starts, DeliveryBegins(w)
    PROVE  Counted'
<1>u. UNCHANGED <<life, worker, accepting, stopped, cleanup, finisher, finish, thread, inbox,
                  pending, idle, space, client, starts, tells, cancels>>
  BY DEF DeliveryBegins, lifecycle, mailbox
<1>t. delivery \in [Starts -> {"none", "submitted", "receiving", "done", "cancelled"}]
  BY DEF Counted, TypeOK
<1>d. \A v \in Starts : delivery'[v] = IF v = w THEN "receiving" ELSE delivery[v]
  BY <1>t DEF DeliveryBegins
<1>s. delivery[w] = "submitted"
  BY DEF DeliveryBegins
<1>1. TypeOK'
  <2>1. delivery' \in [Starts -> {"none", "submitted", "receiving", "done", "cancelled"}]
    BY <1>t DEF DeliveryBegins
  <2>. QED
    BY <1>u, <2>1 DEF Counted, TypeOK
<1>2. Threads'
  BY <1>u, <1>d, <1>s DEF Counted, Threads
<1>3. Counts'
  <2>1. \A v \in Starts : Places(v)' = Places(v)
    BY <1>u, <1>d, <1>s, PlacesSame
  <2>2. Lost' <=> Lost
    BY <1>u, <1>d, <1>s DEF Lost
  <2>. QED
    BY <1>u, <2>1, <2>2, UndoneSame, CountsSame DEF Counted
<1>4. Waiters'
  BY <1>u DEF Counted, Waiters
<1>. QED
  BY <1>1, <1>2, <1>3, <1>4 DEF Counted

\* The thread goes on with its result, or ends by it.
LEMMA ThreadResumesCounted ==
    ASSUME Counted, NEW w \in Starts, ThreadResumes(w)
    PROVE  Counted'
<1>. DEFINE t == IF delivery[w] = "done" THEN "waiting" ELSE "killed"
<1>u. UNCHANGED <<life, worker, accepting, stopped, cleanup, finisher, finish, inbox,
                  pending, idle, space, client, starts, tells, cancels>>
  BY DEF ThreadResumes, lifecycle, mailbox
<1>t. /\ delivery \in [Starts -> {"none", "submitted", "receiving", "done", "cancelled"}]
      /\ thread \in [Starts -> {"none", "waiting", "calling", "stopped", "killed"}]
  BY DEF Counted, TypeOK
<1>d. \A v \in Starts : /\ delivery'[v] = IF v = w THEN "none" ELSE delivery[v]
                        /\ thread'[v] = IF v = w THEN t ELSE thread[v]
  BY <1>t DEF ThreadResumes
<1>s. delivery[w] \in {"done", "cancelled"} /\ thread[w] = "calling"
  BY DEF ThreadResumes
<1>1. TypeOK'
  <2>1. /\ delivery' \in [Starts -> {"none", "submitted", "receiving", "done", "cancelled"}]
        /\ thread' \in [Starts -> {"none", "waiting", "calling", "stopped", "killed"}]
    BY <1>t DEF ThreadResumes
  <2>. QED
    BY <1>u, <2>1 DEF Counted, TypeOK
<1>2. Threads'
  <2>1. \A v \in Starts : thread'[v] = "none" <=> thread[v] = "none"
    BY <1>d, <1>s
  <2>2. \A v \in Starts : thread'[v] = "calling" <=> delivery'[v] # "none"
    BY <1>d, <1>s DEF Counted, Threads
  <2>3. \A c \in Clients : client[c].call = "pre_start" => client[c].start \in Starts
    <3>1. \A c \in Clients : client[c].call = "pre_start" => client[c].start \in 1..starts
      BY DEF Counted, Threads
    <3>2. starts \in 0..MaxStarts /\ MaxStarts \in Nat
      BY Zenon, MailboxAssumption DEF Counted, TypeOK
    <3>. QED
      BY <3>1, <3>2 DEF Starts
  <2>. QED
    BY <1>u, <2>1, <2>2, <2>3 DEF Counted, Threads
<1>3. Counts'
  <2>1. \A v \in Starts : Places(v)' = Places(v)
    BY <1>u, <1>d, <1>s, PlacesSame
  <2>2. Lost' <=> Lost
    BY <1>u, <1>d, <1>s DEF Lost
  <2>. QED
    BY <1>u, <2>1, <2>2, UndoneSame, CountsSame DEF Counted
<1>4. Waiters'
  BY <1>u DEF Counted, Waiters
<1>. QED
  BY <1>1, <1>2, <1>3, <1>4 DEF Counted

\* A delivery ends: there is a message less.
LEMMA HandlerEnds ==
    ASSUME Counted, NEW w \in Starts, NEW d \in {"done", "cancelled"},
           delivery[w] \in {"submitted", "receiving"},
           delivery' = [delivery EXCEPT ![w] = d], UNCHANGED <<thread, inbox, starts>>,
           \A c \in Clients : Steady(c)
    PROVE  /\ delivery' \in [Starts -> {"none", "submitted", "receiving", "done", "cancelled"}]
           /\ Threads'
           /\ d = "done" => (Lost' <=> Lost)
           /\ d = "cancelled" => Lost'
           /\ IsFiniteSet(Undone') /\ Cardinality(Undone') = Cardinality(Undone) - 1
           /\ Cardinality(Undone) \in Nat \ {0} /\ Cardinality(Undone') \in Nat
<1>t. delivery \in [Starts -> {"none", "submitted", "receiving", "done", "cancelled"}]
  BY DEF Counted, TypeOK
<1>d. \A v \in Starts : delivery'[v] = IF v = w THEN d ELSE delivery[v]
  BY <1>t
<1>1. delivery' \in [Starts -> {"none", "submitted", "receiving", "done", "cancelled"}]
  BY <1>t
<1>2. Threads'
  <2>1. \A v \in Starts : thread'[v] = "calling" <=> delivery'[v] # "none"
    BY <1>d DEF Counted, Threads
  <2>2. \A c \in Clients : client'[c].call = "pre_start" => client'[c] = client[c]
    BY DEF Steady
  <2>. QED
    BY <2>1, <2>2 DEF Counted, Threads
<1>3. (d = "done" => (Lost' <=> Lost)) /\ (d = "cancelled" => Lost')
  BY <1>d DEF Lost
<1>4. Undone' = Undone \ {<<w, 0>>} /\ <<w, 0>> \in Undone
  <2>1. Len(inbox[w]) \in Nat
    BY DEF Counted, TypeOK
  <2>2. 0 \in Places(w) /\ Places(w)' = Places(w) \ {0}
    BY <1>d, <2>1 DEF Places
  <2>3. \A v \in Starts : v # w => Places(v)' = Places(v)
    BY <1>d, PlacesSame
  <2>. QED
    BY <2>2, <2>3, UndoneRemoves
<1>5. IsFiniteSet(Undone') /\ Cardinality(Undone') = Cardinality(Undone) - 1
  BY <1>4, FS_RemoveElement DEF Counted, Counts
<1>6. Cardinality(Undone) \in Nat /\ Cardinality(Undone') \in Nat
  BY <1>5, FS_CardinalityType DEF Counted, Counts
<1>. QED
  BY <1>1, <1>2, <1>3, <1>5, <1>6

\* A completed message is counted off, and wakes those that wait for that.
LEMMA CompletedCounts ==
    ASSUME Counted, Completed, Cardinality(Undone) \in Nat \ {0}
    PROVE  /\ pending' \in 0..Capacity /\ pending' = pending - 1 /\ pending \in Nat
           /\ {idle', space'} \subseteq BOOLEAN
           /\ idle' <=> pending' = 0
           /\ client' \in ClientType
           /\ OthersStay({}, {"await space"} \cup IF idle' THEN {"await idle"} ELSE {})
<1>1. /\ pending \in Nat /\ pending <= Capacity /\ Capacity \in Nat
      /\ pending >= Cardinality(Undone)
  BY Numbers DEF Counted, Counts
<1>2. pending > 0 /\ ~idle
  BY <1>1 DEF Counted, Counts
<1>3. pending' = pending - 1 /\ space' = TRUE /\ idle' = (idle \/ pending' = 0)
  BY DEF Completed
<1>4. idle' \in BOOLEAN /\ (idle' <=> pending' = 0)
  BY <1>2, <1>3
<1>5. client' \in ClientType /\ OthersStay({}, {"await space"} \cup IF idle' THEN {"await idle"} ELSE {})
  BY WakingClients DEF Completed, Counted, TypeOK, ClientType
<1>6. pending' \in 0..Capacity
  BY <1>1, <1>2, <1>3
<1>7. {idle', space'} \subseteq BOOLEAN
  BY <1>3, <1>4
<1>. QED
  BY Zenon, <1>1, <1>3, <1>4, <1>5, <1>6, <1>7

\* A message is handled, or its handler is cancelled.
LEMMA CompletedCounted ==
    ASSUME Counted, NEW w \in Starts, NEW d \in {"done", "cancelled"},
           delivery[w] = "receiving", Completed,
           delivery' = [delivery EXCEPT ![w] = d],
           UNCHANGED <<lifecycle, thread, inbox, starts, tells>>,
           cancels' \in 0..MaxCancels, d = "done" => cancels' = cancels, d = "cancelled" => cancels' # 0
    PROVE  Counted'
<1>u. UNCHANGED <<life, worker, accepting, stopped, cleanup, finisher, finish>>
  BY DEF lifecycle
<1>0. Cardinality(Undone) \in Nat \ {0}
  <2>1. Len(inbox[w]) \in Nat
    BY DEF Counted, TypeOK
  <2>2. 0 \in Places(w)
    BY <2>1 DEF Places
  <2>3. Undone # {}
    BY <2>2, UndoneIs
  <2>. QED
    BY <2>3, FS_EmptySet, FS_CardinalityType DEF Counted, Counts
<1>1. /\ pending' \in 0..Capacity /\ pending' = pending - 1 /\ pending \in Nat
      /\ {idle', space'} \subseteq BOOLEAN
      /\ idle' <=> pending' = 0
      /\ client' \in ClientType
      /\ OthersStay({}, {"await space"} \cup IF idle' THEN {"await idle"} ELSE {})
  BY <1>0, CompletedCounts
<1>2. \A c \in Clients : Steady(c)
  <2>0. pending' > 0 \/ pending' = 0
    <3>1. Capacity \in Nat /\ pending' \in 0..Capacity
      BY <1>1, MailboxAssumption
    <3>. QED
      BY <3>1
  <2>1. pending' > 0 \/ idle'
    BY Zenon, <1>1, <2>0
  <2>2. \A c \in Clients \ {} : Steady(c)
    BY <1>1, <1>u, <2>1, OthersSteady DEF Counted
  <2>. QED
    BY <2>2
<1>3. /\ delivery' \in [Starts -> {"none", "submitted", "receiving", "done", "cancelled"}]
      /\ Threads'
      /\ d = "done" => (Lost' <=> Lost)
      /\ d = "cancelled" => Lost'
      /\ IsFiniteSet(Undone') /\ Cardinality(Undone') = Cardinality(Undone) - 1
      /\ Cardinality(Undone') \in Nat
  BY <1>2, HandlerEnds
<1>4. TypeOK'
  BY <1>u, <1>1, <1>3 DEF Counted, TypeOK, ClientType
<1>5. Counts'
  <2>1. pending >= Cardinality(Undone) /\ (~Lost => pending = Cardinality(Undone)) /\ (cancels = 0 => ~Lost)
    BY DEF Counted, Counts
  <2>2. /\ pending' >= Cardinality(Undone')
        /\ pending = Cardinality(Undone) => pending' = Cardinality(Undone')
    <3>1. /\ pending \in Nat /\ pending' = pending - 1 /\ pending >= Cardinality(Undone)
          /\ Cardinality(Undone) \in Nat /\ Cardinality(Undone') = Cardinality(Undone) - 1
      BY <1>0, <1>1, <1>3, <2>1
    <3>. QED
      BY <3>1
  <2>3. d = "done" \/ d = "cancelled"
    OBVIOUS
  <2>4. (~Lost' => ~Lost) /\ (cancels' = 0 => ~Lost')
    BY <1>3, <2>1, <2>3
  <2>. QED
    BY Zenon, <1>1, <1>3, <2>1, <2>2, <2>4 DEF Counts
<1>6. Waiters'
  BY <1>2 DEF Waiters, Steady
<1>. QED
  BY <1>3, <1>4, <1>5, <1>6 DEF Counted

\* A handler ends.
LEMMA DeliveryEndsCounted ==
    ASSUME Counted, NEW w \in Starts, DeliveryEnds(w)
    PROVE  Counted'
<1>1. cancels \in 0..MaxCancels
  BY DEF Counted, TypeOK
<1>. QED
  BY <1>1, CompletedCounted DEF DeliveryEnds

\* A delivery is cancelled, in its handler or before.
LEMMA DeliveryCancelledCounted ==
    ASSUME Counted, NEW w \in Starts, DeliveryCancelled(w)
    PROVE  Counted'
<1>c. cancels' \in 0..MaxCancels /\ cancels' # 0
  <2>1. cancels \in 0..MaxCancels /\ MaxCancels \in Nat
    BY Zenon, MailboxAssumption DEF Counted, TypeOK
  <2>2. cancels < MaxCancels /\ cancels' = cancels + 1
    BY DEF DeliveryCancelled
  <2>. QED
    BY <2>1, <2>2
<1>1. CASE delivery[w] = "receiving" /\ Completed
  BY <1>1, <1>c, CompletedCounted DEF DeliveryCancelled
<1>2. CASE delivery[w] = "submitted" /\ UNCHANGED <<mailbox, client>>
  <2>u. UNCHANGED <<life, worker, accepting, stopped, cleanup, finisher, finish, thread, inbox,
                    pending, idle, space, client, starts, tells>>
    BY <1>2 DEF DeliveryCancelled, lifecycle, mailbox
  <2>1. \A c \in Clients : Steady(c)
    BY <2>u DEF Steady, Counted, Waiters
  <2>2. /\ delivery' \in [Starts -> {"none", "submitted", "receiving", "done", "cancelled"}]
        /\ Threads' /\ Lost'
        /\ IsFiniteSet(Undone') /\ Cardinality(Undone') = Cardinality(Undone) - 1
        /\ Cardinality(Undone) \in Nat
    BY <1>2, <2>u, <2>1, HandlerEnds DEF DeliveryCancelled
  <2>3. TypeOK'
    BY <2>u, <2>2, <1>c DEF Counted, TypeOK
  <2>4. Counts'
    <3>1. pending \in Nat /\ pending >= Cardinality(Undone) /\ (idle <=> pending = 0)
      BY Numbers DEF Counted, Counts
    <3>2. pending' >= Cardinality(Undone')
      BY <2>u, <2>2, <3>1
    <3>. QED
      BY <2>u, <2>2, <3>1, <3>2, <1>c DEF Counts
  <2>. QED
    BY <2>1, <2>2, <2>3, <2>4 DEF Counted, Waiters, Steady
<1>. QED
  BY <1>1, <1>2 DEF DeliveryCancelled

\* Nothing was told at first.
LEMMA InitCounted == Init => Counted
<1>. SUFFICES ASSUME Init
              PROVE  Counted
  OBVIOUS
<1>1. TypeOK
  <2>1. /\ 0 \in 0..Capacity /\ 0 \in 0..MaxStarts /\ 0 \in 0..MaxTells /\ 0 \in 0..MaxCancels
    BY MailboxAssumption
  <2>2. <<>> \in Seq({"message", "stop"})
    OBVIOUS
  <2>. QED
    BY <2>1, <2>2, CallsType DEF Init, TypeOK
<1>2. Threads
  BY CallsType DEF Init, Threads
<1>3. Counts
  <2>1. \A w \in Starts : inbox[w] = <<>> /\ delivery[w] = "none" /\ thread[w] = "none"
    BY DEF Init
  <2>2. \A w \in Starts : Places(w) = {}
    BY <2>1 DEF Places
  <2>3. Undone = {}
    BY <2>2, UndoneIs
  <2>4. ~Lost
    BY <2>1 DEF Lost
  <2>5. IsFiniteSet(Undone) /\ Cardinality(Undone) = 0
    BY <2>3, FS_EmptySet
  <2>6. pending = 0 /\ idle = TRUE
    BY DEF Init
  <2>. QED
    BY <2>4, <2>5, <2>6 DEF Counts
<1>4. Waiters
  BY CallsType DEF Init, Waiters
<1>. QED
  BY <1>1, <1>2, <1>3, <1>4 DEF Counted

\* Every step keeps the count.
LEMMA NextCounted == Counted /\ [Next]_vars => Counted'
<1>. SUFFICES ASSUME Counted, [Next]_vars
              PROVE  Counted'
  OBVIOUS
<1>1. ASSUME NEW c \in Clients, Calls(c)
      PROVE  Counted'
  BY <1>1, StartCounted, PreStartReturnsCounted, PreStartFailsCounted, FailedStartEndsCounted,
     StopCounted, TellCounted, JoinCounted DEF Calls
<1>2. CASE RequestStop
  BY <1>2, RequestStopCounted
<1>3. ASSUME NEW w \in Starts, Runs(w) \/ DeliveryCancelled(w)
      PROVE  Counted'
  BY <1>3, TakeCounted, DeliveryBeginsCounted, DeliveryEndsCounted, ThreadResumesCounted,
     OnPykkaStoppedCounted, FinishStopCounted, FinishStopEndsCounted, DeliveryCancelledCounted DEF Runs
<1>4. CASE UNCHANGED vars
  <2>1. UNCHANGED <<life, worker, accepting, stopped, cleanup, finisher, finish, thread, inbox, delivery,
                    pending, idle, space, client, starts, tells, cancels>>
    BY <1>4 DEF vars, lifecycle, pykka, mailbox
  <2>2. TypeOK'
    BY <2>1 DEF Counted, TypeOK
  <2>3. \A c \in Clients : Steady(c)
    BY <2>1 DEF Counted, Waiters, Steady
  <2>. QED
    BY <2>1, <2>2, <2>3, QuietCounted DEF pykka
<1>. QED
  BY <1>1, <1>2, <1>3, <1>4 DEF Next

\* The count holds of every behaviour, whether starts overlap or not.
LEMMA AlwaysCounted == Spec => []Counted
BY InitCounted, NextCounted, PTL DEF Spec

\* The actor, its threads and its clients keep to their types; the mailbox
\* never holds more than its size, nor the counter less than nothing.
THEOREM TypeCorrect == Spec => []TypeOK
<1>1. Counted => TypeOK
  BY DEF Counted
<1>. QED
  BY AlwaysCounted, <1>1, PTL

-----------------------------------------------------------------------------
(* The phases of the lifecycle. *)

HookCalls == {"pre_start", "post_stop"}

\* Hooks go on while a client in none goes on.
LEMMA HooksStay ==
    ASSUME NEW c \in Clients, NEW calls, OthersStay({c}, calls),
           "pre_start" \notin calls, "post_stop" \notin calls,
           client[c].call \notin HookCalls, client'[c].call \notin HookCalls
    PROVE  Hooks' = Hooks /\ \A d \in Hooks : client'[d] = client[d]
<1>1. \A d \in Clients : client[d].call \in HookCalls => client'[d] = client[d]
  BY DEF OthersStay, HookCalls
<1>2. \A d \in Clients : client'[d].call \in HookCalls => client[d].call \in HookCalls
  BY DEF OthersStay, HookCalls
<1>. QED
  BY <1>1, <1>2 DEF Hooks, HookCalls

\* Hooks go on while others are woken.
LEMMA HooksGoOn ==
    ASSUME NEW calls, OthersStay({}, calls), "pre_start" \notin calls, "post_stop" \notin calls
    PROVE  Hooks' = Hooks /\ \A d \in Hooks : client'[d] = client[d]
<1>1. \A d \in Clients : client[d].call \in HookCalls => client'[d] = client[d]
  BY DEF OthersStay, HookCalls
<1>2. \A d \in Clients : client'[d].call \in HookCalls => client[d].call \in HookCalls
  BY DEF OthersStay, HookCalls
<1>. QED
  BY <1>1, <1>2 DEF Hooks, HookCalls

\* Nobody waits for space when there is some, the actor does not accept, or
\* the event was set.
LEMMA NoneAwaits ==
    ASSUME SpaceAwaited, NEW c \in Clients, NEW calls,
           OthersStay({c}, calls), ~(Full /\ accepting) \/ "await space" \in calls,
           client'[c].call # "await space"
    PROVE  SpaceAwaited'
<1>1. \A d \in Clients : client[d].call = "await space" => "await space" \in calls
  BY DEF SpaceAwaited
<1>2. \A d \in Clients : client'[d].call # "await space"
  BY <1>1 DEF OthersStay
<1>. QED
  BY <1>2 DEF SpaceAwaited

\* The same when no client goes on by itself.
LEMMA NoneWaits ==
    ASSUME NEW calls, OthersStay({}, calls), "await space" \in calls
    PROVE  SpaceAwaited'
<1>1. \A d \in Clients : client'[d].call # "await space"
  BY DEF OthersStay
<1>. QED
  BY <1>1 DEF SpaceAwaited

\* A thread that was made and has not stopped is that of the actor, which is
\* running or asked to stop.
LEMMA ThreadIsWorker ==
    ASSUME Phases, TypeOK, NEW w \in Starts, thread[w] \in {"waiting", "calling", "killed"}
    PROVE  /\ w = worker /\ Working /\ life \in {"running", "stopping"}
           /\ life = "running" => \A i \in 1..Len(inbox[worker]) : inbox[worker][i] = "message"
           /\ life = "stopping" => StopIsLast
<1>1. life \in {"new", "starting", "running", "stopping", "stopped"}
  BY DEF TypeOK
<1>2. ~Rests
  BY DEF Rests, OthersOver, Over, Starts
<1>3. ~Finishing
  BY DEF Finishing, OthersOver, Over
<1>4. ~Cleaning
  BY DEF Cleaning
<1>5. Working /\ life \in {"running", "stopping"}
  BY <1>1, <1>2, <1>3, <1>4 DEF Phases
<1>6. w = worker
  BY <1>5 DEF Working, OthersOver, Over
<1>. QED
  BY <1>3, <1>4, <1>5, <1>6 DEF Phases

\* A hook that goes on is the only one: of a start, or of a start that failed.
LEMMA HookIsOne ==
    ASSUME Phases, TypeOK, NEW c \in Clients, client[c].call \in HookCalls
    PROVE  /\ Hooks = {c} /\ worker = 0
           /\ client[c].call = "pre_start" => life = "starting" /\ Rests /\ ~cleanup /\ ~finisher
           /\ client[c].call = "post_stop" =>
                life = "stopping" /\ space /\ \A w \in Starts : Over(w)
<1>1. life \in {"new", "starting", "running", "stopping", "stopped"} /\ c \in Hooks
  BY DEF TypeOK, Hooks, HookCalls
<1>2. life = "starting" \/ (life = "stopping" /\ Cleaning)
  BY <1>1 DEF Phases, Working, Finishing
<1>3. CASE life = "starting"
  BY <1>1, <1>3 DEF Phases, Rests
<1>4. CASE life = "stopping" /\ Cleaning
  BY <1>1, <1>4 DEF Phases, Cleaning, Over
<1>. QED
  BY <1>2, <1>3, <1>4

\* A step that leaves the lifecycle, the threads and the space alone.
LEMMA PhasesStay ==
    ASSUME Phases, UNCHANGED <<lifecycle, thread, inbox, space, pending>>,
           Hooks' = Hooks, \A c \in Hooks : client'[c] = client[c]
    PROVE  Phases'
<1>1. UNCHANGED <<life, worker, accepting, stopped, cleanup, finisher, finish>>
  BY DEF lifecycle
<1>2. OthersOver' = OthersOver
  BY <1>1 DEF OthersOver, Over
<1>3. Rests' = Rests /\ Working' = Working /\ StopIsLast' = StopIsLast /\ Finishing' = Finishing /\ Full' = Full
  BY <1>1, <1>2 DEF Rests, Working, StopIsLast, Finishing, Full
<1>4. Cleaning => Cleaning'
  BY <1>1 DEF Cleaning
<1>5. (\E c \in Clients : Hooks = {c} /\ client[c].call = "pre_start") =>
          \E c \in Clients : Hooks' = {c} /\ client'[c].call = "pre_start"
  OBVIOUS
<1>. QED
  BY <1>1, <1>3, <1>4, <1>5 DEF Phases

\* A step of the thread of the actor, or of the loop for it.
LEMMA WorkGoesOn ==
    ASSUME Phases, Working, life \in {"running", "stopping"}, UNCHANGED lifecycle, Hooks' = Hooks,
           \A v \in Starts : v # worker => thread'[v] = thread[v] /\ inbox'[v] = inbox[v],
           thread'[worker] \in {"waiting", "calling", "killed"},
           life = "running" =>
               /\ \A i \in 1..Len(inbox'[worker]) : inbox'[worker][i] = "message"
               /\ space' <=> ~Full',
           life = "stopping" =>
               space' /\ \A i \in 1..Len(inbox'[worker]) : inbox'[worker][i] = "stop" => i = Len(inbox'[worker])
    PROVE  Phases'
<1>1. UNCHANGED <<life, worker, accepting, stopped, cleanup, finisher, finish>>
  BY DEF lifecycle
<1>2. Working'
  BY <1>1 DEF Working, OthersOver, Over
<1>3. life = "stopping" => StopIsLast'
  BY <1>1 DEF StopIsLast
<1>. QED
  BY <1>1, <1>2, <1>3 DEF Phases

-----------------------------------------------------------------------------
(* The phases, action by action. *)

\* A start begins when nothing is left of the one before it.
LEMMA StartOrdered ==
    ASSUME ~Overlaps, TypeOK, Phases, SpaceAwaited, NEW c \in Clients, Start(c)
    PROVE  Phases' /\ SpaceAwaited'
<1>. DEFINE state == [call |-> "pre_start", start |-> starts + 1]
<1>t. client \in ClientType /\ life \in {"new", "starting", "running", "stopping", "stopped"}
  BY DEF TypeOK, ClientType
<1>n. state \in [call: Call, start: {0} \cup Starts]
  <2>1. starts \in 0..MaxStarts /\ MaxStarts \in Nat
    BY Zenon, MailboxAssumption DEF TypeOK
  <2>2. starts + 1 \in Starts
    BY <2>1 DEF Start, Starts
  <2>. QED
    BY <2>2 DEF Call
<1>c. OthersStay({c}, {}) /\ client'[c] = state
  <2>1. WakingThen({}, c, state)
    BY DEF Start, Goes
  <2>. QED
    BY <1>t, <1>n, <2>1, WakingThenClients
<1>1. ~Unsettled /\ worker = 0 /\ life \notin {"starting", "running"}
  BY DEF Start
<1>2. Hooks = {}
  BY <1>1 DEF Unsettled, Hooks
<1>3. ~Cleaning
  BY <1>1, <1>2 DEF Unsettled, Cleaning
<1>4. Rests /\ ~accepting
  BY <1>t, <1>1, <1>3 DEF Phases, Working, Finishing
<1>5. Rests' /\ ~accepting' /\ life' = "starting" /\ ~cleanup' /\ ~finisher'
  BY <1>4 DEF Start, Rests, OthersOver, Over, pykka, mailbox
<1>6. Hooks' = {c} /\ client'[c].call = "pre_start"
  BY <1>2, <1>c DEF Hooks, OthersStay
<1>7. Phases'
  BY <1>5, <1>6 DEF Phases
<1>8. SpaceAwaited'
  BY <1>4, <1>6, <1>c, NoneAwaits
<1>. QED
  BY <1>7, <1>8

\* The actor runs: its mailbox is empty.
LEMMA PreStartReturnsOrdered ==
    ASSUME Counted, Ordered, NEW c \in Clients, PreStartReturns(c)
    PROVE  Phases' /\ SpaceAwaited'
<1>. DEFINE w == client[c].start
<1>t. /\ client \in ClientType /\ thread \in [Starts -> {"none", "waiting", "calling", "stopped", "killed"}]
      /\ TypeOK /\ Phases /\ Threads
  BY DEF Counted, Ordered, TypeOK, ClientType
<1>h. /\ Hooks = {c} /\ life = "starting" /\ Rests /\ ~cleanup /\ ~finisher
  BY <1>t, HookIsOne DEF PreStartReturns, HookCalls
<1>w. w \in Starts /\ thread[w] = "none" /\ w # 0 /\ finish[w] = "none"
  <2>1. w \in 1..starts /\ thread[w] = "none" /\ starts \in 0..MaxStarts /\ MaxStarts \in Nat
    BY MailboxAssumption, <1>t DEF PreStartReturns, Threads, TypeOK
  <2>2. w \in Starts
    BY <2>1 DEF Starts
  <2>. QED
    BY <2>1, <2>2 DEF Ordered, Unbegun
<1>o. \A v \in Starts : Over(v)
  BY <1>h DEF Rests, OthersOver, Starts
<1>c. OthersStay({c}, {}) /\ client'[c] = NoCall
  <2>1. WakingThen({}, c, NoCall)
    BY DEF PreStartReturns, Goes
  <2>. QED
    BY <1>t, <2>1, CallsType, WakingThenClients
<1>1. pending = 0 /\ space /\ ~Full
  <2>1. \A v \in Starts : inbox[v] = <<>> /\ delivery[v] = "none" /\ thread[v] # "killed"
    BY <1>o, <1>t DEF Over, Threads
  <2>2. \A v \in Starts : Places(v) = {}
    BY <2>1 DEF Places
  <2>3. Undone = {} /\ ~Lost
    BY <2>1, <2>2, UndoneIs DEF Lost
  <2>4. pending = Cardinality({})
    BY <2>3 DEF Counted, Counts
  <2>5. pending = 0
    BY <2>4, FS_EmptySet
  <2>6. ~Full
    BY <2>5, MailboxAssumption DEF Full
  <2>. QED
    BY <2>5, <2>6, <1>h DEF Rests
<1>2. Hooks' = {}
  BY <1>h, <1>c, CallsType DEF Hooks, OthersStay
<1>3. /\ worker' = w /\ life' = "running" /\ accepting'
      /\ thread' = [thread EXCEPT ![w] = "waiting"]
      /\ UNCHANGED <<inbox, finish, cleanup, finisher, space, pending>>
  BY DEF PreStartReturns, mailbox
<1>4. \A v \in Starts : v # w => thread'[v] = thread[v]
  BY <1>3, <1>t
<1>5. Working'
  <2>1. OthersOver'
    BY <1>o, <1>3, <1>4 DEF OthersOver, Over
  <2>2. thread'[w] = "waiting"
    BY <1>3, <1>t, <1>w
  <2>. QED
    BY <1>2, <1>3, <1>w, <1>h, <2>1, <2>2 DEF Working
<1>6. \A i \in 1..Len(inbox'[worker']) : inbox'[worker'][i] = "message"
  <2>1. inbox'[w] = <<>>
    BY <1>3, <1>o, <1>w DEF Over
  <2>. QED
    BY <1>3, <2>1
<1>7. space' /\ ~Full'
  BY <1>1, <1>3 DEF Full
<1>8. Phases'
  BY <1>3, <1>5, <1>6, <1>7 DEF Phases
<1>9. SpaceAwaited'
  BY <1>1, <1>c, CallsType, NoneAwaits DEF Ordered
<1>. QED
  BY <1>8, <1>9

\* A start fails, and cleans up.
LEMMA PreStartFailsOrdered ==
    ASSUME Counted, Ordered, NEW c \in Clients, PreStartFails(c)
    PROVE  Phases' /\ SpaceAwaited'
<1>t. client \in ClientType /\ TypeOK /\ Phases
  BY DEF Counted, Ordered, TypeOK, ClientType
<1>h. /\ Hooks = {c} /\ worker = 0 /\ life = "starting" /\ Rests /\ ~cleanup /\ ~finisher
  BY <1>t, HookIsOne DEF PreStartFails, HookCalls
<1>a. ~accepting
  BY <1>t, <1>h DEF Phases
<1>c. OthersStay({c}, {}) /\ client'[c] = [client[c] EXCEPT !.call = "post_stop"]
  <2>1. WakingThen({}, c, [client[c] EXCEPT !.call = "post_stop"])
    BY <1>h DEF PreStartFails, Goes
  <2>2. [client[c] EXCEPT !.call = "post_stop"] \in [call: Call, start: {0} \cup Starts]
    BY <1>t DEF ClientType, Call
  <2>. QED
    BY <1>t, <2>1, <2>2, WakingThenClients
<1>p. client'[c].call = "post_stop"
  BY <1>c, <1>t DEF ClientType
<1>1. Hooks' = {c}
  BY <1>h, <1>c, <1>p DEF Hooks, OthersStay
<1>2. worker' = 0 /\ life' = "stopping" /\ ~accepting' /\ UNCHANGED <<finish, thread, inbox, space>>
  BY <1>h DEF PreStartFails, pykka, mailbox
<1>3. Cleaning' /\ space'
  BY <1>1, <1>2, <1>h, <1>p DEF Cleaning, Rests, OthersOver, Over, Starts
<1>4. Phases'
  BY <1>2, <1>3 DEF Phases
<1>5. SpaceAwaited'
  BY <1>a, <1>c, <1>p, NoneAwaits DEF Ordered
<1>. QED
  BY <1>4, <1>5

\* The cleanup of a failed start ends.
LEMMA FailedStartEndsOrdered ==
    ASSUME Counted, Ordered, NEW c \in Clients, FailedStartEnds(c)
    PROVE  Phases' /\ SpaceAwaited'
<1>t. client \in ClientType /\ TypeOK /\ Phases
  BY DEF Counted, Ordered, TypeOK, ClientType
<1>h. Hooks = {c} /\ worker = 0 /\ \A w \in Starts : Over(w)
  BY <1>t, HookIsOne DEF FailedStartEnds, HookCalls
<1>c. OthersStay({c}, {"await space", "await stopped"}) /\ client'[c] = NoCall
  BY <1>t, CallsType, WakingThenClients DEF FailedStartEnds
<1>1. Hooks' = {}
  BY <1>h, <1>c, CallsType DEF Hooks, OthersStay
<1>2. worker' = 0 /\ life' = "stopped" /\ ~accepting' /\ space' /\ UNCHANGED <<finish, thread, inbox>>
  BY <1>h DEF FailedStartEnds, Ends, pykka
<1>3. Rests'
  BY <1>2, <1>h DEF Rests, OthersOver, Over
<1>4. Phases'
  BY <1>1, <1>2, <1>3 DEF Phases
<1>5. SpaceAwaited'
  BY <1>c, CallsType, NoneAwaits DEF Ordered
<1>. QED
  BY <1>4, <1>5

\* A running actor is asked to stop: the request is the last of its inbox.
LEMMA StopsWorkerPhases ==
    ASSUME TypeOK, Phases, life = "running", StopsWorker, Hooks' = Hooks,
           UNCHANGED <<worker, cleanup, finisher, finish, thread>>
    PROVE  Phases'
<1>w. Working /\ \A i \in 1..Len(inbox[worker]) : inbox[worker][i] = "message"
  BY DEF Phases
<1>t. inbox \in [Starts -> Seq({"message", "stop"})] /\ worker \in Starts
  BY <1>w DEF TypeOK, Working
<1>1. life' = "stopping" /\ ~accepting' /\ space'
  BY DEF StopsWorker
<1>2. \A v \in Starts : v # worker => inbox'[v] = inbox[v]
  BY <1>t DEF StopsWorker
<1>3. Working'
  BY <1>w, <1>2 DEF Working, OthersOver, Over
<1>4. StopIsLast'
  <2>1. inbox'[worker] \in {inbox[worker], Append(inbox[worker], "stop")} /\ inbox[worker] \in Seq({"message", "stop"})
    BY <1>t DEF StopsWorker
  <2>2. \A i \in 1..Len(inbox'[worker]) : inbox'[worker][i] = "stop" => i = Len(inbox'[worker])
    BY <2>1, <1>w
  <2>. QED
    BY <2>2 DEF StopIsLast
<1>. QED
  BY <1>1, <1>3, <1>4 DEF Phases

\* The actor's own receive stops it.
LEMMA RequestStopOrdered ==
    ASSUME Counted, Ordered, RequestStop
    PROVE  Phases' /\ SpaceAwaited'
<1>t. client \in ClientType /\ TypeOK /\ Phases
  BY DEF Counted, Ordered, TypeOK, ClientType
<1>s. StopsWorker /\ space' /\ life = "running" /\ UNCHANGED <<worker, cleanup, finisher, finish, thread>>
  BY DEF RequestStop, StopsWorker
<1>c. OthersStay({}, {"await space"})
  <2>1. Waking({"await space"})
    BY <1>s DEF RequestStop
  <2>. QED
    BY <1>t, <2>1, WakingClients
<1>1. Hooks' = Hooks
  BY <1>c, HooksGoOn
<1>2. Phases'
  BY <1>t, <1>s, <1>1, StopsWorkerPhases
<1>3. SpaceAwaited'
  BY <1>c, NoneWaits
<1>. QED
  BY <1>2, <1>3

\* A task stops the actor, or waits for a stop that goes on.
LEMMA StopOrdered ==
    ASSUME Counted, Ordered, NEW c \in Clients, Stop(c)
    PROVE  Phases' /\ SpaceAwaited'
<1>. DEFINE waits == IF stopped THEN NoCall ELSE [call |-> "await stopped", start |-> 0]
<1>t. client \in ClientType /\ TypeOK /\ Phases /\ SpaceAwaited
  BY DEF Counted, Ordered, TypeOK, ClientType
<1>w. waits \in [call: Call, start: {0} \cup Starts] /\ waits.call \in {"none", "await stopped"}
  BY CallsType DEF Call, NoCall
<1>n. client[c].call \notin HookCalls
  BY CallsType DEF Stop, HookCalls
<1>3. \/ /\ life = "running" /\ StopsWorker /\ space'
         /\ WakingThen({"await space"}, c, waits)
         /\ UNCHANGED <<worker, cleanup, finisher, finish, thread>>
      \/ /\ WakingThen({}, c, waits)
         /\ UNCHANGED <<lifecycle, thread, inbox, space, pending>>
  BY DEF Stop, Goes, StopsWorker, lifecycle
<1>. HIDE DEF waits
<1>4. CASE life = "running" /\ StopsWorker /\ space' /\ WakingThen({"await space"}, c, waits)
            /\ UNCHANGED <<worker, cleanup, finisher, finish, thread>>
  <2>1. OthersStay({c}, {"await space"}) /\ client'[c] = waits
    BY <1>4, <1>t, <1>w, WakingThenClients
  <2>2. Hooks' = Hooks
    BY <2>1, <1>w, <1>n, HooksStay DEF HookCalls
  <2>3. Phases'
    BY <1>4, <1>t, <2>2, StopsWorkerPhases
  <2>4. SpaceAwaited'
    BY <2>1, <1>t, <1>w, NoneAwaits
  <2>. QED
    BY <2>3, <2>4
<1>5. CASE WakingThen({}, c, waits) /\ UNCHANGED <<lifecycle, thread, inbox, space, pending>>
  <2>1. OthersStay({c}, {}) /\ client'[c] = waits
    BY <1>5, <1>t, <1>w, WakingThenClients
  <2>2. Hooks' = Hooks /\ \A d \in Hooks : client'[d] = client[d]
    BY <2>1, <1>w, <1>n, HooksStay DEF HookCalls
  <2>3. Phases'
    BY <1>5, <1>t, <2>2, PhasesStay
  <2>4. SpaceAwaited'
    BY <1>5, <2>1, <1>t, <1>w DEF SpaceAwaited, OthersStay, Full, lifecycle
  <2>. QED
    BY <2>3, <2>4
<1>. QED
  BY <1>3, <1>4, <1>5

\* A task waits for an idle mailbox.
LEMMA JoinOrdered ==
    ASSUME Counted, Ordered, NEW c \in Clients, Join(c)
    PROVE  Phases' /\ SpaceAwaited'
<1>. DEFINE state == [call |-> "await idle", start |-> 0]
<1>t. client \in ClientType /\ TypeOK /\ Phases /\ SpaceAwaited
  BY DEF Counted, Ordered, TypeOK, ClientType
<1>w. state \in [call: Call, start: {0} \cup Starts] /\ state.call = "await idle"
  BY CallsType DEF Call
<1>n. client[c].call \notin HookCalls /\ WakingThen({}, c, state)
  BY CallsType DEF Join, HookCalls, Goes
<1>u. UNCHANGED <<lifecycle, thread, inbox, space, pending>>
  BY DEF Join, pykka, mailbox
<1>. HIDE DEF state
<1>1. OthersStay({c}, {}) /\ client'[c] = state
  BY <1>n, <1>t, <1>w, WakingThenClients
<1>2. Hooks' = Hooks /\ \A d \in Hooks : client'[d] = client[d]
  BY <1>1, <1>w, <1>n, HooksStay DEF HookCalls
<1>3. Phases'
  BY <1>u, <1>t, <1>2, PhasesStay
<1>4. SpaceAwaited'
  BY <1>u, <1>1, <1>t, <1>w DEF SpaceAwaited, OthersStay, Full, lifecycle
<1>. QED
  BY <1>3, <1>4

\* A message is told, waits for space, or is refused.
LEMMA TellingOrdered ==
    ASSUME Counted, Ordered, NEW c \in Clients, Telling(c), client[c].call \notin HookCalls,
           UNCHANGED <<lifecycle, thread>>
    PROVE  Phases' /\ SpaceAwaited'
<1>t. client \in ClientType /\ TypeOK /\ Phases /\ SpaceAwaited
  BY DEF Counted, Ordered, TypeOK, ClientType
<1>a. ~(Full /\ accepting /\ space)
  BY <1>t DEF Phases
<1>u. UNCHANGED <<life, worker, accepting, stopped, cleanup, finisher, finish>>
  BY DEF lifecycle
<1>1. CASE UNCHANGED <<inbox, mailbox>>
  <2>0. PICK state \in [call: Call, start: {0} \cup Starts] :
            /\ state.call \in {"none", "retry tell", "await space"} /\ Goes(c, state)
            /\ state.call = "await space" => Full /\ accepting
    <3>1. \A k \in {"retry tell", "await space"} :
            /\ [call |-> k, start |-> 0] \in [call: Call, start: {0} \cup Starts]
            /\ [call |-> k, start |-> 0].call = k
      BY CallsType DEF Call
    <3>2. CASE Full /\ accepting /\ Goes(c, [call |-> IF space THEN "retry tell" ELSE "await space", start |-> 0])
      BY <3>1, <3>2
    <3>3. CASE Goes(c, NoCall)
      BY <3>3, CallsType
    <3>. QED
      BY <3>2, <3>3 DEF Telling
  <2>1. UNCHANGED <<lifecycle, thread, inbox, space, pending>>
    BY <1>1 DEF mailbox
  <2>2. OthersStay({c}, {}) /\ client'[c] = state
    BY <2>0, <1>t, WakingThenClients DEF Goes
  <2>3. Hooks' = Hooks /\ \A d \in Hooks : client'[d] = client[d]
    BY <2>0, <2>2, HooksStay DEF HookCalls
  <2>4. Phases'
    BY <2>1, <2>3, <1>t, PhasesStay
  <2>5. SpaceAwaited'
    BY <2>0, <2>1, <2>2, <1>u, <1>t DEF SpaceAwaited, OthersStay, Full
  <2>. QED
    BY <2>4, <2>5
<1>2. CASE Delivered /\ Goes(c, NoCall)
  <2>1. OthersStay({c}, {}) /\ client'[c] = NoCall
    BY <1>2, <1>t, CallsType, WakingThenClients DEF Goes
  <2>2. Hooks' = Hooks
    BY <2>1, CallsType, HooksStay DEF HookCalls
  <2>3. ~Full /\ accepting /\ life = "running"
    BY <1>2, <1>t DEF Delivered, Delivers, Phases
  <2>4. Working /\ (\A i \in 1..Len(inbox[worker]) : inbox[worker][i] = "message") /\ space
    BY <2>3, <1>t DEF Phases
  <2>5. worker \in Starts /\ inbox \in [Starts -> Seq({"message", "stop"})]
    BY <2>4, <1>t DEF Working, TypeOK
  <2>6. inbox'[worker] = Append(inbox[worker], "message") /\ inbox[worker] \in Seq({"message", "stop"})
          /\ \A v \in Starts : v # worker => inbox'[v] = inbox[v]
    BY <1>2, <2>5 DEF Delivered
  <2>7. \A i \in 1..Len(inbox'[worker]) : inbox'[worker][i] = "message"
    BY <2>4, <2>6
  <2>8. space' <=> ~Full'
    <3>1. pending \in Nat /\ Capacity \in Nat /\ pending' = pending + 1 /\ (space' <=> pending' < Capacity)
      BY <1>2, <2>4, Numbers DEF Delivered
    <3>2. pending' < Capacity <=> ~(pending' >= Capacity)
      BY <3>1
    <3>. QED
      BY <3>1, <3>2 DEF Full
  <2>9. Phases'
    BY <1>t, <2>2, <2>3, <2>4, <2>6, <2>7, <2>8, WorkGoesOn DEF Working
  <2>10. SpaceAwaited'
    BY <2>1, <2>3, <1>t, CallsType, NoneAwaits
  <2>. QED
    BY <2>9, <2>10
<1>. QED
  BY <1>1, <1>2 DEF Telling, Delivered

\* The thread takes a message, or the stop request behind all messages.
LEMMA TakeOrdered ==
    ASSUME Counted, Ordered, NEW w \in Starts, Take(w)
    PROVE  Phases' /\ SpaceAwaited'
<1>t. TypeOK /\ Phases /\ SpaceAwaited
  BY DEF Counted, Ordered
<1>u. UNCHANGED <<life, worker, accepting, stopped, cleanup, finisher, pending, idle, space, client>>
  BY DEF Take, mailbox
<1>w. /\ w = worker /\ Working /\ life \in {"running", "stopping"}
      /\ life = "running" => \A i \in 1..Len(inbox[w]) : inbox[w][i] = "message"
      /\ life = "stopping" => \A i \in 1..Len(inbox[w]) : inbox[w][i] = "stop" => i = Len(inbox[w])
  BY <1>t, ThreadIsWorker DEF Take, StopIsLast
<1>i. /\ inbox[w] \in Seq({"message", "stop"}) /\ inbox[w] # <<>>
      /\ inbox'[w] = Tail(inbox[w])
      /\ \A v \in Starts : v # w => inbox'[v] = inbox[v]
  BY <1>t DEF Take, TypeOK
<1>p. /\ Len(inbox[w]) \in Nat \ {0} /\ Len(inbox'[w]) = Len(inbox[w]) - 1
      /\ \A i \in 1..Len(inbox'[w]) : inbox'[w][i] = inbox[w][i + 1] /\ i + 1 \in 1..Len(inbox[w])
      /\ Head(inbox[w]) = inbox[w][1] /\ 1 \in 1..Len(inbox[w])
  BY <1>i
<1>f. Full' = Full /\ Hooks' = Hooks
  BY <1>u DEF Full, Hooks
<1>1. CASE Head(inbox[w]) = "message" /\ thread' = [thread EXCEPT ![w] = "calling"] /\ UNCHANGED finish
  <2>1. thread'[w] = "calling" /\ \A v \in Starts : v # w => thread'[v] = thread[v]
    BY <1>1, <1>t DEF TypeOK
  <2>2. UNCHANGED lifecycle
    BY <1>1, <1>u DEF lifecycle
  <2>3. life = "running" =>
          (\A i \in 1..Len(inbox'[w]) : inbox'[w][i] = "message") /\ (space' <=> ~Full')
    BY <1>w, <1>p, <1>f, <1>u, <1>t DEF Phases
  <2>4. life = "stopping" =>
          space' /\ \A i \in 1..Len(inbox'[w]) : inbox'[w][i] = "stop" => i = Len(inbox'[w])
    <3>1. life = "stopping" => space'
      BY <1>u, <1>t DEF Phases
    <3>2. life = "stopping" => \A i \in 1..Len(inbox'[w]) : inbox'[w][i] = "stop" => i + 1 = Len(inbox[w])
      BY <1>w, <1>p
    <3>. QED
      BY <3>1, <3>2, <1>p
  <2>. QED
    <3>1. Phases'
      BY <1>t, <1>w, <1>i, <1>f, <2>1, <2>2, <2>3, <2>4, WorkGoesOn
    <3>2. SpaceAwaited'
      BY <1>t, <1>u, <1>f DEF SpaceAwaited
    <3>. QED
      BY <3>1, <3>2
<1>2. CASE Head(inbox[w]) = "stop" /\ thread' = [thread EXCEPT ![w] = "stopped"]
            /\ finish' = [finish EXCEPT ![w] = "posted"]
  <2>1. life = "stopping" /\ Len(inbox[w]) = 1
    BY <1>2, <1>w, <1>p
  <2>2. inbox'[w] = <<>>
    <3>1. inbox'[w] \in Seq({"message", "stop"}) /\ Len(inbox'[w]) = 0
      BY <2>1, <1>i, <1>p
    <3>. QED
      BY <3>1
  <2>3. /\ thread'[w] = "stopped" /\ finish'[w] = "posted"
        /\ \A v \in Starts : v # w => thread'[v] = thread[v] /\ finish'[v] = finish[v]
    BY <1>2, <1>t DEF TypeOK
  <2>4. Finishing'
    <3>1. worker' = w /\ w # 0 /\ Hooks' = {} /\ ~cleanup' /\ ~finisher'
      BY <1>w, <1>u, <1>f DEF Working
    <3>2. \A v \in Starts : v # w => Over(v)'
      BY <1>w, <1>i, <2>3 DEF Working, OthersOver, Over
    <3>. QED
      BY <3>1, <3>2, <2>2, <2>3 DEF Finishing, OthersOver
  <2>5. Phases'
    BY <1>t, <1>u, <2>1, <2>4 DEF Phases
  <2>6. SpaceAwaited'
    BY <1>t, <1>u, <1>f DEF SpaceAwaited
  <2>. QED
    BY <2>5, <2>6
<1>. QED
  BY <1>1, <1>2 DEF Take

\* A task that delivers, and the thread that waits for it, go on.
LEMMA WorkerMoves ==
    ASSUME TypeOK, Phases, NEW w \in Starts, thread[w] \in {"waiting", "calling", "killed"},
           thread'[w] \in {"waiting", "calling", "killed"}, \A v \in Starts : v # w => thread'[v] = thread[v],
           UNCHANGED <<lifecycle, inbox>>, Hooks' = Hooks,
           UNCHANGED <<space, pending>> \/ (space' /\ ~Full')
    PROVE  Phases'
<1>w. /\ w = worker /\ Working /\ life \in {"running", "stopping"}
      /\ life = "running" => \A i \in 1..Len(inbox[worker]) : inbox[worker][i] = "message"
      /\ life = "stopping" => StopIsLast
  BY ThreadIsWorker
<1>1. life = "running" => (space' <=> ~Full')
  BY DEF Phases, Full
<1>2. life = "stopping" => space'
  BY DEF Phases
<1>. QED
  BY <1>w, <1>1, <1>2, WorkGoesOn DEF StopIsLast

\* The loop begins with a message.
LEMMA DeliveryBeginsOrdered ==
    ASSUME Counted, Ordered, NEW w \in Starts, DeliveryBegins(w)
    PROVE  Phases' /\ SpaceAwaited'
<1>u. UNCHANGED <<lifecycle, thread, inbox, space, pending, client, accepting>>
  BY DEF DeliveryBegins, mailbox, lifecycle
<1>1. thread[w] = "calling"
  BY DEF DeliveryBegins, Counted, Threads
<1>2. Hooks' = Hooks
  BY <1>u DEF Hooks
<1>3. Phases'
  BY <1>u, <1>1, <1>2, WorkerMoves DEF Counted, Ordered
<1>4. SpaceAwaited'
  BY <1>u DEF Ordered, SpaceAwaited, Full
<1>. QED
  BY <1>3, <1>4

\* The thread goes on with its result, or ends by it.
LEMMA ThreadResumesOrdered ==
    ASSUME Counted, Ordered, NEW w \in Starts, ThreadResumes(w)
    PROVE  Phases' /\ SpaceAwaited'
<1>u. UNCHANGED <<lifecycle, inbox, space, pending, client, accepting>>
  BY DEF ThreadResumes, mailbox, lifecycle
<1>1. thread[w] = "calling" /\ thread'[w] \in {"waiting", "killed"} /\ \A v \in Starts : v # w => thread'[v] = thread[v]
  BY DEF ThreadResumes, Counted, TypeOK
<1>2. Hooks' = Hooks
  BY <1>u DEF Hooks
<1>3. Phases'
  BY <1>u, <1>1, <1>2, WorkerMoves DEF Counted, Ordered
<1>4. SpaceAwaited'
  BY <1>u DEF Ordered, SpaceAwaited, Full
<1>. QED
  BY <1>3, <1>4

\* A message is completed: there is space.
LEMMA CompletedOrdered ==
    ASSUME Counted, Ordered, NEW w \in Starts, delivery[w] = "receiving", Completed,
           UNCHANGED <<lifecycle, thread, inbox>>
    PROVE  Phases' /\ SpaceAwaited'
<1>1. thread[w] = "calling"
  BY DEF Counted, Threads
<1>2. space' /\ ~Full'
  <2>1. /\ pending \in Nat /\ pending <= Capacity /\ Capacity \in Nat
    BY Numbers
  <2>2. pending' = pending - 1 /\ space' = TRUE
    BY DEF Completed
  <2>3. ~(pending' >= Capacity)
    BY <2>1, <2>2
  <2>. QED
    BY <2>2, <2>3 DEF Full
<1>3. OthersStay({}, {"await space"} \cup IF idle' THEN {"await idle"} ELSE {})
  BY WakingClients DEF Completed, Counted, TypeOK, ClientType
<1>4. Hooks' = Hooks
  BY <1>3, HooksGoOn
<1>5. Phases'
  BY <1>1, <1>2, <1>4, WorkerMoves DEF Counted, Ordered
<1>6. SpaceAwaited'
  BY <1>3, NoneWaits
<1>. QED
  BY <1>5, <1>6

\* A delivery is cancelled, in its handler or before.
LEMMA DeliveryCancelledOrdered ==
    ASSUME Counted, Ordered, NEW w \in Starts, DeliveryCancelled(w)
    PROVE  Phases' /\ SpaceAwaited'
<1>1. CASE delivery[w] = "receiving" /\ Completed
  BY <1>1, CompletedOrdered DEF DeliveryCancelled
<1>2. CASE delivery[w] = "submitted" /\ UNCHANGED <<mailbox, client>>
  <2>u. UNCHANGED <<lifecycle, thread, inbox, space, pending, client, accepting>>
    BY <1>2 DEF DeliveryCancelled, mailbox, lifecycle
  <2>1. Hooks' = Hooks /\ \A d \in Hooks : client'[d] = client[d]
    BY <2>u DEF Hooks
  <2>2. Phases'
    BY <2>u, <2>1, PhasesStay DEF Ordered
  <2>3. SpaceAwaited'
    BY <2>u DEF Ordered, SpaceAwaited, Full
  <2>. QED
    BY <2>2, <2>3
<1>. QED
  BY <1>1, <1>2 DEF DeliveryCancelled

\* The loop learns that the thread has stopped.
LEMMA OnPykkaStoppedOrdered ==
    ASSUME Counted, Ordered, NEW w \in Starts, OnPykkaStopped(w)
    PROVE  Phases' /\ SpaceAwaited'
<1>t. /\ client \in ClientType /\ TypeOK /\ Phases
      /\ finish \in [Starts -> {"none", "posted", "scheduled", "post_stop", "done"}]
      /\ life \in {"new", "starting", "running", "stopping", "stopped"}
  BY DEF Counted, Ordered, TypeOK, ClientType
<1>p. finish[w] = "posted"
  BY DEF OnPykkaStopped
<1>1. ~Rests /\ ~Working /\ ~Cleaning
  BY <1>p DEF Rests, Working, Cleaning, OthersOver, Over, Starts
<1>2. life = "stopping" /\ Finishing
  BY <1>t, <1>1 DEF Phases
<1>3. w = worker /\ ~finisher
  BY <1>p, <1>2 DEF Finishing, OthersOver, Over
<1>u. /\ life' = "stopping" /\ ~accepting' /\ space'
      /\ finish' = [finish EXCEPT ![w] = "scheduled"]
      /\ UNCHANGED <<worker, cleanup, thread, inbox>>
  BY <1>2, <1>3 DEF OnPykkaStopped, pykka
<1>c. OthersStay({}, {"await space"})
  BY <1>t, WakingClients DEF OnPykkaStopped
<1>h. Hooks' = Hooks
  BY <1>c, HooksGoOn
<1>4. Finishing'
  <2>1. finish'[w] = "scheduled" /\ \A v \in Starts : v # w => finish'[v] = finish[v]
    BY <1>t, <1>u
  <2>2. \A v \in Starts : v # w => Over(v)'
    BY <1>2, <1>3, <1>u, <2>1 DEF Finishing, OthersOver, Over
  <2>3. worker' = w /\ w # 0 /\ Hooks' = {} /\ ~cleanup' /\ thread'[w] = "stopped" /\ inbox'[w] = <<>>
    BY <1>2, <1>3, <1>u, <1>h DEF Finishing
  <2>. QED
    BY <2>1, <2>2, <2>3 DEF Finishing, OthersOver
<1>5. Phases'
  BY <1>u, <1>4 DEF Phases
<1>6. SpaceAwaited'
  BY <1>c, NoneWaits
<1>. QED
  BY <1>5, <1>6

\* _finish_stop() begins as a task.
LEMMA FinishStopOrdered ==
    ASSUME Counted, Ordered, NEW w \in Starts, FinishStop(w)
    PROVE  Phases' /\ SpaceAwaited'
<1>t. /\ TypeOK /\ Phases
      /\ finish \in [Starts -> {"none", "posted", "scheduled", "post_stop", "done"}]
      /\ life \in {"new", "starting", "running", "stopping", "stopped"}
  BY DEF Counted, Ordered, TypeOK
<1>p. finish[w] = "scheduled"
  BY DEF FinishStop
<1>1. ~Rests /\ ~Working /\ ~Cleaning
  BY <1>p DEF Rests, Working, Cleaning, OthersOver, Over, Starts
<1>2. life = "stopping" /\ Finishing
  BY <1>t, <1>1 DEF Phases
<1>3. w = worker /\ ~cleanup /\ Hooks = {}
  BY <1>p, <1>2 DEF Finishing, OthersOver, Over
<1>u. /\ worker' = 0 /\ finish' = [finish EXCEPT ![w] = "post_stop"]
      /\ UNCHANGED <<life, accepting, thread, inbox, space, pending, client>>
  BY <1>3 DEF FinishStop, pykka, mailbox
<1>4. Cleaning'
  <2>1. finish'[w] = "post_stop" /\ \A v \in Starts : v # w => finish'[v] = finish[v]
    BY <1>t, <1>u
  <2>2. \A v \in Starts : v # w => finish'[v] \in {"none", "done"}
    BY <1>2, <1>3, <2>1 DEF Finishing, OthersOver, Over
  <2>3. \A v \in Starts : thread'[v] \in {"none", "stopped"} /\ inbox'[v] = <<>>
    BY <1>2, <1>3, <1>u DEF Finishing, OthersOver, Over
  <2>4. Hooks' = {}
    BY <1>3, <1>u DEF Hooks
  <2>. QED
    BY <1>u, <2>1, <2>2, <2>3, <2>4 DEF Cleaning
<1>5. Phases'
  BY <1>t, <1>u, <1>2, <1>4 DEF Phases
<1>6. SpaceAwaited'
  BY <1>u DEF Ordered, SpaceAwaited, Full
<1>. QED
  BY <1>5, <1>6

\* _finish_stop() ends: the actor is stopped.
LEMMA FinishStopEndsOrdered ==
    ASSUME Counted, Ordered, NEW w \in Starts, FinishStopEnds(w)
    PROVE  Phases' /\ SpaceAwaited'
<1>t. /\ client \in ClientType /\ TypeOK /\ Phases
      /\ finish \in [Starts -> {"none", "posted", "scheduled", "post_stop", "done"}]
      /\ life \in {"new", "starting", "running", "stopping", "stopped"}
  BY DEF Counted, Ordered, TypeOK, ClientType
<1>p. finish[w] = "post_stop"
  BY DEF FinishStopEnds
<1>1. ~Rests /\ ~Working /\ ~Finishing
  BY <1>p DEF Rests, Working, Finishing, OthersOver, Over, Starts
<1>2. life = "stopping" /\ Cleaning
  BY <1>t, <1>1 DEF Phases
<1>3. Hooks = {} /\ worker = 0 /\ \A v \in Starts : v # w => finish[v] \in {"none", "done"}
  BY <1>p, <1>2 DEF Cleaning
<1>u. /\ life' = "stopped" /\ ~accepting' /\ space'
      /\ finish' = [finish EXCEPT ![w] = "done"]
      /\ UNCHANGED <<worker, thread, inbox>>
  BY DEF FinishStopEnds, Ends, pykka
<1>c. OthersStay({}, {"await space", "await stopped"})
  BY <1>t, WakingClients DEF FinishStopEnds
<1>h. Hooks' = {}
  BY <1>3, <1>c, HooksGoOn
<1>4. Rests'
  <2>1. \A v \in Starts : finish'[v] \in {"none", "done"}
    BY <1>t, <1>u, <1>3
  <2>2. \A v \in Starts : Over(v)'
    BY <1>2, <1>u, <2>1 DEF Cleaning, Over
  <2>. QED
    BY <1>3, <1>u, <2>2 DEF Rests, OthersOver
<1>5. Phases'
  BY <1>u, <1>h, <1>4 DEF Phases
<1>6. SpaceAwaited'
  BY <1>c, NoneWaits
<1>. QED
  BY <1>5, <1>6

\* Only a thread that was made stops, and has an end.
LEMMA UnbegunNext ==
    ASSUME TypeOK, Unbegun, Next
    PROVE  Unbegun'
<1>t. /\ thread \in [Starts -> {"none", "waiting", "calling", "stopped", "killed"}]
      /\ finish \in [Starts -> {"none", "posted", "scheduled", "post_stop", "done"}]
  BY DEF TypeOK
<1>1. ASSUME UNCHANGED <<thread, finish>>
      PROVE  Unbegun'
  BY <1>1 DEF Unbegun
<1>2. ASSUME NEW c \in Clients, Calls(c)
      PROVE  Unbegun'
  <2>1. CASE PreStartReturns(c)
    BY <2>1, <1>t DEF PreStartReturns, Unbegun
  <2>2. CASE ~PreStartReturns(c)
    <3>1. UNCHANGED <<thread, finish>>
      BY <1>2, <2>2 DEF Calls, Start, PreStartFails, FailedStartEnds, Stop, Tell, RetryTell, Join, lifecycle, pykka
    <3>. QED
      BY <1>1, <3>1
  <2>. QED
    BY <2>1, <2>2
<1>3. CASE RequestStop
  BY <1>1, <1>3 DEF RequestStop
<1>4. ASSUME NEW w \in Starts, Runs(w) \/ DeliveryCancelled(w)
      PROVE  Unbegun'
  <2>1. CASE Take(w)
    BY <2>1, <1>t DEF Take, Unbegun
  <2>2. CASE ThreadResumes(w)
    BY <2>2, <1>t DEF ThreadResumes, lifecycle, Unbegun
  <2>3. CASE OnPykkaStopped(w)
    BY <2>3, <1>t DEF OnPykkaStopped, pykka, Unbegun
  <2>4. CASE FinishStop(w)
    BY <2>4, <1>t DEF FinishStop, pykka, Unbegun
  <2>5. CASE FinishStopEnds(w)
    BY <2>5, <1>t DEF FinishStopEnds, pykka, Unbegun
  <2>6. CASE DeliveryBegins(w) \/ DeliveryEnds(w) \/ DeliveryCancelled(w)
    <3>1. UNCHANGED <<thread, finish>>
      BY <2>6 DEF DeliveryBegins, DeliveryEnds, DeliveryCancelled, lifecycle
    <3>. QED
      BY <1>1, <3>1
  <2>. QED
    BY <1>4, <2>1, <2>2, <2>3, <2>4, <2>5, <2>6 DEF Runs
<1>. QED
  BY <1>2, <1>3, <1>4 DEF Next

\* The actor is new.
LEMMA InitOrdered == Init => Ordered
<1>. SUFFICES ASSUME Init
              PROVE  Ordered
  OBVIOUS
<1>1. Phases
  <2>1. Hooks = {}
    BY CallsType DEF Init, Hooks
  <2>2. Rests
    BY DEF Init, Rests, OthersOver, Over
  <2>. QED
    BY <2>1, <2>2 DEF Init, Phases
<1>2. SpaceAwaited
  BY CallsType DEF Init, SpaceAwaited
<1>3. Unbegun
  BY DEF Init, Unbegun
<1>. QED
  BY <1>1, <1>2, <1>3 DEF Ordered

\* Every step keeps to the phases, as long as no start begins before the one
\* before it has ended.
LEMMA NextOrdered == ~Overlaps /\ Counted /\ Ordered /\ [Next]_vars => Ordered'
<1>. SUFFICES ASSUME ~Overlaps, Counted, Ordered, [Next]_vars
              PROVE  Ordered'
  OBVIOUS
<1>t. TypeOK /\ Phases /\ SpaceAwaited /\ Unbegun
  BY DEF Counted, Ordered
<1>1. ASSUME NEW c \in Clients, Calls(c)
      PROVE  Phases' /\ SpaceAwaited'
  <2>1. CASE Start(c)
    BY <2>1, <1>t, StartOrdered
  <2>2. CASE Tell(c) \/ RetryTell(c)
    <3>1. client[c].call \notin HookCalls
      BY <2>2, CallsType DEF Tell, RetryTell, HookCalls
    <3>. QED
      BY <2>2, <3>1, TellingOrdered DEF Tell, RetryTell
  <2>3. CASE PreStartReturns(c) \/ PreStartFails(c) \/ FailedStartEnds(c)
    BY <2>3, PreStartReturnsOrdered, PreStartFailsOrdered, FailedStartEndsOrdered
  <2>4. CASE Stop(c) \/ Join(c)
    BY <2>4, StopOrdered, JoinOrdered
  <2>. QED
    BY <1>1, <2>1, <2>2, <2>3, <2>4 DEF Calls
<1>2. ASSUME RequestStop
      PROVE  Phases' /\ SpaceAwaited'
  BY <1>2, RequestStopOrdered
<1>3. ASSUME NEW w \in Starts, Runs(w) \/ DeliveryCancelled(w)
      PROVE  Phases' /\ SpaceAwaited'
  <2>1. CASE DeliveryEnds(w)
    BY <2>1, CompletedOrdered DEF DeliveryEnds
  <2>2. CASE Take(w) \/ DeliveryBegins(w) \/ ThreadResumes(w)
    BY <2>2, TakeOrdered, DeliveryBeginsOrdered, ThreadResumesOrdered
  <2>3. CASE OnPykkaStopped(w) \/ FinishStop(w) \/ FinishStopEnds(w) \/ DeliveryCancelled(w)
    BY <2>3, OnPykkaStoppedOrdered, FinishStopOrdered, FinishStopEndsOrdered, DeliveryCancelledOrdered
  <2>. QED
    BY <1>3, <2>1, <2>2, <2>3 DEF Runs
<1>4. CASE UNCHANGED vars
  <2>1. UNCHANGED <<lifecycle, thread, inbox, space, pending, client, accepting, finish>>
    BY <1>4 DEF vars, lifecycle, pykka, mailbox
  <2>2. Hooks' = Hooks /\ \A d \in Hooks : client'[d] = client[d]
    BY <2>1 DEF Hooks
  <2>3. Phases'
    BY <2>1, <2>2, <1>t, PhasesStay
  <2>4. SpaceAwaited' /\ Unbegun'
    BY <2>1, <1>t DEF SpaceAwaited, Full, Unbegun
  <2>. QED
    BY <2>3, <2>4 DEF Ordered
<1>5. CASE Next
  <2>1. Unbegun'
    BY <1>5, <1>t, UnbegunNext
  <2>2. Phases' /\ SpaceAwaited'
    BY <1>1, <1>2, <1>3, <1>5 DEF Next
  <2>. QED
    BY <2>1, <2>2 DEF Ordered
<1>. QED
  BY <1>4, <1>5

-----------------------------------------------------------------------------
(* Theorems. *)

\* Where starts do not overlap, the phases hold.
LEMMA AlwaysOrdered ==
    ASSUME ~Overlaps
    PROVE  Spec => [](Counted /\ Ordered)
<1>1. Init => Counted /\ Ordered
  BY InitCounted, InitOrdered
<1>2. Counted /\ Ordered /\ [Next]_vars => (Counted /\ Ordered)'
  BY NextCounted, NextOrdered
<1>. QED
  BY <1>1, <1>2, PTL DEF Spec

\* However starts overlap, the counter is zero just when _idle is set, and
\* counts at least what is undone, and just that unless a delivery was
\* cancelled; a task that awaits a stop or an idle mailbox is not forgotten.
THEOREM CountCorrect == Spec => [](Counts /\ Waiters)
<1>1. Counted => Counts /\ Waiters
  BY DEF Counted
<1>. QED
  BY AlwaysCounted, <1>1, PTL

\* The events say what the counter and the queue say, and no task sleeps
\* through what it waits for, unless a start begins before the one before it
\* has ended.
THEOREM SignalsHold ==
    ASSUME ~Overlaps
    PROVE  Spec => []SignalsTrusted
<1>1. Counted /\ Ordered => SignalsTrusted
  <2>. SUFFICES ASSUME Counted, Ordered
                PROVE  SignalsTrusted
    OBVIOUS
  <2>1. SignalsAgree
    BY DEF Counted, Counts, Ordered, Phases, SignalsAgree
  <2>2. NoLostWakeup
    BY DEF Counted, Waiters, Ordered, SpaceAwaited, NoLostWakeup
  <2>. QED
    BY <2>1, <2>2 DEF SignalsTrusted
<1>. QED
  BY AlwaysOrdered, <1>1, PTL

\* When the actor says it is stopped, every message that was told to one of its
\* threads has been handled.
THEOREM StopDrains ==
    ASSUME ~Overlaps
    PROVE  Spec => []StoppedMeansDrained
<1>1. Counted /\ Ordered => StoppedMeansDrained
  <2>. SUFFICES ASSUME Counted, Ordered, life = "stopped"
                PROVE  Undone = {}
    BY DEF StoppedMeansDrained
  <2>1. \A w \in Starts : Over(w)
    BY DEF Ordered, Phases, Rests, OthersOver, Starts
  <2>2. \A w \in Starts : inbox[w] = <<>> /\ delivery[w] = "none"
    BY <2>1 DEF Over, Counted, Threads
  <2>3. \A w \in Starts : Places(w) = {}
    BY <2>2 DEF Places
  <2>. QED
    BY <2>3, UndoneIs
<1>. QED
  BY AlwaysOrdered, <1>1, PTL

=============================================================================
