------------------------------- MODULE Outbox -------------------------------
(***************************************************************************)
(* The durable StarIntel outbox of an operation database                   *)
(* (source/hackmode-core/outbox.lisp, outbox-actor.lisp).                  *)
(*                                                                         *)
(* Producers enqueue documents, drainers (the outbox actor, and any caller *)
(* of DRAIN-OUTBOX) deliver them over HTTP.  The named Tek9 database is    *)
(* the only state that survives a crash: every other variable that belongs *)
(* to the process is lost.  One persist is one atomic Tek9 put; a drain    *)
(* works on the copies it decoded when it listed the database.             *)
(*                                                                         *)
(* A document stands for one outbox ID, which the code derives from the    *)
(* document id and the payload; numbers stand for the order of the IDs as  *)
(* strings.  Messages, HTTP status values and timestamps other than        *)
(* CREATED-AT and NEXT-ATTEMPT-AT are not modelled.                        *)
(***************************************************************************)
EXTENDS Integers

CONSTANTS Docs,        \* the outbox IDs, as numbers in the order of STRING<
          Producers,   \* threads that may call ENQUEUE-STARINTEL-JSON
          Drainers,    \* threads that may run DRAIN-OUTBOX
          MaxAttempts, \* *outbox-max-attempts*
          BackoffBase, \* *outbox-backoff-base-seconds*
          BackoffMax,  \* *outbox-backoff-max-seconds*
          Limit,       \* the LIMIT of a drain
          MaxClock,    \* bound: the last instant the model tells apart
          MaxCrashes,  \* bound: process crashes in a behaviour
          MaxFaults    \* bound: failing Tek9 writes in a behaviour

ASSUME OutboxAssumption ==
    /\ Docs \subseteq Nat
    /\ MaxAttempts \in Nat \ {0}
    /\ BackoffBase \in Nat
    /\ BackoffMax \in Nat
    /\ Limit \in Nat \ {0}
    /\ MaxClock \in Nat
    /\ MaxCrashes \in Nat
    /\ MaxFaults \in Nat

VARIABLES store,    \* document -> the durable entry, or Absent
          producer, \* producer -> its progress through an enqueue
          drain,    \* drainer -> its progress through a drain
          wire,     \* documents of requests the server may still act on
          accepted, \* documents the StarIntel ingest has accepted
          clock,    \* unix-now
          crashes, faults

vars == <<store, producer, drain, wire, accepted, clock, crashes, faults>>

-----------------------------------------------------------------------------
(* Entries. *)

NoTime == -1                          \* NIL in NEXT-ATTEMPT-AT

Terminal == {"acknowledged", "quarantined", "failed"}
States   == {"absent", "queued", "sending", "retry"} \cup Terminal

Entry == [state: States, attempts: Nat, next: Nat \cup {NoTime},
          acked: BOOLEAN, created: Nat]

Absent == [state |-> "absent", attempts |-> 0, next |-> NoTime,
           acked |-> FALSE, created |-> 0]

NewEntry(now) == [Absent EXCEPT !.state = "queued", !.created = now]

\* The clock stops at MaxClock, so later instants are cut off there.
CutOff(t) == IF t > MaxClock THEN MaxClock ELSE t

BackoffSeconds(attempts) ==
    LET delay == BackoffBase * 2 ^ (IF attempts > 0 THEN attempts - 1 ELSE 0)
    IN  IF delay < BackoffMax THEN delay ELSE BackoffMax

\* Mutant of Due: an entry a crash left SENDING is forgotten.
DueNeverSending(entry, now) ==
    \/ entry.state = "queued"
    \/ entry.state = "retry" /\ (entry.next = NoTime \/ entry.next <= now)

\* Mutant of Due: a drain takes up entries that were given up.
DueFailedToo(entry, now) ==
    \/ entry.state \in {"queued", "sending", "failed"}
    \/ entry.state = "retry" /\ (entry.next = NoTime \/ entry.next <= now)

Due(entry, now) ==
    \/ entry.state \in {"queued", "sending"}
    \/ entry.state = "retry" /\ (entry.next = NoTime \/ entry.next <= now)

Sending(entry) ==
    [entry EXCEPT !.state = "sending", !.attempts = @ + 1, !.next = NoTime]

Acknowledged(entry) ==
    [entry EXCEPT !.state = "acknowledged", !.next = NoTime, !.acked = TRUE]

\* Mutant of Quarantined: a state no other function knows.
QuarantinedAsRejected(entry) == [entry EXCEPT !.state = "rejected", !.next = NoTime]

Quarantined(entry) == [entry EXCEPT !.state = "quarantined", !.next = NoTime]

\* Mutant of RetryOrFailed: the comparison is off by one.
RetryOncePastTheLimit(entry, now) ==
    IF entry.attempts > MaxAttempts
    THEN [entry EXCEPT !.state = "failed", !.next = NoTime]
    ELSE [entry EXCEPT !.state = "retry",
                       !.next = CutOff(now + BackoffSeconds(entry.attempts))]

RetryOrFailed(entry, now) ==
    IF entry.attempts >= MaxAttempts
    THEN [entry EXCEPT !.state = "failed", !.next = NoTime]
    ELSE [entry EXCEPT !.state = "retry",
                       !.next = CutOff(now + BackoffSeconds(entry.attempts))]

\* The order of LIST-OUTBOX-ENTRIES.
Before(snap, d, e) ==
    \/ snap[d].created < snap[e].created
    \/ snap[d].created = snap[e].created /\ d <= e

-----------------------------------------------------------------------------
(* The progress of a thread. *)

IdleProducer == [pc |-> "idle", doc |-> NoTime, now |-> 0]

IdleDrain == [pc |-> "idle", now |-> 0, todo |-> {}, left |-> 0,
              cur |-> NoTime, reply |-> "none", snap |-> [d \in Docs |-> Absent]]

Holding == {"marked", "posted", "replied", "recover"}   \* CUR is a document

Producing == {p \in [pc: {"idle", "put"}, doc: Docs \cup {NoTime}, now: Nat] :
                p.pc = "put" => p.doc \in Docs}

Draining == {w \in [pc: {"idle", "scan"} \cup Holding, now: Nat, todo: SUBSET Docs,
                    left: Nat, cur: Docs \cup {NoTime},
                    reply: {"none", "ok", "reject", "transient", "error"},
                    snap: [Docs -> Entry]] :
                w.pc \in Holding => w.cur \in Docs}

TypeOK ==
    /\ store \in [Docs -> Entry]
    /\ producer \in [Producers -> Producing]
    /\ drain \in [Drainers -> Draining]
    /\ wire \subseteq Docs
    /\ accepted \subseteq Docs
    /\ clock \in Nat
    /\ crashes \in Nat
    /\ faults \in Nat

Init ==
    /\ store = [d \in Docs |-> Absent]
    /\ producer = [p \in Producers |-> IdleProducer]
    /\ drain = [w \in Drainers |-> IdleDrain]
    /\ wire = {}
    /\ accepted = {}
    /\ clock = 0
    /\ crashes = 0
    /\ faults = 0

-----------------------------------------------------------------------------
(* ENQUEUE-STARINTEL-JSON: a fetch, then a put, in no transaction.  When   *)
(* the fetch finds the record, the call returns it and changes nothing.    *)

\* Mutant of EnqueueMiss: the record is written whether or not it exists.
EnqueueUpsert(p, d) ==
    /\ producer[p].pc = "idle"
    /\ producer' = [producer EXCEPT ![p] = [pc |-> "put", doc |-> d, now |-> clock]]
    /\ UNCHANGED <<store, drain, wire, accepted, clock, crashes, faults>>

EnqueueMiss(p, d) ==
    /\ producer[p].pc = "idle"
    /\ store[d].state = "absent"
    /\ producer' = [producer EXCEPT ![p] = [pc |-> "put", doc |-> d, now |-> clock]]
    /\ UNCHANGED <<store, drain, wire, accepted, clock, crashes, faults>>

EnqueuePut(p) ==
    /\ producer[p].pc = "put"
    /\ store' = [store EXCEPT ![producer[p].doc] = NewEntry(producer[p].now)]
    /\ producer' = [producer EXCEPT ![p] = IdleProducer]
    /\ UNCHANGED <<drain, wire, accepted, clock, crashes, faults>>

\* The put signals: the caller of the enqueue sees the error.
EnqueueFault(p) ==
    /\ producer[p].pc = "put"
    /\ faults < MaxFaults
    /\ faults' = faults + 1
    /\ producer' = [producer EXCEPT ![p] = IdleProducer]
    /\ UNCHANGED <<store, drain, wire, accepted, clock, crashes>>

-----------------------------------------------------------------------------
(* DRAIN-OUTBOX: one snapshot, one NOW, then the due entries one by one.   *)

DrainerBecomes(w, progress) == drain' = [drain EXCEPT ![w] = progress]

StartDrain(w) ==
    /\ drain[w].pc = "idle"
    /\ LET due == {d \in Docs : Due(store[d], clock)}
       IN  DrainerBecomes(w,
               [IdleDrain EXCEPT !.pc = "scan", !.now = clock, !.todo = due, !.left = Limit,
                   !.snap = [d \in Docs |-> IF d \in due THEN store[d] ELSE Absent]])
    /\ UNCHANGED <<store, producer, wire, accepted, clock, crashes, faults>>

FinishDrain(w) ==
    /\ drain[w].pc = "scan"
    /\ drain[w].todo = {} \/ drain[w].left = 0
    /\ DrainerBecomes(w, IdleDrain)
    /\ UNCHANGED <<store, producer, wire, accepted, clock, crashes, faults>>

IsNext(w, d) ==
    /\ drain[w].pc = "scan"
    /\ drain[w].left > 0
    /\ d \in drain[w].todo
    /\ \A e \in drain[w].todo : Before(drain[w].snap, d, e)

\* MARK-OUTBOX-SENDING, before the request leaves.
MarkSending(w, d) ==
    /\ IsNext(w, d)
    /\ LET entry == Sending(drain[w].snap[d])
       IN  /\ store' = [store EXCEPT ![d] = entry]
           /\ DrainerBecomes(w, [drain[w] EXCEPT !.pc = "marked", !.cur = d, !.left = @ - 1,
                                                 !.todo = @ \ {d}, !.snap[d] = entry])
    /\ UNCHANGED <<producer, wire, accepted, clock, crashes, faults>>

\* The transport is called: the request is on its way to the server.
Post(w) ==
    /\ drain[w].pc = "marked"
    /\ wire' = wire \cup {drain[w].cur}
    /\ DrainerBecomes(w, [drain[w] EXCEPT !.pc = "posted"])
    /\ UNCHANGED <<store, producer, accepted, clock, crashes, faults>>

\* The server acts on a request, possibly after the sender stopped waiting.
ServerAccept(d) ==
    /\ d \in wire
    /\ wire' = wire \ {d}
    /\ accepted' = accepted \cup {d}
    /\ UNCHANGED <<store, producer, drain, clock, crashes, faults>>

\* What the transport returns: 2xx, a permanent 4xx, any other status, or an
\* OUTBOX-TRANSPORT-ERROR.  The last two may hide that the server accepted.
Reply(w, reply) ==
    /\ drain[w].pc = "posted"
    /\ reply = "ok" => drain[w].cur \in accepted
    /\ DrainerBecomes(w, [drain[w] EXCEPT !.pc = "replied", !.reply = reply])
    /\ UNCHANGED <<store, producer, wire, accepted, clock, crashes, faults>>

\* Mutant of Outcome: any answer but a permanent 4xx acknowledges the entry.
OutcomeAnyStatus(w) ==
    LET entry == drain[w].snap[drain[w].cur]
    IN  CASE drain[w].reply = "reject" -> Quarantined(entry)
          [] drain[w].reply = "error"  -> RetryOrFailed(entry, drain[w].now)
          [] OTHER                     -> Acknowledged(entry)

\* The entry the drainer holds after MARK-OUTBOX-ACKNOWLEDGED, -QUARANTINED
\* or -RETRY-OR-FAILED has changed it in memory.
Outcome(w) ==
    LET entry == drain[w].snap[drain[w].cur]
    IN  CASE drain[w].reply = "ok"     -> Acknowledged(entry)
          [] drain[w].reply = "reject" -> Quarantined(entry)
          [] OTHER                     -> RetryOrFailed(entry, drain[w].now)

\* The loop goes on with the next entry; the settled copy is garbage.
Continue(w) ==
    DrainerBecomes(w, [drain[w] EXCEPT !.pc = "scan", !.cur = NoTime, !.reply = "none",
                                       !.snap[drain[w].cur] = Absent])

\* PROCESS-OUTBOX-ENTRY records what the transport returned.
Settle(w) ==
    /\ drain[w].pc = "replied"
    /\ store' = [store EXCEPT ![drain[w].cur] = Outcome(w)]
    /\ Continue(w)
    /\ UNCHANGED <<producer, wire, accepted, clock, crashes, faults>>

\* The put of an outcome signals inside HANDLER-CASE: its ERROR clause takes
\* the entry, as changed in memory, to MARK-OUTBOX-RETRY-OR-FAILED.
SettleFault(w) ==
    /\ drain[w].pc = "replied"
    /\ drain[w].reply # "error"
    /\ faults < MaxFaults
    /\ faults' = faults + 1
    /\ DrainerBecomes(w, [drain[w] EXCEPT !.pc = "recover",
                                          !.snap[drain[w].cur] = Outcome(w)])
    /\ UNCHANGED <<store, producer, wire, accepted, clock, crashes>>

Recover(w) ==
    /\ drain[w].pc = "recover"
    /\ LET d == drain[w].cur
       IN  store' = [store EXCEPT ![d] = RetryOrFailed(drain[w].snap[d], drain[w].now)]
    /\ Continue(w)
    /\ UNCHANGED <<producer, wire, accepted, clock, crashes, faults>>

\* A put that signals outside the protected form (MARK-OUTBOX-SENDING, or a
\* handler clause) ends the whole drain; the store keeps what it had.
AbortDrain(w) ==
    /\ \/ drain[w].pc = "scan" /\ drain[w].todo # {} /\ drain[w].left > 0
       \/ drain[w].pc = "replied" /\ drain[w].reply = "error"
       \/ drain[w].pc = "recover"
    /\ faults < MaxFaults
    /\ faults' = faults + 1
    /\ DrainerBecomes(w, IdleDrain)
    /\ UNCHANGED <<store, producer, wire, accepted, clock, crashes>>

-----------------------------------------------------------------------------
(* The environment. *)

\* The process dies and restarts: only the store and the server keep state.
Crash ==
    /\ crashes < MaxCrashes
    /\ crashes' = crashes + 1
    /\ producer' = [p \in Producers |-> IdleProducer]
    /\ drain' = [w \in Drainers |-> IdleDrain]
    /\ UNCHANGED <<store, wire, accepted, clock, faults>>

Tick ==
    /\ clock < MaxClock
    /\ clock' = clock + 1
    /\ UNCHANGED <<store, producer, drain, wire, accepted, crashes, faults>>

Produce(p) == EnqueuePut(p) \/ EnqueueFault(p) \/ \E d \in Docs : EnqueueMiss(p, d)

Deliver(w) ==
    \/ StartDrain(w) \/ FinishDrain(w)
    \/ \E d \in Docs : MarkSending(w, d)
    \/ Post(w)
    \/ \E reply \in {"ok", "reject", "transient", "error"} : Reply(w, reply)
    \/ Settle(w) \/ Recover(w)

Next ==
    \/ \E p \in Producers : Produce(p)
    \/ \E w \in Drainers : Deliver(w) \/ SettleFault(w) \/ AbortDrain(w)
    \/ \E d \in Docs : ServerAccept(d)
    \/ Crash
    \/ Tick

Spec == Init /\ [][Next]_vars

\* Drains are requested again and again, a drain runs to its end, the HTTP
\* timeouts make the transport return, and time passes.
FairSpec ==
    /\ Spec
    /\ \A w \in Drainers : WF_vars(Deliver(w))
    /\ WF_vars(Tick)

-----------------------------------------------------------------------------
(* Properties. *)

\* No entry claims the ingest acceptance (ACK-KIND :INGEST-ACCEPTED) of a
\* document the server never accepted, whatever is lost, late or repeated.
AckImpliesAccepted ==
    \A d \in Docs :
        store[d].acked \/ store[d].state = "acknowledged" => d \in accepted

\* Every attempt beyond *outbox-max-attempts* is paid for by a drain that was
\* cut short after MARK-OUTBOX-SENDING: by a crash or by a failing write.
AttemptsPaidByInterruptions ==
    \A d \in Docs : store[d].attempts <= MaxAttempts + crashes + faults

\* Acknowledged, quarantined and failed entries are never touched again.
TerminalIsFinal ==
    [][\A d \in Docs : store[d].state \in Terminal => store'[d] = store[d]]_vars

\* Every durable entry ends acknowledged, quarantined or failed: none is left
\* SENDING by a crash, none waits behind the LIMIT of the drains for ever.
EventuallySettled ==
    \A d \in Docs : (store[d].state # "absent") ~> (store[d].state \in Terminal)

\* The outbox implements the ledger a producer relies on, whenever one thread
\* enqueues and one drains: DeliveryLedger.tla says what is promised.
LedgerState(entry) ==
    CASE entry.state = "absent"       -> "unknown"
      [] entry.state = "acknowledged" -> "delivered"
      [] entry.state = "quarantined"  -> "rejected"
      [] entry.state = "failed"       -> "abandoned"
      [] OTHER                        -> "pending"

LedgerStatus == [d \in Docs |-> LedgerState(store[d])]

Ledger == INSTANCE DeliveryLedger WITH status <- LedgerStatus
LedgerSpec == Ledger!Spec

\* outbox.lisp:9-10, "Maximum delivery attempts before an outbox entry
\* becomes FAILED": what the parameter is documented to mean.
AttemptsAtMostMax == \A d \in Docs : store[d].attempts <= MaxAttempts
=============================================================================
