---------------------------- MODULE OutboxProofs ----------------------------
(***************************************************************************)
(* Theorems about Outbox, for every set of documents, producers and        *)
(* drainers and every value of the outbox parameters.                      *)
(***************************************************************************)
EXTENDS Outbox, FiniteSetTheorems, TLAPS

\* The exponential of OUTBOX-BACKOFF-SECONDS is a natural number.
LEMMA PowerOfTwo ==
    ASSUME NEW n \in Nat
    PROVE  2 ^ n \in Nat
<1>1. IsFiniteSet(1..n) /\ Cardinality(1..n) = n
  BY FS_Interval
<1>2. IsFiniteSet(SUBSET (1..n)) /\ Cardinality(SUBSET (1..n)) = 2 ^ Cardinality(1..n)
  BY <1>1, FS_SUBSET
<1> QED
  BY <1>1, <1>2, FS_CardinalityType

\* The delay OUTBOX-BACKOFF-SECONDS computes is a natural number, at most the
\* configured maximum.
LEMMA BackoffType ==
    ASSUME NEW a \in Nat
    PROVE  BackoffSeconds(a) \in Nat /\ BackoffSeconds(a) <= BackoffMax
<1> DEFINE n == IF a > 0 THEN a - 1 ELSE 0
<1>1. n \in Nat
  OBVIOUS
<1> HIDE DEF n
<1>2. 2 ^ n \in Nat
  BY <1>1, PowerOfTwo
<1> DEFINE p == 2 ^ n
<1>3. p \in Nat
  BY <1>2
<1> HIDE DEF p
<1>4. BackoffBase * p \in Nat
  BY <1>3, OutboxAssumption
<1>5. BackoffSeconds(a) = IF BackoffBase * p < BackoffMax THEN BackoffBase * p ELSE BackoffMax
  BY DEF BackoffSeconds, p, n
<1> QED
  BY <1>4, <1>5, OutboxAssumption

\* Instants stay natural numbers when they are cut off.
LEMMA CutOffType == ASSUME NEW t \in Nat PROVE CutOff(t) \in Nat
  BY OutboxAssumption DEF CutOff

\* What each MARK-OUTBOX function makes of an entry is an entry.
LEMMA EntryOperations ==
    ASSUME NEW entry \in Entry, NEW now \in Nat
    PROVE  /\ Absent \in Entry
           /\ NewEntry(now) \in Entry
           /\ Sending(entry) \in Entry
           /\ Acknowledged(entry) \in Entry
           /\ Quarantined(entry) \in Entry
           /\ RetryOrFailed(entry, now) \in Entry
<1>1. Absent \in Entry /\ NewEntry(now) \in Entry
  BY DEF Absent, NewEntry, Entry, States, Terminal, NoTime
<1>2. Sending(entry) \in Entry
  <2> DEFINE more == entry.attempts + 1
  <2>1. more \in Nat
    BY DEF Entry
  <2>2. Sending(entry) =
          [entry EXCEPT !.state = "sending", !.attempts = more, !.next = NoTime]
    BY DEF Sending
  <2> HIDE DEF more
  <2> QED
    BY <2>1, <2>2 DEF Entry, States, Terminal, NoTime
<1>3. Acknowledged(entry) \in Entry /\ Quarantined(entry) \in Entry
  BY DEF Acknowledged, Quarantined, Entry, States, Terminal, NoTime
<1>4. RetryOrFailed(entry, now) \in Entry
  <2>1. entry.attempts \in Nat
    BY DEF Entry
  <2> DEFINE later == CutOff(now + BackoffSeconds(entry.attempts))
  <2>2. later \in Nat
    BY <2>1, BackoffType, CutOffType
  <2>3. RetryOrFailed(entry, now) = IF entry.attempts >= MaxAttempts
            THEN [entry EXCEPT !.state = "failed", !.next = NoTime]
            ELSE [entry EXCEPT !.state = "retry", !.next = later]
    BY DEF RetryOrFailed
  <2> HIDE DEF later
  <2> QED
    BY <2>2, <2>3 DEF Entry, States, Terminal, NoTime
<1> QED
  BY <1>1, <1>2, <1>3, <1>4

-----------------------------------------------------------------------------
(* Type correctness. *)

\* The two constant entries and the idle threads are well typed.
LEMMA ConstantTypes ==
    /\ Absent \in Entry
    /\ IdleProducer \in Producing
    /\ IdleDrain \in Draining
<1>1. Absent \in Entry
  BY DEF Absent, Entry, States, Terminal, NoTime
<1>2. IdleProducer \in Producing
  BY DEF IdleProducer, Producing, NoTime
<1>3. IdleDrain \in Draining
  BY <1>1 DEF IdleDrain, Draining, Holding, NoTime
<1> QED
  BY <1>1, <1>2, <1>3

LEMMA InitTypeOK == Init => TypeOK
<1> SUFFICES ASSUME Init PROVE TypeOK
  OBVIOUS
<1> QED
  BY ConstantTypes DEF Init, TypeOK

LEMMA NextTypeOK == TypeOK /\ [Next]_vars => TypeOK'
<1> SUFFICES ASSUME TypeOK, [Next]_vars PROVE TypeOK'
  OBVIOUS
<1> USE DEF TypeOK
<1>a. Absent \in Entry
  BY ConstantTypes
<1>b. IdleProducer \in Producing
  BY ConstantTypes
<1>c. IdleDrain \in Draining
  BY ConstantTypes
<1>1. ASSUME NEW p \in Producers, Produce(p) PROVE TypeOK'
  <2>1. ASSUME NEW d \in Docs, EnqueueMiss(p, d) PROVE TypeOK'
    <3>1. [pc |-> "put", doc |-> d, now |-> clock] \in Producing
      BY DEF Producing
    <3> QED
      BY <2>1, <3>1 DEF EnqueueMiss
  <2>2. CASE EnqueuePut(p)
    <3>1. producer[p] \in Producing
      OBVIOUS
    <3>2. producer[p].now \in Nat
      BY <3>1 DEF Producing
    <3>3. NewEntry(producer[p].now) \in Entry
      BY <1>a, <3>2, EntryOperations
    <3>4. store' \in [Docs -> Entry]
      BY <2>2, <3>3 DEF EnqueuePut
    <3>5. producer' \in [Producers -> Producing]
      BY <1>b, <2>2 DEF EnqueuePut
    <3> QED
      BY <2>2, <3>4, <3>5 DEF EnqueuePut
  <2>3. CASE EnqueueFault(p)
    BY <1>b, <2>3 DEF EnqueueFault
  <2> QED
    BY <1>1, <2>1, <2>2, <2>3 DEF Produce
<1>2. ASSUME NEW w \in Drainers, Deliver(w) \/ SettleFault(w) \/ AbortDrain(w)
      PROVE  TypeOK'
  <2>d. drain[w] \in Draining
    OBVIOUS
  <2>s. /\ drain[w].snap \in [Docs -> Entry] /\ drain[w].now \in Nat
        /\ drain[w].todo \subseteq Docs /\ drain[w].left \in Nat
        /\ drain[w].cur \in Docs \cup {NoTime}
        /\ drain[w].pc \in Holding => drain[w].cur \in Docs
    BY <2>d DEF Draining, Holding
  <2>o. ASSUME NEW d \in Docs
        PROVE  /\ Acknowledged(drain[w].snap[d]) \in Entry
               /\ Quarantined(drain[w].snap[d]) \in Entry
               /\ RetryOrFailed(drain[w].snap[d], drain[w].now) \in Entry
               /\ Sending(drain[w].snap[d]) \in Entry
    BY <2>s, EntryOperations
  <2>q. ASSUME drain[w].cur \in Docs PROVE Outcome(w) \in Entry
    BY <2>q, <2>o DEF Outcome
  <2>r. ASSUME NEW v, drain[w].cur \in Docs => v \in Entry
        PROVE  /\ [store EXCEPT ![drain[w].cur] = v] \in [Docs -> Entry]
               /\ [drain[w].snap EXCEPT ![drain[w].cur] = v] \in [Docs -> Entry]
    BY <2>r, <2>s
  <2>1. CASE StartDrain(w)
    <3> DEFINE due == {d \in Docs : Due(store[d], clock)}
               copies == [d \in Docs |-> IF d \in due THEN store[d] ELSE Absent]
               started == [IdleDrain EXCEPT !.pc = "scan", !.now = clock, !.todo = due,
                                            !.left = Limit, !.snap = copies]
    <3>1. due \subseteq Docs /\ copies \in [Docs -> Entry] /\ clock \in Nat /\ Limit \in Nat
      BY <1>a, OutboxAssumption
    <3>2. drain' = [drain EXCEPT ![w] = started]
      BY <2>1 DEF StartDrain, DrainerBecomes
    <3> HIDE DEF due, copies
    <3>3. started \in Draining
      BY <1>c, <3>1 DEF Draining, Holding
    <3> HIDE DEF started
    <3>4. drain' \in [Drainers -> Draining]
      BY <3>2, <3>3
    <3> QED
      BY <2>1, <3>4 DEF StartDrain, DrainerBecomes
  <2>2. CASE FinishDrain(w)
    BY <1>c, <2>2 DEF FinishDrain, DrainerBecomes
  <2>3. ASSUME NEW d \in Docs, MarkSending(w, d) PROVE TypeOK'
    <3> DEFINE entry == Sending(drain[w].snap[d])
               copies == [drain[w].snap EXCEPT ![d] = entry]
               rest == drain[w].todo \ {d}
               less == drain[w].left - 1
               marked == [drain[w] EXCEPT !.pc = "marked", !.cur = d, !.left = less,
                                          !.todo = rest, !.snap = copies]
    <3>1. entry \in Entry
      BY <2>o
    <3>2. store' = [store EXCEPT ![d] = entry] /\ drain' = [drain EXCEPT ![w] = marked]
      BY <2>3 DEF MarkSending, DrainerBecomes
    <3>3. less \in Nat
      BY <2>s, <2>3 DEF MarkSending, DrainerBecomes, IsNext
    <3> HIDE DEF entry
    <3>4. copies \in [Docs -> Entry] /\ rest \subseteq Docs
      BY <2>s, <3>1
    <3> HIDE DEF copies, rest, less
    <3>5. marked \in Draining
      BY <2>d, <3>3, <3>4 DEF Draining, Holding
    <3> HIDE DEF marked
    <3> QED
      BY <2>3, <3>1, <3>2, <3>5 DEF MarkSending, DrainerBecomes
  <2>4. CASE Post(w)
    <3>1. [drain[w] EXCEPT !.pc = "posted"] \in Draining
      BY <2>d, <2>4 DEF Draining, Holding, Post
    <3> QED
      BY <2>4, <2>s, <3>1 DEF Post, DrainerBecomes, Holding
  <2>5. ASSUME NEW reply \in {"ok", "reject", "transient", "error"}, Reply(w, reply)
        PROVE  TypeOK'
    <3>1. [drain[w] EXCEPT !.pc = "replied", !.reply = reply] \in Draining
      BY <2>d, <2>5 DEF Draining, Holding, Reply
    <3> QED
      BY <2>5, <3>1 DEF Reply, DrainerBecomes
  <2>6. ASSUME Continue(w) PROVE drain' \in [Drainers -> Draining]
    <3> DEFINE copies == [drain[w].snap EXCEPT ![drain[w].cur] = Absent]
               next == [drain[w] EXCEPT !.pc = "scan", !.cur = NoTime,
                                        !.reply = "none", !.snap = copies]
    <3>1. drain' = [drain EXCEPT ![w] = next]
      BY <2>6 DEF Continue, DrainerBecomes
    <3>2. copies \in [Docs -> Entry]
      BY <1>a, <2>r
    <3> HIDE DEF copies
    <3>3. next \in Draining
      BY <2>d, <3>2 DEF Draining, Holding
    <3> HIDE DEF next
    <3> QED
      BY <3>1, <3>3
  <2>7. CASE Settle(w)
    <3>1. store' \in [Docs -> Entry]
      BY <2>7, <2>q, <2>r DEF Settle
    <3> QED
      BY <2>6, <2>7, <3>1 DEF Settle
  <2>8. CASE Recover(w)
    <3>1. store' = [store EXCEPT ![drain[w].cur] =
                      RetryOrFailed(drain[w].snap[drain[w].cur], drain[w].now)]
      BY <2>8 DEF Recover
    <3>2. store' \in [Docs -> Entry]
      BY <2>o, <2>r, <3>1
    <3> QED
      BY <2>6, <2>8, <3>2 DEF Recover
  <2>9. CASE SettleFault(w)
    <3> DEFINE copies == [drain[w].snap EXCEPT ![drain[w].cur] = Outcome(w)]
               faulty == [drain[w] EXCEPT !.pc = "recover", !.snap = copies]
    <3>1. drain' = [drain EXCEPT ![w] = faulty]
      BY <2>9 DEF SettleFault, DrainerBecomes
    <3>2. copies \in [Docs -> Entry]
      BY <2>q, <2>r
    <3> HIDE DEF copies
    <3>3. faulty \in Draining
      BY <2>d, <2>9, <3>2 DEF Draining, Holding, SettleFault
    <3> HIDE DEF faulty
    <3> QED
      BY <2>9, <3>1, <3>3 DEF SettleFault, DrainerBecomes
  <2>10. CASE AbortDrain(w)
    BY <1>c, <2>10 DEF AbortDrain, DrainerBecomes
  <2> QED
    BY <1>2, <2>1, <2>2, <2>3, <2>4, <2>5, <2>7, <2>8, <2>9, <2>10 DEF Deliver
<1>3. ASSUME NEW d \in Docs, ServerAccept(d) PROVE TypeOK'
  BY <1>3 DEF ServerAccept
<1>4. CASE Crash
  BY <1>b, <1>c, <1>4 DEF Crash
<1>5. CASE Tick
  BY <1>5 DEF Tick
<1>6. CASE UNCHANGED vars
  BY <1>6 DEF vars
<1> QED
  BY <1>1, <1>2, <1>3, <1>4, <1>5, <1>6 DEF Next

\* Every reachable state of the outbox, of its drains and of its enqueues has
\* the shape the code gives it, whatever crashes, fails or comes late.
THEOREM TypeCorrect == Spec => []TypeOK
<1> QED
  BY InitTypeOK, NextTypeOK, PTL DEF Spec

-----------------------------------------------------------------------------
(* Acknowledgement, with any number of drainers and producers.             *)
(* The claim is not inductive alone: a drainer may hold a copy with an     *)
(* acceptance the store does not have (a put that failed), and a 2xx is on *)
(* its way to the store between the reply and the settling put.            *)

Vouched(entry, d) == entry.acked \/ entry.state = "acknowledged" => d \in accepted

AckInv ==
    /\ \A d \in Docs : Vouched(store[d], d)
    /\ \A w \in Drainers, d \in Docs : Vouched(drain[w].snap[d], d)
    /\ \A w \in Drainers :
          drain[w].pc = "replied" /\ drain[w].reply = "ok" => drain[w].cur \in accepted

\* Only a 2xx answer makes an entry claim the acceptance; every other MARK
\* function keeps what the entry claimed.
LEMMA VouchedOperations ==
    ASSUME NEW entry \in Entry, NEW d \in Docs, NEW now \in Nat, Vouched(entry, d)
    PROVE  /\ Vouched(Absent, d) /\ Vouched(NewEntry(now), d)
           /\ Vouched(Sending(entry), d) /\ Vouched(Quarantined(entry), d)
           /\ Vouched(RetryOrFailed(entry, now), d)
           /\ d \in accepted => Vouched(Acknowledged(entry), d)
<1>1. Vouched(Absent, d) /\ Vouched(NewEntry(now), d)
  BY DEF Vouched, Absent, NewEntry
<1>2. Vouched(Sending(entry), d) /\ Vouched(Quarantined(entry), d)
  BY DEF Vouched, Sending, Quarantined, Entry
<1>3. Vouched(RetryOrFailed(entry, now), d)
  BY DEF Vouched, RetryOrFailed, Entry
<1>4. d \in accepted => Vouched(Acknowledged(entry), d)
  BY DEF Vouched
<1> QED
  BY <1>1, <1>2, <1>3, <1>4

LEMMA InitAckInv == Init => AckInv
  BY DEF Init, AckInv, Vouched, Absent, IdleDrain

LEMMA NextAckInv == TypeOK /\ AckInv /\ [Next]_vars => AckInv'
<1> SUFFICES ASSUME TypeOK, AckInv, [Next]_vars PROVE AckInv'
  OBVIOUS
<1>1. ASSUME NEW p \in Producers, Produce(p) PROVE AckInv'
  <2>1. ASSUME NEW d \in Docs, EnqueueMiss(p, d) PROVE AckInv'
    BY <2>1 DEF EnqueueMiss, AckInv, Vouched
  <2>2. CASE EnqueuePut(p)
    <3>1. producer[p] \in Producing
      BY DEF TypeOK
    <3>2. producer[p].doc \in Docs /\ producer[p].now \in Nat
      BY <2>2, <3>1 DEF EnqueuePut, Producing
    <3>3. store' = [store EXCEPT ![producer[p].doc] = NewEntry(producer[p].now)]
      BY <2>2 DEF EnqueuePut
    <3>4. ~NewEntry(producer[p].now).acked
          /\ NewEntry(producer[p].now).state = "queued"
      BY DEF NewEntry, Absent
    <3>5. store \in [Docs -> Entry] /\ accepted' = accepted /\ drain' = drain
      BY <2>2 DEF EnqueuePut, TypeOK
    <3>6. ASSUME NEW d \in Docs PROVE Vouched(store[d], d)'
      <4>1. CASE d = producer[p].doc
        BY <3>2, <3>3, <3>4, <3>5, <4>1 DEF Vouched
      <4>2. CASE d # producer[p].doc
        BY <3>3, <3>5, <4>2 DEF AckInv, Vouched
      <4> QED
        BY <4>1, <4>2
    <3> QED
      BY <3>5, <3>6 DEF AckInv, Vouched
  <2>3. CASE EnqueueFault(p)
    BY <2>3 DEF EnqueueFault, AckInv, Vouched
  <2> QED
    BY <1>1, <2>1, <2>2, <2>3 DEF Produce
<1>2. ASSUME NEW w \in Drainers, Deliver(w) \/ SettleFault(w) \/ AbortDrain(w)
      PROVE  AckInv'
  <2>d. drain[w] \in Draining /\ drain \in [Drainers -> Draining] /\ store \in [Docs -> Entry]
    BY DEF TypeOK
  <2>s. /\ drain[w].snap \in [Docs -> Entry] /\ drain[w].now \in Nat
        /\ drain[w].pc \in Holding => drain[w].cur \in Docs
    BY <2>d DEF Draining
  <2>v. \A d \in Docs : Vouched(store[d], d) /\ Vouched(drain[w].snap[d], d)
    BY DEF AckInv
  \* What every action of a drainer comes down to: a vouched store, and a
  \* progress that holds vouched copies only.
  <2>k. ASSUME NEW progress, DrainerBecomes(w, progress), accepted' = accepted,
               \A e \in Docs : Vouched(store'[e], e),
               \A e \in Docs : Vouched(progress.snap[e], e),
               progress.pc = "replied" /\ progress.reply = "ok" => progress.cur \in accepted
        PROVE  AckInv'
    <3>1. \A v \in Drainers : drain'[v] = IF v = w THEN progress ELSE drain[v]
      BY <2>d, <2>k DEF DrainerBecomes
    <3>2. \A v \in Drainers, e \in Docs : Vouched(drain'[v].snap[e], e)
      BY <2>k, <3>1 DEF AckInv
    <3>3. \A v \in Drainers :
             drain'[v].pc = "replied" /\ drain'[v].reply = "ok" => drain'[v].cur \in accepted
      BY <2>k, <3>1 DEF AckInv
    <3> QED
      BY <2>k, <3>2, <3>3 DEF AckInv, Vouched
  <2>p. ASSUME NEW d \in Docs, NEW entry, Vouched(entry, d),
               store' = [store EXCEPT ![d] = entry]
        PROVE  \A e \in Docs : Vouched(store'[e], e)
    BY <2>d, <2>v, <2>p
  <2>u. ASSUME store' = store PROVE \A e \in Docs : Vouched(store'[e], e)
    BY <2>v, <2>u
  <2>i. ASSUME DrainerBecomes(w, IdleDrain), store' = store, accepted' = accepted
        PROVE  AckInv'
    <3>1. IdleDrain.pc = "idle"
      BY DEF IdleDrain
    <3>2. \A e \in Docs : Vouched(IdleDrain.snap[e], e)
      BY DEF IdleDrain, Vouched, Absent
    <3> QED
      BY <2>i, <2>k, <2>u, <3>1, <3>2
  <2>c. ASSUME Continue(w), drain[w].cur \in Docs, accepted' = accepted,
               \A e \in Docs : Vouched(store'[e], e)
        PROVE  AckInv'
    <3> DEFINE copies == [drain[w].snap EXCEPT ![drain[w].cur] = Absent]
               progress == [drain[w] EXCEPT !.pc = "scan", !.cur = NoTime,
                                            !.reply = "none", !.snap = copies]
    <3>1. DrainerBecomes(w, progress)
      BY <2>c, <2>d DEF Continue, Draining
    <3>2. Vouched(Absent, drain[w].cur)
      BY DEF Vouched, Absent
    <3>3. \A e \in Docs : Vouched(copies[e], e)
      BY <2>s, <2>v, <2>c, <3>2
    <3>4. progress.snap = copies /\ progress.pc = "scan"
      BY <2>d DEF Draining
    <3> HIDE DEF progress, copies
    <3> QED
      BY <2>c, <2>k, <3>1, <3>3, <3>4
  <2>o. ASSUME drain[w].pc = "replied" PROVE Vouched(Outcome(w), drain[w].cur)
    <3>1. drain[w].cur \in Docs /\ drain[w].snap[drain[w].cur] \in Entry
      BY <2>o, <2>s DEF Holding
    <3>2. drain[w].reply = "ok" => drain[w].cur \in accepted
      BY <2>o DEF AckInv
    <3> QED
      BY <2>s, <2>v, <3>1, <3>2, VouchedOperations DEF Outcome
  <2>1. CASE StartDrain(w)
    <3> DEFINE due == {d \in Docs : Due(store[d], clock)}
               copies == [d \in Docs |-> IF d \in due THEN store[d] ELSE Absent]
               started == [IdleDrain EXCEPT !.pc = "scan", !.now = clock, !.todo = due,
                                            !.left = Limit, !.snap = copies]
    <3>1. DrainerBecomes(w, started) /\ store' = store /\ accepted' = accepted
      BY <2>1 DEF StartDrain
    <3>2. \A e \in Docs : Vouched(Absent, e)
      BY DEF Vouched, Absent
    <3>3. \A e \in Docs : Vouched(copies[e], e)
      BY <2>v, <3>2
    <3>4. started.snap = copies /\ started.pc = "scan"
      BY DEF IdleDrain
    <3> HIDE DEF started, copies
    <3> QED
      BY <2>k, <2>u, <3>1, <3>3, <3>4
  <2>2. CASE FinishDrain(w)
    BY <2>i, <2>2 DEF FinishDrain
  <2>3. ASSUME NEW d \in Docs, MarkSending(w, d) PROVE AckInv'
    <3> DEFINE entry == Sending(drain[w].snap[d])
               copies == [drain[w].snap EXCEPT ![d] = entry]
               marked == [drain[w] EXCEPT !.pc = "marked", !.cur = d, !.left = @ - 1,
                                          !.todo = @ \ {d}, !.snap = copies]
    <3>1. /\ store' = [store EXCEPT ![d] = entry] /\ DrainerBecomes(w, marked)
          /\ accepted' = accepted
      BY <2>3, <2>d DEF MarkSending, Draining
    <3>2. Vouched(entry, d)
      BY <2>s, <2>v, VouchedOperations
    <3> HIDE DEF entry
    <3>3. \A e \in Docs : Vouched(copies[e], e)
      BY <2>s, <2>v, <3>2
    <3>4. marked.snap = copies /\ marked.pc = "marked"
      BY <2>d DEF Draining
    <3>5. \A e \in Docs : Vouched(store'[e], e)
      BY <2>p, <3>1, <3>2
    <3> HIDE DEF marked, copies
    <3> QED
      BY <2>k, <3>1, <3>3, <3>4, <3>5
  <2>4. CASE Post(w)
    <3> DEFINE posted == [drain[w] EXCEPT !.pc = "posted"]
    <3>1. DrainerBecomes(w, posted) /\ store' = store /\ accepted' = accepted
      BY <2>4 DEF Post
    <3>2. posted.snap = drain[w].snap /\ posted.pc = "posted"
      BY <2>d DEF Draining
    <3> HIDE DEF posted
    <3> QED
      BY <2>k, <2>u, <2>v, <3>1, <3>2
  <2>5. ASSUME NEW reply \in {"ok", "reject", "transient", "error"}, Reply(w, reply)
        PROVE  AckInv'
    <3> DEFINE replied == [drain[w] EXCEPT !.pc = "replied", !.reply = reply]
    <3>1. DrainerBecomes(w, replied) /\ store' = store /\ accepted' = accepted
      BY <2>5 DEF Reply
    <3>2. /\ replied.snap = drain[w].snap /\ replied.cur = drain[w].cur
          /\ replied.reply = reply
      BY <2>d DEF Draining
    <3>3. reply = "ok" => drain[w].cur \in accepted
      BY <2>5 DEF Reply
    <3> HIDE DEF replied
    <3> QED
      BY <2>k, <2>u, <2>v, <3>1, <3>2, <3>3
  <2>6. CASE Settle(w)
    <3>1. /\ drain[w].cur \in Docs /\ drain[w].pc = "replied"
          /\ store' = [store EXCEPT ![drain[w].cur] = Outcome(w)]
          /\ Continue(w) /\ accepted' = accepted
      BY <2>6, <2>s DEF Settle, Holding
    <3> QED
      BY <2>c, <2>o, <2>p, <3>1
  <2>7. CASE Recover(w)
    <3> DEFINE entry == RetryOrFailed(drain[w].snap[drain[w].cur], drain[w].now)
    <3>1. /\ drain[w].cur \in Docs /\ store' = [store EXCEPT ![drain[w].cur] = entry]
          /\ Continue(w) /\ accepted' = accepted
      BY <2>7, <2>s DEF Recover, Holding
    <3>2. Vouched(entry, drain[w].cur)
      BY <2>s, <2>v, <3>1, VouchedOperations
    <3> HIDE DEF entry
    <3> QED
      BY <2>c, <2>p, <3>1, <3>2
  <2>8. CASE SettleFault(w)
    <3> DEFINE copies == [drain[w].snap EXCEPT ![drain[w].cur] = Outcome(w)]
               faulty == [drain[w] EXCEPT !.pc = "recover", !.snap = copies]
    <3>1. /\ drain[w].cur \in Docs /\ drain[w].pc = "replied"
          /\ store' = store /\ accepted' = accepted
      BY <2>8, <2>s DEF SettleFault, Holding
    <3>2. DrainerBecomes(w, faulty)
      BY <2>8, <2>d DEF SettleFault, Draining
    <3>3. \A e \in Docs : Vouched(copies[e], e)
      BY <2>o, <2>s, <2>v, <3>1
    <3>4. faulty.snap = copies /\ faulty.pc = "recover"
      BY <2>d DEF Draining
    <3> HIDE DEF faulty, copies
    <3> QED
      BY <2>k, <2>u, <3>1, <3>2, <3>3, <3>4
  <2>9. CASE AbortDrain(w)
    BY <2>i, <2>9 DEF AbortDrain
  <2> QED
    BY <1>2, <2>1, <2>2, <2>3, <2>4, <2>5, <2>6, <2>7, <2>8, <2>9 DEF Deliver
<1>3. ASSUME NEW d \in Docs, ServerAccept(d) PROVE AckInv'
  BY <1>3 DEF ServerAccept, AckInv, Vouched
<1>4. CASE Crash
  BY <1>4 DEF Crash, AckInv, Vouched, IdleDrain, Absent
<1>5. CASE Tick
  BY <1>5 DEF Tick, AckInv, Vouched
<1>6. CASE UNCHANGED vars
  BY <1>6 DEF vars, AckInv, Vouched
<1> QED
  BY <1>1, <1>2, <1>3, <1>4, <1>5, <1>6 DEF Next

\* AckImpliesAccepted for every number of drainers and producers: an entry is
\* acknowledged, or carries ACK-KIND, only for an accepted document.
THEOREM AcknowledgedOnlyIfAccepted == Spec => []AckImpliesAccepted
<1>1. AckInv => AckImpliesAccepted
  BY DEF AckInv, AckImpliesAccepted, Vouched
<1> QED
  BY <1>1, InitTypeOK, NextTypeOK, InitAckInv, NextAckInv, PTL DEF Spec

-----------------------------------------------------------------------------
(* One thread that drains and one that enqueues, the arrangement           *)
(* outbox-actor.lisp is written for: the actor's mailbox serialises its    *)
(* drains.  Without the hypothesis these theorems are false: a drain works *)
(* on the copies it decoded when it started.                               *)

Solo ==
    /\ \A v, w \in Drainers : v = w
    /\ \A p, q \in Producers : p = q

Pending == {"queued", "sending", "retry"}

Held(d) == \E w \in Drainers : drain[w].pc \in Holding /\ drain[w].cur = d

\* A put under way will create its record.
PutIsNew ==
    \A p \in Producers :
        producer[p].pc = "put" => store[producer[p].doc].state = "absent"

\* The copies a drain has still to process are what the database holds.
CopiesCurrent ==
    \A w \in Drainers : \A d \in drain[w].todo :
        /\ drain[w].snap[d] = store[d]
        /\ store[d].state \in Pending
        /\ ~Held(d)

\* The entry in hand is SENDING in the database, with its current attempts.
HeldIsSending ==
    \A w \in Drainers : drain[w].pc \in Holding =>
        /\ store[drain[w].cur].state = "sending"
        /\ drain[w].snap[drain[w].cur].attempts = store[drain[w].cur].attempts
        /\ drain[w].pc # "recover" => drain[w].snap[drain[w].cur] = store[drain[w].cur]

\* An entry nobody holds has an attempt left, or an interruption paid for it.
AttemptsBounded ==
    \A d \in Docs :
        /\ store[d].attempts <= MaxAttempts + crashes + faults
        /\ store[d].state \in Pending /\ ~Held(d) =>
              store[d].attempts < MaxAttempts + crashes + faults

\* Only durable documents are sent or accepted.
SentIsKnown == \A d \in Docs : d \in wire \cup accepted => store[d].state # "absent"

SoloInv == PutIsNew /\ CopiesCurrent /\ HeldIsSending /\ AttemptsBounded /\ SentIsKnown

-----------------------------------------------------------------------------

LEMMA InitSoloInv == Init => SoloInv
<1> SUFFICES ASSUME Init PROVE SoloInv
  OBVIOUS
<1>1. \A d \in Docs : store[d].state = "absent" /\ store[d].attempts = 0
  BY DEF Init, Absent
<1>2. \A w \in Drainers : drain[w].pc = "idle" /\ drain[w].todo = {}
  BY DEF Init, IdleDrain
<1>3. \A p \in Producers : producer[p].pc = "idle"
  BY DEF Init, IdleProducer
<1>4. crashes = 0 /\ faults = 0 /\ wire = {} /\ accepted = {}
  BY DEF Init
<1>5. PutIsNew /\ CopiesCurrent /\ HeldIsSending /\ SentIsKnown
  BY <1>2, <1>3, <1>4 DEF PutIsNew, CopiesCurrent, HeldIsSending, SentIsKnown, Holding
<1>6. AttemptsBounded
  <2> DEFINE limit == MaxAttempts + crashes + faults
  <2>1. 0 <= limit /\ 0 < limit
    BY <1>4, OutboxAssumption
  <2> HIDE DEF limit
  <2>2. \A d \in Docs : store[d].attempts <= limit /\ store[d].attempts < limit
    BY <1>1, <2>1
  <2> QED
    BY <2>2 DEF AttemptsBounded, limit
<1> QED
  BY <1>5, <1>6 DEF SoloInv

\* What the MARK functions do to the state and the attempts of an entry.
LEMMA EntryEffects ==
    ASSUME NEW entry \in Entry, NEW now \in Nat
    PROVE  /\ Sending(entry).state = "sending"
           /\ Sending(entry).attempts = entry.attempts + 1
           /\ Acknowledged(entry).state = "acknowledged"
           /\ Acknowledged(entry).attempts = entry.attempts
           /\ Quarantined(entry).state = "quarantined"
           /\ Quarantined(entry).attempts = entry.attempts
           /\ RetryOrFailed(entry, now).state =
                 IF entry.attempts >= MaxAttempts THEN "failed" ELSE "retry"
           /\ RetryOrFailed(entry, now).attempts = entry.attempts
<1>1. entry \in [state: States, attempts: Nat, next: Nat \cup {NoTime},
                 acked: BOOLEAN, created: Nat]
  BY DEF Entry
<1>2. Sending(entry).state = "sending"
  BY <1>1 DEF Sending
<1>3. Sending(entry).attempts = entry.attempts + 1
  BY <1>1 DEF Sending
<1>4. /\ Acknowledged(entry).state = "acknowledged"
      /\ Acknowledged(entry).attempts = entry.attempts
  BY <1>1 DEF Acknowledged
<1>5. /\ Quarantined(entry).state = "quarantined"
      /\ Quarantined(entry).attempts = entry.attempts
  BY <1>1 DEF Quarantined
<1>6. RetryOrFailed(entry, now).state =
        IF entry.attempts >= MaxAttempts THEN "failed" ELSE "retry"
  BY <1>1 DEF RetryOrFailed
<1>7. RetryOrFailed(entry, now).attempts = entry.attempts
  BY <1>1 DEF RetryOrFailed
<1> QED
  BY <1>2, <1>3, <1>4, <1>5, <1>6, <1>7

\* An outcome is not SENDING, keeps the attempts, and is a retry only while
\* attempts are left.
LEMMA OutcomeEffects ==
    ASSUME TypeOK, NEW w \in Drainers, drain[w].pc \in Holding
    PROVE  LET held == drain[w].snap[drain[w].cur]
               again == RetryOrFailed(held, drain[w].now)
           IN  /\ Outcome(w).state \in {"acknowledged", "quarantined", "failed", "retry"}
               /\ Outcome(w).attempts = held.attempts
               /\ Outcome(w).state = "retry" => held.attempts < MaxAttempts
               /\ again.state \in {"failed", "retry"}
               /\ again.attempts = held.attempts
               /\ again.state = "retry" => held.attempts < MaxAttempts
<1> DEFINE held == drain[w].snap[drain[w].cur]
<1>1. held \in Entry /\ drain[w].now \in Nat
  BY DEF TypeOK, Draining
<1>2. held.attempts \in Nat /\ MaxAttempts \in Nat
  BY <1>1, OutboxAssumption DEF Entry
<1>3. Outcome(w) \in {Acknowledged(held), Quarantined(held), RetryOrFailed(held, drain[w].now)}
  BY DEF Outcome
<1> HIDE DEF held
<1>4. LET again == RetryOrFailed(held, drain[w].now)
      IN  /\ again.state \in {"failed", "retry"} /\ again.attempts = held.attempts
          /\ again.state = "retry" => held.attempts < MaxAttempts
  BY <1>1, <1>2, EntryEffects
<1>5. /\ Outcome(w).state \in {"acknowledged", "quarantined", "failed", "retry"}
      /\ Outcome(w).attempts = held.attempts
      /\ Outcome(w).state = "retry" => held.attempts < MaxAttempts
  BY <1>1, <1>3, <1>4, EntryEffects
<1> QED
  BY <1>4, <1>5 DEF held

\* The one drainer's progress is all there is of DRAIN.
LEMMA DrainerEffects ==
    ASSUME Solo, TypeOK, NEW w \in Drainers, NEW progress, DrainerBecomes(w, progress)
    PROVE  \A v \in Drainers : v = w /\ drain'[v] = progress
  BY DEF Solo, TypeOK, DrainerBecomes

-----------------------------------------------------------------------------

LEMMA NextSoloInv == Solo /\ TypeOK /\ SoloInv /\ [Next]_vars => SoloInv'
<1> SUFFICES ASSUME Solo, TypeOK, SoloInv, [Next]_vars PROVE SoloInv'
  OBVIOUS
<1>i. PutIsNew /\ CopiesCurrent /\ HeldIsSending /\ AttemptsBounded /\ SentIsKnown
  BY DEF SoloInv
<1>t. /\ store \in [Docs -> Entry] /\ \A d \in Docs : store[d].attempts \in Nat
      /\ crashes \in Nat /\ faults \in Nat /\ MaxAttempts \in Nat \ {0}
      /\ wire \subseteq Docs /\ accepted \subseteq Docs
  BY OutboxAssumption DEF TypeOK, Entry
<1>1. ASSUME NEW p \in Producers, Produce(p) PROVE SoloInv'
  <2>0. \A q \in Producers : q = p
    BY DEF Solo
  <2>1. ASSUME NEW d \in Docs, EnqueueMiss(p, d) PROVE SoloInv'
    <3>1. UNCHANGED <<store, drain, wire, accepted, crashes, faults>>
      BY <2>1 DEF EnqueueMiss
    <3>2. PutIsNew'
      <4>1. producer'[p].doc = d /\ store[d].state = "absent"
        BY <2>1 DEF EnqueueMiss, TypeOK
      <4> QED
        BY <2>0, <3>1, <4>1 DEF PutIsNew
    <3> QED
      BY <1>i, <3>1, <3>2
      DEF SoloInv, CopiesCurrent, HeldIsSending, AttemptsBounded, SentIsKnown, Held
  <2>2. CASE EnqueuePut(p)
    <3> DEFINE d == producer[p].doc
               new == NewEntry(producer[p].now)
    <3>1. /\ d \in Docs /\ store[d].state = "absent"
          /\ store' = [store EXCEPT ![d] = new]
          /\ UNCHANGED <<drain, wire, accepted, crashes, faults>>
          /\ producer' = [producer EXCEPT ![p] = IdleProducer]
      BY <1>i, <2>2 DEF EnqueuePut, TypeOK, Producing, PutIsNew
    <3>2. new.state = "queued" /\ new.attempts = 0
      BY DEF NewEntry, Absent
    <3> HIDE DEF new, d
    <3>3. \A e \in Docs : store'[e] = IF e = d THEN new ELSE store[e]
      BY <1>t, <3>1
    <3>4. PutIsNew'
      BY <2>0, <3>1 DEF PutIsNew, TypeOK, IdleProducer
    <3>5. \A w \in Drainers :
             d \notin drain[w].todo /\ (drain[w].pc \in Holding => d # drain[w].cur)
      BY <1>i, <3>1 DEF CopiesCurrent, HeldIsSending, Pending
    <3>6. CopiesCurrent'
      BY <1>i, <3>1, <3>3, <3>5 DEF CopiesCurrent, Held, TypeOK, Draining
    <3>7. HeldIsSending'
      BY <1>i, <3>1, <3>3, <3>5 DEF HeldIsSending, TypeOK, Draining
    <3>8. AttemptsBounded'
      BY <1>i, <1>t, <3>1, <3>2, <3>3 DEF AttemptsBounded, Held
    <3>9. SentIsKnown'
      BY <1>i, <3>1, <3>2, <3>3 DEF SentIsKnown
    <3> QED
      BY <3>4, <3>6, <3>7, <3>8, <3>9 DEF SoloInv
  <2>3. CASE EnqueueFault(p)
    <3>1. UNCHANGED <<store, drain, wire, accepted, crashes>> /\ faults' = faults + 1
      BY <2>3 DEF EnqueueFault
    <3>2. PutIsNew'
      BY <2>0, <2>3 DEF EnqueueFault, PutIsNew, TypeOK, IdleProducer
    <3>3. AttemptsBounded'
      BY <1>i, <1>t, <3>1 DEF AttemptsBounded, Held
    <3> QED
      BY <1>i, <3>1, <3>2, <3>3 DEF SoloInv, CopiesCurrent, HeldIsSending, SentIsKnown, Held
  <2> QED
    BY <1>1, <2>1, <2>2, <2>3 DEF Produce
<1>2. ASSUME NEW w \in Drainers, Deliver(w) \/ SettleFault(w) \/ AbortDrain(w) PROVE SoloInv'
  <2>d. /\ drain[w] \in Draining /\ drain[w].snap \in [Docs -> Entry]
        /\ drain[w].todo \subseteq Docs
        /\ drain[w].pc \in Holding => drain[w].cur \in Docs
    BY DEF TypeOK, Draining
  <2>w. \A v \in Drainers : v = w
    BY DEF Solo
  <2>h. \A d : Held(d) <=> drain[w].pc \in Holding /\ drain[w].cur = d
    BY <2>w DEF Held
  \* The drain holds nothing and has nothing to do: it ended or was cut off.
  <2>i. ASSUME DrainerBecomes(w, IdleDrain), faults' \in Nat,
               (faults' = faults /\ drain[w].pc \notin Holding) \/ faults' = faults + 1,
               UNCHANGED <<store, producer, wire, accepted, crashes>>
        PROVE  SoloInv'
    <3>1. \A v \in Drainers : drain'[v].pc = "idle" /\ drain'[v].todo = {}
      BY <2>i, DrainerEffects DEF IdleDrain
    <3>2. AttemptsBounded'
      BY <1>i, <1>t, <2>h, <2>i DEF AttemptsBounded
    <3> QED
      BY <1>i, <2>i, <3>1, <3>2
      DEF SoloInv, PutIsNew, CopiesCurrent, HeldIsSending, SentIsKnown, Holding
  \* The drainer settles what it holds and goes on.
  <2>c. ASSUME NEW entry \in Entry, Continue(w), drain[w].pc \in Holding,
               store' = [store EXCEPT ![drain[w].cur] = entry],
               entry.state \in {"acknowledged", "quarantined", "failed", "retry"},
               entry.attempts = store[drain[w].cur].attempts,
               entry.state = "retry" => entry.attempts < MaxAttempts,
               UNCHANGED <<producer, wire, accepted, crashes, faults>>
        PROVE  SoloInv'
    <3> DEFINE cur == drain[w].cur
    <3>1. cur \in Docs /\ store[cur].state = "sending" /\ cur \notin drain[w].todo
      BY <1>i, <2>c, <2>d, <2>h DEF HeldIsSending, CopiesCurrent
    <3>2. \A e \in Docs : store'[e] = IF e = cur THEN entry ELSE store[e]
      BY <1>t, <2>c
    <3> DEFINE copies == [drain[w].snap EXCEPT ![cur] = Absent]
               next == [drain[w] EXCEPT !.pc = "scan", !.cur = NoTime,
                                        !.reply = "none", !.snap = copies]
    <3>3. DrainerBecomes(w, next)
      BY <2>c, <2>d DEF Continue, Draining
    <3>4. /\ next.pc = "scan" /\ next.todo = drain[w].todo /\ next.snap = copies
      BY <2>d DEF Draining
    <3>5. \A e \in drain[w].todo : copies[e] = drain[w].snap[e]
      BY <2>d, <3>1
    <3> HIDE DEF next, copies, cur
    <3>6. \A v \in Drainers : /\ drain'[v].pc = "scan" /\ drain'[v].todo = drain[w].todo
                               /\ drain'[v].snap = copies
      BY <3>3, <3>4, DrainerEffects
    <3>7. \A d \in Docs : ~Held(d)'
      BY <3>6 DEF Held, Holding
    <3>8. PutIsNew'
      BY <1>i, <2>c, <3>1, <3>2 DEF PutIsNew, TypeOK, Producing
    <3>9. CopiesCurrent'
      <4> SUFFICES ASSUME NEW v \in Drainers, NEW d \in drain'[v].todo
                   PROVE  drain'[v].snap[d] = store'[d] /\ store'[d].state \in Pending /\ ~Held(d)'
        BY DEF CopiesCurrent
      <4>1. d \in drain[w].todo /\ d \in Docs /\ d # cur
        BY <2>d, <3>1, <3>6
      <4> QED
        BY <1>i, <3>2, <3>5, <3>6, <3>7, <4>1 DEF CopiesCurrent
    <3>10. HeldIsSending'
      BY <3>6 DEF HeldIsSending, Holding
    <3>11. AttemptsBounded'
      <4> SUFFICES ASSUME NEW d \in Docs
                   PROVE  /\ store'[d].attempts <= MaxAttempts + crashes + faults
                          /\ store'[d].state \in Pending =>
                                store'[d].attempts < MaxAttempts + crashes + faults
        BY <2>c DEF AttemptsBounded
      <4>1. CASE d = cur
        <5>1. store[cur].attempts \in Nat
              /\ store[cur].attempts <= MaxAttempts + crashes + faults
          BY <1>i, <1>t, <3>1 DEF AttemptsBounded
        <5>2. store'[d] = entry
          BY <3>1, <3>2, <4>1
        <5>3. entry.attempts = store[cur].attempts
          BY <2>c DEF cur
        <5>4. entry.state \in Pending => entry.attempts < MaxAttempts
          BY <2>c DEF Pending
        <5> QED
          BY <1>t, <5>1, <5>2, <5>3, <5>4
      <4>2. CASE d # cur
        <5>1. store'[d] = store[d] /\ ~Held(d)
          BY <2>h, <3>2, <4>2 DEF cur
        <5> QED
          BY <1>i, <5>1 DEF AttemptsBounded
      <4> QED
        BY <4>1, <4>2
    <3>12. SentIsKnown'
      BY <1>i, <2>c, <3>1, <3>2 DEF SentIsKnown
    <3> QED
      BY <3>8, <3>9, <3>10, <3>11, <3>12 DEF SoloInv
  <2>1. CASE StartDrain(w)
    <3> DEFINE due == {d \in Docs : Due(store[d], clock)}
               copies == [d \in Docs |-> IF d \in due THEN store[d] ELSE Absent]
               started == [IdleDrain EXCEPT !.pc = "scan", !.now = clock, !.todo = due,
                                            !.left = Limit, !.snap = copies]
    <3>1. /\ DrainerBecomes(w, started) /\ drain[w].pc = "idle"
          /\ UNCHANGED <<store, producer, wire, accepted, crashes, faults>>
      BY <2>1 DEF StartDrain
    <3>2. started.pc = "scan" /\ started.todo = due /\ started.snap = copies
      BY DEF IdleDrain
    <3>3. \A d \in due : d \in Docs /\ copies[d] = store[d] /\ store[d].state \in Pending
      BY DEF Due, Pending
    <3> HIDE DEF started, copies, due
    <3>4. \A v \in Drainers : /\ drain'[v].pc = "scan" /\ drain'[v].todo = due
                               /\ drain'[v].snap = copies
      BY <3>1, <3>2, DrainerEffects
    <3>5. \A d : ~Held(d) /\ ~Held(d)'
      BY <2>h, <3>1, <3>4 DEF Held, Holding
    <3>6. CopiesCurrent'
      BY <3>1, <3>3, <3>4, <3>5 DEF CopiesCurrent
    <3>7. AttemptsBounded'
      BY <1>i, <3>1, <3>5 DEF AttemptsBounded
    <3> QED
      BY <1>i, <3>1, <3>4, <3>6, <3>7
      DEF SoloInv, PutIsNew, HeldIsSending, SentIsKnown, Holding
  <2>2. CASE FinishDrain(w)
    BY <1>t, <2>2, <2>i DEF FinishDrain, Holding
  <2>3. ASSUME NEW d \in Docs, MarkSending(w, d) PROVE SoloInv'
    <3> DEFINE entry == Sending(drain[w].snap[d])
               copies == [drain[w].snap EXCEPT ![d] = entry]
               marked == [drain[w] EXCEPT !.pc = "marked", !.cur = d, !.left = @ - 1,
                                          !.todo = @ \ {d}, !.snap = copies]
    <3>1. /\ store' = [store EXCEPT ![d] = entry] /\ DrainerBecomes(w, marked)
          /\ drain[w].pc = "scan" /\ d \in drain[w].todo
          /\ UNCHANGED <<producer, wire, accepted, crashes, faults>>
      BY <2>3, <2>d DEF MarkSending, IsNext, Draining
    <3>2. /\ drain[w].snap[d] = store[d] /\ store[d].state \in Pending /\ ~Held(d)
      BY <1>i, <3>1 DEF CopiesCurrent
    <3>3. /\ entry.state = "sending" /\ entry.attempts = store[d].attempts + 1
      <4>1. drain[w].snap[d] \in Entry /\ 0 \in Nat
        BY <2>d
      <4> QED
        BY <3>2, <4>1, EntryEffects
    <3> HIDE DEF entry
    <3>4. /\ marked.pc = "marked" /\ marked.cur = d /\ marked.snap = copies
          /\ marked.todo = drain[w].todo \ {d}
      BY <2>d DEF Draining
    <3>5. /\ copies[d] = entry /\ \A e \in drain[w].todo \ {d} : copies[e] = drain[w].snap[e]
      BY <2>d
    <3> HIDE DEF marked, copies
    <3>6. \A v \in Drainers : /\ drain'[v].pc = "marked" /\ drain'[v].cur = d
                               /\ drain'[v].todo = drain[w].todo \ {d}
                               /\ drain'[v].snap = copies
      BY <3>1, <3>4, DrainerEffects
    <3>7. \A e : Held(e)' <=> e = d
      BY <3>6 DEF Held, Holding
    <3>8. \A e \in Docs : store'[e] = IF e = d THEN entry ELSE store[e]
      BY <1>t, <3>1
    <3>9. PutIsNew'
      BY <1>i, <3>1, <3>2, <3>8 DEF PutIsNew, TypeOK, Producing, Pending
    <3>10. CopiesCurrent'
      BY <1>i, <2>d, <3>5, <3>6, <3>7, <3>8 DEF CopiesCurrent
    <3>11. HeldIsSending'
      BY <3>3, <3>5, <3>6, <3>8 DEF HeldIsSending
    <3>12. AttemptsBounded'
      <4> SUFFICES ASSUME NEW e \in Docs
                   PROVE  /\ store'[e].attempts <= MaxAttempts + crashes + faults
                          /\ store'[e].state \in Pending /\ e # d =>
                                store'[e].attempts < MaxAttempts + crashes + faults
        BY <3>1, <3>7 DEF AttemptsBounded
      <4>1. CASE e = d
        <5>1. store[d].attempts \in Nat /\ store[d].attempts < MaxAttempts + crashes + faults
          BY <1>i, <1>t, <3>2 DEF AttemptsBounded
        <5>2. store'[e].attempts = store[d].attempts + 1
          BY <3>3, <3>8, <4>1
        <5> QED
          BY <1>t, <4>1, <5>1, <5>2
      <4>2. CASE e # d
        <5>1. store'[e] = store[e] /\ ~Held(e)
          BY <2>h, <3>1, <3>8, <4>2 DEF Holding
        <5> QED
          BY <1>i, <5>1 DEF AttemptsBounded
      <4> QED
        BY <4>1, <4>2
    <3>13. SentIsKnown'
      BY <1>i, <3>1, <3>3, <3>8 DEF SentIsKnown
    <3> QED
      BY <3>9, <3>10, <3>11, <3>12, <3>13 DEF SoloInv
  \* Between the two puts only the stage and the answer change.
  <2>m. ASSUME NEW progress, DrainerBecomes(w, progress), progress.pc \in {"posted", "replied"},
               drain[w].pc \in {"marked", "posted"}, progress.cur = drain[w].cur,
               progress.todo = drain[w].todo, progress.snap = drain[w].snap,
               \A d \in Docs : d \in wire' \cup accepted' => d \in wire \cup accepted \cup {drain[w].cur},
               UNCHANGED <<store, producer, crashes, faults>>
        PROVE  SoloInv'
    <3>1. \A v \in Drainers :
             /\ drain'[v].pc = progress.pc /\ drain'[v].cur = drain[v].cur
             /\ drain'[v].todo = drain[v].todo /\ drain'[v].snap = drain[v].snap
             /\ drain[v].pc \in {"marked", "posted"}
      BY <2>m, <2>w, DrainerEffects
    <3>2. \A d : Held(d)' <=> Held(d)
      BY <2>m, <3>1 DEF Held, Holding
    <3>3. CopiesCurrent'
      BY <1>i, <2>m, <3>1, <3>2 DEF CopiesCurrent
    <3>4. HeldIsSending'
      BY <1>i, <2>m, <3>1 DEF HeldIsSending, Holding
    <3>5. AttemptsBounded'
      BY <1>i, <2>m, <3>2 DEF AttemptsBounded
    <3>6. SentIsKnown'
      BY <1>i, <2>d, <2>m DEF SentIsKnown, HeldIsSending, Holding
    <3> QED
      BY <1>i, <2>m, <3>3, <3>4, <3>5, <3>6 DEF SoloInv, PutIsNew
  <2>4. CASE Post(w)
    <3> DEFINE posted == [drain[w] EXCEPT !.pc = "posted"]
    <3>1. /\ DrainerBecomes(w, posted) /\ drain[w].pc = "marked"
          /\ wire' = wire \cup {drain[w].cur} /\ accepted' = accepted
          /\ UNCHANGED <<store, producer, crashes, faults>>
      BY <2>4 DEF Post
    <3>2. /\ posted.pc = "posted" /\ posted.cur = drain[w].cur
          /\ posted.todo = drain[w].todo /\ posted.snap = drain[w].snap
      BY <2>d DEF Draining
    <3> HIDE DEF posted
    <3> QED
      BY <2>m, <3>1, <3>2
  <2>5. ASSUME NEW reply \in {"ok", "reject", "transient", "error"}, Reply(w, reply)
        PROVE  SoloInv'
    <3> DEFINE replied == [drain[w] EXCEPT !.pc = "replied", !.reply = reply]
    <3>1. /\ DrainerBecomes(w, replied) /\ drain[w].pc = "posted"
          /\ UNCHANGED <<store, producer, wire, accepted, crashes, faults>>
      BY <2>5 DEF Reply
    <3>2. /\ replied.pc = "replied" /\ replied.cur = drain[w].cur
          /\ replied.todo = drain[w].todo /\ replied.snap = drain[w].snap
      BY <2>d DEF Draining
    <3> HIDE DEF replied
    <3> QED
      BY <2>m, <3>1, <3>2
  <2>o. ASSUME drain[w].pc \in Holding
        PROVE  /\ drain[w].snap[drain[w].cur].attempts = store[drain[w].cur].attempts
               /\ Outcome(w) \in Entry
               /\ RetryOrFailed(drain[w].snap[drain[w].cur], drain[w].now) \in Entry
    <3>1. drain[w].snap[drain[w].cur] \in Entry /\ drain[w].now \in Nat
      BY <2>d, <2>o DEF Draining
    <3> QED
      BY <1>i, <2>o, <3>1, EntryOperations DEF HeldIsSending, Outcome
  <2>6. CASE Settle(w)
    <3>1. /\ drain[w].pc \in Holding /\ Continue(w)
          /\ store' = [store EXCEPT ![drain[w].cur] = Outcome(w)]
          /\ UNCHANGED <<producer, wire, accepted, crashes, faults>>
      BY <2>6 DEF Settle, Holding
    <3> QED
      BY <2>c, <2>o, <3>1, OutcomeEffects
  <2>7. CASE Recover(w)
    <3>1. /\ drain[w].pc \in Holding /\ Continue(w)
          /\ store' = [store EXCEPT ![drain[w].cur] =
                          RetryOrFailed(drain[w].snap[drain[w].cur], drain[w].now)]
          /\ UNCHANGED <<producer, wire, accepted, crashes, faults>>
      BY <2>7 DEF Recover, Holding
    <3> QED
      BY <2>c, <2>o, <3>1, OutcomeEffects
  <2>8. CASE SettleFault(w)
    <3> DEFINE cur == drain[w].cur
               copies == [drain[w].snap EXCEPT ![cur] = Outcome(w)]
               faulty == [drain[w] EXCEPT !.pc = "recover", !.snap = copies]
    <3>1. /\ drain[w].pc = "replied" /\ cur \in Docs /\ faults' = faults + 1
          /\ UNCHANGED <<store, producer, wire, accepted, crashes>>
      BY <2>8, <2>d DEF SettleFault, Holding
    <3>2. DrainerBecomes(w, faulty)
      BY <2>8, <2>d DEF SettleFault, Draining
    <3>3. /\ faulty.pc = "recover" /\ faulty.snap = copies
          /\ faulty.todo = drain[w].todo /\ faulty.cur = cur
      BY <2>d DEF Draining
    <3>4. /\ cur \notin drain[w].todo /\ store[cur].state = "sending"
          /\ Outcome(w).attempts = store[cur].attempts
      BY <1>i, <2>h, <2>o, <3>1, OutcomeEffects DEF CopiesCurrent, HeldIsSending, Holding
    <3>5. /\ copies[cur] = Outcome(w)
          /\ \A e \in drain[w].todo : copies[e] = drain[w].snap[e]
      BY <2>d, <3>1, <3>4
    <3> HIDE DEF faulty, copies
    <3>6. \A v \in Drainers : /\ drain'[v].pc = "recover" /\ drain'[v].cur = cur
                               /\ drain'[v].todo = drain[w].todo /\ drain'[v].snap = copies
      BY <3>2, <3>3, DrainerEffects
    <3>7. \A e : Held(e)' <=> Held(e)
      BY <2>h, <2>w, <3>1, <3>6 DEF Held, Holding
    <3>8. CopiesCurrent'
      BY <1>i, <3>1, <3>5, <3>6, <3>7 DEF CopiesCurrent
    <3>9. HeldIsSending'
      BY <3>1, <3>4, <3>5, <3>6 DEF HeldIsSending
    <3>10. AttemptsBounded'
      BY <1>i, <1>t, <3>1, <3>7 DEF AttemptsBounded
    <3> QED
      BY <1>i, <3>1, <3>8, <3>9, <3>10 DEF SoloInv, PutIsNew, SentIsKnown
  <2>9. CASE AbortDrain(w)
    BY <1>t, <2>9, <2>i DEF AbortDrain
  <2> QED
    BY <1>2, <2>1, <2>2, <2>3, <2>4, <2>5, <2>6, <2>7, <2>8, <2>9 DEF Deliver
<1>3. ASSUME NEW d \in Docs, ServerAccept(d) PROVE SoloInv'
  BY <1>i, <1>3
  DEF ServerAccept, SoloInv, PutIsNew, CopiesCurrent, HeldIsSending, AttemptsBounded,
      SentIsKnown, Held
<1>4. CASE Crash
  <2>1. /\ UNCHANGED <<store, wire, accepted, faults>> /\ crashes' = crashes + 1
        /\ \A p \in Producers : producer'[p].pc = "idle"
        /\ \A w \in Drainers : drain'[w].pc = "idle" /\ drain'[w].todo = {}
    BY <1>4 DEF Crash, IdleProducer, IdleDrain
  <2>2. AttemptsBounded'
    BY <1>i, <1>t, <2>1 DEF AttemptsBounded
  <2> QED
    BY <1>i, <2>1, <2>2
    DEF SoloInv, PutIsNew, CopiesCurrent, HeldIsSending, SentIsKnown, Holding
<1>5. CASE Tick
  BY <1>i, <1>5
  DEF Tick, SoloInv, PutIsNew, CopiesCurrent, HeldIsSending, AttemptsBounded, SentIsKnown, Held
<1>6. CASE UNCHANGED vars
  BY <1>i, <1>6
  DEF vars, SoloInv, PutIsNew, CopiesCurrent, HeldIsSending, AttemptsBounded, SentIsKnown, Held
<1> QED
  BY <1>1, <1>2, <1>3, <1>4, <1>5, <1>6 DEF Next

\* The inductive invariant of the outbox with one drainer and one producer.
THEOREM SoloInvariant == ASSUME Solo PROVE Spec => [](TypeOK /\ SoloInv)
<1>1. Init => TypeOK /\ SoloInv
  BY InitTypeOK, InitSoloInv
<1>2. TypeOK /\ SoloInv /\ [Next]_vars => (TypeOK /\ SoloInv)'
  BY NextTypeOK, NextSoloInv
<1> QED
  BY <1>1, <1>2, PTL DEF Spec

\* Attempts exceed *outbox-max-attempts* by no more than the drains that a
\* crash or a failing write cut short after MARK-OUTBOX-SENDING.
THEOREM AttemptsArePaid == ASSUME Solo PROVE Spec => []AttemptsPaidByInterruptions
<1>1. SoloInv => AttemptsPaidByInterruptions
  BY DEF SoloInv, AttemptsBounded, AttemptsPaidByInterruptions
<1> QED
  BY <1>1, SoloInvariant, PTL

\* With no crash and no failing write the documented maximum is a bound.
COROLLARY AttemptsAtMostMaxUndisturbed ==
    ASSUME Solo PROVE Spec => [](crashes + faults = 0 => AttemptsAtMostMax)
<1>1. TypeOK /\ SoloInv => (crashes + faults = 0 => AttemptsAtMostMax)
  <2> SUFFICES ASSUME TypeOK, SoloInv, crashes + faults = 0, NEW d \in Docs
               PROVE  store[d].attempts <= MaxAttempts
    BY DEF AttemptsAtMostMax
  <2>1. store[d].attempts <= MaxAttempts + crashes + faults
    BY DEF SoloInv, AttemptsBounded
  <2> QED
    BY <2>1, OutboxAssumption DEF TypeOK
<1> QED
  BY <1>1, SoloInvariant, PTL

-----------------------------------------------------------------------------
(* What a step does to the entries, from the point of view of a producer.  *)

\* The one entry a step may change, and to what.
LEMMA StepEffects ==
    ASSUME TypeOK, SoloInv, [Next]_vars
    PROVE  \/ /\ store' = store
              /\ \/ accepted' = accepted
                 \/ \E d \in Docs : store[d].state # "absent" /\ accepted' = accepted \cup {d}
           \/ \E d \in Docs, entry \in Entry :
                 /\ store' = [store EXCEPT ![d] = entry] /\ accepted' = accepted
                 /\ \/ store[d].state = "absent" /\ entry.state = "queued"
                    \/ store[d].state \in Pending /\ entry.state = "sending"
                    \/ /\ store[d].state = "sending"
                       /\ entry.state \in {"acknowledged", "quarantined", "failed", "retry"}
<1> DEFINE Goal ==
             \/ /\ store' = store
                /\ \/ accepted' = accepted
                   \/ \E d \in Docs : store[d].state # "absent" /\ accepted' = accepted \cup {d}
             \/ \E d \in Docs, entry \in Entry :
                   /\ store' = [store EXCEPT ![d] = entry] /\ accepted' = accepted
                   /\ \/ store[d].state = "absent" /\ entry.state = "queued"
                      \/ store[d].state \in Pending /\ entry.state = "sending"
                      \/ /\ store[d].state = "sending"
                         /\ entry.state \in {"acknowledged", "quarantined", "failed", "retry"}
<1>0. ASSUME store' = store, accepted' = accepted PROVE Goal
  BY <1>0 DEF TypeOK
<1>1. ASSUME NEW p \in Producers, EnqueuePut(p) PROVE Goal
  <2>1. /\ producer[p].doc \in Docs /\ producer[p].now \in Nat
        /\ store[producer[p].doc].state = "absent"
    BY <1>1 DEF EnqueuePut, TypeOK, Producing, SoloInv, PutIsNew
  <2>2. /\ NewEntry(producer[p].now) \in Entry /\ NewEntry(producer[p].now).state = "queued"
    <3>1. NewEntry(producer[p].now).state = "queued"
      BY DEF NewEntry, Absent
    <3> QED
      BY <2>1, <3>1, ConstantTypes, EntryOperations
  <2> QED
    BY <1>1, <2>1, <2>2 DEF EnqueuePut
<1>2. ASSUME NEW w \in Drainers, NEW d \in Docs, MarkSending(w, d) PROVE Goal
  <2>1. /\ d \in drain[w].todo /\ drain[w].snap[d] \in Entry /\ 0 \in Nat
    BY <1>2 DEF MarkSending, IsNext, TypeOK, Draining
  <2>2. store[d].state \in Pending
    BY <2>1 DEF SoloInv, CopiesCurrent
  <2>3. Sending(drain[w].snap[d]) \in Entry /\ Sending(drain[w].snap[d]).state = "sending"
    BY <2>1, EntryOperations, EntryEffects
  <2> QED
    BY <1>2, <2>2, <2>3 DEF MarkSending
<1>3. ASSUME NEW w \in Drainers, Settle(w) \/ Recover(w) PROVE Goal
  <2>1. /\ drain[w].pc \in Holding /\ drain[w].cur \in Docs /\ accepted' = accepted
        /\ drain[w].snap[drain[w].cur] \in Entry /\ drain[w].now \in Nat
    BY <1>3 DEF Settle, Recover, Holding, TypeOK, Draining
  <2>2. store[drain[w].cur].state = "sending"
    BY <2>1 DEF SoloInv, HeldIsSending
  <2> DEFINE again == RetryOrFailed(drain[w].snap[drain[w].cur], drain[w].now)
  <2>3. /\ Outcome(w).state \in {"acknowledged", "quarantined", "failed", "retry"}
        /\ again.state \in {"acknowledged", "quarantined", "failed", "retry"}
    BY <2>1, OutcomeEffects
  <2>4. again \in Entry
    BY <2>1, EntryOperations
  <2>5. Outcome(w) \in Entry
    BY <2>1, EntryOperations DEF Outcome
  <2>6. \/ store' = [store EXCEPT ![drain[w].cur] = Outcome(w)]
        \/ store' = [store EXCEPT ![drain[w].cur] = again]
    BY <1>3 DEF Settle, Recover
  <2> HIDE DEF again
  <2> QED
    BY <2>1, <2>2, <2>3, <2>4, <2>5, <2>6
<1>4. ASSUME NEW d \in Docs, ServerAccept(d) PROVE Goal
  BY <1>4 DEF ServerAccept, SoloInv, SentIsKnown, TypeOK
<1>5. ASSUME NEW p \in Producers, EnqueueFault(p) \/ \E d \in Docs : EnqueueMiss(p, d) PROVE Goal
  BY <1>0, <1>5 DEF EnqueueFault, EnqueueMiss
<1>6. ASSUME NEW w \in Drainers,
             \/ StartDrain(w) \/ FinishDrain(w) \/ Post(w)
             \/ \E reply \in {"ok", "reject", "transient", "error"} : Reply(w, reply)
             \/ SettleFault(w) \/ AbortDrain(w)
      PROVE  Goal
  BY <1>0, <1>6 DEF StartDrain, FinishDrain, Post, Reply, SettleFault, AbortDrain
<1>7. ASSUME Crash \/ Tick \/ UNCHANGED vars PROVE Goal
  BY <1>0, <1>7 DEF Crash, Tick, vars
<1> HIDE DEF Goal
<1>8. Goal
  BY <1>1, <1>2, <1>3, <1>4, <1>5, <1>6, <1>7 DEF Next, Produce, Deliver
<1> QED
  BY <1>8 DEF Goal

\* TerminalIsFinal: acknowledged, quarantined and failed entries stay as they
\* are, through crashes, failing writes, late replies and repeated drains.
THEOREM TerminalStaysFinal == ASSUME Solo PROVE Spec => TerminalIsFinal
<1>1. TypeOK /\ SoloInv /\ [Next]_vars =>
        [\A d \in Docs : store[d].state \in Terminal => store'[d] = store[d]]_vars
  <2> SUFFICES ASSUME TypeOK, SoloInv, [Next]_vars,
                      NEW d \in Docs, store[d].state \in Terminal
               PROVE  store'[d] = store[d]
    OBVIOUS
  <2> QED
    BY StepEffects DEF TypeOK, Terminal, Pending
<1> QED
  BY <1>1, SoloInvariant, PTL DEF Spec, TerminalIsFinal

\* The outbox implements the delivery ledger: every step is one step of the
\* ledger or none.
THEOREM OutboxImplementsLedger == ASSUME Solo PROVE Spec => LedgerSpec
<1>1. Init => Ledger!Init
  BY DEF Init, Ledger!Init, LedgerStatus, LedgerState, Absent
<1>2. TypeOK /\ SoloInv /\ TypeOK' /\ AckInv' /\ [Next]_vars => [Ledger!Next]_(Ledger!vars)
  <2> SUFFICES ASSUME TypeOK, SoloInv, TypeOK', AckInv', [Next]_vars
               PROVE  Ledger!Next \/ UNCHANGED <<LedgerStatus, accepted>>
    BY DEF Ledger!vars
  <2>s. \A d \in Docs : LedgerStatus[d] = LedgerState(store[d])
    BY DEF LedgerStatus
  <2>1. CASE store' = store /\ accepted' = accepted
    BY <2>1 DEF LedgerStatus
  <2>2. ASSUME NEW d \in Docs, store' = store, store[d].state # "absent",
               accepted' = accepted \cup {d}
        PROVE  Ledger!Next
    <3>1. LedgerStatus[d] # "unknown"
      BY <2>2, <2>s DEF LedgerState
    <3>2. LedgerStatus' = LedgerStatus
      BY <2>2 DEF LedgerStatus
    <3>3. Ledger!Accept(d)
      BY <2>2, <3>1, <3>2 DEF Ledger!Accept
    <3> QED
      BY <3>3 DEF Ledger!Next
  <2>3. ASSUME NEW d \in Docs, NEW entry \in Entry,
               store' = [store EXCEPT ![d] = entry], accepted' = accepted,
               \/ store[d].state = "absent" /\ entry.state = "queued"
               \/ store[d].state \in Pending /\ entry.state = "sending"
               \/ /\ store[d].state = "sending"
                  /\ entry.state \in {"acknowledged", "quarantined", "failed", "retry"}
        PROVE  Ledger!Next \/ UNCHANGED <<LedgerStatus, accepted>>
    <3>1. store'[d] = entry
      BY <2>3 DEF TypeOK
    <3>2. LedgerStatus' = [LedgerStatus EXCEPT ![d] = LedgerState(entry)]
      BY <2>3, <3>1 DEF LedgerStatus, TypeOK
    <3>3. CASE store[d].state = "absent" /\ entry.state = "queued"
      <4>1. LedgerState(store[d]) = "unknown" /\ LedgerState(entry) = "pending"
        BY <3>3 DEF LedgerState
      <4>2. Ledger!Submit(d)
        BY <2>3, <2>s, <3>2, <4>1 DEF Ledger!Submit
      <4> QED
        BY <4>2 DEF Ledger!Next
    <3>4. CASE LedgerState(store[d]) = "pending" /\ LedgerState(entry) = "pending"
      <4>1. LedgerStatus' = LedgerStatus
        BY <2>s, <3>2, <3>4 DEF LedgerStatus
      <4> QED
        BY <2>3, <4>1
    <3>5. CASE store[d].state = "sending" /\ entry.state = "acknowledged"
      <4>1. LedgerState(store[d]) = "pending" /\ LedgerState(entry) = "delivered"
        BY <3>5 DEF LedgerState
      <4>2. d \in accepted
        BY <2>3, <3>1, <3>5 DEF AckInv, Vouched
      <4>3. Ledger!Deliver(d)
        BY <2>3, <2>s, <3>2, <4>1, <4>2 DEF Ledger!Deliver
      <4> QED
        BY <4>3 DEF Ledger!Next
    <3>6. CASE store[d].state = "sending" /\ entry.state \in {"quarantined", "failed"}
      <4>1. LedgerState(store[d]) = "pending" /\ LedgerState(entry) \in {"rejected", "abandoned"}
        BY <3>6 DEF LedgerState
      <4>2. Ledger!GiveUp(d, "rejected") \/ Ledger!GiveUp(d, "abandoned")
        BY <2>3, <2>s, <3>2, <4>1 DEF Ledger!GiveUp
      <4> QED
        BY <4>2 DEF Ledger!Next
    <3>7. \/ store[d].state = "absent" /\ entry.state = "queued"
          \/ LedgerState(store[d]) = "pending" /\ LedgerState(entry) = "pending"
          \/ store[d].state = "sending" /\ entry.state = "acknowledged"
          \/ store[d].state = "sending" /\ entry.state \in {"quarantined", "failed"}
      BY <2>3 DEF LedgerState, Pending
    <3> QED
      BY <3>3, <3>4, <3>5, <3>6, <3>7
  <2> QED
    BY <2>1, <2>2, <2>3, StepEffects
<1> QED
  BY <1>1, <1>2, SoloInvariant, InitTypeOK, NextTypeOK, InitAckInv, NextAckInv, PTL
  DEF Spec, LedgerSpec, Ledger!Spec
=============================================================================
