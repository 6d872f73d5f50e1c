---------------------------- MODULE KismetProofs ----------------------------
(***************************************************************************)
(* For any devices, associations, number of attempts and runs of the       *)
(* command: what KismetPoller emits is not lost unless a failure is        *)
(* reported, and a relation reaches the broker after what it links.        *)
(*                                                                         *)
(* Neither is inductive.  A document counts as emitted once it is in seen, *)
(* so the invariant also says that whatever waits in the mailbox was seen  *)
(* (MailIsSeen); that a poll which emits has all of its documents emitted  *)
(* or still to do (NothingSkipped); that a relation in the mailbox has     *)
(* what it links before it or at the broker (LinkedBefore); and that the   *)
(* command is between polls, with an empty mailbox, when it forgets what   *)
(* was seen (Quiet).                                                       *)
(***************************************************************************)
EXTENDS KismetPoller, TLAPS

\* What is in the mailbox was marked as seen.
MailIsSeen == \A i \in 1..Len(mail) : mail[i] \in seen

\* No document is twice in the mailbox.
Distinct == \A i, j \in 1..Len(mail) : mail[i] = mail[j] => i = j

\* A poll that emits has all of its documents, and no other, to do or done.
NothingSkipped ==
    poller = "emit" =>
        /\ todo \subseteq Nodes(batch) \cup Relations(batch)
        /\ Nodes(batch) \cup Relations(batch) \subseteq todo \cup seen

Linked(d, ap) == {Station(d), Network(ap)}

\* What a relation in the mailbox links is at the broker or ahead of it.
LinkedBefore ==
    failures = 0 =>
        \A i \in 1..Len(mail) : \A d \in Devices, ap \in APs : mail[i] = Relation(d, ap) =>
            \A n \in Linked(d, ap) : n \in broker \/ \E j \in 1..(i - 1) : mail[j] = n

\* The actors rest where the command says so.
Quiet ==
    /\ main \in {"asleep", "join sink", "stop sink", "done", "failed"} => poller = "idle"
    /\ main \in {"asleep", "done", "failed"} => mail = <<>>

IInv == TypeOK /\ MailIsSeen /\ NothingSkipped /\ NoSilentLoss /\ LinkedBefore /\ Quiet

-----------------------------------------------------------------------------
(* Documents. *)

\* The kinds of documents differ, and a document's identity is what it is
\* about.
LEMMA DocumentsDiffer ==
    ASSUME NEW d, NEW e, NEW ap, NEW f, NEW aq
    PROVE  /\ Station(d) # Network(e) /\ Station(d) # Relation(e, ap) /\ Network(d) # Relation(e, ap)
           /\ Relation(d, ap) = Relation(f, aq) => d = f /\ ap = aq
BY DEF Station, Network, Relation

\* What a poll emits are documents.
LEMMA BatchDocuments ==
    ASSUME NEW ds \in SUBSET Devices
    PROVE  Nodes(ds) \cup Relations(ds) \subseteq Documents
BY KismetAssumption DEF Nodes, Relations, Documents

\* A relation that a poll emits is one of its relations, and the poll emits
\* what the relation links as nodes.
LEMMA LinkedIsEmitted ==
    ASSUME NEW ds \in SUBSET Devices, NEW d \in Devices, NEW ap \in APs,
           Relation(d, ap) \in Nodes(ds) \cup Relations(ds)
    PROVE  /\ Relation(d, ap) \in Relations(ds)
           /\ Linked(d, ap) \subseteq Nodes(ds)
           /\ Linked(d, ap) \cap Relations(ds) = {}
<1>1. Relation(d, ap) \notin Nodes(ds)
  BY DocumentsDiffer DEF Nodes
<1>2. Relation(d, ap) \in Relations(ds)
  BY <1>1
<1>3. PICK e \in ds : Relation(d, ap) = Relation(e, LastBssid[e]) /\ LastBssid[e] \in ds \cap APs
  BY <1>2 DEF Relations
<1>4. d \in ds /\ ap \in ds \cap APs
  BY <1>3, DocumentsDiffer
<1>5. Linked(d, ap) \subseteq Nodes(ds)
  BY <1>4 DEF Linked, Nodes
<1>6. Linked(d, ap) \cap Relations(ds) = {}
  BY DocumentsDiffer DEF Linked, Relations
<1>. QED
  BY <1>2, <1>5, <1>6

\* The first relation of a poll is emitted after all of its nodes.
LEMMA NodesFirst ==
    ASSUME TypeOK, NothingSkipped, NEW d \in Devices, NEW ap \in APs, Emit(Relation(d, ap))
    PROVE  Linked(d, ap) \subseteq seen
<1>1. Relation(d, ap) \in Nodes(batch) \cup Relations(batch)
  BY DEF Emit, NothingSkipped
<1>2. Relation(d, ap) \in Relations(batch) /\ Linked(d, ap) \subseteq Nodes(batch)
        /\ Linked(d, ap) \cap Relations(batch) = {}
  BY <1>1, LinkedIsEmitted DEF TypeOK
<1>3. todo \subseteq Relations(batch)
  BY <1>2 DEF Emit
<1>. QED
  BY <1>2, <1>3 DEF Emit, NothingSkipped

-----------------------------------------------------------------------------
(* The mailbox. *)

\* The sink is done with its head, for which a failure is reported unless the
\* broker has it.
Drops ==
    /\ mail # <<>>
    /\ mail' = Tail(mail)
    /\ \/ failures' = failures /\ broker' = broker \cup {Head(mail)}
       \/ failures' = failures + 1 /\ broker' \in {broker, broker \cup {Head(mail)}}
    /\ UNCHANGED <<server, main, run, poll>>

\* The rest of a mailbox is the mailbox, one position on.
LEMMA DroppedMail ==
    ASSUME TypeOK, Drops
    PROVE  /\ mail' \in Seq(Documents) /\ Distinct'
           /\ Head(mail) = mail[1] /\ Head(mail) \in Documents
           /\ Len(mail') = Len(mail) - 1 /\ Len(mail) \in Nat \ {0}
           /\ \A i \in 1..Len(mail') : mail'[i] = mail[i + 1] /\ i + 1 \in 1..Len(mail)
<1>1. mail \in Seq(Documents) /\ mail # <<>> /\ mail' = Tail(mail)
  BY DEF TypeOK, Drops
<1>2. /\ mail' \in Seq(Documents)
      /\ Head(mail) = mail[1] /\ Head(mail) \in Documents
      /\ Len(mail') = Len(mail) - 1 /\ Len(mail) \in Nat \ {0}
      /\ \A i \in 1..Len(mail') : mail'[i] = mail[i + 1] /\ i + 1 \in 1..Len(mail)
  BY <1>1
<1>3. Distinct'
  <2>1. Distinct
    BY DEF TypeOK, Distinct
  <2>. SUFFICES ASSUME NEW i \in 1..Len(mail'), NEW j \in 1..Len(mail'), mail'[i] = mail'[j]
                PROVE  i = j
    BY DEF Distinct
  <2>3. i + 1 = j + 1
    BY <1>2, <2>1 DEF Distinct
  <2>. QED
    BY <2>3
<1>. QED
  BY <1>2, <1>3

\* Dropping the head of the mailbox keeps the invariant.
LEMMA DropsInv ==
    ASSUME IInv, Drops, attempt' \in 0..(Retries - 1)
    PROVE  IInv'
<1>. USE DEF IInv
<1>d. /\ mail' \in Seq(Documents) /\ Distinct'
      /\ Head(mail) = mail[1] /\ Head(mail) \in Documents
      /\ Len(mail') = Len(mail) - 1 /\ Len(mail) \in Nat \ {0}
      /\ \A i \in 1..Len(mail') : mail'[i] = mail[i + 1] /\ i + 1 \in 1..Len(mail)
  BY DroppedMail
<1>b. broker \subseteq broker' /\ broker' \subseteq broker \cup {Head(mail)}
      /\ (failures' = 0 => failures = 0 /\ Head(mail) \in broker')
      /\ failures' \in Nat
  <2>0. failures \in Nat
    BY Zenon DEF TypeOK
  <2>1. failures \in Nat /\ failures + 1 \in Nat /\ failures + 1 # 0
    BY <2>0
  <2>2. \/ failures' = failures /\ broker' = broker \cup {Head(mail)}
        \/ failures' = failures + 1 /\ broker' \in {broker, broker \cup {Head(mail)}}
    BY Zenon DEF Drops
  <2>3. broker \subseteq broker' /\ broker' \subseteq broker \cup {Head(mail)}
    BY <2>2
  <2>4. failures' = 0 => failures = 0 /\ Head(mail) \in broker'
    BY <2>1, <2>2
  <2>. QED
    BY <2>1, <2>2, <2>3, <2>4
<1>1. TypeOK'
  <2>1. UNCHANGED <<clock, modified, main, run, poller, cursor, seen, stamp, batch, todo>>
    BY DEF Drops, server, poll
  <2>2. broker' \subseteq Documents
    BY <1>b, <1>d DEF TypeOK
  <2>. QED
    BY <1>d, <1>b, <2>1, <2>2 DEF TypeOK, Distinct
<1>2. MailIsSeen'
  BY <1>d DEF MailIsSeen, Drops, poll
<1>3. NothingSkipped'
  BY DEF NothingSkipped, Drops, poll, Nodes, Relations
<1>4. NoSilentLoss'
  <2>. SUFFICES ASSUME NEW x \in seen, failures' = 0, x \notin broker'
                PROVE  \E i \in 1..Len(mail') : mail'[i] = x
    BY <1>b DEF NoSilentLoss, Drops, poll
  <2>1. PICK i \in 1..Len(mail) : mail[i] = x
    BY <1>b DEF NoSilentLoss
  <2>2. i # 1
    BY <2>1, <1>b, <1>d
  <2>3. i - 1 \in 1..Len(mail') /\ mail'[i - 1] = mail[(i - 1) + 1] /\ (i - 1) + 1 = i
    BY <2>2, <1>d
  <2>. QED
    BY <2>1, <2>3
<1>5. LinkedBefore'
  <2>. SUFFICES ASSUME failures' = 0, NEW i \in 1..Len(mail'), NEW d \in Devices, NEW ap \in APs,
                       mail'[i] = Relation(d, ap), NEW n \in Linked(d, ap), n \notin broker'
                PROVE  \E j \in 1..(i - 1) : mail'[j] = n
    BY DEF LinkedBefore
  <2>1. mail[i + 1] = Relation(d, ap) /\ i + 1 \in 1..Len(mail) /\ n \notin broker /\ failures = 0
    BY <1>d, <1>b
  <2>2. PICK j \in 1..((i + 1) - 1) : mail[j] = n
    BY <2>1 DEF LinkedBefore
  <2>3. j # 1
    BY <2>2, <1>b, <1>d
  <2>4. j - 1 \in 1..(i - 1) /\ j - 1 \in 1..Len(mail') /\ (j - 1) + 1 = j
    BY <2>3, <1>d
  <2>5. mail'[j - 1] = n
    BY <2>2, <2>4, <1>d
  <2>. QED
    BY <2>4, <2>5
<1>6. Quiet'
  <2>1. mail # <<>>
    BY DEF Drops
  <2>. QED
    BY <2>1 DEF Quiet, Drops, poll
<1>. QED
  BY <1>1, <1>2, <1>3, <1>4, <1>5, <1>6

\* Emitting a document keeps the invariant.
LEMMA EmitInv ==
    ASSUME IInv, NEW x \in todo, Emit(x)
    PROVE  IInv'
<1>. USE DEF IInv
<1>u. UNCHANGED <<clock, modified, main, run, poller, cursor, stamp, batch, attempt, broker, failures>>
  BY DEF Emit, server
<1>s. seen' = seen \cup {x} /\ todo' = todo \ {x} /\ poller = "emit"
  BY DEF Emit
<1>x. x \in Documents /\ seen \subseteq Documents /\ mail \in Seq(Documents) /\ batch \in SUBSET Devices
  <2>1. todo \subseteq Documents /\ seen \subseteq Documents /\ mail \in Seq(Documents) /\ batch \subseteq Devices
    BY Zenon DEF TypeOK
  <2>. QED
    BY <2>1
<1>m. \/ x \in seen /\ mail' = mail
      \/ /\ x \notin seen /\ mail' = Append(mail, x)
         /\ Len(mail') = Len(mail) + 1 /\ mail'[Len(mail) + 1] = x
         /\ \A i \in 1..Len(mail) : mail'[i] = mail[i]
  BY <1>x DEF Emit
<1>l. Len(mail) \in Nat /\ mail' \in Seq(Documents)
  BY <1>x, <1>m
<1>1. TypeOK'
  <2>1. Distinct'
    <3>1. \A i, j \in 1..Len(mail) : mail[i] = mail[j] => i = j
      BY DEF TypeOK
    <3>2. x \notin seen => \A i \in 1..Len(mail) : mail[i] # x
      BY DEF MailIsSeen
    <3>. SUFFICES ASSUME NEW i \in 1..Len(mail'), NEW j \in 1..Len(mail'), mail'[i] = mail'[j]
                  PROVE  i = j
      BY DEF Distinct
    <3>. QED
      BY <1>m, <1>l, <3>1, <3>2
  <2>2. seen' \subseteq Documents /\ todo' \subseteq Documents
    <3>1. todo \subseteq Documents
      BY Zenon DEF TypeOK
    <3>. QED
      BY <3>1, <1>s, <1>x
  <2>. QED
    BY <2>1, <2>2, <1>u, <1>l DEF TypeOK, Distinct
<1>2. MailIsSeen'
  BY <1>s, <1>m, <1>l DEF MailIsSeen
<1>3. NothingSkipped'
  <2>1. Nodes(batch)' = Nodes(batch) /\ Relations(batch)' = Relations(batch)
    BY <1>u DEF Nodes, Relations
  <2>. QED
    BY <2>1, <1>s DEF NothingSkipped
<1>4. NoSilentLoss'
  <2>. SUFFICES ASSUME NEW y \in seen \cup {x}, y \notin broker, failures = 0
                PROVE  \E i \in 1..Len(mail') : mail'[i] = y
    <3>1. failures \in Nat
      BY DEF TypeOK
    <3>. QED
      BY <1>s, <1>u, <3>1 DEF NoSilentLoss
  <2>1. CASE y \in seen
    <3>1. PICK i \in 1..Len(mail) : mail[i] = y
      BY <2>1 DEF NoSilentLoss
    <3>2. i \in 1..Len(mail') /\ mail'[i] = y
      BY <3>1, <1>m, <1>l
    <3>. QED
      BY <3>2
  <2>2. CASE y = x /\ x \notin seen
    <3>1. Len(mail) + 1 \in 1..Len(mail') /\ mail'[Len(mail) + 1] = y
      BY <2>2, <1>m, <1>l
    <3>. QED
      BY <3>1
  <2>. QED
    BY <2>1, <2>2
<1>5. LinkedBefore'
  <2>. SUFFICES ASSUME failures = 0, NEW i \in 1..Len(mail'), NEW d \in Devices, NEW ap \in APs,
                       mail'[i] = Relation(d, ap), NEW n \in Linked(d, ap), n \notin broker
                PROVE  \E j \in 1..(i - 1) : mail'[j] = n
    BY <1>u DEF LinkedBefore
  <2>1. CASE i \in 1..Len(mail)
    <3>1. mail[i] = Relation(d, ap)
      BY <2>1, <1>m
    <3>2. PICK j \in 1..(i - 1) : mail[j] = n
      BY <2>1, <3>1 DEF LinkedBefore
    <3>3. mail'[j] = n
      BY <2>1, <3>2, <1>m, <1>l
    <3>. QED
      BY <3>3
  <2>2. CASE i \notin 1..Len(mail)
    <3>1. i = Len(mail) + 1 /\ x = Relation(d, ap)
      BY <2>2, <1>m, <1>l
    <3>2. n \in seen
      BY <3>1, NodesFirst
    <3>3. PICK j \in 1..Len(mail) : mail[j] = n
      BY <3>2 DEF NoSilentLoss
    <3>4. j \in 1..(i - 1) /\ mail'[j] = n
      BY <3>1, <3>3, <1>m, <1>l
    <3>. QED
      BY <3>4
  <2>. QED
    BY <2>1, <2>2
<1>6. Quiet'
  BY <1>s, <1>u DEF Quiet
<1>. QED
  BY <1>1, <1>2, <1>3, <1>4, <1>5, <1>6

-----------------------------------------------------------------------------
(* The invariant. *)

\* What the parts of the invariant other than the type are about.
told == <<seen, mail, broker, todo, batch, failures>>

\* The invariant's parts about documents depend on nothing but these.
LEMMA UntoldInv ==
    ASSUME IInv, UNCHANGED told, poller' = "emit" => poller = "emit"
    PROVE  MailIsSeen' /\ NothingSkipped' /\ NoSilentLoss' /\ LinkedBefore'
<1>1. UNCHANGED <<seen, mail, broker, todo, batch, failures>>
  BY DEF told
<1>2. Nodes(batch)' = Nodes(batch) /\ Relations(batch)' = Relations(batch)
  BY <1>1 DEF Nodes, Relations
<1>3. MailIsSeen'
  BY <1>1 DEF IInv, MailIsSeen
<1>4. NothingSkipped'
  BY <1>1, <1>2 DEF IInv, NothingSkipped
<1>5. NoSilentLoss'
  BY <1>1 DEF IInv, NoSilentLoss
<1>6. LinkedBefore'
  BY <1>1 DEF IInv, LinkedBefore
<1>. QED
  BY <1>3, <1>4, <1>5, <1>6

\* Nothing was emitted at first.
LEMMA InitInv == Init => IInv
<1>. SUFFICES ASSUME Init
              PROVE  IInv
  OBVIOUS
<1>1. mail = <<>> /\ seen = {} /\ failures = 0 /\ poller = "idle" /\ main = "asleep"
  BY DEF Init, Fresh
<1>2. TypeOK
  BY KismetAssumption DEF Init, Fresh, TypeOK
<1>. QED
  BY <1>1, <1>2 DEF IInv, MailIsSeen, NothingSkipped, NoSilentLoss, LinkedBefore, Quiet

\* Every step of the command, its actors, the server and the broker keeps it.
LEMMA NextInv == IInv /\ [Next]_vars => IInv'
<1>. SUFFICES ASSUME IInv, [Next]_vars
              PROVE  IInv'
  OBVIOUS
<1>t. TypeOK /\ Quiet
  BY DEF IInv
<1>. USE DEF told, server, poll, sink
<1>f. failures \in Nat /\ attempt \in 0..(Retries - 1) /\ Retries \in Nat \ {0}
  BY Zenon, <1>t, KismetAssumption DEF TypeOK
<1>c. MaxClock \in Nat \ {0} /\ MaxRuns \in Nat \ {0} /\ clock \in 1..MaxClock /\ run \in 1..MaxRuns
  BY Zenon, <1>t, KismetAssumption DEF TypeOK
<1>1. CASE Tick
  <2>0. clock' \in 1..MaxClock
    BY <1>1, <1>c DEF Tick
  <2>1. TypeOK'
    BY <1>1, <1>t, <2>0 DEF Tick, TypeOK
  <2>. QED
    BY <1>1, <1>t, <2>1, UntoldInv DEF Tick, IInv, Quiet
<1>2. ASSUME NEW d \in Devices, Observe(d)
      PROVE  IInv'
  <2>0. modified' \in [Devices -> 0..MaxClock]
    <3>1. clock \in 0..MaxClock
      BY <1>c
    <3>2. modified \in [Devices -> 0..MaxClock]
      BY Zenon, <1>t DEF TypeOK
    <3>. QED
      BY <1>2, <3>1, <3>2 DEF Observe
  <2>1. TypeOK'
    BY <1>2, <1>t, <2>0 DEF Observe, TypeOK
  <2>. QED
    BY <1>2, <1>t, <2>1, UntoldInv DEF Observe, IInv, Quiet
<1>3. CASE Interrupt
  <2>1. TypeOK'
    BY <1>3, <1>t DEF Interrupt, TypeOK
  <2>. QED
    BY <1>3, <1>t, <2>1, UntoldInv DEF Interrupt, IInv, Quiet
<1>4. CASE Rerun
  <2>1. mail = <<>> /\ poller = "idle"
    BY <1>4, <1>t DEF Rerun, Quiet
  <2>2. mail' = <<>> /\ poller' = "idle" /\ seen' = {} /\ main' = "asleep"
    BY <1>4, <2>1 DEF Rerun
  <2>3. TypeOK'
    <3>1. run' \in 1..MaxRuns /\ 0 \in 0..MaxClock
      BY <1>4, <1>c DEF Rerun
    <3>. QED
      BY <1>4, <1>t, <3>1 DEF Rerun, TypeOK
  <2>4. MailIsSeen' /\ NothingSkipped' /\ NoSilentLoss' /\ LinkedBefore'
    BY <2>2 DEF MailIsSeen, NothingSkipped, NoSilentLoss, LinkedBefore
  <2>. QED
    BY <2>2, <2>3, <2>4 DEF IInv, Quiet
<1>5. CASE TellPollOnce
  <2>1. TypeOK'
    BY <1>5, <1>t DEF TellPollOnce, TypeOK
  <2>. QED
    BY <1>5, <1>t, <2>1, UntoldInv DEF TellPollOnce, IInv, Quiet
<1>6. CASE JoinPoller
  <2>1. TypeOK'
    BY <1>6, <1>t DEF JoinPoller, TypeOK
  <2>. QED
    BY <1>6, <1>t, <2>1, UntoldInv DEF JoinPoller, IInv, Quiet
<1>7. CASE JoinSink
  <2>1. TypeOK'
    <3>1. main' \in {"failed", "asleep"}
      BY <1>7 DEF JoinSink
    <3>2. UNCHANGED <<server, run, poll, sink, failures>>
      BY <1>7 DEF JoinSink
    <3>. QED
      BY <1>t, <3>1, <3>2 DEF TypeOK
  <2>. QED
    BY <1>7, <1>t, <2>1, UntoldInv DEF JoinSink, IInv, Quiet
<1>8. CASE StopPoller
  <2>1. TypeOK'
    BY <1>8, <1>t DEF StopPoller, TypeOK
  <2>. QED
    BY <1>8, <1>t, <2>1, UntoldInv DEF StopPoller, IInv, Quiet
<1>9. CASE StopSink
  <2>1. TypeOK'
    <3>1. main' = "done" /\ UNCHANGED <<server, run, poll, sink, failures>>
      BY <1>9 DEF StopSink
    <3>. QED
      BY <1>t, <3>1 DEF TypeOK
  <2>. QED
    BY <1>9, <1>t, <2>1, UntoldInv DEF StopSink, IInv, Quiet
<1>10. CASE Fetch
  <2>1. TypeOK'
    BY <1>10, <1>t DEF Fetch, TypeOK, Since
  <2>2. MailIsSeen' /\ NoSilentLoss' /\ LinkedBefore'
    BY <1>10 DEF Fetch, IInv, MailIsSeen, NoSilentLoss, LinkedBefore
  <2>. QED
    BY <1>10, <1>t, <2>1, <2>2 DEF Fetch, IInv, NothingSkipped, Quiet
<1>11. CASE ReadStamp
  <2>1. TypeOK'
    <3>1. todo' \subseteq Documents
      BY <1>11, <1>t, BatchDocuments DEF ReadStamp, TypeOK
    <3>2. stamp' \in 0..MaxClock
      BY <1>11, <1>c DEF ReadStamp
    <3>. QED
      BY <1>11, <1>t, <3>1, <3>2 DEF ReadStamp, TypeOK
  <2>2. MailIsSeen' /\ NoSilentLoss' /\ LinkedBefore'
    BY <1>11 DEF ReadStamp, IInv, MailIsSeen, NoSilentLoss, LinkedBefore
  <2>3. NothingSkipped'
    <3>1. Nodes(batch)' = Nodes(batch) /\ Relations(batch)' = Relations(batch)
      BY <1>11 DEF ReadStamp, Nodes, Relations
    <3>. QED
      BY <1>11, <3>1 DEF ReadStamp, NothingSkipped
  <2>. QED
    BY <1>11, <1>t, <2>1, <2>2, <2>3 DEF ReadStamp, IInv, Quiet
<1>12. CASE RequestFails
  <2>1. failures' \in Nat /\ failures' > 0 /\ failures' # 0
    BY <1>12, <1>f DEF RequestFails
  <2>2. TypeOK'
    BY <1>12, <1>t, <2>1 DEF RequestFails, TypeOK
  <2>. QED
    BY <1>12, <1>t, <2>1, <2>2
    DEF RequestFails, IInv, MailIsSeen, NothingSkipped, NoSilentLoss, LinkedBefore, Quiet
<1>13. ASSUME NEW x \in todo, Emit(x)
       PROVE  IInv'
  BY <1>13, EmitInv
<1>14. CASE PollEnds
  <2>1. TypeOK'
    BY <1>14, <1>t DEF PollEnds, TypeOK
  <2>. QED
    BY <1>14, <1>t, <2>1, UntoldInv DEF PollEnds, IInv, Quiet
<1>15. CASE Confirmed
  <2>1. Drops /\ attempt' \in 0..(Retries - 1)
    BY <1>15, <1>f DEF Confirmed, Drops
  <2>. QED
    BY <2>1, DropsInv
<1>16. CASE AttemptFails
  <2>1. CASE attempt + 1 < Retries
    <3>1. TypeOK'
      <4>1. attempt' \in 0..(Retries - 1) /\ broker' \subseteq broker \cup {Head(mail)} /\ mail # <<>>
              /\ UNCHANGED <<mail, failures>>
        BY <1>16, <2>1, <1>f DEF AttemptFails
      <4>2. broker' \subseteq Documents
        <5>1. mail \in Seq(Documents) /\ broker \subseteq Documents
          BY Zenon, <1>t DEF TypeOK
        <5>2. Head(mail) \in Documents
          BY <4>1, <5>1
        <5>. QED
          BY <4>1, <5>1, <5>2
      <4>. QED
        BY <1>16, <1>t, <4>1, <4>2 DEF AttemptFails, TypeOK
    <3>2. broker \subseteq broker' /\ UNCHANGED <<mail, failures, main, poller, seen, todo, batch>>
      BY <1>16, <2>1 DEF AttemptFails
    <3>3. NothingSkipped'
      BY <3>2 DEF IInv, NothingSkipped, Nodes, Relations
    <3>4. MailIsSeen' /\ NoSilentLoss'
      BY <3>2 DEF IInv, MailIsSeen, NoSilentLoss
    <3>5. LinkedBefore'
      BY <3>2 DEF IInv, LinkedBefore
    <3>. QED
      BY <1>t, <3>1, <3>2, <3>3, <3>4, <3>5 DEF IInv, Quiet
  <2>2. CASE ~(attempt + 1 < Retries)
    <3>1. Drops /\ attempt' \in 0..(Retries - 1)
      BY <1>16, <2>2, <1>f DEF AttemptFails, Drops
    <3>. QED
      BY <3>1, DropsInv
  <2>. QED
    BY <2>1, <2>2
<1>17. CASE Unroutable
  <2>1. Drops /\ attempt' \in 0..(Retries - 1)
    BY <1>17, <1>f DEF Unroutable, Drops
  <2>. QED
    BY <2>1, DropsInv
<1>18. CASE UNCHANGED vars
  <2>1. TypeOK'
    BY <1>18, <1>t DEF vars, TypeOK
  <2>. QED
    BY <1>18, <1>t, <2>1, UntoldInv DEF vars, IInv, Quiet
<1>. QED
  BY <1>1, <1>2, <1>3, <1>4, <1>5, <1>6, <1>7, <1>8, <1>9, <1>10, <1>11, <1>12, <1>13, <1>14,
     <1>15, <1>16, <1>17, <1>18 DEF Next, Main, Poller, Sink

\* The invariant holds of every behaviour.
LEMMA Invariant == Spec => []IInv
BY InitInv, NextInv, PTL DEF Spec

-----------------------------------------------------------------------------
(* Theorems. *)

\* The poller, the sink and the broker keep to their types; a mailbox holds no
\* document twice.
THEOREM TypeCorrect == Spec => []TypeOK
<1>1. IInv => TypeOK
  BY DEF IInv
<1>. QED
  BY Invariant, <1>1, PTL

\* A document marked as seen, which this run of the command will not emit
\* again, is at the broker or on its way, or a failure was reported.
THEOREM NothingLost == Spec => []NoSilentLoss
<1>1. IInv => NoSilentLoss
  BY DEF IInv
<1>. QED
  BY Invariant, <1>1, PTL

\* A relation reaches the broker after the station and the network it links,
\* as long as the command has reported no failure.
THEOREM RelationsLast == Spec => RelationsAfterNodes
<1>1. IInv /\ [Next]_vars =>
        [\A d \in Devices, ap \in APs :
            Relation(d, ap) \in broker' \ broker /\ failures = 0
                => {Station(d), Network(ap)} \subseteq broker]_vars
  <2>. SUFFICES ASSUME IInv, Next, NEW d \in Devices, NEW ap \in APs,
                       Relation(d, ap) \in broker' \ broker, failures = 0
                PROVE  Linked(d, ap) \subseteq broker
    BY DEF Linked
  <2>1. broker' \subseteq broker \cup {Head(mail)} /\ mail # <<>>
    BY DEF Next, Main, Poller, Sink, Tick, Observe, Interrupt, Rerun, TellPollOnce, JoinPoller, JoinSink,
           StopPoller, StopSink, Fetch, ReadStamp, RequestFails, Emit, PollEnds, Confirmed, AttemptFails,
           Unroutable, sink, poll, server
  <2>2. mail \in Seq(Documents)
    BY Zenon DEF IInv, TypeOK
  <2>3. 1 \in 1..Len(mail) /\ mail[1] = Relation(d, ap)
    BY <2>1, <2>2
  <2>. QED
    BY <2>3 DEF IInv, LinkedBefore
<1>. QED
  BY Invariant, <1>1, PTL DEF Spec, RelationsAfterNodes

=============================================================================
