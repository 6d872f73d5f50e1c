-------------------------- MODULE DiscoveryProofs --------------------------
(***************************************************************************)
(* For any assets, jobs, provider outputs, callers and bounds:             *)
(* AssetDiscovery keeps its types, stores and views an asset before it is  *)
(* published, leaves one unpublished only after a failure or a crash, has  *)
(* the rows of its views, and publishes an asset that only jobs discover   *)
(* at most once.                                                           *)
(*                                                                         *)
(* The inductive invariant says what the caller knows at each step of      *)
(* DISCOVER-ASSET (CallsKnow), and what the persistence lock gives to an   *)
(* asset of jobs (OnceAndLocked): whoever is about to store it finds it    *)
(* absent, and at most one caller is between storing and publishing it.    *)
(***************************************************************************)
EXTENDS AssetDiscovery, TLAPS

Locked == {"fetch", "put", "ensure", "rebuild", "apply"}

Handling == {"ensure", "rebuild", "apply", "publish"}

Places == {"idle", "next", "fetch", "put", "ensure", "rebuild", "apply", "publish", "query"}

Task == [pc: Places, job: Jobs \cup {"none"}, left: Seq(Outputs)]

\* Where each caller is, and the asset it is at.
Place == [t \in Callers |-> task[t].pc]

Aim == [t \in Callers |-> Asset(t)]

Handled(a) == \E t \in Callers : Place[t] \in Handling /\ Aim[t] = a

\* The types of what the steps of DISCOVER-ASSET work on.
SharedTyped ==
    /\ store \subseteq Assets /\ view \subseteq store /\ registered \in BOOLEAN
    /\ lock \in {"free"} \cup Synchronous \cup {Supervisor}
    /\ events \in [Assets -> Nat]
    /\ Place \in [Callers -> Places]

\* What a caller knows of its asset, and that it holds the lock for it.
Knows(t) ==
    /\ Place[t] \in Locked \cup {"publish"} => Aim[t] \in Assets
    /\ Place[t] \in Handling => Aim[t] \in store
    /\ Place[t] = "publish" => Aim[t] \in view
    /\ t \in Direct => Place[t] \notin {"next", "query"}
    /\ t \in Direct /\ Place[t] # "idle" => Aim[t] = DirectAsset
    /\ t \notin Direct /\ Place[t] \in Locked => lock = t

CallsKnow == \A t \in Callers : Knows(t)

NoneForgotten == \A a \in store : events[a] > 0 \/ a \in broken \/ Handled(a)

Row(a) ==
    \/ a \in stale
    \/ Handled(a)
    \/ \E t \in Callers : Place[t] \in {"rebuild", "query"}

RowsFollow == registered => \A a \in store \ view : Row(a)

\* Nobody but jobs discovers the asset.
OfJobs(a) == a = DirectAsset => Direct = {}

IsAt(t, a, places) == Place[t] \in places /\ Aim[t] = a

\* Whoever is about to store the asset has found it absent, and the one who
\* has stored it publishes it for the first time.
Once(a) ==
    /\ events[a] <= 1
    /\ \A t \in Callers : IsAt(t, a, {"put"}) => a \notin store
    /\ \A t \in Callers : IsAt(t, a, Handling) => events[a] = 0
    /\ \A t, u \in Callers : IsAt(t, a, Handling) /\ IsAt(u, a, Handling) => t = u

OnceAndLocked == \A a \in Assets : OfJobs(a) => Once(a)

SharedInv ==
    SharedTyped /\ CallsKnow /\ PublishedIsStored /\ NoneForgotten /\ RowsFollow /\ OnceAndLocked

\* A caller that is at an asset has it as its next output.
HasOutput == \A t \in Callers : task[t].pc \in Locked \cup {"publish"} => task[t].left # <<>>

IInv == TypeOK /\ HasOutput /\ SharedInv

-----------------------------------------------------------------------------
(* What the operators of AssetDiscovery do to the calls. *)

\* TASK has its type, and only the caller's entry is another.
LEMMA Moves ==
  ASSUME TypeOK, NEW t \in Callers, NEW x \in Task, Becomes(t, x)
  PROVE  /\ task' \in [Callers -> Task]
         /\ task'[t] = x
         /\ \A u \in Callers \ {t} : task'[u] = task[u]
<1>1. task \in [Callers -> Task]
  BY DEF TypeOK, Task, Places
<1> QED
  BY <1>1 DEF Becomes

\* The caller of DISCOVER-ASSET keeps its asset and goes to another place.
LEMMA GoesTo ==
  ASSUME TypeOK, NEW t \in Callers, NEW pc \in Places, Goes(t, pc)
  PROVE  /\ task' \in [Callers -> Task]
         /\ task'[t].pc = pc /\ task'[t].left = task[t].left
         /\ \A u \in Callers \ {t} : task'[u] = task[u]
<1>1. task[t] \in Task
  BY DEF TypeOK, Task, Places
<1>2. [task[t] EXCEPT !.pc = pc] \in Task
  BY <1>1 DEF Task
<1>3. [task[t] EXCEPT !.pc = pc].pc = pc /\ [task[t] EXCEPT !.pc = pc].left = task[t].left
  BY <1>1 DEF Task
<1> QED
  BY <1>2, <1>3, Moves DEF Goes

\* An idle caller has a task of the type.
LEMMA NoTaskTyped == NoTask \in Task /\ NoTask.pc = "idle"
<1>1. <<>> \in Seq(Outputs)
  OBVIOUS
<1> QED
  BY <1>1 DEF NoTask, Task, Places

\* A caller without further outputs to look at, or that goes on to the next.
LEMMA ProceedsTo ==
  ASSUME TypeOK, NEW t \in Callers, task[t].left # <<>>, Proceeds(t)
  PROVE  /\ task' \in [Callers -> Task]
         /\ task'[t].pc = IF t \in Direct THEN "idle" ELSE "next"
         /\ \A u \in Callers \ {t} : task'[u] = task[u]
<1>1. task[t] \in Task /\ task[t].left \in Seq(Outputs)
  BY DEF TypeOK, Task, Places
<1>2. Tail(task[t].left) \in Seq(Outputs)
  BY <1>1
<1>3. /\ [task[t] EXCEPT !.pc = "next", !.left = Tail(@)] \in Task
      /\ [task[t] EXCEPT !.pc = "next", !.left = Tail(@)].pc = "next"
  BY <1>1, <1>2 DEF Task, Places
<1> DEFINE x == IF t \in Direct THEN NoTask ELSE [task[t] EXCEPT !.pc = "next", !.left = Tail(@)]
<1>4. x \in Task /\ x.pc = IF t \in Direct THEN "idle" ELSE "next"
  BY <1>3, NoTaskTyped
<1>5. Becomes(t, x)
  BY DEF Proceeds
<1> HIDE DEF x
<1> QED
  BY <1>4, <1>5, Moves

\* A caller that is done, and the future of its job.
LEMMA FinishesTo ==
  ASSUME TypeOK, NEW t \in Callers, NEW result \in {"succeeded", "failed"}, Finishes(t, result)
  PROVE  /\ task' \in [Callers -> Task]
         /\ task'[t].pc = "idle"
         /\ \A u \in Callers \ {t} : task'[u] = task[u]
         /\ future' \in [Jobs -> {"none", "pending", "succeeded", "failed", "lost"}]
<1>1. future' \in [Jobs -> {"none", "pending", "succeeded", "failed", "lost"}]
  BY DEF Finishes, TypeOK
<1> QED
  BY <1>1, NoTaskTyped, Moves DEF Finishes

-----------------------------------------------------------------------------
(* The steps of one caller, by what they do to what the callers share. *)

OthersStay(t) == \A u \in Callers \ {t} : Place'[u] = Place[u] /\ Aim'[u] = Aim[u]

\* What stands in for the row of an asset stays, if it was not the caller.
LEMMA RowStays ==
  ASSUME NEW t \in Callers, OthersStay(t), NEW a, Row(a), stale \subseteq stale',
         ~IsAt(t, a, Handling) \/ IsAt(t, a, Handling)',
         Place[t] \notin {"rebuild", "query"}
  PROVE  Row(a)'
<1>1. CASE a \in stale
  BY <1>1 DEF Row
<1>2. CASE Handled(a)
  <2>1. PICK u \in Callers : IsAt(u, a, Handling)
    BY <1>2 DEF Handled, IsAt
  <2>2. IsAt(u, a, Handling)'
    BY <2>1 DEF IsAt, OthersStay
  <2> QED
    BY <2>2 DEF Row, Handled, IsAt
<1>3. CASE \E u \in Callers : Place[u] \in {"rebuild", "query"}
  <2>1. PICK u \in Callers : Place[u] \in {"rebuild", "query"}
    BY <1>3
  <2>2. Place'[u] \in {"rebuild", "query"}
    BY <2>1 DEF OthersStay
  <2> QED
    BY <2>2 DEF Row
<1> QED
  BY <1>1, <1>2, <1>3 DEF Row

\* A caller without an asset in hand, or that finds its asset there, is done.
LEMMA Leaves ==
  ASSUME SharedInv, NEW t \in Callers, OthersStay(t),
         Place' \in [Callers -> Places], Place[t] \notin Handling \cup {"query"},
         Place'[t] = "idle" \/ (Place'[t] = "next" /\ t \notin Direct),
         lock' = lock \/ (lock = t /\ lock' = "free"),
         UNCHANGED <<store, view, registered, events, stale, broken>>
  PROVE  SharedInv'
<1> USE DiscoveryAssumption DEF SharedInv, SharedTyped, OthersStay
<1>1. SharedTyped'
  BY DEF Places
<1>2. CallsKnow'
  <2> SUFFICES ASSUME NEW u \in Callers PROVE Knows(u)'
    BY DEF CallsKnow
  <2>1. Knows(u) /\ Knows(t)
    BY DEF CallsKnow
  <2> QED
    BY <2>1 DEF Knows, Locked, Handling
<1>3. PublishedIsStored'
  BY DEF PublishedIsStored, Handling
<1>4. NoneForgotten'
  BY DEF NoneForgotten, Handled, Handling
<1>5. RowsFollow'
  <2> SUFFICES ASSUME registered, NEW a \in store \ view PROVE Row(a)'
    BY DEF RowsFollow
  <2>1. Row(a)
    BY DEF RowsFollow
  <2> QED
    BY <2>1, RowStays DEF IsAt, Handling
<1>6. OnceAndLocked'
  <2> SUFFICES ASSUME NEW a \in Assets, OfJobs(a) PROVE Once(a)'
    BY DEF OnceAndLocked, OfJobs
  <2>1. Once(a)
    BY DEF OnceAndLocked
  <2>2. \A u \in Callers : Knows(u)
    BY DEF CallsKnow
  <2> QED
    BY <2>1, <2>2 DEF Once, IsAt, Knows, OfJobs, PublishedIsStored, Handling, Locked
<1> QED
  BY <1>1, <1>2, <1>3, <1>4, <1>5, <1>6

\* No caller of a job is taken for the free lock.
LEMMA FreeIsNobody == "free" \notin Callers \ Direct
BY DiscoveryAssumption DEF Callers, Supervisor

\* A caller of a job takes the lock for its next asset.
LEMMA TakesLock ==
  ASSUME SharedInv, NEW t \in Callers, OthersStay(t),
         Place' \in [Callers -> Places], t \notin Direct,
         Place[t] = "next", Place'[t] = "fetch", Aim'[t] \in Assets,
         lock = "free", lock' = t,
         UNCHANGED <<store, view, registered, events, stale, broken>>
  PROVE  SharedInv'
<1> USE DiscoveryAssumption DEF SharedInv, SharedTyped, OthersStay
<1>0. "free" \notin Callers \ Direct
  BY FreeIsNobody
<1>1. SharedTyped'
  <2>1. t \in Synchronous \cup {Supervisor}
    BY DEF Callers
  <2> QED
    BY <2>1 DEF Places
<1>2. CallsKnow'
  <2> SUFFICES ASSUME NEW u \in Callers PROVE Knows(u)'
    BY DEF CallsKnow
  <2>1. Knows(u) /\ Knows(t)
    BY DEF CallsKnow
  <2> QED
    BY <2>1, <1>1, <1>0 DEF Knows, Locked, Handling
<1>3. PublishedIsStored'
  BY DEF PublishedIsStored, Handling
<1>4. NoneForgotten'
  BY DEF NoneForgotten, Handled, Handling
<1>5. RowsFollow'
  <2> SUFFICES ASSUME registered, NEW a \in store \ view PROVE Row(a)'
    BY DEF RowsFollow
  <2>1. Row(a)
    BY DEF RowsFollow
  <2> QED
    BY <2>1, RowStays DEF IsAt, Handling
<1>6. OnceAndLocked'
  <2> SUFFICES ASSUME NEW a \in Assets, OfJobs(a) PROVE Once(a)'
    BY DEF OnceAndLocked, OfJobs
  <2>1. Once(a)
    BY DEF OnceAndLocked
  <2>2. \A u \in Callers : Knows(u)
    BY DEF CallsKnow
  <2> QED
    BY <2>1, <2>2 DEF Once, IsAt, Knows, OfJobs, PublishedIsStored, Handling, Locked
<1> QED
  BY <1>1, <1>2, <1>3, <1>4, <1>5, <1>6

\* A direct caller begins.
LEMMA Begins ==
  ASSUME SharedInv, NEW t \in Callers, OthersStay(t),
         Place' \in [Callers -> Places], t \in Direct,
         Place[t] = "idle", Place'[t] = "fetch", Aim'[t] = DirectAsset,
         UNCHANGED <<store, view, registered, lock, events, stale, broken>>
  PROVE  SharedInv'
<1> USE DiscoveryAssumption DEF SharedInv, SharedTyped, OthersStay
<1>1. SharedTyped'
  BY DEF Places
<1>2. CallsKnow'
  <2> SUFFICES ASSUME NEW u \in Callers PROVE Knows(u)'
    BY DEF CallsKnow
  <2>1. Knows(u) /\ Knows(t)
    BY DEF CallsKnow
  <2> QED
    BY <2>1 DEF Knows, Locked, Handling
<1>3. PublishedIsStored'
  BY DEF PublishedIsStored, Handling
<1>4. NoneForgotten'
  BY DEF NoneForgotten, Handled, Handling
<1>5. RowsFollow'
  <2> SUFFICES ASSUME registered, NEW a \in store \ view PROVE Row(a)'
    BY DEF RowsFollow
  <2>1. Row(a)
    BY DEF RowsFollow
  <2> QED
    BY <2>1, RowStays DEF IsAt, Handling
<1>6. OnceAndLocked'
  <2> SUFFICES ASSUME NEW a \in Assets, OfJobs(a) PROVE Once(a)'
    BY DEF OnceAndLocked, OfJobs
  <2>1. Once(a)
    BY DEF OnceAndLocked
  <2>2. \A u \in Callers : Knows(u)
    BY DEF CallsKnow
  <2> QED
    BY <2>1, <2>2 DEF Once, IsAt, Knows, OfJobs, PublishedIsStored, Handling, Locked
<1> QED
  BY <1>1, <1>2, <1>3, <1>4, <1>5, <1>6

\* A caller finds its asset absent.
LEMMA FindsAbsent ==
  ASSUME SharedInv, NEW t \in Callers, OthersStay(t),
         Place' \in [Callers -> Places],
         Place[t] = "fetch", Place'[t] = "put", Aim'[t] = Aim[t], Aim[t] \notin store,
         UNCHANGED <<store, view, registered, lock, events, stale, broken>>
  PROVE  SharedInv'
<1> USE DiscoveryAssumption DEF SharedInv, SharedTyped, OthersStay
<1>1. SharedTyped'
  BY DEF Places
<1>2. CallsKnow'
  <2> SUFFICES ASSUME NEW u \in Callers PROVE Knows(u)'
    BY DEF CallsKnow
  <2>1. Knows(u) /\ Knows(t)
    BY DEF CallsKnow
  <2> QED
    BY <2>1 DEF Knows, Locked, Handling
<1>3. PublishedIsStored'
  BY DEF PublishedIsStored, Handling
<1>4. NoneForgotten'
  BY DEF NoneForgotten, Handled, Handling
<1>5. RowsFollow'
  <2> SUFFICES ASSUME registered, NEW a \in store \ view PROVE Row(a)'
    BY DEF RowsFollow
  <2>1. Row(a)
    BY DEF RowsFollow
  <2> QED
    BY <2>1, RowStays DEF IsAt, Handling
<1>6. OnceAndLocked'
  <2> SUFFICES ASSUME NEW a \in Assets, OfJobs(a) PROVE Once(a)'
    BY DEF OnceAndLocked, OfJobs
  <2>1. Once(a)
    BY DEF OnceAndLocked
  <2>2. \A u \in Callers : Knows(u)
    BY DEF CallsKnow
  <2> QED
    BY <2>1, <2>2 DEF Once, IsAt, Knows, OfJobs, PublishedIsStored, Handling, Locked
<1> QED
  BY <1>1, <1>2, <1>3, <1>4, <1>5, <1>6

\* A caller stores its asset.
LEMMA Stores ==
  ASSUME SharedInv, NEW t \in Callers, OthersStay(t),
         Place' \in [Callers -> Places],
         Place[t] = "put", Place'[t] = "ensure", Aim'[t] = Aim[t],
         store' = store \cup {Aim[t]},
         UNCHANGED <<view, registered, lock, events, stale, broken>>
  PROVE  SharedInv'
<1> USE DiscoveryAssumption DEF SharedInv, SharedTyped, OthersStay
<1>0. Aim[t] \in Assets
  BY DEF CallsKnow, Knows, Locked
<1>1. SharedTyped'
  BY <1>0 DEF Places
<1>2. CallsKnow'
  <2> SUFFICES ASSUME NEW u \in Callers PROVE Knows(u)'
    BY DEF CallsKnow
  <2>1. Knows(u) /\ Knows(t)
    BY DEF CallsKnow
  <2> QED
    BY <2>1 DEF Knows, Locked, Handling
<1>3. PublishedIsStored'
  BY DEF PublishedIsStored, Handling
<1>4. NoneForgotten'
  BY DEF NoneForgotten, Handled, Handling
<1>5. RowsFollow'
  <2> SUFFICES ASSUME registered, NEW a \in store' \ view PROVE Row(a)'
    BY DEF RowsFollow
  <2>1. CASE a = Aim[t]
    BY <2>1 DEF Row, Handled, Handling
  <2>2. CASE a # Aim[t]
    <3>1. Row(a)
      BY <2>2 DEF RowsFollow
    <3> QED
      BY <3>1, RowStays DEF IsAt, Handling
  <2> QED
    BY <2>1, <2>2
<1>6. OnceAndLocked'
  <2> SUFFICES ASSUME NEW a \in Assets, OfJobs(a) PROVE Once(a)'
    BY DEF OnceAndLocked, OfJobs
  <2>1. Once(a)
    BY DEF OnceAndLocked
  <2>2. \A u \in Callers : Knows(u)
    BY DEF CallsKnow
  <2>3. (events[a] <= 1)'
    BY <2>1 DEF Once
  <2>4. (\A u \in Callers : IsAt(u, a, {"put"}) => a \notin store)'
    BY <2>1, <2>2 DEF Once, IsAt, Knows, OfJobs, Locked
  <2>5. (\A u \in Callers : IsAt(u, a, Handling) => events[a] = 0)'
    BY <2>1, <2>2 DEF Once, IsAt, Knows, Handling, PublishedIsStored
  <2>6. (\A u, v \in Callers : IsAt(u, a, Handling) /\ IsAt(v, a, Handling) => u = v)'
    BY <2>1, <2>2 DEF Once, IsAt, Knows, Handling
  <2> QED
    BY <2>3, <2>4, <2>5, <2>6 DEF Once
<1> QED
  BY <1>1, <1>2, <1>3, <1>4, <1>5, <1>6

\* A caller registers the views, to rebuild them if they were not.
LEMMA Registers ==
  ASSUME SharedInv, NEW t \in Callers, OthersStay(t),
         Place' \in [Callers -> Places],
         Place[t] = "ensure", Place'[t] = (IF registered THEN "apply" ELSE "rebuild"), Aim'[t] = Aim[t],
         registered' = TRUE,
         UNCHANGED <<store, view, lock, events, stale, broken>>
  PROVE  SharedInv'
<1> USE DiscoveryAssumption DEF SharedInv, SharedTyped, OthersStay
<1>1. SharedTyped'
  BY DEF Places
<1>2. CallsKnow'
  <2> SUFFICES ASSUME NEW u \in Callers PROVE Knows(u)'
    BY DEF CallsKnow
  <2>1. Knows(u) /\ Knows(t)
    BY DEF CallsKnow
  <2> QED
    BY <2>1 DEF Knows, Locked, Handling
<1>3. PublishedIsStored'
  BY DEF PublishedIsStored, Handling
<1>4. NoneForgotten'
  BY DEF NoneForgotten, Handled, Handling
<1>5. RowsFollow'
  <2>1. CASE registered
    <3> SUFFICES ASSUME NEW a \in store \ view PROVE Row(a)'
      BY DEF RowsFollow
    <3>1. Row(a)
      BY <2>1 DEF RowsFollow
    <3> QED
      BY <2>1, <3>1, RowStays DEF IsAt, Handling
  <2>2. CASE ~registered
    BY <2>2 DEF RowsFollow, Row
  <2> QED
    BY <2>1, <2>2
<1>6. OnceAndLocked'
  <2> SUFFICES ASSUME NEW a \in Assets, OfJobs(a) PROVE Once(a)'
    BY DEF OnceAndLocked, OfJobs
  <2>1. Once(a)
    BY DEF OnceAndLocked
  <2>2. \A u \in Callers : Knows(u)
    BY DEF CallsKnow
  <2> QED
    BY <2>1, <2>2 DEF Once, IsAt, Knows, OfJobs, PublishedIsStored, Handling, Locked
<1> QED
  BY <1>1, <1>2, <1>3, <1>4, <1>5, <1>6

\* A caller rebuilds the views.
LEMMA Rebuilds ==
  ASSUME SharedInv, NEW t \in Callers, OthersStay(t),
         Place' \in [Callers -> Places],
         Place[t] = "rebuild", Place'[t] = "apply", Aim'[t] = Aim[t],
         view' = store, stale' = {},
         UNCHANGED <<store, registered, lock, events, broken>>
  PROVE  SharedInv'
<1> USE DiscoveryAssumption DEF SharedInv, SharedTyped, OthersStay
<1>1. SharedTyped'
  BY DEF Places
<1>2. CallsKnow'
  <2> SUFFICES ASSUME NEW u \in Callers PROVE Knows(u)'
    BY DEF CallsKnow
  <2>1. Knows(u) /\ Knows(t)
    BY DEF CallsKnow
  <2> QED
    BY <2>1 DEF Knows, Locked, Handling
<1>3. PublishedIsStored'
  BY DEF PublishedIsStored, Handling
<1>4. NoneForgotten'
  BY DEF NoneForgotten, Handled, Handling
<1>5. RowsFollow'
  BY DEF RowsFollow, Handled, Handling
<1>6. OnceAndLocked'
  <2> SUFFICES ASSUME NEW a \in Assets, OfJobs(a) PROVE Once(a)'
    BY DEF OnceAndLocked, OfJobs
  <2>1. Once(a)
    BY DEF OnceAndLocked
  <2>2. \A u \in Callers : Knows(u)
    BY DEF CallsKnow
  <2>3. (events[a] <= 1)'
    BY <2>1 DEF Once
  <2>4. (\A u \in Callers : IsAt(u, a, {"put"}) => a \notin store)'
    BY <2>1, <2>2 DEF Once, IsAt, Knows, OfJobs, Locked
  <2>5. (\A u \in Callers : IsAt(u, a, Handling) => events[a] = 0)'
    BY <2>1, <2>2 DEF Once, IsAt, Knows, Handling, PublishedIsStored
  <2>6. (\A u, v \in Callers : IsAt(u, a, Handling) /\ IsAt(v, a, Handling) => u = v)'
    BY <2>1, <2>2 DEF Once, IsAt, Knows, Handling
  <2> QED
    BY <2>3, <2>4, <2>5, <2>6 DEF Once
<1> QED
  BY <1>1, <1>2, <1>3, <1>4, <1>5, <1>6

\* A caller writes the row of its asset, and leaves the lock.
LEMMA Applies ==
  ASSUME SharedInv, NEW t \in Callers, OthersStay(t),
         Place' \in [Callers -> Places],
         Place[t] = "apply", Place'[t] = "publish", Aim'[t] = Aim[t],
         view' = view \cup {Aim[t]}, stale' = stale \ {Aim[t]},
         lock' = lock \/ (lock = t /\ lock' = "free"),
         UNCHANGED <<store, registered, events, broken>>
  PROVE  SharedInv'
<1> USE DiscoveryAssumption DEF SharedInv, SharedTyped, OthersStay
<1>0. Aim[t] \in Assets
  BY DEF CallsKnow, Knows, Locked
<1>1. SharedTyped'
  BY <1>0 DEF Places, CallsKnow, Knows, Handling
<1>2. CallsKnow'
  <2> SUFFICES ASSUME NEW u \in Callers PROVE Knows(u)'
    BY DEF CallsKnow
  <2>1. Knows(u) /\ Knows(t)
    BY DEF CallsKnow
  <2> QED
    BY <2>1 DEF Knows, Locked, Handling
<1>3. PublishedIsStored'
  BY DEF PublishedIsStored, Handling
<1>4. NoneForgotten'
  BY DEF NoneForgotten, Handled, Handling
<1>5. RowsFollow'
  <2> SUFFICES ASSUME registered, NEW a \in store \ view' PROVE Row(a)'
    BY DEF RowsFollow
  <2>1. Row(a) /\ a # Aim[t]
    BY DEF RowsFollow
  <2>2. CASE a \in stale
    BY <2>1, <2>2 DEF Row
  <2>3. CASE Handled(a)
    BY <2>1, <2>3 DEF Row, Handled
  <2>4. CASE \E u \in Callers : Place[u] \in {"rebuild", "query"}
    BY <2>4 DEF Row
  <2> QED
    BY <2>1, <2>2, <2>3, <2>4 DEF Row
<1>6. OnceAndLocked'
  <2> SUFFICES ASSUME NEW a \in Assets, OfJobs(a) PROVE Once(a)'
    BY DEF OnceAndLocked, OfJobs
  <2>1. Once(a)
    BY DEF OnceAndLocked
  <2>2. \A u \in Callers : Knows(u)
    BY DEF CallsKnow
  <2>3. (events[a] <= 1)'
    BY <2>1 DEF Once
  <2>4. (\A u \in Callers : IsAt(u, a, {"put"}) => a \notin store)'
    BY <2>1, <2>2 DEF Once, IsAt, Knows, OfJobs, Locked
  <2>5. (\A u \in Callers : IsAt(u, a, Handling) => events[a] = 0)'
    BY <2>1, <2>2 DEF Once, IsAt, Knows, Handling, PublishedIsStored
  <2>6. (\A u, v \in Callers : IsAt(u, a, Handling) /\ IsAt(v, a, Handling) => u = v)'
    BY <2>1, <2>2 DEF Once, IsAt, Knows, Handling
  <2> QED
    BY <2>3, <2>4, <2>5, <2>6 DEF Once
<1> QED
  BY <1>1, <1>2, <1>3, <1>4, <1>5, <1>6

\* A caller publishes its asset.
LEMMA Publishes ==
  ASSUME SharedInv, NEW t \in Callers, OthersStay(t),
         Place' \in [Callers -> Places], Place[t] = "publish",
         Place'[t] = "idle" \/ (Place'[t] = "next" /\ t \notin Direct),
         events' = [events EXCEPT ![Aim[t]] = @ + 1],
         UNCHANGED <<store, view, registered, lock, stale, broken>>
  PROVE  SharedInv'
<1> USE DiscoveryAssumption DEF SharedInv, SharedTyped, OthersStay
<1>0. Aim[t] \in Assets
  BY DEF CallsKnow, Knows
<1>1. SharedTyped'
  BY <1>0 DEF Places
<1>2. CallsKnow'
  <2> SUFFICES ASSUME NEW u \in Callers PROVE Knows(u)'
    BY DEF CallsKnow
  <2>1. Knows(u) /\ Knows(t)
    BY DEF CallsKnow
  <2> QED
    BY <2>1 DEF Knows, Locked, Handling
<1>3. PublishedIsStored'
  BY <1>0 DEF PublishedIsStored, Handling, CallsKnow, Knows
<1>4. NoneForgotten'
  BY DEF NoneForgotten, Handled, Handling
<1>5. RowsFollow'
  <2> SUFFICES ASSUME registered, NEW a \in store \ view PROVE Row(a)'
    BY DEF RowsFollow
  <2>1. Row(a)
    BY DEF RowsFollow
  <2>2. Aim[t] \in view
    BY DEF CallsKnow, Knows
  <2> QED
    BY <2>1, <2>2, RowStays DEF IsAt, Handling
<1>6. OnceAndLocked'
  <2> SUFFICES ASSUME NEW a \in Assets, OfJobs(a) PROVE Once(a)'
    BY DEF OnceAndLocked, OfJobs
  <2>1. Once(a)
    BY DEF OnceAndLocked
  <2>2. \A u \in Callers : Knows(u)
    BY DEF CallsKnow
  <2>3. (events[a] <= 1)'
    BY <1>0, <2>1 DEF Once, IsAt, Handling
  <2>4. (\A u \in Callers : IsAt(u, a, {"put"}) => a \notin store)'
    BY <2>1, <2>2 DEF Once, IsAt, Knows, OfJobs, Locked
  <2>5. (\A u \in Callers : IsAt(u, a, Handling) => events[a] = 0)'
    BY <1>0, <2>1, <2>2 DEF Once, IsAt, Knows, Handling
  <2>6. (\A u, v \in Callers : IsAt(u, a, Handling) /\ IsAt(v, a, Handling) => u = v)'
    BY <2>1, <2>2 DEF Once, IsAt, Knows, Handling
  <2> QED
    BY <2>3, <2>4, <2>5, <2>6 DEF Once
<1> QED
  BY <1>1, <1>2, <1>3, <1>4, <1>5, <1>6

\* A query registers the views.
LEMMA AsksFirst ==
  ASSUME SharedInv, NEW t \in Callers, OthersStay(t),
         Place' \in [Callers -> Places], t \notin Direct,
         Place[t] = "idle", Place'[t] = "query",
         ~registered, registered' = TRUE,
         UNCHANGED <<store, view, lock, events, stale, broken>>
  PROVE  SharedInv'
<1> USE DiscoveryAssumption DEF SharedInv, SharedTyped, OthersStay
<1>1. SharedTyped'
  BY DEF Places
<1>2. CallsKnow'
  <2> SUFFICES ASSUME NEW u \in Callers PROVE Knows(u)'
    BY DEF CallsKnow
  <2>1. Knows(u) /\ Knows(t)
    BY DEF CallsKnow
  <2> QED
    BY <2>1 DEF Knows, Locked, Handling
<1>3. PublishedIsStored'
  BY DEF PublishedIsStored, Handling
<1>4. NoneForgotten'
  BY DEF NoneForgotten, Handled, Handling
<1>5. RowsFollow'
  BY DEF RowsFollow, Row
<1>6. OnceAndLocked'
  <2> SUFFICES ASSUME NEW a \in Assets, OfJobs(a) PROVE Once(a)'
    BY DEF OnceAndLocked, OfJobs
  <2>1. Once(a)
    BY DEF OnceAndLocked
  <2>2. \A u \in Callers : Knows(u)
    BY DEF CallsKnow
  <2> QED
    BY <2>1, <2>2 DEF Once, IsAt, Knows, OfJobs, PublishedIsStored, Handling, Locked
<1> QED
  BY <1>1, <1>2, <1>3, <1>4, <1>5, <1>6

\* A query rebuilds the views.
LEMMA Answers ==
  ASSUME SharedInv, NEW t \in Callers, OthersStay(t),
         Place' \in [Callers -> Places],
         Place[t] = "query", Place'[t] = "idle",
         view' = store, stale' = {},
         UNCHANGED <<store, registered, lock, events, broken>>
  PROVE  SharedInv'
<1> USE DiscoveryAssumption DEF SharedInv, SharedTyped, OthersStay
<1>1. SharedTyped'
  BY DEF Places
<1>2. CallsKnow'
  <2> SUFFICES ASSUME NEW u \in Callers PROVE Knows(u)'
    BY DEF CallsKnow
  <2>1. Knows(u) /\ Knows(t)
    BY DEF CallsKnow
  <2> QED
    BY <2>1 DEF Knows, Locked, Handling
<1>3. PublishedIsStored'
  BY DEF PublishedIsStored, Handling
<1>4. NoneForgotten'
  BY DEF NoneForgotten, Handled, Handling
<1>5. RowsFollow'
  BY DEF RowsFollow, Handled, Handling
<1>6. OnceAndLocked'
  <2> SUFFICES ASSUME NEW a \in Assets, OfJobs(a) PROVE Once(a)'
    BY DEF OnceAndLocked, OfJobs
  <2>1. Once(a)
    BY DEF OnceAndLocked
  <2>2. \A u \in Callers : Knows(u)
    BY DEF CallsKnow
  <2> QED
    BY <2>1, <2>2 DEF Once, IsAt, Knows, OfJobs, PublishedIsStored, Handling, Locked
<1> QED
  BY <1>1, <1>2, <1>3, <1>4, <1>5, <1>6

\* An access fails once the asset is stored, or in a query.
LEMMA BreaksOff ==
  ASSUME SharedInv, NEW t \in Callers, OthersStay(t),
         Place' \in [Callers -> Places], Place[t] \in {"ensure", "rebuild", "apply", "query"},
         Place'[t] = "idle",
         broken \subseteq broken', Place[t] # "query" => Aim[t] \in broken',
         stale \subseteq stale', Place[t] \in {"rebuild", "query"} => store \ view \subseteq stale',
         Place[t] \in {"ensure", "apply"} => Aim[t] \in view \cup stale',
         lock' = lock \/ (lock = t /\ lock' = "free"),
         UNCHANGED <<store, view, registered, events>>
  PROVE  SharedInv'
<1> USE DiscoveryAssumption DEF SharedInv, SharedTyped, OthersStay
<1>1. SharedTyped'
  BY DEF Places
<1>2. CallsKnow'
  <2> SUFFICES ASSUME NEW u \in Callers PROVE Knows(u)'
    BY DEF CallsKnow
  <2>1. Knows(u) /\ Knows(t)
    BY DEF CallsKnow
  <2> QED
    BY <2>1 DEF Knows, Locked, Handling
<1>3. PublishedIsStored'
  BY DEF PublishedIsStored, Handling
<1>4. NoneForgotten'
  BY DEF NoneForgotten, Handled, Handling
<1>5. RowsFollow'
  <2> SUFFICES ASSUME registered, NEW a \in store \ view PROVE Row(a)'
    BY DEF RowsFollow
  <2>1. Row(a)
    BY DEF RowsFollow
  <2>2. CASE Place[t] \in {"rebuild", "query"}
    BY <2>2 DEF Row
  <2>3. CASE Place[t] \notin {"rebuild", "query"} /\ Aim[t] = a
    BY <2>3 DEF Row
  <2>4. CASE Place[t] \notin {"rebuild", "query"} /\ Aim[t] # a
    BY <2>1, <2>4, RowStays DEF IsAt
  <2> QED
    BY <2>2, <2>3, <2>4
<1>6. OnceAndLocked'
  <2> SUFFICES ASSUME NEW a \in Assets, OfJobs(a) PROVE Once(a)'
    BY DEF OnceAndLocked, OfJobs
  <2>1. Once(a)
    BY DEF OnceAndLocked
  <2>2. \A u \in Callers : Knows(u)
    BY DEF CallsKnow
  <2> QED
    BY <2>1, <2>2 DEF Once, IsAt, Knows, OfJobs, PublishedIsStored, Handling, Locked
<1> QED
  BY <1>1, <1>2, <1>3, <1>4, <1>5, <1>6

\* The process dies, and its calls with it.
LEMMA Dies ==
  ASSUME SharedInv, Place' = [t \in Callers |-> "idle"],
         registered' = FALSE, lock' = "free",
         broken \subseteq broken', \A t \in Callers : Place[t] \in Handling => Aim[t] \in broken',
         UNCHANGED <<store, view, events, stale>>
  PROVE  SharedInv'
<1> USE DEF SharedInv, SharedTyped
<1>1. SharedTyped'
  BY DEF Places
<1>2. CallsKnow'
  BY DEF CallsKnow, Knows, Locked, Handling
<1>3. PublishedIsStored'
  BY DEF PublishedIsStored
<1>4. NoneForgotten'
  BY DEF NoneForgotten, Handled
<1>5. RowsFollow'
  BY DEF RowsFollow
<1>6. OnceAndLocked'
  BY DEF OnceAndLocked, OfJobs, Once, IsAt, Handling
<1> QED
  BY <1>1, <1>2, <1>3, <1>4, <1>5, <1>6

-----------------------------------------------------------------------------
(* The actions of AssetDiscovery, by those steps. *)

\* The types of what the callers do not share.
RestTyped ==
    /\ job \in [Jobs -> {"none", "working"}]
    /\ runs \in [Jobs -> 0..MaxRuns]
    /\ queue \in Seq([job: Jobs, state: {"succeeded", "failed"}])
    /\ future \in [Jobs -> {"none", "pending", "succeeded", "failed", "lost"}]
    /\ stale \subseteq Assets /\ broken \subseteq Assets
    /\ discoveries \in 0..MaxRuns
    /\ failures \in 0..MaxFailures
    /\ crashes \in 0..MaxCrashes

\* TypeOK in its parts.
LEMMA TypesByPart ==
  /\ TypeOK => task \in [Callers -> Task] /\ RestTyped
  /\ task \in [Callers -> Task] /\ RestTyped /\ SharedTyped => TypeOK
BY DEF TypeOK, Task, Places, RestTyped, SharedTyped

\* A step of one caller keeps the invariant when it keeps its parts.
LEMMA Concludes ==
  ASSUME HasOutput, NEW t \in Callers, task' \in [Callers -> Task],
         \A u \in Callers \ {t} : task'[u] = task[u],
         task'[t].pc \in Locked \cup {"publish"} => task'[t].left # <<>>,
         RestTyped', SharedInv'
  PROVE  IInv'
<1>1. TypeOK'
  BY DEF TypeOK, Task, Places, RestTyped, SharedInv, SharedTyped
<1>2. HasOutput'
  BY DEF HasOutput
<1> QED
  BY <1>1, <1>2 DEF IInv

\* What a step of one caller is to the state functions.
LEMMA Links ==
  ASSUME TypeOK, NEW t \in Callers, task' \in [Callers -> Task],
         \A u \in Callers \ {t} : task'[u] = task[u]
  PROVE  /\ OthersStay(t) /\ Place' \in [Callers -> Places]
         /\ Place[t] = task[t].pc /\ Place'[t] = task'[t].pc
         /\ Aim[t] = Asset(t) /\ Aim'[t] = Head(task'[t].left)
BY DEF Place, Aim, Asset, OthersStay, Task

\* What the callers share is as it was, if none of them did a step.
LEMMA UnchangedKeeps ==
  ASSUME SharedInv, UNCHANGED <<store, view, registered, lock, task, events, stale, broken>>
  PROVE  SharedInv'
<1>1. Place' = Place /\ Aim' = Aim
  BY DEF Place, Aim, Asset
<1> QED
  BY <1>1 DEF SharedInv, SharedTyped, CallsKnow, Knows, PublishedIsStored, NoneForgotten, Handled,
              RowsFollow, Row, OnceAndLocked, OfJobs, Once, IsAt

\* A completed job is taken from the mailbox.
LEMMA CompleteKeeps ==
  ASSUME IInv, Complete
  PROVE  IInv'
<1> USE DEF IInv
<1> USE DiscoveryAssumption
<1>0. /\ Supervisor \in Callers /\ Supervisor \notin Direct
      /\ Head(queue) \in [job: Jobs, state: {"succeeded", "failed"}]
      /\ Tail(queue) \in Seq([job: Jobs, state: {"succeeded", "failed"}])
  <2> DEFINE Results == [job: Jobs, state: {"succeeded", "failed"}]
  <2>1. queue \in Seq(Results) /\ queue # <<>>
    BY DEF Complete, TypeOK
  <2> HIDE DEF Results
  <2>2. Head(queue) \in Results /\ Tail(queue) \in Seq(Results)
    BY <2>1
  <2>3. Supervisor \in Callers /\ Supervisor \notin Direct
    BY DEF Callers
  <2> QED
    BY <2>2, <2>3 DEF Results
<1>2. RestTyped'
  BY <1>0 DEF RestTyped, TypeOK, Complete, database, history
<1>4. CASE Head(queue).state = "failed"
  <2>1. UNCHANGED <<database, lock, task, events, history>>
    BY <1>4 DEF Complete
  <2>2. task \in [Callers -> Task]
    BY TypesByPart
  <2>3. SharedInv' /\ HasOutput'
    BY <2>1, UnchangedKeeps, <2>2 DEF HasOutput, database, history
  <2> QED
    BY <2>1, <2>2, <2>3, <1>2, <1>0, Concludes DEF HasOutput
<1>5. CASE Head(queue).state # "failed"
  <2> DEFINE x == [pc |-> "next", job |-> Head(queue).job, left |-> Output[Head(queue).job]]
  <2>1. x \in Task /\ x.pc = "next"
    BY <1>0 DEF Task, Places, Outputs
  <2>2. Becomes(Supervisor, x)
    BY <1>5 DEF Complete
  <2> HIDE DEF x
  <2>3. /\ task' \in [Callers -> Task] /\ task'[Supervisor].pc = "next"
        /\ \A u \in Callers \ {Supervisor} : task'[u] = task[u]
    BY <1>0, <2>1, <2>2, Moves
  <2>4. task[Supervisor].pc = "idle"
    BY NoTaskTyped DEF Complete
  <2>5. SharedInv'
    BY <1>0, <2>3, <2>4, Links, Leaves DEF Complete, Handling, database, history
  <2> QED
    BY <1>0, <1>2, <2>3, <2>5, Concludes DEF Locked
<1> QED
  BY <1>4, <1>5

\* A synchronous caller has the outputs of its provider.
LEMMA RunKeeps ==
  ASSUME IInv, NEW t \in Callers, NEW j \in Jobs, Run(t, j)
  PROVE  IInv'
<1> USE DEF IInv
<1> USE DiscoveryAssumption
<1> DEFINE x == [pc |-> "next", job |-> "none", left |-> Output[j]]
<1>4. x \in Task /\ x.pc = "next"
  BY DEF Task, Places, Outputs
<1>5. Becomes(t, x)
  BY DEF Run
<1> HIDE DEF x
<1>1. /\ task' \in [Callers -> Task] /\ task'[t].pc = "next"
      /\ \A u \in Callers \ {t} : task'[u] = task[u]
  BY <1>4, <1>5, Moves
<1>2. RestTyped'
  BY DEF RestTyped, TypeOK, Run, Starts, database, history
<1>6. task[t].pc = "idle" /\ t \notin Direct
  BY NoTaskTyped DEF Run
<1>3. SharedInv'
  BY <1>1, <1>6, Links, Leaves DEF Run, Handling, database, history
<1> QED
  BY <1>1, <1>2, <1>3, Concludes DEF Locked

\* A direct caller begins to discover its asset.
LEMMA DiscoverKeeps ==
  ASSUME IInv, NEW t \in Callers, Discover(t)
  PROVE  IInv'
<1> USE DEF IInv
<1> USE DiscoveryAssumption
<1> DEFINE x == [pc |-> "fetch", job |-> "none", left |-> <<DirectAsset>>]
<1>4. x \in Task /\ x.pc = "fetch" /\ x.left # <<>> /\ Head(x.left) = DirectAsset
  BY DEF Task, Places, Outputs
<1>5. Becomes(t, x)
  BY DEF Discover
<1> HIDE DEF x
<1>1. /\ task' \in [Callers -> Task] /\ task'[t] = x
      /\ \A u \in Callers \ {t} : task'[u] = task[u]
  BY <1>4, <1>5, Moves
<1>2. RestTyped'
  BY DEF RestTyped, TypeOK, Discover, database, work
<1>6. task[t].pc = "idle" /\ t \in Direct
  BY NoTaskTyped DEF Discover
<1>3. SharedInv'
  BY <1>1, <1>4, <1>6, Links, Begins DEF Discover, database
<1> QED
  BY <1>1, <1>2, <1>3, <1>4, Concludes

\* The next output is at hand, or the job is over.
LEMMA NextOutputKeeps ==
  ASSUME IInv, NEW t \in Callers, NextOutput(t)
  PROVE  IInv'
<1> USE DEF IInv
<1>6. task[t].pc = "next" /\ t \notin Direct
  BY DEF NextOutput, At, SharedInv, CallsKnow, Knows, Place
<1>4. CASE \/ task[t].left = <<>> /\ Finishes(t, "succeeded") /\ UNCHANGED lock
           \/ task[t].left # <<>> /\ Asset(t) = Invalid /\ Finishes(t, "failed") /\ UNCHANGED lock
  <2>1. /\ task' \in [Callers -> Task] /\ task'[t].pc = "idle"
        /\ \A u \in Callers \ {t} : task'[u] = task[u]
        /\ future' \in [Jobs -> {"none", "pending", "succeeded", "failed", "lost"}]
    BY <1>4, FinishesTo
  <2>2. RestTyped'
    BY <2>1 DEF RestTyped, TypeOK, NextOutput, work, history
  <2>3. SharedInv'
    BY <2>1, <1>4, <1>6, Links, Leaves DEF NextOutput, Handling, database, history
  <2> QED
    BY <2>1, <2>2, <2>3, Concludes DEF Locked
<1>5. CASE /\ task[t].left # <<>> /\ Asset(t) # Invalid
           /\ lock = "free" /\ lock' = t
           /\ Goes(t, "fetch")
           /\ UNCHANGED future
  <2>1. /\ task' \in [Callers -> Task] /\ task'[t].pc = "fetch" /\ task'[t].left = task[t].left
        /\ \A u \in Callers \ {t} : task'[u] = task[u]
    BY <1>5, GoesTo DEF Places
  <2>2. RestTyped'
    BY <1>5 DEF RestTyped, TypeOK, NextOutput, work, history
  <2>3. Asset(t) \in Assets
    <3>1. task[t].left \in Seq(Outputs)
      BY DEF TypeOK
    <3> QED
      BY <1>5, <3>1 DEF Asset, Outputs
  <2>4. SharedInv'
    BY <2>1, <2>3, <1>5, <1>6, Links, TakesLock DEF NextOutput, Asset, database, history
  <2> QED
    BY <1>5, <2>1, <2>2, <2>4, Concludes
<1> QED
  BY <1>4, <1>5 DEF NextOutput

\* The store is asked for the asset.
LEMMA FetchKeeps ==
  ASSUME IInv, NEW t \in Callers, Fetch(t)
  PROVE  IInv'
<1> USE DEF IInv
<1>0. task[t].left # <<>>
  BY DEF HasOutput, Locked, At, Fetch
<1>2. RestTyped'
  BY DEF RestTyped, TypeOK, Fetch, work, history
<1>4. CASE Asset(t) \in store
  <2>1. /\ task' \in [Callers -> Task]
        /\ task'[t].pc = IF t \in Direct THEN "idle" ELSE "next"
        /\ \A u \in Callers \ {t} : task'[u] = task[u]
    BY <1>0, <1>4, ProceedsTo DEF Fetch
  <2>2. SharedInv'
    BY <2>1, <1>4, Links, Leaves DEF Fetch, At, Unlocked, Handling, database, history
  <2> QED
    BY <1>2, <2>1, <2>2, Concludes DEF Locked
<1>5. CASE Asset(t) \notin store
  <2>1. /\ task' \in [Callers -> Task] /\ task'[t].pc = "put" /\ task'[t].left = task[t].left
        /\ \A u \in Callers \ {t} : task'[u] = task[u]
    BY <1>5, GoesTo DEF Fetch, Places
  <2>2. SharedInv'
    BY <2>1, <1>5, Links, FindsAbsent DEF Fetch, At, Asset, database, history
  <2> QED
    BY <1>0, <1>2, <2>1, <2>2, Concludes
<1> QED
  BY <1>4, <1>5

\* The asset is stored.
LEMMA PutKeeps ==
  ASSUME IInv, NEW t \in Callers, Put(t)
  PROVE  IInv'
<1> USE DEF IInv
<1>0. task[t].left # <<>>
  BY DEF HasOutput, Locked, At, Put
<1>1. /\ task' \in [Callers -> Task] /\ task'[t].pc = "ensure" /\ task'[t].left = task[t].left
      /\ \A u \in Callers \ {t} : task'[u] = task[u]
  BY GoesTo DEF Put, Places
<1>2. RestTyped'
  BY DEF RestTyped, TypeOK, Put, work, history
<1>3. SharedInv'
  BY <1>1, Links, Stores DEF Put, At, Asset, history
<1> QED
  BY <1>0, <1>1, <1>2, <1>3, Concludes DEF Locked

\* The views are registered.
LEMMA EnsureKeeps ==
  ASSUME IInv, NEW t \in Callers, EnsureViews(t)
  PROVE  IInv'
<1> USE DEF IInv
<1>0. task[t].left # <<>>
  BY DEF HasOutput, Locked, At, EnsureViews
<1>1. /\ task' \in [Callers -> Task] /\ task'[t].left = task[t].left
      /\ task'[t].pc = (IF registered THEN "apply" ELSE "rebuild")
      /\ \A u \in Callers \ {t} : task'[u] = task[u]
  <2>1. CASE registered
    BY <2>1, GoesTo DEF EnsureViews, Places
  <2>2. CASE ~registered
    BY <2>2, GoesTo DEF EnsureViews, Places
  <2> QED
    BY <2>1, <2>2
<1>2. RestTyped'
  BY DEF RestTyped, TypeOK, EnsureViews, work, history
<1>3. SharedInv'
  BY <1>1, Links, Registers DEF EnsureViews, At, Asset, history
<1> QED
  BY <1>0, <1>1, <1>2, <1>3, Concludes DEF Locked

\* The views are rebuilt.
LEMMA RebuildKeeps ==
  ASSUME IInv, NEW t \in Callers, Rebuild(t)
  PROVE  IInv'
<1> USE DEF IInv
<1>0. task[t].left # <<>>
  BY DEF HasOutput, Locked, At, Rebuild
<1>1. /\ task' \in [Callers -> Task] /\ task'[t].pc = "apply" /\ task'[t].left = task[t].left
      /\ \A u \in Callers \ {t} : task'[u] = task[u]
  BY GoesTo DEF Rebuild, Places
<1>2. RestTyped'
  BY DEF RestTyped, TypeOK, Rebuild, work
<1>3. SharedInv'
  BY <1>1, Links, Rebuilds DEF Rebuild, At, Asset
<1> QED
  BY <1>0, <1>1, <1>2, <1>3, Concludes DEF Locked

\* The row of the asset is written.
LEMMA ApplyKeeps ==
  ASSUME IInv, NEW t \in Callers, Apply(t)
  PROVE  IInv'
<1> USE DEF IInv
<1>0. task[t].left # <<>>
  BY DEF HasOutput, Locked, At, Apply
<1>1. /\ task' \in [Callers -> Task] /\ task'[t].pc = "publish" /\ task'[t].left = task[t].left
      /\ \A u \in Callers \ {t} : task'[u] = task[u]
  BY GoesTo DEF Apply, Places
<1>2. RestTyped'
  BY DEF RestTyped, TypeOK, Apply, work
<1>3. SharedInv'
  BY <1>1, Links, Applies DEF Apply, At, Asset, Unlocked
<1> QED
  BY <1>0, <1>1, <1>2, <1>3, Concludes DEF Locked

\* The asset is published.
LEMMA PublishKeeps ==
  ASSUME IInv, NEW t \in Callers, Publish(t)
  PROVE  IInv'
<1> USE DEF IInv
<1>0. task[t].left # <<>>
  BY DEF HasOutput, Locked, At, Publish
<1>1. /\ task' \in [Callers -> Task]
      /\ task'[t].pc = IF t \in Direct THEN "idle" ELSE "next"
      /\ \A u \in Callers \ {t} : task'[u] = task[u]
  BY <1>0, ProceedsTo DEF Publish
<1>2. RestTyped'
  BY DEF RestTyped, TypeOK, Publish, work, history
<1>3. SharedInv'
  BY <1>1, Links, Publishes DEF Publish, At, Asset, database, history
<1> QED
  BY <1>1, <1>2, <1>3, Concludes DEF Locked

\* The asset is published, and a subscriber fails.
LEMMA SubscriberFailsKeeps ==
  ASSUME IInv, NEW t \in Callers, SubscriberFails(t)
  PROVE  IInv'
<1> USE DEF IInv
<1>1. /\ task' \in [Callers -> Task] /\ task'[t].pc = "idle"
      /\ \A u \in Callers \ {t} : task'[u] = task[u]
      /\ future' \in [Jobs -> {"none", "pending", "succeeded", "failed", "lost"}]
  BY FinishesTo DEF SubscriberFails
<1>2. RestTyped'
  BY <1>1, DiscoveryAssumption DEF RestTyped, TypeOK, SubscriberFails, work, history
<1>3. SharedInv'
  BY <1>1, Links, Publishes DEF SubscriberFails, At, Asset, database, history
<1> QED
  BY <1>1, <1>2, <1>3, Concludes DEF Locked

\* A query registers the views.
LEMMA QueryKeeps ==
  ASSUME IInv, NEW t \in Callers, Query(t)
  PROVE  IInv'
<1> USE DEF IInv
<1>1. /\ task' \in [Callers -> Task] /\ task'[t].pc = "query" /\ task'[t].left = task[t].left
      /\ \A u \in Callers \ {t} : task'[u] = task[u]
  BY GoesTo DEF Query, Places
<1>2. RestTyped'
  BY DEF RestTyped, TypeOK, Query, work, history
<1>4. task[t].pc = "idle" /\ t \notin Direct
  BY NoTaskTyped, DiscoveryAssumption DEF Query
<1>3. SharedInv'
  BY <1>1, <1>4, Links, AsksFirst DEF Query, history
<1> QED
  BY <1>1, <1>2, <1>3, Concludes DEF Locked

\* A query rebuilds the views.
LEMMA QueryRebuildKeeps ==
  ASSUME IInv, NEW t \in Callers, QueryRebuild(t)
  PROVE  IInv'
<1> USE DEF IInv
<1>1. /\ task' \in [Callers -> Task] /\ task'[t].pc = "idle"
      /\ \A u \in Callers \ {t} : task'[u] = task[u]
  BY NoTaskTyped, Moves DEF QueryRebuild
<1>2. RestTyped'
  BY DEF RestTyped, TypeOK, QueryRebuild, work
<1>3. SharedInv'
  BY <1>1, Links, Answers DEF QueryRebuild, At
<1> QED
  BY <1>1, <1>2, <1>3, Concludes DEF Locked

\* An access of the database fails.
LEMMA AccessFailsKeeps ==
  ASSUME IInv, NEW t \in Callers, AccessFails(t)
  PROVE  IInv'
<1> USE DEF IInv
<1>1. /\ task' \in [Callers -> Task] /\ task'[t].pc = "idle"
      /\ \A u \in Callers \ {t} : task'[u] = task[u]
      /\ future' \in [Jobs -> {"none", "pending", "succeeded", "failed", "lost"}]
  BY FinishesTo DEF AccessFails
<1>4. /\ task[t].pc \in Locked => Asset(t) \in Assets
      /\ store \subseteq Assets
  BY DEF SharedInv, SharedTyped, CallsKnow, Knows, Place, Aim
<1>5. stale' \subseteq Assets /\ broken' \subseteq Assets
  BY <1>4 DEF AccessFails, TypeOK, Locked, At
<1>2. RestTyped'
  BY <1>1, <1>5, DiscoveryAssumption DEF RestTyped, TypeOK, AccessFails, work
<1>6. CASE task[t].pc \in {"fetch", "put"}
  <2>1. stale' = stale /\ broken' = broken
    BY <1>6 DEF AccessFails, At
  <2>2. SharedInv'
    BY <1>1, <1>6, <2>1, Links, Leaves DEF AccessFails, Unlocked, Handling, database
  <2> QED
    BY <1>1, <1>2, <2>2, Concludes DEF Locked
<1>7. CASE task[t].pc \notin {"fetch", "put"}
  <2>1. /\ task[t].pc \in {"ensure", "rebuild", "apply", "query"}
        /\ broken \subseteq broken' /\ (task[t].pc # "query" => Asset(t) \in broken')
        /\ stale \subseteq stale'
        /\ task[t].pc \in {"rebuild", "query"} => store \ view \subseteq stale'
        /\ task[t].pc \in {"ensure", "apply"} => Asset(t) \in view \cup stale'
    BY <1>7 DEF AccessFails, At
  <2>2. SharedInv'
    BY <1>1, <2>1, Links, BreaksOff DEF AccessFails, Unlocked, database
  <2> QED
    BY <1>1, <1>2, <2>2, Concludes DEF Locked
<1> QED
  BY <1>6, <1>7

\* The process dies.
LEMMA CrashKeeps ==
  ASSUME IInv, Crash
  PROVE  IInv'
<1> USE DEF IInv
<1>1. \A t \in Callers : task[t].pc \in Handling => Asset(t) \in Assets
  BY DEF SharedInv, CallsKnow, Knows, Place, Aim, Locked, Handling
<1>2. broken \subseteq broken' /\ \A t \in Callers : task[t].pc \in Handling => Asset(t) \in broken'
  BY DEF Crash, Handling
<1>3. broken' \subseteq Assets
  BY <1>1 DEF Crash, TypeOK, Handling
<1>4. \A t \in Callers : task'[t] = NoTask
  BY DEF Crash
<1>5. task' \in [Callers -> Task]
  BY NoTaskTyped DEF Crash
<1>6. Place' = [t \in Callers |-> "idle"]
  BY <1>4, NoTaskTyped DEF Place
<1>7. SharedInv'
  BY <1>2, <1>6, Dies DEF Crash, Place, Aim
<1>8. RestTyped'
  BY <1>3, DiscoveryAssumption DEF Crash, TypeOK, RestTyped
<1>9. HasOutput'
  BY <1>4, NoTaskTyped DEF HasOutput, Locked
<1> QED
  BY <1>5, <1>7, <1>8, <1>9 DEF TypeOK, Task, Places, RestTyped, SharedInv, SharedTyped

\* A job starts, or its worker ends: the callers do not see it.
LEMMA JobsKeep ==
  ASSUME IInv, NEW j \in Jobs, Dispatch(j) \/ Invoke(j) \/ InvokeUnidentified(j)
  PROVE  IInv'
<1> USE DEF IInv
<1>1. UNCHANGED <<store, view, registered, lock, task, events, stale, broken, discoveries, failures, crashes>>
  BY DEF Dispatch, Invoke, InvokeUnidentified, database, history
<1>2. SharedInv'
  BY <1>1, UnchangedKeeps
<1>3. /\ job' \in [Jobs -> {"none", "working"}]
      /\ future' \in [Jobs -> {"none", "pending", "succeeded", "failed", "lost"}]
  BY DEF Dispatch, Invoke, InvokeUnidentified, TypeOK
<1>6. runs' \in [Jobs -> 0..MaxRuns]
  <2>1. runs' = runs \/ Starts(j)
    BY DEF Dispatch, Invoke, InvokeUnidentified
  <2>2. runs[j] \in 0..MaxRuns /\ runs \in [Jobs -> 0..MaxRuns] /\ MaxRuns \in Nat
    BY DiscoveryAssumption DEF TypeOK
  <2>3. CASE Starts(j)
    <3>1. runs[j] + 1 \in 0..MaxRuns
      BY <2>2, <2>3 DEF Starts
    <3> QED
      BY <2>2, <2>3, <3>1 DEF Starts
  <2> QED
    BY <2>1, <2>2, <2>3
<1>4. queue' \in Seq([job: Jobs, state: {"succeeded", "failed"}])
  <2> DEFINE Results == [job: Jobs, state: {"succeeded", "failed"}]
  <2>1. queue \in Seq(Results)
    BY DEF TypeOK
  <2>2. queue' = queue \/ \E x \in Results : queue' = Append(queue, x)
    BY DEF Dispatch, Invoke, InvokeUnidentified
  <2> HIDE DEF Results
  <2>3. queue' \in Seq(Results)
    BY <2>1, <2>2
  <2> QED
    BY <2>3 DEF Results
<1>5. HasOutput'
  BY <1>1 DEF HasOutput
<1> QED
  BY <1>1, <1>2, <1>3, <1>4, <1>5, <1>6 DEF TypeOK

-----------------------------------------------------------------------------
(* The invariant, and what follows from it. *)

\* The invariant holds of an empty database and no call.
LEMMA InitInv == Init => IInv
<1> SUFFICES ASSUME Init PROVE IInv
  OBVIOUS
<1>1. task \in [Callers -> Task] /\ \A t \in Callers : task[t] = NoTask
  BY NoTaskTyped DEF Init
<1>2. RestTyped
  BY DiscoveryAssumption DEF Init, RestTyped
<1>3. \A t \in Callers : Place[t] = "idle"
  BY <1>1, NoTaskTyped DEF Place
<1>4. Place \in [Callers -> Places]
  BY <1>1 DEF Place, Task
<1>5. SharedTyped
  BY <1>4 DEF Init, SharedTyped
<1>6. SharedInv
  BY <1>3, <1>5 DEF Init, SharedInv, CallsKnow, Knows, PublishedIsStored, NoneForgotten, RowsFollow,
                    OnceAndLocked, Once, IsAt, Locked, Handling
<1>7. HasOutput
  BY <1>1, NoTaskTyped DEF HasOutput, Locked
<1> QED
  BY <1>1, <1>2, <1>5, <1>6, <1>7, TypesByPart DEF IInv

\* Every step keeps the invariant.
LEMMA StepInv == IInv /\ [Next]_vars => IInv'
<1> SUFFICES ASSUME IInv, [Next]_vars PROVE IInv'
  OBVIOUS
<1>1. CASE \E j \in Jobs : Dispatch(j) \/ Invoke(j) \/ InvokeUnidentified(j)
  BY <1>1, JobsKeep
<1>2. CASE Complete
  BY <1>2, CompleteKeeps
<1>3. CASE \E t \in Callers : Steps(t)
  BY <1>3, NextOutputKeeps, FetchKeeps, PutKeeps, EnsureKeeps, RebuildKeeps, ApplyKeeps, PublishKeeps,
     QueryRebuildKeeps, SubscriberFailsKeeps, AccessFailsKeeps DEF Steps
<1>4. CASE \E t \in Callers : Discover(t) \/ Query(t) \/ (\E j \in Jobs : Run(t, j))
  BY <1>4, DiscoverKeeps, QueryKeeps, RunKeeps
<1>5. CASE Crash
  BY <1>5, CrashKeeps
<1>6. CASE UNCHANGED vars
  <2>1. SharedInv'
    BY <1>6, UnchangedKeeps DEF IInv, vars, database, history
  <2> QED
    BY <1>6, <2>1 DEF IInv, TypeOK, HasOutput, vars, database, work, history
<1> QED
  BY <1>1, <1>2, <1>3, <1>4, <1>5, <1>6 DEF Next

\* The invariant holds of every behaviour.
LEMMA Invariance == Spec => []IInv
BY InitInv, StepInv, PTL DEF Spec

\* The database, the calls and the jobs keep their types (assets.lisp,
\* provider-actor.lisp).
THEOREM TypeCorrect == Spec => []TypeOK
<1>1. IInv => TypeOK
  BY DEF IInv
<1> QED
  BY <1>1, Invariance, PTL

\* An asset is stored, viewed and published in that order by DISCOVER-ASSET,
\* and left unpublished only by a failure or a crash.
THEOREM EventsFollow == Spec => []EventsFollowStore
<1>1. NoneForgotten => UnpublishedIsBroken
  BY DEF NoneForgotten, UnpublishedIsBroken, Handled, Handles, Place, Aim, Handling
<1>2. IInv => EventsFollowStore
  BY <1>1 DEF IInv, SharedInv, EventsFollowStore
<1> QED
  BY <1>2, Invariance, PTL

\* The registered views have the row of every stored asset, but for one that
\* a caller, a rebuild or a failure stands in for.
THEOREM RowsFollowStore == Spec => []ViewsFollow
<1>1. RowsFollow => ViewsFollow
  <2> SUFFICES ASSUME RowsFollow, registered, NEW a \in store \ view
               PROVE  \/ a \in stale
                      \/ \E t \in Callers : Handles(t, a) \/ task[t].pc \in {"rebuild", "query"}
    BY DEF ViewsFollow
  <2>1. Row(a)
    BY DEF RowsFollow
  <2> QED
    BY <2>1 DEF Row, Handled, Handles, Place, Aim, Handling
<1>2. IInv => ViewsFollow
  BY <1>1 DEF IInv, SharedInv
<1> QED
  BY <1>2, Invariance, PTL

\* An asset that only jobs discover is published at most once: the lock is
\* held from the look-up to the row (providers.lisp, *PROVIDER-PERSISTENCE-LOCK*).
THEOREM JobsPublishOnce == Spec => []PublishedOnce
<1>1. OnceAndLocked => PublishedOnce
  BY DEF OnceAndLocked, OfJobs, Once, PublishedOnce
<1>2. IInv => PublishedOnce
  BY <1>1 DEF IInv, SharedInv
<1> QED
  BY <1>2, Invariance, PTL
=============================================================================
