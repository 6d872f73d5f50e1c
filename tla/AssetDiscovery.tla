--------------------------- MODULE AssetDiscovery ---------------------------
(***************************************************************************)
(* How assets enter the operation database of hackmode-core: DISCOVER-ASSET *)
(* (assets.lisp), the investigation views it maintains                     *)
(* (investigation-views.lisp), the provider jobs whose outputs it persists *)
(* (providers.lisp), and the supervisor actor that fans the jobs out and   *)
(* serialises their persistence (provider-actor.lisp).                     *)
(*                                                                         *)
(* Callers of three kinds run at the same time: the supervisor, which      *)
(* takes one completed job after the other; synchronous callers of         *)
(* RUN-CAPABILITY; and direct callers of DISCOVER-ASSET, who do not take   *)
(* the persistence lock.  Each access of the database is a step and may    *)
(* fail; the process may die.  An asset is named by its deterministic id;  *)
(* the views by type and by tag are kept alike, and stand as one.          *)
(***************************************************************************)
EXTENDS Integers, Sequences

CONSTANTS Assets,      \* assets, by their deterministic id
          Jobs,        \* provider jobs, by capability and input
          Output,      \* job -> what its provider returns
          Direct,      \* callers of DISCOVER-ASSET
          DirectAsset, \* the asset they discover
          Synchronous, \* callers of RUN-CAPABILITY
          MaxRuns,     \* bound: runs of a job, and direct discoveries
          MaxFailures, \* bound: accesses of the database that fail
          MaxCrashes   \* bound: crashes

\* What a provider may return that VALIDATE-PROVIDER-OUTPUT refuses.
Invalid == "invalid"

Supervisor == "supervisor"

Callers == Direct \cup Synchronous \cup {Supervisor}

ASSUME DiscoveryAssumption ==
    /\ Invalid \notin Assets
    /\ Output \in [Jobs -> Seq(Assets \cup {Invalid})]
    /\ DirectAsset \in Assets
    /\ Supervisor \notin Direct \cup Synchronous /\ "free" \notin Synchronous
    /\ Direct \cap Synchronous = {}
    /\ MaxRuns \in Nat /\ MaxFailures \in Nat /\ MaxCrashes \in Nat

VARIABLES store,      \* the assets of the canonical store
          view,       \* the assets the materialized views have rows for
          registered, \* whether the views are registered in the open database
          lock,       \* who holds *provider-persistence-lock*
          task,       \* caller -> the outputs it has yet to persist, and where it is
          job,        \* job -> its worker, if one runs
          runs,       \* job -> how often it was started
          queue,      \* the supervisor's mailbox
          future,     \* job -> the future of its last dispatch
          events,     \* asset -> :DISCOVERED events published
          stale,      \* history: assets whose view maintenance failed
          broken,     \* history: assets whose discovery was broken off once stored
          discoveries, failures, crashes

database == <<store, view, registered>>
work == <<job, runs, queue>>
history == <<stale, broken, discoveries>>
vars == <<database, lock, task, work, future, events, history, failures, crashes>>

Outputs == Assets \cup {Invalid}

NoTask == [pc |-> "idle", job |-> "none", left |-> <<>>]

TypeOK ==
    /\ store \subseteq Assets
    /\ view \subseteq store
    /\ registered \in BOOLEAN
    /\ lock \in {"free"} \cup Synchronous \cup {Supervisor}
    /\ task \in [Callers -> [pc: {"idle", "next", "fetch", "put", "ensure", "rebuild", "apply", "publish",
                                  "query"},
                             job: Jobs \cup {"none"}, left: Seq(Outputs)]]
    /\ job \in [Jobs -> {"none", "working"}]
    /\ runs \in [Jobs -> 0..MaxRuns]
    /\ queue \in Seq([job: Jobs, state: {"succeeded", "failed"}])
    /\ future \in [Jobs -> {"none", "pending", "succeeded", "failed", "lost"}]
    /\ events \in [Assets -> Nat]
    /\ stale \subseteq Assets /\ broken \subseteq Assets
    /\ discoveries \in 0..MaxRuns
    /\ failures \in 0..MaxFailures
    /\ crashes \in 0..MaxCrashes

Init ==
    /\ store = {} /\ view = {} /\ registered = FALSE
    /\ lock = "free"
    /\ task = [t \in Callers |-> NoTask]
    /\ job = [j \in Jobs |-> "none"]
    /\ runs = [j \in Jobs |-> 0]
    /\ queue = <<>>
    /\ future = [j \in Jobs |-> "none"]
    /\ events = [a \in Assets |-> 0]
    /\ stale = {} /\ broken = {}
    /\ discoveries = 0 /\ failures = 0 /\ crashes = 0

-----------------------------------------------------------------------------
(* Jobs: DISPATCH-CAPABILITY, the worker actor and the supervisor's mailbox. *)

Starts(j) == runs[j] < MaxRuns /\ runs' = [runs EXCEPT ![j] = @ + 1]

\* :RUN makes a worker of its own for the job.
Dispatch(j) ==
    /\ job[j] = "none"
    /\ future[j] # "pending"
    /\ Starts(j)
    /\ job' = [job EXCEPT ![j] = "working"]
    /\ future' = [future EXCEPT ![j] = "pending"]
    /\ UNCHANGED <<database, lock, task, queue, events, history, failures, crashes>>

\* INVOKE-PROVIDER in the worker: the provider returns, or its error is caught.
Invoke(j) ==
    /\ job[j] = "working"
    /\ job' = [job EXCEPT ![j] = "none"]
    /\ \E state \in {"succeeded", "failed"} : queue' = Append(queue, [job |-> j, state |-> state])
    /\ UNCHANGED <<database, lock, task, runs, future, events, history, failures, crashes>>

\* The job's id is computed outside of the HANDLER-CASE: an input that has no
\* deterministic id ends the message, and nobody completes the job.
InvokeUnidentified(j) ==
    /\ job[j] = "working"
    /\ job' = [job EXCEPT ![j] = "none"]
    /\ future' = [future EXCEPT ![j] = "lost"]
    /\ UNCHANGED <<database, lock, task, runs, queue, events, history, failures, crashes>>

Becomes(t, state) == task' = [task EXCEPT ![t] = state]

\* :COMPLETE
Complete ==
    /\ task[Supervisor] = NoTask
    /\ queue # <<>>
    /\ queue' = Tail(queue)
    /\ LET done == Head(queue)
       IN  IF done.state = "failed"
           THEN future' = [future EXCEPT ![done.job] = "failed"] /\ UNCHANGED task
           ELSE /\ Becomes(Supervisor, [pc |-> "next", job |-> done.job, left |-> Output[done.job]])
                /\ UNCHANGED future
    /\ UNCHANGED <<database, lock, job, runs, events, history, failures, crashes>>

\* RUN-CAPABILITY, whose provider has returned.
Run(t, j) ==
    /\ t \in Synchronous
    /\ task[t] = NoTask
    /\ Starts(j)
    /\ Becomes(t, [pc |-> "next", job |-> "none", left |-> Output[j]])
    /\ UNCHANGED <<database, lock, job, queue, future, events, history, failures, crashes>>

\* DISCOVER-ASSET outside of any job.
Discover(t) ==
    /\ t \in Direct
    /\ task[t] = NoTask
    /\ discoveries < MaxRuns
    /\ discoveries' = discoveries + 1
    /\ Becomes(t, [pc |-> "fetch", job |-> "none", left |-> <<DirectAsset>>])
    /\ UNCHANGED <<database, lock, work, future, events, stale, broken, failures, crashes>>

-----------------------------------------------------------------------------
(* PERSIST-PROVIDER-OUTPUT, and DISCOVER-ASSET for one asset of it. *)

Asset(t) == Head(task[t].left)

At(t, pc) == task[t].pc = pc

Goes(t, pc) == Becomes(t, [task[t] EXCEPT !.pc = pc])

\* The caller is done with the asset, and goes on to the next output.
Proceeds(t) ==
    Becomes(t, IF t \in Direct THEN NoTask ELSE [task[t] EXCEPT !.pc = "next", !.left = Tail(@)])

\* FINALIZE-PROVIDER-INVOCATION has its result; the supervisor answers.
Finishes(t, result) ==
    /\ Becomes(t, NoTask)
    /\ future' = IF t = Supervisor THEN [future EXCEPT ![task[t].job] = result] ELSE future

Unlocked(t) == IF lock = t THEN "free" ELSE lock

\* Mutant of NextOutput: the lock is not waited for.
NextOutputUnlocked(t) ==
    /\ At(t, "next")
    /\ \/ task[t].left = <<>> /\ Finishes(t, "succeeded") /\ UNCHANGED lock
       \/ task[t].left # <<>> /\ Asset(t) = Invalid /\ Finishes(t, "failed") /\ UNCHANGED lock
       \/ /\ task[t].left # <<>> /\ Asset(t) # Invalid
          /\ lock' = t
          /\ Goes(t, "fetch")
          /\ UNCHANGED future
    /\ UNCHANGED <<database, work, events, history, failures, crashes>>

\* The next output is validated and the lock taken, or the job is over.
NextOutput(t) ==
    /\ At(t, "next")
    /\ \/ task[t].left = <<>> /\ Finishes(t, "succeeded") /\ UNCHANGED lock
       \/ task[t].left # <<>> /\ Asset(t) = Invalid /\ Finishes(t, "failed") /\ UNCHANGED lock
       \/ /\ task[t].left # <<>> /\ Asset(t) # Invalid
          /\ lock = "free" /\ lock' = t
          /\ Goes(t, "fetch")
          /\ UNCHANGED future
    /\ UNCHANGED <<database, work, events, history, failures, crashes>>

\* Mutant of Fetch: the views are maintained for an asset nobody stored.
FetchSkipsPut(t) ==
    /\ At(t, "fetch")
    /\ IF Asset(t) \in store
       THEN Proceeds(t) /\ lock' = Unlocked(t)
       ELSE Goes(t, "ensure") /\ UNCHANGED lock
    /\ UNCHANGED <<database, work, future, events, history, failures, crashes>>

\* An asset that exists is not stored again.
Fetch(t) ==
    /\ At(t, "fetch")
    /\ IF Asset(t) \in store
       THEN Proceeds(t) /\ lock' = Unlocked(t)
       ELSE Goes(t, "put") /\ UNCHANGED lock
    /\ UNCHANGED <<database, work, future, events, history, failures, crashes>>

Put(t) ==
    /\ At(t, "put")
    /\ store' = store \cup {Asset(t)}
    /\ Goes(t, "ensure")
    /\ UNCHANGED <<view, registered, lock, work, future, events, history, failures, crashes>>

\* Mutant of EnsureViews: a view is registered and not rebuilt.
EnsureViewsOnly(t) ==
    /\ At(t, "ensure")
    /\ registered' = TRUE
    /\ Goes(t, "apply")
    /\ UNCHANGED <<store, view, lock, work, future, events, history, failures, crashes>>

\* ENSURE-INVESTIGATION-VIEWS: a view that was not registered is, and rebuilt.
EnsureViews(t) ==
    /\ At(t, "ensure")
    /\ registered' = TRUE
    /\ Goes(t, IF registered THEN "apply" ELSE "rebuild")
    /\ UNCHANGED <<store, view, lock, work, future, events, history, failures, crashes>>

Rebuild(t) ==
    /\ At(t, "rebuild")
    /\ view' = store
    /\ stale' = {}
    /\ Goes(t, "apply")
    /\ UNCHANGED <<store, registered, lock, work, future, events, broken, discoveries, failures, crashes>>

\* Mutant of Apply: the event is forgotten.
ApplyUnpublished(t) ==
    /\ At(t, "apply")
    /\ view' = view \cup {Asset(t)}
    /\ stale' = stale \ {Asset(t)}
    /\ lock' = Unlocked(t)
    /\ Proceeds(t)
    /\ UNCHANGED <<store, registered, work, future, events, broken, discoveries, failures, crashes>>

\* MAINTAIN-INVESTIGATION-ASSET-VIEWS ends, and DISCOVER-ASSET leaves the lock.
Apply(t) ==
    /\ At(t, "apply")
    /\ view' = view \cup {Asset(t)}
    /\ stale' = stale \ {Asset(t)}
    /\ lock' = Unlocked(t)
    /\ Goes(t, "publish")
    /\ UNCHANGED <<store, registered, work, future, events, broken, discoveries, failures, crashes>>

Publish(t) ==
    /\ At(t, "publish")
    /\ events' = [events EXCEPT ![Asset(t)] = @ + 1]
    /\ Proceeds(t)
    /\ UNCHANGED <<database, lock, work, future, history, failures, crashes>>

\* A subscriber's error: the event was published, the rest of the job is not
\* persisted.
SubscriberFails(t) ==
    /\ At(t, "publish")
    /\ failures < MaxFailures
    /\ failures' = failures + 1
    /\ events' = [events EXCEPT ![Asset(t)] = @ + 1]
    /\ Finishes(t, "failed")
    /\ UNCHANGED <<database, lock, work, history, crashes>>

\* A query by type: INVESTIGATION-VIEW-ROWS registers the views if need be.
Query(t) ==
    /\ t \in Synchronous
    /\ task[t] = NoTask
    /\ ~registered
    /\ registered' = TRUE
    /\ Goes(t, "query")
    /\ UNCHANGED <<store, view, lock, work, future, events, history, failures, crashes>>

QueryRebuild(t) ==
    /\ At(t, "query")
    /\ view' = store
    /\ stale' = {}
    /\ Becomes(t, NoTask)
    /\ UNCHANGED <<store, registered, lock, work, future, events, broken, discoveries, failures, crashes>>

\* Mutant of AccessFails: the error leaves the lock behind.
AccessFailsLocked(t) ==
    /\ task[t].pc \in {"fetch", "put", "ensure", "rebuild", "apply", "query"}
    /\ failures < MaxFailures
    /\ failures' = failures + 1
    /\ stale' = CASE At(t, "rebuild") \/ At(t, "query") -> stale \cup (store \ view)
                  [] task[t].pc \in {"ensure", "apply"} /\ Asset(t) \notin view -> stale \cup {Asset(t)}
                  [] OTHER -> stale
    /\ broken' = IF task[t].pc \in {"ensure", "rebuild", "apply"} THEN broken \cup {Asset(t)} ELSE broken
    /\ Finishes(t, "failed")
    /\ UNCHANGED <<database, lock, work, events, discoveries, crashes>>

\* An access of the database fails.  What is stored stays stored, a view that
\* is registered stays so, and the lock is left; the job fails.
AccessFails(t) ==
    /\ task[t].pc \in {"fetch", "put", "ensure", "rebuild", "apply", "query"}
    /\ failures < MaxFailures
    /\ failures' = failures + 1
    /\ stale' = CASE At(t, "rebuild") \/ At(t, "query") -> stale \cup (store \ view)
                  [] task[t].pc \in {"ensure", "apply"} /\ Asset(t) \notin view -> stale \cup {Asset(t)}
                  [] OTHER -> stale
    /\ broken' = IF task[t].pc \in {"ensure", "rebuild", "apply"} THEN broken \cup {Asset(t)} ELSE broken
    /\ lock' = Unlocked(t)
    /\ Finishes(t, "failed")
    /\ UNCHANGED <<database, work, events, discoveries, crashes>>

\* The process dies: the database and the rows of its views stay.  The next
\* process registers the views anew.
Crash ==
    /\ crashes < MaxCrashes
    /\ crashes' = crashes + 1
    /\ broken' = broken \cup {Asset(t) : t \in {u \in Callers :
                                  task[u].pc \in {"ensure", "rebuild", "apply", "publish"}}}
    /\ registered' = FALSE
    /\ lock' = "free"
    /\ task' = [t \in Callers |-> NoTask]
    /\ job' = [j \in Jobs |-> "none"]
    /\ queue' = <<>>
    /\ future' = [j \in Jobs |-> "none"]
    /\ UNCHANGED <<store, view, runs, events, stale, discoveries, failures>>

-----------------------------------------------------------------------------
Steps(t) ==
    \/ NextOutput(t) \/ Fetch(t) \/ Put(t) \/ EnsureViews(t) \/ Rebuild(t) \/ Apply(t) \/ Publish(t)
    \/ QueryRebuild(t) \/ SubscriberFails(t) \/ AccessFails(t)

Next ==
    \/ \E j \in Jobs : Dispatch(j) \/ Invoke(j) \/ InvokeUnidentified(j)
    \/ Complete
    \/ \E t \in Callers : Steps(t) \/ Discover(t) \/ Query(t) \/ (\E j \in Jobs : Run(t, j))
    \/ Crash

Spec == Init /\ [][Next]_vars

\* Providers return, and threads run.
FairSpec ==
    /\ Spec
    /\ \A j \in Jobs : WF_vars(Invoke(j) \/ InvokeUnidentified(j))
    /\ WF_vars(Complete)
    /\ \A t \in Callers : WF_vars(Steps(t))

-----------------------------------------------------------------------------
(* Properties. *)

\* assets.lisp:185, "subscribers never observe an asset absent from canonical
\* local state": nor absent from the views.
PublishedIsStored == \A a \in Assets : events[a] > 0 => a \in store /\ a \in view

Handles(t, a) == task[t].pc \in {"ensure", "rebuild", "apply", "publish"} /\ Asset(t) = a

\* The views of an open database have a row for every stored asset, but for
\* one a caller is maintaining them for, or a rebuild or a failure stands in.
ViewsFollow ==
    registered => \A a \in store \ view :
        \/ a \in stale
        \/ \E t \in Callers : Handles(t, a) \/ task[t].pc \in {"rebuild", "query"}

\* An asset that only jobs discover is published at most once: whoever runs
\* them, whatever fails, and however often the process dies.
PublishedOnce ==
    \A a \in Assets : (a = DirectAsset => Direct = {}) => events[a] <= 1

\* A stored asset was published or will be by its caller, unless a failure or
\* a crash came between: then it is never published, as it exists.
UnpublishedIsBroken ==
    \A a \in store : events[a] > 0 \/ a \in broken \/ \E t \in Callers : Handles(t, a)

\* assets.lisp:181-200: an asset is stored, viewed and published together, in
\* that order, unless a failure or a crash cuts the row short.
EventsFollowStore == PublishedIsStored /\ UnpublishedIsBroken

\* The future of a dispatched job is resolved, unless the job has no identity.
FuturesResolve == \A j \in Jobs : future[j] = "pending" ~> future[j] # "pending"
=============================================================================
