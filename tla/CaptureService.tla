--------------------------- MODULE CaptureService ---------------------------
(***************************************************************************)
(* One capture service of hackmode-core/capture-provider.lisp, its         *)
(* mitmdump processes, and its two callers: a watcher, which notes each    *)
(* exit of a process some time after it happened, and the operator, who    *)
(* may stop the service.  Neither is in the repository, which has the      *)
(* functions only; NOTE-CAPTURE-PROCESS-EXIT is not told which process     *)
(* ended.  Process identities are numbers in the order of the launches,    *)
(* 0 is NIL.                                                               *)
(*                                                                         *)
(* With Overlaps = FALSE the calls follow one another, but that an exit    *)
(* may be noted out of the stopper, for which the code has :STOPPING; with *)
(* TRUE watcher and operator are two threads.                              *)
(***************************************************************************)
EXTENDS Naturals, FiniteSets

CONSTANTS MaxRestarts,        \* the service's own
          Overlaps,
          MaxDuplicates,      \* bound: exits that are noted again
          MaxStopperFailures  \* bound: stoppers that signal

ASSUME CaptureAssumption ==
    /\ MaxRestarts \in Nat /\ MaxDuplicates \in Nat /\ MaxStopperFailures \in Nat
    /\ Overlaps \in BOOLEAN

VARIABLES state, processId, restarts, failure, \* slots of the service
          launches,   \* processes launched so far
          alive,      \* those that run
          terminated, \* those the stopper was called for, and did not signal
          exits,      \* exits to be noted
          watcher,    \* where NOTE-CAPTURE-PROCESS-EXIT is
          operator,   \* where STOP-CAPTURE-SERVICE is
          target,     \* the process it stops
          duplicates, stopperFailures

slots == <<state, processId, restarts, failure>>
stop == <<operator, target>>
bounds == <<duplicates, stopperFailures>>
vars == <<slots, launches, alive, terminated, exits, watcher, stop, bounds>>

Launched == 1..launches

TypeOK ==
    /\ state \in {"starting", "running", "degraded", "failed", "stopping", "stopped"}
    /\ launches \in 0..MaxRestarts + 1 /\ restarts \in 0..MaxRestarts
    /\ processId \in 0..launches /\ target \in 0..launches
    /\ failure \in {"none", "spawn-failed", "restart-exhausted"}
    /\ alive \subseteq Launched /\ terminated \subseteq Launched /\ exits \subseteq Launched
    /\ watcher \in {"idle", "noted", "launch", "run", "spawned"}
    /\ operator \in {"idle", "stopping", "finish"}
    /\ duplicates \in 0..MaxDuplicates /\ stopperFailures \in 0..MaxStopperFailures

\* START-CAPTURE-SERVICE has returned the service, to its only user so far.
Init ==
    /\ \/ state = "running" /\ processId = 1 /\ launches = 1 /\ failure = "none"
       \/ state = "failed" /\ processId = 0 /\ launches = 0 /\ failure = "spawn-failed"
    /\ alive = 1..launches
    /\ restarts = 0
    /\ terminated = {} /\ exits = {}
    /\ watcher = "idle" /\ operator = "idle" /\ target = 0
    /\ duplicates = 0 /\ stopperFailures = 0

-----------------------------------------------------------------------------
(* The processes, and news of them. *)

Exit(p) ==
    /\ p \in alive
    /\ alive' = alive \ {p} /\ exits' = exits \cup {p}
    /\ UNCHANGED <<slots, launches, terminated, watcher, stop, bounds>>

\* An exit is noted a second time.
Duplicate(p) ==
    /\ p \in Launched \ (alive \cup exits)
    /\ duplicates < MaxDuplicates
    /\ duplicates' = duplicates + 1
    /\ exits' = exits \cup {p}
    /\ UNCHANGED <<slots, launches, alive, terminated, watcher, stop, stopperFailures>>

-----------------------------------------------------------------------------
(* NOTE-CAPTURE-PROCESS-EXIT and LAUNCH-CAPTURE-PROCESS. *)

Noted(p, ignored) ==
    /\ watcher = "idle"
    /\ Overlaps \/ operator # "finish"
    /\ p \in exits
    /\ exits' = exits \ {p}
    /\ watcher' = IF ignored THEN "idle" ELSE "noted"
    /\ UNCHANGED <<slots, launches, alive, terminated, stop, bounds>>

\* Mutant of NoteExit: a stopped service is not considered.
NoteExitUnlessStopping(p) == Noted(p, state = "stopping")

NoteExit(p) == Noted(p, state \in {"stopping", "stopped"})

\* Mutant of Degrade: the budget is one too large.
DegradeOnceMore ==
    /\ watcher = "noted"
    /\ processId' = 0 /\ state' = "degraded"
    /\ restarts' = restarts + 1 /\ watcher' = "launch" /\ UNCHANGED failure
    /\ UNCHANGED <<launches, alive, terminated, exits, stop, bounds>>

Degrade ==
    /\ watcher = "noted"
    /\ processId' = 0
    /\ IF restarts < MaxRestarts
       THEN /\ state' = "degraded" /\ restarts' = restarts + 1
            /\ watcher' = "launch" /\ UNCHANGED failure
       ELSE /\ state' = "failed" /\ failure' = "restart-exhausted"
            /\ watcher' = "idle" /\ UNCHANGED restarts
    /\ UNCHANGED <<launches, alive, terminated, exits, stop, bounds>>

Launch ==
    /\ watcher = "launch"
    /\ state' = "starting" /\ failure' = "none" /\ watcher' = "run"
    /\ UNCHANGED <<processId, restarts, launches, alive, terminated, exits, stop, bounds>>

\* The runner.
Spawn ==
    /\ watcher = "run"
    /\ launches' = launches + 1
    /\ alive' = alive \cup {launches + 1}
    /\ watcher' = "spawned"
    /\ UNCHANGED <<slots, terminated, exits, stop, bounds>>

\* Mutant of SpawnFails: an error of the runner is the watcher's.
SpawnFailsOpenly ==
    /\ watcher = "run"
    /\ watcher' = "idle"
    /\ UNCHANGED <<slots, launches, alive, terminated, exits, stop, bounds>>

SpawnFails ==
    /\ watcher = "run"
    /\ processId' = 0 /\ state' = "failed" /\ failure' = "spawn-failed"
    /\ watcher' = "idle"
    /\ UNCHANGED <<restarts, launches, alive, terminated, exits, stop, bounds>>

Spawned ==
    /\ watcher = "spawned"
    /\ processId' = launches /\ state' = "running"
    /\ watcher' = "idle"
    /\ UNCHANGED <<restarts, failure, launches, alive, terminated, exits, stop, bounds>>

-----------------------------------------------------------------------------
(* STOP-CAPTURE-SERVICE. *)

\* Mutant of Stop: the process identity is dropped before it is used.
StopForgetting ==
    /\ operator = "idle"
    /\ Overlaps \/ watcher = "idle"
    /\ state # "stopped"
    /\ state' = "stopping" /\ operator' = "finish" /\ target' = 0
    /\ UNCHANGED <<processId, restarts, failure, launches, alive, terminated, exits, watcher, bounds>>

Stop ==
    /\ operator = "idle"
    /\ Overlaps \/ watcher = "idle"
    /\ state # "stopped"
    /\ state' = "stopping"
    /\ target' = processId
    /\ operator' = IF processId = 0 THEN "finish" ELSE "stopping"
    /\ UNCHANGED <<processId, restarts, failure, launches, alive, terminated, exits, watcher, bounds>>

Terminate ==
    /\ operator = "stopping"
    /\ \/ terminated' = terminated \cup {target} /\ UNCHANGED stopperFailures
       \/ /\ stopperFailures < MaxStopperFailures
          /\ stopperFailures' = stopperFailures + 1
          /\ UNCHANGED terminated
    /\ operator' = "finish"
    /\ UNCHANGED <<slots, launches, alive, exits, watcher, target, duplicates>>

StopEnds ==
    /\ operator = "finish"
    /\ processId' = 0 /\ state' = "stopped"
    /\ operator' = "idle" /\ target' = 0
    /\ UNCHANGED <<restarts, failure, launches, alive, terminated, exits, watcher, bounds>>

-----------------------------------------------------------------------------
Watch == Degrade \/ Launch \/ Spawn \/ SpawnFails \/ Spawned

Next ==
    \/ \E p \in Launched : Exit(p) \/ Duplicate(p) \/ NoteExit(p)
    \/ Watch
    \/ Stop \/ Terminate \/ StopEnds

\* Exits are noted in the end, and calls that have begun go on.
Fairness ==
    /\ WF_vars(\E p \in Launched : NoteExit(p))
    /\ WF_vars(Watch)
    /\ WF_vars(Terminate \/ StopEnds)

Spec == Init /\ [][Next]_vars /\ Fairness

-----------------------------------------------------------------------------
(* Properties. *)

\* Live processes that the service cannot reach any more and did not terminate.
Orphans ==
    {p \in alive \ (terminated \cup {processId}) : ~(watcher = "spawned" /\ p = launches)}

\* capture-provider.lisp:163-196: the service loses hold of a live process only
\* if an exit was noted twice or a stopper signalled, once for each.
OrphansPaid == Cardinality(Orphans) <= duplicates + stopperFailures

\* capture-provider.lisp:106-107: a service that calls itself running has the
\* process it launched last, and the exit of that, if any, is still to be noted.
RunningIsWatched ==
    state = "running" /\ watcher = "idle" =>
        processId = launches /\ processId \in alive \cup exits

\* capture-provider.lisp:96-115: the service keeps hold of its process.
KeepsHold == OrphansPaid /\ RunningIsWatched

\* capture-provider.lisp:183, "Stop SERVICE explicitly without triggering restart
\* behavior": once stopped, nothing that is noted late launches a process or
\* gives the service another state.
StopIsFinal == [][state = "stopped" => UNCHANGED <<state, launches>>]_vars

\* capture-provider.lisp:172: a running service without a process is not left so.
Recovers ==
    state = "running" /\ processId \notin alive ~>
        state \in {"failed", "stopped"} \/ processId \in alive
=============================================================================
