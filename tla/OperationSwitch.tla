-------------------------- MODULE OperationSwitch --------------------------
(***************************************************************************)
(* The operations of hackmode-core (operations.lisp) and who works in them *)
(* while the user changes from one to the other: callers of                *)
(* RECORD-RECON-ASSET, who look at *db* once, and the provider supervisor, *)
(* which keeps the database it was started with.                           *)
(*                                                                         *)
(* USE-OPERATION is one step for each thing it changes; it may fail where  *)
(* it makes directories and where it opens the store.  A database object   *)
(* (a handle) is closed once and for all; an access through a closed one   *)
(* signals.  Stores, directories and the registry outlive the process.     *)
(* Assets arrive without an operation, by their deterministic id.  Paths   *)
(* are absolute.  What AssetDiscovery has of a discovery (the views, the   *)
(* event, the lock) is left out here, as is the work of the provider.      *)
(***************************************************************************)
EXTENDS Integers, Sequences, FiniteSets

CONSTANTS Operations,  \* names of operations
          NoOperation, \* NIL
          Dirs,        \* directories
          NoDir,
          Launch,      \* where the process starts
          Assets,
          NoAsset,
          Recorders,   \* threads that call RECORD-RECON-ASSET
          Supervisor,  \* the provider supervisor actor
          MaxCreates,  \* bound: calls of NEW-OPERATION
          MaxUses,     \* bound: calls of USE-OPERATION
          MaxFailures, \* bound: calls of USE-OPERATION that fail
          MaxRestarts  \* bound: restarts of the process

Callers == Recorders \cup {Supervisor}

ASSUME OperationAssumption ==
    /\ NoOperation \notin Operations
    /\ NoDir \notin Dirs
    /\ Launch \in Dirs
    /\ NoAsset \notin Assets
    /\ Supervisor \notin Recorders

VARIABLES registry,   \* operation -> its directory
          cwd,        \* the working directory of the process
          current,    \* *current-operation*
          handles,    \* the database objects, of which the last one is *db*
          open,       \* those that are open
          user,       \* where USE-OPERATION is, and for which operation
          failed,     \* history: the last USE-OPERATION failed
          store,      \* directory -> assets of its store, with their operation
          call,       \* caller -> its DISCOVER-ASSET
          supervisor, \* the handle the supervisor was started with, or 0
          result,     \* asset -> the result of the last job that returned it
          unkept,     \* assets recorded without a store
          creates, uses, failures, restarts

switch == <<cwd, current, handles, open, user, failed>>
work == <<store, call, supervisor, result, unkept>>
bounds == <<creates, uses, failures, restarts>>
vars == <<registry, switch, work, bounds>>

\* *db*
db == Len(handles)

Records == [asset: Assets, operation: Operations \cup {NoOperation}]

NoCall == [step |-> "idle", asset |-> NoAsset, operation |-> NoOperation, handle |-> 0]

Calls == [step: {"check", "bind", "fetch", "put", "views"}, asset: Assets,
          operation: Operations \cup {NoOperation}, handle: 1..db]

Idle == [step |-> "idle", op |-> NoOperation, dir |-> NoDir]

Uses == [step: {"current", "ensure", "close", "new", "open", "chdir"}, op: Operations, dir: Dirs]

TypeOK ==
    /\ registry \in [Operations -> Dirs \cup {NoDir}]
    /\ cwd \in Dirs
    /\ current \in Operations \cup {NoOperation}
    /\ handles \in Seq([op: Operations, dir: Dirs])
    /\ open \subseteq 1..db
    /\ user \in Uses \cup {Idle}
    /\ failed \in BOOLEAN
    /\ store \in [Dirs -> SUBSET Records]
    /\ call \in [Callers -> Calls \cup {NoCall}]
    /\ supervisor \in 0..db
    /\ result \in [Assets -> {"none", "succeeded", "failed"}]
    /\ unkept \subseteq Assets

Init ==
    /\ registry = [o \in Operations |-> NoDir]
    /\ cwd = Launch
    /\ current = NoOperation
    /\ handles = <<>> /\ open = {}
    /\ user = Idle /\ failed = FALSE
    /\ store = [d \in Dirs |-> {}]
    /\ call = [t \in Callers |-> NoCall]
    /\ supervisor = 0
    /\ result = [a \in Assets |-> "none"]
    /\ unkept = {}
    /\ creates = 0 /\ uses = 0 /\ failures = 0 /\ restarts = 0

-----------------------------------------------------------------------------
(* NEW-OPERATION and USE-OPERATION. *)

\* The path is given, or it is the working directory.  An operation of that name
\* may exist, and gets the new path.
NewOperation(o) ==
    /\ creates < MaxCreates
    /\ creates' = creates + 1
    /\ user = Idle
    /\ \E path \in Dirs : registry' = [registry EXCEPT ![o] = path]
    /\ UNCHANGED <<switch, work, uses, failures, restarts>>

\* SELECT-OPERATION; without such an operation nothing has changed yet.
Select(o) ==
    /\ uses < MaxUses
    /\ uses' = uses + 1
    /\ user = Idle
    /\ registry[o] # NoDir
    /\ user' = [step |-> "current", op |-> o, dir |-> registry[o]]
    /\ UNCHANGED <<registry, cwd, current, handles, open, failed, work, creates, failures, restarts>>

UserAt(step) == user.step = step

UserGoes(step) == user' = [user EXCEPT !.step = step]

SetCurrent ==
    /\ UserAt("current")
    /\ current' = user.op
    /\ UserGoes("ensure")
    /\ UNCHANGED <<registry, cwd, handles, open, failed, work, bounds>>

EnsureDirectories ==
    /\ UserAt("ensure")
    /\ UserGoes("close")
    /\ UNCHANGED <<registry, cwd, current, handles, open, failed, work, bounds>>

CloseOld ==
    /\ UserAt("close")
    /\ open' = open \ {db}
    /\ UserGoes("new")
    /\ UNCHANGED <<registry, cwd, current, handles, failed, work, bounds>>

NewDatabase ==
    /\ UserAt("new")
    /\ handles' = Append(handles, [op |-> user.op, dir |-> user.dir])
    /\ UserGoes("open")
    /\ UNCHANGED <<registry, cwd, current, open, failed, work, bounds>>

\* Mutant of OpenDatabase: the store is opened when it is first written.
OpenDatabaseLazily ==
    /\ UserAt("open")
    /\ UserGoes("chdir")
    /\ UNCHANGED <<registry, cwd, current, handles, open, failed, work, bounds>>

\* Mutant of OpenDatabase: the database objects of a path are one.
OpenDatabaseOfPath ==
    /\ UserAt("open")
    /\ open' = open \cup {h \in 1..db : handles[h].dir = user.dir}
    /\ UserGoes("chdir")
    /\ UNCHANGED <<registry, cwd, current, handles, failed, work, bounds>>

OpenDatabase ==
    /\ UserAt("open")
    /\ open' = open \cup {db}
    /\ UserGoes("chdir")
    /\ UNCHANGED <<registry, cwd, current, handles, failed, work, bounds>>

ChangeDirectory ==
    /\ UserAt("chdir")
    /\ cwd' = user.dir
    /\ user' = Idle
    /\ failed' = FALSE
    /\ UNCHANGED <<registry, current, handles, open, work, bounds>>

\* The directories cannot be made, or the store not be opened: what was
\* changed before stays so.
UseFails ==
    /\ UserAt("ensure") \/ UserAt("open")
    /\ failures < MaxFailures
    /\ failures' = failures + 1
    /\ user' = Idle
    /\ failed' = TRUE
    /\ UNCHANGED <<registry, cwd, current, handles, open, work, creates, uses, restarts>>

-----------------------------------------------------------------------------
(* RECORD-RECON-ASSET and the completion of jobs, both by DISCOVER-ASSET. *)

Begins(t, a, handle) ==
    call' = [call EXCEPT ![t] = [step |-> "check", asset |-> a, operation |-> NoOperation,
                                 handle |-> handle]]

\* Mutant of RecordAsset: whether there is a store is not asked.
RecordAssetAnyway(t, a) ==
    /\ call[t] = NoCall
    /\ Begins(t, a, db)
    /\ UNCHANGED <<registry, switch, store, supervisor, result, unkept, bounds>>

\* Without an open store the asset goes to the legacy hook only.
RecordAsset(t, a) ==
    /\ call[t] = NoCall
    /\ \/ db \in open /\ Begins(t, a, db) /\ UNCHANGED unkept
       \/ db \notin open /\ unkept' = unkept \cup {a} /\ UNCHANGED call
    /\ UNCHANGED <<registry, switch, store, supervisor, result, bounds>>

\* START-PROVIDER-SUPERVISOR
StartSupervisor ==
    /\ supervisor = 0
    /\ db \in open
    /\ supervisor' = db
    /\ UNCHANGED <<registry, switch, store, call, result, unkept, bounds>>

\* :COMPLETE, for a job that returned one asset: PERSIST-PROVIDER-OUTPUT.
CompleteJob(a) ==
    /\ supervisor # 0
    /\ call[Supervisor] = NoCall
    /\ \/ supervisor \in open /\ Begins(Supervisor, a, supervisor) /\ UNCHANGED result
       \/ /\ supervisor \notin open
          /\ result' = [result EXCEPT ![a] = "failed"]
          /\ UNCHANGED call
    /\ UNCHANGED <<registry, switch, store, supervisor, unkept, bounds>>

At(t, step) == call[t].step = step

Goes(t, step) == call' = [call EXCEPT ![t].step = step]

IsOpen(t) == call[t].handle \in open

StoreOf(t) == handles[call[t].handle].dir

\* The call is over; the supervisor has the result of its job.
Ends(t, outcome) ==
    /\ call' = [call EXCEPT ![t] = NoCall]
    /\ result' = IF t = Supervisor THEN [result EXCEPT ![call[t].asset] = outcome] ELSE result

CheckOpen(t) ==
    /\ At(t, "check") /\ IsOpen(t)
    /\ Goes(t, "bind")
    /\ UNCHANGED <<registry, switch, store, supervisor, result, unkept, bounds>>

\* BIND-ASSET-OPERATION takes the operation that is current now.
BindOperation(t) ==
    /\ At(t, "bind")
    /\ call' = [call EXCEPT ![t].operation = current, ![t].step = "fetch"]
    /\ UNCHANGED <<registry, switch, store, supervisor, result, unkept, bounds>>

Fetch(t) ==
    /\ At(t, "fetch") /\ IsOpen(t)
    /\ IF \E r \in store[StoreOf(t)] : r.asset = call[t].asset
       THEN Ends(t, "succeeded")
       ELSE Goes(t, "put") /\ UNCHANGED result
    /\ UNCHANGED <<registry, switch, store, supervisor, unkept, bounds>>

Put(t) ==
    /\ At(t, "put") /\ IsOpen(t)
    /\ store' = [store EXCEPT ![StoreOf(t)] =
                    {r \in @ : r.asset # call[t].asset}
                        \cup {[asset |-> call[t].asset, operation |-> call[t].operation]}]
    /\ Goes(t, "views")
    /\ UNCHANGED <<registry, switch, supervisor, result, unkept, bounds>>

MaintainViews(t) ==
    /\ At(t, "views") /\ IsOpen(t)
    /\ Ends(t, "succeeded")
    /\ UNCHANGED <<registry, switch, store, supervisor, unkept, bounds>>

\* The database was closed meanwhile.
ClosedUnderCall(t) ==
    /\ \E step \in {"check", "fetch", "put", "views"} : At(t, step)
    /\ ~IsOpen(t)
    /\ Ends(t, "failed")
    /\ UNCHANGED <<registry, switch, store, supervisor, unkept, bounds>>

\* The process ends and another one starts.
Restart ==
    /\ restarts < MaxRestarts
    /\ restarts' = restarts + 1
    /\ cwd' = Launch /\ current' = NoOperation
    /\ handles' = <<>> /\ open' = {}
    /\ user' = Idle /\ failed' = FALSE
    /\ call' = [t \in Callers |-> NoCall]
    /\ supervisor' = 0
    /\ result' = [a \in Assets |-> "none"]
    /\ unkept' = {}
    /\ UNCHANGED <<registry, store, creates, uses, failures>>

-----------------------------------------------------------------------------
Use ==
    \/ SetCurrent \/ EnsureDirectories \/ CloseOld \/ NewDatabase \/ OpenDatabase
    \/ ChangeDirectory \/ UseFails

Discover(t) ==
    CheckOpen(t) \/ BindOperation(t) \/ Fetch(t) \/ Put(t) \/ MaintainViews(t) \/ ClosedUnderCall(t)

Next ==
    \/ \E o \in Operations : NewOperation(o) \/ Select(o)
    \/ Use
    \/ \E a \in Assets : CompleteJob(a) \/ \E t \in Recorders : RecordAsset(t, a)
    \/ StartSupervisor
    \/ \E t \in Callers : Discover(t)
    \/ Restart

Spec == Init /\ [][Next]_vars

-----------------------------------------------------------------------------
(* Properties. *)

\* The current operation and the open database may be those of two operations:
\* a USE-OPERATION is under way, or the last one failed.
Divided == user # Idle \/ failed

\* database.lisp:31, "The active Hackmode operation database object": outside of
\* a change of operations exactly the database of the current operation is open,
\* and the process is in its directory, whatever has happened before.
InStep ==
    ~Divided => IF current = NoOperation
                THEN open = {} /\ handles = <<>>
                ELSE /\ open = {db}
                     /\ handles[db].op = current
                     /\ handles[db].dir = cwd

\* assets.lisp:141: the operation a caller took for its asset is the one of the
\* store it is about to write, however many changes of operation lie between
\* its look at *db* and now, unless one is under way.
LabelledForStore ==
    ~Divided => \A t \in Callers :
        (At(t, "fetch") \/ At(t, "put")) /\ IsOpen(t) =>
            call[t].operation = handles[call[t].handle].op

\* assets.lisp:202: an asset is recorded without a store only before the first
\* operation or during a change of operations.
KeptInStep == [][unkept' # unkept => Divided \/ current = NoOperation \/ unkept' = {}]_vars

\* providers.lisp:229: a job that succeeded has its asset in the store of the
\* supervisor, even if that was closed while the job was persisted.
SucceededIsStored ==
    \A a \in Assets : result[a] = "succeeded" =>
        \E r \in store[handles[supervisor].dir] : r.asset = a

\* operations.lisp:87-101, assets.lisp:141, providers.lisp:229: operation, open
\* database, the assets written to it and what jobs report of them go together.
OperationsInStep == InStep /\ LabelledForStore /\ SucceededIsStored
=============================================================================
