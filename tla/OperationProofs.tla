-------------------------- MODULE OperationProofs --------------------------
(***************************************************************************)
(* For any operations, directories, assets, recording threads and bounds:  *)
(* OperationSwitch keeps its types, keeps the current operation and the    *)
(* open database in step but during a change of operations, labels an      *)
(* asset for the store it writes, keeps what it records and has what a     *)
(* job reports.                                                            *)
(*                                                                         *)
(* The inductive invariant adds what each step of USE-OPERATION has done   *)
(* already (SwitchProgress), that a call holds an open handle only if it   *)
(* is *db* and took its operation after *current-operation* was set        *)
(* (CallsFollow), and where the supervisor's call stands (JobProgress).    *)
(***************************************************************************)
EXTENDS OperationSwitch, TLAPS

\* At most *db* is open, and USE-OPERATION has done what lies before its step.
SwitchProgress ==
    /\ open \subseteq {db}
    /\ user.step \in {"ensure", "close", "new", "open", "chdir"} => current = user.op
    /\ user.step \in {"new", "open"} => open = {}
    /\ user.step \in {"open", "chdir"} =>
           db > 0 /\ handles[db].op = user.op /\ handles[db].dir = user.dir
    /\ user.step = "chdir" => open = {db}

\* A call on the database that USE-OPERATION has made took its operation.
CallsFollow ==
    /\ user.step = "open" => \A t \in Callers : call[t].handle # db
    /\ (~failed /\ user.step = "idle") \/ user.step = "chdir" =>
           \A t \in Callers : call[t].step \in {"fetch", "put"} /\ call[t].handle \in open =>
               call[t].operation = handles[call[t].handle].op

\* The supervisor's call is on its own database, and has stored its asset when
\* it comes to the views.
JobProgress ==
    /\ call[Supervisor].step # "idle" => call[Supervisor].handle = supervisor
    /\ supervisor = 0 => \A a \in Assets : result[a] # "succeeded"
    /\ call[Supervisor].step = "views" =>
           \E r \in store[handles[supervisor].dir] : r.asset = call[Supervisor].asset

IInv == TypeOK /\ SwitchProgress /\ InStep /\ CallsFollow /\ JobProgress /\ SucceededIsStored

LEMMA InitInv == Init => IInv
<1> SUFFICES ASSUME Init PROVE IInv
  OBVIOUS
<1>1. TypeOK
  <2>1. handles \in Seq([op: Operations, dir: Dirs]) /\ db = 0
    BY DEF Init, db
  <2>2. call \in [Callers -> Calls \cup {NoCall}] /\ user \in Uses \cup {Idle}
    BY DEF Init
  <2>3. store \in [Dirs -> SUBSET Records]
    BY DEF Init
  <2>4. supervisor \in 0..db /\ open \subseteq 1..db
    BY <2>1 DEF Init
  <2>5. failed \in BOOLEAN /\ result \in [Assets -> {"none", "succeeded", "failed"}]
    BY DEF Init
  <2>6. registry \in [Operations -> Dirs \cup {NoDir}]
    BY DEF Init
  <2> QED
    BY <2>1, <2>2, <2>3, <2>4, <2>5, <2>6, OperationAssumption, Zenon DEF Init, TypeOK
<1>2. SwitchProgress /\ InStep /\ CallsFollow /\ JobProgress /\ SucceededIsStored
  BY OperationAssumption
     DEF Init, SwitchProgress, InStep, CallsFollow, JobProgress, SucceededIsStored, Divided, At,
         NoCall, Idle, db, Callers
<1> QED
  BY <1>1, <1>2 DEF IInv

\* The database object that NEW-DATABASE makes is the last one, and the others
\* stay what they are.
LEMMA HandlesGrow ==
    ASSUME TypeOK, NEW h, handles' = Append(handles, h)
    PROVE  /\ db' = db + 1
           /\ handles'[db'] = h
           /\ \A i \in 1..db : handles'[i] = handles[i]
  BY DEF TypeOK, db

LEMMA HandlesTyped ==
    ASSUME TypeOK, NEW i \in 1..db
    PROVE  handles[i] \in [op: Operations, dir: Dirs] /\ handles[i].dir \in Dirs
<1> DEFINE S == [op: Operations, dir: Dirs]
<1>1. handles \in Seq(S)
  BY DEF TypeOK
<1>2. handles[i] \in S
  <2> HIDE DEF S
  <2> QED
    BY <1>1 DEF db
<1> QED
  BY <1>2

LEMMA TypeStep == IInv /\ [Next]_vars => TypeOK'
<1> SUFFICES ASSUME IInv, [Next]_vars PROVE TypeOK'
  OBVIOUS
<1> USE DEF IInv, switch, work, bounds
<1>1. ASSUME NEW o \in Operations, NewOperation(o) \/ Select(o) PROVE TypeOK'
  <2>1. registry' \in [Operations -> Dirs \cup {NoDir}] /\ user' \in Uses \cup {Idle}
    BY <1>1 DEF NewOperation, Select, TypeOK, Uses
  <2>2. db' = db /\ Calls' = Calls
    BY <1>1 DEF NewOperation, Select, db, Calls
  <2> QED
    BY <1>1, <2>1, <2>2 DEF NewOperation, Select, TypeOK
<1>2. CASE Use
  <2>1. CASE NewDatabase
    <3>1. user \in Uses
      BY <2>1 DEF NewDatabase, UserAt, TypeOK, Idle
    <3>2. handles' \in Seq([op: Operations, dir: Dirs]) /\ db' = db + 1
      BY <2>1, <3>1 DEF NewDatabase, TypeOK, Uses, db
    <3>3. 1..db \subseteq 1..db' /\ db \in Nat
      BY <3>2 DEF TypeOK, db
    <3>4. call' \in [Callers -> Calls' \cup {NoCall}]
      BY <2>1, <3>3 DEF NewDatabase, TypeOK, Calls
    <3> QED
      BY <2>1, <3>1, <3>2, <3>3, <3>4 DEF NewDatabase, TypeOK, UserGoes, Uses
  <2>2. CASE SetCurrent \/ EnsureDirectories \/ CloseOld \/ OpenDatabase \/ ChangeDirectory \/ UseFails
    <3>1. user \in Uses
      BY <2>2 DEF SetCurrent, EnsureDirectories, CloseOld, OpenDatabase, ChangeDirectory, UseFails,
                  UserAt, TypeOK, Idle
    <3>2. user' \in Uses \cup {Idle}
      BY <2>2, <3>1 DEF SetCurrent, EnsureDirectories, CloseOld, OpenDatabase, ChangeDirectory,
                        UseFails, UserGoes, Uses
    <3>3. db' = db /\ Calls' = Calls
      BY <2>2 DEF SetCurrent, EnsureDirectories, CloseOld, OpenDatabase, ChangeDirectory, UseFails,
                  db, Calls
    <3>4. open' \subseteq 1..db
      <4>1. user.step = "open" => db \in 1..db
        BY DEF SwitchProgress, TypeOK, db
      <4> QED
        BY <2>2, <4>1 DEF SetCurrent, EnsureDirectories, CloseOld, OpenDatabase, ChangeDirectory,
                          UseFails, UserAt, TypeOK
    <3>5. current' \in Operations \cup {NoOperation} /\ cwd' \in Dirs /\ failed' \in BOOLEAN
      BY <2>2, <3>1 DEF SetCurrent, EnsureDirectories, CloseOld, OpenDatabase, ChangeDirectory,
                        UseFails, Uses, TypeOK
    <3> QED
      BY <2>2, <3>2, <3>3, <3>4, <3>5
         DEF SetCurrent, EnsureDirectories, CloseOld, OpenDatabase, ChangeDirectory, UseFails, TypeOK
  <2> QED
    BY <1>2, <2>1, <2>2 DEF Use
<1>3. ASSUME NEW a \in Assets, CompleteJob(a) \/ \E t \in Recorders : RecordAsset(t, a) PROVE TypeOK'
  <2>1. db' = db /\ Calls' = Calls
    BY <1>3 DEF CompleteJob, RecordAsset, db, Calls
  <2>2. ASSUME NEW t \in Callers, NEW h \in open, Begins(t, a, h)
        PROVE  call' \in [Callers -> Calls \cup {NoCall}]
    <3>1. [step |-> "check", asset |-> a, operation |-> NoOperation, handle |-> h] \in Calls
      BY DEF TypeOK, Calls
    <3> QED
      BY <2>2, <3>1 DEF Begins, TypeOK
  <2>3. call' \in [Callers -> Calls \cup {NoCall}]
    BY <1>3, <2>2 DEF CompleteJob, RecordAsset, Callers, TypeOK
  <2> QED
    BY <1>3, <2>1, <2>3 DEF CompleteJob, RecordAsset, TypeOK
<1>4. CASE StartSupervisor
  BY <1>4 DEF StartSupervisor, TypeOK, Calls, db
<1>5. ASSUME NEW t \in Callers, Discover(t) PROVE TypeOK'
  <2>1. call[t] \in Calls
    BY <1>5 DEF Discover, CheckOpen, BindOperation, Fetch, Put, MaintainViews, ClosedUnderCall, At,
                TypeOK, NoCall
  <2>2. db' = db /\ Calls' = Calls
    BY <1>5 DEF Discover, CheckOpen, BindOperation, Fetch, Put, MaintainViews, ClosedUnderCall, db, Calls
  <2>3. call' \in [Callers -> Calls \cup {NoCall}]
    BY <1>5, <2>1 DEF Discover, CheckOpen, BindOperation, Fetch, Put, MaintainViews, ClosedUnderCall,
                Goes, Ends, TypeOK, Calls
  <2>4. result' \in [Assets -> {"none", "succeeded", "failed"}]
    BY <1>5, <2>1 DEF Discover, CheckOpen, BindOperation, Fetch, Put, MaintainViews, ClosedUnderCall,
                Ends, TypeOK
  <2>5. store' \in [Dirs -> SUBSET Records]
    <3>1. CASE Put(t)
      <4>1. [asset |-> call[t].asset, operation |-> call[t].operation] \in Records
        BY <2>1 DEF Calls, Records
      <4> QED
        BY <3>1, <4>1 DEF Put, TypeOK
    <3>2. CASE ~Put(t)
      BY <1>5, <3>2 DEF Discover, CheckOpen, BindOperation, Fetch, MaintainViews, ClosedUnderCall, TypeOK
    <3> QED
      BY <3>1, <3>2
  <2> QED
    BY <1>5, <2>2, <2>3, <2>4, <2>5
       DEF Discover, CheckOpen, BindOperation, Fetch, Put, MaintainViews, ClosedUnderCall, TypeOK
<1>6. CASE Restart
  <2>1. handles' \in Seq([op: Operations, dir: Dirs]) /\ db' = 0
    BY <1>6 DEF Restart, db
  <2>2. supervisor' \in 0..db' /\ open' \subseteq 1..db'
    BY <1>6, <2>1 DEF Restart
  <2>3. /\ failed' \in BOOLEAN
        /\ result' \in [Assets -> {"none", "succeeded", "failed"}]
        /\ call' \in [Callers -> Calls' \cup {NoCall}]
        /\ user' \in Uses \cup {Idle}
    BY <1>6 DEF Restart
  <2> QED
    BY <1>6, <2>1, <2>2, <2>3, OperationAssumption DEF Restart, TypeOK
<1>7. CASE UNCHANGED vars
  BY <1>7 DEF vars, TypeOK, Calls, db
<1> QED
  BY <1>1, <1>2, <1>3, <1>4, <1>5, <1>6, <1>7 DEF Next

\* What a step of DISCOVER-ASSET leaves alone, and what it does to its call.
LEMMA DiscoverFrame ==
    ASSUME TypeOK, NEW t \in Callers, Discover(t)
    PROVE  /\ UNCHANGED <<registry, switch, supervisor, unkept>>
           /\ db' = db
           /\ call[t] \in Calls
           /\ call' \in [Callers -> Calls \cup {NoCall}]
           /\ \A u \in Callers \ {t} : call'[u] = call[u]
           /\ \/ call'[t] = NoCall
              \/ call'[t].handle = call[t].handle /\ call'[t].asset = call[t].asset
           /\ call'[t].step \in {"fetch", "put"} =>
                  \/ call'[t].operation = current
                  \/ call[t].step = "fetch" /\ call'[t].operation = call[t].operation
           /\ call'[t].step = "views" => Put(t)
<1>1. call[t] \in Calls
  BY DEF Discover, CheckOpen, BindOperation, Fetch, Put, MaintainViews, ClosedUnderCall, At, TypeOK,
         NoCall
<1>2. UNCHANGED <<registry, switch, supervisor, unkept>> /\ db' = db
  BY DEF Discover, CheckOpen, BindOperation, Fetch, Put, MaintainViews, ClosedUnderCall, switch, db
<1> DEFINE Follows(c) ==
        /\ call' = [call EXCEPT ![t] = c]
        /\ c = NoCall \/ (c.handle = call[t].handle /\ c.asset = call[t].asset)
        /\ c.step \in {"fetch", "put"} =>
               c.operation = current \/ (call[t].step = "fetch" /\ c.operation = call[t].operation)
        /\ c.step = "views" => Put(t)
<1>3. PICK c \in Calls \cup {NoCall} : Follows(c)
  <2>1. CASE BindOperation(t)
    <3> DEFINE bound == [call[t] EXCEPT !.operation = current, !.step = "fetch"]
    <3>1. call' = [call EXCEPT ![t] = bound]
      BY <2>1, <1>1 DEF BindOperation, TypeOK, Calls
    <3>2. bound \in Calls /\ bound.handle = call[t].handle /\ bound.asset = call[t].asset
              /\ bound.operation = current /\ bound.step = "fetch"
      BY <1>1 DEF Calls, TypeOK
    <3> QED
      BY <3>1, <3>2
  <2>2. ASSUME NEW step \in {"bind", "put", "views"}, Goes(t, step),
               step = "put" => call[t].step = "fetch", step = "views" => Put(t)
        PROVE  \E c \in Calls : Follows(c)
    <3> DEFINE moved == [call[t] EXCEPT !.step = step]
    <3>1. call' = [call EXCEPT ![t] = moved]
      BY <2>2, <1>1 DEF Goes, TypeOK, Calls
    <3>2. moved \in Calls /\ moved.handle = call[t].handle /\ moved.asset = call[t].asset
              /\ moved.step = step /\ moved.operation = call[t].operation
      BY <1>1 DEF Calls
    <3> QED
      BY <2>2, <3>1, <3>2
  <2>3. ASSUME NEW outcome, Ends(t, outcome) PROVE Follows(NoCall)
    BY <2>3 DEF Ends, NoCall
  <2> QED
    BY <2>1, <2>2, <2>3 DEF Discover, CheckOpen, Fetch, Put, MaintainViews, ClosedUnderCall, At
<1> QED
  BY <1>1, <1>2, <1>3 DEF TypeOK, NoCall

LEMMA SwitchStep == IInv /\ [Next]_vars => (SwitchProgress /\ InStep /\ CallsFollow)'
<1> SUFFICES ASSUME IInv, [Next]_vars PROVE (SwitchProgress /\ InStep /\ CallsFollow)'
  OBVIOUS
<1> USE DEF IInv
<1>0. TypeOK
  OBVIOUS
<1>1. ASSUME NEW o \in Operations, NewOperation(o) \/ Select(o)
      PROVE  (SwitchProgress /\ InStep /\ CallsFollow)'
  BY <1>1 DEF NewOperation, Select, SwitchProgress, InStep, CallsFollow, Divided, Idle, db, switch, work
<1>2. CASE Use
  <2>0. user \in Uses
    BY <1>2 DEF Use, SetCurrent, EnsureDirectories, CloseOld, NewDatabase, OpenDatabase, ChangeDirectory,
                UseFails, UserAt, TypeOK, Idle
  <2>1. CASE SetCurrent
    BY <2>0, <2>1 DEF SetCurrent, UserAt, UserGoes, Uses, SwitchProgress, InStep, CallsFollow, Divided, Idle,
                      db, work
  <2>2. CASE EnsureDirectories
    BY <2>0, <2>2 DEF EnsureDirectories, UserAt, UserGoes, Uses, SwitchProgress, InStep, CallsFollow,
                      Divided, Idle, db, work
  <2>3. CASE CloseOld
    BY <2>0, <2>3 DEF CloseOld, UserAt, UserGoes, Uses, SwitchProgress, InStep, CallsFollow, Divided, Idle,
                      db, work
  <2>4. CASE NewDatabase
    <3>1. /\ db' = db + 1 /\ db \in Nat
          /\ handles'[db'] = [op |-> user.op, dir |-> user.dir]
      BY <2>4, HandlesGrow DEF NewDatabase, TypeOK, db
    <3>2. \A t \in Callers : call[t].handle # db + 1
      BY <3>1 DEF TypeOK, Calls, NoCall
    <3>3. /\ user'.step = "open" /\ user'.op = user.op /\ user'.dir = user.dir
          /\ open = {} /\ current = user.op
          /\ UNCHANGED <<open, current, call>>
      BY <2>0, <2>4 DEF NewDatabase, UserAt, UserGoes, Uses, SwitchProgress, work
    <3>4. SwitchProgress'
      BY <3>1, <3>3 DEF SwitchProgress
    <3>5. InStep'
      BY <3>3 DEF InStep, Divided, Idle
    <3>6. CallsFollow'
      BY <3>1, <3>2, <3>3 DEF CallsFollow
    <3> QED
      BY <3>4, <3>5, <3>6
  <2>5. CASE OpenDatabase
    BY <2>0, <2>5 DEF OpenDatabase, UserAt, UserGoes, Uses, SwitchProgress, InStep, CallsFollow, Divided,
                      Idle, db, work
  <2>6. CASE ChangeDirectory
    BY <2>0, <2>6, OperationAssumption DEF ChangeDirectory, UserAt, Uses,
                      SwitchProgress, InStep, CallsFollow, Divided, Idle, db, work
  <2>7. CASE UseFails
    BY <2>7 DEF UseFails, UserAt, SwitchProgress, InStep, CallsFollow, Divided, Idle, db, work
  <2> QED
    BY <1>2, <2>1, <2>2, <2>3, <2>4, <2>5, <2>6, <2>7 DEF Use
<1>3. ASSUME NEW a \in Assets,
             CompleteJob(a) \/ \E t \in Recorders : RecordAsset(t, a)
      PROVE  (SwitchProgress /\ InStep /\ CallsFollow)'
  <2>1. UNCHANGED switch /\ db' = db
    BY <1>3 DEF CompleteJob, RecordAsset, switch, db
  <2>2. \A t \in Callers :
            call'[t] = call[t] \/ (call'[t].step = "check" /\ call'[t].handle \in open)
    BY <1>3 DEF CompleteJob, RecordAsset, Begins, TypeOK, Callers
  <2>3. CallsFollow'
    BY <2>1, <2>2 DEF CallsFollow, SwitchProgress, switch
  <2> QED
    BY <2>1, <2>3 DEF SwitchProgress, InStep, Divided, switch
<1>4. ASSUME NEW t \in Callers, Discover(t) PROVE (SwitchProgress /\ InStep /\ CallsFollow)'
  <2>1. SwitchProgress' /\ InStep'
    BY <1>4, DiscoverFrame DEF SwitchProgress, InStep, Divided, switch
  <2>2. ASSUME user.step = "open" PROVE \A u \in Callers : call'[u].handle # db
    <3>1. db > 0
      BY <2>2 DEF SwitchProgress
    <3> QED
      BY <1>4, <2>2, <3>1, DiscoverFrame DEF CallsFollow, NoCall
  <2>3. ASSUME (~failed /\ user.step = "idle") \/ user.step = "chdir", NEW u \in Callers,
               call'[u].step \in {"fetch", "put"}, call'[u].handle \in open
        PROVE  call'[u].operation = handles[call'[u].handle].op
    <3>1. CASE u # t
      BY <1>4, <2>3, <3>1, DiscoverFrame DEF CallsFollow
    <3>2. CASE u = t
      <4>1. call'[t].handle = call[t].handle
        BY <1>4, <2>3, <3>2, DiscoverFrame DEF NoCall
      <4>2. current = handles[db].op
        BY <2>3 DEF InStep, Divided, SwitchProgress, Idle, TypeOK, Uses
      <4>3. call[t].handle = db
        BY <2>3, <3>2, <4>1 DEF SwitchProgress
      <4> QED
        BY <1>4, <2>3, <3>2, <4>1, <4>2, <4>3, DiscoverFrame DEF CallsFollow
    <3> QED
      BY <3>1, <3>2
  <2>4. CallsFollow'
    BY <1>4, <2>2, <2>3, DiscoverFrame DEF CallsFollow, switch
  <2> QED
    BY <2>1, <2>4
<1>5. CASE Restart
  BY <1>5 DEF Restart, SwitchProgress, InStep, CallsFollow, Divided, Idle, NoCall, db
<1>6. CASE StartSupervisor \/ UNCHANGED vars
  BY <1>6 DEF StartSupervisor, vars, switch, work, SwitchProgress, InStep, CallsFollow, Divided, Idle, db
<1> QED
  BY <1>1, <1>2, <1>3, <1>4, <1>5, <1>6 DEF Next

\* An asset that a store has, it keeps.
LEMMA StoresGrow ==
    ASSUME TypeOK, NEW t \in Callers, Discover(t), NEW d \in Dirs, NEW r \in store[d]
    PROVE  \E s \in store'[d] : s.asset = r.asset
<1>1. CASE Put(t)
  <2>1. call[t] \in Calls
    BY DiscoverFrame
  <2>2. StoreOf(t) \in Dirs
    BY <2>1, HandlesTyped DEF StoreOf, Calls
  <2>3. store'[d] = store[d] \/ (d = StoreOf(t) /\ store'[d] =
            {x \in store[d] : x.asset # call[t].asset}
                \cup {[asset |-> call[t].asset, operation |-> call[t].operation]})
    BY <1>1, <2>2 DEF Put, TypeOK
  <2>4. CASE r.asset = call[t].asset
    <3>1. [asset |-> call[t].asset, operation |-> call[t].operation].asset = r.asset
      BY <2>4
    <3> QED
      BY <2>3, <3>1
  <2>5. CASE r.asset # call[t].asset
    BY <2>3, <2>5
  <2> QED
    BY <2>4, <2>5
<1>2. CASE ~Put(t)
  BY <1>2 DEF Discover, CheckOpen, BindOperation, Fetch, MaintainViews, ClosedUnderCall
<1> QED
  BY <1>1, <1>2

LEMMA JobStep == IInv /\ [Next]_vars => (JobProgress /\ SucceededIsStored)'
<1> SUFFICES ASSUME IInv, [Next]_vars PROVE (JobProgress /\ SucceededIsStored)'
  OBVIOUS
<1> USE DEF IInv
<1>0. TypeOK
  OBVIOUS
<1>1. ASSUME NEW o \in Operations, NewOperation(o) \/ Select(o) PROVE (JobProgress /\ SucceededIsStored)'
  BY <1>1 DEF NewOperation, Select, JobProgress, SucceededIsStored, switch, work
<1>2. CASE Use
  <2>1. UNCHANGED work
    BY <1>2 DEF Use, SetCurrent, EnsureDirectories, CloseOld, NewDatabase, OpenDatabase, ChangeDirectory,
                UseFails
  <2>2. supervisor # 0 => handles'[supervisor] = handles[supervisor]
    <3>1. CASE NewDatabase
      BY <3>1, HandlesGrow DEF NewDatabase, TypeOK, db
    <3>2. CASE ~NewDatabase
      BY <1>2, <3>2 DEF Use, SetCurrent, EnsureDirectories, CloseOld, OpenDatabase, ChangeDirectory, UseFails
    <3> QED
      BY <3>1, <3>2
  <2>3. call[Supervisor].step = "views" => supervisor # 0
    BY DEF JobProgress, TypeOK, Calls, NoCall, Callers
  <2> QED
    BY <2>1, <2>2, <2>3 DEF work, JobProgress, SucceededIsStored
<1>3. ASSUME NEW a \in Assets, CompleteJob(a) \/ \E t \in Recorders : RecordAsset(t, a)
      PROVE  (JobProgress /\ SucceededIsStored)'
  <2>1. UNCHANGED <<handles, store, supervisor>>
    BY <1>3 DEF CompleteJob, RecordAsset, switch
  <2>2. \/ call'[Supervisor] = call[Supervisor]
        \/ call'[Supervisor].step = "check" /\ call'[Supervisor].handle = supervisor
    BY <1>3, OperationAssumption DEF CompleteJob, RecordAsset, Begins, TypeOK, Callers
  <2>3. \A x \in Assets : result'[x] = "succeeded" => result[x] = "succeeded"
    BY <1>3 DEF CompleteJob, RecordAsset, TypeOK
  <2> QED
    BY <2>1, <2>2, <2>3 DEF JobProgress, SucceededIsStored
<1>4. ASSUME NEW t \in Callers, Discover(t) PROVE (JobProgress /\ SucceededIsStored)'
  <2> DEFINE d == handles[supervisor].dir
  <2>1. handles' = handles /\ supervisor' = supervisor
    BY <1>4, DiscoverFrame DEF switch
  <2>2. call[Supervisor].step # "idle" => supervisor # 0 /\ StoreOf(Supervisor) = d
    BY DEF JobProgress, TypeOK, Calls, NoCall, Callers, StoreOf
  <2>3. supervisor # 0 => d \in Dirs
    <3>1. supervisor # 0 => supervisor \in 1..db
      BY DEF TypeOK, db
    <3> QED
      BY <3>1, HandlesTyped
  <2>4. call'[Supervisor].step # "idle" => call'[Supervisor].handle = supervisor
    BY <1>4, DiscoverFrame DEF JobProgress, NoCall, Callers, Calls
  <2>5. ASSUME call'[Supervisor].step = "views"
        PROVE  \E r \in store'[d] : r.asset = call'[Supervisor].asset
    <3>1. CASE t # Supervisor
      <4>1. call'[Supervisor] = call[Supervisor]
        BY <1>4, <3>1, DiscoverFrame DEF Callers
      <4> QED
        BY <1>4, <2>2, <2>3, <2>5, <4>1, StoresGrow DEF JobProgress
    <3>2. CASE t = Supervisor
      <4>1. Put(t)
        BY <1>4, <2>5, <3>2, DiscoverFrame
      <4>2. call[t] \in Calls /\ call'[t].asset = call[t].asset
        BY <1>4, <2>5, <3>2, DiscoverFrame DEF NoCall
      <4>3. StoreOf(t) = d /\ d \in Dirs
        BY <2>2, <2>3, <3>2, <4>1 DEF Put, At
      <4>4. [asset |-> call[t].asset, operation |-> call[t].operation] \in store'[d]
        BY <4>1, <4>3 DEF Put, TypeOK
      <4> QED
        BY <3>2, <4>2, <4>4
    <3> QED
      BY <3>1, <3>2
  <2>6. ASSUME NEW a \in Assets, result'[a] = "succeeded"
        PROVE  supervisor # 0 /\ \E r \in store'[d] : r.asset = a
    <3>1. CASE result[a] = "succeeded"
      <4>1. supervisor # 0 /\ \E r \in store[d] : r.asset = a
        BY <3>1 DEF JobProgress, SucceededIsStored
      <4> QED
        BY <1>4, <2>3, <4>1, StoresGrow
    <3>2. CASE result[a] # "succeeded"
      <4>1. t = Supervisor /\ a = call[t].asset /\ (Fetch(t) \/ MaintainViews(t))
        BY <1>4, <2>6, <3>2 DEF Discover, CheckOpen, BindOperation, Fetch, Put, MaintainViews,
                                ClosedUnderCall, Ends, TypeOK
      <4>2. supervisor # 0 /\ store' = store
        BY <2>2, <4>1 DEF Fetch, MaintainViews, At
      <4>3. CASE Fetch(t)
        BY <2>2, <2>6, <3>2, <4>1, <4>2, <4>3 DEF Fetch, At
      <4>4. CASE MaintainViews(t)
        BY <4>1, <4>2, <4>4 DEF MaintainViews, At, JobProgress
      <4> QED
        BY <4>1, <4>3, <4>4
    <3> QED
      BY <3>1, <3>2
  <2> QED
    BY <2>1, <2>4, <2>5, <2>6 DEF JobProgress, SucceededIsStored
<1>5. CASE StartSupervisor
  BY <1>5 DEF StartSupervisor, switch, JobProgress, SucceededIsStored, TypeOK, Calls, NoCall, Callers
<1>6. CASE Restart
  BY <1>6 DEF Restart, JobProgress, SucceededIsStored, NoCall, Callers
<1>7. CASE UNCHANGED vars
  BY <1>7 DEF vars, switch, work, JobProgress, SucceededIsStored
<1> QED
  BY <1>1, <1>2, <1>3, <1>4, <1>5, <1>6, <1>7 DEF Next

THEOREM Invariance == Spec => []IInv
<1>1. IInv /\ [Next]_vars => IInv'
  BY TypeStep, SwitchStep, JobStep DEF IInv
<1> QED
  BY <1>1, InitInv, PTL DEF Spec

\* operations.lisp: every variable stays of its type.
THEOREM OperationTypeCorrect == Spec => []TypeOK
<1>1. IInv => TypeOK
  BY DEF IInv
<1> QED
  BY <1>1, Invariance, PTL

\* operations.lisp:87-101: but during a change of operations, or after one that
\* failed, the open database is the current operation's.
THEOREM StaysInStep == Spec => []InStep
<1>1. IInv => InStep
  BY DEF IInv
<1> QED
  BY <1>1, Invariance, PTL

\* assets.lisp:141-143, 181-200: whoever is about to write a store took the
\* operation of that store, but during a change of operations.
THEOREM LabelsFollowStores == Spec => []LabelledForStore
<1>1. IInv => LabelledForStore
  BY DEF IInv, CallsFollow, LabelledForStore, Divided, Idle, At, IsOpen
<1> QED
  BY <1>1, Invariance, PTL

\* providers.lisp:153-170, 229: what a job reports as found is stored.
THEOREM JobsAreTruthful == Spec => []SucceededIsStored
<1>1. IInv => SucceededIsStored
  BY DEF IInv
<1> QED
  BY <1>1, Invariance, PTL

\* operations.lisp:87-101, assets.lisp:141, providers.lisp:229: the three facts
\* at once, for any operations, directories, assets, callers and bounds.
THEOREM GoesTogether == Spec => []OperationsInStep
  BY StaysInStep, LabelsFollowStores, JobsAreTruthful, PTL DEF OperationsInStep

\* assets.lisp:202-216: an asset goes to the legacy hook alone only without an
\* operation or during a change of operations.
THEOREM RecordedIsKept == Spec => KeptInStep
<1>1. ASSUME IInv, [Next]_vars
      PROVE  unkept' # unkept => Divided \/ current = NoOperation \/ unkept' = {}
  <2> SUFFICES ASSUME unkept' # unkept, ~Restart PROVE Divided \/ current = NoOperation
    BY <1>1 DEF Restart
  <2>1. \E a \in Assets, t \in Recorders : RecordAsset(t, a)
    <3>1. ~ \E t \in Callers : Discover(t)
      BY <1>1, DiscoverFrame DEF IInv
    <3> QED
      BY <1>1, <3>1 DEF Next, NewOperation, Select, Use, SetCurrent, EnsureDirectories, CloseOld, NewDatabase,
                        OpenDatabase, ChangeDirectory, UseFails, CompleteJob, StartSupervisor, vars, work
  <2>2. db \notin open
    BY <2>1 DEF RecordAsset
  <2> QED
    BY <1>1, <2>2 DEF IInv, InStep
<1> QED
  BY <1>1, Invariance, PTL DEF Spec, KeptInStep
=============================================================================
