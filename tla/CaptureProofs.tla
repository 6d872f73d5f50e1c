--------------------------- MODULE CaptureProofs ---------------------------
(***************************************************************************)
(* Theorems about the capture of traffic: the service that keeps mitmdump  *)
(* running, and the replay of what it captured into the operation graph.   *)
(*                                                                         *)
(* CaptureService, for any restart budget, any number of exits noted twice *)
(* and of stoppers that signal, keeps its types, and with calls that       *)
(* follow one another (~Overlaps) keeps hold of its process and stays      *)
(* stopped.  OrphansPaid is not inductive: an exit that is noted twice is  *)
(* paid for when it is noted, and takes a live process from the service    *)
(* only later, perhaps by way of the honest notice of another process.     *)
(* What is bounded is therefore the number of processes that live or have  *)
(* a notice under way and are not the one the service deals with (Astray). *)
(*                                                                         *)
(* IPXReplay, for any flows, replays, files and crashes, keeps its types,  *)
(* ExchangesAreFrames and Accounted.  Neither is inductive: both rest on   *)
(* what a replay knows of the frame it is at (Follows), and Accounted on   *)
(* that a checkpoint has passed the frames of the prefix it stands for,    *)
(* whatever file stands at the path (CheckpointsPass).                     *)
(***************************************************************************)
EXTENDS CaptureService, IPXReplay, FiniteSetTheorems, SequenceTheorems, TLAPS

\* A launch that is on its way is in the budget already.
BudgetKept ==
    /\ launches <= restarts + 1
    /\ watcher \in {"launch", "run"} => launches <= restarts

\* Calls follow one another, and a notice changes nothing from a stop on.
CallsFollow ==
    /\ operator # "idle" => watcher = "idle" /\ state = "stopping"
    /\ watcher # "idle" => state \notin {"stopping", "stopped"}
    /\ operator = "stopping" => target = processId
    /\ state \notin {"stopping", "stopped"} => terminated = {}

\* What the service knows of its process at each point of LAUNCH-CAPTURE-PROCESS.
LaunchProgress ==
    /\ watcher \in {"launch", "run"} => processId = 0
    /\ watcher = "spawned" => launches \in alive \cup exits
    /\ watcher = "idle" /\ state \notin {"running", "stopping"} => processId = 0

\* The processes that are dealt with: terminated, or the service's own, which
\* it lets go of when it notes an exit and when it has called the stopper.
Held ==
    terminated \cup IF watcher = "spawned" THEN {launches}
                    ELSE IF watcher = "noted" \/ operator = "finish" THEN {}
                    ELSE {processId}

Astray == (alive \cup exits) \ Held

AstrayPaid == IsFiniteSet(Astray) /\ Cardinality(Astray) <= duplicates + stopperFailures

\* The stopper is called for a process.
StopsProcess == operator = "stopping" => target # 0

\* An exit to be noted has happened.
NoticesAreTrue == alive \cap exits = {}

TypeInv == TypeOK /\ BudgetKept /\ StopsProcess /\ NoticesAreTrue

IInv == TypeInv /\ RunningIsWatched /\ CallsFollow /\ LaunchProgress /\ AstrayPaid

-----------------------------------------------------------------------------
(* Types: they do not depend on who calls when. *)

\* The service as START-CAPTURE-SERVICE returns it.
LEMMA InitTypes == Init => TypeInv
<1> SUFFICES ASSUME Init PROVE TypeInv
  OBVIOUS
<1>1. launches \in {0, 1} /\ processId = launches /\ alive \subseteq Launched
  BY DEF Init, Launched
<1>2. 0 \in 0..MaxRestarts /\ launches \in 0..MaxRestarts + 1 /\ processId \in 0..launches
  BY <1>1, CaptureAssumption
<1> QED
  BY <1>1, <1>2, CaptureAssumption
  DEF Init, TypeInv, TypeOK, BudgetKept, StopsProcess, NoticesAreTrue

\* A step keeps the types and the budget.
LEMMA TypeStep == TypeInv /\ [Next]_vars => TypeInv'
<1> SUFFICES ASSUME TypeInv, [Next]_vars PROVE TypeInv'
  OBVIOUS
<1> USE CaptureAssumption
    DEF TypeInv, TypeOK, BudgetKept, StopsProcess, NoticesAreTrue, Launched, slots, stop, bounds
<1>1. ASSUME NEW p \in Launched, Exit(p) PROVE TypeInv'
  BY <1>1 DEF Exit
<1>12. ASSUME NEW p \in Launched, Duplicate(p) PROVE TypeInv'
  BY <1>12 DEF Duplicate
<1>2. CASE \E p \in Launched : NoteExit(p)
  BY <1>2 DEF NoteExit, Noted
<1>3. CASE Degrade
  BY <1>3 DEF Degrade
<1>4. CASE Launch
  BY <1>4 DEF Launch
<1>5. CASE Spawn
  BY <1>5 DEF Spawn
<1>6. CASE SpawnFails
  BY <1>6 DEF SpawnFails
<1>7. CASE Spawned
  BY <1>7 DEF Spawned
<1>8. CASE Stop
  BY <1>8 DEF Stop
<1>9. CASE Terminate
  <2>1. target \in Launched
    BY <1>9 DEF Terminate
  <2>2. CASE terminated' = terminated \cup {target} /\ UNCHANGED stopperFailures
    BY <1>9, <2>1, <2>2 DEF Terminate
  <2>3. CASE UNCHANGED terminated /\ stopperFailures' = stopperFailures + 1
    BY <1>9, <2>3 DEF Terminate
  <2> QED
    BY <1>9, <2>2, <2>3 DEF Terminate
<1>10. CASE StopEnds
  BY <1>10 DEF StopEnds
<1>11. CASE UNCHANGED vars
  BY <1>11 DEF vars
<1> QED
  BY <1>1, <1>2, <1>3, <1>4, <1>5, <1>6, <1>7, <1>8, <1>9, <1>10, <1>11, <1>12
  DEF Next, Watch

\* capture-provider.lisp:172-180: all slots keep their types, and never more
\* processes are launched than the budget and one.
THEOREM CaptureTypeCorrect == Spec => []TypeOK
<1>1. TypeInv => TypeOK
  BY DEF TypeInv
<1> QED
  BY <1>1, InitTypes, TypeStep, PTL DEF Spec

-----------------------------------------------------------------------------
(* The calls and what they know. *)

\* At first no call is under way.
LEMMA InitProgress == Init => RunningIsWatched /\ CallsFollow /\ LaunchProgress
  BY DEF Init, RunningIsWatched, CallsFollow, LaunchProgress

\* A step keeps the calls in order, unless they may overlap.
LEMMA ProgressStep ==
  ASSUME ~Overlaps, TypeInv, RunningIsWatched, CallsFollow, LaunchProgress, [Next]_vars
  PROVE  RunningIsWatched' /\ CallsFollow' /\ LaunchProgress'
<1> USE DEF TypeInv, TypeOK, StopsProcess, NoticesAreTrue, RunningIsWatched, CallsFollow,
            LaunchProgress, Launched, slots, stop, bounds
<1>1. ASSUME NEW p \in Launched, Exit(p)
     PROVE  RunningIsWatched' /\ CallsFollow' /\ LaunchProgress'
  BY <1>1 DEF Exit
<1>12. ASSUME NEW p \in Launched, Duplicate(p)
     PROVE  RunningIsWatched' /\ CallsFollow' /\ LaunchProgress'
  BY <1>12 DEF Duplicate
<1>2. CASE \E p \in Launched : NoteExit(p)
  BY <1>2 DEF NoteExit, Noted
<1>3. CASE Degrade
  BY <1>3 DEF Degrade
<1>4. CASE Launch
  BY <1>4 DEF Launch
<1>5. CASE Spawn
  BY <1>5 DEF Spawn
<1>6. CASE SpawnFails
  BY <1>6 DEF SpawnFails
<1>7. CASE Spawned
  BY <1>7 DEF Spawned
<1>8. CASE Stop
  BY <1>8 DEF Stop
<1>9. CASE Terminate
  BY <1>9 DEF Terminate
<1>10. CASE StopEnds
  BY <1>10 DEF StopEnds
<1>11. CASE UNCHANGED vars
  BY <1>11 DEF vars
<1> QED
  BY <1>1, <1>2, <1>3, <1>4, <1>5, <1>6, <1>7, <1>8, <1>9, <1>10, <1>11, <1>12
  DEF Next, Watch

-----------------------------------------------------------------------------
(* The processes astray. *)

\* A set that loses elements keeps its bound.
LEMMA Shrinks ==
  ASSUME NEW S, NEW T, IsFiniteSet(S), T \subseteq S, NEW n \in Nat, Cardinality(S) <= n
  PROVE  IsFiniteSet(T) /\ Cardinality(T) <= n
<1>1. IsFiniteSet(T) /\ Cardinality(T) <= Cardinality(S)
  BY FS_Subset
<1>2. Cardinality(S) \in Nat /\ Cardinality(T) \in Nat
  BY <1>1, FS_CardinalityType
<1> QED
  BY <1>1, <1>2

\* A set that gains at most one element needs one more.
LEMMA Gains ==
  ASSUME NEW S, NEW x, NEW T, IsFiniteSet(S), T \subseteq S \cup {x}, NEW n \in Nat,
         Cardinality(S) <= n
  PROVE  IsFiniteSet(T) /\ Cardinality(T) <= n + 1
<1>1. IsFiniteSet(S \cup {x}) /\ Cardinality(S \cup {x}) <= n + 1
  <2>1. Cardinality(S) \in Nat
    BY FS_CardinalityType
  <2> QED
    BY <2>1, FS_AddElement
<1> QED
  BY <1>1, Shrinks

\* A set that loses an element and gains one keeps its bound.
LEMMA Exchanges ==
  ASSUME NEW S, NEW x \in S, NEW y, NEW T, IsFiniteSet(S), T \subseteq (S \ {x}) \cup {y},
         NEW n \in Nat, Cardinality(S) <= n
  PROVE  IsFiniteSet(T) /\ Cardinality(T) <= n
<1>1. IsFiniteSet(S \ {x}) /\ Cardinality(S \ {x}) = Cardinality(S) - 1
  BY FS_RemoveElement
<1>2. Cardinality(S) \in Nat /\ Cardinality(S) # 0
  BY FS_CardinalityType, FS_EmptySet
<1>3. n - 1 \in Nat /\ Cardinality(S \ {x}) <= n - 1 /\ (n - 1) + 1 = n
  BY <1>1, <1>2
<1> QED
  BY <1>1, <1>3, Gains

\* The first process is the service's own.
LEMMA InitAstray == Init => AstrayPaid
<1> SUFFICES ASSUME Init PROVE AstrayPaid
  OBVIOUS
<1>1. alive \cup exits \subseteq {processId}
  <2>1. CASE launches = 1 /\ processId = 1
    BY <2>1 DEF Init
  <2>2. CASE launches = 0
    BY <2>2 DEF Init
  <2> QED
    BY <2>1, <2>2 DEF Init
<1>3. Held = {processId}
  BY DEF Init, Held
<1>2. Astray = {}
  BY <1>1, <1>3 DEF Astray
<1> QED
  BY <1>2, FS_EmptySet DEF Init, AstrayPaid

\* A process goes astray only with an exit noted twice or a stopper that signals.
LEMMA AstrayStep ==
  ASSUME ~Overlaps, IInv, [Next]_vars
  PROVE  AstrayPaid'
<1> DEFINE paid == duplicates + stopperFailures
<1>a. /\ IsFiniteSet(Astray) /\ Cardinality(Astray) <= paid
      /\ duplicates \in Nat /\ stopperFailures \in Nat /\ paid \in Nat
  BY CaptureAssumption DEF IInv, AstrayPaid, TypeInv, TypeOK
<1> USE DEF IInv, TypeInv, TypeOK, NoticesAreTrue, CallsFollow, LaunchProgress,
            RunningIsWatched, Astray, Held, Launched, slots, stop, bounds
<1>b. ASSUME Astray' \subseteq Astray, UNCHANGED bounds PROVE AstrayPaid'
  <2> HIDE DEF Astray
  <2>1. duplicates' + stopperFailures' = paid
    BY <1>b
  <2> QED
    BY <2>1, <1>a, <1>b, Shrinks DEF AstrayPaid
<1>1. CASE \E p \in Launched : Exit(p)
  BY <1>1, <1>b DEF Exit
<1>2. ASSUME NEW p \in Launched, Duplicate(p) PROVE AstrayPaid'
  <2>1. Astray' \subseteq Astray \cup {p}
    BY <1>2 DEF Duplicate
  <2>2. duplicates' + stopperFailures' = paid + 1
    BY <1>2, <1>a DEF Duplicate
  <2> HIDE DEF Astray
  <2> QED
    BY <2>1, <2>2, <1>a, Gains DEF AstrayPaid
<1>3. ASSUME NEW p \in Launched, NoteExit(p) PROVE AstrayPaid'
  <2>1. CASE state \in {"stopping", "stopped"}
    BY <1>3, <2>1, <1>b DEF NoteExit, Noted
  <2>2. CASE state \notin {"stopping", "stopped"} /\ (processId = 0 \/ p = processId)
    BY <1>3, <2>2, <1>b DEF NoteExit, Noted
  <2>3. CASE state \notin {"stopping", "stopped"} /\ processId # 0 /\ p # processId
    <3>1. p \in Astray /\ Astray' \subseteq (Astray \ {p}) \cup {processId}
      BY <1>3, <2>3 DEF NoteExit, Noted
    <3>2. UNCHANGED bounds
      BY <1>3 DEF NoteExit, Noted
    <3> HIDE DEF Astray
    <3> QED
      BY <3>1, <3>2, <1>a, Exchanges DEF AstrayPaid
  <2> QED
    BY <2>1, <2>2, <2>3
<1>4. CASE Degrade
  BY <1>4, <1>b DEF Degrade
<1>5. CASE Launch
  BY <1>5, <1>b DEF Launch
<1>6. CASE Spawn
  BY <1>6, <1>b DEF Spawn
<1>7. CASE SpawnFails \/ Spawned
  BY <1>7, <1>b DEF SpawnFails, Spawned
<1>8. CASE Stop \/ StopEnds
  BY <1>8, <1>b DEF Stop, StopEnds
<1>9. CASE Terminate
  <2>1. CASE UNCHANGED stopperFailures
    BY <1>9, <2>1, <1>b DEF Terminate
  <2>2. CASE stopperFailures' = stopperFailures + 1
    <3>1. Astray' \subseteq Astray \cup {processId}
      BY <1>9 DEF Terminate
    <3>2. duplicates' + stopperFailures' = paid + 1
      BY <1>9, <2>2, <1>a DEF Terminate
    <3> HIDE DEF Astray
    <3> QED
      BY <3>1, <3>2, <1>a, Gains DEF AstrayPaid
  <2> QED
    BY <1>9, <2>1, <2>2 DEF Terminate
<1>10. CASE UNCHANGED vars
  BY <1>10, <1>b DEF vars
<1> QED
  BY <1>1, <1>2, <1>3, <1>4, <1>5, <1>6, <1>7, <1>8, <1>9, <1>10 DEF Next, Watch

-----------------------------------------------------------------------------
(* The theorems. *)

\* Calls that follow one another keep the invariant.
LEMMA Invariance == ASSUME ~Overlaps PROVE Spec => []IInv
<1>1. Init => IInv
  BY InitTypes, InitProgress, InitAstray DEF IInv
<1>2. IInv /\ [Next]_vars => IInv'
  BY TypeStep, ProgressStep, AstrayStep DEF IInv
<1> QED
  BY <1>1, <1>2, PTL DEF Spec

\* capture-provider.lisp:96-115: as long as calls follow one another, a running
\* service has its process, and no more live ones are lost than exits were noted
\* twice and stoppers signalled.
THEOREM ProcessIsHeld == ASSUME ~Overlaps PROVE Spec => []KeepsHold
<1>1. ASSUME IInv PROVE OrphansPaid
  <2>1. Orphans \subseteq Astray
    BY <1>1 DEF IInv, CallsFollow, Orphans, Astray, Held
  <2>2. duplicates + stopperFailures \in Nat
    BY <1>1, CaptureAssumption DEF IInv, TypeInv, TypeOK
  <2> QED
    BY <2>1, <2>2, <1>1, Shrinks DEF IInv, AstrayPaid, OrphansPaid
<1>2. IInv => KeepsHold
  BY <1>1 DEF IInv, KeepsHold
<1> QED
  BY <1>2, Invariance, PTL

\* capture-provider.lisp:183: as long as calls follow one another, nothing that is
\* noted after a stop launches a process or changes the state.
THEOREM StoppedForGood == ASSUME ~Overlaps PROVE Spec => StopIsFinal
<1>1. ASSUME IInv, [Next]_vars PROVE state = "stopped" => UNCHANGED <<state, launches>>
  BY <1>1 DEF IInv, CallsFollow, Next, Watch, Exit, Duplicate, NoteExit, Noted, Degrade, Launch,
              Spawn, SpawnFails, Spawned, Stop, Terminate, StopEnds, slots, stop, bounds, vars
<1>2. IInv /\ [Next]_vars => [state = "stopped" => UNCHANGED <<state, launches>>]_vars
  BY <1>1
<1> QED
  BY <1>2, Invariance, PTL DEF Spec, StopIsFinal

-----------------------------------------------------------------------------
(* IPXReplay.  Frames.                                                      *)

\* A set of natural numbers has a least element: the intervals below its
\* elements are finite sets, of which one has no smaller one.
LEMMA Least ==
    ASSUME NEW T, T \subseteq Nat, T # {}
    PROVE  \E m \in T : \A k \in T : m <= k
<1> DEFINE Below(m) == 0..(m - 1)
           Order == StrictSubsetOrdering(Nat)
           Sets == {Below(m) : m \in T}
<1>1. \A m \in T : Below(m) \in SUBSET Nat /\ IsFiniteSet(Below(m))
  BY FS_Interval
<1>2. Sets \subseteq FiniteSubsetsOf(Nat) /\ Sets # {}
  BY <1>1 DEF FiniteSubsetsOf
<1>3. PICK x \in Sets : \A y \in Sets : <<y, x>> \notin Order
  <2> HIDE DEF Order, Sets
  <2>1. IsWellFoundedOn(Order, FiniteSubsetsOf(Nat))
    BY FS_StrictSubsetOrderingWellFounded DEF Order
  <2> QED BY <1>2, <2>1, WFMin, Zenon
<1>4. PICK m \in T : x = Below(m)
  BY <1>3
<1>5. ASSUME NEW k \in T, k < m
      PROVE  FALSE
  <2>1. Below(k) \in Sets /\ Below(k) \subseteq Nat /\ x \subseteq Nat
    BY <1>1, <1>4
  <2>2. Below(k) \subseteq x /\ k \in x /\ k \notin Below(k)
    BY <1>4, <1>5
  <2>3. <<Below(k), x>> \in Order
    BY <2>1, <2>2 DEF StrictSubsetOrdering
  <2> QED BY <1>3, <2>1, <2>3
<1>6. \A k \in T : m <= k
  BY <1>5
<1> QED BY <1>6

\* If a set of natural numbers is bounded, it has a greatest element.
LEMMA Greatest ==
    ASSUME NEW T, T \subseteq Nat, T # {}, NEW b \in Nat, \A k \in T : k <= b
    PROVE  \E m \in T : \A k \in T : k <= m
<1> DEFINE Bounds == {n \in Nat : \A k \in T : k <= n}
<1>1. PICK m \in Bounds : \A n \in Bounds : m <= n
  BY Least
<1>2. PICK k \in T : TRUE
  OBVIOUS
<1>3. CASE m \in T
  BY <1>3
<1>4. CASE m \notin T
  <2>1. \A n \in T : n < m
    BY <1>4
  <2>2. m - 1 \in Bounds
    BY <1>2, <2>1
  <2> QED BY <1>1, <2>2
<1> QED BY <1>3, <1>4

LEMMA EndsType ==
    ASSUME NEW s \in Seq(Cell), NEW p \in Nat
    PROVE  Ends(s, p) \subseteq Nat /\ Ends(s, p) \subseteq 1..Len(s)
BY LenProperties DEF Ends

\* A frame ends at the first newline after its start.
LEMMA FirstEnd ==
    ASSUME NEW s \in Seq(Cell), NEW p \in Nat, Ends(s, p) # {}
    PROVE  FrameEnd(s, p) \in Ends(s, p) /\ \A k \in Ends(s, p) : FrameEnd(s, p) <= k
<1>1. \E j \in Ends(s, p) : \A k \in Ends(s, p) : j <= k
  BY EndsType, Least, Zenon
<1> QED BY <1>1 DEF FrameEnd

LEMMA FrameEndType ==
    ASSUME NEW s \in Seq(Cell), NEW p \in Nat
    PROVE  FrameEnd(s, p) \in Nat /\ FrameEnd(s, p) <= Len(s)
<1>1. CASE Ends(s, p) = {}
  BY <1>1, LenProperties DEF FrameEnd
<1>2. CASE Ends(s, p) # {}
  BY <1>2, FirstEnd, EndsType, LenProperties
<1> QED BY <1>1, <1>2

\* A place of a spool where a frame may start.
Boundary(s, n) == n \in {0} \cup Ends(s, 0)

\* A frame is what stands between a boundary and the next newline.
LEMMA FrameShape ==
    ASSUME NEW s \in Seq(Cell), NEW a, NEW b
    PROVE  <<a, b>> \in Frames(s) <=>
               Boundary(s, a) /\ b \in Ends(s, a) /\ \A k \in Ends(s, a) : b <= k
<1>0. Ends(s, 0) \subseteq Nat /\ Len(s) \in Nat
  BY EndsType, LenProperties
<1>1. ASSUME <<a, b>> \in Frames(s)
      PROVE  Boundary(s, a) /\ b \in Ends(s, a) /\ \A k \in Ends(s, a) : b <= k
  <2>1. Boundary(s, a) /\ b \in Ends(s, 0) /\ a < b /\ FrameEnd(s, a) = b /\ a \in Nat
    BY <1>0, <1>1 DEF Frames, Boundary
  <2>2. b \in Ends(s, a)
    BY <2>1, <1>0 DEF Ends
  <2> QED BY <2>1, <2>2, FirstEnd
<1>2. ASSUME Boundary(s, a), b \in Ends(s, a), \A k \in Ends(s, a) : b <= k
      PROVE  <<a, b>> \in Frames(s)
  <2>1. a \in Nat
    BY <1>0, <1>2 DEF Boundary
  <2>2. FrameEnd(s, a) \in Ends(s, a) /\ \A k \in Ends(s, a) : FrameEnd(s, a) <= k
    BY <1>2, <2>1, FirstEnd
  <2>3. Ends(s, a) \subseteq Nat
    BY <2>1, EndsType
  <2>4. FrameEnd(s, a) = b
    BY <1>2, <2>2, <2>3
  <2>5. a < b /\ b \in Ends(s, 0)
    BY <1>0, <1>2, <2>1 DEF Ends
  <2> QED BY <1>2, <2>4, <2>5 DEF Frames, Boundary
<1> QED BY <1>1, <1>2

LEMMA FrameType ==
    ASSUME NEW s \in Seq(Cell), NEW a, NEW b, <<a, b>> \in Frames(s)
    PROVE  a \in Nat /\ b \in Nat /\ a < b /\ b <= Len(s) /\ Boundary(s, b)
<1>1. Boundary(s, a) /\ b \in Ends(s, a)
  BY FrameShape
<1>2. a \in Nat
  BY <1>1, EndsType DEF Boundary
<1> QED BY <1>1, <1>2, LenProperties DEF Boundary, Ends

-----------------------------------------------------------------------------
(* A spool that grows. *)

\* T is S and perhaps more.
Grown(s, t) == Len(s) <= Len(t) /\ \A k \in 1..Len(s) : t[k] = s[k]

LEMMA GrownEnds ==
    ASSUME NEW s \in Seq(Cell), NEW t \in Seq(Cell), Grown(s, t), NEW p \in Nat
    PROVE  \A k : k \in Ends(s, p) <=> k \in Ends(t, p) /\ k <= Len(s)
BY LenProperties DEF Grown, Ends

LEMMA GrownBoundary ==
    ASSUME NEW s \in Seq(Cell), NEW t \in Seq(Cell), Grown(s, t), NEW n
    PROVE  Boundary(s, n) <=> Boundary(t, n) /\ n <= Len(s)
BY GrownEnds, LenProperties DEF Boundary

\* The frames of a spool are those of a longer one that end in it.
LEMMA GrownFrames ==
    ASSUME NEW s \in Seq(Cell), NEW t \in Seq(Cell), Grown(s, t), NEW a, NEW b
    PROVE  <<a, b>> \in Frames(s) <=> <<a, b>> \in Frames(t) /\ b <= Len(s)
<1>1. ASSUME <<a, b>> \in Frames(s)
      PROVE  <<a, b>> \in Frames(t) /\ b <= Len(s)
  <2>1. Boundary(s, a) /\ b \in Ends(s, a) /\ \A k \in Ends(s, a) : b <= k
    BY <1>1, FrameShape
  <2>2. a \in Nat /\ b \in Nat /\ b <= Len(s)
    BY <1>1, FrameType
  <2>3. Boundary(t, a) /\ b \in Ends(t, a)
    BY <2>1, <2>2, GrownBoundary, GrownEnds
  <2>4. ASSUME NEW k \in Ends(t, a)
        PROVE  b <= k
    <3>1. k \in Nat /\ Len(s) \in Nat
      BY <2>2, EndsType, LenProperties
    <3>2. CASE k <= Len(s)
      BY <2>1, <2>2, <3>2, GrownEnds
    <3>3. CASE k > Len(s)
      BY <2>2, <3>1, <3>3
    <3> QED BY <3>1, <3>2, <3>3
  <2> QED BY <2>2, <2>3, <2>4, FrameShape
<1>2. ASSUME <<a, b>> \in Frames(t), b <= Len(s)
      PROVE  <<a, b>> \in Frames(s)
  <2>1. Boundary(t, a) /\ b \in Ends(t, a) /\ \A k \in Ends(t, a) : b <= k
    BY <1>2, FrameShape
  <2>2. a \in Nat /\ b \in Nat /\ a < b /\ Len(s) \in Nat
    BY <1>2, FrameType, LenProperties
  <2>3. Boundary(s, a) /\ b \in Ends(s, a)
    BY <1>2, <2>1, <2>2, GrownBoundary, GrownEnds
  <2> QED BY <2>1, <2>2, <2>3, GrownEnds, FrameShape
<1> QED BY <1>1, <1>2

\* What stands in a frame does not change.
LEMMA GrownContent ==
    ASSUME NEW s \in Seq(Cell), NEW t \in Seq(Cell), Grown(s, t),
           NEW a \in Nat, NEW b \in Nat, b <= Len(s)
    PROVE  SubSeq(s, a + 1, b) = SubSeq(t, a + 1, b)
<1> DEFINE S == SubSeq(s, a + 1, b)
           T == SubSeq(t, a + 1, b)
<1>0. Len(s) \in Nat /\ Len(t) \in Nat /\ Len(s) <= Len(t)
  BY LenProperties DEF Grown
<1>1. \A i \in (a + 1)..b : s[i] \in Cell /\ t[i] = s[i]
  BY <1>0, ElementOfSeq DEF Grown
<1>2. /\ S \in Seq(Cell)
      /\ Len(S) = IF a + 1 <= b THEN b - (a + 1) + 1 ELSE 0
      /\ \A i \in 1..(b - (a + 1) + 1) : S[i] = s[(a + 1) + i - 1]
  BY <1>1, SubSeqProperties
<1>3. /\ T \in Seq(Cell)
      /\ Len(T) = IF a + 1 <= b THEN b - (a + 1) + 1 ELSE 0
      /\ \A i \in 1..(b - (a + 1) + 1) : T[i] = t[(a + 1) + i - 1]
  BY <1>1, SubSeqProperties
<1> HIDE DEF S, T
<1>4. \A i \in 1..Len(S) : S[i] = T[i]
  BY <1>1, <1>2, <1>3
<1>5. S = T
  BY <1>2, <1>3, <1>4, SeqEqual
<1> QED BY <1>5 DEF S, T

LEMMA GrownAppend ==
    ASSUME NEW s \in Seq(Cell), NEW cell \in Cell
    PROVE  Append(s, cell) \in Seq(Cell) /\ Grown(s, Append(s, cell))
BY AppendProperties, LenProperties DEF Grown

LEMMA GrownSame ==
    ASSUME NEW s \in Seq(Cell)
    PROVE  Grown(s, s)
BY LenProperties DEF Grown

LEMMA GrownPrefix ==
    ASSUME NEW t \in Seq(Cell), NEW n \in Nat, n <= Len(t)
    PROVE  Prefix(t, n) \in Seq(Cell) /\ Len(Prefix(t, n)) = n /\ Grown(Prefix(t, n), t)
<1>1. \A i \in 1..n : t[i] \in Cell
  BY ElementOfSeq, LenProperties
<1>2. /\ Prefix(t, n) \in Seq(Cell)
      /\ Len(Prefix(t, n)) = n
      /\ \A i \in 1..n : Prefix(t, n)[i] = t[i]
  BY <1>1, SubSeqProperties DEF Prefix
<1> QED BY <1>2 DEF Grown

\* What IPX-READ-FRAME returns at a boundary, with its newline, is a frame.
LEMMA ReadsFrame ==
    ASSUME NEW s \in Seq(Cell), NEW a, Boundary(s, a), a < Len(s), s[FrameEnd(s, a)].newline
    PROVE  <<a, FrameEnd(s, a)>> \in Frames(s)
<1>1. a \in Nat /\ Len(s) \in Nat
  BY EndsType, LenProperties DEF Boundary
<1>2. Ends(s, a) # {}
  <2>1. SUFFICES ASSUME Ends(s, a) = {}
                 PROVE  FALSE
    OBVIOUS
  <2>2. FrameEnd(s, a) = Len(s)
    BY <2>1 DEF FrameEnd
  <2>3. Len(s) \in Ends(s, a)
    BY <1>1, <2>2 DEF Ends
  <2> QED BY <2>1, <2>3
<1> QED BY <1>1, <1>2, FirstEnd, FrameShape

\* No frame overlaps another: one that ends no later than <<A, B>> ends no
\* later than A, or is <<A, B>>.
LEMMA FramesInOrder ==
    ASSUME NEW s \in Seq(Cell), NEW a, NEW b, <<a, b>> \in Frames(s),
           NEW c, NEW d, <<c, d>> \in Frames(s), d <= b, ~(d <= a)
    PROVE  c = a /\ d = b
<1>1. Boundary(s, a) /\ b \in Ends(s, a) /\ \A k \in Ends(s, a) : b <= k
  BY FrameShape
<1>2. Boundary(s, c) /\ d \in Ends(s, c) /\ \A k \in Ends(s, c) : d <= k
  BY FrameShape
<1>3. {a, b, c, d} \subseteq Nat /\ a < b /\ c < d /\ b <= Len(s) /\ Len(s) \in Nat
  BY FrameType, LenProperties
<1>4. d = b
  <2>1. d \in Ends(s, a)
    BY <1>2, <1>3 DEF Ends
  <2> QED BY <1>1, <1>3, <2>1
<1>5. CASE c < a
  <2>1. a \in Ends(s, c)
    BY <1>1, <1>3, <1>5 DEF Ends, Boundary
  <2> QED BY <1>2, <1>3, <2>1
<1>6. CASE a < c
  <2>1. c \in Ends(s, a)
    BY <1>2, <1>3, <1>6 DEF Ends, Boundary
  <2> QED BY <1>1, <1>3, <1>4, <2>1
<1> QED BY <1>3, <1>4, <1>5, <1>6

-----------------------------------------------------------------------------
(* Types. *)

\* The checkpoints have a latest one.
CheckpointsBounded == \E b \in Nat : \A c \in checkpoints : c.offset <= b

LEMMA LatestType ==
    ASSUME checkpoints \subseteq Checkpoint, CheckpointsBounded
    PROVE  /\ LatestOffset \in Nat
           /\ LatestOffset > 0 => \E c \in checkpoints : c.offset = LatestOffset
<1> DEFINE Offsets == {c.offset : c \in checkpoints}
<1>1. \A c \in checkpoints : c.offset \in Nat
  BY DEF Checkpoint
<1>2. CASE checkpoints = {}
  BY <1>2 DEF LatestOffset
<1>3. CASE checkpoints # {}
  <2>1. PICK b \in Nat : \A c \in checkpoints : c.offset <= b
    BY DEF CheckpointsBounded
  <2>2. Offsets \subseteq Nat /\ Offsets # {} /\ \A k \in Offsets : k <= b
    BY <1>1, <1>3, <2>1
  <2>3. \E m \in Offsets : \A k \in Offsets : k <= m
    <3> HIDE DEF Offsets
    <3> QED BY <2>2, Greatest
  <2>4. \E m \in Offsets : \A c \in checkpoints : c.offset <= m
    BY <2>3
  <2>5. LatestOffset \in Offsets
    BY <1>3, <2>4 DEF LatestOffset
  <2> QED BY <1>1, <2>5
<1> QED BY <1>2, <1>3

\* The parts of ReplayTypeOK, for what follows.
LEMMA Parts ==
    ASSUME ReplayTypeOK
    PROVE  /\ Len(files) = MaxFiles
           /\ Spool \in Seq(Cell)
           /\ \A i \in 1..MaxFiles : files[i] \in Seq(Cell)
           /\ current \in 1..MaxFiles
           /\ \A r \in Replays : replay[r] \in Progress
           /\ checkpoints \subseteq Checkpoint
BY ElementOfSeq DEF ReplayTypeOK, Spool

LEMMA ProgressType ==
    ASSUME NEW p \in Progress
    PROVE  /\ p.from \in Nat /\ p.file \in 0..MaxFiles /\ p.pos \in Nat /\ p.end \in Nat
           /\ p.last \in Flows \cup {"quarantine", "nil"}
BY DEF Progress

LEMMA IdleType == IdleReplay \in Progress
BY IPXAssumption DEF IdleReplay, Progress

\* What a replay becomes has the type if its parts have.
LEMMA BecomesType ==
    ASSUME ReplayTypeOK, NEW r \in Replays, NEW p \in Progress, ReplayBecomes(r, p)
    PROVE  replay' \in [Replays -> Progress]
BY DEF ReplayTypeOK, ReplayBecomes

LEMMA InitType == ReplayInit => ReplayTypeOK
<1> SUFFICES ASSUME ReplayInit
             PROVE  ReplayTypeOK
  OBVIOUS
<1> USE IPXAssumption
<1>1. files \in Seq(Seq(Cell)) /\ Len(files) = MaxFiles
  <2>1. <<>> \in Seq(Cell)
    BY EmptySeq
  <2>2. files \in [1..MaxFiles -> Seq(Cell)]
    BY <2>1 DEF ReplayInit
  <2> QED BY <2>2, SeqDef, LenProperties DEF ReplayInit
<1>2. replay \in [Replays -> Progress]
  BY IdleType DEF ReplayInit
<1> QED BY <1>1, <1>2 DEF ReplayInit, ReplayTypeOK

\* A cell is written to a file.
LEMMA AppendType ==
    ASSUME ReplayTypeOK, NEW f \in 1..MaxFiles, NEW cell \in Cell, Append2(f, cell)
    PROVE  /\ files' \in Seq(Seq(Cell)) /\ Len(files') = MaxFiles
           /\ \A i \in 1..MaxFiles : Grown(files[i], files'[i])
<1>1. files \in Seq(Seq(Cell)) /\ Len(files) = MaxFiles
  BY DEF ReplayTypeOK
<1>2. \A i \in 1..MaxFiles : files[i] \in Seq(Cell)
  BY Parts
<1>3. Append(files[f], cell) \in Seq(Cell) /\ Grown(files[f], Append(files[f], cell))
  BY <1>2, GrownAppend
<1>4. files' = [files EXCEPT ![f] = Append(files[f], cell)]
  BY DEF Append2
<1>5. /\ files' \in Seq(Seq(Cell)) /\ Len(files') = Len(files)
      /\ \A i \in 1..Len(files) : files'[i] = IF i = f THEN Append(files[f], cell) ELSE files[i]
  BY <1>1, <1>3, <1>4, ExceptSeq
<1>6. \A i \in 1..MaxFiles : Grown(files[i], files'[i])
  BY <1>1, <1>2, <1>3, <1>5, GrownSame
<1> QED BY <1>1, <1>5, <1>6

-----------------------------------------------------------------------------
(* The invariant. *)

\* A frame is accounted for: a valid record is an exchange of the graph, and
\* any other frame has a quarantine at its offset.
Passed(content, f) ==
    IF Decodable(content, f)
    THEN \E e \in exchanges : e.start = f[1] /\ e.end = f[2] /\ Decodes(content, f[1], f[2], e.flow)
    ELSE \E q \in quarantines : q.offset = f[1]

PassedUpTo(content, n) == \A f \in Frames(content) : f[2] <= n => Passed(content, f)

\* A checkpoint has passed all frames of the prefix it stands for.
CheckpointsPass ==
    \A c \in checkpoints :
        /\ c.offset = Len(c.prefix)
        /\ Boundary(c.prefix, c.offset)
        /\ PassedUpTo(c.prefix, c.offset)

\* Where a replay reads the spool, and where it stands between two newlines.
Reading == {"read", "truncated", "malformed", "put truncated", "put malformed", "exchange",
            "checkpoint"}

Framed == {"malformed", "put malformed", "exchange", "checkpoint"}

\* A replay with progress P reads the spool that stands at the path, is at a
\* boundary of it, and has passed the frames before.
Follows(p) ==
    /\ p.pc # "hung"
    /\ p.pc = "open" => Boundary(Spool, p.from) /\ PassedUpTo(Spool, p.from)
    /\ p.pc \in Reading =>
           p.file = current /\ Boundary(Spool, p.pos) /\ PassedUpTo(Spool, p.pos)
    /\ p.pc \in Framed => <<p.pos, p.end>> \in Frames(Spool)
    /\ p.pc = "exchange" => p.last \in Flows /\ Decodes(Spool, p.pos, p.end, p.last)
    /\ p.pc \in {"malformed", "put malformed"} => ~Decodable(Spool, <<p.pos, p.end>>)
    /\ p.pc = "checkpoint" => Passed(Spool, <<p.pos, p.end>>)

ReplaysFollow == \A r \in Replays : Follows(replay[r])

ReplayIInv ==
    /\ ReplayTypeOK
    /\ CheckpointsBounded
    /\ CheckpointsPass
    /\ ExchangesAreFrames
    /\ ReplaysFollow

-----------------------------------------------------------------------------
(* Types are kept. *)

\* Steps of the proxy, of the path and of the process.
LEMMA OthersType ==
    ASSUME ReplayIInv,
           \/ \E x \in Flows : WriteHead(x)
           \/ WriteTail \/ LoseTail \/ ReplaceSpool \/ Crash
    PROVE  ReplayTypeOK' /\ CheckpointsBounded'
<1> USE IPXAssumption DEF ReplayIInv
<1>1. ASSUME NEW x \in Flows, WriteHead(x)
      PROVE  ReplayTypeOK' /\ CheckpointsBounded'
  <2>1. RecordOf(x)[1] \in Cell
    BY DEF RecordOf, Cell
  <2>2. files' \in Seq(Seq(Cell)) /\ Len(files') = MaxFiles
    BY <1>1, <2>1, Parts, AppendType DEF WriteHead
  <2>3. fired' \in [Flows -> 0..Firings]
    BY <1>1 DEF WriteHead, ReplayTypeOK
  <2>4. writer' \in [pc: {"writing"}, flow: Flows, file: 1..MaxFiles]
    BY <1>1 DEF WriteHead, ReplayTypeOK
  <2> QED BY <1>1, <2>2, <2>3, <2>4 DEF WriteHead, ReplayTypeOK, CheckpointsBounded, graph
<1>2. ASSUME WriteTail
      PROVE  ReplayTypeOK' /\ CheckpointsBounded'
  <2>1. writer \in [pc: {"writing"}, flow: Flows, file: 1..MaxFiles]
    BY <1>2 DEF WriteTail, ReplayTypeOK
  <2>2. writer.file \in 1..MaxFiles /\ RecordOf(writer.flow)[2] \in Cell
    BY <2>1 DEF RecordOf, Cell
  <2>3. files' \in Seq(Seq(Cell)) /\ Len(files') = MaxFiles
    BY <1>2, <2>2, AppendType DEF WriteTail
  <2>4. writer' \in [pc: {"idle"}, flow: {"nil"}, file: {0}]
    BY <1>2 DEF WriteTail
  <2> QED BY <1>2, <2>3, <2>4 DEF WriteTail, ReplayTypeOK, CheckpointsBounded, graph
<1>3. ASSUME LoseTail
      PROVE  ReplayTypeOK' /\ CheckpointsBounded'
  <2>1. writer' \in [pc: {"idle"}, flow: {"nil"}, file: {0}]
    BY <1>3 DEF LoseTail
  <2> QED BY <1>3, <2>1 DEF LoseTail, ReplayTypeOK, CheckpointsBounded, graph
<1>4. ASSUME ReplaceSpool
      PROVE  ReplayTypeOK' /\ CheckpointsBounded'
  <2>1. current' \in 1..MaxFiles
    BY <1>4, Parts DEF ReplaceSpool
  <2> QED BY <1>4, <2>1 DEF ReplaceSpool, ReplayTypeOK, CheckpointsBounded, graph
<1>5. ASSUME Crash
      PROVE  ReplayTypeOK' /\ CheckpointsBounded'
  <2>1. replay' \in [Replays -> Progress]
    BY <1>5, IdleType DEF Crash
  <2>2. crashes' \in 0..MaxCrashes
    <3>1. crashes \in 0..MaxCrashes
      BY DEF ReplayTypeOK
    <3> QED BY <1>5, <3>1 DEF Crash
  <2> QED BY <1>5, <2>1, <2>2 DEF Crash, ReplayTypeOK, CheckpointsBounded, graph, capture
<1> QED BY <1>1, <1>2, <1>3, <1>4, <1>5

\* A replay that only goes on.
LEMMA GoesOnType ==
    ASSUME ReplayIInv, replay' \in [Replays -> Progress], UNCHANGED <<capture, graph, crashes>>
    PROVE  ReplayTypeOK' /\ CheckpointsBounded'
BY DEF ReplayIInv, ReplayTypeOK, CheckpointsBounded, capture, graph

LEMMA ReplayType ==
    ASSUME ReplayIInv, NEW r \in Replays, ReplayStep(r)
    PROVE  ReplayTypeOK' /\ CheckpointsBounded'
<1> USE DEF ReplayIInv
<1>0. replay[r] \in Progress /\ IdleReplay \in Progress /\ Spool \in Seq(Cell)
  BY Parts, IdleType
<1>1. ASSUME Begin(r)
      PROVE  ReplayTypeOK' /\ CheckpointsBounded'
  <2>1. LatestOffset \in Nat
    BY Parts, LatestType
  <2>2. [IdleReplay EXCEPT !.from = LatestOffset,
                           !.pc = IF LatestOffset > 0 THEN "verify" ELSE "open"] \in Progress
    BY <1>0, <2>1 DEF Progress
  <2> QED BY <1>1, <2>2, BecomesType, GoesOnType DEF Begin
<1>2. ASSUME Verify(r)
      PROVE  ReplayTypeOK' /\ CheckpointsBounded'
  <2>1. [replay[r] EXCEPT !.pc = "open"] \in Progress
    BY <1>0 DEF Progress
  <2> QED BY <1>0, <1>2, <2>1, BecomesType, GoesOnType DEF Verify
<1>3. ASSUME Open(r)
      PROVE  ReplayTypeOK' /\ CheckpointsBounded'
  <2>1. [replay[r] EXCEPT !.pc = "read", !.file = current, !.pos = replay[r].from] \in Progress
    <3>1. current \in 0..MaxFiles
      BY Parts, IPXAssumption
    <3> QED BY <1>0, <3>1 DEF Progress
  <2> QED BY <1>3, <2>1, BecomesType, GoesOnType DEF Open
<1>4. ASSUME ReadFrame(r)
      PROVE  ReplayTypeOK' /\ CheckpointsBounded'
  <2> DEFINE end == FrameEnd(files[replay[r].file], replay[r].pos)
             Goes(pc, l) == [replay[r] EXCEPT !.pc = pc, !.end = end, !.last = l]
  <2>1. files[replay[r].file] = Spool
    BY <1>4 DEF ReadFrame, ReplaysFollow, Follows, Reading, Spool
  <2>2. end \in Nat
    BY <1>0, <2>1, FrameEndType, ProgressType
  <2> HIDE DEF end
  <2>3. /\ Goes("truncated", "nil") \in Progress
        /\ Goes("malformed", "nil") \in Progress
        /\ \A x \in Flows : Goes("exchange", x) \in Progress
    BY <1>0, <2>2 DEF Progress
  <2> HIDE DEF Goes
  <2>4. \E p \in Progress : ReplayBecomes(r, p)
    BY <1>0, <1>4, <2>3 DEF ReadFrame, Goes, end
  <2> QED BY <1>4, <2>4, BecomesType, GoesOnType DEF ReadFrame
<1>5. ASSUME FindQuarantine(r)
      PROVE  ReplayTypeOK' /\ CheckpointsBounded'
  <2>1. /\ [replay[r] EXCEPT !.pc = "put truncated"] \in Progress
        /\ [replay[r] EXCEPT !.pc = "put malformed"] \in Progress
        /\ [replay[r] EXCEPT !.pc = "checkpoint"] \in Progress
    BY <1>0 DEF Progress
  <2>2. \E p \in Progress : ReplayBecomes(r, p)
    BY <1>0, <1>5, <2>1 DEF FindQuarantine
  <2> QED BY <1>5, <2>2, BecomesType, GoesOnType DEF FindQuarantine
<1>6. ASSUME PutQuarantine(r)
      PROVE  ReplayTypeOK' /\ CheckpointsBounded'
  <2>1. [replay[r] EXCEPT !.pc = "checkpoint", !.last = "quarantine"] \in Progress
    BY <1>0 DEF Progress
  <2>2. replay' \in [Replays -> Progress]
    BY <1>0, <1>6, <2>1, BecomesType DEF PutQuarantine
  <2>3. quarantines' \subseteq Quarantine
    <3>1. \A t \in {"truncated", "malformed"} :
              [offset |-> replay[r].pos, end |-> replay[r].end, reason |-> t] \in Quarantine
      BY <1>0, ProgressType DEF Quarantine
    <3>2. quarantines \subseteq Quarantine
      BY DEF ReplayTypeOK
    <3> QED BY <1>6, <3>1, <3>2 DEF PutQuarantine
  <2> QED BY <1>6, <2>2, <2>3 DEF PutQuarantine, ReplayTypeOK, CheckpointsBounded, capture
<1>7. ASSUME PutExchange(r)
      PROVE  ReplayTypeOK' /\ CheckpointsBounded'
  <2>1. [replay[r] EXCEPT !.pc = "checkpoint"] \in Progress
    BY <1>0 DEF Progress
  <2>2. replay' \in [Replays -> Progress]
    BY <1>0, <1>7, <2>1, BecomesType DEF PutExchange
  <2>3. replay[r].last \in Flows
    BY <1>7 DEF PutExchange, ReplaysFollow, Follows
  <2>4. exchanges' \subseteq Exchange
    BY <1>0, <1>7, <2>3, ProgressType DEF PutExchange, Exchange, ReplayTypeOK
  <2> QED BY <1>7, <2>2, <2>4 DEF PutExchange, ReplayTypeOK, CheckpointsBounded, capture
<1>8. ASSUME PutCheckpoint(r)
      PROVE  ReplayTypeOK' /\ CheckpointsBounded'
  <2> DEFINE end == replay[r].end
             record == [offset |-> end, last |-> replay[r].last, prefix |-> Prefix(Spool, end)]
  <2>1. /\ [replay[r] EXCEPT !.pc = "hung"] \in Progress
        /\ [replay[r] EXCEPT !.pc = "read", !.pos = end] \in Progress
    BY <1>0 DEF Progress
  <2>2. replay' \in [Replays -> Progress]
    BY <1>0, <1>8, <2>1, BecomesType DEF PutCheckpoint
  <2>3. end \in Nat /\ Len(Spool) \in Nat
    BY <1>0, ProgressType, LenProperties
  <2>4. CASE checkpoints' = checkpoints
    BY <1>8, <2>2, <2>4 DEF PutCheckpoint, ReplayTypeOK, CheckpointsBounded, capture
  <2>5. CASE checkpoints' = checkpoints \cup {record} /\ ~(Len(Spool) < end)
    <3>1. Prefix(Spool, end) \in Seq(Cell)
      BY <1>0, <2>3, <2>5, GrownPrefix
    <3>2. record \in Checkpoint
      BY <1>0, <2>3, <3>1, ProgressType DEF Checkpoint
    <3>3. PICK b \in Nat : \A c \in checkpoints : c.offset <= b
      BY DEF CheckpointsBounded
    <3>4. \A c \in checkpoints : c.offset \in Nat
      BY Parts DEF Checkpoint
    <3>5. b + end \in Nat /\ \A c \in checkpoints' : c.offset <= b + end
      BY <2>3, <2>5, <3>3, <3>4
    <3>6. checkpoints' \subseteq Checkpoint
      BY <2>5, <3>2, Parts
    <3> QED BY <1>8, <2>2, <3>5, <3>6 DEF PutCheckpoint, ReplayTypeOK, CheckpointsBounded, capture
  <2> QED BY <1>8, <2>4, <2>5 DEF PutCheckpoint
<1> QED BY <1>1, <1>2, <1>3, <1>4, <1>5, <1>6, <1>7, <1>8 DEF ReplayStep

-----------------------------------------------------------------------------
(* What has been passed stays passed. *)

LEMMA GrownDecodes ==
    ASSUME NEW s \in Seq(Cell), NEW t \in Seq(Cell), Grown(s, t), NEW a, NEW b,
           <<a, b>> \in Frames(s), NEW x
    PROVE  Decodes(s, a, b, x) <=> Decodes(t, a, b, x)
<1>1. a \in Nat /\ b \in Nat /\ b <= Len(s)
  BY FrameType
<1>2. SubSeq(s, a + 1, b) = SubSeq(t, a + 1, b)
  BY <1>1, GrownContent
<1> QED BY <1>2 DEF Decodes

LEMMA GrownDecodable ==
    ASSUME NEW s \in Seq(Cell), NEW t \in Seq(Cell), Grown(s, t), NEW a, NEW b,
           <<a, b>> \in Frames(s)
    PROVE  Decodable(s, <<a, b>>) <=> Decodable(t, <<a, b>>)
BY GrownDecodes DEF Decodable

\* The prefix of a spool has passed what the spool has.
LEMMA PrefixPasses ==
    ASSUME NEW s \in Seq(Cell), NEW t \in Seq(Cell), Grown(s, t), NEW n \in Nat, n <= Len(s)
    PROVE  PassedUpTo(s, n) <=> PassedUpTo(t, n)
<1>1. \A f \in Frames(s) \cup Frames(t) : f = <<f[1], f[2]>> /\ f[1] \in Nat /\ f[2] \in Nat
  BY EndsType DEF Frames
<1>2. Len(s) \in Nat
  BY LenProperties
<1>3. ASSUME NEW f \in Frames(s)
      PROVE  f \in Frames(t) /\ (Passed(s, f) <=> Passed(t, f))
  <2>1. <<f[1], f[2]>> \in Frames(s)
    BY <1>1
  <2>2. <<f[1], f[2]>> \in Frames(t)
    BY <2>1, GrownFrames
  <2>3. \A x : Decodes(s, f[1], f[2], x) <=> Decodes(t, f[1], f[2], x)
    BY <2>1, GrownDecodes
  <2>4. Decodable(s, f) <=> Decodable(t, f)
    BY <2>3 DEF Decodable
  <2> QED BY <1>1, <2>2, <2>3, <2>4, Zenon DEF Passed
<1>4. ASSUME NEW f \in Frames(t), f[2] <= Len(s)
      PROVE  f \in Frames(s)
  <2>1. <<f[1], f[2]>> \in Frames(t)
    BY <1>1
  <2>2. <<f[1], f[2]>> \in Frames(s)
    BY <1>4, <2>1, GrownFrames
  <2> QED BY <1>1, <2>2
<1> QED BY <1>1, <1>2, <1>3, <1>4 DEF PassedUpTo

\* The graph keeps its records.
GraphGrows == exchanges \subseteq exchanges' /\ quarantines \subseteq quarantines'

LEMMA PassedKept ==
    ASSUME GraphGrows, NEW s, NEW f, Passed(s, f)
    PROVE  Passed(s, f)'
BY DEF GraphGrows, Passed

LEMMA PassedUpToKept ==
    ASSUME GraphGrows, NEW s \in Seq(Cell), NEW t \in Seq(Cell), Grown(s, t),
           NEW n \in Nat, n <= Len(s), PassedUpTo(s, n)
    PROVE  PassedUpTo(t, n)'
<1>1. PassedUpTo(t, n)
  BY PrefixPasses
<1> QED BY <1>1, PassedKept DEF PassedUpTo

\* The spool at the path is the same file and has not lost a cell.
SpoolGrows == current' = current /\ Spool' \in Seq(Cell) /\ Grown(Spool, Spool')

\* A replay that waits loses nothing by what the proxy and others do.
LEMMA FollowsKept ==
    ASSUME Spool \in Seq(Cell), SpoolGrows, GraphGrows, NEW p \in Progress, Follows(p)
    PROVE  Follows(p)'
<1>1. PICK s \in Seq(Cell) : s = Spool
  OBVIOUS
<1>2. PICK t \in Seq(Cell) : t = Spool'
  BY DEF SpoolGrows
<1>3. Grown(s, t) /\ Len(s) \in Nat
  BY <1>1, <1>2, LenProperties DEF SpoolGrows
<1>4. ASSUME NEW n \in Nat, Boundary(s, n), PassedUpTo(s, n)
      PROVE  Boundary(t, n) /\ PassedUpTo(t, n)'
  BY <1>3, <1>4, GrownBoundary, PassedUpToKept
<1>5. p.pc = "open" => Boundary(t, p.from) /\ PassedUpTo(t, p.from)'
  BY <1>1, <1>4, ProgressType DEF Follows
<1>6. p.pc \in Reading =>
          p.file = current' /\ Boundary(t, p.pos) /\ PassedUpTo(t, p.pos)'
  BY <1>1, <1>4, ProgressType DEF Follows, SpoolGrows
<1>7. p.pc \in Framed => <<p.pos, p.end>> \in Frames(s) /\ <<p.pos, p.end>> \in Frames(t)
  BY <1>1, <1>3, GrownFrames DEF Follows
<1>8. p.pc = "exchange" => p.last \in Flows /\ Decodes(t, p.pos, p.end, p.last)
  BY <1>1, <1>3, <1>7, GrownDecodes DEF Follows, Framed
<1>10. p.pc \in {"malformed", "put malformed"} => ~Decodable(t, <<p.pos, p.end>>)
  BY <1>1, <1>3, <1>7, GrownDecodable DEF Follows, Framed
<1>9. p.pc = "checkpoint" => Passed(t, <<p.pos, p.end>>)'
  <2>1. SUFFICES ASSUME p.pc = "checkpoint"
                 PROVE  Passed(t, <<p.pos, p.end>>)'
    OBVIOUS
  <2>2. Passed(s, <<p.pos, p.end>>) /\ <<p.pos, p.end>> \in Frames(s)
    BY <1>1, <1>7, <2>1 DEF Follows, Framed
  <2>3. \A x : Decodes(s, p.pos, p.end, x) <=> Decodes(t, p.pos, p.end, x)
    BY <1>3, <2>2, GrownDecodes
  <2>5. Decodable(s, <<p.pos, p.end>>) <=> Decodable(t, <<p.pos, p.end>>)
    BY <1>3, <2>2, GrownDecodable
  <2>4. Passed(t, <<p.pos, p.end>>)
    BY <2>2, <2>3, <2>5 DEF Passed
  <2> QED BY <2>4, PassedKept
<1> QED BY <1>2, <1>5, <1>6, <1>7, <1>8, <1>9, <1>10 DEF Follows, Framed, Reading

LEMMA CheckpointKept ==
    ASSUME GraphGrows, NEW c, c.offset = Len(c.prefix), Boundary(c.prefix, c.offset),
           PassedUpTo(c.prefix, c.offset)
    PROVE  /\ c.offset = Len(c.prefix)
           /\ Boundary(c.prefix, c.offset)
           /\ PassedUpTo(c.prefix, c.offset)'
BY PassedKept DEF PassedUpTo

LEMMA CheckpointsKept ==
    ASSUME GraphGrows, UNCHANGED checkpoints, CheckpointsPass
    PROVE  CheckpointsPass'
BY CheckpointKept DEF CheckpointsPass

\* No file loses a cell, and none comes back to the path.
FilesGrow ==
    /\ current' \in 1..MaxFiles /\ current <= current'
    /\ \A i \in 1..MaxFiles : files'[i] \in Seq(Cell) /\ Grown(files[i], files'[i])

\* What stands at the offsets of an exchange is still its record.
IsFrameOf(e, s) == <<e.start, e.end>> \in Frames(s) /\ SubSeq(s, e.start + 1, e.end) = RecordOf(e.flow)

LEMMA FrameOfKept ==
    ASSUME NEW s \in Seq(Cell), NEW t \in Seq(Cell), Grown(s, t), NEW e, IsFrameOf(e, s)
    PROVE  IsFrameOf(e, t)
<1>1. <<e.start, e.end>> \in Frames(s)
  BY DEF IsFrameOf
<1>2. <<e.start, e.end>> \in Frames(t)
  BY <1>1, GrownFrames
<1>3. e.start \in Nat /\ e.end \in Nat /\ e.end <= Len(s)
  BY <1>1, FrameType
<1>4. SubSeq(s, e.start + 1, e.end) = SubSeq(t, e.start + 1, e.end)
  BY <1>3, GrownContent
<1> QED BY <1>2, <1>4 DEF IsFrameOf

LEMMA ExchangesKept ==
    ASSUME ReplayTypeOK, ExchangesAreFrames, FilesGrow
    PROVE  \A e \in exchanges : \E i \in 1..current' : IsFrameOf(e, files'[i])
<1> SUFFICES ASSUME NEW e \in exchanges
             PROVE  \E i \in 1..current' : IsFrameOf(e, files'[i])
  OBVIOUS
<1>1. PICK i \in 1..current : IsFrameOf(e, files[i])
  BY DEF ExchangesAreFrames, IsFrameOf
<1>2. i \in 1..MaxFiles /\ i \in 1..current'
  BY <1>1, Parts, IPXAssumption DEF FilesGrow
<1>3. files[i] \in Seq(Cell) /\ files'[i] \in Seq(Cell) /\ Grown(files[i], files'[i])
  BY <1>2, Parts DEF FilesGrow
<1>4. IsFrameOf(e, files'[i])
  BY <1>1, <1>3, FrameOfKept
<1> QED BY <1>2, <1>4

\* The proxy writes, or another file comes to the path.
LEMMA OthersKeep ==
    ASSUME ReplayIInv, FilesGrow, UNCHANGED graph, ReplaysFollow'
    PROVE  CheckpointsPass' /\ ExchangesAreFrames' /\ ReplaysFollow'
<1>1. GraphGrows
  BY DEF graph, GraphGrows
<1>2. CheckpointsPass'
  BY <1>1, CheckpointsKept DEF graph, ReplayIInv
<1>3. ExchangesAreFrames'
  BY ExchangesKept DEF ExchangesAreFrames, IsFrameOf, ReplayIInv, graph
<1> QED BY <1>2, <1>3

LEMMA OthersSafe ==
    ASSUME ReplayIInv,
           \/ \E x \in Flows : WriteHead(x)
           \/ WriteTail \/ LoseTail \/ ReplaceSpool \/ Crash
    PROVE  CheckpointsPass' /\ ExchangesAreFrames' /\ ReplaysFollow'
<1> USE DEF ReplayIInv
<1>1. ASSUME FilesGrow, UNCHANGED <<current, graph, replay>>
      PROVE  CheckpointsPass' /\ ExchangesAreFrames' /\ ReplaysFollow'
  <2>1. Spool \in Seq(Cell) /\ SpoolGrows
    BY <1>1, Parts DEF SpoolGrows, FilesGrow, Spool
  <2>2. GraphGrows
    BY <1>1 DEF GraphGrows, graph
  <2>3. ASSUME NEW r \in Replays
        PROVE  Follows(replay[r])'
    <3>1. PICK p \in Progress : p = replay[r]
      BY Parts
    <3>2. Follows(p)'
      BY <2>1, <2>2, <3>1, FollowsKept DEF ReplaysFollow
    <3> QED BY <1>1, <3>1, <3>2
  <2> QED BY <1>1, <2>3, OthersKeep DEF ReplaysFollow
<1>2. ASSUME NEW f \in 1..MaxFiles, NEW cell \in Cell, Append2(f, cell), UNCHANGED current
      PROVE  FilesGrow
  BY <1>2, Parts, AppendType, ElementOfSeq, IPXAssumption DEF FilesGrow
<1>3. ASSUME UNCHANGED files, current' \in 1..MaxFiles, current <= current'
      PROVE  FilesGrow
  BY <1>3, Parts, GrownSame DEF FilesGrow
<1>4. \A p : p.pc = "idle" => Follows(p)'
  BY DEF Follows, Reading, Framed
<1>5. ASSUME NEW x \in Flows, WriteHead(x)
      PROVE  CheckpointsPass' /\ ExchangesAreFrames' /\ ReplaysFollow'
  <2>1. RecordOf(x)[1] \in Cell
    BY DEF RecordOf, Cell
  <2> QED BY <1>1, <1>2, <1>5, <2>1, Parts DEF WriteHead
<1>6. ASSUME WriteTail
      PROVE  CheckpointsPass' /\ ExchangesAreFrames' /\ ReplaysFollow'
  <2>1. writer \in [pc: {"writing"}, flow: Flows, file: 1..MaxFiles]
    BY <1>6 DEF WriteTail, ReplayTypeOK
  <2>2. writer.file \in 1..MaxFiles /\ RecordOf(writer.flow)[2] \in Cell
    BY <2>1 DEF RecordOf, Cell
  <2>3. PICK f \in 1..MaxFiles, cell \in Cell : f = writer.file /\ cell = RecordOf(writer.flow)[2]
    BY <2>2
  <2> QED BY <1>1, <1>2, <1>6, <2>3 DEF WriteTail
<1>7. ASSUME LoseTail
      PROVE  CheckpointsPass' /\ ExchangesAreFrames' /\ ReplaysFollow'
  BY <1>1, <1>3, <1>7, Parts DEF LoseTail
<1>8. ASSUME ReplaceSpool
      PROVE  CheckpointsPass' /\ ExchangesAreFrames' /\ ReplaysFollow'
  <2>1. FilesGrow
    BY <1>3, <1>8, Parts, IPXAssumption DEF ReplaceSpool
  <2>2. ReplaysFollow'
    <3>1. ASSUME NEW r \in Replays
          PROVE  Follows(replay[r])'
      <4>1. PICK p : p = replay[r]
        OBVIOUS
      <4> QED BY <1>4, <1>8, <4>1 DEF ReplaceSpool
    <3> QED BY <3>1 DEF ReplaysFollow
  <2> QED BY <1>8, <2>1, <2>2, OthersKeep DEF ReplaceSpool
<1>9. ASSUME Crash
      PROVE  CheckpointsPass' /\ ExchangesAreFrames' /\ ReplaysFollow'
  <2>1. FilesGrow
    BY <1>3, <1>9, Parts, IPXAssumption DEF Crash, capture
  <2>2. ReplaysFollow'
    BY <1>4, <1>9 DEF Crash, ReplaysFollow, IdleReplay
  <2> QED BY <1>9, <2>1, <2>2, OthersKeep DEF Crash
<1> QED BY <1>5, <1>6, <1>7, <1>8, <1>9

\* A replay goes on: the others follow as before.
LEMMA RestFollow ==
    ASSUME ReplayIInv, UNCHANGED capture, GraphGrows,
           NEW r \in Replays, NEW p \in Progress, ReplayBecomes(r, p), Follows(p)'
    PROVE  ReplaysFollow'
<1> USE DEF ReplayIInv
<1>1. Spool \in Seq(Cell) /\ SpoolGrows
  BY Parts, GrownSame DEF capture, SpoolGrows, Spool
<1>2. replay' = [replay EXCEPT ![r] = p] /\ replay \in [Replays -> Progress]
  BY DEF ReplayBecomes, ReplayTypeOK
<1>3. ASSUME NEW x \in Replays
      PROVE  Follows(replay[x])'
  <2>1. CASE x = r
    <3>1. replay'[x] = p
      BY <1>2, <2>1
    <3> QED BY <3>1
  <2>2. CASE x # r
    <3>1. PICK v \in Progress : v = replay[x]
      BY Parts
    <3>2. Follows(v)'
      BY <1>1, <3>1, FollowsKept DEF ReplaysFollow
    <3>3. replay'[x] = v
      BY <1>2, <2>2, <3>1
    <3> QED BY <3>2, <3>3
  <2> QED BY <2>1, <2>2
<1> QED BY <1>3 DEF ReplaysFollow

\* A replay only goes on: what holds of its progress before holds after.
LEMMA GoesOnSafe ==
    ASSUME ReplayIInv, UNCHANGED <<capture, graph>>,
           NEW r \in Replays, NEW p \in Progress, ReplayBecomes(r, p), Follows(p)
    PROVE  CheckpointsPass' /\ ExchangesAreFrames' /\ ReplaysFollow'
<1> USE DEF ReplayIInv
<1>1. GraphGrows
  BY DEF graph, GraphGrows
<1>2. Spool \in Seq(Cell) /\ SpoolGrows
  BY Parts, GrownSame DEF capture, SpoolGrows, Spool
<1>3. Follows(p)'
  BY <1>1, <1>2, FollowsKept
<1>4. ReplaysFollow'
  BY <1>1, <1>3, RestFollow
<1>5. CheckpointsPass'
  BY <1>1, CheckpointsKept DEF graph
<1>6. ExchangesAreFrames'
  BY DEF ExchangesAreFrames, graph, capture
<1> QED BY <1>4, <1>5, <1>6

LEMMA IdleFollows == Follows(IdleReplay) /\ Follows(IdleReplay)'
BY DEF Follows, Reading, Framed, IdleReplay

\* The latest checkpoint is fetched, and the fingerprint compared.
LEMMA OpensSafe ==
    ASSUME ReplayIInv, NEW r \in Replays, Begin(r) \/ Verify(r) \/ Open(r)
    PROVE  CheckpointsPass' /\ ExchangesAreFrames' /\ ReplaysFollow'
<1> USE DEF ReplayIInv
<1>0. Spool \in Seq(Cell) /\ replay[r] \in Progress /\ Follows(replay[r])
  BY Parts DEF ReplaysFollow
<1>1. ASSUME Begin(r)
      PROVE  CheckpointsPass' /\ ExchangesAreFrames' /\ ReplaysFollow'
  <2>1. LatestOffset \in Nat
    BY Parts, LatestType
  <2>2. PICK p : p = [IdleReplay EXCEPT !.from = LatestOffset,
                                        !.pc = IF LatestOffset > 0 THEN "verify" ELSE "open"]
    OBVIOUS
  <2>3. p \in Progress
    BY <2>1, <2>2, IdleType DEF Progress
  <2>4. p.pc = IF LatestOffset > 0 THEN "verify" ELSE "open"
    BY <2>2 DEF IdleReplay
  <2>5. p.from = LatestOffset
    BY <2>2 DEF IdleReplay
  <2>6. CASE p.pc = "verify"
    BY <1>1, <2>2, <2>3, <2>6, GoesOnSafe DEF Begin, Follows, Reading, Framed
  <2>7. CASE p.pc = "open" /\ p.from = 0
    <3>1. PassedUpTo(Spool, 0) /\ Boundary(Spool, 0)
      BY <1>0, EndsType DEF PassedUpTo, Boundary, Frames, Ends
    <3>2. Follows(p)
      BY <2>7, <3>1 DEF Follows, Reading, Framed
    <3> QED BY <1>1, <2>2, <2>3, <3>2, GoesOnSafe DEF Begin
  <2> QED BY <2>1, <2>4, <2>5, <2>6, <2>7
<1>2. ASSUME Verify(r), Fingerprints(replay[r].from)
      PROVE  CheckpointsPass' /\ ExchangesAreFrames' /\ ReplaysFollow'
  <2>1. PICK p : p = [replay[r] EXCEPT !.pc = "open"]
    OBVIOUS
  <2>2. p \in Progress /\ p.pc = "open" /\ p.from = replay[r].from
    BY <1>0, <2>1 DEF Progress
  <2>3. PICK c \in checkpoints : c.offset = p.from /\ c.prefix = Prefix(Spool, p.from)
    BY <1>2, <2>2 DEF Fingerprints
  <2>4. p.from \in Nat /\ p.from <= Len(Spool)
    BY <1>0, <1>2, <2>2, LenProperties, ProgressType DEF Fingerprints
  <2>5. /\ c.prefix \in Seq(Cell) /\ Grown(c.prefix, Spool) /\ Len(c.prefix) = p.from
    BY <1>0, <2>3, <2>4, GrownPrefix
  <2>6. Boundary(c.prefix, p.from) /\ PassedUpTo(c.prefix, p.from)
    BY <2>3 DEF CheckpointsPass
  <2>7. Boundary(Spool, p.from) /\ PassedUpTo(Spool, p.from)
    BY <1>0, <2>4, <2>5, <2>6, GrownBoundary, PrefixPasses
  <2>8. Follows(p)
    BY <2>2, <2>7 DEF Follows, Reading, Framed
  <2> QED BY <1>2, <2>1, <2>2, <2>8, GoesOnSafe DEF Verify
<1>3. ASSUME Verify(r), ~Fingerprints(replay[r].from)
      PROVE  CheckpointsPass' /\ ExchangesAreFrames' /\ ReplaysFollow'
  BY <1>3, IdleType, IdleFollows, GoesOnSafe DEF Verify
<1>4. ASSUME Open(r)
      PROVE  CheckpointsPass' /\ ExchangesAreFrames' /\ ReplaysFollow'
  <2>1. PICK p : p = [replay[r] EXCEPT !.pc = "read", !.file = current, !.pos = replay[r].from]
    OBVIOUS
  <2>2. current \in 0..MaxFiles
    BY Parts, IPXAssumption
  <2>3. p \in Progress /\ p.pc = "read" /\ p.file = current /\ p.pos = replay[r].from
    BY <1>0, <2>1, <2>2 DEF Progress
  <2>4. Boundary(Spool, p.pos) /\ PassedUpTo(Spool, p.pos)
    BY <1>0, <1>4, <2>3 DEF Open, Follows
  <2>5. Follows(p)
    BY <2>3, <2>4 DEF Follows, Reading, Framed
  <2> QED BY <1>4, <2>1, <2>3, <2>5, GoesOnSafe DEF Open
<1> QED BY <1>1, <1>2, <1>3, <1>4

\* A frame is read, and looked up among the quarantines.
LEMMA ReadsSafe ==
    ASSUME ReplayIInv, NEW r \in Replays, ReadFrame(r) \/ FindQuarantine(r)
    PROVE  CheckpointsPass' /\ ExchangesAreFrames' /\ ReplaysFollow'
<1> USE DEF ReplayIInv
<1>0. Spool \in Seq(Cell) /\ replay[r] \in Progress /\ Follows(replay[r])
  BY Parts DEF ReplaysFollow
<1>1. ASSUME ReadFrame(r)
      PROVE  CheckpointsPass' /\ ExchangesAreFrames' /\ ReplaysFollow'
  <2> DEFINE start == replay[r].pos
             end == FrameEnd(Spool, start)
             Goes(pc, l) == [replay[r] EXCEPT !.pc = pc, !.end = end, !.last = l]
  <2>1. /\ replay[r].file = current
        /\ Boundary(Spool, start) /\ PassedUpTo(Spool, start)
    BY <1>0, <1>1 DEF ReadFrame, Follows, Reading
  <2>2. start \in Nat /\ end \in Nat
    BY <1>0, ProgressType, FrameEndType
  <2>3. \/ ReplayBecomes(r, IdleReplay)
        \/ ReplayBecomes(r, Goes("truncated", "nil"))
        \/ /\ start < Len(Spool) /\ Spool[end].newline
           /\ \/ \E x \in Flows : Decodes(Spool, start, end, x) /\ ReplayBecomes(r, Goes("exchange", x))
              \/ /\ ~Decodable(Spool, <<start, end>>)
                 /\ ReplayBecomes(r, Goes("malformed", "nil"))
    BY <1>1, <2>1 DEF ReadFrame, Spool, Decodable
  <2>4. UNCHANGED <<capture, graph>>
    BY <1>1 DEF ReadFrame
  <2> HIDE DEF end
  <2>5. ASSUME NEW pc \in {"truncated", "malformed", "exchange"},
               NEW l \in Flows \cup {"nil"}, NEW p, p = Goes(pc, l)
        PROVE  /\ p \in Progress
               /\ p.pc = pc /\ p.file = current /\ p.pos = start /\ p.end = end /\ p.last = l
    BY <1>0, <2>1, <2>2, <2>5 DEF Progress
  <2> HIDE DEF Goes
  <2>6. CASE ReplayBecomes(r, IdleReplay)
    BY <2>4, <2>6, IdleType, IdleFollows, GoesOnSafe
  <2>7. CASE ReplayBecomes(r, Goes("truncated", "nil"))
    <3>1. PICK p : p = Goes("truncated", "nil")
      OBVIOUS
    <3>2. p \in Progress /\ p.pc = "truncated" /\ p.file = current /\ p.pos = start
      BY <2>5, <3>1
    <3>3. Follows(p)
      BY <2>1, <3>2 DEF Follows, Framed
    <3> QED BY <2>4, <2>7, <3>1, <3>2, <3>3, GoesOnSafe
  <2>8. CASE start < Len(Spool) /\ Spool[end].newline
    <3>1. <<start, end>> \in Frames(Spool)
      BY <1>0, <2>1, <2>8, ReadsFrame DEF end
    <3>2. ASSUME NEW x \in Flows, Decodes(Spool, start, end, x), ReplayBecomes(r, Goes("exchange", x))
          PROVE  CheckpointsPass' /\ ExchangesAreFrames' /\ ReplaysFollow'
      <4>1. PICK p : p = Goes("exchange", x)
        OBVIOUS
      <4>2. /\ p \in Progress /\ p.pc = "exchange" /\ p.file = current /\ p.pos = start
            /\ p.end = end /\ p.last = x
        BY <2>5, <4>1
      <4>3. Follows(p)
        BY <2>1, <3>1, <3>2, <4>2 DEF Follows, Framed
      <4> QED BY <2>4, <3>2, <4>1, <4>2, <4>3, GoesOnSafe
    <3>3. ASSUME ~Decodable(Spool, <<start, end>>), ReplayBecomes(r, Goes("malformed", "nil"))
          PROVE  CheckpointsPass' /\ ExchangesAreFrames' /\ ReplaysFollow'
      <4>1. PICK p : p = Goes("malformed", "nil")
        OBVIOUS
      <4>2. /\ p \in Progress /\ p.pc = "malformed" /\ p.file = current /\ p.pos = start
            /\ p.end = end
        BY <2>5, <4>1
      <4>3. Follows(p)
        BY <2>1, <3>1, <3>3, <4>2 DEF Follows, Framed
      <4> QED BY <2>4, <3>3, <4>1, <4>2, <4>3, GoesOnSafe
    <3> QED BY <2>3, <2>6, <2>7, <3>2, <3>3
  <2> QED BY <2>3, <2>6, <2>7, <2>8
<1>2. ASSUME FindQuarantine(r)
      PROVE  CheckpointsPass' /\ ExchangesAreFrames' /\ ReplaysFollow'
  <2>1. UNCHANGED <<capture, graph>> /\ replay[r].pc \in {"truncated", "malformed"}
    BY <1>2 DEF FindQuarantine
  <2>2. CASE ReplayBecomes(r, IdleReplay)
    BY <2>1, <2>2, IdleType, IdleFollows, GoesOnSafe
  <2>3. CASE ReplayBecomes(r, [replay[r] EXCEPT !.pc = IF replay[r].pc = "truncated"
                                                       THEN "put truncated" ELSE "put malformed"])
    <3>1. PICK p : p = [replay[r] EXCEPT !.pc = IF replay[r].pc = "truncated"
                                                THEN "put truncated" ELSE "put malformed"]
      OBVIOUS
    <3>2. /\ p \in Progress /\ p.file = replay[r].file /\ p.pos = replay[r].pos /\ p.end = replay[r].end
          /\ p.pc = IF replay[r].pc = "truncated" THEN "put truncated" ELSE "put malformed"
      BY <1>0, <3>1 DEF Progress
    <3>3. Follows(p)
      BY <1>0, <2>1, <3>2 DEF Follows, Framed, Reading
    <3> QED BY <2>1, <2>3, <3>1, <3>2, <3>3, GoesOnSafe
  <2>4. CASE /\ replay[r].pc = "malformed" /\ \E q \in quarantines : q.offset = replay[r].pos
             /\ ReplayBecomes(r, [replay[r] EXCEPT !.pc = "checkpoint"])
    <3>1. PICK p : p = [replay[r] EXCEPT !.pc = "checkpoint"]
      OBVIOUS
    <3>2. /\ p \in Progress /\ p.file = replay[r].file /\ p.pos = replay[r].pos /\ p.end = replay[r].end
          /\ p.pc = "checkpoint"
      BY <1>0, <3>1 DEF Progress
    <3>3. Passed(Spool, <<p.pos, p.end>>)
      BY <1>0, <2>4, <3>2 DEF Passed, Follows
    <3>4. Follows(p)
      BY <1>0, <2>4, <3>2, <3>3 DEF Follows, Framed, Reading
    <3> QED BY <2>1, <2>4, <3>1, <3>2, <3>4, GoesOnSafe
  <2> QED BY <1>2, <2>1, <2>2, <2>3, <2>4 DEF FindQuarantine
<1> QED BY <1>1, <1>2

\* A quarantine is put, an exchange is put, a checkpoint is put.
LEMMA QuarantineSafe ==
    ASSUME ReplayIInv, NEW r \in Replays, PutQuarantine(r)
    PROVE  CheckpointsPass' /\ ExchangesAreFrames' /\ ReplaysFollow'
<1> USE DEF ReplayIInv
<1>0. Spool \in Seq(Cell) /\ replay[r] \in Progress /\ Follows(replay[r])
  BY Parts DEF ReplaysFollow
<1> DEFINE record == [offset |-> replay[r].pos, end |-> replay[r].end,
                      reason |-> IF replay[r].pc = "put truncated" THEN "truncated" ELSE "malformed"]
           conflict == \E q \in quarantines : q.offset = record.offset /\ q # record
<1>1. /\ UNCHANGED <<capture, exchanges, checkpoints>>
      /\ replay[r].pc \in {"put truncated", "put malformed"}
      /\ quarantines' = IF conflict THEN quarantines ELSE quarantines \cup {record}
      /\ ReplayBecomes(r, IF conflict \/ replay[r].pc = "put truncated" THEN IdleReplay
                          ELSE [replay[r] EXCEPT !.pc = "checkpoint", !.last = "quarantine"])
  BY DEF PutQuarantine
<1>2. GraphGrows
  BY <1>1 DEF GraphGrows
<1>3. CheckpointsPass' /\ ExchangesAreFrames'
  BY <1>1, <1>2, CheckpointsKept DEF ExchangesAreFrames, capture
<1>4. CASE conflict \/ replay[r].pc = "put truncated"
  BY <1>1, <1>2, <1>3, <1>4, IdleType, IdleFollows, RestFollow
<1>5. CASE ~conflict /\ replay[r].pc = "put malformed"
  <2>1. PICK p : p = [replay[r] EXCEPT !.pc = "checkpoint", !.last = "quarantine"]
    OBVIOUS
  <2>2. /\ p \in Progress /\ p.file = replay[r].file /\ p.pos = replay[r].pos /\ p.end = replay[r].end
        /\ p.pc = "checkpoint"
    BY <1>0, <2>1 DEF Progress
  <2>3. record \in quarantines' /\ record.offset = p.pos
    BY <1>1, <1>5, <2>2
  <2>0. ~Decodable(Spool', <<p.pos, p.end>>)
    BY <1>0, <1>1, <1>5, <2>2 DEF Follows, capture, Spool
  <2>4. Passed(Spool, <<p.pos, p.end>>)'
    <3> HIDE DEF record
    <3> QED BY <2>0, <2>3 DEF Passed
  <2>5. PICK v \in Progress : v = replay[r]
    BY <1>0
  <2>6. Follows(v)'
    BY <1>0, <1>1, <1>2, <2>5, FollowsKept, GrownSame DEF SpoolGrows, capture, Spool
  <2>7. v.pc = "put malformed" /\ p.file = v.file /\ p.pos = v.pos /\ p.end = v.end
    BY <1>5, <2>2, <2>5
  <2>8. Follows(p)'
    BY <2>2, <2>4, <2>6, <2>7 DEF Follows, Framed, Reading
  <2>9. ReplayBecomes(r, p)
    BY <1>1, <1>5, <2>1
  <2> QED BY <1>1, <1>2, <1>3, <2>2, <2>8, <2>9, RestFollow
<1> QED BY <1>1, <1>4, <1>5

LEMMA ExchangeSafe ==
    ASSUME ReplayIInv, NEW r \in Replays, PutExchange(r)
    PROVE  CheckpointsPass' /\ ExchangesAreFrames' /\ ReplaysFollow'
<1> USE DEF ReplayIInv
<1>0. Spool \in Seq(Cell) /\ replay[r] \in Progress /\ Follows(replay[r])
  BY Parts DEF ReplaysFollow
<1> DEFINE record == [flow |-> replay[r].last, start |-> replay[r].pos, end |-> replay[r].end]
           conflict == \E e \in exchanges : e.flow = record.flow /\ e # record
<1>1. /\ UNCHANGED <<capture, quarantines, checkpoints>>
      /\ replay[r].pc = "exchange"
      /\ exchanges' = IF conflict THEN exchanges ELSE exchanges \cup {record}
      /\ ReplayBecomes(r, IF conflict THEN IdleReplay ELSE [replay[r] EXCEPT !.pc = "checkpoint"])
  BY DEF PutExchange
<1>2. GraphGrows
  BY <1>1 DEF GraphGrows
<1>3. <<record.start, record.end>> \in Frames(Spool) /\ Decodes(Spool, record.start, record.end, record.flow)
  BY <1>0, <1>1 DEF Follows, Framed
<1>4. CheckpointsPass'
  BY <1>1, <1>2, CheckpointsKept
<1>5. ExchangesAreFrames'
  <2>1. current \in 1..current
    BY Parts, IPXAssumption
  <2>2. IsFrameOf(record, files[current])
    BY <1>3 DEF IsFrameOf, Decodes, Spool
  <2>3. \A e \in exchanges : \E i \in 1..current : IsFrameOf(e, files[i])
    BY DEF ExchangesAreFrames, IsFrameOf
  <2>4. \A e \in exchanges' : \E i \in 1..current : IsFrameOf(e, files[i])
    <3> HIDE DEF record
    <3> QED BY <1>1, <2>1, <2>2, <2>3
  <2> QED BY <1>1, <2>4 DEF ExchangesAreFrames, IsFrameOf, capture
<1>6. CASE conflict
  BY <1>1, <1>2, <1>4, <1>5, <1>6, IdleType, IdleFollows, RestFollow
<1>7. CASE ~conflict
  <2>1. PICK p : p = [replay[r] EXCEPT !.pc = "checkpoint"]
    OBVIOUS
  <2>2. /\ p \in Progress /\ p.file = replay[r].file /\ p.pos = replay[r].pos /\ p.end = replay[r].end
        /\ p.pc = "checkpoint"
    BY <1>0, <2>1 DEF Progress
  <2>3. /\ record \in exchanges' /\ record.start = p.pos /\ record.end = p.end
        /\ Decodes(Spool', p.pos, p.end, record.flow)
        /\ record.flow \in Flows
    BY <1>0, <1>1, <1>3, <1>7, <2>2 DEF capture, Spool, Follows
  <2>4. Passed(Spool, <<p.pos, p.end>>)'
    <3> HIDE DEF record
    <3> QED BY <2>3 DEF Passed, Decodable
  <2>5. PICK v \in Progress : v = replay[r]
    BY <1>0
  <2>6. Follows(v)'
    BY <1>0, <1>1, <1>2, <2>5, FollowsKept, GrownSame DEF SpoolGrows, capture, Spool
  <2>7. v.pc = "exchange" /\ p.file = v.file /\ p.pos = v.pos /\ p.end = v.end
    BY <1>1, <2>2, <2>5
  <2>8. Follows(p)'
    BY <2>2, <2>4, <2>6, <2>7 DEF Follows, Framed, Reading
  <2>9. ReplayBecomes(r, p)
    BY <1>1, <1>7, <2>1
  <2> QED BY <1>1, <1>2, <1>4, <1>5, <2>2, <2>8, <2>9, RestFollow
<1> QED BY <1>6, <1>7

LEMMA CheckpointSafe ==
    ASSUME ReplayIInv, NEW r \in Replays, PutCheckpoint(r)
    PROVE  CheckpointsPass' /\ ExchangesAreFrames' /\ ReplaysFollow'
<1> USE DEF ReplayIInv
<1>0. Spool \in Seq(Cell) /\ replay[r] \in Progress /\ Follows(replay[r])
  BY Parts DEF ReplaysFollow
<1> DEFINE pos == replay[r].pos
           end == replay[r].end
           record == [offset |-> end, last |-> replay[r].last, prefix |-> Prefix(Spool, end)]
           conflict == \E c \in checkpoints : c.offset = end /\ c # record
<1>1. <<pos, end>> \in Frames(Spool) /\ Passed(Spool, <<pos, end>>) /\ PassedUpTo(Spool, pos)
  BY <1>0 DEF PutCheckpoint, Follows, Framed, Reading
<1>2. pos \in Nat /\ end \in Nat /\ end <= Len(Spool) /\ Len(Spool) \in Nat /\ Boundary(Spool, end)
  BY <1>0, <1>1, FrameType, LenProperties
<1>3. /\ UNCHANGED <<capture, exchanges, quarantines>>
      /\ checkpoints' = IF conflict THEN checkpoints ELSE checkpoints \cup {record}
      /\ ReplayBecomes(r, IF conflict THEN IdleReplay
                          ELSE [replay[r] EXCEPT !.pc = "read", !.pos = end])
  BY <1>2 DEF PutCheckpoint
<1>4. GraphGrows
  BY <1>3 DEF GraphGrows
<1>5. PassedUpTo(Spool, end)
  <2>1. SUFFICES ASSUME NEW f \in Frames(Spool), f[2] <= end
                 PROVE  Passed(Spool, f)
    BY DEF PassedUpTo
  <2>2. f = <<f[1], f[2]>> /\ f[2] \in Nat
    BY <1>0, EndsType DEF Frames
  <2>3. CASE f[2] <= pos
    BY <1>1, <2>3 DEF PassedUpTo
  <2>4. CASE ~(f[2] <= pos)
    <3>1. <<f[1], f[2]>> \in Frames(Spool)
      BY <2>2
    <3>2. PICK s, a, b, c, d : /\ s = Spool /\ s \in Seq(Cell)
                               /\ a = pos /\ b = end /\ c = f[1] /\ d = f[2]
      BY <1>0
    <3>3. /\ s \in Seq(Cell) /\ <<a, b>> \in Frames(s) /\ <<c, d>> \in Frames(s)
          /\ d <= b /\ ~(d <= a)
      BY <1>1, <2>1, <2>4, <3>1, <3>2
    <3>4. c = a /\ d = b
      BY <3>3, FramesInOrder, Zenon
    <3> QED BY <1>1, <2>2, <3>2, <3>4
  <2> QED BY <2>3, <2>4
<1>6. ExchangesAreFrames'
  BY <1>3 DEF ExchangesAreFrames, capture
<1>7. CheckpointsPass'
  <2>1. /\ record.prefix \in Seq(Cell) /\ Len(record.prefix) = record.offset
        /\ Grown(record.prefix, Spool) /\ record.offset = end
    BY <1>0, <1>2, GrownPrefix
  <2>2. Boundary(record.prefix, record.offset) /\ PassedUpTo(record.prefix, record.offset)
    BY <1>0, <1>2, <1>5, <2>1, GrownBoundary, PrefixPasses
  <2>3. \A c \in checkpoints' :
            /\ c.offset = Len(c.prefix)
            /\ Boundary(c.prefix, c.offset)
            /\ PassedUpTo(c.prefix, c.offset)
    <3> HIDE DEF record
    <3> QED BY <1>3, <2>1, <2>2 DEF CheckpointsPass
  <2> QED BY <1>4, <2>3, CheckpointKept DEF CheckpointsPass
<1>8. CASE conflict
  BY <1>3, <1>4, <1>6, <1>7, <1>8, IdleType, IdleFollows, RestFollow
<1>9. CASE ~conflict
  <2>1. PICK p : p = [replay[r] EXCEPT !.pc = "read", !.pos = end]
    OBVIOUS
  <2>2. p \in Progress /\ p.file = replay[r].file /\ p.pos = end /\ p.pc = "read"
    BY <1>0, <1>2, <2>1 DEF Progress
  <2>3. Follows(p)
    BY <1>0, <1>2, <1>5, <2>2 DEF Follows, Framed, Reading, PutCheckpoint
  <2>4. Follows(p)'
    BY <1>0, <1>3, <1>4, <2>2, <2>3, FollowsKept, GrownSame DEF SpoolGrows, capture, Spool
  <2>5. ReplayBecomes(r, p)
    BY <1>3, <1>9, <2>1
  <2> QED BY <1>3, <1>4, <1>6, <1>7, <2>2, <2>4, <2>5, RestFollow
<1> QED BY <1>8, <1>9

-----------------------------------------------------------------------------
(* The theorems. *)

LEMMA InitHolds == ReplayInit => ReplayIInv
<1> SUFFICES ASSUME ReplayInit
             PROVE  ReplayIInv
  OBVIOUS
<1>1. ReplayTypeOK
  BY InitType
<1>2. CheckpointsBounded /\ CheckpointsPass /\ ExchangesAreFrames
  BY DEF ReplayInit, CheckpointsBounded, CheckpointsPass, ExchangesAreFrames
<1>3. ReplaysFollow
  BY IdleFollows DEF ReplayInit, ReplaysFollow
<1> QED BY <1>1, <1>2, <1>3 DEF ReplayIInv

LEMMA StepHolds == ReplayIInv /\ [ReplayNext]_replayVars => ReplayIInv'
<1> SUFFICES ASSUME ReplayIInv, [ReplayNext]_replayVars
             PROVE  ReplayIInv'
  OBVIOUS
<1>1. ASSUME \/ \E x \in Flows : WriteHead(x)
             \/ WriteTail \/ LoseTail \/ ReplaceSpool \/ Crash
      PROVE  ReplayIInv'
  <2>1. ReplayTypeOK' /\ CheckpointsBounded'
    BY <1>1, OthersType
  <2>2. CheckpointsPass' /\ ExchangesAreFrames' /\ ReplaysFollow'
    BY <1>1, OthersSafe
  <2> QED BY <2>1, <2>2 DEF ReplayIInv
<1>2. ASSUME NEW r \in Replays, ReplayStep(r)
      PROVE  ReplayIInv'
  <2>1. ReplayTypeOK' /\ CheckpointsBounded'
    BY <1>2, ReplayType
  <2>2. CheckpointsPass' /\ ExchangesAreFrames' /\ ReplaysFollow'
    BY <1>2, OpensSafe, ReadsSafe, QuarantineSafe, ExchangeSafe, CheckpointSafe DEF ReplayStep
  <2> QED BY <2>1, <2>2 DEF ReplayIInv
<1>3. CASE UNCHANGED replayVars
  <2> USE <1>3 DEF replayVars, capture, graph, ReplayIInv
  <2>1. ReplayTypeOK' /\ CheckpointsBounded'
    BY DEF ReplayTypeOK, CheckpointsBounded
  <2>2. CheckpointsPass'
    BY DEF CheckpointsPass, PassedUpTo, Passed
  <2>3. ExchangesAreFrames'
    BY DEF ExchangesAreFrames
  <2>4. ReplaysFollow'
    BY DEF ReplaysFollow, Follows, PassedUpTo, Passed, Spool
  <2> QED BY <2>1, <2>2, <2>3, <2>4
<1> QED BY <1>1, <1>2, <1>3 DEF ReplayNext

LEMMA ReplayInvariance == ReplaySpec => []ReplayIInv
BY InitHolds, StepHolds, PTL DEF ReplaySpec

\* Type correctness of the spool, the graph and the replays.
THEOREM ReplayTypeCorrect == ReplaySpec => []ReplayTypeOK
<1>1. ReplayIInv => ReplayTypeOK
  BY DEF ReplayIInv
<1> QED BY <1>1, ReplayInvariance, PTL

\* capture-replay.lisp:101-195: for any flows, replays, files, crashes and
\* lost ends of records, an exchange of the graph is one whole record of a file
\* that stood at the path, at the offsets the graph has for it.
THEOREM ExchangesComeWhole == ReplaySpec => []ExchangesAreFrames
<1>1. ReplayIInv => ExchangesAreFrames
  BY DEF ReplayIInv
<1> QED BY <1>1, ReplayInvariance, PTL

\* capture-replay.lisp:212-275: a checkpoint that fits the spool has passed no
\* valid record that is not an exchange of the graph, and no other frame without
\* a quarantine at its offset, whichever replay wrote it and whatever crashed.
THEOREM CheckpointsAccount == ReplaySpec => []Accounted
<1>1. ReplayIInv => Accounted
  <2>1. SUFFICES ASSUME ReplayIInv, NEW c \in checkpoints, c.offset <= Len(Spool),
                        c.prefix = Prefix(Spool, c.offset)
                 PROVE  PassedUpTo(Spool, c.offset)
    BY DEF Accounted, PassedFrames, StandsForSpool, PassedUpTo, Passed
  <2>2. Spool \in Seq(Cell) /\ c.offset \in Nat
    BY <2>1, Parts DEF ReplayIInv, Checkpoint
  <2>3. c.prefix \in Seq(Cell) /\ Grown(c.prefix, Spool) /\ Len(c.prefix) = c.offset
    BY <2>1, <2>2, GrownPrefix
  <2>4. PassedUpTo(c.prefix, c.offset)
    BY <2>1 DEF ReplayIInv, CheckpointsPass
  <2> QED BY <2>2, <2>3, <2>4, PrefixPasses
<1> QED BY <1>1, ReplayInvariance, PTL
=============================================================================
