---------------------------- MODULE SharingProofs ----------------------------
(***************************************************************************)
(* Proofs about what concurrent callers share: the background run of       *)
(* SingleFlight, the remembered projects and their descriptions of         *)
(* Projects, and the kept list of containers of Containers.  For any       *)
(* callers, processes, directories, files and containers, any number of    *)
(* steps and any times to live.                                            *)
(*                                                                         *)
(* And about what Reports says of the sockets of a host, for any snapshot  *)
(* of the processes and any listeners: the search by process, by climbing, *)
(* shows the rows of who is in the tree, what a restart launches again has *)
(* the target below it, and the report of a row is about that row and      *)
(* rates the port no lower than the worst of its sockets.                  *)
(***************************************************************************)
EXTENDS SingleFlight, Projects, Reports, FiniteSetTheorems, FunctionTheorems, WellFoundedInduction,
        TLAPS

-----------------------------------------------------------------------------
(* The background run.                                                     *)

\* Each step of the code leaves every variable inside its type.
LEMMA TypeStep == TypeOK /\ [Next]_vars => TypeOK'
<1> SUFFICES ASSUME TypeOK, [Next]_vars PROVE TypeOK'
  OBVIOUS
<1> USE DEF TypeOK, CallerPC, RunnerPC
<1>1. ASSUME NEW c \in Callers, Request(c) PROVE TypeOK'
  BY <1>1 DEF Request
<1>2. ASSUME NEW c \in Callers, Launch(c) PROVE TypeOK'
  BY <1>2 DEF Launch
<1>3. ASSUME NEW c \in Callers, Lose(c) PROVE TypeOK'
  BY <1>3 DEF Lose
<1>4. ASSUME NEW c \in Callers, Mark(c) PROVE TypeOK'
  BY <1>4 DEF Mark
<1>5. ASSUME NEW g \in Runners, StartFn(g) PROVE TypeOK'
  BY <1>5 DEF StartFn
<1>6. ASSUME NEW g \in Runners, EndFn(g) PROVE TypeOK'
  BY <1>6 DEF EndFn
<1>7. ASSUME NEW g \in Runners, TakePending(g) PROVE TypeOK'
  BY <1>7 DEF TakePending
<1>8. ASSUME NEW g \in Runners, SeeNothing(g) PROVE TypeOK'
  BY <1>8 DEF SeeNothing
<1>9. ASSUME NEW g \in Runners, Release(g) PROVE TypeOK'
  BY <1>9 DEF Release
<1>10. CASE UNCHANGED vars
  BY <1>10 DEF vars
<1> QED
  BY <1>1, <1>2, <1>3, <1>4, <1>5, <1>6, <1>7, <1>8, <1>9, <1>10
     DEF Next, CallStep, RunStep

\* The flags and program counters of flight.go hold only values of their types.
THEOREM TypeCorrect == Spec => []TypeOK
<1>1. Init => TypeOK
  <2> SUFFICES ASSUME Init PROVE TypeOK
    OBVIOUS
  <2>1. flight \in BOOLEAN /\ pending \in BOOLEAN
    BY Zenon DEF Init
  <2>2. /\ caller \in [Callers -> CallerPC]
        /\ runner \in [Runners -> RunnerPC]
        /\ want \in Nat /\ served \in Nat /\ starts \in Nat
    BY DEF Init, CallerPC, RunnerPC
  <2> QED
    BY <2>1, <2>2, Zenon DEF TypeOK
<1> QED
  BY <1>1, TypeStep, PTL DEF Spec

-----------------------------------------------------------------------------
\* No interleaving of the two flags lets two goroutines into the loop.
LEMMA OneRunStep == TypeOK /\ OneRunAtATime /\ [Next]_vars => OneRunAtATime'
<1> SUFFICES ASSUME TypeOK, OneRunAtATime, [Next]_vars PROVE OneRunAtATime'
  OBVIOUS
<1> USE DEF TypeOK, OneRunAtATime
<1>1. ASSUME NEW c \in Callers, Request(c) \/ Lose(c) \/ Mark(c)
      PROVE  OneRunAtATime'
  BY <1>1 DEF Request, Lose, Mark
<1>2. ASSUME NEW c \in Callers, Launch(c) PROVE OneRunAtATime'
  <2>1. PICK g \in Runners : /\ runner[g] = "none"
                             /\ runner' = [runner EXCEPT ![g] = "start"]
    BY <1>2 DEF Launch
  <2>2. \A h \in Runners : runner[h] = "none"
    BY <1>2 DEF Launch
  <2> QED
    BY <1>2, <2>1, <2>2 DEF Launch
<1>3. ASSUME NEW g \in Runners, StartFn(g) PROVE OneRunAtATime'
  BY <1>3 DEF StartFn
<1>4. ASSUME NEW g \in Runners, EndFn(g) PROVE OneRunAtATime'
  BY <1>4 DEF EndFn
<1>5. ASSUME NEW g \in Runners, TakePending(g) PROVE OneRunAtATime'
  BY <1>5 DEF TakePending
<1>6. ASSUME NEW g \in Runners, SeeNothing(g) PROVE OneRunAtATime'
  BY <1>6 DEF SeeNothing
<1>7. ASSUME NEW g \in Runners, Release(g) PROVE OneRunAtATime'
  BY <1>7 DEF Release
<1>8. CASE UNCHANGED vars
  BY <1>8 DEF vars
<1> QED
  BY <1>1, <1>2, <1>3, <1>4, <1>5, <1>6, <1>7, <1>8
     DEF Next, CallStep, RunStep

\* At most one run executes at a time, and `flight` is up exactly while it
\* does: the first half of the comment on singleFlight.
THEOREM OneRun == Spec => []OneRunAtATime
<1>1. Init => OneRunAtATime
  BY DEF Init, OneRunAtATime
<1> QED
  BY <1>1, OneRunStep, TypeCorrect, PTL DEF Spec

-----------------------------------------------------------------------------
\* A caller that enters run makes the set of callers inside one larger, and a
\* caller that leaves makes it one smaller.
LEMMA InsideCount ==
    ASSUME TypeOK, NEW c \in Callers, NEW now \in CallerPC,
           caller' = [caller EXCEPT ![c] = now]
    PROVE  /\ Cardinality(Inside) \in Nat
           /\ Cardinality(Inside)' \in Nat
           /\ caller[c] = "idle" /\ now # "idle"
                => Cardinality(Inside)' = Cardinality(Inside) + 1
           /\ caller[c] # "idle" /\ now = "idle"
                => Cardinality(Inside)' = Cardinality(Inside) - 1
           /\ caller[c] # "idle" /\ now # "idle"
                => Cardinality(Inside)' = Cardinality(Inside)
<1>1. IsFiniteSet(Inside) /\ IsFiniteSet(Inside')
  BY FiniteCallers, FS_Subset DEF Inside
<1>2. Cardinality(Inside) \in Nat /\ Cardinality(Inside') \in Nat
  BY <1>1, FS_CardinalityType
<1>3. ASSUME caller[c] = "idle", now # "idle"
      PROVE  Cardinality(Inside') = Cardinality(Inside) + 1
  <2>1. Inside' = Inside \cup {c} /\ c \notin Inside
    BY <1>3 DEF Inside, TypeOK
  <2> QED
    BY <2>1, <1>1, FS_AddElement
<1>4. ASSUME caller[c] # "idle", now = "idle"
      PROVE  Cardinality(Inside') = Cardinality(Inside) - 1
  <2>1. Inside' = Inside \ {c} /\ c \in Inside
    BY <1>4 DEF Inside, TypeOK
  <2> QED
    BY <2>1, <1>1, FS_RemoveElement
<1>5. ASSUME caller[c] # "idle", now # "idle"
      PROVE  Cardinality(Inside') = Cardinality(Inside)
  <2>1. Inside' = Inside
    BY <1>5 DEF Inside, TypeOK
  <2> QED
    BY <2>1
<1> QED
  BY <1>2, <1>3, <1>4, <1>5

\* The account of starts, queued and owed runs stays balanced by the requests.
LEMMA RunsPaidForStep ==
    TypeOK /\ OneRunAtATime /\ RunsPaidFor /\ [Next]_vars => RunsPaidFor'
<1> SUFFICES ASSUME TypeOK, OneRunAtATime, RunsPaidFor, [Next]_vars
             PROVE  RunsPaidFor'
  OBVIOUS
<1> USE DEF RunsPaidFor
<1>0. Cardinality(Inside) \in Nat /\ starts \in Nat /\ want \in Nat
  BY FiniteCallers, FS_Subset, FS_CardinalityType DEF Inside, TypeOK
<1>1. ASSUME NEW c \in Callers, Request(c) PROVE RunsPaidFor'
  <2>1. Cardinality(Inside)' = Cardinality(Inside) + 1
    BY <1>1, InsideCount DEF Request, CallerPC
  <2> QED
    BY <1>0, <1>1, <2>1 DEF Request, AboutToStart, Queued
<1>2. ASSUME NEW c \in Callers, Launch(c) PROVE RunsPaidFor'
  <2>1. Cardinality(Inside)' = Cardinality(Inside) - 1
    BY <1>2, InsideCount DEF Launch, CallerPC
  <2>2. AboutToStart = 0
    BY <1>2 DEF Launch, AboutToStart, OneRunAtATime
  <2>3. AboutToStart' \in {0, 1} /\ Queued' = Queued /\ Queued \in {0, 1}
    BY <1>2 DEF Launch, AboutToStart, Queued
  <2> QED
    BY <1>0, <1>2, <2>1, <2>2, <2>3 DEF Launch
<1>3. ASSUME NEW c \in Callers, Lose(c) PROVE RunsPaidFor'
  <2>1. Cardinality(Inside)' = Cardinality(Inside)
    BY <1>3, InsideCount DEF Lose, CallerPC
  <2> QED
    BY <1>0, <1>3, <2>1 DEF Lose, AboutToStart, Queued
<1>4. ASSUME NEW c \in Callers, Mark(c) PROVE RunsPaidFor'
  <2>1. Cardinality(Inside)' = Cardinality(Inside) - 1
    BY <1>4, InsideCount DEF Mark, CallerPC
  <2>2. AboutToStart' = AboutToStart /\ AboutToStart \in {0, 1}
    BY <1>4 DEF Mark, AboutToStart
  <2>3. Queued' = 1 /\ Queued \in {0, 1}
    BY <1>4 DEF Mark, Queued
  <2> QED
    BY <1>0, <1>4, <2>1, <2>2, <2>3 DEF Mark
<1>5. ASSUME NEW g \in Runners, StartFn(g) PROVE RunsPaidFor'
  <2>1. AboutToStart = 1
    BY <1>5 DEF StartFn, AboutToStart
  <2>2. AboutToStart' = 0
    BY <1>5 DEF StartFn, AboutToStart, OneRunAtATime, TypeOK
  <2>3. Queued' = Queued /\ Queued \in {0, 1} /\ Inside' = Inside
    BY <1>5 DEF StartFn, Queued, Inside
  <2> QED
    BY <1>0, <1>5, <2>1, <2>2, <2>3 DEF StartFn
<1>6. ASSUME NEW g \in Runners, TakePending(g) PROVE RunsPaidFor'
  <2>1. Queued = 1 /\ Queued' = 0 /\ Inside' = Inside
    BY <1>6 DEF TakePending, Queued, Inside
  <2>2. AboutToStart = 0 /\ AboutToStart' \in {0, 1}
    BY <1>6 DEF TakePending, AboutToStart, OneRunAtATime
  <2> QED
    BY <1>0, <1>6, <2>1, <2>2 DEF TakePending
<1>7. ASSUME NEW g \in Runners, EndFn(g) \/ SeeNothing(g) \/ Release(g)
      PROVE  RunsPaidFor'
  <2>1. AboutToStart' = 0 /\ AboutToStart \in {0, 1}
    BY <1>7 DEF EndFn, SeeNothing, Release, AboutToStart, OneRunAtATime, TypeOK
  <2>2. Queued' = Queued /\ Queued \in {0, 1} /\ Inside' = Inside
    BY <1>7 DEF EndFn, SeeNothing, Release, Queued, Inside
  <2> QED
    BY <1>0, <1>7, <2>1, <2>2 DEF EndFn, SeeNothing, Release
<1>8. CASE UNCHANGED vars
  BY <1>8 DEF vars, AboutToStart, Queued, Inside
<1> QED
  BY <1>1, <1>2, <1>3, <1>4, <1>5, <1>6, <1>7, <1>8
     DEF Next, CallStep, RunStep

\* Every execution of fn, begun or still owed, is paid for by a request of its
\* own: ticks and keystrokes are coalesced, never multiplied.
THEOREM PaidFor == Spec => []RunsPaidFor
<1>1. Init => RunsPaidFor
  <2> SUFFICES ASSUME Init PROVE RunsPaidFor
    OBVIOUS
  <2>1. Inside = {}
    BY DEF Init, Inside
  <2>2. Cardinality(Inside) = 0
    BY <2>1, FS_EmptySet
  <2> QED
    BY <2>2 DEF Init, RunsPaidFor, AboutToStart, Queued
<1> QED
  BY <1>1, RunsPaidForStep, TypeCorrect, OneRun, PTL DEF Spec

-----------------------------------------------------------------------------
\* Every step of the two-flag code is a step of CoalescedRuns or leaves its
\* state alone.
LEMMA RefinementStep ==
    TypeOK /\ OneRunAtATime /\ RunsPaidFor /\ [Next]_vars => [Runs!Next]_Runs!vars
<1> SUFFICES ASSUME TypeOK, OneRunAtATime, RunsPaidFor, [Next]_vars
             PROVE  [Runs!Next]_Runs!vars
  OBVIOUS
<1> USE DEF Runs!Next, Runs!vars, TypeOK, OneRunAtATime
<1>1. ASSUME NEW c \in Callers, Request(c) PROVE Runs!Ask
  BY <1>1 DEF Request, Runs!Ask
<1>2. ASSUME NEW c \in Callers, CallStep(c) PROVE UNCHANGED Runs!vars
  BY <1>2 DEF CallStep, Launch, Lose, Mark
<1>3. ASSUME NEW g \in Runners, StartFn(g) PROVE Runs!Begin
  <2>1. Cardinality(Inside) \in Nat
    BY FiniteCallers, FS_Subset, FS_CardinalityType DEF Inside
  <2>2. AboutToStart = 1 /\ Queued \in {0, 1}
    BY <1>3 DEF StartFn, AboutToStart, Queued
  <2>3. starts < want
    BY <2>1, <2>2 DEF RunsPaidFor
  <2> QED
    BY <1>3, <2>3 DEF StartFn, Runs!Begin
<1>4. ASSUME NEW g \in Runners, EndFn(g) PROVE Runs!End
  BY <1>4 DEF EndFn, Runs!End
<1>5. ASSUME NEW g \in Runners, TakePending(g) \/ SeeNothing(g) \/ Release(g)
      PROVE  UNCHANGED Runs!vars
  BY <1>5 DEF TakePending, SeeNothing, Release
<1>6. CASE UNCHANGED vars
  BY <1>6 DEF vars
<1> QED
  BY <1>1, <1>2, <1>3, <1>4, <1>5, <1>6 DEF Next, RunStep

\* The two flags of flight.go implement the abstract promise that runs never
\* overlap and none begins without a request of its own.
THEOREM Refinement == Spec => RunsSpec
<1>1. Init => Runs!Init
  BY DEF Init, Runs!Init
<1> QED
  BY <1>1, RefinementStep, TypeCorrect, OneRun, PaidFor, PTL
     DEF Spec, RunsSpec, Runs!Spec

-----------------------------------------------------------------------------
(* Ages, and going up the directories.                                     *)

\* An age grows by one, up to where it no longer matters.
LEMMA LaterIsLater ==
    ASSUME NEW age \in Nat, NEW old \in Nat, age <= old
    PROVE  Later(age, old) \in 0..old /\ Later(age, old) <= age + 1
                 /\ (Later(age, old) < old => Later(age, old) = age + 1)
  BY DEF Later

\* Going up from a directory stays among directories, starts with it, and goes on
\* with what is above.
LEMMA UpwardHolds ==
    ASSUME NEW d \in Dirs
    PROVE  /\ Upward(d) \subseteq Dirs /\ d \in Upward(d)
           /\ \A x \in Upward(d) : Parent[x] # None => Parent[x] \in Upward(d)
<1>1. ASSUME NEW x \in Upward(d), Parent[x] # None PROVE Parent[x] \in Upward(d)
  <2>1. x \in Dirs /\ Parent[x] \in Dirs
    BY <1>1, ProjectsConstants DEF Upward
  <2>2. ASSUME NEW S \in SUBSET Dirs, d \in S, \A y \in S : Parent[y] # None => Parent[y] \in S
        PROVE  Parent[x] \in S
    BY <1>1, <2>2 DEF Upward
  <2> QED
    BY <2>1, <2>2 DEF Upward
<1> QED
  BY <1>1 DEF Upward

\* Going up from a directory is the directory and going up from the one above it.
LEMMA UpwardStep ==
    ASSUME NEW d \in Dirs
    PROVE  Upward(d) \subseteq {d} \cup (IF Parent[d] = None THEN {} ELSE Upward(Parent[d]))
<1> DEFINE S == {d} \cup (IF Parent[d] = None THEN {} ELSE Upward(Parent[d]))
<1>1. Parent[d] \in Dirs \cup {None}
  BY ProjectsConstants
<1>2. S \in SUBSET Dirs
  BY <1>1, UpwardHolds
<1>3. \A x \in S : Parent[x] # None => Parent[x] \in S
  BY <1>1, UpwardHolds
<1>4. d \in S
  OBVIOUS
<1> HIDE DEF S
<1>5. Upward(d) \subseteq S
  BY <1>2, <1>3, <1>4 DEF Upward
<1> QED
  BY <1>5 DEF S

-----------------------------------------------------------------------------
(* Projects: types.                                                        *)

\* An inspection that is under way is about a process, and holds a description only
\* once it has one.
InspectionsInOrder ==
    \A c \in Inspections :
        /\ pc[c] # "idle" => proc[c] \in Procs
        /\ pc[c] = "idle" \/ place[c] # None => info[c] = None
        /\ pc[c] # "walk" => place[c] = None
        /\ pc[c] \in {"runtimeSet", "frameworkSet"} => info[c] \in Objs

\* What a manifest or a process says is a hint, and so are nothing and a torn string.
LEMMA HintTypes ==
    /\ Torn \in Hints /\ "" \in Hints
    /\ \A j \in Projects : j.runtime \in Hints /\ j.framework \in Hints
    /\ \A p \in Procs : OwnRuntime[p] \in Hints /\ OwnFramework[p] \in Hints
  BY DEF Hints

\* What a description is made of.
Descriptions == [cwd : Dirs \cup {None}, root : Dirs \cup {None},
                 project : Projects \cup {NoObj.project}, runtime : Hints,
                 framework : Hints, writers : SUBSET Inspections, raced : BOOLEAN]

\* A blank description is one.
LEMMA NoObjType == NoObj \in Descriptions
  BY HintTypes DEF NoObj, Descriptions

\* What a directory shows is one of the projects there can be.
LEMMA ProjectTypes ==
    ASSUME files \in [Dirs -> SUBSET Files]
    PROVE  \A d \in Dirs : Project(d) \in Projects
  BY DEF Project, Projects

\* Ages begin at zero.
LEMMA AgesTypes == OldestProject \in Nat /\ 0 \in 0..OldestProject /\ 0 \in 0..MemoTTL /\ 0 \in 0..ScanTime
  BY ProjectsConstants DEF OldestProject

\* The types hold at first.
LEMMA ProjectsTypeInit == ProjectsInit => ProjectsTypeOK /\ InspectionsInOrder
<1> SUFFICES ASSUME ProjectsInit PROVE ProjectsTypeOK /\ InspectionsInOrder
  OBVIOUS
<1>1. files \in [Dirs -> SUBSET Files]
  BY DEF ProjectsInit
<1>2. lastSeen \in [Dirs -> [Projects -> 0..OldestProject]]
  BY AgesTypes DEF ProjectsInit
<1>3. changes \in 0..MaxChanges
  BY ProjectsConstants DEF ProjectsInit
<1>4. memo \in [Dirs -> [known : BOOLEAN, info : Objs \cup {None}, age : 0..MemoTTL]]
  BY ProjectsConstants DEF ProjectsInit, NoEntry
<1>5. obj \in [Objs -> Descriptions]
  BY NoObjType DEF ProjectsInit
<1>6. said \in [Inspections -> [runtime : Hints, framework : Hints]]
  BY HintTypes DEF ProjectsInit, NoHints
<1>7. walked \in [Inspections -> 0..ScanTime]
  BY AgesTypes DEF ProjectsInit
<1> QED
  BY <1>1, <1>2, <1>3, <1>4, <1>5, <1>6, <1>7
     DEF ProjectsInit, ProjectsTypeOK, Descriptions, InspectionsInOrder

\* Garbage collection leaves descriptions or nothing.
LEMMA CollectedType ==
    ASSUME obj \in [Objs -> Descriptions], obj' = Collected
    PROVE  obj' \in [Objs -> Descriptions]
  BY NoObjType DEF Collected

\* Each step of an inspection, of the files and of time keeps the types.
LEMMA ProjectsTypeStep ==
    ProjectsTypeOK /\ InspectionsInOrder /\ [ProjectsNext]_projectsVars
        => ProjectsTypeOK' /\ InspectionsInOrder'
<1> SUFFICES ASSUME ProjectsTypeOK, InspectionsInOrder, [ProjectsNext]_projectsVars
             PROVE  ProjectsTypeOK' /\ InspectionsInOrder'
  OBVIOUS
<1>0. /\ \A d \in Dirs : Project(d) \in Projects
      /\ obj \in [Objs -> Descriptions]
      /\ \A c \in Inspections : pc[c] # "idle" => Cwd[proc[c]] \in Dirs /\ proc[c] \in Procs
  BY ProjectTypes, ProjectsConstants DEF ProjectsTypeOK, Descriptions, InspectionsInOrder
<1>01. /\ files \in [Dirs -> SUBSET Files] /\ lastSeen \in [Dirs -> [Projects -> 0..OldestProject]]
       /\ memo \in [Dirs -> [known : BOOLEAN, info : Objs \cup {None}, age : 0..MemoTTL]]
       /\ walked \in [Inspections -> 0..ScanTime]
       /\ said \in [Inspections -> [runtime : Hints, framework : Hints]]
       /\ info \in [Inspections -> Objs \cup {None}] /\ place \in [Inspections -> Dirs \cup {None}]
  BY DEF ProjectsTypeOK
<1>00. ASSUME obj' \in [Objs -> Descriptions]
       PROVE obj' \in [Objs -> [cwd : Dirs \cup {None}, root : Dirs \cup {None},
                         project : Projects \cup {NoObj.project}, runtime : Hints,
                         framework : Hints, writers : SUBSET Inspections, raced : BOOLEAN]]
  BY <1>00 DEF Descriptions
<1>1. ASSUME NEW d \in Dirs, NEW f \in Files, Change(d, f)
      PROVE  ProjectsTypeOK' /\ InspectionsInOrder'
  <2>1. files' \in [Dirs -> SUBSET Files]
    BY <1>1 DEF Change, ProjectsTypeOK
  <2>2. lastSeen' \in [Dirs -> [Projects -> 0..OldestProject]]
    BY <1>1, AgesTypes DEF Change, ProjectsTypeOK
  <2>3. changes' \in 0..MaxChanges
    BY <1>1, ProjectsConstants DEF Change, ProjectsTypeOK
  <2> QED
    BY <1>1, <2>1, <2>2, <2>3 DEF Change, ProjectsTypeOK, InspectionsInOrder
<1>2. CASE WalkTick
  <2>1. lastSeen' \in [Dirs -> [Projects -> 0..OldestProject]]
    <3>1. \A d \in Dirs, j \in Projects : Later(lastSeen[d][j], OldestProject) \in 0..OldestProject
      <4>1. \A d \in Dirs, j \in Projects : lastSeen[d][j] \in 0..OldestProject
        BY <1>01
      <4> QED
        BY <4>1, AgesTypes DEF Later
    <3> QED
      BY <1>2, <3>1, AgesTypes DEF WalkTick
  <2>2. memo' \in [Dirs -> [known : BOOLEAN, info : Objs \cup {None}, age : 0..MemoTTL]]
    <3>1. \A d \in Dirs : Later(memo[d].age, MemoTTL) \in 0..MemoTTL
      <4>1. \A d \in Dirs : memo[d].age \in 0..MemoTTL
        BY <1>01
      <4> QED
        BY <4>1, ProjectsConstants DEF Later
    <3>2. memo' = [d \in Dirs |-> [memo[d] EXCEPT !.age = Later(@, MemoTTL)]]
      BY <1>2 DEF WalkTick
    <3>3. ASSUME NEW d \in Dirs
          PROVE  [memo[d] EXCEPT !.age = Later(@, MemoTTL)]
                    \in [known : BOOLEAN, info : Objs \cup {None}, age : 0..MemoTTL]
      <4>1. memo[d] \in [known : BOOLEAN, info : Objs \cup {None}, age : 0..MemoTTL]
        BY <1>01
      <4>2. [memo[d] EXCEPT !.age = Later(@, MemoTTL)] = [memo[d] EXCEPT !.age = Later(memo[d].age, MemoTTL)]
        BY <4>1
      <4> QED
        BY <3>1, <4>1, <4>2
    <3> QED
      BY <3>2, <3>3
  <2>3. walked' \in [Inspections -> 0..ScanTime]
    <3>1. walked' = [c \in Inspections |-> IF c \in Walking THEN walked[c] + 1 ELSE 0]
          /\ \A c \in Walking : walked[c] < ScanTime
      BY <1>2 DEF WalkTick, Walking
    <3>2. ScanTime \in Nat /\ \A c \in Inspections : walked[c] \in 0..ScanTime
      BY <1>01, ProjectsConstants
    <3>3. \A c \in Inspections : (IF c \in Walking THEN walked[c] + 1 ELSE 0) \in 0..ScanTime
      BY <3>1, <3>2
    <3> QED
      BY <3>1, <3>3
  <2> QED
    BY <1>2, <2>1, <2>2, <2>3 DEF WalkTick, ProjectsTypeOK, InspectionsInOrder
<1>3. ASSUME NEW c \in Inspections, NEW p \in Procs, Detect(c, p)
      PROVE  ProjectsTypeOK' /\ InspectionsInOrder'
  <2>1. Cwd[p] \in Dirs /\ memo[Cwd[p]].info \in Objs \cup {None}
    BY ProjectsConstants DEF ProjectsTypeOK
  <2>2. NoHints \in [runtime : Hints, framework : Hints]
    BY HintTypes DEF NoHints
  <2>3. said' \in [Inspections -> [runtime : Hints, framework : Hints]]
    BY <1>3, <2>2 DEF Detect, ProjectsTypeOK
  <2>4. None \notin Dirs
    BY ProjectsConstants
  <2>5. /\ proc' = [proc EXCEPT ![c] = p] /\ pc[c] = "idle"
        /\ \/ /\ info' = [info EXCEPT ![c] = memo[Cwd[p]].info]
              /\ pc' = [pc EXCEPT ![c] = "runtime"] /\ place' = place
           \/ /\ place' = [place EXCEPT ![c] = Cwd[p]]
              /\ pc' = [pc EXCEPT ![c] = "walk"] /\ info' = info
    BY <1>3 DEF Detect, Recall
  <2>6. /\ pc' \in [Inspections -> {"idle", "walk", "runtime", "runtimeSet", "framework",
                                   "frameworkSet", "interpret"}]
        /\ proc' \in [Inspections -> Procs \cup {None}]
        /\ place' \in [Inspections -> Dirs \cup {None}]
        /\ info' \in [Inspections -> Objs \cup {None}]
    <3>1. /\ pc \in [Inspections -> {"idle", "walk", "runtime", "runtimeSet", "framework",
                                     "frameworkSet", "interpret"}]
          /\ proc \in [Inspections -> Procs \cup {None}]
          /\ place \in [Inspections -> Dirs \cup {None}]
          /\ info \in [Inspections -> Objs \cup {None}]
      BY DEF ProjectsTypeOK
    <3> QED
      BY <2>1, <2>5, <3>1
  <2>7. ProjectsTypeOK'
    BY <1>3, <2>3, <2>6 DEF Detect, fileTree, ProjectsTypeOK
  <2>8. InspectionsInOrder'
    BY <2>1, <2>4, <2>5 DEF ProjectsTypeOK, InspectionsInOrder
  <2> QED
    BY <2>7, <2>8
<1>4. ASSUME NEW c \in Inspections, Walk(c) PROVE ProjectsTypeOK' /\ InspectionsInOrder'
  <2>1. place[c] \in Dirs /\ Parent[place[c]] \in Dirs \cup {None}
    BY <1>4, ProjectsConstants DEF Walk, ProjectsTypeOK
  <2>2. obj' \in [Objs -> Descriptions]
    <3>1. CASE ~Project(place[c]).detected
      BY <1>0, <1>4, <3>1 DEF Walk
    <3>2. ASSUME NEW o \in Objs,
                 obj' = [obj EXCEPT ![o] =
                              [NoObj EXCEPT !.cwd = Cwd[proc[c]], !.root = place[c],
                                 !.project = Project(place[c]), !.runtime = Project(place[c]).runtime,
                                 !.framework = Project(place[c]).framework]]
          PROVE  obj' \in [Objs -> Descriptions]
      <4>1. [NoObj EXCEPT !.cwd = Cwd[proc[c]], !.root = place[c],
                                 !.project = Project(place[c]), !.runtime = Project(place[c]).runtime,
                                 !.framework = Project(place[c]).framework] \in Descriptions
        BY <1>0, <1>4, <2>1, NoObjType, HintTypes DEF Walk, Descriptions
      <4> QED
        BY <1>0, <3>2, <4>1
    <3> QED
      BY <1>4, <3>1, <3>2 DEF Walk
  <2>3. /\ place' \in [Inspections -> Dirs \cup {None}]
        /\ info' \in [Inspections -> Objs \cup {None}]
    BY <1>01, <1>4, <2>1 DEF Walk
  <2>4. ProjectsTypeOK'
    BY <1>00, <1>4, <2>2, <2>3 DEF Walk, fileTree, ProjectsTypeOK
  <2>5. InspectionsInOrder'
    BY <1>4 DEF Walk, ProjectsTypeOK, InspectionsInOrder
  <2> QED
    BY <2>4, <2>5
<1>5. ASSUME NEW c \in Inspections, Remember(c) PROVE ProjectsTypeOK' /\ InspectionsInOrder'
  <2>1. memo' \in [Dirs -> [known : BOOLEAN, info : Objs \cup {None}, age : 0..MemoTTL]]
    <3>1. [known |-> TRUE, info |-> info[c], age |-> 0]
              \in [known : BOOLEAN, info : Objs \cup {None}, age : 0..MemoTTL]
      BY AgesTypes DEF ProjectsTypeOK
    <3>2. NoEntry \in [known : BOOLEAN, info : Objs \cup {None}, age : 0..MemoTTL]
      BY ProjectsConstants DEF NoEntry
    <3> QED
      BY <1>5, <3>1, <3>2 DEF Remember, ProjectsTypeOK
  <2>2. obj' \in [Objs -> Descriptions]
    BY <1>0, <1>5, CollectedType DEF Remember
  <2>3. /\ pc' = [pc EXCEPT ![c] = "runtime"] /\ walked' = [walked EXCEPT ![c] = 0]
        /\ UNCHANGED <<fileTree, proc, place, info, said>> /\ pc[c] = "walk" /\ place[c] = None
    BY <1>5 DEF Remember
  <2> QED
    BY <1>00, <2>1, <2>2, <2>3, AgesTypes DEF fileTree, ProjectsTypeOK, InspectionsInOrder
<1>6. ASSUME NEW o \in Objs, NEW c \in Inspections, NEW value \in Hints
      PROVE  Read(o, value, c) \subseteq Hints
  BY HintTypes DEF Read
<1>7. \A o \in Objs : obj[o].runtime \in Hints /\ obj[o].framework \in Hints
  BY <1>0 DEF Descriptions
<1>8. ASSUME NEW c \in Inspections, Runtime(c) PROVE ProjectsTypeOK' /\ InspectionsInOrder'
  <2>1. /\ pc[c] = "runtime"
        /\ \/ pc' = [pc EXCEPT ![c] = "framework"]
           \/ pc' = [pc EXCEPT ![c] = "runtimeSet"] /\ info[c] # None
        /\ UNCHANGED <<fileTree, memo, proc, place, info, walked>>
    BY <1>8 DEF Runtime
  <2>2. OwnRuntime[proc[c]] \in Hints /\ info[c] \in Objs \cup {None}
    BY <1>0, <2>1, HintTypes DEF ProjectsTypeOK
  <2>3. PICK h \in Hints : said' = [said EXCEPT ![c].runtime = h]
    BY <1>6, <1>7, <1>8, <2>2 DEF Runtime
  <2>4. obj' = obj \/ \E o \in Objs : obj' = [obj EXCEPT ![o].runtime = OwnRuntime[proc[c]],
                                                         ![o].writers = @ \cup {c}]
    BY <1>8, <2>2 DEF Runtime
  <2>5. obj' \in [Objs -> Descriptions]
    <3>1. ASSUME NEW o \in Objs, obj' = [obj EXCEPT ![o].runtime = OwnRuntime[proc[c]],
                                                   ![o].writers = @ \cup {c}]
          PROVE  obj' \in [Objs -> Descriptions]
      <4>1. obj[o] \in Descriptions
        BY <1>0
      <4>2. [obj[o] EXCEPT !.runtime = OwnRuntime[proc[c]], !.writers = @ \cup {c}] \in Descriptions
        BY <2>2, <4>1 DEF Descriptions
      <4>3. obj' = [obj EXCEPT ![o] = [obj[o] EXCEPT !.runtime = OwnRuntime[proc[c]], !.writers = @ \cup {c}]]
        BY <1>0, <3>1
      <4> QED
        BY <1>0, <4>2, <4>3
    <3> QED
      BY <1>0, <2>4, <3>1
  <2>6. said' \in [Inspections -> [runtime : Hints, framework : Hints]]
    BY <2>3 DEF ProjectsTypeOK
  <2> QED
    <3>1. ProjectsTypeOK'
      BY <1>00, <2>1, <2>5, <2>6 DEF fileTree, ProjectsTypeOK
    <3>2. InspectionsInOrder'
      BY <1>0, <2>1, <2>2 DEF ProjectsTypeOK, InspectionsInOrder
    <3> QED
      BY <3>1, <3>2
<1>9. ASSUME NEW c \in Inspections, Framework(c) PROVE ProjectsTypeOK' /\ InspectionsInOrder'
  <2>1. /\ pc[c] = "framework"
        /\ \/ pc' = [pc EXCEPT ![c] = "interpret"]
           \/ pc' = [pc EXCEPT ![c] = "frameworkSet"] /\ info[c] # None
        /\ UNCHANGED <<fileTree, memo, proc, place, info, walked>>
    BY <1>9 DEF Framework
  <2>2. OwnFramework[proc[c]] \in Hints /\ info[c] \in Objs \cup {None}
    BY <1>0, <2>1, HintTypes DEF ProjectsTypeOK
  <2>3. \A known \in Hints : FrameworkFor(OwnFramework[proc[c]], known) \in Hints
    BY <2>2 DEF FrameworkFor
  <2>4. \/ said' = said /\ obj' = obj
        \/ \E h \in Hints : said' = [said EXCEPT ![c].framework = h] /\ obj' = obj
        \/ \E h \in Hints, o \in Objs :
              /\ said' = [said EXCEPT ![c].framework = h]
              /\ obj' = [obj EXCEPT ![o].framework = h, ![o].writers = @ \cup {c}]
    BY <1>6, <1>7, <1>9, <2>2, <2>3 DEF Framework
  <2>5. obj' \in [Objs -> Descriptions]
    <3>1. ASSUME NEW o \in Objs, NEW h \in Hints,
                 obj' = [obj EXCEPT ![o].framework = h, ![o].writers = @ \cup {c}]
          PROVE  obj' \in [Objs -> Descriptions]
      BY <1>0, <3>1 DEF Descriptions
    <3> QED
      BY <1>0, <2>4, <3>1
  <2>6. said' \in [Inspections -> [runtime : Hints, framework : Hints]]
    <3>1. ASSUME NEW h \in Hints, said' = [said EXCEPT ![c].framework = h]
          PROVE  said' \in [Inspections -> [runtime : Hints, framework : Hints]]
      BY <1>01, <3>1
    <3> QED
      BY <1>01, <2>4, <3>1
  <2> QED
    <3>1. ProjectsTypeOK'
      BY <1>00, <2>1, <2>5, <2>6 DEF fileTree, ProjectsTypeOK
    <3>2. InspectionsInOrder'
      BY <1>0, <2>1, <2>2 DEF ProjectsTypeOK, InspectionsInOrder
    <3> QED
      BY <3>1, <3>2
<1>10. ASSUME NEW o \in Objs, NEW c \in Inspections, NEW value \in Hints, NEW mine \in Hints
       PROVE  Written(o, value, mine, c) \subseteq Hints
  BY HintTypes DEF Written
<1>11. ASSUME NEW c \in Inspections, RuntimeSet(c) PROVE ProjectsTypeOK' /\ InspectionsInOrder'
  <2>1. /\ pc[c] = "runtimeSet" /\ pc' = [pc EXCEPT ![c] = "framework"]
        /\ UNCHANGED <<fileTree, memo, proc, place, info, walked, said>> /\ info[c] \in Objs
    BY <1>11 DEF RuntimeSet, InspectionsInOrder
  <2>2. OwnRuntime[proc[c]] \in Hints
    BY <1>0, <2>1, HintTypes
  <2>3. PICK h \in Hints : obj' = [obj EXCEPT ![info[c]].runtime = h, ![info[c]].writers = @ \ {c},
                                 ![info[c]].raced = @ \/ obj[info[c]].writers # {c}]
    BY <1>7, <1>10, <1>11, <2>1, <2>2 DEF RuntimeSet
  <2>4. obj' \in [Objs -> Descriptions]
    BY <1>0, <2>1, <2>3 DEF Descriptions
  <2> QED
    BY <1>00, <2>1, <2>4 DEF fileTree, ProjectsTypeOK, InspectionsInOrder
<1>12. ASSUME NEW c \in Inspections, FrameworkSet(c) PROVE ProjectsTypeOK' /\ InspectionsInOrder'
  <2>1. /\ pc[c] = "frameworkSet" /\ pc' = [pc EXCEPT ![c] = "interpret"]
        /\ UNCHANGED <<fileTree, memo, proc, place, info, walked, said>> /\ info[c] \in Objs
    BY <1>12 DEF FrameworkSet, InspectionsInOrder
  <2>2. said[c].framework \in Hints
    BY DEF ProjectsTypeOK
  <2>3. PICK h \in Hints : obj' = [obj EXCEPT ![info[c]].framework = h, ![info[c]].writers = @ \ {c},
                                 ![info[c]].raced = @ \/ obj[info[c]].writers # {c}]
    BY <1>7, <1>10, <1>12, <2>1, <2>2 DEF FrameworkSet
  <2>4. obj' \in [Objs -> Descriptions]
    BY <1>0, <2>1, <2>3 DEF Descriptions
  <2> QED
    BY <1>00, <2>1, <2>4 DEF fileTree, ProjectsTypeOK, InspectionsInOrder
<1>13. ASSUME NEW c \in Inspections, Interpret(c) PROVE ProjectsTypeOK' /\ InspectionsInOrder'
  <2>1. /\ pc[c] = "interpret" /\ pc' = [pc EXCEPT ![c] = "idle"]
        /\ info' = [info EXCEPT ![c] = None] /\ proc' = [proc EXCEPT ![c] = None]
        /\ UNCHANGED <<fileTree, memo, place, walked>> /\ obj' = Collected
    BY <1>13 DEF Interpret
  <2>2. OwnRuntime[proc[c]] \in Hints /\ info[c] \in Objs \cup {None}
    BY <1>0, <2>1, HintTypes DEF ProjectsTypeOK
  <2>3. \/ said' = [said EXCEPT ![c].framework = ""]
        \/ \E r, f \in Hints : said' = [said EXCEPT ![c] = [runtime |-> r, framework |-> f]]
    BY <1>6, <1>7, <1>13, <2>2 DEF Interpret
  <2>4. said' \in [Inspections -> [runtime : Hints, framework : Hints]]
    <3>1. CASE said' = [said EXCEPT ![c].framework = ""]
      BY <1>01, <3>1, HintTypes
    <3>2. ASSUME NEW r \in Hints, NEW f \in Hints,
                 said' = [said EXCEPT ![c] = [runtime |-> r, framework |-> f]]
          PROVE  said' \in [Inspections -> [runtime : Hints, framework : Hints]]
      BY <1>01, <3>2
    <3> QED
      BY <2>3, <3>1, <3>2
  <2>5. obj' \in [Objs -> Descriptions]
    BY <1>0, <2>1, CollectedType
  <2> QED
    BY <1>00, <2>1, <2>4, <2>5 DEF fileTree, ProjectsTypeOK, InspectionsInOrder
<1>14. CASE UNCHANGED projectsVars
  BY <1>14 DEF projectsVars, fileTree, ProjectsTypeOK, InspectionsInOrder
<1> QED
  BY <1>1, <1>2, <1>3, <1>4, <1>5, <1>8, <1>9, <1>11, <1>12, <1>13, <1>14
     DEF ProjectsNext, DescribeProject

\* What the memo, the descriptions and the inspections hold stays in its type.
THEOREM ProjectsTypeCorrect == ProjectsSpec => [](ProjectsTypeOK /\ InspectionsInOrder)
  BY ProjectsTypeInit, ProjectsTypeStep, PTL DEF ProjectsSpec

-----------------------------------------------------------------------------
(* Projects: what is remembered is recent.                                 *)

\* What the files say now was so just now.
NowIsSeen == \A d \in Dirs : lastSeen[d][Project(d)] = 0

\* A description that somebody holds is of the directory it is held for.
Describes(description, d) == description.cwd = d /\ description.root \in Dirs
HeldForItsDirectory ==
    /\ \A c \in Inspections : info[c] # None => Describes(obj[info[c]], Cwd[proc[c]])
    /\ \A d \in Dirs : memo[d].info # None => Describes(obj[memo[d].info], d)

\* No project was in some directories, no longer ago than an age.
AllBare(seen, dirs, age) == \A d \in dirs : \E j \in Projects : ~j.detected /\ seen[d][j] <= age

\* A description, or None, was the answer for a working directory.
WasTheAnswer(seen, o, description, cwd, age) ==
    IF o = None THEN AllBare(seen, Upward(cwd), age)
    ELSE /\ AllBare(seen, Upward(cwd) \ Upward(description.root), age)
         /\ seen[description.root][description.project] <= age

\* What a walk has seen so far it has seen since it began.
WalkOf(c) ==
    pc[c] = "walk" =>
        /\ place[c] # None => AllBare(lastSeen, Upward(Cwd[proc[c]]) \ Upward(place[c]), walked[c])
        /\ place[c] = None => WasTheAnswer(lastSeen, info[c], obj[info[c]], Cwd[proc[c]], walked[c])
WalkIsRecent == \A c \in Inspections : WalkOf(c)

\* What is remembered and young was the answer no longer ago than its age and a walk.
EntryOf(d) ==
    Young(memo[d]) =>
        WasTheAnswer(lastSeen, memo[d].info, obj[memo[d].info], d, memo[d].age + ScanTime)
MemoIsRecent == \A d \in Dirs : EntryOf(d)

\* The inductive invariant behind ProjectIsRecent.
RecentInv == /\ ProjectsTypeOK /\ InspectionsInOrder /\ NowIsSeen /\ HeldForItsDirectory
             /\ WalkIsRecent /\ MemoIsRecent

\* A blank description has the project of an empty directory.
LEMMA NoProject == NoObj.project \in Projects
  BY DEF NoObj, Projects

\* What was so a while ago was so at most so much longer ago a while later.
LEMMA AnswerAges ==
    ASSUME NEW seen, NEW later, NEW n \in Nat, NEW age \in Nat,
           \A d \in Dirs, j \in Projects : /\ seen[d][j] \in Nat /\ later[d][j] \in Nat
                                           /\ later[d][j] <= seen[d][j] + n
    PROVE  /\ \A dirs \in SUBSET Dirs : AllBare(seen, dirs, age) => AllBare(later, dirs, age + n)
           /\ \A o, description : \A cwd \in Dirs :
                 /\ WasTheAnswer(seen, o, description, cwd, age)
                 /\ o # None => description.root \in Dirs /\ description.project \in Projects
                 => WasTheAnswer(later, o, description, cwd, age + n)
<1>1. ASSUME NEW dirs \in SUBSET Dirs, AllBare(seen, dirs, age)
      PROVE  AllBare(later, dirs, age + n)
  BY <1>1 DEF AllBare
<1>2. \A cwd \in Dirs : Upward(cwd) \in SUBSET Dirs
  BY UpwardHolds
<1>3. ASSUME NEW o, NEW description, NEW cwd \in Dirs,
             WasTheAnswer(seen, o, description, cwd, age),
             o # None => description.root \in Dirs /\ description.project \in Projects
      PROVE  WasTheAnswer(later, o, description, cwd, age + n)
  <2>1. CASE o = None
    BY <1>1, <1>2, <1>3, <2>1 DEF WasTheAnswer
  <2>2. CASE o # None
    <3>1. Upward(cwd) \ Upward(description.root) \in SUBSET Dirs
      BY <1>2
    <3>2. later[description.root][description.project] <= age + n
      BY <1>3, <2>2 DEF WasTheAnswer
    <3> QED
      BY <1>1, <1>3, <2>2, <3>1, <3>2 DEF WasTheAnswer
  <2> QED
    BY <2>1, <2>2
<1> QED
  BY <1>1, <1>3

\* An answer depends on the description's root and project alone.
LEMMA SameAnswer ==
    ASSUME NEW seen, NEW o, NEW description, NEW other, NEW cwd, NEW age,
           o # None => other.root = description.root /\ other.project = description.project,
           WasTheAnswer(seen, o, description, cwd, age)
    PROVE  WasTheAnswer(seen, o, other, cwd, age)
  BY DEF WasTheAnswer

\* The types that the steps below use.
RecentTypes ==
    /\ \A d \in Dirs, j \in Projects : lastSeen[d][j] \in Nat
    /\ \A d \in Dirs : /\ memo[d].age \in Nat /\ memo[d].info \in Objs \cup {None}
                       /\ Project(d) \in Projects
    /\ \A c \in Inspections : /\ walked[c] \in 0..ScanTime /\ info[c] \in Objs \cup {None}
                              /\ pc[c] # "idle" => Cwd[proc[c]] \in Dirs /\ proc[c] \in Procs
    /\ \A o \in Objs : obj[o].project \in Projects

\* They follow from the type invariant.
LEMMA RecentTyped == ProjectsTypeOK /\ InspectionsInOrder => RecentTypes
<1> SUFFICES ASSUME ProjectsTypeOK, InspectionsInOrder PROVE RecentTypes
  OBVIOUS
<1>1. /\ lastSeen \in [Dirs -> [Projects -> 0..OldestProject]] /\ files \in [Dirs -> SUBSET Files]
      /\ memo \in [Dirs -> [known : BOOLEAN, info : Objs \cup {None}, age : 0..MemoTTL]]
      /\ info \in [Inspections -> Objs \cup {None}]
      /\ walked \in [Inspections -> 0..ScanTime] /\ obj \in [Objs -> Descriptions]
  BY DEF ProjectsTypeOK, Descriptions
<1>2. \A d \in Dirs, j \in Projects : lastSeen[d][j] \in 0..OldestProject
  BY <1>1
<1>3. \A o \in Objs : obj[o].project \in Projects
  BY <1>1, NoProject DEF Descriptions
<1> QED
  BY <1>1, <1>2, <1>3, AgesTypes, ProjectTypes, ProjectsConstants DEF RecentTypes, InspectionsInOrder

\* Nothing is remembered at first.
LEMMA RecentInit == ProjectsInit => RecentInv
<1> SUFFICES ASSUME ProjectsInit PROVE RecentInv
  OBVIOUS
<1>1. ProjectsTypeOK /\ InspectionsInOrder
  BY ProjectsTypeInit
<1>2. NowIsSeen
  BY <1>1, ProjectTypes DEF ProjectsInit, NowIsSeen, ProjectsTypeOK
<1>3. HeldForItsDirectory
  BY DEF ProjectsInit, HeldForItsDirectory, NoEntry
<1>4. WalkIsRecent /\ MemoIsRecent
  BY DEF ProjectsInit, WalkIsRecent, WalkOf, MemoIsRecent, EntryOf, Young, NoEntry
<1> QED
  BY <1>1, <1>2, <1>3, <1>4 DEF RecentInv

\* A step of an inspection that walks no further, and that leaves the directory, the
\* root and the project of every description alone that is still held.
LEMMA RecentIfKept ==
    ASSUME RecentInv, ProjectsTypeOK', InspectionsInOrder',
           UNCHANGED <<fileTree, memo, place, walked>>,
           \A c \in Inspections : /\ pc'[c] = "walk" => pc[c] = "walk" /\ info'[c] = info[c]
                                  /\ proc'[c] # None => proc'[c] = proc[c]
                                  /\ info'[c] # None => info'[c] = info[c] /\ proc'[c] = proc[c],
           \A o \in Objs : o \in {info'[c] : c \in Inspections} \cup {memo'[d].info : d \in Dirs} =>
              obj'[o].cwd = obj[o].cwd /\ obj'[o].root = obj[o].root /\ obj'[o].project = obj[o].project
    PROVE  RecentInv'
<1>0. RecentTypes /\ RecentTypes'
  BY RecentTyped, PTL DEF RecentInv
<1>1. NowIsSeen'
  BY DEF RecentInv, NowIsSeen, Project, fileTree
<1>2. ASSUME NEW o \in Objs, \/ \E c \in Inspections : o = info'[c]
                             \/ \E d \in Dirs : o = memo'[d].info
      PROVE  obj'[o].cwd = obj[o].cwd /\ obj'[o].root = obj[o].root /\ obj'[o].project = obj[o].project
  BY <1>2
<1>3. HeldForItsDirectory'
  BY <1>0, <1>2 DEF RecentInv, HeldForItsDirectory, Describes, RecentTypes
<1>4. ASSUME NEW c \in Inspections PROVE WalkOf(c)'
  <2> SUFFICES ASSUME pc'[c] = "walk" PROVE WalkOf(c)'
    BY DEF WalkOf
  <2>1. WalkOf(c) /\ pc[c] = "walk" /\ info'[c] = info[c]
    BY DEF RecentInv, WalkIsRecent
  <2>2. proc'[c] = proc[c]
    BY <1>0, NoneIsNoProcess DEF RecentTypes
  <2>3. lastSeen' = lastSeen /\ place' = place /\ walked' = walked
    BY DEF fileTree
  <2>4. place'[c] = None => WasTheAnswer(lastSeen', info'[c], obj'[info'[c]], Cwd[proc'[c]], walked'[c])
    BY <1>0, <1>2, <2>1, <2>2, <2>3, SameAnswer DEF WalkOf, RecentTypes
  <2> QED
    BY <2>1, <2>2, <2>3, <2>4 DEF WalkOf
<1>5. ASSUME NEW d \in Dirs PROVE EntryOf(d)'
  <2> SUFFICES ASSUME Young(memo'[d]) PROVE EntryOf(d)'
    BY DEF EntryOf, Young
  <2>1. EntryOf(d) /\ Young(memo[d]) /\ memo' = memo /\ lastSeen' = lastSeen
    BY DEF RecentInv, MemoIsRecent, fileTree
  <2>2. WasTheAnswer(lastSeen, memo[d].info, obj'[memo[d].info], d, memo[d].age + ScanTime)
    BY <1>0, <1>2, <2>1, SameAnswer DEF EntryOf, RecentTypes
  <2> QED
    BY <2>1, <2>2 DEF EntryOf
<1> QED
  BY <1>1, <1>3, <1>4, <1>5 DEF RecentInv, WalkIsRecent, MemoIsRecent

\* Each step of an inspection, of the files and of time keeps what is remembered recent.
LEMMA RecentStep == RecentInv /\ [ProjectsNext]_projectsVars => RecentInv'
<1> SUFFICES ASSUME RecentInv, [ProjectsNext]_projectsVars PROVE RecentInv'
  OBVIOUS
<1>0. ProjectsTypeOK' /\ InspectionsInOrder'
  BY ProjectsTypeStep DEF RecentInv
<1>01. RecentTypes /\ RecentTypes'
  BY <1>0, RecentTyped, PTL DEF RecentInv
<1>02. /\ ScanTime \in Nat /\ MemoTTL \in Nat \ {0} /\ None \notin Dirs /\ None \notin Objs
       /\ \A c \in Inspections : walked[c] \in Nat
       /\ \A d \in Dirs : memo[d].age + ScanTime \in Nat
       /\ \A d \in Dirs : Upward(d) \in SUBSET Dirs
  BY <1>01, ProjectsConstants, UpwardHolds DEF RecentTypes
<1>03. /\ \A b \in Inspections : info[b] # None =>
             obj[info[b]].root \in Dirs /\ obj[info[b]].project \in Projects
       /\ \A d \in Dirs : memo[d].info # None =>
             obj[memo[d].info].root \in Dirs /\ obj[memo[d].info].project \in Projects
  BY <1>01 DEF RecentInv, HeldForItsDirectory, Describes, RecentTypes
<1>1. ASSUME NEW d \in Dirs, NEW f \in Files, Change(d, f) PROVE RecentInv'
  <2>1. \A e \in Dirs, j \in Projects : lastSeen'[e][j] <= lastSeen[e][j] + 0
    BY <1>0, <1>01, <1>1 DEF Change, RecentInv, ProjectsTypeOK, RecentTypes
  <2>10. ASSUME NEW age \in Nat
         PROVE  /\ \A dirs \in SUBSET Dirs : AllBare(lastSeen, dirs, age) => AllBare(lastSeen', dirs, age + 0)
                /\ \A o, description : \A cwd \in Dirs :
                      /\ WasTheAnswer(lastSeen, o, description, cwd, age)
                      /\ o # None => description.root \in Dirs /\ description.project \in Projects
                      => WasTheAnswer(lastSeen', o, description, cwd, age + 0)
    <3>1. \A e \in Dirs, j \in Projects : lastSeen[e][j] \in Nat /\ lastSeen'[e][j] \in Nat
      BY <1>01 DEF RecentTypes
    <3>2. 0 \in Nat
      OBVIOUS
    <3> QED
      BY ONLY <2>1, <3>1, <3>2, age \in Nat, AnswerAges
  <2>2. NowIsSeen'
    <3>1. Project(d)' \in Projects /\ Project(d)' = ScanProjectDir(files'[d])
      BY <1>01 DEF RecentTypes, Project
    <3>2. lastSeen'[d][Project(d)'] = 0
      BY <1>1, <3>1 DEF Change, RecentInv, ProjectsTypeOK
    <3>3. ASSUME NEW e \in Dirs \ {d} PROVE lastSeen'[e][Project(e)'] = 0
      BY <1>1 DEF Change, RecentInv, ProjectsTypeOK, NowIsSeen, Project
    <3> QED
      BY <3>2, <3>3 DEF NowIsSeen
  <2>3. HeldForItsDirectory'
    BY <1>1 DEF Change, RecentInv, HeldForItsDirectory
  <2>4. ASSUME NEW c \in Inspections PROVE WalkOf(c)'
    <3> SUFFICES ASSUME pc[c] = "walk" PROVE WalkOf(c)'
      BY <1>1 DEF Change, WalkOf
    <3>1. WalkOf(c) /\ Upward(Cwd[proc[c]]) \ Upward(place[c]) \in SUBSET Dirs /\ Cwd[proc[c]] \in Dirs
      BY <1>01, <1>02 DEF RecentInv, WalkIsRecent, RecentTypes
    <3>2. walked[c] + 0 = walked[c] /\ walked[c] \in Nat
      BY <1>02
    <3>3. place[c] # None => AllBare(lastSeen', Upward(Cwd[proc[c]]) \ Upward(place[c]), walked[c])
      BY <2>10, <3>1, <3>2 DEF WalkOf
    <3>4. place[c] = None => WasTheAnswer(lastSeen', info[c], obj[info[c]], Cwd[proc[c]], walked[c])
      BY <1>03, <2>10, <3>1, <3>2 DEF WalkOf
    <3> QED
      BY <1>1, <3>3, <3>4 DEF Change, WalkOf
  <2>5. ASSUME NEW e \in Dirs PROVE EntryOf(e)'
    <3> SUFFICES ASSUME Young(memo[e]) PROVE EntryOf(e)'
      BY <1>1 DEF Change, EntryOf, Young
    <3>1. EntryOf(e) /\ memo[e].age + ScanTime + 0 = memo[e].age + ScanTime
          /\ memo[e].age + ScanTime \in Nat
      BY <1>02 DEF RecentInv, MemoIsRecent
    <3>2. WasTheAnswer(lastSeen', memo[e].info, obj[memo[e].info], e, memo[e].age + ScanTime)
      <4> DEFINE age == memo[e].age + ScanTime
      <4>1. age \in Nat /\ age + 0 = age /\ WasTheAnswer(lastSeen, memo[e].info, obj[memo[e].info], e, age)
        BY <3>1 DEF EntryOf
      <4> HIDE DEF age
      <4>2. memo[e].info # None =>
              obj[memo[e].info].root \in Dirs /\ obj[memo[e].info].project \in Projects
        BY <1>03
      <4>3. WasTheAnswer(lastSeen', memo[e].info, obj[memo[e].info], e, age)
        BY <2>10, <4>1, <4>2
      <4> QED
        BY <4>3 DEF age
    <3> QED
      BY <1>1, <3>2 DEF Change, EntryOf
  <2> QED
    BY <1>0, <2>2, <2>3, <2>4, <2>5 DEF RecentInv, WalkIsRecent, MemoIsRecent
<1>2. CASE WalkTick
  <2>1. \A e \in Dirs, j \in Projects : lastSeen'[e][j] <= lastSeen[e][j] + 1
    BY <1>01, <1>2 DEF WalkTick, Later, RecentTypes
  <2>10. ASSUME NEW age \in Nat
         PROVE  /\ \A dirs \in SUBSET Dirs : AllBare(lastSeen, dirs, age) => AllBare(lastSeen', dirs, age + 1)
                /\ \A o, description : \A cwd \in Dirs :
                      /\ WasTheAnswer(lastSeen, o, description, cwd, age)
                      /\ o # None => description.root \in Dirs /\ description.project \in Projects
                      => WasTheAnswer(lastSeen', o, description, cwd, age + 1)
    <3>1. \A e \in Dirs, j \in Projects : lastSeen[e][j] \in Nat /\ lastSeen'[e][j] \in Nat
      BY <1>01 DEF RecentTypes
    <3>2. 1 \in Nat
      OBVIOUS
    <3> QED
      BY ONLY <2>1, <3>1, <3>2, age \in Nat, AnswerAges
  <2>2. NowIsSeen'
    BY <1>01, <1>2 DEF WalkTick, RecentTypes, NowIsSeen, Project
  <2>3. HeldForItsDirectory'
    <3>1. \A d \in Dirs : memo'[d].info = memo[d].info
      BY <1>2 DEF WalkTick, RecentInv, ProjectsTypeOK
    <3> QED
      BY <1>2, <3>1 DEF WalkTick, RecentInv, HeldForItsDirectory
  <2>4. ASSUME NEW c \in Inspections PROVE WalkOf(c)'
    <3> SUFFICES ASSUME pc[c] = "walk" PROVE WalkOf(c)'
      BY <1>2 DEF WalkTick, WalkOf
    <3>1. WalkOf(c) /\ Upward(Cwd[proc[c]]) \ Upward(place[c]) \in SUBSET Dirs /\ Cwd[proc[c]] \in Dirs
      BY <1>01, <1>02 DEF RecentInv, WalkIsRecent, RecentTypes
    <3>2. walked'[c] = walked[c] + 1 /\ walked[c] \in Nat
      BY <1>2, <1>02 DEF WalkTick, Walking
    <3>3. place[c] # None => AllBare(lastSeen', Upward(Cwd[proc[c]]) \ Upward(place[c]), walked'[c])
      BY <2>10, <3>1, <3>2 DEF WalkOf
    <3>4. place[c] = None => WasTheAnswer(lastSeen', info[c], obj[info[c]], Cwd[proc[c]], walked'[c])
      BY <1>03, <2>10, <3>1, <3>2 DEF WalkOf
    <3> QED
      BY <1>2, <3>3, <3>4 DEF WalkTick, WalkOf
  <2>5. ASSUME NEW e \in Dirs PROVE EntryOf(e)'
    <3>1. /\ memo'[e].known = memo[e].known /\ memo'[e].info = memo[e].info
          /\ memo'[e].age = Later(memo[e].age, MemoTTL)
      BY <1>2 DEF WalkTick, RecentInv, ProjectsTypeOK
    <3> SUFFICES ASSUME Young(memo'[e]) PROVE EntryOf(e)'
      BY DEF EntryOf, Young
    <3>2. memo'[e].age = memo[e].age + 1 /\ Young(memo[e])
      BY <1>01, <1>02, <3>1 DEF Young, Later, RecentTypes
    <3>3. EntryOf(e) /\ memo[e].age + ScanTime \in Nat
          /\ memo'[e].age + ScanTime = memo[e].age + ScanTime + 1
      BY <1>01, <1>02, <3>2 DEF RecentInv, MemoIsRecent, RecentTypes
    <3>4. WasTheAnswer(lastSeen', memo[e].info, obj[memo[e].info], e, memo[e].age + ScanTime + 1)
      <4> DEFINE age == memo[e].age + ScanTime
      <4>1. age \in Nat /\ WasTheAnswer(lastSeen, memo[e].info, obj[memo[e].info], e, age)
        BY <3>2, <3>3 DEF EntryOf
      <4> HIDE DEF age
      <4>2. memo[e].info # None =>
              obj[memo[e].info].root \in Dirs /\ obj[memo[e].info].project \in Projects
        BY <1>03
      <4>3. WasTheAnswer(lastSeen', memo[e].info, obj[memo[e].info], e, age + 1)
        BY <2>10, <4>1, <4>2
      <4> QED
        BY <4>3 DEF age
    <3> QED
      BY <1>2, <3>1, <3>3, <3>4 DEF WalkTick, EntryOf
  <2> QED
    BY <1>0, <2>2, <2>3, <2>4, <2>5 DEF RecentInv, WalkIsRecent, MemoIsRecent
<1>3. ASSUME NEW c \in Inspections, NEW p \in Procs, Detect(c, p) PROVE RecentInv'
  <2>0. /\ UNCHANGED <<fileTree, memo, obj, walked>> /\ pc[c] = "idle"
        /\ proc' = [proc EXCEPT ![c] = p] /\ proc'[c] = p /\ Cwd[p] \in Dirs
        /\ \A b \in Inspections \ {c} : /\ pc'[b] = pc[b] /\ place'[b] = place[b]
                                        /\ info'[b] = info[b] /\ proc'[b] = proc[b]
    BY <1>3, ProjectsConstants DEF Detect, RecentInv, ProjectsTypeOK
  <2>1. \/ pc'[c] = "runtime" /\ info'[c] = memo[Cwd[p]].info
        \/ pc'[c] = "walk" /\ info'[c] = info[c] /\ place'[c] = Cwd[p]
    BY <1>3 DEF Detect, Recall, RecentInv, ProjectsTypeOK
  <2>2. NowIsSeen'
    BY <2>0 DEF fileTree, RecentInv, NowIsSeen, Project
  <2>3. info[c] = None
    BY <2>0 DEF RecentInv, InspectionsInOrder
  <2>4. HeldForItsDirectory'
    <3>1. \A b \in Inspections \ {c} : info'[b] # None => Describes(obj'[info'[b]], Cwd[proc'[b]])
      BY <2>0 DEF RecentInv, HeldForItsDirectory
    <3>2. info'[c] # None => Describes(obj'[info'[c]], Cwd[proc'[c]])
      BY <2>0, <2>1, <2>3 DEF RecentInv, HeldForItsDirectory
    <3>3. \A d \in Dirs : memo'[d].info # None => Describes(obj'[memo'[d].info], d)
      BY <2>0 DEF RecentInv, HeldForItsDirectory
    <3> QED
      BY <3>1, <3>2, <3>3 DEF HeldForItsDirectory
  <2>5. ASSUME NEW b \in Inspections \ {c} PROVE WalkOf(b)'
    BY <2>0 DEF fileTree, RecentInv, WalkIsRecent, WalkOf
  <2>6. WalkOf(c)'
    BY <1>02, <2>0, <2>1 DEF WalkOf, AllBare
  <2>7. MemoIsRecent'
    BY <2>0 DEF fileTree, RecentInv, MemoIsRecent, EntryOf
  <2>8. WalkIsRecent'
    BY <2>5, <2>6 DEF WalkIsRecent
  <2> QED
    BY <1>0, <2>2, <2>4, <2>7, <2>8 DEF RecentInv
<1>4. ASSUME NEW c \in Inspections, Walk(c), ~Project(place[c]).detected PROVE RecentInv'
  <2>0. /\ UNCHANGED <<fileTree, memo, obj, info, pc, proc, walked>> /\ pc[c] = "walk"
        /\ place' = [place EXCEPT ![c] = Parent[place[c]]] /\ place[c] \in Dirs
    BY <1>4 DEF Walk, RecentInv, ProjectsTypeOK
  <2>1. /\ place'[c] = Parent[place[c]] /\ Parent[place[c]] \in Dirs \cup {None}
        /\ \A b \in Inspections \ {c} : place'[b] = place[b]
    BY <2>0, ProjectsConstants DEF RecentInv, ProjectsTypeOK
  <2>2. NowIsSeen' /\ HeldForItsDirectory' /\ MemoIsRecent'
    BY <2>0 DEF fileTree, RecentInv, NowIsSeen, Project, HeldForItsDirectory, MemoIsRecent, EntryOf
  <2>3. ASSUME NEW b \in Inspections \ {c} PROVE WalkOf(b)'
    BY <2>0, <2>1 DEF fileTree, RecentInv, WalkIsRecent, WalkOf
  <2>4. WalkOf(c)'
    <3> DEFINE before == Upward(Cwd[proc[c]]) \ Upward(place[c])
    <3>1. AllBare(lastSeen, before, walked[c]) /\ info[c] = None
      BY <1>02, <2>0 DEF RecentInv, WalkIsRecent, WalkOf, InspectionsInOrder
    <3>2. \E j \in Projects : ~j.detected /\ lastSeen[place[c]][j] <= walked[c]
      <4>1. Project(place[c]) \in Projects /\ lastSeen[place[c]][Project(place[c])] = 0
        BY <1>01, <2>0 DEF RecentTypes, RecentInv, NowIsSeen
      <4> QED
        BY <1>02, <1>4, <4>1
    <3>3. AllBare(lastSeen, before \cup {place[c]}, walked[c])
      BY <3>1, <3>2 DEF AllBare
    <3>4. Upward(Cwd[proc[c]]) \ (IF Parent[place[c]] = None THEN {} ELSE Upward(Parent[place[c]]))
              \subseteq before \cup {place[c]}
      BY <2>0, UpwardStep
    <3>5. AllBare(lastSeen, Upward(Cwd[proc[c]])
                              \ (IF Parent[place[c]] = None THEN {} ELSE Upward(Parent[place[c]])), walked[c])
      BY <3>3, <3>4 DEF AllBare
    <3>6. Parent[place[c]] = None => AllBare(lastSeen, Upward(Cwd[proc[c]]), walked[c])
      BY <3>5 DEF AllBare
    <3> QED
      BY <2>0, <2>1, <3>1, <3>5, <3>6 DEF fileTree, WalkOf, WasTheAnswer
  <2>5. WalkIsRecent'
    BY <2>3, <2>4 DEF WalkIsRecent
  <2> QED
    BY <1>0, <2>2, <2>5 DEF RecentInv
<1>5. ASSUME NEW c \in Inspections, Walk(c), Project(place[c]).detected PROVE RecentInv'
  <2> DEFINE d == place[c]
             made == [NoObj EXCEPT !.cwd = Cwd[proc[c]], !.root = d,
                                   !.project = Project(d), !.runtime = Project(d).runtime,
                                   !.framework = Project(d).framework]
  <2>0. /\ UNCHANGED <<fileTree, memo, pc, proc, walked>> /\ pc[c] = "walk" /\ d \in Dirs
        /\ place' = [place EXCEPT ![c] = None]
    BY <1>5 DEF Walk, RecentInv, ProjectsTypeOK
  <2>1. PICK o \in Objs \ InUse : obj' = [obj EXCEPT ![o] = made] /\ info' = [info EXCEPT ![c] = o]
    BY <1>5 DEF Walk
  <2>2. /\ made.cwd = Cwd[proc[c]] /\ made.root = d /\ made.project = Project(d)
        /\ obj'[o] = made /\ info'[c] = o /\ o # None /\ place'[c] = None
        /\ \A b \in Inspections \ {c} : info'[b] = info[b] /\ place'[b] = place[b]
    BY <1>02, <2>0, <2>1 DEF NoObj, RecentInv, ProjectsTypeOK
  <2>3. /\ \A b \in Inspections : info[b] # o /\ obj'[info[b]] = obj[info[b]]
        /\ \A e \in Dirs : memo[e].info # o /\ obj'[memo[e].info] = obj[memo[e].info]
    <3>1. /\ \A b \in Inspections : info[b] # o
          /\ \A e \in Dirs : memo[e].info # o
      BY <2>1 DEF InUse
    <3> QED
      BY <2>1, <3>1
  <2> HIDE DEF made
  <2>4. NowIsSeen'
    BY <2>0 DEF fileTree, RecentInv, NowIsSeen, Project
  <2>5. HeldForItsDirectory'
    <3>1. \A b \in Inspections \ {c} : info'[b] # None => Describes(obj'[info'[b]], Cwd[proc'[b]])
      BY <2>0, <2>2, <2>3 DEF RecentInv, HeldForItsDirectory
    <3>2. Describes(obj'[info'[c]], Cwd[proc'[c]])
      BY <2>0, <2>2 DEF Describes
    <3>3. \A e \in Dirs : memo'[e].info # None => Describes(obj'[memo'[e].info], e)
      BY <2>0, <2>3 DEF RecentInv, HeldForItsDirectory
    <3> QED
      BY <3>1, <3>2, <3>3 DEF HeldForItsDirectory
  <2>6. MemoIsRecent'
    BY <2>0, <2>3 DEF fileTree, RecentInv, MemoIsRecent, EntryOf
  <2>7. ASSUME NEW b \in Inspections \ {c} PROVE WalkOf(b)'
    BY <2>0, <2>2, <2>3 DEF fileTree, RecentInv, WalkIsRecent, WalkOf
  <2>8. WalkOf(c)'
    <3>1. AllBare(lastSeen, Upward(Cwd[proc[c]]) \ Upward(d), walked[c])
      BY <1>02, <2>0 DEF RecentInv, WalkIsRecent, WalkOf
    <3>2. lastSeen[d][Project(d)] = 0
      BY <2>0 DEF RecentInv, NowIsSeen
    <3>3. WasTheAnswer(lastSeen, o, made, Cwd[proc[c]], walked[c])
      BY <1>02, <2>2, <3>1, <3>2 DEF WasTheAnswer
    <3> QED
      BY <2>0, <2>2, <3>3 DEF fileTree, WalkOf
  <2>9. WalkIsRecent'
    BY <2>7, <2>8 DEF WalkIsRecent
  <2> QED
    BY <1>0, <2>4, <2>5, <2>6, <2>9 DEF RecentInv
<1>6. ASSUME NEW c \in Inspections, Remember(c) PROVE RecentInv'
  <2> DEFINE cwd == Cwd[proc[c]]
  <2>0. /\ pc[c] = "walk" /\ place[c] = None /\ walked' = [walked EXCEPT ![c] = 0]
        /\ pc' = [pc EXCEPT ![c] = "runtime"] /\ UNCHANGED <<fileTree, proc, place, info, said>>
        /\ obj' = Collected /\ cwd \in Dirs
    BY <1>01, <1>6 DEF Remember, RecentTypes
  <2>1. /\ memo'[cwd] = [known |-> TRUE, info |-> info[c], age |-> 0]
        /\ \A d \in Dirs \ {cwd} : memo'[d] = memo[d] \/ memo'[d] = NoEntry
    BY <1>6, <2>0 DEF Remember
  <2>2. /\ \A b \in Inspections : info[b] # None => obj'[info[b]] = obj[info[b]]
        /\ \A d \in Dirs : memo'[d].info # None => obj'[memo'[d].info] = obj[memo'[d].info]
    <3>1. \A o \in Objs : o \in InUse' => obj'[o] = obj[o]
      BY <2>0 DEF Collected
    <3>2. \A b \in Inspections : info[b] \in InUse' /\ info[b] \in Objs \cup {None}
      BY <1>01, <2>0 DEF InUse, RecentTypes
    <3>3. \A d \in Dirs : memo'[d].info \in InUse' /\ memo'[d].info \in Objs \cup {None}
      BY <1>01 DEF InUse, RecentTypes
    <3> QED
      BY <3>1, <3>2, <3>3
  <2>3. NowIsSeen'
    BY <2>0 DEF fileTree, RecentInv, NowIsSeen, Project
  <2>4. HeldForItsDirectory'
    <3>1. \A b \in Inspections : info'[b] # None => Describes(obj'[info'[b]], Cwd[proc'[b]])
      BY <2>0, <2>2 DEF RecentInv, HeldForItsDirectory
    <3>2. ASSUME NEW d \in Dirs, memo'[d].info # None PROVE Describes(obj'[memo'[d].info], d)
      <4>1. CASE d = cwd
        BY <2>0, <2>1, <2>2, <3>2, <4>1 DEF RecentInv, HeldForItsDirectory
      <4>2. CASE d # cwd
        BY <2>1, <2>2, <3>2, <4>2 DEF RecentInv, HeldForItsDirectory, NoEntry
      <4> QED
        BY <4>1, <4>2
    <3> QED
      BY <3>1, <3>2 DEF HeldForItsDirectory
  <2>5. ASSUME NEW b \in Inspections \ {c} PROVE WalkOf(b)'
    <3> SUFFICES ASSUME pc'[b] = "walk" PROVE WalkOf(b)'
      BY DEF WalkOf
    <3>1. pc[b] = "walk" /\ walked'[b] = walked[b] /\ WalkOf(b)
      BY <2>0 DEF RecentInv, WalkIsRecent, ProjectsTypeOK
    <3>2. place[b] = None => WasTheAnswer(lastSeen, info[b], obj'[info[b]], Cwd[proc[b]], walked[b])
      BY <2>2, <3>1, SameAnswer DEF WalkOf
    <3> QED
      BY <2>0, <3>1, <3>2 DEF fileTree, WalkOf
  <2>6. WalkOf(c)'
    BY <2>0 DEF RecentInv, ProjectsTypeOK, WalkOf
  <2>7. ASSUME NEW d \in Dirs PROVE EntryOf(d)'
    <3> SUFFICES ASSUME Young(memo'[d]) PROVE EntryOf(d)'
      BY DEF EntryOf, Young
    <3>1. CASE d = cwd
      <4>1. WasTheAnswer(lastSeen, info[c], obj[info[c]], cwd, walked[c])
        BY <2>0 DEF RecentInv, WalkIsRecent, WalkOf
      <4>2. WasTheAnswer(lastSeen, info[c], obj'[info[c]], cwd, walked[c])
        BY <2>2, <4>1, SameAnswer
      <4>3. WasTheAnswer(lastSeen, info[c], obj'[info[c]], cwd, ScanTime)
        <5>1. /\ walked[c] \in Nat /\ ScanTime - walked[c] \in Nat
              /\ walked[c] + (ScanTime - walked[c]) = ScanTime
          BY <1>01, <1>02 DEF RecentTypes
        <5>2. \A e \in Dirs, j \in Projects : lastSeen[e][j] <= lastSeen[e][j] + (ScanTime - walked[c])
          BY <1>01, <5>1 DEF RecentTypes
        <5>3. info[c] # None => obj'[info[c]].root \in Dirs /\ obj'[info[c]].project \in Projects
          BY <1>03, <2>2
        <5>4. \A e \in Dirs, j \in Projects : lastSeen[e][j] \in Nat
          BY <1>01 DEF RecentTypes
        <5>5. WasTheAnswer(lastSeen, info[c], obj'[info[c]], cwd, walked[c] + (ScanTime - walked[c]))
          BY ONLY <2>0, <4>2, <5>1, <5>2, <5>3, <5>4, AnswerAges
        <5> QED
          BY <5>1, <5>5
      <4> QED
        BY <1>02, <2>0, <2>1, <3>1, <4>3 DEF fileTree, EntryOf
    <3>2. CASE d # cwd
      <4>1. memo'[d] = memo[d]
        BY <2>1, <3>2 DEF Young, NoEntry
      <4>2. WasTheAnswer(lastSeen, memo[d].info, obj'[memo[d].info], d, memo[d].age + ScanTime)
        BY <2>2, <4>1, SameAnswer DEF RecentInv, MemoIsRecent, EntryOf
      <4> QED
        BY <2>0, <4>1, <4>2 DEF fileTree, EntryOf
    <3> QED
      BY <3>1, <3>2
  <2>8. WalkIsRecent'
    BY <2>5, <2>6 DEF WalkIsRecent
  <2> QED
    BY <1>0, <2>3, <2>4, <2>7, <2>8 DEF RecentInv, MemoIsRecent
<1>7. ASSUME NEW c \in Inspections, Runtime(c) \/ RuntimeSet(c) \/ Framework(c) \/ FrameworkSet(c)
      PROVE  RecentInv'
  <2>1. UNCHANGED <<fileTree, memo, place, walked, info, proc>>
    BY <1>7 DEF Runtime, RuntimeSet, Framework, FrameworkSet
  <2>2. \A b \in Inspections : pc'[b] = "walk" => pc[b] = "walk"
    BY <1>7 DEF Runtime, RuntimeSet, Framework, FrameworkSet, RecentInv, ProjectsTypeOK
  <2>3. obj \in [Objs -> Descriptions]
    BY DEF RecentInv, ProjectsTypeOK, Descriptions
  <2>4. \A o \in Objs : obj'[o].cwd = obj[o].cwd /\ obj'[o].root = obj[o].root
                        /\ obj'[o].project = obj[o].project
    <3>1. CASE Runtime(c)
      <4>1. obj' = obj \/ obj' = [obj EXCEPT ![info[c]].runtime = OwnRuntime[proc[c]],
                                             ![info[c]].writers = @ \cup {c}]
        BY <3>1 DEF Runtime
      <4> QED
        BY <2>3, <4>1 DEF Descriptions
    <3>2. CASE RuntimeSet(c)
      BY <2>3, <3>2 DEF RuntimeSet, Descriptions
    <3>3. CASE Framework(c)
      <4>1. obj' = obj \/ \E h : obj' = [obj EXCEPT ![info[c]].framework = h,
                                                    ![info[c]].writers = @ \cup {c}]
        BY <3>3 DEF Framework
      <4>2. ASSUME NEW h, obj' = [obj EXCEPT ![info[c]].framework = h,
                                             ![info[c]].writers = @ \cup {c}],
                   NEW o \in Objs
            PROVE  obj'[o].cwd = obj[o].cwd /\ obj'[o].root = obj[o].root
                   /\ obj'[o].project = obj[o].project
        BY <2>3, <4>2 DEF Descriptions
      <4> QED
        BY <4>1, <4>2
    <3>4. CASE FrameworkSet(c)
      BY <2>3, <3>4 DEF FrameworkSet, Descriptions
    <3> QED
      BY <1>7, <3>1, <3>2, <3>3, <3>4
  <2> QED
    BY <1>0, <2>1, <2>2, <2>4, RecentIfKept
<1>8. ASSUME NEW c \in Inspections, Interpret(c) PROVE RecentInv'
  <2>1. /\ UNCHANGED <<fileTree, memo, place, walked>> /\ obj' = Collected
        /\ pc' = [pc EXCEPT ![c] = "idle"] /\ info' = [info EXCEPT ![c] = None]
        /\ proc' = [proc EXCEPT ![c] = None]
    BY <1>8 DEF Interpret
  <2>2. \A b \in Inspections : /\ pc'[b] = "walk" => pc[b] = "walk" /\ info'[b] = info[b]
                               /\ proc'[b] # None => proc'[b] = proc[b]
                               /\ info'[b] # None => info'[b] = info[b] /\ proc'[b] = proc[b]
    BY <2>1 DEF RecentInv, ProjectsTypeOK
  <2>3. \A o \in Objs : o \in InUse' => obj'[o] = obj[o]
    BY <2>1 DEF Collected
  <2>4. InUse' = {info'[b] : b \in Inspections} \cup {memo'[d].info : d \in Dirs}
    BY DEF InUse
  <2> QED
    BY <1>0, <2>1, <2>2, <2>3, <2>4, RecentIfKept
<1>9. CASE UNCHANGED projectsVars
  BY <1>0, <1>9, RecentIfKept DEF projectsVars
<1> QED
  BY <1>1, <1>2, <1>3, <1>4, <1>5, <1>6, <1>7, <1>8, <1>9 DEF ProjectsNext, DescribeProject

\* What is remembered and what a walk has seen is recent, in every reachable state.
THEOREM ProjectsAreRecent == ProjectsSpec => []RecentInv
  BY RecentInit, RecentStep, PTL DEF ProjectsSpec

\* A report is given the project that was the nearest one to its working directory
\* within the last projectMemoTTL and one walk, or none if none was.
THEOREM DetectedProjectIsRecent == ProjectsSpec => ProjectIsRecent
<1> DEFINE Gets(c) == pc[c] \in {"idle", "walk"} /\ pc'[c] = "runtime"
           Recent(c) ==
              LET cwd == Cwd[proc'[c]]
                  o == info'[c]
                  passed == Upward(cwd) \ (IF o = None THEN {} ELSE Upward(obj[o].root))
              IN  /\ \A d \in passed :
                        \E j \in Projects : ~j.detected /\ lastSeen[d][j] < MemoTTL + ScanTime
                  /\ o # None => lastSeen[obj[o].root][obj[o].project] < MemoTTL + ScanTime
<1>1. ASSUME RecentInv, [ProjectsNext]_projectsVars, NEW c \in Inspections, Gets(c)
      PROVE  Recent(c)
  <2>0. /\ RecentTypes /\ MemoTTL \in Nat \ {0} /\ ScanTime \in Nat
        /\ \A d \in Dirs : Upward(d) \in SUBSET Dirs
    BY <1>1, RecentTyped, ProjectsConstants, UpwardHolds DEF RecentInv
  <2>1. ASSUME NEW cwd \in Dirs, NEW o, NEW age \in Nat, age < MemoTTL + ScanTime,
               Cwd[proc'[c]] = cwd, info'[c] = o, WasTheAnswer(lastSeen, o, obj[o], cwd, age),
               o # None => obj[o].root \in Dirs /\ obj[o].project \in Projects
        PROVE  Recent(c)
    <3>1. \A d \in Dirs, j \in Projects : lastSeen[d][j] \in Nat
      BY <2>0 DEF RecentTypes
    <3>2. MemoTTL + ScanTime \in Nat
      BY <2>0
    <3> DEFINE bound == MemoTTL + ScanTime
               passed == Upward(cwd) \ (IF o = None THEN {} ELSE Upward(obj[o].root))
    <3>3. passed \in SUBSET Dirs
      BY <2>0
    <3>4. AllBare(lastSeen, passed, age)
      BY <2>1 DEF WasTheAnswer, AllBare
    <3>5. o # None => lastSeen[obj[o].root][obj[o].project] <= age
      BY <2>1 DEF WasTheAnswer
    <3>6. age < bound /\ bound \in Nat
      BY <2>1, <3>2
    <3> HIDE DEF bound, passed
    <3>7. \A d \in passed : \E j \in Projects : ~j.detected /\ lastSeen[d][j] < bound
      BY <2>1, <3>1, <3>3, <3>4, <3>6 DEF AllBare
    <3>8. o # None => lastSeen[obj[o].root][obj[o].project] < bound
      BY <2>1, <3>1, <3>5, <3>6
    <3> QED
      BY <2>1, <3>7, <3>8 DEF bound, passed
  <2>2. ASSUME NEW p \in Procs, Detect(c, p) PROVE Recent(c)
    <3>1. /\ Young(memo[Cwd[p]]) /\ info'[c] = memo[Cwd[p]].info /\ proc'[c] = p /\ Cwd[p] \in Dirs
      BY <1>1, <2>2, ProjectsConstants DEF Detect, Recall, RecentInv, ProjectsTypeOK
    <3>2. WasTheAnswer(lastSeen, memo[Cwd[p]].info, obj[memo[Cwd[p]].info], Cwd[p],
                       memo[Cwd[p]].age + ScanTime)
      BY <1>1, <3>1 DEF RecentInv, MemoIsRecent, EntryOf
    <3>3. memo[Cwd[p]].age + ScanTime \in Nat /\ memo[Cwd[p]].age + ScanTime < MemoTTL + ScanTime
      BY <2>0, <3>1 DEF Young, RecentTypes
    <3>4. memo[Cwd[p]].info # None =>
            obj[memo[Cwd[p]].info].root \in Dirs /\ obj[memo[Cwd[p]].info].project \in Projects
      BY <1>1, <2>0, <3>1 DEF RecentInv, HeldForItsDirectory, Describes, RecentTypes
    <3> DEFINE age == memo[Cwd[p]].age + ScanTime
               o == memo[Cwd[p]].info
    <3>5. /\ age \in Nat /\ age < MemoTTL + ScanTime /\ Cwd[proc'[c]] = Cwd[p] /\ info'[c] = o
          /\ WasTheAnswer(lastSeen, o, obj[o], Cwd[p], age)
          /\ o # None => obj[o].root \in Dirs /\ obj[o].project \in Projects
      BY <3>1, <3>2, <3>3, <3>4
    <3> HIDE DEF age, o, Recent
    <3> QED
      BY <2>1, <3>1, <3>5
  <2>3. ASSUME Remember(c) PROVE Recent(c)
    <3>1. pc[c] = "walk" /\ place[c] = None /\ info'[c] = info[c] /\ proc'[c] = proc[c]
          /\ Cwd[proc[c]] \in Dirs /\ walked[c] \in Nat /\ walked[c] < MemoTTL + ScanTime
      BY <2>0, <2>3 DEF Remember, RecentTypes
    <3>2. WasTheAnswer(lastSeen, info[c], obj[info[c]], Cwd[proc[c]], walked[c])
      BY <1>1, <3>1 DEF RecentInv, WalkIsRecent, WalkOf
    <3>3. info[c] # None => obj[info[c]].root \in Dirs /\ obj[info[c]].project \in Projects
      BY <1>1, <2>0 DEF RecentInv, HeldForItsDirectory, Describes, RecentTypes
    <3> HIDE DEF Recent
    <3> QED
      BY <2>1, <3>1, <3>2, <3>3
  <2>4. Remember(c) \/ \E p \in Procs : Detect(c, p)
    <3>1. pc'[c] # pc[c] /\ pc \in [Inspections -> {"idle", "walk", "runtime", "runtimeSet", "framework",
                           "frameworkSet", "interpret"}]
      BY <1>1 DEF RecentInv, ProjectsTypeOK
    <3>2. \/ \E b \in Inspections : DescribeProject(b)
          \/ \E b \in Inspections, p \in Procs : Detect(b, p)
      BY <1>1, <3>1 DEF ProjectsNext, Change, WalkTick, projectsVars
    <3>3. ASSUME NEW b \in Inspections, DescribeProject(b) PROVE Remember(c)
      <4>1. b = c
        BY <3>1, <3>3 DEF DescribeProject, Walk, Remember, Runtime, RuntimeSet, Framework,
                          FrameworkSet, Interpret
      <4> QED
        BY <1>1, <3>1, <3>3, <4>1 DEF DescribeProject, Walk, Runtime, RuntimeSet, Framework,
                                      FrameworkSet, Interpret
    <3>4. ASSUME NEW b \in Inspections, NEW p \in Procs, Detect(b, p) PROVE b = c
      BY <3>1, <3>4 DEF Detect
    <3> QED
      BY <3>2, <3>3, <3>4
  <2> QED
    BY <2>2, <2>3, <2>4
<1> HIDE DEF Gets, Recent
<1>2. RecentInv /\ [ProjectsNext]_projectsVars
        => [\A c \in Inspections : Gets(c) => Recent(c)]_projectsVars
  BY <1>1
<1>3. ProjectsSpec => [][\A c \in Inspections : Gets(c) => Recent(c)]_projectsVars
  BY <1>2, ProjectsAreRecent, PTL DEF ProjectsSpec
<1> QED
  BY <1>3 DEF Gets, Recent, ProjectIsRecent

-----------------------------------------------------------------------------
(* Projects: what descriptions say is of their directory.                  *)

\* Those who write into a description hold it.
WritersOf(c) ==
    /\ \A o \in Objs : c \in obj[o].writers =>
          info[c] = o /\ pc[c] \in {"runtimeSet", "frameworkSet"}
    /\ pc[c] \in {"runtimeSet", "frameworkSet"} => c \in obj[info[c]].writers

\* What the manifest or a process of the directory says.
Local(d) == {p \in Procs : Cwd[p] = d}
RuntimesFor(x) == {x.project.runtime} \cup {OwnRuntime[p] : p \in Local(x.cwd)}
FrameworksFor(x) == {x.project.framework} \cup {OwnFramework[p] : p \in Local(x.cwd)}

\* A description says that, unless two wrote into it at once or are at it.
Undisturbed(x) == x.cwd # None /\ x.raced = FALSE /\ \A c, d \in x.writers : c = d
SaysWhatIsLocal(x) ==
    Undisturbed(x) => x.runtime \in RuntimesFor(x) /\ x.framework \in FrameworksFor(x)

\* So does what is about to be written, unless somebody else is writing.
NextOf(c) ==
    pc[c] = "frameworkSet" =>
        \/ said[c].framework \in FrameworksFor(obj[info[c]])
        \/ obj[info[c]].raced \/ obj[info[c]].writers # {c}

\* The inductive invariant behind HintsStayInDirectory.
HintsInv == /\ \A c \in Inspections : WritersOf(c) /\ NextOf(c)
            /\ \A o \in Objs : SaysWhatIsLocal(obj[o])

\* Where an inspection is while it writes into what it holds.
Writing == {"runtimeSet", "frameworkSet"}

\* What the steps below use of the types, and of whose a description is.
HintTyped ==
    /\ obj \in [Objs -> Descriptions] /\ None \notin Objs /\ None \notin Dirs
    /\ pc \in [Inspections -> {"idle", "walk", "runtime", "runtimeSet", "framework",
                               "frameworkSet", "interpret"}]
    /\ said \in [Inspections -> [runtime : Hints, framework : Hints]]
    /\ info \in [Inspections -> Objs \cup {None}]
    /\ \A c \in Inspections : /\ pc[c] # "idle" => proc[c] \in Procs
                              /\ pc[c] \in Writing => info[c] \in Objs
                              /\ info[c] # None => /\ obj[info[c]].cwd = Cwd[proc[c]]
                                                   /\ pc[c] # "idle"
                                                   /\ Cwd[proc[c]] \in Dirs

\* The types follow from the invariant of the last section.
LEMMA HintTyping == RecentInv => HintTyped
<1> SUFFICES ASSUME RecentInv PROVE HintTyped
  OBVIOUS
<1>1. ProjectsTypeOK /\ InspectionsInOrder /\ HeldForItsDirectory
  BY DEF RecentInv
<1>2. /\ obj \in [Objs -> Descriptions]
      /\ pc \in [Inspections -> {"idle", "walk", "runtime", "runtimeSet", "framework",
                                 "frameworkSet", "interpret"}]
      /\ said \in [Inspections -> [runtime : Hints, framework : Hints]]
      /\ info \in [Inspections -> Objs \cup {None}]
  BY <1>1 DEF ProjectsTypeOK, Descriptions
<1>3. None \notin Objs /\ None \notin Dirs /\ \A p \in Procs : Cwd[p] \in Dirs
  BY ProjectsConstants
<1> QED
  BY <1>1, <1>2, <1>3 DEF InspectionsInOrder, HeldForItsDirectory, Describes, HintTyped, Writing

\* A description that is blank says nothing.
LEMMA BlankSaysNothing == SaysWhatIsLocal(NoObj) /\ NoObj.writers = {}
  BY DEF SaysWhatIsLocal, Undisturbed, NoObj

\* No description is there at first.
LEMMA HintsInit == ProjectsInit => HintsInv
<1> SUFFICES ASSUME ProjectsInit PROVE HintsInv
  OBVIOUS
<1>1. \A o \in Objs : obj[o] = NoObj
  BY DEF ProjectsInit
<1>2. \A c \in Inspections : pc[c] = "idle"
  BY DEF ProjectsInit
<1> QED
  BY <1>1, <1>2, BlankSaysNothing DEF HintsInv, WritersOf, NextOf

\* A step that writes into no description: those that are written into stay as they
\* are and with their writers, and the others are what they were, new, or gone.
LEMMA HintsIfNobodyWrites ==
    ASSUME HintsInv, HintTyped, HintTyped',
           \A o \in Objs : \/ obj'[o] = obj[o]
                           \/ obj'[o].writers = {} /\ SaysWhatIsLocal(obj'[o]),
           \A c \in Inspections :
              /\ pc[c] \in Writing => pc'[c] = pc[c] /\ info'[c] = info[c]
              /\ pc'[c] \in Writing => /\ pc'[c] = pc[c] /\ info'[c] = info[c] /\ said'[c] = said[c]
                                       /\ obj'[info[c]] = obj[info[c]]
    PROVE  HintsInv'
<1>1. ASSUME NEW c \in Inspections PROVE WritersOf(c)'
  <2>1. WritersOf(c)
    BY DEF HintsInv
  <2>2. ASSUME NEW o \in Objs, c \in obj'[o].writers
        PROVE  info'[c] = o /\ pc'[c] \in Writing
    BY <2>1, <2>2 DEF WritersOf, Writing
  <2>3. ASSUME pc'[c] \in Writing PROVE c \in obj'[info'[c]].writers
    BY <2>1, <2>3 DEF WritersOf, Writing
  <2> QED
    BY <2>2, <2>3 DEF WritersOf, Writing
<1>2. ASSUME NEW c \in Inspections PROVE NextOf(c)'
  <2>1. NextOf(c)
    BY DEF HintsInv
  <2> QED
    BY <2>1 DEF NextOf, Writing
<1>3. ASSUME NEW o \in Objs PROVE SaysWhatIsLocal(obj'[o])
  BY DEF HintsInv
<1>4. (\A o \in Objs : SaysWhatIsLocal(obj[o]))' <=> \A o \in Objs : SaysWhatIsLocal(obj'[o])
  BY DEF SaysWhatIsLocal, Undisturbed, RuntimesFor, FrameworksFor
<1> QED
  BY <1>1, <1>2, <1>3, <1>4 DEF HintsInv

\* A step in which one inspection begins or ends to write into what it holds: it
\* leaves the other writers there, and whoever is left alone there knows of the race.
LEMMA HintsIfOneWrites ==
    ASSUME HintsInv, HintTyped, NEW c \in Inspections, NEW x, info[c] \in Objs,
           obj' = [obj EXCEPT ![info[c]] = x], info' = info,
           \A b \in Inspections \ {c} : pc'[b] = pc[b] /\ said'[b] = said[b],
           x.cwd = obj[info[c]].cwd, x.project = obj[info[c]].project,
           obj[info[c]].raced => x.raced,
           x.writers \ {c} = obj[info[c]].writers \ {c},
           c \in x.writers <=> pc'[c] \in Writing,
           \A b \in Inspections \ {c} : b \in x.writers => x.raced \/ x.writers # {b},
           SaysWhatIsLocal(x),
           pc'[c] = "frameworkSet" =>
               said'[c].framework \in FrameworksFor(x) \/ x.raced \/ x.writers # {c}
    PROVE  HintsInv'
<1> DEFINE o == info[c]
<1>1. o \in Objs /\ obj'[o] = x /\ \A p \in Objs \ {o} : obj'[p] = obj[p]
  BY DEF HintTyped
<1>2. ASSUME NEW b \in Inspections \ {c} PROVE WritersOf(b)'
  <2>1. WritersOf(b)
    BY DEF HintsInv
  <2>2. \A p \in Objs : b \in obj'[p].writers <=> b \in obj[p].writers
    BY <1>1
  <2>3. pc[b] \in Writing => info[b] \in Objs
    BY DEF HintTyped
  <2> QED
    BY <2>1, <2>2, <2>3 DEF WritersOf, Writing
<1>3. WritersOf(c)'
  <2>1. \A p \in Objs \ {o} : c \notin obj'[p].writers
    BY <1>1 DEF HintsInv, WritersOf
  <2> QED
    BY <1>1, <2>1 DEF WritersOf, Writing
<1>4. ASSUME NEW b \in Inspections \ {c} PROVE NextOf(b)'
  <2> SUFFICES ASSUME pc[b] = "frameworkSet" PROVE NextOf(b)'
    BY DEF NextOf
  <2>1. NextOf(b) /\ WritersOf(b) /\ info[b] \in Objs
    BY DEF HintsInv, HintTyped, Writing
  <2>2. CASE info[b] # o
    BY <1>1, <2>1, <2>2 DEF NextOf, FrameworksFor
  <2>3. CASE info[b] = o
    <3>1. b \in x.writers
      BY <2>1, <2>3 DEF WritersOf
    <3>2. x.raced \/ x.writers # {b}
      BY <3>1
    <3> QED
      BY <1>1, <2>3, <3>2 DEF NextOf
  <2> QED
    BY <2>2, <2>3
<1>5. NextOf(c)'
  BY <1>1 DEF NextOf, FrameworksFor
<1>6. ASSUME NEW p \in Objs PROVE SaysWhatIsLocal(obj'[p])
  BY <1>1 DEF HintsInv
<1>7. (\A p \in Objs : SaysWhatIsLocal(obj[p]))' <=> \A p \in Objs : SaysWhatIsLocal(obj'[p])
  BY DEF SaysWhatIsLocal, Undisturbed, RuntimesFor, FrameworksFor
<1> QED
  BY <1>2, <1>3, <1>4, <1>5, <1>6, <1>7 DEF HintsInv

\* What an inspection that holds a description undisturbed reads of it is what it says.
LEMMA ReadsWhatItSays ==
    ASSUME NEW o \in Objs, NEW value, NEW c \in Inspections, obj[o].writers \subseteq {c},
           NEW seen \in Read(o, value, c)
    PROVE  seen = value
  BY DEF Read

\* What descriptions say stays what is so in their directory.
LEMMA HintsStep ==
    RecentInv /\ RecentInv' /\ HintsInv /\ [ProjectsNext]_projectsVars => HintsInv'
<1> SUFFICES ASSUME RecentInv, RecentInv', HintsInv, [ProjectsNext]_projectsVars PROVE HintsInv'
  OBVIOUS
<1>0. HintTyped /\ HintTyped'
  BY HintTyping, PTL
<1>1. ASSUME NEW d \in Dirs, NEW f \in Files, Change(d, f) PROVE HintsInv'
  <2>1. UNCHANGED <<obj, pc, info, said>>
    BY <1>1 DEF Change
  <2> QED
    BY <1>0, <2>1, HintsIfNobodyWrites
<1>2. CASE WalkTick
  <2>1. UNCHANGED <<obj, pc, info, said>>
    BY <1>2 DEF WalkTick
  <2> QED
    BY <1>0, <2>1, HintsIfNobodyWrites
<1>3. ASSUME NEW c \in Inspections, NEW p \in Procs, Detect(c, p) PROVE HintsInv'
  <2>1. /\ obj' = obj /\ pc[c] = "idle" /\ pc'[c] \notin Writing
        /\ \A b \in Inspections \ {c} : pc'[b] = pc[b] /\ info'[b] = info[b] /\ said'[b] = said[b]
    BY <1>0, <1>3 DEF Detect, HintTyped, Writing
  <2>2. pc[c] \notin Writing
    BY <2>1 DEF Writing
  <2> QED
    BY <1>0, <2>1, <2>2, HintsIfNobodyWrites
<1>4. ASSUME NEW c \in Inspections, Walk(c) PROVE HintsInv'
  <2>1. /\ pc' = pc /\ said' = said /\ pc[c] = "walk" /\ pc[c] \notin Writing
        /\ \A b \in Inspections \ {c} : info'[b] = info[b]
    BY <1>0, <1>4 DEF Walk, HintTyped, Writing
  <2>2. \/ obj' = obj
        \/ \E o \in Objs \ InUse : obj' = [obj EXCEPT ![o] =
                              [NoObj EXCEPT !.cwd = Cwd[proc[c]], !.root = place[c],
                                 !.project = Project(place[c]), !.runtime = Project(place[c]).runtime,
                                 !.framework = Project(place[c]).framework]]
    BY <1>4 DEF Walk
  <2>3. CASE obj' = obj
    BY <1>0, <2>1, <2>3, HintsIfNobodyWrites
  <2>4. ASSUME NEW o \in Objs \ InUse,
               obj' = [obj EXCEPT ![o] =
                              [NoObj EXCEPT !.cwd = Cwd[proc[c]], !.root = place[c],
                                 !.project = Project(place[c]), !.runtime = Project(place[c]).runtime,
                                 !.framework = Project(place[c]).framework]]
        PROVE  HintsInv'
    <3> DEFINE x == [NoObj EXCEPT !.cwd = Cwd[proc[c]], !.root = place[c],
                                 !.project = Project(place[c]), !.runtime = Project(place[c]).runtime,
                                 !.framework = Project(place[c]).framework]
    <3>1. x.writers = {} /\ x.project = Project(place[c])
          /\ x.runtime = Project(place[c]).runtime /\ x.framework = Project(place[c]).framework
      BY DEF NoObj
    <3> HIDE DEF x
    <3>2. SaysWhatIsLocal(x)
      BY <3>1 DEF SaysWhatIsLocal, RuntimesFor, FrameworksFor
    <3>3. obj'[o] = x /\ \A p \in Objs \ {o} : obj'[p] = obj[p]
      BY <1>0, <2>4 DEF HintTyped, x
    <3>4. \A b \in Inspections : info[b] # o
      BY DEF InUse
    <3>5. \A b \in Inspections : pc[b] \in Writing => obj'[info[b]] = obj[info[b]]
      BY <1>0, <3>3, <3>4 DEF HintTyped
    <3> QED
      BY <1>0, <2>1, <3>1, <3>2, <3>3, <3>5, HintsIfNobodyWrites
  <2> QED
    BY <2>2, <2>3, <2>4
<1>5. \A o \in Objs : obj' = Collected =>
          obj'[o] = obj[o] \/ (obj'[o].writers = {} /\ SaysWhatIsLocal(obj'[o]))
  <2>1. \A o \in Objs : obj' = Collected => obj'[o] = obj[o] \/ obj'[o] = NoObj
    BY DEF Collected
  <2> QED
    BY <2>1, BlankSaysNothing
<1>6. ASSUME NEW c \in Inspections, Remember(c) PROVE HintsInv'
  <2>1. /\ obj' = Collected /\ info' = info /\ said' = said
        /\ pc[c] \notin Writing /\ pc'[c] \notin Writing
        /\ \A b \in Inspections \ {c} : pc'[b] = pc[b]
    BY <1>0, <1>6 DEF Remember, HintTyped, Writing
  <2>2. \A b \in Inspections : info[b] \in Objs => obj'[info[b]] = obj[info[b]]
    BY <2>1 DEF Collected, InUse
  <2>3. \A b \in Inspections : pc[b] \in Writing => info[b] \in Objs
    BY <1>0 DEF HintTyped
  <2> QED
    BY <1>0, <1>5, <2>1, <2>2, <2>3, HintsIfNobodyWrites
<1>7. ASSUME NEW c \in Inspections, Runtime(c) PROVE HintsInv'
  <2> DEFINE o == info[c]
             own == OwnRuntime[proc[c]]
             x == [obj[o] EXCEPT !.runtime = own, !.writers = @ \cup {c}]
  <2>1. /\ info' = info /\ pc[c] = "runtime" /\ pc[c] \notin Writing
        /\ \A b \in Inspections \ {c} : pc'[b] = pc[b] /\ said'[b] = said[b]
    <3>1. info' = info /\ pc[c] = "runtime" /\ pc[c] \notin Writing
      BY <1>7 DEF Runtime, Writing
    <3>2. \E to : pc' = [pc EXCEPT ![c] = to]
      BY <1>7 DEF Runtime
    <3>3. said' = said \/ \E hint : said' = [said EXCEPT ![c].runtime = hint]
      BY <1>7 DEF Runtime
    <3>4. \A b \in Inspections \ {c} : pc'[b] = pc[b]
      BY <1>0, <3>2 DEF HintTyped
    <3>5. \A b \in Inspections \ {c} : said'[b] = said[b]
      BY <1>0, <3>3 DEF HintTyped
    <3> QED
      BY <3>1, <3>4, <3>5
  <2>2. \/ obj' = obj /\ pc'[c] = "framework"
        \/ o # None /\ obj' = [obj EXCEPT ![o].runtime = own, ![o].writers = @ \cup {c}]
           /\ pc'[c] = "runtimeSet"
    BY <1>0, <1>7 DEF Runtime, HintTyped
  <2>3. CASE obj' = obj /\ pc'[c] = "framework"
    <3>1. pc'[c] \notin Writing
      BY <2>3 DEF Writing
    <3> QED
      BY <1>0, <2>1, <2>3, <3>1, HintsIfNobodyWrites
  <2>4. CASE o # None /\ obj' = [obj EXCEPT ![o].runtime = own, ![o].writers = @ \cup {c}]
             /\ pc'[c] = "runtimeSet"
    <3>1. o \in Objs /\ proc[c] \in Procs /\ obj[o].cwd = Cwd[proc[c]] /\ obj[o] \in Descriptions
      BY <1>0, <2>1, <2>4 DEF HintTyped
    <3>2. obj' = [obj EXCEPT ![o] = x]
      BY <1>0, <2>4, <3>1 DEF HintTyped
    <3>3. /\ x.cwd = obj[o].cwd /\ x.project = obj[o].project /\ x.raced = obj[o].raced
          /\ x.writers = obj[o].writers \cup {c} /\ x.runtime = own /\ x.framework = obj[o].framework
      BY <3>1 DEF Descriptions
    <3> HIDE DEF x
    <3>4. SaysWhatIsLocal(x)
      <4> SUFFICES ASSUME Undisturbed(x)
                   PROVE  x.runtime \in RuntimesFor(x) /\ x.framework \in FrameworksFor(x)
        BY DEF SaysWhatIsLocal
      <4>1. Undisturbed(obj[o])
        BY <3>3 DEF Undisturbed
      <4>2. obj[o].framework \in FrameworksFor(obj[o])
        BY <3>1, <4>1 DEF HintsInv, SaysWhatIsLocal
      <4>3. own \in RuntimesFor(x)
        BY <3>1, <3>3 DEF RuntimesFor, Local
      <4> QED
        BY <3>3, <4>2, <4>3 DEF FrameworksFor
    <3>5. pc'[c] \in Writing /\ pc'[c] # "frameworkSet"
      BY <2>4 DEF Writing
    <3> QED
      BY <1>0, <2>1, <3>1, <3>2, <3>3, <3>4, <3>5, HintsIfOneWrites
  <2> QED
    BY <2>2, <2>3, <2>4
<1>8. ASSUME NEW c \in Inspections, Framework(c) PROVE HintsInv'
  <2> DEFINE o == info[c]
             own == OwnFramework[proc[c]]
  <2>1. /\ info' = info /\ pc[c] = "framework" /\ pc[c] \notin Writing
        /\ \A b \in Inspections \ {c} : pc'[b] = pc[b] /\ said'[b] = said[b]
    <3>1. info' = info /\ pc[c] = "framework" /\ pc[c] \notin Writing
      BY <1>8 DEF Framework, Writing
    <3>2. \E to : pc' = [pc EXCEPT ![c] = to]
      BY <1>8 DEF Framework
    <3>3. said' = said \/ \E hint : said' = [said EXCEPT ![c].framework = hint]
      BY <1>8 DEF Framework
    <3>4. \A b \in Inspections \ {c} : pc'[b] = pc[b]
      BY <1>0, <3>2 DEF HintTyped
    <3>5. \A b \in Inspections \ {c} : said'[b] = said[b]
      BY <1>0, <3>3 DEF HintTyped
    <3> QED
      BY <3>1, <3>4, <3>5
  <2>2. \/ obj' = obj /\ pc'[c] = "interpret"
        \/ \E seen \in Read(o, obj[o].framework, c) :
              /\ o # None /\ pc'[c] = "frameworkSet"
              /\ obj' = [obj EXCEPT ![o].framework = FrameworkFor(own, seen), ![o].writers = @ \cup {c}]
              /\ said' = [said EXCEPT ![c].framework = FrameworkFor(own, seen)]
    BY <1>0, <1>8 DEF Framework, HintTyped
  <2>3. CASE obj' = obj /\ pc'[c] = "interpret"
    <3>1. pc'[c] \notin Writing
      BY <2>3 DEF Writing
    <3> QED
      BY <1>0, <2>1, <2>3, <3>1, HintsIfNobodyWrites
  <2>4. ASSUME NEW seen \in Read(o, obj[o].framework, c), o # None, pc'[c] = "frameworkSet",
               obj' = [obj EXCEPT ![o].framework = FrameworkFor(own, seen), ![o].writers = @ \cup {c}],
               said' = [said EXCEPT ![c].framework = FrameworkFor(own, seen)]
        PROVE  HintsInv'
    <3> DEFINE hint == FrameworkFor(own, seen)
               x == [obj[o] EXCEPT !.framework = hint, !.writers = @ \cup {c}]
    <3>1. o \in Objs /\ proc[c] \in Procs /\ obj[o].cwd = Cwd[proc[c]] /\ obj[o] \in Descriptions
          /\ Cwd[proc[c]] \in Dirs /\ None \notin Dirs
      BY <1>0, <2>1, <2>4 DEF HintTyped
    <3>2. obj' = [obj EXCEPT ![o] = x] /\ said'[c].framework = hint
      <4>1. said \in [Inspections -> [runtime : Hints, framework : Hints]] /\ obj \in [Objs -> Descriptions]
        BY <1>0 DEF HintTyped
      <4> HIDE DEF hint
      <4>2. said' = [said EXCEPT ![c].framework = hint]
        BY <2>4 DEF hint
      <4>3. said'[c].framework = hint
        BY <4>1, <4>2
      <4>4. obj' = [obj EXCEPT ![o].framework = hint, ![o].writers = @ \cup {c}]
        BY <2>4 DEF hint
      <4> QED
        BY <3>1, <4>1, <4>3, <4>4
    <3>3. /\ x.cwd = obj[o].cwd /\ x.project = obj[o].project /\ x.raced = obj[o].raced
          /\ x.writers = obj[o].writers \cup {c} /\ x.framework = hint /\ x.runtime = obj[o].runtime
      BY <3>1 DEF Descriptions
    <3>4. hint \in {own, seen}
      BY DEF FrameworkFor
    <3> HIDE DEF x, hint
    <3>5. ASSUME x.raced = FALSE, obj[o].writers \subseteq {c}
          PROVE  hint \in FrameworksFor(x) /\ x.runtime \in RuntimesFor(x)
      <4>1. seen = obj[o].framework
        BY <3>1, <3>5, ReadsWhatItSays
      <4>2. Undisturbed(obj[o])
        BY <3>1, <3>3, <3>5 DEF Undisturbed
      <4>3. obj[o].framework \in FrameworksFor(obj[o]) /\ obj[o].runtime \in RuntimesFor(obj[o])
        BY <3>1, <4>2 DEF HintsInv, SaysWhatIsLocal
      <4>4. own \in FrameworksFor(obj[o])
        BY <3>1 DEF FrameworksFor, Local
      <4> QED
        BY <3>3, <3>4, <4>1, <4>3, <4>4 DEF FrameworksFor, RuntimesFor
    <3>6. SaysWhatIsLocal(x)
      <4> SUFFICES ASSUME Undisturbed(x)
                   PROVE  x.runtime \in RuntimesFor(x) /\ x.framework \in FrameworksFor(x)
        BY DEF SaysWhatIsLocal
      <4>1. x.raced = FALSE /\ obj[o].writers \subseteq {c}
        BY <3>3 DEF Undisturbed
      <4> QED
        BY <3>3, <3>5, <4>1
    <3>7. said'[c].framework \in FrameworksFor(x) \/ x.raced \/ x.writers # {c}
      <4>1. x.raced \in BOOLEAN
        BY <3>1, <3>3 DEF Descriptions
      <4>2. CASE x.raced = FALSE /\ obj[o].writers \subseteq {c}
        BY <3>2, <3>5, <4>2
      <4>3. CASE x.raced = TRUE \/ ~ obj[o].writers \subseteq {c}
        BY <3>3, <4>3
      <4> QED
        BY <4>1, <4>2, <4>3
    <3>8. pc'[c] \in Writing
      BY <2>4 DEF Writing
    <3> QED
      BY <1>0, <2>1, <3>1, <3>2, <3>3, <3>6, <3>7, <3>8, HintsIfOneWrites
  <2> QED
    BY <2>2, <2>3, <2>4
<1>9. ASSUME NEW c \in Inspections, RuntimeSet(c) PROVE HintsInv'
  <2> DEFINE o == info[c]
             own == OwnRuntime[proc[c]]
  <2>1. /\ info' = info /\ said' = said /\ pc[c] = "runtimeSet" /\ pc[c] \in Writing
        /\ pc'[c] = "framework" /\ pc'[c] \notin Writing
        /\ \A b \in Inspections \ {c} : pc'[b] = pc[b]
    BY <1>0, <1>9 DEF RuntimeSet, HintTyped, Writing
  <2>2. o \in Objs /\ proc[c] \in Procs /\ obj[o] \in Descriptions /\ c \in obj[o].writers
        /\ obj[o].cwd = Cwd[proc[c]]
    BY <1>0, <2>1 DEF HintTyped, HintsInv, WritersOf
  <2>3. PICK value \in Written(o, obj[o].runtime, own, c) :
           obj' = [obj EXCEPT ![o].runtime = value, ![o].writers = @ \ {c},
                              ![o].raced = @ \/ obj[o].writers # {c}]
    BY <1>9 DEF RuntimeSet
  <2> DEFINE x == [obj[o] EXCEPT !.runtime = value, !.writers = @ \ {c},
                                 !.raced = @ \/ obj[o].writers # {c}]
  <2>4. obj' = [obj EXCEPT ![o] = x]
    BY <1>0, <2>2, <2>3 DEF HintTyped
  <2>5. /\ x.cwd = obj[o].cwd /\ x.project = obj[o].project
        /\ x.raced = (obj[o].raced \/ obj[o].writers # {c})
        /\ x.writers = obj[o].writers \ {c} /\ x.runtime = value /\ x.framework = obj[o].framework
    BY <2>2 DEF Descriptions
  <2> HIDE DEF x
  <2>6. SaysWhatIsLocal(x)
    <3> SUFFICES ASSUME Undisturbed(x)
                 PROVE  x.runtime \in RuntimesFor(x) /\ x.framework \in FrameworksFor(x)
      BY DEF SaysWhatIsLocal
    <3>1. obj[o].writers = {c} /\ obj[o].raced = FALSE
      BY <2>2, <2>5 DEF Undisturbed, Descriptions
    <3>2. Undisturbed(obj[o])
      BY <2>5, <3>1 DEF Undisturbed
    <3>3. obj[o].framework \in FrameworksFor(obj[o]) /\ obj[o].runtime \in RuntimesFor(obj[o])
      BY <2>2, <3>2 DEF HintsInv, SaysWhatIsLocal
    <3>4. own \in RuntimesFor(obj[o])
      BY <2>2 DEF RuntimesFor, Local
    <3>5. value \in {obj[o].runtime, own}
      BY <2>3, <3>1 DEF Written
    <3> QED
      BY <2>5, <3>3, <3>4, <3>5 DEF FrameworksFor, RuntimesFor
  <2>7. x.writers \ {c} = obj[o].writers \ {c} /\ c \notin x.writers
        /\ (obj[o].raced => x.raced)
        /\ \A b \in Inspections \ {c} : b \in x.writers => x.raced \/ x.writers # {b}
    BY <2>2, <2>5
  <2> QED
    BY <1>0, <2>1, <2>2, <2>4, <2>5, <2>6, <2>7, HintsIfOneWrites
<1>10. ASSUME NEW c \in Inspections, FrameworkSet(c) PROVE HintsInv'
  <2> DEFINE o == info[c]
             mine == said[c].framework
  <2>1. /\ info' = info /\ said' = said /\ pc[c] = "frameworkSet" /\ pc[c] \in Writing
        /\ pc'[c] = "interpret" /\ pc'[c] \notin Writing
        /\ \A b \in Inspections \ {c} : pc'[b] = pc[b]
    BY <1>0, <1>10 DEF FrameworkSet, HintTyped, Writing
  <2>2. o \in Objs /\ obj[o] \in Descriptions /\ c \in obj[o].writers
        /\ (mine \in FrameworksFor(obj[o]) \/ obj[o].raced \/ obj[o].writers # {c})
    BY <1>0, <2>1 DEF HintTyped, HintsInv, WritersOf, NextOf
  <2>3. PICK value \in Written(o, obj[o].framework, mine, c) :
           obj' = [obj EXCEPT ![o].framework = value, ![o].writers = @ \ {c},
                              ![o].raced = @ \/ obj[o].writers # {c}]
    BY <1>10 DEF FrameworkSet
  <2> DEFINE x == [obj[o] EXCEPT !.framework = value, !.writers = @ \ {c},
                                 !.raced = @ \/ obj[o].writers # {c}]
  <2>4. obj' = [obj EXCEPT ![o] = x]
    BY <1>0, <2>2, <2>3 DEF HintTyped
  <2>5. /\ x.cwd = obj[o].cwd /\ x.project = obj[o].project
        /\ x.raced = (obj[o].raced \/ obj[o].writers # {c})
        /\ x.writers = obj[o].writers \ {c} /\ x.framework = value /\ x.runtime = obj[o].runtime
    BY <2>2 DEF Descriptions
  <2> HIDE DEF x
  <2>6. SaysWhatIsLocal(x)
    <3> SUFFICES ASSUME Undisturbed(x)
                 PROVE  x.runtime \in RuntimesFor(x) /\ x.framework \in FrameworksFor(x)
      BY DEF SaysWhatIsLocal
    <3>1. obj[o].writers = {c} /\ obj[o].raced = FALSE
      BY <2>2, <2>5 DEF Undisturbed, Descriptions
    <3>2. Undisturbed(obj[o])
      BY <2>5, <3>1 DEF Undisturbed
    <3>3. obj[o].framework \in FrameworksFor(obj[o]) /\ obj[o].runtime \in RuntimesFor(obj[o])
      BY <2>2, <3>2 DEF HintsInv, SaysWhatIsLocal
    <3>4. mine \in FrameworksFor(obj[o])
      BY <2>2, <3>1
    <3>5. value \in {obj[o].framework, mine}
      BY <2>3, <3>1 DEF Written
    <3> QED
      BY <2>5, <3>3, <3>4, <3>5 DEF FrameworksFor, RuntimesFor
  <2>7. x.writers \ {c} = obj[o].writers \ {c} /\ c \notin x.writers
        /\ (obj[o].raced => x.raced)
        /\ \A b \in Inspections \ {c} : b \in x.writers => x.raced \/ x.writers # {b}
    BY <2>2, <2>5
  <2> QED
    BY <1>0, <2>1, <2>2, <2>4, <2>5, <2>6, <2>7, HintsIfOneWrites
<1>11. ASSUME NEW c \in Inspections, Interpret(c) PROVE HintsInv'
  <2>1. /\ obj' = Collected /\ memo' = memo
        /\ pc[c] \notin Writing /\ pc'[c] \notin Writing
        /\ \A b \in Inspections \ {c} : pc'[b] = pc[b] /\ info'[b] = info[b] /\ said'[b] = said[b]
    <3>1. pc[c] = "interpret" /\ pc' = [pc EXCEPT ![c] = "idle"] /\ info' = [info EXCEPT ![c] = None]
          /\ obj' = Collected /\ memo' = memo
      BY <1>11 DEF Interpret
    <3>2. \E h : said' = [said EXCEPT ![c] = h]
      <4>1. CASE info[c] = None
        <5>1. said' = [said EXCEPT ![c].framework = ""]
          BY <1>11, <4>1 DEF Interpret
        <5>2. said' = [said EXCEPT ![c] = [said[c] EXCEPT !.framework = ""]]
          BY <5>1
        <5> QED
          BY <5>2
      <4>2. CASE info[c] # None
        BY <1>11, <4>2 DEF Interpret
      <4> QED
        BY <4>1, <4>2
    <3>3. \A b \in Inspections \ {c} : said'[b] = said[b]
      BY <1>0, <3>2 DEF HintTyped
    <3> QED
      BY <1>0, <3>1, <3>3 DEF HintTyped, Writing
  <2>2. \A b \in Inspections \ {c} : info[b] \in Objs => obj'[info[b]] = obj[info[b]]
    BY <2>1 DEF Collected, InUse
  <2>3. \A b \in Inspections : pc[b] \in Writing => info[b] \in Objs
    BY <1>0 DEF HintTyped
  <2> QED
    BY <1>0, <1>5, <2>1, <2>2, <2>3, HintsIfNobodyWrites
<1>12. CASE UNCHANGED projectsVars
  <2>1. UNCHANGED <<obj, pc, info, said>>
    BY <1>12 DEF projectsVars
  <2> QED
    BY <1>0, <2>1, HintsIfNobodyWrites
<1> QED
  BY <1>1, <1>2, <1>3, <1>4, <1>6, <1>7, <1>8, <1>9, <1>10, <1>11, <1>12
     DEF ProjectsNext, DescribeProject

\* In every reachable state, what a description says that nobody raced for is what its
\* manifest or a process of its directory says.
THEOREM DescriptionsAreLocal == ProjectsSpec => []HintsInv
  BY HintsInit, HintsStep, ProjectsAreRecent, PTL DEF ProjectsSpec

\* A report says of runtime and framework what the manifest or a process of the working
\* directory says, unless two inspections wrote into the description at once.
THEOREM HintsAreOfTheDirectory == ProjectsSpec => HintsStayInDirectory
<1> DEFINE Reports(c) == pc[c] = "interpret" /\ pc'[c] = "idle" /\ info[c] # None
           IsLocal(c) ==
              LET o == info[c]
                  here == {p \in Procs : Cwd[p] = Cwd[proc[c]]}
              IN  ~obj[o].raced /\ obj[o].writers = {} =>
                     /\ said'[c].runtime \in {obj[o].project.runtime, OwnRuntime[proc[c]]}
                                             \cup {OwnRuntime[p] : p \in here}
                     /\ said'[c].framework \in {obj[o].project.framework}
                                               \cup {OwnFramework[p] : p \in here}
<1>1. ASSUME RecentInv, HintsInv, [ProjectsNext]_projectsVars, NEW c \in Inspections, Reports(c)
      PROVE  IsLocal(c)
  <2> DEFINE o == info[c]
  <2> SUFFICES ASSUME ~obj[o].raced, obj[o].writers = {}
               PROVE  /\ said'[c].runtime \in {obj[o].project.runtime, OwnRuntime[proc[c]]}
                                             \cup {OwnRuntime[p] : p \in Local(Cwd[proc[c]])}
                      /\ said'[c].framework \in {obj[o].project.framework}
                                               \cup {OwnFramework[p] : p \in Local(Cwd[proc[c]])}
    BY DEF Local
  <2>0. HintTyped
    BY <1>1, HintTyping
  <2>1. Interpret(c)
    <3>1. pc'[c] # pc[c] /\ pc \in [Inspections -> {"idle", "walk", "runtime", "runtimeSet",
                                        "framework", "frameworkSet", "interpret"}]
      BY <1>1, <2>0 DEF HintTyped
    <3>2. \/ \E b \in Inspections : DescribeProject(b)
          \/ \E b \in Inspections, p \in Procs : Detect(b, p)
      BY <1>1, <3>1 DEF ProjectsNext, Change, WalkTick, projectsVars
    <3>3. ASSUME NEW b \in Inspections, DescribeProject(b) PROVE Interpret(c)
      <4>1. b = c
        BY <3>1, <3>3 DEF DescribeProject, Walk, Remember, Runtime, RuntimeSet, Framework,
                          FrameworkSet, Interpret
      <4> QED
        BY <1>1, <3>1, <3>3, <4>1 DEF DescribeProject, Walk, Remember, Runtime, RuntimeSet,
                                      Framework, FrameworkSet
    <3>4. ASSUME NEW b \in Inspections, NEW p \in Procs, Detect(b, p) PROVE FALSE
      BY <1>1, <3>1, <3>4 DEF Detect
    <3> QED
      BY <3>2, <3>3, <3>4
  <2>2. o \in Objs /\ obj[o] \in Descriptions /\ obj[o].cwd = Cwd[proc[c]] /\ obj[o].cwd # None
    BY <1>1, <2>0 DEF HintTyped
  <2>3. Undisturbed(obj[o])
    BY <2>2 DEF Undisturbed, Descriptions
  <2>4. obj[o].runtime \in RuntimesFor(obj[o]) /\ obj[o].framework \in FrameworksFor(obj[o])
    BY <1>1, <2>2, <2>3 DEF HintsInv, SaysWhatIsLocal
  <2>5. \E r \in Read(o, obj[o].runtime, c), f \in Read(o, obj[o].framework, c) :
           said'[c] = [runtime |-> IF r # "" THEN r ELSE OwnRuntime[proc[c]], framework |-> f]
    BY <1>1, <2>0, <2>1 DEF Interpret, HintTyped
  <2>6. \A r \in Read(o, obj[o].runtime, c), f \in Read(o, obj[o].framework, c) :
           r = obj[o].runtime /\ f = obj[o].framework
    BY <2>2, ReadsWhatItSays
  <2>7. said'[c].runtime \in {obj[o].runtime, OwnRuntime[proc[c]]}
        /\ said'[c].framework = obj[o].framework
    <3>1. PICK r \in Read(o, obj[o].runtime, c), f \in Read(o, obj[o].framework, c) :
             said'[c] = [runtime |-> IF r # "" THEN r ELSE OwnRuntime[proc[c]], framework |-> f]
      BY <2>5
    <3>2. r = obj[o].runtime /\ f = obj[o].framework
      BY <2>6
    <3>3. said'[c].runtime \in {r, OwnRuntime[proc[c]]} /\ said'[c].framework = f
      <4> DEFINE hint == IF r # "" THEN r ELSE OwnRuntime[proc[c]]
      <4>1. hint \in {r, OwnRuntime[proc[c]]}
        OBVIOUS
      <4>2. said'[c] = [runtime |-> hint, framework |-> f]
        BY <3>1
      <4> HIDE DEF hint
      <4> QED
        BY <4>1, <4>2
    <3> QED
      BY <3>2, <3>3
  <2> QED
    BY <2>2, <2>4, <2>7 DEF RuntimesFor, FrameworksFor
<1> HIDE DEF Reports, IsLocal
<1>2. RecentInv /\ HintsInv /\ [ProjectsNext]_projectsVars
        => [\A c \in Inspections : Reports(c) => IsLocal(c)]_projectsVars
  BY <1>1
<1>3. ProjectsSpec => [][\A c \in Inspections : Reports(c) => IsLocal(c)]_projectsVars
  BY <1>2, ProjectsAreRecent, DescriptionsAreLocal, PTL DEF ProjectsSpec
<1> QED
  BY <1>3, PTL DEF Reports, IsLocal, HintsStayInDirectory

-----------------------------------------------------------------------------
(* Containers.                                                             *)

\* Ages are told apart beyond every bound that a property states.
LEMMA OldestContainerType ==
    OldestContainer \in Nat /\ ListTTL + 2 * FetchTimeout < OldestContainer
  BY ContainersConstants DEF OldestContainer

\* The types hold at first.
LEMMA ContainersTypeInit == ContainersInit => ContainersTypeOK
<1> SUFFICES ASSUME ContainersInit PROVE ContainersTypeOK
  OBVIOUS
<1>1. up \in SUBSET Containers /\ 0 \in 0..MaxChurn
  BY ContainersConstants DEF ContainersInit
<1>2. lastUp \in [Containers -> 0..OldestContainer] /\ upFor \in [Containers -> 0..OldestContainer]
  BY OldestContainerType DEF ContainersInit
<1>3. list \in [built : BOOLEAN, seen : SUBSET Containers, age : 0..ListTTL]
  BY ContainersConstants DEF ContainersInit
<1>4. Unknown \in [known : BOOLEAN, seen : SUBSET Containers]
  BY DEF Unknown
<1>5. NoContainer \in Naming
  BY DEF NoContainer, Naming
<1>6. 0 \in 0..FetchTimeout
  BY ContainersConstants
<1> QED
  BY <1>1, <1>2, <1>3, <1>4, <1>5, <1>6 DEF ContainersInit, ContainersTypeOK, Stages

\* An inspection that is under way is about a process.
AboutAProcess == \A c \in Inspections : stage[c] # "idle" => subject[c] \in Procs

\* What FindByPID and FindByPorts do with a list.
LEMMA LookupsInTypes ==
    ASSUME ContainersTypeOK, AboutAProcess, NEW c \in Inspections, stage[c] # "idle",
           NEW seen \in SUBSET Containers, NEW failed \in BOOLEAN,
           ByPIDIn(c, seen, failed) \/ ByPortIn(c, seen)
    PROVE  /\ stage' \in [Inspections -> Stages]
           /\ subject' \in [Inspections -> Procs \cup {None}]
           /\ found' \in [Inspections -> Naming]
           /\ AboutAProcess'
<1>1. CASE ByPIDIn(c, seen, failed)
  <2>1. Cgroup[subject[c]] \in Containers \cup {None}
    BY ContainersConstants DEF AboutAProcess
  <2>2. [id |-> Cgroup[subject[c]], listed |-> Cgroup[subject[c]] \in seen, failed |-> failed]
            \in Naming
    BY <2>1 DEF Naming
  <2> QED
    BY <1>1, <2>2 DEF ByPIDIn, Report, ContainersTypeOK, AboutAProcess, Stages
<1>2. CASE ByPortIn(c, seen)
  <2>1. found' \in [Inspections -> Naming]
    <3>1. CASE UNCHANGED found
      BY <3>1 DEF ContainersTypeOK
    <3>2. ASSUME NEW x \in seen,
                 found' = [found EXCEPT ![c] = [id |-> x, listed |-> TRUE, failed |-> FALSE]]
          PROVE  found' \in [Inspections -> Naming]
      BY <3>2 DEF ContainersTypeOK, Naming
    <3> QED
      BY <1>2, <3>1, <3>2 DEF ByPortIn
  <2> QED
    BY <1>2, <2>1 DEF ByPortIn, Report, ContainersTypeOK, AboutAProcess, Stages
<1> QED
  BY <1>1, <1>2

\* Each step of a lookup, of the daemon and of time keeps the types.
LEMMA ContainersTypeStep ==
    ContainersTypeOK /\ AboutAProcess /\ [ContainersNext]_containersVars
        => ContainersTypeOK' /\ AboutAProcess'
<1> SUFFICES ASSUME ContainersTypeOK, AboutAProcess, [ContainersNext]_containersVars
             PROVE  ContainersTypeOK' /\ AboutAProcess'
  OBVIOUS
<1>1. ASSUME NEW x \in Containers, Start(x) PROVE ContainersTypeOK' /\ AboutAProcess'
  BY <1>1, ContainersConstants, OldestContainerType DEF Start, ContainersTypeOK, AboutAProcess
<1>2. ASSUME NEW x \in Containers, Stop(x) PROVE ContainersTypeOK' /\ AboutAProcess'
  BY <1>2, ContainersConstants, OldestContainerType DEF Stop, ContainersTypeOK, AboutAProcess
<1>3. CASE FetchTick
  <2>1. /\ lastUp' \in [Containers -> 0..OldestContainer]
        /\ upFor' \in [Containers -> 0..OldestContainer]
    <3>1. \A x \in Containers : /\ Later(lastUp[x], OldestContainer) \in 0..OldestContainer
                               /\ Later(upFor[x], OldestContainer) \in 0..OldestContainer
      BY LaterIsLater, OldestContainerType DEF ContainersTypeOK
    <3> QED
      BY <1>3, <3>1, OldestContainerType DEF FetchTick
  <2>2. list' \in [built : BOOLEAN, seen : SUBSET Containers, age : 0..ListTTL]
    <3>1. Later(list.age, ListTTL) \in 0..ListTTL
      BY LaterIsLater, ContainersConstants DEF ContainersTypeOK
    <3> QED
      BY <1>3, <3>1 DEF FetchTick, ContainersTypeOK
  <2>3. waited' \in [Inspections -> 0..FetchTimeout]
    BY <1>3, ContainersConstants DEF FetchTick, Fetching, ContainersTypeOK
  <2> QED
    BY <1>3, <2>1, <2>2, <2>3 DEF FetchTick, ContainersTypeOK, AboutAProcess
<1>4. ASSUME NEW c \in Inspections, NEW p \in Procs,
             Begin(c, p) \/ BeginByPort(c, p) \/ BeginListing(c, p)
      PROVE  ContainersTypeOK' /\ AboutAProcess'
  <2>1. NoContainer \in Naming
    BY DEF NoContainer, Naming
  <2>2. /\ found' = [found EXCEPT ![c] = NoContainer] /\ subject' = [subject EXCEPT ![c] = p]
        /\ \E at \in {"byPID", "byPort", "byPorts"} : stage' = [stage EXCEPT ![c] = at]
        /\ UNCHANGED <<up, lastUp, upFor, churn, list, waited, got>>
    BY <1>4 DEF Begin, BeginByPort, BeginListing, daemon
  <2>3. found' \in [Inspections -> Naming]
    BY <2>1, <2>2 DEF ContainersTypeOK
  <2>4. stage' \in [Inspections -> Stages]
    BY <2>2 DEF ContainersTypeOK, Stages
  <2> QED
    BY <2>2, <2>3, <2>4 DEF ContainersTypeOK, AboutAProcess
<1>5. /\ list.seen \in SUBSET Containers /\ {} \in SUBSET Containers
      /\ \A c \in Inspections : got[c].seen \in SUBSET Containers
      /\ Unknown \in [known : BOOLEAN, seen : SUBSET Containers]
      /\ 0 \in 0..FetchTimeout /\ 0 \in 0..ListTTL
  BY ContainersConstants DEF ContainersTypeOK, Unknown
<1>6. ASSUME NEW c \in Inspections, FindByPID(c) PROVE ContainersTypeOK' /\ AboutAProcess'
  <2>1. CASE ByPIDIn(c, list.seen, FALSE) /\ UNCHANGED <<waited, got, daemon, list>>
    BY <1>5, <1>6, <2>1, LookupsInTypes DEF FindByPID, daemon, ContainersTypeOK
  <2>2. CASE /\ stage' = [stage EXCEPT ![c] = "byPort"]
             /\ UNCHANGED <<subject, waited, got, found, daemon, list>>
    BY <1>6, <2>2 DEF FindByPID, daemon, ContainersTypeOK, AboutAProcess, Stages
  <2>3. CASE Fetch(c, "fetchByPID") /\ UNCHANGED <<found, daemon, list>>
    BY <1>5, <1>6, <2>3 DEF FindByPID, Fetch, daemon, ContainersTypeOK, AboutAProcess, Stages
  <2> QED
    BY <1>6, <2>1, <2>2, <2>3 DEF FindByPID
<1>7. ASSUME NEW c \in Inspections, FindByPort(c) PROVE ContainersTypeOK' /\ AboutAProcess'
  <2>1. CASE ByPortIn(c, list.seen) /\ UNCHANGED <<waited, got, daemon, list>>
    BY <1>5, <1>7, <2>1, LookupsInTypes DEF FindByPort, daemon, ContainersTypeOK
  <2>2. ASSUME NEW next \in {"fetchByPort", "fetchByPorts"},
               Fetch(c, next), UNCHANGED <<found, daemon, list>>
        PROVE  ContainersTypeOK' /\ AboutAProcess'
    BY <1>5, <1>7, <2>2 DEF FindByPort, Fetch, daemon, ContainersTypeOK, AboutAProcess, Stages
  <2> QED
    BY <1>7, <2>1, <2>2 DEF FindByPort
<1>8. ASSUME NEW c \in Inspections, Answer(c) PROVE ContainersTypeOK' /\ AboutAProcess'
  BY <1>8 DEF Answer, daemon, ContainersTypeOK, AboutAProcess
<1>9. ASSUME NEW c \in Inspections, Arrive(c) PROVE ContainersTypeOK' /\ AboutAProcess'
  <2>1. stage[c] # "idle" /\ (ByPIDIn(c, got[c].seen, FALSE) \/ ByPortIn(c, got[c].seen))
    BY <1>9 DEF Arrive, Fetching
  <2>2. /\ stage' \in [Inspections -> Stages]
        /\ subject' \in [Inspections -> Procs \cup {None}]
        /\ found' \in [Inspections -> Naming]
        /\ AboutAProcess'
    BY <1>5, <2>1, LookupsInTypes
  <2> QED
    BY <1>5, <1>9, <2>2 DEF Arrive, daemon, ContainersTypeOK
<1>10. ASSUME NEW c \in Inspections, FetchFails(c) PROVE ContainersTypeOK' /\ AboutAProcess'
  <2>1. stage[c] # "idle" /\ (ByPIDIn(c, {}, TRUE) \/ ByPortIn(c, {}))
    BY <1>10 DEF FetchFails, Fetching
  <2>2. /\ stage' \in [Inspections -> Stages]
        /\ subject' \in [Inspections -> Procs \cup {None}]
        /\ found' \in [Inspections -> Naming]
        /\ AboutAProcess'
    BY <1>5, <2>1, LookupsInTypes
  <2> QED
    BY <1>5, <1>10, <2>2 DEF FetchFails, KeptAtFailure, daemon, ContainersTypeOK
<1>11. CASE UNCHANGED containersVars
  BY <1>11 DEF containersVars, daemon, ContainersTypeOK, AboutAProcess
<1> QED
  BY <1>1, <1>2, <1>3, <1>4, <1>6, <1>7, <1>8, <1>9, <1>10, <1>11
     DEF ContainersNext, AttachContainer

\* What attachContainer keeps of a caller stays in its type.
THEOREM ContainersTypeCorrect == ContainersSpec => [](ContainersTypeOK /\ AboutAProcess)
<1>1. ContainersInit => AboutAProcess
  BY DEF ContainersInit, AboutAProcess
<1> QED
  BY <1>1, ContainersTypeInit, ContainersTypeStep, PTL DEF ContainersSpec

-----------------------------------------------------------------------------
\* A container that runs ran just now, and one that does not has not run since.
UpIsNow == /\ \A x \in up : lastUp[x] = 0
           /\ \A x \in Containers \ up : upFor[x] = 0

\* What a list that may still be used names ran when the list was asked for, and
\* what it does not name did not.
ListIsRecent ==
    list.built /\ list.age < ListTTL =>
        /\ \A x \in list.seen : lastUp[x] <= list.age + FetchTimeout
        /\ \A x \in Containers \ list.seen : upFor[x] <= list.age + FetchTimeout

\* So does what an answer on its way names.
AnswerIsRecent ==
    \A c \in Inspections : got[c].known =>
        /\ c \in Fetching
        /\ \A x \in got[c].seen : lastUp[x] <= waited[c]
        /\ \A x \in Containers \ got[c].seen : upFor[x] <= waited[c]

\* How long ago the cgroup of an inspection's process may have been read.
Since(c) == IF stage[c] = "fetchByPort" THEN FetchTimeout + waited[c] ELSE FetchTimeout

\* The container whose number an inspection knows from the cgroup ran when that
\* was read; and unless the daemon failed to list it, had not run for long.
NumberOf(c) ==
    /\ stage[c] \in {"byPID", "byPorts", "fetchByPorts"} => found[c] = NoContainer
    /\ stage[c] = "fetchByPID" => /\ Cgroup[subject[c]] \in Containers
                                  /\ found[c] = NoContainer
                                  /\ lastUp[Cgroup[subject[c]]] <= waited[c]
    /\ stage[c] \in {"byPort", "fetchByPort"} /\ found[c].id # None =>
          /\ found[c].id = Cgroup[subject[c]] /\ found[c].listed = FALSE
          /\ lastUp[found[c].id] <= Since(c)
          /\ found[c].failed \/ upFor[found[c].id] < ListTTL + Since(c)
NumberIsRecent == \A c \in Inspections : NumberOf(c)

\* The inductive invariant behind ContainerWasUp and OwnContainerFirst.
ContainersInv == ContainersTypeOK /\ AboutAProcess
                 /\ UpIsNow /\ ListIsRecent /\ AnswerIsRecent /\ NumberIsRecent

\* No list is kept and no lookup under way at first.
LEMMA ContainersInvInit == ContainersInit => ContainersInv
<1> SUFFICES ASSUME ContainersInit PROVE ContainersInv
  OBVIOUS
<1>1. ContainersTypeOK
  BY ContainersTypeInit
<1> QED
  BY <1>1 DEF ContainersInit, ContainersInv, AboutAProcess, UpIsNow, ListIsRecent,
              AnswerIsRecent, NumberIsRecent, NumberOf, Unknown

\* What the two lookups in a list leave known of a number, if the cgroup was read
\* within one timeout and the list is not too old.
LEMMA NumberAfterLookup ==
    ASSUME ContainersInv, NEW c \in Inspections, UNCHANGED <<lastUp, upFor>>,
           NEW seen, NEW failed \in BOOLEAN,
           \/ /\ ByPIDIn(c, seen, failed)
              /\ lastUp[Cgroup[subject[c]]] <= FetchTimeout
              /\ failed \/ Cgroup[subject[c]] \in seen
                        \/ upFor[Cgroup[subject[c]]] < ListTTL + FetchTimeout
           \/ ByPortIn(c, seen)
    PROVE NumberOf(c)'
<1>1. CASE stage'[c] = "idle"
  BY <1>1 DEF NumberOf
<1>2. CASE stage'[c] # "idle"
  <2>1. /\ ByPIDIn(c, seen, failed) /\ Cgroup[subject[c]] \notin seen
        /\ lastUp[Cgroup[subject[c]]] <= FetchTimeout
        /\ failed \/ upFor[Cgroup[subject[c]]] < ListTTL + FetchTimeout
        /\ stage' = [stage EXCEPT ![c] = "byPort"] /\ UNCHANGED subject
    BY <1>2 DEF ByPIDIn, ByPortIn, Report, ContainersInv, ContainersTypeOK
  <2>2. found'[c] = [id |-> Cgroup[subject[c]], listed |-> FALSE, failed |-> failed]
    <3>1. found' = [found EXCEPT ![c] = [id |-> Cgroup[subject[c]],
                                         listed |-> Cgroup[subject[c]] \in seen,
                                         failed |-> failed]]
      BY <2>1 DEF ByPIDIn
    <3>2. (Cgroup[subject[c]] \in seen) = FALSE
      BY <2>1
    <3> QED
      BY <3>1, <3>2 DEF ContainersInv, ContainersTypeOK
  <2>3. stage'[c] = "byPort"
    BY <2>1 DEF ContainersInv, ContainersTypeOK
  <2> QED
    BY <2>1, <2>2, <2>3 DEF NumberOf, Since
<1> QED
  BY <1>1, <1>2

\* Each step of a lookup, of the daemon and of time keeps the lists recent.
LEMMA ContainersInvStep == ContainersInv /\ [ContainersNext]_containersVars => ContainersInv'
<1> SUFFICES ASSUME ContainersInv, [ContainersNext]_containersVars PROVE ContainersInv'
  OBVIOUS
<1>0. ContainersTypeOK' /\ AboutAProcess'
  BY ContainersTypeStep DEF ContainersInv
<1>01. /\ ContainersTypeOK /\ AboutAProcess
       /\ \A x \in Containers : lastUp[x] \in Nat /\ lastUp'[x] \in Nat
       /\ \A x \in Containers : upFor[x] \in Nat /\ upFor'[x] \in Nat
       /\ list.age \in Nat /\ ListTTL \in Nat /\ FetchTimeout \in Nat
       /\ \A c \in Inspections : waited[c] \in Nat /\ got[c].seen \subseteq Containers
       /\ list.seen \subseteq Containers /\ up \subseteq Containers
       /\ None \notin Containers
       /\ \A c \in Inspections : found[c].id \in Containers \cup {None}
  BY <1>0, OldestContainerType, ContainersConstants DEF ContainersInv, ContainersTypeOK, Naming
<1>1. ASSUME NEW x \in Containers, Start(x) PROVE ContainersInv'
  <2>1. /\ \A y \in Containers : lastUp'[y] <= lastUp[y]
        /\ \A y \in up' : lastUp'[y] = 0
        /\ upFor' = upFor /\ \A y \in Containers \ up' : upFor'[y] = 0
    BY <1>1, <1>01 DEF Start, ContainersInv, ContainersTypeOK, UpIsNow
  <2>2. UpIsNow'
    BY <2>1 DEF UpIsNow
  <2>3. ListIsRecent'
    BY <1>1, <1>01, <2>1 DEF Start, ContainersInv, ListIsRecent
  <2>4. AnswerIsRecent'
    BY <1>1, <1>01, <2>1 DEF Start, ContainersInv, AnswerIsRecent, Fetching
  <2>5. NumberIsRecent'
    BY <1>1, <1>01, <2>1 DEF Start, ContainersInv, NumberIsRecent, NumberOf, Since
  <2> QED
    BY <1>0, <2>2, <2>3, <2>4, <2>5 DEF ContainersInv
<1>2. ASSUME NEW x \in Containers, Stop(x) PROVE ContainersInv'
  <2>1. /\ lastUp' = lastUp /\ \A y \in Containers : upFor'[y] <= upFor[y]
        /\ \A y \in up' : lastUp'[y] = 0
        /\ \A y \in Containers \ up' : upFor'[y] = 0
    BY <1>2, <1>01 DEF Stop, ContainersInv, ContainersTypeOK, UpIsNow
  <2>2. UpIsNow'
    BY <2>1 DEF UpIsNow
  <2>3. ListIsRecent'
    BY <1>2, <1>01, <2>1 DEF Stop, ContainersInv, ListIsRecent
  <2>4. AnswerIsRecent'
    BY <1>2, <1>01, <2>1 DEF Stop, ContainersInv, AnswerIsRecent, Fetching
  <2>5. NumberIsRecent'
    BY <1>2, <1>01, <2>1 DEF Stop, ContainersInv, NumberIsRecent, NumberOf, Since
  <2> QED
    BY <1>0, <2>2, <2>3, <2>4, <2>5 DEF ContainersInv
<1>3. CASE FetchTick
  <2>1. \A x \in Containers : lastUp'[x] <= lastUp[x] + 1 /\ upFor'[x] <= upFor[x] + 1
    <3>1. \A x \in Containers : /\ Later(lastUp[x], OldestContainer) <= lastUp[x] + 1
                               /\ Later(upFor[x], OldestContainer) <= upFor[x] + 1
      <4>1. \A x \in Containers : lastUp[x] \in 0..OldestContainer /\ upFor[x] \in 0..OldestContainer
        BY <1>01 DEF ContainersTypeOK
      <4>2. OldestContainer \in Nat
        BY OldestContainerType
      <4>3. ASSUME NEW age \in 0..OldestContainer PROVE Later(age, OldestContainer) <= age + 1
        <5>1. age \in Nat /\ age <= OldestContainer
          BY <4>2
        <5> QED
          BY ONLY <4>2, <5>1, LaterIsLater
      <4> QED
        BY <4>1, <4>3
    <3> QED
      BY <1>3, <1>01, <3>1 DEF FetchTick
  <2>2. UpIsNow'
    BY <1>3, <1>01 DEF FetchTick, UpIsNow
  <2>3. ListIsRecent'
    <3>1. list'.built = list.built /\ list'.seen = list.seen /\ list'.age = Later(list.age, ListTTL)
      BY <1>3, <1>01 DEF FetchTick, ContainersTypeOK
    <3>2. list'.age < ListTTL => list'.age = list.age + 1
      BY <1>01, <3>1, LaterIsLater DEF ContainersTypeOK
    <3> QED
      BY <1>01, <2>1, <3>1, <3>2 DEF ContainersInv, ListIsRecent
  <2>4. \A c \in Fetching : waited'[c] = waited[c] + 1
    BY <1>3 DEF FetchTick, Fetching
  <2>5. AnswerIsRecent'
    BY <1>3, <1>01, <2>1, <2>4 DEF FetchTick, ContainersInv, AnswerIsRecent, Fetching
  <2>6. NumberIsRecent'
    BY <1>3, <1>01, <2>1, <2>4 DEF FetchTick, ContainersInv, NumberIsRecent, NumberOf, Fetching, Since
  <2> QED
    BY <1>0, <2>2, <2>3, <2>5, <2>6 DEF ContainersInv
<1>4. ASSUME NEW c \in Inspections, NEW p \in Procs,
             Begin(c, p) \/ BeginByPort(c, p) \/ BeginListing(c, p)
      PROVE  ContainersInv'
  <2>1. NoContainer.id = None
    BY DEF NoContainer
  <2>2. /\ found' = [found EXCEPT ![c] = NoContainer] /\ subject' = [subject EXCEPT ![c] = p]
        /\ \E at \in {"byPID", "byPort", "byPorts"} : stage' = [stage EXCEPT ![c] = at]
        /\ UNCHANGED <<lastUp, upFor, waited>>
    BY <1>4 DEF Begin, BeginByPort, BeginListing, daemon
  <2>4. NumberOf(c)'
    <3>1. found'[c] = NoContainer /\ stage'[c] \in {"byPID", "byPort", "byPorts"}
      BY <2>2 DEF ContainersInv, ContainersTypeOK
    <3> QED
      BY <2>1, <3>1 DEF NumberOf
  <2>5. \A d \in Inspections \ {c} : NumberOf(d)'
    BY <2>2 DEF ContainersInv, ContainersTypeOK, NumberIsRecent, NumberOf, Since
  <2>6. NumberIsRecent'
    BY <2>4, <2>5 DEF NumberIsRecent
  <2>3. ListIsRecent' /\ UpIsNow' /\ AnswerIsRecent'
    BY <1>4, <1>01 DEF Begin, BeginByPort, BeginListing, daemon, ContainersInv,
                      ContainersTypeOK, ListIsRecent, UpIsNow, AnswerIsRecent, Fetching
  <2> QED
    BY <1>0, <2>3, <2>6 DEF ContainersInv
<1>5. ASSUME NEW c \in Inspections, FindByPID(c) \/ FindByPort(c) PROVE ContainersInv'
  <2>1. ListIsRecent' /\ UpIsNow'
    BY <1>5 DEF FindByPID, FindByPort, daemon, ContainersInv, ListIsRecent, UpIsNow
  <2>2. AnswerIsRecent'
    BY <1>5, <1>01 DEF FindByPID, FindByPort, ByPIDIn, ByPortIn, Report, Fetch, Unknown, daemon,
                      ContainersInv, ContainersTypeOK, AnswerIsRecent, Fetching
  <2>3. NumberIsRecent'
    <3>1. \A d \in Inspections \ {c} : NumberOf(d)'
      BY <1>5, <1>01 DEF FindByPID, FindByPort, ByPIDIn, ByPortIn, Report, Fetch, daemon,
                        ContainersInv, ContainersTypeOK, NumberIsRecent, NumberOf, Since
    <3>2. NumberOf(c) /\ subject[c] \in Procs
      BY <1>5, <1>01 DEF FindByPID, FindByPort, ContainersInv, AboutAProcess, NumberIsRecent
    <3>3. UNCHANGED <<lastUp, upFor>>
      BY <1>5 DEF FindByPID, FindByPort, daemon
    <3>4. NumberOf(c)'
      <4>1. CASE Cgroup[subject[c]] \notin up /\ FindByPID(c)
        <5>1. stage'[c] = "byPort" /\ found'[c] = NoContainer
          BY <1>01, <3>2, <4>1 DEF FindByPID, NumberOf, ContainersTypeOK
        <5> QED
          BY <5>1 DEF NumberOf, NoContainer
      <4>2. CASE Cgroup[subject[c]] \in up /\ Fresh /\ FindByPID(c)
        <5>1. Cgroup[subject[c]] \in Containers /\ lastUp[Cgroup[subject[c]]] <= FetchTimeout
          BY <1>01, <4>2 DEF ContainersInv, UpIsNow
        <5>2. \/ Cgroup[subject[c]] \in list.seen
              \/ upFor[Cgroup[subject[c]]] < ListTTL + FetchTimeout
          BY <1>01, <4>2, <5>1 DEF ContainersInv, ListIsRecent, Fresh
        <5>3. ByPIDIn(c, list.seen, FALSE)
          BY <4>2 DEF FindByPID
        <5> QED
          BY <3>3, <5>1, <5>2, <5>3, NumberAfterLookup
      <4>3. CASE Cgroup[subject[c]] \in up /\ ~Fresh /\ FindByPID(c)
        <5>1. /\ stage'[c] = "fetchByPID" /\ subject' = subject /\ waited'[c] = 0
              /\ stage[c] = "byPID" /\ found' = found
          BY <1>01, <4>3 DEF FindByPID, Fetch, ContainersTypeOK
        <5>2. Cgroup[subject[c]] \in Containers /\ lastUp'[Cgroup[subject[c]]] = 0
          BY <1>01, <3>3, <4>3 DEF ContainersInv, UpIsNow
        <5> QED
          BY <3>2, <5>1, <5>2 DEF NumberOf
      <4>4. CASE Fresh /\ FindByPort(c)
        <5>1. ByPortIn(c, list.seen)
          BY <4>4 DEF FindByPort
        <5>2. \A failed \in BOOLEAN : NumberOf(c)'
          BY <3>3, <5>1, NumberAfterLookup
        <5> QED
          BY <5>2
      <4>5. CASE ~Fresh /\ FindByPort(c) /\ stage[c] = "byPort"
        <5>1. /\ stage[c] = "byPort" /\ stage'[c] = "fetchByPort" /\ subject' = subject
              /\ waited'[c] = 0 /\ found' = found
          BY <1>01, <4>5 DEF FindByPort, Fetch, Listing, ContainersTypeOK
        <5>2. Since(c) = FetchTimeout /\ Since(c)' = FetchTimeout + 0
          BY <5>1 DEF Since
        <5> QED
          BY <1>01, <3>2, <3>3, <5>1, <5>2 DEF NumberOf
      <4>6. CASE ~Fresh /\ FindByPort(c) /\ stage[c] = "byPorts"
        <5>1. stage'[c] = "fetchByPorts" /\ found' = found
          BY <1>01, <4>6 DEF FindByPort, Fetch, Listing, ContainersTypeOK
        <5> QED
          BY <3>2, <4>6, <5>1 DEF NumberOf
      <4>7. FindByPort(c) => stage[c] \in {"byPort", "byPorts"}
        BY DEF FindByPort
      <4> QED
        BY <1>5, <4>1, <4>2, <4>3, <4>4, <4>5, <4>6, <4>7
    <3> QED
      BY <3>1, <3>4 DEF NumberIsRecent
  <2> QED
    BY <1>0, <2>1, <2>2, <2>3 DEF ContainersInv
<1>6. ASSUME NEW c \in Inspections, Answer(c) PROVE ContainersInv'
  <2>1. ListIsRecent' /\ UpIsNow' /\ NumberIsRecent'
    BY <1>6 DEF Answer, daemon, ContainersInv, ListIsRecent, UpIsNow, NumberIsRecent, NumberOf, Since
  <2>2. AnswerIsRecent'
    BY <1>6, <1>01 DEF Answer, daemon, ContainersInv, ContainersTypeOK, UpIsNow, AnswerIsRecent, Fetching
  <2> QED
    BY <1>0, <2>1, <2>2 DEF ContainersInv
<1>7. ASSUME NEW c \in Inspections, Arrive(c) \/ FetchFails(c) PROVE ContainersInv'
  <2>1. UpIsNow'
    BY <1>7 DEF Arrive, FetchFails, daemon, ContainersInv, UpIsNow
  <2>2. ListIsRecent'
    <3>1. CASE Arrive(c)
      <4>1. /\ list'.age = 0 /\ list'.seen = got[c].seen /\ got[c].known
            /\ lastUp' = lastUp /\ upFor' = upFor
        BY <3>1 DEF Arrive, daemon
      <4>2. waited[c] \in 0..FetchTimeout
        BY <1>01 DEF ContainersTypeOK
      <4>3. /\ \A x \in got[c].seen : lastUp[x] <= waited[c]
            /\ \A x \in Containers \ got[c].seen : upFor[x] <= waited[c]
        BY <4>1 DEF ContainersInv, AnswerIsRecent
      <4>4. /\ \A x \in got[c].seen : lastUp'[x] <= FetchTimeout
            /\ \A x \in Containers \ got[c].seen : upFor'[x] <= FetchTimeout
        BY <1>01, <4>1, <4>2, <4>3
      <4> QED
        BY <1>01, <4>1, <4>4 DEF ListIsRecent
    <3>2. CASE FetchFails(c)
      BY <3>2 DEF FetchFails, KeptAtFailure, daemon, ContainersInv, ListIsRecent
    <3> QED
      BY <1>7, <3>1, <3>2
  <2>3. AnswerIsRecent'
    BY <1>7, <1>01 DEF Arrive, FetchFails, ByPIDIn, ByPortIn, Report, Unknown, daemon,
                      ContainersInv, ContainersTypeOK, AnswerIsRecent, Fetching
  <2>4. NumberIsRecent'
    <3>1. \A d \in Inspections \ {c} : NumberOf(d)'
      BY <1>7, <1>01 DEF Arrive, FetchFails, ByPIDIn, ByPortIn, Report, daemon,
                        ContainersInv, ContainersTypeOK, NumberIsRecent, NumberOf, Since
    <3>2. UNCHANGED <<lastUp, upFor>> /\ waited[c] <= FetchTimeout
      <4>1. waited[c] \in 0..FetchTimeout
        BY <1>01 DEF ContainersTypeOK
      <4>2. waited[c] <= FetchTimeout
        BY <1>01, <4>1
      <4> QED
        BY <1>7, <4>2 DEF Arrive, FetchFails, daemon
    <3>3. CASE stage[c] = "fetchByPID"
      <4>1. /\ lastUp[Cgroup[subject[c]]] <= FetchTimeout
            /\ Cgroup[subject[c]] \in Containers /\ ListTTL # 0
        BY <1>01, <3>2, <3>3, ContainersConstants DEF ContainersInv, NumberIsRecent, NumberOf
      <4>2. CASE Arrive(c)
        <5>1. \/ Cgroup[subject[c]] \in got[c].seen
              \/ upFor[Cgroup[subject[c]]] < ListTTL + FetchTimeout
          BY <1>01, <3>2, <4>1, <4>2 DEF Arrive, ContainersInv, AnswerIsRecent
        <5>2. ByPIDIn(c, got[c].seen, FALSE)
          BY <3>3, <4>2 DEF Arrive
        <5> QED
          BY <3>1, <3>2, <4>1, <5>1, <5>2, NumberAfterLookup DEF NumberIsRecent
      <4>3. CASE FetchFails(c)
        <5>1. ByPIDIn(c, {}, TRUE)
          BY <3>3, <4>3 DEF FetchFails
        <5> QED
          BY <3>1, <3>2, <4>1, <5>1, NumberAfterLookup DEF NumberIsRecent
      <4> QED
        BY <1>7, <4>2, <4>3
    <3>4. CASE stage[c] # "fetchByPID"
      <4>1. \E seen : ByPortIn(c, seen)
        BY <1>7, <3>4 DEF Arrive, FetchFails
      <4>2. \A failed \in BOOLEAN : NumberOf(c)'
        BY <3>2, <4>1, NumberAfterLookup
      <4> QED
        BY <3>1, <4>2 DEF NumberIsRecent
    <3> QED
      BY <3>3, <3>4
  <2> QED
    BY <1>0, <2>1, <2>2, <2>3, <2>4 DEF ContainersInv
<1>8. CASE UNCHANGED containersVars
  BY <1>0, <1>8 DEF containersVars, daemon, ContainersInv, UpIsNow, ListIsRecent, AnswerIsRecent,
                    Fetching, NumberIsRecent, NumberOf, Since
<1> QED
  BY <1>1, <1>2, <1>3, <1>4, <1>5, <1>6, <1>7, <1>8 DEF ContainersNext, AttachContainer

\* What a container list, an answer on its way and a number from a cgroup say is
\* recent, in every reachable state.
THEOREM ContainersAreRecent == ContainersSpec => []ContainersInv
  BY ContainersInvInit, ContainersInvStep, PTL DEF ContainersSpec

\* The steps with which a lookup ends, and the list each of them goes by.
LEMMA LookupEnds ==
    ASSUME ContainersInv, [ContainersNext]_containersVars, NEW c \in Inspections, Names(c)
    PROVE  \/ stage[c] = "byPID" /\ ByPIDIn(c, list.seen, FALSE) /\ Fresh
           \/ stage[c] \in {"byPort", "byPorts"} /\ ByPortIn(c, list.seen) /\ Fresh
           \/ stage[c] = "fetchByPID" /\ ByPIDIn(c, got[c].seen, FALSE) /\ got[c].known
           \/ stage[c] \in {"fetchByPort", "fetchByPorts"} /\ ByPortIn(c, got[c].seen) /\ got[c].known
           \/ stage[c] = "fetchByPID" /\ ByPIDIn(c, {}, TRUE)
           \/ stage[c] \in {"fetchByPort", "fetchByPorts"} /\ ByPortIn(c, {})
<1>0. ContainersTypeOK
  BY DEF ContainersInv
<1>1. stage'[c] # stage[c] /\ stage'[c] = "idle"
  BY DEF Names
<1>2. \A d \in Inspections, p \in Procs : ~Begin(d, p) /\ ~BeginByPort(d, p) /\ ~BeginListing(d, p)
  BY <1>0, <1>1 DEF Begin, BeginByPort, BeginListing, ContainersTypeOK, Names
<1>3. PICK d \in Inspections : FindByPID(d) \/ FindByPort(d) \/ Arrive(d) \/ FetchFails(d)
  BY <1>1, <1>2 DEF ContainersNext, AttachContainer, Start, Stop, FetchTick, Answer,
                    containersVars
<1>4. d = c
  BY <1>0, <1>1, <1>3 DEF FindByPID, FindByPort, Arrive, FetchFails, ByPIDIn, ByPortIn, Report,
                          Fetch, ContainersTypeOK
<1>5. CASE FindByPID(c)
  BY <1>0, <1>1, <1>5 DEF FindByPID, Fetch, ContainersTypeOK
<1>6. CASE FindByPort(c)
  BY <1>0, <1>1, <1>6 DEF FindByPort, Fetch, ContainersTypeOK
<1>7. CASE Arrive(c) \/ FetchFails(c)
  BY <1>7 DEF Arrive, FetchFails, Fetching
<1> QED
  BY <1>3, <1>4, <1>5, <1>6, <1>7

\* A report or a listing names a container that ran no longer ago than the list may
\* be old, and that is asked for: the process's own or a publisher of its port, and
\* in a listing a publisher of the number.
THEOREM NamedContainersWereUp == ContainersSpec => ContainerWasUp
<1> DEFINE Recent(c) ==
        LET x == found'[c].id
        IN  /\ x \in Publishers(c) \cup (IF Listing(c) THEN {} ELSE {Cgroup[subject[c]]})
            /\ IF found'[c].listed THEN lastUp[x] < ListTTL + FetchTimeout
                                   ELSE lastUp[x] <= 2 * FetchTimeout
<1>1. ASSUME ContainersInv, [ContainersNext]_containersVars, NEW c \in Inspections, Names(c)
      PROVE  Recent(c)
  <2>0. /\ ContainersTypeOK /\ NumberOf(c) /\ AnswerIsRecent /\ ListIsRecent /\ None \notin Containers
        /\ \A x \in Containers : lastUp[x] \in Nat
        /\ list.age \in Nat /\ ListTTL \in Nat \ {0} /\ FetchTimeout \in Nat /\ waited[c] \in 0..FetchTimeout
        /\ list.seen \subseteq Containers /\ got[c].seen \subseteq Containers
        /\ subject[c] \in Procs /\ Cgroup[subject[c]] \in Containers \cup {None}
        /\ found[c].id \in Containers \cup {None}
    BY <1>1, OldestContainerType, ContainersConstants
       DEF ContainersInv, NumberIsRecent, ContainersTypeOK, AboutAProcess, Naming, Names
  <2>1. ASSUME NEW seen \in SUBSET Containers, NEW failed \in BOOLEAN, ByPIDIn(c, seen, failed),
               \A x \in seen : lastUp[x] < ListTTL + FetchTimeout,
               stage[c] \in {"byPID", "fetchByPID"}
        PROVE  Recent(c)
    <3>1. Cgroup[subject[c]] \in seen
      BY <1>1, <2>0, <2>1 DEF ByPIDIn, ContainersTypeOK, Names
    <3>2. found'[c].id = Cgroup[subject[c]] /\ found'[c].listed
      BY <2>0, <2>1, <3>1 DEF ByPIDIn, ContainersTypeOK
    <3>3. ~Listing(c)
      BY <2>1 DEF Listing
    <3> QED
      BY <2>1, <3>1, <3>2, <3>3
  <2>2. ASSUME NEW seen \in SUBSET Containers, ByPortIn(c, seen),
               \A x \in seen : lastUp[x] < ListTTL + FetchTimeout,
               stage[c] \in {"byPort", "byPorts", "fetchByPort", "fetchByPorts"}
        PROVE  Recent(c)
    <3>1. CASE seen \cap Publishers(c) # {}
      <4>1. PICK x \in seen \cap Publishers(c) :
                found' = [found EXCEPT ![c] = [id |-> x, listed |-> TRUE, failed |-> FALSE]]
        BY <2>2, <3>1 DEF ByPortIn
      <4>2. found'[c].id = x /\ found'[c].listed
        BY <2>0, <4>1 DEF ContainersTypeOK
      <4> QED
        BY <2>2, <4>1, <4>2
    <3>2. CASE seen \cap Publishers(c) = {}
      <4>1. found' = found
        BY <2>2, <3>2 DEF ByPortIn
      <4>2. stage[c] \in {"byPort", "fetchByPort"} /\ ~Listing(c)
        BY <1>1, <2>0, <2>2, <4>1 DEF NumberOf, NoContainer, Names, Listing
      <4>3. found[c].id = Cgroup[subject[c]] /\ found[c].listed = FALSE
            /\ lastUp[found[c].id] <= Since(c)
        BY <1>1, <2>0, <4>1, <4>2 DEF NumberOf, Names
      <4>4. Since(c) <= 2 * FetchTimeout
        BY <2>0 DEF Since
      <4>5. Since(c) \in Nat /\ lastUp[found[c].id] \in Nat
        BY <1>1, <2>0, <4>1 DEF Since, Names
      <4> QED
        BY <2>0, <4>1, <4>2, <4>3, <4>4, <4>5
    <3> QED
      BY <3>1, <3>2
  <2>3. Fresh => \A x \in list.seen : lastUp[x] < ListTTL + FetchTimeout
    BY <2>0 DEF Fresh, ListIsRecent
  <2>4. got[c].known => \A x \in got[c].seen : lastUp[x] < ListTTL + FetchTimeout
    BY <2>0 DEF AnswerIsRecent
  <2> HIDE DEF Recent
  <2>5. {} \in SUBSET Containers
    OBVIOUS
  <2> QED
    BY <1>1, <2>0, <2>1, <2>2, <2>3, <2>4, <2>5, LookupEnds
<1>2. ContainersInv /\ [ContainersNext]_containersVars
        => [\A c \in Inspections : Names(c) => Recent(c)]_containersVars
  BY <1>1
<1> QED
  BY <1>2, ContainersAreRecent, PTL DEF ContainersSpec, ContainerWasUp

\* A report names another container than the one its process runs in only if the
\* daemon failed to list that one, or that one had just been started.
THEOREM OwnContainerIsFirst == ContainersSpec => OwnContainerFirst
<1> DEFINE Excused(c) == found[c].failed \/ upFor[found[c].id] < ListTTL + 2 * FetchTimeout
           Changes(c) == Names(c) /\ ~Listing(c) /\ found[c].id # None /\ found'[c].id # found[c].id
<1>1. ASSUME ContainersInv, [ContainersNext]_containersVars, NEW c \in Inspections, Changes(c)
      PROVE  Excused(c)
  <2>1. /\ ContainersTypeOK /\ NumberOf(c) /\ found[c].id \in Containers
        /\ waited[c] \in 0..FetchTimeout /\ ListTTL \in Nat /\ FetchTimeout \in Nat
    BY <1>1, ContainersConstants DEF ContainersInv, NumberIsRecent, ContainersTypeOK, Naming
  <2>2. upFor[found[c].id] \in Nat
    BY <2>1, OldestContainerType DEF ContainersTypeOK
  <2>3. stage[c] \in {"byPort", "fetchByPort"}
    BY <1>1, <2>1 DEF NumberOf, NoContainer, Names, Listing, ContainersTypeOK, Stages
  <2>4. found[c].failed \/ upFor[found[c].id] < ListTTL + Since(c)
    BY <1>1, <2>1, <2>3 DEF NumberOf
  <2>5. Since(c) <= 2 * FetchTimeout /\ Since(c) \in Nat
    BY <2>1 DEF Since
  <2> QED
    BY <2>1, <2>2, <2>4, <2>5
<1> HIDE DEF Changes, Excused
<1>2. ContainersInv /\ [ContainersNext]_containersVars
        => [\A c \in Inspections : Changes(c) => Excused(c)]_containersVars
  BY <1>1
<1>3. ContainersSpec => [][\A c \in Inspections : Changes(c) => Excused(c)]_containersVars
  BY <1>2, ContainersAreRecent, PTL DEF ContainersSpec
<1> QED
  BY <1>3, PTL DEF Changes, Excused, OwnContainerFirst

-----------------------------------------------------------------------------
(* What is repeated a number of times, for the walks over a snapshot.      *)

\* What holds of 0 and passes from each number to the next holds of all.
LEMMA FromZeroUp ==
    ASSUME NEW S, 0 \in S, \A n \in Nat : n \in S => n + 1 \in S
    PROVE  \A n \in Nat : n \in S
<1> SUFFICES ASSUME NEW k \in Nat, k \notin S PROVE FALSE
  OBVIOUS
<1> DEFINE T == Nat \ S
<1>1. PICK n \in T : \A m \in T : ~(<<m, n>> \in OpToRel(<, Nat))
  BY NatLessThanWellFounded, WFMin
<1>2. n \in Nat /\ n # 0 /\ n - 1 \in Nat /\ n - 1 < n
  OBVIOUS
<1>3. n - 1 \notin T
  BY <1>1, <1>2 DEF OpToRel
<1> QED
  BY <1>2, <1>3

\* A step repeated from where it begins gives one sequence of states, which a
\* recursive function over the numbers is.
LEMMA Repeated ==
    ASSUME NEW S, NEW first \in S, NEW step \in [S -> S]
    PROVE  \E f \in [Nat -> S] : f[0] = first /\ \A n \in Nat : f[n + 1] = step[f[n]]
<1> DEFINE Good(g, n) == /\ g \in [0..n -> S] /\ g[0] = first
                         /\ \A i \in Nat : i < n => g[i + 1] = step[g[i]]
           Some == {n \in Nat : \E g : Good(g, n)}
           One == {n \in Nat : \A g, h : Good(g, n) /\ Good(h, n) => g[n] = h[n]}
<1>1. ASSUME NEW n \in Nat, NEW g, Good(g, n + 1)
      PROVE  Good([i \in 0..n |-> g[i]], n) /\ g[n + 1] = step[g[n]] /\ g[n] = [i \in 0..n |-> g[i]][n]
  <2> DEFINE h == [i \in 0..n |-> g[i]]
  <2>1. h \in [0..n -> S] /\ h[0] = first
    BY <1>1
  <2>2. \A i \in Nat : i < n => h[i + 1] = step[h[i]]
    BY <1>1
  <2> QED
    BY <1>1, <2>1, <2>2
<1>2. \A n \in Nat : n \in Some
  <2>1. 0 \in Some
    <3>1. Good([i \in 0..0 |-> first], 0)
      OBVIOUS
    <3> QED
      BY <3>1
  <2>2. ASSUME NEW n \in Nat, n \in Some PROVE n + 1 \in Some
    <3>1. PICK g : Good(g, n)
      BY <2>2
    <3> DEFINE h == [i \in 0..(n + 1) |-> IF i = n + 1 THEN step[g[n]] ELSE g[i]]
    <3>2. g[n] \in S /\ \A i \in 0..(n + 1) : i # n + 1 => i \in 0..n /\ g[i] \in S
      BY <3>1
    <3>3. h \in [0..(n + 1) -> S] /\ h[0] = first
      BY <3>1, <3>2
    <3>4. ASSUME NEW i \in Nat, i < n + 1 PROVE h[i + 1] = step[h[i]]
      <4>1. CASE i = n
        BY <3>2, <4>1
      <4>2. CASE i < n
        BY <3>1, <3>2, <4>2
      <4> QED
        BY <3>4, <4>1, <4>2
    <3>5. Good(h, n + 1)
      BY <3>3, <3>4
    <3> HIDE DEF h, Good
    <3> QED
      BY <3>5
  <2> HIDE DEF Some
  <2> QED
    BY <2>1, <2>2, FromZeroUp
<1>3. \A n \in Nat : n \in One
  <2>1. 0 \in One
    OBVIOUS
  <2>2. ASSUME NEW n \in Nat, n \in One PROVE n + 1 \in One
    <3> SUFFICES ASSUME NEW g, NEW h, Good(g, n + 1), Good(h, n + 1) PROVE g[n + 1] = h[n + 1]
      OBVIOUS
    <3>1. Good([i \in 0..n |-> g[i]], n) /\ g[n + 1] = step[g[n]] /\ g[n] = [i \in 0..n |-> g[i]][n]
      BY <1>1
    <3>2. Good([i \in 0..n |-> h[i]], n) /\ h[n + 1] = step[h[n]] /\ h[n] = [i \in 0..n |-> h[i]][n]
      BY <1>1
    <3> HIDE DEF Good
    <3> QED
      BY <2>2, <3>1, <3>2
  <2> HIDE DEF One
  <2> QED
    BY <2>1, <2>2, FromZeroUp
<1> DEFINE of(n) == CHOOSE g : Good(g, n)
           f == [n \in Nat |-> of(n)[n]]
<1>4. \A n \in Nat : Good(of(n), n)
  <2> HIDE DEF Good
  <2> QED
    BY <1>2
<1> HIDE DEF of
<1>5. f \in [Nat -> S] /\ f[0] = first
  BY <1>4
<1>6. ASSUME NEW n \in Nat PROVE f[n + 1] = step[f[n]]
  <2> DEFINE g == of(n + 1)
  <2>1. Good(g, n + 1)
    BY <1>4
  <2>2. Good([i \in 0..n |-> g[i]], n) /\ g[n + 1] = step[g[n]] /\ g[n] = [i \in 0..n |-> g[i]][n]
    BY <1>1, <2>1
  <2>3. g[n] = of(n)[n]
    <3> HIDE DEF Good
    <3> QED
      BY <1>3, <1>4, <2>2
  <2> QED
    BY <2>2, <2>3
<1> QED
  BY <1>5, <1>6

-----------------------------------------------------------------------------
(* Who is above and who is below a process.                                *)

\* The parent of a process, where the way up goes on.
HasParent(parent, pid) == parent[pid] > 0 /\ parent[pid] \in DOMAIN parent

\* A process and all above it: what every set has that has the process, and of
\* each process in it the parent.
Forebears(parent, pid) ==
    {x \in DOMAIN parent : \A S \in SUBSET DOMAIN parent :
        pid \in S /\ (\A y \in S : HasParent(parent, y) => parent[y] \in S) => x \in S}

\* A process and all below it.
Offspring(parent, pid) ==
    {x \in DOMAIN parent : \A S \in SUBSET DOMAIN parent :
        pid \in S /\ (\A y \in S : Children(parent, y) \subseteq S) => x \in S}

\* Both hold the process and go on from each that they hold.
LEMMA ForebearsHold ==
    ASSUME NEW parent, NEW pid \in DOMAIN parent
    PROVE  /\ pid \in Forebears(parent, pid)
           /\ \A y \in Forebears(parent, pid) :
                 HasParent(parent, y) => parent[y] \in Forebears(parent, pid)
<1>1. ASSUME NEW y \in Forebears(parent, pid), HasParent(parent, y)
      PROVE  parent[y] \in Forebears(parent, pid)
  <2>1. ASSUME NEW S \in SUBSET DOMAIN parent, pid \in S,
               \A z \in S : HasParent(parent, z) => parent[z] \in S
        PROVE  parent[y] \in S
    BY <1>1, <2>1 DEF Forebears
  <2> QED
    BY <1>1, <2>1 DEF Forebears, HasParent
<1> QED
  BY <1>1 DEF Forebears

\* The same of those below.
LEMMA OffspringHold ==
    ASSUME NEW parent, NEW pid \in DOMAIN parent
    PROVE  /\ pid \in Offspring(parent, pid)
           /\ \A y \in Offspring(parent, pid) : Children(parent, y) \subseteq Offspring(parent, pid)
<1>1. ASSUME NEW y \in Offspring(parent, pid), NEW k \in Children(parent, y)
      PROVE  k \in Offspring(parent, pid)
  <2>1. ASSUME NEW S \in SUBSET DOMAIN parent, pid \in S, \A z \in S : Children(parent, z) \subseteq S
        PROVE  k \in S
    BY <1>1, <2>1 DEF Offspring
  <2> QED
    BY <1>1, <2>1 DEF Offspring, Children
<1> QED
  BY <1>1 DEF Offspring

\* And they are the least that do.
LEMMA ForebearsLeast ==
    ASSUME NEW parent, NEW pid, NEW S \in SUBSET DOMAIN parent, pid \in S,
           \A y \in S : HasParent(parent, y) => parent[y] \in S
    PROVE  Forebears(parent, pid) \subseteq S
  BY DEF Forebears

\* The same of those below.
LEMMA OffspringLeast ==
    ASSUME NEW parent, NEW pid, NEW S \in SUBSET DOMAIN parent, pid \in S,
           \A y \in S : Children(parent, y) \subseteq S
    PROVE  Offspring(parent, pid) \subseteq S
  BY DEF Offspring

\* One process is above another exactly where that one is below the first.
LEMMA AboveAndBelow ==
    ASSUME NEW parent, NEW p \in DOMAIN parent, NEW q \in DOMAIN parent
    PROVE  p \in Forebears(parent, q) <=> q \in Offspring(parent, p)
<1>1. ASSUME p \in Forebears(parent, q) PROVE q \in Offspring(parent, p)
  <2> DEFINE S == {y \in DOMAIN parent : q \in Offspring(parent, y)}
  <2>1. q \in S
    BY OffspringHold
  <2>2. ASSUME NEW y \in S, HasParent(parent, y) PROVE parent[y] \in S
    <3>1. parent[y] \in DOMAIN parent /\ y \in Children(parent, parent[y])
      BY <2>2 DEF HasParent, Children
    <3>2. y \in Offspring(parent, parent[y])
          /\ \A z \in Offspring(parent, parent[y]) :
                Children(parent, z) \subseteq Offspring(parent, parent[y])
      BY <3>1, OffspringHold
    <3>3. Offspring(parent, parent[y]) \in SUBSET DOMAIN parent
      BY DEF Offspring
    <3>4. Offspring(parent, y) \subseteq Offspring(parent, parent[y])
      BY <3>2, <3>3, OffspringLeast
    <3> QED
      BY <3>1, <3>4
  <2>3. S \in SUBSET DOMAIN parent
    OBVIOUS
  <2> HIDE DEF S
  <2>4. Forebears(parent, q) \subseteq S
    BY <2>1, <2>2, <2>3, ForebearsLeast
  <2> QED
    BY <1>1, <2>4 DEF S
<1>2. ASSUME q \in Offspring(parent, p) PROVE p \in Forebears(parent, q)
  <2> DEFINE S == {y \in DOMAIN parent : p \in Forebears(parent, y)}
  <2>1. p \in S
    BY ForebearsHold
  <2>2. ASSUME NEW y \in S, NEW k \in Children(parent, y) PROVE k \in S
    <3>1. k \in DOMAIN parent /\ HasParent(parent, k) /\ parent[k] = y
      BY <2>2 DEF HasParent, Children
    <3>2. y \in Forebears(parent, k)
          /\ \A z \in Forebears(parent, k) :
                HasParent(parent, z) => parent[z] \in Forebears(parent, k)
      BY <3>1, ForebearsHold
    <3>3. Forebears(parent, k) \in SUBSET DOMAIN parent
      BY DEF Forebears
    <3>4. Forebears(parent, y) \subseteq Forebears(parent, k)
      BY <3>2, <3>3, ForebearsLeast
    <3> QED
      BY <3>1, <3>4
  <2>3. S \in SUBSET DOMAIN parent
    OBVIOUS
  <2> HIDE DEF S
  <2>4. Offspring(parent, p) \subseteq S
    BY <2>1, <2>2, <2>3, OffspringLeast
  <2> QED
    BY <1>2, <2>4 DEF S
<1> QED
  BY <1>1, <1>2
-----------------------------------------------------------------------------
(* The way above.                                                             *)

\* What a turn of the loop leads to.
LEMMA TurnType ==
    ASSUME NEW parent, NEW pid, NEW chain \in Seq(DOMAIN parent)
    PROVE  /\ Turn(parent, pid, chain) \in Seq(DOMAIN parent)
           /\ \/ Turn(parent, pid, chain) = chain
              \/ \E cur \in DOMAIN parent : Turn(parent, pid, chain) = <<cur>> \o chain
<1> DEFINE cur == IF chain = <<>> THEN pid ELSE parent[Head(chain)]
<1>1. \/ Turn(parent, pid, chain) = chain
      \/ cur \in DOMAIN parent /\ Turn(parent, pid, chain) = <<cur>> \o chain
  BY DEF Turn
<1> HIDE DEF cur
<1>2. cur \in DOMAIN parent => <<cur>> \o chain \in Seq(DOMAIN parent)
  OBVIOUS
<1> QED
  BY <1>1, <1>2

\* The loop of Ancestors, turn after turn.
LEMMA Climb ==
    ASSUME NEW parent, NEW pid
    PROVE  \E c \in [Nat -> Seq(DOMAIN parent)] :
              /\ c[0] = <<>>
              /\ \A n \in Nat : c[n + 1] = Turn(parent, pid, c[n])
              /\ Ancestors(parent, pid) = c[MaxTreeDepth]
<1>1. PICK c \in [Nat -> Seq(DOMAIN parent)] :
         c[0] = <<>> /\ \A n \in Nat : c[n + 1] = Turn(parent, pid, c[n])
  <2>1. PICK All : All = Seq(DOMAIN parent)
    OBVIOUS
  <2>2. PICK none : none = <<>>
    OBVIOUS
  <2>3. PICK turn : turn = [chain \in All |-> Turn(parent, pid, chain)]
    OBVIOUS
  <2>4. turn \in [All -> All]
    BY <2>1, <2>3, TurnType
  <2>5. none \in All
    BY <2>1, <2>2
  <2>6. PICK c \in [Nat -> All] : c[0] = none /\ \A n \in Nat : c[n + 1] = turn[c[n]]
    BY ONLY <2>4, <2>5, Repeated
  <2> QED
    BY <2>1, <2>2, <2>3, <2>6
<1> DEFINE F(g) == [n \in Nat |-> IF n = 0 THEN <<>> ELSE Turn(parent, pid, g[n - 1])]
           chain == CHOOSE g : g = F(g)
<1>4. c = F(c)
  <2>1. ASSUME NEW n \in Nat, n # 0 PROVE c[n] = Turn(parent, pid, c[n - 1])
    <3>1. n - 1 \in Nat /\ (n - 1) + 1 = n
      BY <2>1
    <3> QED
      BY <1>1, <3>1
  <2> QED
    BY <1>1, <2>1
<1>5. chain = F(chain)
  <2> HIDE DEF F
  <2> QED
    BY <1>4
<1>6. Ancestors(parent, pid) = chain[MaxTreeDepth]
  BY DEF Ancestors
<1> HIDE DEF chain
<1>7. \A n \in Nat : n \in {m \in Nat : chain[m] = c[m]}
  <2> DEFINE Same == {m \in Nat : chain[m] = c[m]}
  <2>1. 0 \in Same
    BY <1>1, <1>5
  <2>2. ASSUME NEW n \in Nat, n \in Same PROVE n + 1 \in Same
    <3>1. chain[n + 1] = Turn(parent, pid, chain[(n + 1) - 1])
      BY <1>5
    <3>2. (n + 1) - 1 = n /\ n + 1 \in Nat
      OBVIOUS
    <3> QED
      BY <1>1, <2>2, <3>1, <3>2
  <2> HIDE DEF Same
  <2>3. \A n \in Nat : n \in Same
    BY <2>1, <2>2, FromZeroUp
  <2> QED
    BY <2>3 DEF Same
<1> QED
  BY <1>1, <1>6, <1>7, TreeDepthIsFinite

\* What a process put before the others adds.
LEMMA PutBefore ==
    ASSUME NEW S, NEW x \in S, NEW chain \in Seq(S)
    PROVE  /\ Range(<<x>> \o chain) = {x} \cup Range(chain)
           /\ Head(<<x>> \o chain) = x /\ Len(<<x>> \o chain) = Len(chain) + 1
           /\ <<x>> \o chain # <<>>
<1> DEFINE new == <<x>> \o chain
<1>1. /\ new \in Seq(S) /\ Len(new) = Len(chain) + 1 /\ new[1] = x
      /\ \A i \in 1..Len(chain) : new[i + 1] = chain[i] /\ i + 1 \in 1..Len(new)
      /\ \A i \in 1..Len(new) : i = 1 \/ (i - 1 \in 1..Len(chain) /\ new[i] = chain[i - 1])
  OBVIOUS
<1>2. 1 \in 1..Len(new) /\ Len(chain) \in Nat
  BY <1>1
<1> HIDE DEF new
<1>3. DOMAIN new = 1..Len(new) /\ DOMAIN chain = 1..Len(chain)
  BY <1>1
<1>4. Range(new) \subseteq {x} \cup Range(chain)
  <2>1. ASSUME NEW i \in 1..Len(new) PROVE new[i] \in {x} \cup Range(chain)
    <3>1. i = 1 => new[i] = x
      BY <1>1
    <3>2. i # 1 => \E j \in DOMAIN chain : new[i] = chain[j]
      BY <1>1, <1>3
    <3> QED
      BY <3>1, <3>2 DEF Range
  <2> QED
    BY <1>3, <2>1 DEF Range
<1>5. x \in Range(new)
  BY <1>1, <1>2, <1>3 DEF Range
<1>6. Range(chain) \subseteq Range(new)
  <2>1. ASSUME NEW i \in 1..Len(chain) PROVE chain[i] \in Range(new)
    BY <1>1, <1>3 DEF Range
  <2> QED
    BY <1>3, <2>1 DEF Range
<1>7. Head(new) = x /\ new # <<>>
  BY <1>1, <1>2
<1> QED
  BY <1>1, <1>4, <1>5, <1>6, <1>7 DEF new

\* On the way up: who is there is pid or above it, and only the top one may
\* have a parent that is not.
OnTheWay(parent, pid, chain) ==
    /\ chain \in Seq(DOMAIN parent)
    /\ Range(chain) \subseteq Forebears(parent, pid)
    /\ chain # <<>> => pid \in Range(chain) /\ Head(chain) \in Range(chain)
    /\ \A y \in Range(chain) :
          y = Head(chain) \/ (HasParent(parent, y) => parent[y] \in Range(chain))

\* A turn that puts one before the others puts the next one there; a turn that
\* puts none has all of them.
LEMMA TurnOnTheWay ==
    ASSUME NEW parent, DOMAIN parent \in SUBSET Int, NEW pid \in DOMAIN parent,
           NEW chain, OnTheWay(parent, pid, chain), NEW next, next = Turn(parent, pid, chain)
    PROVE  /\ OnTheWay(parent, pid, next)
           /\ \/ next = chain /\ Range(chain) = Forebears(parent, pid)
              \/ Len(next) = Len(chain) + 1 /\ ~ Range(next) \subseteq Range(chain)
<1> DEFINE cur == IF chain = <<>> THEN pid ELSE parent[Head(chain)]
           Ends == \/ chain # <<>> /\ (cur <= 0 \/ cur = Head(chain))
                   \/ cur \in Range(chain) \/ cur \notin DOMAIN parent
<1>1. chain \in Seq(DOMAIN parent)
  BY DEF OnTheWay
<1>2. CASE Ends
  <2>1. next = chain
    BY <1>2 DEF Turn
  <2>2. chain # <<>>
    <3>1. Range(<<>>) = {}
      BY DEF Range
    <3> QED
      BY <1>2, <3>1
  <2>3. HasParent(parent, Head(chain)) => parent[Head(chain)] \in Range(chain)
    <3> SUFFICES ASSUME HasParent(parent, Head(chain)) PROVE parent[Head(chain)] \in Range(chain)
      OBVIOUS
    <3>1. cur = parent[Head(chain)] /\ cur \in DOMAIN parent /\ cur \in Int /\ cur > 0
      BY <2>2 DEF HasParent
    <3>2. cur = Head(chain) \/ cur \in Range(chain)
      BY <1>2, <3>1
    <3> QED
      BY <2>2, <3>1, <3>2 DEF OnTheWay
  <2>4. \A y \in Range(chain) : HasParent(parent, y) => parent[y] \in Range(chain)
    BY <2>3 DEF OnTheWay
  <2>5. pid \in Range(chain) /\ Range(chain) \subseteq Forebears(parent, pid)
    BY <2>2 DEF OnTheWay
  <2>6. Range(chain) \in SUBSET DOMAIN parent
    BY <2>5 DEF Forebears
  <2>7. Forebears(parent, pid) \subseteq Range(chain)
    BY <2>4, <2>5, <2>6, ForebearsLeast
  <2> QED
    BY <2>1, <2>5, <2>7
<1>3. CASE ~Ends
  <2>1. next = <<cur>> \o chain
    BY <1>3 DEF Turn
  <2>2. cur \in DOMAIN parent /\ cur \notin Range(chain) /\ (chain # <<>> => cur > 0)
    BY <1>3
  <2>3. chain = <<>> => cur = pid
    OBVIOUS
  <2>4. chain # <<>> => cur = parent[Head(chain)] /\ HasParent(parent, Head(chain))
    BY <2>2 DEF HasParent
  <2> HIDE DEF cur, Ends
  <2>5. /\ Range(next) = {cur} \cup Range(chain) /\ Head(next) = cur
        /\ Len(next) = Len(chain) + 1 /\ next # <<>> /\ next \in Seq(DOMAIN parent)
    BY <1>1, <2>1, <2>2, PutBefore
  <2>6. cur \in Forebears(parent, pid)
    BY <2>3, <2>4, ForebearsHold DEF OnTheWay
  <2>7. pid \in Range(next) /\ Range(next) \subseteq Forebears(parent, pid)
    BY <2>3, <2>5, <2>6 DEF OnTheWay
  <2>8. ASSUME NEW y \in Range(next), y # cur, HasParent(parent, y)
        PROVE  parent[y] \in Range(next)
    <3>0. Range(<<>>) = {}
      BY DEF Range
    <3>1. y \in Range(chain) /\ chain # <<>>
      BY <2>5, <2>8, <3>0
    <3>2. CASE y = Head(chain)
      BY <2>4, <2>5, <3>1, <3>2
    <3>3. CASE y # Head(chain)
      BY <2>5, <2>8, <3>1, <3>3 DEF OnTheWay
    <3> QED
      BY <3>2, <3>3
  <2>9. OnTheWay(parent, pid, next)
    BY <2>5, <2>7, <2>8 DEF OnTheWay
  <2> QED
    BY <2>2, <2>5, <2>9
<1> QED
  BY <1>2, <1>3

\* Ancestors gives none that is not pid or above it, and all of them unless the
\* chain is as long as the loop goes.
LEMMA AncestorsAre ==
    ASSUME NEW parent, DOMAIN parent \in SUBSET Int, NEW pid \in DOMAIN parent
    PROVE  LET above == Ancestors(parent, pid)
           IN  /\ OnTheWay(parent, pid, above) /\ Len(above) <= MaxTreeDepth
               /\ Len(above) < MaxTreeDepth => Range(above) = Forebears(parent, pid)
<1>1. PICK c \in [Nat -> Seq(DOMAIN parent)] :
         /\ c[0] = <<>>
         /\ \A n \in Nat : c[n + 1] = Turn(parent, pid, c[n])
         /\ Ancestors(parent, pid) = c[MaxTreeDepth]
  BY Climb
<1> DEFINE Up == {n \in Nat : /\ OnTheWay(parent, pid, c[n]) /\ Len(c[n]) <= n
                              /\ Len(c[n]) < n => Range(c[n]) = Forebears(parent, pid)}
<1>2. 0 \in Up
  <2>1. c[0] = <<>> /\ c[0] \in Seq(DOMAIN parent)
    BY <1>1
  <2>2. Range(c[0]) = {} /\ Len(c[0]) = 0
    BY <2>1 DEF Range
  <2>3. OnTheWay(parent, pid, c[0])
    BY <2>1, <2>2 DEF OnTheWay
  <2> QED
    BY <2>2, <2>3
<1>3. ASSUME NEW n \in Nat, n \in Up PROVE n + 1 \in Up
  <2> DEFINE chain == c[n]
             next == c[n + 1]
  <2>1. next = Turn(parent, pid, chain) /\ OnTheWay(parent, pid, chain) /\ Len(chain) <= n
        /\ (Len(chain) < n => Range(chain) = Forebears(parent, pid))
    BY <1>1, <1>3
  <2>0. n + 1 \in Nat
    OBVIOUS
  <2>2. chain \in Seq(DOMAIN parent) /\ next \in Seq(DOMAIN parent)
    BY <2>0
  <2> HIDE DEF chain, next
  <2>6. Len(chain) \in Nat /\ Len(next) \in Nat
    BY <2>2
  <2>3. /\ OnTheWay(parent, pid, next)
        /\ \/ next = chain /\ Range(chain) = Forebears(parent, pid)
           \/ Len(next) = Len(chain) + 1 /\ ~ Range(next) \subseteq Range(chain)
    BY <2>1, TurnOnTheWay
  <2>4. Range(next) \subseteq Forebears(parent, pid)
    BY <2>3 DEF OnTheWay
  <2>5. Len(next) <= n + 1 /\ (Len(next) < n + 1 => Range(next) = Forebears(parent, pid))
    <3>1. CASE next = chain /\ Range(chain) = Forebears(parent, pid)
      BY <2>1, <2>6, <3>1
    <3>2. CASE Len(next) = Len(chain) + 1 /\ ~ Range(next) \subseteq Range(chain)
      <4>1. ~ Len(chain) < n
        BY <2>1, <2>4, <3>2
      <4> QED
        BY <2>1, <2>6, <3>2, <4>1
    <3> QED
      BY <2>3, <3>1, <3>2
  <2> QED
    BY <2>3, <2>5 DEF next
<1> HIDE DEF Up
<1>4. MaxTreeDepth \in Up
  BY <1>2, <1>3, FromZeroUp, TreeDepthIsFinite
<1> QED
  BY <1>1, <1>4 DEF Up

\* A process that is not in the snapshot has no chain.
LEMMA NoAncestors ==
    ASSUME NEW parent, NEW pid, pid \notin DOMAIN parent
    PROVE  Ancestors(parent, pid) = <<>>
<1>1. PICK c \in [Nat -> Seq(DOMAIN parent)] :
         /\ c[0] = <<>>
         /\ \A n \in Nat : c[n + 1] = Turn(parent, pid, c[n])
         /\ Ancestors(parent, pid) = c[MaxTreeDepth]
  BY Climb
<1> DEFINE Nobody == {n \in Nat : c[n] = <<>>}
<1>2. 0 \in Nobody
  BY <1>1
<1>3. ASSUME NEW n \in Nat, n \in Nobody PROVE n + 1 \in Nobody
  <2>1. Turn(parent, pid, <<>>) = <<>>
    BY DEF Turn
  <2> QED
    BY <1>1, <1>3, <2>1
<1> HIDE DEF Nobody
<1>4. MaxTreeDepth \in Nobody
  BY <1>2, <1>3, FromZeroUp, TreeDepthIsFinite
<1> QED
  BY <1>1, <1>4 DEF Nobody
-----------------------------------------------------------------------------
(* The way down.                                                           *)

Trees(parent) == [seen : SUBSET DOMAIN parent, level : SUBSET DOMAIN parent]

\* A tree stays one.
LEMMA DeeperType ==
    ASSUME NEW parent, NEW tree \in Trees(parent)
    PROVE  Deeper(parent, tree) \in Trees(parent)
<1>1. tree.seen \in SUBSET DOMAIN parent /\ tree.level \in SUBSET DOMAIN parent
  BY DEF Trees
<1>2. UNION {Children(parent, p) : p \in tree.level \ tree.seen} \in SUBSET DOMAIN parent
  BY DEF Children
<1>3. tree.seen \cup tree.level \in SUBSET DOMAIN parent
  BY <1>1
<1> QED
  BY <1>2, <1>3 DEF Deeper, Trees

\* Level after level of Descendants.
Levels(parent, pid, t) ==
    /\ t \in [Nat -> Trees(parent)] /\ t[0].seen = {} /\ t[0].level = {pid}
    /\ \A n \in Nat : t[n + 1] = Deeper(parent, t[n])
    /\ Descendants(parent, pid) = t[MaxTreeDepth].seen \cup t[MaxTreeDepth].level

\* There are such levels.
LEMMA Descent ==
    ASSUME NEW parent, NEW pid \in DOMAIN parent
    PROVE  \E t : Levels(parent, pid, t)
<1> DEFINE root == [seen |-> {}, level |-> {pid}]
<1>0. root \in Trees(parent) /\ root.seen = {} /\ root.level = {pid}
  BY DEF Trees
<1>1. PICK t \in [Nat -> Trees(parent)] :
         t[0] = root /\ \A n \in Nat : t[n + 1] = Deeper(parent, t[n])
  <2>1. PICK All : All = Trees(parent)
    OBVIOUS
  <2>2. PICK first : first = root
    OBVIOUS
  <2>3. PICK deeper : deeper = [tree \in All |-> Deeper(parent, tree)]
    OBVIOUS
  <2>4. deeper \in [All -> All]
    BY <2>1, <2>3, DeeperType
  <2>5. first \in All
    BY <1>0, <2>1, <2>2
  <2>6. PICK t \in [Nat -> All] : t[0] = first /\ \A n \in Nat : t[n + 1] = deeper[t[n]]
    BY ONLY <2>4, <2>5, Repeated
  <2> HIDE DEF root
  <2> QED
    BY <2>1, <2>2, <2>3, <2>6
<1> DEFINE F(g) == [n \in Nat |-> IF n = 0 THEN root ELSE Deeper(parent, g[n - 1])]
           tree == CHOOSE g : g = F(g)
<1>4. t = F(t)
  <2>1. ASSUME NEW n \in Nat, n # 0 PROVE t[n] = Deeper(parent, t[n - 1])
    <3>1. n - 1 \in Nat /\ (n - 1) + 1 = n
      BY <2>1
    <3> QED
      BY <1>1, <3>1
  <2> HIDE DEF root
  <2> QED
    BY <1>1, <2>1
<1>5. tree = F(tree)
  <2> HIDE DEF F
  <2> QED
    BY <1>4
<1>6. Descendants(parent, pid) = tree[MaxTreeDepth].seen \cup tree[MaxTreeDepth].level
  BY DEF Descendants
<1> HIDE DEF tree, root
<1>7. \A n \in Nat : n \in {m \in Nat : tree[m] = t[m]}
  <2> DEFINE Same == {m \in Nat : tree[m] = t[m]}
  <2>1. 0 \in Same
    BY <1>1, <1>5
  <2>2. ASSUME NEW n \in Nat, n \in Same PROVE n + 1 \in Same
    <3>1. tree[n + 1] = Deeper(parent, tree[(n + 1) - 1])
      BY <1>5
    <3>2. (n + 1) - 1 = n /\ n + 1 \in Nat
      OBVIOUS
    <3> QED
      BY <1>1, <2>2, <3>1, <3>2
  <2> HIDE DEF Same
  <2>3. \A n \in Nat : n \in Same
    BY <2>1, <2>2, FromZeroUp
  <2> QED
    BY <2>3 DEF Same
<1>8. Levels(parent, pid, t)
  BY <1>0, <1>1, <1>6, <1>7, TreeDepthIsFinite DEF Levels
<1> QED
  BY <1>8

\* The way from pid down to a process of a level passes one of each level before.
OnTheWayDown(parent, n, tree, q) ==
    \E W \in SUBSET (tree.seen \cup {q}) :
        W \subseteq Forebears(parent, q) /\ IsFiniteSet(W) /\ Cardinality(W) = n + 1

\* What is in a tree of n levels: none that is not below pid; of all but the
\* last level, the children too; and whoever is new in the last level is n below.
Grown(parent, pid, n, tree) ==
    /\ tree \in Trees(parent)
    /\ tree.seen \cup tree.level \subseteq Offspring(parent, pid)
    /\ pid \in tree.seen \cup tree.level
    /\ \A y \in tree.seen : Children(parent, y) \subseteq tree.seen \cup tree.level
    /\ \A q \in tree.level \ tree.seen : OnTheWayDown(parent, n, tree, q)

\* One more level.
LEMMA GrowsDeeper ==
    ASSUME NEW parent, NEW pid \in DOMAIN parent, NEW n \in Nat, NEW tree,
           Grown(parent, pid, n, tree), NEW next, next = Deeper(parent, tree)
    PROVE  Grown(parent, pid, n + 1, next)
<1>1. /\ next.seen = tree.seen \cup tree.level
      /\ next.level = UNION {Children(parent, p) : p \in tree.level \ tree.seen}
      /\ next \in Trees(parent) /\ tree \in Trees(parent)
  BY DeeperType DEF Deeper, Grown
<1>2. next.seen \cup next.level \subseteq Offspring(parent, pid)
  BY <1>1, OffspringHold DEF Grown
<1>3. pid \in next.seen
  BY <1>1 DEF Grown
<1>4. \A y \in next.seen : Children(parent, y) \subseteq next.seen \cup next.level
  BY <1>1 DEF Grown
<1>5. ASSUME NEW q \in next.level \ next.seen PROVE OnTheWayDown(parent, n + 1, next, q)
  <2>1. PICK p \in tree.level \ tree.seen : q \in Children(parent, p)
    BY <1>1
  <2>2. PICK W \in SUBSET (tree.seen \cup {p}) :
           W \subseteq Forebears(parent, p) /\ IsFiniteSet(W) /\ Cardinality(W) = n + 1
    BY <2>1 DEF Grown, OnTheWayDown
  <2>3. q \notin W /\ W \cup {q} \in SUBSET (next.seen \cup {q})
    BY <1>1, <2>1, <2>2
  <2>4. W \cup {q} \subseteq Forebears(parent, q)
    <3>1. q \in DOMAIN parent /\ HasParent(parent, q) /\ parent[q] = p
      BY <2>1, <1>1 DEF Children, HasParent, Trees
    <3>2. q \in Forebears(parent, q) /\ p \in Forebears(parent, q)
          /\ \A z \in Forebears(parent, q) :
                HasParent(parent, z) => parent[z] \in Forebears(parent, q)
      BY <3>1, ForebearsHold
    <3>3. Forebears(parent, q) \in SUBSET DOMAIN parent
      BY DEF Forebears
    <3>4. Forebears(parent, p) \subseteq Forebears(parent, q)
      BY <3>2, <3>3, ForebearsLeast
    <3> QED
      BY <2>2, <3>2, <3>4
  <2>5. IsFiniteSet(W \cup {q}) /\ Cardinality(W \cup {q}) = (n + 1) + 1
    BY <2>2, <2>3, FS_AddElement
  <2> QED
    BY <2>3, <2>4, <2>5 DEF OnTheWayDown
<1> QED
  BY <1>1, <1>2, <1>3, <1>4, <1>5 DEF Grown

\* All the levels of Descendants.
LEMMA DescendantsAre ==
    ASSUME NEW parent, NEW pid \in DOMAIN parent
    PROVE  \E tree : Grown(parent, pid, MaxTreeDepth, tree)
                     /\ Descendants(parent, pid) = tree.seen \cup tree.level
<1>0. PICK t : Levels(parent, pid, t)
  BY Descent
<1>1. /\ t \in [Nat -> Trees(parent)] /\ t[0].seen = {} /\ t[0].level = {pid}
      /\ \A n \in Nat : t[n + 1] = Deeper(parent, t[n])
      /\ Descendants(parent, pid) = t[MaxTreeDepth].seen \cup t[MaxTreeDepth].level
  BY <1>0 DEF Levels
<1> DEFINE Down == {n \in Nat : Grown(parent, pid, n, t[n])}
<1>2. 0 \in Down
  <2>1. OnTheWayDown(parent, 0, t[0], pid)
    <3>0. IsFiniteSet({pid}) /\ Cardinality({pid}) = 1
      BY FS_Singleton
    <3>1. IsFiniteSet({pid}) /\ Cardinality({pid}) = 0 + 1
      BY <3>0
    <3>2. {pid} \subseteq Forebears(parent, pid)
      BY ForebearsHold
    <3> QED
      BY <3>1, <3>2 DEF OnTheWayDown
  <2>2. pid \in Offspring(parent, pid)
    BY OffspringHold
  <2>3. Grown(parent, pid, 0, t[0])
    BY <1>1, <2>1, <2>2 DEF Grown
  <2> QED
    BY <2>3
<1>3. ASSUME NEW n \in Nat, n \in Down PROVE n + 1 \in Down
  <2>1. t[n + 1] = Deeper(parent, t[n]) /\ Grown(parent, pid, n, t[n])
    BY <1>1, <1>3
  <2> QED
    BY <2>1, GrowsDeeper
<1> HIDE DEF Down
<1>4. MaxTreeDepth \in Down
  BY <1>2, <1>3, FromZeroUp, TreeDepthIsFinite
<1> QED
  BY <1>1, <1>4 DEF Down
-----------------------------------------------------------------------------
(* The search and the launching process.                                   *)

\* There are no more processes in a chain than its length.
LEMMA ChainSize ==
    ASSUME NEW S, NEW chain \in Seq(S)
    PROVE  IsFiniteSet(Range(chain)) /\ Cardinality(Range(chain)) <= Len(chain)
<1>1. Len(chain) \in Nat /\ DOMAIN chain = 1..Len(chain)
  OBVIOUS
<1>2. IsFiniteSet(1..Len(chain)) /\ Cardinality(1..Len(chain)) = Len(chain)
  BY <1>1, FS_Interval
<1>3. chain \in Surjection(1..Len(chain), Range(chain))
  BY <1>1 DEF Range, Surjection, Injection
<1> QED
  BY <1>2, <1>3, FS_Surjection

\* The last of some places of a sequence.
LEMMA LastPlace ==
    ASSUME NEW n \in Nat, NEW at \in SUBSET (1..n), at # {}
    PROVE  \E i \in at : \A j \in at : j <= i
<1> DEFINE Behind == {k \in Nat : n - k \in at}
<1>1. PICK a \in at : TRUE
  OBVIOUS
<1>2. n - a \in Behind
  BY <1>1
<1>3. PICK k \in Behind : \A m \in Behind : ~(<<m, k>> \in OpToRel(<, Nat))
  <2>1. Behind \in SUBSET Nat /\ Behind # {}
    BY <1>2
  <2> HIDE DEF Behind
  <2> QED
    BY <2>1, NatLessThanWellFounded, WFMin
<1>4. \A m \in Behind : ~(m < k)
  BY <1>3 DEF OpToRel
<1>5. ASSUME NEW j \in at PROVE j <= n - k
  <2>1. n - j \in Behind /\ n - j \in Nat /\ j \in Nat /\ k \in Nat
    OBVIOUS
  <2>2. ~(n - j < k)
    BY <1>4, <2>1
  <2> QED
    BY <2>1, <2>2
<1> QED
  BY <1>3, <1>5

\* The launching process is one of the chain.
LEMMA LaunchedOnTheWay ==
    ASSUME NEW S, NEW above \in Seq(S), NEW shells, LaunchProcess(above, shells) # 0
    PROVE  LaunchProcess(above, shells) \in Range(above)
<1> DEFINE at == {i \in DOMAIN above : above[i] \in shells}
           nearest == CHOOSE i \in at : \A j \in at : j <= i
<1>1. DOMAIN above = 1..Len(above) /\ Len(above) \in Nat /\ at \in SUBSET (1..Len(above))
  OBVIOUS
<1>2. at # {}
  BY DEF LaunchProcess
<1>3. LaunchProcess(above, shells) = IF nearest < Len(above) THEN above[nearest + 1] ELSE above[nearest]
  BY <1>2 DEF LaunchProcess
<1>4. nearest \in at
  <2> HIDE DEF at
  <2>1. \E i \in at : \A j \in at : j <= i
    BY <1>1, <1>2, LastPlace
  <2> QED
    BY <2>1
<1>5. nearest \in 1..Len(above) /\ (nearest < Len(above) => nearest + 1 \in 1..Len(above))
  BY <1>1, <1>4
<1> HIDE DEF nearest
<1> QED
  BY <1>1, <1>3, <1>5 DEF Range

\* In a snapshot in which no chain is cut off, the two walks give all that is above and below.
LEMMA WalksAreWhole ==
    ASSUME NEW parent, Shallow(parent), NEW pid \in DOMAIN parent
    PROVE  /\ Range(Ancestors(parent, pid)) = Forebears(parent, pid)
           /\ Descendants(parent, pid) = Offspring(parent, pid)
<1>1. ASSUME NEW q \in DOMAIN parent
      PROVE  /\ Range(Ancestors(parent, q)) = Forebears(parent, q)
             /\ Ancestors(parent, q) \in Seq(DOMAIN parent)
             /\ Len(Ancestors(parent, q)) <= MaxTreeDepth
  <2> DEFINE above == Ancestors(parent, q)
  <2>1. /\ OnTheWay(parent, q, above) /\ Len(above) <= MaxTreeDepth
        /\ above = Turn(parent, q, above) /\ DOMAIN parent \in SUBSET Int
    BY AncestorsAre DEF Shallow
  <2> HIDE DEF above
  <2>2. \/ Range(above) = Forebears(parent, q)
        \/ Len(above) = Len(above) + 1 /\ ~ Range(above) \subseteq Range(above)
    BY <2>1, TurnOnTheWay
  <2> QED
    BY <2>1, <2>2 DEF OnTheWay, above
<1>2. PICK tree : Grown(parent, pid, MaxTreeDepth, tree)
                  /\ Descendants(parent, pid) = tree.seen \cup tree.level
  BY DescendantsAre
<1>3. tree.level \subseteq tree.seen
  <2> SUFFICES ASSUME NEW q \in tree.level \ tree.seen PROVE FALSE
    OBVIOUS
  <2>1. q \in DOMAIN parent
    BY <1>2 DEF Grown, Trees
  <2>2. PICK W : W \subseteq Forebears(parent, q) /\ IsFiniteSet(W)
                 /\ Cardinality(W) = MaxTreeDepth + 1
    BY <1>2 DEF Grown, OnTheWayDown
  <2> DEFINE above == Ancestors(parent, q)
  <2>3. /\ Range(above) = Forebears(parent, q) /\ above \in Seq(DOMAIN parent)
        /\ Len(above) <= MaxTreeDepth /\ Len(above) \in Nat
    BY <1>1, <2>1
  <2> HIDE DEF above
  <2>4. IsFiniteSet(Range(above)) /\ Cardinality(Range(above)) <= Len(above)
    BY <2>3, ChainSize
  <2>5. Cardinality(W) <= Cardinality(Range(above)) /\ Cardinality(Range(above)) \in Nat
    BY <2>2, <2>3, <2>4, FS_Subset, FS_CardinalityType
  <2> QED
    BY <2>2, <2>3, <2>4, <2>5, TreeDepthIsFinite
<1>4. Offspring(parent, pid) \subseteq tree.seen
  <2>1. tree.seen \in SUBSET DOMAIN parent
    BY <1>2 DEF Grown, Trees
  <2>2. pid \in tree.seen /\ \A y \in tree.seen : Children(parent, y) \subseteq tree.seen
    BY <1>2, <1>3 DEF Grown
  <2> QED
    BY <2>1, <2>2, OffspringLeast
<1>5. tree.seen \cup tree.level \subseteq Offspring(parent, pid)
  BY <1>2 DEF Grown
<1> QED
  BY <1>1, <1>2, <1>3, <1>4, <1>5

\* The search for a process climbs from the owner of every port (SearchByPID,
\* contains), where the tree that a report draws is built from above: for any
\* snapshot, parents missing or in a circle, in which no chain is cut off, an owner
\* is found just where it is still there and is the process or in its tree.
THEOREM SearchMeetsTree ==
    ASSUME NEW parent, Shallow(parent), NEW live, NEW owner, NEW pid
    PROVE  OwnedBy(parent, live, owner, pid)
               <=> owner \in live \cap ({pid} \cup Descendants(parent, pid))
<1>1. CASE owner \notin DOMAIN parent
  <2>1. Range(Ancestors(parent, owner)) = {}
    BY <1>1, NoAncestors DEF Range
  <2>2. owner \notin Descendants(parent, pid)
    <3>1. CASE pid \in DOMAIN parent
      BY <1>1, <3>1, WalksAreWhole DEF Offspring
    <3>2. CASE pid \notin DOMAIN parent
      BY <3>2 DEF Descendants
    <3> QED
      BY <3>1, <3>2
  <2> QED
    BY <2>1, <2>2 DEF OwnedBy
<1>2. CASE owner \in DOMAIN parent
  <2>1. Range(Ancestors(parent, owner)) = Forebears(parent, owner)
    BY <1>2, WalksAreWhole
  <2>2. pid \in Forebears(parent, owner) <=> owner \in Descendants(parent, pid)
    <3>1. CASE pid \in DOMAIN parent
      BY <1>2, <3>1, WalksAreWhole, AboveAndBelow
    <3>2. CASE pid \notin DOMAIN parent
      BY <3>2 DEF Descendants, Forebears
    <3> QED
      BY <3>1, <3>2
  <2> QED
    BY <2>1, <2>2 DEF OwnedBy
<1> QED
  BY <1>1, <1>2

\* The process whose command a restart starts, the one below the nearest shell
\* (LaunchProcess), has the target in its tree: for any snapshot in which no chain is
\* cut off, and any processes that are shells.  It is above what a restart stops, the
\* tree of the port's owner, and not in it unless it is the owner.
THEOREM LaunchedAbove ==
    ASSUME NEW parent, Shallow(parent), NEW pid, NEW shells,
           LaunchProcess(Ancestors(parent, pid), shells) # 0
    PROVE  pid \in Descendants(parent, LaunchProcess(Ancestors(parent, pid), shells))
<1> DEFINE above == Ancestors(parent, pid)
           result == LaunchProcess(above, shells)
<1>1. pid \in DOMAIN parent
  <2> SUFFICES ASSUME pid \notin DOMAIN parent PROVE FALSE
    OBVIOUS
  <2>1. above = <<>>
    BY NoAncestors
  <2>2. DOMAIN above = {}
    BY <2>1
  <2> HIDE DEF above
  <2> QED
    BY <2>2 DEF LaunchProcess, above
<1>2. above \in Seq(DOMAIN parent) /\ Range(above) = Forebears(parent, pid)
  BY <1>1, AncestorsAre, WalksAreWhole DEF OnTheWay, Shallow
<1> HIDE DEF above
<1>3. result \in Range(above)
  BY <1>2, LaunchedOnTheWay DEF above
<1>4. result \in DOMAIN parent /\ result \in Forebears(parent, pid)
  BY <1>2, <1>3 DEF Forebears
<1> HIDE DEF result
<1>5. pid \in Descendants(parent, result)
  BY <1>1, <1>4, AboveAndBelow, WalksAreWhole
<1> QED
  BY <1>5 DEF result, above
-----------------------------------------------------------------------------
(* How exposed a port is said to be.                                       *)

\* Every socket of some is, by address and owner, among others.
Among(some, others) == \A i \in DOMAIN some : \E j \in DOMAIN others :
                          /\ others[j].address = some[i].address
                          /\ others[j].pid = some[i].pid

\* How bad an address is, from what there is of it.
LEMMA BoundMore ==
    ASSUME NEW w1 \in BOOLEAN, NEW i1 \in BOOLEAN, NEW l1 \in BOOLEAN, NEW n1 \in BOOLEAN,
           NEW w2 \in BOOLEAN, NEW i2 \in BOOLEAN, NEW l2 \in BOOLEAN, NEW n2 \in BOOLEAN,
           w1 => w2, i1 => i2, l1 => l2, n1 => n2
    PROVE  /\ BoundTo(w1, i1, l1, n1) <= BoundTo(w2, i2, l2, n2)
           /\ BoundTo(w1, i1, l1, n1) \in {Low, Warning, Dangerous}
           /\ BoundTo(w2, i2, l2, n2) \in {Low, Warning, Dangerous}
  BY DEF BoundTo, Low, Warning, Dangerous

\* A port is never rated lower for more sockets, nor for more owners of them
\* (assessExposure): of any listeners.
THEOREM MoreIsNoSafer ==
    ASSUME NEW some, NEW others, Among(some, others)
    PROVE  AssessExposure(some) <= AssessExposure(others)
<1> DEFINE addresses(ls) == {ls[i].address : i \in DOMAIN ls}
           rest(ls) == addresses(ls) \ (Wildcards \union Loopbacks \union {""})
           wan(ls) == rest(ls) \ PrivateNetworks # {}
           lan(ls) == rest(ls) \intersect PrivateNetworks # {}
           wild(ls) == addresses(ls) \intersect Wildcards # {}
           real(ls) == rest(ls) # {}
           rated(ls) == BoundTo(wild(ls), real(ls), lan(ls), wan(ls))
           joint(ls) == \E p, q \in Owners(ls) \ {0} : p # q
<1>1. addresses(some) \subseteq addresses(others)
  BY DEF Among
<1>2. joint(some) => joint(others)
  <2>1. Owners(some) \subseteq Owners(others)
    BY DEF Among, Owners
  <2> QED
    BY <2>1
<1>3. /\ wild(some) => wild(others)
      /\ real(some) => real(others)
      /\ lan(some) => lan(others)
      /\ wan(some) => wan(others)
  <2> HIDE DEF addresses
  <2> QED
    BY <1>1
<1>4. \A ls : /\ wild(ls) \in BOOLEAN /\ real(ls) \in BOOLEAN
              /\ lan(ls) \in BOOLEAN /\ wan(ls) \in BOOLEAN
  OBVIOUS
<1>5. \A ls : AssessExposure(ls) = IF joint(ls) THEN Worse(rated(ls), Warning) ELSE rated(ls)
  BY DEF AssessExposure
<1> HIDE DEF wild, real, lan, wan, joint
<1>6. /\ rated(some) <= rated(others)
      /\ rated(some) \in {Low, Warning, Dangerous}
      /\ rated(others) \in {Low, Warning, Dangerous}
  <2>1. PICK w1 \in BOOLEAN, i1 \in BOOLEAN, l1 \in BOOLEAN, n1 \in BOOLEAN :
           /\ w1 = wild(some) /\ i1 = real(some) /\ l1 = lan(some) /\ n1 = wan(some)
    BY <1>4
  <2>2. PICK w2 \in BOOLEAN, i2 \in BOOLEAN, l2 \in BOOLEAN, n2 \in BOOLEAN :
           /\ w2 = wild(others) /\ i2 = real(others) /\ l2 = lan(others) /\ n2 = wan(others)
    BY <1>4
  <2>3. (w1 => w2) /\ (i1 => i2) /\ (l1 => l2) /\ (n1 => n2)
    BY <1>3, <2>1, <2>2
  <2>4. rated(some) = BoundTo(w1, i1, l1, n1) /\ rated(others) = BoundTo(w2, i2, l2, n2)
    BY <2>1, <2>2
  <2> HIDE DEF rated
  <2>5. /\ BoundTo(w1, i1, l1, n1) <= BoundTo(w2, i2, l2, n2)
        /\ BoundTo(w1, i1, l1, n1) \in {Low, Warning, Dangerous}
        /\ BoundTo(w2, i2, l2, n2) \in {Low, Warning, Dangerous}
    BY ONLY <2>3, BoundMore
  <2> QED
    BY <2>4, <2>5
<1> HIDE DEF rated
<1> QED
  BY <1>2, <1>5, <1>6 DEF Worse, Low, Warning, Dangerous

\* What is rated low is bound to loopback, or to no address, and not shared.
LEMMA LowIsLocal ==
    ASSUME NEW ls, AssessExposure(ls) = Low
    PROVE  /\ \A i \in DOMAIN ls : ls[i].address \in Loopbacks \cup {""}
           /\ \A i, j \in DOMAIN ls : ls[i].pid # ls[j].pid => ls[i].pid = 0 \/ ls[j].pid = 0
<1> DEFINE addresses == {ls[j].address : j \in DOMAIN ls}
           rest == addresses \ (Wildcards \union Loopbacks \union {""})
           wild == addresses \intersect Wildcards # {}
           real == rest # {}
           lan == rest \intersect PrivateNetworks # {}
           wan == rest \ PrivateNetworks # {}
           joint == \E p, q \in Owners(ls) \ {0} : p # q
           rated == BoundTo(wild, real, lan, wan)
<1>1. AssessExposure(ls) = IF joint THEN Worse(rated, Warning) ELSE rated
  BY DEF AssessExposure
<1>2. wild \in BOOLEAN /\ real \in BOOLEAN /\ lan \in BOOLEAN /\ wan \in BOOLEAN /\ joint \in BOOLEAN
  OBVIOUS
<1>3. ~wild /\ ~real => \A i \in DOMAIN ls : ls[i].address \in Loopbacks \cup {""}
  <2> SUFFICES ASSUME ~wild, ~real, NEW i \in DOMAIN ls PROVE ls[i].address \in Loopbacks \cup {""}
    OBVIOUS
  <2>1. ls[i].address \in addresses
    OBVIOUS
  <2> HIDE DEF addresses
  <2> QED
    BY <2>1
<1>4. ~joint => \A i, j \in DOMAIN ls : ls[i].pid # ls[j].pid => ls[i].pid = 0 \/ ls[j].pid = 0
  BY DEF Owners
<1> HIDE DEF wild, real, lan, wan, joint
<1>5. ~joint /\ rated = Low
  BY <1>1, <1>2 DEF Worse, BoundTo, Low, Warning, Dangerous
<1>6. ~wild /\ ~real
  BY <1>2, <1>5 DEF BoundTo, Low, Warning, Dangerous
<1> QED
  BY <1>3, <1>4, <1>5, <1>6

-----------------------------------------------------------------------------
(* The rows of a listing and of a search.                                  *)

\* Of any two of some, one is before the other.
Orders(order, set) ==
    /\ \A i \in set : <<i, i>> \notin order
    /\ \A i, j, k \in set : <<i, j>> \in order /\ <<j, k>> \in order => <<i, k>> \in order
    /\ \A i, j \in set : i = j \/ <<i, j>> \in order \/ <<j, i>> \in order

\* Those of a set before one of them.
Before(set, order, i) == {j \in set : <<j, i>> \in order}
Place(set, order, i) == Cardinality(Before(set, order, i))

\* Fewer than all are before one.
LEMMA PlaceBelow ==
    ASSUME NEW set, IsFiniteSet(set), NEW order, Orders(order, set), NEW i \in set
    PROVE  /\ IsFiniteSet(Before(set, order, i))
           /\ Place(set, order, i) \in 0..(Cardinality(set) - 1)
<1> DEFINE B == Before(set, order, i)
<1>1. B \in SUBSET set /\ i \notin B
  BY DEF Before, Orders
<1> HIDE DEF B
<1>2. IsFiniteSet(B) /\ Cardinality(B) <= Cardinality(set) /\ Cardinality(B) # Cardinality(set)
  BY <1>1, FS_Subset
<1>3. Cardinality(B) \in Nat /\ Cardinality(set) \in Nat
  BY <1>2, FS_CardinalityType
<1> QED
  BY <1>2, <1>3 DEF B, Place

\* More are before the one that is after another.
LEMMA PlaceGrows ==
    ASSUME NEW set, IsFiniteSet(set), NEW order, Orders(order, set),
           NEW i \in set, NEW j \in set, <<i, j>> \in order
    PROVE  Place(set, order, i) < Place(set, order, j)
<1>1. Before(set, order, i) \in SUBSET Before(set, order, j)
  BY DEF Before, Orders
<1>2. i \in Before(set, order, j) /\ i \notin Before(set, order, i)
  BY DEF Before, Orders
<1>3. /\ IsFiniteSet(Before(set, order, j))
      /\ Place(set, order, i) \in Nat /\ Place(set, order, j) \in Nat
  BY PlaceBelow
<1>4. Place(set, order, i) <= Place(set, order, j) /\ Place(set, order, i) # Place(set, order, j)
  BY <1>1, <1>2, <1>3, FS_Subset DEF Place
<1> QED
  BY <1>3, <1>4

\* So no two have the same place.
LEMMA PlacesDiffer ==
    ASSUME NEW set, IsFiniteSet(set), NEW order, Orders(order, set),
           NEW i \in set, NEW j \in set, Place(set, order, i) = Place(set, order, j)
    PROVE  i = j
<1> SUFFICES ASSUME i # j PROVE FALSE
  OBVIOUS
<1>1. <<i, j>> \in order \/ <<j, i>> \in order
  BY DEF Orders
<1>2. Place(set, order, i) \in Nat /\ Place(set, order, j) \in Nat
  BY PlaceBelow
<1> QED
  BY <1>1, <1>2, PlaceGrows

\* And one is at every place.
LEMMA EveryPlace ==
    ASSUME NEW set, IsFiniteSet(set), NEW order, Orders(order, set),
           NEW k \in 0..(Cardinality(set) - 1)
    PROVE  \E i \in set : Place(set, order, i) = k
<1> DEFINE K == 0..(Cardinality(set) - 1)
           f == [i \in set |-> Place(set, order, i)]
<1>1. Cardinality(set) \in Nat
  BY FS_CardinalityType
<1>2. IsFiniteSet(K) /\ Cardinality(K) = Cardinality(set)
  BY <1>1, FS_Interval
<1>3. f \in [set -> K]
  BY PlaceBelow
<1>4. \A i, j \in set : f[i] = f[j] => i = j
  BY PlacesDiffer
<1>5. f \in Injection(set, K)
  <2> HIDE DEF f, K
  <2> QED
    BY <1>3, <1>4, Fun_IsInj
<1>6. f \in Surjection(set, K)
  BY <1>1, <1>2, <1>5, FS_Injection
<1> QED
  BY <1>6 DEF Surjection

\* What is put in order: all, each at its place.
LEMMA InOrderIs ==
    ASSUME NEW set, IsFiniteSet(set), NEW order, Orders(order, set)
    PROVE  /\ DOMAIN InOrder(set, order) = 1..Cardinality(set)
           /\ Cardinality(set) \in Nat
           /\ \A k \in 1..Cardinality(set) :
                 /\ InOrder(set, order)[k] \in set
                 /\ Place(set, order, InOrder(set, order)[k]) = k - 1
           /\ \A i \in set : /\ Place(set, order, i) + 1 \in 1..Cardinality(set)
                            /\ InOrder(set, order)[Place(set, order, i) + 1] = i
<1> DEFINE n == Cardinality(set)
           f == InOrder(set, order)
<1>1. n \in Nat
  BY FS_CardinalityType
<1>2. f = [k \in 1..n |-> CHOOSE i \in set : Place(set, order, i) = k - 1]
  BY DEF InOrder, Place, Before
<1>3. ASSUME NEW k \in 1..n
      PROVE  f[k] \in set /\ Place(set, order, f[k]) = k - 1
  <2>1. k - 1 \in 0..(n - 1)
    BY <1>1
  <2>2. \E i \in set : Place(set, order, i) = k - 1
    BY <2>1, EveryPlace
  <2> HIDE DEF f, n
  <2> QED
    BY <1>2, <1>3, <2>2
<1>4. ASSUME NEW i \in set
      PROVE  Place(set, order, i) + 1 \in 1..n /\ f[Place(set, order, i) + 1] = i
  <2> DEFINE p == Place(set, order, i)
  <2>1. p \in 0..(n - 1)
    BY PlaceBelow
  <2> HIDE DEF p, f, n
  <2>2. p + 1 \in 1..n /\ (p + 1) - 1 = p
    BY <1>1, <2>1
  <2>3. f[p + 1] \in set /\ Place(set, order, f[p + 1]) = Place(set, order, i)
    BY <1>3, <2>2 DEF p
  <2> QED
    BY <2>2, <2>3, PlacesDiffer DEF p
<1>5. DOMAIN f = 1..n
  BY <1>2
<1> QED
  BY <1>1, <1>3, <1>4, <1>5

\* Listeners are ordered by their ports.
LEMMA PortOrders ==
    ASSUME NEW listeners \in Seq(Listeners), NEW some \in SUBSET DOMAIN listeners
    PROVE  Orders(ByPort(listeners), some) /\ IsFiniteSet(some)
<1>1. /\ DOMAIN listeners = 1..Len(listeners) /\ Len(listeners) \in Nat
      /\ \A i \in DOMAIN listeners : listeners[i].port \in Int
  <2>1. \A l \in Listeners : l.port \in Int
    BY DEF Listeners
  <2> QED
    BY <2>1
<1>2. IsFiniteSet(some)
  <2>1. IsFiniteSet(1..Len(listeners))
    BY <1>1, FS_Interval
  <2> QED
    BY <1>1, <2>1, FS_Subset
<1>3. \A i, j \in DOMAIN listeners : <<i, j>> \in ByPort(listeners) <=> Ahead(listeners, i, j)
  BY DEF ByPort
<1>4. \A i, j, k \in DOMAIN listeners :
         /\ ~ Ahead(listeners, i, i)
         /\ Ahead(listeners, i, j) /\ Ahead(listeners, j, k) => Ahead(listeners, i, k)
         /\ i = j \/ Ahead(listeners, i, j) \/ Ahead(listeners, j, i)
  <2> SUFFICES ASSUME NEW i \in DOMAIN listeners, NEW j \in DOMAIN listeners, NEW k \in DOMAIN listeners
               PROVE  /\ ~ Ahead(listeners, i, i)
                      /\ Ahead(listeners, i, j) /\ Ahead(listeners, j, k) => Ahead(listeners, i, k)
                      /\ i = j \/ Ahead(listeners, i, j) \/ Ahead(listeners, j, i)
    OBVIOUS
  <2> DEFINE a == listeners[i].port
             b == listeners[j].port
             c == listeners[k].port
  <2>1. a \in Int /\ b \in Int /\ c \in Int /\ i \in Nat /\ j \in Nat /\ k \in Nat
    BY <1>1
  <2>2. /\ Ahead(listeners, i, i) <=> a < a \/ (a = a /\ i < i)
        /\ Ahead(listeners, i, j) <=> a < b \/ (a = b /\ i < j)
        /\ Ahead(listeners, j, i) <=> b < a \/ (b = a /\ j < i)
        /\ Ahead(listeners, j, k) <=> b < c \/ (b = c /\ j < k)
        /\ Ahead(listeners, i, k) <=> a < c \/ (a = c /\ i < k)
    BY DEF Ahead
  <2> HIDE DEF a, b, c
  <2> QED
    BY <2>1, <2>2
<1> QED
  BY <1>2, <1>3, <1>4 DEF Orders

\* A listing has every first listener of a protocol and port, in the order of the
\* ports.
LEMMA ListingIs ==
    ASSUME NEW listeners \in Seq(Listeners), NEW f, f = InOrder(Firsts(listeners), ByPort(listeners))
    PROVE  /\ ListEntries(listeners) = [k \in DOMAIN f |-> listeners[f[k]]]
           /\ DOMAIN f = 1..Cardinality(Firsts(listeners))
           /\ \A k \in DOMAIN f : f[k] \in Firsts(listeners)
<1>1. Firsts(listeners) \in SUBSET DOMAIN listeners
  BY DEF Firsts
<1>2. {i \in Firsts(listeners) : [p \in Owners(listeners) |-> TRUE][listeners[i].pid]}
         = Firsts(listeners)
  BY <1>1 DEF Owners
<1>3. ListEntries(listeners) = [k \in DOMAIN f |-> listeners[f[k]]]
  BY <1>2 DEF ListEntries, BuildEntries
<1>4. Orders(ByPort(listeners), Firsts(listeners)) /\ IsFiniteSet(Firsts(listeners))
  BY <1>1, PortOrders
<1> QED
  BY <1>3, <1>4, InOrderIs

\* The first of the listeners with the key of one.
LEMMA FirstOfKey ==
    ASSUME NEW listeners \in Seq(Listeners), NEW i \in DOMAIN listeners
    PROVE  \E j \in Firsts(listeners) : Key(listeners[j]) = Key(listeners[i])
<1> DEFINE alike == {j \in DOMAIN listeners : Key(listeners[j]) = Key(listeners[i])}
<1>1. alike \in SUBSET Nat /\ alike # {}
  BY DEF alike
<1>2. PICK j \in alike : \A k \in alike : ~(<<k, j>> \in OpToRel(<, Nat))
  <2> HIDE DEF alike
  <2> QED
    BY <1>1, NatLessThanWellFounded, WFMin
<1>3. \A k \in DOMAIN listeners : k < j => Key(listeners[k]) # Key(listeners[j])
  BY <1>1, <1>2 DEF OpToRel
<1> QED
  BY <1>2, <1>3 DEF Firsts

\* The search shows no port of a process outside the tree, every port of the tree
\* whose first socket is of the tree, each once and by port (FoundInTree): for any
\* listeners, and any snapshot in which no chain is cut off.
THEOREM SearchPicksTheTree ==
    ASSUME NEW listeners \in Seq(Listeners), NEW parent, Shallow(parent), NEW live, NEW pid
    PROVE  FoundInTree(parent, live, listeners, pid)
<1> DEFINE order == ByPort(listeners)
           tree == TreeOf(parent, live, pid)
           part == {i \in Firsts(listeners) : listeners[i].pid \in tree}
           g == InOrder(part, order)
           n == Cardinality(part)
           rows == SearchByPID(parent, live, listeners, pid)
<1>1. Firsts(listeners) \in SUBSET DOMAIN listeners /\ part \in SUBSET DOMAIN listeners
  BY DEF Firsts
<1>2. Orders(order, part) /\ IsFiniteSet(part)
  BY <1>1, PortOrders
<1>3. {i \in Firsts(listeners) :
          [p \in Owners(listeners) |-> OwnedBy(parent, live, p, pid)][listeners[i].pid]} = part
  <2>1. \A i \in Firsts(listeners) : listeners[i].pid \in Owners(listeners)
    BY <1>1 DEF Owners
  <2>2. \A p : OwnedBy(parent, live, p, pid) <=> p \in tree
    BY SearchMeetsTree DEF TreeOf
  <2> HIDE DEF tree
  <2> QED
    BY <2>1, <2>2
<1>4. rows = [k \in DOMAIN g |-> listeners[g[k]]]
  <2> HIDE DEF part
  <2> QED
    BY <1>3 DEF SearchByPID, BuildEntries
<1>5. /\ DOMAIN g = 1..n /\ n \in Nat
      /\ \A k \in 1..n : g[k] \in part /\ Place(part, order, g[k]) = k - 1
      /\ \A i \in part : /\ Place(part, order, i) + 1 \in 1..n
                         /\ g[Place(part, order, i) + 1] = i
  <2> HIDE DEF part, order
  <2> QED
    BY <1>2, InOrderIs
<1> HIDE DEF g, n, rows
<1>6. DOMAIN rows = 1..n /\ \A k \in 1..n : rows[k] = listeners[g[k]]
  BY <1>4, <1>5
<1>7. ASSUME NEW k \in 1..n PROVE rows[k].pid \in tree /\ \E i \in DOMAIN listeners : rows[k] = listeners[i]
  BY <1>1, <1>5, <1>6
<1>8. ASSUME NEW i \in DOMAIN listeners, listeners[i].pid \in tree
      PROVE  \/ \E k \in 1..n : Key(rows[k]) = Key(listeners[i])
             \/ \E j \in Firsts(listeners) : /\ Key(listeners[j]) = Key(listeners[i])
                                             /\ listeners[j].pid \notin tree
  <2>1. PICK j \in Firsts(listeners) : Key(listeners[j]) = Key(listeners[i])
    BY FirstOfKey
  <2>2. CASE j \in part
    <3> DEFINE k == Place(part, order, j) + 1
    <3>1. k \in 1..n /\ g[k] = j
      BY <1>5, <2>2
    <3> HIDE DEF k, tree, part, order
    <3>2. rows[k] = listeners[j]
      BY <1>6, <3>1
    <3> QED
      BY <2>1, <3>1, <3>2
  <2>3. CASE j \notin part
    BY <2>1, <2>3
  <2> QED
    BY <2>2, <2>3
<1>9. ASSUME NEW k \in 1..n, NEW m \in 1..n, k < m
      PROVE  rows[k].port <= rows[m].port /\ Key(rows[k]) # Key(rows[m])
  <2>1. /\ g[k] \in part /\ g[m] \in part
        /\ Place(part, order, g[k]) = k - 1 /\ Place(part, order, g[m]) = m - 1
    BY <1>5
  <2>2. g[k] # g[m]
    BY <1>5, <1>9, <2>1
  <2>3. ~(<<g[m], g[k]>> \in order)
    <3> SUFFICES ASSUME <<g[m], g[k]>> \in order PROVE FALSE
      OBVIOUS
    <3>1. Place(part, order, g[m]) < Place(part, order, g[k])
      <4> HIDE DEF part, order
      <4> QED
        BY <1>2, <2>1, PlaceGrows
    <3> QED
      BY <1>5, <1>9, <2>1, <3>1
  <2>4. <<g[k], g[m]>> \in order
    <3> HIDE DEF part, order
    <3> QED
      BY <1>2, <2>1, <2>2, <2>3 DEF Orders
  <2>5. g[k] \in Firsts(listeners) /\ g[m] \in Firsts(listeners)
    BY <2>1
  <2> DEFINE a == g[k]
             b == g[m]
  <2> HIDE DEF part, tree, a, b
  <2>6. /\ a \in DOMAIN listeners /\ b \in DOMAIN listeners /\ a # b
        /\ \A i \in DOMAIN listeners : i < a => Key(listeners[i]) # Key(listeners[a])
        /\ \A i \in DOMAIN listeners : i < b => Key(listeners[i]) # Key(listeners[b])
    BY <2>2, <2>5 DEF Firsts, a, b
  <2>7. a \in Nat /\ b \in Nat
    BY <2>6
  <2>8. Key(listeners[a]) # Key(listeners[b])
    BY <2>6, <2>7
  <2>9. Ahead(listeners, a, b)
    BY <2>4 DEF ByPort, a, b
  <2>10. listeners[a].port \in Nat /\ listeners[b].port \in Nat
    <3>1. listeners[a] \in Listeners /\ listeners[b] \in Listeners
      BY <2>6
    <3>2. \A l \in Listeners : l.port \in Nat
      BY DEF Listeners
    <3> QED
      BY <3>1, <3>2
  <2>11. listeners[a].port <= listeners[b].port
    BY <2>9, <2>10 DEF Ahead
  <2> QED
    BY <1>6, <2>8, <2>11 DEF a, b
<1> HIDE DEF tree
<1> QED
  BY <1>6, <1>7, <1>8, <1>9 DEF FoundInTree, ShowsPort, Overshadowed, rows, tree

-----------------------------------------------------------------------------
(* The report of a listed port.                                            *)

\* The listeners that a row stands for.
StoodFor(listeners, row) ==
    Restrict(listeners, {j \in DOMAIN listeners : Key(listeners[j]) = Key(row)})

\* The report of a row is about the listener it was made of.
LEMMA ReportOfFirst ==
    ASSUME NEW listeners \in Seq(Listeners), NEW i \in Firsts(listeners), NEW live,
           NEW row, row = listeners[i]
    PROVE  About(live, listeners, row) =
              [pid |-> row.pid, address |-> row.address,
               exposure |-> IF row.pid > 0 /\ row.pid \notin live THEN Unrated
                            ELSE AssessExposure(StoodFor(listeners, row))]
<1> DEFINE here == StoodFor(listeners, row)
           alike == {j \in DOMAIN listeners : Key(listeners[j]) = Key(row)}
           tcp == {j \in alike : Normalize(listeners[j].protocol) = "tcp"}
           among == IF tcp = {} THEN alike ELSE tcp
<1>1. i \in alike /\ alike \in SUBSET Nat /\ \A j \in alike : i <= j
  <2>1. DOMAIN listeners \in SUBSET Nat
    OBVIOUS
  <2>2. \A j \in DOMAIN listeners : j < i => Key(listeners[j]) # Key(row)
    BY DEF Firsts
  <2>3. i \in DOMAIN listeners
    BY DEF Firsts
  <2> QED
    BY <2>1, <2>2, <2>3
<1>2. among = alike
  <2>1. \A j \in alike : Normalize(listeners[j].protocol) = Normalize(row.protocol)
    BY DEF Key
  <2> QED
    BY <2>1
<1>3. DOMAIN here = alike /\ \A j \in alike : here[j] = listeners[j]
  BY DEF Restrict, StoodFor
<1>4. (CHOOSE j \in alike : \A k \in alike : j <= k) = i
  <2> HIDE DEF alike
  <2>1. ASSUME NEW j \in alike, \A k \in alike : j <= k PROVE j = i
    BY <1>1, <2>1
  <2> QED
    BY <1>1, <2>1
<1>5. ChoosePrimary(here) = row
  <2>1. {j \in DOMAIN here : Normalize(here[j].protocol) = "tcp"} = tcp
    BY <1>3
  <2>2. ChoosePrimary(here) = here[CHOOSE j \in among : \A k \in among : j <= k]
    BY <1>3, <2>1 DEF ChoosePrimary
  <2> HIDE DEF among, alike
  <2> QED
    BY <1>1, <1>2, <1>3, <1>4, <2>2
<1>6. {j \in DOMAIN listeners : Key(listeners[j]) = <<Normalize(row.protocol), row.port>>} = alike
  BY DEF Key
<1>7. here = Restrict(listeners, alike)
  BY DEF StoodFor
<1> HIDE DEF alike, here
<1> QED
  BY <1>5, <1>6, <1>7 DEF About, ReportOn, here

\* The report of a listed port is about the socket and the owner that the row
\* names, low risk only for loopback and one owner, and never lower for one more
\* socket (ReportIsOf): for any listeners.
THEOREM ReportsAreOfTheirRows ==
    ASSUME NEW listeners \in Seq(Listeners), NEW more \in Listeners, NEW live,
           NEW k \in DOMAIN ListEntries(listeners)
    PROVE  ReportIsOf(live, listeners, more, ListEntries(listeners)[k])
<1> DEFINE row == ListEntries(listeners)[k]
           longer == Append(listeners, more)
           same(ls) == {j \in DOMAIN ls : Key(ls[j]) = Key(row)}
           here(ls) == StoodFor(ls, row)
<1>1. PICK i \in Firsts(listeners) : row = listeners[i]
  <2> DEFINE f == InOrder(Firsts(listeners), ByPort(listeners))
  <2>1. /\ ListEntries(listeners) = [m \in DOMAIN f |-> listeners[f[m]]]
        /\ \A m \in DOMAIN f : f[m] \in Firsts(listeners)
    BY ListingIs
  <2> HIDE DEF f
  <2> QED
    BY <2>1
<1>2. /\ longer \in Seq(Listeners) /\ DOMAIN longer = 1..(Len(listeners) + 1)
      /\ DOMAIN listeners = 1..Len(listeners) /\ Len(listeners) \in Nat
      /\ \A j \in DOMAIN listeners : longer[j] = listeners[j]
  OBVIOUS
<1> HIDE DEF row, longer
<1>3. i \in Firsts(longer) /\ row = longer[i]
  BY <1>1, <1>2 DEF Firsts
<1>4. \A ls : /\ DOMAIN here(ls) = same(ls)
              /\ \A j \in same(ls) : here(ls)[j] = ls[j] /\ j \in DOMAIN ls
  BY DEF Restrict, StoodFor
<1> DEFINE r == About(live, listeners, row)
           s == About(live, longer, row)
<1>5. r = [pid |-> row.pid, address |-> row.address,
           exposure |-> IF row.pid > 0 /\ row.pid \notin live THEN Unrated
                        ELSE AssessExposure(here(listeners))]
  BY <1>1, ReportOfFirst
<1>6. s = [pid |-> row.pid, address |-> row.address,
           exposure |-> IF row.pid > 0 /\ row.pid \notin live THEN Unrated
                        ELSE AssessExposure(here(longer))]
  <2>1. longer \in Seq(Listeners)
    BY <1>2
  <2> QED
    BY ONLY <1>3, <2>1, ReportOfFirst
<1>7. Among(here(listeners), here(longer))
  <2>1. \A j \in same(listeners) : j \in same(longer) /\ longer[j] = listeners[j]
    BY <1>2
  <2> HIDE DEF same, here
  <2> QED
    BY <1>4, <2>1 DEF Among
<1> HIDE DEF r, s, here
<1>8. AssessExposure(here(listeners)) <= AssessExposure(here(longer))
  BY <1>7, MoreIsNoSafer
<1>9. AssessExposure(here(listeners)) = Low =>
         /\ \A j \in same(listeners) : listeners[j].address \in Loopbacks \cup {""}
         /\ \A j, m \in same(listeners) :
               listeners[j].pid # listeners[m].pid => listeners[j].pid = 0 \/ listeners[m].pid = 0
  <2> SUFFICES ASSUME AssessExposure(here(listeners)) = Low
               PROVE  /\ \A j \in same(listeners) : listeners[j].address \in Loopbacks \cup {""}
                      /\ \A j, m \in same(listeners) :
                            listeners[j].pid # listeners[m].pid
                               => listeners[j].pid = 0 \/ listeners[m].pid = 0
    OBVIOUS
  <2>1. \A j \in same(listeners) : j \in DOMAIN here(listeners) /\ here(listeners)[j] = listeners[j]
    BY <1>4
  <2>2. /\ \A i1 \in DOMAIN here(listeners) : here(listeners)[i1].address \in Loopbacks \cup {""}
        /\ \A i1, j1 \in DOMAIN here(listeners) :
              here(listeners)[i1].pid # here(listeners)[j1].pid
                 => here(listeners)[i1].pid = 0 \/ here(listeners)[j1].pid = 0
    BY LowIsLocal
  <2> HIDE DEF same
  <2> QED
    BY <2>1, <2>2
<1>11. r.exposure # Unrated => /\ r.exposure = AssessExposure(here(listeners))
                              /\ s.exposure = AssessExposure(here(longer))
  BY <1>5, <1>6
<1>12. r.pid = row.pid /\ r.address = row.address
  BY <1>5
<1>13. r.exposure # Unrated =>
          /\ r.exposure = Low =>
                /\ \A l \in {listeners[j] : j \in same(listeners)} : l.address \in Loopbacks \cup {""}
                /\ \A l, m \in {listeners[j] : j \in same(listeners)} :
                      l.pid # m.pid => l.pid = 0 \/ m.pid = 0
          /\ s.exposure >= r.exposure
  <2> SUFFICES ASSUME r.exposure # Unrated
               PROVE  /\ r.exposure = Low =>
                            /\ \A l \in {listeners[j] : j \in same(listeners)} :
                                  l.address \in Loopbacks \cup {""}
                            /\ \A l, m \in {listeners[j] : j \in same(listeners)} :
                                  l.pid # m.pid => l.pid = 0 \/ m.pid = 0
                      /\ s.exposure >= r.exposure
    OBVIOUS
  <2>1. s.exposure >= r.exposure
    BY <1>8, <1>11
  <2> HIDE DEF same
  <2> QED
    BY <1>9, <1>11, <2>1
<1> QED
  BY <1>12, <1>13 DEF ReportIsOf, r, s, row, longer

-----------------------------------------------------------------------------
(* In every reachable state.                                               *)

\* Whatever containers run, the processes that are there are those of some choice.
LEMMA AliveIsOne == ContainersTypeOK => Alive \in Lives
  BY DEF ContainersTypeOK, Alive, Lives

\* The search for a process, by climbing from every owner (SearchByPID, contains),
\* shows the ports of the process and of the tree below it, but those whose first
\* socket is of another, and no others; and the process whose command a restart starts
\* (LaunchProcess) has the target in its tree: for any listeners, and any snapshots in
\* which no chain is cut off.
THEOREM SearchesFindTheTree == ContainersSpec => []SearchFindsTheTree
<1>1. ASSUME NEW live, NEW parent \in Snapshots, NEW pid
      PROVE  FoundInTree(parent, live, Searched, pid)
  BY SearchPicksTheTree, ReportsConstants
<1>2. ASSUME NEW parent \in Snapshots, NEW pid, NEW shells
      PROVE  LaunchHasTarget(parent, pid, shells)
  BY LaunchedAbove, ReportsConstants DEF LaunchHasTarget
<1>3. ContainersTypeOK => SearchFindsTheTree
  BY <1>1, <1>2, AliveIsOne DEF SearchFindsTheTree, SearchedRight
<1> QED
  BY <1>3, ContainersTypeCorrect, PTL

\* The report of a listed port is about the socket and the owner of its row; it says
\* low risk only when every socket of the port is bound to loopback or has no address,
\* and no two processes share it; and it never rates the port lower for one more
\* socket (buildEntries, choosePrimary, assessExposure): for any hosts.
THEOREM ExposureIsNeverUnderstated == ContainersSpec => []ExposureNeverUnderstates
<1>1. ASSUME NEW live, NEW listeners \in Hosts, NEW more \in Bindings,
             NEW k \in DOMAIN ListEntries(listeners)
      PROVE  ReportIsOf(live, listeners, more, ListEntries(listeners)[k])
  <2>1. listeners \in Seq(Bindings) /\ Bindings \in SUBSET Listeners
    BY ReportsConstants
  <2>2. listeners \in Seq(Listeners) /\ more \in Listeners
    BY <2>1
  <2> QED
    BY <2>2, ReportsAreOfTheirRows
<1>2. ContainersTypeOK => ExposureNeverUnderstates
  BY <1>1, AliveIsOne DEF ExposureNeverUnderstates, RatedRight
<1> QED
  BY <1>2, ContainersTypeCorrect, PTL
=============================================================================
