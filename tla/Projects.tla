------------------------------ MODULE Projects ------------------------------
(***************************************************************************)
(* The project of a process's working directory, where several inspections *)
(* ask for it at once: the walk up the directories of                      *)
(* internal/detect/project.go, the memo of internal/detect/memo.go, and    *)
(* what InspectDepth of internal/inspector/inspector.go reads from and     *)
(* writes into the description that the memo hands out.                    *)
(*                                                                         *)
(* Time is kept as ages, counted up by WalkTick.                           *)
(***************************************************************************)
EXTENDS Lookups, Sequences

CONSTANTS Dirs, Parent, \* directories; the one above each, None at the top
          Files,        \* the marker files that appear and disappear
          Objs,         \* bound: project descriptions in memory
          Cwd,          \* of each process: its working directory
          OwnRuntime, OwnFramework,  \* and what its name and command line tell, or ""
          Dependencies, \* what the package.json files depend on
          MemoTTL, MemoMax,          \* projectMemoTTL, projectMemoMaxEntries
          ScanTime,     \* bound: how long a walk up the directories may take
          MaxChanges    \* bound: changes of files

ASSUME ProjectsConstants ==
    /\ Parent \in [Dirs -> Dirs \cup {None}] /\ None \notin Dirs \cup Objs
    /\ Cwd \in [Procs -> Dirs]
    /\ MemoTTL \in Nat \ {0} /\ ScanTime \in Nat /\ MemoMax \in Nat /\ MaxChanges \in Nat

VARIABLES files,      \* of each directory: the marker files in it
          lastSeen,   \* of each directory and project: how long ago it was so
          changes,
          memo,       \* the project remembered for each working directory
          obj,        \* project descriptions, shared by reference
          pc, proc,   \* of each caller: where it is, the process it reports on
          place,      \* the directory it looks at
          info,       \* the project description it holds
          walked,     \* how long its walk has taken
          said        \* the runtime and framework it has found

fileTree == <<files, lastSeen, changes>>
projectsVars == <<fileTree, memo, obj, pc, proc, place, info, walked, said>>

-----------------------------------------------------------------------------
(* scanProjectDir.                                                         *)

\* What the first row of a table with a sign among those present says, or "".
FirstHit(table, present) ==
    LET hits == {i \in DOMAIN table : table[i][1] \cap present # {}}
    IN  IF hits = {} THEN "" ELSE table[CHOOSE i \in hits : \A j \in hits : i <= j][2]

\* The markers in the order they are asked for.
Manifests == << <<{"package.json"}, "node">>, <<{"go.mod"}, "go">>, <<{"Cargo.toml"}, "rust">>,
                <<{"pyproject.toml", "requirements.txt", "setup.py"}, "python">>,
                <<{"pom.xml"}, "java">>, <<{"build.gradle", "build.gradle.kts"}, "java">> >>

FrameworkFromPackageJSON(deps) ==
    FirstHit(<< <<{"@nestjs/core", "@nestjs/common"}, "nestjs">>, <<{"next"}, "next.js">>,
                <<{"nuxt"}, "nuxt">>, <<{"@sveltejs/kit"}, "sveltekit">>,
                <<{"fastify"}, "fastify">>, <<{"express"}, "express">>, <<{"koa"}, "koa">>,
                <<{"@angular/core"}, "angular">>, <<{"react"}, "react">>, <<{"vue"}, "vue">>,
                <<{"prisma", "@prisma/client"}, "prisma">> >>, deps)

\* The first manifest decides; a repository without one is a project too.
ScanProjectDir(present) ==
    LET runtime == FirstHit(Manifests, present)
    IN  [detected |-> runtime # "" \/ ".git" \in present,
         runtime |-> runtime,
         framework |-> IF runtime = "node" THEN FrameworkFromPackageJSON(Dependencies) ELSE ""]

Project(d) == ScanProjectDir(files[d])
Projects == {ScanProjectDir(f) : f \in SUBSET Files}

Torn == "torn"       \* a string put together from two of them
NoObj == [cwd |-> None, root |-> None, project |-> ScanProjectDir({}),
          runtime |-> "", framework |-> "", writers |-> {}, raced |-> FALSE]
NoEntry == [known |-> FALSE, info |-> None, age |-> MemoTTL]
NoHints == [runtime |-> "", framework |-> ""]

OldestProject == MemoTTL + ScanTime     \* the oldest that is told apart

ProjectsInit ==
        /\ files \in [Dirs -> {{}, Files}]
        /\ lastSeen = [d \in Dirs |-> [j \in Projects |->
                          IF j = Project(d) THEN 0 ELSE OldestProject]]
        /\ changes = 0
        /\ memo = [d \in Dirs |-> NoEntry]
        /\ obj = [o \in Objs |-> NoObj]
        /\ pc = [c \in Inspections |-> "idle"] /\ proc = [c \in Inspections |-> None]
        /\ place = [c \in Inspections |-> None] /\ info = [c \in Inspections |-> None]
        /\ walked = [c \in Inspections |-> 0]
        /\ said = [c \in Inspections |-> NoHints]

-----------------------------------------------------------------------------
(* The files, and time.                                                    *)

Change(d, f) ==
    /\ changes < MaxChanges
    /\ changes' = changes + 1
    /\ files' = [files EXCEPT ![d] = IF f \in @ THEN @ \ {f} ELSE @ \cup {f}]
    /\ lastSeen' = [lastSeen EXCEPT ![d][ScanProjectDir(files'[d])] = 0]
    /\ UNCHANGED <<memo, obj, pc, proc, place, info, walked, said>>

Walking == {c \in Inspections : pc[c] = "walk"}

\* Time passes while callers walk; the rest of the code takes none.
WalkTick ==
    /\ \A c \in Inspections : pc[c] = "idle" \/ (c \in Walking /\ walked[c] < ScanTime)
    /\ walked' = [c \in Inspections |-> IF c \in Walking THEN walked[c] + 1 ELSE 0]
    /\ lastSeen' = [d \in Dirs |-> [j \in Projects |->
                       IF j = Project(d) THEN 0 ELSE Later(lastSeen[d][j], OldestProject)]]
    /\ memo' = [d \in Dirs |-> [memo[d] EXCEPT !.age = Later(@, MemoTTL)]]
    /\ UNCHANGED <<files, changes, obj, pc, proc, place, info, said>>

-----------------------------------------------------------------------------
(* Plausible faults of the code, used to show that the properties notice.  *)

\* What was remembered stays good for as long as anything is.
YoungAlways(entry) == entry.known

\* One description serves every directory of a project.
RecallOfAnyone(d) ==
    LET same == {e \in Dirs : memo[e].known /\ memo[e].info # None}
    IN  IF same = {} THEN memo[d] ELSE memo[CHOOSE e \in same : TRUE]

-----------------------------------------------------------------------------
(* The walk and the memo.                                                  *)

Young(entry) == entry.known /\ entry.age < MemoTTL

Recall(d) == memo[d]

\* InspectDepth has found the process that listens, and asks for the project:
\* what is remembered and young enough, nothing found included, or a walk.
Detect(c, p) ==
    /\ pc[c] = "idle"
    /\ proc' = [proc EXCEPT ![c] = p]
    /\ said' = [said EXCEPT ![c] = NoHints]
    /\ IF Young(Recall(Cwd[p]))
          THEN /\ info' = [info EXCEPT ![c] = Recall(Cwd[p]).info]
               /\ pc' = [pc EXCEPT ![c] = "runtime"]
               /\ UNCHANGED place
          ELSE /\ place' = [place EXCEPT ![c] = Cwd[p]]
               /\ pc' = [pc EXCEPT ![c] = "walk"]
               /\ UNCHANGED info
    /\ UNCHANGED <<fileTree, memo, obj, walked>>

InUse == {info[c] : c \in Inspections} \cup {memo[d].info : d \in Dirs}

\* What nobody holds any more is gone.
Collected == [o \in Objs |-> IF o \in InUse' THEN obj[o] ELSE NoObj]

\* fsProjectDetector.Detect looks at one directory and goes up.
Walk(c) ==
    /\ pc[c] = "walk" /\ place[c] # None
    /\ LET d == place[c]
           project == Project(d)
       IN  IF project.detected
              THEN /\ \E o \in Objs \ InUse :
                        /\ obj' = [obj EXCEPT ![o] =
                              [NoObj EXCEPT !.cwd = Cwd[proc[c]], !.root = d,
                                 !.project = project, !.runtime = project.runtime,
                                 !.framework = project.framework]]
                        /\ info' = [info EXCEPT ![c] = o]
                   /\ place' = [place EXCEPT ![c] = None]
              ELSE /\ place' = [place EXCEPT ![c] = Parent[d]]
                   /\ UNCHANGED <<obj, info>>
    /\ UNCHANGED <<fileTree, memo, pc, proc, walked, said>>

\* The project, or that there is none, is remembered; what has expired makes
\* room when there is too much.
Remember(c) ==
    /\ pc[c] = "walk" /\ place[c] = None
    /\ LET known == {d \in Dirs : memo[d].known}
           kept == IF Cardinality(known) >= MemoMax
                      THEN {d \in known : memo[d].age < MemoTTL} ELSE known
       IN  memo' = [d \in Dirs |->
                       IF d = Cwd[proc[c]] THEN [known |-> TRUE, info |-> info[c], age |-> 0]
                       ELSE IF d \in kept THEN memo[d] ELSE NoEntry]
    /\ walked' = [walked EXCEPT ![c] = 0]
    /\ pc' = [pc EXCEPT ![c] = "runtime"]
    /\ UNCHANGED <<fileTree, proc, place, info, said>>
    /\ obj' = Collected

-----------------------------------------------------------------------------
(* Runtime and framework.  Inspections that hold one description read and  *)
(* write its strings without a lock.                                       *)

\* What may be read of a string that others are writing.
Read(o, value, c) == {value} \cup IF obj[o].writers \ {c} = {} THEN {} ELSE {Torn}

\* The process's own runtime first, and what the project does not know is
\* written into it, though the process may not tell it either.
Runtime(c) ==
    /\ pc[c] = "runtime"
    /\ LET own == OwnRuntime[proc[c]]
           o == info[c]
       IN  IF o = None
              THEN /\ said' = [said EXCEPT ![c].runtime = own]
                   /\ pc' = [pc EXCEPT ![c] = "framework"]
                   /\ UNCHANGED obj
              ELSE \E seen \in Read(o, obj[o].runtime, c) :
                      /\ said' = [said EXCEPT ![c].runtime = IF own # "" THEN own ELSE seen]
                      /\ IF seen = ""
                            THEN /\ obj' = [obj EXCEPT ![o].runtime = own,
                                                       ![o].writers = @ \cup {c}]
                                 /\ pc' = [pc EXCEPT ![c] = "runtimeSet"]
                            ELSE /\ pc' = [pc EXCEPT ![c] = "framework"]
                                 /\ UNCHANGED obj
    /\ UNCHANGED <<fileTree, memo, proc, place, info, walked>>

\* DetectFramework: a hint of the process wins, but for "next" in either.
FrameworkFor(own, known) ==
    IF own # "nestjs" /\ known = "next.js" THEN known
    ELSE IF own # "" THEN own ELSE known

Framework(c) ==
    /\ pc[c] = "framework"
    /\ LET own == OwnFramework[proc[c]]
           o == info[c]
       IN  IF o = None
              THEN /\ said' = [said EXCEPT ![c].framework = own]
                   /\ pc' = [pc EXCEPT ![c] = "interpret"]
                   /\ UNCHANGED obj
              ELSE \E seen \in Read(o, obj[o].framework, c) :
                      LET hint == FrameworkFor(own, seen)
                      IN  IF hint # ""
                             THEN /\ obj' = [obj EXCEPT ![o].framework = hint,
                                                        ![o].writers = @ \cup {c}]
                                  /\ said' = [said EXCEPT ![c].framework = hint]
                                  /\ pc' = [pc EXCEPT ![c] = "frameworkSet"]
                             ELSE /\ pc' = [pc EXCEPT ![c] = "interpret"]
                                  /\ UNCHANGED <<obj, said>>
    /\ UNCHANGED <<fileTree, memo, proc, place, info, walked>>

\* The value is written; beside another writer anything may have come of it.
Written(o, value, mine, c) ==
    {value, mine} \cup IF obj[o].writers = {c} \/ value = mine THEN {} ELSE {Torn}

RuntimeSet(c) ==
    /\ pc[c] = "runtimeSet"
    /\ LET o == info[c]
       IN  \E value \in Written(o, obj[o].runtime, OwnRuntime[proc[c]], c) :
              obj' = [obj EXCEPT ![o].runtime = value, ![o].writers = @ \ {c},
                                 ![o].raced = @ \/ obj[o].writers # {c}]
    /\ pc' = [pc EXCEPT ![c] = "framework"]
    /\ UNCHANGED <<fileTree, memo, proc, place, info, walked, said>>

FrameworkSet(c) ==
    /\ pc[c] = "frameworkSet"
    /\ LET o == info[c]
       IN  \E value \in Written(o, obj[o].framework, said[c].framework, c) :
              obj' = [obj EXCEPT ![o].framework = value, ![o].writers = @ \ {c},
                                 ![o].raced = @ \/ obj[o].writers # {c}]
    /\ pc' = [pc EXCEPT ![c] = "interpret"]
    /\ UNCHANGED <<fileTree, memo, proc, place, info, walked, said>>

\* interpret: what the project says by now goes before what was found.
Interpret(c) ==
    /\ pc[c] = "interpret"
    /\ info' = [info EXCEPT ![c] = None]
    /\ proc' = [proc EXCEPT ![c] = None]
    /\ UNCHANGED <<fileTree, memo, place, walked>>
    /\ LET o == info[c]
       IN  IF o = None
              THEN said' = [said EXCEPT ![c].framework = ""]
              ELSE \E r \in Read(o, obj[o].runtime, c), f \in Read(o, obj[o].framework, c) :
                      said' = [said EXCEPT ![c] =
                                 [runtime |-> IF r # "" THEN r ELSE OwnRuntime[proc[c]],
                                  framework |-> f]]
    /\ obj' = Collected
    /\ pc' = [pc EXCEPT ![c] = "idle"]

-----------------------------------------------------------------------------
DescribeProject(c) == \/ Walk(c) \/ Remember(c)
                      \/ Runtime(c) \/ RuntimeSet(c) \/ Framework(c) \/ FrameworkSet(c) \/ Interpret(c)

ProjectsNext == \/ \E d \in Dirs, f \in Files : Change(d, f)
                \/ WalkTick
                \/ \E c \in Inspections : DescribeProject(c) \/ \E p \in Procs : Detect(c, p)

ProjectsSpec == ProjectsInit /\ [][ProjectsNext]_projectsVars

-----------------------------------------------------------------------------
\* A directory and those above it: what every set has that holds the directory
\* and, of each directory in it, the one above.
Upward(d) ==
    {e \in Dirs : \A S \in SUBSET Dirs :
        d \in S /\ (\A x \in S : Parent[x] # None => Parent[x] \in S) => e \in S}

Hints == {Torn, ""} \cup {j.runtime : j \in Projects} \cup {j.framework : j \in Projects}
         \cup {OwnRuntime[p] : p \in Procs} \cup {OwnFramework[p] : p \in Procs}

ProjectsTypeOK ==
    /\ files \in [Dirs -> SUBSET Files] /\ lastSeen \in [Dirs -> [Projects -> 0..OldestProject]]
    /\ changes \in 0..MaxChanges
    /\ memo \in [Dirs -> [known : BOOLEAN, info : Objs \cup {None}, age : 0..MemoTTL]]
    /\ obj \in [Objs -> [cwd : Dirs \cup {None}, root : Dirs \cup {None},
                         project : Projects \cup {NoObj.project}, runtime : Hints,
                         framework : Hints, writers : SUBSET Inspections, raced : BOOLEAN]]
    /\ pc \in [Inspections -> {"idle", "walk", "runtime", "runtimeSet", "framework",
                           "frameworkSet", "interpret"}]
    /\ proc \in [Inspections -> Procs \cup {None}] /\ place \in [Inspections -> Dirs \cup {None}]
    /\ info \in [Inspections -> Objs \cup {None}] /\ walked \in [Inspections -> 0..ScanTime]
    /\ said \in [Inspections -> [runtime : Hints, framework : Hints]]

\* "short enough that a git checkout or a newly created package.json shows up
\* within a few seconds": a project, or none, was the nearest one to the working
\* directory within the last projectMemoTTL and one walk; directory for
\* directory, for the walk is not atomic (memoProjectDetector.Detect).
ProjectIsRecent ==
    [][\A c \in Inspections : pc[c] \in {"idle", "walk"} /\ pc'[c] = "runtime" =>
          LET cwd == Cwd[proc'[c]]
              o == info'[c]
              passed == Upward(cwd) \ (IF o = None THEN {} ELSE Upward(obj[o].root))
          IN  /\ \A d \in passed :
                    \E j \in Projects : ~j.detected /\ lastSeen[d][j] < MemoTTL + ScanTime
              /\ o # None => lastSeen[obj[o].root][obj[o].project] < MemoTTL + ScanTime]_projectsVars

\* One description is shared by every report on a directory and written into by
\* each of them; still what it says is what its manifest or a process of that
\* very directory says, unless two of them wrote into it at once: then a string
\* may be put together from two (InspectDepth, memoProjectDetector).
HintsStayInDirectory ==
    [][\A c \in Inspections : pc[c] = "interpret" /\ pc'[c] = "idle" /\ info[c] # None =>
          LET o == info[c]
              here == {p \in Procs : Cwd[p] = Cwd[proc[c]]}
          IN  ~obj[o].raced /\ obj[o].writers = {} =>
                 /\ said'[c].runtime \in {obj[o].project.runtime, OwnRuntime[proc[c]]}
                                         \cup {OwnRuntime[p] : p \in here}
                 /\ said'[c].framework \in {obj[o].project.framework}
                                           \cup {OwnFramework[p] : p \in here}]_projectsVars
=============================================================================
