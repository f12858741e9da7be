------------------------------ MODULE Actions ------------------------------
(***************************************************************************)
(* Killing and restarting what owns a port: Manager of                     *)
(* internal/actions/actions.go and restart.go, with the process tree       *)
(* snapshot of internal/platform/proctable.go and the signals and probes   *)
(* of process.go, run against a host whose processes fork, exit, are       *)
(* reaped and give their numbers to others while the action is under way.  *)
(*                                                                         *)
(* A pass through the code is: find the container or the process, ask,     *)
(* signal the tree from its leaves, wait; a restart then waits for the     *)
(* port and starts a command: that of the process a shell launched, which  *)
(* may be the owner of the port or one of the processes above it.  What    *)
(* the container runtime does is one step that succeeds or fails; messages *)
(* are left out.  The snapshot is taken in one step, so it is a forest.    *)
(***************************************************************************)
EXTENDS Integers, FiniteSets, SequencesExt

CONSTANTS Pids,          \* process numbers of the host
          Self,          \* PortLens
          Owners,        \* who the report may name as the owner of the port, or None
          Foreign,       \* processes of other users
          Trees,         \* parents of the processes at the start, 0 if not running
          Ops,           \* what is asked for: "kill", "force", "restart"
          Consents,      \* the answer a prompt gets: "yes", "no", "error"; or "bypass"
                         \* of --yes; force asks for none
          MaxTreeDepth,  \* depth to which a tree is followed (64)
          MaxForks,      \* bound: processes started by the host
          MaxExits       \* bound: processes that exit

None == 0
Launchd == 1             \* PID 1

ASSUME ActionsConstants ==
    /\ Pids \subseteq Nat \ {None} /\ IsFiniteSet(Pids)
    /\ Launchd \in Pids /\ Self \in Pids /\ Self # Launchd
    /\ Owners \subseteq Pids \cup {None}
    /\ Foreign \subseteq Pids
    /\ Trees \subseteq [Pids -> Pids \cup {None}]
    /\ Ops \subseteq {"kill", "force", "restart"}
    /\ Consents \subseteq {"yes", "no", "error", "bypass"}
    /\ MaxTreeDepth \in Nat /\ MaxForks \in Nat /\ MaxExits \in Nat

\* The processes of a host: PID 1, and below it processes whose parents run.
ProcessTree(parents) ==
    /\ parents[Launchd] = Launchd
    /\ \A p \in Pids : parents[p] # None => parents[parents[p]] # None
    /\ \E depth \in [Pids -> 0..Cardinality(Pids)] :
         \A p \in Pids : parents[p] \notin {None, p} => depth[parents[p]] < depth[p]

ASSUME TreesOfProcesses == \A tree \in Trees : ProcessTree(tree)

VARIABLES state,      \* of every process number: "none", "running", "zombie"
          ppid,       \* its parent
          gen,        \* how many processes had this number before
          forks, exits,
          op,         \* the action
          owner,      \* report.Process.PID
          consent,    \* what the user answers, or has said in advance
          container,  \* the port's container: "none", "attached", "unattached"
          launch,     \* LaunchProcess of the report, None if there is none
          pc,
          table,      \* the snapshot of the process table: parents
          fresh,      \* is it younger than procTableTTL
          todo,       \* the processes still to be signalled
          tried,      \* those that were, in order
          signaled,   \* the processes a signal reached, with their generation
          firstErr,   \* of TerminateTree
          stopped,    \* the container was stopped or restarted
          argv,       \* whose command is started: of the "launcher", or of "another"
          asked,      \* the user has agreed
          launched,   \* a command was started
          res         \* what the action returns

world == <<state, ppid, gen, forks, exits>>
request == <<op, owner, consent, container, launch>>
effects == <<tried, signaled, stopped, launched, argv>>
vars == <<world, request, pc, table, fresh, todo, firstErr, effects, asked, res>>

\* The owner and the processes above it: what every set has that has the owner
\* and, with a process, its parent.
Above(parents, p) == {q \in Pids : \A S \in SUBSET Pids :
                                      /\ p \in S
                                      /\ \A c \in S : parents[c] \in S
                                      => q \in S}

\* LaunchProcess: the owner, or a process above it that has a shell above.
Launchers(parents, p) == IF p = None THEN {} ELSE {p} \cup (Above(parents, p) \ {Launchd})

Init == \E tree \in Trees :
          /\ ppid = tree
          /\ state = [p \in Pids |-> IF tree[p] = None THEN "none" ELSE "running"]
          /\ gen = [p \in Pids |-> 0]
          /\ forks = 0 /\ exits = 0
          /\ op \in Ops
          /\ owner \in {o \in Owners : o # None => tree[o] # None}
          /\ consent \in IF op = "force" THEN {"bypass"} ELSE Consents
          /\ container \in {"none", "attached", "unattached"}
          /\ launch \in {None} \cup Launchers(tree, owner)
          /\ pc = "lookup"
          /\ table = [p \in Pids |-> None] /\ fresh = FALSE
          /\ todo = <<>> /\ firstErr = "none"
          /\ tried = <<>> /\ signaled = {} /\ stopped = FALSE /\ launched = FALSE
          /\ argv = "none" /\ asked = FALSE
          /\ res = "pending"

-----------------------------------------------------------------------------
(* The host.                                                               *)

\* A process exits: its children pass to PID 1.
Exit(p) ==
    /\ exits < MaxExits
    /\ p \notin {Launchd, Self}
    /\ state[p] = "running"
    /\ exits' = exits + 1
    /\ state' = [state EXCEPT ![p] = "zombie"]
    /\ ppid' = [q \in Pids |-> IF ppid[q] = p THEN Launchd ELSE ppid[q]]
    /\ UNCHANGED <<gen, forks, request, pc, table, fresh, todo, firstErr, effects, asked,
                   res>>

\* Its parent reaps it, and its number is free again.
Reap(p) ==
    /\ state[p] = "zombie"
    /\ state' = [state EXCEPT ![p] = "none"]
    /\ ppid' = [ppid EXCEPT ![p] = None]
    /\ UNCHANGED <<gen, forks, exits, request, pc, table, fresh, todo, firstErr, effects,
                   asked, res>>

\* A running process starts another.
Fork(p, q) ==
    /\ forks < MaxForks
    /\ state[p] = "running" /\ state[q] = "none"
    /\ forks' = forks + 1
    /\ state' = [state EXCEPT ![q] = "running"]
    /\ ppid' = [ppid EXCEPT ![q] = p]
    /\ gen' = [gen EXCEPT ![q] = gen[q] + 1]
    /\ UNCHANGED <<exits, request, pc, table, fresh, todo, firstErr, effects, asked, res>>

\* procTableTTL has passed since the snapshot was taken.
Expire == /\ fresh
          /\ fresh' = FALSE
          /\ UNCHANGED <<world, request, pc, table, todo, firstErr, effects, asked, res>>

-----------------------------------------------------------------------------
(* Trees, signals and probes.                                              *)

Protected(p) == p <= Launchd \/ p = Self

Kids(parents, p) == {q \in Pids : parents[q] = p /\ q # p}

\* The children of a process are kept in the order of their numbers.
InOrder(S) == CHOOSE s \in [1..Cardinality(S) -> S] :
                \A i, j \in 1..Cardinality(S) : i < j => s[i] < s[j]

\* A traversal that lists a process before its children.
ParentsFirst(parents, root) ==
    LET walk[d \in 0..MaxTreeDepth] ==
          [p \in Pids |->
             <<p>> \o (IF d = 0 THEN <<>>
                       ELSE LET kids == InOrder(Kids(parents, p))
                            IN  FlattenSeq([i \in DOMAIN kids |-> walk[d - 1][kids[i]]]))]
    IN  walk[MaxTreeDepth][root]

\* The lists of one level more, from those of the level below: every process
\* after its own descendants.
Level(parents, below) ==
    [p \in Pids |-> LET kids == InOrder(Kids(parents, p))
                    IN  FlattenSeq([i \in DOMAIN kids |-> below[kids[i]]]) \o <<p>>]

\* TreePIDs of Descendants, which follows a tree down to MaxTreeDepth.
TreePIDs(parents, root) ==
    LET walk[d \in 0..MaxTreeDepth] == IF d = 0 THEN [p \in Pids |-> <<p>>]
                                                 ELSE Level(parents, walk[d - 1])
    IN  walk[MaxTreeDepth][root]

\* Manager.treePIDs: the root alone if there is no snapshot, or it is not in it.
TreeOf(parents, root) ==
    IF parents[root] = None THEN <<root>> ELSE TreePIDs(parents, root)

\* The snapshot treePIDs works on, cached or new; a failed one is not kept.
Snapshot == \/ fresh /\ UNCHANGED <<table, fresh>>
            \/ ~fresh /\ table' = ppid /\ fresh' = TRUE
            \/ ~fresh /\ table' = [p \in Pids |-> None] /\ fresh' = FALSE

\* kill(2), as Signal reports it.
SignalError(p) == IF state[p] = "none" THEN "notFound"
                  ELSE IF p \in Foreign THEN "denied"
                  ELSE "none"

\* isProcessAlive of process_linux.go: kill(pid, 0) is refused for a process
\* of another user, and a zombie is not alive.
IsAlive(p) == state[p] = "running" /\ p \notin Foreign

-----------------------------------------------------------------------------
(* Plausible faults of the code, used to show that the properties notice.  *)

\* Only the root of the tree is checked, not its descendants.
SignalRootCheckedOnly ==
    /\ pc = "signal" /\ todo # <<>>
    /\ LET p == Head(todo)
           err == SignalError(p)
       IN  /\ signaled' = IF err = "none" THEN signaled \cup {[pid |-> p, gen |-> gen[p]]}
                                          ELSE signaled
           /\ firstErr' = IF firstErr = "none" THEN err ELSE firstErr
           /\ tried' = Append(tried, p)
    /\ todo' = Tail(todo)
    /\ UNCHANGED <<world, request, pc, table, fresh, stopped, launched, argv, asked, res>>

\* The loop gives up at the first process it cannot signal.
SignalStopsAtError ==
    /\ pc = "signal" /\ todo # <<>>
    /\ LET p == Head(todo)
           err == SignalError(p)
       IN  IF Protected(p)
              THEN UNCHANGED <<signaled, firstErr, tried>> /\ todo' = Tail(todo)
              ELSE /\ signaled' = IF err = "none"
                                     THEN signaled \cup {[pid |-> p, gen |-> gen[p]]}
                                     ELSE signaled
                   /\ firstErr' = IF firstErr = "none" THEN err ELSE firstErr
                   /\ tried' = Append(tried, p)
                   /\ todo' = IF err = "none" THEN Tail(todo) ELSE <<>>
    /\ UNCHANGED <<world, request, pc, table, fresh, stopped, launched, argv, asked, res>>

\* The wait has no deadline.
GiveUpNever ==
    /\ pc = "sleep"
    /\ pc' = "wait"
    /\ UNCHANGED <<world, request, table, fresh, todo, firstErr, effects, asked, res>>

\* A probe that was refused counts as the exit of the process.
PollAnyAnswer ==
    /\ pc = "wait"
    /\ firstErr = "none"
    /\ pc' = IF op = "restart" THEN "release" ELSE "returned"
    /\ res' = IF op = "restart" THEN res ELSE "ok"
    /\ UNCHANGED <<world, request, table, fresh, todo, firstErr, effects, asked>>

\* A restart goes on although the old process was not stopped.
GiveUpAndStart ==
    /\ pc = "sleep"
    /\ pc' = IF op = "restart" THEN "release" ELSE "returned"
    /\ res' = IF op = "restart" THEN res ELSE "stillRunning"
    /\ UNCHANGED <<world, request, table, fresh, todo, firstErr, effects, asked>>

\* A restart of a container asks nobody.
FoundContainerActs ==
    /\ pc = "lookup"
    /\ container # "none"
    /\ pc' = IF op = "kill" THEN "askContainer" ELSE "container"
    /\ UNCHANGED <<world, request, table, fresh, todo, firstErr, effects, asked, res>>

-----------------------------------------------------------------------------
(* Kill and Restart, up to the consent.                                    *)

Return(r) == pc' = "returned" /\ res' = r

\* lookupContainer finds one: it is attached, or the runtime names it now.
FoundContainer ==
    /\ pc = "lookup"
    /\ container # "none"
    /\ pc' = IF op = "force" THEN "container" ELSE "askContainer"
    /\ UNCHANGED <<world, request, table, fresh, todo, firstErr, effects, asked, res>>

\* lookupContainer finds none, or cannot ask the runtime.  Kill counts the
\* tree for its message.
FoundProcess ==
    /\ pc = "lookup" /\ op # "restart"
    /\ container # "attached"
    /\ IF owner = None THEN Return("noProcess") /\ UNCHANGED <<table, fresh>>
       ELSE /\ Snapshot
            /\ pc' = IF op = "force" THEN "terminate" ELSE "ask"
            /\ UNCHANGED res
    /\ UNCHANGED <<world, request, todo, firstErr, effects, asked>>

\* Restart needs the command of the launcher: the report has that of the
\* owner, while that of a process above is read only now, of whoever has its
\* number.
FoundLaunch ==
    /\ pc = "lookup" /\ op = "restart"
    /\ container # "attached"
    /\ \/ /\ launch # None
          /\ launch # owner => state[launch] = "running"
          /\ argv' = IF launch = owner \/ gen[launch] = 0 THEN "launcher" ELSE "another"
          /\ pc' = "ask"
          /\ UNCHANGED res
       \/ /\ launch # None => launch # owner
          /\ Return("unavailable")
          /\ UNCHANGED argv
    /\ UNCHANGED <<world, request, table, fresh, todo, firstErr, tried, signaled,
                   stopped, launched, asked>>

\* The confirmation; a manager without one goes on.
Agree ==
    /\ pc \in {"ask", "askContainer"}
    /\ consent \in {"yes", "bypass"}
    /\ asked' = TRUE
    /\ pc' = IF pc = "ask" THEN "terminate" ELSE "container"
    /\ UNCHANGED <<world, request, table, fresh, todo, firstErr, effects, res>>

Decline ==
    /\ pc \in {"ask", "askContainer"}
    /\ consent \in {"no", "error"}
    /\ Return(IF consent = "no" THEN "aborted" ELSE "promptError")
    /\ UNCHANGED <<world, request, table, fresh, todo, firstErr, effects, asked>>

\* killContainer and restartContainer: the runtime does it, or fails.
Container ==
    /\ pc = "container"
    /\ \/ stopped' = TRUE /\ Return("ok")
       \/ stopped' = FALSE /\ Return("containerError")
    /\ UNCHANGED <<world, request, table, fresh, todo, firstErr, tried, signaled, launched,
                   argv, asked>>

-----------------------------------------------------------------------------
(* TerminateTree.                                                          *)

Terminate ==
    /\ pc = "terminate"
    /\ IF Protected(owner)
          THEN Return("protected") /\ UNCHANGED <<table, fresh, todo>>
          ELSE /\ Snapshot
               /\ todo' = TreeOf(table', owner)
               /\ pc' = "signal"
               /\ UNCHANGED res
    /\ UNCHANGED <<world, request, firstErr, effects, asked>>

\* One turn of the loop.  PID 1 and PortLens are passed over, and an error
\* does not keep the others from being signalled.
SignalNext ==
    /\ pc = "signal" /\ todo # <<>>
    /\ LET p == Head(todo)
           err == SignalError(p)
       IN  IF Protected(p)
              THEN UNCHANGED <<signaled, firstErr, tried>>
              ELSE /\ signaled' = IF err = "none"
                                     THEN signaled \cup {[pid |-> p, gen |-> gen[p]]}
                                     ELSE signaled
                   /\ firstErr' = IF firstErr = "none" THEN err ELSE firstErr
                   /\ tried' = Append(tried, p)
    /\ todo' = Tail(todo)
    /\ UNCHANGED <<world, request, pc, table, fresh, stopped, launched, argv, asked, res>>

Signaled ==
    /\ pc = "signal" /\ todo = <<>>
    /\ pc' = IF op = "force" THEN "probe" ELSE "wait"
    /\ UNCHANGED <<world, request, table, fresh, todo, firstErr, effects, asked, res>>

\* SIGKILL: one probe, whatever the signals reported.
Probe ==
    /\ pc = "probe"
    /\ Return(IF IsAlive(owner) THEN "stillRunning" ELSE "ok")
    /\ UNCHANGED <<world, request, table, fresh, todo, firstErr, effects, asked>>

\* SIGTERM: the first error, if any, is the outcome.
SignalFailed ==
    /\ pc = "wait"
    /\ firstErr # "none"
    /\ Return(firstErr)
    /\ UNCHANGED <<world, request, table, fresh, todo, firstErr, effects, asked>>

\* Otherwise the root is probed, every 150 ms, until it is gone.
Poll ==
    /\ pc = "wait"
    /\ firstErr = "none"
    /\ IF IsAlive(owner) THEN pc' = "sleep" /\ UNCHANGED res
       ELSE IF op = "restart" THEN pc' = "release" /\ UNCHANGED res
       ELSE Return("ok")
    /\ UNCHANGED <<world, request, table, fresh, todo, firstErr, effects, asked>>

PollAgain ==
    /\ pc = "sleep"
    /\ pc' = "wait"
    /\ UNCHANGED <<world, request, table, fresh, todo, firstErr, effects, asked, res>>

\* The deadline has passed; the root is not probed once more.
GiveUp ==
    /\ pc = "sleep"
    /\ Return("stillRunning")
    /\ UNCHANGED <<world, request, table, fresh, todo, firstErr, effects, asked>>

-----------------------------------------------------------------------------
(* The second half of Restart.                                             *)

\* waitForPortRelease ends when nobody listens, when the resolver fails, and
\* after two seconds: in every case the code goes on, so that the port may
\* still be held by another process.
Release ==
    /\ pc = "release"
    /\ pc' = "start"
    /\ UNCHANGED <<world, request, table, fresh, todo, firstErr, effects, asked, res>>

\* The command of the launcher is started, or cannot be.
Start ==
    /\ pc = "start"
    /\ \/ launched' = TRUE /\ Return("ok")
       \/ UNCHANGED launched /\ Return("startError")
    /\ UNCHANGED <<world, request, table, fresh, todo, firstErr, tried, signaled, stopped,
                   argv, asked>>

-----------------------------------------------------------------------------
Work == \/ FoundContainer \/ FoundProcess \/ FoundLaunch \/ Container
        \/ Terminate \/ SignalNext \/ Signaled \/ Probe \/ SignalFailed
        \/ Poll \/ PollAgain \/ GiveUp \/ Release \/ Start

Answer == Agree \/ Decline

Host == \/ \E p \in Pids : Exit(p) \/ Reap(p)
        \/ \E p, q \in Pids : Fork(p, q)
        \/ Expire

Next == Work \/ Answer \/ Host

Spec == Init /\ [][Next]_vars

\* The user has been asked and has not agreed in advance.
Prompting == pc \in {"ask", "askContainer"} /\ consent # "bypass"

\* PortLens runs, and the three seconds of the wait pass however often it
\* probes.  The host does what it likes, and nobody has to answer a prompt.
FairSpec == /\ Spec
            /\ WF_vars(Work) /\ WF_vars(~Prompting /\ Agree)
            /\ SF_vars(GiveUp)

-----------------------------------------------------------------------------
TypeOK == /\ state \in [Pids -> {"none", "running", "zombie"}]
          /\ ppid \in [Pids -> Pids \cup {None}]
          /\ gen \in [Pids -> Nat]
          /\ forks \in Nat /\ exits \in Nat
          /\ op \in Ops /\ owner \in Owners /\ consent \in Consents \cup {"bypass"}
          /\ container \in {"none", "attached", "unattached"} /\ launch \in Pids \cup {None}
          /\ pc \in {"lookup", "ask", "askContainer", "container", "terminate", "signal",
                     "probe", "wait", "sleep", "release", "start", "returned"}
          /\ table \in [Pids -> Pids \cup {None}] /\ fresh \in BOOLEAN
          /\ todo \in Seq(Pids) /\ tried \in Seq(Pids)
          /\ signaled \subseteq [pid : Pids, gen : Nat]
          /\ firstErr \in {"none", "notFound", "denied"}
          /\ stopped \in BOOLEAN /\ asked \in BOOLEAN /\ launched \in BOOLEAN
          /\ argv \in {"none", "launcher", "another"}
          /\ res \in {"pending", "ok", "unavailable", "noProcess", "aborted", "promptError",
                      "containerError", "protected", "stillRunning", "notFound", "denied",
                      "startError"}

\* PID 1 and PortLens itself are never signalled, although PortLens may run
\* below the process it is asked to kill, and PID 1 may own the port.
ProtectedNeverSignaled == \A s \in signaled : ~Protected(s.pid)

\* Nothing is signalled, stopped or started before the user agreed, in this
\* run or in advance, unless force was asked for.
AskedFirst == signaled # {} \/ stopped \/ launched => asked \/ op = "force"

\* A process the report named has exited.
Gone(p) == state[p] # "running" \/ gen[p] > 0

\* "Exited gracefully", "terminated", "Restarted": a success that is reported
\* for a process means that it is gone, though its number may be in use again;
\* but for a forced kill of another user's process, whose refusal is dropped
\* and whose probe is refused, too.
SuccessMeansGone ==
    res = "ok" /\ ~stopped => Gone(owner) \/ (op = "force" /\ owner \in Foreign)

\* A restart starts no command while the owner of the port lives, so that a
\* command of its own is never started beside it.
OwnerGoneFirst == launched => Gone(owner)

\* A restart never starts a command beside the process that ran it before:
\* this does NOT hold.  Only the owner's tree is stopped, and a launcher above
\* it lives on beside its second copy.
NoTwin == launched => Gone(launch)

\* "It only runs when the target can be confidently identified": this does NOT
\* hold.  The launcher may have exited since the report, and the command is
\* that of the process that has its number now.
CommandIsTheLaunchers == launched => argv = "launcher"

\* The tree of the snapshot below the owner: what every set has that has the
\* owner and, with a process, its children.
Members == {p \in Pids : \A S \in SUBSET Pids :
                            /\ owner \in S
                            /\ \A q \in Pids : table[q] \in S => q \in S
                            => p \in S}

\* "Sends SIGTERM to the whole tree": when the loop is over every member of
\* the tree was tried, once, and nobody else, whatever some signals returned.
WholeTreeTried ==
    pc \in {"probe", "wait"} =>
        /\ Range(tried) = {p \in Members : ~Protected(p)}
        /\ Len(tried) = Cardinality(Range(tried))

\* "Deepest first": no process is tried before a child it had.
LeavesFirst == \A i, j \in DOMAIN tried : i < j => table[tried[j]] # tried[i]

\* However stubborn the process, the action comes to its question, or back;
\* and once it was answered, back.
ActionReturns == /\ pc = "lookup" ~> Prompting \/ pc = "returned"
                 /\ asked ~> pc = "returned"

\* "If the process is owned by another user, it reports permission denied":
\* this does NOT hold.  A forced kill does not look at what the signals
\* returned.
ForeignIsDenied ==
    pc = "returned" /\ owner \in Foreign /\ firstErr = "denied" => res = "denied"
=============================================================================
