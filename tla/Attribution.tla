---------------------------- MODULE Attribution ----------------------------
(***************************************************************************)
(* Who listens on a port (Linux): the shared map from socket inodes to     *)
(* processes of internal/platform/linux_port.go, ResolvePort and Listeners *)
(* on it, and the outcome InspectDepth of internal/inspector/inspector.go  *)
(* draws from them.  Callers share the map: the workers of a scan, and the *)
(* listing and the report of the dashboard.                                *)
(*                                                                         *)
(* The map is built by a walk over /proc, one process after another and    *)
(* with no lock held, while processes bind, fork, close and exit.  A port  *)
(* has one listening socket at a time, an inode is never used twice, and   *)
(* neither is the number of a process.                                     *)
(***************************************************************************)
EXTENDS Integers, FiniteSets

CONSTANTS Procs,        \* processes
          Readable,     \* those whose descriptors PortLens may read
          Ports,
          Inspectors,   \* goroutines that inspect ports
          Listers,      \* goroutines that list them
          MaxSockets,   \* bound: sockets ever bound
          MaxChurn,     \* bound: forks, closes and exits
          MaxFailures   \* bound: walks and tables that cannot be read

None == 0
Inodes == 1..MaxSockets
Callers == Inspectors \cup Listers

ASSUME AttributionConstants ==
    /\ Procs \subseteq Nat \ {None} /\ IsFiniteSet(Procs)
    /\ Readable \subseteq Procs
    /\ Inspectors \cap Listers = {}
    /\ MaxSockets \in Nat /\ MaxChurn \in Nat /\ MaxFailures \in Nat

VARIABLES sock,      \* the listening socket of each port, or None
          holders,   \* of each socket: processes with a descriptor for it
          held,      \* of each socket: all that ever had one
          status,    \* of each process: "unborn", "alive", "gone"
          bound, churn, failures,
          inodes,    \* the published map, or NoMap
          fresh,     \* it was published less than a TTL ago
          pc,        \* of each caller
          port,      \* the port it inspects
          left,      \* processes its walk has still to visit
          mine,      \* the map it has or builds
          row,       \* the row it found: a socket and its owner
          answer,    \* what it reports
          steady     \* nothing that bears on its answer has changed so far

NoMap == [i \in Inodes |-> -1]          \* a nil map
EmptyMap == [i \in Inodes |-> None]
NoRow == [inode |-> None, pid |-> None]
NoAnswer == [kind |-> "none", pid |-> None]
Unlisted == [p \in Ports |-> NoRow]

host == <<sock, holders, held, status, bound, churn, failures>>
shared == <<inodes, fresh>>
local == <<pc, port, left, mine, row, answer>>
vars == <<host, shared, local, steady>>

Alive == {p \in Procs : status[p] = "alive"}

Init == /\ sock = [p \in Ports |-> None]
        /\ holders = [i \in Inodes |-> {}] /\ held = [i \in Inodes |-> {}]
        /\ status \in {s \in [Procs -> {"unborn", "alive"}] : \E p \in Procs : s[p] = "alive"}
        /\ bound = 0 /\ churn = 0 /\ failures = 0
        /\ inodes = NoMap /\ fresh = FALSE
        /\ pc = [c \in Callers |-> "idle"]
        /\ port \in [Inspectors -> Ports]
        /\ left = [c \in Callers |-> {}]
        /\ mine = [c \in Callers |-> EmptyMap]
        /\ row = [c \in Callers |-> Unlisted]
        /\ answer = [c \in Callers |-> NoAnswer]
        /\ steady = [c \in Callers |-> FALSE]

-----------------------------------------------------------------------------
(* The host.                                                               *)

\* The calls for a port in `touched` have seen it change.
Disturb(touched) ==
    steady' = [c \in Callers |-> steady[c] /\ c \in Inspectors /\ port[c] \notin touched]

Bind(p, q) ==
    /\ bound < MaxSockets
    /\ status[p] = "alive" /\ sock[q] = None
    /\ bound' = bound + 1
    /\ sock' = [sock EXCEPT ![q] = bound']
    /\ holders' = [holders EXCEPT ![bound'] = {p}]
    /\ held' = [held EXCEPT ![bound'] = {p}]
    /\ Disturb({q})
    /\ UNCHANGED <<status, churn, failures, shared, local>>

\* A child inherits the descriptors of its parent.
Fork(p, child) ==
    /\ churn < MaxChurn
    /\ status[p] = "alive" /\ status[child] = "unborn"
    /\ churn' = churn + 1
    /\ status' = [status EXCEPT ![child] = "alive"]
    /\ LET heir(s) == IF p \in holders[s] THEN {child} ELSE {}
       IN  /\ holders' = [i \in Inodes |-> holders[i] \cup heir(i)]
           /\ held' = [i \in Inodes |-> held[i] \cup heir(i)]
    /\ Disturb({q \in Ports : sock[q] # None /\ p \in holders[sock[q]]})
    /\ UNCHANGED <<sock, bound, failures, shared, local>>

\* A socket is gone when the last descriptor for it is closed.
Drop(p, gone) ==
    /\ holders' = [i \in Inodes |-> IF i \in gone THEN holders[i] \ {p} ELSE holders[i]]
    /\ sock' = [q \in Ports |-> IF sock[q] \in gone /\ holders[sock[q]] = {p}
                                   THEN None ELSE sock[q]]
    /\ Disturb({q \in Ports : sock[q] \in gone /\ p \in holders[sock[q]]})

Close(p, i) ==
    /\ churn < MaxChurn
    /\ status[p] = "alive" /\ p \in holders[i]
    /\ churn' = churn + 1
    /\ Drop(p, {i})
    /\ UNCHANGED <<held, status, bound, failures, shared, local>>

Exit(p) ==
    /\ churn < MaxChurn
    /\ status[p] = "alive"
    /\ churn' = churn + 1
    /\ status' = [status EXCEPT ![p] = "gone"]
    /\ Drop(p, Inodes)
    /\ UNCHANGED <<held, bound, failures, shared, local>>

\* inodeMapTTL has passed.
Expire == /\ fresh
          /\ fresh' = FALSE
          /\ UNCHANGED <<host, inodes, local, steady>>

-----------------------------------------------------------------------------
(* Plausible faults of the code, used to show that the properties notice.  *)

\* The map is only ever published once.
PublishOnce(c) ==
    /\ pc[c] = "walk" /\ left[c] = {}
    /\ IF inodes = NoMap THEN inodes' = mine[c] /\ fresh' = TRUE ELSE UNCHANGED shared
    /\ mine' = [mine EXCEPT ![c] = inodes']
    /\ pc' = [pc EXCEPT ![c] = "read"]
    /\ UNCHANGED <<host, port, left, row, answer, steady>>

\* The rebuild is published, and what is used is whatever is published then.
RefreshYields(c) ==
    /\ pc[c] = "rewalk" /\ left[c] = {}
    /\ IF fresh THEN UNCHANGED shared ELSE inodes' = mine[c] /\ fresh' = TRUE
    /\ mine' = [mine EXCEPT ![c] = inodes']
    /\ pc' = [pc EXCEPT ![c] = "reread"]
    /\ UNCHANGED <<host, port, left, row, answer, steady>>

\* A row without an owner is tried again until it has one.
RereadAgain(c) ==
    /\ pc[c] = "reread"
    /\ LET s == sock[port[c]]
           found == [inode |-> s, pid |-> IF s = None THEN None ELSE mine[c][s]]
       IN  /\ row' = [row EXCEPT ![c][port[c]] = found]
           /\ pc' = [pc EXCEPT ![c] = IF s # None /\ found.pid = None THEN "refresh"
                                                                      ELSE "conclude"]
    /\ UNCHANGED <<host, shared, port, left, mine, answer, steady>>

\* The owner is looked up by port instead of by socket.
OwnerByPort(c, q) == IF sock[q] = None THEN None
                     ELSE LET owners == {mine[c][i] : i \in Inodes} \ {None}
                          IN  IF owners = {} THEN None
                              ELSE CHOOSE p \in owners : \A r \in owners : r <= p

-----------------------------------------------------------------------------
(* sharedInodeMap.                                                         *)

\* A call begins.  Its answer is bound to be right if the port stays as it is,
\* free or held by one process that alone ever held it.
Begin(c) ==
    /\ pc[c] = "idle"
    /\ pc' = [pc EXCEPT ![c] = "get"]
    /\ answer' = [answer EXCEPT ![c] = NoAnswer]
    /\ row' = [row EXCEPT ![c] = Unlisted]
    /\ steady' = [steady EXCEPT ![c] =
                    c \in Inspectors => LET s == sock[port[c]]
                                        IN  s # None => Cardinality(held[s]) = 1]
    /\ UNCHANGED <<host, shared, port, left, mine>>

\* get: a map that is young enough, or a walk.
Get(c) ==
    /\ pc[c] = "get"
    /\ IF inodes # NoMap /\ fresh
          THEN /\ mine' = [mine EXCEPT ![c] = inodes]
               /\ pc' = [pc EXCEPT ![c] = "read"]
               /\ UNCHANGED left
          ELSE /\ mine' = [mine EXCEPT ![c] = EmptyMap]
               /\ left' = [left EXCEPT ![c] = Alive]
               /\ pc' = [pc EXCEPT ![c] = "walk"]
    /\ UNCHANGED <<host, shared, port, row, answer, steady>>

\* refresh begins: a walk in any case.
Refresh(c) ==
    /\ pc[c] = "refresh"
    /\ mine' = [mine EXCEPT ![c] = EmptyMap]
    /\ left' = [left EXCEPT ![c] = Alive]
    /\ pc' = [pc EXCEPT ![c] = "rewalk"]
    /\ UNCHANGED <<host, shared, port, row, answer, steady>>

\* socketInodeMap reads the descriptors of one process.  Of several holders
\* of a socket the last one visited stays.
Visit(c, p) ==
    /\ pc[c] \in {"walk", "rewalk"} /\ p \in left[c]
    /\ mine' = [mine EXCEPT ![c] = [i \in Inodes |->
                   IF p \in Readable /\ p \in holders[i] THEN p ELSE mine[c][i]]]
    /\ left' = [left EXCEPT ![c] = left[c] \ {p}]
    /\ UNCHANGED <<host, shared, pc, port, row, answer, steady>>

\* /proc cannot be opened: the map is empty, and no answer can be relied on.
WalkFails(c) ==
    /\ pc[c] \in {"walk", "rewalk"} /\ left[c] = Alive /\ mine[c] = EmptyMap
    /\ failures < MaxFailures
    /\ failures' = failures + 1
    /\ left' = [left EXCEPT ![c] = {}]
    /\ steady' = [steady EXCEPT ![c] = steady[c] /\ pc[c] = "walk"]
    /\ UNCHANGED <<sock, holders, held, status, bound, churn, shared, pc, port, mine, row,
                   answer>>

\* The second half of get: the first to publish wins, and the loser takes
\* what is published.
Publish(c) ==
    /\ pc[c] = "walk" /\ left[c] = {}
    /\ IF inodes = NoMap \/ ~fresh THEN inodes' = mine[c] /\ fresh' = TRUE
                                   ELSE UNCHANGED shared
    /\ mine' = [mine EXCEPT ![c] = inodes']
    /\ pc' = [pc EXCEPT ![c] = "read"]
    /\ UNCHANGED <<host, port, left, row, answer, steady>>

\* The second half of refresh: publishes in any case, and uses its own map.
Republish(c) ==
    /\ pc[c] = "rewalk" /\ left[c] = {}
    /\ inodes' = mine[c] /\ fresh' = TRUE
    /\ pc' = [pc EXCEPT ![c] = "reread"]
    /\ UNCHANGED <<host, port, left, mine, row, answer, steady>>

-----------------------------------------------------------------------------
(* ResolvePort, Listeners and InspectDepth.                                *)

\* The owner of the row of a port, None if the map has no process for it.
OwnerOf(c, q) == IF sock[q] = None THEN None ELSE mine[c][sock[q]]

Found(c, q) == [inode |-> sock[q], pid |-> OwnerOf(c, q)]

\* ResolvePort reads the tables, and rebuilds the map if a row has no owner.
Read(c) ==
    /\ c \in Inspectors /\ pc[c] = "read"
    /\ row' = [row EXCEPT ![c][port[c]] = Found(c, port[c])]
    /\ pc' = [pc EXCEPT ![c] = IF sock[port[c]] # None /\ OwnerOf(c, port[c]) = None
                                  THEN "refresh" ELSE "conclude"]
    /\ UNCHANGED <<host, shared, port, left, mine, answer, steady>>

\* With the new map the tables are read once more, and that is that.
Reread(c) ==
    /\ c \in Inspectors /\ pc[c] = "reread"
    /\ row' = [row EXCEPT ![c][port[c]] = Found(c, port[c])]
    /\ pc' = [pc EXCEPT ![c] = "conclude"]
    /\ UNCHANGED <<host, shared, port, left, mine, answer, steady>>

\* InspectDepth: not found, not attributed, exited since, or the process.
Conclude(c) ==
    /\ c \in Inspectors /\ pc[c] = "conclude"
    /\ LET r == row[c][port[c]]
           kind == IF r.inode = None THEN "notFound"
                   ELSE IF r.pid = None THEN "unattributed"
                   ELSE IF r.pid \notin Alive THEN "exited"
                   ELSE "process"
       IN  answer' = [answer EXCEPT ![c] = [kind |-> kind, pid |-> r.pid]]
    /\ pc' = [pc EXCEPT ![c] = "idle"]
    /\ UNCHANGED <<host, shared, port, left, mine, row, steady>>

\* Listeners: all rows, with the owners the map has.
List(c) ==
    /\ c \in Listers /\ pc[c] = "read"
    /\ row' = [row EXCEPT ![c] = [q \in Ports |-> Found(c, q)]]
    /\ answer' = [answer EXCEPT ![c] = [kind |-> "listed", pid |-> None]]
    /\ pc' = [pc EXCEPT ![c] = "idle"]
    /\ UNCHANGED <<host, shared, port, left, mine, steady>>

\* A table cannot be read: to ResolvePort it has no row for the port, and
\* Listeners fails.  No answer can be relied on.
TableFails(c) ==
    /\ pc[c] \in {"read", "reread"}
    /\ failures < MaxFailures
    /\ failures' = failures + 1
    /\ IF c \in Inspectors
          THEN /\ row' = [row EXCEPT ![c][port[c]] = NoRow]
               /\ pc' = [pc EXCEPT ![c] = "conclude"]
               /\ UNCHANGED answer
          ELSE /\ answer' = [answer EXCEPT ![c] = [kind |-> "failed", pid |-> None]]
               /\ pc' = [pc EXCEPT ![c] = "idle"]
               /\ UNCHANGED row
    /\ steady' = [steady EXCEPT ![c] = FALSE]
    /\ UNCHANGED <<sock, holders, held, status, bound, churn, shared, port, left, mine>>

-----------------------------------------------------------------------------
\* What is left of a call once it has begun.
Work(c) == \/ Get(c) \/ Refresh(c) \/ \E p \in Procs : Visit(c, p)
           \/ WalkFails(c) \/ Publish(c) \/ Republish(c)
           \/ Read(c) \/ Reread(c) \/ Conclude(c) \/ List(c) \/ TableFails(c)

Host == \/ \E p \in Procs : Exit(p) \/ \E q \in Ports : Bind(p, q)
        \/ \E p, q \in Procs : Fork(p, q)
        \/ \E p \in Procs, i \in Inodes : Close(p, i)

Next == Host \/ Expire \/ \E c \in Callers : Begin(c) \/ Work(c)

Spec == Init /\ [][Next]_vars

\* Time passes, a call goes on, and a listing is asked for again and again.
FairSpec == /\ Spec
            /\ WF_vars(Expire)
            /\ \A c \in Callers : WF_vars(Work(c))
            /\ \A c \in Listers : WF_vars(Begin(c))

-----------------------------------------------------------------------------
InodeMap == [Inodes -> Procs \cup {None}]
Row == [inode : Inodes \cup {None}, pid : Procs \cup {None}]

TypeOK == /\ sock \in [Ports -> Inodes \cup {None}]
          /\ holders \in [Inodes -> SUBSET Procs] /\ held \in [Inodes -> SUBSET Procs]
          /\ status \in [Procs -> {"unborn", "alive", "gone"}]
          /\ bound \in 0..MaxSockets /\ churn \in Nat /\ failures \in Nat
          /\ inodes \in InodeMap \cup {NoMap} /\ fresh \in BOOLEAN
          /\ pc \in [Callers -> {"idle", "get", "walk", "read", "refresh", "rewalk",
                                 "reread", "conclude"}]
          /\ port \in [Inspectors -> Ports]
          /\ left \in [Callers -> SUBSET Procs]
          /\ mine \in [Callers -> InodeMap]
          /\ row \in [Callers -> [Ports -> Row]]
          /\ answer \in [Callers -> [kind : {"none", "listed", "failed", "notFound",
                                             "unattributed", "exited", "process"},
                                     pid : Procs \cup {None}]]
          /\ steady \in [Callers -> BOOLEAN]

\* The answer a port deserves that is free, or has the one owner it ever had.
Deserved(q) ==
    IF sock[q] = None THEN [kind |-> "notFound", pid |-> None]
    ELSE LET p == CHOOSE r \in held[sock[q]] : TRUE
         IN  IF p \in Readable THEN [kind |-> "process", pid |-> p]
                               ELSE [kind |-> "unattributed", pid |-> None]

\* "So inspecting a server that just started still attributes its process":
\* however old the shared map is, and whoever publishes another one meanwhile,
\* a port that did not change during the inspection is reported as it is,
\* unless a walk that counted or a table could not be read: a port whose table
\* fails is "not found" to the inspection (WalkFails, TableFails).
SteadyPortAnswered ==
    \A c \in Inspectors :
        pc[c] = "idle" /\ answer[c] # NoAnswer /\ steady[c] => answer[c] = Deserved(port[c])

\* A process that is named in a report or a listing did hold that very socket,
\* be it through a map another caller built.
BlameIsTrue ==
    \A c \in Callers, q \in Ports : row[c][q].pid # None => row[c][q].pid \in held[row[c][q].inode]

\* Every inspection comes to an end, although its owner may stay unknown for
\* ever: the map is rebuilt once and no more.
InspectionReturns == \A c \in Inspectors : pc[c] = "get" ~> pc[c] = "idle"

\* The owners a listing may name for a port.
Nameable(q) == LET known == IF sock[q] = None THEN {} ELSE holders[sock[q]] \cap Readable
               IN  IF known = {} THEN {None} ELSE known

\* "A process that starts after the first scan is picked up by a later
\* refresh": once the host is quiet, listings come to name every owner that
\* can be read, whatever old walks were still to be published.
ListingsCatchUp ==
    \A c \in Listers, q \in Ports :
        <>[](answer[c].kind = "listed" => /\ row[c][q].inode = sock[q]
                                         /\ row[c][q].pid \in Nameable(q))
=============================================================================
