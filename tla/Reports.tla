------------------------------ MODULE Reports ------------------------------
(***************************************************************************)
(* What a search and a report say of the sockets of a host while           *)
(* containers start and stop: the process of a container goes with it.     *)
(***************************************************************************)
EXTENDS Containers, Listings

CONSTANTS Ids,        \* numbers of processes
          PidOf,      \* those of the processes of Containers
          Snapshots,  \* what may be read of the processes: the parent of each
          Searched,   \* the listeners of a host that a process is searched on
          Bindings,   \* other listeners
          Hosts       \* what may be listening on a host: some of these

\* No chain of the snapshot is cut off: one more turn would add nobody.
Shallow(parent) == /\ DOMAIN parent \subseteq Int
                   /\ \A q \in DOMAIN parent :
                         Turn(parent, q, Ancestors(parent, q)) = Ancestors(parent, q)

Listeners == [protocol : {"tcp", "tcp6", "udp", "udp6"}, port : Nat,
              address : STRING, pid : Nat]

ASSUME ReportsConstants ==
    /\ \A parent \in Snapshots : Shallow(parent)
    /\ Searched \in Seq(Listeners) /\ Bindings \subseteq Listeners /\ Hosts \subseteq Seq(Bindings)

\* The processes that are there while some containers run.
AliveWith(running) ==
    (Ids \ {PidOf[p] : p \in Procs})
       \cup {PidOf[p] : p \in {q \in Procs : Cgroup[q] \in running \cup {None}}}
Alive == AliveWith(up)
Lives == {AliveWith(running) : running \in SUBSET Containers}

-----------------------------------------------------------------------------
(* The search for a process.                                               *)

\* pid and whatever is below it, as far as it is still there.
TreeOf(parent, live, pid) == live \cap ({pid} \cup Descendants(parent, pid))

\* The search shows the port of the i-th listener.
ShowsPort(parent, live, listeners, pid, i) ==
    LET rows == SearchByPID(parent, live, listeners, pid)
    IN  \E k \in DOMAIN rows : Key(rows[k]) = Key(listeners[i])

\* The first socket of the i-th listener's port is not of the tree.
Overshadowed(parent, live, listeners, pid, i) ==
    \E j \in Firsts(listeners) : /\ Key(listeners[j]) = Key(listeners[i])
                                 /\ listeners[j].pid \notin TreeOf(parent, live, pid)

\* No row is of a process outside the tree, none is missing but those that are
\* overshadowed, none is there twice, and the ports ascend.
FoundInTree(parent, live, listeners, pid) ==
    LET rows == SearchByPID(parent, live, listeners, pid)
        tree == TreeOf(parent, live, pid)
    IN  /\ \A k \in DOMAIN rows : /\ rows[k].pid \in tree
                                  /\ \E i \in DOMAIN listeners : rows[k] = listeners[i]
        /\ \A i \in DOMAIN listeners : listeners[i].pid \in tree =>
              \/ ShowsPort(parent, live, listeners, pid, i)
              \/ Overshadowed(parent, live, listeners, pid, i)
        /\ \A k, m \in DOMAIN rows : k < m => /\ rows[k].port <= rows[m].port
                                              /\ Key(rows[k]) # Key(rows[m])

LaunchHasTarget(parent, pid, shells) ==
    LET launched == LaunchProcess(Ancestors(parent, pid), shells)
    IN  launched # 0 => pid \in Descendants(parent, launched)

SearchedRight ==
    {live \in Lives : \A parent \in Snapshots, pid \in Ids :
        /\ FoundInTree(parent, live, Searched, pid)
        /\ \A shells \in SUBSET Ids : LaunchHasTarget(parent, pid, shells)}

\* The search for a process climbs from the owner of every port, where the tree of a
\* report is built from above; yet, of a snapshot that is no deeper than the walks go,
\* with parents missing or in a circle, it shows the ports of the process and of
\* whatever is below it, once and by port, and no other.  One exception: a port whose
\* first socket is of a process outside the tree, or of none that is known, is not
\* shown, though the tree has another socket of it (buildEntries).  And the process
\* whose command a restart starts has the target in its tree (SearchByPID, Ancestors,
\* Descendants, LaunchProcess).
SearchFindsTheTree == Alive \in SearchedRight

\* "The listening ports owned by the given PID or by any of its descendants": without
\* the exception this does NOT hold.
SearchFindsEveryPort ==
    \A parent \in Snapshots, pid \in Ids, i \in DOMAIN Searched :
        Searched[i].pid \in TreeOf(parent, Alive, pid)
            => ShowsPort(parent, Alive, Searched, pid, i)

-----------------------------------------------------------------------------
(* The report of a listed port.                                            *)

\* What the report of a row says, of these sockets.
About(live, listeners, row) == ReportOn(live, listeners, row.port, Normalize(row.protocol))

ReportIsOf(live, listeners, more, row) ==
    LET r == About(live, listeners, row)
        alike == {listeners[i] : i \in {j \in DOMAIN listeners : Key(listeners[j]) = Key(row)}}
    IN  /\ r.pid = row.pid /\ r.address = row.address
        /\ r.exposure # Unrated =>
              /\ r.exposure = Low =>
                    /\ \A l \in alike : l.address \in Loopbacks \cup {""}
                    /\ \A l, m \in alike : l.pid # m.pid => l.pid = 0 \/ m.pid = 0
              /\ About(live, Append(listeners, more), row).exposure >= r.exposure

RatedRight ==
    {live \in Lives : \A listeners \in Hosts, more \in Bindings :
        LET rows == ListEntries(listeners)
        IN  \A k \in DOMAIN rows : ReportIsOf(live, listeners, more, rows[k])}

\* The report of a listed port is about the socket and the owner that the row
\* names.  Unless that owner has gone, "low risk" is said only when every socket of
\* the port is bound to loopback and no two processes share it, and one more socket
\* never lowers the rating.  One exception: a socket without an address counts as if
\* it were bound to nothing (buildEntries, choosePrimary, assessExposure).
ExposureNeverUnderstates == Alive \in RatedRight

\* "Only low risk when it is bound to loopback": without the exception this does NOT
\* hold, although a missing address is shown as 0.0.0.0 (displayAddr).
LowIsLoopback ==
    \A listeners \in Hosts :
        LET rows == ListEntries(listeners)
        IN  \A k \in DOMAIN rows :
              About(Alive, listeners, rows[k]).exposure = Low => rows[k].address \in Loopbacks
=============================================================================
