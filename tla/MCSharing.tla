----------------------------- MODULE MCSharing ------------------------------
(***************************************************************************)
(* What two inspections that run at once share: the projects remembered    *)
(* and the list of containers.  A proxy runs in a home directory, and a    *)
(* server in a directory below it.  The port of the proxy is published by  *)
(* both containers, on two addresses.  The server runs in the first        *)
(* container, which shares the network of the host; its port is published  *)
(* by the second one, while the first publishes the same number under the  *)
(* other protocol.                                                         *)
(***************************************************************************)
EXTENDS Reports, Projects, TLC

CONSTANTS blue, green

MCParent == "app" :> "home" @@ "home" :> None
MCCwd == "proxy" :> "home" @@ "server" :> "app"
MCOwnRuntime == "proxy" :> "" @@ "server" :> "python"
MCOwnFramework == "proxy" :> "next.js" @@ "server" :> ""

MCCgroup == "proxy" :> None @@ "server" :> blue
MCPublished == "proxy" :> {blue, green} @@ "server" :> {green}
MCBeside == "proxy" :> {} @@ "server" :> {blue}
Alike == Permutations(Inspections) \cup Permutations(Objs)

\* The proxy and the server, and two more.
MCPidOf == "proxy" :> 1 @@ "server" :> 2

\* Every snapshot of some of four processes: a parent may be missing, the parent
\* of itself, or below.
MCSnapshots == UNION {[ids -> 0..5] : ids \in SUBSET Ids}

Socket(protocol, port, address, pid) ==
    [protocol |-> protocol, port |-> port, address |-> address, pid |-> pid]

\* A port with two protocols, one with two owners, and one whose owner is unknown.
MCSearched ==
    << Socket("tcp", 443, "*", 4), Socket("tcp", 80, "*", 3), Socket("udp", 80, "*", 1),
       Socket("tcp6", 443, "*", 1), Socket("tcp", 22, "*", 0), Socket("tcp", 53, "*", 2) >>

MCBindings == {Socket(protocol, port, address, pid) :
                 protocol \in {"tcp", "udp6"}, port \in {80},
                 address \in {"::", "127.0.1.1", "10.0.0.5", "203.0.113.9", ""},
                 pid \in {0, 1, 2}}
MCHosts == UNION {[1..n -> Bindings] : n \in 1..2}

-----------------------------------------------------------------------------
\* The two share no variable, so that nothing either does depends on where the
\* other is: it is enough to let one run while the other is in some first state.
NothingRuns == ContainersInit /\ up = {}
NoFiles == ProjectsInit /\ \A d \in Dirs : files[d] = {}

SharingInit == ContainersInit /\ ProjectsInit /\ (NothingRuns \/ NoFiles)
SharingNext == \/ NoFiles /\ ContainersNext /\ UNCHANGED projectsVars
               \/ NothingRuns /\ ProjectsNext /\ UNCHANGED containersVars
SharingSpec == SharingInit /\ [][SharingNext]_<<containersVars, projectsVars>>
=============================================================================
