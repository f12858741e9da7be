----------------------------- MODULE Containers -----------------------------
(***************************************************************************)
(* The container that a report or a listing names: the list of running     *)
(* containers that internal/platform/container.go keeps for a moment, its  *)
(* lookups by process and by port, and attachContainer of                  *)
(* internal/inspector/inspector.go on them.  Inspections share the list:   *)
(* the workers of a scan, the listing and the report of the dashboard.     *)
(*                                                                         *)
(* Containers start and stop, and the daemon answers late, with an error   *)
(* or not at all.  Time is kept as ages, counted up by FetchTick.          *)
(***************************************************************************)
EXTENDS Lookups

CONSTANTS Containers,
          Cgroup,       \* of each process: the container it runs in, or None
          Published,    \* the containers that publish its port, on some address
          Beside,       \* those that publish the same number under the other protocol
          ListTTL, FetchTimeout,     \* containerListTTL, dockerSocketTimeout
          MaxChurn      \* bound: starts and stops

ASSUME ContainersConstants ==
    /\ None \notin Containers
    /\ Cgroup \in [Procs -> Containers \cup {None}]
    /\ Published \in [Procs -> SUBSET Containers] /\ Beside \in [Procs -> SUBSET Containers]
    /\ ListTTL \in Nat \ {0} /\ FetchTimeout \in Nat /\ MaxChurn \in Nat

VARIABLES up,         \* containers that run
          lastUp,     \* of each container: how long ago it ran
          upFor,      \* and how long it has been running
          churn,
          list,       \* the list that is kept, and its age
          stage, subject,  \* of each caller: where it is, the process it asks about
          waited,     \* how long its request has taken
          got,        \* what the daemon answered it
          found       \* the container it found, whether a list named it, and whether
                      \* the daemon failed to list it

daemon == <<up, lastUp, upFor, churn>>
containersVars == <<daemon, list, stage, subject, waited, got, found>>

NoContainer == [id |-> None, listed |-> FALSE, failed |-> FALSE]
Unknown == [known |-> FALSE, seen |-> {}]

\* The oldest that is told apart.
OldestContainer == 1 + ListTTL + 2 * FetchTimeout

ContainersInit ==
        /\ up \in SUBSET Containers
        /\ lastUp = [x \in Containers |-> IF x \in up THEN 0 ELSE OldestContainer]
        /\ upFor = [x \in Containers |-> IF x \in up THEN OldestContainer ELSE 0]
        /\ churn = 0
        /\ list = [built |-> FALSE, seen |-> {}, age |-> ListTTL]
        /\ stage = [c \in Inspections |-> "idle"] /\ subject = [c \in Inspections |-> None]
        /\ waited = [c \in Inspections |-> 0] /\ got = [c \in Inspections |-> Unknown]
        /\ found = [c \in Inspections |-> NoContainer]

-----------------------------------------------------------------------------
(* The daemon's containers, and time.                                      *)

\* Several containers may publish a port, for tcp and udp and on other addresses.
Start(x) ==
    /\ churn < MaxChurn
    /\ x \notin up
    /\ churn' = churn + 1
    /\ up' = up \cup {x}
    /\ lastUp' = [lastUp EXCEPT ![x] = 0]
    /\ UNCHANGED <<upFor, list, stage, subject, waited, got, found>>

Stop(x) ==
    /\ churn < MaxChurn
    /\ x \in up
    /\ churn' = churn + 1
    /\ up' = up \ {x}
    /\ upFor' = [upFor EXCEPT ![x] = 0]
    /\ UNCHANGED <<lastUp, list, stage, subject, waited, got, found>>

Fetching == {c \in Inspections : stage[c] \in {"fetchByPID", "fetchByPort", "fetchByPorts"}}

\* Time passes while callers wait, and a request does not outlive its timeout.
FetchTick ==
    /\ \A c \in Inspections : stage[c] = "idle" \/ (c \in Fetching /\ waited[c] < FetchTimeout)
    /\ waited' = [c \in Inspections |-> IF c \in Fetching THEN waited[c] + 1 ELSE 0]
    /\ lastUp' = [x \in Containers |-> IF x \in up THEN 0 ELSE Later(lastUp[x], OldestContainer)]
    /\ upFor' = [x \in Containers |-> IF x \in up THEN Later(upFor[x], OldestContainer) ELSE 0]
    /\ list' = [list EXCEPT !.age = Later(@, ListTTL)]
    /\ UNCHANGED <<up, churn, stage, subject, got, found>>

-----------------------------------------------------------------------------
(* Plausible faults of the code, used to show that the properties notice.  *)

\* A request that failed leaves the old list in use for another while.
FailureKept(c) == list' = [list EXCEPT !.age = IF list.built THEN 0 ELSE @]

\* The port is asked for, too, when the container is named already.
ByPIDGoesOn(c, seen, failed) ==
    LET x == Cgroup[subject[c]]
    IN  /\ found' = [found EXCEPT ![c] = [id |-> x, listed |-> x \in seen, failed |-> failed]]
        /\ stage' = [stage EXCEPT ![c] = "byPort"] /\ UNCHANGED subject

-----------------------------------------------------------------------------
(* list, FindByPID, FindByPorts, attachContainer and attachContainers.     *)

\* A process was found; in a container it runs as long as the container does.
Begin(c, p) ==
    /\ stage[c] = "idle"
    /\ Cgroup[p] \in up \cup {None}
    /\ subject' = [subject EXCEPT ![c] = p]
    /\ stage' = [stage EXCEPT ![c] = "byPID"]
    /\ found' = [found EXCEPT ![c] = NoContainer]
    /\ UNCHANGED <<daemon, list, waited, got>>

\* The owner is unknown: the container is looked up by the port alone.
BeginByPort(c, p) ==
    /\ stage[c] = "idle"
    /\ subject' = [subject EXCEPT ![c] = p]
    /\ stage' = [stage EXCEPT ![c] = "byPort"]
    /\ found' = [found EXCEPT ![c] = NoContainer]
    /\ UNCHANGED <<daemon, list, waited, got>>

\* A listing asks for the numbers of its ports, with no protocol, and does not
\* look at the owners.
BeginListing(c, p) ==
    /\ stage[c] = "idle"
    /\ subject' = [subject EXCEPT ![c] = p]
    /\ stage' = [stage EXCEPT ![c] = "byPorts"]
    /\ found' = [found EXCEPT ![c] = NoContainer]
    /\ UNCHANGED <<daemon, list, waited, got>>

Fresh == list.built /\ list.age < ListTTL

\* The report is complete.
Report(c) == /\ stage' = [stage EXCEPT ![c] = "idle"]
             /\ subject' = [subject EXCEPT ![c] = None]

Fetch(c, then) == /\ UNCHANGED subject
                  /\ stage' = [stage EXCEPT ![c] = then]
                  /\ waited' = [waited EXCEPT ![c] = 0]
                  /\ got' = [got EXCEPT ![c] = Unknown]

\* FindByPID with a list: the container is named, or only its number is known
\* and the port is asked for.
ByPIDIn(c, seen, failed) ==
    LET x == Cgroup[subject[c]]
    IN  /\ found' = [found EXCEPT ![c] = [id |-> x, listed |-> x \in seen, failed |-> failed]]
        /\ IF x \in seen THEN Report(c)
                         ELSE stage' = [stage EXCEPT ![c] = "byPort"] /\ UNCHANGED subject

Listing(c) == stage[c] \in {"byPorts", "fetchByPorts"}

\* Whom FindByPorts takes for the publisher of the port: a protocol is compared
\* if one was given.
Publishers(c) == IF Listing(c) THEN Published[subject[c]] \cup Beside[subject[c]]
                               ELSE Published[subject[c]]

\* FindByPorts with a list: of several containers the last one listed.
ByPortIn(c, seen) ==
    LET fits == seen \cap Publishers(c)
    IN  /\ IF fits = {} THEN UNCHANGED found
           ELSE \E x \in fits :
                  found' = [found EXCEPT ![c] = [id |-> x, listed |-> TRUE, failed |-> FALSE]]
        /\ Report(c)

\* The cgroup is read now; no cgroup, and no process, is no container.
FindByPID(c) ==
    /\ stage[c] = "byPID"
    /\ IF Cgroup[subject[c]] \notin up
          THEN stage' = [stage EXCEPT ![c] = "byPort"] /\ UNCHANGED <<subject, waited, got, found>>
          ELSE IF Fresh
          THEN ByPIDIn(c, list.seen, FALSE) /\ UNCHANGED <<waited, got>>
          ELSE Fetch(c, "fetchByPID") /\ UNCHANGED found
    /\ UNCHANGED <<daemon, list>>

FindByPort(c) ==
    /\ stage[c] \in {"byPort", "byPorts"}
    /\ IF Fresh
          THEN ByPortIn(c, list.seen) /\ UNCHANGED <<waited, got>>
          ELSE Fetch(c, IF Listing(c) THEN "fetchByPorts" ELSE "fetchByPort") /\ UNCHANGED found
    /\ UNCHANGED <<daemon, list>>

\* The daemon answers with what runs, and the answer is on its way.
Answer(c) ==
    /\ c \in Fetching /\ ~got[c].known
    /\ got' = [got EXCEPT ![c] = [known |-> TRUE, seen |-> up]]
    /\ UNCHANGED <<daemon, list, stage, subject, waited, found>>

\* The answer arrives, is kept as the list of this moment, and used.
Arrive(c) ==
    /\ c \in Fetching /\ got[c].known
    /\ list' = [built |-> TRUE, seen |-> got[c].seen, age |-> 0]
    /\ IF stage[c] = "fetchByPID" THEN ByPIDIn(c, got[c].seen, FALSE) ELSE ByPortIn(c, got[c].seen)
    /\ got' = [got EXCEPT ![c] = Unknown]
    /\ waited' = [waited EXCEPT ![c] = 0]
    /\ UNCHANGED daemon

\* Failures are never cached.
KeptAtFailure(c) == UNCHANGED list

\* The daemon is gone, answers with an error, or too late: nothing is kept,
\* and FindByPID still knows the number.
FetchFails(c) ==
    /\ c \in Fetching
    /\ KeptAtFailure(c)
    /\ IF stage[c] = "fetchByPID" THEN ByPIDIn(c, {}, TRUE) ELSE ByPortIn(c, {})
    /\ got' = [got EXCEPT ![c] = Unknown]
    /\ waited' = [waited EXCEPT ![c] = 0]
    /\ UNCHANGED daemon

-----------------------------------------------------------------------------
AttachContainer(c) == FindByPID(c) \/ FindByPort(c) \/ Answer(c) \/ Arrive(c) \/ FetchFails(c)

ContainersNext == \/ \E x \in Containers : Start(x) \/ Stop(x)
                  \/ FetchTick
                  \/ \E c \in Inspections : AttachContainer(c)
                        \/ \E p \in Procs : Begin(c, p) \/ BeginByPort(c, p) \/ BeginListing(c, p)

ContainersSpec == ContainersInit /\ [][ContainersNext]_containersVars

-----------------------------------------------------------------------------
Stages == {"idle", "byPID", "fetchByPID", "byPort", "fetchByPort", "byPorts", "fetchByPorts"}
Naming == [id : Containers \cup {None}, listed : BOOLEAN, failed : BOOLEAN]

ContainersTypeOK ==
    /\ up \subseteq Containers
    /\ lastUp \in [Containers -> 0..OldestContainer] /\ upFor \in [Containers -> 0..OldestContainer]
    /\ churn \in 0..MaxChurn
    /\ list \in [built : BOOLEAN, seen : SUBSET Containers, age : 0..ListTTL]
    /\ stage \in [Inspections -> Stages]
    /\ subject \in [Inspections -> Procs \cup {None}] /\ waited \in [Inspections -> 0..FetchTimeout]
    /\ got \in [Inspections -> [known : BOOLEAN, seen : SUBSET Containers]]
    /\ found \in [Inspections -> Naming]

\* A lookup ends and names a container.
Names(c) == stage[c] # "idle" /\ stage'[c] = "idle" /\ found'[c].id # None

\* A container that a report or a listing names was running a moment ago: the
\* list it came from was asked for no longer ago than containerListTTL and one
\* timeout, whatever other callers fetched meanwhile and in whatever order their
\* answers came; and a number known from the cgroup alone is no older than two
\* timeouts.  For a report it publishes the port in its protocol, or is the one
\* that the process runs in; for a listing it publishes the number in any
\* protocol (list, FindByPID, FindByPorts, attachContainer, attachContainers).
ContainerWasUp ==
    [][\A c \in Inspections : Names(c) =>
          LET x == found'[c].id
          IN  /\ x \in Publishers(c) \cup (IF Listing(c) THEN {} ELSE {Cgroup[subject[c]]})
              /\ IF found'[c].listed THEN lastUp[x] < ListTTL + FetchTimeout
                                     ELSE lastUp[x] <= 2 * FetchTimeout]_containersVars

\* "It prefers a cgroup-based PID lookup": a report names another container than
\* the one its process runs in only if the daemon failed to list that one when it
\* was asked, or if that one was not there all the time a list may be old and the
\* daemon be late (FindByPID, attachContainer).
OwnContainerFirst ==
    [][\A c \in Inspections :
          Names(c) /\ ~Listing(c) /\ found[c].id # None /\ found'[c].id # found[c].id =>
             found[c].failed \/ upFor[found[c].id] < ListTTL + 2 * FetchTimeout]_containersVars

\* "Detection failures degrade to nil, never to a wrong answer": this does NOT
\* hold.  When the daemon fails, or its list is older than the container, the
\* container that publishes the port is named, also for a process of another.
NeverAWrongAnswer ==
    [][\A c \in Inspections : Names(c) /\ ~Listing(c) /\ found[c].id # None =>
          found'[c].id = found[c].id]_containersVars

\* A listing names a container that publishes the port of the row: this does NOT
\* hold.  The protocol is not compared, and of a tcp and a udp publisher of one
\* number the row of either names the one that is listed last.
RowNamesItsPublisher ==
    [][\A c \in Inspections : Names(c) /\ Listing(c) =>
          found'[c].id \in Published[subject[c]]]_containersVars
=============================================================================
