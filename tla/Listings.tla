------------------------------ MODULE Listings -----------------------------
(***************************************************************************)
(* What internal/inspector makes of the sockets that the platform reports: *)
(* the rows of a listing, the search by process, and what a report says of *)
(* one port and how exposed it is.  The listeners are a sequence in the    *)
(* order of the kernel's tables.  The owner of a socket is 0 where it is   *)
(* not known; live has the processes whose details can still be read.      *)
(***************************************************************************)
EXTENDS Lineage, FiniteSets

Normalize(protocol) == IF protocol = "tcp6" THEN "tcp"
                       ELSE IF protocol = "udp6" THEN "udp" ELSE protocol
Key(l) == <<Normalize(l.protocol), l.port>>

-----------------------------------------------------------------------------
(* Listings.                                                               *)

\* The members of a finite set in an order, which is a set of pairs: each at the
\* place that as many go before.
InOrder(set, order) ==
    [k \in 1..Cardinality(set) |->
        CHOOSE i \in set : Cardinality({j \in set : <<j, i>> \in order}) = k - 1]

\* The first listener of each protocol and port.
Firsts(listeners) == {i \in DOMAIN listeners :
                         \A j \in DOMAIN listeners : j < i => Key(listeners[j]) # Key(listeners[i])}

\* By port, and in the order of the listeners where the ports are the same.
Ahead(listeners, i, j) == \/ listeners[i].port < listeners[j].port
                          \/ listeners[i].port = listeners[j].port /\ i < j
ByPort(listeners) == {pair \in (DOMAIN listeners) \X (DOMAIN listeners) :
                         Ahead(listeners, pair[1], pair[2])}

\* buildEntries: the first listener of a protocol and port stands for all of
\* them, before it is asked whether its owner is one to keep.
BuildEntries(listeners, keep) ==
    LET order == InOrder({i \in Firsts(listeners) : keep[listeners[i].pid]}, ByPort(listeners))
    IN  [k \in DOMAIN order |-> listeners[order[k]]]

Owners(listeners) == {listeners[i].pid : i \in DOMAIN listeners}

\* List: every owner, the unknown ones too.
ListEntries(listeners) == BuildEntries(listeners, [p \in Owners(listeners) |-> TRUE])

\* A climb that begins above the process: a plausible fault of the search.
OwnedByAbove(parent, live, owner, pid) ==
    owner \in live /\ owner # pid /\ pid \in Range(Ancestors(parent, owner))

\* contains: the owner is pid, or pid is on the way up from it.
OwnedBy(parent, live, owner, pid) ==
    owner \in live /\ (owner = pid \/ pid \in Range(Ancestors(parent, owner)))

SearchByPID(parent, live, listeners, pid) ==
    BuildEntries(listeners, [p \in Owners(listeners) |-> OwnedBy(parent, live, p, pid)])

-----------------------------------------------------------------------------
(* Reports.                                                                *)

Wildcards == {"0.0.0.0", "::", "*"}
Loopbacks == {"127.0.0.1", "127.0.1.1", "::1"}
PrivateNetworks == {"10.0.0.5", "fe80::1"}   \* of the other addresses

\* choosePrimary: the first TCP listener, or else the first one.
ChoosePrimary(listeners) ==
    LET tcp == {i \in DOMAIN listeners : Normalize(listeners[i].protocol) = "tcp"}
        among == IF tcp = {} THEN DOMAIN listeners ELSE tcp
    IN  listeners[CHOOSE i \in among : \A j \in among : i <= j]

Low == 0
Warning == 1
Dangerous == 2
Worse(a, b) == IF a < b THEN b ELSE a

\* The wildcard is looked at first: a plausible fault of the order of the cases.
BoundToWildcardFirst(wildcard, interface, lan, wan) ==
    IF wildcard THEN Warning
    ELSE IF wan THEN Dangerous
    ELSE IF lan \/ interface THEN Warning
    ELSE Low

BoundTo(wildcard, interface, lan, wan) ==
    IF wildcard /\ (wan \/ interface) THEN Dangerous
    ELSE IF wan THEN Dangerous
    ELSE IF wildcard \/ lan \/ interface THEN Warning
    ELSE Low

\* assessExposure: the worst of its findings.
AssessExposure(listeners) ==
    LET bound == {listeners[i].address : i \in DOMAIN listeners}
        others == bound \ (Wildcards \union Loopbacks \union {""})
        wan == others \ PrivateNetworks # {}
        lan == others \intersect PrivateNetworks # {}
        rated == BoundTo(bound \intersect Wildcards # {}, others # {}, lan, wan)
        shared == \E p, q \in Owners(listeners) \ {0} : p # q
    IN  IF shared THEN Worse(rated, Warning) ELSE rated

Unrated == -1

\* InspectDepth: what the report says of the sockets of a port and protocol.  An
\* owner that has exited ends it before the exposure is looked at.
ReportOn(live, listeners, port, protocol) ==
    LET here == Restrict(listeners,
                         {i \in DOMAIN listeners : Key(listeners[i]) = <<protocol, port>>})
        primary == ChoosePrimary(here)
    IN  [pid |-> primary.pid, address |-> primary.address,
         exposure |-> IF primary.pid > 0 /\ primary.pid \notin live THEN Unrated
                      ELSE AssessExposure(here)]
=============================================================================
