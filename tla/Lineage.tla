------------------------------ MODULE Lineage ------------------------------
(***************************************************************************)
(* The walks over a snapshot of the processes: the chain above a process   *)
(* and the tree below it (internal/platform/proctable.go), and the process *)
(* that a shell launched (internal/inspector/launch.go).                   *)
(*                                                                         *)
(* A snapshot gives the parent of every process that is in it.  It is read *)
(* while processes start, end and hand their numbers on, so that a parent  *)
(* may be missing and the parents may even go round in a circle.           *)
(***************************************************************************)
EXTENDS Integers, Sequences, Functions

CONSTANT MaxTreeDepth   \* proctable.go: maxTreeDepth

ASSUME TreeDepthIsFinite == MaxTreeDepth \in Nat

\* A turn of the loop of Ancestors: whoever comes next is put before the others,
\* unless the way up ends here.
Turn(parent, pid, chain) ==
    LET cur == IF chain = <<>> THEN pid ELSE parent[Head(chain)]
    IN  IF \/ chain # <<>> /\ (cur <= 0 \/ cur = Head(chain))
           \/ cur \in Range(chain) \/ cur \notin DOMAIN parent
           THEN chain ELSE <<cur>> \o chain

\* The processes from pid up, oldest first.
Ancestors(parent, pid) ==
    LET chain[n \in Nat] == IF n = 0 THEN <<>> ELSE Turn(parent, pid, chain[n - 1])
    IN  chain[MaxTreeDepth]

\* tbl.kids: the process 0 has none.
Children(parent, pid) == {k \in DOMAIN parent : pid > 0 /\ parent[k] = pid}

\* One more level of a tree; nothing hangs a second time below a process that was
\* seen in an upper level.
Deeper(parent, tree) ==
    [seen |-> tree.seen \cup tree.level,
     level |-> UNION {Children(parent, p) : p \in tree.level \ tree.seen}]

\* The whole tree of pid, or nothing when there is no such process.
Descendants(parent, pid) ==
    LET tree[n \in Nat] == IF n = 0 THEN [seen |-> {}, level |-> {pid}]
                                    ELSE Deeper(parent, tree[n - 1])
        all == tree[MaxTreeDepth]
    IN  IF pid \in DOMAIN parent THEN all.seen \cup all.level ELSE {}

\* The process below the nearest shell on the way up from the target; the shell
\* itself when it is the target; 0 when no shell is on the way.
LaunchProcess(ancestors, shells) ==
    LET at == {i \in DOMAIN ancestors : ancestors[i] \in shells}
        nearest == CHOOSE i \in at : \A j \in at : j <= i
    IN  IF at = {} THEN 0
        ELSE IF nearest < Len(ancestors) THEN ancestors[nearest + 1]
        ELSE ancestors[nearest]
=============================================================================
