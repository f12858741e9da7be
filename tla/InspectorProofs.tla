-------------------------- MODULE InspectorProofs --------------------------
(***************************************************************************)
(* For any processes, ports and callers of the shared inode map, and any   *)
(* number of sockets, forks, exits and failed walks: a process that a      *)
(* report or a listing names did hold that socket, and a port that stays   *)
(* as it is, with a holder that can be read, is answered (Attribution).    *)
(***************************************************************************)
EXTENDS Attribution, FiniteSetTheorems, TLAPS

\* No inode is in use before it is bound, so no map can know it either.
Unborn == \A i \in Inodes : i > bound => holders[i] = {} /\ held[i] = {}

HoldersHeld == \A i \in Inodes : holders[i] \subseteq held[i]

\* The published map and those in the hands of callers name true holders.
MapsTrue == /\ \A i \in Inodes : inodes[i] \in Procs => inodes[i] \in held[i]
            /\ \A c \in Callers, i \in Inodes : mine[c][i] \in Procs => mine[c][i] \in held[i]

\* A row names an owner only for a socket, and one that held it.
RowsTrue == \A c \in Callers, q \in Ports :
               row[c][q].pid # None => /\ row[c][q].inode \in Inodes
                                       /\ row[c][q].pid \in held[row[c][q].inode]

IInv == TypeOK /\ Unborn /\ HoldersHeld /\ MapsTrue /\ RowsTrue

-----------------------------------------------------------------------------
\* There is no process number zero, and none that marks a missing map.
LEMMA ProcsNamed == None \notin Procs /\ -1 \notin Procs /\ None \notin Inodes
<1>1. Procs \subseteq Nat \ {None} /\ MaxSockets \in Nat
  BY AttributionConstants
<1> QED
  BY <1>1 DEF None, Inodes

LEMMA TypeInit == Init => TypeOK
<1> SUFFICES ASSUME Init PROVE TypeOK
  OBVIOUS
<1>1. MaxSockets \in Nat
  BY AttributionConstants
<1>2. EmptyMap \in InodeMap /\ Unlisted \in [Ports -> Row]
  BY DEF EmptyMap, InodeMap, Unlisted, NoRow, Row
<1>3. status \in [Procs -> {"unborn", "alive", "gone"}]
  BY DEF Init
<1>4. /\ sock \in [Ports -> Inodes \cup {None}]
      /\ holders \in [Inodes -> SUBSET Procs] /\ held \in [Inodes -> SUBSET Procs]
      /\ bound \in 0..MaxSockets /\ churn \in Nat /\ failures \in Nat
  BY <1>1 DEF Init
<1>5. /\ inodes \in InodeMap \cup {NoMap} /\ fresh \in BOOLEAN
      /\ steady \in [Callers -> BOOLEAN]
  BY DEF Init
<1>6. /\ pc \in [Callers -> {"idle", "get", "walk", "read", "refresh", "rewalk",
                             "reread", "conclude"}]
      /\ port \in [Inspectors -> Ports] /\ left \in [Callers -> SUBSET Procs]
  BY DEF Init
<1>7. mine \in [Callers -> InodeMap] /\ row \in [Callers -> [Ports -> Row]]
  BY <1>2, Zenon DEF Init
<1>8. answer \in [Callers -> [kind : {"none", "listed", "failed", "notFound", "unattributed",
                                     "exited", "process"},
                             pid : Procs \cup {None}]]
  BY DEF Init, NoAnswer
<1> QED
  BY <1>3, <1>4, <1>5, <1>6, <1>7, <1>8, Zenon DEF TypeOK

\* What the host does to the sockets a process gives up.
LEMMA DropType ==
    ASSUME TypeOK, NEW p \in Procs, NEW gone \in SUBSET Inodes, Drop(p, gone)
    PROVE  /\ holders' \in [Inodes -> SUBSET Procs]
           /\ \A i \in Inodes : holders'[i] \subseteq holders[i]
           /\ sock' \in [Ports -> Inodes \cup {None}]
           /\ steady' \in [Callers -> BOOLEAN]
<1>1. steady' \in [Callers -> BOOLEAN]
  BY Zenon DEF Drop, Disturb
<1> QED
  BY <1>1 DEF Drop, TypeOK

LEMMA TypeHost == TypeOK /\ (Host \/ Expire) => TypeOK'
<1> SUFFICES ASSUME TypeOK, Host \/ Expire PROVE TypeOK'
  OBVIOUS
<1> USE DEF shared, local
<1>1. ASSUME NEW p \in Procs, Exit(p) PROVE TypeOK'
  BY <1>1, DropType DEF Exit, TypeOK
<1>2. ASSUME NEW p \in Procs, NEW q \in Ports, Bind(p, q) PROVE TypeOK'
  <2>1. MaxSockets \in Nat
    BY AttributionConstants
  <2>2. bound' \in Inodes
    BY <1>2, <2>1 DEF Bind, TypeOK, Inodes
  <2>3. steady' \in [Callers -> BOOLEAN]
    BY <1>2, Zenon DEF Bind, Disturb
  <2>4. bound' \in 0..MaxSockets
    BY <2>2, <2>1 DEF Inodes
  <2> QED
    BY <1>2, <2>2, <2>3, <2>4 DEF Bind, TypeOK
<1>3. ASSUME NEW p \in Procs, NEW q \in Procs, Fork(p, q) PROVE TypeOK'
  <2>1. steady' \in [Callers -> BOOLEAN]
    BY <1>3, Zenon DEF Fork, Disturb
  <2> QED
    BY <1>3, <2>1 DEF Fork, TypeOK
<1>4. ASSUME NEW p \in Procs, NEW i \in Inodes, Close(p, i) PROVE TypeOK'
  BY <1>4, DropType DEF Close, TypeOK
<1>5. CASE Expire
  BY <1>5 DEF Expire, TypeOK, host
<1> QED
  BY <1>1, <1>2, <1>3, <1>4, <1>5 DEF Host

LEMMA TypeCall ==
    ASSUME TypeOK, NEW c \in Callers, Begin(c) \/ Work(c)
    PROVE  TypeOK'
<1> USE DEF host, shared, local
<1>0. EmptyMap \in InodeMap /\ Unlisted \in [Ports -> Row]
  BY DEF EmptyMap, InodeMap, Unlisted, NoRow, Row
<1>1. CASE Begin(c)
  <2>1. steady' \in [Callers -> BOOLEAN]
    BY <1>1, Zenon DEF Begin, TypeOK
  <2> QED
    BY <1>0, <1>1, <2>1 DEF Begin, TypeOK, NoAnswer
<1>2. CASE Get(c)
  <2>1. CASE inodes # NoMap /\ fresh
    BY <1>2, <2>1 DEF Get, TypeOK
  <2>2. CASE ~(inodes # NoMap /\ fresh)
    <3>1. /\ mine' = [mine EXCEPT ![c] = EmptyMap]
          /\ left' = [left EXCEPT ![c] = Alive]
          /\ pc' = [pc EXCEPT ![c] = "walk"]
      BY <1>2, <2>2, Zenon DEF Get
    <3> QED
      BY <1>0, <1>2, <3>1 DEF Get, TypeOK, Alive
  <2> QED
    BY <2>1, <2>2
<1>3. CASE Refresh(c)
  BY <1>0, <1>3 DEF Refresh, TypeOK, Alive
<1>4. ASSUME NEW p \in Procs, Visit(c, p) PROVE TypeOK'
  BY <1>4 DEF Visit, TypeOK, InodeMap
<1>5. CASE WalkFails(c)
  <2>1. steady' \in [Callers -> BOOLEAN]
    BY <1>5, Zenon DEF WalkFails, TypeOK
  <2> QED
    BY <1>5, <2>1 DEF WalkFails, TypeOK
<1>6. CASE Publish(c)
  <2>1. CASE inodes = NoMap \/ ~fresh
    <3>1. inodes' = mine[c] /\ fresh' = TRUE
      BY <1>6, <2>1, Zenon DEF Publish
    <3> QED
      BY <1>6, <3>1 DEF Publish, TypeOK
  <2>2. CASE ~(inodes = NoMap \/ ~fresh)
    BY <1>6, <2>2 DEF Publish, TypeOK
  <2> QED
    BY <2>1, <2>2
<1>7. CASE Republish(c)
  BY <1>7 DEF Republish, TypeOK
<1>8. \A q \in Ports : Found(c, q) \in Row
  BY DEF Found, OwnerOf, Row, TypeOK, InodeMap
<1>9. CASE Read(c)
  BY <1>8, <1>9 DEF Read, TypeOK
<1>10. CASE Reread(c)
  BY <1>8, <1>10 DEF Reread, TypeOK
<1>11. CASE Conclude(c)
  <2>1. row[c][port[c]] \in Row
    BY <1>11 DEF Conclude, TypeOK
  <2> QED
    BY <1>11, <2>1 DEF Conclude, TypeOK, Row
<1>12. CASE List(c)
  BY <1>8, <1>12 DEF List, TypeOK
<1>13. CASE TableFails(c)
  <2>1. steady' \in [Callers -> BOOLEAN]
    BY <1>13, Zenon DEF TableFails, TypeOK
  <2>2. CASE c \in Inspectors
    <3>1. NoRow \in Row
      BY DEF NoRow, Row
    <3>2. /\ row' = [row EXCEPT ![c][port[c]] = NoRow] /\ answer' = answer
          /\ pc' = [pc EXCEPT ![c] = "conclude"]
      BY <1>13, <2>2 DEF TableFails
    <3> QED
      BY <1>13, <2>1, <3>1, <3>2 DEF TableFails, TypeOK
  <2>3. CASE c \notin Inspectors
    <3>1. /\ answer' = [answer EXCEPT ![c] = [kind |-> "failed", pid |-> None]]
          /\ pc' = [pc EXCEPT ![c] = "idle"] /\ row' = row
      BY <1>13, <2>3 DEF TableFails
    <3> QED
      BY <1>13, <2>1, <3>1 DEF TableFails, TypeOK
  <2> QED
    BY <2>2, <2>3
<1> QED
  BY <1>1, <1>2, <1>3, <1>4, <1>5, <1>6, <1>7, <1>9, <1>10, <1>11, <1>12, <1>13 DEF Work

\* TypeOK is an invariant: whoever binds, forks, exits, inspects or lists,
\* every map names processes and every answer is of a known kind.
THEOREM TypeCorrect == Spec => []TypeOK
<1>1. TypeOK /\ [Next]_vars => TypeOK'
  <2> SUFFICES ASSUME TypeOK, [Next]_vars PROVE TypeOK'
    OBVIOUS
  <2>1. CASE UNCHANGED vars
    BY <2>1 DEF vars, host, shared, local, TypeOK
  <2> QED
    BY <2>1, TypeHost, TypeCall DEF Next
<1> QED
  BY <1>1, TypeInit, PTL DEF Spec

-----------------------------------------------------------------------------
LEMMA InvInit == Init => IInv
<1> SUFFICES ASSUME Init PROVE IInv
  OBVIOUS
<1>1. Unborn /\ HoldersHeld
  BY DEF Init, Unborn, HoldersHeld
<1>2. MapsTrue
  BY ProcsNamed DEF Init, MapsTrue, NoMap, EmptyMap, None
<1>3. \A c \in Callers, q \in Ports : row[c][q].pid = None
  BY DEF Init, Unlisted, NoRow
<1> QED
  BY <1>1, <1>2, <1>3, TypeInit DEF IInv, RowsTrue

\* The host takes nobody out of the history of a socket, and gives inodes
\* only to sockets that are new.
LEMMA HostStep == IInv /\ (Host \/ Expire) => IInv'
<1> SUFFICES ASSUME IInv, Host \/ Expire PROVE IInv'
  OBVIOUS
<1> USE DEF IInv, host, shared, local
<1>1. TypeOK'
  BY TypeHost
<1>2. UNCHANGED <<inodes, mine, row>>
  BY DEF Host, Exit, Bind, Fork, Close, Expire
<1>3. Unborn' /\ HoldersHeld' /\ \A i \in Inodes : held[i] \subseteq held'[i]
  <2>1. ASSUME NEW p \in Procs, Exit(p) PROVE <1>3!:
    <3>1. \A i \in Inodes : holders'[i] \subseteq holders[i]
      BY <2>1, DropType DEF Exit
    <3> QED
      BY <2>1, <3>1 DEF Exit, Unborn, HoldersHeld
  <2>2. ASSUME NEW p \in Procs, NEW q \in Ports, Bind(p, q) PROVE <1>3!:
    <3>1. bound' = bound + 1 /\ bound' \in Inodes /\ bound \in Nat
      BY <2>2, AttributionConstants DEF Bind, TypeOK, Inodes
    <3>2. \A i \in Inodes : i # bound' => holders'[i] = holders[i] /\ held'[i] = held[i]
      BY <2>2 DEF Bind, TypeOK
    <3>3. holders'[bound'] = {p} /\ held'[bound'] = {p} /\ held[bound'] = {}
      BY <2>2, <3>1 DEF Bind, TypeOK, Unborn
    <3> QED
      BY <3>1, <3>2, <3>3 DEF Unborn, HoldersHeld, Inodes
  <2>3. ASSUME NEW p \in Procs, NEW q \in Procs, Fork(p, q) PROVE <1>3!:
    <3>1. \A i \in Inodes :
             \/ holders'[i] = holders[i] /\ held'[i] = held[i]
             \/ /\ holders[i] # {}
                /\ holders'[i] = holders[i] \cup {q} /\ held'[i] = held[i] \cup {q}
      BY <2>3 DEF Fork, TypeOK
    <3> QED
      BY <2>3, <3>1 DEF Fork, Unborn, HoldersHeld
  <2>4. ASSUME NEW p \in Procs, NEW i \in Inodes, Close(p, i) PROVE <1>3!:
    <3>1. \A j \in Inodes : holders'[j] \subseteq holders[j]
      BY <2>4, DropType DEF Close
    <3> QED
      BY <2>4, <3>1 DEF Close, Unborn, HoldersHeld
  <2>5. CASE Expire
    BY <2>5 DEF Expire, Unborn, HoldersHeld
  <2> QED
    BY <2>1, <2>2, <2>3, <2>4, <2>5 DEF Host
<1>4. MapsTrue'
  BY <1>2, <1>3 DEF MapsTrue
<1>5. RowsTrue'
  BY <1>2, <1>3 DEF RowsTrue
<1> QED
  BY <1>1, <1>3, <1>4, <1>5

\* A caller learns owners from the sockets themselves, or from a true map.
LEMMA CallStep ==
    ASSUME IInv, NEW c \in Callers, Begin(c) \/ Work(c)
    PROVE  IInv'
<1> USE DEF IInv, host, shared, local
<1>1. TypeOK'
  BY TypeCall
<1>2. UNCHANGED <<holders, held, bound>>
  BY DEF Begin, Work, Get, Refresh, Visit, WalkFails, Publish, Republish, Read, Reread,
         TableFails, Conclude, List
<1>3. Unborn' /\ HoldersHeld'
  BY <1>2 DEF Unborn, HoldersHeld
<1>4. MapsTrue'
  <2>1. ASSUME NEW i \in Inodes, inodes'[i] \in Procs PROVE inodes'[i] \in held[i]
    <3>1. inodes' = inodes \/ inodes' = mine[c]
      BY DEF Begin, Work, Get, Refresh, Visit, WalkFails, Publish, Republish, Read, Reread,
             TableFails, Conclude, List
    <3> QED
      BY <2>1, <3>1 DEF MapsTrue
  <2>2. ASSUME NEW d \in Callers, NEW i \in Inodes, mine'[d][i] \in Procs
        PROVE  mine'[d][i] \in held[i]
    <3>1. \/ mine' = mine
          \/ mine' = [mine EXCEPT ![c] = inodes] \/ mine' = [mine EXCEPT ![c] = mine[c]]
          \/ mine' = [mine EXCEPT ![c] = EmptyMap]
          \/ \E p \in Procs : Visit(c, p)
      BY DEF Begin, Work, Get, Refresh, WalkFails, Publish, Republish, Read, Reread,
             TableFails, Conclude, List
    <3>2. CASE mine' = [mine EXCEPT ![c] = EmptyMap]
      BY <2>2, <3>2, ProcsNamed DEF MapsTrue, TypeOK, EmptyMap
    <3>3. ASSUME NEW p \in Procs, Visit(c, p) PROVE mine'[d][i] \in held[i]
      BY <2>2, <3>3 DEF Visit, MapsTrue, HoldersHeld, TypeOK
    <3> QED
      BY <2>2, <3>1, <3>2, <3>3 DEF MapsTrue, TypeOK
  <2> QED
    BY <1>2, <2>1, <2>2 DEF MapsTrue
<1>5. RowsTrue'
  <2>1. \A q \in Ports : Found(c, q).pid # None =>
                            /\ Found(c, q).inode \in Inodes
                            /\ Found(c, q).pid \in held[Found(c, q).inode]
    BY DEF Found, OwnerOf, MapsTrue, TypeOK, InodeMap
  <2>2. CASE UNCHANGED row
    BY <1>2, <2>2 DEF RowsTrue
  <2>3. CASE row' = [row EXCEPT ![c] = Unlisted]
    BY <1>2, <2>3 DEF RowsTrue, TypeOK, Unlisted, NoRow
  <2>4. CASE row' = [row EXCEPT ![c] = [q \in Ports |-> Found(c, q)]]
    BY <1>2, <2>1, <2>4 DEF RowsTrue, TypeOK
  <2>5. CASE row' = [row EXCEPT ![c][port[c]] = Found(c, port[c])] /\ c \in Inspectors
    <3>1. port[c] \in Ports
      BY <2>5 DEF TypeOK
    <3> QED
      BY <1>2, <2>1, <2>5, <3>1 DEF RowsTrue, TypeOK
  <2>6. CASE row' = [row EXCEPT ![c][port[c]] = NoRow] /\ c \in Inspectors
    BY <1>2, <2>6 DEF RowsTrue, TypeOK, NoRow
  <2> QED
    BY <2>2, <2>3, <2>4, <2>5, <2>6
       DEF Begin, Work, Get, Refresh, Visit, WalkFails, Publish, Republish, Read, Reread,
           TableFails, Conclude, List
<1> QED
  BY <1>1, <1>3, <1>4, <1>5

\* The inductive invariant of Attribution.
LEMMA Inductive == Spec => []IInv
<1>1. IInv /\ [Next]_vars => IInv'
  <2> SUFFICES ASSUME IInv, [Next]_vars PROVE IInv'
    OBVIOUS
  <2>1. CASE UNCHANGED vars
    BY <2>1 DEF vars, host, shared, local, IInv, TypeOK, Unborn, HoldersHeld, MapsTrue,
                RowsTrue
  <2> QED
    BY <2>1, HostStep, CallStep DEF Next
<1> QED
  BY <1>1, InvInit, PTL DEF Spec

\* BlameIsTrue is an invariant: whoever built the map a report or a listing
\* was made from, and however old it was, a process it names did hold the
\* socket it is named for.
THEOREM NobodyWronged == Spec => []BlameIsTrue
<1>1. IInv => BlameIsTrue
  BY DEF IInv, RowsTrue, BlameIsTrue
<1> QED
  BY <1>1, Inductive, PTL

-----------------------------------------------------------------------------
\* A socket that is listed was bound, and somebody holds it who is alive.
Backed == /\ \A q \in Ports : sock[q] # None =>
                /\ sock[q] \in Inodes /\ sock[q] <= bound
                /\ holders[sock[q]] # {}
          /\ \A i \in Inodes : holders[i] \subseteq Alive

\* No walk finds a process whose descriptors cannot be read.
MapsReadable == /\ inodes # NoMap => \A i \in Inodes : inodes[i] \in Readable \cup {None}
                /\ \A c \in Callers, i \in Inodes : mine[c][i] \in Readable \cup {None}

\* The owner a map that was built now would have for a socket.
Owner(s) == IF s = None \/ held[s] \cap Readable = {} THEN {None} ELSE held[s]

\* What is so of an inspection that nothing has disturbed: its port has one
\* owner at most; the second walk has found it or will; the row is right.
OneOwner(c) == LET s == sock[port[c]]
               IN  s # None => \E p \in Procs : held[s] = {p}
WalkFindsOwner(c) == LET s == sock[port[c]]
                     IN  pc[c] = "rewalk" /\ s # None =>
                            \A p \in held[s] \cap Readable : p \in left[c] \/ mine[c][s] = p
MapHasOwner(c) == LET s == sock[port[c]]
                  IN  pc[c] = "reread" /\ s # None =>
                         \A p \in held[s] \cap Readable : mine[c][s] = p
RowIsRight(c) == pc[c] = "conclude" => /\ row[c][port[c]].inode = sock[port[c]]
                                       /\ row[c][port[c]].pid \in Owner(sock[port[c]])
AnswerIsRight(c) == pc[c] = "idle" /\ answer[c] # NoAnswer => answer[c] = Deserved(port[c])

Undisturbed(c) == steady[c] => /\ OneOwner(c) /\ WalkFindsOwner(c) /\ MapHasOwner(c)
                               /\ RowIsRight(c) /\ AnswerIsRight(c)

SteadyInv == Backed /\ MapsReadable /\ \A c \in Inspectors : Undisturbed(c)

-----------------------------------------------------------------------------
\* A host step that a call is not told of leaves its port and socket alone.
Kept(c) == /\ steady[c]
           /\ sock'[port[c]] = sock[port[c]]
           /\ sock[port[c]] # None => held'[sock[port[c]]] = held[sock[port[c]]]

LEMMA DropKeeps ==
    ASSUME IInv, Backed, NEW p \in Procs, NEW gone \in SUBSET Inodes, Drop(p, gone),
           held' = held, NEW c \in Inspectors, steady'[c]
    PROVE  Kept(c)
<1>1. steady[c] /\ port[c] \in Ports
      /\ ~(sock[port[c]] \in gone /\ p \in holders[sock[port[c]]])
  BY DEF Drop, Disturb, Callers, IInv, TypeOK
<1>2. sock'[port[c]] = sock[port[c]]
  BY <1>1 DEF Drop
<1> QED
  BY <1>1, <1>2 DEF Kept

LEMMA HostKeeps ==
    ASSUME IInv, Backed, Host \/ Expire, NEW c \in Inspectors, steady'[c]
    PROVE  Kept(c)
<1> USE DEF shared, local
<1>0. TypeOK /\ port[c] \in Ports /\ c \in Callers
  BY DEF IInv, TypeOK, Callers
<1>1. ASSUME NEW p \in Procs, Exit(p) PROVE Kept(c)
  BY <1>1, DropKeeps DEF Exit
<1>2. ASSUME NEW p \in Procs, NEW q \in Ports, Bind(p, q) PROVE Kept(c)
  <2>1. steady[c] /\ port[c] # q
    BY <1>0, <1>2 DEF Bind, Disturb
  <2>2. sock'[port[c]] = sock[port[c]]
    BY <1>0, <1>2, <2>1 DEF Bind, TypeOK
  <2>3. bound' = bound + 1 /\ bound \in Nat
    BY <1>0, <1>2, AttributionConstants DEF Bind, TypeOK
  <2>4. sock[port[c]] # None => sock[port[c]] \in Inodes /\ sock[port[c]] # bound'
    BY <1>0, <2>3 DEF Backed, Inodes
  <2>5. \A i \in Inodes : i # bound' => held'[i] = held[i]
    BY <1>0, <1>2 DEF Bind, TypeOK
  <2> QED
    BY <2>1, <2>2, <2>4, <2>5 DEF Kept
<1>3. ASSUME NEW p \in Procs, NEW child \in Procs, Fork(p, child) PROVE Kept(c)
  <2>1. steady[c] /\ (sock[port[c]] # None => p \notin holders[sock[port[c]]])
    BY <1>0, <1>3 DEF Fork, Disturb
  <2>2. sock' = sock
    BY <1>3 DEF Fork
  <2>3. \A i \in Inodes : p \notin holders[i] => held'[i] = held[i]
    BY <1>0, <1>3 DEF Fork, TypeOK
  <2> QED
    BY <1>0, <2>1, <2>2, <2>3 DEF Kept, Backed
<1>4. ASSUME NEW p \in Procs, NEW i \in Inodes, Close(p, i) PROVE Kept(c)
  BY <1>4, DropKeeps DEF Close
<1>5. CASE Expire
  BY <1>5 DEF Expire, Kept, host
<1> QED
  BY <1>1, <1>2, <1>3, <1>4, <1>5 DEF Host

\* Whoever binds is alive, and who exits lets go of everything.
LEMMA DropBacked ==
    ASSUME IInv, Backed, NEW p \in Procs, NEW gone \in SUBSET Inodes, Drop(p, gone),
           bound' = bound,
           \/ status' = status
           \/ gone = Inodes /\ status' = [status EXCEPT ![p] = "gone"]
    PROVE  Backed'
<1>0. /\ sock \in [Ports -> Inodes \cup {None}] /\ holders \in [Inodes -> SUBSET Procs]
      /\ status \in [Procs -> {"unborn", "alive", "gone"}]
  BY DEF IInv, TypeOK
<1>1. /\ \A i \in Inodes : holders'[i] = IF i \in gone THEN holders[i] \ {p} ELSE holders[i]
      /\ \A q \in Ports : sock'[q] = IF sock[q] \in gone /\ holders[sock[q]] = {p}
                                        THEN None ELSE sock[q]
  BY DEF Drop
<1>2. ASSUME NEW q \in Ports, sock'[q] # None
      PROVE  sock'[q] \in Inodes /\ sock'[q] <= bound' /\ holders'[sock'[q]] # {}
  <2>1. sock'[q] = sock[q] /\ ~(sock[q] \in gone /\ holders[sock[q]] = {p})
    BY <1>1, <1>2
  <2>2. sock[q] \in Inodes /\ sock[q] <= bound /\ holders[sock[q]] # {}
    BY <1>2, <2>1 DEF Backed
  <2>3. PICK r \in holders[sock[q]] : ~(sock[q] \in gone /\ r = p)
    BY <2>1, <2>2
  <2>4. r \in holders'[sock[q]]
    BY <1>1, <2>2, <2>3
  <2> QED
    BY <2>1, <2>2, <2>4
<1>3. ASSUME NEW i \in Inodes, NEW r \in holders'[i] PROVE r \in Alive'
  <2>1. r \in holders[i]
    BY <1>1
  <2>0. holders[i] \subseteq Alive
    BY DEF Backed
  <2>2. status'[r] = "alive"
    <3>1. r \in Procs /\ status[r] = "alive"
      BY <2>0, <2>1 DEF Alive
    <3>2. gone = Inodes => r # p
      BY <1>1
    <3> QED
      BY <1>0, <3>1, <3>2
  <2> QED
    BY <1>0, <2>1, <2>2 DEF Alive
<1> QED
  BY <1>2, <1>3 DEF Backed

LEMMA HostBacked == ASSUME IInv, Backed, Host \/ Expire PROVE Backed'
<1> USE DEF shared, local
<1>0. TypeOK /\ Unborn /\ bound \in Nat
  BY AttributionConstants DEF IInv, TypeOK
<1>1. ASSUME NEW p \in Procs, Exit(p) PROVE Backed'
  BY <1>1, DropBacked DEF Exit
<1>2. ASSUME NEW p \in Procs, NEW q \in Ports, Bind(p, q) PROVE Backed'
  <2>1. bound' = bound + 1 /\ bound' \in Inodes /\ status[p] = "alive" /\ status' = status
    BY <1>0, <1>2, AttributionConstants DEF Bind, TypeOK, Inodes
  <2>2. /\ \A i \in Inodes : holders'[i] = IF i = bound' THEN {p} ELSE holders[i]
        /\ \A r \in Ports : sock'[r] = IF r = q THEN bound' ELSE sock[r]
    BY <1>0, <1>2, <2>1 DEF Bind, TypeOK
  <2>3. ASSUME NEW r \in Ports, sock'[r] # None
        PROVE  sock'[r] \in Inodes /\ sock'[r] <= bound' /\ holders'[sock'[r]] # {}
    <3>1. CASE r = q
      BY <1>0, <2>1, <2>2, <3>1
    <3>2. CASE r # q
      <4>1. sock[r] \in Inodes /\ sock[r] <= bound /\ holders[sock[r]] # {}
        BY <2>2, <2>3, <3>2 DEF Backed
      <4> QED
        BY <1>0, <2>1, <2>2, <3>2, <4>1 DEF Inodes
    <3> QED
      BY <3>1, <3>2
  <2>4. \A i \in Inodes : holders'[i] \subseteq Alive'
    BY <2>1, <2>2 DEF Backed, Alive
  <2> QED
    BY <2>3, <2>4 DEF Backed
<1>3. ASSUME NEW p \in Procs, NEW child \in Procs, Fork(p, child) PROVE Backed'
  <2>1. UNCHANGED <<sock, bound>> /\ status' = [status EXCEPT ![child] = "alive"]
    BY <1>3 DEF Fork
  <2>2. \A i \in Inodes : /\ holders[i] \subseteq holders'[i]
                          /\ holders'[i] \subseteq holders[i] \cup {child}
    BY <1>0, <1>3 DEF Fork, TypeOK
  <2>3. \A i \in Inodes : holders'[i] \subseteq Alive'
    BY <1>0, <2>1, <2>2 DEF Backed, Alive, TypeOK
  <2>4. \A r \in Ports : sock[r] # None => holders'[sock[r]] # {}
    BY <2>2 DEF Backed
  <2> QED
    BY <2>1, <2>3, <2>4 DEF Backed
<1>4. ASSUME NEW p \in Procs, NEW i \in Inodes, Close(p, i) PROVE Backed'
  BY <1>4, DropBacked DEF Close
<1>5. CASE Expire
  BY <1>5 DEF Expire, Backed, Alive, host
<1> QED
  BY <1>1, <1>2, <1>3, <1>4, <1>5 DEF Host

\* What a host step keeps of the port is all that an undisturbed call needs.
LEMMA HostUndisturbed ==
    ASSUME IInv, SteadyInv, Host \/ Expire, NEW c \in Inspectors
    PROVE  Undisturbed(c)'
<1> SUFFICES ASSUME steady'[c]
             PROVE  /\ OneOwner(c)' /\ WalkFindsOwner(c)' /\ MapHasOwner(c)'
                    /\ RowIsRight(c)' /\ AnswerIsRight(c)'
  BY DEF Undisturbed
<1>1. Kept(c) /\ UNCHANGED local
  BY HostKeeps DEF SteadyInv, Host, Exit, Bind, Fork, Close, Expire
<1>2. UNCHANGED <<pc, port, left, mine, row, answer>>
  BY <1>1 DEF local
<1>3. /\ OneOwner(c) /\ WalkFindsOwner(c) /\ MapHasOwner(c)
      /\ RowIsRight(c) /\ AnswerIsRight(c)
  BY <1>1 DEF Kept, SteadyInv, Undisturbed
<1>4. OneOwner(c)' /\ WalkFindsOwner(c)' /\ MapHasOwner(c)' /\ RowIsRight(c)'
  BY <1>1, <1>2, <1>3 DEF Kept, OneOwner, WalkFindsOwner, MapHasOwner, RowIsRight, Owner
<1>5. Deserved(port[c])' = Deserved(port[c])
  BY <1>1, <1>2 DEF Kept, Deserved
<1>6. AnswerIsRight(c)'
  BY <1>2, <1>3, <1>5 DEF AnswerIsRight
<1> QED
  BY <1>4, <1>6

-----------------------------------------------------------------------------
LEMMA CallMapsReadable ==
    ASSUME IInv, MapsReadable, NEW c \in Callers, Begin(c) \/ Work(c)
    PROVE  MapsReadable'
<1> USE DEF IInv, host, shared, local
<1>1. ASSUME inodes' # NoMap, NEW i \in Inodes PROVE inodes'[i] \in Readable \cup {None}
  <2>1. inodes' = inodes \/ inodes' = mine[c]
    BY DEF Begin, Work, Get, Refresh, Visit, WalkFails, Publish, Republish, Read, Reread,
           TableFails, Conclude, List
  <2> QED
    BY <1>1, <2>1 DEF MapsReadable
<1>2. ASSUME NEW d \in Callers, NEW i \in Inodes PROVE mine'[d][i] \in Readable \cup {None}
  <2>1. \/ mine' = mine
        \/ mine' = [mine EXCEPT ![c] = inodes] /\ inodes # NoMap
        \/ mine' = [mine EXCEPT ![c] = mine[c]]
        \/ mine' = [mine EXCEPT ![c] = EmptyMap]
        \/ \E p \in Procs : Visit(c, p)
    BY DEF Begin, Work, Get, Refresh, WalkFails, Publish, Republish, Read, Reread,
           TableFails, Conclude, List
  <2>2. CASE mine' = [mine EXCEPT ![c] = EmptyMap]
    BY <2>2 DEF MapsReadable, TypeOK, EmptyMap
  <2>3. ASSUME NEW p \in Procs, Visit(c, p) PROVE mine'[d][i] \in Readable \cup {None}
    BY <2>3 DEF Visit, MapsReadable, TypeOK
  <2> QED
    BY <2>1, <2>2, <2>3 DEF MapsReadable, TypeOK
<1> QED
  BY <1>1, <1>2 DEF MapsReadable

\* The owner a caller's map has for a port is the one it should have, once the
\* map has been built anew or has one at all.
LEMMA FoundIsRight ==
    ASSUME IInv, SteadyInv, NEW c \in Inspectors, OneOwner(c),
           LET s == sock[port[c]]
           IN  s = None \/ mine[c][s] # None \/ \A p \in held[s] \cap Readable : mine[c][s] = p
    PROVE  /\ Found(c, port[c]).inode = sock[port[c]]
           /\ Found(c, port[c]).pid \in Owner(sock[port[c]])
<1> DEFINE s == sock[port[c]]
<1>0. c \in Callers /\ s \in Inodes \cup {None} /\ mine[c] \in InodeMap
  BY DEF IInv, TypeOK, Callers
<1>1. CASE s = None
  BY <1>1 DEF Found, OwnerOf, Owner
<1>2. CASE s # None
  <2>1. s \in Inodes
    BY <1>0, <1>2
  <2>2. PICK p \in Procs : held[s] = {p}
    BY <1>2 DEF OneOwner
  <2>3. mine[c][s] \in Readable \cup {None} /\ (mine[c][s] # None => mine[c][s] = p)
    <3>1. mine[c][s] \in Procs \cup {None}
      BY <1>0, <2>1 DEF InodeMap
    <3>2. mine[c][s] \in Procs => mine[c][s] \in held[s]
      BY <1>0, <2>1 DEF IInv, MapsTrue
    <3>3. mine[c][s] \in Readable \cup {None}
      BY <1>0, <2>1 DEF SteadyInv, MapsReadable
    <3> QED
      BY <2>2, <3>1, <3>2, <3>3
  <2>4. mine[c][s] # None \/ (p \in Readable => mine[c][s] = p)
    BY <1>2, <2>2
  <2>5. p # None
    BY ProcsNamed
  <2>6. mine[c][s] \in Owner(s)
    <3>1. CASE p \in Readable
      BY <1>2, <2>2, <2>3, <2>4, <2>5, <3>1 DEF Owner
    <3>2. CASE p \notin Readable
      BY <1>2, <2>2, <2>3, <3>2 DEF Owner
    <3> QED
      BY <3>1, <3>2
  <2> QED
    BY <1>2, <2>6 DEF Found, OwnerOf
<1> QED
  BY <1>1, <1>2

\* A row that is right makes an answer that is right.
LEMMA ConclusionIsRight ==
    ASSUME IInv, SteadyInv, NEW c \in Inspectors, Conclude(c), OneOwner(c), RowIsRight(c)
    PROVE  answer'[c] = Deserved(port[c])
<1> DEFINE s == sock[port[c]]
           r == row[c][port[c]]
<1>0. c \in Callers /\ s \in Inodes \cup {None} /\ port[c] \in Ports
  BY DEF IInv, TypeOK, Callers
<1>1. r.inode = s /\ r.pid \in Owner(s)
  BY DEF RowIsRight, Conclude
<1>2. answer'[c] = [kind |-> IF r.inode = None THEN "notFound"
                             ELSE IF r.pid = None THEN "unattributed"
                             ELSE IF r.pid \notin Alive THEN "exited"
                             ELSE "process",
                    pid |-> r.pid]
  BY <1>0 DEF Conclude, IInv, TypeOK
<1>3. CASE s = None
  BY <1>1, <1>2, <1>3 DEF Owner, Deserved
<1>4. CASE s # None
  <2>1. PICK p \in Procs : held[s] = {p}
    BY <1>4 DEF OneOwner
  <2>2. (CHOOSE o \in held[s] : TRUE) = p
    BY <2>1
  <2>3. holders[s] = {p} /\ p \in Alive /\ p # None
    <3>1. s \in Inodes /\ holders[s] # {} /\ holders[s] \subseteq Alive
      BY <1>0, <1>4 DEF SteadyInv, Backed
    <3>2. holders[s] \subseteq held[s]
      BY <3>1 DEF IInv, HoldersHeld
    <3> QED
      BY <2>1, <3>1, <3>2, ProcsNamed
  <2>4. CASE p \in Readable
    <3>1. r.pid = p
      BY <1>1, <1>4, <2>1, <2>4 DEF Owner
    <3> QED
      BY <1>1, <1>2, <1>4, <2>2, <2>3, <2>4, <3>1 DEF Deserved
  <2>5. CASE p \notin Readable
    <3>1. r.pid = None
      BY <1>1, <1>4, <2>1, <2>5 DEF Owner
    <3> QED
      BY <1>1, <1>2, <1>4, <2>2, <2>5, <3>1 DEF Deserved
  <2> QED
    BY <2>4, <2>5
<1> QED
  BY <1>3, <1>4

\* A call changes nothing of what the others have.
LEMMA OthersUndisturbed ==
    ASSUME IInv, SteadyInv, NEW c \in Callers, Begin(c) \/ Work(c),
           NEW d \in Inspectors, d # c
    PROVE  Undisturbed(d)'
<1> USE DEF host, shared, local
<1>0. d \in Callers
  BY DEF Callers
<1>1. /\ UNCHANGED <<sock, held, port>>
      /\ pc'[d] = pc[d] /\ left'[d] = left[d] /\ mine'[d] = mine[d]
      /\ row'[d] = row[d] /\ answer'[d] = answer[d] /\ steady'[d] = steady[d]
  BY <1>0 DEF IInv, TypeOK, Begin, Work, Get, Refresh, Visit, WalkFails, Publish, Republish,
              Read, Reread, TableFails, Conclude, List
<1>2. Undisturbed(d)
  BY DEF SteadyInv
<1>3. Deserved(port[d])' = Deserved(port[d])
  BY <1>1 DEF Deserved
<1> QED
  BY <1>1, <1>2, <1>3 DEF Undisturbed, OneOwner, WalkFindsOwner, MapHasOwner, RowIsRight,
                          AnswerIsRight, Owner

LEMMA CallUndisturbed ==
    ASSUME IInv, SteadyInv, NEW c \in Inspectors, Begin(c) \/ Work(c)
    PROVE  Undisturbed(c)'
<1> DEFINE s == sock[port[c]]
<1> SUFFICES ASSUME steady'[c]
             PROVE  /\ OneOwner(c)' /\ WalkFindsOwner(c)' /\ MapHasOwner(c)'
                    /\ RowIsRight(c)' /\ AnswerIsRight(c)'
  BY DEF Undisturbed
<1> USE DEF host, shared, local
<1>0. TypeOK /\ c \in Callers /\ port[c] \in Ports /\ s \in Inodes \cup {None}
  BY DEF IInv, TypeOK, Callers
<1>1. UNCHANGED <<sock, holders, held, port>>
  BY DEF Begin, Work, Get, Refresh, Visit, WalkFails, Publish, Republish, Read, Reread,
         TableFails, Conclude, List
<1>2. CASE Begin(c)
  <2>1. pc'[c] = "get"
    BY <1>0, <1>2 DEF Begin, TypeOK
  <2>2. OneOwner(c)'
    <3>1. s # None => Cardinality(held[s]) = 1
      BY <1>0, <1>2 DEF Begin, TypeOK
    <3>2. s # None => held[s] \in SUBSET Procs /\ IsFiniteSet(held[s])
      BY <1>0, AttributionConstants, FS_Subset DEF TypeOK
    <3>3. s # None => \E p \in Procs : held[s] = {p}
      BY <3>1, <3>2, FS_Singleton
    <3> QED
      BY <1>1, <3>3 DEF OneOwner
  <2> QED
    BY <2>1, <2>2 DEF WalkFindsOwner, MapHasOwner, RowIsRight, AnswerIsRight
<1>3. CASE Work(c)
  <2>1. steady[c] /\ (WalkFails(c) => pc[c] = "walk") /\ ~TableFails(c)
    BY <1>0, <1>3 DEF Work, Get, Refresh, Visit, WalkFails, Publish, Republish, Read, Reread,
                      TableFails, Conclude, List, TypeOK
  <2>2. OneOwner(c) /\ WalkFindsOwner(c) /\ MapHasOwner(c) /\ RowIsRight(c)
    BY <2>1 DEF SteadyInv, Undisturbed
  <2>3. OneOwner(c)'
    BY <1>1, <2>2 DEF OneOwner
  <2>4. CASE Get(c) \/ Publish(c) \/ WalkFails(c)
    <3>1. pc'[c] \in {"read", "walk"}
      BY <1>0, <2>1, <2>4 DEF Get, Publish, WalkFails, TypeOK
    <3> QED
      BY <2>3, <3>1 DEF WalkFindsOwner, MapHasOwner, RowIsRight, AnswerIsRight
  <2>5. CASE Refresh(c)
    <3>1. pc'[c] = "rewalk" /\ left'[c] = Alive
      BY <1>0, <2>5 DEF Refresh, TypeOK
    <3>2. ASSUME s # None, NEW p \in held[s] \cap Readable PROVE p \in Alive
      <4>1. s \in Inodes /\ holders[s] # {} /\ holders[s] \subseteq Alive
            /\ holders[s] \subseteq held[s]
        BY <1>0, <3>2 DEF SteadyInv, Backed, IInv, HoldersHeld
      <4>2. PICK r \in Procs : held[s] = {r}
        BY <2>2, <3>2 DEF OneOwner
      <4> QED
        BY <3>2, <4>1, <4>2
    <3> QED
      BY <1>1, <2>3, <3>1, <3>2 DEF WalkFindsOwner, MapHasOwner, RowIsRight, AnswerIsRight
  <2>6. ASSUME NEW p \in Procs, Visit(c, p)
        PROVE  /\ OneOwner(c)' /\ WalkFindsOwner(c)' /\ MapHasOwner(c)'
               /\ RowIsRight(c)' /\ AnswerIsRight(c)'
    <3>1. /\ pc' = pc /\ pc[c] \in {"walk", "rewalk"} /\ left'[c] = left[c] \ {p}
          /\ \A i \in Inodes : mine'[c][i] = IF p \in Readable /\ p \in holders[i] THEN p
                                                                         ELSE mine[c][i]
      BY <1>0, <2>6 DEF Visit, TypeOK
    <3>2. ASSUME pc[c] = "rewalk", s # None, NEW r \in held[s] \cap Readable
          PROVE  r \in left'[c] \/ mine'[c][s] = r
      <4>1. s \in Inodes /\ holders[s] # {} /\ holders[s] \subseteq held[s]
        BY <1>0, <3>2 DEF SteadyInv, Backed, IInv, HoldersHeld
      <4>2. held[s] = {r} /\ holders[s] = {r}
        BY <2>2, <3>2, <4>1 DEF OneOwner
      <4>3. r \in left[c] \/ mine[c][s] = r
        BY <2>2, <3>2 DEF WalkFindsOwner
      <4> QED
        BY <3>1, <3>2, <4>1, <4>2, <4>3
    <3> QED
      BY <1>1, <2>3, <3>1, <3>2 DEF WalkFindsOwner, MapHasOwner, RowIsRight, AnswerIsRight
  <2>7. CASE Republish(c)
    <3>1. pc[c] = "rewalk" /\ left[c] = {} /\ pc'[c] = "reread" /\ mine' = mine
      BY <1>0, <2>7 DEF Republish, TypeOK
    <3> QED
      BY <1>1, <2>2, <2>3, <3>1 DEF WalkFindsOwner, MapHasOwner, RowIsRight, AnswerIsRight
  <2>8. CASE Read(c)
    <3>1. /\ row'[c][port[c]] = Found(c, port[c])
          /\ pc'[c] = IF s # None /\ OwnerOf(c, port[c]) = None THEN "refresh" ELSE "conclude"
      BY <1>0, <2>8 DEF Read, TypeOK
    <3>2. pc'[c] = "conclude" => s = None \/ mine[c][s] # None
      BY <3>1 DEF OwnerOf
    <3>3. RowIsRight(c)'
      BY <1>1, <2>2, <3>1, <3>2, FoundIsRight DEF RowIsRight, Owner
    <3> QED
      BY <2>3, <3>1, <3>3 DEF WalkFindsOwner, MapHasOwner, AnswerIsRight
  <2>9. CASE Reread(c)
    <3>1. /\ row'[c][port[c]] = Found(c, port[c])
          /\ pc[c] = "reread" /\ pc'[c] = "conclude"
      BY <1>0, <2>9 DEF Reread, TypeOK
    <3>2. s # None => \A p \in held[s] \cap Readable : mine[c][s] = p
      BY <2>2, <3>1 DEF MapHasOwner
    <3>3. RowIsRight(c)'
      BY <1>1, <2>2, <3>1, <3>2, FoundIsRight DEF RowIsRight, Owner
    <3> QED
      BY <2>3, <3>1, <3>3 DEF WalkFindsOwner, MapHasOwner, AnswerIsRight
  <2>10. CASE Conclude(c)
    <3>1. pc'[c] = "idle" /\ answer'[c] = Deserved(port[c])
      BY <1>0, <2>2, <2>10, ConclusionIsRight DEF Conclude, TypeOK
    <3>2. Deserved(port[c])' = Deserved(port[c])
      BY <1>1 DEF Deserved
    <3> QED
      BY <2>3, <3>1, <3>2 DEF WalkFindsOwner, MapHasOwner, RowIsRight, AnswerIsRight
  <2>11. ~List(c)
    BY AttributionConstants DEF List
  <2> QED
    BY <1>3, <2>1, <2>4, <2>5, <2>6, <2>7, <2>8, <2>9, <2>10, <2>11 DEF Work
<1> QED
  BY <1>2, <1>3

LEMMA SteadyStep == IInv /\ SteadyInv /\ [Next]_vars => SteadyInv'
<1> SUFFICES ASSUME IInv, SteadyInv, [Next]_vars PROVE SteadyInv'
  OBVIOUS
<1>1. CASE Host \/ Expire
  <2>1. UNCHANGED <<inodes, mine>>
    BY <1>1 DEF Host, Exit, Bind, Fork, Close, Expire, shared, local
  <2>2. MapsReadable'
    BY <2>1 DEF SteadyInv, MapsReadable
  <2> QED
    BY <1>1, <2>2, HostBacked, HostUndisturbed DEF SteadyInv
<1>2. ASSUME NEW c \in Callers, Begin(c) \/ Work(c) PROVE SteadyInv'
  <2>1. UNCHANGED <<sock, holders, status, bound>>
    BY <1>2 DEF Begin, Work, Get, Refresh, Visit, WalkFails, Publish, Republish, Read, Reread,
                TableFails, Conclude, List, host
  <2>2. Backed'
    BY <2>1 DEF SteadyInv, Backed, Alive
  <2>3. MapsReadable'
    BY <1>2, CallMapsReadable DEF SteadyInv
  <2>4. \A d \in Inspectors : Undisturbed(d)'
    BY <1>2, OthersUndisturbed, CallUndisturbed
  <2> QED
    BY <2>2, <2>3, <2>4 DEF SteadyInv
<1>3. CASE UNCHANGED vars
  BY <1>3 DEF vars, host, shared, local, SteadyInv, Backed, Alive, MapsReadable, Undisturbed,
              OneOwner, WalkFindsOwner, MapHasOwner, RowIsRight, AnswerIsRight, Owner, Deserved
<1> QED
  BY <1>1, <1>2, <1>3 DEF Next

LEMMA SteadyInit == Init => SteadyInv
<1> SUFFICES ASSUME Init PROVE SteadyInv
  OBVIOUS
<1>1. Backed
  BY DEF Init, Backed
<1>2. MapsReadable
  BY DEF Init, MapsReadable, EmptyMap
<1>3. \A c \in Inspectors : ~steady[c]
  BY DEF Init, Callers
<1> QED
  BY <1>1, <1>2, <1>3 DEF SteadyInv, Undisturbed

\* A port that stays as it is while it is inspected is reported as it is:
\* free, or with the one process that ever held its socket, or without an
\* owner if PortLens may not read that process, whatever shared maps were
\* built and published before and meanwhile.
THEOREM SteadyPortIsAnswered == Spec => []SteadyPortAnswered
<1>1. SteadyInv => SteadyPortAnswered
  BY DEF SteadyInv, Undisturbed, AnswerIsRight, SteadyPortAnswered
<1> QED
  BY <1>1, SteadyInit, SteadyStep, Inductive, PTL DEF Spec
=============================================================================
