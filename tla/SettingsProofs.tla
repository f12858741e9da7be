--------------------------- MODULE SettingsProofs ---------------------------
(***************************************************************************)
(* Proofs about Settings for any number of runs, groups, sets of ports,    *)
(* files and failures.                                                     *)
(***************************************************************************)
EXTENDS Settings, TLAPS

-----------------------------------------------------------------------------
(* Types.                                                                  *)

LEMMA EmptyType == NoGroups \in Groups /\ Empty \in Texts /\ Torn \in Texts
  BY DEF NoGroups, Groups, Empty, Torn, Texts

LEMMA EditType ==
    ASSUME NEW c \in Commands, NEW g \in Groups
    PROVE  Edit(c, g) \in Groups /\ Whole(Edit(c, g)) \in Texts
<1>1. c.ports \in PortSets \cup {{}}
  BY DEF Commands
<1>2. Edit(c, g) \in Groups
  BY <1>1 DEF Edit, Groups
<1> QED
  BY <1>2 DEF Texts

LEMMA TextType ==
    ASSUME TypeOK
    PROVE  Text \in Texts /\ Held \in Groups
<1>1. Text \in Texts
  BY EmptyType DEF TypeOK, Text
<1>2. \A t \in Texts : t.groups \in Groups
  BY EmptyType DEF Texts, Empty, Torn, Whole
<1> QED
  BY <1>1, <1>2 DEF Held

\* The texts that Live lets through are those it is given, or none.
LEMMA LiveType ==
    ASSUME NEW texts \in [Inodes -> Texts]
    PROVE  Live(texts) \in [Inodes -> Texts]
  BY EmptyType DEF Live

LEMMA NoCommandType == NoCommand \in Commands
  BY DEF NoCommand, Commands

LEMMA ExitType ==
    ASSUME TypeOK, NEW r \in Runs, NEW k \in {Success, GeneralError, InvalidArguments}, Exit(r, k)
    PROVE  /\ pc' \in [Runs -> {"start", "load", "save", "write", "rename"}]
           /\ cmd' \in [Runs -> Commands]
           /\ loaded' \in [Runs -> Groups]
           /\ fd' \in [Runs -> Inodes \cup {Absent}]
           /\ code' \in {Running, Success, GeneralError, InvalidArguments}
           /\ stale' \subseteq Runs /\ beside' \subseteq Runs
  BY EmptyType, NoCommandType DEF Exit, TypeOK

LEMMA RemainsType ==
    ASSUME TypeOK, NEW r \in Runs, inode' \in Remains(r)
    PROVE  inode' \in [Inodes -> Texts]
<1>1. [inode EXCEPT ![fd[r]] = Torn] \in [Inodes -> Texts]
  BY EmptyType DEF TypeOK
<1>2. inode \in [Inodes -> Texts]
  BY DEF TypeOK
<1>3. Live(inode) \in [Inodes -> Texts] /\ Live([inode EXCEPT ![fd[r]] = Torn]) \in [Inodes -> Texts]
  BY <1>1, <1>2, LiveType
<1> QED
  BY <1>3 DEF Remains

LEMMA TypeInit == Init => TypeOK
<1> SUFFICES ASSUME Init PROVE TypeOK
  OBVIOUS
<1>1. inode \in [Inodes -> Texts]
  <2>1. PICK t \in Texts : inode = [i \in Inodes |-> IF i = path THEN t ELSE Empty]
    BY DEF Init
  <2> QED
    BY <2>1, EmptyType
<1>2. committed \in Texts
  BY <1>1, EmptyType DEF Init
<1>3. 0 \in 0..MaxFaults
  BY SettingsConstants
<1> QED
  BY <1>1, <1>2, <1>3, EmptyType, NoCommandType DEF Init, TypeOK

LEMMA TypeStep == TypeOK /\ [Next]_vars => TypeOK'
<1> SUFFICES ASSUME TypeOK, [Next]_vars PROVE TypeOK'
  OBVIOUS
<1> USE DEF TypeOK, files, history
<1>0. CASE UNCHANGED vars
  BY <1>0 DEF vars
<1>1. ASSUME NEW r \in Runs, Begin(r) PROVE TypeOK'
  <2>1. PICK c \in Commands :
          IF c.op = "usage"
             THEN \E k \in {Success, InvalidArguments} : Exit(r, k)
             ELSE /\ cmd' = [cmd EXCEPT ![r] = c]
                  /\ pc' = [pc EXCEPT ![r] = "load"]
                  /\ code' = Running
                  /\ UNCHANGED <<loaded, fd, stale, beside>>
    BY <1>1 DEF Begin
  <2>2. CASE c.op = "usage"
    BY <1>1, <2>1, <2>2, ExitType DEF Begin
  <2>3. CASE c.op # "usage"
    BY <1>1, <2>1, <2>3 DEF Begin
  <2> QED
    BY <2>2, <2>3
<1>2. ASSUME NEW r \in Runs, LoadFails(r) PROVE TypeOK'
  BY <1>2, ExitType DEF LoadFails
<1>3. ASSUME NEW r \in Runs, ConfigList(r) PROVE TypeOK'
  BY <1>3, ExitType DEF ConfigList
<1>4. ASSUME NEW r \in Runs, ConfigShow(r) PROVE TypeOK'
  <2>1. PICK k \in {Success, InvalidArguments} : Exit(r, k)
    BY <1>4 DEF ConfigShow
  <2> QED
    BY <1>4, <2>1, ExitType DEF ConfigShow
<1>5. ASSUME NEW r \in Runs, Proceed(r), UNCHANGED <<files, committed, spoiled, faults>>
      PROVE  TypeOK'
  BY <1>5, TextType DEF Proceed
<1>6. ASSUME NEW r \in Runs, ConfigAdd(r) PROVE TypeOK'
  <2>1. CASE Exit(r, InvalidArguments)
    BY <1>6, <2>1, ExitType DEF ConfigAdd
  <2>2. CASE Proceed(r)
    BY <1>6, <2>2, <1>5 DEF ConfigAdd
  <2> QED
    BY <1>6, <2>1, <2>2 DEF ConfigAdd
<1>7. ASSUME NEW r \in Runs, ConfigRemove(r) PROVE TypeOK'
  <2>1. CASE Exit(r, InvalidArguments)
    BY <1>7, <2>1, ExitType DEF ConfigRemove
  <2>2. CASE Proceed(r)
    BY <1>7, <2>2, <1>5 DEF ConfigRemove
  <2> QED
    BY <1>7, <2>1, <2>2 DEF ConfigRemove
<1>8. ASSUME NEW r \in Runs, Open(r) PROVE TypeOK'
  <2>1. PICK i \in Inodes : /\ tmp' = i
                            /\ fd' = [fd EXCEPT ![r] = i]
                            /\ inode' = [inode EXCEPT ![i] = Empty]
    BY <1>8 DEF Open, Unused
  <2>2. beside' \subseteq Runs
    BY <1>8 DEF Open, Savers
  <2> QED
    BY <1>8, <2>1, <2>2, EmptyType DEF Open
<1>9. ASSUME NEW r \in Runs, Write(r) PROVE TypeOK'
  <2>1. PICK t \in {Whole(Edit(cmd[r], loaded[r])), Torn} :
           inode' = Live([inode EXCEPT ![fd[r]] = t])
    BY <1>9 DEF Write
  <2>2. t \in Texts
    BY <2>1, EmptyType, EditType
  <2>3. inode' \in [Inodes -> Texts]
    BY <2>1, <2>2, LiveType
  <2> QED
    BY <1>9, <2>3 DEF Write
<1>10. ASSUME NEW r \in Runs, Rename(r) PROVE TypeOK'
  <2>1. inode' \in [Inodes -> Texts]
    BY <1>10, LiveType DEF Rename
  <2>2. committed' \in Texts
    BY <1>10, EditType DEF Rename
  <2>3. stale' \subseteq Runs /\ spoiled' \in BOOLEAN
    BY <1>10 DEF Rename
  <2>4. /\ pc' \in [Runs -> {"start", "load", "save", "write", "rename"}]
        /\ cmd' \in [Runs -> Commands] /\ loaded' \in [Runs -> Groups]
    BY <1>10, EmptyType, NoCommandType DEF Rename
  <2> QED
    BY <1>10, <2>1, <2>2, <2>3, <2>4 DEF Rename
<1>11. ASSUME NEW r \in Runs, RenameFails(r) PROVE TypeOK'
  <2>1. inode' \in [Inodes -> Texts]
    BY <1>11, LiveType DEF RenameFails
  <2>2. faults' \in 0..MaxFaults
    BY <1>11, SettingsConstants DEF RenameFails
  <2> QED
    BY <1>11, <2>1, <2>2, ExitType DEF RenameFails
<1>12. ASSUME NEW r \in Runs, SaveFails(r) \/ Die(r) PROVE TypeOK'
  <2>1. inode' \in [Inodes -> Texts]
    BY <1>12, RemainsType DEF SaveFails, Die
  <2>2. faults' \in 0..MaxFaults
    BY <1>12, SettingsConstants DEF SaveFails, Die, Fault
  <2> QED
    BY <1>12, <2>1, <2>2, ExitType DEF SaveFails, Die
<1> QED
  BY <1>0, <1>1, <1>2, <1>3, <1>4, <1>6, <1>7, <1>8, <1>9, <1>10, <1>11, <1>12 DEF Next

\* The variables of Settings keep their types, for any runs, files and failures.
THEOREM TypeCorrect == Spec => []TypeOK
<1>1. TypeOK /\ [Next]_vars => TypeOK'
  BY TypeStep
<1> QED
  BY TypeInit, <1>1, PTL DEF Spec

-----------------------------------------------------------------------------
(* The file is whole.                                                      *)

\* A saver with nobody beside it is the only one.
Alone == \A r \in Savers : r \in beside \/ Savers = {r}

\* While it writes, the temporary file is its own and still empty.
OwnFile == \A r \in Runs : pc[r] = "write" /\ r \notin beside =>
              /\ tmp # Absent /\ fd[r] = tmp
              /\ inode[tmp] = Empty

\* What it is about to rename is what it meant to write.
Written == \A r \in Runs : pc[r] = "rename" /\ r \notin beside /\ tmp # Absent =>
              inode[tmp] = Whole(Edit(cmd[r], loaded[r]))

\* Nobody writes into the file itself; only in "write" is a file open at all.
Untouched == \A r \in Runs : /\ pc[r] = "write" => fd[r] # Absent
                             /\ pc[r] # "write" => fd[r] = Absent
                             /\ pc[r] = "write" /\ ~spoiled => fd[r] # path

Apart == tmp # Absent => tmp # path

WholeInv == /\ TypeOK
            /\ Alone /\ OwnFile /\ Written /\ Untouched /\ Apart
            /\ FileIsWhole

\* An inode that has a name keeps its text.
LEMMA LiveKeeps ==
    ASSUME NEW texts, NEW i \in Inodes, i = path' \/ i = tmp'
    PROVE  Live(texts)[i] = texts[i]
  BY DEF Live

\* Steps that leave the three files alone, and no run a saver that was none.
LEMMA QuietStep ==
    ASSUME WholeInv, TypeOK', UNCHANGED <<files, committed, spoiled>>,
           NEW r \in Runs, pc[r] \notin {"write", "rename"},
           fd'[r] = Absent, pc'[r] \notin {"write", "rename"},
           beside \ {r} = beside' \ {r},
           \A o \in Runs \ {r} : /\ pc'[o] = pc[o] /\ cmd'[o] = cmd[o]
                                 /\ loaded'[o] = loaded[o] /\ fd'[o] = fd[o]
    PROVE  WholeInv'
<1> USE DEF WholeInv, files
<1>1. Savers' = Savers
  BY DEF Savers
<1>2. Alone'
  BY <1>1 DEF Alone, Savers
<1>3. OwnFile'
  BY DEF OwnFile
<1>4. Written'
  BY DEF Written
<1>5. Untouched' /\ Apart'
  BY DEF Untouched, Apart
<1>6. FileIsWhole'
  BY DEF FileIsWhole, Text
<1> QED
  BY <1>2, <1>3, <1>4, <1>5, <1>6

\* A saver that ends without a rename; it may leave what it wrote under the
\* temporary name, or take that name away.
LEMMA GivenUp ==
    ASSUME WholeInv, TypeOK', UNCHANGED <<path, committed, spoiled>>,
           NEW r \in Runs, NEW k \in {Success, GeneralError, InvalidArguments}, Exit(r, k),
           tmp' = tmp \/ (tmp' = Absent /\ pc[r] = "rename"),
           inode' \in Remains(r)
    PROVE  WholeInv'
<1> USE DEF WholeInv
<1>1. \A o \in Runs \ {r} : /\ pc'[o] = pc[o] /\ cmd'[o] = cmd[o]
                            /\ loaded'[o] = loaded[o] /\ fd'[o] = fd[o]
                            /\ o \in beside' <=> o \in beside
  BY DEF Exit, TypeOK
<1>2. pc'[r] = "start" /\ fd'[r] = Absent /\ Savers' = Savers \ {r}
  BY <1>1 DEF Exit, TypeOK, Savers
\* Another saver is beside one that is not alone, and so is its file of no account.
<1>3. ASSUME NEW o \in Savers', o \notin beside' PROVE r \notin Savers
  BY <1>1, <1>2, <1>3 DEF Alone, Savers
<1>4. Alone'
  BY <1>1, <1>2 DEF Alone, Savers
<1>5. ASSUME NEW i \in Inodes, i = path' \/ i = tmp', pc[r] # "write" \/ fd[r] # i
      PROVE  inode'[i] = inode[i]
  <2>1. Live(inode)[i] = inode[i]
    BY <1>5, LiveKeeps
  <2>2. CASE pc[r] # "write"
    BY <2>1, <2>2 DEF Remains
  <2>3. CASE pc[r] = "write" /\ fd[r] # i
    <3>1. Live([inode EXCEPT ![fd[r]] = Torn])[i] = [inode EXCEPT ![fd[r]] = Torn][i]
      BY <1>5, LiveKeeps
    <3>2. [inode EXCEPT ![fd[r]] = Torn][i] = inode[i]
      BY <2>3 DEF TypeOK
    <3> QED
      BY <2>1, <3>1, <3>2 DEF Remains
  <2> QED
    BY <1>5, <2>2, <2>3
<1>6. ASSUME NEW o \in Savers', o \notin beside' PROVE tmp' = tmp /\ (tmp # Absent => inode'[tmp] = inode[tmp])
  <2>1. pc[r] # "write" /\ pc[r] # "rename"
    BY <1>3, <1>6 DEF Savers
  <2> QED
    BY <1>5, <2>1 DEF TypeOK
<1>7. OwnFile'
  BY <1>1, <1>2, <1>6 DEF OwnFile, Savers
<1>8. Written'
  BY <1>1, <1>2, <1>6 DEF Written, Savers
<1>9. Untouched' /\ Apart'
  BY <1>1, <1>2 DEF Untouched, Apart
<1>10. FileIsWhole'
  <2>1. CASE spoiled
    BY <2>1 DEF FileIsWhole
  <2>2. CASE ~spoiled /\ path = Absent
    BY <2>2 DEF FileIsWhole, Text
  <2>3. CASE ~spoiled /\ path # Absent
    <3>1. inode'[path] = inode[path]
      BY <1>5, <2>3 DEF Untouched, TypeOK
    <3> QED
      BY <2>3, <3>1 DEF FileIsWhole, Text
  <2> QED
    BY <2>1, <2>2, <2>3
<1> QED
  BY <1>4, <1>7, <1>8, <1>9, <1>10

LEMMA WholeInit == Init => WholeInv
<1> SUFFICES ASSUME Init PROVE WholeInv
  OBVIOUS
<1>1. TypeOK
  BY TypeInit
<1>2. Savers = {} /\ \A r \in Runs : pc[r] = "start"
  BY DEF Init, Savers
<1>3. Text = committed
  BY DEF Init, Text
<1> QED
  BY <1>1, <1>2, <1>3 DEF WholeInv, Alone, OwnFile, Written, Untouched, Apart, FileIsWhole, Init

LEMMA WholeStep == WholeInv /\ [Next]_vars => WholeInv'
<1> SUFFICES ASSUME WholeInv, [Next]_vars PROVE WholeInv'
  OBVIOUS
<1>t. TypeOK /\ TypeOK'
  BY TypeStep DEF WholeInv
<1>0. CASE UNCHANGED vars
  BY <1>0 DEF vars, files, history, WholeInv, TypeOK, Alone, OwnFile, Written, Untouched, Apart,
              FileIsWhole, Savers, Text
\* Up to the save a command changes nothing but its own variables.
<1>1. ASSUME NEW r \in Runs, pc[r] \in {"start", "load"}, UNCHANGED <<files, committed, spoiled, faults>>,
             \/ \E k \in {Success, GeneralError, InvalidArguments} : Exit(r, k)
             \/ Proceed(r)
             \/ /\ \E c \in Commands : cmd' = [cmd EXCEPT ![r] = c]
                /\ pc' = [pc EXCEPT ![r] = "load"]
                /\ UNCHANGED <<loaded, fd, stale, beside>>
      PROVE  WholeInv'
  <2>1. fd[r] = Absent
    BY <1>1 DEF WholeInv, Untouched
  <2>2. fd'[r] = Absent /\ pc'[r] \notin {"write", "rename"} /\ beside \ {r} = beside' \ {r}
    BY <1>t, <1>1, <2>1 DEF Exit, Proceed, TypeOK
  <2>3. \A o \in Runs \ {r} : /\ pc'[o] = pc[o] /\ cmd'[o] = cmd[o]
                              /\ loaded'[o] = loaded[o] /\ fd'[o] = fd[o]
    BY <1>t, <1>1 DEF Exit, Proceed, TypeOK
  <2> QED
    BY <1>t, <1>1, <2>2, <2>3, QuietStep
<1>2. ASSUME NEW r \in Runs, Begin(r) PROVE WholeInv'
  BY <1>1, <1>2 DEF Begin
<1>3. ASSUME NEW r \in Runs, LoadFails(r) \/ ConfigList(r) \/ ConfigShow(r) PROVE WholeInv'
  BY <1>1, <1>3 DEF LoadFails, ConfigList, ConfigShow
<1>4. ASSUME NEW r \in Runs, ConfigAdd(r) \/ ConfigRemove(r) PROVE WholeInv'
  BY <1>1, <1>4 DEF ConfigAdd, ConfigRemove
<1>5. ASSUME NEW r \in Runs, Open(r) PROVE WholeInv'
  <2> USE DEF WholeInv, TypeOK
  <2>1. PICK i \in Inodes : /\ i \in IF tmp # Absent THEN {tmp} ELSE Unused
                            /\ tmp' = i
                            /\ fd' = [fd EXCEPT ![r] = i]
                            /\ inode' = [inode EXCEPT ![i] = Empty]
    BY <1>5 DEF Open, Unused
  <2>2. i # path /\ i # Absent
    BY <2>1, SettingsConstants DEF Unused, Apart
  <2>3. /\ pc[r] = "save" /\ pc' = [pc EXCEPT ![r] = "write"]
        /\ beside' = IF Savers = {} THEN beside ELSE beside \cup Savers \cup {r}
        /\ UNCHANGED <<path, cmd, loaded, stale, committed, spoiled, faults>>
    BY <1>5 DEF Open
  <2>4. Savers' = Savers \cup {r} /\ r \notin Savers
    BY <2>3 DEF Savers
  <2>5. Alone'
    BY <2>3, <2>4 DEF Alone
  <2>6. \A o \in Savers' : o \notin beside' => o = r
    BY <2>3, <2>4
  <2>7. OwnFile'
    BY <2>1, <2>2, <2>3, <2>6 DEF OwnFile, Savers
  <2>8. Written'
    BY <2>3, <2>6 DEF Written, Savers
  <2>9. Untouched' /\ Apart'
    BY <2>1, <2>2, <2>3 DEF Untouched, Apart
  <2>10. FileIsWhole'
    BY <2>1, <2>2, <2>3 DEF FileIsWhole, Text
  <2> QED
    BY <1>t, <2>5, <2>7, <2>8, <2>9, <2>10
<1>6. ASSUME NEW r \in Runs, Write(r) PROVE WholeInv'
  <2> USE DEF WholeInv
  <2>1. PICK t \in {Whole(Edit(cmd[r], loaded[r])), Torn} :
           /\ t = Torn => inode[fd[r]].kind # "empty"
           /\ inode' = Live([inode EXCEPT ![fd[r]] = t])
    BY <1>6 DEF Write
  <2>2. /\ pc[r] = "write" /\ pc' = [pc EXCEPT ![r] = "rename"]
        /\ fd' = [fd EXCEPT ![r] = Absent]
        /\ UNCHANGED <<path, tmp, cmd, loaded, stale, beside, committed, spoiled, faults>>
    BY <1>6 DEF Write, history
  <2>3. Savers' = Savers /\ r \in Savers
    BY <1>t, <2>2 DEF Savers, TypeOK
  <2>4. Alone'
    BY <2>2, <2>3 DEF Alone
  <2>5. \A o \in Savers : o \notin beside => o = r
    BY <2>3 DEF Alone
  <2>6. OwnFile'
    BY <1>t, <2>2, <2>3, <2>5 DEF OwnFile, Savers, TypeOK
  <2>7. fd[r] \in Inodes
    BY <1>t, <2>2 DEF Untouched, TypeOK
  <2>8. ASSUME NEW i \in Inodes, i = path \/ i = tmp
        PROVE  inode'[i] = IF i = fd[r] THEN t ELSE inode[i]
    <3>1. Live([inode EXCEPT ![fd[r]] = t])[i] = [inode EXCEPT ![fd[r]] = t][i]
      BY <2>2, <2>8, LiveKeeps
    <3> QED
      BY <1>t, <2>1, <3>1 DEF TypeOK
  <2>9. Written'
    <3> SUFFICES ASSUME r \notin beside
                 PROVE  inode'[tmp] = Whole(Edit(cmd[r], loaded[r]))
      BY <2>2, <2>3, <2>5 DEF Written, Savers
    <3>1. tmp # Absent /\ fd[r] = tmp /\ inode[tmp] = Empty
      BY <2>2 DEF OwnFile
    <3>2. t = Whole(Edit(cmd[r], loaded[r]))
      BY <2>1, <3>1 DEF Empty
    <3> QED
      BY <2>7, <2>8, <3>1, <3>2
  <2>10. Untouched' /\ Apart'
    BY <1>t, <2>2 DEF Untouched, Apart, TypeOK
  <2>11. FileIsWhole'
    <3>1. CASE spoiled
      BY <2>2, <3>1 DEF FileIsWhole
    <3>2. CASE ~spoiled
      <4>1. fd[r] # path
        BY <2>2, <3>2 DEF Untouched
      <4>2. path # Absent => inode'[path] = inode[path]
        BY <1>t, <2>8, <4>1 DEF TypeOK
      <4> QED
        BY <2>2, <3>2, <4>2 DEF FileIsWhole, Text
    <3> QED
      BY <3>1, <3>2
  <2> QED
    BY <1>t, <2>4, <2>6, <2>9, <2>10, <2>11
<1>7. ASSUME NEW r \in Runs, Rename(r) PROVE WholeInv'
  <2> USE DEF WholeInv
  <2>1. /\ pc[r] = "rename" /\ tmp # Absent
        /\ path' = tmp /\ tmp' = Absent
        /\ pc' = [pc EXCEPT ![r] = "start"]
        /\ cmd' = [cmd EXCEPT ![r] = NoCommand]
        /\ loaded' = [loaded EXCEPT ![r] = NoGroups]
        /\ fd' = fd
        /\ inode' = Live(inode)
        /\ beside' = beside \ {r}
        /\ committed' = Whole(Edit(cmd[r], loaded[r]))
        /\ spoiled' = (r \in beside)
    BY <1>7 DEF Rename
  <2>2. Savers' = Savers \ {r} /\ r \in Savers
    BY <1>t, <2>1 DEF Savers, TypeOK
  <2>3. Alone'
    BY <2>1, <2>2 DEF Alone
  \* A saver alone would be beside this one.
  <2>4. \A o \in Savers' : o \in beside'
    BY <2>1, <2>2 DEF Alone
  <2>5. OwnFile' /\ Written'
    BY <2>4 DEF OwnFile, Written, Savers
  <2>6. r \notin beside => Savers' = {}
    BY <2>2 DEF Alone
  <2>7. Untouched'
    BY <1>t, <2>1, <2>6 DEF Untouched, Savers, TypeOK
  <2>8. Apart'
    BY <2>1 DEF Apart
  <2>9. FileIsWhole'
    <3>1. CASE r \in beside
      BY <2>1, <3>1 DEF FileIsWhole
    <3>2. CASE r \notin beside
      <4>1. inode[tmp] = Whole(Edit(cmd[r], loaded[r])) /\ tmp \in Inodes
        BY <1>t, <2>1, <3>2 DEF Written, TypeOK
      <4>2. inode'[path'] = inode[tmp]
        BY <2>1, <4>1, LiveKeeps
      <4> QED
        BY <2>1, <4>1, <4>2 DEF FileIsWhole, Text
    <3> QED
      BY <3>1, <3>2
  <2> QED
    BY <1>t, <2>3, <2>5, <2>7, <2>8, <2>9
<1>8. ASSUME NEW r \in Runs, RenameFails(r) PROVE WholeInv'
  <2>1. inode' \in Remains(r)
    BY <1>8 DEF RenameFails, Remains
  <2> QED
    BY <1>t, <1>8, <2>1, GivenUp DEF RenameFails
<1>9. ASSUME NEW r \in Runs, SaveFails(r) \/ Die(r) PROVE WholeInv'
  BY <1>t, <1>9, GivenUp DEF SaveFails, Die
<1> QED
  BY <1>0, <1>2, <1>3, <1>4, <1>5, <1>6, <1>7, <1>8, <1>9 DEF Next

\* Whatever fails and whoever dies, the file holds the whole text that the last
\* replacement meant to leave, unless savers were beside each other (SaveAt).
THEOREM AlwaysWhole == Spec => []FileIsWhole
<1>1. WholeInv => FileIsWhole
  BY DEF WholeInv
<1> QED
  BY WholeInit, WholeStep, <1>1, PTL DEF Spec

-----------------------------------------------------------------------------
(* A save is the command.                                                  *)

Saving == {"save", "write", "rename"}

\* Only commands that name a group save.
Named == \A r \in Runs : pc[r] \in Saving => cmd[r].name \in Names

\* What was loaded is what the file holds still, but for the runs that are known to
\* be behind.
Current == \A r \in Runs : pc[r] \in Saving /\ r \notin stale /\ ~spoiled => loaded[r] = Held

SaveInv == WholeInv /\ Named /\ Current

\* Without a rename, a run that saves has saved before or has just loaded.
LEMMA SaversGoOn ==
    ASSUME TypeOK, NEW o \in Runs,
           \/ Begin(o) \/ LoadFails(o) \/ ConfigList(o) \/ ConfigShow(o) \/ ConfigAdd(o)
           \/ ConfigRemove(o) \/ Open(o) \/ Write(o) \/ RenameFails(o) \/ SaveFails(o) \/ Die(o)
    PROVE  /\ committed' = committed /\ spoiled' = spoiled
           /\ \A r \in Runs : pc'[r] \in Saving =>
                 /\ cmd'[r] = cmd[r]
                 /\ \/ pc[r] \in Saving /\ loaded'[r] = loaded[r] /\ (r \in stale' <=> r \in stale)
                    \/ cmd[r].op \in {"add", "remove"} /\ loaded'[r] = Held
<1> USE DEF Saving, TypeOK
<1>1. ASSUME NEW k, Exit(o, k)
      PROVE  \A r \in Runs : pc'[r] \in Saving =>
                /\ cmd'[r] = cmd[r]
                /\ pc[r] \in Saving /\ loaded'[r] = loaded[r] /\ (r \in stale' <=> r \in stale)
  BY <1>1 DEF Exit
<1>2. ASSUME Proceed(o), cmd[o].op \in {"add", "remove"}
      PROVE  \A r \in Runs : pc'[r] \in Saving =>
                /\ cmd'[r] = cmd[r]
                /\ \/ pc[r] \in Saving /\ loaded'[r] = loaded[r] /\ (r \in stale' <=> r \in stale)
                   \/ cmd[r].op \in {"add", "remove"} /\ loaded'[r] = Held
  BY <1>2 DEF Proceed
<1>3. CASE Begin(o)
  BY <1>1, <1>3 DEF Begin
<1>4. CASE LoadFails(o) \/ ConfigList(o) \/ ConfigShow(o)
  BY <1>1, <1>4 DEF LoadFails, ConfigList, ConfigShow
<1>5. CASE ConfigAdd(o)
  BY <1>1, <1>2, <1>5 DEF ConfigAdd
<1>6. CASE ConfigRemove(o)
  BY <1>1, <1>2, <1>6 DEF ConfigRemove
<1>7. CASE Open(o)
  BY <1>7 DEF Open
<1>8. CASE Write(o)
  BY <1>8 DEF Write, history
<1>9. CASE RenameFails(o)
  BY <1>1, <1>9 DEF RenameFails
<1>10. CASE SaveFails(o) \/ Die(o)
  BY <1>1, <1>10 DEF SaveFails, Die
<1> QED
  BY <1>3, <1>4, <1>5, <1>6, <1>7, <1>8, <1>9, <1>10

LEMMA NamesOfCommands ==
    \A c \in Commands : c.op \in {"add", "remove"} => c.name \in Names
  BY DEF Commands

LEMMA SaveStep ==
    ASSUME SaveInv, Next
    PROVE  /\ SaveInv'
           /\ Text' # Text /\ ~spoiled' => \E r \in Runs : Rename(r)
<1> USE DEF SaveInv
<1>t. TypeOK /\ WholeInv'
  BY WholeStep DEF WholeInv
<1>1. CASE \E o \in Runs : Rename(o)
  <2>1. PICK o \in Runs : Rename(o)
    BY <1>1
  <2>2. \A r \in Runs : pc'[r] \in Saving =>
           /\ r # o /\ pc[r] \in Saving /\ cmd'[r] = cmd[r] /\ r \in stale'
    BY <1>t, <2>1 DEF Rename, Saving, TypeOK
  <2> QED
    BY <1>t, <1>1, <2>2 DEF Named, Current
<1>2. CASE ~ \E o \in Runs : Rename(o)
  <2>1. PICK o \in Runs :
           \/ Begin(o) \/ LoadFails(o) \/ ConfigList(o) \/ ConfigShow(o) \/ ConfigAdd(o)
           \/ ConfigRemove(o) \/ Open(o) \/ Write(o) \/ RenameFails(o) \/ SaveFails(o) \/ Die(o)
    BY <1>2 DEF Next
  <2>2. /\ committed' = committed /\ spoiled' = spoiled
        /\ \A r \in Runs : pc'[r] \in Saving =>
              /\ cmd'[r] = cmd[r]
              /\ \/ pc[r] \in Saving /\ loaded'[r] = loaded[r] /\ (r \in stale' <=> r \in stale)
                 \/ cmd[r].op \in {"add", "remove"} /\ loaded'[r] = Held
    BY <1>t, <2>1, SaversGoOn
  <2>3. ~spoiled' => Text' = Text
    BY <1>t, <2>2 DEF WholeInv, FileIsWhole
  <2>4. Named'
    BY <1>t, <2>2, NamesOfCommands DEF Named, TypeOK
  <2>5. Current'
    BY <2>2, <2>3 DEF Current, Held
  <2> QED
    BY <1>t, <1>2, <2>3, <2>4, <2>5
<1> QED
  BY <1>1, <1>2

\* The step of SaveIsTheCommand.
Commanded ==
    Text' # Text /\ ~spoiled' =>
       \E r \in Runs :
          /\ pc[r] = "rename" /\ code' = Success
          /\ Text'.groups[cmd[r].name] = cmd[r].ports
          /\ \A n \in Names \ {cmd[r].name} :
                Text'.groups[n] = (IF r \in stale \/ spoiled THEN loaded[r] ELSE Held)[n]

LEMMA SaveCommanded == ASSUME SaveInv, Next PROVE Commanded
<1> SUFFICES ASSUME Text' # Text, ~spoiled'
             PROVE  \E r \in Runs :
                       /\ pc[r] = "rename" /\ code' = Success
                       /\ Text'.groups[cmd[r].name] = cmd[r].ports
                       /\ \A n \in Names \ {cmd[r].name} :
                             Text'.groups[n] = (IF r \in stale \/ spoiled THEN loaded[r] ELSE Held)[n]
  BY DEF Commanded
<1>1. PICK r \in Runs : Rename(r)
  BY SaveStep
<1>2. pc[r] = "rename" /\ code' = Success /\ committed' = Whole(Edit(cmd[r], loaded[r]))
  BY <1>1 DEF Rename
<1>3. Text' = Whole(Edit(cmd[r], loaded[r]))
  BY <1>2, SaveStep DEF SaveInv, WholeInv, FileIsWhole
<1>4. loaded[r] \in Groups /\ cmd[r].name \in Names
  BY <1>2 DEF SaveInv, WholeInv, TypeOK, Named, Saving
<1>5. /\ Text'.groups[cmd[r].name] = cmd[r].ports
      /\ \A n \in Names \ {cmd[r].name} : Text'.groups[n] = loaded[r][n]
  BY <1>3, <1>4 DEF Whole, Edit, Groups
<1>6. r \notin stale /\ ~spoiled => loaded[r] = Held
  BY <1>2 DEF SaveInv, Current, Saving
<1> QED
  BY <1>2, <1>5, <1>6

\* The file changes only as the command said that reports its success, whatever
\* other commands do meanwhile (configAdd, configRemove, SaveAt).
THEOREM SavesAreTheCommands == Spec => SaveIsTheCommand
<1>1. Init => SaveInv
  BY WholeInit DEF SaveInv, Named, Current, Init, Saving
<1>2. SaveInv /\ [Next]_vars => SaveInv'
  <2>1. CASE Next
    BY <2>1, SaveStep
  <2>2. ASSUME SaveInv, UNCHANGED vars PROVE SaveInv'
    <3>1. WholeInv'
      BY <2>2, WholeStep DEF SaveInv
    <3> QED
      BY <2>2, <3>1 DEF SaveInv, vars, files, history, Named, Current, Held, Text
  <2> QED
    BY <2>1, <2>2
<1>3. SaveInv /\ [Next]_vars => [Commanded]_vars
  BY SaveCommanded
<1> QED
  BY <1>1, <1>2, <1>3, PTL DEF Spec, SaveIsTheCommand, Commanded
=============================================================================
