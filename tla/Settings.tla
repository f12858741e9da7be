------------------------------ MODULE Settings ------------------------------
(***************************************************************************)
(* The configuration file and the `portlens config` commands that change   *)
(* it: LoadAt and SaveAt of internal/config/config.go under configList,    *)
(* configShow, configAdd and configRemove of cmd/config.go.                *)
(*                                                                         *)
(* Every run is an operating-system process of its own; nothing but the    *)
(* file system stands between two of them.  A save writes a temporary file *)
(* whose name is the same for all of them and renames it over the file.    *)
(* Files are inodes, because a rename moves a file that another run may    *)
(* still be writing.  A run may die at every step.                         *)
(*                                                                         *)
(* The text of a file is abstracted to the groups it holds, to nothing at  *)
(* all, or to a text json.Unmarshal refuses.  What list and show print is  *)
(* left out.                                                               *)
(***************************************************************************)
EXTENDS Integers, FiniteSets

CONSTANTS Runs,        \* where invocations run, one after the other in each
          Names,       \* group names
          Invalid,     \* those of them with white space, or empty
          PortSets,    \* the sets of ports a group may be given
          Inodes,      \* bound: files at one time
          Absent,      \* no inode
          MaxFaults    \* bound: failures of the file system, and deaths of runs

ASSUME SettingsConstants ==
    /\ IsFiniteSet(Runs)
    /\ Invalid \subseteq Names
    /\ {} \notin PortSets
    /\ Absent \notin Inodes
    /\ MaxFaults \in Nat

Groups == [Names -> PortSets \cup {{}}]     \* {}: there is no such group
NoGroups == [n \in Names |-> {}]

Commands == [op : {"usage", "list"}, name : {"none"}, ports : {{}}]
            \cup [op : {"show", "remove"}, name : Names, ports : {{}}]
            \cup [op : {"add"}, name : Names, ports : PortSets]
NoCommand == [op |-> "list", name |-> "none", ports |-> {}]

Empty == [kind |-> "empty", groups |-> NoGroups]
Torn == [kind |-> "torn", groups |-> NoGroups]
Whole(g) == [kind |-> "whole", groups |-> g]
Texts == {Empty, Torn} \cup {Whole(g) : g \in Groups}

VARIABLES path, tmp,   \* the inodes of config.json and config.json.tmp
          inode,       \* the text of every inode
          pc,          \* where each run is
          cmd,         \* what it was asked to do
          loaded,      \* the groups it read
          fd,          \* the inode it writes
          code,        \* the exit code of the run that ended with this step
          stale,       \* runs for which the file was replaced since they read it
          beside,      \* savers that had another one beside them
          committed,   \* the text the last replacement of the file meant to leave
          spoiled,     \* that replacement was made by a saver that had one beside it
          faults

files == <<path, tmp, inode>>
history == <<stale, beside, committed, spoiled>>
vars == <<files, pc, cmd, loaded, fd, code, history, faults>>

Success == 0
GeneralError == 1
InvalidArguments == 2
Running == -1            \* no run has ended with this step

Init == /\ path \in Inodes \cup {Absent} /\ tmp = Absent
        /\ inode \in {[i \in Inodes |-> IF i = path THEN t ELSE Empty] : t \in Texts}
        /\ pc = [r \in Runs |-> "start"]
        /\ cmd = [r \in Runs |-> NoCommand]
        /\ loaded = [r \in Runs |-> NoGroups]
        /\ fd = [r \in Runs |-> Absent]
        /\ code = Running
        /\ stale = {} /\ beside = {} /\ spoiled = FALSE
        /\ committed = IF path = Absent THEN Empty ELSE inode[path]
        /\ faults = 0

-----------------------------------------------------------------------------
(* What a run reads and what it wants to write.                            *)

\* What the file holds.
Text == IF path = Absent THEN Empty ELSE inode[path]

\* LoadAt: no file and an empty file are no groups, a damaged one an error.
Readable == Text.kind # "torn"
Held == Text.groups

\* The groups the run did not name are left out of what it saves.
EditAlone(c, g) == [NoGroups EXCEPT ![c.name] = c.ports]

\* SetGroup and RemoveGroup on what the run loaded.
Edit(c, g) == [g EXCEPT ![c.name] = c.ports]

\* The next invocation starts from scratch.
Exit(r, c) == /\ pc' = [pc EXCEPT ![r] = "start"]
              /\ cmd' = [cmd EXCEPT ![r] = NoCommand]
              /\ loaded' = [loaded EXCEPT ![r] = NoGroups]
              /\ fd' = [fd EXCEPT ![r] = Absent]
              /\ code' = c
              /\ stale' = stale \ {r} /\ beside' = beside \ {r}

\* runConfig sends the arguments to a command; no arguments, a wrong number of
\* them, ports that are none, the path and unknown commands end here.
Begin(r) ==
    /\ pc[r] = "start"
    /\ \E c \in Commands :
          IF c.op = "usage"
             THEN \E k \in {Success, InvalidArguments} : Exit(r, k)
             ELSE /\ cmd' = [cmd EXCEPT ![r] = c]
                  /\ pc' = [pc EXCEPT ![r] = "load"]
                  /\ code' = Running
                  /\ UNCHANGED <<loaded, fd, stale, beside>>
    /\ UNCHANGED <<files, committed, spoiled, faults>>

\* loadConfig fails.
LoadFails(r) ==
    /\ pc[r] = "load" /\ ~Readable
    /\ Exit(r, GeneralError)
    /\ UNCHANGED <<files, committed, spoiled, faults>>

\* configList and configShow only read.
ConfigList(r) ==
    /\ pc[r] = "load" /\ cmd[r].op = "list" /\ Readable
    /\ Exit(r, Success)
    /\ UNCHANGED <<files, committed, spoiled, faults>>

ConfigShow(r) ==
    /\ pc[r] = "load" /\ cmd[r].op = "show" /\ Readable
    /\ Exit(r, IF Held[cmd[r].name] # {} THEN Success ELSE InvalidArguments)
    /\ UNCHANGED <<files, committed, spoiled, faults>>

\* The run has read the groups and goes on to save them changed.
Proceed(r) == /\ loaded' = [loaded EXCEPT ![r] = Held]
              /\ pc' = [pc EXCEPT ![r] = "save"]
              /\ code' = Running
              /\ UNCHANGED <<cmd, fd, stale, beside>>

\* configAdd: the name is looked at after the file was read.
ConfigAdd(r) ==
    /\ pc[r] = "load" /\ cmd[r].op = "add" /\ Readable
    /\ IF cmd[r].name \in Invalid THEN Exit(r, InvalidArguments) ELSE Proceed(r)
    /\ UNCHANGED <<files, committed, spoiled, faults>>

\* configRemove: a group that is not there is an error.
ConfigRemove(r) ==
    /\ pc[r] = "load" /\ cmd[r].op = "remove" /\ Readable
    /\ IF Held[cmd[r].name] = {} THEN Exit(r, InvalidArguments) ELSE Proceed(r)
    /\ UNCHANGED <<files, committed, spoiled, faults>>

-----------------------------------------------------------------------------
(* SaveAt.                                                                 *)

\* An inode without a name that nobody has open is gone.
Live(texts) == [i \in Inodes |-> IF i \in {path', tmp'} \cup {fd'[r] : r \in Runs}
                                    THEN texts[i] ELSE Empty]

Savers == {r \in Runs : pc[r] \in {"write", "rename"}}
Unused == Inodes \ ({path, tmp} \cup {fd[r] : r \in Runs})

\* os.WriteFile opens the temporary file: it makes it or empties it.
Open(r) ==
    /\ pc[r] = "save"
    /\ \E i \in IF tmp # Absent THEN {tmp} ELSE Unused :
          /\ tmp' = i
          /\ fd' = [fd EXCEPT ![r] = i]
          /\ inode' = [inode EXCEPT ![i] = Empty]
    /\ beside' = IF Savers = {} THEN beside ELSE beside \cup Savers \cup {r}
    /\ pc' = [pc EXCEPT ![r] = "write"]
    /\ code' = Running
    /\ UNCHANGED <<path, cmd, loaded, stale, committed, spoiled, faults>>

\* It writes the whole text from the start; what another run has put there is
\* overwritten, and its tail remains if that text was the longer one.
Write(r) ==
    /\ pc[r] = "write"
    /\ fd' = [fd EXCEPT ![r] = Absent] /\ UNCHANGED <<path, tmp>>
    /\ \E t \in {Whole(Edit(cmd[r], loaded[r])), Torn} :
          /\ t = Torn => inode[fd[r]].kind # "empty"
          /\ inode' = Live([inode EXCEPT ![fd[r]] = t])
    /\ pc' = [pc EXCEPT ![r] = "rename"]
    /\ code' = Running
    /\ UNCHANGED <<cmd, loaded, history, faults>>

\* The temporary file becomes the file.
Rename(r) ==
    /\ pc[r] = "rename" /\ tmp # Absent
    /\ path' = tmp /\ tmp' = Absent
    /\ pc' = [pc EXCEPT ![r] = "start"]
    /\ cmd' = [cmd EXCEPT ![r] = NoCommand]
    /\ loaded' = [loaded EXCEPT ![r] = NoGroups]
    /\ UNCHANGED fd
    /\ inode' = Live(inode)
    /\ code' = Success
    /\ stale' = {o \in Runs : pc[o] \in {"save", "write", "rename"}} \ {r}
    /\ beside' = beside \ {r}
    /\ committed' = Whole(Edit(cmd[r], loaded[r]))
    /\ spoiled' = (r \in beside)
    /\ UNCHANGED faults

\* Another run has renamed it already, or the rename fails for another reason:
\* whatever is there under the temporary name is removed.
RenameFails(r) ==
    /\ pc[r] = "rename"
    /\ \/ tmp = Absent /\ UNCHANGED faults
       \/ faults < MaxFaults /\ faults' = faults + 1
    /\ tmp' = Absent
    /\ UNCHANGED path
    /\ Exit(r, GeneralError)
    /\ inode' = Live(inode)
    /\ UNCHANGED <<committed, spoiled>>

-----------------------------------------------------------------------------
(* Failures.                                                               *)

Fault == faults < MaxFaults /\ faults' = faults + 1

\* A write under way has put nothing there yet, or a part of the text.
Remains(r) == {Live(inode)} \cup
              IF pc[r] = "write" THEN {Live([inode EXCEPT ![fd[r]] = Torn])} ELSE {}

\* The error of the write is dropped, and the save goes on to the rename.
SaveFailsUnnoticed(r) ==
    /\ pc[r] = "write" /\ Fault
    /\ inode' = [inode EXCEPT ![fd[r]] = Torn]
    /\ fd' = [fd EXCEPT ![r] = Absent]
    /\ pc' = [pc EXCEPT ![r] = "rename"]
    /\ code' = Running
    /\ UNCHANGED <<path, tmp, cmd, loaded, history>>

\* The directory, the temporary file or the disk refuses; half a text may
\* remain under the temporary name.
SaveFails(r) ==
    /\ pc[r] \in {"save", "write"} /\ Fault
    /\ UNCHANGED <<path, tmp, committed, spoiled>>
    /\ Exit(r, GeneralError)
    /\ inode' \in Remains(r)

\* The process is killed; what it was writing may be there in part.
Die(r) ==
    /\ pc[r] # "start" /\ Fault
    /\ UNCHANGED <<path, tmp, committed, spoiled>>
    /\ Exit(r, GeneralError)
    /\ inode' \in Remains(r)

Next == \E r \in Runs : \/ Begin(r) \/ LoadFails(r)
                        \/ ConfigList(r) \/ ConfigShow(r) \/ ConfigAdd(r) \/ ConfigRemove(r)
                        \/ Open(r) \/ Write(r) \/ Rename(r) \/ RenameFails(r)
                        \/ SaveFails(r) \/ Die(r)

Spec == Init /\ [][Next]_vars

-----------------------------------------------------------------------------
TypeOK ==
    /\ path \in Inodes \cup {Absent} /\ tmp \in Inodes \cup {Absent}
    /\ inode \in [Inodes -> Texts]
    /\ pc \in [Runs -> {"start", "load", "save", "write", "rename"}]
    /\ cmd \in [Runs -> Commands]
    /\ loaded \in [Runs -> Groups]
    /\ fd \in [Runs -> Inodes \cup {Absent}]
    /\ code \in {Running, Success, GeneralError, InvalidArguments}
    /\ stale \subseteq Runs /\ beside \subseteq Runs
    /\ committed \in Texts /\ spoiled \in BOOLEAN
    /\ faults \in 0..MaxFaults

\* Whatever fails and whoever dies at whatever step, and whatever was left
\* under the temporary name, the file holds the whole text that the last
\* replacement meant to leave, unless the saver that made it had another one
\* beside it; the next save that runs alone mends even that (SaveAt).
FileIsWhole == spoiled \/ Text = committed

\* The file changes only by a save that reports success, and then it differs in
\* the group the command named and in nothing else: as told if the command is
\* add, not there if it is remove.  A saver for which the file was replaced,
\* or torn, since it loaded it writes back what it had loaded of the other groups, and
\* of savers side by side nothing is promised (configAdd, configRemove, SaveAt).
SaveIsTheCommand ==
    [][Text' # Text /\ ~spoiled' =>
         \E r \in Runs :
            /\ pc[r] = "rename" /\ code' = Success
            /\ Text'.groups[cmd[r].name] = cmd[r].ports
            /\ \A n \in Names \ {cmd[r].name} :
                  Text'.groups[n] = (IF r \in stale \/ spoiled THEN loaded[r] ELSE Held)[n]]_vars
=============================================================================
