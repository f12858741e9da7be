------------------------------- MODULE Watch -------------------------------
(***************************************************************************)
(* portlens watch: runWatch, renderWatchTick and diffWatch of              *)
(* cmd/watch.go.  Every tick looks at the watched ports one after another, *)
(* or at the whole listing at once, while the host goes on changing, and   *)
(* tells what is new since the tick before: as lines of JSON, or as        *)
(* desktop notifications beside the frames on the terminal.                *)
(*                                                                         *)
(* Sockets are read off the tables of the kernel, their owners from the    *)
(* map of platform/linux_port.go, which is shared by all inspectors of the *)
(* process, the new one of every tick included, and may be older than a    *)
(* socket.                                                                 *)
(*                                                                         *)
(* A listener adds up what it is told.  The baseline of the first tick     *)
(* reaches it as the "snapshot" line, or as the first frame.               *)
(***************************************************************************)
EXTENDS Naturals, FiniteSets

CONSTANTS Targets,     \* the watched ports, or the sockets a listing may show
          Owners,      \* who may own one, as "pid:name" or as unknown
          Modes,       \* what is watched: "ports", "list"
          MaxChurn,    \* bound: changes of owner
          MaxFailures  \* bound: walks, inspections and listings that fail

\* Values of a snapshot that are no owners; an absent key, and a free port.
Marks == {"absent", "down", "error"}

Unknown == "owner-unknown"

ASSUME WatchConstants == /\ Owners \cap (Marks \cup {"free"}) = {}
                         /\ Unknown \in Owners
                         /\ Modes \subseteq {"ports", "list"}
                         /\ MaxChurn \in Nat /\ MaxFailures \in Nat

VARIABLES host,         \* who listens on each target now
          churn, failures,
          map,          \* whose the socket of each target is to the shared map
          fresh,        \* the map is younger than inodeMapTTL
          mode,
          cancelled,    \* Ctrl-C or SIGTERM: ctx is done
          pc,
          first, prev,  \* of runWatch
          cur, todo,    \* the snapshot of this tick, and the targets it lacks
          looking,      \* those the inspection or listing under way is about
          view,         \* what the listener has been told, added up
          told,         \* the changes told in the tick that ended last
          moved,        \* targets that changed or failed since they were seen
          blurred,      \* targets that were seen as they were not, by an old map
          news, doubts, \* those of them when this tick came to see them
          late          \* this tick looked at something after ctx was done

world == <<host, churn, failures>>
inodes == <<map, fresh>>
loop == <<first, prev, view, told>>
tick == <<cur, todo, looking>>
ghosts == <<moved, blurred, news, doubts, late>>
vars == <<world, inodes, mode, cancelled, pc, loop, tick, ghosts>>

Nothing == [t \in Targets |-> "absent"]
NoOwners == [t \in Targets |-> Unknown]

Init == /\ host \in [Targets -> Owners \cup {"free"}]
        /\ churn = 0 /\ failures = 0
        /\ map = NoOwners /\ fresh = FALSE
        /\ mode \in Modes
        /\ cancelled = FALSE
        /\ pc = "start"
        /\ first = TRUE /\ prev = Nothing
        /\ cur = Nothing /\ todo = {} /\ looking = {}
        /\ view = Nothing /\ told = {}
        /\ moved = Targets /\ blurred = {} /\ news = {} /\ doubts = {} /\ late = FALSE

-----------------------------------------------------------------------------
(* What a tick sees, and what it says of it.                               *)

\* A port nobody listens on is down; a socket nobody listens on is not listed.
SeenAs(owner) == IF owner # "free" THEN owner
                 ELSE IF mode = "ports" THEN "down" ELSE "absent"

\* A failed port counts as one that is not listening.
IsDownOrFailed(v) == v \in {"down", "error"}

IsDown(v) == v = "down"

\* diffWatch for one target whose value changed.
ChangeKind(pv, cv) ==
    IF pv = "absent" THEN "up"
    ELSE IF cv = "absent" THEN "down"
    ELSE IF IsDown(pv) /\ ~IsDown(cv) THEN "up"
    ELSE IF ~IsDown(pv) /\ IsDown(cv) THEN "down"
    ELSE "changed"

\* diffWatch.
DiffWatch(before, after) ==
    {[kind |-> ChangeKind(before[t], after[t]), target |-> t, detail |-> after[t]] :
       t \in {u \in Targets : before[u] # after[u]}}

\* A listener that adds a set of changes to what it knows.
Added(known, changes) ==
    [t \in Targets |->
       IF \E c \in changes : c.target = t
          THEN LET c == CHOOSE d \in changes : d.target = t
               IN  IF c.kind = "down" THEN SeenAs("free") ELSE c.detail
          ELSE known[t]]

-----------------------------------------------------------------------------
(* Plausible faults of the code, used to show that the properties notice.  *)

\* A failed listing is taken for an empty one.
ListFailedIsEmpty ==
    /\ pc = "read" /\ mode = "list" /\ looking = Targets
    /\ failures < MaxFailures
    /\ failures' = failures + 1
    /\ looking' = {}
    /\ pc' = "check"
    /\ late' = cancelled
    /\ UNCHANGED <<host, churn, inodes, mode, cancelled, loop, cur, todo, moved, blurred, news,
                   doubts>>

\* ctx is not looked at once more after the tick has looked at the ports.
CheckNothing ==
    /\ pc = "check"
    /\ pc' = "tell"
    /\ UNCHANGED <<world, inodes, mode, cancelled, loop, tick, ghosts>>

\* The snapshot of the tick is not kept.
TellKeepsPrev ==
    /\ pc = "tell"
    /\ IF first
          THEN view' = cur /\ told' = {}
          ELSE /\ told' = DiffWatch(prev, cur)
               /\ view' = Added(view, told')
    /\ prev' = IF first THEN cur ELSE prev
    /\ first' = FALSE
    /\ pc' = "wait"
    /\ UNCHANGED <<world, inodes, mode, cancelled, tick, ghosts>>

-----------------------------------------------------------------------------
(* The host and the user.                                                  *)

\* A target changes hands.  The map does not know a socket that was bound
\* since, and still names the old owner of one that was inherited.
Churn(t, owner) ==
    /\ churn < MaxChurn
    /\ host[t] # owner
    /\ host' = [host EXCEPT ![t] = owner]
    /\ churn' = churn + 1
    /\ \/ map' = [map EXCEPT ![t] = Unknown]
       \/ "free" \notin {host[t], owner} /\ UNCHANGED map
    /\ moved' = moved \cup {t}
    /\ UNCHANGED <<failures, fresh, mode, cancelled, pc, loop, tick, blurred, news, doubts,
                   late>>

\* inodeMapTTL has passed.
Expire == /\ fresh
          /\ fresh' = FALSE
          /\ UNCHANGED <<world, map, mode, cancelled, pc, loop, tick, ghosts>>

Cancel == /\ ~cancelled
          /\ cancelled' = TRUE
          /\ UNCHANGED <<world, inodes, mode, pc, loop, tick, ghosts>>

-----------------------------------------------------------------------------
(* renderWatchTick: the sockets and their owners.                          *)

\* An inspection of the next port, or the one listing of the tick, begins:
\* with a map that is young enough, or with a walk.
Get(ts) ==
    /\ pc = "look" /\ todo # {}
    /\ looking' = ts
    /\ todo' = todo \ ts
    /\ pc' = IF fresh THEN "read" ELSE "walk"
    /\ UNCHANGED <<world, inodes, mode, cancelled, loop, cur, ghosts>>

\* Ports are taken in their order, whichever that is.
GetNext == Get(IF mode = "ports" THEN {CHOOSE t \in todo : TRUE} ELSE todo)

Publish(owners) ==
    /\ pc \in {"walk", "rewalk"}
    /\ map' = owners /\ fresh' = TRUE
    /\ pc' = IF pc = "walk" THEN "read" ELSE "reread"
    /\ UNCHANGED <<host, churn, mode, cancelled, loop, tick, ghosts>>

\* The map is built.  What a walk over /proc finds of one target has nothing
\* to do with when it comes to another, so that it is one step.
Walk == /\ Publish([t \in Targets |-> IF host[t] = "free" THEN Unknown ELSE host[t]])
        /\ UNCHANGED failures

\* /proc cannot be opened, and the map is empty.
WalkFails == /\ failures < MaxFailures
             /\ failures' = failures + 1
             /\ Publish(NoOwners)

\* ResolvePort has found a socket without an owner, and walks once more.
Refresh ==
    /\ mode = "ports" /\ pc = "read"
    /\ \E t \in looking : host[t] # "free" /\ map[t] = Unknown
    /\ pc' = "rewalk"
    /\ UNCHANGED <<world, inodes, mode, cancelled, loop, tick, ghosts>>

\* What the rows of a target may come to: an owner that is not the owner any
\* more may have exited, too.
Rows(t) == IF host[t] = "free" THEN {SeenAs("free")}
           ELSE IF map[t] = host[t] THEN {host[t]} ELSE {map[t], Unknown}

\* A target is done with, and v is what is seen of it.
Seen(t, v) ==
    /\ cur' = [cur EXCEPT ![t] = v]
    /\ looking' = looking \ {t}
    /\ pc' = IF looking' # {} THEN pc ELSE IF todo = {} THEN "check" ELSE "look"
    /\ late' = (late \/ cancelled)
    /\ UNCHANGED <<host, churn, inodes, mode, cancelled, loop, todo>>

\* The rows of a target are read; those of a listing one table after another.
LookAt(t) ==
    /\ pc \in {"read", "reread"} /\ t \in looking
    /\ ~(mode = "ports" /\ pc = "read" /\ host[t] # "free" /\ map[t] = Unknown)
    /\ \E v \in Rows(t) :
          LET blur == IF v = SeenAs(host[t]) THEN {} ELSE {t}
          IN  /\ Seen(t, v)
              /\ blurred' = (blurred \ {t}) \cup blur
              /\ doubts' = doubts \cup ({t} \cap blurred) \cup blur
    /\ news' = news \cup ({t} \cap moved)
    /\ moved' = moved \ {t}
    /\ UNCHANGED failures

\* A port cannot be inspected, which is likely with ctx done; or a table
\* cannot be read, and the port is not found in it.
LookFails(t) ==
    /\ mode = "ports" /\ pc \in {"read", "reread"} /\ t \in looking
    /\ failures < MaxFailures \/ cancelled
    /\ failures' = IF cancelled THEN failures ELSE failures + 1
    /\ \E v \in {"error", "down"} : Seen(t, v)
    /\ news' = news \cup {t}
    /\ moved' = moved \cup {t}
    /\ UNCHANGED <<blurred, doubts>>

\* A listing that fails, whatever it has read by then: the previous snapshot
\* stays, and no tick is the first one any more.
ListFails ==
    /\ pc = "read" /\ mode = "list" /\ looking = Targets
    /\ failures < MaxFailures \/ cancelled
    /\ failures' = IF cancelled THEN failures ELSE failures + 1
    /\ looking' = {}
    /\ IF cancelled THEN pc' = "done" /\ UNCHANGED <<first, told>>
                    ELSE pc' = "wait" /\ first' = FALSE /\ told' = {}
    /\ UNCHANGED <<host, churn, inodes, mode, cancelled, prev, view, cur, todo, ghosts>>

-----------------------------------------------------------------------------
(* runWatch.                                                               *)

\* The head of the loop.
Start ==
    /\ pc = "start"
    /\ pc' = IF cancelled THEN "done" ELSE "look"
    /\ cur' = Nothing /\ todo' = Targets
    /\ news' = {} /\ doubts' = {} /\ late' = FALSE
    /\ UNCHANGED <<world, inodes, mode, cancelled, loop, looking, moved, blurred>>

\* A tick that was interrupted says nothing.
Check ==
    /\ pc = "check"
    /\ pc' = IF cancelled THEN "done" ELSE "tell"
    /\ UNCHANGED <<world, inodes, mode, cancelled, loop, tick, ghosts>>

\* The baseline, or what changed.
Tell ==
    /\ pc = "tell"
    /\ IF first
          THEN view' = cur /\ told' = {}
          ELSE /\ told' = DiffWatch(prev, cur)
               /\ view' = Added(view, told')
    /\ prev' = cur
    /\ first' = FALSE
    /\ pc' = "wait"
    /\ UNCHANGED <<world, inodes, mode, cancelled, tick, ghosts>>

\* waitWatchTick: a tick of the ticker, or ctx; either when both are ready.
WaitTick ==
    /\ pc = "wait"
    /\ \/ pc' = "start"
       \/ cancelled /\ pc' = "done"
    /\ UNCHANGED <<world, inodes, mode, cancelled, loop, tick, ghosts>>

-----------------------------------------------------------------------------
Work == \/ Start \/ GetNext \/ Walk \/ WalkFails \/ Refresh
        \/ ListFails \/ Check \/ Tell \/ WaitTick
        \/ \E t \in Targets : LookAt(t) \/ LookFails(t)

Next == \/ Work
        \/ \E t \in Targets, owner \in Owners \cup {"free"} : Churn(t, owner)
        \/ Expire \/ Cancel

Spec == Init /\ [][Next]_vars

\* The ticker ticks, the loop runs, and time passes.
FairSpec == Spec /\ WF_vars(Work) /\ WF_vars(Expire)

-----------------------------------------------------------------------------
Snap == [Targets -> Owners \cup Marks]

TypeOK == /\ host \in [Targets -> Owners \cup {"free"}]
          /\ churn \in Nat /\ failures \in Nat
          /\ map \in [Targets -> Owners] /\ fresh \in BOOLEAN
          /\ mode \in Modes /\ cancelled \in BOOLEAN
          /\ pc \in {"start", "look", "walk", "read", "rewalk", "reread", "check", "tell",
                     "wait", "done"}
          /\ first \in BOOLEAN /\ prev \in Snap /\ cur \in Snap
          /\ todo \subseteq Targets /\ looking \subseteq Targets
          /\ todo \cap looking = {}
          /\ looking # {} => pc \in {"walk", "read", "rewalk", "reread"}
          /\ view \in Snap
          /\ told \subseteq [kind : {"up", "down", "changed"}, target : Targets,
                             detail : Owners \cup Marks]
          /\ moved \subseteq Targets /\ blurred \subseteq Targets
          /\ news \subseteq Targets /\ doubts \subseteq Targets /\ late \in BOOLEAN

\* "up, down and changed follow whenever a later tick differs": whatever was
\* told since the start adds up to the last snapshot that succeeded, ports
\* that fail and listings that fail in between included.
StreamAddsUp == view = prev

\* "A single bad tick does not report every target as down": a target is told
\* to be up or down only if it changed, or could not be inspected, since the
\* tick before.  Its owner may be told to have changed besides when this tick
\* or the one before named one by a map older than the socket's last change.
NoFalseAlarm ==
    pc = "wait" => \A c \in told : \/ c.target \in news
                                   \/ c.kind = "changed" /\ c.target \in doubts

\* "Long-running sessions never see stale process or socket data": this does
\* NOT hold.  The map outlives the inspector of a tick, and with one second
\* between ticks every other one finds it: a new socket is told to be up with
\* no owner, and to have changed when the map is built again.
OnlyChangesAreTold == pc = "wait" => \A c \in told : c.target \in news

\* What Ctrl-C made fail is not reported as a change.
InterruptIsSilent == [][told' # told \/ view' # view => ~late]_vars

\* Once the host is quiet the listener knows its state, unless the watch was
\* ended.
ListenerCatchesUp == <>[](cancelled \/ \A t \in Targets : view[t] = SeenAs(host[t]))

=============================================================================
