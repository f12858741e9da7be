---------------------------- MODULE WatchProofs ----------------------------
(***************************************************************************)
(* Proofs about Watch for any targets, owners and number of changes and    *)
(* failures: the stream adds up to the last snapshot, an interrupted look  *)
(* is silent, and no target is told to be up or down that did not change.  *)
(***************************************************************************)
EXTENDS Watch, TLAPS

\* A port nobody listens on has a mark of its own.
LEMMA SeenAsType ==
    ASSUME NEW owner \in Owners \cup {"free"}
    PROVE  SeenAs(owner) \in Owners \cup Marks
  BY DEF SeenAs, Marks

Change == [kind : {"up", "down", "changed"}, target : Targets, detail : Owners \cup Marks]

LEMMA DiffType ==
    ASSUME NEW before \in Snap, NEW after \in Snap
    PROVE  DiffWatch(before, after) \subseteq Change
<1>1. \A t \in Targets : ChangeKind(before[t], after[t]) \in {"up", "down", "changed"}
  BY DEF ChangeKind
<1> QED
  BY <1>1 DEF DiffWatch, Change, Snap

LEMMA AddedType ==
    ASSUME NEW known \in Snap, NEW changes \in SUBSET Change
    PROVE  Added(known, changes) \in Snap
<1>1. SeenAs("free") \in Owners \cup Marks
  BY SeenAsType
<1>2. ASSUME NEW t \in Targets, \E c \in changes : c.target = t
      PROVE  (CHOOSE d \in changes : d.target = t).detail \in Owners \cup Marks
  BY <1>2 DEF Change
<1> QED
  BY <1>1, <1>2 DEF Added, Snap

LEMMA TypeInit == Init => TypeOK
<1> SUFFICES ASSUME Init PROVE TypeOK
  OBVIOUS
<1>1. Nothing \in Snap
  BY DEF Nothing, Snap, Marks
<1>2. NoOwners \in [Targets -> Owners]
  BY WatchConstants DEF NoOwners
<1> QED
  BY <1>1, <1>2 DEF Init, TypeOK

\* What a look at a target may show.
LEMMA RowsType ==
    ASSUME TypeOK, NEW t \in Targets
    PROVE  Rows(t) \subseteq Owners \cup Marks
<1>1. map[t] \in Owners /\ Unknown \in Owners /\ host[t] \in Owners \cup {"free"}
  BY WatchConstants DEF TypeOK
<1> QED
  BY <1>1, SeenAsType DEF Rows

LEMMA TypeStep == TypeOK /\ [Next]_vars => TypeOK'
<1> SUFFICES ASSUME TypeOK, [Next]_vars PROVE TypeOK'
  OBVIOUS
<1> USE DEF TypeOK, world, inodes, loop, tick, ghosts
<1>0. Nothing \in Snap
  BY DEF Nothing, Snap, Marks
<1>1. CASE Start
  BY <1>0, <1>1 DEF Start
<1>2. ASSUME NEW t \in Targets, LookAt(t) PROVE TypeOK'
  <2>1. PICK v \in Rows(t) : Seen(t, v)
    BY <1>2 DEF LookAt
  <2>2. cur' \in Snap
    BY <2>1, RowsType DEF Seen, Snap
  <2>3. blurred' \subseteq Targets /\ doubts' \subseteq Targets
    BY <1>2 DEF LookAt
  <2>4. pc' \in {"look", "read", "reread", "check"} /\ looking' \subseteq Targets
    BY <1>2, <2>1 DEF LookAt, Seen
  <2> QED
    BY <1>2, <2>1, <2>2, <2>3, <2>4 DEF LookAt, Seen
<1>3. ASSUME NEW t \in Targets, LookFails(t) PROVE TypeOK'
  <2>1. PICK v \in {"error", "down"} : Seen(t, v)
    BY <1>3 DEF LookFails
  <2>2. cur' \in Snap
    BY <2>1 DEF Seen, Snap, Marks
  <2>3. failures' \in Nat
    BY <1>3 DEF LookFails
  <2>4. pc' \in {"look", "read", "reread", "check"} /\ looking' \subseteq Targets
    BY <1>3, <2>1 DEF LookFails, Seen
  <2> QED
    BY <1>3, <2>1, <2>2, <2>3, <2>4 DEF LookFails, Seen
<1>4. CASE GetNext
  BY <1>4 DEF GetNext, Get
<1>5. CASE Walk
  <2>1. map' \in [Targets -> Owners]
    BY <1>5, WatchConstants DEF Walk, Publish
  <2> QED
    BY <1>5, <2>1 DEF Walk, Publish
<1>6. CASE WalkFails
  <2>1. map' \in [Targets -> Owners]
    BY <1>6, WatchConstants DEF WalkFails, Publish, NoOwners
  <2> QED
    BY <1>6, <2>1 DEF WalkFails, Publish
<1>7. CASE Refresh
  BY <1>7 DEF Refresh
<1>8. CASE ListFails
  <2>1. /\ first' = first \/ first' = FALSE
        /\ told' = told \/ told' = {}
        /\ pc' \in {"done", "wait"}
        /\ failures' \in Nat
    BY <1>8 DEF ListFails
  <2> QED
    BY <1>8, <2>1 DEF ListFails
<1>9. CASE Check
  BY <1>9 DEF Check
<1>10. CASE Tell
  <2>1. told' \subseteq Change /\ view' \in Snap
    <3>1. CASE first
      BY <1>10, <3>1 DEF Tell
    <3>2. CASE ~first
      BY <1>10, <3>2, DiffType, AddedType DEF Tell
    <3> QED
      BY <3>1, <3>2
  <2> QED
    BY <1>10, <2>1 DEF Tell, Change
<1>11. CASE WaitTick
  BY <1>11 DEF WaitTick
<1>12. ASSUME NEW t \in Targets, NEW owner \in Owners \cup {"free"}, Churn(t, owner)
       PROVE  TypeOK'
  <2>1. map' \in [Targets -> Owners]
    BY <1>12, WatchConstants DEF Churn
  <2>2. /\ host' \in [Targets -> Owners \cup {"free"}] /\ churn' \in Nat
        /\ moved' \subseteq Targets
    BY <1>12 DEF Churn
  <2> QED
    BY <1>12, <2>1, <2>2 DEF Churn
<1>13. CASE Expire \/ Cancel
  BY <1>13 DEF Expire, Cancel
<1>14. CASE UNCHANGED vars
  BY <1>14 DEF vars
<1> QED
  BY <1>1, <1>2, <1>3, <1>4, <1>5, <1>6, <1>7, <1>8, <1>9, <1>10, <1>11, <1>12, <1>13, <1>14
     DEF Next, Work

\* The variables of runWatch, and what a listener knows, keep their types.
THEOREM TypeCorrect == Spec => []TypeOK
  BY TypeInit, TypeStep, PTL DEF Spec

-----------------------------------------------------------------------------
\* A snapshot of ports has every port; one of a listing marks none as down.
Fits(snap, seen) == IF mode = "ports" THEN \A t \in seen : snap[t] # "absent"
                                      ELSE \A t \in Targets : snap[t] # "down"

\* The tick under way has looked at a target.
Looked(t) == \/ pc \in {"check", "tell"}
             \/ pc \in {"look", "walk", "read", "rewalk", "reread"} /\ t \notin todo \cup looking

\* What a tick has looked at so far fits what is watched.
CurFits == IF mode = "ports"
              THEN \A t \in Targets : Looked(t) => cur[t] # "absent"
              ELSE \A t \in Targets : cur[t] # "down"

AddsUpInv == TypeOK /\ CurFits /\ StreamAddsUp

\* A listener that adds a comparison to the older snapshot has the newer one.
LEMMA AddedDiff ==
    ASSUME NEW before \in Snap, NEW after \in Snap, Fits(after, Targets)
    PROVE  Added(before, DiffWatch(before, after)) = after
<1> DEFINE D == DiffWatch(before, after)
<1>1. ASSUME NEW t \in Targets
      PROVE  (IF \E c \in D : c.target = t
                 THEN LET c == CHOOSE d \in D : d.target = t
                      IN  IF c.kind = "down" THEN SeenAs("free") ELSE c.detail
                 ELSE before[t]) = after[t]
  <2>1. CASE before[t] = after[t]
    <3>1. ~ \E c \in D : c.target = t
      BY <2>1 DEF DiffWatch
    <3> QED
      BY <2>1, <3>1
  <2>2. CASE before[t] # after[t]
    <3> DEFINE r == [kind |-> ChangeKind(before[t], after[t]), target |-> t,
                     detail |-> after[t]]
    <3>1. r \in D
      BY <2>2 DEF DiffWatch
    <3>2. \A d \in D : d.target = t => d = r
      BY DEF DiffWatch
    <3>3. (CHOOSE d \in D : d.target = t) = r
      <4> HIDE DEF D
      <4>1. r.target = t
        OBVIOUS
      <4> QED
        BY <3>1, <3>2, <4>1
    <3>4. r.kind = "down" => SeenAs("free") = after[t]
      <4>1. CASE mode = "ports"
        BY <4>1, <2>2 DEF Fits, ChangeKind, SeenAs, IsDown
      <4>2. CASE mode # "ports"
        BY <4>2, <2>2 DEF Fits, ChangeKind, SeenAs, IsDown
      <4> QED
        BY <4>1, <4>2
    <3>5. \E c \in D : c.target = t
      BY <3>1
    <3>6. r.detail = after[t]
      OBVIOUS
    <3> HIDE DEF D, r
    <3> QED
      BY <3>3, <3>4, <3>5, <3>6
  <2> QED
    BY <2>1, <2>2
<1>2. Added(before, D) = [t \in Targets |-> after[t]]
  <2> HIDE DEF D
  <2> QED
    BY <1>1 DEF Added
<1> QED
  BY <1>2 DEF Snap

\* A look at a target takes it, and no other, into the snapshot.
LEMMA LookedStep ==
    ASSUME TypeOK, NEW t \in Targets, NEW v, Seen(t, v), pc \in {"read", "reread"},
           t \in looking
    PROVE  /\ cur'[t] = v /\ \A u \in Targets \ {t} : cur'[u] = cur[u]
           /\ pc' \in {"look", "read", "reread", "check"}
           /\ \A u \in Targets \ {t} : Looked(u)' <=> Looked(u)
  BY DEF TypeOK, Seen, Looked, Snap

\* What is looked at next was to be looked at.
LEMMA GetLooks ==
    ASSUME TypeOK, GetNext
    PROVE  \A t \in Targets : Looked(t)' <=> Looked(t)
<1>1. PICK ts \in SUBSET todo : Get(ts)
  BY DEF GetNext, Get
<1>2. todo' \cup looking' = todo /\ looking = {}
  BY <1>1 DEF Get, TypeOK
<1>3. pc = "look" /\ pc' \in {"read", "walk"}
  BY <1>1 DEF Get
<1> QED
  BY <1>2, <1>3 DEF Looked

LEMMA CurFitsStep == TypeOK /\ CurFits /\ [Next]_vars => CurFits'
<1> SUFFICES ASSUME TypeOK, CurFits, [Next]_vars PROVE CurFits'
  OBVIOUS
<1> USE DEF CurFits, TypeOK, world, inodes, loop, tick, ghosts
<1>1. CASE Start
  BY <1>1 DEF Start, Nothing, Looked
<1>2. ASSUME NEW t \in Targets, LookAt(t) PROVE CurFits'
  <2>1. PICK v \in Rows(t) : Seen(t, v)
    BY <1>2 DEF LookAt
  <2>2. v # (IF mode = "ports" THEN "absent" ELSE "down")
    <3>1. map[t] \in Owners /\ host[t] \in Owners \cup {"free"}
      OBVIOUS
    <3> QED
      BY <2>1, <3>1, WatchConstants DEF Rows, SeenAs, Marks
  <2>3. mode' = mode
    BY <2>1 DEF Seen
  <2> QED
    BY <1>2, <2>1, <2>2, <2>3, LookedStep DEF LookAt
<1>3. ASSUME NEW t \in Targets, LookFails(t) PROVE CurFits'
  <2>1. PICK v \in {"error", "down"} : Seen(t, v)
    BY <1>3 DEF LookFails
  <2>2. mode' = mode /\ mode = "ports"
    BY <1>3, <2>1 DEF Seen, LookFails
  <2> QED
    BY <1>3, <2>1, <2>2, LookedStep DEF LookFails
<1>4. CASE GetNext
  BY <1>4, GetLooks DEF GetNext, Get
<1>5. CASE Walk \/ WalkFails \/ Refresh
  BY <1>5 DEF Walk, WalkFails, Publish, Refresh, Looked
<1>6. CASE ListFails
  BY <1>6 DEF ListFails, Looked
<1>7. CASE Check \/ Tell \/ WaitTick
  BY <1>7 DEF Check, Tell, WaitTick, Looked
<1>8. ASSUME NEW t \in Targets, NEW owner \in Owners \cup {"free"}, Churn(t, owner)
      PROVE  CurFits'
  BY <1>8 DEF Churn, Looked
<1>9. CASE Expire \/ Cancel \/ UNCHANGED vars
  BY <1>9 DEF Expire, Cancel, vars, Looked
<1> QED
  BY <1>1, <1>2, <1>3, <1>4, <1>5, <1>6, <1>7, <1>8, <1>9 DEF Next, Work

\* The stream is enough: whatever was told so far adds up to the snapshot the
\* next tick is compared with.
THEOREM StreamIsEnough == Spec => []StreamAddsUp
<1>1. Init => AddsUpInv
  <2> SUFFICES ASSUME Init PROVE CurFits /\ StreamAddsUp
    BY TypeInit DEF AddsUpInv
  <2> QED
    BY DEF Init, CurFits, StreamAddsUp, Nothing, Looked
<1>2. AddsUpInv /\ [Next]_vars => AddsUpInv'
  <2> SUFFICES ASSUME AddsUpInv, [Next]_vars PROVE StreamAddsUp'
    BY TypeStep, CurFitsStep DEF AddsUpInv
  <2> USE DEF StreamAddsUp
  <2>1. CASE Tell
    <3>1. CASE first
      BY <2>1, <3>1 DEF Tell
    <3>2. CASE ~first
      <4>1. Fits(cur, Targets) /\ prev \in Snap /\ cur \in Snap
        BY <2>1 DEF AddsUpInv, CurFits, Fits, Tell, TypeOK, Looked
      <4>2. view' = Added(prev, DiffWatch(prev, cur)) /\ prev' = cur
        BY <2>1, <3>2 DEF Tell, AddsUpInv
      <4> QED
        BY <4>1, <4>2, AddedDiff
    <3> QED
      BY <3>1, <3>2
  <2>2. CASE UNCHANGED <<view, prev>>
    BY <2>2 DEF AddsUpInv
  <2>3. Tell \/ UNCHANGED <<view, prev>>
    BY DEF Next, Work, Start, GetNext, Get, Walk, WalkFails, Publish, Refresh, LookAt, LookFails, Seen, ListFails,
           Check, WaitTick, Churn, Expire, Cancel, vars, loop
  <2> QED
    BY <2>1, <2>2, <2>3
<1> QED
  BY <1>1, <1>2, PTL DEF Spec, AddsUpInv

-----------------------------------------------------------------------------
\* An observation is only late after the interrupt, and no late one gets to
\* the point where changes are told.
SilentInv == /\ late => cancelled
             /\ pc = "tell" => ~late

\* A tick that Ctrl-C cut short tells nothing.
THEOREM InterruptedTickIsSilent == Spec => InterruptIsSilent
<1>1. Init => SilentInv
  BY DEF Init, SilentInv
<1>2. SilentInv /\ [Next]_vars => SilentInv'
  <2> SUFFICES ASSUME SilentInv, [Next]_vars PROVE SilentInv'
    OBVIOUS
  <2> USE DEF SilentInv, ghosts
  <2>1. CASE Start \/ GetNext \/ Walk \/ WalkFails \/ Refresh
    BY <2>1 DEF Start, GetNext, Get, Walk, WalkFails, Publish, Refresh
  <2>2. ASSUME NEW t \in Targets, LookAt(t) \/ LookFails(t) PROVE SilentInv'
    <3>1. PICK v : Seen(t, v)
      BY <2>2 DEF LookAt, LookFails
    <3>2. pc \in {"read", "reread"}
      BY <2>2 DEF LookAt, LookFails
    <3> QED
      BY <3>1, <3>2 DEF Seen
  <2>3. CASE ListFails
    BY <2>3 DEF ListFails
  <2>4. CASE Check \/ Tell \/ WaitTick
    BY <2>4 DEF Check, Tell, WaitTick
  <2>5. CASE Expire \/ Cancel \/ UNCHANGED vars
    BY <2>5 DEF Expire, Cancel, vars
  <2>6. ASSUME NEW t \in Targets, NEW owner \in Owners \cup {"free"}, Churn(t, owner)
        PROVE  SilentInv'
    BY <2>6 DEF Churn
  <2> QED
    BY <2>1, <2>2, <2>3, <2>4, <2>5, <2>6 DEF Next, Work
<1>3. SilentInv /\ [Next]_vars => [told' # told \/ view' # view => ~late]_vars
  <2> SUFFICES ASSUME SilentInv, [Next]_vars, told' # told \/ view' # view
               PROVE  ~late
    OBVIOUS
  <2>1. Tell \/ (ListFails /\ ~cancelled)
    BY DEF Next, Work, Start, GetNext, Get, Walk, WalkFails, Publish, Refresh, LookAt, LookFails, Seen, ListFails,
           Check, WaitTick, Churn, Expire, Cancel, vars, loop
  <2> QED
    BY <2>1 DEF SilentInv, Tell
<1> QED
  BY <1>1, <1>2, <1>3, PTL DEF Spec, InterruptIsSilent
-----------------------------------------------------------------------------
\* What a target was last seen as.
LastSeen(t) == IF Looked(t) THEN cur[t] ELSE prev[t]

\* What did not change or fail since it was last seen is still listed or not
\* as it was seen, and has the owner it was seen with unless the map was old,
\* until the loop has ended.
SeenIsCurrent ==
    pc # "done" =>
        \A t \in Targets \ moved :
            /\ host[t] = "free" => LastSeen(t) = SeenAs("free")
            /\ host[t] # "free" => LastSeen(t) \in Owners
            /\ t \notin blurred => LastSeen(t) = SeenAs(host[t])

\* What this tick has seen differs from the tick before only where it is
\* news, or in an owner that is in doubt.
Differs(t) == /\ LastSeen(t) # prev[t]
              /\ ~(LastSeen(t) \in Owners /\ prev[t] \in Owners /\ t \in doubts)

OnlyNewsDiffers == pc # "done" => \A t \in Targets : Differs(t) => t \in news

\* What was told in the tick that just ended is news, or of an owner in doubt.
ToldIsNews ==
    pc = "wait" => \A c \in told : \/ c.target \in news
                                   \/ c.kind = "changed" /\ c.target \in doubts

AlarmInv == SeenIsCurrent /\ OnlyNewsDiffers /\ ToldIsNews

LEMMA AlarmInit == Init => AlarmInv
<1> SUFFICES ASSUME Init PROVE AlarmInv
  OBVIOUS
<1> QED
  BY DEF Init, AlarmInv, SeenIsCurrent, OnlyNewsDiffers, Differs, ToldIsNews, LastSeen, Looked

\* A comparison names only targets that differ, and one that is listed in both
\* snapshots as changed.
LEMMA DiffDiffers ==
    ASSUME NEW before \in Snap, NEW after \in Snap, NEW c \in DiffWatch(before, after)
    PROVE  /\ c.target \in Targets /\ before[c.target] # after[c.target]
           /\ before[c.target] \in Owners /\ after[c.target] \in Owners => c.kind = "changed"
<1>1. PICK t \in Targets : /\ before[t] # after[t]
                           /\ c = [kind |-> ChangeKind(before[t], after[t]), target |-> t,
                                   detail |-> after[t]]
  BY DEF DiffWatch
<1>2. before[t] \in Owners /\ after[t] \in Owners => ChangeKind(before[t], after[t]) = "changed"
  BY WatchConstants DEF ChangeKind, IsDown, Marks
<1> QED
  BY <1>1, <1>2

\* A step that leaves alone what was seen, told and changed.
LEMMA AlarmSame ==
    ASSUME TypeOK, AlarmInv, UNCHANGED <<host, mode, prev, told, moved, blurred, news, doubts>>,
           pc' = "wait" => pc = "wait", pc' # "done" => pc # "done",
           \A t \in Targets : LastSeen(t)' = LastSeen(t)
    PROVE  AlarmInv'
  BY DEF AlarmInv, SeenIsCurrent, OnlyNewsDiffers, Differs, ToldIsNews, SeenAs

LEMMA AlarmLook ==
    ASSUME TypeOK, AlarmInv, NEW t \in Targets, LookAt(t) PROVE AlarmInv'
<1> USE DEF TypeOK
<1>1. PICK v \in Rows(t) :
         LET blur == IF v = SeenAs(host[t]) THEN {} ELSE {t}
         IN  /\ Seen(t, v)
             /\ blurred' = (blurred \ {t}) \cup blur
             /\ doubts' = doubts \cup ({t} \cap blurred) \cup blur
  BY DEF LookAt
<1>2. /\ cur'[t] = v /\ \A u \in Targets \ {t} : cur'[u] = cur[u]
      /\ pc' \in {"look", "read", "reread", "check"}
      /\ \A u \in Targets \ {t} : Looked(u)' <=> Looked(u)
  BY <1>1, LookedStep DEF LookAt
<1>3. /\ pc \in {"read", "reread"} /\ t \in looking
      /\ news' = news \cup ({t} \cap moved) /\ moved' = moved \ {t}
      /\ host' = host /\ mode' = mode /\ prev' = prev
  BY <1>1 DEF LookAt, Seen, loop
<1>4. LastSeen(t)' = v /\ LastSeen(t) = prev[t]
  <2>1. Looked(t)'
    BY <1>1, <1>2, <1>3 DEF Looked, Seen, loop
  <2>2. ~Looked(t)
    BY <1>3 DEF Looked
  <2> QED
    BY <1>2, <1>3, <2>1, <2>2 DEF LastSeen
<1>5. \A u \in Targets \ {t} : LastSeen(u)' = LastSeen(u)
  BY <1>2, <1>3 DEF LastSeen
<1>6. /\ host[t] = "free" => v = SeenAs("free")
      /\ host[t] # "free" => v \in Owners
      /\ t \notin blurred' => v = SeenAs(host[t])
      /\ t \notin doubts' => v = SeenAs(host[t]) /\ t \notin blurred
  <2>1. map[t] \in Owners /\ Unknown \in Owners /\ host[t] \in Owners \cup {"free"}
    BY WatchConstants
  <2> QED
    BY <1>1, <2>1 DEF Rows
<1>7. SeenIsCurrent'
  <2>1. \A u \in Targets \ {t} : u \in blurred' <=> u \in blurred
    BY <1>1
  <2> QED
    BY <1>3, <1>4, <1>5, <1>6, <2>1 DEF AlarmInv, SeenIsCurrent, SeenAs
<1>8. OnlyNewsDiffers'
  <2>1. \A u \in Targets \ {t} : Differs(u)' => Differs(u)
    BY <1>1, <1>3, <1>5 DEF Differs
  <2>2. ASSUME t \notin moved PROVE ~Differs(t)'
    <3>1. /\ host[t] = "free" => prev[t] = SeenAs("free")
          /\ host[t] # "free" => prev[t] \in Owners
          /\ t \notin blurred => prev[t] = SeenAs(host[t])
      BY <1>3, <1>4, <2>2 DEF AlarmInv, SeenIsCurrent
    <3> QED
      BY <1>3, <1>4, <1>6, <3>1 DEF Differs
  <2> QED
    BY <1>3, <2>1, <2>2 DEF AlarmInv, OnlyNewsDiffers
<1>9. ToldIsNews'
  BY <1>2 DEF ToldIsNews
<1> QED
  BY <1>7, <1>8, <1>9 DEF AlarmInv

LEMMA AlarmLookFails ==
    ASSUME TypeOK, AlarmInv, NEW t \in Targets, LookFails(t) PROVE AlarmInv'
<1> USE DEF TypeOK
<1>1. PICK v \in {"error", "down"} : Seen(t, v)
  BY DEF LookFails
<1>2. /\ pc' \in {"look", "read", "reread", "check"}
      /\ \A u \in Targets \ {t} : cur'[u] = cur[u] /\ (Looked(u)' <=> Looked(u))
  BY <1>1, LookedStep DEF LookFails
<1>3. /\ pc \in {"read", "reread"}
      /\ news' = news \cup {t} /\ moved' = moved \cup {t} /\ blurred' = blurred
      /\ doubts' = doubts /\ host' = host /\ mode' = mode /\ prev' = prev
  BY <1>1 DEF LookFails, Seen, loop
<1>4. \A u \in Targets \ {t} : LastSeen(u)' = LastSeen(u)
  BY <1>2, <1>3 DEF LastSeen
<1>5. SeenIsCurrent'
  BY <1>3, <1>4 DEF AlarmInv, SeenIsCurrent, SeenAs
<1>6. OnlyNewsDiffers'
  BY <1>3, <1>4 DEF AlarmInv, OnlyNewsDiffers, Differs
<1> QED
  BY <1>2, <1>5, <1>6 DEF AlarmInv, ToldIsNews

LEMMA AlarmTell == ASSUME TypeOK, AlarmInv, Tell PROVE AlarmInv'
<1> USE DEF TypeOK
<1>1. /\ pc = "tell" /\ pc' = "wait" /\ prev' = cur /\ cur' = cur
      /\ UNCHANGED <<host, mode, moved, blurred, news, doubts>>
  BY DEF Tell, world, tick, ghosts
<1>2. \A t \in Targets : LastSeen(t)' = cur[t] /\ LastSeen(t) = cur[t]
  BY <1>1 DEF LastSeen, Looked
<1>3. \A c \in told' : \/ c.target \in news
                       \/ c.kind = "changed" /\ c.target \in doubts
  <2>1. CASE first
    BY <2>1 DEF Tell
  <2>2. CASE ~first
    <3> SUFFICES ASSUME NEW c \in DiffWatch(prev, cur), c.target \notin news
                 PROVE  c.kind = "changed" /\ c.target \in doubts
      BY <2>2 DEF Tell
    <3>1. /\ c.target \in Targets /\ prev[c.target] # cur[c.target]
          /\ prev[c.target] \in Owners /\ cur[c.target] \in Owners => c.kind = "changed"
      BY DiffDiffers
    <3>2. ~Differs(c.target)
      BY <1>1, <3>1 DEF AlarmInv, OnlyNewsDiffers
    <3> QED
      BY <1>2, <3>1, <3>2 DEF Differs
  <2> QED
    BY <2>1, <2>2
<1>4. SeenIsCurrent'
  BY <1>1, <1>2 DEF AlarmInv, SeenIsCurrent, SeenAs
<1>5. OnlyNewsDiffers'
  BY <1>1, <1>2 DEF OnlyNewsDiffers, Differs
<1> QED
  BY <1>1, <1>3, <1>4, <1>5 DEF AlarmInv, ToldIsNews

LEMMA AlarmStep == TypeOK /\ AlarmInv /\ [Next]_vars => AlarmInv'
<1> SUFFICES ASSUME TypeOK, AlarmInv, [Next]_vars PROVE AlarmInv'
  OBVIOUS
<1> USE DEF world, inodes, loop, tick, ghosts
<1>1. CASE Start
  BY <1>1 DEF Start, AlarmInv, SeenIsCurrent, OnlyNewsDiffers, Differs, ToldIsNews, LastSeen,
              Looked, SeenAs
<1>2. ASSUME NEW t \in Targets, LookAt(t) \/ LookFails(t) PROVE AlarmInv'
  BY <1>2, AlarmLook, AlarmLookFails
<1>3. CASE GetNext
  <2>1. \A t \in Targets : LastSeen(t)' = LastSeen(t)
    BY <1>3, GetLooks DEF GetNext, Get, LastSeen
  <2> QED
    BY <1>3, <2>1, AlarmSame DEF GetNext, Get
<1>4. CASE Walk \/ WalkFails \/ Refresh
  <2>1. \A t \in Targets : LastSeen(t)' = LastSeen(t)
    BY <1>4 DEF Walk, WalkFails, Publish, Refresh, LastSeen, Looked
  <2> QED
    BY <1>4, <2>1, AlarmSame DEF Walk, WalkFails, Publish, Refresh
<1>5. CASE ListFails
  BY <1>5 DEF ListFails, AlarmInv, SeenIsCurrent, OnlyNewsDiffers, Differs, ToldIsNews,
              LastSeen, Looked, SeenAs
<1>6. CASE Check \/ WaitTick
  <2>1. pc' # "done" => \A t \in Targets : LastSeen(t)' = LastSeen(t)
    BY <1>6 DEF Check, WaitTick, LastSeen, Looked
  <2>2. CASE pc' = "done"
    BY <2>2 DEF AlarmInv, SeenIsCurrent, OnlyNewsDiffers, ToldIsNews
  <2> QED
    BY <1>6, <2>1, <2>2, AlarmSame DEF Check, WaitTick
<1>7. CASE Tell
  BY <1>7, AlarmTell
<1>8. ASSUME NEW t \in Targets, NEW owner \in Owners \cup {"free"}, Churn(t, owner)
      PROVE  AlarmInv'
  <2>1. \A u \in Targets \ {t} : host'[u] = host[u]
    BY <1>8 DEF Churn, TypeOK
  <2>2. \A u \in Targets : LastSeen(u)' = LastSeen(u)
    BY <1>8 DEF Churn, LastSeen, Looked
  <2> QED
    BY <1>8, <2>1, <2>2 DEF Churn, AlarmInv, SeenIsCurrent, OnlyNewsDiffers, Differs,
                            ToldIsNews, SeenAs
<1>9. CASE Expire \/ Cancel \/ UNCHANGED vars
  <2>1. \A t \in Targets : LastSeen(t)' = LastSeen(t)
    BY <1>9 DEF Expire, Cancel, vars, LastSeen, Looked
  <2> QED
    BY <1>9, <2>1, AlarmSame DEF Expire, Cancel, vars
<1> QED
  BY <1>1, <1>2, <1>3, <1>4, <1>5, <1>6, <1>7, <1>8, <1>9 DEF Next, Work

\* A target is told to be up or down only if it changed, or could not be
\* inspected, since the tick before; with the map of inodes as old as it may
\* be, only owners are told to have changed that did not.
THEOREM AlarmsAreReal == Spec => []NoFalseAlarm
<1>1. AlarmInv => NoFalseAlarm
  BY DEF AlarmInv, ToldIsNews, NoFalseAlarm
<1> QED
  BY <1>1, AlarmInit, AlarmStep, TypeInit, TypeStep, PTL DEF Spec
=============================================================================
