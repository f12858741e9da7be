-------------------------- MODULE DashboardProofs --------------------------
(***************************************************************************)
(* Proofs about Dashboard for any number of sockets, processes, filters    *)
(* and confirmed actions: types, the cursor, the selection, the prompt and *)
(* the report shown.  The inductive invariant is TypeOK with Targets.      *)
(*                                                                         *)
(* And about what Frame draws of it on a terminal of any size: the widths  *)
(* of lines that are joined, padded and truncated, and where on a line a   *)
(* piece is.                                                               *)
(*                                                                         *)
(* And about how KeyReader makes keys of bytes, for any keys typed and any *)
(* cuts: only what a read cuts is misread.                                 *)
(***************************************************************************)
EXTENDS Screens, KeyReader, FiniteSetTheorems, FunctionTheorems, SequenceTheorems,
        WellFoundedInduction, TLAPS

\* A report is only ever asked for, fetched and sent for a real socket.
Targets == /\ rpc # "none" => reportWant # None
           /\ rpc \in {"inspect", "send"} => rheld.sock # None
           /\ \A rep \in reportChan : rep.sock # None

Inductive == TypeOK /\ Targets

-----------------------------------------------------------------------------
(* Rows and positions.                                                     *)

\* Any set of sockets is finite, and so is the set of those before one.
LEMMA RowsFinite ==
    ASSUME NEW rows \in SUBSET Sockets
    PROVE  /\ IsFiniteSet(rows) /\ Cardinality(rows) \in Nat
           /\ \A s \in Sockets : /\ IsFiniteSet({t \in rows : t < s})
                                 /\ IndexOf(rows, s) \in Nat
<1>1. IsFiniteSet(Sockets)
  BY DashboardConstants, FS_Interval DEF Sockets
<1>2. \A T \in SUBSET Sockets : IsFiniteSet(T) /\ Cardinality(T) \in Nat
  BY <1>1, FS_Subset, FS_CardinalityType
<1>3. \A s \in Sockets : {t \in rows : t < s} \in SUBSET Sockets
  OBVIOUS
<1> QED
  BY <1>2, <1>3 DEF IndexOf

\* A row further down has a larger position.
LEMMA IndexGrows ==
    ASSUME NEW rows \in SUBSET Sockets, NEW s \in rows, NEW t \in rows, s < t
    PROVE  IndexOf(rows, s) < IndexOf(rows, t)
<1> DEFINE S == {u \in rows : u < s}
           T == {u \in rows : u < t}
<1>0. \A u \in rows : u \in Int
  BY DashboardConstants DEF Sockets
<1>1. S \subseteq T /\ s \in T /\ s \notin S
  BY <1>0
<1>2. IsFiniteSet(T) /\ Cardinality(T) \in Nat /\ IsFiniteSet(S) /\ Cardinality(S) \in Nat
  BY RowsFinite, FS_CardinalityType
<1>3. Cardinality(S) <= Cardinality(T) /\ Cardinality(S) # Cardinality(T)
  BY <1>1, <1>2, FS_Subset
<1> QED
  BY <1>2, <1>3 DEF IndexOf

\* Positions run from the first row to one less than the number of rows.
LEMMA IndexBelow ==
    ASSUME NEW rows \in SUBSET Sockets, NEW s \in rows
    PROVE  IndexOf(rows, s) \in 0..(Cardinality(rows) - 1)
<1> DEFINE S == {u \in rows : u < s}
<1>1. S \subseteq rows /\ s \notin S
  BY DashboardConstants DEF Sockets
<1>2. IsFiniteSet(rows) /\ Cardinality(rows) \in Nat /\ Cardinality(S) \in Nat
  BY RowsFinite, FS_CardinalityType
<1>3. Cardinality(S) <= Cardinality(rows) /\ Cardinality(S) # Cardinality(rows)
  BY <1>1, <1>2, FS_Subset
<1> QED
  BY <1>2, <1>3 DEF IndexOf

\* Every position is that of a row: positions are an injection of the rows
\* into as many numbers.
LEMMA EveryPosition ==
    ASSUME NEW rows \in SUBSET Sockets, NEW k \in 0..(Cardinality(rows) - 1)
    PROVE  \E s \in rows : IndexOf(rows, s) = k
<1> DEFINE K == 0..(Cardinality(rows) - 1)
           f == [s \in rows |-> IndexOf(rows, s)]
<1>1. IsFiniteSet(rows) /\ Cardinality(rows) \in Nat
  BY RowsFinite
<1>2. IsFiniteSet(K) /\ Cardinality(K) = Cardinality(rows)
  BY <1>1, FS_Interval
<1>3. f \in [rows -> K]
  BY IndexBelow
<1>4. \A s, t \in rows : f[s] = f[t] => s = t
  <2> SUFFICES ASSUME NEW s \in rows, NEW t \in rows, f[s] = f[t], s # t PROVE FALSE
    OBVIOUS
  <2>1. s < t \/ t < s
    BY DashboardConstants DEF Sockets
  <2>2. IndexOf(rows, s) \in Nat /\ IndexOf(rows, t) \in Nat
    BY RowsFinite
  <2> QED
    BY <2>1, <2>2, IndexGrows
<1>5. f \in Injection(rows, K)
  <2> HIDE DEF f, K
  <2> QED
    BY <1>3, <1>4, Fun_IsInj
<1>6. f \in Surjection(rows, K)
  BY <1>1, <1>2, <1>5, FS_Injection
<1>7. \E s \in rows : f[s] = k
  BY <1>6 DEF Surjection
<1> QED
  BY <1>7

\* RowAt is a row or none, and is one at every position there is.
LEMMA RowAtType ==
    ASSUME NEW rows \in SUBSET Sockets, NEW k
    PROVE  RowAt(rows, k) \in rows \cup {None}
  BY DEF RowAt

LEMMA RowAtPosition ==
    ASSUME NEW rows \in SUBSET Sockets, NEW k \in 0..(Cardinality(rows) - 1)
    PROVE  RowAt(rows, k) \in rows /\ RowAt(rows, k) # None
  BY EveryPosition, DashboardConstants DEF RowAt, Sockets, None

-----------------------------------------------------------------------------
(* What the helpers of the event loop give back.                           *)

\* An owner, a row, a report: the values that stand for none are of the type.
LEMMA Sentinels ==
    /\ NoReport \in Report /\ NoRow \in Row /\ NoListing \in Listing
    /\ NoFilter \in Filters
    /\ Unknown \in Owners /\ Free \in Owners
    /\ Pids \subseteq Owners
    /\ \A s \in Sockets : s # None /\ PortOf[s] \in Ports
    /\ Idle \in [pc : {"none", "run", "refresh", "done"},
                 kind : Kinds \cup {"none"}, target : Row, rep : Report]
  BY DashboardConstants
     DEF NoReport, Report, NoRow, Row, NoListing, Listing, Unknown, Free, Owners, None,
         Sockets, Ports, Idle

\* The key steps take the cursor to another position, above 0.
LEMMA MovesType ==
    ASSUME NEW k \in Nat, NEW n \in Nat, NEW j \in Moves(k, n)
    PROVE  j \in Nat
  BY DashboardConstants DEF Moves, MoveUp, MoveDown, PageUp, PageDown, Home, End

\* A cursor brought back by RecomputeFilter or SetEntries is at a position
\* the list has, and at 0 if the list is empty.
LEMMA ClampInRange ==
    ASSUME NEW k \in Nat, NEW n \in Nat
    PROVE  Clamp(k, n) \in Nat /\ (n = 0 => Clamp(k, n) = 0) /\ (n > 0 => Clamp(k, n) < n)
  BY DEF Clamp

LEMMA RestoreInRange ==
    ASSUME NEW rows \in SUBSET Sockets, NEW s, cursor \in Nat
    PROVE  /\ Restore(rows, s) \in Nat
           /\ rows = {} => Restore(rows, s) = 0
           /\ rows # {} => Restore(rows, s) < Cardinality(rows)
<1>1. IsFiniteSet(rows) /\ Cardinality(rows) \in Nat
  BY RowsFinite
<1>2. rows = {} <=> Cardinality(rows) = 0
  BY <1>1, FS_EmptySet
<1>3. CASE s \in rows
  BY <1>1, <1>3, IndexBelow DEF Restore
<1>4. CASE s \notin rows
  BY <1>1, <1>2, <1>4, ClampInRange DEF Restore
<1> QED
  BY <1>3, <1>4

\* The rows that are visible are sockets, and the row under the cursor one of them.
LEMMA VisibleType ==
    /\ \A e, f : Rows(e, f) \in SUBSET Sockets
    /\ Visible \in SUBSET Sockets
    /\ Selected \in Visible \cup {None}
    /\ Cardinality(Visible) \in Nat
  BY RowAtType, RowsFinite DEF Visible, Rows, Selected

\* ensureSelectedReportLocked keeps the types and asks for a real socket.
LEMMA EnsureType ==
    ASSUME Inductive, NEW s \in Sockets \cup {None}, NEW shown \in Report,
           EnsureSelectedReport(s, shown)
    PROVE  /\ selReport' \in Report
           /\ reportWant' \in Sockets \cup {None}
           /\ rpc' \in {"none", "start", "inspect", "send", "check", "release"}
           /\ rpc' # "none" => reportWant' # None
           /\ rpc' \in {"inspect", "send"} => rpc = rpc'
           /\ rpending' \in BOOLEAN
<1>1. CASE s = None
  BY <1>1, Sentinels DEF EnsureSelectedReport, Inductive, TypeOK, Targets
<1>2. CASE s # None
  <2>1. /\ selReport' = IF cache[PortOf[s]] # NoReport THEN cache[PortOf[s]] ELSE shown
        /\ reportWant' = s
        /\ RunReport
    BY <1>2 DEF EnsureSelectedReport
  <2>2. PortOf[s] \in Ports /\ cache[PortOf[s]] \in Report
    BY <1>2, Sentinels DEF Inductive, TypeOK
  <2>3. CASE rpc = "none"
    BY <1>2, <2>1, <2>2, <2>3 DEF RunReport, Inductive, TypeOK
  <2>4. CASE rpc # "none"
    BY <1>2, <2>1, <2>2, <2>4 DEF RunReport, Inductive, TypeOK
  <2> QED
    BY <2>3, <2>4
<1> QED
  BY <1>1, <1>2

-----------------------------------------------------------------------------
(* The inductive invariant.                                                *)

\* The host's programs change one owner.
LEMMA ChurnKeeps ==
    ASSUME Inductive, NEW c \in Changing, Churn(c[1], c[2])
    PROVE  Inductive'
<1>1. host' \in Listing /\ churn' \in Nat
  BY DashboardConstants DEF Churn, Inductive, TypeOK, Listing
<1> QED
  BY <1>1 DEF Churn, Inductive, TypeOK, Targets, ui, lists, reports

\* A step of the listing goroutine touches its own state and the channel.
LEMMA ListKeeps == Inductive /\ ListStep => Inductive'
<1> SUFFICES ASSUME Inductive, ListStep PROVE Inductive'
  OBVIOUS
<1> USE DEF Inductive, TypeOK, Targets, env, ui, lists, reports
<1>1. CASE ListFetch
  BY <1>1 DEF ListFetch
<1>2. CASE ListFail
  BY <1>2 DEF ListFail
<1>3. CASE ListSend
  BY <1>3, Sentinels DEF ListSend
<1>4. CASE ListRepeat
  BY <1>4, Sentinels DEF ListRepeat
<1>5. CASE ListRelease
  BY <1>5 DEF ListRelease
<1> QED
  BY <1>1, <1>2, <1>3, <1>4, <1>5 DEF ListStep

\* A step of the report goroutine always has a socket to look at.
LEMMA ReportKeeps == Inductive /\ ReportStep => Inductive'
<1> SUFFICES ASSUME Inductive, ReportStep PROVE Inductive'
  OBVIOUS
<1> USE DEF Inductive, TypeOK, Targets, env, ui, lists, reports
<1>1. CASE ReportLoad
  <2>1. rheld' \in Report /\ rheld'.sock # None
    BY <1>1, Sentinels DEF ReportLoad, Report
  <2> QED
    BY <1>1, <2>1 DEF ReportLoad
<1>2. CASE ReportInspect
  <2>1. rheld.sock \in Sockets /\ host[rheld.sock] \in Owners
    BY <1>2 DEF ReportInspect, Report, Listing
  <2>2. rheld' \in Report /\ rheld'.sock # None
    BY <1>2, <2>1 DEF ReportInspect, Report
  <2> QED
    BY <1>2, <2>2 DEF ReportInspect
<1>3. CASE ReportFail
  BY <1>3 DEF ReportFail
<1>4. CASE ReportSend
  BY <1>4, Sentinels DEF ReportSend
<1>5. CASE ReportRepeat
  BY <1>5, Sentinels DEF ReportRepeat
<1>6. CASE ReportRelease
  BY <1>6 DEF ReportRelease
<1> QED
  BY <1>1, <1>2, <1>3, <1>4, <1>5, <1>6 DEF ReportStep

\* The cases of the event loop that take a tick, a listing or a report.
LEMMA TakeKeeps == Inductive /\ (Tick \/ TakeListing \/ TakeReport \/ Quit) => Inductive'
<1> SUFFICES ASSUME Inductive, Tick \/ TakeListing \/ TakeReport \/ Quit PROVE Inductive'
  OBVIOUS
<1>1. CASE Tick
  BY <1>1 DEF Tick, RunList, Inductive, TypeOK, Targets, env, ui, lists, reports
<1>2. CASE TakeListing
  <2>1. PICK e \in listChan :
           /\ entries' = e
           /\ cursor' = Restore(Rows(e, filter), Selected)
           /\ EnsureSelectedReport(RowAt(Rows(e, filter), cursor'), selReport)
    BY <1>2 DEF TakeListing
  <2>2. RowAt(Rows(e, filter), cursor') \in Sockets \cup {None}
    BY RowAtType, VisibleType
  <2>3. /\ selReport' \in Report
        /\ reportWant' \in Sockets \cup {None}
        /\ rpc' \in {"none", "start", "inspect", "send", "check", "release"}
        /\ rpc' # "none" => reportWant' # None
        /\ rpc' \in {"inspect", "send"} => rpc = rpc'
        /\ rpending' \in BOOLEAN
    BY <2>1, <2>2, EnsureType DEF Inductive, TypeOK
  <2>4. cursor' \in Nat
    BY <2>1, RestoreInRange, VisibleType DEF Inductive, TypeOK
  <2>5. e \in Listing
    BY <2>1 DEF Inductive, TypeOK
  <2> QED
    BY <1>2, <2>1, <2>3, <2>4, <2>5 DEF TakeListing, Inductive, TypeOK, Targets, env
<1>3. CASE TakeReport
  <2>1. \A rep \in reportChan : rep \in Report /\ PortOf[rep.sock] \in Ports
    BY Sentinels DEF Inductive, TypeOK, Targets, Report
  <2>2. cache' \in [Ports -> Report] /\ selReport' \in Report
    BY <1>3, <2>1 DEF TakeReport, Inductive, TypeOK
  <2> QED
    BY <1>3, <2>2 DEF TakeReport, Inductive, TypeOK, Targets, env, ui, lists
<1>4. CASE Quit
  BY <1>4 DEF Quit, Inductive, TypeOK, Targets, env, ui, lists, reports
<1> QED
  BY <1>1, <1>2, <1>3, <1>4

\* Keys: the mode, the filter, the cursor and the prompt.
LEMMA KeyKeeps == Inductive /\ Key => Inductive'
<1> SUFFICES ASSUME Inductive, Key PROVE Inductive'
  OBVIOUS
<1>1. ASSUME NEW k \in Moves(cursor, Cardinality(Visible)), Move(k) PROVE Inductive'
  <2>1. k \in Nat
    BY MovesType, VisibleType DEF Inductive, TypeOK
  <2>2. RowAt(Visible, k) \in Sockets \cup {None}
    BY RowAtType, VisibleType
  <2>3. EnsureSelectedReport(RowAt(Visible, k), selReport)
    BY <1>1 DEF Move
  <2>4. /\ selReport' \in Report
        /\ reportWant' \in Sockets \cup {None}
        /\ rpc' \in {"none", "start", "inspect", "send", "check", "release"}
        /\ rpc' # "none" => reportWant' # None
        /\ rpc' \in {"inspect", "send"} => rpc = rpc'
        /\ rpending' \in BOOLEAN
    BY <2>2, <2>3, EnsureType DEF Inductive, TypeOK
  <2> QED
    BY <1>1, <2>1, <2>4 DEF Move, Inductive, TypeOK, Targets, env, lists
<1>2. ASSUME NEW m \in Overlays, Enter(m) PROVE Inductive'
  BY <1>2, DashboardConstants DEF Enter, Inductive, TypeOK, Targets, env, lists, reports
<1>3. CASE Leave
  BY <1>3 DEF Leave, Inductive, TypeOK, Targets, env, lists, reports
<1>4. ASSUME NEW f \in Filters, SetFilter(f) PROVE Inductive'
  <2> DEFINE k == Clamp(cursor, Cardinality(Rows(entries, f)))
  <2>1. k \in Nat
    BY ClampInRange, RowsFinite, VisibleType DEF Inductive, TypeOK
  <2>2. RowAt(Rows(entries, f), k) \in Sockets \cup {None}
    BY RowAtType, VisibleType
  <2>3. cursor' = k /\ EnsureSelectedReport(RowAt(Rows(entries, f), k), selReport)
    BY <1>4 DEF SetFilter
  <2>4. /\ selReport' \in Report
        /\ reportWant' \in Sockets \cup {None}
        /\ rpc' \in {"none", "start", "inspect", "send", "check", "release"}
        /\ rpc' # "none" => reportWant' # None
        /\ rpc' \in {"inspect", "send"} => rpc = rpc'
        /\ rpending' \in BOOLEAN
    BY <2>2, <2>3, EnsureType DEF Inductive, TypeOK
  <2>5. mode' \in {"normal", "filter", "confirm", "help"} /\ filter' = f
    BY <1>4 DEF SetFilter, Inductive, TypeOK
  <2> QED
    BY <1>4, <2>1, <2>3, <2>4, <2>5 DEF SetFilter, Inductive, TypeOK, Targets, env, lists
<1>5. ASSUME NEW kind \in Kinds, Prompt(kind) PROVE Inductive'
  <2>1. SelectedRow \in Row
    BY Sentinels, VisibleType DEF SelectedRow, Row, Report, Inductive, TypeOK, Listing
  <2> QED
    BY <1>5, <2>1 DEF Prompt, Inductive, TypeOK, Targets, env, lists, reports
<1>6. CASE Cancel
  BY <1>6 DEF Cancel, Inductive, TypeOK, Targets, env, lists, reports
<1>7. ASSUME NEW a \in Acts, Confirm(a) PROVE Inductive'
  BY <1>7 DEF Confirm, Inductive, TypeOK, Targets, env, lists, reports
<1> QED
  BY <1>1, <1>2, <1>3, <1>4, <1>5, <1>6, <1>7 DEF Key

\* The goroutine of a confirmed action.
LEMMA ActKeeps == ASSUME Inductive, NEW a \in Acts, ActStep(a) PROVE Inductive'
<1>1. CASE ActRun(a)
  <2>1. act' \in [Acts -> [pc : {"none", "run", "refresh", "done"},
                           kind : Kinds \cup {"none"}, target : Row, rep : Report]]
    BY <1>1, Sentinels DEF ActRun, Inductive, TypeOK
  <2>2. host' \in Listing
    <3>1. CASE UNCHANGED host
      BY <3>1 DEF Inductive, TypeOK
    <3>2. ASSUME NEW heir \in Owners,
                 host' = [s \in Sockets |-> IF host[s] = Victim(a) THEN heir ELSE host[s]]
          PROVE  host' \in Listing
      BY <3>2 DEF Inductive, TypeOK, Listing
    <3> QED
      BY <1>1, <3>1, <3>2, Sentinels DEF ActRun
  <2> QED
    BY <1>1, <2>1, <2>2 DEF ActRun, Inductive, TypeOK, Targets, ui, lists, reports
<1>2. CASE ActRefresh(a)
  <2>1. act' \in [Acts -> [pc : {"none", "run", "refresh", "done"},
                           kind : Kinds \cup {"none"}, target : Row, rep : Report]]
    BY <1>2 DEF ActRefresh, Inductive, TypeOK
  <2>2. lpc' \in {"none", "start", "send", "check", "release"} /\ lpending' \in BOOLEAN
    BY <1>2 DEF ActRefresh, RunList, Inductive, TypeOK
  <2> QED
    BY <1>2, <2>1, <2>2 DEF ActRefresh, Inductive, TypeOK, Targets, env, ui, reports
<1> QED
  BY <1>1, <1>2 DEF ActStep

\* The variables of the dashboard keep their types.
LEMMA Invariance == Spec => []Inductive
<1>1. Init => Inductive
  <2> SUFFICES ASSUME Init PROVE Inductive
    OBVIOUS
  <2>1. host \in Listing
    BY DashboardConstants DEF Init, Listing
  <2> QED
    BY <2>1, Sentinels DEF Init, Inductive, TypeOK, Targets
<1>2. Inductive /\ [Next]_vars => Inductive'
  <2> SUFFICES ASSUME Inductive, [Next]_vars PROVE Inductive'
    OBVIOUS
  <2>1. CASE UNCHANGED vars
    BY <2>1 DEF vars, env, ui, lists, reports, Inductive, TypeOK, Targets
  <2> QED
    BY <2>1, ChurnKeeps, ListKeeps, ReportKeeps, TakeKeeps, KeyKeeps, ActKeeps DEF Next
<1> QED
  BY <1>1, <1>2, PTL DEF Spec

\* Whatever arrives from the keyboard, the ticker and the fetches, in any
\* order, the state of app.go and model.go stays inside its types.
THEOREM TypeCorrect == Spec => []TypeOK
  BY Invariance, PTL DEF Inductive

-----------------------------------------------------------------------------
(* The cursor and the report shown.                                        *)

\* Only a listing, a cursor key or the filter move the cursor or its rows,
\* and only these and a report touch what is shown.
LEMMA WhatMovesTheCursor ==
    [Next]_vars =>
        \/ UNCHANGED <<entries, filter, cursor, cache, selReport>>
        \/ TakeReport
        \/ TakeListing
        \/ \E k \in Moves(cursor, Cardinality(Visible)) : Move(k)
        \/ \E f \in Filters : SetFilter(f)
<1> SUFFICES ASSUME [Next]_vars,
                    ~(UNCHANGED <<entries, filter, cursor, cache, selReport>>)
             PROVE  \/ TakeReport \/ TakeListing
                    \/ \E k \in Moves(cursor, Cardinality(Visible)) : Move(k)
                    \/ \E f \in Filters : SetFilter(f)
  OBVIOUS
<1> USE DEF ui
<1>1. ASSUME NEW c \in Changing, Churn(c[1], c[2]) PROVE FALSE
  BY <1>1 DEF Churn
<1>2. ~ListStep
  BY DEF ListStep, ListFetch, ListFail, ListSend, ListRepeat, ListRelease
<1>3. ~ReportStep
  BY DEF ReportStep, ReportLoad, ReportInspect, ReportFail, ReportSend, ReportRepeat,
         ReportRelease
<1>4. ~Tick /\ ~Quit
  BY DEF Tick, Quit
<1>5. ASSUME NEW a \in Acts, ActStep(a) PROVE FALSE
  BY <1>5 DEF ActStep, ActRun, ActRefresh
<1>6. ASSUME Key
      PROVE  \/ \E k \in Moves(cursor, Cardinality(Visible)) : Move(k)
             \/ \E f \in Filters : SetFilter(f)
  BY <1>6 DEF Key, Enter, Leave, Prompt, Cancel, Confirm
<1>7. ~(UNCHANGED vars)
  BY DEF vars
<1> QED
  BY <1>1, <1>2, <1>3, <1>4, <1>5, <1>6, <1>7 DEF Next

\* A cursor inside the list is on a row, and one on a row is inside the list.
LEMMA InRangeMeansOnRow ==
    ASSUME NEW rows \in SUBSET Sockets, NEW k \in Nat
    PROVE  /\ k < Cardinality(rows) => RowAt(rows, k) # None
           /\ RowAt(rows, k) # None => k < Cardinality(rows)
<1>1. Cardinality(rows) \in Nat
  BY RowsFinite
<1>2. ASSUME k < Cardinality(rows) PROVE RowAt(rows, k) # None
  BY <1>1, <1>2, RowAtPosition
<1>3. ASSUME RowAt(rows, k) # None PROVE k < Cardinality(rows)
  <2>1. PICK s \in rows : IndexOf(rows, s) = k
    BY <1>3 DEF RowAt
  <2> QED
    BY <1>1, <2>1, IndexBelow
<1> QED
  BY <1>2, <1>3

\* Every cursor key stays inside the list.
LEMMA MovesInRange ==
    ASSUME NEW n \in Nat, NEW k \in Nat, n = 0 => k = 0, n > 0 => k < n, NEW j \in Moves(k, n)
    PROVE  j \in Nat /\ (n = 0 => j = 0) /\ (n > 0 => j < n)
  BY DashboardConstants DEF Moves, MoveUp, MoveDown, PageUp, PageDown, Home, End

\* No key, filter or listing leaves the cursor of model.go beyond the rows.
THEOREM CursorStaysOnRow == Spec => []CursorOnRow
<1>1. Init => CursorOnRow
  BY DEF Init, CursorOnRow, Visible, Rows, NoListing
<1>2. ASSUME Inductive, CursorOnRow, [Next]_vars PROVE CursorOnRow'
  <2> DEFINE Fits(rows, k) == IF rows = {} THEN k = 0 ELSE RowAt(rows, k) # None
  <2>0. ASSUME NEW rows \in SUBSET Sockets, NEW k \in Nat,
               rows = {} => k = 0, rows # {} => k < Cardinality(rows)
        PROVE  Fits(rows, k)
    BY <2>0, InRangeMeansOnRow
  <2>1. CASE UNCHANGED <<entries, filter, cursor>>
    BY <1>2, <2>1 DEF CursorOnRow, Selected, Visible
  <2>2. CASE TakeListing
    <3>1. PICK e \in listChan : /\ entries' = e
                                /\ cursor' = Restore(Rows(e, filter), Selected)
                                /\ filter' = filter
      BY <2>2 DEF TakeListing
    <3>2. Fits(Rows(e, filter), cursor')
      BY <1>2, <2>0, <3>1, RestoreInRange, VisibleType DEF Inductive, TypeOK
    <3> QED
      BY <3>1, <3>2 DEF CursorOnRow, Selected, Visible
  <2>3. ASSUME NEW k \in Moves(cursor, Cardinality(Visible)), Move(k) PROVE CursorOnRow'
    <3>1. cursor \in Nat /\ Visible \in SUBSET Sockets /\ Cardinality(Visible) \in Nat
      BY <1>2, VisibleType DEF Inductive, TypeOK
    <3>2. Visible = {} <=> Cardinality(Visible) = 0
      BY <3>1, RowsFinite, FS_EmptySet
    <3>3. Cardinality(Visible) > 0 => cursor < Cardinality(Visible)
      BY <1>2, <3>1, <3>2, InRangeMeansOnRow DEF CursorOnRow, Selected
    <3>4. Cardinality(Visible) = 0 => cursor = 0
      BY <1>2, <3>2 DEF CursorOnRow
    <3>5. /\ k \in Nat
          /\ Visible = {} => k = 0
          /\ Visible # {} => k < Cardinality(Visible)
      BY <3>1, <3>2, <3>3, <3>4, MovesInRange
    <3>6. cursor' = k /\ UNCHANGED <<entries, filter>>
      BY <2>3 DEF Move
    <3> QED
      BY <2>0, <3>1, <3>5, <3>6 DEF CursorOnRow, Selected, Visible
  <2>4. ASSUME NEW f \in Filters, SetFilter(f) PROVE CursorOnRow'
    <3> DEFINE rows == Rows(entries, f)
    <3>1. /\ filter' = f /\ UNCHANGED entries
          /\ cursor' = Clamp(cursor, Cardinality(rows))
      BY <2>4 DEF SetFilter
    <3>2. rows \in SUBSET Sockets /\ IsFiniteSet(rows) /\ Cardinality(rows) \in Nat
      BY VisibleType, RowsFinite
    <3>3. rows = {} <=> Cardinality(rows) = 0
      BY <3>2, FS_EmptySet
    <3>4. /\ cursor' \in Nat
          /\ rows = {} => cursor' = 0
          /\ rows # {} => cursor' < Cardinality(rows)
      <4> HIDE DEF rows
      <4>1. cursor \in Nat
        BY <1>2 DEF Inductive, TypeOK
      <4>2. /\ Clamp(cursor, Cardinality(rows)) \in Nat
            /\ Cardinality(rows) = 0 => Clamp(cursor, Cardinality(rows)) = 0
            /\ Cardinality(rows) > 0 => Clamp(cursor, Cardinality(rows)) < Cardinality(rows)
        BY <3>2, <4>1, ClampInRange
      <4>3. rows # {} => Cardinality(rows) > 0
        BY <3>2, <3>3
      <4> QED
        BY <3>1, <3>3, <4>2, <4>3
    <3> QED
      BY <2>0, <3>1, <3>2, <3>4 DEF CursorOnRow, Selected, Visible
  <2>5. CASE TakeReport
    BY <1>2, <2>5 DEF TakeReport, ui, CursorOnRow, Selected, Visible
  <2> QED
    BY <1>2, <2>1, <2>2, <2>3, <2>4, <2>5, WhatMovesTheCursor
<1> QED
  BY <1>1, <1>2, Invariance, PTL DEF Spec

\* ensureSelectedReportLocked shows what is cached for the row selected.
LEMMA EnsureShows ==
    ASSUME NEW s, NEW shown, EnsureSelectedReport(s, shown), s # None,
           cache[PortOf[s]] # NoReport
    PROVE  selReport' = cache[PortOf[s]]
  BY DEF EnsureSelectedReport

\* Once a report of the selected port is cached, the last one is shown.
THEOREM ShownReportIsLast == Spec => []CachedSelectionShown
<1>1. Init => CachedSelectionShown
  BY DEF Init, CachedSelectionShown, Selected, Visible, Rows, RowAt, NoListing
<1>2. ASSUME Inductive, CachedSelectionShown, [Next]_vars PROVE CachedSelectionShown'
  <2>1. CASE UNCHANGED <<entries, filter, cursor, cache, selReport>>
    BY <1>2, <2>1 DEF CachedSelectionShown, Selected, Visible
  <2>2. CASE TakeListing
    <3>1. PICK e \in listChan :
             /\ entries' = e
             /\ cursor' = Restore(Rows(e, filter), Selected)
             /\ EnsureSelectedReport(RowAt(Rows(e, filter), cursor'), selReport)
      BY <2>2 DEF TakeListing
    <3>2. filter' = filter /\ cache' = cache
      BY <2>2 DEF TakeListing
    <3>3. Selected' = RowAt(Rows(e, filter), cursor')
      BY <3>1, <3>2 DEF Selected, Visible
    <3> QED
      BY <3>1, <3>2, <3>3, EnsureShows DEF CachedSelectionShown
  <2>3. CASE TakeReport
    <3>1. PICK rep \in reportChan :
             /\ cache' = [cache EXCEPT ![PortOf[rep.sock]] = rep]
             /\ selReport' = IF Selected # None /\ PortOf[Selected] = PortOf[rep.sock]
                                THEN rep ELSE selReport
      BY <2>3 DEF TakeReport
    <3>2. Selected' = Selected
      BY <2>3 DEF TakeReport, ui, Selected, Visible
    <3>3. Selected # None => Selected \in Sockets /\ PortOf[Selected] \in Ports
      BY VisibleType, Sentinels
    <3>4. cache \in [Ports -> Report]
      BY <1>2 DEF Inductive, TypeOK
    <3> QED
      BY <1>2, <3>1, <3>2, <3>3, <3>4 DEF CachedSelectionShown
  <2>4. ASSUME NEW k \in Moves(cursor, Cardinality(Visible)), Move(k)
        PROVE  CachedSelectionShown'
    <3>1. /\ Selected' = RowAt(Visible, k)
          /\ cache' = cache
          /\ EnsureSelectedReport(RowAt(Visible, k), selReport)
      BY <2>4 DEF Move, Selected, Visible
    <3> QED
      BY <3>1, EnsureShows DEF CachedSelectionShown
  <2>5. ASSUME NEW f \in Filters, SetFilter(f) PROVE CachedSelectionShown'
    <3>1. /\ Selected' = RowAt(Rows(entries, f), cursor')
          /\ cache' = cache
          /\ EnsureSelectedReport(RowAt(Rows(entries, f), cursor'), selReport)
      BY <2>5 DEF SetFilter, Selected, Visible
    <3> QED
      BY <3>1, EnsureShows DEF CachedSelectionShown
  <2> QED
    BY <1>2, <2>1, <2>2, <2>3, <2>4, <2>5, WhatMovesTheCursor
<1> QED
  BY <1>1, <1>2, Invariance, PTL DEF Spec

-----------------------------------------------------------------------------
(* The prompt.                                                             *)

\* What a prompt and the goroutines rest on.
LEMMA PromptFrame ==
    [Next]_vars =>
        \/ UNCHANGED <<mode, confirmAction, confirmTarget, act>>
        \/ /\ mode # "confirm" /\ mode' # "confirm"
           /\ UNCHANGED <<confirmAction, confirmTarget, act>>
        \/ \E kind \in Kinds : Prompt(kind)
        \/ Cancel
        \/ \E a \in Acts : Confirm(a)
        \/ \E a \in Acts : /\ ActStep(a)
                           /\ UNCHANGED <<mode, confirmAction, confirmTarget>>
<1> SUFFICES ASSUME [Next]_vars,
                    ~(UNCHANGED <<mode, confirmAction, confirmTarget, act>>)
             PROVE  \/ /\ mode # "confirm" /\ mode' # "confirm"
                       /\ UNCHANGED <<confirmAction, confirmTarget, act>>
                    \/ \E kind \in Kinds : Prompt(kind)
                    \/ Cancel
                    \/ \E a \in Acts : Confirm(a)
                    \/ \E a \in Acts : /\ ActStep(a)
                                       /\ UNCHANGED <<mode, confirmAction, confirmTarget>>
  OBVIOUS
<1> USE DEF ui
<1>1. ASSUME NEW c \in Changing, Churn(c[1], c[2]) PROVE FALSE
  BY <1>1 DEF Churn
<1>2. ~ListStep
  BY DEF ListStep, ListFetch, ListFail, ListSend, ListRepeat, ListRelease
<1>3. ~ReportStep
  BY DEF ReportStep, ReportLoad, ReportInspect, ReportFail, ReportSend, ReportRepeat,
         ReportRelease
<1>4. ~Tick /\ ~Quit /\ ~TakeListing /\ ~TakeReport
  BY DEF Tick, Quit, TakeListing, TakeReport
<1>5. ASSUME NEW a \in Acts, ActStep(a)
      PROVE  UNCHANGED <<mode, confirmAction, confirmTarget>>
  BY <1>5 DEF ActStep, ActRun, ActRefresh
<1>6. ASSUME NEW k, Move(k) PROVE FALSE
  BY <1>6 DEF Move
<1>7. ASSUME NEW m \in Overlays, Enter(m)
      PROVE  /\ mode # "confirm" /\ mode' # "confirm"
             /\ UNCHANGED <<confirmAction, confirmTarget, act>>
  BY <1>7, DashboardConstants DEF Enter
<1>8. ASSUME Leave
      PROVE  /\ mode # "confirm" /\ mode' # "confirm"
             /\ UNCHANGED <<confirmAction, confirmTarget, act>>
  BY <1>8 DEF Leave
<1>9. ASSUME NEW f \in Filters, SetFilter(f)
      PROVE  /\ mode # "confirm" /\ mode' # "confirm"
             /\ UNCHANGED <<confirmAction, confirmTarget, act>>
  BY <1>9 DEF SetFilter
<1>10. ~(UNCHANGED vars)
  BY DEF vars
<1> QED
  BY <1>1, <1>2, <1>3, <1>4, <1>5, <1>6, <1>7, <1>8, <1>9, <1>10 DEF Next, Key

\* No order of keys, listings and finished actions confirms a prompt that was
\* not raised for a known process, or runs an action nobody armed.
THEOREM PromptStaysArmed == Spec => []PromptArmed
<1>1. Init => PromptArmed
  BY DEF Init, PromptArmed, Idle
<1>2. ASSUME Inductive, PromptArmed, [Next]_vars PROVE PromptArmed'
  <2>1. CASE UNCHANGED <<mode, confirmAction, confirmTarget, act>>
    BY <1>2, <2>1 DEF PromptArmed
  <2>2. CASE /\ mode # "confirm" /\ mode' # "confirm"
             /\ UNCHANGED <<confirmAction, confirmTarget, act>>
    BY <1>2, <2>2 DEF PromptArmed
  <2>3. ASSUME NEW kind \in Kinds, Prompt(kind) PROVE PromptArmed'
    BY <1>2, <2>3, DashboardConstants DEF Prompt, PromptArmed, SelectedRow
  <2>4. CASE Cancel
    BY <1>2, <2>4 DEF Cancel, PromptArmed
  <2>5. ASSUME NEW a \in Acts, Confirm(a) PROVE PromptArmed'
    <3>1. confirmAction \in Kinds /\ confirmTarget.pid > 0
      BY <1>2, <2>5 DEF Confirm, PromptArmed, Inductive, TypeOK
    <3> QED
      BY <1>2, <2>5, <3>1 DEF Confirm, PromptArmed, Inductive, TypeOK
  <2>6. ASSUME NEW a \in Acts, ActStep(a), UNCHANGED <<mode, confirmAction, confirmTarget>>
        PROVE  PromptArmed'
    BY <1>2, <2>6 DEF ActStep, ActRun, ActRefresh, PromptArmed, Inductive, TypeOK, Idle
  <2> QED
    BY <1>2, <2>1, <2>2, <2>3, <2>4, <2>5, <2>6, PromptFrame
<1> QED
  BY <1>1, <1>2, Invariance, PTL DEF Spec

-----------------------------------------------------------------------------
(* The selection.                                                          *)

\* The row at the position of a row is that row.
LEMMA RowAtIndex ==
    ASSUME NEW rows \in SUBSET Sockets, NEW s \in rows
    PROVE  RowAt(rows, IndexOf(rows, s)) = s
<1> DEFINE k == IndexOf(rows, s)
<1>1. ASSUME NEW t \in rows, IndexOf(rows, t) = k PROVE t = s
  <2>1. IndexOf(rows, s) \in Nat /\ IndexOf(rows, t) \in Nat
    BY RowsFinite
  <2>2. ~(s < t) /\ ~(t < s)
    BY <1>1, <2>1, IndexGrows
  <2> QED
    BY <2>2, DashboardConstants DEF Sockets
<1>2. \E t \in rows : IndexOf(rows, t) = k
  OBVIOUS
<1>3. RowAt(rows, k) = CHOOSE t \in rows : IndexOf(rows, t) = k
  BY <1>2 DEF RowAt
<1> HIDE DEF k
<1> QED
  BY <1>1, <1>2, <1>3

\* One step of SelectionKept.
KeepsSelection == entries' # entries /\ Selected \in Visible' => Selected' = Selected

\* However many rows a listing adds above the selected one, or takes away
\* there, and whatever is filtered: the cursor follows the socket it was on.
THEOREM SelectionFollows == Spec => SelectionKept
<1>1. [Next]_vars => [KeepsSelection]_vars
  <2> SUFFICES ASSUME [Next]_vars, entries' # entries, Selected \in Visible'
               PROVE  Selected' = Selected
    BY DEF KeepsSelection
  <2>1. TakeListing
    <3>1. ASSUME NEW k, Move(k) PROVE FALSE
      BY <3>1 DEF Move
    <3>2. ASSUME NEW f, SetFilter(f) PROVE FALSE
      BY <3>2 DEF SetFilter
    <3>3. ~TakeReport
      BY DEF TakeReport, ui
    <3> QED
      BY <3>1, <3>2, <3>3, WhatMovesTheCursor
  <2>2. PICK e \in listChan : entries' = e /\ cursor' = Restore(Rows(e, filter), Selected)
    BY <2>1 DEF TakeListing
  <2>3. filter' = filter
    BY <2>1 DEF TakeListing
  <2> DEFINE rows == Rows(e, filter)
  <2>4. Visible' = rows
    BY <2>2, <2>3 DEF Visible
  <2>5. cursor' = IndexOf(rows, Selected)
    BY <2>2, <2>4 DEF Restore
  <2>6. rows \in SUBSET Sockets
    BY VisibleType
  <2>7. RowAt(rows, IndexOf(rows, Selected)) = Selected
    <3> HIDE DEF rows
    <3> QED
      BY <2>4, <2>6, RowAtIndex
  <2>8. Selected' = RowAt(Visible', cursor')
    BY DEF Selected
  <2> HIDE DEF rows
  <2> QED
    BY <2>4, <2>5, <2>7, <2>8
<1> QED
  BY <1>1, PTL DEF Spec, SelectionKept, KeepsSelection

-----------------------------------------------------------------------------
(* What goes on piece by piece.                                            *)

\* What holds at first and passes on from each piece to the next holds to the last.
LEMMA UpToTheLast ==
    ASSUME NEW n \in Nat, NEW S, 0 \in S, \A k \in 1..n : k - 1 \in S => k \in S
    PROVE  \A k \in 0..n : k \in S
<1> SUFFICES ASSUME NEW m \in 0..n, m \notin S PROVE FALSE
  OBVIOUS
<1> DEFINE T == (0..n) \ S
<1>1. PICK k \in T : \A j \in T : ~(<<j, k>> \in OpToRel(<, Nat))
  <2>1. T \in SUBSET Nat /\ T # {}
    OBVIOUS
  <2> HIDE DEF T
  <2> QED
    BY <2>1, NatLessThanWellFounded, WFMin
<1>2. k \in 1..n /\ k - 1 \in 0..n /\ k - 1 \in Nat /\ k \in Nat /\ k - 1 < k
  OBVIOUS
<1>3. k - 1 \notin T
  BY <1>1, <1>2 DEF OpToRel
<1> QED
  BY <1>2, <1>3

\* A step is taken with each of n pieces.
Steps(n, S, step) == \A k \in 1..n : step[k] \in [S -> S]
FoldOf(n, S, first, step, f) == /\ f \in [0..n -> S] /\ f[0] = first
                               /\ \A k \in 1..n : f[k] = step[k][f[k - 1]]

\* The steps give a function of how many have been taken.
LEMMA Folded ==
    ASSUME NEW n \in Nat, NEW S, NEW first \in S, NEW step, Steps(n, S, step)
    PROVE  \E f : FoldOf(n, S, first, step, f)
<1> USE DEF Steps
<1> DEFINE Good(m, f) == /\ f \in [0..m -> S] /\ f[0] = first
                         /\ \A k \in 1..m : f[k] = step[k][f[k - 1]]
           Some == {m \in 0..n : \E f : Good(m, f)}
<1>1. 0 \in Some
  <2>1. Good(0, [k \in 0..0 |-> first])
    OBVIOUS
  <2>2. 0 \in 0..n
    OBVIOUS
  <2> HIDE DEF Good
  <2> QED
    BY <2>1, <2>2
<1>2. ASSUME NEW m \in 1..n, m - 1 \in Some PROVE m \in Some
  <2>1. PICK g : Good(m - 1, g)
    BY <1>2
  <2> DEFINE f == [k \in 0..m |-> IF k = m THEN step[m][g[m - 1]] ELSE g[k]]
  <2>2. \A k \in 0..m : k # m => k \in 0..(m - 1) /\ g[k] \in S
    BY <2>1
  <2>3. m - 1 \in 0..(m - 1) /\ g[m - 1] \in S /\ step[m][g[m - 1]] \in S
    BY <2>1
  <2>4. f \in [0..m -> S] /\ f[0] = first
    BY <2>1, <2>2, <2>3
  <2>5. ASSUME NEW k \in 1..m PROVE f[k] = step[k][f[k - 1]]
    <3>1. k - 1 \in 0..m /\ k - 1 # m
      OBVIOUS
    <3>2. CASE k = m
      BY <3>1, <3>2
    <3>3. CASE k # m
      <4>1. k \in 1..(m - 1)
        BY <3>3
      <4> QED
        BY <2>1, <3>1, <3>3, <4>1
    <3> QED
      BY <3>2, <3>3
  <2>6. Good(m, f)
    BY <2>4, <2>5
  <2>7. m \in 0..n
    OBVIOUS
  <2> HIDE DEF f, Good
  <2> QED
    BY <2>6, <2>7
<1> HIDE DEF Some
<1>3. \A m \in 0..n : m \in Some
  BY <1>1, <1>2, UpToTheLast
<1>4. \E f : Good(n, f)
  BY <1>3 DEF Some
<1> QED
  BY <1>4 DEF FoldOf

-----------------------------------------------------------------------------
(* How wide a line is.                                                     *)

Names == {"blank", "cut", "marker", "port", "proto", "process", "pid", "service", "another row",
          "head", "nothing", "tabs", "rule", "report", "divider", "title", "count", "clock",
          "filter", "help", "status", "shortcuts", "question", "rest", "confirm", "tooSmall"}
Pieces == [is : Names, w : Nat, c : {1}]
Lines == Seq(Pieces)

\* What a line is made of.
LEMMA Made ==
    ASSUME NEW line \in Lines
    PROVE  /\ Len(line) \in Nat /\ DOMAIN line = 1..Len(line)
           /\ \A k \in 1..Len(line) : line[k] \in Pieces /\ line[k].w \in Nat
<1>1. /\ Len(line) \in Nat /\ DOMAIN line = 1..Len(line)
      /\ \A k \in 1..Len(line) : line[k] \in Pieces
  BY DEF Lines
<1>2. \A p \in Pieces : p.w \in Nat
  BY DEF Pieces
<1> QED
  BY <1>1, <1>2

\* The widths of the first pieces together.
Sums(line, n, f) == f \in [0..n -> Nat] /\ f[0] = 0 /\ \A k \in 1..n : f[k] = f[k - 1] + line[k].w

\* The width of a line is the last of the sums.
LEMMA WidthIsASum ==
    ASSUME NEW line \in Lines
    PROVE  \E f : Sums(line, Len(line), f) /\ Width(line) = f[Len(line)]
<1> DEFINE n == Len(line)
           F(g) == [k \in 0..n |-> IF k = 0 THEN 0 ELSE g[k - 1] + line[k].w]
           upTo == CHOOSE g : g = F(g)
<1>1. n \in Nat /\ \A k \in 1..n : line[k].w \in Nat
  BY Made
<1>2. PICK f : Sums(line, n, f)
  <2> HIDE DEF n
  <2>1. PICK All : All = Nat
    OBVIOUS
  <2>2. PICK none \in All : none = 0
    BY <2>1
  <2>3. PICK step : step = [k \in 1..n |-> [x \in All |-> x + line[k].w]]
    OBVIOUS
  <2>4. Steps(n, All, step)
    <3>1. ASSUME NEW k \in 1..n PROVE step[k] \in [All -> All]
      <4>1. step[k] = [x \in All |-> x + line[k].w]
        BY <2>3
      <4>2. line[k].w \in Nat
        BY <1>1
      <4> QED
        BY <2>1, <4>1, <4>2
    <3> QED
      BY <3>1 DEF Steps
  <2>5. PICK f : FoldOf(n, All, none, step, f)
    BY <1>1, <2>4, Folded
  <2>6. f \in [0..n -> All] /\ f[0] = none /\ \A k \in 1..n : f[k] = step[k][f[k - 1]]
    BY <2>5 DEF FoldOf
  <2>7. ASSUME NEW k \in 1..n PROVE f[k] = f[k - 1] + line[k].w
    <3>1. k - 1 \in 0..n
      BY <1>1
    <3> QED
      BY <2>3, <2>6, <3>1
  <2> QED
    BY <2>1, <2>2, <2>6, <2>7 DEF Sums
<1>3. f = F(f)
  <2> HIDE DEF n
  <2>1. f \in [0..n -> Nat] /\ f[0] = 0 /\ \A k \in 1..n : f[k] = f[k - 1] + line[k].w
    BY <1>2 DEF Sums
  <2>2. \A k \in 0..n : k # 0 => k \in 1..n
    BY <1>1
  <2>3. \A k \in 0..n : f[k] = IF k = 0 THEN 0 ELSE f[k - 1] + line[k].w
    BY <2>1, <2>2
  <2> QED
    BY <2>1, <2>3
<1>4. upTo = F(upTo)
  <2> HIDE DEF F
  <2> QED
    BY <1>3
<1>5. Width(line) = upTo[n]
  BY DEF Width
<1> HIDE DEF upTo, n
<1>6. Sums(line, n, upTo)
  <2>1. upTo[0] = 0 /\ \A k \in 1..n : upTo[k] = upTo[k - 1] + line[k].w
    BY <1>1, <1>4
  <2> DEFINE Right == {k \in 0..n : upTo[k] \in Nat}
  <2>2. 0 \in Right
    BY <1>1, <2>1
  <2>3. ASSUME NEW k \in 1..n, k - 1 \in Right PROVE k \in Right
    BY <1>1, <2>1, <2>3
  <2> HIDE DEF Right
  <2>4. \A k \in 0..n : k \in Right
    BY <1>1, <2>2, <2>3, UpToTheLast
  <2>5. \A k \in 0..n : upTo[k] \in Nat
    BY <2>4 DEF Right
  <2>6. upTo = [k \in 0..n |-> upTo[k]]
    BY <1>4
  <2>7. upTo \in [0..n -> Nat]
    BY <2>5, <2>6
  <2> QED
    BY <2>1, <2>7 DEF Sums
<1> QED
  BY <1>5, <1>6 DEF n

\* There is one way to sum up the same widths.
LEMMA SumsAgree ==
    ASSUME NEW n \in Nat, NEW a, NEW b, NEW f, NEW g, Sums(a, n, f), Sums(b, n, g),
           \A k \in 1..n : a[k].w = b[k].w
    PROVE  f[n] = g[n]
<1> DEFINE Same == {k \in 0..n : f[k] = g[k]}
<1>1. 0 \in Same
  BY DEF Sums
<1>2. ASSUME NEW k \in 1..n, k - 1 \in Same PROVE k \in Same
  BY <1>2 DEF Sums
<1> HIDE DEF Same
<1>3. \A k \in 0..n : k \in Same
  BY <1>1, <1>2, UpToTheLast
<1> QED
  BY <1>3 DEF Same

\* So any sums give the width.
LEMMA WidthFromSums ==
    ASSUME NEW line \in Lines, NEW f, Sums(line, Len(line), f)
    PROVE  Width(line) = f[Len(line)]
<1>1. PICK g : Sums(line, Len(line), g) /\ Width(line) = g[Len(line)]
  BY WidthIsASum
<1>2. Len(line) \in Nat
  BY DEF Lines
<1>3. f[Len(line)] = g[Len(line)]
  BY <1>1, <1>2, SumsAgree
<1> QED
  BY <1>1, <1>3

\* A width is a number; a line of nothing has none, and lines one after the other
\* have their widths together.
LEMMA Widths ==
    /\ \A a \in Lines : Width(a) \in Nat
    /\ Width(<<>>) = 0 /\ <<>> \in Lines
    /\ \A p \in Pieces : <<p>> \in Lines /\ Width(<<p>>) = p.w
    /\ \A a, b \in Lines : a \o b \in Lines /\ Width(a \o b) = Width(a) + Width(b)
<1>1. ASSUME NEW a \in Lines PROVE Width(a) \in Nat
  <2>1. PICK f : Sums(a, Len(a), f) /\ Width(a) = f[Len(a)]
    BY WidthIsASum
  <2>2. Len(a) \in 0..Len(a)
    BY DEF Lines
  <2> QED
    BY <2>1, <2>2 DEF Sums
<1>2. Width(<<>>) = 0 /\ <<>> \in Lines
  <2>1. <<>> \in Lines /\ Len(<<>>) = 0
    BY DEF Lines
  <2>2. PICK f : Sums(<<>>, Len(<<>>), f) /\ Width(<<>>) = f[Len(<<>>)]
    BY <2>1, WidthIsASum
  <2> QED
    BY <2>1, <2>2 DEF Sums
<1>3. ASSUME NEW p \in Pieces PROVE <<p>> \in Lines /\ Width(<<p>>) = p.w
  <2>1. <<p>> \in Lines /\ Len(<<p>>) = 1 /\ <<p>>[1] = p
    BY DEF Lines
  <2>2. PICK f : Sums(<<p>>, Len(<<p>>), f) /\ Width(<<p>>) = f[Len(<<p>>)]
    BY <2>1, WidthIsASum
  <2>3. f[0] = 0 /\ f[1] = f[0] + p.w /\ p.w \in Nat
    BY <2>1, <2>2 DEF Sums, Pieces
  <2> QED
    BY <2>1, <2>2, <2>3
<1>4. ASSUME NEW a \in Lines, NEW b \in Lines
      PROVE  a \o b \in Lines /\ Width(a \o b) = Width(a) + Width(b)
  <2> DEFINE both == a \o b
             m == Len(a)
             n == Len(b)
  <2>1. /\ both \in Lines /\ Len(both) = m + n /\ m \in Nat /\ n \in Nat
        /\ \A k \in 1..m : both[k] = a[k]
        /\ \A k \in 1..(m + n) : k > m => both[k] = b[k - m]
    BY ConcatProperties, LenProperties DEF Lines
  <2>2. PICK f : Sums(a, m, f) /\ Width(a) = f[m]
    BY WidthIsASum
  <2>3. PICK g : Sums(b, n, g) /\ Width(b) = g[n]
    BY WidthIsASum
  <2> DEFINE h == [k \in 0..(m + n) |-> IF k <= m THEN f[k] ELSE f[m] + g[k - m]]
  <2> HIDE DEF m, n, both
  <2>4. /\ f \in [0..m -> Nat] /\ f[0] = 0 /\ \A k \in 1..m : f[k] = f[k - 1] + a[k].w
        /\ g \in [0..n -> Nat] /\ g[0] = 0 /\ \A k \in 1..n : g[k] = g[k - 1] + b[k].w
    BY <2>2, <2>3 DEF Sums
  <2>5. h \in [0..(m + n) -> Nat]
    <3>1. ASSUME NEW k \in 0..(m + n) PROVE (IF k <= m THEN f[k] ELSE f[m] + g[k - m]) \in Nat
      <4>1. k <= m => f[k] \in Nat
        BY <2>1, <2>4
      <4>2. ~(k <= m) => k - m \in 0..n /\ m \in 0..m
        BY <2>1
      <4> QED
        BY <2>4, <4>1, <4>2
    <3> QED
      BY <3>1
  <2>6. h[0] = 0 /\ h[m + n] = f[m] + g[n]
    <3>1. h[0] = 0
      BY <2>1, <2>4
    <3>2. CASE n = 0
      BY <2>1, <2>4, <3>2
    <3>3. CASE n # 0
      <4>1. ~(m + n <= m) /\ (m + n) - m = n /\ m + n \in 0..(m + n)
        BY <2>1, <3>3
      <4> QED
        BY <3>1, <4>1
    <3> QED
      BY <3>1, <3>2, <3>3
  <2>7. ASSUME NEW k \in 1..(m + n) PROVE h[k] = h[k - 1] + both[k].w
    <3>0. k \in 0..(m + n) /\ k - 1 \in 0..(m + n)
      BY <2>1
    <3>1. CASE k <= m
      <4>1. k \in 1..m /\ k - 1 <= m
        BY <2>1, <3>1
      <4> QED
        BY <2>1, <2>4, <3>0, <3>1, <4>1
    <3>2. CASE k = m + 1
      <4>1. ~(k <= m) /\ k - 1 <= m /\ k - 1 = m /\ k - m = 1 /\ 1 \in 1..n
        BY <2>1, <3>2
      <4>2. g[1] = g[1 - 1] + b[1].w /\ g[1 - 1] = 0
        BY <2>4, <4>1
      <4>3. h[k] = f[m] + g[1] /\ h[k - 1] = f[m] /\ both[k] = b[1]
        BY <2>1, <3>0, <4>1
      <4>4. g[1] = b[1].w
        <5>1. g[1] \in Nat
          BY <2>4, <4>1
        <5>2. b[1].w \in Nat
          BY <4>1, Made DEF n
        <5> QED
          BY <4>2, <5>1, <5>2
      <4> QED
        BY <4>3, <4>4
    <3>3. CASE k > m + 1
      <4>1. ~(k <= m) /\ ~(k - 1 <= m) /\ k - m \in 1..n /\ (k - 1) - m = (k - m) - 1
        BY <2>1, <3>3
      <4>2. g[k - m] = g[(k - m) - 1] + b[k - m].w
        BY <2>4, <4>1
      <4>3. h[k] = f[m] + g[k - m] /\ h[k - 1] = f[m] + g[(k - m) - 1] /\ both[k] = b[k - m]
        BY <2>1, <3>0, <4>1
      <4>4. f[m] \in Nat /\ g[(k - m) - 1] \in Nat /\ b[k - m].w \in Nat
        <5>1. m \in 0..m /\ (k - m) - 1 \in 0..n
          BY <2>1, <4>1
        <5>2. b[k - m].w \in Nat
          BY <4>1, Made DEF n
        <5> QED
          BY <2>4, <5>1, <5>2
      <4> QED
        BY <4>2, <4>3, <4>4
    <3> QED
      BY <2>1, <3>1, <3>2, <3>3
  <2>8. Sums(both, Len(both), h)
    BY <2>1, <2>5, <2>6, <2>7 DEF Sums
  <2> HIDE DEF h
  <2>9. Width(both) = h[m + n]
    BY <2>1, <2>8, WidthFromSums
  <2> QED
    BY <2>1, <2>2, <2>3, <2>6, <2>9 DEF both
<1> QED
  BY <1>1, <1>2, <1>3, <1>4

-----------------------------------------------------------------------------
(* What fits.                                                              *)

\* A number of columns.
LEMMA AtMostAtLeast ==
    ASSUME NEW n \in Int, NEW w \in Int
    PROVE  /\ AtMost(n, w) \in {n, w} /\ AtMost(n, w) <= n /\ AtMost(n, w) <= w
           /\ AtLeast(n, w) \in {n, w} /\ AtLeast(n, w) >= n /\ AtLeast(n, w) >= w
  BY DEF AtMost, AtLeast

\* A piece that is drawn is one.
LEMMA PieceDrawn ==
    ASSUME NEW is \in Names, NEW w \in Nat
    PROVE  Piece(is, w) \in Pieces /\ Piece(is, w).w = w /\ Piece(is, w).is = is
  BY DEF Piece, Pieces

\* A part of a piece is one.
LEMMA CutDrawn ==
    ASSUME NEW p \in Pieces, NEW w \in Nat
    PROVE  [p EXCEPT !.is = "cut", !.w = w] \in Pieces /\ [p EXCEPT !.is = "cut", !.w = w].w = w
  BY DEF Pieces, Names

\* Lines can be joined in any order.
LEMMA Rejoined ==
    ASSUME NEW a \in Lines, NEW b \in Lines, NEW c \in Lines
    PROVE  (a \o b) \o c = a \o (b \o c)
  BY ConcatAssociative DEF Lines

\* The same under a name, for a place with many lines about.
Rejoins(a, b, c) == (a \o b) \o c = a \o (b \o c)

LEMMA RejoinedAsWell ==
    ASSUME NEW a \in Lines, NEW b \in Lines, NEW c \in Lines
    PROVE  Rejoins(a, b, c)
  BY Rejoined DEF Rejoins

\* A piece of a line ends within a number of columns.
Within(line, p, c) ==
    \E a, b \in Lines : line = (a \o <<p>>) \o b /\ Width(a) + p.w <= c

\* It still does when something comes behind, ...
LEMMA WithinBefore ==
    ASSUME NEW line \in Lines, NEW p \in Pieces, NEW c \in Int, NEW more \in Lines,
           Within(line, p, c)
    PROVE  Within(line \o more, p, c)
<1>1. PICK a \in Lines, b \in Lines : line = (a \o <<p>>) \o b /\ Width(a) + p.w <= c
  BY DEF Within
<1> DEFINE head == a \o <<p>>
<1>2. head \in Lines /\ b \o more \in Lines
  BY Widths
<1>3. line \o more = head \o (b \o more)
  <2>1. line = head \o b
    BY <1>1
  <2> HIDE DEF head
  <2>2. head \in Lines /\ b \in Lines /\ more \in Lines
    BY <1>2
  <2>3. (head \o b) \o more = head \o (b \o more)
    BY ONLY <2>2, Rejoined
  <2> QED
    BY <2>1, <2>3
<1> QED
  BY <1>1, <1>2, <1>3 DEF Within

\* ... and that much later when something comes before.
LEMMA WithinBehind ==
    ASSUME NEW line \in Lines, NEW p \in Pieces, NEW c \in Int, NEW more \in Lines,
           Within(line, p, c)
    PROVE  Within(more \o line, p, Width(more) + c)
<1>1. PICK a \in Lines, b \in Lines : line = (a \o <<p>>) \o b /\ Width(a) + p.w <= c
  BY DEF Within
<1>2. /\ <<p>> \in Lines /\ a \o <<p>> \in Lines /\ more \o a \in Lines
      /\ Width(more \o a) = Width(more) + Width(a)
      /\ Width(more) \in Nat /\ Width(a) \in Nat /\ p.w \in Nat
  BY Widths DEF Pieces
<1>6. a \o <<p>> \in Lines
  BY Widths
<1> DEFINE head == a \o <<p>>
<1>7. head \in Lines
  BY <1>6
<1>3. more \o line = (more \o (a \o <<p>>)) \o b
  <2> HIDE DEF head
  <2>1. more \in Lines /\ head \in Lines /\ b \in Lines
    BY <1>7
  <2>2. (more \o head) \o b = more \o (head \o b)
    BY ONLY <2>1, Rejoined
  <2> QED
    BY <1>1, <2>2 DEF head
<1>4. more \o (a \o <<p>>) = (more \o a) \o <<p>>
  BY <1>2, Rejoined
<1>5. Width(more \o a) + p.w <= Width(more) + c
  BY <1>1, <1>2
<1> QED
  BY <1>2, <1>3, <1>4, <1>5 DEF Within

\* A piece by itself.
LEMMA WithinItself ==
    ASSUME NEW p \in Pieces PROVE Within(<<p>>, p, p.w)
<1>1. <<>> \in Lines /\ Width(<<>>) = 0 /\ <<p>> \in Lines /\ p.w \in Nat
  BY Widths DEF Pieces
<1>2. <<p>> = (<<>> \o <<p>>) \o <<>>
  BY <1>1, ConcatEmptySeq DEF Lines
<1>3. Width(<<>>) + p.w <= p.w
  BY <1>1
<1> QED
  BY <1>1, <1>2, <1>3 DEF Within

\* It is one of the pieces.
LEMMA WithinIsThere ==
    ASSUME NEW line \in Lines, NEW p \in Pieces, NEW c, Within(line, p, c)
    PROVE  \E k \in DOMAIN line : line[k] = p
<1>1. PICK a \in Lines, b \in Lines : line = (a \o <<p>>) \o b
  BY DEF Within
<1>2. <<p>> \in Lines /\ Len(<<p>>) = 1 /\ <<p>>[1] = p /\ Len(a) \in Nat /\ Len(b) \in Nat
  BY Widths, Made
<1>3. a \o <<p>> \in Lines /\ Len(a \o <<p>>) = Len(a) + 1 /\ (a \o <<p>>)[Len(a) + 1] = p
  BY <1>2, ConcatProperties DEF Lines
<1>4. Len(line) = (Len(a) + 1) + Len(b) /\ line[Len(a) + 1] = p
  BY <1>1, <1>2, <1>3, ConcatProperties DEF Lines
<1>5. Len(a) + 1 \in DOMAIN line
  BY <1>2, <1>4, Made
<1> QED
  BY <1>4, <1>5

\* Blanks, and lines filled up with them.
LEMMA Padded ==
    ASSUME NEW line \in Lines, NEW w \in Int
    PROVE  /\ w >= 0 => Blank(w) \in Lines /\ Width(Blank(w)) = w
           /\ PadRight(line, w) \in Lines /\ Width(PadRight(line, w)) = AtLeast(Width(line), w)
           /\ PadLeft(line, w) \in Lines /\ Width(PadLeft(line, w)) = AtLeast(Width(line), w)
           /\ \A p \in Pieces, c \in Int : Within(line, p, c) => Within(PadRight(line, w), p, c)
           /\ \A p \in Pieces, c \in Int :
                 Within(line, p, c) => Within(PadLeft(line, w), p, AtLeast(w - Width(line), 0) + c)
<1>1. ASSUME NEW n \in Nat PROVE Blank(n) \in Lines /\ Width(Blank(n)) = n
  <2>1. Piece("blank", n) \in Pieces /\ Piece("blank", n).w = n
    BY PieceDrawn DEF Names
  <2> QED
    BY <2>1, Widths DEF Blank
<1>2. Width(line) \in Nat
  BY Widths
<1>3. CASE Width(line) >= w
  <2>1. PadRight(line, w) = line /\ PadLeft(line, w) = line
    BY <1>3 DEF PadRight, PadLeft
  <2>2. AtLeast(Width(line), w) = Width(line) /\ AtLeast(w - Width(line), 0) = 0
    BY <1>2, <1>3 DEF AtLeast
  <2>3. \A c \in Int : 0 + c = c
    OBVIOUS
  <2> QED
    BY <1>1, <2>1, <2>2, <2>3
<1>4. CASE Width(line) < w
  <2> DEFINE gap == w - Width(line)
  <2>1. gap \in Nat /\ AtLeast(Width(line), w) = w /\ AtLeast(gap, 0) = gap
        /\ Width(line) + gap = w /\ gap + Width(line) = w
    BY <1>2, <1>4 DEF AtLeast
  <2>2. PadRight(line, w) = line \o Blank(gap) /\ PadLeft(line, w) = Blank(gap) \o line
    BY <1>2, <1>4 DEF PadRight, PadLeft
  <2> HIDE DEF gap
  <2>3. Blank(gap) \in Lines /\ Width(Blank(gap)) = gap
    BY <1>1, <2>1
  <2>4. /\ line \o Blank(gap) \in Lines /\ Width(line \o Blank(gap)) = Width(line) + gap
        /\ Blank(gap) \o line \in Lines /\ Width(Blank(gap) \o line) = gap + Width(line)
    BY <2>3, Widths
  <2>5. \A p \in Pieces, c \in Int : Within(line, p, c) => Within(line \o Blank(gap), p, c)
    BY <2>3, WithinBefore
  <2>6. \A p \in Pieces, c \in Int : Within(line, p, c) => Within(Blank(gap) \o line, p, gap + c)
    BY <2>3, WithinBehind
  <2>7. w \in Nat
    BY <1>2, <1>4
  <2> QED
    BY <1>1, <2>1, <2>2, <2>4, <2>5, <2>6, <2>7 DEF gap
<1> QED
  BY <1>2, <1>3, <1>4

\* What Truncate has of a line after each piece.
Parts == [line : Lines, left : Int]
Fitted(line, w, f) ==
    /\ f \in [0..Len(line) -> Parts] /\ f[0] = [line |-> <<>>, left |-> w]
    /\ \A k \in 1..Len(line) : f[k] = Fit(f[k - 1], line[k])
    /\ Truncate(line, w) = f[Len(line)].line

\* A part stays one, and is as wide as there is less room left.
LEMMA FitType ==
    ASSUME NEW part \in Parts, NEW p \in Pieces
    PROVE  /\ Fit(part, p) \in Parts
           /\ Width(Fit(part, p).line) + Fit(part, p).left = Width(part.line) + part.left
           /\ part.left >= 0 => Fit(part, p).left >= 0
           /\ part.left < 0 => Fit(part, p) = part
<1> DEFINE cut == [p EXCEPT !.is = "cut", !.w = part.left]
           fit == Fit(part, p)
<1>1. part.line \in Lines /\ part.left \in Int /\ p.w \in Nat
  BY DEF Parts, Pieces
<1>2. CASE part.left <= 0
  <2>1. fit = part
    BY <1>2 DEF Fit
  <2> QED
    BY <1>1, <2>1
<1>3. CASE part.left > 0 /\ p.w <= part.left
  <2>1. ~(part.left <= 0)
    BY <1>1, <1>3
  <2>2. fit = [line |-> Append(part.line, p), left |-> part.left - p.w]
    BY <1>3, <2>1 DEF Fit
  <2>3. Append(part.line, p) = part.line \o <<p>>
    BY <1>1, AppendIsConcat DEF Lines
  <2>4. /\ part.line \o <<p>> \in Lines
        /\ Width(part.line \o <<p>>) = Width(part.line) + p.w /\ Width(part.line) \in Nat
    BY <1>1, Widths
  <2>5. fit.line = part.line \o <<p>> /\ fit.left = part.left - p.w
    BY <2>2, <2>3
  <2>6. fit \in Parts
    BY <1>1, <2>2, <2>3, <2>4 DEF Parts
  <2> HIDE DEF fit
  <2>7. Width(fit.line) + fit.left = Width(part.line) + part.left
    BY <1>1, <2>4, <2>5
  <2> QED
    BY <1>1, <1>3, <2>5, <2>6, <2>7 DEF fit
<1>4. CASE part.left > 0 /\ p.w > part.left
  <2>1. ~(part.left <= 0) /\ ~(p.w <= part.left)
    BY <1>1, <1>4
  <2>2. fit = [line |-> Append(part.line, cut), left |-> 0]
    BY <1>4, <2>1 DEF Fit
  <2>3. cut \in Pieces /\ cut.w = part.left
    <3>1. part.left \in Nat
      BY <1>1, <1>4
    <3> QED
      BY <3>1, CutDrawn
  <2> HIDE DEF cut
  <2>4. Append(part.line, cut) = part.line \o <<cut>>
    BY <1>1, <2>3, AppendIsConcat DEF Lines
  <2>5. /\ part.line \o <<cut>> \in Lines
        /\ Width(part.line \o <<cut>>) = Width(part.line) + cut.w /\ Width(part.line) \in Nat
    BY <1>1, <2>3, Widths
  <2>6. fit.line = part.line \o <<cut>> /\ fit.left = 0
    BY <2>2, <2>4
  <2>7. fit \in Parts
    BY <1>1, <2>2, <2>4, <2>5 DEF Parts
  <2> HIDE DEF fit
  <2>8. Width(fit.line) + fit.left = Width(part.line) + part.left
    BY <1>1, <2>3, <2>5, <2>6
  <2> QED
    BY <1>1, <1>4, <2>6, <2>7, <2>8 DEF fit
<1> QED
  BY <1>1, <1>2, <1>3, <1>4

\* Piece after piece.
LEMMA TruncateIsAFold ==
    ASSUME NEW line \in Lines, NEW w \in Int
    PROVE  \E f : Fitted(line, w, f)
<1> DEFINE n == Len(line)
           none == [line |-> <<>>, left |-> w]
           F(g) == [k \in 0..n |-> IF k = 0 THEN none ELSE Fit(g[k - 1], line[k])]
           fitted == CHOOSE g : g = F(g)
<1>1. n \in Nat /\ \A k \in 1..n : line[k] \in Pieces
  BY Made
<1>2. none \in Parts
  BY Widths DEF Parts
<1> HIDE DEF n, none
<1>3. PICK step : step = [k \in 1..n |-> [x \in Parts |-> Fit(x, line[k])]]
  OBVIOUS
<1>4. Steps(n, Parts, step)
  <2>1. ASSUME NEW k \in 1..n PROVE step[k] \in [Parts -> Parts]
    <3>1. step[k] = [x \in Parts |-> Fit(x, line[k])]
      BY <1>3
    <3>2. \A x \in Parts : Fit(x, line[k]) \in Parts
      BY <1>1, FitType
    <3> QED
      BY <3>1, <3>2
  <2> QED
    BY <2>1 DEF Steps
<1>5. PICK f : FoldOf(n, Parts, none, step, f)
  BY <1>1, <1>2, <1>4, Folded
<1>6. f \in [0..n -> Parts] /\ f[0] = none /\ \A k \in 1..n : f[k] = Fit(f[k - 1], line[k])
  <2>1. ASSUME NEW k \in 1..n PROVE f[k] = Fit(f[k - 1], line[k])
    <3>1. k - 1 \in 0..n
      BY <1>1
    <3> QED
      BY <1>3, <1>5, <3>1 DEF FoldOf
  <2> QED
    BY <1>5, <2>1 DEF FoldOf
<1>7. f = F(f)
  <2>1. \A k \in 0..n : k # 0 => k \in 1..n
    BY <1>1
  <2>2. \A k \in 0..n : f[k] = IF k = 0 THEN none ELSE Fit(f[k - 1], line[k])
    BY <1>6, <2>1
  <2> QED
    BY <1>6, <2>2
<1>8. fitted = F(fitted)
  <2> HIDE DEF F
  <2> QED
    BY <1>7
<1>9. Truncate(line, w) = fitted[n].line
  BY DEF Truncate, n, none
<1> HIDE DEF fitted
<1>10. fitted[0] = none /\ \A k \in 1..n : fitted[k] = Fit(fitted[k - 1], line[k])
  BY <1>1, <1>8
<1>11. \A k \in 0..n : fitted[k] \in Parts
  <2> DEFINE Right == {k \in 0..n : fitted[k] \in Parts}
  <2>1. 0 \in Right
    BY <1>1, <1>2, <1>10
  <2>2. ASSUME NEW k \in 1..n, k - 1 \in Right PROVE k \in Right
    BY <1>1, <1>10, <2>2, FitType
  <2> HIDE DEF Right
  <2>3. \A k \in 0..n : k \in Right
    BY <1>1, <2>1, <2>2, UpToTheLast
  <2> QED
    BY <2>3 DEF Right
<1>12. fitted \in [0..n -> Parts]
  <2>1. fitted = [k \in 0..n |-> fitted[k]]
    BY <1>8
  <2> QED
    BY <1>11, <2>1
<1>13. Fitted(line, w, fitted)
  BY <1>9, <1>10, <1>12 DEF Fitted, n, none
<1> QED
  BY <1>13

\* A truncated line is no wider than it may be.
LEMMA TruncateFits ==
    ASSUME NEW line \in Lines, NEW w \in Int
    PROVE  Truncate(line, w) \in Lines /\ Width(Truncate(line, w)) <= AtLeast(w, 0)
<1>1. PICK f : Fitted(line, w, f)
  BY TruncateIsAFold
<1> DEFINE n == Len(line)
<1>2. n \in Nat /\ \A k \in 1..n : line[k] \in Pieces
  BY Made
<1>3. /\ f \in [0..n -> Parts] /\ f[0] = [line |-> <<>>, left |-> w]
      /\ \A k \in 1..n : f[k] = Fit(f[k - 1], line[k])
      /\ Truncate(line, w) = f[n].line
  BY <1>1 DEF Fitted
<1> HIDE DEF n
<1> DEFINE Right == {k \in 0..n : /\ Width(f[k].line) + f[k].left = w
                                  /\ w >= 0 => f[k].left >= 0
                                  /\ w < 0 => f[k] = f[0]}
<1>4. 0 \in Right
  <2>1. f[0].line = <<>> /\ f[0].left = w /\ 0 \in 0..n
    BY <1>2, <1>3
  <2> QED
    BY <2>1, Widths
<1>5. ASSUME NEW k \in 1..n, k - 1 \in Right PROVE k \in Right
  <2> DEFINE part == f[k - 1]
             fit == f[k]
  <2>1. part \in Parts /\ fit = Fit(part, line[k]) /\ line[k] \in Pieces /\ k \in 0..n
    <3>1. k - 1 \in 0..n
      BY <1>2
    <3> QED
      BY <1>2, <1>3, <3>1
  <2>2. /\ Width(part.line) + part.left = w /\ (w >= 0 => part.left >= 0)
        /\ (w < 0 => part = f[0])
    BY <1>5
  <2>3. f[0].left = w
    BY <1>3
  <2> HIDE DEF part, fit
  <2>4. /\ Width(fit.line) + fit.left = Width(part.line) + part.left
        /\ part.left >= 0 => fit.left >= 0
        /\ part.left < 0 => fit = part
    BY <2>1, FitType
  <2>5. /\ Width(fit.line) + fit.left = w /\ (w >= 0 => fit.left >= 0)
        /\ (w < 0 => fit = f[0])
    BY <2>2, <2>3, <2>4
  <2> QED
    BY <2>1, <2>5 DEF fit
<1> HIDE DEF Right
<1>6. n \in Right
  BY <1>2, <1>4, <1>5, UpToTheLast
<1>7. /\ Width(f[n].line) + f[n].left = w /\ (w >= 0 => f[n].left >= 0)
      /\ (w < 0 => f[n] = f[0])
  BY <1>6 DEF Right
<1> DEFINE t == f[n].line
           left == f[n].left
<1>8. t \in Lines /\ left \in Int
  BY <1>2, <1>3 DEF Parts
<1>9. w < 0 => t = <<>>
  BY <1>3, <1>7
<1>10. Width(t) + left = w /\ (w >= 0 => left >= 0)
  BY <1>7
<1> HIDE DEF t, left
<1>11. Width(t) <= AtLeast(w, 0)
  <2>1. CASE w >= 0
    <3>1. AtLeast(w, 0) = w /\ Width(t) \in Nat
      BY <1>8, <2>1, Widths DEF AtLeast
    <3> QED
      BY <1>8, <1>10, <2>1, <3>1
  <2>2. CASE w < 0
    <3>1. AtLeast(w, 0) = 0 /\ Width(t) = 0
      BY <1>9, <2>2, Widths DEF AtLeast
    <3> QED
      BY <3>1
  <2> QED
    BY <2>1, <2>2
<1> QED
  BY <1>3, <1>8, <1>11 DEF t

\* A piece that ends within the width of a truncated line is left in it, where it was.
LEMMA TruncateKeeps ==
    ASSUME NEW line \in Lines, NEW w \in Int, NEW p \in Pieces, NEW c \in Int,
           Within(line, p, c), c <= w, p.w > 0
    PROVE  Within(Truncate(line, w), p, c)
<1>1. PICK f : Fitted(line, w, f)
  BY TruncateIsAFold
<1>2. PICK a \in Lines, b \in Lines : line = (a \o <<p>>) \o b /\ Width(a) + p.w <= c
  BY DEF Within
<1> DEFINE n == Len(line)
           m == Len(a)
<1>3. PICK g : Sums(a, m, g) /\ Width(a) = g[m]
  BY WidthIsASum
<1>4. /\ n \in Nat /\ m \in Nat /\ m + 1 <= n /\ line[m + 1] = p
      /\ \A k \in 1..n : line[k] \in Pieces
      /\ \A k \in 1..m : line[k] = a[k]
  <2>1. <<p>> \in Lines /\ Len(<<p>>) = 1 /\ <<p>>[1] = p
    BY Widths
  <2> DEFINE head == a \o <<p>>
  <2>2. /\ head \in Lines /\ Len(head) = m + 1 /\ head[m + 1] = p /\ m \in Nat
        /\ \A k \in 1..m : head[k] = a[k]
    BY <2>1, Made, ConcatProperties DEF Lines
  <2>3. line = head \o b
    BY <1>2
  <2> HIDE DEF head, m
  <2>6. head \in Seq(Pieces) /\ b \in Seq(Pieces)
    BY <2>2 DEF Lines
  <2>7. Len(b) \in Nat
    BY Made
  <2>8. /\ Len(head \o b) = Len(head) + Len(b)
        /\ \A k \in 1..Len(head) + Len(b) :
              (head \o b)[k] = IF k <= Len(head) THEN head[k] ELSE b[k - Len(head)]
    BY ONLY <2>6, ConcatProperties
  <2>9. \A k \in 1..Len(head) : k \in 1..Len(head) + Len(b) /\ k <= Len(head)
    BY <2>2, <2>7
  <2>4. Len(b) \in Nat /\ Len(line) = Len(head) + Len(b)
        /\ \A k \in 1..Len(head) : line[k] = head[k]
    BY <2>3, <2>7, <2>8, <2>9
  <2>5. \A k \in 1..n : line[k] \in Pieces
    BY Made
  <2> QED
    BY <2>2, <2>4, <2>5
<1>5. /\ f \in [0..n -> Parts] /\ f[0] = [line |-> <<>>, left |-> w]
      /\ \A k \in 1..n : f[k] = Fit(f[k - 1], line[k])
      /\ Truncate(line, w) = f[n].line
  BY <1>1 DEF Fitted
<1>6. g \in [0..m -> Nat] /\ g[0] = 0 /\ \A k \in 1..m : g[k] = g[k - 1] + a[k].w
  BY <1>3 DEF Sums
<1>7. p.w \in Nat /\ \A k \in 1..m : a[k].w \in Nat
  BY Made DEF Pieces
<1> HIDE DEF n, m
\* The sums do not go down.
<1>8. \A k \in 0..m : g[k] <= g[m]
  <2> DEFINE Less == {k \in 0..m : g[m - k] <= g[m]}
  <2>1. 0 \in Less
    BY <1>4, <1>6
  <2>2. ASSUME NEW k \in 1..m, k - 1 \in Less PROVE k \in Less
    <3>1. m - k \in 0..m /\ m - (k - 1) \in 1..m /\ (m - (k - 1)) - 1 = m - k /\ m \in 0..m
      BY <1>4
    <3> DEFINE j == m - (k - 1)
    <3>2. g[j] = g[m - k] + a[j].w
      BY <1>6, <3>1
    <3>3. g[j] <= g[m] /\ a[j].w \in Nat /\ g[m - k] \in Nat /\ g[m] \in Nat
      BY <1>6, <1>7, <2>2, <3>1
    <3> HIDE DEF j
    <3>4. g[m - k] <= g[m]
      BY <3>2, <3>3
    <3> QED
      BY <3>1, <3>4
  <2> HIDE DEF Less
  <2>3. \A k \in 0..m : k \in Less
    BY <1>4, <2>1, <2>2, UpToTheLast
  <2>4. ASSUME NEW k \in 0..m PROVE g[k] <= g[m]
    <3>1. m - k \in 0..m /\ m - (m - k) = k
      BY <1>4
    <3> QED
      BY <2>3, <3>1 DEF Less
  <2> QED
    BY <2>4
\* Up to p there is room for each piece.
<1>9. f[m].left = w - g[m]
  <2> DEFINE Room == {k \in 0..m : f[k].left = w - g[k]}
  <2>1. 0 \in Room
    BY <1>4, <1>5, <1>6
  <2>2. ASSUME NEW k \in 1..m, k - 1 \in Room PROVE k \in Room
    <3> DEFINE part == f[k - 1]
    <3>1. part.left = w - g[k - 1] /\ f[k] = Fit(part, a[k])
      BY <1>4, <1>5, <2>2
    <3>2. g[k] = g[k - 1] + a[k].w /\ g[k] <= g[m] /\ a[k].w \in Nat /\ g[k - 1] \in Nat
          /\ g[m] + p.w <= w /\ g[m] \in Nat /\ k \in 0..m
      <4>1. k - 1 \in 0..m /\ m \in 0..m /\ k \in 0..m
        BY <1>4
      <4>2. g[m] \in Nat /\ g[k - 1] \in Nat /\ g[k] <= g[m]
        BY <1>6, <1>8, <4>1
      <4>3. g[m] + p.w <= w
        BY <1>2, <1>3, <1>7, <4>2
      <4> QED
        BY <1>6, <1>7, <4>1, <4>2, <4>3
    <3> HIDE DEF part
    <3>3. part.left > 0 /\ a[k].w <= part.left
      BY <1>7, <3>1, <3>2
    <3>4. f[k].left = part.left - a[k].w
      <4>1. ~(part.left <= 0)
        BY <3>1, <3>2, <3>3
      <4>2. f[k] = [line |-> Append(part.line, a[k]), left |-> part.left - a[k].w]
        BY <3>1, <3>3, <4>1 DEF Fit
      <4> QED
        BY <4>2
    <3> QED
      BY <3>1, <3>2, <3>4
  <2> HIDE DEF Room
  <2>3. \A k \in 0..m : k \in Room
    BY <1>4, <2>1, <2>2, UpToTheLast
  <2>4. m \in Room
    BY <1>4, <2>3
  <2> QED
    BY <2>4 DEF Room
\* And what there is then is as wide as that.
<1>10. \A k \in 0..n : Width(f[k].line) + f[k].left = w
  <2> DEFINE Right == {k \in 0..n : Width(f[k].line) + f[k].left = w}
  <2>1. 0 \in Right
    <3>1. f[0].line = <<>> /\ f[0].left = w /\ 0 \in 0..n
      BY <1>4, <1>5
    <3> QED
      BY <3>1, Widths
  <2>2. ASSUME NEW k \in 1..n, k - 1 \in Right PROVE k \in Right
    <3>1. f[k - 1] \in Parts /\ f[k] = Fit(f[k - 1], line[k]) /\ line[k] \in Pieces /\ k \in 0..n
      <4>1. k - 1 \in 0..n /\ k \in 0..n
        BY <1>4
      <4> QED
        BY <1>4, <1>5, <4>1
    <3>2. Width(f[k].line) + f[k].left = Width(f[k - 1].line) + f[k - 1].left
      BY <3>1, FitType
    <3> QED
      BY <2>2, <3>1, <3>2
  <2> HIDE DEF Right
  <2>3. \A k \in 0..n : k \in Right
    BY <1>4, <2>1, <2>2, UpToTheLast
  <2> QED
    BY <2>3 DEF Right
<1> DEFINE before == f[m].line
<1>11. before \in Lines /\ Width(before) = Width(a)
  <2>1. m \in 0..n
    BY <1>4
  <2>2. f[m] \in Parts /\ Width(f[m].line) + f[m].left = w
    BY <1>5, <1>10, <2>1
  <2>3. f[m].line \in Lines /\ f[m].left \in Int /\ Width(f[m].line) \in Nat /\ Width(a) \in Nat
    BY <2>2, Widths DEF Parts
  <2> QED
    BY <1>3, <1>9, <2>2, <2>3
<1> HIDE DEF before
\* From p on it stays there.
<1>12. \A k \in 0..(n - (m + 1)) : \E more \in Lines : f[(m + 1) + k].line = (before \o <<p>>) \o more
  <2> DEFINE Kept == {k \in 0..(n - (m + 1)) :
                        \E more \in Lines : f[(m + 1) + k].line = (before \o <<p>>) \o more}
  <2>1. 0 \in Kept
    <3>1. m + 1 \in 1..n /\ (m + 1) - 1 = m /\ (m + 1) + 0 = m + 1 /\ 0 \in 0..(n - (m + 1))
      BY <1>4
    <3>2. f[m + 1] = Fit(f[m], p)
      BY <1>4, <1>5, <3>1
    <3>3. f[m].left > 0 /\ p.w <= f[m].left /\ ~(f[m].left <= 0)
      <4>1. g[m] \in Nat
        BY <1>4, <1>6
      <4> QED
        BY <1>2, <1>3, <1>7, <1>9, <4>1
    <3>4. f[m + 1].line = Append(before, p)
      <4>1. f[m + 1] = [line |-> Append(f[m].line, p), left |-> f[m].left - p.w]
        BY <3>2, <3>3 DEF Fit
      <4> QED
        BY <4>1 DEF before
    <3>5. Append(before, p) = (before \o <<p>>) \o <<>>
      <4>1. before \o <<p>> \in Lines
        BY <1>11, Widths
      <4>2. Append(before, p) = before \o <<p>>
        BY <1>11, AppendIsConcat DEF Lines
      <4> QED
        BY <4>1, <4>2, ConcatEmptySeq DEF Lines
    <3>6. <<>> \in Lines
      BY Widths
    <3>7. f[(m + 1) + 0].line = (before \o <<p>>) \o <<>>
      BY <3>1, <3>4, <3>5
    <3> QED
      BY <3>1, <3>6, <3>7
  <2>2. ASSUME NEW k \in 1..(n - (m + 1)), k - 1 \in Kept PROVE k \in Kept
    <3> DEFINE i == (m + 1) + k
    <3>1. i \in 1..n /\ i - 1 = (m + 1) + (k - 1) /\ i - 1 \in 0..n /\ k \in 0..(n - (m + 1))
      BY <1>4
    <3>2. PICK more \in Lines : f[i - 1].line = (before \o <<p>>) \o more
      BY <2>2, <3>1
    <3>3. /\ f[i - 1] \in Parts /\ f[i] = Fit(f[i - 1], line[i]) /\ line[i] \in Pieces
      BY <1>4, <1>5, <3>1
    <3> HIDE DEF i
    <3> DEFINE part == f[i - 1]
               q == line[i]
    <3>4. part.line \in Lines /\ part.left \in Int /\ q.w \in Nat
      BY <3>3 DEF Parts, Pieces
    <3>5. \E x \in Pieces \cup {q} : f[i].line = part.line \/ f[i].line = Append(part.line, x)
      <4> DEFINE cut == [q EXCEPT !.is = "cut", !.w = part.left]
      <4>1. CASE part.left <= 0
        BY <3>3, <4>1 DEF Fit
      <4>2. CASE ~(part.left <= 0) /\ q.w <= part.left
        BY <3>3, <4>2 DEF Fit
      <4>3. CASE ~(part.left <= 0) /\ ~(q.w <= part.left)
        <5>1. f[i] = [line |-> Append(part.line, cut), left |-> 0]
          BY <3>3, <4>3 DEF Fit
        <5>2. cut \in Pieces
          <6>1. part.left \in Nat /\ q \in Pieces
            BY <3>3, <3>4, <4>3
          <6> QED
            BY <6>1, CutDrawn
        <5> HIDE DEF cut
        <5> QED
          BY <5>1, <5>2
      <4> QED
        BY <4>1, <4>2, <4>3
    <3>6. PICK x \in Pieces : f[i].line = part.line \/ f[i].line = Append(part.line, x)
      BY <3>3, <3>5
    <3> DEFINE start == before \o <<p>>
    <3>7. start \in Lines /\ <<x>> \in Lines /\ more \o <<x>> \in Lines
      BY <1>11, Widths
    <3>8. part.line = start \o more
      BY <3>2
    <3> HIDE DEF start, part
    <3>9. Append(part.line, x) = start \o (more \o <<x>>)
      <4>1. Append(part.line, x) = part.line \o <<x>>
        BY <3>4, AppendIsConcat DEF Lines
      <4> DEFINE tail == <<x>>
      <4>2. start \in Lines /\ more \in Lines /\ tail \in Lines
        BY <3>7
      <4>3. (start \o more) \o tail = start \o (more \o tail)
        <5> HIDE DEF tail
        <5>1. Rejoins(start, more, tail)
          BY ONLY <4>2, RejoinedAsWell
        <5> QED
          BY ONLY <5>1 DEF Rejoins
      <4> QED
        BY <3>8, <4>1, <4>3
    <3>10. \E rest \in Lines : f[i].line = start \o rest
      BY <3>6, <3>7, <3>8, <3>9
    <3> QED
      BY <3>1, <3>10 DEF start, i
  <2> HIDE DEF Kept
  <2>3. n - (m + 1) \in Nat
    BY <1>4
  <2>4. \A k \in 0..(n - (m + 1)) : k \in Kept
    BY <2>1, <2>2, <2>3, UpToTheLast
  <2> QED
    BY <2>4 DEF Kept
<1>13. PICK more \in Lines : f[n].line = (before \o <<p>>) \o more
  <2>1. n - (m + 1) \in 0..(n - (m + 1)) /\ (m + 1) + (n - (m + 1)) = n
    BY <1>4
  <2> QED
    BY <1>12, <2>1
<1> QED
  BY <1>2, <1>5, <1>11, <1>13 DEF Within

-----------------------------------------------------------------------------
(* What is drawn of a row, a pane, the body.                               *)

\* What can be drawn, of texts of one column a rune and without line breaks: the
\* fields of a row are as wide as they can be at the most.
Drawable(m) ==
    /\ PlainTexts(m)
    /\ m.width \in Nat /\ m.width >= 50 /\ m.height \in Nat /\ m.height >= 10
    /\ m.listed \in Nat /\ m.selected \in Nat /\ m.scroll \in Nat
    /\ m.listed > 0 => m.selected < m.listed
    /\ m.filter \in Nat /\ m.status \in Nat /\ m.report \in Seq(Nat)
    /\ m.field.port \in 1..6 /\ m.field.proto \in 0..5 /\ m.field.pid \in 1..7
    /\ m.field.process \in Nat /\ m.field.service \in Nat
    /\ m.question \in 1..52 /\ m.rest \in Nat

\* A text like that is a piece like any other, and a line of the report is one text.
LEMMA TextDrawn ==
    ASSUME NEW m, PlainTexts(m), NEW is, NEW w
    PROVE  Text(m, is, w) = Piece(is, w) /\ ReportLine(m, w) = <<Piece("report", w)>>
<1>1. \A name : Text(m, name, w) = Piece(name, w)
  BY DEF PlainTexts, Text, Piece
<1>2. ReportLine(m, w) = <<Piece("report", w)>> \o <<>>
  BY <1>1 DEF PlainTexts, ReportLine
<1>3. Piece("report", w) \in {Piece("report", w)}
  OBVIOUS
<1>4. <<Piece("report", w)>> \o <<>> = <<Piece("report", w)>>
  BY <1>3, ConcatEmptySeq
<1> QED
  BY <1>1, <1>2, <1>4

\* A line of such pieces is on the terminal what it is in the code.
LEMMA AsDrawn ==
    ASSUME NEW line \in Lines
    PROVE  OnTerminal(line) = line /\ \A k \in DOMAIN line : line[k].is # "break"
<1>1. /\ DOMAIN line = 1..Len(line) /\ line = [k \in 1..Len(line) |-> line[k]]
      /\ \A k \in 1..Len(line) : line[k] \in Pieces
  BY Made DEF Lines
<1>2. ASSUME NEW p \in Pieces PROVE [p EXCEPT !.w = p.w * p.c] = p /\ p.is # "break"
  <2>1. p.w \in Nat /\ p.c = 1 /\ p.is \in Names
    BY DEF Pieces
  <2>2. p.w * p.c = p.w
    BY <2>1
  <2> QED
    BY <2>1, <2>2 DEF Pieces, Names
<1>3. OnTerminal(line) = [k \in 1..Len(line) |-> line[k]]
  BY <1>1, <1>2 DEF OnTerminal
<1> QED
  BY <1>1, <1>2, <1>3

\* A line of one piece.
LEMMA LineOfOne ==
    ASSUME NEW is \in Names, NEW w \in Nat
    PROVE  <<Piece(is, w)>> \in Lines /\ Width(<<Piece(is, w)>>) = w
<1> DEFINE p == Piece(is, w)
<1>1. p \in Pieces /\ p.w = w
  BY PieceDrawn
<1> HIDE DEF p
<1>2. <<p>> \in Lines /\ Width(<<p>>) = w
  BY <1>1, Widths
<1> QED
  BY <1>2 DEF p

\* A cell is as wide as it should be.
LEMMA CellDrawn ==
    ASSUME NEW m, PlainTexts(m), NEW is \in Names, NEW field \in Nat, NEW w \in Nat
    PROVE  Cell(m, is, field, w) \in Lines /\ Width(Cell(m, is, field, w)) = w
<1> DEFINE line == <<Text(m, is, field)>>
           cut == Truncate(line, w)
<1>1. line \in Lines
  BY LineOfOne, TextDrawn
<1>2. Cell(m, is, field, w) = PadRight(cut, w)
  BY DEF Cell
<1> HIDE DEF line
<1>3. cut \in Lines /\ Width(cut) <= AtLeast(w, 0)
  BY <1>1, TruncateFits
<1> HIDE DEF cut
<1>4. PadRight(cut, w) \in Lines /\ Width(PadRight(cut, w)) = AtLeast(Width(cut), w)
  BY <1>3, Padded
<1>5. AtLeast(Width(cut), w) = w
  <2>1. Width(cut) \in Nat
    BY <1>3, Widths
  <2> QED
    BY <1>3, <2>1 DEF AtLeast
<1> QED
  BY <1>2, <1>4, <1>5

\* What ends early ends in time.
LEMMA WithinMore ==
    ASSUME NEW line, NEW p \in Pieces, NEW c \in Int, NEW d \in Int, c <= d, Within(line, p, c)
    PROVE  Within(line, p, d)
<1>1. PICK a \in Lines, b \in Lines : line = (a \o <<p>>) \o b /\ Width(a) + p.w <= c
  BY DEF Within
<1>2. Width(a) \in Nat /\ p.w \in Nat
  BY Widths DEF Pieces
<1>3. Width(a) + p.w <= d
  BY <1>1, <1>2
<1> QED
  BY <1>1, <1>3 DEF Within

\* A field that is padded ends within the columns it has.
LEMMA FieldDrawn ==
    ASSUME NEW is \in Names, NEW n \in Nat, NEW w \in Nat, n <= w
    PROVE  LET p == Piece(is, n)
           IN  /\ PadRight(<<p>>, w) \in Lines /\ Width(PadRight(<<p>>, w)) = w
               /\ PadLeft(<<p>>, w) \in Lines /\ Width(PadLeft(<<p>>, w)) = w
               /\ Within(PadRight(<<p>>, w), p, w) /\ Within(PadLeft(<<p>>, w), p, w)
<1> DEFINE p == Piece(is, n)
           line == <<p>>
<1>1. p \in Pieces /\ p.w = n /\ line \in Lines /\ Width(line) = n
  BY PieceDrawn, LineOfOne
<1> HIDE DEF p
<1>2. Within(line, p, n)
  BY <1>1, WithinItself
<1> HIDE DEF line
<1>3. /\ PadRight(line, w) \in Lines /\ Width(PadRight(line, w)) = AtLeast(Width(line), w)
      /\ PadLeft(line, w) \in Lines /\ Width(PadLeft(line, w)) = AtLeast(Width(line), w)
      /\ Within(PadRight(line, w), p, n)
      /\ Within(PadLeft(line, w), p, AtLeast(w - Width(line), 0) + n)
  BY <1>1, <1>2, Padded
<1>4. AtLeast(Width(line), w) = w /\ AtLeast(w - Width(line), 0) + n = w
  BY <1>1 DEF AtLeast
<1>5. Within(PadRight(line, w), p, w)
  BY <1>1, <1>3, WithinMore
<1> QED
  BY <1>3, <1>4, <1>5 DEF p, line

\* What a row shows of its port and of the number of its process, and where.
PortPiece(m) == Piece("port", m.field.port)
PidPiece(m) == Piece("pid", m.field.pid)
Aimed(line, m) == Within(line, PortPiece(m), 39) /\ Within(line, PidPiece(m), 39)

\* They are pieces that are not empty.
LEMMA AimPieces ==
    ASSUME NEW m, Drawable(m)
    PROVE  /\ PortPiece(m) \in Pieces /\ PortPiece(m).w > 0 /\ PortPiece(m).is = "port"
           /\ PidPiece(m) \in Pieces /\ PidPiece(m).w > 0 /\ PidPiece(m).is = "pid"
<1>1. m.field.port \in 1..6 /\ m.field.pid \in 1..7
  BY DEF Drawable
<1>2. m.field.port \in Nat /\ m.field.pid \in Nat /\ m.field.port > 0 /\ m.field.pid > 0
  BY <1>1
<1>3. "port" \in Names /\ "pid" \in Names
  BY DEF Names
<1> QED
  BY <1>2, <1>3, PieceDrawn DEF PortPiece, PidPiece

\* Both are still there when something comes behind, is padded, or is cut off later.
LEMMA AimedMore ==
    ASSUME NEW m, Drawable(m), NEW line \in Lines, Aimed(line, m)
    PROVE  /\ \A more \in Lines : Aimed(line \o more, m)
           /\ \A w \in Int : Aimed(PadRight(line, w), m)
           /\ \A w \in Int : w >= 39 => Aimed(Truncate(line, w), m)
<1>1. /\ PortPiece(m) \in Pieces /\ PortPiece(m).w > 0
      /\ PidPiece(m) \in Pieces /\ PidPiece(m).w > 0 /\ 39 \in Int
  BY AimPieces
<1> DEFINE p == PortPiece(m)
           q == PidPiece(m)
<1>2. Within(line, p, 39) /\ Within(line, q, 39)
  BY DEF Aimed
<1> HIDE DEF p, q
<1>3. \A more \in Lines : Within(line \o more, p, 39) /\ Within(line \o more, q, 39)
  BY <1>1, <1>2, WithinBefore DEF p, q
<1>4. \A w \in Int : Within(PadRight(line, w), p, 39) /\ Within(PadRight(line, w), q, 39)
  BY <1>1, <1>2, Padded DEF p, q
<1>5. \A w \in Int : w >= 39 => Within(Truncate(line, w), p, 39) /\ Within(Truncate(line, w), q, 39)
  <2> SUFFICES ASSUME NEW w \in Int, w >= 39
               PROVE  Within(Truncate(line, w), p, 39) /\ Within(Truncate(line, w), q, 39)
    OBVIOUS
  <2>1. p \in Pieces /\ p.w > 0 /\ q \in Pieces /\ q.w > 0 /\ 39 <= w
    BY <1>1 DEF p, q
  <2> QED
    BY <1>2, <2>1, TruncateKeeps
<1> QED
  BY <1>3, <1>4, <1>5 DEF Aimed, p, q

\* A row is a line; that of the selected one shows port and process to the left of
\* column 39.
LEMMA RowDrawn ==
    ASSUME NEW m, Drawable(m), NEW i, NEW width \in Nat
    PROVE  DrawnRow(m, i, width) \in Lines /\ (i = m.selected => Aimed(DrawnRow(m, i, width), m))
<1> DEFINE name(field) == IF i = m.selected THEN field ELSE "another row"
           procW == IF width > 45 THEN 15 ELSE 12
           srvW == AtLeast(width - 2 - 6 - 5 - 7 - procW - 4, 6)
           port == PadRight(<<Piece(name("port"), m.field.port)>>, 6)
           proto == PadRight(<<Piece(name("proto"), m.field.proto)>>, 5)
           process == Cell(m, name("process"), m.field.process, procW)
           pid == PadLeft(<<Piece(name("pid"), m.field.pid)>>, 7)
           service == Cell(m, name("service"), m.field.service, srvW)
           gap == Blank(1)
           upToProto == port \o gap \o proto \o gap
           upToProcess == upToProto \o process \o gap
           fields == upToProcess \o pid \o gap \o service
           marked == <<Piece("marker", 3)>>
           plain == <<Piece("marker", 2)>>
<1>1. DrawnRow(m, i, width) = IF i = m.selected THEN PadRight(marked \o fields, width)
                                                ELSE plain \o fields
  BY DEF DrawnRow
<1>2. /\ name("port") \in Names /\ name("proto") \in Names /\ name("process") \in Names
      /\ name("pid") \in Names /\ name("service") \in Names
  BY DEF Names
<1>3. /\ m.field.port \in Nat /\ m.field.port <= 6 /\ m.field.proto \in Nat /\ m.field.proto <= 5
      /\ m.field.pid \in Nat /\ m.field.pid <= 7
      /\ m.field.process \in Nat /\ m.field.service \in Nat
  <2>1. /\ m.field.port \in 1..6 /\ m.field.proto \in 0..5 /\ m.field.pid \in 1..7
        /\ m.field.process \in Nat /\ m.field.service \in Nat
    BY DEF Drawable
  <2> QED
    BY <2>1
<1>4. procW \in Nat /\ procW <= 15 /\ srvW \in Nat
  BY DEF AtLeast
<1>5. marked \in Lines /\ plain \in Lines /\ Width(marked) = 3
  BY LineOfOne DEF Names
<1>6. gap \in Lines /\ Width(gap) = 1
  BY LineOfOne DEF Blank, Names
<1>7. port \in Lines /\ Width(port) = 6 /\ (i = m.selected => Within(port, PortPiece(m), 6))
  <2> DEFINE n == m.field.port
             w == 6
  <2> HIDE DEF name, n, w
  <2>1. n \in Nat /\ w \in Nat /\ n <= w /\ name("port") \in Names
    BY <1>2, <1>3 DEF n, w
  <2>2. LET p == Piece(name("port"), n)
        IN  PadRight(<<p>>, w) \in Lines /\ Width(PadRight(<<p>>, w)) = w /\ Within(PadRight(<<p>>, w), p, w)
    BY <2>1, FieldDrawn
  <2>3. i = m.selected => name("port") = "port"
    BY DEF name
  <2> QED
    BY <2>2, <2>3 DEF n, w, PortPiece
<1>8. proto \in Lines /\ Width(proto) = 5
  <2> DEFINE n == m.field.proto
             w == 5
  <2> HIDE DEF name, n, w
  <2>1. n \in Nat /\ w \in Nat /\ n <= w /\ name("proto") \in Names
    BY <1>2, <1>3 DEF n, w
  <2>2. LET p == Piece(name("proto"), n)
        IN  PadRight(<<p>>, w) \in Lines /\ Width(PadRight(<<p>>, w)) = w
    BY <2>1, FieldDrawn
  <2> QED
    BY <2>2 DEF n, w
<1>9. pid \in Lines /\ Width(pid) = 7 /\ (i = m.selected => Within(pid, PidPiece(m), 7))
  <2> DEFINE n == m.field.pid
             w == 7
  <2> HIDE DEF name, n, w
  <2>1. n \in Nat /\ w \in Nat /\ n <= w /\ name("pid") \in Names
    BY <1>2, <1>3 DEF n, w
  <2>2. LET p == Piece(name("pid"), n)
        IN  PadLeft(<<p>>, w) \in Lines /\ Width(PadLeft(<<p>>, w)) = w /\ Within(PadLeft(<<p>>, w), p, w)
    BY <2>1, FieldDrawn
  <2>3. i = m.selected => name("pid") = "pid"
    BY DEF name
  <2> QED
    BY <2>2, <2>3 DEF n, w, PidPiece
<1>10. process \in Lines /\ Width(process) = procW /\ service \in Lines
  <2>1. PlainTexts(m)
    BY DEF Drawable
  <2> HIDE DEF name, procW, srvW
  <2> QED
    BY <1>2, <1>3, <1>4, <2>1, CellDrawn
<1> HIDE DEF name, procW, srvW, port, proto, process, pid, service, gap, marked, plain
<1>11. /\ upToProto \in Lines /\ Width(upToProto) = 13
       /\ i = m.selected => Within(upToProto, PortPiece(m), 6)
  <2>1. port \o gap \in Lines /\ Width(port \o gap) = 7
    BY <1>6, <1>7, Widths
  <2>2. port \o gap \o proto \in Lines /\ Width(port \o gap \o proto) = 12
    BY <1>8, <2>1, Widths
  <2>3. upToProto \in Lines /\ Width(upToProto) = 13
    BY <1>6, <2>2, Widths
  <2>4. ASSUME i = m.selected PROVE Within(upToProto, PortPiece(m), 6)
    <3>1. PortPiece(m) \in Pieces
      BY AimPieces
    <3>2. Within(port \o gap, PortPiece(m), 6)
      BY <1>6, <1>7, <2>4, <3>1, WithinBefore
    <3>3. Within(port \o gap \o proto, PortPiece(m), 6)
      BY <1>8, <2>1, <3>1, <3>2, WithinBefore
    <3> QED
      BY <1>6, <2>2, <3>1, <3>3, WithinBefore
  <2> QED
    BY <2>3, <2>4
<1> HIDE DEF upToProto
<1>12. /\ upToProcess \in Lines /\ Width(upToProcess) = 14 + procW
       /\ i = m.selected => Within(upToProcess, PortPiece(m), 6)
  <2>1. upToProto \o process \in Lines /\ Width(upToProto \o process) = 13 + procW
    BY <1>10, <1>11, Widths
  <2>2. upToProcess \in Lines /\ Width(upToProcess) = (13 + procW) + 1
    BY <1>6, <2>1, Widths
  <2>3. ASSUME i = m.selected PROVE Within(upToProcess, PortPiece(m), 6)
    <3>1. PortPiece(m) \in Pieces
      BY AimPieces
    <3>2. Within(upToProto \o process, PortPiece(m), 6)
      BY <1>10, <1>11, <2>3, <3>1, WithinBefore
    <3> QED
      BY <1>6, <2>1, <3>1, <3>2, WithinBefore
  <2> QED
    BY <1>4, <2>2, <2>3
<1> HIDE DEF upToProcess
<1>13. /\ fields \in Lines
       /\ i = m.selected => Within(fields, PortPiece(m), 6) /\ Within(fields, PidPiece(m), 36)
  <2>1. upToProcess \o pid \in Lines /\ upToProcess \o pid \o gap \in Lines /\ fields \in Lines
    BY <1>6, <1>9, <1>10, <1>12, Widths
  <2>2. ASSUME NEW p \in Pieces, NEW c \in Int, Within(upToProcess \o pid, p, c)
        PROVE  Within(fields, p, c)
    <3>1. Within(upToProcess \o pid \o gap, p, c)
      BY <1>6, <2>1, <2>2, WithinBefore
    <3> QED
      BY <1>10, <2>1, <3>1, WithinBefore
  <2>3. ASSUME i = m.selected
        PROVE  Within(fields, PortPiece(m), 6) /\ Within(fields, PidPiece(m), 36)
    <3>1. PortPiece(m) \in Pieces /\ PidPiece(m) \in Pieces
      BY AimPieces
    <3>2. Within(upToProcess \o pid, PortPiece(m), 6)
      BY <1>9, <1>12, <2>3, <3>1, WithinBefore
    <3>3. Within(upToProcess \o pid, PidPiece(m), Width(upToProcess) + 7)
      BY <1>9, <1>12, <2>3, <3>1, WithinBehind
    <3>4. Width(upToProcess) + 7 <= 36 /\ Width(upToProcess) + 7 \in Int
      BY <1>4, <1>12
    <3>5. Within(upToProcess \o pid, PidPiece(m), 36)
      BY <3>1, <3>3, <3>4, WithinMore
    <3> QED
      BY <2>2, <3>1, <3>2, <3>5
  <2> QED
    BY <2>1, <2>3
<1> HIDE DEF fields
<1>14. marked \o fields \in Lines /\ plain \o fields \in Lines
  BY <1>5, <1>13, Widths
<1>15. ASSUME i = m.selected PROVE Aimed(marked \o fields, m)
  <2>1. PortPiece(m) \in Pieces /\ PidPiece(m) \in Pieces
    BY AimPieces
  <2>2. /\ Within(marked \o fields, PortPiece(m), Width(marked) + 6)
        /\ Within(marked \o fields, PidPiece(m), Width(marked) + 36)
    BY <1>5, <1>13, <1>15, <2>1, WithinBehind
  <2>3. Width(marked) + 6 = 9 /\ Width(marked) + 36 = 39
    BY <1>5
  <2>4. Within(marked \o fields, PortPiece(m), 39)
    BY <2>1, <2>2, <2>3, WithinMore
  <2> QED
    BY <2>2, <2>3, <2>4 DEF Aimed
<1>16. PadRight(marked \o fields, width) \in Lines
  BY <1>14, Padded
<1>17. i = m.selected => Aimed(PadRight(marked \o fields, width), m)
  BY <1>14, <1>15, AimedMore
<1> QED
  BY <1>1, <1>14, <1>16, <1>17

-----------------------------------------------------------------------------
(* What is drawn of the panes and the body.                                *)

\* Lines one below the other.
LEMMA Below ==
    ASSUME NEW head \in Seq(Lines), NEW n \in Nat, NEW rest \in [1..n -> Lines]
    PROVE  /\ head \o rest \in Seq(Lines) /\ Len(head \o rest) = Len(head) + n
           /\ \A k \in 1..n : (head \o rest)[Len(head) + k] = rest[k]
           /\ \A k \in 1..Len(head) : (head \o rest)[k] = head[k]
<1>1. rest \in Seq(Lines) /\ Len(rest) = n /\ Len(head) \in Nat
  <2>1. rest \in Seq(Lines)
    BY SeqDef
  <2>2. Len(rest) \in Nat /\ DOMAIN rest = 1..Len(rest) /\ Len(head) \in Nat
    BY <2>1, LenProperties
  <2>3. DOMAIN rest = 1..n
    OBVIOUS
  <2> QED
    BY <2>1, <2>2, <2>3
<1>2. /\ head \o rest \in Seq(Lines) /\ Len(head \o rest) = Len(head) + Len(rest)
      /\ \A k \in 1..Len(head) + Len(rest) :
            (head \o rest)[k] = IF k <= Len(head) THEN head[k] ELSE rest[k - Len(head)]
  BY <1>1, ConcatProperties
<1>3. ASSUME NEW k \in 1..n PROVE (head \o rest)[Len(head) + k] = rest[k]
  <2>1. /\ Len(head) + k \in 1..Len(head) + Len(rest) /\ ~(Len(head) + k <= Len(head))
        /\ (Len(head) + k) - Len(head) = k
    BY <1>1
  <2> QED
    BY <1>2, <2>1
<1>4. \A k \in 1..Len(head) : k \in 1..Len(head) + Len(rest) /\ k <= Len(head)
  BY <1>1
<1> QED
  BY <1>1, <1>2, <1>3, <1>4

\* One line, or two, one below the other.
LEMMA OneOrTwo ==
    ASSUME NEW a \in Lines, NEW b \in Lines
    PROVE  /\ <<a>> \in Seq(Lines) /\ Len(<<a>>) = 1
           /\ <<a, b>> \in Seq(Lines) /\ Len(<<a, b>>) = 2
           /\ <<a, b>> \in [1..2 -> Lines]
  OBVIOUS

\* The selected row is in the window.
LEMMA InWindow ==
    ASSUME NEW selected \in Nat, NEW scroll \in Nat, NEW rows \in Nat, rows > 0
    PROVE  LET first == EnsureVisible(selected, scroll, rows)
           IN  first \in Nat /\ first <= selected /\ selected < first + rows
  BY DEF EnsureVisible

\* The rows of a window that is high enough for one have the selected one.
LEMMA LeftPaneDrawn ==
    ASSUME NEW m, Drawable(m), NEW width \in Nat, NEW height \in Nat, height >= 2
    PROVE  /\ LeftPane(m, width, height) \in Seq(Lines)
           /\ m.listed > 0 => \E k \in 1..height : /\ k \in DOMAIN LeftPane(m, width, height)
                                                   /\ Aimed(LeftPane(m, width, height)[k], m)
<1> DEFINE rows == height - 1
           first == EnsureVisible(m.selected, m.scroll, rows)
           last == AtMost(first + rows, m.listed) - 1
           n == last - first + 1
           top == <<Piece("head", width)>>
           nothing == <<Piece("nothing", 32)>>
           below == [k \in 1..n |-> DrawnRow(m, first + k - 1, width)]
           pane == LeftPane(m, width, height)
<1>1. pane = IF rows <= 0 THEN <<top>>
             ELSE IF m.listed = 0 THEN <<top, nothing>>
             ELSE <<top>> \o below
  BY DEF LeftPane
<1>2. m.selected \in Nat /\ m.scroll \in Nat /\ m.listed \in Nat
      /\ (m.listed > 0 => m.selected < m.listed)
  BY DEF Drawable
<1>3. rows \in Nat /\ rows > 0 /\ ~(rows <= 0)
  OBVIOUS
<1>4. top \in Lines /\ nothing \in Lines
  BY LineOfOne DEF Names
<1> HIDE DEF top, nothing, pane
<1>5. /\ <<top>> \in Seq(Lines) /\ Len(<<top>>) = 1 /\ <<top, nothing>> \in Seq(Lines)
  BY <1>4, OneOrTwo
<1>6. CASE m.listed = 0
  BY <1>1, <1>3, <1>5, <1>6 DEF pane
<1>7. CASE m.listed > 0
  <2>1. first \in Nat /\ first <= m.selected /\ m.selected < first + rows
    <3> HIDE DEF rows
    <3> QED
      BY <1>2, <1>3, InWindow
  <2> HIDE DEF first
  <2>2. n \in Nat /\ m.selected - first + 1 \in 1..n /\ m.selected - first + 1 <= rows
    <3>1. last \in Int /\ last >= m.selected
      BY <1>2, <1>7, <2>1 DEF AtMost
    <3> HIDE DEF last, rows
    <3> QED
      BY <1>2, <1>3, <2>1, <3>1
  <2> HIDE DEF n
  <2>3. below \in [1..n -> Lines]
    BY RowDrawn
  <2> DEFINE k == m.selected - first + 1
  <2>4. Aimed(below[k], m)
    <3>1. first + k - 1 = m.selected /\ k \in 1..n
      BY <1>2, <2>1, <2>2
    <3> HIDE DEF k
    <3>2. below[k] = DrawnRow(m, first + k - 1, width)
      BY <3>1
    <3> QED
      BY <3>1, <3>2, RowDrawn
  <2>5. k \in 1..n /\ k <= rows /\ k \in Nat
    BY <2>2
  <2> HIDE DEF below, k
  <2>6. pane = <<top>> \o below
    BY <1>1, <1>3, <1>7
  <2>7. /\ pane \in Seq(Lines) /\ Len(pane) = 1 + n /\ pane[1 + k] = below[k]
    BY <1>5, <2>2, <2>3, <2>5, <2>6, Below
  <2>8. 1 + k \in 1..height /\ 1 + k \in 1..(1 + n)
    BY <2>2, <2>5
  <2>9. DOMAIN pane = 1..(1 + n)
    BY <2>7, LenProperties
  <2> QED
    BY <2>4, <2>7, <2>8, <2>9 DEF pane
<1> QED
  BY <1>2, <1>6, <1>7

\* The other pane is lines too.
LEMMA RightPaneDrawn ==
    ASSUME NEW m, Drawable(m), NEW width \in Nat
    PROVE  RightPane(m, width) \in Seq(Lines)
<1> DEFINE tabs == <<Piece("tabs", 38)>>
           rule == <<Piece("rule", width)>>
           below == [k \in DOMAIN m.report |-> ReportLine(m, m.report[k])]
<1>1. tabs \in Lines /\ rule \in Lines
  BY LineOfOne DEF Names
<1>2. m.report \in Seq(Nat)
  BY DEF Drawable
<1>3. PICK n \in Nat : n = Len(m.report)
  BY <1>2, LenProperties
<1>4. DOMAIN m.report = 1..n /\ \A k \in 1..n : m.report[k] \in Nat
  BY <1>2, <1>3, LenProperties
<1>5. below \in [1..n -> Lines]
  <2>1. ASSUME NEW w \in Nat PROVE ReportLine(m, w) \in Lines
    <3>1. ReportLine(m, w) = <<Piece("report", w)>>
      BY TextDrawn DEF Drawable
    <3>2. "report" \in Names
      BY DEF Names
    <3> QED
      BY <3>1, <3>2, LineOfOne
  <2> QED
    BY <1>4, <2>1
<1>6. RightPane(m, width) = <<tabs, rule>> \o below
  BY DEF RightPane
<1> HIDE DEF tabs, rule, below
<1>7. <<tabs, rule>> \in Seq(Lines)
  BY <1>1, OneOrTwo
<1> QED
  BY <1>5, <1>6, <1>7, Below

\* A line of a pane, as wide as the pane.
LEMMA LineOfDrawn ==
    ASSUME NEW m, Drawable(m), NEW pane \in Seq(Lines), NEW i \in Nat, NEW width \in Nat
    PROVE  /\ LineOf(pane, i, width) \in Lines
           /\ i \in DOMAIN pane /\ Aimed(pane[i], m) => Aimed(LineOf(pane, i, width), m)
<1>1. CASE i \in DOMAIN pane
  <2>1. pane[i] \in Lines /\ LineOf(pane, i, width) = PadRight(pane[i], width)
    BY <1>1 DEF LineOf
  <2> DEFINE line == pane[i]
  <2> HIDE DEF line
  <2>2. line \in Lines /\ LineOf(pane, i, width) = PadRight(line, width)
    BY <2>1 DEF line
  <2>3. PadRight(line, width) \in Lines /\ (Aimed(line, m) => Aimed(PadRight(line, width), m))
    BY <2>2, Padded, AimedMore
  <2> QED
    BY <2>2, <2>3 DEF line
<1>2. CASE i \notin DOMAIN pane
  <2>1. LineOf(pane, i, width) = Blank(width)
    BY <1>2 DEF LineOf
  <2>2. Blank(width) \in Lines
    BY LineOfOne DEF Blank, Names
  <2> QED
    BY <1>2, <2>1, <2>2
<1> QED
  BY <1>1, <1>2

\* The body is lines, and the selected row is one of them.
LEMMA BodyDrawn ==
    ASSUME NEW m, Drawable(m), NEW height \in Nat, height >= 2
    PROVE  /\ Body(m, height) \in [1..height -> Lines]
           /\ m.listed > 0 => \E i \in 1..height : Aimed(Body(m, height)[i], m)
<1>1. m.width \in Nat
  BY DEF Drawable
<1>2. CASE m.width >= 80
  <2> DEFINE leftW == AtMost(AtLeast((m.width * 42) \div 100, 38), 55)
             rightW == m.width - leftW - 1
             left == LeftPane(m, leftW, height)
             right == RightPane(m, rightW)
             divider == <<Piece("divider", 1)>>
             behind(i) == LineOf(right, i, rightW)
             body == [i \in 1..height |-> LineOf(left, i, leftW) \o divider \o behind(i)]
  <2>1. Body(m, height) = body
    BY <1>2 DEF Body
  <2>2. leftW \in Nat /\ leftW <= 55
    <3> DEFINE q == (m.width * 42) \div 100
    <3>1. q \in Int
      BY <1>1
    <3> HIDE DEF q
    <3>2. AtLeast(q, 38) \in Int /\ AtLeast(q, 38) >= 38
      BY <3>1 DEF AtLeast
    <3>3. AtMost(AtLeast(q, 38), 55) \in Nat /\ AtMost(AtLeast(q, 38), 55) <= 55
      BY <3>2 DEF AtMost
    <3> QED
      BY <3>3 DEF q
  <2> HIDE DEF leftW
  <2>3. rightW \in Nat
    BY <1>1, <1>2, <2>2
  <2> HIDE DEF rightW
  <2>4. left \in Seq(Lines) /\ right \in Seq(Lines) /\ divider \in Lines
    BY <2>2, <2>3, LeftPaneDrawn, RightPaneDrawn, LineOfOne DEF Names
  <2>5. m.listed > 0 => \E k \in 1..height : k \in DOMAIN left /\ Aimed(left[k], m)
    BY <2>2, LeftPaneDrawn
  <2> HIDE DEF left, right, divider
  <2>6. ASSUME NEW i \in 1..height
        PROVE  /\ LineOf(left, i, leftW) \o divider \o behind(i) \in Lines
               /\ i \in DOMAIN left /\ Aimed(left[i], m) =>
                     Aimed(LineOf(left, i, leftW) \o divider \o behind(i), m)
    <3> DEFINE line == LineOf(left, i, leftW)
               rest == behind(i)
    <3>1. line \in Lines /\ rest \in Lines /\ (i \in DOMAIN left /\ Aimed(left[i], m) => Aimed(line, m))
      BY <2>2, <2>3, <2>4, LineOfDrawn
    <3> HIDE DEF line, rest
    <3>2. line \o divider \in Lines /\ line \o divider \o rest \in Lines
      BY <2>4, <3>1, Widths
    <3>3. ASSUME Aimed(line, m) PROVE Aimed(line \o divider \o rest, m)
      <4>1. Aimed(line \o divider, m)
        BY <2>4, <3>1, <3>3, AimedMore
      <4> QED
        BY <3>1, <3>2, <4>1, AimedMore
    <3> QED
      BY <3>1, <3>2, <3>3 DEF line, rest
  <2>7. body \in [1..height -> Lines]
    BY <2>6
  <2>8. ASSUME NEW i \in 1..height, i \in DOMAIN left, Aimed(left[i], m) PROVE Aimed(body[i], m)
    BY <2>6, <2>8
  <2> HIDE DEF body
  <2> QED
    BY <2>1, <2>5, <2>7, <2>8
<1>3. CASE m.width < 80
  <2> DEFINE left == LeftPane(m, m.width, height)
             body == [i \in 1..height |-> LineOf(left, i, m.width)]
  <2>1. Body(m, height) = body
    BY <1>1, <1>3 DEF Body
  <2>2. /\ left \in Seq(Lines)
        /\ m.listed > 0 => \E k \in 1..height : k \in DOMAIN left /\ Aimed(left[k], m)
    BY <1>1, LeftPaneDrawn
  <2> HIDE DEF left
  <2>3. \A i \in 1..height : /\ LineOf(left, i, m.width) \in Lines
                             /\ i \in DOMAIN left /\ Aimed(left[i], m) =>
                                   Aimed(LineOf(left, i, m.width), m)
    BY <1>1, <2>2, LineOfDrawn
  <2>4. body \in [1..height -> Lines]
    BY <2>3
  <2>5. ASSUME NEW i \in 1..height, i \in DOMAIN left, Aimed(left[i], m) PROVE Aimed(body[i], m)
    BY <2>3, <2>5
  <2> HIDE DEF body
  <2> QED
    BY <2>1, <2>2, <2>4, <2>5
<1> QED
  BY <1>1, <1>2, <1>3

\* The first and the last lines.
LEMMA EdgesDrawn ==
    ASSUME NEW m, Drawable(m)
    PROVE  Header(m) \in Lines /\ Footer(m) \in Lines
<1>1. m.width \in Nat /\ m.filter \in Nat /\ m.status \in Nat
  BY DEF Drawable
<1>2. Header(m) \in Lines
  <2> DEFINE title == <<Piece("title", 16), Piece("count", 18), Piece("clock", 13)>>
             shown == IF m.filter = 0 THEN <<>> ELSE <<Text(m, "filter", 13 + m.filter)>>
             left == title \o shown
             right == <<Piece("help", 16)>>
             gap == m.width - Width(left) - Width(right)
  <2>1. Header(m) = IF gap < 1 THEN Truncate(left \o Blank(1) \o right, m.width)
                               ELSE left \o Blank(gap) \o right
    BY DEF Header
  <2>2. title \in Lines
    <3>1. "title" \in Names /\ "count" \in Names /\ "clock" \in Names
      BY DEF Names
    <3>2. Piece("title", 16) \in Pieces
      BY <3>1, PieceDrawn
    <3>3. Piece("count", 18) \in Pieces
      BY <3>1, PieceDrawn
    <3>4. Piece("clock", 13) \in Pieces
      BY <3>1, PieceDrawn
    <3> QED
      BY <3>2, <3>3, <3>4 DEF Lines
  <2>3. shown \in Lines
    <3>1. CASE m.filter = 0
      BY <3>1, Widths
    <3>2. CASE m.filter # 0
      <4>1. 13 + m.filter \in Nat /\ "filter" \in Names
        BY <1>1 DEF Names
      <4>2. <<Piece("filter", 13 + m.filter)>> \in Lines
        BY <4>1, LineOfOne
      <4>3. Text(m, "filter", 13 + m.filter) = Piece("filter", 13 + m.filter)
        BY TextDrawn DEF Drawable
      <4> QED
        BY <3>2, <4>2, <4>3
    <3> QED
      BY <3>1, <3>2
  <2>4. right \in Lines
    BY LineOfOne DEF Names
  <2> HIDE DEF title, shown, right
  <2>5. left \in Lines
    BY <2>2, <2>3, Widths
  <2> HIDE DEF left
  <2>6. gap \in Int
    <3>1. Width(left) \in Nat /\ Width(right) \in Nat
      BY <2>4, <2>5, Widths
    <3> QED
      BY <1>1, <3>1
  <2> HIDE DEF gap
  <2>7. ASSUME NEW n \in Nat PROVE left \o Blank(n) \o right \in Lines
    <3>1. Blank(n) \in Lines
      BY LineOfOne DEF Blank, Names
    <3>2. left \o Blank(n) \in Lines
      BY <2>5, <3>1, Widths
    <3> QED
      BY <2>4, <3>2, Widths
  <2>8. Truncate(left \o Blank(1) \o right, m.width) \in Lines
    <3> DEFINE line == left \o Blank(1) \o right
    <3>1. line \in Lines
      BY <2>7
    <3> HIDE DEF line
    <3>2. Truncate(line, m.width) \in Lines
      BY <1>1, <3>1, TruncateFits
    <3> QED
      BY <3>2 DEF line
  <2> QED
    BY <2>1, <2>6, <2>7, <2>8
<1>3. Footer(m) \in Lines
  <2> DEFINE typed == <<Text(m, "filter", 11 + m.filter)>>
             told == <<Text(m, "status", 3 + m.status)>>
             keys == <<Piece("shortcuts", 106)>>
  <2>1. typed \in Lines
    <3>1. 11 + m.filter \in Nat /\ "filter" \in Names
      BY <1>1 DEF Names
    <3>2. Text(m, "filter", 11 + m.filter) = Piece("filter", 11 + m.filter)
      BY TextDrawn DEF Drawable
    <3> QED
      BY <3>1, <3>2, LineOfOne
  <2>2. told \in Lines
    <3>1. 3 + m.status \in Nat /\ "status" \in Names
      BY <1>1 DEF Names
    <3>2. Text(m, "status", 3 + m.status) = Piece("status", 3 + m.status)
      BY TextDrawn DEF Drawable
    <3> QED
      BY <3>1, <3>2, LineOfOne
  <2>3. keys \in Lines
    BY LineOfOne DEF Names
  <2>4. Footer(m) = IF m.mode = "filter" THEN PadRight(typed, m.width)
                    ELSE IF m.status > 0 THEN told ELSE Truncate(keys, m.width)
    BY DEF Footer
  <2> HIDE DEF typed, told, keys
  <2>5. PadRight(typed, m.width) \in Lines
    BY <1>1, <2>1, Padded
  <2>6. Truncate(keys, m.width) \in Lines
    BY <1>1, <2>3, TruncateFits
  <2> QED
    BY <2>2, <2>4, <2>5, <2>6
<1> QED
  BY <1>2, <1>3

-----------------------------------------------------------------------------
(* What is drawn over the body, and the frame.                             *)

\* A box of at most the width of the terminal is drawn over lines: they stay lines,
\* and what the box shows within its width is shown.
LEMMA BoxDrawn ==
    ASSUME NEW m, Drawable(m), NEW boxW \in Nat, NEW boxH \in Nat,
           boxW <= m.width, boxH <= m.height,
           NEW n \in Nat, n <= boxH, NEW content \in [1..n -> Lines],
           NEW lines \in [1..m.height -> Lines]
    PROVE  /\ Boxed(lines, content, boxW, boxH, m) \in [1..m.height -> Lines]
           /\ \A p \in Pieces : \A j \in 1..n :
                 Within(content[j], p, boxW - 2) =>
                     \E i \in 1..m.height : Within(Boxed(lines, content, boxW, boxH, m)[i], p, m.width - 2)
<1> DEFINE top == (m.height - boxH) \div 2
           left == (m.width - boxW) \div 2
           before(line) == IF Width(line) >= left THEN PadRight(Truncate(line, left), left)
                                                  ELSE Blank(left)
           after == AtLeast(m.width - left - boxW, 0)
           over(i) == before(lines[i]) \o PadRight(content[i - top], boxW) \o Blank(after)
           boxed == [i \in DOMAIN lines |-> IF i - top \in DOMAIN content THEN over(i) ELSE lines[i]]
<1>1. Boxed(lines, content, boxW, boxH, m) = boxed
  BY DEF Boxed
<1>2. m.width \in Nat /\ m.height \in Nat
  BY DEF Drawable
<1>3. top \in Nat /\ 2 * top <= m.height - boxH
  <2> DEFINE d == m.height - boxH
  <2>1. d \in Nat
    BY <1>2
  <2> HIDE DEF d
  <2>2. d \div 2 \in Nat /\ 2 * (d \div 2) <= d
    BY <2>1
  <2> QED
    BY <2>2 DEF d
<1>4. left \in Nat /\ 2 * left <= m.width - boxW
  <2> DEFINE d == m.width - boxW
  <2>1. d \in Nat
    BY <1>2
  <2> HIDE DEF d
  <2>2. d \div 2 \in Nat /\ 2 * (d \div 2) <= d
    BY <2>1
  <2> QED
    BY <2>2 DEF d
<1> HIDE DEF top, left
<1>5. after \in Nat
  BY <1>2, <1>4 DEF AtLeast
<1> HIDE DEF after
<1>6. ASSUME NEW line \in Lines PROVE before(line) \in Lines /\ Width(before(line)) = left
  <2>1. CASE Width(line) >= left
    <3> DEFINE cut == Truncate(line, left)
    <3>1. before(line) = PadRight(cut, left)
      BY <2>1
    <3>2. cut \in Lines /\ Width(cut) <= AtLeast(left, 0)
      BY <1>4, TruncateFits
    <3> HIDE DEF cut
    <3>3. Width(cut) \in Nat
      BY <3>2, Widths
    <3>4. PadRight(cut, left) \in Lines /\ Width(PadRight(cut, left)) = AtLeast(Width(cut), left)
      BY <1>4, <3>2, Padded
    <3>5. AtLeast(Width(cut), left) = left
      BY <1>4, <3>2, <3>3 DEF AtLeast
    <3> QED
      BY <3>1, <3>4, <3>5
  <2>2. CASE ~(Width(line) >= left)
    <3>1. before(line) = Blank(left)
      BY <2>2
    <3>2. Blank(left) \in Lines /\ Width(Blank(left)) = left
      BY <1>4, LineOfOne DEF Blank, Names
    <3> QED
      BY <3>1, <3>2
  <2> QED
    BY <2>1, <2>2
<1> HIDE DEF before
<1>7. Blank(after) \in Lines
  BY <1>5, LineOfOne DEF Blank, Names
<1>8. ASSUME NEW i \in 1..m.height, i - top \in 1..n
      PROVE  /\ over(i) \in Lines
             /\ \A p \in Pieces : Within(content[i - top], p, boxW - 2) =>
                                     Within(over(i), p, m.width - 2)
  <2> DEFINE start == before(lines[i])
             inside == content[i - top]
             padded == PadRight(inside, boxW)
  <2>1. start \in Lines /\ Width(start) = left
    BY <1>6
  <2>2. inside \in Lines
    BY <1>8
  <2>3. over(i) = start \o padded \o Blank(after)
    OBVIOUS
  <2> HIDE DEF start, inside, over
  <2>4. padded \in Lines /\ \A p \in Pieces, c \in Int : Within(inside, p, c) => Within(padded, p, c)
    <3>1. padded \in Lines
      BY <2>2, Padded
    <3>2. ASSUME NEW p \in Pieces, NEW c \in Int, Within(inside, p, c) PROVE Within(padded, p, c)
      BY <2>2, <3>2, Padded
    <3> QED
      BY <3>1, <3>2
  <2> HIDE DEF padded
  <2>5. start \o padded \in Lines /\ start \o padded \o Blank(after) \in Lines
    BY <1>7, <2>1, <2>4, Widths
  <2>6. ASSUME NEW p \in Pieces, Within(inside, p, boxW - 2) PROVE Within(over(i), p, m.width - 2)
    <3> DEFINE c == boxW - 2
    <3>1. c \in Int
      OBVIOUS
    <3>2. Within(padded, p, c)
      BY <2>4, <2>6, <3>1
    <3> HIDE DEF c
    <3>3. Within(start \o padded, p, Width(start) + c)
      BY <2>1, <2>4, <3>1, <3>2, WithinBehind
    <3>4. left + c <= m.width - 2 /\ left + c \in Int
      BY <1>2, <1>4 DEF c
    <3>5. Within(start \o padded, p, m.width - 2)
      BY <1>2, <2>1, <3>3, <3>4, WithinMore
    <3> QED
      BY <1>2, <1>7, <2>3, <2>5, <3>5, WithinBefore
  <2> QED
    BY <2>3, <2>5, <2>6 DEF inside
<1> HIDE DEF over
<1>9. DOMAIN content = 1..n /\ DOMAIN lines = 1..m.height
  OBVIOUS
<1>10. boxed \in [1..m.height -> Lines]
  BY <1>8, <1>9
<1>11. ASSUME NEW p \in Pieces, NEW j \in 1..n, Within(content[j], p, boxW - 2)
       PROVE  \E i \in 1..m.height : Within(boxed[i], p, m.width - 2)
  <2> DEFINE i == j + top
  <2>1. i \in 1..m.height /\ i - top = j
    BY <1>2, <1>3
  <2> HIDE DEF i
  <2>2. Within(over(i), p, m.width - 2)
    BY <1>8, <1>11, <2>1
  <2>3. boxed[i] = over(i)
    BY <1>9, <2>1
  <2> HIDE DEF boxed
  <2> QED
    BY <2>1, <2>2, <2>3
<1> HIDE DEF boxed
<1> QED
  BY <1>1, <1>10, <1>11

\* The question is a piece that is not empty.
QuestionPiece(m) == Piece("question", m.question)

\* What is drawn over the lines of a frame leaves lines; nothing is drawn while there
\* is no question and no help, or no room; and the question is shown where there is.
LEMMA OverlaidDrawn ==
    ASSUME NEW m, Drawable(m), NEW lines \in [1..m.height -> Lines]
    PROVE  /\ Overlaid(lines, m) \in [1..m.height -> Lines]
           /\ m.mode \in {"normal", "filter"} \/ m.width < 58 => Overlaid(lines, m) = lines
           /\ m.mode = "confirm" /\ m.width >= 58 =>
                 \E i \in 1..m.height : Within(Overlaid(lines, m)[i], QuestionPiece(m), m.width - 2)
<1> DEFINE Help == m.mode = "help" /\ m.width >= 64 /\ m.height >= 18
           Asks == m.mode = "confirm" /\ m.width >= 58 /\ m.height >= 10
<1>1. m.width \in Nat /\ m.height \in Nat /\ m.height >= 10
  BY DEF Drawable
<1>2. ASSUME NEW is \in Names, NEW n \in Nat PROVE Box(is, n) \in [1..n -> Lines]
  <2>1. <<Piece(is, 56)>> \in Lines
    BY <1>2, LineOfOne
  <2> QED
    BY <2>1 DEF Box
<1>3. CASE Help
  <2> DEFINE content == Box("help", 16)
  <2>1. Overlaid(lines, m) = Boxed(lines, content, 62, 16, m)
    BY <1>3 DEF Overlaid
  <2>2. content \in [1..16 -> Lines]
    <3> DEFINE n == 16
    <3>1. "help" \in Names /\ n \in Nat
      BY DEF Names
    <3> HIDE DEF n
    <3>2. Box("help", n) \in [1..n -> Lines]
      BY <1>2, <3>1
    <3> QED
      BY <3>2 DEF n
  <2> HIDE DEF content
  <2>3. Boxed(lines, content, 62, 16, m) \in [1..m.height -> Lines]
    <3> DEFINE w == 62
               h == 16
    <3>1. w \in Nat /\ h \in Nat /\ w <= m.width /\ h <= m.height /\ h <= h
          /\ content \in [1..h -> Lines]
      BY <1>1, <1>3, <2>2
    <3> HIDE DEF w, h
    <3>2. Boxed(lines, content, w, h, m) \in [1..m.height -> Lines]
      BY <3>1, BoxDrawn
    <3> QED
      BY <3>2 DEF w, h
  <2>4. m.mode \notin {"normal", "filter"} /\ ~(m.width < 58) /\ m.mode # "confirm"
    BY <1>1, <1>3
  <2> QED
    BY <2>1, <2>3, <2>4
<1>4. CASE Asks
  <2> DEFINE asked == <<Piece("blank", 2)>>
                      \o Truncate(<<Piece("question", m.question), Piece("rest", m.rest)>>, 52)
             content == [Box("confirm", 6) EXCEPT ![4] = asked]
             question == QuestionPiece(m)
  <2>1. Overlaid(lines, m) = Boxed(lines, content, 56, 8, m)
    <3>1. /\ Text(m, "question", m.question) = Piece("question", m.question)
          /\ Text(m, "rest", m.rest) = Piece("rest", m.rest)
      BY TextDrawn DEF Drawable
    <3> QED
      BY <1>4, <3>1 DEF Overlaid
  <2>2. /\ m.question \in Nat /\ m.question > 0 /\ m.question <= 52 /\ m.rest \in Nat
    <3>1. m.question \in 1..52 /\ m.rest \in Nat
      BY DEF Drawable
    <3> DEFINE n == m.question
    <3>2. n \in 1..52
      BY <3>1
    <3> HIDE DEF n
    <3>3. n \in Nat /\ n > 0 /\ n <= 52
      BY <3>2
    <3> QED
      BY <3>1, <3>3 DEF n
  <2>3. question \in Pieces /\ question.w = m.question
    BY <2>2, PieceDrawn DEF QuestionPiece, Names
  <2>4. asked \in Lines /\ Within(asked, question, 54)
    <3> DEFINE rest == Piece("rest", m.rest)
               whole == <<question, rest>>
               cut == Truncate(whole, 52)
               gap == <<Piece("blank", 2)>>
    <3>1. rest \in Pieces
      BY <2>2, PieceDrawn DEF Names
    <3>2. asked = gap \o cut
      BY DEF QuestionPiece
    <3>3. gap \in Lines /\ Width(gap) = 2
      BY LineOfOne DEF Names
    <3> HIDE DEF gap, rest, asked, question
    <3>4. whole = <<question>> \o <<rest>>
      OBVIOUS
    <3>5. <<question>> \in Lines /\ <<rest>> \in Lines
      BY <2>3, <3>1, Widths
    <3>6. Within(<<question>>, question, m.question)
      BY <2>3, WithinItself
    <3>7. Within(<<question>> \o <<rest>>, question, m.question)
      <4> DEFINE a == <<question>>
                 b == <<rest>>
      <4>1. a \in Lines /\ b \in Lines /\ Within(a, question, m.question) /\ m.question \in Int
        BY <2>2, <3>5, <3>6
      <4> HIDE DEF a, b
      <4>2. Within(a \o b, question, m.question)
        BY <2>3, <4>1, WithinBefore
      <4> QED
        BY <4>2 DEF a, b
    <3>8. whole \in Lines /\ Within(whole, question, 52)
      <4>1. whole \in Lines
        BY <3>4, <3>5, Widths
      <4> HIDE DEF whole
      <4>2. Within(whole, question, m.question) /\ 52 \in Int /\ m.question \in Int
        BY <2>2, <3>4, <3>7
      <4> QED
        BY <2>2, <2>3, <4>1, <4>2, WithinMore
    <3> HIDE DEF whole
    <3>9. cut \in Lines
      BY <3>8, TruncateFits
    <3>10. Within(cut, question, 52)
      <4>1. question.w > 0 /\ 52 <= 52 /\ 52 \in Int
        BY <2>2, <2>3
      <4> QED
        BY <2>3, <3>8, <4>1, TruncateKeeps
    <3> HIDE DEF cut
    <3>11. Within(gap \o cut, question, Width(gap) + 52)
      BY <2>3, <3>3, <3>9, <3>10, WithinBehind
    <3>12. gap \o cut \in Lines /\ Width(gap) + 52 = 54
      BY <3>3, <3>9, Widths
    <3> QED
      BY <3>2, <3>11, <3>12
  <2> HIDE DEF asked, question
  <2>5. content \in [1..6 -> Lines] /\ content[4] = asked
    <3> DEFINE box == Box("confirm", 6)
    <3>1. box \in [1..6 -> Lines]
      <4> DEFINE n == 6
      <4>1. "confirm" \in Names /\ n \in Nat
        BY DEF Names
      <4> HIDE DEF n
      <4>2. Box("confirm", n) \in [1..n -> Lines]
        BY <1>2, <4>1
      <4> QED
        BY <4>2 DEF n
    <3> HIDE DEF box
    <3>2. [box EXCEPT ![4] = asked] \in [1..6 -> Lines] /\ [box EXCEPT ![4] = asked][4] = asked
      BY <2>4, <3>1
    <3> QED
      BY <3>2 DEF box
  <2> HIDE DEF content
  <2>6. /\ Boxed(lines, content, 56, 8, m) \in [1..m.height -> Lines]
        /\ \E i \in 1..m.height : Within(Boxed(lines, content, 56, 8, m)[i], question, m.width - 2)
    <3> DEFINE w == 56
               h == 8
               n == 6
    <3>1. w \in Nat /\ h \in Nat /\ n \in Nat /\ w <= m.width /\ h <= m.height /\ n <= h
          /\ content \in [1..n -> Lines] /\ 4 \in 1..n /\ Within(content[4], question, w - 2)
      BY <1>1, <1>4, <2>4, <2>5
    <3> HIDE DEF w, h, n
    <3>2. Boxed(lines, content, w, h, m) \in [1..m.height -> Lines]
      BY <3>1, BoxDrawn
    <3>3. \E i \in 1..m.height : Within(Boxed(lines, content, w, h, m)[i], question, m.width - 2)
      BY <2>3, <3>1, BoxDrawn
    <3> QED
      BY <3>2, <3>3 DEF w, h
  <2>7. m.mode \notin {"normal", "filter"} /\ ~(m.width < 58)
    BY <1>1, <1>4
  <2> QED
    BY <2>1, <2>6, <2>7 DEF question
<1>5. CASE ~Help /\ ~Asks
  <2>1. Overlaid(lines, m) = lines
    BY <1>5 DEF Overlaid
  <2>2. ~(m.mode = "confirm" /\ m.width >= 58)
    BY <1>1, <1>5
  <2> QED
    BY <2>1, <2>2
<1> QED
  BY <1>3, <1>4, <1>5

\* A line that has a piece shows it.
LEMMA ShownWithin ==
    ASSUME NEW frame, NEW i \in DOMAIN frame, frame[i] \in Lines,
           NEW p \in Pieces, NEW c, Within(frame[i], p, c)
    PROVE  Shown(frame, p.is)
<1>1. \E k \in DOMAIN frame[i] : frame[i][k] = p
  BY WithinIsThere
<1> QED
  BY <1>1 DEF Shown

\* The lines of a function from numbers are a sequence.
LEMMA AsSequence ==
    ASSUME NEW n \in Nat, NEW lines \in [1..n -> Lines]
    PROVE  lines \in Seq(Lines) /\ Len(lines) = n /\ DOMAIN lines = 1..n
<1>1. lines \in Seq(Lines) /\ DOMAIN lines = 1..n
  BY SeqDef
<1>2. Len(lines) \in Nat /\ DOMAIN lines = 1..Len(lines)
  BY <1>1, LenProperties
<1> QED
  BY <1>1, <1>2

\* Every frame (Render) is as high as the terminal, no line is wider and the last one is
\* shorter, so that nothing wraps or scrolls; the row under the cursor is in it,
\* with its port and the number of its process, as long as nothing is drawn over
\* the rows; and the question up to the number of the process, where there is room
\* for it: for a terminal of any size that is drawn on, any number of rows, the
\* cursor and the scroll anywhere, and any names and messages of runes that take one
\* column each and have no line break among them (PlainTexts).
THEOREM FramesShowTheAim ==
    ASSUME NEW m, Drawable(m)
    PROVE  InView(m)
<1> DEFINE height == m.height - 4
           rule == <<Piece("rule", m.width)>>
           header == Header(m)
           footer == Footer(m)
           body == Body(m, height)
           above == <<header, rule>>
           beneath == <<rule, footer>>
           lines == above \o body \o beneath
           drawn == Overlaid(lines, m)
           limit(i) == IF i = Len(drawn) THEN m.width - 1 ELSE m.width
           frame == [i \in DOMAIN drawn |-> Truncate(drawn[i], limit(i))]
<1>1. m.width \in Nat /\ m.width >= 50 /\ m.height \in Nat /\ m.height >= 10 /\ m.listed \in Nat
  BY DEF Drawable
<1>2. Render(m) = frame
  <2>1. ~(m.width < 50 \/ m.height < 10)
    BY <1>1
  <2> QED
    BY <2>1 DEF Render
<1>3. height \in Nat /\ height >= 2 /\ (2 + height) + 2 = m.height
  BY <1>1
<1>4. rule \in Lines
  BY <1>1, LineOfOne DEF Names
<1>5. header \in Lines /\ footer \in Lines
  BY EdgesDrawn
<1> HIDE DEF height, rule, header, footer
<1>6. /\ body \in [1..height -> Lines]
      /\ m.listed > 0 => \E i \in 1..height : Aimed(body[i], m)
  BY <1>3, BodyDrawn
<1>7. /\ above \in Seq(Lines) /\ Len(above) = 2 /\ beneath \in [1..2 -> Lines]
  BY <1>4, <1>5, OneOrTwo
<1> HIDE DEF body, above, beneath
<1>8. /\ lines \in [1..m.height -> Lines]
      /\ \A i \in 1..height : lines[2 + i] = body[i]
  <2> DEFINE upper == above \o body
  <2>1. /\ upper \in Seq(Lines) /\ Len(upper) = 2 + height
        /\ \A k \in 1..height : upper[2 + k] = body[k]
    <3>1. /\ upper \in Seq(Lines) /\ Len(upper) = Len(above) + height
          /\ \A k \in 1..height : upper[Len(above) + k] = body[k]
      BY <1>3, <1>6, <1>7, Below
    <3> HIDE DEF upper
    <3> QED
      BY <1>7, <3>1
  <2> HIDE DEF upper
  <2>2. lines = upper \o beneath
    BY DEF upper
  <2> HIDE DEF lines
  <2>3. /\ lines \in Seq(Lines) /\ Len(lines) = (2 + height) + 2
        /\ \A k \in 1..Len(upper) : lines[k] = upper[k]
    <3> DEFINE n == 2
    <3>1. n \in Nat /\ beneath \in [1..n -> Lines]
      BY <1>7
    <3> HIDE DEF n
    <3>2. /\ lines \in Seq(Lines) /\ Len(lines) = Len(upper) + n
          /\ \A k \in 1..Len(upper) : lines[k] = upper[k]
      BY <2>1, <2>2, <3>1, Below
    <3> QED
      BY <2>1, <3>2 DEF n
  <2>4. lines \in [1..m.height -> Lines]
    BY <1>3, <2>3, LenProperties
  <2>5. \A k \in 1..height : 2 + k \in 1..Len(upper)
    BY <1>3, <2>1
  <2> QED
    BY <2>1, <2>3, <2>4, <2>5
<1> HIDE DEF lines
<1>9. /\ drawn \in [1..m.height -> Lines]
      /\ m.mode \in {"normal", "filter"} \/ m.width < 58 => drawn = lines
      /\ m.mode = "confirm" /\ m.width >= 58 =>
            \E i \in 1..m.height : Within(drawn[i], QuestionPiece(m), m.width - 2)
  BY <1>8, OverlaidDrawn
<1> HIDE DEF drawn
<1>10. Len(drawn) = m.height /\ DOMAIN drawn = 1..m.height
  BY <1>1, <1>9, AsSequence
<1>11. \A i \in 1..m.height : /\ limit(i) \in Nat /\ limit(i) >= 49 /\ limit(i) <= m.width
                              /\ limit(i) >= m.width - 1
                              /\ i # m.height => limit(i) = m.width
                              /\ i = m.height => limit(i) = m.width - 1
  BY <1>1, <1>10
<1> HIDE DEF limit
<1>12. ASSUME NEW i \in 1..m.height
       PROVE  /\ Truncate(drawn[i], limit(i)) \in Lines
              /\ Width(Truncate(drawn[i], limit(i))) <= limit(i)
  <2> DEFINE line == drawn[i]
             w == limit(i)
  <2>1. line \in Lines /\ w \in Int /\ AtLeast(w, 0) = w
    BY <1>9, <1>11 DEF AtLeast
  <2> HIDE DEF line, w
  <2>2. Truncate(line, w) \in Lines /\ Width(Truncate(line, w)) <= AtLeast(w, 0)
    BY <2>1, TruncateFits
  <2> QED
    BY <2>1, <2>2 DEF line, w
<1>13. frame \in [1..m.height -> Lines] /\ \A i \in 1..m.height : frame[i] = Truncate(drawn[i], limit(i))
  BY <1>10, <1>12
<1> HIDE DEF frame
<1>14. Len(frame) = m.height /\ DOMAIN frame = 1..m.height
  BY <1>1, <1>13, AsSequence
<1>15. /\ \A i \in DOMAIN frame : Width(frame[i]) <= m.width
       /\ Width(frame[m.height]) < m.width
  <2>1. \A i \in 1..m.height : Width(frame[i]) \in Nat /\ Width(frame[i]) <= limit(i)
    BY <1>12, <1>13, Widths
  <2>2. m.height \in 1..m.height /\ limit(m.height) = m.width - 1
    BY <1>1, <1>11
  <2>3. ASSUME NEW i \in 1..m.height PROVE Width(frame[i]) <= m.width
    <3> DEFINE x == Width(frame[i])
               w == limit(i)
    <3>1. x \in Nat /\ x <= w /\ w \in Nat /\ w <= m.width
      BY <1>11, <2>1
    <3> HIDE DEF x, w
    <3>2. x <= m.width
      BY <1>1, <3>1
    <3> QED
      BY <3>2 DEF x
  <2>4. Width(frame[m.height]) < m.width
    <3> DEFINE x == Width(frame[m.height])
    <3>1. x \in Nat /\ x <= m.width - 1
      BY <2>1, <2>2
    <3> HIDE DEF x
    <3>2. x < m.width
      BY <1>1, <3>1
    <3> QED
      BY <3>2 DEF x
  <2> QED
    BY <1>14, <2>3, <2>4
<1>16. ASSUME m.listed > 0, m.mode \in {"normal", "filter"} \/ m.width < 58
       PROVE  Shown(frame, "port") /\ Shown(frame, "pid")
  <2>1. PICK j \in 1..height : Aimed(body[j], m)
    BY <1>6, <1>16
  <2> DEFINE i == 2 + j
  <2>2. i \in 1..m.height
    BY <1>3
  <2>3. drawn[i] = body[j] /\ body[j] \in Lines
    BY <1>6, <1>8, <1>9, <1>16
  <2> HIDE DEF i
  <2> DEFINE line == drawn[i]
             w == limit(i)
  <2>4. line \in Lines /\ Aimed(line, m) /\ w \in Int /\ w >= 39
    BY <1>11, <2>1, <2>2, <2>3
  <2>5. frame[i] = Truncate(line, w)
    BY <1>13, <2>2
  <2> HIDE DEF line, w
  <2>6. Aimed(frame[i], m) /\ frame[i] \in Lines /\ i \in DOMAIN frame
    BY <1>13, <1>14, <2>2, <2>4, <2>5, AimedMore
  <2>7. PortPiece(m) \in Pieces /\ PidPiece(m) \in Pieces
    BY AimPieces
  <2>8. Shown(frame, PortPiece(m).is) /\ Shown(frame, PidPiece(m).is)
    BY <2>6, <2>7, ShownWithin DEF Aimed
  <2> QED
    BY <2>8, AimPieces
<1>17. ASSUME m.mode = "confirm" /\ m.width >= 58
       PROVE  Shown(frame, "question")
  <2> DEFINE question == QuestionPiece(m)
             c == m.width - 2
  <2>1. PICK i \in 1..m.height : Within(drawn[i], question, c)
    BY <1>9, <1>17
  <2>2. question \in Pieces /\ question.is = "question" /\ question.w > 0
    <3> DEFINE n == m.question
    <3>1. n \in 1..52
      BY DEF Drawable
    <3> HIDE DEF n
    <3>2. n \in Nat /\ n > 0 /\ "question" \in Names
      BY <3>1 DEF Names
    <3> QED
      BY <3>2, PieceDrawn DEF n, QuestionPiece
  <2> DEFINE line == drawn[i]
             w == limit(i)
  <2>3. line \in Lines /\ w \in Int /\ c \in Int /\ c <= w /\ Within(line, question, c)
    <3>1. line \in Lines /\ Within(line, question, c)
      BY <1>9, <2>1
    <3>2. w \in Nat /\ w >= m.width - 1
      BY <1>11
    <3> HIDE DEF w
    <3> QED
      BY <1>1, <3>1, <3>2
  <2>4. frame[i] = Truncate(line, w) /\ frame[i] \in Lines /\ i \in DOMAIN frame
    BY <1>13, <1>14
  <2> HIDE DEF line, w, c, question
  <2>5. Within(frame[i], question, c)
    BY <2>2, <2>3, <2>4, TruncateKeeps
  <2>6. Shown(frame, question.is)
    BY <2>2, <2>4, <2>5, ShownWithin
  <2> QED
    BY <2>2, <2>6
<1>18. FitsTerminal(frame, m)
  <2>1. \A i \in 1..m.height : /\ OnTerminal(frame[i]) = frame[i]
                               /\ \A k \in DOMAIN frame[i] : frame[i][k].is # "break"
    <3>1. ASSUME NEW line \in Lines
          PROVE  OnTerminal(line) = line /\ \A k \in DOMAIN line : line[k].is # "break"
      BY AsDrawn
    <3>2. \A i \in 1..m.height : frame[i] \in Lines
      BY <1>13
    <3> QED
      BY <3>1, <3>2
  <2>2. m.height \in 1..m.height
    BY <1>1
  <2> QED
    BY <1>14, <1>15, <2>1, <2>2 DEF FitsTerminal
<1> QED
  BY <1>2, <1>16, <1>17, <1>18 DEF InView

\* What is drawn of what there is in a state of the dashboard is drawable.
LEMMA StateIsDrawable ==
    ASSUME NEW look \in Looks, NEW n \in Nat, NEW at \in Nat, NEW md, at < n \/ n + at = 0
    PROVE  PlainTexts(Drawn(look, n, at, md)) => Drawable(Drawn(look, n, at, md))
<1> DEFINE m == Drawn(look, n, at, md)
<1>1. /\ look.width \in Nat /\ look.width >= 50 /\ look.height \in Nat /\ look.height >= 10
      /\ look.above \in Nat /\ look.below \in Nat /\ look.scroll \in Nat
      /\ look.filter \in Nat /\ look.status \in Nat /\ look.report \in Seq(Nat)
      /\ look.field.port \in 1..6 /\ look.field.proto \in 0..5 /\ look.field.pid \in 1..7
      /\ look.field.process \in Nat /\ look.field.service \in Nat
      /\ look.question \in 1..52 /\ look.rest \in Nat
  BY LooksAreDrawn
<1>2. /\ m.width = look.width /\ m.height = look.height /\ m.scroll = look.scroll
      /\ m.filter = look.filter /\ m.status = look.status /\ m.report = look.report
      /\ m.field = look.field /\ m.question = look.question /\ m.rest = look.rest
      /\ m.listed = (IF n = 0 THEN 0 ELSE look.above + n + look.below)
      /\ m.selected = (IF n = 0 THEN 0 ELSE look.above + at)
  BY DEF Drawn
<1> HIDE DEF m
<1>3. /\ m.listed \in Nat /\ m.selected \in Nat
      /\ m.listed > 0 => m.selected < m.listed
  <2> DEFINE a == look.above
             b == look.below
  <2>1. a \in Nat /\ b \in Nat
    BY <1>1
  <2>2. /\ m.listed = (IF n = 0 THEN 0 ELSE a + n + b)
        /\ m.selected = (IF n = 0 THEN 0 ELSE a + at)
    BY <1>2
  <2> HIDE DEF a, b
  <2>3. CASE n = 0
    BY <2>2, <2>3
  <2>4. CASE n # 0
    BY <2>1, <2>2, <2>4
  <2> QED
    BY <2>3, <2>4
<1>4. PlainTexts(m) => Drawable(m)
  BY <1>1, <1>2, <1>3 DEF Drawable
<1> QED
  BY <1>4 DEF m

\* Whatever the size of the terminal, the filter, the rows around and the texts, as long
\* as their runes take one column each and none breaks a line, every frame of every
\* state of the dashboard shows the row that a key would act on, and the question that
\* is open (AimIsOnScreen): the cursor is on a row (CursorOnRow), and FramesShowTheAim.
THEOREM AimIsShown == Spec => []AimIsOnScreen
<1>1. ASSUME TypeOK, CursorOnRow PROVE AimIsOnScreen
  <2> DEFINE n == Cardinality(Visible)
  <2>1. Visible \in SUBSET Sockets /\ cursor \in Nat /\ mode \in Modes
    BY <1>1, VisibleType DEF TypeOK, Modes
  <2>2. n \in Nat /\ IsFiniteSet(Visible) /\ IsFiniteSet(Sockets) /\ n <= NSockets
    <3>1. n \in Nat /\ IsFiniteSet(Visible)
      BY <2>1, RowsFinite
    <3>2. IsFiniteSet(Sockets) /\ Cardinality(Sockets) = NSockets
      BY DashboardConstants, FS_Interval DEF Sockets
    <3>3. n <= NSockets
      BY <2>1, <3>2, FS_Subset
    <3> QED
      BY <3>1, <3>2, <3>3
  <2>3. cursor < n \/ n + cursor = 0
    <3>1. CASE Visible = {}
      <4>1. n = 0 /\ cursor = 0
        BY <1>1, <2>2, <3>1, FS_EmptySet DEF CursorOnRow
      <4> QED
        BY <4>1
    <3>2. CASE Visible # {}
      BY <1>1, <2>1, <3>2, InRangeMeansOnRow DEF CursorOnRow, Selected
    <3> QED
      BY <3>1, <3>2
  <2> HIDE DEF n
  <2> DEFINE s == <<n, cursor, mode>>
  <2>4. s \in Situations
    <3>1. n \in 0..NSockets
      BY <2>2, DashboardConstants
    <3>2. cursor \in 0..AtLeast(n - 1, 0)
      BY <2>1, <2>2, <2>3 DEF AtLeast
    <3> QED
      BY <2>1, <3>1, <3>2 DEF Situations
  <2>5. s[1] = n /\ s[2] = cursor /\ s[3] = mode
    OBVIOUS
  <2>6. \A look \in Looks : PlainTexts(Drawn(look, n, cursor, mode))
                              => InView(Drawn(look, n, cursor, mode))
    BY <2>1, <2>2, <2>3, StateIsDrawable, FramesShowTheAim
  <2> HIDE DEF s
  <2>7. s \in DrawnRight
    BY <2>4, <2>5, <2>6 DEF DrawnRight, Frames
  <2> QED
    BY <2>7 DEF AimIsOnScreen, s, n
<1> QED
  BY <1>1, TypeCorrect, CursorStaysOnRow, PTL

-----------------------------------------------------------------------------
(* The keys that are read.                                                 *)

\* The bytes behind the first one of a longer key.
Middles == {"[", "O", "~", "tail"} \cup DOMAIN Arrows \cup DOMAIN Tildes

\* What the tables are of, and that no cursor key is an answer.
LEMMA KeyTables ==
    /\ DOMAIN Arrows = {"A", "B", "C", "D", "H", "F"}
    /\ DOMAIN Tildes = {"1", "3", "4", "5", "6", "7", "8"}
    /\ DOMAIN Controls = {"^C", "TAB", "LF", "CR", "DEL", "BS"}
    /\ DOMAIN Leads = {"lead2", "lead3", "lead4"}
    /\ \A c \in DOMAIN Arrows : Arrows[c] \notin AnswerKeys
    /\ \A d \in DOMAIN Tildes : Tildes[d] \notin AnswerKeys
    /\ \A c \in DOMAIN Leads : Leads[c] \in 2..4
<1>1. DOMAIN Arrows = {"A", "B", "C", "D", "H", "F"}
  BY DEF Arrows
<1>2. DOMAIN Tildes = {"1", "3", "4", "5", "6", "7", "8"}
  BY DEF Tildes
<1>3. DOMAIN Controls = {"^C", "TAB", "LF", "CR", "DEL", "BS"}
  BY DEF Controls
<1>4. DOMAIN Leads = {"lead2", "lead3", "lead4"}
  BY DEF Leads
<1>5. \A c \in DOMAIN Arrows : Arrows[c] \notin AnswerKeys
  BY <1>1 DEF Arrows, AnswerKeys
<1>6. \A d \in DOMAIN Tildes : Tildes[d] \notin AnswerKeys
  BY <1>2 DEF Tildes, AnswerKeys
<1>7. \A c \in DOMAIN Leads : Leads[c] \in 2..4
  BY <1>4 DEF Leads
<1> QED
  BY <1>1, <1>2, <1>3, <1>4, <1>5, <1>6, <1>7

\* A key is one byte, or an escape or a first byte and some from the middle.
LEMMA EncodingShape ==
    ASSUME NEW e, IsEncoding(e)
    PROVE  /\ Len(e.bytes) \in 1..4
           /\ \A i \in 2..Len(e.bytes) : e.bytes[i] \in Middles
           /\ Len(e.bytes) > 1 => e.bytes[1] \in {"ESC"} \cup DOMAIN Leads
           /\ e.bytes[1] \notin Specials => Len(e.bytes) = 1
           /\ e.bytes[1] = "ESC" => \/ e.bytes = <<"ESC">>
                                    \/ Len(e.bytes) > 1 /\ e.bytes[2] \in {"[", "O"}
<1>1. ASSUME NEW by \in {"[", "O"}, NEW c \in DOMAIN Arrows,
             e = [key |-> Arrows[c], bytes |-> <<"ESC", by, c>>]
      PROVE  Len(e.bytes) = 3 /\ e.bytes[1] = "ESC" /\ e.bytes[2] = by /\ e.bytes[3] = c
  BY <1>1
<1>2. ASSUME NEW d \in DOMAIN Tildes, e = [key |-> Tildes[d], bytes |-> <<"ESC", "[", d, "~">>]
      PROVE  /\ Len(e.bytes) = 4 /\ e.bytes[1] = "ESC" /\ e.bytes[2] = "["
             /\ e.bytes[3] = d /\ e.bytes[4] = "~"
  BY <1>2
<1>3. ASSUME NEW c \in DOMAIN Leads,
             e = [key |-> "rune",
                  bytes |-> [i \in 1..Leads[c] |-> IF i = 1 THEN c ELSE "tail"]]
      PROVE  /\ Len(e.bytes) = Leads[c] /\ e.bytes[1] = c
             /\ \A i \in 2..Leads[c] : e.bytes[i] = "tail"
  BY <1>3, KeyTables
<1>4. CASE \E by \in {"[", "O"}, c \in DOMAIN Arrows :
              e = [key |-> Arrows[c], bytes |-> <<"ESC", by, c>>]
  BY <1>1, <1>4, KeyTables DEF Middles, Specials
<1>5. CASE \E d \in DOMAIN Tildes : e = [key |-> Tildes[d], bytes |-> <<"ESC", "[", d, "~">>]
  BY <1>2, <1>5, KeyTables DEF Middles, Specials
<1>6. CASE \E c \in DOMAIN Leads :
              e = [key |-> "rune",
                   bytes |-> [i \in 1..Leads[c] |-> IF i = 1 THEN c ELSE "tail"]]
  BY <1>3, <1>6, KeyTables DEF Middles, Specials
<1>7. CASE \/ \E c \in DOMAIN Controls : e = [key |-> Controls[c], bytes |-> <<c>>]
           \/ e = [key |-> "Esc", bytes |-> <<"ESC">>]
           \/ e.key \notin Specials /\ e = [key |-> e.key, bytes |-> <<e.key>>]
  <2>1. /\ Len(e.bytes) = 1 /\ e.bytes = <<e.bytes[1]>>
    BY <1>7
  <2> QED
    BY <2>1
<1> QED
  BY <1>4, <1>5, <1>6, <1>7 DEF IsEncoding

\* A byte from the middle of a key is read by itself, as no answer.
LEMMA MiddleByItself ==
    ASSUME NEW b, b[1] \in Middles
    PROVE  ReadKey(b).n = 1 /\ ReadKey(b).key \notin AnswerKeys
<1>1. b[1] # "ESC" /\ b[1] \notin DOMAIN Controls /\ b[1] \notin DOMAIN Leads /\ b[1] \notin AnswerKeys
  BY KeyTables DEF Middles, AnswerKeys
<1>2. ReadKey(b) = Character(b)
  BY <1>1 DEF ReadKey
<1>3. Character(b) = Taken("Unknown", 1) \/ Character(b) = Taken(b[1], 1)
  BY <1>1 DEF Character, Whole
<1>4. "Unknown" \notin AnswerKeys
  BY DEF AnswerKeys
<1> QED
  BY <1>1, <1>2, <1>3, <1>4 DEF Taken

\* A key that has arrived as a whole is read as it is, unless more makes an escape
\* a longer one.
LEMMA ReadsWhole ==
    ASSUME NEW e, IsEncoding(e), NEW b, Len(b) \in Nat, Len(e.bytes) <= Len(b),
           \A i \in 1..Len(e.bytes) : b[i] = e.bytes[i],
           ~(e.bytes = <<"ESC">> /\ 2 <= Len(b) /\ b[2] \in {"[", "O"})
    PROVE  ReadKey(b).key = e.key /\ ReadKey(b).n = Len(e.bytes)
<1>1. ASSUME NEW by \in {"[", "O"}, NEW c \in DOMAIN Arrows,
             e = [key |-> Arrows[c], bytes |-> <<"ESC", by, c>>]
      PROVE  ReadKey(b) = Taken(e.key, Len(e.bytes))
  <2>1. Len(e.bytes) = 3 /\ e.bytes[1] = "ESC" /\ e.bytes[2] = by /\ e.bytes[3] = c
    BY <1>1
  <2>2. Len(b) >= 3 /\ b[1] = "ESC" /\ b[2] = by /\ b[3] = c
    BY <2>1
  <2>3. Escape(b) = Taken(Arrows[c], 3)
    BY <2>2 DEF Escape
  <2> QED
    BY <1>1, <2>1, <2>2, <2>3 DEF ReadKey
<1>2. ASSUME NEW d \in DOMAIN Tildes, e = [key |-> Tildes[d], bytes |-> <<"ESC", "[", d, "~">>]
      PROVE  ReadKey(b) = Taken(e.key, Len(e.bytes))
  <2>1. /\ Len(e.bytes) = 4 /\ e.bytes[1] = "ESC" /\ e.bytes[2] = "["
        /\ e.bytes[3] = d /\ e.bytes[4] = "~"
    BY <1>2
  <2>2. Len(b) >= 4 /\ b[1] = "ESC" /\ b[2] = "[" /\ b[3] = d /\ b[4] = "~"
    BY <2>1
  <2>3. d \notin DOMAIN Arrows
    BY KeyTables
  <2>4. Escape(b) = Taken(Tildes[d], 4)
    BY <2>2, <2>3 DEF Escape
  <2> QED
    BY <1>2, <2>1, <2>2, <2>4 DEF ReadKey
<1>3. ASSUME NEW c \in DOMAIN Leads,
             e = [key |-> "rune",
                  bytes |-> [i \in 1..Leads[c] |-> IF i = 1 THEN c ELSE "tail"]]
      PROVE  ReadKey(b) = Taken(e.key, Len(e.bytes))
  <2>1. /\ Len(e.bytes) = Leads[c] /\ e.bytes[1] = c
        /\ \A i \in 2..Leads[c] : e.bytes[i] = "tail"
    BY <1>3, KeyTables
  <2>2. Leads[c] <= Len(b) /\ b[1] = c /\ \A i \in 2..Leads[c] : b[i] = "tail"
    BY <2>1, KeyTables
  <2>3. c # "ESC" /\ c \notin DOMAIN Controls
    BY KeyTables
  <2>4. Character(b) = Taken("rune", Leads[c])
    BY <2>2 DEF Character, Whole
  <2> QED
    BY <1>3, <2>1, <2>2, <2>3, <2>4 DEF ReadKey
<1>4. ASSUME NEW c \in DOMAIN Controls, e = [key |-> Controls[c], bytes |-> <<c>>]
      PROVE  ReadKey(b) = Taken(e.key, Len(e.bytes))
  <2>1. Len(e.bytes) = 1 /\ e.bytes[1] = c /\ c # "ESC"
    BY <1>4, KeyTables
  <2>2. b[1] = c
    BY <2>1
  <2> QED
    BY <1>4, <2>1, <2>2 DEF ReadKey
<1>5. ASSUME e = [key |-> "Esc", bytes |-> <<"ESC">>]
      PROVE  ReadKey(b) = Taken(e.key, Len(e.bytes))
  <2>1. Len(e.bytes) = 1 /\ e.bytes[1] = "ESC" /\ e.bytes = <<"ESC">>
    BY <1>5
  <2>2. b[1] = "ESC"
    BY <2>1
  <2>3. ~(Len(b) >= 2 /\ b[2] = "[") /\ ~(Len(b) >= 2 /\ b[2] = "O")
    BY <2>1
  <2>4. Escape(b) = Taken("Esc", 1)
    BY <2>3 DEF Escape
  <2> QED
    BY <1>5, <2>1, <2>2, <2>4 DEF ReadKey
<1>6. ASSUME e.key \notin Specials, e = [key |-> e.key, bytes |-> <<e.key>>]
      PROVE  ReadKey(b) = Taken(e.key, Len(e.bytes))
  <2>1. e.bytes = <<e.key>>
    BY <1>6
  <2>2. Len(e.bytes) = 1 /\ e.bytes[1] = e.key
    BY <2>1
  <2>3. b[1] = e.key
    BY <2>2
  <2>4. b[1] # "ESC" /\ b[1] # "tail" /\ b[1] \notin DOMAIN Controls /\ b[1] \notin DOMAIN Leads
    BY <1>6, <2>3 DEF Specials
  <2>5. Character(b) = Taken(b[1], 1)
    BY <2>4 DEF Character, Whole
  <2> QED
    BY <2>2, <2>3, <2>4, <2>5 DEF ReadKey
<1>7. ReadKey(b) = Taken(e.key, Len(e.bytes))
  BY <1>1, <1>2, <1>3, <1>4, <1>5, <1>6 DEF IsEncoding
<1> QED
  BY <1>7 DEF Taken

\* Of a key whose end has not arrived, the first byte is read, or two: as an escape
\* or as nothing.
LEMMA ReadsStart ==
    ASSUME NEW e, IsEncoding(e), NEW b, NEW n \in Nat, n = Len(b), 0 < n, n < Len(e.bytes),
           \A i \in 1..Len(b) : b[i] = e.bytes[i]
    PROVE  ReadKey(b).key \in {"Esc", "Unknown"} /\ ReadKey(b).n \in 1..Len(b)
<1>1. ASSUME NEW by \in {"[", "O"}, NEW c \in DOMAIN Arrows,
             e = [key |-> Arrows[c], bytes |-> <<"ESC", by, c>>]
      PROVE  ReadKey(b) = Taken("Esc", Len(b))
  <2>1. Len(e.bytes) = 3 /\ e.bytes[1] = "ESC" /\ e.bytes[2] = by
    BY <1>1
  <2>2. Len(b) = 1 \/ Len(b) = 2
    BY <2>1
  <2>3. b[1] = "ESC" /\ (Len(b) = 2 => b[2] = by)
    BY <2>1, <2>2
  <2>4. Escape(b) = Taken("Esc", Len(b))
    BY <2>2, <2>3 DEF Escape
  <2> QED
    BY <2>3, <2>4 DEF ReadKey
<1>2. ASSUME NEW d \in DOMAIN Tildes, e = [key |-> Tildes[d], bytes |-> <<"ESC", "[", d, "~">>]
      PROVE  ReadKey(b) = Taken("Esc", IF Len(b) = 1 THEN 1 ELSE 2)
  <2>1. Len(e.bytes) = 4 /\ e.bytes[1] = "ESC" /\ e.bytes[2] = "[" /\ e.bytes[3] = d
    BY <1>2
  <2>2. Len(b) = 1 \/ Len(b) = 2 \/ Len(b) = 3
    BY <2>1
  <2>3. b[1] = "ESC" /\ (Len(b) # 1 => b[2] = "[") /\ (Len(b) = 3 => b[3] = d)
    BY <2>1, <2>2
  <2>4. d \notin DOMAIN Arrows
    BY KeyTables
  <2>5. Escape(b) = Taken("Esc", IF Len(b) = 1 THEN 1 ELSE 2)
    BY <2>2, <2>3, <2>4 DEF Escape
  <2> QED
    BY <2>3, <2>5 DEF ReadKey
<1>3. ASSUME NEW c \in DOMAIN Leads,
             e = [key |-> "rune",
                  bytes |-> [i \in 1..Leads[c] |-> IF i = 1 THEN c ELSE "tail"]]
      PROVE  ReadKey(b) = Taken("Unknown", 1)
  <2>1. Len(e.bytes) = Leads[c] /\ e.bytes[1] = c
    BY <1>3, KeyTables
  <2>2. b[1] = c /\ ~(Leads[c] <= Len(b))
    BY <2>1, KeyTables
  <2>3. c # "ESC" /\ c \notin DOMAIN Controls
    BY KeyTables
  <2>4. Character(b) = Taken("Unknown", 1)
    BY <2>2 DEF Character, Whole
  <2> QED
    BY <2>2, <2>3, <2>4 DEF ReadKey
<1>4. ASSUME \/ \E c \in DOMAIN Controls : e = [key |-> Controls[c], bytes |-> <<c>>]
             \/ e = [key |-> "Esc", bytes |-> <<"ESC">>]
             \/ e.key \notin Specials /\ e = [key |-> e.key, bytes |-> <<e.key>>]
      PROVE  FALSE
  <2>1. Len(e.bytes) = 1
    BY <1>4
  <2> QED
    BY <2>1
<1>5. CASE \E by \in {"[", "O"}, c \in DOMAIN Arrows :
              e = [key |-> Arrows[c], bytes |-> <<"ESC", by, c>>]
  <2>1. ReadKey(b) = Taken("Esc", Len(b))
    BY <1>1, <1>5
  <2> QED
    BY <2>1 DEF Taken
<1>6. CASE \E d \in DOMAIN Tildes : e = [key |-> Tildes[d], bytes |-> <<"ESC", "[", d, "~">>]
  <2>1. ReadKey(b) = Taken("Esc", IF Len(b) = 1 THEN 1 ELSE 2)
    BY <1>2, <1>6
  <2>2. 1 \in 1..Len(b) /\ (Len(b) # 1 => 2 \in 1..Len(b))
    OBVIOUS
  <2> QED
    BY <2>1, <2>2 DEF Taken
<1>7. CASE \E c \in DOMAIN Leads :
              e = [key |-> "rune",
                   bytes |-> [i \in 1..Leads[c] |-> IF i = 1 THEN c ELSE "tail"]]
  <2>1. ReadKey(b) = Taken("Unknown", 1)
    BY <1>3, <1>7
  <2>2. 1 \in 1..Len(b)
    OBVIOUS
  <2> QED
    BY <2>1, <2>2 DEF Taken
<1> QED
  BY <1>4, <1>5, <1>6, <1>7 DEF IsEncoding

\* An escape with "[" or "O" behind it takes those characters along that it reads,
\* and is at most a no.
LEMMA ReadsLonger ==
    ASSUME NEW b, Len(b) \in Nat, 2 <= Len(b), b[1] = "ESC", b[2] \in {"[", "O"}
    PROVE  /\ ReadKey(b).key \notin AnswerKeys \ {"Esc"}
           /\ ReadKey(b).n \in 2..4 /\ ReadKey(b).n <= Len(b)
           /\ \A i \in 2..ReadKey(b).n : b[i] \notin Specials
<1>1. ReadKey(b) = Escape(b)
  BY DEF ReadKey
<1>2. /\ {"[", "O", "~"} \cap Specials = {}
      /\ DOMAIN Arrows \cap Specials = {} /\ DOMAIN Tildes \cap Specials = {}
  BY KeyTables DEF Specials
<1>3. CASE Len(b) >= 3 /\ b[3] \in DOMAIN Arrows
  <2>1. Escape(b) = Taken(Arrows[b[3]], 3)
    BY <1>3 DEF Escape
  <2> QED
    BY <1>1, <1>2, <1>3, <2>1, KeyTables DEF Taken
<1>4. CASE /\ ~(Len(b) >= 3 /\ b[3] \in DOMAIN Arrows)
           /\ b[2] = "[" /\ Len(b) >= 4 /\ b[3] \in DOMAIN Tildes /\ b[4] = "~"
  <2>1. Escape(b) = Taken(Tildes[b[3]], 4)
    BY <1>4 DEF Escape
  <2> QED
    BY <1>1, <1>2, <1>4, <2>1, KeyTables DEF Taken
<1>5. CASE /\ ~(Len(b) >= 3 /\ b[3] \in DOMAIN Arrows)
           /\ ~(b[2] = "[" /\ Len(b) >= 4 /\ b[3] \in DOMAIN Tildes /\ b[4] = "~")
  <2>1. Escape(b) = Taken("Esc", 2)
    BY <1>5 DEF Escape
  <2> QED
    BY <1>1, <1>2, <2>1 DEF Taken
<1> QED
  BY <1>3, <1>4, <1>5

-----------------------------------------------------------------------------
(* The bytes of a session.                                                 *)

\* Every byte belongs to a key all of whose bytes are there, next to each other.
Blocks ==
    \A i \in 1..Len(stream) :
        /\ stream[i].start < i /\ i <= Ending(i) /\ Ending(i) <= Len(stream)
        /\ \A j \in 1..Len(stream) :
              stream[i].start < j /\ j <= Ending(i) => stream[j] = stream[i]

\* What is decoded ends in the middle of a key only where a read cuts that key.
InTheMiddleOfCutKeys ==
    decoded < readTo => \/ stream[decoded + 1].start = decoded
                        \/ stream[decoded + 1].start < readFrom
                        \/ readTo < Ending(decoded + 1)

KeysInv == KeysTypeOK /\ Blocks /\ InTheMiddleOfCutKeys

\* A byte that was typed, with what is known of the key it is of.
LEMMA ByteTyped ==
    ASSUME KeysTypeOK, Blocks, NEW i \in 1..Len(stream)
    PROVE  /\ stream[i].of \in Encodings /\ IsEncoding(stream[i].of)
           /\ stream[i].start \in Nat /\ Len(stream[i].of.bytes) \in 1..4
           /\ Ending(i) \in Nat /\ stream[i].start < i /\ i <= Ending(i)
           /\ Ending(i) <= Len(stream)
<1>1. stream[i] \in [of : Encodings, start : Nat]
  BY ElementOfSeq DEF KeysTypeOK
<1>2. stream[i].of \in Encodings /\ stream[i].start \in Nat
  BY <1>1
<1>3. IsEncoding(stream[i].of)
  BY <1>2, KeyConstants
<1>4. Len(stream[i].of.bytes) \in 1..4
  BY <1>3, EncodingShape
<1>5. Ending(i) \in Nat
  BY <1>2, <1>4 DEF Ending
<1> QED
  BY <1>2, <1>3, <1>4, <1>5 DEF Blocks

\* Behind a byte that is the last of its key another key starts.
LEMMA StartsBehind ==
    ASSUME KeysTypeOK, Blocks, NEW i \in 1..Len(stream), i = Ending(i), i + 1 <= Len(stream)
    PROVE  stream[i + 1].start = i
<1> DEFINE next == i + 1
<1>1. next \in 1..Len(stream) /\ Len(stream) \in Nat
  BY DEF KeysTypeOK
<1>2. stream[next].start \in Nat /\ stream[next].start < next /\ next <= Ending(next)
  BY <1>1, ByteTyped
<1>3. CASE stream[next].start < i
  <2>1. i <= Ending(next)
    BY <1>1, <1>2, ByteTyped
  <2>2. stream[i] = stream[next]
    BY <1>1, <1>3, <2>1 DEF Blocks
  <2>3. Ending(i) = Ending(next)
    BY <2>2 DEF Ending
  <2> QED
    BY <1>1, <1>2, <2>3
<1> QED
  BY <1>1, <1>2, <1>3

\* A byte that no longer key starts with, and that a key starts with, is a key.
LEMMA AloneIfPlain ==
    ASSUME KeysTypeOK, Blocks, NEW i \in 1..Len(stream), stream[i].start = i - 1,
           Byte(i) \notin Specials
    PROVE  i = Ending(i)
<1>1. Byte(i) = stream[i].of.bytes[1]
  BY DEF Byte, KeysTypeOK
<1>2. Len(stream[i].of.bytes) = 1
  BY <1>1, ByteTyped, EncodingShape
<1> QED
  BY <1>2 DEF Ending, KeysTypeOK

\* What is in the buffer are the bytes that have been read and not decoded.
LEMMA BufferHolds ==
    ASSUME KeysTypeOK, decoded < readTo
    PROVE  /\ Len(Buffer) = readTo - decoded /\ Len(Buffer) \in Nat /\ 0 < Len(Buffer)
           /\ \A i \in 1..Len(Buffer) : Buffer[i] = Byte(decoded + i)
<1>1. readTo - decoded \in Nat \ {0}
  BY DEF KeysTypeOK
<1>2. DOMAIN Buffer = 1..(readTo - decoded)
  BY DEF Buffer
<1>3. Len(Buffer) = readTo - decoded
  BY <1>1, <1>2
<1> QED
  BY <1>1, <1>3 DEF Buffer

\* The types, and that keys lie next to each other, at the start.
LEMMA KeysInvInit == KeysInit => KeysInv
<1> SUFFICES ASSUME KeysInit PROVE KeysInv
  OBVIOUS
<1>1. Len(stream) = 0
  BY DEF KeysInit
<1>2. KeysTypeOK
  BY <1>1 DEF KeysInit, KeysTypeOK
<1>3. Blocks
  BY <1>1 DEF Blocks
<1> QED
  BY <1>2, <1>3 DEF KeysInv, InTheMiddleOfCutKeys, KeysInit

\* What is typed comes behind all there is.
LEMMA TypeKeepsInv ==
    ASSUME KeysInv, NEW e \in Encodings, Type(e)
    PROVE  KeysInv'
<1> DEFINE new == [i \in 1..Len(e.bytes) |-> [of |-> e, start |-> Len(stream)]]
           m == Len(stream)
           l == Len(e.bytes)
<1>1. l \in 1..4
  BY KeyConstants, EncodingShape
<1>2. /\ new \in Seq([of : Encodings, start : Nat]) /\ Len(new) = l
      /\ \A i \in 1..l : new[i] = [of |-> e, start |-> m]
  <2>1. m \in Nat
    BY DEF KeysInv, KeysTypeOK
  <2>2. \A i \in 1..l : new[i] = [of |-> e, start |-> m]
    OBVIOUS
  <2>3. new \in [1..l -> [of : Encodings, start : Nat]]
    BY <2>1
  <2>4. new \in Seq([of : Encodings, start : Nat])
    BY <1>1, <2>3
  <2>5. Len(new) = l
    BY <1>1, <2>3
  <2> QED
    BY <2>2, <2>4, <2>5
<1>3. /\ m \in Nat /\ stream \in Seq([of : Encodings, start : Nat])
      /\ readFrom \in Nat /\ readTo \in Nat /\ decoded \in Nat
      /\ readFrom <= decoded /\ decoded <= readTo /\ readTo <= m
  BY DEF KeysInv, KeysTypeOK
<1>4. stream' = stream \o new /\ UNCHANGED <<readFrom, readTo, decoded>>
  BY DEF Type
<1> HIDE DEF new
<1>5. /\ stream' \in Seq([of : Encodings, start : Nat]) /\ Len(stream') = m + l
      /\ \A i \in 1..m : stream'[i] = stream[i]
      /\ \A i \in 1..l : stream'[m + i] = new[i]
  BY <1>1, <1>2, <1>3, <1>4
<1>6. \A i \in 1..(m + l) : i > m => stream'[i] = [of |-> e, start |-> m]
  <2> SUFFICES ASSUME NEW i \in 1..(m + l), i > m PROVE stream'[i] = [of |-> e, start |-> m]
    OBVIOUS
  <2>1. i - m \in 1..l /\ m + (i - m) = i
    BY <1>1, <1>3
  <2> QED
    BY <1>2, <1>5, <2>1
<1>7. KeysTypeOK'
  BY <1>1, <1>3, <1>4, <1>5 DEF KeysTypeOK
<1>8. Blocks'
  <2> SUFFICES ASSUME NEW i \in 1..(m + l)
               PROVE  /\ stream'[i].start < i /\ i <= Ending(i)' /\ Ending(i)' <= m + l
                      /\ \A j \in 1..(m + l) :
                            stream'[i].start < j /\ j <= Ending(i)' => stream'[j] = stream'[i]
    BY <1>5 DEF Blocks
  <2>1. CASE i <= m
    <3>1. i \in 1..m /\ stream'[i] = stream[i]
      BY <1>3, <1>5, <2>1
    <3>2. /\ stream[i].start \in Nat /\ Ending(i) \in Nat /\ stream[i].start < i
          /\ i <= Ending(i) /\ Ending(i) <= m
      BY <3>1, ByteTyped DEF KeysInv
    <3>3. Ending(i)' = Ending(i)
      BY <3>1 DEF Ending
    <3>4. ASSUME NEW j \in 1..(m + l), stream'[i].start < j, j <= Ending(i)'
          PROVE  stream'[j] = stream'[i]
      <4>1. j \in 1..m
        BY <1>1, <1>3, <3>2, <3>3, <3>4
      <4>2. stream[j] = stream[i]
        BY <3>1, <3>3, <3>4, <4>1 DEF KeysInv, Blocks
      <4> QED
        BY <1>5, <3>1, <4>1, <4>2
    <3> QED
      BY <1>1, <1>3, <3>1, <3>2, <3>3, <3>4
  <2>2. CASE i > m
    <3>1. stream'[i] = [of |-> e, start |-> m]
      BY <1>6, <2>2
    <3>2. stream'[i].start = m /\ stream'[i].of = e
      BY <3>1
    <3>3. Ending(i)' = m + l
      BY <3>2 DEF Ending
    <3>4. ASSUME NEW j \in 1..(m + l), stream'[i].start < j
          PROVE  stream'[j] = stream'[i]
      BY <1>3, <1>6, <3>1, <3>2, <3>4
    <3> QED
      BY <1>1, <1>3, <2>2, <3>2, <3>3, <3>4
  <2> QED
    BY <1>1, <1>3, <2>1, <2>2
<1>9. InTheMiddleOfCutKeys'
  <2> SUFFICES ASSUME decoded < readTo
               PROVE  \/ stream'[decoded + 1].start = decoded
                      \/ stream'[decoded + 1].start < readFrom
                      \/ readTo < Ending(decoded + 1)'
    BY <1>4 DEF InTheMiddleOfCutKeys
  <2>1. decoded + 1 \in 1..m
    BY <1>3
  <2>2. stream'[decoded + 1] = stream[decoded + 1]
    BY <1>5, <2>1
  <2>3. Ending(decoded + 1)' = Ending(decoded + 1)
    BY <1>3, <1>4, <2>2 DEF Ending
  <2> QED
    BY <2>2, <2>3 DEF KeysInv, InTheMiddleOfCutKeys
<1> QED
  BY <1>7, <1>8, <1>9 DEF KeysInv

\* A read starts where a key does, or cuts one.
LEMMA ReadKeepsInv ==
    ASSUME KeysInv, NEW n \in 1..ReadSize, Read(n)
    PROVE  KeysInv'
<1>1. /\ Len(stream) \in Nat /\ readTo \in Nat /\ decoded = readTo /\ n \in Nat
      /\ readTo + n <= Len(stream) /\ n > 0
  BY KeyConstants DEF Read, KeysInv, KeysTypeOK
<1>2. stream' = stream /\ readFrom' = readTo /\ readTo' = readTo + n /\ decoded' = decoded
  BY DEF Read
<1>3. KeysTypeOK'
  BY <1>1, <1>2 DEF KeysInv, KeysTypeOK
<1>4. Blocks'
  BY <1>2 DEF KeysInv, Blocks, Ending
<1>5. stream[decoded + 1].start \in Nat /\ stream[decoded + 1].start < decoded + 1
  BY <1>1, ByteTyped DEF KeysInv
<1>6. InTheMiddleOfCutKeys'
  BY <1>1, <1>2, <1>5 DEF InTheMiddleOfCutKeys
<1> QED
  BY <1>3, <1>4, <1>6 DEF KeysInv

\* One key is read: the position is behind a key, or within one that is cut.
LEMMA DecodeKeepsOrder ==
    ASSUME KeysInv, Decode
    PROVE  /\ decoded' \in Nat /\ decoded < decoded' /\ decoded' <= readTo
           /\ InTheMiddleOfCutKeys'
           /\ IF TakenForLonger THEN lastKey' \notin AnswerKeys \ {"Esc"}
              ELSE IF readFrom <= stream[decoded + 1].start /\ Ending(decoded + 1) <= readTo
                 THEN ComesOut
              ELSE /\ decoded' <= Ending(decoded + 1)
                   /\ lastKey' \in AnswerKeys =>
                         lastKey' = "Esc" /\ decoded = stream[decoded + 1].start
<1> DEFINE at == decoded + 1
           e == stream[at].of
           l == Len(e.bytes)
           b == Buffer
           k == ReadKey(b)
<1>1. /\ Len(stream) \in Nat /\ readFrom \in Nat /\ readTo \in Nat /\ decoded \in Nat
      /\ readFrom <= decoded /\ decoded < readTo /\ readTo <= Len(stream)
      /\ KeysTypeOK /\ Blocks
  BY DEF KeysInv, KeysTypeOK, Decode
<1>2. at \in 1..Len(stream)
  BY <1>1
<1>3. /\ e \in Encodings /\ IsEncoding(e) /\ l \in 1..4
      /\ stream[at].start \in Nat /\ stream[at].start < at /\ at <= Ending(at)
      /\ Ending(at) <= Len(stream) /\ Ending(at) = stream[at].start + l /\ Ending(at) \in Nat
  BY <1>1, <1>2, ByteTyped DEF Ending
<1>4. /\ Len(b) = readTo - decoded /\ Len(b) \in Nat /\ 0 < Len(b)
      /\ \A i \in 1..Len(b) : b[i] = Byte(decoded + i)
  BY <1>1, BufferHolds
<1>5. /\ decoded' = decoded + k.n /\ lastKey' = k.key
      /\ UNCHANGED <<stream, readFrom, readTo>>
  BY DEF Decode
<1>6. \A i \in 1..Len(stream) : Ending(i)' = Ending(i)
  BY <1>5 DEF Ending
\* The bytes of this key that the buffer holds.
<1>7. ASSUME NEW i \in 1..Len(b), decoded + i <= Ending(at)
      PROVE  b[i] = e.bytes[decoded + i - stream[at].start]
  <2>1. decoded + i \in 1..Len(stream)
    BY <1>1, <1>4
  <2>2. stream[decoded + i] = stream[at]
    BY <1>1, <1>2, <1>3, <1>7, <2>1 DEF Blocks
  <2>3. b[i] = Byte(decoded + i)
    BY <1>4, <1>7
  <2>4. i \in Nat /\ decoded \in Nat /\ stream[at].start \in Nat
    BY <1>1, <1>3, <1>4
  <2>5. PICK j \in Nat : j = decoded + i
    BY <2>4
  <2>6. Byte(j) = stream[j].of.bytes[j - stream[j].start]
    BY DEF Byte
  <2>7. stream[j] = stream[at]
    BY <2>2, <2>4, <2>5
  <2>8. Byte(j) = e.bytes[j - stream[at].start]
    BY <2>6, <2>7
  <2> HIDE DEF b, e
  <2>9. b[i] = Byte(j)
    BY <2>3, <2>4, <2>5
  <2> QED
    BY <2>4, <2>5, <2>8, <2>9
\* What has to be known of the position.
<1>8. ASSUME NEW p \in Nat, decoded' = p, decoded < p, p <= readTo,
             p < readTo => \/ stream[p + 1].start = p
                           \/ stream[p + 1].start < readFrom
                           \/ readTo < Ending(p + 1)
      PROVE  decoded' \in Nat /\ decoded < decoded' /\ decoded' <= readTo /\ InTheMiddleOfCutKeys'
  <2>1. p < readTo => p + 1 \in 1..Len(stream)
    BY <1>1, <1>8
  <2>2. p < readTo => Ending(p + 1)' = Ending(p + 1)
    BY <1>6, <2>1
  <2>3. p < readTo => /\ stream[p + 1]' = stream[p + 1] /\ Ending(decoded + 1)' = Ending(p + 1)
    BY <1>5, <1>8, <2>2 DEF Ending
  <2> QED
    BY <1>5, <1>8, <2>3 DEF InTheMiddleOfCutKeys
<1> HIDE DEF b, k
<1>9. CASE TakenForLonger
  <2>1. e.bytes = <<"ESC">> /\ decoded + 2 <= readTo /\ Byte(decoded + 2) \in {"[", "O"}
    BY <1>9 DEF TakenForLonger
  <2>2. l = 1 /\ e.bytes[1] = "ESC"
    BY <2>1
  <2>3. stream[at].start = decoded /\ Ending(at) = at
    BY <1>1, <1>3, <2>2
  <2>4. 2 <= Len(b) /\ 1 \in 1..Len(b) /\ 2 \in 1..Len(b)
    BY <1>1, <1>4, <2>1
  <2>5. b[1] = "ESC" /\ b[2] \in {"[", "O"}
    <3>1. b[1] = e.bytes[decoded + 1 - stream[at].start]
      BY <1>1, <1>7, <2>3, <2>4
    <3>2. decoded + 1 - stream[at].start = 1
      BY <1>1, <2>3
    <3> QED
      BY <1>4, <2>1, <2>2, <2>4, <3>1, <3>2
  <2>6. /\ k.key \notin AnswerKeys \ {"Esc"} /\ k.n \in 2..4 /\ k.n <= Len(b)
        /\ \A i \in 2..k.n : b[i] \notin Specials
    BY <1>4, <2>4, <2>5, ReadsLonger DEF k
  \* Every byte taken along is a key of its own.
  <2>7. ASSUME NEW i \in 2..k.n, decoded + i - 1 = Ending(decoded + i - 1)
        PROVE  decoded + i = Ending(decoded + i)
    <3> DEFINE q == decoded + i - 1
               r == decoded + i
    <3>1. q \in 1..Len(stream) /\ q + 1 = r /\ r \in 1..Len(stream) /\ r - 1 = q
      BY <1>1, <1>4, <2>6
    <3>2. stream[r].start = q
      BY <1>1, <2>7, <3>1, StartsBehind
    <3>3. i \in 1..Len(b)
      BY <1>4, <2>6
    <3>4. Byte(r) \notin Specials
      BY <1>4, <2>6, <3>3
    <3> QED
      BY <1>1, <3>1, <3>2, <3>4, AloneIfPlain
  <2>8. decoded + 2 = Ending(decoded + 2)
    <3>1. decoded + 2 - 1 = at
      BY <1>1
    <3> QED
      BY <2>3, <2>6, <2>7, <3>1
  <2>9. k.n >= 3 => decoded + 3 = Ending(decoded + 3)
    <3>1. decoded + 3 - 1 = decoded + 2
      BY <1>1
    <3> QED
      BY <2>6, <2>7, <2>8, <3>1
  <2>10. k.n = 4 => decoded + 4 = Ending(decoded + 4)
    <3>1. decoded + 4 - 1 = decoded + 3
      BY <1>1
    <3> QED
      BY <2>6, <2>7, <2>9, <3>1
  <2>11. decoded + k.n = Ending(decoded + k.n)
    BY <2>6, <2>8, <2>9, <2>10
  <2> DEFINE p == decoded + k.n
  <2>12. p \in 1..Len(stream) /\ p \in Nat /\ decoded < p /\ p <= readTo
    BY <1>1, <1>4, <2>6
  <2>13. p < readTo => stream[p + 1].start = p
    <3>1. p < readTo => p + 1 <= Len(stream)
      BY <1>1, <2>12
    <3> QED
      BY <1>1, <2>11, <2>12, <3>1, StartsBehind
  <2> QED
    BY <1>5, <1>8, <1>9, <2>6, <2>12, <2>13 DEF k
<1>10. CASE ~TakenForLonger /\ stream[at].start = decoded /\ Ending(at) <= readTo
  <2>1. l <= Len(b)
    BY <1>1, <1>3, <1>4, <1>10
  <2>2. \A i \in 1..l : b[i] = e.bytes[i]
    <3> SUFFICES ASSUME NEW i \in 1..l PROVE b[i] = e.bytes[i]
      OBVIOUS
    <3>1. i \in 1..Len(b) /\ decoded + i <= Ending(at) /\ decoded + i - stream[at].start = i
      BY <1>1, <1>3, <1>4, <1>10, <2>1
    <3> QED
      BY <1>7, <3>1
  <2>3. ~(e.bytes = <<"ESC">> /\ 2 <= Len(b) /\ b[2] \in {"[", "O"})
    <3> SUFFICES ASSUME e.bytes = <<"ESC">>, 2 <= Len(b), b[2] \in {"[", "O"} PROVE FALSE
      OBVIOUS
    <3>1. decoded + 2 <= readTo /\ 2 \in 1..Len(b)
      BY <1>1, <1>4
    <3> QED
      BY <1>4, <1>10, <3>1 DEF TakenForLonger
  <2>4. k.key = e.key /\ k.n = l
    BY <1>3, <1>4, <2>1, <2>2, <2>3, ReadsWhole DEF k
  <2>5. decoded' = Ending(at) /\ lastKey' = e.key
    BY <1>3, <1>5, <1>10, <2>4 DEF k
  <2>6. ComesOut
    BY <1>10, <2>5 DEF ComesOut
  <2> DEFINE p == Ending(at)
  <2>7. p \in 1..Len(stream) /\ p \in Nat /\ decoded < p /\ p <= readTo
    BY <1>1, <1>3, <1>10
  <2>8. p = Ending(p)
    <3>1. stream[p] = stream[at]
      BY <1>1, <1>2, <1>3, <2>7 DEF Blocks
    <3> QED
      BY <3>1 DEF Ending
  <2>9. p < readTo => stream[p + 1].start = p
    <3>1. p < readTo => p + 1 <= Len(stream)
      BY <1>1, <2>7
    <3> QED
      BY <1>1, <2>7, <2>8, <3>1, StartsBehind
  <2>10. decoded' \in Nat /\ decoded < decoded' /\ decoded' <= readTo /\ InTheMiddleOfCutKeys'
    BY <1>8, <2>5, <2>7, <2>9
  <2>11. readFrom <= stream[at].start
    BY <1>1, <1>10
  <2> QED
    BY <1>10, <2>6, <2>10, <2>11
<1>11. ASSUME ~TakenForLonger,
              \/ stream[at].start < readFrom
              \/ readTo < Ending(at)
       PROVE  /\ k.n \in 1..Len(b) /\ decoded + k.n <= Ending(at)
              /\ k.key \in AnswerKeys => k.key = "Esc" /\ decoded = stream[at].start
  <2>1. CASE stream[at].start # decoded
    <3> DEFINE i == at - stream[at].start
    <3>1. /\ i \in 2..l /\ 1 \in 1..Len(b) /\ decoded + 1 <= Ending(at)
          /\ decoded + 1 - stream[at].start = i
      <4>1. stream[at].start < decoded
        BY <1>1, <1>3, <2>1
      <4>2. i >= 2 /\ i <= l /\ i \in Nat
        BY <1>1, <1>3, <4>1
      <4> QED
        BY <1>1, <1>3, <1>4, <4>2
    <3>2. b[1] = e.bytes[i]
      BY <1>7, <3>1
    <3>3. b[1] \in Middles
      BY <1>3, <3>1, <3>2, EncodingShape
    <3>4. k.n = 1 /\ k.key \notin AnswerKeys
      BY <3>3, MiddleByItself DEF k
    <3> QED
      BY <1>1, <1>3, <1>4, <3>4
  <2>2. CASE stream[at].start = decoded
    <3>1. Len(b) < l
      BY <1>1, <1>3, <1>4, <1>11, <2>2
    <3>2. \A i \in 1..Len(b) : b[i] = e.bytes[i]
      <4> SUFFICES ASSUME NEW i \in 1..Len(b) PROVE b[i] = e.bytes[i]
        OBVIOUS
      <4>1. decoded + i <= Ending(at) /\ decoded + i - stream[at].start = i
        BY <1>1, <1>3, <1>4, <2>2, <3>1
      <4> QED
        BY <1>7, <4>1
    <3>3. k.key \in {"Esc", "Unknown"} /\ k.n \in 1..Len(b)
      BY <1>3, <1>4, <3>1, <3>2, ReadsStart DEF k
    <3>4. k.key \in AnswerKeys => k.key = "Esc"
      BY <3>3 DEF AnswerKeys
    <3>5. decoded + k.n <= Ending(at)
      BY <1>1, <1>3, <1>4, <2>2, <3>1, <3>3
    <3> QED
      BY <2>2, <3>3, <3>4, <3>5
  <2> QED
    BY <2>1, <2>2
<1>12. CASE /\ ~TakenForLonger
            /\ stream[at].start < readFrom \/ readTo < Ending(at)
  <2> DEFINE p == decoded + k.n
  <2>1. /\ k.n \in 1..Len(b) /\ p <= Ending(at)
        /\ k.key \in AnswerKeys => k.key = "Esc" /\ decoded = stream[at].start
    BY <1>11, <1>12
  <2>2. p \in 1..Len(stream) /\ p \in Nat /\ decoded < p /\ p <= readTo /\ p >= at
    BY <1>1, <1>4, <2>1
  <2>3. stream[p] = stream[at]
    <3>1. stream[at].start < p
      BY <1>1, <1>3, <2>2
    <3> HIDE DEF p, at
    <3> QED
      BY <1>1, <1>2, <2>1, <2>2, <3>1 DEF Blocks
  <2>4. p < readTo => \/ stream[p + 1].start = p
                      \/ stream[p + 1].start < readFrom
                      \/ readTo < Ending(p + 1)
    <3> SUFFICES ASSUME p < readTo
                 PROVE  \/ stream[p + 1].start = p
                        \/ stream[p + 1].start < readFrom
                        \/ readTo < Ending(p + 1)
      OBVIOUS
    <3>1. p + 1 \in 1..Len(stream)
      BY <1>1, <2>2
    <3>2. CASE p = Ending(at)
      <4>1. p = Ending(p)
        BY <2>3, <3>2 DEF Ending
      <4> QED
        BY <1>1, <2>2, <3>1, <4>1, StartsBehind
    <3>3. CASE p # Ending(at)
      <4>1. stream[at].start < p + 1 /\ p + 1 <= Ending(at)
        <5> HIDE DEF p
        <5> QED
          BY <1>1, <1>3, <2>1, <2>2, <3>3
      <4>2. stream[p + 1] = stream[at]
        BY <1>1, <1>2, <3>1, <4>1 DEF Blocks
      <4>3. Ending(p + 1) = Ending(at)
        BY <4>2 DEF Ending
      <4> QED
        BY <1>12, <4>2, <4>3
    <3> QED
      BY <3>2, <3>3
  <2>5. decoded' = p /\ lastKey' = k.key
    BY <1>5 DEF k
  <2>6. decoded' \in Nat /\ decoded < decoded' /\ decoded' <= readTo /\ InTheMiddleOfCutKeys'
    BY <1>8, <2>2, <2>4, <2>5
  <2>7. ~(readFrom <= stream[at].start /\ Ending(at) <= readTo)
    BY <1>1, <1>3, <1>12
  <2> QED
    BY <1>12, <2>1, <2>5, <2>6, <2>7
<1>13. \/ stream[at].start = decoded
       \/ stream[at].start < readFrom
       \/ readTo < Ending(at)
  BY <1>1 DEF KeysInv, InTheMiddleOfCutKeys
<1> QED
  BY <1>1, <1>3, <1>9, <1>10, <1>12, <1>13

\* One key is read: nothing else changes.
LEMMA DecodeKeepsInv ==
    ASSUME KeysInv, Decode
    PROVE  KeysInv'
<1>1. UNCHANGED <<stream, readFrom, readTo>>
  BY DEF Decode
<1>2. decoded' \in Nat /\ decoded < decoded' /\ decoded' <= readTo /\ InTheMiddleOfCutKeys'
  BY DecodeKeepsOrder
<1>3. KeysTypeOK'
  BY <1>1, <1>2 DEF KeysInv, KeysTypeOK
<1>4. Blocks'
  BY <1>1 DEF KeysInv, Blocks, Ending
<1> QED
  BY <1>2, <1>3, <1>4 DEF KeysInv

\* The keys that were typed lie next to each other in what the terminal sent, and
\* ReadKey stands in the middle of one only where a read cut it.
THEOREM MiddleOnlyOfCutKeys == KeysSpec => []KeysInv
<1>1. KeysInv /\ [KeysNext]_keyVars => KeysInv'
  <2> SUFFICES ASSUME KeysInv, [KeysNext]_keyVars PROVE KeysInv'
    OBVIOUS
  <2>1. ASSUME NEW e \in Encodings, Type(e) PROVE KeysInv'
    BY <2>1, TypeKeepsInv
  <2>2. ASSUME NEW n \in 1..ReadSize, Read(n) PROVE KeysInv'
    BY <2>2, ReadKeepsInv
  <2>3. CASE Decode
    BY <2>3, DecodeKeepsInv
  <2>4. CASE UNCHANGED keyVars
    BY <2>4 DEF keyVars, KeysInv, KeysTypeOK, Blocks, InTheMiddleOfCutKeys, Ending
  <2> QED
    BY <2>1, <2>2, <2>3, <2>4 DEF KeysNext
<1> QED
  BY <1>1, KeysInvInit, PTL DEF KeysSpec

\* However the bytes are cut into reads, only the keys that are cut are misread,
\* and an escape that more makes a longer key of; what comes of these confirms
\* nothing and ends nothing, but may be the escape key, which is a no
\* (handleConfirmKey): any keys, any size of a read.
THEOREM WholeKeysComeOut == KeysSpec => OnlyCutKeysAreMisread
<1> DEFINE Right == IF TakenForLonger THEN lastKey' \notin AnswerKeys \ {"Esc"}
                    ELSE IF readFrom <= stream[decoded + 1].start /\ Ending(decoded + 1) <= readTo
                       THEN ComesOut
                    ELSE /\ decoded' <= Ending(decoded + 1)
                         /\ lastKey' \in AnswerKeys =>
                               lastKey' = "Esc" /\ decoded = stream[decoded + 1].start
<1>1. KeysInv /\ [KeysNext]_keyVars => [decoded' # decoded => Right]_keyVars
  <2> SUFFICES ASSUME KeysInv, KeysNext, decoded' # decoded PROVE Right
    BY DEF keyVars
  <2>1. Decode
    BY DEF KeysNext, Type, Read
  <2> QED
    BY <2>1, DecodeKeepsOrder
<1> QED
  BY <1>1, MiddleOnlyOfCutKeys, PTL DEF KeysSpec, OnlyCutKeysAreMisread
=============================================================================
