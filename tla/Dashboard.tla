----------------------------- MODULE Dashboard -----------------------------
(***************************************************************************)
(* The full-screen dashboard: App of internal/tui/app.go and Model of      *)
(* internal/tui/model.go.  One event loop takes ticks, listings, reports   *)
(* and keys, one at a time and under App.mu; two background goroutines     *)
(* fetch listings and reports and hand them over through channels of one   *)
(* place; every confirmed action runs in a goroutine of its own.           *)
(*                                                                         *)
(* The two singleFlight values are the ones SingleFlight models step by    *)
(* step.  Here a caller's failed swap and its mark are one step (nothing   *)
(* this model observes lies between them), and the goroutine's look at     *)
(* `pending` and its lowering of `flight` stay two.                        *)
(*                                                                         *)
(* A listing is a function from sockets to owners, and its rows are the    *)
(* sockets that are not free, in order.  What is drawn, in a window of any *)
(* size, is Frame.  Status texts and tabs are left out.                    *)
(***************************************************************************)
EXTENDS Integers, FiniteSets

CONSTANTS NSockets,    \* sockets (a protocol and a port) in scope, in listing order
          PortOf,      \* the port of each socket
          Pids,        \* processes that may own sockets
          Filters,     \* filter texts, each as the set of entries it matches
          Kinds,       \* the actions a user asks for: kill, force, restart
          Overlays,    \* bound: the modes a user opens, of filter and help
          PageSize,    \* rows a page key moves by
          StartHosts,  \* bound: who may own the sockets at the start
          Changing,    \* bound: sockets and owners that the host's programs may give them
          MaxChurn,    \* bound: changes of owner made by the host's programs
          MaxActs,     \* bound: confirmed actions
          MaxFailures  \* bound: listings and inspections that fail

Sockets == 1..NSockets
None == 0
Unknown == 0             \* the owner's PID could not be determined
Free == -1               \* nobody listens
Owners == Pids \cup {Unknown, Free}
Acts == 1..MaxActs
Ports == {PortOf[s] : s \in Sockets}
NoFilter == Sockets \X Owners   \* the empty text

ASSUME DashboardConstants ==
    /\ NSockets \in Nat /\ PageSize \in Nat \ {0}
    /\ MaxChurn \in Nat /\ MaxActs \in Nat /\ MaxFailures \in Nat
    /\ PortOf \in [Sockets -> Nat]
    /\ StartHosts \subseteq [Sockets -> Owners]
    /\ IsFiniteSet(Pids) /\ \A p \in Pids : p \in Nat /\ p > 1
    /\ NoFilter \in Filters /\ \A f \in Filters : f \subseteq NoFilter
    /\ Kinds \subseteq {"kill", "force", "restart"}
    /\ Changing \subseteq Sockets \X Owners
    /\ Overlays \subseteq {"filter", "help"}

VARIABLES host,          \* who owns each socket now
          churn,         \* owner changes made so far
          failures,      \* listings and inspections failed so far
          exited,        \* the event loop has returned
          entries,       \* Model.Entries
          filter,        \* Model.Filter
          cursor,        \* Model.SelectedIdx
          mode,          \* Model.ViewMode
          confirmAction, confirmTarget,  \* of Model
          selReport,     \* Model.SelectedReport
          cache,         \* Model.ReportCache, by port
          reportWant,    \* App.reportWant
          lpc, lpending, lheld,   \* App.refresh: its goroutine, flag and result
          rpc, rpending, rheld,   \* App.report: its goroutine, flag, target or result
          listChan, reportChan,   \* what waits in the two channels
          act            \* the action goroutines

NoReport == [sock |-> None, pid |-> Unknown]
NoRow == [sock |-> None, pid |-> Unknown]
NoListing == [s \in Sockets |-> Free]
Idle == [pc |-> "none", kind |-> "none", target |-> NoRow, rep |-> NoReport]

env == <<host, churn, failures>>
ui == <<entries, filter, cursor, mode, confirmAction, confirmTarget>>
lists == <<lpc, lpending, lheld, listChan>>
reports == <<reportWant, rpc, rpending, rheld, reportChan>>
vars == <<env, exited, ui, selReport, cache, lists, reports, act>>

Init == /\ host \in StartHosts
        /\ churn = 0 /\ failures = 0
        /\ exited = FALSE
        /\ entries = NoListing
        /\ filter = NoFilter
        /\ cursor = 0
        /\ mode = "normal"
        /\ confirmAction = "none" /\ confirmTarget = NoRow
        /\ selReport = NoReport
        /\ cache = [p \in Ports |-> NoReport]
        /\ reportWant = None
        /\ lpc = "start" /\ lpending = FALSE /\ lheld = NoListing
        /\ rpc = "none" /\ rpending = FALSE /\ rheld = NoReport
        /\ listChan = {} /\ reportChan = {}
        /\ act = [a \in Acts |-> Idle]

-----------------------------------------------------------------------------
(* Rows and the cursor.                                                    *)

Rows(e, f) == {s \in Sockets : e[s] # Free /\ <<s, e[s]>> \in f}
IndexOf(rows, s) == Cardinality({t \in rows : t < s})
RowAt(rows, k) == IF \E s \in rows : IndexOf(rows, s) = k
                     THEN CHOOSE s \in rows : IndexOf(rows, s) = k
                     ELSE None

\* SelectedEntry.
Visible == Rows(entries, filter)
Selected == RowAt(Visible, cursor)
SelectedRow == IF Selected = None THEN NoRow
               ELSE [sock |-> Selected, pid |-> entries[Selected]]

\* The cursor is left where it was when rows disappear under it.
ClampNone(k, n) == k

\* RecomputeFilter keeps the cursor inside the rows.
Clamp(k, n) == IF n = 0 THEN 0 ELSE IF k >= n THEN n - 1 ELSE k

\* The selection stays at its position in the list, not on its row.
RestoreByPosition(rows, s) == Clamp(cursor, Cardinality(rows))

\* SetEntries puts the cursor back on the row it was on, if that is left.
Restore(rows, s) == IF s \in rows THEN IndexOf(rows, s)
                    ELSE Clamp(cursor, Cardinality(rows))

MoveUp(k, n) == IF k > 0 THEN k - 1 ELSE k
MoveDown(k, n) == IF k < n - 1 THEN k + 1 ELSE k
PageUp(k, n) == IF k - PageSize < 0 THEN 0 ELSE k - PageSize
PageDown(k, n) == LET j == IF k + PageSize >= n THEN n - 1 ELSE k + PageSize
                  IN  IF j < 0 THEN 0 ELSE j
Home(k, n) == 0
End(k, n) == IF n > 0 THEN n - 1 ELSE k
Moves(k, n) == {MoveUp(k, n), MoveDown(k, n), PageUp(k, n), PageDown(k, n),
                Home(k, n), End(k, n)}

-----------------------------------------------------------------------------
(* singleFlight.run, once for listings and once for reports.               *)

RunList == IF lpc = "none" THEN lpc' = "start" /\ UNCHANGED lpending
                           ELSE lpending' = TRUE /\ UNCHANGED lpc

RunReport == IF rpc = "none" THEN rpc' = "start" /\ UNCHANGED rpending
                             ELSE rpending' = TRUE /\ UNCHANGED rpc

\* A cached report is taken as good enough, and not fetched again.
EnsureCachedIsEnough(s, shown) ==
    IF s = None
       THEN selReport' = NoReport /\ UNCHANGED <<reportWant, rpc, rpending>>
       ELSE IF cache[PortOf[s]] # NoReport
               THEN /\ selReport' = cache[PortOf[s]]
                    /\ UNCHANGED <<reportWant, rpc, rpending>>
               ELSE selReport' = shown /\ reportWant' = s /\ RunReport

\* ensureSelectedReportLocked, for the newly selected socket: a cached report
\* is shown at once, otherwise what was shown stays; a fresh one is fetched.
EnsureSelectedReport(s, shown) ==
    IF s = None
       THEN selReport' = NoReport /\ UNCHANGED <<reportWant, rpc, rpending>>
       ELSE /\ selReport' = IF cache[PortOf[s]] # NoReport THEN cache[PortOf[s]] ELSE shown
            /\ reportWant' = s
            /\ RunReport

-----------------------------------------------------------------------------
(* Plausible faults of the code, used to show that the properties notice.  *)

\* A failed listing ends the goroutine without lowering `flight`.
ListFailKeepsFlight ==
    /\ lpc = "start"
    /\ failures < MaxFailures
    /\ failures' = failures + 1
    /\ lpc' = "dead"
    /\ UNCHANGED <<host, churn, exited, ui, selReport, cache, lpending, lheld, listChan,
                   reports, act>>

-----------------------------------------------------------------------------
(* The host: programs bind, release and pass on sockets.                   *)

Churn(s, owner) ==
    /\ ~exited                               \* nobody looks any more
    /\ churn < MaxChurn
    /\ host[s] # owner
    /\ host' = [host EXCEPT ![s] = owner]
    /\ churn' = churn + 1
    /\ UNCHANGED <<failures, exited, ui, selReport, cache, lists, reports, act>>

-----------------------------------------------------------------------------
(* The listing goroutine: fn is the body refreshList hands to the flight.  *)

ListFetch ==
    /\ lpc = "start"
    /\ lpc' = IF host = NoListing THEN "check" ELSE "send"   \* a nil slice is not sent
    /\ lheld' = host
    /\ UNCHANGED <<env, exited, ui, selReport, cache, lpending, listChan, reports, act>>

ListFail ==
    /\ lpc = "start"
    /\ failures < MaxFailures
    /\ failures' = failures + 1
    /\ lpc' = "check"
    /\ UNCHANGED <<host, churn, exited, ui, selReport, cache, lpending, lheld, listChan,
                   reports, act>>

\* A full channel drops the listing.
ListSend ==
    /\ lpc = "send"
    /\ listChan' = IF listChan = {} THEN {lheld} ELSE listChan
    /\ lpc' = "check"
    /\ lheld' = NoListing
    /\ UNCHANGED <<env, exited, ui, selReport, cache, lpending, reports, act>>

ListRepeat ==
    /\ lpc = "check"
    /\ lpc' = IF lpending THEN "start" ELSE "release"
    /\ lpending' = FALSE
    /\ lheld' = NoListing
    /\ UNCHANGED <<env, exited, ui, selReport, cache, listChan, reports, act>>

ListRelease ==
    /\ lpc = "release"
    /\ lpc' = "none"
    /\ UNCHANGED <<env, exited, ui, selReport, cache, lpending, lheld, listChan, reports, act>>

ListStep == ~exited /\ (ListFetch \/ ListFail \/ ListSend \/ ListRepeat \/ ListRelease)

-----------------------------------------------------------------------------
(* The report goroutine: fn is the body ensureSelectedReportLocked passes. *)

\* It loads the target when it runs, not when it was asked to.
ReportLoad ==
    /\ rpc = "start"
    /\ rheld' = [sock |-> reportWant, pid |-> Unknown]
    /\ rpc' = "inspect"
    /\ UNCHANGED <<env, exited, ui, selReport, cache, lists, reportWant, rpending, reportChan, act>>

\* Inspecting a socket nobody holds is an error, and nothing is sent.
ReportInspect ==
    /\ rpc = "inspect"
    /\ rheld' = [rheld EXCEPT !.pid = host[rheld.sock]]
    /\ rpc' = IF host[rheld.sock] = Free THEN "check" ELSE "send"
    /\ UNCHANGED <<env, exited, ui, selReport, cache, lists, reportWant, rpending, reportChan, act>>

ReportFail ==
    /\ rpc = "inspect"
    /\ failures < MaxFailures
    /\ failures' = failures + 1
    /\ rpc' = "check"
    /\ UNCHANGED <<host, churn, exited, ui, selReport, cache, lists, reportWant, rpending,
                   rheld, reportChan, act>>

ReportSend ==
    /\ rpc = "send"
    /\ reportChan' = IF reportChan = {} THEN {rheld} ELSE reportChan
    /\ rpc' = "check"
    /\ rheld' = NoReport
    /\ UNCHANGED <<env, exited, ui, selReport, cache, lists, reportWant, rpending, act>>

ReportRepeat ==
    /\ rpc = "check"
    /\ rpc' = IF rpending THEN "start" ELSE "release"
    /\ rpending' = FALSE
    /\ rheld' = NoReport
    /\ UNCHANGED <<env, exited, ui, selReport, cache, lists, reportWant, reportChan, act>>

ReportRelease ==
    /\ rpc = "release"
    /\ rpc' = "none"
    /\ UNCHANGED <<env, exited, ui, selReport, cache, lists, reportWant, rpending, rheld,
                   reportChan, act>>

ReportStep == /\ ~exited
              /\ \/ ReportLoad \/ ReportInspect \/ ReportFail
                 \/ ReportSend \/ ReportRepeat \/ ReportRelease

-----------------------------------------------------------------------------
(* The event loop.  Each case, with its calls, is one step under App.mu.   *)

Tick == /\ ~exited
        /\ RunList
        /\ UNCHANGED <<env, exited, ui, selReport, cache, lheld, listChan, reports, act>>

\* SetEntries, RecomputeFilter and ensureSelectedReportLocked.
TakeListing ==
    /\ ~exited
    /\ \E e \in listChan :
         LET rows == Rows(e, filter)
             k == Restore(rows, Selected)
         IN  /\ entries' = e
             /\ cursor' = k
             /\ EnsureSelectedReport(RowAt(rows, k), selReport)
    /\ listChan' = {}
    /\ UNCHANGED <<env, exited, filter, mode, confirmAction, confirmTarget, cache,
                   lpc, lpending, lheld, rheld, reportChan, act>>

TakeReport ==
    /\ ~exited
    /\ \E rep \in reportChan :
         /\ cache' = [cache EXCEPT ![PortOf[rep.sock]] = rep]
         /\ selReport' = IF Selected # None /\ PortOf[Selected] = PortOf[rep.sock]
                            THEN rep ELSE selReport
    /\ reportChan' = {}
    /\ UNCHANGED <<env, exited, ui, lists, reportWant, rpc, rpending, rheld, act>>

\* handleNormalKey, for the keys that move the cursor.
Move(k) ==
    /\ ~exited
    /\ mode = "normal"
    /\ cursor' = k
    /\ EnsureSelectedReport(RowAt(Visible, k), selReport)
    /\ UNCHANGED <<env, exited, entries, filter, mode, confirmAction, confirmTarget, cache,
                   lists, rheld, reportChan, act>>

\* `/` and `?`; any key leaves the help.
Enter(m) ==
    /\ ~exited
    /\ mode = "normal"
    /\ mode' = m
    /\ UNCHANGED <<env, exited, entries, filter, cursor, confirmAction, confirmTarget,
                   selReport, cache, lists, reports, act>>

\* Any key in the help, Enter in the filter line.
Leave ==
    /\ ~exited
    /\ mode \in {"filter", "help"}
    /\ mode' = "normal"
    /\ UNCHANGED <<env, exited, entries, filter, cursor, confirmAction, confirmTarget,
                   selReport, cache, lists, reports, act>>

\* SetFilter: a key typed into the filter line, or Esc, which also leaves it;
\* Esc on the list drops a filter that is set.
SetFilter(f) ==
    /\ ~exited
    /\ \/ mode = "filter"
       \/ mode = "normal" /\ filter # NoFilter /\ f = NoFilter
    /\ filter' = f
    /\ mode' \in IF f = NoFilter THEN {mode, "normal"} ELSE {mode}
    /\ LET rows == Rows(entries, f)
           k == Clamp(cursor, Cardinality(rows))
       IN  /\ cursor' = k
           /\ EnsureSelectedReport(RowAt(rows, k), selReport)
    /\ UNCHANGED <<env, exited, entries, confirmAction, confirmTarget, cache, lists,
                   rheld, reportChan, act>>

\* promptKill and promptRestart: only for a row whose owner is known.
Prompt(kind) ==
    /\ ~exited
    /\ mode = "normal"
    /\ Selected # None /\ entries[Selected] > 0
    /\ mode' = "confirm"
    /\ confirmAction' = kind
    /\ confirmTarget' = SelectedRow
    /\ UNCHANGED <<env, exited, entries, filter, cursor, selReport, cache, lists, reports, act>>

Cancel ==
    /\ ~exited
    /\ mode = "confirm"
    /\ mode' = "normal"
    /\ confirmAction' = "none"
    /\ UNCHANGED <<env, exited, entries, filter, cursor, confirmTarget, selReport, cache,
                   lists, reports, act>>

\* handleConfirmKey: the goroutine gets the action and the target of the
\* prompt, and the report that is shown at this moment.
Confirm(a) ==
    /\ ~exited
    /\ mode = "confirm"
    /\ act[a].pc = "none" /\ \A b \in Acts : b < a => act[b].pc # "none"
    /\ act' = [act EXCEPT ![a] = [pc |-> "run", kind |-> confirmAction,
                                  target |-> confirmTarget, rep |-> selReport]]
    /\ mode' = "normal"
    /\ confirmAction' = "none"
    /\ UNCHANGED <<env, exited, entries, filter, cursor, confirmTarget, selReport, cache,
                   lists, reports>>

\* q, Ctrl-C, the end of the input, a signal.
Quit == /\ ~exited
        /\ exited' = TRUE
        /\ UNCHANGED <<env, ui, selReport, cache, lists, reports, act>>

-----------------------------------------------------------------------------
(* The goroutine of a confirmed action.                                    *)

\* With a report, Kill and Restart act on its process; without one, a kill
\* acts on the target and a restart is an error.
Victim(a) == IF act[a].rep # NoReport THEN act[a].rep.pid
             ELSE IF act[a].kind = "restart" THEN Unknown
             ELSE act[a].target.pid

\* What is held by the process killed is freed, or taken over after a restart.
ActRun(a) ==
    /\ act[a].pc = "run"
    /\ act' = [act EXCEPT ![a] = [Idle EXCEPT !.pc = "refresh"]]
    /\ \/ UNCHANGED host                     \* refused, failed or ignored
       \/ /\ Victim(a) # Unknown
          /\ \E heir \in IF act[a].kind = "restart" THEN Pids \cup {Free} ELSE {Free} :
               host' = [s \in Sockets |-> IF host[s] = Victim(a) THEN heir ELSE host[s]]
    /\ UNCHANGED <<churn, failures, exited, ui, selReport, cache, lists, reports>>

ActRefresh(a) ==
    /\ act[a].pc = "refresh"
    /\ act' = [act EXCEPT ![a].pc = "done"]
    /\ RunList
    /\ UNCHANGED <<env, exited, ui, selReport, cache, lheld, listChan, reports>>

ActStep(a) == ~exited /\ (ActRun(a) \/ ActRefresh(a))

-----------------------------------------------------------------------------
Key == \/ \E k \in Moves(cursor, Cardinality(Visible)) : Move(k)
       \/ \E m \in Overlays : Enter(m)
       \/ Leave
       \/ \E f \in Filters : SetFilter(f)
       \/ \E kind \in Kinds : Prompt(kind)
       \/ Cancel
       \/ \E a \in Acts : Confirm(a)

Next == \/ \E c \in Changing : Churn(c[1], c[2])
        \/ ListStep \/ ReportStep
        \/ Tick \/ TakeListing \/ TakeReport
        \/ Key
        \/ \E a \in Acts : ActStep(a)
        \/ Quit

Spec == Init /\ [][Next]_vars

\* The ticker fires, select takes every channel that stays ready, and
\* goroutines run.  Nothing makes the user press a key or the host change.
FairSpec == /\ Spec
            /\ WF_vars(Tick) /\ WF_vars(TakeListing) /\ WF_vars(TakeReport)
            /\ WF_vars(ListStep) /\ WF_vars(ReportStep)
            /\ \A a \in Acts : WF_vars(ActStep(a))

-----------------------------------------------------------------------------
Listing == [Sockets -> Owners]
Report == [sock : Sockets \cup {None}, pid : Owners]
Row == Report

TypeOK == /\ host \in Listing
          /\ churn \in Nat /\ failures \in Nat
          /\ exited \in BOOLEAN
          /\ entries \in Listing
          /\ filter \in Filters
          /\ cursor \in Nat
          /\ mode \in {"normal", "filter", "confirm", "help"}
          /\ confirmAction \in Kinds \cup {"none"} /\ confirmTarget \in Row
          /\ selReport \in Report
          /\ cache \in [Ports -> Report]
          /\ reportWant \in Sockets \cup {None}
          /\ lpc \in {"none", "start", "send", "check", "release"}
          /\ lpending \in BOOLEAN /\ lheld \in Listing
          /\ rpc \in {"none", "start", "inspect", "send", "check", "release"}
          /\ rpending \in BOOLEAN /\ rheld \in Report
          /\ listChan \subseteq Listing /\ reportChan \subseteq Report
          /\ act \in [Acts -> [pc : {"none", "run", "refresh", "done"},
                               kind : Kinds \cup {"none"}, target : Row, rep : Report]]

\* The cursor is on a row whenever there is one: neither a key, nor a filter
\* typed, nor a listing that takes rows away leaves it beyond the last row.
CursorOnRow == IF Visible = {} THEN cursor = 0 ELSE Selected # None

\* A prompt is open exactly while an action is armed, and then for a process
\* that is known, whatever listings arrive and keys are pressed meanwhile: the
\* confirming goroutine never acts on nothing.
PromptArmed ==
    /\ mode = "confirm" <=> confirmAction # "none"
    /\ mode = "confirm" => confirmTarget.pid > 0
    /\ \A a \in Acts : act[a].pc = "run" => act[a].kind \in Kinds /\ act[a].target.pid > 0

\* If a report of the selected port was ever fetched, the report shown is the
\* one fetched last for that port, and never that of a row left behind.
CachedSelectionShown ==
    Selected # None /\ cache[PortOf[Selected]] # NoReport =>
        selReport = cache[PortOf[Selected]]

\* A listing that arrives keeps the cursor on the socket it was on, if that
\* is still listed, however many rows came and went above it.
SelectionKept ==
    [][entries' # entries /\ Selected \in Visible' => Selected' = Selected]_vars

\* Once the host is quiet, the dashboard shows it (a host where nobody
\* listens excepted), although fetches fail, are coalesced or are dropped.
ListCatchesUp == <>[](exited \/ host = NoListing \/ entries = host)

\* While a socket stays selected, its report ends up being that of the
\* process that holds it, however stale the cache was.
ReportCatchesUp ==
    \A s \in Sockets :
        <>[](Selected = s /\ ~exited /\ host[s] # Free)
            => <>[](selReport = [sock |-> s, pid |-> host[s]])

\* "Send graceful SIGTERM with confirmation modal": the process acted on is
\* the one the confirmed prompt names, "Terminate ... (PID n) on port p?".
ActsOnPrompted ==
    \A a \in Acts : act[a].pc = "run" /\ Victim(a) # Unknown =>
        Victim(a) = act[a].target.pid
=============================================================================
