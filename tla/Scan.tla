-------------------------------- MODULE Scan --------------------------------
(***************************************************************************)
(* PortService.Scan of internal/service/service.go with the progress       *)
(* reporter of cmd/app.go on its callback: a prefilter against the host's  *)
(* listeners, a pool of workers fed from a closed channel, shared atomic   *)
(* counters, a mutex around the callback, and the final collection.        *)
(*                                                                         *)
(* Meanwhile the host's programs bind and release ports, and the context   *)
(* may be cancelled.  Requested ports are named by their index; the        *)
(* command line removes duplicates before it gets here.                    *)
(***************************************************************************)
EXTENDS Naturals, Sequences, FiniteSets, Functions

CONSTANTS N,            \* ports requested
          MaxWorkers,   \* cap on the pool: min(2 * NumCPU, 16) in the code
          MaxChurn,     \* bound: ports bound or released during the scan
          LineEvery,    \* piped output prints each LineEvery-th port (100)
          Interactive   \* is the progress stream a terminal

ASSUME ScanConstants == /\ N \in Nat \ {0}
                        /\ MaxWorkers \in Nat \ {0}
                        /\ MaxChurn \in Nat
                        /\ LineEvery \in Nat \ {0}
                        /\ Interactive \in BOOLEAN

Index == 1..N
Workers == 1..MaxWorkers
Use == {"tcp", "udp", "free"}
None == 0                            \* no index, no worker

VARIABLES bound,        \* who holds each requested port on the host now
          since,        \* the holder at the start, or "changed" (history)
          churn,        \* changes made so far
          bad,          \* requested ports outside 1..65535
          cancelled,    \* ctx.Err() # nil
          pc,           \* where Scan stands
          skipped,      \* ports the prefilter took for idle
          jobs,         \* the channel of ports to inspect
          wpc,          \* where each worker stands
          wjob,         \* the job each worker took last
          wdone,        \* doneCount as loaded under the mutex
          results,      \* results[index]
          doneCount,
          foundCount,
          progressMu,   \* the worker inside reportProgress
          progress,     \* arguments of the latest callback
          line,         \* the progress line shown last
          next,         \* the port the filter or collection loop looks at
          res,          \* collection loop: the ScanResult so far
          answer        \* what Scan returned

host == <<bound, since, churn>>
pool == <<jobs, wpc, wjob, wdone, results, doneCount, foundCount, progressMu>>
shown == <<progress, line>>
ending == <<next, res, answer>>
vars == <<host, bad, cancelled, pc, skipped, pool, shown, ending>>

MainPC == {"list", "filter", "pool", "collect", "returned"}
WorkerPC == {"off", "take", "inspect", "done", "found", "lock", "call"}
Result == {"none", "listening", "absent", "broken"}

EmptyResult == [err |-> "none", reports |-> <<>>, failed |-> 0]
Pending == [err |-> "pending", reports |-> <<>>, failed |-> 0]
ErrorResult(e) == [err |-> e, reports |-> <<>>, failed |-> 0]

Init == /\ bound \in [Index -> Use]
        /\ since = bound
        /\ churn = 0
        /\ bad \in SUBSET Index
        /\ cancelled \in BOOLEAN
        /\ pc = "list"
        /\ skipped = {}
        /\ jobs = <<>>
        /\ wpc = [w \in Workers |-> "off"]
        /\ wjob = [w \in Workers |-> None]
        /\ wdone = [w \in Workers |-> 0]
        /\ results = [i \in Index |-> "none"]
        /\ doneCount = 0
        /\ foundCount = 0
        /\ progressMu = None
        /\ progress = [done |-> 0, found |-> 0]
        /\ line = [done |-> 0, found |-> 0]
        /\ next = 1
        /\ res = EmptyResult
        /\ answer = Pending

Min2(a, b) == IF a < b THEN a ELSE b

\* scanProgressReporter.Report: a terminal is refreshed when the interval is
\* over (due), piped output each LineEvery-th port, both at the last port.
Callback(d, f) ==
    /\ progress' = [done |-> d, found |-> f]
    /\ \E due \in IF Interactive THEN BOOLEAN ELSE {d % LineEvery = 0} :
          line' = IF due \/ d = N THEN progress' ELSE line

Return(a) == answer' = a /\ pc' = "returned"
Goto(w, p) == wpc' = [wpc EXCEPT ![w] = p]

-----------------------------------------------------------------------------
(* Plausible faults of the code, used to show that the properties notice.  *)

\* A failed listing is taken for an empty one (no test for activePorts # nil).
ListFailureMeansIdle ==
    /\ pc = "list"
    /\ skipped' \in {{i \in Index : bound[i] = "free"}, Index}
    /\ pc' = "filter"
    /\ UNCHANGED <<host, bad, cancelled, pool, shown, ending>>

\* wg.Add is called once for the pool instead of once per worker.
WaitForOne ==
    /\ pc = "pool"
    /\ \E w \in Workers : wpc[w] = "off"
    /\ IF cancelled THEN Return(ErrorResult("cancelled"))
                    ELSE pc' = "collect" /\ UNCHANGED answer
    /\ UNCHANGED <<host, bad, cancelled, skipped, pool, shown, next, res>>

\* The job is read from a shared slice and not taken out of it.
TakeJobShared(w) ==
    /\ wpc[w] = "take"
    /\ jobs # <<>>
    /\ wjob' = [wjob EXCEPT ![w] = Head(jobs)]
    /\ Goto(w, IF cancelled THEN "off" ELSE "inspect")
    /\ UNCHANGED <<host, bad, cancelled, pc, skipped, jobs, wdone, results, doneCount,
                   foundCount, progressMu, shown, ending>>

\* The counters are loaded before the mutex is taken.
LockTooLate(w) ==
    /\ wpc[w] = "lock"
    /\ progressMu' = w
    /\ wdone' = [wdone EXCEPT ![w] = doneCount]
    /\ Goto(w, "call")
    /\ UNCHANGED <<host, bad, cancelled, pc, skipped, jobs, wjob, results, doneCount,
                   foundCount, shown, ending>>

\* The deferred unlock is missing.
CallKeepsLock(w) ==
    /\ wpc[w] = "call"
    /\ Callback(wdone[w], foundCount)
    /\ Goto(w, "take")
    /\ UNCHANGED <<host, bad, cancelled, pc, skipped, jobs, wjob, wdone, results,
                   doneCount, foundCount, progressMu, ending>>

-----------------------------------------------------------------------------
(* The host and the caller's context.                                      *)

Churn(i, u) == /\ churn < MaxChurn
               /\ pc # "returned"
               /\ u # bound[i]
               /\ bound' = [bound EXCEPT ![i] = u]
               /\ since' = [since EXCEPT ![i] = "changed"]
               /\ churn' = churn + 1
               /\ UNCHANGED <<bad, cancelled, pc, skipped, pool, shown, ending>>

Cancel == /\ ~cancelled
          /\ pc # "returned"
          /\ cancelled' = TRUE
          /\ UNCHANGED <<host, bad, pc, skipped, pool, shown, ending>>

-----------------------------------------------------------------------------
(* Scan itself, up to the start of the workers and after their end.        *)

\* inspector.List: a port counts as active whatever protocol holds it; when
\* the listing fails nothing is taken for idle.
ListActive == /\ pc = "list"
              /\ skipped' \in {{i \in Index : bound[i] = "free"}, {}}
              /\ pc' = "filter"
              /\ UNCHANGED <<host, bad, cancelled, pool, shown, ending>>

\* One turn of the filter loop: a port out of range ends the scan, and a port
\* the listing did not show as idle becomes a job.
FilterPort == /\ pc = "filter"
              /\ next <= N
              /\ IF next \in bad
                    THEN Return(ErrorResult("invalid")) /\ UNCHANGED <<next, jobs>>
                    ELSE /\ next' = next + 1
                         /\ jobs' = IF next \in skipped THEN jobs ELSE Append(jobs, next)
                         /\ UNCHANGED <<pc, answer>>
              /\ UNCHANGED <<host, bad, cancelled, skipped, wpc, wjob, wdone, results,
                             doneCount, foundCount, progressMu, shown, res>>

\* The idle ports count as done at once, the channel holds every job and is
\* closed, and no more workers start than there are jobs.
StartPool == /\ pc = "filter"
             /\ next > N
             /\ wpc' = [w \in Workers |->
                          IF w <= Min2(MaxWorkers, Len(jobs)) THEN "take" ELSE "off"]
             /\ doneCount' = Cardinality(skipped)
             /\ IF skipped # {} THEN Callback(doneCount', 0) ELSE UNCHANGED shown
             /\ pc' = "pool"
             /\ next' = 1
             /\ UNCHANGED <<host, bad, cancelled, skipped, jobs, wjob, wdone, results,
                            foundCount, progressMu, res, answer>>

\* wg.Wait returns, and the context is asked once more.
Wait == /\ pc = "pool"
        /\ \A w \in Workers : wpc[w] = "off"
        /\ IF cancelled THEN Return(ErrorResult("cancelled"))
                        ELSE pc' = "collect" /\ UNCHANGED answer
        /\ UNCHANGED <<host, bad, cancelled, skipped, pool, shown, next, res>>

Collect == /\ pc = "collect"
           /\ next <= N
           /\ res' = IF results[next] \in {"absent", "broken"}
                        THEN [res EXCEPT !.failed = @ + 1]
                     ELSE IF results[next] = "listening"
                        THEN [res EXCEPT !.reports = Append(@, next)]
                     ELSE res
           /\ next' = next + 1
           /\ UNCHANGED <<host, bad, cancelled, pc, skipped, pool, shown, answer>>

Deliver == /\ pc = "collect"
           /\ next > N
           /\ Return(res)
           /\ UNCHANGED <<host, bad, cancelled, skipped, pool, shown, next, res>>

-----------------------------------------------------------------------------
(* A worker.                                                               *)

\* A job is received; a worker that finds the context cancelled drops it.
TakeJob(w) == /\ wpc[w] = "take"
              /\ jobs # <<>>
              /\ jobs' = Tail(jobs)
              /\ wjob' = [wjob EXCEPT ![w] = Head(jobs)]
              /\ Goto(w, IF cancelled THEN "off" ELSE "inspect")
              /\ UNCHANGED <<host, bad, cancelled, pc, skipped, wdone, results, doneCount,
                             foundCount, progressMu, shown, ending>>

\* The channel is closed and empty.
NoMoreJobs(w) == /\ wpc[w] = "take"
                 /\ jobs = <<>>
                 /\ Goto(w, "off")
                 /\ UNCHANGED <<host, bad, cancelled, pc, skipped, jobs, wjob, wdone, results,
                                doneCount, foundCount, progressMu, shown, ending>>

\* InspectDepth over TCP: a listener makes a report with status "listening",
\* no TCP listener is ErrPortNotFound, and resolution itself may fail.
Inspect(w) == /\ wpc[w] = "inspect"
              /\ \E r \in {"broken", IF bound[wjob[w]] = "tcp" THEN "listening" ELSE "absent"} :
                    results' = [results EXCEPT ![wjob[w]] = r]
              /\ Goto(w, "done")
              /\ UNCHANGED <<host, bad, cancelled, pc, skipped, jobs, wjob, wdone, doneCount,
                             foundCount, progressMu, shown, ending>>

CountDone(w) == /\ wpc[w] = "done"
                /\ doneCount' = doneCount + 1
                /\ Goto(w, IF results[wjob[w]] = "listening" THEN "found" ELSE "lock")
                /\ UNCHANGED <<host, bad, cancelled, pc, skipped, jobs, wjob, wdone, results,
                               foundCount, progressMu, shown, ending>>

CountFound(w) == /\ wpc[w] = "found"
                 /\ foundCount' = foundCount + 1
                 /\ Goto(w, "lock")
                 /\ UNCHANGED <<host, bad, cancelled, pc, skipped, jobs, wjob, wdone, results,
                                doneCount, progressMu, shown, ending>>

\* reportProgress takes the mutex and loads doneCount for the first argument.
Lock(w) == /\ wpc[w] = "lock"
           /\ progressMu = None
           /\ progressMu' = w
           /\ wdone' = [wdone EXCEPT ![w] = doneCount]
           /\ Goto(w, "call")
           /\ UNCHANGED <<host, bad, cancelled, pc, skipped, jobs, wjob, results, doneCount,
                          foundCount, shown, ending>>

\* It loads foundCount for the third, calls back, and unlocks.
Call(w) == /\ wpc[w] = "call"
           /\ Callback(wdone[w], foundCount)
           /\ progressMu' = None
           /\ Goto(w, "take")
           /\ UNCHANGED <<host, bad, cancelled, pc, skipped, jobs, wjob, wdone, results,
                          doneCount, foundCount, ending>>

MainStep == ListActive \/ FilterPort \/ StartPool \/ Wait \/ Collect \/ Deliver
WorkerStep(w) == \/ TakeJob(w) \/ NoMoreJobs(w) \/ Inspect(w) \/ CountDone(w)
                 \/ CountFound(w) \/ Lock(w) \/ Call(w)

Next == \/ MainStep
        \/ \E w \in Workers : WorkerStep(w)
        \/ \E i \in Index, u \in Use : Churn(i, u)
        \/ Cancel

Spec == Init /\ [][Next]_vars

\* Goroutines that are ready run, and an inspection returns (its reads are
\* bounded).  The mutex is handed over: Go's sync.Mutex does not starve a
\* waiter for ever, but weak fairness is enough because jobs run out.
FairSpec == Spec /\ WF_vars(MainStep) /\ \A w \in Workers : WF_vars(WorkerStep(w))

-----------------------------------------------------------------------------
ResultType == [err : {"none", "pending", "invalid", "cancelled"},
               reports : Seq(Index), failed : Nat]

TypeOK == /\ bound \in [Index -> Use]
          /\ since \in [Index -> Use \cup {"changed"}]
          /\ churn \in Nat
          /\ bad \subseteq Index
          /\ cancelled \in BOOLEAN
          /\ pc \in MainPC
          /\ skipped \subseteq Index
          /\ jobs \in Seq(Index)
          /\ wpc \in [Workers -> WorkerPC]
          /\ wjob \in [Workers -> Index \cup {None}]
          /\ wdone \in [Workers -> Nat]
          /\ results \in [Index -> Result]
          /\ doneCount \in Nat
          /\ foundCount \in Nat
          /\ progressMu \in Workers \cup {None}
          /\ progress \in [done : Nat, found : Nat]
          /\ line \in [done : Nat, found : Nat]
          /\ next \in 1..(N + 1)
          /\ res \in ResultType
          /\ answer \in ResultType

Busy(w) == wpc[w] = "inspect"

\* A slot of results is written by one goroutine only: a port waits in the
\* channel, or is being inspected by one worker, or has its result.
OneWriterPerSlot ==
    /\ \A j, k \in DOMAIN jobs : jobs[j] = jobs[k] => j = k
    /\ \A j \in DOMAIN jobs : /\ results[jobs[j]] = "none"
                              /\ \A w \in Workers : Busy(w) => wjob[w] # jobs[j]
    /\ \A w \in Workers : Busy(w) => results[wjob[w]] = "none"
    /\ \A v, w \in Workers : Busy(v) /\ Busy(w) /\ wjob[v] = wjob[w] => v = w

\* A port held by one TCP server throughout is among the reports unless its
\* inspection broke, and one that stayed free is not, whatever the listing,
\* the pool and the other ports did meanwhile.
SteadyPortsJudgedRight ==
    pc = "returned" /\ answer.err = "none" =>
        \A i \in Index :
            /\ since[i] = "tcp" => i \in Range(answer.reports) \/ results[i] = "broken"
            /\ since[i] \in {"udp", "free"} => i \notin Range(answer.reports)

\* Neither number on the progress line ever runs backwards, although workers
\* reach the callback in any order.
ProgressNeverFallsBack ==
    [][progress'.done >= progress.done /\ progress'.found >= progress.found]_progress

\* Nothing the workers do can hold the scan up for ever: it returns.
ScanReturns == <>(pc = "returned")

\* The pool implements the promise of ScanAnswer.
Promise == INSTANCE ScanAnswer WITH
    seen <- [i \in Index |-> IF i \in skipped THEN "idle" ELSE results[i]]
PromiseSpec == Promise!Spec

=============================================================================
