----------------------------- MODULE ScanProofs -----------------------------
(***************************************************************************)
(* Proofs about Scan for any number of ports and workers: types, one       *)
(* writer per slot of results, and that the pool keeps the promise of      *)
(* ScanAnswer.  The inductive invariant is the conjunction, in this order, *)
(* of TypeOK, OneWriterPerSlot, Untouched, Accounted and CollectedSoFar.   *)
(* Two more invariants rest on it: what every stage says of a port that    *)
(* stays as it is, and that the counters shown never fall back.            *)
(***************************************************************************)
EXTENDS Scan, FiniteSetTheorems, SequenceTheorems, TLAPS

\* Workers run only while Scan waits for them, and a port that the prefilter
\* took for idle never reaches one.
Untouched ==
    /\ pc # "pool" => \A w \in Workers : wpc[w] = "off"
    /\ pc \in {"list", "filter"} => \A i \in Index : results[i] = "none"
    /\ pc = "list" => skipped = {} /\ jobs = <<>> /\ next = 1
    /\ pc = "filter" => \A j \in DOMAIN jobs : jobs[j] < next
    /\ \A j \in DOMAIN jobs : jobs[j] \notin skipped
    /\ \A w \in Workers : Busy(w) => wjob[w] \in Index \ skipped
    /\ \A i \in skipped : results[i] = "none"

\* Unless the scan is cancelled no port is ever lost: it is idle, waiting,
\* being inspected, or has its result; and somebody will take what waits.
Accounted ==
    /\ pc = "filter" =>
         \A i \in Index : i < next => i \in skipped \/ \E j \in DOMAIN jobs : jobs[j] = i
    /\ pc = "pool" /\ ~cancelled =>
         /\ \A i \in Index : \/ i \in skipped \/ results[i] # "none"
                             \/ \E j \in DOMAIN jobs : jobs[j] = i
                             \/ \E w \in Workers : Busy(w) /\ wjob[w] = i
         /\ jobs # <<>> => \E w \in Workers : wpc[w] # "off"
    /\ pc = "collect" => \A i \in Index : i \in skipped \/ results[i] # "none"

InUse(i) == results[i] = "listening"
Failing(k) == {i \in Index : i < k /\ results[i] \in {"absent", "broken"}}

\* The ScanResult under construction speaks for the ports looked at so far.
CollectedSoFar ==
    /\ pc \in {"list", "filter", "pool"} => res = EmptyResult
    /\ pc = "pool" => next = 1
    /\ pc # "returned" => answer = Pending
    /\ res.err = "none"
    /\ pc = "collect" =>
         /\ \A j \in DOMAIN res.reports : InUse(res.reports[j]) /\ res.reports[j] < next
         /\ \A i \in Index : i < next /\ InUse(i) => \E j \in DOMAIN res.reports : res.reports[j] = i
         /\ \A j, k \in DOMAIN res.reports : j < k => res.reports[j] < res.reports[k]
         /\ res.failed = Cardinality(Failing(next))

IInv == TypeOK /\ OneWriterPerSlot /\ Untouched /\ Accounted /\ CollectedSoFar

-----------------------------------------------------------------------------
\* The number of ports in any set of requested ports is a natural number.
LEMMA CountOfPorts == \A S \in SUBSET Index : IsFiniteSet(S) /\ Cardinality(S) \in Nat
<1>1. IsFiniteSet(Index)
  BY ScanConstants, FS_Interval DEF Index
<1> QED
  BY <1>1, FS_Subset, FS_CardinalityType

\* The error results of Scan are results.
LEMMA ErrorResultType ==
    ErrorResult("invalid") \in ResultType /\ ErrorResult("cancelled") \in ResultType
<1>1. <<>> \in Seq(Index)
  BY EmptySeq
<1> QED
  BY <1>1 DEF ErrorResult, ResultType

\* A step of the reporter leaves numbers on the progress line.
LEMMA CallbackType ==
    ASSUME NEW d \in Nat, NEW f \in Nat, line \in [done : Nat, found : Nat], Callback(d, f)
    PROVE  progress' \in [done : Nat, found : Nat] /\ line' \in [done : Nat, found : Nat]
  BY DEF Callback

\* Each step leaves every variable inside its type.
LEMMA TypeStep == TypeOK /\ [Next]_vars => TypeOK'
<1> SUFFICES ASSUME TypeOK, [Next]_vars PROVE TypeOK'
  OBVIOUS
<1> USE DEF TypeOK, host, pool, shown, ending
<1>1. CASE ListActive
  BY <1>1 DEF ListActive, MainPC
<1>2. CASE FilterPort
  <2>1. next \in Index
    BY <1>2, ScanConstants DEF FilterPort, Index
  <2>2. jobs' \in Seq(Index)
    <3>1. Append(jobs, next) \in Seq(Index)
      BY <2>1, AppendProperties
    <3>2. jobs' = jobs \/ jobs' = Append(jobs, next)
      BY <1>2 DEF FilterPort
    <3> QED
      BY <3>1, <3>2
  <2>3. next' \in 1..(N + 1)
    BY <1>2, ScanConstants DEF FilterPort
  <2>4. pc' \in MainPC /\ answer' \in ResultType
    <3>1. \/ pc' = pc /\ answer' = answer
          \/ pc' = "returned" /\ answer' = ErrorResult("invalid")
      BY <1>2 DEF FilterPort, Return
    <3> QED
      BY <3>1, ErrorResultType DEF MainPC
  <2> QED
    BY <1>2, <2>2, <2>3, <2>4 DEF FilterPort
<1>3. CASE StartPool
  <2>1. doneCount' \in Nat
    BY <1>3, CountOfPorts DEF StartPool
  <2>2. progress' \in [done : Nat, found : Nat] /\ line' \in [done : Nat, found : Nat]
    BY <1>3, <2>1, CallbackType DEF StartPool
  <2>3. wpc' \in [Workers -> WorkerPC] /\ pc' \in MainPC /\ next' \in 1..(N + 1)
    BY <1>3, ScanConstants DEF StartPool, MainPC, WorkerPC
  <2> QED
    BY <1>3, <2>1, <2>2, <2>3 DEF StartPool
<1>4. CASE Wait
  <2>1. \/ pc' = "collect" /\ answer' = answer
        \/ pc' = "returned" /\ answer' = ErrorResult("cancelled")
    BY <1>4 DEF Wait, Return
  <2>2. pc' \in MainPC /\ answer' \in ResultType
    BY <2>1, ErrorResultType DEF MainPC
  <2> QED
    BY <1>4, <2>2 DEF Wait
<1>5. CASE Collect
  <2>1. next \in Index /\ next' \in 1..(N + 1)
    <3>1. next \in 1..(N + 1)
      OBVIOUS
    <3>2. next <= N /\ next' = next + 1
      BY <1>5 DEF Collect
    <3> HIDE DEF TypeOK
    <3> QED
      BY <3>1, <3>2, ScanConstants DEF Index
  <2>2. res' \in ResultType
    <3>1. Append(res.reports, next) \in Seq(Index) /\ res.failed + 1 \in Nat
      BY <2>1, AppendProperties DEF ResultType
    <3> QED
      BY <1>5, <3>1 DEF Collect, ResultType
  <2> QED
    BY <1>5, <2>1, <2>2 DEF Collect
<1>6. CASE Deliver
  BY <1>6 DEF Deliver, Return, MainPC
<1>7. ASSUME NEW w \in Workers, WorkerStep(w) PROVE TypeOK'
  <2>1. CASE TakeJob(w)
    <3>1. jobs' \in Seq(Index) /\ Head(jobs) \in Index
      BY <2>1, HeadTailProperties DEF TakeJob
    <3> QED
      BY <2>1, <3>1 DEF TakeJob, Goto, WorkerPC
  <2>2. CASE NoMoreJobs(w)
    BY <2>2 DEF NoMoreJobs, Goto, WorkerPC
  <2>3. CASE Inspect(w)
    <3>1. PICK r \in Result : results' = [results EXCEPT ![wjob[w]] = r]
      BY <2>3 DEF Inspect, Result
    <3>2. results' \in [Index -> Result] /\ wpc' \in [Workers -> WorkerPC]
      BY <2>3, <3>1 DEF Inspect, Goto, WorkerPC
    <3> QED
      BY <2>3, <3>2 DEF Inspect
  <2>4. CASE CountDone(w)
    BY <2>4 DEF CountDone, Goto, WorkerPC
  <2>5. CASE CountFound(w)
    BY <2>5 DEF CountFound, Goto, WorkerPC
  <2>6. CASE Lock(w)
    BY <2>6 DEF Lock, Goto, WorkerPC
  <2>7. CASE Call(w)
    <3>1. wdone[w] \in Nat
      OBVIOUS
    <3>2. progress' \in [done : Nat, found : Nat] /\ line' \in [done : Nat, found : Nat]
      BY <2>7, <3>1, CallbackType DEF Call
    <3> QED
      BY <2>7, <3>2 DEF Call, Goto, WorkerPC
  <2> QED
    BY <1>7, <2>1, <2>2, <2>3, <2>4, <2>5, <2>6, <2>7 DEF WorkerStep
<1>8. ASSUME NEW i \in Index, NEW u \in Use, Churn(i, u) PROVE TypeOK'
  BY <1>8 DEF Churn
<1>9. CASE Cancel
  BY <1>9 DEF Cancel
<1>10. CASE UNCHANGED vars
  BY <1>10 DEF vars
<1> QED
  BY <1>1, <1>2, <1>3, <1>4, <1>5, <1>6, <1>7, <1>8, <1>9, <1>10 DEF Next, MainStep

\* The initial values are of their types.
LEMMA TypeInit == Init => TypeOK
<1> SUFFICES ASSUME Init PROVE TypeOK
  OBVIOUS
<1>1. cancelled \in BOOLEAN
  BY Zenon DEF Init
<1>2. wpc \in [Workers -> WorkerPC] /\ wjob \in [Workers -> Index \cup {None}]
  BY DEF Init, WorkerPC
<1>3. wdone \in [Workers -> Nat] /\ results \in [Index -> Result]
  BY DEF Init, Result
<1>4. jobs \in Seq(Index) /\ res \in ResultType /\ answer \in ResultType
  BY DEF Init, EmptyResult, Pending, ResultType
<1>5. since \in [Index -> Use \cup {"changed"}]
  BY DEF Init
<1>6. progress \in [done : Nat, found : Nat] /\ line \in [done : Nat, found : Nat]
  BY DEF Init
<1>7. next \in 1..(N + 1)
  BY ScanConstants DEF Init
<1> QED
  BY <1>1, <1>2, <1>3, <1>4, <1>5, <1>6, <1>7 DEF Init, TypeOK, MainPC

\* Scan's variables, its workers' and the answer hold values of their types.
THEOREM TypeCorrect == Spec => []TypeOK
  BY TypeInit, TypeStep, PTL DEF Spec

-----------------------------------------------------------------------------
\* The steps that move no port: the host's, the counters', the callback's.
Idling == \/ \E i \in Index, u \in Use : Churn(i, u)
          \/ Cancel
          \/ \E w \in Workers : \/ NoMoreJobs(w) \/ CountDone(w)
                                \/ CountFound(w) \/ Lock(w) \/ Call(w)
          \/ UNCHANGED vars

\* What such a step leaves alone, and where it may send a worker.
PortsStay ==
    /\ pc' = pc /\ bad' = bad /\ skipped' = skipped /\ jobs' = jobs /\ wjob' = wjob
    /\ results' = results /\ next' = next /\ res' = res /\ answer' = answer
    /\ cancelled = TRUE => cancelled' = TRUE
    /\ \A w \in Workers : /\ Busy(w)' <=> Busy(w)
                          /\ wpc[w] = "off" => wpc'[w] = "off"
                          /\ wpc[w] # "off" /\ wpc'[w] = "off" => jobs = <<>>

LEMMA IdlingMovesNoPort == TypeOK /\ Idling => PortsStay
<1> SUFFICES ASSUME TypeOK, Idling PROVE PortsStay
  OBVIOUS
<1> USE DEF TypeOK, host, pool, shown, ending, Busy, Goto, PortsStay
<1>1. CASE \E i \in Index, u \in Use : Churn(i, u)
  BY <1>1 DEF Churn
<1>2. CASE Cancel
  BY <1>2 DEF Cancel
<1>3. CASE UNCHANGED vars
  BY <1>3 DEF vars
<1>4. ASSUME NEW w \in Workers, NoMoreJobs(w) PROVE PortsStay
  BY <1>4 DEF NoMoreJobs
<1>5. ASSUME NEW w \in Workers, CountDone(w) PROVE PortsStay
  BY <1>5 DEF CountDone
<1>6. ASSUME NEW w \in Workers, CountFound(w) PROVE PortsStay
  BY <1>6 DEF CountFound
<1>7. ASSUME NEW w \in Workers, Lock(w) PROVE PortsStay
  BY <1>7 DEF Lock
<1>8. ASSUME NEW w \in Workers, Call(w) PROVE PortsStay
  BY <1>8 DEF Call
<1> QED
  BY <1>1, <1>2, <1>3, <1>4, <1>5, <1>6, <1>7, <1>8 DEF Idling

\* A step is idle, one of Scan's own, or a worker's with a port.
LEMMA StepCases == [Next]_vars => \/ Idling \/ MainStep
                                  \/ \E w \in Workers : TakeJob(w) \/ Inspect(w)
  BY DEF Next, Idling, WorkerStep

-----------------------------------------------------------------------------
\* A sequence of ports holds ports, and what waits in the channel is one.
LEMMA PortsInSeq ==
    \A s \in Seq(Index) : \A j \in DOMAIN s : s[j] \in Index /\ s[j] \in Nat
<1> SUFFICES ASSUME NEW s \in Seq(Index), NEW j \in DOMAIN s
             PROVE  s[j] \in Index /\ s[j] \in Nat
  OBVIOUS
<1>1. j \in 1..Len(s)
  BY LenProperties
<1>2. s[j] \in Index
  BY <1>1, ElementOfSeq
<1> QED
  BY <1>2 DEF Index

LEMMA JobsArePorts == TypeOK => \A j \in DOMAIN jobs : jobs[j] \in Index /\ jobs[j] \in Nat
  BY PortsInSeq DEF TypeOK

\* What is behind the head of the channel stays in it, one place further on.
LEMMA AfterTake ==
    ASSUME TypeOK, jobs # <<>>, jobs' = Tail(jobs)
    PROVE  /\ 1 \in DOMAIN jobs /\ Head(jobs) = jobs[1] /\ Head(jobs) \in Index
           /\ \A j \in DOMAIN jobs' : j + 1 \in DOMAIN jobs /\ jobs'[j] = jobs[j + 1]
           /\ \A j \in DOMAIN jobs : j # 1 => j - 1 \in DOMAIN jobs' /\ jobs'[j - 1] = jobs[j]
<1>1. jobs \in Seq(Index) /\ Len(jobs) \in Nat \ {0} /\ DOMAIN jobs = 1..Len(jobs)
  BY EmptySeq, LenProperties DEF TypeOK
<1>2. jobs' \in Seq(Index) /\ Len(jobs') = Len(jobs) - 1 /\ Head(jobs) \in Index
  BY <1>1, HeadTailProperties
<1>3. DOMAIN jobs' = 1..(Len(jobs) - 1)
  BY <1>1, <1>2, LenProperties
<1>4. \A j \in 1..(Len(jobs) - 1) : jobs'[j] = jobs[j + 1]
  BY <1>1, <1>2, HeadTailProperties
<1>5. Head(jobs) = jobs[1]
  BY <1>1
<1> QED
  BY <1>1, <1>2, <1>3, <1>4, <1>5

\* A port that joins a sequence of ports comes last, behind all the others.
LEMMA AfterAppend ==
    ASSUME NEW s \in Seq(Index), NEW i \in Index
    PROVE  /\ Append(s, i) \in Seq(Index)
           /\ DOMAIN Append(s, i) = DOMAIN s \cup {Len(s) + 1}
           /\ Append(s, i)[Len(s) + 1] = i
           /\ \A j \in DOMAIN s : Append(s, i)[j] = s[j] /\ j < Len(s) + 1
           /\ DOMAIN s \subseteq Int /\ Len(s) + 1 \in Int
<1>1. Len(s) \in Nat /\ DOMAIN s = 1..Len(s)
  BY LenProperties
<1>2. Append(s, i) \in Seq(Index) /\ Len(Append(s, i)) = Len(s) + 1
  BY AppendProperties
<1>3. DOMAIN Append(s, i) = 1..(Len(s) + 1)
  BY <1>1, <1>2, LenProperties
<1> QED
  BY <1>1, <1>2, <1>3, AppendProperties

-----------------------------------------------------------------------------
\* No step puts a port in two places or hands an idle one to a worker.
LEMMA OwnershipStep ==
    TypeOK /\ OneWriterPerSlot /\ Untouched /\ [Next]_vars => OneWriterPerSlot' /\ Untouched'
<1> SUFFICES ASSUME TypeOK, OneWriterPerSlot, Untouched, [Next]_vars
             PROVE  OneWriterPerSlot' /\ Untouched'
  OBVIOUS
<1> USE DEF OneWriterPerSlot, Untouched
<1>1. CASE Idling
  <2>1. PortsStay
    BY <1>1, IdlingMovesNoPort
  <2>0. /\ pc' = pc /\ skipped' = skipped /\ jobs' = jobs /\ wjob' = wjob
        /\ results' = results /\ next' = next
        /\ \A w \in Workers : Busy(w)' <=> Busy(w)
        /\ \A w \in Workers : wpc[w] = "off" => wpc'[w] = "off"
    BY <2>1 DEF PortsStay
  <2>2. OneWriterPerSlot'
    BY <2>0
  <2>3. Untouched'
    BY <2>0
  <2> QED
    BY <2>2, <2>3
<1>2. CASE ListActive
  BY <1>2 DEF ListActive, pool, ending, Busy
<1>3. CASE FilterPort
  <2>1. /\ UNCHANGED <<skipped, wpc, wjob, results>>
        /\ pc = "filter" /\ pc' \in {"filter", "returned"}
        /\ \A w \in Workers : ~Busy(w) /\ ~Busy(w)'
    BY <1>3 DEF FilterPort, Return, Busy
  <2>2. CASE jobs' = jobs /\ next' = next
    BY <2>1, <2>2
  <2>3. CASE jobs' = jobs /\ next' = next + 1
    <3>1. \A j \in DOMAIN jobs : jobs[j] \in Nat
      BY JobsArePorts
    <3> QED
      BY <2>1, <2>3, <3>1 DEF TypeOK
  <2>4. CASE jobs' = Append(jobs, next) /\ next' = next + 1 /\ next \notin skipped
    <3>1. next \in Index /\ next \in Nat
      BY <1>3, ScanConstants DEF FilterPort, TypeOK, Index
    <3>2. \A j \in DOMAIN jobs : jobs[j] \in Nat /\ jobs[j] < next
      BY <2>1, JobsArePorts
    <3>3. \A j \in DOMAIN jobs' : \/ j \in DOMAIN jobs /\ jobs'[j] = jobs[j]
                                  \/ j = Len(jobs) + 1 /\ jobs'[j] = next
      BY <2>4, <3>1, AfterAppend DEF TypeOK
    <3>4. OneWriterPerSlot'
      BY <2>1, <3>1, <3>2, <3>3
    <3>5. Untouched'
      BY <2>1, <2>4, <3>1, <3>2, <3>3
    <3> QED
      BY <3>4, <3>5
  <2> QED
    BY <1>3, <2>2, <2>3, <2>4 DEF FilterPort
<1>4. CASE StartPool
  BY <1>4 DEF StartPool, Busy
<1>5. CASE Wait \/ Collect \/ Deliver
  <2>1. UNCHANGED <<skipped, pool>> /\ pc # "list" /\ pc' \in {"collect", "returned"}
        /\ \A w \in Workers : wpc[w] = "off"
    BY <1>5 DEF Wait, Collect, Deliver, Return
  <2> QED
    BY <2>1 DEF pool, Busy
<1>6. ASSUME NEW w \in Workers, TakeJob(w)
      PROVE  OneWriterPerSlot' /\ Untouched'
  <2>1. /\ pc = "pool" /\ UNCHANGED <<pc, skipped, results, next>>
        /\ jobs # <<>> /\ jobs' = Tail(jobs)
        /\ wjob' = [wjob EXCEPT ![w] = Head(jobs)]
        /\ ~Busy(w)
        /\ \A v \in Workers \ {w} : Busy(v)' <=> Busy(v)
    BY <1>6 DEF TakeJob, Goto, Busy, TypeOK, ending
  <2>2. \A v \in Workers : wjob'[v] = IF v = w THEN jobs[1] ELSE wjob[v]
    BY <2>1, AfterTake DEF TypeOK
  <2>3. \A j \in DOMAIN jobs' : j + 1 \in DOMAIN jobs /\ j + 1 # 1 /\ jobs'[j] = jobs[j + 1]
    BY <2>1, AfterTake, LenProperties DEF TypeOK
  <2>4. 1 \in DOMAIN jobs /\ jobs[1] \in Index
    BY <2>1, AfterTake
  <2>5. \A j, k \in DOMAIN jobs' : jobs'[j] = jobs'[k] => j = k
    <3>1. \A j \in DOMAIN jobs' : j \in Int
      BY <2>1, HeadTailProperties, LenProperties DEF TypeOK
    <3> QED
      BY <2>3, <3>1
  <2>6. OneWriterPerSlot'
    BY <2>1, <2>2, <2>3, <2>4, <2>5
  <2>7. Untouched'
    BY <2>1, <2>2, <2>3, <2>4
  <2> QED
    BY <2>6, <2>7
<1>7. ASSUME NEW w \in Workers, Inspect(w)
      PROVE  OneWriterPerSlot' /\ Untouched'
  <2>1. /\ pc = "pool" /\ UNCHANGED <<pc, skipped, jobs, wjob, next>>
        /\ Busy(w) /\ ~Busy(w)'
        /\ \A v \in Workers \ {w} : Busy(v)' <=> Busy(v)
        /\ \A i \in Index : i # wjob[w] => results'[i] = results[i]
    BY <1>7 DEF Inspect, Goto, Busy, TypeOK, ending
  <2>2. \A j \in DOMAIN jobs : jobs[j] \in Index
    BY JobsArePorts
  <2>3. wjob[w] \in Index \ skipped
    BY <2>1
  <2>4. OneWriterPerSlot'
    BY <2>1, <2>2, <2>3
  <2>5. Untouched'
    BY <2>1, <2>2, <2>3 DEF TypeOK
  <2> QED
    BY <2>4, <2>5
<1> QED
  BY <1>1, <1>2, <1>3, <1>4, <1>5, <1>6, <1>7, StepCases DEF MainStep

\* No two goroutines ever write the same slot of results, for any number of
\* ports and workers: `results[job.index] = ...` needs no lock.
THEOREM OneWriter == Spec => []OneWriterPerSlot
<1>1. Init => OneWriterPerSlot /\ Untouched
  BY DEF Init, OneWriterPerSlot, Untouched, Busy
<1> QED
  BY <1>1, OwnershipStep, TypeCorrect, PTL DEF Spec

-----------------------------------------------------------------------------
\* No step loses a port: it moves on from the loop to the channel, to a
\* worker and to its slot of results, and a job left behind has a taker.
LEMMA AccountedStep ==
    TypeOK /\ OneWriterPerSlot /\ Untouched /\ Accounted /\ [Next]_vars => Accounted'
<1> SUFFICES ASSUME TypeOK, OneWriterPerSlot, Untouched, Accounted, [Next]_vars
             PROVE  Accounted'
  OBVIOUS
<1> USE DEF Accounted
<1>1. CASE Idling
  <2>1. /\ pc' = pc /\ skipped' = skipped /\ jobs' = jobs /\ wjob' = wjob
        /\ results' = results /\ next' = next
        /\ cancelled = TRUE => cancelled' = TRUE
        /\ \A w \in Workers : /\ Busy(w)' <=> Busy(w)
                              /\ wpc[w] # "off" /\ wpc'[w] = "off" => jobs = <<>>
    BY <1>1, IdlingMovesNoPort DEF PortsStay
  <2> QED
    BY <2>1 DEF TypeOK
<1>2. CASE ListActive
  BY <1>2 DEF ListActive, Untouched, pool, ending, Index
<1>3. CASE FilterPort
  <2>1. /\ UNCHANGED skipped /\ pc = "filter" /\ next \in Index /\ next \in Nat
        /\ pc' \in {"filter", "returned"}
    BY <1>3, ScanConstants DEF FilterPort, Return, TypeOK, Index
  <2>2. CASE pc' = "returned"
    BY <2>2
  <2>3. CASE next' = next + 1 /\ jobs' = jobs /\ next \in skipped
    BY <2>1, <2>3 DEF Index
  <2>4. CASE next' = next + 1 /\ jobs' = Append(jobs, next)
    <3>1. \A j \in DOMAIN jobs : j \in DOMAIN jobs' /\ jobs'[j] = jobs[j]
      BY <2>1, <2>4, AfterAppend DEF TypeOK
    <3>2. Len(jobs) + 1 \in DOMAIN jobs' /\ jobs'[Len(jobs) + 1] = next
      BY <2>1, <2>4, AfterAppend DEF TypeOK
    <3>3. \A i \in Index : i < next' => i < next \/ i = next
      BY <2>1, <2>4 DEF Index
    <3> QED
      BY <2>1, <3>1, <3>2, <3>3
  <2> QED
    BY <1>3, <2>2, <2>3, <2>4 DEF FilterPort, Return
<1>4. CASE StartPool
  <2>1. /\ pc = "filter" /\ pc' = "pool" /\ next > N
        /\ UNCHANGED <<skipped, jobs, results>>
    BY <1>4 DEF StartPool
  <2>2. \A i \in Index : i \in skipped \/ \E j \in DOMAIN jobs : jobs[j] = i
    BY <2>1, ScanConstants DEF TypeOK, Index
  <2>3. ASSUME jobs # <<>> PROVE \E w \in Workers : wpc'[w] # "off"
    <3>1. Len(jobs) \in Nat \ {0}
      BY <2>3, EmptySeq DEF TypeOK
    <3>2. 1 \in Workers /\ 1 <= Min2(MaxWorkers, Len(jobs))
      BY <3>1, ScanConstants DEF Workers, Min2
    <3> QED
      BY <1>4, <3>2 DEF StartPool
  <2> QED
    BY <2>1, <2>2, <2>3
<1>5. CASE Wait
  <2>1. /\ pc = "pool" /\ UNCHANGED <<skipped, results>>
        /\ \A w \in Workers : wpc[w] = "off"
        /\ pc' = "returned" \/ (pc' = "collect" /\ ~cancelled)
    BY <1>5 DEF Wait, Return, pool
  <2>2. ASSUME ~cancelled PROVE \A i \in Index : i \in skipped \/ results[i] # "none"
    <3>1. jobs = <<>>
      BY <2>1, <2>2
    <3>2. DOMAIN jobs = {}
      BY <3>1
    <3> QED
      BY <2>1, <2>2, <3>2 DEF Busy
  <2> QED
    BY <2>1, <2>2
<1>6. CASE Collect \/ Deliver
  BY <1>6 DEF Collect, Deliver, Return, pool
<1>7. ASSUME NEW w \in Workers, TakeJob(w) PROVE Accounted'
  <2>1. /\ pc = "pool" /\ UNCHANGED <<pc, cancelled, skipped, results>>
        /\ jobs # <<>> /\ jobs' = Tail(jobs)
        /\ wjob' = [wjob EXCEPT ![w] = Head(jobs)]
        /\ ~Busy(w)
        /\ ~cancelled => Busy(w)'
        /\ \A v \in Workers \ {w} : Busy(v)' <=> Busy(v)
    BY <1>7 DEF TakeJob, Goto, Busy, TypeOK, ending, Untouched
  <2>2. \A v \in Workers : wjob'[v] = IF v = w THEN jobs[1] ELSE wjob[v]
    BY <2>1, AfterTake DEF TypeOK
  <2>3. \A j \in DOMAIN jobs : j = 1 \/ (j - 1 \in DOMAIN jobs' /\ jobs'[j - 1] = jobs[j])
    BY <2>1, AfterTake
  <2>4. ASSUME ~cancelled, NEW i \in Index
        PROVE  \/ i \in skipped \/ results[i] # "none"
               \/ \E j \in DOMAIN jobs' : jobs'[j] = i
               \/ \E v \in Workers : Busy(v)' /\ wjob'[v] = i
    <3>1. CASE \E j \in DOMAIN jobs : jobs[j] = i
      BY <3>1, <2>1, <2>2, <2>3, <2>4
    <3>2. CASE \E v \in Workers : Busy(v) /\ wjob[v] = i
      BY <3>2, <2>1, <2>2
    <3> QED
      BY <2>1, <2>4, <3>1, <3>2
  <2>5. ~cancelled => \E v \in Workers : wpc'[v] # "off"
    BY <2>1 DEF Busy
  <2> QED
    BY <2>1, <2>4, <2>5
<1>8. ASSUME NEW w \in Workers, Inspect(w) PROVE Accounted'
  <2>1. /\ pc = "pool" /\ UNCHANGED <<pc, cancelled, skipped, jobs, wjob>>
        /\ Busy(w) /\ wpc'[w] # "off"
        /\ \A v \in Workers \ {w} : Busy(v)' <=> Busy(v)
        /\ \A i \in Index : i # wjob[w] => results'[i] = results[i]
    BY <1>8 DEF Inspect, Goto, Busy, TypeOK, Untouched
  <2>2. wjob[w] \in Index /\ results'[wjob[w]] # "none"
    BY <1>8, <2>1 DEF Inspect, Untouched, TypeOK
  <2> QED
    BY <2>1, <2>2
<1> QED
  BY <1>1, <1>2, <1>3, <1>4, <1>5, <1>6, <1>7, <1>8, StepCases DEF MainStep

-----------------------------------------------------------------------------
\* Looking at one more port adds it to the failures counted or leaves them.
LEMMA FailingGrows ==
    ASSUME TypeOK, next \in Index
    PROVE  /\ Cardinality(Failing(next)) \in Nat
           /\ Cardinality(Failing(next + 1)) =
                IF results[next] \in {"absent", "broken"} THEN Cardinality(Failing(next)) + 1
                ELSE Cardinality(Failing(next))
<1>1. IsFiniteSet(Failing(next)) /\ Cardinality(Failing(next)) \in Nat
  BY CountOfPorts DEF Failing
<1>2. \A i \in Index : i < next + 1 <=> i < next \/ i = next
  BY DEF Index
<1>3. CASE results[next] \in {"absent", "broken"}
  <2>1. Failing(next + 1) = Failing(next) \cup {next} /\ next \notin Failing(next)
    BY <1>2, <1>3 DEF Failing, Index
  <2> QED
    BY <1>1, <1>3, <2>1, FS_AddElement
<1>4. CASE results[next] \notin {"absent", "broken"}
  <2>1. Failing(next + 1) = Failing(next)
    BY <1>2, <1>4 DEF Failing
  <2> QED
    BY <1>1, <1>4, <2>1
<1> QED
  BY <1>3, <1>4

\* Collecting keeps the result an account of the ports looked at so far.
LEMMA CollectedStep ==
    TypeOK /\ Untouched /\ CollectedSoFar /\ [Next]_vars => CollectedSoFar'
<1> SUFFICES ASSUME TypeOK, Untouched, CollectedSoFar, [Next]_vars
             PROVE  CollectedSoFar'
  OBVIOUS
<1> USE DEF CollectedSoFar, InUse
<1>1. CASE Idling
  <2>1. /\ pc' = pc /\ results' = results /\ next' = next /\ res' = res /\ answer' = answer
    BY <1>1, IdlingMovesNoPort DEF PortsStay
  <2> QED
    BY <2>1 DEF Failing
<1>2. CASE ListActive \/ FilterPort \/ StartPool
  <2>1. /\ pc \in {"list", "filter"} /\ UNCHANGED res
        /\ pc' \in {"filter", "pool", "returned"}
        /\ pc' # "returned" => answer' = answer
        /\ pc' = "pool" => next' = 1
    BY <1>2 DEF ListActive, FilterPort, StartPool, Return, ending
  <2> QED
    BY <2>1
<1>3. CASE Wait
  <2>1. /\ pc = "pool" /\ UNCHANGED <<results, next, res>>
        /\ pc' = "returned" \/ (pc' = "collect" /\ answer' = answer)
    BY <1>3 DEF Wait, Return, pool
  <2>2. res.reports = <<>> /\ res.failed = 0 /\ res.err = "none" /\ next = 1
    BY <2>1 DEF EmptyResult
  <2>3. Failing(1) = {} /\ Cardinality(Failing(1)) = 0
    BY FS_EmptySet DEF Failing, Index
  <2>4. DOMAIN res.reports = {}
    BY <2>2
  <2>5. \A i \in Index : ~(i < 1)
    BY DEF Index
  <2>6. Failing(next)' = Failing(1)
    BY <2>1, <2>2 DEF Failing
  <2> QED
    BY <2>1, <2>2, <2>3, <2>4, <2>5, <2>6
<1>4. CASE Collect
  <2>1. /\ pc = "collect" /\ UNCHANGED <<pc, results, answer>>
        /\ next' = next + 1 /\ next \in Index /\ next \in Nat
    BY <1>4, ScanConstants DEF Collect, TypeOK, Index, pool
  <2>2. Failing(next)' = Failing(next + 1)
    BY <2>1 DEF Failing
  <2>3. \A i \in Index : i < next' <=> i < next \/ i = next
    BY <2>1 DEF Index
  <2>4. \A j \in DOMAIN res.reports : res.reports[j] \in Nat
    <3>1. res.reports \in Seq(Index)
      BY DEF TypeOK, ResultType
    <3> QED
      BY <3>1, PortsInSeq
  <2>5. CASE results[next] \in {"absent", "broken"}
    <3>1. /\ res'.reports = res.reports /\ res'.err = res.err
          /\ res'.failed = res.failed + 1
      BY <1>4, <2>5 DEF Collect, TypeOK, ResultType
    <3> QED
      BY <2>1, <2>2, <2>3, <2>4, <2>5, <3>1, FailingGrows
  <2>6. CASE results[next] = "listening"
    <3>1. /\ res'.reports = Append(res.reports, next) /\ res'.err = res.err
          /\ res'.failed = res.failed
      BY <1>4, <2>6 DEF Collect, TypeOK, ResultType
    <3>2. /\ res.reports \in Seq(Index)
          /\ DOMAIN res'.reports = DOMAIN res.reports \cup {Len(res.reports) + 1}
          /\ res'.reports[Len(res.reports) + 1] = next
          /\ \A j \in DOMAIN res.reports : /\ res'.reports[j] = res.reports[j]
                                           /\ j < Len(res.reports) + 1
          /\ DOMAIN res.reports \subseteq Int /\ Len(res.reports) + 1 \in Int
      BY <2>1, <3>1, AfterAppend DEF TypeOK, ResultType
    <3>3. \A j \in DOMAIN res'.reports : /\ results'[res'.reports[j]] = "listening"
                                         /\ res'.reports[j] < next'
      BY <2>1, <2>4, <2>6, <3>2
    <3>4. \A i \in Index : i < next' /\ results'[i] = "listening"
                              => \E j \in DOMAIN res'.reports : res'.reports[j] = i
      BY <2>1, <2>3, <3>2
    <3>5. \A j, k \in DOMAIN res'.reports : j < k => res'.reports[j] < res'.reports[k]
      BY <2>1, <2>4, <3>2
    <3>6. res'.failed = Cardinality(Failing(next))'
      BY <2>1, <2>2, <2>6, <3>1, FailingGrows
    <3> QED
      BY <2>1, <3>1, <3>3, <3>4, <3>5, <3>6
  <2>7. CASE results[next] \notin {"absent", "broken", "listening"}
    <3>1. res' = res
      BY <1>4, <2>7 DEF Collect
    <3> QED
      BY <2>1, <2>2, <2>3, <2>4, <2>7, <3>1, FailingGrows
  <2> QED
    BY <2>5, <2>6, <2>7
<1>5. CASE Deliver
  BY <1>5 DEF Deliver, Return
<1>6. ASSUME NEW w \in Workers, TakeJob(w) \/ Inspect(w) PROVE CollectedSoFar'
  <2>1. pc = "pool" /\ UNCHANGED <<pc, ending>>
    BY <1>6 DEF TakeJob, Inspect, Untouched
  <2> QED
    BY <2>1 DEF ending
<1> QED
  BY <1>1, <1>2, <1>3, <1>4, <1>5, <1>6, StepCases DEF MainStep

\* The inductive invariant of Scan.
THEOREM Inductive == Spec => []IInv
<1>1. Init => IInv
  <2> SUFFICES ASSUME Init PROVE IInv
    OBVIOUS
  <2>1. OneWriterPerSlot /\ Untouched /\ Accounted /\ CollectedSoFar
    BY DEF Init, OneWriterPerSlot, Untouched, Accounted, CollectedSoFar, Busy, EmptyResult
  <2> QED
    BY <2>1, TypeInit DEF IInv
<1>2. IInv /\ [Next]_vars => IInv'
  BY TypeStep, OwnershipStep, AccountedStep, CollectedStep DEF IInv
<1> QED
  BY <1>1, <1>2, PTL DEF Spec

-----------------------------------------------------------------------------
\* Every step of the pool is a step of ScanAnswer or leaves its state alone.
LEMMA PromiseStep == IInv /\ [Next]_vars => [Promise!Next]_Promise!vars
<1> SUFFICES ASSUME IInv, [Next]_vars PROVE [Promise!Next]_Promise!vars
  OBVIOUS
<1> DEFINE seen == [i \in Index |-> IF i \in skipped THEN "idle" ELSE results[i]]
<1>0. TypeOK /\ OneWriterPerSlot /\ Untouched /\ Accounted /\ CollectedSoFar
  BY DEF IInv
<1>1. CASE Idling
  <2>1. skipped' = skipped /\ results' = results /\ answer' = answer
    BY <1>0, <1>1, IdlingMovesNoPort DEF PortsStay
  <2> QED
    BY <2>1 DEF Promise!vars
<1>2. CASE ListActive
  <2>1. /\ answer = Pending /\ answer' = answer /\ results' = results
        /\ skipped = {} /\ skipped' \subseteq Index
        /\ \A i \in Index : results[i] = "none"
    BY <1>0, <1>2 DEF ListActive, Untouched, CollectedSoFar, ending, pool
  <2>2. Promise!Learn
    BY <2>1 DEF Promise!Learn, Promise!Pending, Pending, Promise!Index, Index, Promise!Finding
  <2> QED
    BY <2>2 DEF Promise!Next
<1>3. CASE FilterPort
  <2>1. UNCHANGED <<skipped, results>> /\ answer = Pending
    BY <1>0, <1>3 DEF FilterPort, CollectedSoFar
  <2>2. answer' = answer \/ answer' = ErrorResult("invalid")
    BY <1>3 DEF FilterPort, Return
  <2>3. answer' = answer \/ Promise!GiveUp
    BY <2>1, <2>2 DEF Promise!GiveUp, Promise!Error, Promise!Pending, Pending, ErrorResult
  <2> QED
    BY <2>1, <2>3 DEF Promise!Next, Promise!vars
<1>4. CASE StartPool \/ Collect
  <2>1. UNCHANGED <<skipped, results, answer>>
    BY <1>4 DEF StartPool, Collect, pool
  <2> QED
    BY <2>1 DEF Promise!vars
<1>5. CASE Wait
  <2>1. UNCHANGED <<skipped, results>> /\ answer = Pending
    BY <1>0, <1>5 DEF Wait, CollectedSoFar, pool
  <2>2. answer' = answer \/ answer' = ErrorResult("cancelled")
    BY <1>5 DEF Wait, Return
  <2>3. answer' = answer \/ Promise!GiveUp
    BY <2>1, <2>2 DEF Promise!GiveUp, Promise!Error, Promise!Pending, Pending, ErrorResult
  <2> QED
    BY <2>1, <2>3 DEF Promise!Next, Promise!vars
<1>6. CASE Deliver
  <2>1. /\ UNCHANGED <<skipped, results>> /\ answer = Pending /\ answer' = res
        /\ pc = "collect" /\ next > N
    BY <1>0, <1>6 DEF Deliver, Return, CollectedSoFar, pool
  <2>2. \A i \in Index : i < next
    BY <1>0, <2>1, ScanConstants DEF TypeOK, Index
  <2>3. \A i \in Index : seen[i] # "none"
    BY <1>0, <2>1 DEF Accounted
  <2>4. \A i \in Index : seen[i] = "listening" <=> results[i] = "listening"
    BY <1>0 DEF Untouched
  <2>5. Promise!Listening = {i \in Index : results[i] = "listening"}
    BY <2>4 DEF Promise!Listening, Promise!Index, Index
  <2>6. Range(res.reports) = {i \in Index : results[i] = "listening"}
    <3>1. \A j \in DOMAIN res.reports : res.reports[j] \in Index
      BY <1>0, PortsInSeq DEF TypeOK, ResultType
    <3> QED
      BY <1>0, <2>1, <2>2, <3>1 DEF CollectedSoFar, InUse, Range
  <2>7. Promise!Failing = Failing(next)
    BY <1>0, <2>2 DEF Promise!Failing, Failing, Promise!Index, Index, Untouched
  <2>8. Promise!Complete(res)
    <3>1. /\ res.err = "none" /\ res.failed = Cardinality(Failing(next))
          /\ \A j, k \in DOMAIN res.reports : j < k => res.reports[j] < res.reports[k]
      BY <1>0, <2>1 DEF CollectedSoFar
    <3>2. Promise!Cardinality(Failing(next)) = Cardinality(Failing(next))
      BY DEF Promise!Cardinality, Cardinality
    <3> QED
      BY <2>3, <2>5, <2>6, <2>7, <3>1, <3>2
         DEF Promise!Complete, Promise!Index, Index, Promise!Range, Range
  <2>9. Promise!Finish
    BY <2>1, <2>8 DEF Promise!Finish, Promise!Pending, Pending
  <2> QED
    BY <2>9 DEF Promise!Next
<1>7. ASSUME NEW w \in Workers, TakeJob(w) PROVE UNCHANGED Promise!vars
  BY <1>7 DEF TakeJob, ending, Promise!vars
<1>8. ASSUME NEW w \in Workers, Inspect(w) PROVE Promise!Learn
  <2>1. /\ UNCHANGED <<skipped, answer>> /\ answer = Pending
        /\ wjob[w] \in Index \ skipped /\ results[wjob[w]] = "none"
    BY <1>0, <1>8 DEF Inspect, CollectedSoFar, Untouched, OneWriterPerSlot, Busy, ending
  <2>2. \A i \in Index : i # wjob[w] => results'[i] = results[i]
    BY <1>0, <1>8 DEF Inspect, TypeOK
  <2>3. \A i \in Index : results'[i] \in Result
    BY <1>0, TypeStep DEF TypeOK
  <2> QED
    BY <2>1, <2>2, <2>3 DEF Promise!Learn, Promise!Pending, Pending, Promise!Index, Index,
                           Promise!Finding, Result
<1> QED
  BY <1>1, <1>2, <1>3, <1>4, <1>5, <1>6, <1>7, <1>8, StepCases DEF MainStep, Promise!Next

\* Scan implements ScanAnswer for any number of ports and workers: it returns
\* an error with nothing in it, or every requested port is accounted for and
\* the reports are those in use, in the order they were asked for.
THEOREM ScanKeepsPromise == Spec => PromiseSpec
<1>1. Init => Promise!Init
  BY DEF Init, Promise!Init, Promise!Index, Index, Promise!Pending, Pending
<1> QED
  BY <1>1, Inductive, PromiseStep, PTL DEF Spec, PromiseSpec, Promise!Spec

-----------------------------------------------------------------------------
\* A port that had one holder all along was never taken for something else.
Steady ==
    \A i \in Index :
        /\ since[i] # "changed" => bound[i] = since[i]
        /\ since[i] = "tcp" => i \notin skipped /\ results[i] # "absent"
        /\ since[i] \in {"udp", "free"} => results[i] # "listening"

\* A result that was returned speaks for every port: none is left open, and
\* those in use are its reports.
Delivered ==
    pc = "returned" /\ answer.err = "none" =>
        /\ Range(answer.reports) = {i \in Index : InUse(i)}
        /\ \A i \in Index : i \in skipped \/ results[i] # "none"

LEMMA SteadyStep == TypeOK /\ Untouched /\ Steady /\ [Next]_vars => Steady'
<1> SUFFICES ASSUME TypeOK, Untouched, Steady, [Next]_vars PROVE Steady'
  OBVIOUS
<1> USE DEF Steady, TypeOK, host
<1>1. ASSUME NEW i \in Index, NEW u \in Use, Churn(i, u) PROVE Steady'
  BY <1>1 DEF Churn, pool
<1>2. CASE ListActive
  BY <1>2 DEF ListActive, Untouched, pool
<1>3. ASSUME NEW w \in Workers, Inspect(w) PROVE Steady'
  <2>1. wjob[w] \in Index
    BY <1>3 DEF Inspect, Untouched, Busy
  <2>2. /\ UNCHANGED <<since, bound, skipped>>
        /\ \A i \in Index : i # wjob[w] => results'[i] = results[i]
        /\ results'[wjob[w]] \in {"broken", IF bound[wjob[w]] = "tcp" THEN "listening"
                                                                      ELSE "absent"}
    BY <1>3, <2>1 DEF Inspect
  <2>3. Use = {"tcp", "udp", "free"} /\ \A i \in Index : since[i] \in Use \cup {"changed"}
    BY DEF Use
  <2> QED
    BY <2>1, <2>2, <2>3
<1>4. CASE UNCHANGED <<since, bound, skipped, results>>
  BY <1>4
<1>5. \/ UNCHANGED <<since, bound, skipped, results>> \/ ListActive
      \/ \E i \in Index, u \in Use : Churn(i, u)
      \/ \E w \in Workers : Inspect(w)
  BY DEF Next, MainStep, WorkerStep, FilterPort, StartPool, Wait, Collect, Deliver, TakeJob,
         NoMoreJobs, CountDone, CountFound, Lock, Call, Cancel, vars, pool
<1> QED
  BY <1>1, <1>2, <1>3, <1>4, <1>5

\* The reports collected when every port was looked at are the ports in use.
LEMMA AllCollected ==
    ASSUME IInv, Deliver
    PROVE  /\ Range(res.reports) = {i \in Index : InUse(i)}
           /\ \A i \in Index : i \in skipped \/ results[i] # "none"
<1>1. TypeOK /\ Accounted /\ CollectedSoFar /\ pc = "collect" /\ next > N
  BY DEF IInv, Deliver
<1>2. \A i \in Index : i < next
  BY <1>1, ScanConstants DEF TypeOK, Index
<1>3. \A j \in DOMAIN res.reports : res.reports[j] \in Index
  BY <1>1, PortsInSeq DEF TypeOK, ResultType
<1> QED
  BY <1>1, <1>2, <1>3 DEF CollectedSoFar, Accounted, Range

LEMMA DeliveredStep == IInv /\ Delivered /\ [Next]_vars => Delivered'
<1> SUFFICES ASSUME IInv, Delivered, [Next]_vars PROVE Delivered'
  OBVIOUS
<1>0. TypeOK /\ Untouched /\ CollectedSoFar
  BY DEF IInv
<1>1. CASE Deliver
  <2>1. answer' = res /\ UNCHANGED <<results, skipped>>
    BY <1>1 DEF Deliver, Return, pool
  <2> QED
    BY <1>1, <2>1, AllCollected DEF Delivered, InUse
<1>2. CASE UNCHANGED <<pc, answer, results, skipped>>
  BY <1>2 DEF Delivered, InUse
<1>3. CASE pc' # "returned"
  BY <1>3 DEF Delivered
<1>4. CASE FilterPort \/ Wait
  <2>1. pc' = "returned" => answer'.err # "none"
    BY <1>4 DEF FilterPort, Wait, Return, ErrorResult
  <2> QED
    BY <2>1 DEF Delivered
<1>5. CASE ListActive \/ StartPool \/ Collect
  BY <1>5, <1>3 DEF ListActive, StartPool, Collect
<1>6. ASSUME NEW w \in Workers, Inspect(w) PROVE Delivered'
  BY <1>0, <1>3, <1>6 DEF Inspect, Untouched
<1>7. CASE Idling \/ \E w \in Workers : TakeJob(w)
  BY <1>0, <1>2, <1>7, IdlingMovesNoPort DEF PortsStay, TakeJob, ending
<1> QED
  BY <1>1, <1>4, <1>5, <1>6, <1>7, StepCases DEF MainStep

\* A port held by one TCP server throughout is reported unless its inspection
\* broke, and one that stayed free or held by UDP is not, for any listing, any
\* pool and whatever the other ports did meanwhile.
THEOREM SteadyPortsAreRight == Spec => []SteadyPortsJudgedRight
<1>1. Init => Steady /\ Delivered
  BY DEF Init, Steady, Delivered
<1>2. IInv /\ Steady /\ [Next]_vars => Steady'
  BY SteadyStep DEF IInv
<1>3. Steady /\ Delivered /\ TypeOK => SteadyPortsJudgedRight
  <2> SUFFICES ASSUME Steady, Delivered, TypeOK, pc = "returned", answer.err = "none",
                      NEW i \in Index
               PROVE  /\ since[i] = "tcp" => i \in Range(answer.reports) \/ results[i] = "broken"
                      /\ since[i] \in {"udp", "free"} => i \notin Range(answer.reports)
    BY DEF SteadyPortsJudgedRight
  <2>1. results[i] \in {"none", "listening", "absent", "broken"}
    BY DEF TypeOK, Result
  <2> QED
    BY <2>1 DEF Steady, Delivered, InUse
<1>4. IInv => TypeOK
  BY DEF IInv
<1> QED
  BY <1>1, <1>2, <1>3, <1>4, DeliveredStep, Inductive, PTL DEF Spec

-----------------------------------------------------------------------------
\* Only one worker is inside the callback, with a count that is newer than the
\* one shown; and the counters are never behind what is shown.
Monotone ==
    /\ pc \in {"list", "filter"} =>
         progress = [done |-> 0, found |-> 0] /\ doneCount = 0 /\ foundCount = 0
    /\ progress.done <= doneCount /\ progress.found <= foundCount
    /\ \A w \in Workers : wpc[w] = "call" => /\ progressMu = w
                                             /\ progress.done <= wdone[w]
                                             /\ wdone[w] <= doneCount

\* A callback shows the numbers it is given.
Forward == progress'.done >= progress.done /\ progress'.found >= progress.found

LEMMA MonotoneStep ==
    TypeOK /\ Untouched /\ Monotone /\ [Next]_vars => Monotone' /\ Forward
<1> SUFFICES ASSUME TypeOK, Untouched, Monotone, [Next]_vars PROVE Monotone' /\ Forward
  OBVIOUS
<1> USE DEF Monotone, Forward
<1>0. /\ progress \in [done : Nat, found : Nat] /\ doneCount \in Nat /\ foundCount \in Nat
      /\ wpc \in [Workers -> WorkerPC] /\ wdone \in [Workers -> Nat]
      /\ progress.done \in Nat /\ progress.found \in Nat
  BY DEF TypeOK
<1>1. CASE StartPool
  <2>1. /\ pc = "filter" /\ pc' = "pool" /\ foundCount' = foundCount
        /\ doneCount' = Cardinality(skipped)
        /\ \A w \in Workers : wpc'[w] # "call"
    BY <1>1 DEF StartPool
  <2>2. doneCount' \in Nat
    BY <2>1, CountOfPorts DEF TypeOK
  <2>3. progress' = progress \/ progress' = [done |-> doneCount', found |-> 0]
    BY <1>1 DEF StartPool, Callback, shown
  <2> QED
    BY <1>0, <2>1, <2>2, <2>3
<1>2. CASE ListActive \/ FilterPort \/ Wait \/ Collect \/ Deliver
  BY <1>0, <1>2 DEF ListActive, FilterPort, Wait, Collect, Deliver, Return, pool, shown
<1>3. ASSUME NEW w \in Workers, TakeJob(w) \/ NoMoreJobs(w) \/ Inspect(w)
      PROVE  Monotone' /\ Forward
  <2>1. /\ UNCHANGED <<pc, progress, doneCount, foundCount, wdone, progressMu>>
        /\ \A v \in Workers : wpc'[v] = "call" => wpc[v] = "call"
    BY <1>0, <1>3 DEF TakeJob, NoMoreJobs, Inspect, Goto, shown
  <2> QED
    BY <1>0, <2>1
<1>4. ASSUME NEW w \in Workers, CountDone(w) \/ CountFound(w) PROVE Monotone' /\ Forward
  <2>1. /\ UNCHANGED <<pc, progress, wdone, progressMu>> /\ pc \notin {"list", "filter"}
        /\ doneCount' \in {doneCount, doneCount + 1}
        /\ foundCount' \in {foundCount, foundCount + 1}
        /\ \A v \in Workers : wpc'[v] = "call" => wpc[v] = "call"
    BY <1>0, <1>4 DEF CountDone, CountFound, Goto, shown, Untouched
  <2>2. \A v \in Workers : wdone[v] \in Nat
    BY <1>0
  <2> QED
    BY <1>0, <2>1, <2>2
<1>5. ASSUME NEW w \in Workers, Lock(w) PROVE Monotone' /\ Forward
  <2>1. /\ UNCHANGED <<pc, progress, doneCount, foundCount>> /\ progressMu = None
        /\ progressMu' = w /\ wdone' = [wdone EXCEPT ![w] = doneCount]
        /\ \A v \in Workers \ {w} : wpc'[v] = wpc[v]
    BY <1>0, <1>5 DEF Lock, Goto, shown
  <2>2. \A v \in Workers : v # None
    BY DEF Workers, None
  <2>3. \A v \in Workers \ {w} : wpc'[v] # "call"
    BY <2>1, <2>2
  <2> QED
    BY <1>0, <2>1, <2>3
<1>6. ASSUME NEW w \in Workers, Call(w) PROVE Monotone' /\ Forward
  <2>1. /\ UNCHANGED <<pc, doneCount, foundCount, wdone>> /\ wpc[w] = "call"
        /\ progress' = [done |-> wdone[w], found |-> foundCount]
        /\ \A v \in Workers : wpc'[v] = "call" => v # w /\ wpc[v] = "call"
    BY <1>0, <1>6 DEF Call, Callback, Goto
  <2>2. \A v \in Workers : wpc'[v] # "call"
    BY <2>1
  <2>3. pc \notin {"list", "filter"} /\ wdone[w] \in Nat
    BY <1>0, <2>1 DEF Untouched
  <2> QED
    BY <1>0, <2>1, <2>2, <2>3
<1>7. ASSUME NEW i \in Index, NEW u \in Use, Churn(i, u) PROVE Monotone' /\ Forward
  BY <1>0, <1>7 DEF Churn, pool, shown
<1>8. CASE Cancel
  BY <1>0, <1>8 DEF Cancel, pool, shown
<1>9. CASE UNCHANGED vars
  BY <1>0, <1>9 DEF vars, pool, shown
<1> QED
  BY <1>1, <1>2, <1>3, <1>4, <1>5, <1>6, <1>7, <1>8, <1>9 DEF Next, MainStep, WorkerStep

\* Neither number on the progress line runs backwards, however many workers
\* count and reach the callback at once.
THEOREM ProgressIsMonotone == Spec => ProgressNeverFallsBack
<1>1. Init => Monotone
  BY DEF Init, Monotone
<1>2. IInv /\ Monotone /\ [Next]_vars => Monotone' /\ [Forward]_progress
  BY MonotoneStep DEF IInv
<1> QED
  BY <1>1, <1>2, Inductive, PTL DEF Spec, ProgressNeverFallsBack, Forward
=============================================================================
