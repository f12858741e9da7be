---------------------------- MODULE SingleFlight ----------------------------
(***************************************************************************)
(* singleFlight of internal/tui/flight.go: two atomic flags that coalesce  *)
(* the dashboard's background list and report fetches.                     *)
(*                                                                         *)
(* A caller of run(fn) tries to raise `flight`; when it loses the race it  *)
(* raises `pending` in a second, separate atomic step.  The goroutine that *)
(* a winning caller starts executes fn until it finds `pending` lowered,   *)
(* and lowers `flight` in a separate step after that.                      *)
(***************************************************************************)
EXTENDS Naturals, FiniteSets

CONSTANTS Callers,   \* goroutines that call run(fn)
          Runners,   \* identities for the goroutines run starts
          MaxCalls   \* bound: calls of run in a behaviour

ASSUME FiniteCallers == IsFiniteSet(Callers)
ASSUME CallsBound == MaxCalls \in Nat

VARIABLES flight,    \* singleFlight.flight
          pending,   \* singleFlight.pending
          caller,    \* where each caller stands in run
          runner,    \* where each started goroutine stands in its loop
          want,      \* number of requests made: the newest request's number
          served,    \* newest request made before the latest start of fn
          starts     \* number of executions of fn begun

vars == <<flight, pending, caller, runner, want, served, starts>>

CallerPC == {"idle", "swap", "mark"}
RunnerPC == {"none", "start", "fn", "check", "release"}

Init == /\ flight = FALSE
        /\ pending = FALSE
        /\ caller = [c \in Callers |-> "idle"]
        /\ runner = [g \in Runners |-> "none"]
        /\ want = 0
        /\ served = 0
        /\ starts = 0

-----------------------------------------------------------------------------
(* Plausible faults of the code, used to show that the properties notice.  *)

\* The queued request is read but not taken down.
TakePendingKeepsIt(g) == /\ runner[g] = "check"
                         /\ pending
                         /\ runner' = [runner EXCEPT ![g] = "start"]
                         /\ UNCHANGED <<flight, pending, caller, want, served, starts>>

\* The goroutine clears the queue whatever it holds and leaves.
SeeNothingClears(g) == /\ runner[g] = "check"
                       /\ pending' = FALSE
                       /\ runner' = [runner EXCEPT ![g] = "release"]
                       /\ UNCHANGED <<flight, caller, want, served, starts>>

-----------------------------------------------------------------------------
(* The caller's side of run(fn).                                           *)

\* A caller has something new to be fetched and enters run.
Request(c) == /\ caller[c] = "idle"
              /\ want < MaxCalls
              /\ want' = want + 1
              /\ caller' = [caller EXCEPT ![c] = "swap"]
              /\ UNCHANGED <<flight, pending, runner, served, starts>>

\* flight.CompareAndSwap(false, true) succeeds: start the goroutine.
Launch(c) == /\ caller[c] = "swap"
             /\ ~flight
             /\ flight' = TRUE
             /\ caller' = [caller EXCEPT ![c] = "idle"]
             /\ \E g \in Runners :
                  /\ runner[g] = "none"
                  /\ runner' = [runner EXCEPT ![g] = "start"]
             /\ UNCHANGED <<pending, want, served, starts>>

\* The swap fails: a run is active.
Lose(c) == /\ caller[c] = "swap"
           /\ flight
           /\ caller' = [caller EXCEPT ![c] = "mark"]
           /\ UNCHANGED <<flight, pending, runner, want, served, starts>>

\* pending.Store(true), and run returns.
Mark(c) == /\ caller[c] = "mark"
           /\ pending' = TRUE
           /\ caller' = [caller EXCEPT ![c] = "idle"]
           /\ UNCHANGED <<flight, runner, want, served, starts>>

-----------------------------------------------------------------------------
(* The goroutine's loop.                                                   *)

\* fn begins: whatever was requested before now is what it fetches.
StartFn(g) == /\ runner[g] = "start"
              /\ runner' = [runner EXCEPT ![g] = "fn"]
              /\ served' = want
              /\ starts' = starts + 1
              /\ UNCHANGED <<flight, pending, caller, want>>

EndFn(g) == /\ runner[g] = "fn"
            /\ runner' = [runner EXCEPT ![g] = "check"]
            /\ UNCHANGED <<flight, pending, caller, want, served, starts>>

\* pending.CompareAndSwap(true, false) succeeds: one follow-up run.
TakePending(g) == /\ runner[g] = "check"
                  /\ pending
                  /\ pending' = FALSE
                  /\ runner' = [runner EXCEPT ![g] = "start"]
                  /\ UNCHANGED <<flight, caller, want, served, starts>>

\* It fails: nothing is queued at this instant.
SeeNothing(g) == /\ runner[g] = "check"
                 /\ ~pending
                 /\ runner' = [runner EXCEPT ![g] = "release"]
                 /\ UNCHANGED <<flight, pending, caller, want, served, starts>>

\* flight.Store(false), and the goroutine returns.
Release(g) == /\ runner[g] = "release"
              /\ flight' = FALSE
              /\ runner' = [runner EXCEPT ![g] = "none"]
              /\ UNCHANGED <<pending, caller, want, served, starts>>

CallStep(c) == Launch(c) \/ Lose(c) \/ Mark(c)
RunStep(g) == \/ StartFn(g) \/ EndFn(g) \/ TakePending(g)
              \/ SeeNothing(g) \/ Release(g)

Next == \/ \E c \in Callers : Request(c) \/ CallStep(c)
        \/ \E g \in Runners : RunStep(g)

Spec == Init /\ [][Next]_vars

\* The Go scheduler runs every goroutine that is ready, and fn returns: the
\* fetches it makes carry a context and bounded reads.  Making a request is
\* never owed.
FairSpec == /\ Spec
            /\ \A c \in Callers : WF_vars(CallStep(c))
            /\ \A g \in Runners : WF_vars(RunStep(g))

-----------------------------------------------------------------------------
TypeOK == /\ flight \in BOOLEAN
          /\ pending \in BOOLEAN
          /\ caller \in [Callers -> CallerPC]
          /\ runner \in [Runners -> RunnerPC]
          /\ want \in Nat
          /\ served \in Nat
          /\ starts \in Nat

\* The flag is up exactly while a goroutine is in the loop, and then there is
\* one such goroutine: two list fetches never run at the same time.
OneRunAtATime ==
    /\ flight <=> \E g \in Runners : runner[g] # "none"
    /\ \A g, h \in Runners : runner[g] # "none" /\ runner[h] # "none" => g = h

Inside == {c \in Callers : caller[c] # "idle"}
AboutToStart == IF \E g \in Runners : runner[g] = "start" THEN 1 ELSE 0
Queued == IF pending THEN 1 ELSE 0

\* Coalescing only ever removes work: every begun, owed or queued execution of
\* fn is accounted for by a request of its own, however the steps of callers
\* and goroutine interleave.
RunsPaidFor == starts + AboutToStart + Queued + Cardinality(Inside) <= want

\* A request marked while the goroutine has not yet looked at the flag again
\* is picked up: fn starts once more after it was made.
MarkedRunIsServed ==
    \A n \in 1..MaxCalls :
        (want = n /\ pending /\ \E g \in Runners : runner[g] \in {"start", "fn", "check"})
            ~> (served >= n)

\* The comment on singleFlight: "the latest request is always served by the
\* next run".  A mark that lands between the goroutine's look at `pending` and
\* its lowering of `flight` is served by nobody: this does not hold.
LatestRequestServed == \A n \in 1..MaxCalls : (want = n) ~> (served >= n)

\* The two flags and the goroutine implement the abstract promise.
Runs == INSTANCE CoalescedRuns WITH
            asked <- want, began <- starts,
            running <- \E g \in Runners : runner[g] = "fn"
RunsSpec == Runs!Spec

=============================================================================
