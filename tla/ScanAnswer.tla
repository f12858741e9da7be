----------------------------- MODULE ScanAnswer -----------------------------
(***************************************************************************)
(* What PortService.Scan promises, with no workers, channel or prefilter:  *)
(* one finding is made about each requested port and never revised, and    *)
(* the answer is either an error with nothing in it or a complete account  *)
(* of all the findings, the ports in use in the order they were asked for. *)
(***************************************************************************)
EXTENDS Naturals, Sequences, FiniteSets, Functions

CONSTANT N   \* ports requested

VARIABLES seen,    \* what has been found out about each requested port
          answer   \* the ScanResult and error handed back

vars == <<seen, answer>>

Finding == {"idle", "listening", "absent", "broken"}
Index == 1..N

Pending == [err |-> "pending", reports |-> <<>>, failed |-> 0]
Error(e) == [err |-> e, reports |-> <<>>, failed |-> 0]

Init == seen = [i \in Index |-> "none"] /\ answer = Pending

\* Something is found out about ports nothing was known of.
Learn == /\ answer = Pending
         /\ seen' \in [Index -> Finding \cup {"none"}]
         /\ \A i \in Index : seen[i] # "none" => seen'[i] = seen[i]
         /\ UNCHANGED answer

Listening == {i \in Index : seen[i] = "listening"}
Failing == {i \in Index : seen[i] \in {"absent", "broken"}}

\* Every port is accounted for: in the reports, among the failures, or idle.
Complete(a) == /\ \A i \in Index : seen[i] # "none"
               /\ a.err = "none"
               /\ Range(a.reports) = Listening
               /\ \A j, k \in DOMAIN a.reports : j < k => a.reports[j] < a.reports[k]
               /\ a.failed = Cardinality(Failing)

Finish == answer = Pending /\ Complete(answer') /\ UNCHANGED seen

GiveUp == /\ answer = Pending
          /\ answer' \in {Error("invalid"), Error("cancelled")}
          /\ UNCHANGED seen

Next == Learn \/ Finish \/ GiveUp

Spec == Init /\ [][Next]_vars
=============================================================================
