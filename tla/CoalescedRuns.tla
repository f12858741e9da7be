---------------------------- MODULE CoalescedRuns ----------------------------
(***************************************************************************)
(* What internal/tui/flight.go promises about background work, with no     *)
(* flags and no goroutines: requests are counted as they are made, runs    *)
(* never overlap, and no run begins that no request accounts for.  The     *)
(* comment of singleFlight says it in words: "at most one run executes at  *)
(* a time, and any calls arriving while a run is in progress collapse".    *)
(***************************************************************************)
EXTENDS Naturals

VARIABLES asked,    \* requests made so far
          began,    \* runs begun so far
          running   \* is a run executing now

vars == <<asked, began, running>>

Init == asked = 0 /\ began = 0 /\ running = FALSE

Ask == asked' = asked + 1 /\ UNCHANGED <<began, running>>

Begin == /\ ~running
         /\ began < asked
         /\ running' = TRUE
         /\ began' = began + 1
         /\ UNCHANGED asked

End == running /\ running' = FALSE /\ UNCHANGED <<asked, began>>

Next == Ask \/ Begin \/ End

Spec == Init /\ [][Next]_vars
=============================================================================
