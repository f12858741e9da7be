------------------------------ MODULE Lookups ------------------------------
(***************************************************************************)
(* What the models of the lookups that inspections share have in common:   *)
(* the inspections that run at a time, and how time is kept.               *)
(***************************************************************************)
EXTENDS Integers, FiniteSets

CONSTANTS Inspections,  \* the workers of a scan, the fetches of the dashboard
          Procs,        \* processes that own a port
          None

ASSUME NoneIsNoProcess == None \notin Procs

\* An age is counted up no further than it matters.
Later(age, old) == IF age < old THEN age + 1 ELSE old
=============================================================================
