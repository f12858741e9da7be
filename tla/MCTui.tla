------------------------------- MODULE MCTui -------------------------------
(***************************************************************************)
(* The two machines the dashboard is built on, side by side: the guard of  *)
(* its background fetches and the reader of its keys.                      *)
(***************************************************************************)
EXTENDS SingleFlight, KeyReader

Sends(key, bytes) == [key |-> key, bytes |-> bytes]

\* A key of every kind, and a character that may follow an escape.
EveryKind == {Sends("Up", <<"ESC", "[", "A">>), Sends("PgUp", <<"ESC", "[", "5", "~">>),
              Sends("End", <<"ESC", "O", "F">>), Sends("Esc", <<"ESC">>),
              Sends("Enter", <<"CR">>), Sends("y", <<"y">>), Sends("[", <<"[">>),
              Sends("rune", <<"lead3", "tail", "tail">>)}

\* They share no variable, so that nothing either does depends on where the other
\* is: it is enough to let one run while the other has not begun.
TuiInit == Init /\ KeysInit
TuiNext == \/ KeysInit /\ Next /\ UNCHANGED keyVars
           \/ Init /\ KeysNext /\ UNCHANGED vars
TuiSpec == /\ TuiInit /\ [][TuiNext]_<<vars, keyVars>>
           /\ \A c \in Callers : WF_vars(CallStep(c))
           /\ \A g \in Runners : WF_vars(RunStep(g))
=============================================================================
