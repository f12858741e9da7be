---------------------------- MODULE MCDashboard ----------------------------
(* Instances of Dashboard for TLC. *)
EXTENDS Screens

TwoPorts == <<80, 443>>

Unfiltered == {NoFilter}
SecondOnly == {NoFilter, {2} \X Owners}   \* a text that matches the second socket

SecondServed == {<<Free, 2>>}
BothServed == {<<2, 2>>}
Apart == {<<2, 3>>}

\* An unknown process takes the first socket, or gets it from the one that had it.
Grabbed == {<<1, Unknown>>}

\* What is promised about the end of a session holds in it at once: a liveness
\* run looks no further than the quit.
InSession == ~exited

-----------------------------------------------------------------------------
(* The frames that go out.                                                 *)

Look(w, h, a, b, top, msg, spread, broken) ==
    [width |-> w, height |-> h, above |-> a, below |-> b, scroll |-> top,
     filter |-> 30, status |-> msg, report |-> <<0, 20, 300>>,
     field |-> [port |-> 5, proto |-> 4, process |-> 15, pid |-> 7, service |-> 20],
     question |-> 50, rest |-> 20, spread |-> spread, broken |-> broken]

\* A terminal on either side of every threshold, with more rows above and below than
\* it has room for; names, numbers and questions of the greatest width.  And names
\* of runes that are two columns wide, and a command with a line break.
Terminals ==
    {Look(w, h, a, b, top, msg, 1, FALSE) :
        w \in {50, 57, 58, 63, 64, 79, 80, 107, 131}, h \in {10, 17, 18}, msg \in {0, 200},
        a \in {0, 4, 29}, b \in {0, 25}, top \in {0, 3, 29}}
    \cup {Look(80, 18, 0, 0, 0, 0, 2, FALSE), Look(107, 18, 0, 0, 0, 0, 1, TRUE)}
=============================================================================
