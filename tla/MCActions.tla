----------------------------- MODULE MCActions -----------------------------
(* An instance of Actions for TLC: PID 1, a server, a process of another   *)
(* user, and PortLens.                                                     *)
EXTENDS Actions

\* The server has a worker in whose terminal PortLens runs; PortLens started
\* the server before; the other process launched the server, which has a
\* terminal that runs PortLens.
Trees3 == {<<1, 1, 2, 3>>, <<1, 4, 2, 1>>, <<1, 3, 1, 2>>}
=============================================================================
