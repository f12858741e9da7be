---------------------------- MODULE MCInvocation ----------------------------
(* A host with two processes and three sockets, and command lines of up to *)
(* four arguments that mix flags, their values, ports, a group and the     *)
(* names of subcommands.                                                   *)
EXTENDS Invocation

MCNumeral == ("0" :> 0) @@ ("1" :> 1) @@ ("2" :> 2)
MCSpan == ("1-2" :> <<1, 2>>) @@ ("2-9" :> <<2, 9>>)
MCGroups == ("@web" :> <<2, 1, 2>>)
MCReferences == {"@web", "@none"}
MCWords == {"udp", "false", "0", "1", "2", "1-2", "2-9", "@web", "@none", "node", "all", "kill", "find", "next",
            "list", "inspect", "restart", "watch", "top", "config", "help", "name"}

MCSockets == {<<1, "tcp">>, <<1, "udp">>, <<2, "tcp">>}
MCOwners == {"node", "dns"}
MCForeign == {"dns"}
MCMatches == [pid |-> [w \in MCWords |-> IF w = "1" THEN {"node"} ELSE {}],
              name |-> [w \in MCWords |-> IF w = "node" THEN {"node"} ELSE {}],
              project |-> [w \in MCWords |-> {}]]

\* Every kind of argument, alone and in pairs; in threes the ports, groups and
\* subcommands against the flags that decide what is done; in fours processes
\* that are stopped by port or by name; and a report that is asked for with the
\* value of a flag alone.
MCAnything == {Word(w) : w \in MCWords} \cup {DashDash}
              \cup {Flag(n) : n \in {"kill", "yes", "dry-run", "json", "all", "filter", "name",
                                     "force", "watch", "help", "tree", "open", "restart",
                                     "protocol", "pid", "interval"}}
              \cup {FlagWith("name", "node"), FlagWith("kill", "false"), FlagWith("filter", "@web"),
                    FlagWith("protocol", "udp")}

MCUsual == {Word(w) : w \in {"1", "1-2", "@web", "node", "kill", "find"}}
           \cup {Flag(n) : n \in {"kill", "yes", "dry-run", "json", "all", "filter", "name"}}
           \cup {DashDash}

MCKill == {Word(w) : w \in {"1", "2", "node"}} \cup {Flag(n) : n \in {"yes", "force", "filter", "name", "tree"}}

MCInspect == {Word(w) : w \in {"1", "@web", "all"}} \cup {DashDash, FlagWith("filter", "node")}
             \cup {Flag(n) : n \in {"filter", "tree", "all", "json"}}

\* find takes the 0 for its query, and the 1 is left as a port.
MCLost == <<Word("find"), Flag("filter"), Word("0"), Flag("filter"), Word("1"),
            Flag("filter"), FlagWith("name", "node")>>

MCLines == BoundedSeq(MCAnything, 2) \cup [1..3 -> MCUsual]
           \cup {<<Word(c)>> \o s : c \in {"kill", "find"}, s \in [1..3 -> MCKill]}
           \cup {<<Word("inspect")>> \o s : s \in [1..2 -> MCInspect]}
           \cup {MCLost}

=============================================================================
