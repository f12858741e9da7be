----------------------------- MODULE Arguments -----------------------------
(***************************************************************************)
(* How portlens reads its command line: cmd/root.go and cmd/dispatch.go.   *)
(* The arguments go through several passes, each with a loop of its own    *)
(* that tells flags, their values and positional arguments apart:          *)
(* extractSubcommand, the subcommand (find, top, next, or a simple one),   *)
(* expandGroups, reorderArgs, and the parser of package flag.              *)
(*                                                                         *)
(* An argument is a word, or a flag with the name it sets and, when it is  *)
(* written --name=value, the value.  One-letter forms and aliases of       *)
(* subcommands are the same arguments as the long ones.  Left out: the     *)
(* lone "-", the empty argument, flags with one dash where the code        *)
(* compares with two (find), and the hidden --_complete_ports.             *)
(*                                                                         *)
(* FAULT marks plausible faults of the code, used to show that the         *)
(* properties of Invocation notice; nothing else refers to them.           *)
(***************************************************************************)
EXTENDS Integers, SequencesExt

CONSTANTS Words,      \* arguments without a dash
          Numeral,    \* what the words that are numbers say
          Span,       \* what the words lo-hi and lo:hi say, as <<lo, hi>>
          References, \* the words @name
          Groups,     \* the ports of those that are configured
          Blank,      \* words of spaces only
          MaxPort,    \* the last port, 65535
          DefaultStart \* where a search begins, 3000

ASSUME ArgumentConstants ==
         /\ DOMAIN Numeral \subseteq Words /\ DOMAIN Span \subseteq Words
         /\ DOMAIN Numeral \cap DOMAIN Span = {}
         /\ DOMAIN Groups \subseteq References /\ References \subseteq Words
         /\ References \cap (DOMAIN Numeral \cup DOMAIN Span) = {}
         /\ Blank \subseteq Words
         /\ MaxPort \in Nat /\ DefaultStart \in 1..MaxPort
         /\ \A p \in 1..MaxPort : \E w \in DOMAIN Numeral : Numeral[w] = p
         /\ \A g \in DOMAIN Groups : Groups[g] \in Seq(1..MaxPort) /\ Groups[g] # <<>>
         /\ \A w \in DOMAIN Numeral : Numeral[w] \in Int
         /\ \A w \in DOMAIN Span : Span[w] \in Int \X Int

-----------------------------------------------------------------------------
(* Arguments, and the pass that every loop of the code is a form of.       *)

NoValue == "no value"

Word(w) == [dash |-> FALSE, text |-> w, inline |-> NoValue]

Flag(n) == [dash |-> TRUE, text |-> n, inline |-> NoValue]

FlagWith(n, w) == [dash |-> TRUE, text |-> n, inline |-> w]

DashDash == Flag("")

boolFlags == {"tree", "connections", "json", "kill", "force", "restart", "open", "yes",
              "no-color", "no-docker", "tcp", "all", "watch", "notify", "verbose",
              "debug", "probe", "dry-run", "help", "version"}

valueFlags == {"protocol", "sort", "filter", "name", "project", "pid", "interval"}

\* The name of a flag is one of these, or any other.
Argument == [dash : {FALSE}, text : Words, inline : {NoValue}]
            \cup [dash : {TRUE}, text : boolFlags \cup valueFlags \cup STRING,
                  inline : {NoValue} \cup STRING]

\* Numbers, ranges and references do not read like the name of a flag.
ASSUME NumbersAreNoNames ==
         (DOMAIN Numeral \cup DOMAIN Span \cup References) \cap valueFlags = {}

IsFlag(t) == t.dash /\ t # DashDash

IsNumber(t) == ~t.dash /\ t.text \in DOMAIN Numeral

\* From left to right: which arguments stand for themselves, and are not
\* pulled along as the value of the one before.
Own(args, Pulls(_)) ==
    LET own[i \in DOMAIN args] == i = 1 \/ ~own[i - 1] \/ ~Pulls(args[i - 1])
    IN  own

\* The k-th of these positions, and the arguments there, in their order.
Nth(positions, k) == CHOOSE i \in positions : Cardinality({j \in positions : j <= i}) = k

At(args, positions) == [k \in 1..Cardinality(positions) |-> args[Nth(positions, k)]]

NamesValue(t) == t.text \in valueFlags /\ t.inline = NoValue

PullsValue(t) == IsFlag(t) /\ NamesValue(t)

-----------------------------------------------------------------------------
(* cmd/root.go: flags, ports and groups.                                   *)

\* FAULT: the flags end at the first word, as package flag alone has it.
FlagsUpToAWord(args) ==
    LET own == Own(args, PullsValue)
        words == {i \in DOMAIN args : own[i] /\ ~IsFlag(args[i])}
        stop == IF words = {} THEN Len(args) + 1 ELSE Min(words)
    IN  [flags |-> SubSeq(args, 1, stop - 1), positional |-> SubSeq(args, stop, Len(args))]

\* The first "--" that is nobody's value ends the flags.
reorderArgs(args) ==
    LET own == Own(args, PullsValue)
        marks == {i \in DOMAIN args : own[i] /\ args[i] = DashDash}
        stop == IF marks = {} THEN Len(args) + 1 ELSE Min(marks)
        flags == {i \in 1 .. stop - 1 : IsFlag(args[i]) \/ ~own[i]}
    IN  [flags |-> At(args, flags),
         positional |-> At(args, DOMAIN args \ (flags \cup {stop}))]

DynamicSources == {"all", "pid", "name", "project"}

\* The names are looked for among the values that were pulled along too.
hasPortTarget(args) ==
    LET split == reorderArgs(args)
    IN  \/ split.positional # <<>>
        \/ \E t \in ToSet(split.flags) : t.text \in DynamicSources

Truths == {"true", "1"}
Falsehoods == {"false", "0"}

\* fs.Parse on what reorderArgs took for flags and their values.
FlagsAccepted(flags) ==
    LET own == Own(flags, PullsValue)
        ValueAt(i) == IF PullsValue(flags[i]) THEN flags[i + 1] ELSE Word(flags[i].inline)
    IN  \A i \in DOMAIN flags : own[i] =>
          \/ /\ flags[i].text \in boolFlags
             /\ flags[i].inline \in {NoValue} \cup Truths \cup Falsehoods
          \/ /\ flags[i].text \in valueFlags
             /\ PullsValue(flags[i]) => i < Len(flags)
             /\ flags[i].text \in {"pid", "interval"} => IsNumber(ValueAt(i))

\* The value of a flag that is not given, which is no argument.
Unset == [dash |-> FALSE, text |-> "", inline |-> "unset"]

\* What they set: the flags that are on, and the value of those that take one.
\* Of a flag that is repeated the last one counts.
ParsedFlags(flags) ==
    LET own == Own(flags, PullsValue)
        Uses(n) == {i \in DOMAIN flags : own[i] /\ flags[i].text = n}
        ValueAt(i) == IF PullsValue(flags[i]) THEN flags[i + 1] ELSE Word(flags[i].inline)
    IN  [on |-> {n \in boolFlags : /\ Uses(n) # {}
                                   /\ flags[Max(Uses(n))].inline \notin Falsehoods},
         value |-> [n \in valueFlags |-> IF Uses(n) = {} THEN Unset
                                         ELSE ValueAt(Max(Uses(n)))]]

Given(opts, n) == opts.value[n] # Unset

Dynamic(opts) == "all" \in opts.on \/ \E n \in {"pid", "name", "project"} : Given(opts, n)

ViewsAndActions == {"kill", "restart", "open", "tree", "connections"}

requiresPortTarget(opts) == opts.on \cap ViewsAndActions # {}

TcpNames == {"tcp", "tcp4", "tcp6", "TCP"}
UdpNames == {"udp", "udp4", "udp6"}
SortKeys == {"port", "process", "project", "runtime"}

\* The checks of parseArgs on the flags.  An upper-case UDP passes.
Coherent(opts) ==
    /\ \A n \in {"pid", "interval"} : Given(opts, n) => Numeral[opts.value[n].text] > 0
    /\ \A n \in {"name", "project"} : Given(opts, n) => opts.value[n].text \notin Blank
    /\ "dry-run" \in opts.on \/ "force" \in opts.on => "kill" \in opts.on
    /\ Given(opts, "interval") \/ "notify" \in opts.on => "watch" \in opts.on
    /\ "watch" \in opts.on => ~requiresPortTarget(opts)
    /\ Given(opts, "protocol") =>
         ~opts.value["protocol"].dash /\ opts.value["protocol"].text \in TcpNames \cup UdpNames \cup {"UDP"}
    /\ Given(opts, "sort") => ~opts.value["sort"].dash /\ opts.value["sort"].text \in SortKeys

IsUdp(opts) == Given(opts, "protocol") /\ opts.value["protocol"].text \in UdpNames

\* parsePortArg: one port or a range, as its two ends.
Ends(t) == IF IsNumber(t) THEN <<Numeral[t.text], Numeral[t.text]>> ELSE Span[t.text]

IsPortArg(t) == /\ ~t.dash /\ t.text \in DOMAIN Numeral \cup DOMAIN Span
                /\ Ends(t)[1] >= 1 /\ Ends(t)[2] <= MaxPort /\ Ends(t)[1] <= Ends(t)[2]

parsePortArg(t) == [k \in 1 .. Ends(t)[2] - Ends(t)[1] + 1 |-> Ends(t)[1] + k - 1]

dedupePorts(ports) ==
    At(ports, {i \in DOMAIN ports : \A j \in 1 .. i - 1 : ports[j] # ports[i]})

PortsNamed(positional) ==
    dedupePorts(FlattenSeq([i \in DOMAIN positional |-> parsePortArg(positional[i])]))

Accepted(args) ==
    LET split == reorderArgs(args)
        opts == ParsedFlags(split.flags)
    IN  /\ FlagsAccepted(split.flags)
        /\ Coherent(opts)
        /\ split.positional # <<>> => ~Dynamic(opts)
        /\ \A t \in ToSet(split.positional) : IsPortArg(t)

\* parseArgs, of arguments it accepts.
parseArgs(args) ==
    LET split == reorderArgs(args)
        opts == ParsedFlags(split.flags)
    IN  [on |-> opts.on, value |-> opts.value, ports |-> PortsNamed(split.positional)]

Decimal(port) == Word(CHOOSE w \in DOMAIN Numeral : Numeral[w] = port)

\* expandGroups.  A word that happens to be the name of a flag pulls the next
\* argument along like the flag.
GroupsKnown(args) ==
    LET own == Own(args, NamesValue)
    IN  \A i \in DOMAIN args : (own[i] /\ ~args[i].dash /\ args[i].text \in References)
                                 => args[i].text \in DOMAIN Groups

\* FAULT: references are expanded where they are the value of a flag too.
ExpandEverywhere(args) ==
    LET Expanded(t) == IF ~t.dash /\ t.text \in DOMAIN Groups
                       THEN [k \in DOMAIN Groups[t.text] |-> Decimal(Groups[t.text][k])]
                       ELSE <<t>>
    IN  FlattenSeq([i \in DOMAIN args |-> Expanded(args[i])])

expandGroups(args) ==
    LET own == Own(args, NamesValue)
        Expanded(i) == IF own[i] /\ ~args[i].dash /\ args[i].text \in DOMAIN Groups
                       THEN [k \in DOMAIN Groups[args[i].text] |-> Decimal(Groups[args[i].text][k])]
                       ELSE <<args[i]>>
    IN  FlattenSeq([i \in DOMAIN args |-> Expanded(i)])

-----------------------------------------------------------------------------
(* cmd/dispatch.go, cmd/top.go: subcommands.                               *)

\* The action a subcommand stands for, and the ones that want a port named.
ActionFlag == [kill |-> "kill", restart |-> "restart", open |-> "open", tree |-> "tree",
               conn |-> "connections", watch |-> "watch"]

WantTarget == {"inspect", "kill", "restart", "open", "tree", "conn"}

Commands == DOMAIN ActionFlag \cup {"list", "inspect", "find", "next", "top",
                                    "config", "doctor", "completion"}

\* extractSubcommand: what comes before the subcommand, and what follows it.
NoCommand == "none"

extractSubcommand(args) ==
    LET own == Own(args, PullsValue)
        words == {i \in DOMAIN args : own[i] /\ ~IsFlag(args[i])}
        first == Min(words)
    IN  IF words # {} /\ ~args[first].dash /\ args[first].text \in Commands
        THEN [name |-> args[first].text, pre |-> SubSeq(args, 1, first - 1),
              rest |-> SubSeq(args, first + 1, Len(args))]
        ELSE [name |-> NoCommand, pre |-> <<>>, rest |-> args]

wantsHelp(args) == \E t \in ToSet(args) : t \in {Flag("help"), Word("help")}

\* find takes only --pid and --name for flags with a value.
FindPulls(t) == t \in {Flag("pid"), Flag("name")}

FindHasTarget(args) ==
    LET own == Own(args, FindPulls)
    IN  \E i \in DOMAIN args : own[i] /\ args[i].dash /\ args[i].text \in {"pid", "name"}
                                 /\ (FindPulls(args[i]) => i < Len(args))

FindQueries(args) ==
    LET own == Own(args, FindPulls) IN {i \in DOMAIN args : own[i] /\ ~args[i].dash}

\* What find hands to executeCore; with a target of its own the query is lost.
FindArgs(args) ==
    LET queries == FindQueries(args)
        query == args[Min(queries)]
        rest == At(args, DOMAIN args \ {Min(queries)})
        source == IF IsNumber(query) /\ Numeral[query.text] > 0 THEN "pid" ELSE "name"
    IN  IF queries = {} THEN args
        ELSE IF FindHasTarget(args) THEN rest ELSE <<Flag(source), query>> \o rest

\* top takes only --interval for a flag with a value.
TopPulls(t) == t = Flag("interval")

\* top: a bare number is the interval, and anything it does not know is refused.
TopAccepts(args) ==
    LET own == Own(args, TopPulls)
    IN  \A i \in DOMAIN args :
          IF own[i]
          THEN \/ IsNumber(args[i]) /\ Numeral[args[i].text] > 0
               \/ args[i].dash /\ args[i].text = "tcp"
                    /\ args[i].inline \in {NoValue} \cup Truths \cup Falsehoods
               \/ args[i].dash /\ args[i].text = "interval"
                    /\ IF args[i].inline = NoValue THEN i < Len(args)
                       ELSE args[i].inline \in DOMAIN Numeral
          ELSE IsNumber(args[i])

\* runNext takes the first word for the port to start from, and no flag but one.
NextAccepts(args) ==
    LET split == reorderArgs(args)
        own == Own(split.flags, PullsValue)
        opts == ParsedFlags(split.flags)
    IN  /\ \A i \in DOMAIN split.flags : own[i] =>
             /\ split.flags[i].text = "protocol"
             /\ PullsValue(split.flags[i]) => i < Len(split.flags)
        /\ Given(opts, "protocol") =>
             /\ ~opts.value["protocol"].dash
             /\ opts.value["protocol"].text \in TcpNames \cup UdpNames \cup {"UDP"}
        /\ split.positional # <<>> => /\ IsNumber(split.positional[1])
                                      /\ Numeral[split.positional[1].text] \in 1..MaxPort

NextStart(args) == LET words == reorderArgs(args).positional
                   IN  IF words = <<>> THEN DefaultStart ELSE Numeral[words[1].text]

NextIsUdp(args) ==
    LET opts == ParsedFlags(reorderArgs(args).flags)
    IN  Given(opts, "protocol") /\ opts.value["protocol"].text \in UdpNames \cup {"UDP"}

=============================================================================
