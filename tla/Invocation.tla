----------------------------- MODULE Invocation -----------------------------
(***************************************************************************)
(* One run of portlens, from the arguments to the exit code: ExecuteContext*)
(* and executeCore of cmd/root.go, runPorts, runPort and the actions of    *)
(* cmd/app.go, the questions of cmd/prompt.go, the keys of                 *)
(* cmd/interactive.go, and the search of cmd/next.go.  Meanwhile processes *)
(* of the host exit and others bind ports.                                 *)
(*                                                                         *)
(* What the other modules model is one step here, with the results it may  *)
(* have: the signals of a kill (Actions), a scan (Scan), the ticks of a    *)
(* watch (Watch).  A command that a restart starts is no process of Owners.*)
(*                                                                         *)
(* FAULT marks plausible faults of the code, used to show that the         *)
(* properties notice; nothing else refers to them.                         *)
(***************************************************************************)
EXTENDS Arguments

CONSTANTS Sockets,   \* <<port, "tcp">> and <<port, "udp">> somebody may hold
          Owners,    \* processes
          Foreign,   \* those of another user, which portlens may not signal
          Matches,   \* whom --pid, --name and --project find, by their value
          Lines,     \* bound: the command lines tried
          MaxChurn   \* bound: processes that exit, and ports that are bound

Nobody == "nobody"
NoPort == 0

ASSUME InvocationConstants ==
         /\ Sockets \subseteq (1..MaxPort) \X {"tcp", "udp"}
         /\ Nobody \notin Owners /\ Foreign \subseteq Owners
         /\ Matches \in [{"pid", "name", "project"} -> [Words -> SUBSET Owners]]
         /\ MaxChurn \in Nat
         /\ Lines \subseteq Seq(Argument)

VARIABLES args,      \* the command line
          phase,     \* what the run is at
          opts,      \* the options, and the ports they name
          tty,       \* stdin and stdout are a terminal, or neither is
          handled,   \* of the ports looked at: who was there, and what runPort returned
          worst,     \* of runPorts
          exit,      \* the exit code
          report,    \* the owner the interactive prompt is about
          cand, inUse, answer, \* of runNext: p, the map, what was printed
          denied,    \* ports nobody held whose bind was refused all the same
          holder, alive, churn, \* the host
          signaled,  \* processes this run tried to stop
          vacant     \* ports nobody held since the search for one began

host == <<holder, alive, churn>>
search == <<cand, inUse, answer, denied>>
vars == <<args, phase, opts, tty, handled, worst, exit, report, search, host, signaled, vacant>>

\* Exit codes: internal/exitcode.
Success == 0
GeneralError == 1
InvalidArguments == 2
PortNotFound == 3
PermissionDenied == 4
ProcessActionFailed == 5

ExitCodes == 0..5
Running == 6

NoOptions == [on |-> {}, value |-> [n \in valueFlags |-> Unset], ports |-> <<>>]

Init == /\ args \in Lines
        /\ phase = "start" /\ opts = NoOptions /\ tty = FALSE
        /\ handled = <<>> /\ worst = Success /\ exit = Running
        /\ report = Nobody
        /\ cand = NoPort /\ inUse = {} /\ answer = NoPort /\ denied = {}
        /\ holder = [s \in Sockets |-> Nobody] /\ alive = Owners /\ churn = 0
        /\ signaled = {} /\ vacant = {}

Leave(code) == phase' = "done" /\ exit' = code

\* What runNext looks for.
Protocol == IF NextIsUdp(extractSubcommand(args).pre \o extractSubcommand(args).rest)
            THEN "udp" ELSE "tcp"

-----------------------------------------------------------------------------
(* The host.                                                               *)

Unstarted == phase \in {"start", "done"}

\* A process exits, and its sockets are closed.
Exits(o) == /\ ~Unstarted /\ churn < MaxChurn /\ o \in alive
            /\ alive' = alive \ {o} /\ churn' = churn + 1
            /\ holder' = [s \in Sockets |-> IF holder[s] = o THEN Nobody ELSE holder[s]]
            /\ UNCHANGED <<args, phase, opts, tty, handled, worst, exit, report, search, signaled, vacant>>

Binds(o, s) == /\ ~Unstarted /\ churn < MaxChurn
               /\ o \in alive /\ holder[s] = Nobody
               /\ holder' = [holder EXCEPT ![s] = o] /\ churn' = churn + 1
               /\ vacant' = {p \in vacant : s # <<p, Protocol>>}
               /\ UNCHANGED <<args, phase, opts, tty, handled, worst, exit, report, search, alive, signaled>>

-----------------------------------------------------------------------------
(* From the arguments to what is to be done.                               *)

CoreCommands == {NoCommand, "list", "inspect", "find"} \cup DOMAIN ActionFlag

\* What the subcommand hands to executeCore.
CoreArgs(line) ==
            LET cmd == extractSubcommand(line)
            IN  IF cmd.name = "find" THEN cmd.pre \o FindArgs(cmd.rest)
                ELSE IF cmd.name \in DOMAIN ActionFlag
                     THEN cmd.pre \o <<Flag(ActionFlag[cmd.name])>> \o cmd.rest
                     ELSE cmd.pre \o cmd.rest

HelpWanted(line) ==
              LET cmd == extractSubcommand(line)
              IN  \/ cmd.name = "top" /\ wantsHelp(cmd.pre \o cmd.rest)
                  \/ cmd.name \in (CoreCommands \cup {"next"}) \ {NoCommand} /\ wantsHelp(cmd.rest)

\* The subcommand refuses before anything is parsed.
Pointless(line) ==
             LET cmd == extractSubcommand(line)
             IN  \/ cmd.name \in WantTarget /\ ~hasPortTarget(cmd.pre \o cmd.rest)
                 \/ cmd.name = "find" /\ ~FindHasTarget(cmd.rest) /\ FindQueries(cmd.rest) = {}

Refused(line) ==
           LET cmd == extractSubcommand(line)
               all == cmd.pre \o cmd.rest
           IN  \/ cmd.name = "top" /\ ~TopAccepts(all)
               \/ cmd.name = "next" /\ ~NextAccepts(all)
               \/ /\ cmd.name \in CoreCommands
                  /\ \/ Pointless(line)
                     \/ ~GroupsKnown(CoreArgs(line))
                     \/ ~Accepted(expandGroups(CoreArgs(line)))

ShowHelp == /\ phase = "start" /\ HelpWanted(args)
            /\ Leave(Success)
            /\ UNCHANGED <<args, opts, tty, handled, worst, report, search, host, signaled, vacant>>

Refuse == /\ phase = "start" /\ ~HelpWanted(args) /\ Refused(args)
          /\ Leave(InvalidArguments)
          /\ UNCHANGED <<args, opts, tty, handled, worst, report, search, host, signaled, vacant>>

\* The view or the loop that options with these ports lead to.
NextPhase(o) ==
    IF "watch" \in o.on THEN "watching"
    ELSE IF o.ports = <<>> THEN "listing"
    ELSE IF Len(o.ports) > 1 /\ ("json" \in o.on \/ ~requiresPortTarget(o)) THEN "scanning"
    ELSE "looking"

\* FAULT: only a kill is refused without a target.
OnlyKillTargetless(o) == o.ports = <<>> /\ "kill" \in o.on

\* Nothing to act on: never the listing instead.
Targetless(o) == o.ports = <<>> /\ requiresPortTarget(o)

\* executeCore, up to the first look at the host, which is what it is by then.
Start == LET o == parseArgs(expandGroups(CoreArgs(args)))
         IN  /\ phase = "start" /\ ~HelpWanted(args) /\ ~Refused(args)
             /\ extractSubcommand(args).name \in CoreCommands
             /\ opts' = o
             /\ \/ /\ {"help", "version"} \cap o.on # {}
                   /\ Leave(Success) /\ UNCHANGED <<tty, holder>>
                \/ /\ {"help", "version"} \cap o.on = {}
                   /\ ~Dynamic(o) /\ Targetless(o)
                   /\ Leave(InvalidArguments) /\ UNCHANGED <<tty, holder>>
                \/ /\ {"help", "version"} \cap o.on = {}
                   /\ Dynamic(o) \/ ~Targetless(o)
                   /\ phase' = IF Dynamic(o) THEN "resolving" ELSE NextPhase(o)
                   /\ tty' \in BOOLEAN
                   /\ holder' \in [Sockets -> Owners \cup {Nobody}]
                   /\ UNCHANGED exit
             /\ UNCHANGED <<args, handled, worst, report, search, alive, churn, signaled, vacant>>

\* The dashboard, and the commands that have nothing to do with ports.
StartOther == /\ phase = "start" /\ ~HelpWanted(args) /\ ~Refused(args)
              /\ extractSubcommand(args).name \in {"top", "config", "doctor", "completion"}
              /\ Leave(Success)
              /\ UNCHANGED <<args, opts, tty, handled, worst, report, search, host, signaled, vacant>>

-----------------------------------------------------------------------------
(* resolveDynamicPorts, the listing, a scan and a watch.                   *)

\* Whom the source is about, in the order the code asks.
Meant(o) == IF Given(o, "pid") THEN Matches["pid"][o.value["pid"].text]
            ELSE IF Given(o, "name")
                 THEN IF o.value["name"].dash THEN {} ELSE Matches["name"][o.value["name"].text]
            ELSE IF Given(o, "project")
                 THEN IF o.value["project"].dash THEN {} ELSE Matches["project"][o.value["project"].text]
            ELSE Owners

\* The ports of their sockets, of both protocols, in the order of the listing.
PortsOf(owners) ==
    LET Listed(p) == \E s \in Sockets : s[1] = p /\ holder[s] \in owners
    IN  SelectSeq([p \in 1..MaxPort |-> p], Listed)

Resolve == LET found == PortsOf(Meant(opts))
           IN  /\ phase = "resolving"
               /\ \/ found # <<>> /\ opts' = [opts EXCEPT !.ports = found]
                     /\ phase' = NextPhase([opts EXCEPT !.ports = found])
                     /\ UNCHANGED exit
                  \/ found = <<>> /\ Leave(PortNotFound) /\ UNCHANGED opts
                  \/ \E code \in {GeneralError, PermissionDenied} : Leave(code) /\ UNCHANGED opts
               /\ UNCHANGED <<args, tty, handled, worst, report, search, host, signaled, vacant>>

\* runListing, and runScan or runPortsJSON: a scan that is not interrupted
\* succeeds, whatever it could not inspect.  A watch ends when interrupted.
Finish == /\ \/ phase = "listing" /\ \E code \in {Success, GeneralError, PermissionDenied} : Leave(code)
             \/ phase = "scanning" /\ \E code \in {Success, GeneralError} : Leave(code)
             \/ phase = "watching" /\ Leave(Success)
          /\ UNCHANGED <<args, opts, tty, handled, worst, report, search, host, signaled, vacant>>

-----------------------------------------------------------------------------
(* runPorts: one port after another, and the worst code of all.            *)

Port == opts.ports[Len(handled) + 1]

\* Who is found there: TCP, unless the options say UDP.
Owner == LET s == <<Port, IF IsUdp(opts) THEN "udp" ELSE "tcp">>
         IN  IF s \in Sockets THEN holder[s] ELSE Nobody

\* FAULT: the last port alone decides.
LastCode(code) == code

Worse(code) == IF code > worst THEN code ELSE worst

\* runPort returns this code for the port at hand.
Handle(code) ==
    /\ handled' = Append(handled, [owner |-> Owner, code |-> code])
    /\ worst' = Worse(code)
    /\ IF Len(handled') = Len(opts.ports) THEN Leave(worst') ELSE UNCHANGED <<phase, exit>>

Acting == opts.on \cap {"kill", "restart", "open"} # {} /\ "json" \notin opts.on

\* A port that is free, one that cannot be inspected, and one only shown.
Show == /\ phase = "looking"
        /\ \/ Owner = Nobody /\ Handle(PortNotFound)
           \/ \E code \in {GeneralError, PermissionDenied} : Handle(code)
           \/ /\ Owner # Nobody
              /\ \/ "json" \in opts.on
                 \/ requiresPortTarget(opts) /\ ~Acting
                 \/ ~requiresPortTarget(opts) /\ ~(tty /\ Len(opts.ports) = 1)
              /\ Handle(Success)
        /\ UNCHANGED <<args, opts, tty, report, search, host, signaled, vacant>>

\* FAULT: --dry-run is looked at after --kill.
ForgetsDryRun == "kill" \notin opts.on /\ "restart" \notin opts.on

\* The plan of a kill, and a page that is opened, touch no process.
OnlyLooks == "dry-run" \in opts.on \/ ("kill" \notin opts.on /\ "restart" \notin opts.on)

Describe == /\ phase = "looking" /\ Acting /\ Owner # Nobody /\ OnlyLooks
            /\ \E code \in {Success, GeneralError} : Handle(code)
            /\ UNCHANGED <<args, opts, tty, report, search, host, signaled, vacant>>

\* Whether there may be an answer at all: newConfirm, and force asks nothing.
Answerable(asked) == tty \/ asked \cap {"yes", "force"} # {}

\* A forced kill of another user's process: the refusals of its signals are
\* dropped, the probe whether it is alive is refused too, and that passes for an
\* exit (actions.go:180-196).
Passes(o) == "force" \in opts.on /\ o \in Foreign

\* The owner exits, and its sockets are closed.
Stops(o) == /\ alive' = alive \ {o}
            /\ holder' = [s \in Sockets |-> IF holder[s] = o THEN Nobody ELSE holder[s]]
            /\ UNCHANGED churn

\* runKill and runRestart.  A restart begins with the same signals.
Kill == /\ phase = "looking" /\ Acting /\ Owner # Nobody /\ ~OnlyLooks
        /\ Answerable(opts.on)
        /\ signaled' = signaled \cup {Owner}
        /\ \/ Stops(Owner) /\ \E code \in ExitCodes \ {InvalidArguments, PortNotFound} : Handle(code)
           \/ UNCHANGED host /\ \E code \in {GeneralError, PermissionDenied, ProcessActionFailed} : Handle(code)
           \/ UNCHANGED host /\ Passes(Owner) /\ Handle(Success)
        /\ UNCHANGED <<args, opts, tty, report, search, vacant>>

\* Refused for want of an answer, aborted, no owner to be seen, a restart
\* that is unavailable.
Spare == /\ phase = "looking" /\ Acting /\ Owner # Nobody /\ ~OnlyLooks
         /\ \E code \in {GeneralError, ProcessActionFailed} : Handle(code)
         /\ UNCHANGED <<args, opts, tty, report, search, host, signaled, vacant>>

-----------------------------------------------------------------------------
(* runInteractive, for one port on a terminal.                             *)

Enter == /\ phase = "looking" /\ Owner # Nobody
         /\ ~requiresPortTarget(opts) /\ "json" \notin opts.on
         /\ tty /\ Len(opts.ports) = 1
         /\ phase' = "prompt" /\ report' = Owner
         /\ UNCHANGED <<args, opts, tty, handled, worst, exit, search, host, signaled, vacant>>

\* k, f and r end the prompt whatever becomes of them; the first two look
\* whether the process of the report is still there.
PressKill(key) ==
    /\ phase = "prompt" /\ key \in {"k", "f", "r"}
    /\ \/ /\ key = "r" \/ report \in alive
          /\ signaled' = signaled \cup {report}
          /\ Stops(report) \/ UNCHANGED host
       \/ UNCHANGED <<host, signaled>>
    /\ Leave(Success)
    /\ UNCHANGED <<args, opts, tty, handled, worst, report, search, vacant>>

\* q, Ctrl-C, or an input that ends.  The other keys only show something.
Quit == /\ phase = "prompt" /\ Leave(Success)
        /\ UNCHANGED <<args, opts, tty, handled, worst, report, search, host, signaled, vacant>>

-----------------------------------------------------------------------------
(* runNext: the lowest free port.                                          *)

\* FAULT: a port held for the other protocol is not free either.
HeldForAny(p) == \E s \in Sockets : s[1] = p /\ holder[s] # Nobody

Held(p) == <<p, Protocol>> \in Sockets /\ holder[<<p, Protocol>>] # Nobody

\* A listing that fails leaves the map empty.
StartNext ==
    LET cmd == extractSubcommand(args)
    IN  /\ phase = "start" /\ ~HelpWanted(args) /\ ~Refused(args) /\ cmd.name = "next"
        /\ phase' = "searching" /\ cand' = NextStart(cmd.pre \o cmd.rest)
        /\ holder' \in [Sockets -> Owners \cup {Nobody}]
        /\ vacant' = {p \in 1..MaxPort : \A s \in Sockets :
                                          s = <<p, Protocol>> => holder'[s] = Nobody}
        /\ inUse' \in {{}, 1..MaxPort \ vacant'}
        /\ UNCHANGED <<args, opts, tty, handled, worst, exit, report, answer, denied, alive, churn, signaled>>

\* A port is passed over when the listing had it, or when it cannot be bound,
\* whatever the reason: somebody holds it, it is a privileged one, a connection
\* uses it.
TryPort == /\ phase = "searching"
           /\ \/ /\ cand <= MaxPort /\ (cand \in inUse \/ Held(cand))
                 /\ cand' = cand + 1 /\ UNCHANGED <<phase, exit, answer, denied>>
              \/ /\ cand <= MaxPort /\ cand \notin inUse /\ ~Held(cand)
                 /\ denied' = denied \cup {cand}
                 /\ cand' = cand + 1 /\ UNCHANGED <<phase, exit, answer>>
              \/ /\ cand <= MaxPort /\ cand \notin inUse /\ ~Held(cand)
                 /\ answer' = cand /\ Leave(Success) /\ UNCHANGED <<cand, denied>>
              \/ /\ cand > MaxPort /\ Leave(PortNotFound) /\ UNCHANGED <<cand, answer, denied>>
           /\ UNCHANGED <<args, opts, tty, handled, worst, report, inUse, host, signaled, vacant>>

\* Ctrl-C: it stops without an answer, and succeeds.
Interrupt == /\ phase = "searching" /\ Leave(Success)
             /\ UNCHANGED <<args, opts, tty, handled, worst, report, search, host, signaled, vacant>>

Next == \/ ShowHelp \/ Refuse \/ Start \/ StartOther \/ StartNext
        \/ Resolve \/ Finish
        \/ Show \/ Describe \/ Kill \/ Spare
        \/ Enter \/ Quit \/ \E key \in {"k", "f", "r"} : PressKill(key)
        \/ TryPort \/ Interrupt
        \/ \E o \in Owners : Exits(o)
        \/ \E o \in Owners, s \in Sockets : Binds(o, s)

Spec == Init /\ [][Next]_vars

-----------------------------------------------------------------------------
(* Properties.                                                             *)

\* The variables keep their types.
TypeOK == /\ phase \in {"start", "resolving", "listing", "scanning", "watching", "looking",
                        "prompt", "searching", "done"}
          /\ tty \in BOOLEAN
          /\ worst \in ExitCodes /\ exit \in ExitCodes \cup {Running}
          /\ (exit = Running) <=> (phase # "done")
          /\ handled \in Seq([owner : Owners \cup {Nobody}, code : ExitCodes])
          /\ report \in Owners \cup {Nobody} /\ (phase = "prompt" => report \in Owners)
          /\ cand \in Int /\ answer \in Int
          /\ inUse \subseteq 1..MaxPort /\ vacant \subseteq 1..MaxPort /\ denied \subseteq Int
          /\ holder \in [Sockets -> Owners \cup {Nobody}]
          /\ alive \subseteq Owners /\ churn \in Nat /\ signaled \subseteq Owners

\* The ports an argument names.
NamedBy(t) == IF t.dash THEN {}
              ELSE IF t.text \in DOMAIN Groups THEN ToSet(Groups[t.text])
              ELSE IF t.text \in DOMAIN Numeral \cup DOMAIN Span THEN Ends(t)[1]..Ends(t)[2]
              ELSE {}

\* Every port that is inspected or acted upon was named by an argument that is
\* not the value of a flag, unless processes were named instead: the passes of
\* dispatch.go and root.go agree on which argument is what.  All but find, which
\* takes the first value of a flag for its query and leaves the flag with the
\* next argument: there any argument may turn into a port.
OnlyNamedPorts ==
    phase # "start" /\ ~Dynamic(opts) =>
      \A p \in ToSet(opts.ports) :
        \E i \in DOMAIN args : /\ \/ Own(args, PullsValue)[i]
                                  \/ extractSubcommand(args).name = "find"
                               /\ p \in NamedBy(args[i])

\* What a command line comes to.
Reading(line) == IF HelpWanted(line) THEN "help"
                 ELSE IF extractSubcommand(line).name \in CoreCommands
                      THEN parseArgs(expandGroups(CoreArgs(line)))
                      ELSE extractSubcommand(line).name

\* The same command line with the flags that follow the subcommand before all
\* the words, and behind them.
Moved(line) ==
    LET cmd == extractSubcommand(line)
        own == Own(cmd.rest, PullsValue)
        flags == {i \in DOMAIN cmd.rest : IsFlag(cmd.rest[i]) \/ ~own[i]}
        start == cmd.pre \o (IF cmd.name = NoCommand THEN <<>> ELSE <<Word(cmd.name)>>)
        words == At(cmd.rest, DOMAIN cmd.rest \ flags)
    IN  {start \o At(cmd.rest, flags) \o words, start \o words \o At(cmd.rest, flags)}

\* Flags may stand before or after the ports (root.go:308): an accepted command
\* line means the same wherever the flags after the subcommand are put.  Not for
\* find, which takes the value of a flag for its query.
FlagsMayStandAnywhere ==
    /\ phase = "start" /\ DashDash \notin ToSet(args)
    /\ extractSubcommand(args).name # "find"
    /\ ~Refused(args)
    => \A line \in Moved(args) : /\ HelpWanted(args) \/ ~Refused(line)
                                 /\ Reading(line) = Reading(args)

\* No process is signalled by a run that was not asked to: by the flag or the
\* key, not for a plan, a watch or a report in JSON, and where nobody can be
\* asked only with --yes or --force.
NoSilentKill ==
    signaled # {} =>
      \/ tty /\ report \in Owners
      \/ /\ opts.on \cap {"kill", "restart"} # {}
         /\ opts.on \cap {"dry-run", "watch", "json"} = {}
         /\ tty \/ opts.on \cap {"yes", "force"} # {}

\* The views and actions that a line asks for, by the subcommand or by flags, and
\* does not turn off again (--kill=false).
AskedFor(line) ==
    LET name == extractSubcommand(line).name
        flags == {n \in ViewsAndActions \cup {"watch"} :
                    \E i \in DOMAIN line : Own(line, PullsValue)[i] /\ line[i] = Flag(n)}
        actions == IF name \in DOMAIN ActionFlag THEN {ActionFlag[name]} ELSE {}
    IN  {n \in flags \cup actions :
           \A t \in ToSet(line) : t.dash /\ t.text = n => t.inline \notin Falsehoods}

\* A run that is asked for a view or an action of ports neither prints the listing
\* instead nor scans for the eye (CHANGELOG.md:249-258): without a port it ends in
\* an error.  One that is asked to inspect prints the listing only where an
\* argument, the value of a flag too, reads like the name of a source of ports,
\* which hasPortTarget takes for one.  Under --json several ports are reported by a
\* scan whatever else is asked for (app.go:60-62), as one port is (app.go:317-320).
\* Not find, which may lose the flag it is asked by to the value of another.
ListsOnlyUnasked ==
    extractSubcommand(args).name # "find" =>
      /\ phase = "listing" \/ (phase = "scanning" /\ "json" \notin opts.on)
           => AskedFor(args) = {}
      /\ phase = "listing" /\ extractSubcommand(args).name = "inspect"
           => \E t \in ToSet(args) : t.text \in DynamicSources

\* CHANGELOG.md:250-253 has inspect with nothing but the values of flags fail.  This
\* does not hold: `inspect --filter all` prints the listing.
InspectNeverLists == extractSubcommand(args).name = "inspect" => phase # "listing"

Kills == "kill" \in opts.on /\ opts.on \cap {"dry-run", "json"} = {}

\* The exit code of a run over several ports hides none of them: it is the
\* gravest that any of them had, and a kill that succeeds has left no process it
\* was about but another user's, and that only if it was forced: without force the
\* run says "permission denied" (usage.md:256-258).
ExitHonest ==
    phase = "done" /\ handled # <<>> /\ report = Nobody =>
      /\ Len(handled) = Len(opts.ports)
      /\ \A h \in ToSet(handled) : h.code <= exit
      /\ exit = Success /\ Kills
           => \A h \in ToSet(handled) : h.owner \in alive => Passes(h.owner)

\* next prints the lowest port it could have bound: every port it passed over was
\* held at some moment of the search, or its bind was refused.
LowestFree ==
    answer # NoPort =>
      \A p \in NextStart(extractSubcommand(args).pre \o extractSubcommand(args).rest) .. answer - 1 :
        p \in vacant => p \in denied

\* Only the processes asked for by --pid, --name or --project are stopped
\* (docs/usage.md: "terminate matching processes").  The port is looked up again
\* by its number when its turn comes: this does not hold.
OnlyMatchingStopped ==
    \A n \in {"pid", "name", "project"} : Given(opts, n) => signaled \subseteq Meant(opts)

=============================================================================
