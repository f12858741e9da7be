-------------------------- MODULE InvocationProofs --------------------------
(***************************************************************************)
(* Proofs about Invocation for any command lines, hosts, and number of     *)
(* processes that exit or bind ports.  The first half is about the state   *)
(* of the run and leaves unexpanded what the passes over the arguments     *)
(* compute, except that next refuses a port to start from that is none.    *)
(* The second half is about the passes, for command lines of any length:   *)
(* what becomes of a flag, of its value and of a word in extractSubcommand,*)
(* expandGroups, reorderArgs and package flag, one after the other.  The   *)
(* last part is about lines whose flags stand elsewhere.                   *)
(***************************************************************************)
EXTENDS Invocation, SequenceTheorems, FiniteSetTheorems, WellFoundedInduction, TLAPS

Phases == {"start", "resolving", "listing", "scanning", "watching", "looking",
           "prompt", "searching", "done"}

Outcomes == Seq([owner : Owners \cup {Nobody}, code : ExitCodes])

\* The exit codes are numbers, none of which means that the run goes on.
LEMMA Codes == /\ ExitCodes \subseteq Int /\ Running \notin ExitCodes
               /\ Success \in ExitCodes /\ GeneralError \in ExitCodes
               /\ InvalidArguments \in ExitCodes /\ PortNotFound \in ExitCodes
               /\ PermissionDenied \in ExitCodes /\ ProcessActionFailed \in ExitCodes
  BY DEF ExitCodes, Running, Success, GeneralError, InvalidArguments, PortNotFound,
         PermissionDenied, ProcessActionFailed

\* What one port adds to the run.
LEMMA HandleType ==
    ASSUME TypeOK, NEW code \in ExitCodes, phase = "looking", Handle(code)
    PROVE  /\ handled' \in Outcomes /\ worst' \in ExitCodes
           /\ worst' >= worst /\ worst' >= code
           /\ \/ phase' = "looking" /\ exit' = exit
              \/ phase' = "done" /\ exit' = worst' /\ Len(handled') = Len(opts.ports)
           /\ Len(handled') = Len(handled) + 1
           /\ handled'[Len(handled')] = [owner |-> Owner, code |-> code]
           /\ \A i \in 1..Len(handled) : handled'[i] = handled[i]
<1>1. Owner \in Owners \cup {Nobody}
  BY DEF Owner, TypeOK
<1>2. handled \in Outcomes /\ [owner |-> Owner, code |-> code] \in [owner : Owners \cup {Nobody}, code : ExitCodes]
  BY <1>1 DEF TypeOK, Outcomes
<1>3. handled' = Append(handled, [owner |-> Owner, code |-> code])
  BY DEF Handle
<1>4. worst' = IF code > worst THEN code ELSE worst
  BY DEF Handle, Worse
<1>5. worst' \in ExitCodes /\ worst' >= worst /\ worst' >= code
  BY <1>4 DEF TypeOK, ExitCodes
<1>6. \/ phase' = "looking" /\ exit' = exit
      \/ phase' = "done" /\ exit' = worst' /\ Len(handled') = Len(opts.ports)
  BY DEF Handle, Leave
<1> HIDE DEF Owner
<1> QED
  BY <1>2, <1>3, <1>5, <1>6 DEF Outcomes

\* A process that stops leaves its sockets and nothing else changes.
LEMMA StopsType ==
    ASSUME TypeOK, NEW o \in Owners, Stops(o)
    PROVE  /\ holder' \in [Sockets -> Owners \cup {Nobody}]
           /\ alive' = alive \ {o} /\ churn' = churn
  BY DEF Stops, TypeOK

\* What options lead to, and never one port after another for a watch.
LEMMA NextPhaseType ==
    ASSUME NEW o
    PROVE  /\ NextPhase(o) \in {"watching", "listing", "scanning", "looking"}
           /\ NextPhase(o) = "looking" => "watch" \notin o.on
  BY DEF NextPhase

\* TypeOK is an inductive invariant: it holds at the start,
LEMMA TypeInit == Init => TypeOK
<1> SUFFICES ASSUME Init PROVE TypeOK
  OBVIOUS
<1>1. phase \in Phases /\ exit = Running /\ phase # "done" /\ phase # "prompt"
  BY DEF Init, Phases
<1>t. tty \in BOOLEAN
  BY DEF Init
<1>2. handled \in Outcomes
  BY DEF Init, Outcomes
<1>3. /\ worst \in ExitCodes
      /\ report \in Owners \cup {Nobody} /\ cand \in Int /\ answer \in Int
  BY Codes DEF Init, NoPort
<1>4. /\ inUse \subseteq 1..MaxPort /\ vacant \subseteq 1..MaxPort /\ denied \subseteq Int
      /\ holder \in [Sockets -> Owners \cup {Nobody}]
      /\ alive \subseteq Owners /\ churn \in Nat /\ signaled \subseteq Owners
  BY DEF Init
<1> QED
  BY <1>1, <1>t, <1>2, <1>3, <1>4 DEF TypeOK, Outcomes, Phases

\* and every action keeps it.
LEMMA TypeStep == TypeOK /\ [Next]_vars => TypeOK'
<1> SUFFICES ASSUME TypeOK, [Next]_vars PROVE TypeOK'
  OBVIOUS
<1> USE DEF host, search
<1>a. ASSUME NEW code \in ExitCodes, Leave(code)
      PROVE  /\ phase' \in Phases /\ exit' \in ExitCodes \cup {Running}
             /\ ((exit' = Running) <=> (phase' # "done")) /\ phase' # "prompt"
  BY <1>a, Codes DEF Leave, Phases
<1>b. phase' \in Phases /\ exit' = exit /\ phase # "done" /\ phase' # "done"
      => /\ exit' \in ExitCodes \cup {Running}
         /\ (exit' = Running) <=> (phase' # "done")
  BY DEF TypeOK
<1>c. ASSUME NEW code \in ExitCodes, phase = "looking", Handle(code)
      PROVE  /\ handled' \in Outcomes /\ worst' \in ExitCodes
             /\ phase' \in Phases /\ exit' \in ExitCodes \cup {Running}
             /\ ((exit' = Running) <=> (phase' # "done")) /\ phase' # "prompt"
  BY <1>c, HandleType, Codes DEF TypeOK, Phases
<1>1. CASE ShowHelp
  BY <1>1, <1>a, Codes DEF ShowHelp, TypeOK, Phases
<1>2. CASE Refuse
  BY <1>2, <1>a, Codes DEF Refuse, TypeOK, Phases
<1>3. CASE Start
  <2>1. /\ phase' \in Phases /\ exit' \in ExitCodes \cup {Running}
        /\ ((exit' = Running) <=> (phase' # "done")) /\ phase' # "prompt"
    <3>1. CASE Leave(Success) \/ Leave(InvalidArguments)
      BY <3>1, <1>a, Codes
    <3>2. CASE exit' = exit /\ phase' \in {"resolving", "watching", "listing", "scanning", "looking"}
      BY <3>2, <1>3, <1>b DEF Start, Phases
    <3> QED
      BY <3>1, <3>2, <1>3, NextPhaseType DEF Start
  <2>2. tty' \in BOOLEAN /\ holder' \in [Sockets -> Owners \cup {Nobody}]
    BY <1>3 DEF Start, TypeOK
  <2>3. UNCHANGED <<handled, worst, report, search, alive, churn, signaled, vacant>>
    BY <1>3 DEF Start
  <2> QED
    BY <2>1, <2>2, <2>3 DEF TypeOK, Phases
<1>4. CASE StartOther
  BY <1>4, <1>a, Codes DEF StartOther, TypeOK, Phases
<1>5. CASE StartNext
  <2> DEFINE cmd == extractSubcommand(args)
  <2>1. NextStart(cmd.pre \o cmd.rest) \in Int
    <3>1. NextAccepts(cmd.pre \o cmd.rest)
      BY <1>5 DEF StartNext, Refused
    <3>2. DefaultStart \in Int
      BY ArgumentConstants
    <3> QED
      BY <3>1, <3>2 DEF NextAccepts, NextStart
  <2>2. /\ cand' \in Int /\ phase' = "searching" /\ phase = "start" /\ exit' = exit
        /\ holder' \in [Sockets -> Owners \cup {Nobody}]
        /\ UNCHANGED <<tty, handled, worst, report, answer, denied, alive, churn, signaled>>
    BY <1>5, <2>1 DEF StartNext
  <2>3. vacant' \subseteq 1..MaxPort
    BY <1>5 DEF StartNext
  <2>4. inUse' \subseteq 1..MaxPort
    BY <1>5 DEF StartNext
  <2> QED
    BY <2>2, <2>3, <2>4, <1>b DEF TypeOK, Phases
<1>6. CASE Resolve
  <2>1. /\ phase' \in Phases /\ exit' \in ExitCodes \cup {Running}
        /\ ((exit' = Running) <=> (phase' # "done")) /\ phase' # "prompt"
    <3>1. CASE \E code \in ExitCodes : Leave(code)
      BY <3>1, <1>a
    <3>2. CASE exit' = exit /\ phase' \in {"watching", "listing", "scanning", "looking"}
      BY <3>2, <1>6, <1>b DEF Resolve, Phases
    <3> QED
      BY <3>1, <3>2, <1>6, NextPhaseType, Codes DEF Resolve
  <2>2. UNCHANGED <<tty, handled, worst, report, search, host, signaled, vacant>>
    BY <1>6 DEF Resolve
  <2> QED
    BY <2>1, <2>2 DEF TypeOK, Phases
<1>7. CASE Finish
  <2>1. \E code \in ExitCodes : Leave(code)
    BY <1>7, Codes DEF Finish
  <2>2. UNCHANGED <<tty, handled, worst, report, search, host, signaled, vacant>>
    BY <1>7 DEF Finish
  <2> QED
    BY <2>1, <2>2, <1>a DEF TypeOK, Phases
<1>8. CASE Show
  <2>1. phase = "looking" /\ \E code \in ExitCodes : Handle(code)
    BY <1>8, Codes DEF Show
  <2>2. UNCHANGED <<tty, report, search, host, signaled, vacant>>
    BY <1>8 DEF Show
  <2> QED
    BY <2>1, <2>2, <1>c DEF TypeOK, Phases, Outcomes
<1>9. CASE Describe \/ Spare
  <2>1. phase = "looking" /\ \E code \in ExitCodes : Handle(code)
    BY <1>9, Codes DEF Describe, Spare
  <2>2. UNCHANGED <<tty, report, search, host, signaled, vacant>>
    BY <1>9 DEF Describe, Spare
  <2> QED
    BY <2>1, <2>2, <1>c DEF TypeOK, Phases, Outcomes
<1>10. CASE Kill
  <2>1. phase = "looking" /\ \E code \in ExitCodes : Handle(code)
    BY <1>10, Codes DEF Kill
  <2>2. Owner \in Owners
    BY <1>10 DEF Kill, Owner, TypeOK
  <2>3. /\ holder' \in [Sockets -> Owners \cup {Nobody}]
        /\ alive' \subseteq Owners /\ churn' = churn
    <3> HIDE DEF Owner
    <3>1. Stops(Owner) \/ UNCHANGED host
      BY <1>10 DEF Kill
    <3> QED
      BY <2>2, <3>1, StopsType DEF TypeOK
  <2>4. /\ signaled' \subseteq Owners
        /\ UNCHANGED <<tty, report, search, vacant>>
    BY <1>10, <2>2 DEF Kill, TypeOK
  <2> QED
    BY <2>1, <2>3, <2>4, <1>c DEF TypeOK, Phases, Outcomes
<1>11. CASE Enter
  <2>1. Owner \in Owners
    BY <1>11 DEF Enter, Owner, TypeOK
  <2>2. report' \in Owners /\ phase = "looking" /\ phase' = "prompt" /\ exit' = exit
    BY <1>11, <2>1 DEF Enter
  <2>3. UNCHANGED <<tty, handled, worst, search, host, signaled, vacant>>
    BY <1>11 DEF Enter
  <2> QED
    BY <2>2, <2>3, <1>b DEF TypeOK, Phases
<1>12. CASE Quit
  BY <1>12, <1>a, Codes DEF Quit, TypeOK, Phases
<1>13. ASSUME NEW key \in {"k", "f", "r"}, PressKill(key) PROVE TypeOK'
  <2>0. report \in Owners
    BY <1>13 DEF PressKill, TypeOK
  <2>1. /\ holder' \in [Sockets -> Owners \cup {Nobody}]
        /\ alive' \subseteq Owners /\ churn' = churn
    <3>1. Stops(report) \/ UNCHANGED host
      BY <1>13 DEF PressKill
    <3> QED
      BY <3>1, <2>0, StopsType DEF TypeOK
  <2>2. signaled' \subseteq Owners
    BY <1>13, <2>0 DEF PressKill, TypeOK
  <2>3. Leave(Success) /\ UNCHANGED <<tty, handled, worst, report, search, vacant>>
    BY <1>13 DEF PressKill
  <2> QED
    BY <2>1, <2>2, <2>3, <1>a, Codes DEF TypeOK, Phases
<1>14. CASE TryPort
  <2>1. /\ phase' \in Phases /\ exit' \in ExitCodes \cup {Running}
        /\ ((exit' = Running) <=> (phase' # "done")) /\ phase' # "prompt"
    <3>1. CASE Leave(Success) \/ Leave(PortNotFound)
      BY <3>1, <1>a, Codes
    <3>2. CASE UNCHANGED <<phase, exit>>
      BY <3>2, <1>14 DEF TryPort, TypeOK, Phases
    <3> QED
      BY <3>1, <3>2, <1>14 DEF TryPort
  <2>2. cand' \in Int /\ answer' \in Int
    BY <1>14 DEF TryPort, TypeOK
  <2>4. denied' \subseteq Int
    <3>1. denied \subseteq Int /\ cand \in Int
      BY DEF TypeOK
    <3>2. denied' = denied \/ denied' = denied \cup {cand}
      BY <1>14 DEF TryPort
    <3> QED
      BY <3>1, <3>2
  <2>3. UNCHANGED <<tty, handled, worst, report, inUse, host, signaled, vacant>>
    BY <1>14 DEF TryPort
  <2> QED
    BY <2>1, <2>2, <2>3, <2>4 DEF TypeOK, Phases
<1>15. CASE Interrupt
  BY <1>15, <1>a, Codes DEF Interrupt, TypeOK, Phases
<1>16. ASSUME NEW o \in Owners, Exits(o) PROVE TypeOK'
  BY <1>16 DEF Exits, TypeOK
<1>17. ASSUME NEW o \in Owners, NEW s \in Sockets, Binds(o, s) PROVE TypeOK'
  <2>1. vacant' \subseteq vacant
    BY <1>17 DEF Binds
  <2>2. /\ holder' \in [Sockets -> Owners \cup {Nobody}] /\ churn' \in Nat
        /\ UNCHANGED <<phase, tty, handled, worst, exit, report, search, alive, signaled>>
    BY <1>17 DEF Binds, TypeOK
  <2> QED
    BY <2>1, <2>2 DEF TypeOK
<1>18. CASE UNCHANGED vars
  BY <1>18 DEF vars, TypeOK
<1> QED
  BY <1>1, <1>2, <1>3, <1>4, <1>5, <1>6, <1>7, <1>8, <1>9, <1>10, <1>11, <1>12, <1>13,
     <1>14, <1>15, <1>16, <1>17, <1>18 DEF Next

\* The variables keep their types, for any command lines and hosts.
THEOREM TypeCorrect == Spec => []TypeOK
<1> QED
  BY TypeInit, TypeStep, PTL DEF Spec

-----------------------------------------------------------------------------
(* Consent.                                                                *)

\* A run that watches never comes to the ports one by one, and once it does,
\* its options stay.
NotWatching == phase = "looking" => "watch" \notin opts.on

\* The options of which the parser, or nobody yet, filled in the ports.
Shaped == opts = [on |-> opts.on, value |-> opts.value, ports |-> opts.ports]

\* Only a prompt, or a run that acts and has an answer, has signalled anybody.
Untouched == phase \in {"start", "resolving", "listing", "scanning", "watching", "searching"}
             => signaled = {} /\ handled = <<>> /\ report = Nobody

Unprompted == phase = "looking" => report = Nobody

ConsentInv == TypeOK /\ NotWatching /\ Shaped /\ Untouched /\ Unprompted
              /\ (phase = "prompt" => tty)
              /\ NoSilentKill

\* The strengthened invariant holds at the start,
LEMMA ConsentInit == Init => ConsentInv
<1> SUFFICES ASSUME Init PROVE ConsentInv
  OBVIOUS
<1>1. Shaped
  BY DEF Init, Shaped, NoOptions
<1>2. phase = "start" /\ signaled = {} /\ handled = <<>> /\ report = Nobody
  BY DEF Init
<1> QED
  BY <1>1, <1>2, TypeInit DEF ConsentInv, NotWatching, Untouched, Unprompted, NoSilentKill

\* and every action keeps it.
LEMMA ConsentStep == ConsentInv /\ [Next]_vars => ConsentInv'
<1> SUFFICES ASSUME ConsentInv, [Next]_vars PROVE ConsentInv'
  OBVIOUS
<1>0. TypeOK /\ TypeOK'
  BY TypeStep DEF ConsentInv
<1> USE <1>0 DEF ConsentInv, NotWatching, Shaped, Untouched, Unprompted, NoSilentKill, Leave
<1>1. CASE ShowHelp
  BY <1>1 DEF ShowHelp
<1>2. CASE Refuse
  BY <1>2 DEF Refuse
<1>3. CASE Start
  <2> DEFINE o == parseArgs(expandGroups(CoreArgs(args)))
  <2>1. opts' = o /\ Shaped'
    BY <1>3 DEF Start, parseArgs
  <2>2. UNCHANGED <<handled, signaled, report>> /\ handled = <<>> /\ signaled = {} /\ report = Nobody
    BY <1>3 DEF Start
  <2>3. \/ phase' = "done"
        \/ phase' = "resolving"
        \/ phase' = NextPhase(opts')
    BY <1>3 DEF Start
  <2> HIDE DEF o
  <2> QED
    BY <2>1, <2>2, <2>3, NextPhaseType
<1>4. CASE StartOther
  BY <1>4 DEF StartOther
<1>5. CASE StartNext
  BY <1>5 DEF StartNext
<1>6. CASE Resolve
  <2>1. UNCHANGED <<handled, signaled, report, tty>> /\ handled = <<>> /\ signaled = {} /\ report = Nobody
    BY <1>6 DEF Resolve
  <2>2. \/ phase' = "done" /\ opts' = opts
        \/ phase' = NextPhase(opts') /\ opts' = [opts EXCEPT !.ports = PortsOf(Meant(opts))]
    BY <1>6 DEF Resolve
  <2>3. Shaped'
    BY <2>2
  <2> QED
    BY <2>1, <2>2, <2>3, NextPhaseType
<1>7. CASE Finish
  BY <1>7 DEF Finish
<1>8. ASSUME phase = "looking", \E code \in ExitCodes : Handle(code),
             UNCHANGED <<opts, tty, report>>,
             \/ signaled' = signaled
             \/ opts.on \cap {"kill", "restart"} # {} /\ "json" \notin opts.on
                  /\ "dry-run" \notin opts.on /\ Answerable(opts.on)
      PROVE  ConsentInv'
  <2>1. phase' \in {"looking", "done"}
    BY <1>8, HandleType
  <2> QED
    BY <1>8, <2>1 DEF Answerable
<1>9. CASE Show
  BY <1>9, <1>8, Codes DEF Show
<1>10. CASE Describe \/ Spare
  BY <1>10, <1>8, Codes DEF Describe, Spare
<1>11. CASE Kill
  <2>1. \E code \in ExitCodes : Handle(code)
    BY <1>11, Codes DEF Kill
  <2> QED
    BY <1>11, <2>1, <1>8 DEF Kill, Acting, OnlyLooks
<1>12. CASE Enter
  <2>1. report' \in Owners /\ phase' = "prompt" /\ tty' /\ UNCHANGED <<opts, signaled>>
    BY <1>12 DEF Enter, TypeOK
  <2> QED
    BY <2>1
<1>13. CASE Quit
  BY <1>13 DEF Quit
<1>14. ASSUME NEW key \in {"k", "f", "r"}, PressKill(key) PROVE ConsentInv'
  BY <1>14 DEF PressKill, TypeOK
<1>15. CASE TryPort
  BY <1>15 DEF TryPort
<1>16. CASE Interrupt
  BY <1>16 DEF Interrupt
<1>17. ASSUME NEW o \in Owners, Exits(o) PROVE ConsentInv'
  BY <1>17 DEF Exits
<1>18. ASSUME NEW o \in Owners, NEW s \in Sockets, Binds(o, s) PROVE ConsentInv'
  BY <1>18 DEF Binds
<1>19. CASE UNCHANGED vars
  BY <1>19 DEF vars
<1> QED
  BY <1>1, <1>2, <1>3, <1>4, <1>5, <1>6, <1>7, <1>9, <1>10, <1>11, <1>12, <1>13,
     <1>14, <1>15, <1>16, <1>17, <1>18, <1>19 DEF Next

\* No run signals a process it was not asked to, or could not ask about.
THEOREM Consent == Spec => []NoSilentKill
<1>1. ConsentInv => NoSilentKill
  BY DEF ConsentInv
<1> QED
  BY <1>1, ConsentInit, ConsentStep, PTL DEF Spec

-----------------------------------------------------------------------------
(* The exit code.                                                          *)

\* No more is to be had of a kill: the process is gone, or it is another user's
\* and the kill was forced.
Cleared(o) == o \in alive => Passes(o)

HonestInv ==
    /\ ConsentInv
    /\ \A i \in 1..Len(handled) : handled[i].code <= worst
    /\ Kills => \A i \in 1..Len(handled) : handled[i].code = Success => Cleared(handled[i].owner)
    /\ phase = "done" /\ handled # <<>> /\ report = Nobody
         => exit = worst /\ Len(handled) = Len(opts.ports)

\* No port has been handled at the start,
LEMMA HonestInit == Init => HonestInv
<1> SUFFICES ASSUME Init PROVE HonestInv
  OBVIOUS
<1>1. handled = <<>> /\ Len(handled) = 0 /\ phase = "start"
  BY DEF Init
<1> QED
  BY <1>1, ConsentInit DEF HonestInv

\* and every port that is handled joins the account.
LEMMA HonestStep == HonestInv /\ [Next]_vars => HonestInv'
<1> SUFFICES ASSUME HonestInv, [Next]_vars PROVE HonestInv'
  OBVIOUS
<1>0. TypeOK /\ ConsentInv /\ ConsentInv'
  BY ConsentStep DEF HonestInv, ConsentInv
<1>a. ASSUME handled = <<>>, handled' = <<>> PROVE HonestInv'
  BY <1>0, <1>a DEF HonestInv
<1>b. ASSUME UNCHANGED <<handled, worst, opts>>, alive' \subseteq alive,
             \/ UNCHANGED <<phase, exit, report>>
             \/ phase' # "done"
             \/ report' # Nobody
      PROVE  HonestInv'
  BY <1>0, <1>b DEF HonestInv, Kills, Cleared, Passes
<1>c. ASSUME phase = "looking", NEW code \in ExitCodes, Handle(code),
             UNCHANGED <<opts, report>>, alive' \subseteq alive,
             Kills /\ code = Success => (Owner \in alive' => Passes(Owner))
      PROVE  HonestInv'
  <2>0. handled \in Outcomes /\ worst \in ExitCodes /\ worst \in Int
    BY <1>0, Codes DEF TypeOK, Outcomes
  <2>1. /\ Len(handled') = Len(handled) + 1 /\ Len(handled) \in Nat
        /\ handled'[Len(handled')] = [owner |-> Owner, code |-> code]
        /\ \A i \in 1..Len(handled) : handled'[i] = handled[i]
        /\ handled \in Outcomes /\ worst \in Int /\ worst' \in Int
        /\ worst' >= worst /\ worst' >= code
        /\ \/ phase' = "looking"
           \/ exit' = worst' /\ Len(handled') = Len(opts.ports)
    <3> HIDE DEF Owner
    <3>1. /\ worst' \in ExitCodes /\ worst' >= worst /\ worst' >= code
          /\ \/ phase' = "looking"
             \/ exit' = worst' /\ Len(handled') = Len(opts.ports)
      BY <1>0, <1>c, HandleType
    <3>2. /\ Len(handled') = Len(handled) + 1
          /\ handled'[Len(handled')] = [owner |-> Owner, code |-> code]
          /\ \A i \in 1..Len(handled) : handled'[i] = handled[i]
      BY <1>0, <1>c, HandleType
    <3>3. Len(handled) \in Nat
      BY <2>0, ElementOfSeq DEF Outcomes
    <3>4. worst' \in Int
      BY <3>1, Codes
    <3> QED
      BY <2>0, <3>1, <3>2, <3>3, <3>4
  <2>2. ASSUME NEW i \in 1..Len(handled') PROVE i = Len(handled') \/ i \in 1..Len(handled)
    BY <2>1
  <2>3. ASSUME NEW i \in 1..Len(handled)
        PROVE  /\ handled[i].code <= worst'
               /\ Kills' /\ handled[i].code = Success
                    => (handled[i].owner \in alive' => Passes(handled[i].owner))
    <3>0. handled[i] \in [owner : Owners \cup {Nobody}, code : ExitCodes]
      BY <2>0, ElementOfSeq DEF Outcomes
    <3>1. handled[i].code \in Int /\ handled[i].code <= worst
      BY <3>0, Codes DEF HonestInv
    <3>2. Kills /\ handled[i].code = Success => Cleared(handled[i].owner)
      BY DEF HonestInv
    <3> QED
      BY <3>1, <3>2, <2>1, <1>c DEF Kills, Cleared
  <2>4. \A i \in 1..Len(handled') : handled'[i].code <= worst'
    BY <2>1, <2>2, <2>3
  <2>5. Kills' => Kills
    BY <1>c DEF Kills
  <2>6. ASSUME Kills', NEW i \in 1..Len(handled'), handled'[i].code = Success
        PROVE  handled'[i].owner \in alive' => Passes(handled'[i].owner)
    <3> HIDE DEF Owner
    <3> QED
      BY <2>1, <2>2, <2>3, <2>5, <2>6, <1>c
  <2>7. phase' = "done" => exit' = worst' /\ Len(handled') = Len(opts'.ports)
    BY <2>1, <1>c
  <2> QED
    BY <1>0, <1>c, <2>4, <2>6, <2>7 DEF HonestInv, Cleared, Passes
<1>1. CASE ShowHelp \/ Refuse \/ Start \/ StartOther \/ StartNext
  BY <1>0, <1>1, <1>a DEF ShowHelp, Refuse, Start, StartOther, StartNext, ConsentInv, Untouched
<1>2. CASE Resolve \/ Finish \/ TryPort \/ Interrupt
  BY <1>0, <1>2, <1>a DEF Resolve, Finish, TryPort, Interrupt, ConsentInv, Untouched
<1>3. CASE Show
  <2>1. PICK code \in ExitCodes :
          Handle(code) /\ (code = Success => "json" \in opts.on \/ ~Acting)
    BY <1>3, Codes DEF Show, Acting, requiresPortTarget, ViewsAndActions,
       PortNotFound, Success, GeneralError, PermissionDenied
  <2>2. Kills => Acting /\ "json" \notin opts.on
    BY DEF Kills, Acting
  <2> QED
    BY <1>3, <2>1, <2>2, <1>c DEF Show, host
<1>4. CASE Describe \/ Spare
  <2>1. PICK code \in ExitCodes : Handle(code) /\ (code = Success => OnlyLooks)
    BY <1>4, Codes DEF Describe, Spare, GeneralError, ProcessActionFailed, Success
  <2>2. Kills => ~OnlyLooks
    BY DEF Kills, OnlyLooks
  <2> QED
    BY <1>4, <2>1, <2>2, <1>c DEF Describe, Spare, host
<1>5. CASE Kill
  <2>1. PICK code \in ExitCodes : Handle(code) /\ (code = Success => Stops(Owner) \/ Passes(Owner))
                                 /\ (Stops(Owner) \/ UNCHANGED host)
    BY <1>5, Codes DEF Kill, GeneralError, PermissionDenied, ProcessActionFailed, Success
  <2>2. alive' \subseteq alive /\ (code = Success => (Owner \in alive' => Passes(Owner)))
    <3> HIDE DEF Owner
    <3> QED
      BY <2>1 DEF Stops, host
  <2> QED
    BY <1>5, <2>1, <2>2, <1>c DEF Kill
<1>6. CASE Enter
  BY <1>6, <1>b DEF Enter, host
<1>7. CASE Quit
  <2>1. report' # Nobody
    BY <1>0, <1>7, InvocationConstants DEF Quit, TypeOK
  <2> QED
    BY <1>7, <2>1, <1>b DEF Quit, host
<1>8. ASSUME NEW key \in {"k", "f", "r"}, PressKill(key) PROVE HonestInv'
  <2>1. report' # Nobody
    BY <1>0, <1>8, InvocationConstants DEF PressKill, TypeOK
  <2>2. alive' \subseteq alive
    BY <1>8 DEF PressKill, Stops, host
  <2> QED
    BY <1>8, <2>1, <2>2, <1>b DEF PressKill
<1>9. ASSUME NEW o \in Owners, Exits(o) PROVE HonestInv'
  BY <1>9, <1>b DEF Exits
<1>10. ASSUME NEW o \in Owners, NEW s \in Sockets, Binds(o, s) PROVE HonestInv'
  BY <1>10, <1>b DEF Binds
<1>11. CASE UNCHANGED vars
  BY <1>11, <1>b DEF vars, host
<1> QED
  BY <1>1, <1>2, <1>3, <1>4, <1>5, <1>6, <1>7, <1>8, <1>9, <1>10, <1>11 DEF Next

\* The exit code is the gravest of all the ports, and a kill that succeeds has
\* left none of the processes it was about, but those of other users that it was
\* forced on.
THEOREM Honesty == Spec => []ExitHonest
<1>1. HonestInv => ExitHonest
  <2> SUFFICES ASSUME HonestInv, phase = "done", handled # <<>>, report = Nobody
               PROVE  ExitHonest
    BY DEF ExitHonest
  <2>1. ToSet(handled) = {handled[i] : i \in 1..Len(handled)} /\ handled \in Outcomes
    BY DEF ToSet, HonestInv, ConsentInv, TypeOK, Outcomes
  <2>2. exit = worst /\ Len(handled) = Len(opts.ports)
    BY DEF HonestInv
  <2>3. ASSUME NEW i \in 1..Len(handled)
        PROVE  /\ handled[i].code <= exit /\ handled[i].code \in ExitCodes
               /\ Kills /\ exit = Success => (handled[i].owner \in alive => Passes(handled[i].owner))
    <3>0. handled[i] \in [owner : Owners \cup {Nobody}, code : ExitCodes]
      BY <2>1, ElementOfSeq DEF Outcomes
    <3>1. handled[i].code <= worst /\ handled[i].code \in ExitCodes
      BY <3>0 DEF HonestInv
    <3>2. exit = Success => handled[i].code = Success
      BY <2>2, <3>1 DEF Success, ExitCodes
    <3> QED
      BY <2>2, <3>1, <3>2 DEF HonestInv, Cleared
  <2> QED
    BY <2>1, <2>2, <2>3 DEF ExitHonest
<1> QED
  BY <1>1, HonestInit, HonestStep, PTL DEF Spec

-----------------------------------------------------------------------------
(* The search for a free port.                                             *)

Begin == NextStart(extractSubcommand(args).pre \o extractSubcommand(args).rest)

LowestInv ==
    /\ TypeOK
    /\ phase = "start" => answer = NoPort
    /\ phase = "searching" =>
         /\ answer = NoPort
         /\ inUse \cap vacant = {}
         /\ \A p \in vacant : ~Held(p)
         /\ \A p \in Begin .. cand - 1 : p \in vacant => p \in denied
    /\ answer # NoPort => phase = "done"
    /\ LowestFree

\* No search has begun at the start,
LEMMA LowestInit == Init => LowestInv
  BY TypeInit DEF Init, LowestInv, LowestFree

\* and what the search passes over was held when it was tried, or refused.
LEMMA LowestStep == LowestInv /\ [Next]_vars => LowestInv'
<1> SUFFICES ASSUME LowestInv, [Next]_vars PROVE LowestInv'
  OBVIOUS
<1>0. TypeOK /\ TypeOK'
  BY TypeStep DEF LowestInv
<1>1. args' = args /\ Begin' = Begin /\ Protocol' = Protocol
  BY DEF Next, ShowHelp, Refuse, Start, StartOther, StartNext, Resolve, Finish, Show, Describe, Kill,
         Spare, Enter, Quit, PressKill, TryPort, Interrupt, Exits, Binds, vars, Begin, Protocol
<1> HIDE DEF Begin, Protocol
<1>a. ASSUME UNCHANGED <<answer, denied, vacant>>, phase # "done", phase # "searching",
             phase' # "searching", phase' # "start" \/ phase = "start"
      PROVE  LowestInv'
  BY <1>0, <1>1, <1>a DEF LowestInv, LowestFree, Begin
<1>2. CASE StartNext
  <2>1. /\ cand' = Begin /\ Begin \in Int /\ answer' = NoPort /\ phase' = "searching"
    BY <1>0, <1>1, <1>2 DEF StartNext, Begin, LowestInv, TypeOK
  <2>2. \A p \in vacant' : ~Held(p)'
    BY <1>1, <1>2 DEF StartNext, Held, Protocol
  <2>3. inUse' \cap vacant' = {}
    BY <1>2 DEF StartNext
  <2> QED
    BY <1>0, <1>1, <2>1, <2>2, <2>3 DEF LowestInv, LowestFree
<1>3. CASE TryPort
  <2> USE <1>3 DEF TryPort
  <2>1. phase = "searching" /\ cand \in Int /\ cand' \in Int
    BY <1>0 DEF TypeOK
  <2>0. ASSUME UNCHANGED <<phase, answer>>, \A p \in Begin .. cand' - 1 : p \in vacant => p \in denied'
        PROVE  LowestInv'
    <3>1. \A p : Held(p)' = Held(p)
      BY <1>1 DEF Held, host
    <3> QED
      BY <1>0, <1>1, <2>0, <2>1, <3>1 DEF LowestInv, LowestFree
  <2>2. CASE cand <= MaxPort /\ (cand \in inUse \/ Held(cand))
             /\ cand' = cand + 1 /\ UNCHANGED <<phase, exit, answer, denied>>
    <3>1. cand \notin vacant
      BY <2>1, <2>2 DEF LowestInv
    <3>2. \A p \in Begin .. cand' - 1 : p \in vacant => p \in denied'
      BY <2>1, <2>2, <3>1 DEF LowestInv
    <3> QED
      BY <2>0, <2>1, <2>2, <3>2
  <2>5. CASE denied' = denied \cup {cand} /\ cand' = cand + 1 /\ UNCHANGED <<phase, exit, answer>>
    <3>1. \A p \in Begin .. cand' - 1 : p \in vacant => p \in denied'
      BY <2>1, <2>5 DEF LowestInv
    <3> QED
      BY <2>0, <2>1, <2>5, <3>1
  <2>3. CASE answer' = cand /\ Leave(Success) /\ UNCHANGED <<cand, denied>>
    BY <1>0, <1>1, <2>1, <2>3 DEF LowestInv, LowestFree, Leave, Begin
  <2>4. CASE Leave(PortNotFound) /\ UNCHANGED <<cand, answer, denied>>
    BY <1>0, <1>1, <2>1, <2>4 DEF LowestInv, LowestFree, Leave
  <2> QED
    BY <2>2, <2>3, <2>4, <2>5
<1>4. CASE Interrupt
  BY <1>0, <1>1, <1>4 DEF Interrupt, LowestInv, LowestFree, Leave, search
<1>5. ASSUME NEW o \in Owners, Exits(o) PROVE LowestInv'
  <2>1. \A p : Held(p)' => Held(p)
    BY <1>0, <1>1, <1>5 DEF Exits, Held, TypeOK
  <2> QED
    BY <1>0, <1>1, <1>5, <2>1 DEF Exits, LowestInv, LowestFree, search, Begin
<1>6. ASSUME NEW o \in Owners, NEW s \in Sockets, Binds(o, s) PROVE LowestInv'
  <2>1. \A p \in vacant' : p \in vacant /\ (Held(p)' => Held(p))
    BY <1>0, <1>1, <1>6 DEF Binds, Held, TypeOK
  <2> QED
    BY <1>0, <1>1, <1>6, <2>1 DEF Binds, LowestInv, LowestFree, search, Begin
<1>7. CASE UNCHANGED vars
  <2>1. \A p : Held(p)' = Held(p)
    BY <1>1, <1>7 DEF vars, host, Held
  <2> QED
    BY <1>0, <1>1, <1>7, <2>1 DEF vars, host, search, LowestInv, LowestFree, Begin
<1>8. CASE \/ ShowHelp \/ Refuse \/ Start \/ StartOther \/ Resolve \/ Finish
           \/ Show \/ Describe \/ Kill \/ Spare \/ Enter \/ Quit
           \/ \E key \in {"k", "f", "r"} : PressKill(key)
  <2>1. UNCHANGED <<answer, denied, vacant>> /\ phase # "done" /\ phase # "searching"
    BY <1>8 DEF ShowHelp, Refuse, Start, StartOther, Resolve, Finish, Show, Describe, Kill,
                Spare, Enter, Quit, PressKill, search
  <2>2. ASSUME phase = "looking", NEW code, Handle(code) PROVE phase' \in {"looking", "done"}
    BY <2>2 DEF Handle, Leave
  <2>3. phase' # "searching" /\ phase' # "start"
    BY <1>8, <2>2, NextPhaseType
       DEF ShowHelp, Refuse, Start, StartOther, Resolve, Finish, Show, Describe, Kill,
           Spare, Enter, Quit, PressKill, Leave
  <2> QED
    BY <2>1, <2>3, <1>a
<1> QED
  BY <1>2, <1>3, <1>4, <1>5, <1>6, <1>7, <1>8 DEF Next

\* The port that next prints is the lowest one that was free all the while and
\* whose bind was not refused.
THEOREM Lowest == Spec => []LowestFree
<1>1. LowestInv => LowestFree
  BY DEF LowestInv
<1> QED
  BY <1>1, LowestInit, LowestStep, PTL DEF Spec

-----------------------------------------------------------------------------
(* The arguments: which of them are values, and what a pass keeps.  What a *)
(* loop computes from left to right is reasoned about by FromZeroUp.       *)

\* What holds of 0 and passes from each number to the next holds of all.
LEMMA FromZeroUp ==
    ASSUME NEW S, 0 \in S, \A n \in Nat : n \in S => n + 1 \in S
    PROVE  \A n \in Nat : n \in S
<1> SUFFICES ASSUME NEW k \in Nat, k \notin S PROVE FALSE
  OBVIOUS
<1> DEFINE T == Nat \ S
<1>1. T \subseteq Nat /\ T # {}
  OBVIOUS
<1>2. PICK n \in T : \A m \in T : ~(<<m, n>> \in OpToRel(<, Nat))
  BY <1>1, NatLessThanWellFounded, WFMin
<1>3. n \in Nat /\ n # 0 /\ n - 1 \in Nat /\ n - 1 < n
  OBVIOUS
<1>4. n - 1 \notin T
  BY <1>2, <1>3 DEF OpToRel
<1> QED
  BY <1>3, <1>4

\* Own is well defined, whatever the arguments that pull the next one along.
LEMMA OwnExists ==
    ASSUME NEW n \in Nat, NEW pull
    PROVE  \E f : f = [i \in 1..n |-> i = 1 \/ ~f[i - 1] \/ i - 1 \notin pull]
<1> DEFINE Body(f, k) == [i \in 1..k |-> i = 1 \/ ~f[i - 1] \/ i - 1 \notin pull]
           Built(k) == \E f : f = Body(f, k)
           Good == {m \in Nat : Built(m)}
<1> HIDE DEF Built
<1>1. 0 \in Good
  <2> DEFINE f == [i \in 1..0 |-> TRUE]
  <2>1. f = Body(f, 0)
    OBVIOUS
  <2>2. Built(0)
    BY <2>1 DEF Built
  <2> QED
    BY <2>2
<1>2. ASSUME NEW m \in Nat, m \in Good PROVE m + 1 \in Good
  <2>1. PICK f : f = Body(f, m)
    BY <1>2 DEF Built
  <2> DEFINE last == m + 1 = 1 \/ ~f[m] \/ m \notin pull
             g == [i \in 1..(m + 1) |-> IF i = m + 1 THEN last ELSE f[i]]
  <2>2. ASSUME NEW i \in 1..(m + 1)
        PROVE  g[i] = (i = 1 \/ ~g[i - 1] \/ i - 1 \notin pull)
    <3>1. CASE i = m + 1
      <4>1. g[i] = last /\ i - 1 = m
        BY <3>1
      <4>2. CASE i = 1
        BY <4>1, <4>2, <3>1
      <4>3. CASE i # 1
        <5>1. m \in 1..(m + 1) /\ m # m + 1
          BY <3>1, <4>3
        <5>2. g[m] = f[m]
          BY <5>1
        <5> HIDE DEF g
        <5> QED
          BY <4>1, <5>2, <3>1
      <4> QED
        BY <4>2, <4>3
    <3>2. CASE i # m + 1
      <4>1. i \in 1..m /\ g[i] = f[i]
        BY <3>2
      <4>2. f[i] = (i = 1 \/ ~f[i - 1] \/ i - 1 \notin pull)
        BY <2>1, <4>1
      <4>3. CASE i = 1
        BY <4>1, <4>2, <4>3
      <4>4. CASE i # 1
        <5>1. i - 1 \in 1..(m + 1) /\ i - 1 # m + 1
          BY <4>1, <4>4
        <5>2. g[i - 1] = f[i - 1]
          BY <5>1
        <5> HIDE DEF g
        <5> QED
          BY <4>1, <4>2, <5>2
      <4> QED
        BY <4>3, <4>4
    <3> QED
      BY <3>1, <3>2
  <2>3. g = Body(g, m + 1)
    BY <2>2
  <2>4. Built(m + 1)
    BY <2>3 DEF Built
  <2> QED
    BY <2>4
<1> HIDE DEF Good, Body
<1>3. n \in Good
  BY <1>1, <1>2, FromZeroUp
<1> QED
  BY <1>3 DEF Good, Built, Body

\* The positions of the values of flags, as the passes tell them that know the
\* dashes, and as expandGroups does, which does not look at them.
Values(s) == {i \in DOMAIN s : ~Own(s, PullsValue)[i]}
Pulled(s) == {i \in DOMAIN s : ~Own(s, NamesValue)[i]}

Line == Seq(Argument)

\* An argument is a value just if the one before it is none and pulls it along.
LEMMA ValuesAre ==
    ASSUME NEW s \in Line
    PROVE  /\ DOMAIN s = 1..Len(s) /\ Len(s) \in Nat
           /\ Values(s) \subseteq 1..Len(s)
           /\ \A i \in 1..Len(s) : Own(s, PullsValue)[i] <=> i \notin Values(s)
           /\ \A i \in 1..Len(s) : i \in Values(s) <=>
                 i # 1 /\ i - 1 \notin Values(s) /\ PullsValue(s[i - 1])
<1> DEFINE pulling == {i \in 1..Len(s) : PullsValue(s[i])}
<1>1. Len(s) \in Nat /\ DOMAIN s = 1..Len(s)
  BY DEF Line
<1>2. PICK f : f = [i \in 1..Len(s) |-> i = 1 \/ ~f[i - 1] \/ i - 1 \notin pulling]
  BY <1>1, OwnExists
<1>3. ASSUME NEW i \in 1..Len(s), i # 1 PROVE i - 1 \in pulling <=> PullsValue(s[i - 1])
  BY <1>1, <1>3
<1>4. f = [i \in DOMAIN s |-> i = 1 \/ ~f[i - 1] \/ ~PullsValue(s[i - 1])]
  BY <1>1, <1>2, <1>3
<1>5. \E g : /\ Own(s, PullsValue) = g
             /\ g = [i \in DOMAIN s |-> i = 1 \/ ~g[i - 1] \/ ~PullsValue(s[i - 1])]
  BY <1>4, Zenon DEF Own
<1>6. PICK own : /\ Own(s, PullsValue) = own
                /\ own = [i \in DOMAIN s |-> i = 1 \/ ~own[i - 1] \/ ~PullsValue(s[i - 1])]
  BY <1>5
<1>7. ASSUME NEW i \in 1..Len(s) PROVE own[i] = (i = 1 \/ ~own[i - 1] \/ ~PullsValue(s[i - 1]))
  BY <1>1, <1>6
<1>8. Values(s) = {i \in 1..Len(s) : ~own[i]}
  BY <1>1, <1>6 DEF Values
<1>9. ASSUME NEW i \in 1..Len(s)
      PROVE  i \in Values(s) <=> i # 1 /\ i - 1 \notin Values(s) /\ PullsValue(s[i - 1])
  <2>1. CASE i = 1
    BY <1>7, <1>8, <2>1
  <2>2. CASE i # 1
    <3>1. i - 1 \in 1..Len(s)
      BY <1>1, <2>2
    <3>2. (i - 1 \notin Values(s)) <=> own[i - 1]
      BY <1>8, <3>1
    <3>3. (i \in Values(s)) <=> ~own[i]
      BY <1>8
    <3> QED
      BY <1>7, <2>2, <3>2, <3>3
  <2> QED
    BY <2>1, <2>2
<1> QED
  BY <1>1, <1>6, <1>8, <1>9

\* The same for expandGroups.
LEMMA PulledAre ==
    ASSUME NEW s \in Line
    PROVE  /\ Pulled(s) \subseteq 1..Len(s)
           /\ \A i \in 1..Len(s) : Own(s, NamesValue)[i] <=> i \notin Pulled(s)
           /\ \A i \in 1..Len(s) : i \in Pulled(s) <=>
                 i # 1 /\ i - 1 \notin Pulled(s) /\ NamesValue(s[i - 1])
<1> DEFINE pulling == {i \in 1..Len(s) : NamesValue(s[i])}
<1>1. Len(s) \in Nat /\ DOMAIN s = 1..Len(s)
  BY DEF Line
<1>2. PICK f : f = [i \in 1..Len(s) |-> i = 1 \/ ~f[i - 1] \/ i - 1 \notin pulling]
  BY <1>1, OwnExists
<1>3. ASSUME NEW i \in 1..Len(s), i # 1 PROVE i - 1 \in pulling <=> NamesValue(s[i - 1])
  BY <1>1, <1>3
<1>4. f = [i \in DOMAIN s |-> i = 1 \/ ~f[i - 1] \/ ~NamesValue(s[i - 1])]
  BY <1>1, <1>2, <1>3
<1>5. \E g : /\ Own(s, NamesValue) = g
             /\ g = [i \in DOMAIN s |-> i = 1 \/ ~g[i - 1] \/ ~NamesValue(s[i - 1])]
  BY <1>4, Zenon DEF Own
<1>6. PICK own : /\ Own(s, NamesValue) = own
                /\ own = [i \in DOMAIN s |-> i = 1 \/ ~own[i - 1] \/ ~NamesValue(s[i - 1])]
  BY <1>5
<1>7. ASSUME NEW i \in 1..Len(s) PROVE own[i] = (i = 1 \/ ~own[i - 1] \/ ~NamesValue(s[i - 1]))
  BY <1>1, <1>6
<1>8. Pulled(s) = {i \in 1..Len(s) : ~own[i]}
  BY <1>1, <1>6 DEF Pulled
<1>9. ASSUME NEW i \in 1..Len(s)
      PROVE  i \in Pulled(s) <=> i # 1 /\ i - 1 \notin Pulled(s) /\ NamesValue(s[i - 1])
  <2>1. CASE i = 1
    BY <1>7, <1>8, <2>1
  <2>2. CASE i # 1
    <3>1. i - 1 \in 1..Len(s)
      BY <1>1, <2>2
    <3>2. (i - 1 \notin Pulled(s)) <=> own[i - 1]
      BY <1>8, <3>1
    <3>3. (i \in Pulled(s)) <=> ~own[i]
      BY <1>8
    <3> QED
      BY <1>7, <2>2, <3>2, <3>3
  <2> QED
    BY <2>1, <2>2
<1> QED
  BY <1>1, <1>6, <1>8, <1>9

\* Where two lines agree for a while, and agree on whether the first argument
\* of that part is a value, they agree on which ones of it are.
LEMMA Aligned ==
    ASSUME NEW s \in Line, NEW t \in Line, NEW d \in Nat, NEW e \in Nat, NEW n \in Nat,
           d + n <= Len(s), e + n <= Len(t),
           \A k \in 1..n : t[e + k] = s[d + k],
           n >= 1 => (e + 1 \in Values(t) <=> d + 1 \in Values(s))
    PROVE  \A k \in 1..n : e + k \in Values(t) <=> d + k \in Values(s)
<1> DEFINE Good == {m \in Nat : m + 1 <= n => (e + (m + 1) \in Values(t) <=> d + (m + 1) \in Values(s))}
<1>1. 0 \in Good
  OBVIOUS
<1>2. ASSUME NEW m \in Nat, m \in Good PROVE m + 1 \in Good
  <2> SUFFICES ASSUME m + 2 <= n
               PROVE  e + (m + 2) \in Values(t) <=> d + (m + 2) \in Values(s)
    OBVIOUS
  <2>1. Len(s) \in Nat /\ Len(t) \in Nat
    BY ValuesAre
  <2>2. /\ e + (m + 2) \in 1..Len(t) /\ e + (m + 2) # 1 /\ (e + (m + 2)) - 1 = e + (m + 1)
        /\ d + (m + 2) \in 1..Len(s) /\ d + (m + 2) # 1 /\ (d + (m + 2)) - 1 = d + (m + 1)
        /\ m + 1 \in 1..n /\ m + 1 <= n
    BY <2>1
  <2>a. \A i \in 1..Len(t) : i \in Values(t) <=>
                 i # 1 /\ i - 1 \notin Values(t) /\ PullsValue(t[i - 1])
    BY ValuesAre
  <2>b. \A i \in 1..Len(s) : i \in Values(s) <=>
                 i # 1 /\ i - 1 \notin Values(s) /\ PullsValue(s[i - 1])
    BY ValuesAre
  <2>3. e + (m + 2) \in Values(t) <=> e + (m + 1) \notin Values(t) /\ PullsValue(t[e + (m + 1)])
    BY <2>2, <2>a
  <2>4. d + (m + 2) \in Values(s) <=> d + (m + 1) \notin Values(s) /\ PullsValue(s[d + (m + 1)])
    BY <2>2, <2>b
  <2>5. t[e + (m + 1)] = s[d + (m + 1)]
    BY <2>2
  <2>6. e + (m + 1) \in Values(t) <=> d + (m + 1) \in Values(s)
    BY <1>2, <2>2
  <2> QED
    BY <2>3, <2>4, <2>5, <2>6
<1>3. ASSUME NEW k \in 1..n PROVE e + k \in Values(t) <=> d + k \in Values(s)
  <2>1. k - 1 \in Nat /\ (k - 1) + 1 = k /\ k <= n
    OBVIOUS
  <2>2. k - 1 \in Good
    <3> HIDE DEF Good
    <3> QED
      BY <1>1, <1>2, <2>1, FromZeroUp
  <2> QED
    BY <2>1, <2>2
<1> QED
  BY <1>3

\* How many of these positions there are up to one of them.
Rank(S, i) == Cardinality({j \in S : j <= i})

\* Nth lists the positions in their order.
LEMMA NthOf ==
    ASSUME NEW S, NEW m \in Nat, S \subseteq 1..m
    PROVE  /\ IsFiniteSet(S) /\ Cardinality(S) \in Nat
           /\ \A k \in 1..Cardinality(S) : Nth(S, k) \in S /\ Rank(S, Nth(S, k)) = k
           /\ \A i \in S : Rank(S, i) \in 1..Cardinality(S) /\ Nth(S, Rank(S, i)) = i
           /\ \A i, j \in S : i < j <=> Rank(S, i) < Rank(S, j)
<1> DEFINE n == Cardinality(S)
           UpTo(i) == {j \in S : j <= i}
<1>1. IsFiniteSet(S) /\ n \in Nat
  <2>1. IsFiniteSet(1..m)
    BY FS_Interval
  <2>2. IsFiniteSet(S)
    BY <2>1, FS_Subset
  <2> QED
    BY <2>2, FS_CardinalityType
<1>2. \A i \in S : i \in Int
  OBVIOUS
<1>3. ASSUME NEW i \in S
      PROVE  IsFiniteSet(UpTo(i)) /\ Cardinality(UpTo(i)) \in 1..n
  <2>1. UpTo(i) \in SUBSET S
    OBVIOUS
  <2>2. IsFiniteSet(UpTo(i)) /\ Cardinality(UpTo(i)) <= n
    BY <1>1, <2>1, FS_Subset
  <2>3. i \in UpTo(i)
    BY <1>2
  <2>4. Cardinality(UpTo(i)) # 0
    BY <2>2, <2>3, FS_EmptySet
  <2>5. Cardinality(UpTo(i)) \in Nat
    BY <2>2, FS_CardinalityType
  <2> HIDE DEF UpTo
  <2> QED
    BY <1>1, <2>2, <2>4, <2>5
<1>4. ASSUME NEW i \in S, NEW j \in S, i < j
      PROVE  Cardinality(UpTo(i)) < Cardinality(UpTo(j))
  <2>1. UpTo(i) \in SUBSET UpTo(j)
    <3>1. ASSUME NEW x \in S, x <= i PROVE x <= j
      <4>1. x \in Int /\ i \in Int /\ j \in Int
        BY <1>2
      <4> QED
        BY <1>4, <3>1, <4>1
    <3> QED
      BY <3>1
  <2>2. j \in UpTo(j) /\ j \notin UpTo(i)
    BY <1>2, <1>4
  <2>3. IsFiniteSet(UpTo(j)) /\ Cardinality(UpTo(j)) \in 1..n /\ Cardinality(UpTo(i)) \in 1..n
    BY <1>3
  <2> HIDE DEF UpTo
  <2>4. /\ Cardinality(UpTo(i)) <= Cardinality(UpTo(j))
        /\ Cardinality(UpTo(j)) = Cardinality(UpTo(i)) => UpTo(j) = UpTo(i)
    BY <2>1, <2>3, FS_Subset
  <2>5. Cardinality(UpTo(j)) # Cardinality(UpTo(i))
    BY <2>2, <2>4
  <2> QED
    BY <1>1, <2>3, <2>4, <2>5
<1>5. \A i \in S : Rank(S, i) = Cardinality(UpTo(i))
  BY DEF Rank
<1> HIDE DEF UpTo
<1>6. \A i \in S : Rank(S, i) \in 1..n
  BY <1>3, <1>5
<1>7. \A i, j \in S : i < j => Rank(S, i) < Rank(S, j)
  BY <1>4, <1>5
<1>8. \A i, j \in S : i < j <=> Rank(S, i) < Rank(S, j)
  <2> SUFFICES ASSUME NEW i \in S, NEW j \in S, Rank(S, i) < Rank(S, j) PROVE i < j
    BY <1>7
  <2>1. i \in Int /\ j \in Int /\ Rank(S, i) \in Int /\ Rank(S, j) \in Int
    BY <1>1, <1>2, <1>6
  <2>2. i # j
    BY <2>1
  <2>3. ~(j < i)
    BY <1>7, <2>1
  <2> QED
    BY <2>1, <2>2, <2>3
<1>9. \A i, j \in S : Rank(S, i) = Rank(S, j) => i = j
  <2> SUFFICES ASSUME NEW i \in S, NEW j \in S, Rank(S, i) = Rank(S, j) PROVE i = j
    OBVIOUS
  <2>1. i \in Int /\ j \in Int /\ Rank(S, i) \in Int
    BY <1>1, <1>2, <1>6
  <2>2. ~(i < j) /\ ~(j < i)
    BY <1>7, <2>1
  <2> QED
    BY <2>1, <2>2
<1>10. ASSUME NEW k \in 1..n PROVE \E i \in S : Rank(S, i) = k
  <2> DEFINE f == [i \in S |-> Rank(S, i)]
  <2>1. f \in Injection(S, 1..n)
    BY <1>6, <1>9 DEF Injection, IsInjective
  <2>2. IsFiniteSet(1..n) /\ Cardinality(1..n) = n
    <3>1. IsFiniteSet(1..n) /\ Cardinality(1..n) = IF 1 > n THEN 0 ELSE n - 1 + 1
      BY <1>1, FS_Interval
    <3> QED
      BY <1>1, <3>1
  <2>3. f \in Surjection(S, 1..n)
    <3> HIDE DEF f
    <3> QED
      BY <2>1, <2>2, FS_Injection
  <2> QED
    BY <2>3 DEF Surjection
<1>11. \A k \in 1..n : Nth(S, k) \in S /\ Rank(S, Nth(S, k)) = k
  BY <1>10 DEF Nth, Rank
<1>12. \A i \in S : Nth(S, Rank(S, i)) = i
  BY <1>6, <1>9, <1>11
<1> QED
  BY <1>1, <1>6, <1>8, <1>11, <1>12

\* A selection that parts no flag from its value.
Together(s, P) == \A i \in 1..Len(s) : i \in Values(s) => (i \in P <=> i - 1 \in P)

\* At has the arguments at these positions and no others, in their order,
LEMMA AtHas ==
    ASSUME NEW s \in Line, NEW P, P \subseteq 1..Len(s), NEW t, t = At(s, P)
    PROVE  /\ t \in Line /\ Len(t) = Cardinality(P) /\ Cardinality(P) \in Nat
           /\ \A k \in 1..Cardinality(P) : Nth(P, k) \in P /\ t[k] = s[Nth(P, k)]
           /\ \A i \in P : /\ Rank(P, i) \in 1..Cardinality(P)
                           /\ Nth(P, Rank(P, i)) = i /\ t[Rank(P, i)] = s[i]
<1>1. Len(s) \in Nat
  BY ValuesAre
<1>2. /\ Cardinality(P) \in Nat
      /\ \A k \in 1..Cardinality(P) : Nth(P, k) \in P
      /\ \A i \in P : Rank(P, i) \in 1..Cardinality(P) /\ Nth(P, Rank(P, i)) = i
  BY <1>1, NthOf
<1>3. \A i \in P : s[i] \in Argument
  BY DEF Line
<1>4. t = [k \in 1..Cardinality(P) |-> s[Nth(P, k)]]
  BY DEF At
<1>5. \A k \in 1..Cardinality(P) : s[Nth(P, k)] \in Argument
  BY <1>2, <1>3
<1>6. t \in [1..Cardinality(P) -> Argument]
  BY <1>4, <1>5
<1>7. t \in Line /\ Len(t) = Cardinality(P)
  BY <1>2, <1>6 DEF Line
<1> QED
  BY <1>2, <1>4, <1>7

\* and where no flag is parted from its value, the values stay values.
LEMMA AtValues ==
    ASSUME NEW s \in Line, NEW P, P \subseteq 1..Len(s), Together(s, P)
    PROVE  \A k \in 1..Cardinality(P) : k \in Values(At(s, P)) <=> Nth(P, k) \in Values(s)
<1> DEFINE t == At(s, P)
           n == Cardinality(P)
           Same(k) == k \in Values(t) <=> Nth(P, k) \in Values(s)
           Good == {m \in Nat : m + 1 <= n => Same(m + 1)}
<1>1. Len(s) \in Nat /\ DOMAIN s = 1..Len(s)
  BY ValuesAre
<1>0. \A i \in P : i \in Int /\ i \in 1..Len(s)
  BY <1>1
<1>a. t \in Line /\ Len(t) = n /\ n \in Nat
  BY AtHas
<1>b. \A k \in 1..n : Nth(P, k) \in P /\ t[k] = s[Nth(P, k)]
  <2>1. \A k \in 1..n : Nth(P, k) \in P
    BY <1>1, NthOf
  <2> QED
    BY <2>1 DEF At
<1>c. \A i \in P : Rank(P, i) \in 1..n /\ Nth(P, Rank(P, i)) = i
  BY <1>1, NthOf
<1>2. /\ t \in Line /\ Len(t) = n /\ n \in Nat
      /\ \A k \in 1..n : Nth(P, k) \in P /\ t[k] = s[Nth(P, k)]
      /\ \A i \in P : Rank(P, i) \in 1..n /\ Nth(P, Rank(P, i)) = i
  BY <1>a, <1>b, <1>c
<1>3. /\ \A k \in 1..n : Rank(P, Nth(P, k)) = k
      /\ \A i, j \in P : i < j <=> Rank(P, i) < Rank(P, j)
  BY <1>1, NthOf
<1>4. /\ Values(t) \subseteq 1..n
      /\ \A i \in 1..n : i \in Values(t) <=> i # 1 /\ i - 1 \notin Values(t) /\ PullsValue(t[i - 1])
  BY <1>2, ValuesAre
<1>5. /\ Values(s) \subseteq 1..Len(s)
      /\ \A i \in 1..Len(s) : i \in Values(s) <=> i # 1 /\ i - 1 \notin Values(s) /\ PullsValue(s[i - 1])
  BY ValuesAre
<1> HIDE DEF t, n
\* What stands before a value is kept right before it.
<1>6. ASSUME NEW k \in 1..n, Nth(P, k) \in Values(s)
      PROVE  k # 1 /\ Nth(P, k - 1) = Nth(P, k) - 1
  <2> DEFINE i == Nth(P, k)
  <2>0. i \in P
    BY <1>2, <1>6
  <2>1. i \in P /\ i - 1 \in P /\ i - 1 < i /\ i \in Int
    <3>1. i \in Int /\ i \in 1..Len(s)
      BY <1>0, <2>0
    <3>2. i - 1 \in P
      BY <1>6, <2>0, <3>1 DEF Together
    <3> QED
      BY <2>0, <3>1, <3>2
  <2>2. Rank(P, i) = k /\ Rank(P, i - 1) < k /\ Rank(P, i - 1) \in 1..n
    BY <1>2, <1>3, <2>1
  <2> DEFINE j == Rank(P, i - 1)
  <2>3. ASSUME j < k - 1 PROVE FALSE
    <3>1. k - 1 \in 1..n
      BY <1>2, <2>2, <2>3
    <3>2. Nth(P, k - 1) \in P /\ Rank(P, Nth(P, k - 1)) = k - 1
      BY <1>2, <1>3, <3>1
    <3>3. Nth(P, k - 1) \in Int
      BY <3>2, <1>0
    <3>4. i - 1 < Nth(P, k - 1)
      BY <1>3, <2>1, <2>3, <3>2
    <3>5. Nth(P, k - 1) < i
      <4>1. k - 1 < k
        BY <3>1
      <4> QED
        BY <1>3, <2>1, <2>2, <3>2, <4>1
    <3> QED
      BY <2>1, <3>3, <3>4, <3>5
  <2>4. j = k - 1
    BY <1>2, <2>2, <2>3
  <2>5. Nth(P, j) = i - 1
    BY <1>2, <2>1
  <2> QED
    BY <2>2, <2>4, <2>5
<1>7. 0 \in Good
  <2> SUFFICES ASSUME 1 <= n PROVE Same(1)
    OBVIOUS
  <2>1. 1 \in 1..n
    BY <1>2
  <2> QED
    BY <1>4, <1>6, <2>1
<1>8. ASSUME NEW m \in Nat, m \in Good PROVE m + 1 \in Good
  <2> SUFFICES ASSUME m + 2 <= n PROVE Same(m + 2)
    OBVIOUS
  <2> DEFINE k == m + 2
             i == Nth(P, k - 1)
  <2>1. k \in 1..n /\ k - 1 \in 1..n /\ k # 1 /\ k - 1 = m + 1
    BY <1>2
  <2>2. k - 1 \in Values(t) <=> i \in Values(s)
    BY <1>8, <2>1
  <2>3. i \in P /\ i \in 1..Len(s) /\ i \in Int /\ t[k - 1] = s[i]
    <3>1. i \in P /\ t[k - 1] = s[i]
      BY <1>2, <2>1
    <3> QED
      BY <1>0, <3>1
  <2>4. k \in Values(t) <=> i \notin Values(s) /\ PullsValue(s[i])
    BY <1>4, <2>1, <2>2, <2>3
  <2>5. Nth(P, k) \in P /\ Nth(P, k) \in 1..Len(s) /\ i < Nth(P, k)
    <3>1. Nth(P, k) \in P /\ Rank(P, i) = k - 1 /\ Rank(P, Nth(P, k)) = k /\ k - 1 < k
      BY <1>2, <1>3, <2>1
    <3> QED
      BY <1>3, <2>3, <3>1
  <2> HIDE DEF i, k
  <2>6. i + 1 \in 1..Len(s) /\ (i + 1) - 1 = i /\ i + 1 # 1
    BY <1>1, <2>3, <2>5
  <2>7. i + 1 \in Values(s) <=> i \notin Values(s) /\ PullsValue(s[i])
    BY <1>5, <2>6
  <2>8. ASSUME i + 1 \in Values(s) PROVE Nth(P, k) = i + 1
    <3>1. i + 1 \in P
      BY <2>3, <2>6, <2>8 DEF Together
    <3>2. Rank(P, i) < Rank(P, i + 1) /\ Rank(P, i + 1) \in 1..n /\ Nth(P, Rank(P, i + 1)) = i + 1
      BY <1>2, <1>3, <2>3, <3>1
    <3>3. Rank(P, i) = k - 1
      BY <1>3, <2>1 DEF i
    <3>4. Rank(P, Nth(P, k)) = k
      BY <1>3, <2>1
    <3>5. ~(i + 1 < Nth(P, k))
      <4>1. CASE i + 1 < Nth(P, k)
        <5>1. Rank(P, i + 1) < k
          <6>1. Rank(P, i + 1) < Rank(P, Nth(P, k))
            BY <1>3, <2>5, <3>1, <4>1
          <6> QED
            BY <3>4, <6>1
        <5> QED
          BY <1>2, <2>1, <3>2, <3>3, <5>1
      <4> QED
        BY <4>1
    <3> QED
      BY <2>3, <2>5, <3>5
  <2>9. ASSUME Nth(P, k) \in Values(s) PROVE Nth(P, k) = i + 1
    <3>1. Nth(P, k - 1) = Nth(P, k) - 1
      BY <1>6, <2>1, <2>9
    <3> QED
      BY <2>3, <2>5, <3>1 DEF i
  <2> QED
    BY <2>4, <2>7, <2>8, <2>9 DEF k
<1> QED
  <2> SUFFICES ASSUME NEW k \in 1..n PROVE Same(k)
    BY DEF n, t
  <2>1. k - 1 \in Nat /\ (k - 1) + 1 = k /\ k <= n
    BY <1>2
  <2>2. k - 1 \in Good
    <3> HIDE DEF Good
    <3> QED
      BY <1>7, <1>8, <2>1, FromZeroUp
  <2> HIDE DEF Same
  <2> QED
    BY <2>1, <2>2

\* A set of numbers that has one has a least one, and a greatest one if it is
\* bounded.
LEMMA LeastOf ==
    ASSUME NEW m \in Nat, NEW K, K \subseteq 1..m, K # {}
    PROVE  /\ Min(K) \in K /\ \A k \in K : Min(K) <= k
           /\ Max(K) \in K /\ \A k \in K : Max(K) >= k
<1>1. K \subseteq Nat /\ \A k \in K : k \in Nat /\ k <= m
  OBVIOUS
<1>2. \E x \in K : \A k \in K : x <= k
  <2>1. PICK x \in K : \A k \in K : ~(<<k, x>> \in OpToRel(<, Nat))
    BY <1>1, NatLessThanWellFounded, WFMin
  <2>2. ASSUME NEW k \in K PROVE x <= k
    <3>1. ~(k < x)
      BY <1>1, <2>1 DEF OpToRel
    <3> QED
      BY <1>1, <3>1
  <2> QED
    BY <2>2
<1>3. \E x \in K : \A k \in K : x >= k
  <2> DEFINE L == {m - k : k \in K}
  <2>1. L \subseteq Nat /\ L # {}
    <3>1. \A k \in K : m - k \in Nat
      BY <1>1
    <3> QED
      BY <3>1
  <2>2. PICK y \in L : \A l \in L : ~(<<l, y>> \in OpToRel(<, Nat))
    BY <2>1, NatLessThanWellFounded, WFMin
  <2>3. PICK x \in K : y = m - x
    BY <2>2
  <2>4. ASSUME NEW k \in K PROVE x >= k
    <3>1. m - k \in L /\ m - k \in Nat /\ y \in Nat
      BY <1>1, <2>1
    <3>2. ~(m - k < y)
      BY <2>2, <3>1 DEF OpToRel
    <3> QED
      BY <1>1, <2>3, <3>2
  <2> QED
    BY <2>4
<1> QED
  BY <1>2, <1>3 DEF Min, Max

-----------------------------------------------------------------------------
(* reorderArgs.                                                            *)

\* The "--" that stand for themselves, the first of them, and which positions
\* reorderArgs sorts to the flags and to the words.
Marks(s) == {i \in DOMAIN s : Own(s, PullsValue)[i] /\ s[i] = DashDash}
StopAt(s) == IF Marks(s) = {} THEN Len(s) + 1 ELSE Min(Marks(s))
FlagPart(s) == {i \in 1 .. StopAt(s) - 1 : IsFlag(s[i]) \/ ~Own(s, PullsValue)[i]}
WordPart(s) == DOMAIN s \ (FlagPart(s) \cup {StopAt(s)})

\* reorderArgs in these terms.
LEMMA ReorderIs ==
    ASSUME NEW s
    PROVE  /\ reorderArgs(s).flags = At(s, FlagPart(s))
           /\ reorderArgs(s).positional = At(s, WordPart(s))
  BY DEF reorderArgs, Marks, StopAt, FlagPart, WordPart

\* The flags end at the first "--" that stands for itself.
LEMMA StopOf ==
    ASSUME NEW s \in Line
    PROVE  /\ StopAt(s) \in 1..(Len(s) + 1)
           /\ StopAt(s) <= Len(s) => StopAt(s) \notin Values(s) /\ s[StopAt(s)] = DashDash
           /\ \A i \in 1..Len(s) : i < StopAt(s) /\ i \notin Values(s) => s[i] # DashDash
           /\ FlagPart(s) \subseteq 1..Len(s) /\ WordPart(s) \subseteq 1..Len(s)
           /\ \A i \in 1..Len(s) : i \in FlagPart(s) <=>
                 i < StopAt(s) /\ (IsFlag(s[i]) \/ i \in Values(s))
<1>1. Len(s) \in Nat /\ DOMAIN s = 1..Len(s)
  BY ValuesAre
<1>2. Marks(s) = {i \in 1..Len(s) : i \notin Values(s) /\ s[i] = DashDash}
  BY <1>1, ValuesAre DEF Marks
<1>3. CASE Marks(s) = {}
  <2>1. StopAt(s) = Len(s) + 1
    BY <1>3 DEF StopAt
  <2>2. \A i \in 1..Len(s) : i \notin Values(s) => s[i] # DashDash
    BY <1>2, <1>3
  <2>3. FlagPart(s) = {i \in 1..Len(s) : IsFlag(s[i]) \/ i \in Values(s)}
    <3>1. 1 .. StopAt(s) - 1 = 1..Len(s)
      BY <1>1, <2>1
    <3> QED
      BY <3>1, ValuesAre DEF FlagPart
  <2> QED
    BY <1>1, <2>1, <2>2, <2>3 DEF WordPart
<1>4. CASE Marks(s) # {}
  <2>0. Marks(s) \subseteq 1..Len(s)
    BY <1>2
  <2>1. StopAt(s) \in Marks(s) /\ \A k \in Marks(s) : StopAt(s) <= k
    BY <1>1, <1>4, <2>0, LeastOf DEF StopAt
  <2>2. StopAt(s) \in 1..Len(s) /\ StopAt(s) \notin Values(s) /\ s[StopAt(s)] = DashDash
    BY <1>2, <2>1
  <2>3. ASSUME NEW i \in 1..Len(s), i < StopAt(s), i \notin Values(s) PROVE s[i] # DashDash
    <3>1. i \notin Marks(s)
      BY <1>1, <2>1, <2>2, <2>3
    <3> QED
      BY <1>2, <2>3, <3>1
  <2>4. 1 .. StopAt(s) - 1 = {i \in 1..Len(s) : i < StopAt(s)}
    BY <1>1, <2>2
  <2>5. \A i \in 1 .. StopAt(s) - 1 : i \in 1..Len(s)
    BY <2>4
  <2>6. FlagPart(s) = {i \in 1 .. StopAt(s) - 1 : IsFlag(s[i]) \/ i \in Values(s)}
    BY <2>5, ValuesAre DEF FlagPart
  <2>7. \A i \in 1..Len(s) : i \in FlagPart(s) <=>
                 i < StopAt(s) /\ (IsFlag(s[i]) \/ i \in Values(s))
    BY <2>4, <2>6
  <2>8. FlagPart(s) \subseteq 1..Len(s) /\ WordPart(s) \subseteq 1..Len(s)
    BY <1>1, <2>5, <2>6 DEF WordPart
  <2>9. StopAt(s) \in 1..(Len(s) + 1)
    BY <1>1, <2>2
  <2> QED
    BY <2>2, <2>3, <2>7, <2>8, <2>9
<1> QED
  BY <1>3, <1>4

\* No flag is parted from its value.
LEMMA FlagsTogether ==
    ASSUME NEW s \in Line
    PROVE  Together(s, FlagPart(s))
<1> SUFFICES ASSUME NEW i \in 1..Len(s), i \in Values(s)
             PROVE  i \in FlagPart(s) <=> i - 1 \in FlagPart(s)
  BY DEF Together
<1>1. Len(s) \in Nat
  BY ValuesAre
<1>2. i # 1 /\ i - 1 \notin Values(s) /\ PullsValue(s[i - 1])
  BY ValuesAre
<1>3. i \in Int /\ i - 1 \in 1..Len(s) /\ StopAt(s) \in Int
  BY <1>1, <1>2, StopOf
<1>4. i \in FlagPart(s) <=> i < StopAt(s)
  BY StopOf
<1>5. i - 1 \in FlagPart(s) <=> i - 1 < StopAt(s)
  BY <1>2, <1>3, StopOf DEF PullsValue
<1>6. i # StopAt(s)
  <2>1. i <= Len(s)
    BY <1>1
  <2> QED
    BY <2>1, StopOf
<1> QED
  BY <1>3, <1>4, <1>5, <1>6

\* What parseArgs requires of the words.
AllPorts(words) == \A t \in ToSet(words) : IsPortArg(t)

\* Of arguments whose words are all ports, every flag that stands for itself is
\* a flag for package flag too, and every one of those was; and every word that
\* is looked at stood for itself.
LEMMA Reordered ==
    ASSUME NEW s \in Line, AllPorts(reorderArgs(s).positional),
           NEW flags, flags = reorderArgs(s).flags,
           NEW words, words = reorderArgs(s).positional
    PROVE  /\ flags \in Line /\ words \in Line
           /\ \A i \in 1..Len(s) : i \notin Values(s) /\ IsFlag(s[i]) =>
                 \E k \in 1..Len(flags) : k \notin Values(flags) /\ flags[k] = s[i]
           /\ \A k \in 1..Len(flags) : k \notin Values(flags) =>
                 \E i \in 1..Len(s) : i \notin Values(s) /\ IsFlag(s[i]) /\ flags[k] = s[i]
           /\ \A t \in ToSet(words) :
                 \E i \in 1..Len(s) : i \notin Values(s) /\ s[i] = t
           /\ \A i \in 1..Len(s) : i \notin Values(s) /\ ~s[i].dash => s[i] \in ToSet(words)
<1> DEFINE F == FlagPart(s)
           W == WordPart(s)
<1>1. Len(s) \in Nat /\ DOMAIN s = 1..Len(s)
  BY ValuesAre
<1>2. F \subseteq 1..Len(s) /\ W \subseteq 1..Len(s) /\ W = 1..Len(s) \ (F \cup {StopAt(s)})
  BY <1>1, StopOf DEF WordPart
<1>3. flags = At(s, F) /\ words = At(s, W)
  BY ReorderIs
<1> HIDE DEF F, W
<1>4a. flags \in Line /\ Len(flags) = Cardinality(F)
  BY <1>2, <1>3, AtHas
<1>4d. /\ \A k \in 1..Cardinality(F) : Nth(F, k) \in F
       /\ \A i \in F : Rank(F, i) \in 1..Cardinality(F) /\ Nth(F, Rank(F, i)) = i
  BY <1>1, <1>2, NthOf
<1>4b. \A k \in 1..Cardinality(F) : Nth(F, k) \in F /\ flags[k] = s[Nth(F, k)]
  BY <1>3, <1>4d DEF At
<1>4c. \A i \in F : /\ Rank(F, i) \in 1..Cardinality(F)
                 /\ Nth(F, Rank(F, i)) = i /\ flags[Rank(F, i)] = s[i]
  BY <1>3, <1>4d DEF At
<1>5a. words \in Line /\ Len(words) = Cardinality(W)
  BY <1>2, <1>3, AtHas
<1>5d. /\ \A k \in 1..Cardinality(W) : Nth(W, k) \in W
       /\ \A i \in W : Rank(W, i) \in 1..Cardinality(W) /\ Nth(W, Rank(W, i)) = i
  BY <1>1, <1>2, NthOf
<1>5b. \A k \in 1..Cardinality(W) : Nth(W, k) \in W /\ words[k] = s[Nth(W, k)]
  BY <1>3, <1>5d DEF At
<1>5c. \A i \in W : /\ Rank(W, i) \in 1..Cardinality(W)
                 /\ Nth(W, Rank(W, i)) = i /\ words[Rank(W, i)] = s[i]
  BY <1>3, <1>5d DEF At
<1>6. \A k \in 1..Cardinality(F) : k \in Values(flags) <=> Nth(F, k) \in Values(s)
  <2>1. Together(s, F)
    BY FlagsTogether DEF F
  <2> QED
    BY <1>2, <1>3, <2>1, AtValues
<1>7. DOMAIN words = 1..Cardinality(W)
  BY <1>5a, <1>5b, <1>5c, ValuesAre
<1>8. \A i \in W : s[i] \in ToSet(words)
  <2> QED
    BY <1>5a, <1>5b, <1>5c, <1>7 DEF ToSet
<1>9. \A i \in W : ~s[i].dash
  <2> QED
    BY <1>8 DEF AllPorts, IsPortArg
<1>10. \A i \in 1..Len(s) : i \in F <=> i < StopAt(s) /\ (IsFlag(s[i]) \/ i \in Values(s))
  BY StopOf DEF F
<1>11. /\ StopAt(s) \in 1..(Len(s) + 1)
       /\ StopAt(s) <= Len(s) => StopAt(s) \notin Values(s) /\ s[StopAt(s)] = DashDash
  BY StopOf
<1>12. ASSUME NEW i \in 1..Len(s), i \notin Values(s), IsFlag(s[i])
       PROVE  \E k \in 1..Len(flags) : k \notin Values(flags) /\ flags[k] = s[i]
  <2>1. i # StopAt(s)
    <3>1. i <= Len(s)
      BY <1>1
    <3> QED
      BY <1>11, <1>12, <3>1 DEF IsFlag
  <2>2. i \notin W
    BY <1>9, <1>12 DEF IsFlag
  <2>3. i \in F
    BY <1>2, <2>1, <2>2
  <2> QED
    BY <1>4a, <1>4b, <1>4c, <1>6, <1>12, <2>3
<1>13. ASSUME NEW k \in 1..Len(flags), k \notin Values(flags)
       PROVE  \E i \in 1..Len(s) : i \notin Values(s) /\ IsFlag(s[i]) /\ flags[k] = s[i]
  <2>1. Nth(F, k) \in F /\ flags[k] = s[Nth(F, k)] /\ Nth(F, k) \notin Values(s)
    BY <1>4a, <1>4b, <1>4c, <1>6, <1>13
  <2>2. Nth(F, k) \in 1..Len(s)
    BY <1>2, <2>1
  <2> QED
    BY <1>10, <2>1, <2>2
<1>14. ASSUME NEW t \in ToSet(words)
       PROVE  \E i \in 1..Len(s) : i \notin Values(s) /\ s[i] = t
  <2>1. PICK k \in 1..Cardinality(W) : words[k] = t
    BY <1>7 DEF ToSet
  <2> DEFINE i == Nth(W, k)
  <2>2. i \in W /\ s[i] = t /\ i \in 1..Len(s)
    BY <1>2, <1>5a, <1>5b, <1>5c, <2>1
  <2>3. ASSUME i \in Values(s) PROVE FALSE
    <3>1. i # 1 /\ i - 1 \notin Values(s) /\ PullsValue(s[i - 1])
      BY <2>2, <2>3, ValuesAre
    <3> HIDE DEF i
    <3>2. i \in Int /\ i - 1 \in 1..Len(s)
      BY <1>1, <2>2, <3>1
    <3>3. IsFlag(s[i - 1])
      BY <3>1 DEF PullsValue
    <3>4. i - 1 \in F
      <4>1. i - 1 # StopAt(s)
        <5>1. i - 1 <= Len(s)
          BY <1>1, <3>2
        <5> QED
          BY <1>11, <3>3, <5>1 DEF IsFlag
      <4>2. i - 1 \notin W
        BY <1>9, <3>3 DEF IsFlag
      <4> QED
        BY <1>2, <3>2, <4>1, <4>2
    <3>5. i - 1 < StopAt(s) /\ i # StopAt(s) /\ StopAt(s) \in Int
      <4>1. i <= Len(s)
        BY <1>1, <2>2
      <4> QED
        BY <1>10, <1>11, <2>3, <3>2, <3>4, <4>1
    <3>6. i < StopAt(s)
      BY <3>2, <3>5
    <3>7. i \in F
      BY <1>10, <2>2, <2>3, <3>6
    <3> QED
      BY <1>2, <2>2, <3>7
  <2> QED
    BY <2>2, <2>3
<1>15. ASSUME NEW i \in 1..Len(s), i \notin Values(s), ~s[i].dash
       PROVE  s[i] \in ToSet(words)
  <2>1. i # StopAt(s)
    <3>1. i <= Len(s)
      BY <1>1
    <3>2. DashDash.dash = TRUE
      BY DEF DashDash, Flag
    <3> QED
      BY <1>11, <1>15, <3>1, <3>2
  <2>2. i \notin F
    BY <1>10, <1>15 DEF IsFlag
  <2>3. i \in W
    BY <1>2, <2>1, <2>2
  <2> QED
    BY <1>8, <2>3
<1> QED
  BY <1>4a, <1>4b, <1>4c, <1>5a, <1>5b, <1>5c, <1>12, <1>13, <1>14, <1>15

-----------------------------------------------------------------------------
(* expandGroups.                                                           *)

\* Where each of the first n lists begins in their concatenation.
Lays(at, ss, n, flat) ==
    /\ at \in [1..(n + 1) -> Nat] /\ at[1] = 0 /\ at[n + 1] = Len(flat)
    /\ \A i \in 1..n : at[i + 1] = at[i] + Len(ss[i]) /\ at[i + 1] <= Len(flat)
    /\ \A i \in 1..n : \A k \in 1..Len(ss[i]) : flat[at[i] + k] = ss[i][k]
    /\ \A j \in 1..Len(flat) : \E i \in 1..n : \E k \in 1..Len(ss[i]) : j = at[i] + k

\* One list more.
LEMMA LayOne ==
    ASSUME NEW S, NEW n \in Nat, NEW ss, \A i \in 1..(n + 1) : ss[i] \in Seq(S),
           NEW flat \in Seq(S), NEW at, Lays(at, ss, n, flat)
    PROVE  \E b : Lays(b, ss, n + 1, flat \o ss[n + 1])
<1> DEFINE new == ss[n + 1]
           all == flat \o new
           b == [i \in 1..(n + 2) |-> IF i = n + 2 THEN at[n + 1] + Len(new) ELSE at[i]]
<1>1. new \in Seq(S) /\ n + 1 \in 1..(n + 1)
  OBVIOUS
<1>2. /\ at \in [1..(n + 1) -> Nat] /\ at[1] = 0 /\ at[n + 1] = Len(flat)
      /\ \A i \in 1..n : at[i + 1] = at[i] + Len(ss[i]) /\ at[i + 1] <= Len(flat)
      /\ \A i \in 1..n : \A k \in 1..Len(ss[i]) : flat[at[i] + k] = ss[i][k]
      /\ \A j \in 1..Len(flat) : \E i \in 1..n : \E k \in 1..Len(ss[i]) : j = at[i] + k
  BY DEF Lays
<1>3. /\ all \in Seq(S) /\ Len(all) = Len(flat) + Len(new)
      /\ Len(flat) \in Nat /\ Len(new) \in Nat
      /\ \A j \in 1..Len(flat) : all[j] = flat[j]
      /\ \A k \in 1..Len(new) : all[Len(flat) + k] = new[k]
  BY <1>1
<1>4. \A i \in 1..n : ss[i] \in Seq(S) /\ Len(ss[i]) \in Nat
  OBVIOUS
<1> HIDE DEF new, all
<1>5. /\ b \in [1..(n + 2) -> Nat] /\ b[n + 2] = at[n + 1] + Len(new)
      /\ \A i \in 1..(n + 1) : b[i] = at[i] /\ at[i] \in Nat
  <2>1. at[n + 1] + Len(new) \in Nat
    BY <1>2, <1>3
  <2>2. \A i \in 1..(n + 2) : i # n + 2 => i \in 1..(n + 1) /\ at[i] \in Nat
    BY <1>2
  <2>3. \A i \in 1..(n + 1) : i \in 1..(n + 2) /\ i # n + 2
    OBVIOUS
  <2>4. n + 2 \in 1..(n + 2)
    OBVIOUS
  <2> QED
    BY <2>1, <2>2, <2>3, <2>4
<1> HIDE DEF b
<1>6. b[1] = 0 /\ b[n + 2] = Len(all)
  BY <1>2, <1>3, <1>5
<1>7. ASSUME NEW i \in 1..(n + 1)
      PROVE  /\ b[i + 1] = b[i] + Len(ss[i]) /\ b[i + 1] <= Len(all)
             /\ \A k \in 1..Len(ss[i]) : all[b[i] + k] = ss[i][k]
  <2>1. CASE i = n + 1
    <3>1. i + 1 = n + 2 /\ b[i] = Len(flat) /\ b[i + 1] = Len(all) /\ ss[i] = new
      BY <2>1, <1>2, <1>5, <1>6 DEF new
    <3> QED
      BY <3>1, <1>3
  <2>2. CASE i # n + 1
    <3>1. i \in 1..n /\ i + 1 \in 1..(n + 1) /\ b[i] = at[i] /\ b[i + 1] = at[i + 1]
      BY <2>2, <1>5
    <3>2. at[i + 1] = at[i] + Len(ss[i]) /\ at[i + 1] <= Len(flat) /\ at[i] \in Nat /\ at[i + 1] \in Nat
      BY <1>2, <3>1
    <3>3. b[i + 1] <= Len(all)
      BY <1>3, <3>1, <3>2
    <3>4. ASSUME NEW k \in 1..Len(ss[i]) PROVE all[b[i] + k] = ss[i][k]
      <4>1. flat[at[i] + k] = ss[i][k]
        BY <1>2, <3>1
      <4>2. at[i] + k \in 1..Len(flat)
        BY <1>3, <1>4, <3>1, <3>2
      <4> QED
        BY <1>3, <3>1, <4>1, <4>2
    <3> QED
      BY <3>1, <3>2, <3>3, <3>4
  <2> QED
    BY <2>1, <2>2
<1>8. ASSUME NEW j \in 1..Len(all)
      PROVE  \E i \in 1..(n + 1) : \E k \in 1..Len(ss[i]) : j = b[i] + k
  <2>1. CASE j <= Len(flat)
    <3>1. j \in 1..Len(flat)
      BY <1>3, <2>1
    <3>2. PICK i \in 1..n : \E k \in 1..Len(ss[i]) : j = at[i] + k
      BY <1>2, <3>1
    <3>3. i \in 1..(n + 1) /\ b[i] = at[i]
      BY <1>5
    <3> QED
      BY <3>2, <3>3
  <2>2. CASE j > Len(flat)
    <3>1. j - Len(flat) \in 1..Len(new) /\ j = Len(flat) + (j - Len(flat))
      BY <1>3, <2>2
    <3>2. b[n + 1] = Len(flat) /\ n + 1 \in 1..(n + 1) /\ ss[n + 1] = new
      BY <1>2, <1>5 DEF new
    <3> QED
      BY <3>1, <3>2
  <2> QED
    BY <1>3, <2>1, <2>2
<1>9. (n + 1) + 1 = n + 2
  OBVIOUS
<1>10. Lays(b, ss, n + 1, all)
  BY <1>5, <1>6, <1>7, <1>8, <1>9 DEF Lays
<1> QED
  BY <1>10 DEF all, new

\* FlattenSeq puts the lists one after the other.
LEMMA Laid ==
    ASSUME NEW S, NEW n \in Nat, NEW ss \in [1..n -> Seq(S)]
    PROVE  FlattenSeq(ss) \in Seq(S) /\ \E at : Lays(at, ss, n, FlattenSeq(ss))
<1>1. ss \in Seq(Seq(S)) /\ Len(ss) = n
  OBVIOUS
<1>2. CASE n = 0
  <2>1. FlattenSeq(ss) = ss /\ ss = <<>>
    BY <1>1, <1>2 DEF FlattenSeq
  <2> DEFINE at == [i \in 1..1 |-> 0]
  <2>2. at[1] = 0 /\ at \in [1..1 -> Nat] /\ Len(<<>>) = 0 /\ <<>> \in Seq(S)
    OBVIOUS
  <2>3. 0 + 1 = 1 /\ 1..0 = {}
    OBVIOUS
  <2> HIDE DEF at
  <2>4. Lays(at, ss, 0, <<>>)
    BY <2>2, <2>3 DEF Lays
  <2> QED
    BY <1>2, <2>1, <2>2, <2>4
<1>3. CASE n # 0
  <2> DEFINE Body(f, k) == [i \in 1..k |-> IF i = 1 THEN ss[i] ELSE f[i - 1] \o ss[i]]
             Built(k) == \E f : f = Body(f, k)
             Good == {m \in Nat : m + 1 <= n => Built(m + 1)}
  <2> HIDE DEF Built
  <2>1. 0 \in Good
    <3> DEFINE f == [i \in 1..1 |-> ss[i]]
    <3>1. f = Body(f, 1)
      OBVIOUS
    <3>2. Built(1)
      BY <3>1 DEF Built
    <3> QED
      BY <3>2
  <2>2. ASSUME NEW m \in Nat, m \in Good PROVE m + 1 \in Good
    <3> SUFFICES ASSUME m + 2 <= n PROVE Built(m + 2)
      OBVIOUS
    <3>0. Built(m + 1)
      BY <2>2
    <3>1. PICK f : f = Body(f, m + 1)
      BY <3>0 DEF Built
    <3> DEFINE g == [i \in 1..(m + 2) |-> IF i = m + 2 THEN f[m + 1] \o ss[i] ELSE f[i]]
    <3>2. ASSUME NEW i \in 1..(m + 2)
          PROVE  g[i] = IF i = 1 THEN ss[i] ELSE g[i - 1] \o ss[i]
      <4>1. CASE i = 1
        <5>1. i \in 1..(m + 1) /\ i # m + 2
          BY <4>1
        <5>2. g[i] = f[i] /\ f[i] = ss[i]
          BY <3>1, <4>1, <5>1
        <5> QED
          BY <4>1, <5>2
      <4>2. CASE i # 1 /\ i # m + 2
        <5>1. i \in 1..(m + 1) /\ i - 1 \in 1..(m + 1) /\ i - 1 # m + 2 /\ i - 1 \in 1..(m + 2)
          BY <4>2
        <5>2. g[i] = f[i] /\ g[i - 1] = f[i - 1]
          BY <4>2, <5>1
        <5>3. f[i] = f[i - 1] \o ss[i]
          BY <3>1, <4>2, <5>1
        <5> QED
          BY <4>2, <5>2, <5>3
      <4>3. CASE i = m + 2
        <5>1. i # 1 /\ i - 1 = m + 1 /\ i - 1 \in 1..(m + 2) /\ i - 1 # m + 2
          BY <4>3
        <5>2. g[i] = f[m + 1] \o ss[i] /\ g[i - 1] = f[m + 1]
          BY <4>3, <5>1
        <5> QED
          BY <5>1, <5>2
      <4> QED
        BY <4>1, <4>2, <4>3
    <3>3. g = Body(g, m + 2)
      BY <3>2
    <3> QED
      BY <3>3 DEF Built
  <2>3. \E f : f = Body(f, n)
    <3> HIDE DEF Good, Body
    <3>1. \A m \in Nat : m \in Good
      BY <2>1, <2>2, FromZeroUp
    <3>2. n - 1 \in Nat /\ (n - 1) + 1 = n
      BY <1>3
    <3>3. n - 1 \in Good
      BY <3>1, <3>2
    <3> QED
      BY <3>2, <3>3 DEF Good, Built
  <2>4. PICK f : f = Body(f, n) /\ FlattenSeq(ss) = f[n]
    BY <1>1, <1>3, <2>3 DEF FlattenSeq
  <2> DEFINE Lists(k) == f[k] \in Seq(S) /\ \E at : Lays(at, ss, k, f[k])
             Flat == {m \in Nat : m + 1 <= n => Lists(m + 1)}
  <2> HIDE DEF Lists
  <2>5. 0 \in Flat
    <3>1. f[1] = ss[1] /\ 1 \in 1..n /\ ss[1] \in Seq(S)
      BY <1>3, <2>4
    <3> DEFINE at == [i \in 1..2 |-> IF i = 1 THEN 0 ELSE Len(ss[1])]
    <3>2. Len(ss[1]) \in Nat
      BY <3>1
    <3>3. at \in [1..2 -> Nat] /\ at[1] = 0 /\ at[2] = Len(ss[1])
      BY <3>2
    <3>4. 1..1 = {1} /\ 1 + 1 = 2
      OBVIOUS
    <3> HIDE DEF at
    <3>5. /\ \A i \in 1..1 : at[i + 1] = at[i] + Len(ss[i]) /\ at[i + 1] <= Len(ss[1])
          /\ \A i \in 1..1 : \A k \in 1..Len(ss[i]) : ss[1][at[i] + k] = ss[i][k]
          /\ \A j \in 1..Len(ss[1]) : \E i \in 1..1 : \E k \in 1..Len(ss[i]) : j = at[i] + k
      BY <3>2, <3>3, <3>4
    <3>6. Lays(at, ss, 1, f[1])
      BY <3>1, <3>3, <3>4, <3>5 DEF Lays
    <3>7. Lists(1)
      BY <3>1, <3>6 DEF Lists
    <3> QED
      BY <3>7
  <2>6. ASSUME NEW m \in Nat, m \in Flat PROVE m + 1 \in Flat
    <3> SUFFICES ASSUME m + 2 <= n PROVE Lists(m + 2)
      OBVIOUS
    <3>0. Lists(m + 1)
      BY <2>6
    <3>1. m + 2 \in 1..n /\ m + 2 # 1 /\ (m + 2) - 1 = m + 1 /\ m + 1 \in Nat /\ (m + 1) + 1 = m + 2
      OBVIOUS
    <3>2. f[m + 2] = f[m + 1] \o ss[m + 2]
      BY <2>4, <3>1
    <3>3. f[m + 1] \in Seq(S) /\ \E at : Lays(at, ss, m + 1, f[m + 1])
      BY <3>0 DEF Lists
    <3>4. PICK at : Lays(at, ss, m + 1, f[m + 1])
      BY <3>3
    <3>5. \A i \in 1..((m + 1) + 1) : ss[i] \in Seq(S)
      OBVIOUS
    <3>6. \E b : Lays(b, ss, (m + 1) + 1, f[m + 1] \o ss[(m + 1) + 1])
      BY <3>1, <3>3, <3>4, <3>5, LayOne
    <3>7. f[m + 2] \in Seq(S)
      BY <3>1, <3>2, <3>3
    <3> QED
      BY <3>1, <3>2, <3>6, <3>7 DEF Lists
  <2>7. n - 1 \in Flat
    <3> HIDE DEF Flat
    <3>1. \A m \in Nat : m \in Flat
      BY <2>5, <2>6, FromZeroUp
    <3>2. n - 1 \in Nat
      BY <1>3
    <3> QED
      BY <3>1, <3>2
  <2>8. n - 1 \in Nat /\ (n - 1) + 1 = n
    BY <1>3
  <2>9. Lists(n)
    BY <2>7, <2>8
  <2> QED
    BY <2>4, <2>9 DEF Lists
<1> QED
  BY <1>2, <1>3

\* What expandGroups takes for the name of a group.
IsReference(c, i) == Own(c, NamesValue)[i] /\ ~c[i].dash /\ c[i].text \in DOMAIN Groups

\* The ports of a group, as arguments.
Members(g) == [k \in DOMAIN Groups[g] |-> Decimal(Groups[g][k])]

\* What an argument turns into.
Part(c, i) == IF IsReference(c, i) THEN Members(c[i].text) ELSE <<c[i]>>

\* A port out of the group that an argument refers to.
FromGroup(t, g) == /\ ~g.dash /\ g.text \in DOMAIN Groups
                   /\ \E k \in DOMAIN Groups[g.text] : t = Decimal(Groups[g.text][k])

\* A port is written as a number.
LEMMA DecimalIs ==
    ASSUME NEW p \in 1..MaxPort
    PROVE  /\ Decimal(p) \in Argument /\ ~Decimal(p).dash
           /\ Decimal(p).text \in DOMAIN Numeral /\ Numeral[Decimal(p).text] = p
<1> DEFINE w == CHOOSE x \in DOMAIN Numeral : Numeral[x] = p
<1>1. w \in DOMAIN Numeral /\ Numeral[w] = p
  BY ArgumentConstants
<1>2. w \in Words
  BY <1>1, ArgumentConstants
<1>3. Decimal(p) = [dash |-> FALSE, text |-> w, inline |-> NoValue]
  BY DEF Decimal, Word
<1> HIDE DEF w
<1> QED
  BY <1>1, <1>2, <1>3 DEF Argument

\* Every argument turns into one or more.
LEMMA PartIs ==
    ASSUME NEW c \in Line, NEW i \in 1..Len(c)
    PROVE  /\ Part(c, i) \in Seq(Argument) /\ Len(Part(c, i)) \in Nat /\ Len(Part(c, i)) >= 1
           /\ ~IsReference(c, i) => Len(Part(c, i)) = 1 /\ Part(c, i)[1] = c[i]
           /\ IsReference(c, i) =>
                 \A k \in 1..Len(Part(c, i)) : ~Part(c, i)[k].dash /\ FromGroup(Part(c, i)[k], c[i])
<1>1. c[i] \in Argument
  BY DEF Line
<1>2. CASE ~IsReference(c, i)
  <2>1. Part(c, i) = <<c[i]>>
    BY <1>2 DEF Part
  <2> QED
    BY <1>1, <1>2, <2>1
<1>3. CASE IsReference(c, i)
  <2> DEFINE g == c[i].text
             ports == Groups[g]
  <2>1. g \in DOMAIN Groups /\ ~c[i].dash
    BY <1>3 DEF IsReference
  <2>2. ports \in Seq(1..MaxPort) /\ ports # <<>>
    BY <2>1, ArgumentConstants
  <2>3. Part(c, i) = Members(g)
    BY <1>3 DEF Part
  <2>4. Members(g) = [k \in DOMAIN ports |-> Decimal(ports[k])]
    BY DEF Members
  <2>5. \A k \in DOMAIN ports : FromGroup(Decimal(ports[k]), c[i])
    BY <2>1 DEF FromGroup
  <2> HIDE DEF g, ports
  <2>6. Len(ports) \in Nat /\ Len(ports) >= 1 /\ DOMAIN ports = 1..Len(ports)
    BY <2>2
  <2>7. \A k \in 1..Len(ports) : ports[k] \in 1..MaxPort
    BY <2>2, ElementOfSeq
  <2>8. \A k \in 1..Len(ports) : Decimal(ports[k]) \in Argument /\ ~Decimal(ports[k]).dash
    BY <2>7, DecimalIs
  <2>9. Part(c, i) \in [1..Len(ports) -> Argument]
    BY <2>3, <2>4, <2>6, <2>8
  <2>10. Part(c, i) \in Seq(Argument) /\ Len(Part(c, i)) = Len(ports)
    BY <2>6, <2>9
  <2>11. ASSUME NEW k \in 1..Len(ports)
         PROVE  Part(c, i)[k] = Decimal(ports[k])
    BY <2>3, <2>4, <2>6
  <2> QED
    BY <1>3, <2>5, <2>6, <2>8, <2>10, <2>11
<1> QED
  BY <1>2, <1>3

\* The arguments in place.
LEMMA ExpandLays ==
    ASSUME NEW c \in Line
    PROVE  /\ expandGroups(c) \in Line
           /\ \E at : Lays(at, [i \in 1..Len(c) |-> Part(c, i)], Len(c), expandGroups(c))
<1> DEFINE ss == [i \in 1..Len(c) |-> Part(c, i)]
<1>1. Len(c) \in Nat /\ DOMAIN c = 1..Len(c)
  BY ValuesAre
<1>2. expandGroups(c) = FlattenSeq(ss)
  BY <1>1 DEF expandGroups, Part, IsReference, Members
<1>3. ss \in [1..Len(c) -> Seq(Argument)]
  BY PartIs
<1> HIDE DEF ss
<1>4. FlattenSeq(ss) \in Seq(Argument) /\ \E at : Lays(at, ss, Len(c), FlattenSeq(ss))
  BY <1>1, <1>3, Laid
<1> QED
  BY <1>2, <1>4 DEF ss, Line

\* Every argument afterwards was one before, or comes from a group.
LEMMA ExpandedTokens ==
    ASSUME NEW c \in Line, NEW j \in 1..Len(expandGroups(c))
    PROVE  \E i \in 1..Len(c) : \/ expandGroups(c)[j] = c[i]
                                \/ FromGroup(expandGroups(c)[j], c[i])
<1> DEFINE e == expandGroups(c)
           ss == [i \in 1..Len(c) |-> Part(c, i)]
<1>1. PICK at : Lays(at, ss, Len(c), e)
  BY ExpandLays
<1>2. PICK i \in 1..Len(c) : \E k \in 1..Len(ss[i]) : j = at[i] + k /\ e[at[i] + k] = ss[i][k]
  BY <1>1 DEF Lays
<1>3. ss[i] = Part(c, i)
  OBVIOUS
<1>4. PICK k \in 1..Len(Part(c, i)) : e[j] = Part(c, i)[k]
  BY <1>2, <1>3
<1> HIDE DEF e
<1>5. e[j] = c[i] \/ FromGroup(e[j], c[i])
  <2>1. CASE IsReference(c, i)
    BY <2>1, <1>4, PartIs
  <2>2. CASE ~IsReference(c, i)
    <3>1. k = 1
      BY <2>2, <1>4, PartIs
    <3> QED
      BY <2>2, <3>1, <1>4, PartIs
  <2> QED
    BY <2>1, <2>2
<1> QED
  BY <1>5 DEF e

\* Where all words turn out to be ports, no word is taken for the name of a flag,
\* and what is a value stays one.
LEMMA ExpandAligned ==
    ASSUME NEW c \in Line, NEW e, e = expandGroups(c), AllPorts(reorderArgs(e).positional),
           NEW at, Lays(at, [i \in 1..Len(c) |-> Part(c, i)], Len(c), e)
    PROVE  \A i \in 1..Len(c) : /\ i \in Pulled(c) <=> i \in Values(c)
                                /\ at[i] + 1 \in Values(e) <=> i \in Values(c)
<1> DEFINE Same(i) == /\ i \in Pulled(c) <=> i \in Values(c)
                      /\ at[i] + 1 \in Values(e) <=> i \in Values(c)
           Good == {m \in Nat : m + 1 <= Len(c) => Same(m + 1)}
           n == Len(c)
           ss == [i \in 1..Len(c) |-> Part(c, i)]
<1>1. n \in Nat /\ e \in Line /\ Len(e) \in Nat
  BY ValuesAre, ExpandLays
<1>2. /\ at[1] = 0 /\ \A i \in 1..(n + 1) : at[i] \in Nat
      /\ \A i \in 1..n : at[i + 1] = at[i] + Len(ss[i]) /\ at[i + 1] <= Len(e)
      /\ \A i \in 1..n : \A k \in 1..Len(ss[i]) : e[at[i] + k] = ss[i][k]
  BY DEF Lays
<1>3. \A i \in 1..n : ss[i] = Part(c, i)
  OBVIOUS
<1> HIDE DEF ss
<1>4. /\ \A i \in 1..n : i \in Pulled(c) <=>
             i # 1 /\ i - 1 \notin Pulled(c) /\ NamesValue(c[i - 1])
      /\ \A i \in 1..n : Own(c, NamesValue)[i] <=> i \notin Pulled(c)
  BY PulledAre
<1>5. \A i \in 1..n : i \in Values(c) <=> i # 1 /\ i - 1 \notin Values(c) /\ PullsValue(c[i - 1])
  BY ValuesAre
<1>6. \A j \in 1..Len(e) : j \in Values(e) <=> j # 1 /\ j - 1 \notin Values(e) /\ PullsValue(e[j - 1])
  BY <1>1, ValuesAre
<1>7. \A i \in 1..n : c[i] \in Argument
  BY DEF Line
<1>8. 0 \in Good
  <2> SUFFICES ASSUME 1 <= n PROVE Same(1)
    OBVIOUS
  <2>1. 1 \in 1..n
    BY <1>1
  <2>2. Len(ss[1]) >= 1 /\ Len(ss[1]) \in Nat
    BY <1>3, <2>1, PartIs
  <2>3. at[1] + 1 = 1 /\ 1 \in 1..Len(e)
    BY <1>1, <1>2, <2>1, <2>2
  <2> QED
    BY <1>4, <1>5, <1>6, <2>1, <2>3
<1>9. ASSUME NEW m \in Nat, m \in Good PROVE m + 1 \in Good
  <2> SUFFICES ASSUME m + 2 <= n PROVE Same(m + 2)
    OBVIOUS
  <2> DEFINE i == m + 1
             j == at[i] + Len(ss[i])
  <2>1. i \in 1..n /\ i + 1 \in 1..n /\ i + 1 # 1 /\ (i + 1) - 1 = i /\ i + 1 = m + 2 /\ i <= n
    BY <1>1
  <2>2. Same(i)
    BY <1>9, <2>1
  <2> HIDE DEF i
  <2>3. /\ Len(ss[i]) >= 1 /\ Len(ss[i]) \in Nat /\ at[i] \in Nat
        /\ at[i + 1] = at[i] + Len(ss[i]) /\ at[i + 1] <= Len(e)
        /\ Len(ss[i + 1]) >= 1 /\ Len(ss[i + 1]) \in Nat
        /\ at[(i + 1) + 1] = at[i + 1] + Len(ss[i + 1]) /\ at[(i + 1) + 1] <= Len(e)
        /\ at[i + 1] \in Nat /\ at[(i + 1) + 1] \in Nat
    <3>1. i \in 1..(n + 1) /\ i + 1 \in 1..(n + 1) /\ (i + 1) + 1 \in 1..(n + 1)
      BY <1>1, <2>1
    <3> QED
      BY <1>2, <1>3, <2>1, <3>1, PartIs
  <2>4. j \in 1..Len(e) /\ j + 1 \in 1..Len(e) /\ j + 1 # 1 /\ (j + 1) - 1 = j /\ at[i + 1] + 1 = j + 1
    <3> DEFINE x == at[i]
               l == Len(ss[i])
               y == at[i + 1]
               z == at[(i + 1) + 1]
    <3>1. /\ x \in Nat /\ l \in Nat /\ l >= 1 /\ y \in Nat /\ z \in Nat /\ y = x + l
          /\ z >= y + 1 /\ z <= Len(e) /\ j = x + l
      BY <2>3
    <3> HIDE DEF x, l, y, z, j
    <3>2. j \in 1..Len(e) /\ j + 1 \in 1..Len(e) /\ j + 1 # 1 /\ (j + 1) - 1 = j /\ y + 1 = j + 1
      BY <1>1, <3>1
    <3> QED
      BY <3>2 DEF y
  <2>5. e[j] = ss[i][Len(ss[i])]
    <3>1. Len(ss[i]) \in 1..Len(ss[i])
      BY <2>3
    <3> QED
      BY <1>2, <2>1, <3>1
  <2> HIDE DEF j
  <2>6. j + 1 \in Values(e) <=> j \notin Values(e) /\ PullsValue(e[j])
    BY <1>6, <2>4
  <2>7. i + 1 \in Values(c) <=> i \notin Values(c) /\ PullsValue(c[i])
    BY <1>5, <2>1
  <2>8. i + 1 \in Pulled(c) <=> i \notin Pulled(c) /\ NamesValue(c[i])
    BY <1>4, <2>1
  <2>9. i \in Pulled(c) <=> i \in Values(c)
    BY <2>2
  <2>10. CASE IsReference(c, i)
    <3>1. ~e[j].dash
      <4>1. Len(ss[i]) \in 1..Len(ss[i])
        BY <2>3
      <4> QED
        BY <1>3, <2>1, <2>5, <2>10, <4>1, PartIs
    <3>2. ~PullsValue(e[j])
      BY <3>1 DEF PullsValue, IsFlag
    <3>3. ~c[i].dash /\ c[i].text \in References
      BY <2>10, ArgumentConstants DEF IsReference
    <3>4. ~PullsValue(c[i])
      BY <3>3 DEF PullsValue, IsFlag
    <3>5. ~NamesValue(c[i])
      BY <3>3, NumbersAreNoNames DEF NamesValue
    <3> QED
      BY <2>1, <2>4, <2>6, <2>7, <2>8, <3>2, <3>4, <3>5
  <2>11. CASE ~IsReference(c, i)
    <3>1. Len(ss[i]) = 1 /\ ss[i][1] = c[i]
      BY <1>3, <2>1, <2>11, PartIs
    <3>2. j = at[i] + 1 /\ e[j] = c[i]
      BY <2>3, <2>5, <3>1 DEF j
    <3>3. j \in Values(e) <=> i \in Values(c)
      BY <2>2, <3>2
    <3>4. ASSUME i \notin Values(c), NamesValue(c[i]) PROVE PullsValue(c[i])
      <4>1. CASE c[i].dash
        <5>1. c[i] # DashDash
          <6>1. DashDash.text = ""
            BY DEF DashDash, Flag
          <6>2. "" \notin valueFlags
            BY DEF valueFlags
          <6> QED
            BY <3>4, <6>1, <6>2 DEF NamesValue
        <5> QED
          BY <3>4, <4>1, <5>1 DEF PullsValue, IsFlag
      <4>2. CASE ~c[i].dash
        <5>1. e[j] \in ToSet(reorderArgs(e).positional)
          BY <1>1, <2>4, <3>2, <3>3, <3>4, <4>2, Reordered
        <5>2. IsPortArg(c[i])
          BY <3>2, <5>1 DEF AllPorts
        <5>3. c[i].text \in DOMAIN Numeral \cup DOMAIN Span
          BY <5>2 DEF IsPortArg
        <5>4. c[i].text \in valueFlags
          BY <3>4 DEF NamesValue
        <5> QED
          BY <5>3, <5>4, NumbersAreNoNames
      <4> QED
        BY <4>1, <4>2
    <3>5. PullsValue(c[i]) => NamesValue(c[i])
      BY DEF PullsValue
    <3> QED
      BY <2>1, <2>4, <2>6, <2>7, <2>8, <2>9, <3>2, <3>3, <3>4, <3>5
  <2> QED
    BY <2>10, <2>11
<1> QED
  <2> SUFFICES ASSUME NEW k \in 1..n PROVE Same(k)
    OBVIOUS
  <2>1. k - 1 \in Nat /\ (k - 1) + 1 = k /\ k <= n
    BY <1>1
  <2>2. k - 1 \in Good
    <3> HIDE DEF Good
    <3> QED
      BY <1>8, <1>9, <2>1, FromZeroUp
  <2> HIDE DEF Same
  <2> QED
    BY <2>1, <2>2

\* So every flag that stood for itself still does, and all that stands for itself
\* comes from an argument that did.
LEMMA Expanded ==
    ASSUME NEW c \in Line, NEW e, e = expandGroups(c), AllPorts(reorderArgs(e).positional)
    PROVE  /\ \A i \in 1..Len(c) : i \notin Values(c) /\ IsFlag(c[i]) =>
                 \E j \in 1..Len(e) : j \notin Values(e) /\ e[j] = c[i]
           /\ \A j \in 1..Len(e) : j \notin Values(e) =>
                 \E i \in 1..Len(c) : i \notin Values(c) /\ (e[j] = c[i] \/ FromGroup(e[j], c[i]))
<1> DEFINE ss == [i \in 1..Len(c) |-> Part(c, i)]
           n == Len(c)
<1>1. n \in Nat /\ e \in Line /\ Len(e) \in Nat
  BY ValuesAre, ExpandLays
<1>2. PICK at : Lays(at, ss, n, e)
  BY ExpandLays
<1>3. \A i \in 1..n : /\ i \in Pulled(c) <=> i \in Values(c)
                      /\ at[i] + 1 \in Values(e) <=> i \in Values(c)
  BY <1>2, ExpandAligned
<1>4. /\ \A i \in 1..(n + 1) : at[i] \in Nat
      /\ \A i \in 1..n : at[i + 1] = at[i] + Len(ss[i]) /\ at[i + 1] <= Len(e)
      /\ \A i \in 1..n : \A k \in 1..Len(ss[i]) : e[at[i] + k] = ss[i][k]
      /\ \A j \in 1..Len(e) : \E i \in 1..n : \E k \in 1..Len(ss[i]) : j = at[i] + k
  BY <1>2 DEF Lays
<1>5. \A i \in 1..n : ss[i] = Part(c, i)
  OBVIOUS
<1> HIDE DEF ss
<1>6. \A i \in 1..n : IsReference(c, i) => i \notin Values(c)
  BY <1>3, PulledAre DEF IsReference
<1>7. ASSUME NEW i \in 1..n, i \notin Values(c), IsFlag(c[i])
      PROVE  \E j \in 1..Len(e) : j \notin Values(e) /\ e[j] = c[i]
  <2>1. ~IsReference(c, i)
    BY <1>7 DEF IsReference, IsFlag
  <2>2. Len(ss[i]) = 1 /\ ss[i][1] = c[i]
    BY <1>5, <2>1, PartIs
  <2>3. i \in 1..(n + 1) /\ at[i] \in Nat
    BY <1>1, <1>4
  <2>4. at[i] + 1 \in 1..Len(e)
    <3>1. at[i + 1] = at[i] + 1 /\ at[i + 1] <= Len(e)
      BY <1>4, <2>2
    <3> QED
      BY <1>1, <2>3, <3>1
  <2>5. e[at[i] + 1] = c[i]
    <3>1. 1 \in 1..Len(ss[i])
      BY <2>2
    <3> QED
      BY <1>4, <2>2, <3>1
  <2> QED
    BY <1>3, <1>7, <2>4, <2>5
<1>8. ASSUME NEW j \in 1..Len(e), j \notin Values(e)
      PROVE  \E i \in 1..n : i \notin Values(c) /\ (e[j] = c[i] \/ FromGroup(e[j], c[i]))
  <2>1. PICK i \in 1..n : \E k \in 1..Len(ss[i]) : j = at[i] + k
    BY <1>4
  <2>2. PICK k \in 1..Len(ss[i]) : j = at[i] + k
    BY <2>1
  <2>3. e[j] = ss[i][k]
    BY <1>4, <2>2
  <2>4. CASE IsReference(c, i)
    BY <1>5, <1>6, <2>2, <2>3, <2>4, PartIs
  <2>5. CASE ~IsReference(c, i)
    <3>1. Len(ss[i]) = 1 /\ ss[i][1] = c[i]
      BY <1>5, <2>5, PartIs
    <3>2. k = 1
      BY <2>2, <3>1
    <3> QED
      BY <1>3, <1>8, <2>2, <2>3, <3>1, <3>2
  <2> QED
    BY <2>4, <2>5
<1> QED
  BY <1>7, <1>8

\* Where every argument turns into one or more, their order stays.
LEMMA LaysUp ==
    ASSUME NEW n \in Nat, NEW ss, NEW flat, NEW at, Lays(at, ss, n, flat),
           \A i \in 1..n : Len(ss[i]) \in Nat /\ Len(ss[i]) >= 1,
           NEW i \in 1..n, NEW j \in 1..n, i < j
    PROVE  at[i] < at[j]
<1> DEFINE Good == {m \in Nat : (i + m) + 1 <= n => at[i] < at[(i + m) + 1]}
<1>1. /\ \A k \in 1..(n + 1) : at[k] \in Nat
      /\ \A k \in 1..n : at[k + 1] = at[k] + Len(ss[k])
  BY DEF Lays
<1>2. \A k \in 1..n : at[k] \in Nat /\ at[k + 1] \in Nat /\ at[k] < at[k + 1]
  <2> SUFFICES ASSUME NEW k \in 1..n PROVE at[k] \in Nat /\ at[k + 1] \in Nat /\ at[k] < at[k + 1]
    OBVIOUS
  <2>1. k \in 1..(n + 1) /\ k + 1 \in 1..(n + 1)
    OBVIOUS
  <2>2. at[k] \in Nat /\ at[k + 1] \in Nat /\ at[k + 1] = at[k] + Len(ss[k])
    BY <1>1, <2>1
  <2>3. Len(ss[k]) \in Nat /\ Len(ss[k]) >= 1
    OBVIOUS
  <2> QED
    BY <2>2, <2>3
<1>3. 0 \in Good
  <2>1. i + 0 = i
    OBVIOUS
  <2> QED
    BY <1>2, <2>1
<1>4. ASSUME NEW m \in Nat, m \in Good PROVE m + 1 \in Good
  <2> SUFFICES ASSUME (i + (m + 1)) + 1 <= n PROVE at[i] < at[(i + (m + 1)) + 1]
    OBVIOUS
  <2> DEFINE k == (i + m) + 1
  <2>1. k \in 1..n /\ k <= n /\ (i + (m + 1)) + 1 = k + 1
    OBVIOUS
  <2>2. at[i] < at[k]
    BY <1>4, <2>1
  <2>3. at[i] \in Nat /\ at[k] \in Nat /\ at[k + 1] \in Nat /\ at[k] < at[k + 1]
    BY <1>2, <2>1
  <2>4. at[(i + (m + 1)) + 1] = at[k + 1]
    BY <2>1
  <2> HIDE DEF k
  <2> QED
    BY <2>2, <2>3, <2>4
<1>5. (j - i) - 1 \in Good
  <2>1. (j - i) - 1 \in Nat
    OBVIOUS
  <2> HIDE DEF Good
  <2> QED
    BY <1>3, <1>4, <2>1, FromZeroUp
<1>6. (i + ((j - i) - 1)) + 1 = j /\ j <= n
  OBVIOUS
<1> QED
  BY <1>5, <1>6

\* If no word is left of the expanded arguments, there was none.
LEMMA WordsStay ==
    ASSUME NEW c \in Line, NEW e, e = expandGroups(c), reorderArgs(e).positional = <<>>
    PROVE  reorderArgs(c).positional = <<>>
<1> DEFINE ss == [i \in 1..Len(c) |-> Part(c, i)]
           n == Len(c)
<1>1. n \in Nat /\ e \in Line /\ Len(e) \in Nat
  BY ValuesAre, ExpandLays
<1>2. AllPorts(reorderArgs(e).positional)
  <2>1. ToSet(<<>>) = {}
    BY DEF ToSet
  <2> QED
    BY <2>1 DEF AllPorts
<1>3. PICK at : Lays(at, ss, n, e)
  BY ExpandLays
<1>4. \A i \in 1..n : at[i] + 1 \in Values(e) <=> i \in Values(c)
  BY <1>2, <1>3, ExpandAligned
<1>5. \A i \in 1..n : ss[i] = Part(c, i)
  OBVIOUS
<1> HIDE DEF ss
<1>6. \A i \in 1..n : Len(ss[i]) \in Nat /\ Len(ss[i]) >= 1
  BY <1>5, PartIs
<1>7. ASSUME NEW i \in 1..n
      PROVE  at[i] \in Nat /\ at[i] + 1 \in 1..Len(e) /\ e[at[i] + 1] = ss[i][1]
  <2>1. /\ at[i] \in Nat /\ at[i + 1] = at[i] + Len(ss[i]) /\ at[i + 1] <= Len(e)
        /\ \A k \in 1..Len(ss[i]) : e[at[i] + k] = ss[i][k]
    <3>1. i \in 1..(n + 1)
      BY <1>1
    <3> QED
      BY <1>3, <3>1 DEF Lays
  <2>2. Len(ss[i]) \in Nat /\ Len(ss[i]) >= 1
    BY <1>6
  <2>3. 1 \in 1..Len(ss[i])
    BY <2>2
  <2>4. at[i] + 1 \in 1..Len(e)
    BY <1>1, <2>1, <2>2
  <2> QED
    BY <2>1, <2>3, <2>4
<1>8. WordPart(e) = {}
  <2>1. WordPart(e) \subseteq 1..Len(e) /\ At(e, WordPart(e)) = <<>>
    BY <1>1, ReorderIs, StopOf
  <2>2. Len(At(e, WordPart(e))) = Cardinality(WordPart(e))
    BY <1>1, <2>1, AtHas
  <2>3. Cardinality(WordPart(e)) = 0
    BY <2>1, <2>2
  <2>4. IsFiniteSet(WordPart(e))
    <3>1. IsFiniteSet(1..Len(e))
      BY <1>1, FS_Interval
    <3> QED
      BY <2>1, <3>1, FS_Subset
  <2> QED
    BY <2>3, <2>4, FS_EmptySet
<1>9. \A j \in 1..Len(e) : j # StopAt(e) => j < StopAt(e) /\ (IsFlag(e[j]) \/ j \in Values(e))
  <2> SUFFICES ASSUME NEW j \in 1..Len(e), j # StopAt(e)
               PROVE  j < StopAt(e) /\ (IsFlag(e[j]) \/ j \in Values(e))
    OBVIOUS
  <2>1. j \in DOMAIN e /\ j \notin WordPart(e)
    BY <1>1, <1>8, ValuesAre
  <2>2. j \in FlagPart(e)
    BY <2>1 DEF WordPart
  <2> QED
    BY <1>1, <2>2, StopOf
<1>10. ASSUME NEW i \in 1..n, i \in WordPart(c) PROVE FALSE
  <2> DEFINE j == at[i] + 1
             s == StopAt(c)
  <2>1. i # s /\ i \notin FlagPart(c)
    BY <1>10 DEF WordPart
  <2>2. s \in 1..(n + 1) /\ (i < s => i \notin Values(c) /\ ~IsFlag(c[i]) /\ c[i] # DashDash)
    BY <2>1, StopOf
  <2>3. j \in 1..Len(e) /\ j \in Int /\ e[j] = ss[i][1]
    BY <1>7
  <2>4. CASE i < s
    <3>1. ~c[i].dash
      BY <2>2, <2>4 DEF IsFlag
    <3>2. ~e[j].dash
      <4>1. CASE IsReference(c, i)
        <5>1. 1 \in 1..Len(Part(c, i))
          BY PartIs
        <5> QED
          BY <1>5, <2>3, <4>1, <5>1, PartIs
      <4>2. CASE ~IsReference(c, i)
        BY <1>5, <2>3, <3>1, <4>2, PartIs
      <4> QED
        BY <4>1, <4>2
    <3>3. j \notin Values(e)
      BY <1>4, <2>2, <2>4
    <3>4. j # StopAt(e)
      <4>1. DashDash.dash
        BY DEF DashDash, Flag
      <4>2. StopAt(e) \in 1..(Len(e) + 1) /\ (StopAt(e) <= Len(e) => e[StopAt(e)] = DashDash)
        BY <1>1, StopOf
      <4>3. j <= Len(e)
        BY <1>1, <2>3
      <4> HIDE DEF j
      <4> QED
        BY <3>2, <4>1, <4>2, <4>3
    <3> QED
      BY <1>9, <2>3, <3>2, <3>3, <3>4 DEF IsFlag
  <2>5. CASE ~(i < s)
    <3>1. s \in 1..n /\ s < i /\ i <= n
      BY <1>1, <2>1, <2>2, <2>5
    <3>2. s \notin Values(c) /\ c[s] = DashDash
      BY <3>1, StopOf
    <3> DEFINE k == at[s] + 1
    <3>3. k \in 1..Len(e) /\ k \in Int /\ e[k] = ss[s][1]
      BY <1>7, <3>1
    <3>4. e[k] = DashDash
      <4>0. DashDash.dash
        BY DEF DashDash, Flag
      <4>1. ~IsReference(c, s)
        BY <3>2, <4>0 DEF IsReference
      <4> QED
        BY <1>5, <3>1, <3>2, <3>3, <4>1, PartIs
    <3>5. k \notin Values(e)
      BY <1>4, <3>1, <3>2
    <3>6. StopAt(e) \in Int /\ ~(k < StopAt(e))
      <4>1. StopAt(e) \in 1..(Len(e) + 1) /\ (k < StopAt(e) /\ k \notin Values(e) => e[k] # DashDash)
        BY <1>1, <3>3, StopOf
      <4> QED
        BY <1>1, <3>4, <3>5, <4>1
    <3>7. k < j
      <4>1. at[s] < at[i] /\ at[s] \in Nat /\ at[i] \in Nat
        BY <1>1, <1>3, <1>6, <1>7, <3>1, LaysUp
      <4> QED
        BY <4>1
    <3> HIDE DEF j, k
    <3> QED
      BY <1>9, <2>3, <3>3, <3>6, <3>7
  <2> QED
    BY <2>4, <2>5
<1>11. WordPart(c) = {}
  BY <1>10, StopOf
<1>12. At(c, {}) = <<>>
  BY FS_EmptySet DEF At
<1> QED
  BY <1>11, <1>12, ReorderIs

-----------------------------------------------------------------------------
(* The subcommand.                                                         *)

\* Where the word is, and what is around it.
CommandAt(c, first, cmd) ==
    /\ first \in 1..Len(c) /\ first \notin Values(c) /\ ~c[first].dash
    /\ cmd.name = c[first].text /\ cmd.name \in Commands
    /\ cmd.pre = SubSeq(c, 1, first - 1) /\ cmd.rest = SubSeq(c, first + 1, Len(c))

\* Either there is none, or the line is cut at the word.
LEMMA CommandIs ==
    ASSUME NEW c \in Line, NEW cmd, cmd = extractSubcommand(c)
    PROVE  \/ cmd.name = NoCommand /\ cmd.pre = <<>> /\ cmd.rest = c
           \/ \E first : CommandAt(c, first, cmd)
<1> DEFINE words == {i \in DOMAIN c : Own(c, PullsValue)[i] /\ ~IsFlag(c[i])}
           first == Min(words)
           named == words # {} /\ ~c[first].dash /\ c[first].text \in Commands
<1>1. cmd = IF named
            THEN [name |-> c[first].text, pre |-> SubSeq(c, 1, first - 1),
                  rest |-> SubSeq(c, first + 1, Len(c))]
            ELSE [name |-> NoCommand, pre |-> <<>>, rest |-> c]
  BY DEF extractSubcommand
<1>2. Len(c) \in Nat /\ words \subseteq 1..Len(c)
  BY ValuesAre
<1>3. \A i \in words : i \notin Values(c)
  BY <1>2, ValuesAre
<1> HIDE DEF words
<1>4. CASE named
  <2>1. first \in words
    BY <1>2, <1>4, LeastOf
  <2>2. /\ cmd.name = c[first].text /\ cmd.pre = SubSeq(c, 1, first - 1)
        /\ cmd.rest = SubSeq(c, first + 1, Len(c))
    <3>1. cmd = [name |-> c[first].text, pre |-> SubSeq(c, 1, first - 1),
                 rest |-> SubSeq(c, first + 1, Len(c))]
      BY <1>1, <1>4
    <3> DEFINE pre == SubSeq(c, 1, first - 1)
               rest == SubSeq(c, first + 1, Len(c))
    <3>2. cmd = [name |-> c[first].text, pre |-> pre, rest |-> rest]
      BY <3>1
    <3> HIDE DEF first, named, pre, rest
    <3>3. cmd.name = c[first].text /\ cmd.pre = pre /\ cmd.rest = rest
      BY <3>2
    <3> QED
      BY <3>3 DEF pre, rest
  <2>3. CommandAt(c, first, cmd)
    BY <1>2, <1>3, <1>4, <2>1, <2>2 DEF CommandAt
  <2> QED
    BY <2>3
<1>5. CASE ~named
  <2> HIDE DEF named, first
  <2> QED
    BY <1>1, <1>5
<1> QED
  BY <1>4, <1>5

\* Where the word is taken out, and perhaps a flag put in that takes no value,
\* what stood for itself still does, and nothing else.
LEMMA Spliced ==
    ASSUME NEW c \in Line, NEW core \in Line, NEW first \in 1..Len(c), NEW m \in 0..1,
           first \notin Values(c), ~c[first].dash,
           Len(core) = (first - 1) + m + (Len(c) - first),
           \A k \in 1..(first - 1) : core[k] = c[k],
           \A k \in 1..(Len(c) - first) : core[(first - 1) + m + k] = c[first + k],
           m = 1 => ~PullsValue(core[first])
    PROVE  /\ \A i \in 1..Len(c) : i \notin Values(c) /\ i # first =>
                 \E j \in 1..Len(core) : j \notin Values(core) /\ core[j] = c[i]
           /\ \A j \in 1..Len(core) : j \notin Values(core) =>
                 \/ \E i \in 1..Len(c) : i \notin Values(c) /\ core[j] = c[i]
                 \/ m = 1 /\ j = first
           /\ m = 1 => first \in 1..Len(core) /\ first \notin Values(core)
<1> DEFINE n == Len(c)
           k0 == first - 1
           k1 == n - first
           e == k0 + m
<1>1. /\ n \in Nat /\ k0 \in Nat /\ k1 \in Nat /\ e \in Nat /\ first \in Nat
      /\ k0 + 1 = first /\ first + k1 = n /\ e + k1 = Len(core) /\ k0 <= n
      /\ k0 <= Len(core) /\ Len(core) \in Nat /\ first <= n
      /\ 0 + k0 <= n /\ 0 + k0 <= Len(core)
  BY ValuesAre
<1>2. \A i \in 1..n : i \in Values(c) <=> i # 1 /\ i - 1 \notin Values(c) /\ PullsValue(c[i - 1])
  BY ValuesAre
<1>3. \A i \in 1..Len(core) : i \in Values(core) <=>
         i # 1 /\ i - 1 \notin Values(core) /\ PullsValue(core[i - 1])
  BY ValuesAre
<1>4. /\ \A k \in 1..k0 : core[k] = c[k]
      /\ \A k \in 1..k1 : core[e + k] = c[first + k]
  OBVIOUS
<1>5. e = k0 + m
  OBVIOUS
<1> HIDE DEF n, k0, k1, e
<1>6. \A k \in 1..k0 : k \in Values(core) <=> k \in Values(c)
  <2>1. ASSUME k0 >= 1 PROVE 0 + 1 \in Values(core) <=> 0 + 1 \in Values(c)
    <3>1. 0 + 1 = 1 /\ 1 \in 1..n /\ 1 \in 1..Len(core)
      BY <1>1, <2>1
    <3> QED
      BY <1>2, <1>3, <3>1
  <2>2. \A k \in 1..k0 : core[0 + k] = c[0 + k]
    BY <1>1, <1>4
  <2>3. \A k \in 1..k0 : 0 + k \in Values(core) <=> 0 + k \in Values(c)
    BY <1>1, <2>1, <2>2, Aligned DEF n
  <2>4. \A k \in 1..k0 : 0 + k = k
    BY <1>1
  <2> QED
    BY <2>3, <2>4
<1>7. first \in 1..Len(core) => first \notin Values(core)
  <2> SUFFICES ASSUME first \in 1..Len(core), first # 1, k0 \notin Values(core),
                      PullsValue(core[k0])
               PROVE  FALSE
    <3>1. first - 1 = k0
      BY <1>1
    <3> QED
      BY <1>3, <3>1
  <2>1. k0 \in 1..k0 /\ first - 1 = k0 /\ first \in 1..n
    BY <1>1
  <2>2. k0 \notin Values(c) /\ PullsValue(c[k0])
    BY <1>4, <1>6, <2>1
  <2> QED
    BY <1>2, <2>1, <2>2
<1>8. k1 >= 1 => first + 1 \in 1..n /\ first + 1 \notin Values(c)
  <2> SUFFICES ASSUME k1 >= 1 PROVE first + 1 \in 1..n /\ first + 1 \notin Values(c)
    OBVIOUS
  <2>1. first + 1 \in 1..n /\ (first + 1) - 1 = first
    BY <1>1
  <2>2. ~PullsValue(c[first])
    BY DEF PullsValue, IsFlag
  <2> QED
    BY <1>2, <2>1, <2>2
<1>9. k1 >= 1 => e + 1 \in 1..Len(core) /\ e + 1 \notin Values(core)
  <2> SUFFICES ASSUME k1 >= 1 PROVE e + 1 \in 1..Len(core) /\ e + 1 \notin Values(core)
    OBVIOUS
  <2>1. e + 1 \in 1..Len(core)
    BY <1>1
  <2>2. CASE m = 0
    <3>1. e + 1 = first
      BY <1>1, <1>5, <2>2
    <3> QED
      BY <1>7, <2>1, <3>1
  <2>3. CASE m = 1
    <3>1. e = first /\ (e + 1) - 1 = first
      BY <1>1, <1>5, <2>3
    <3> QED
      BY <1>3, <2>1, <2>3, <3>1
  <2> QED
    BY <2>2, <2>3
<1>10. \A k \in 1..k1 : e + k \in Values(core) <=> first + k \in Values(c)
  <2>1. first + k1 <= n /\ e + k1 <= Len(core)
    BY <1>1
  <2>2. k1 >= 1 => (e + 1 \in Values(core) <=> first + 1 \in Values(c))
    BY <1>8, <1>9
  <2> QED
    BY <1>1, <1>4, <2>1, <2>2, Aligned DEF n
<1>11. ASSUME NEW i \in 1..n, i \notin Values(c), i # first
       PROVE  \E j \in 1..Len(core) : j \notin Values(core) /\ core[j] = c[i]
  <2>1. CASE i < first
    <3>1. i \in 1..k0 /\ i \in 1..Len(core)
      BY <1>1, <2>1
    <3> QED
      BY <1>4, <1>6, <1>11, <3>1
  <2>2. CASE i > first
    <3> DEFINE k == i - first
    <3>1. k \in 1..k1 /\ first + k = i /\ e + k \in 1..Len(core)
      BY <1>1, <2>2
    <3> HIDE DEF k
    <3>2. e + k \notin Values(core) /\ core[e + k] = c[i]
      BY <1>4, <1>10, <1>11, <3>1
    <3> QED
      BY <3>1, <3>2
  <2> QED
    BY <1>1, <1>11, <2>1, <2>2
<1>12. ASSUME NEW j \in 1..Len(core), j \notin Values(core)
       PROVE  \/ \E i \in 1..n : i \notin Values(c) /\ core[j] = c[i]
              \/ m = 1 /\ j = first
  <2>1. CASE j <= k0
    <3>1. j \in 1..k0 /\ j \in 1..n
      BY <1>1, <2>1
    <3> QED
      BY <1>4, <1>6, <1>12, <3>1
  <2>2. CASE j > e
    <3> DEFINE k == j - e
    <3>1. k \in 1..k1 /\ e + k = j /\ first + k \in 1..n
      BY <1>1, <2>2
    <3> HIDE DEF k
    <3>2. first + k \notin Values(c) /\ core[j] = c[first + k]
      BY <1>4, <1>10, <1>12, <3>1
    <3> QED
      BY <3>1, <3>2
  <2>3. CASE j > k0 /\ j <= e
    <3>1. m = 1 /\ j = first
      BY <1>1, <1>5, <2>3
    <3> QED
      BY <3>1
  <2> QED
    BY <1>1, <2>1, <2>2, <2>3
<1>13. m = 1 => first \in 1..Len(core)
  BY <1>1, <1>5
<1> QED
  BY <1>7, <1>11, <1>12, <1>13 DEF n

\* The actions are flags that take no value, and have names.
LEMMA ActionsAre ==
    ASSUME NEW name \in DOMAIN ActionFlag
    PROVE  /\ Flag(ActionFlag[name]) \in Argument /\ Flag(ActionFlag[name]).dash
           /\ Flag(ActionFlag[name]).inline = NoValue /\ ~PullsValue(Flag(ActionFlag[name]))
           /\ Flag(ActionFlag[name]).text = ActionFlag[name]
           /\ ActionFlag[name] \in ViewsAndActions \cup {"watch"}
           /\ name \in Commands /\ name # NoCommand /\ name # "find"
<1>1. name \in {"kill", "restart", "open", "tree", "conn", "watch"}
  BY DEF ActionFlag
<1>2. ActionFlag[name] \in {"kill", "restart", "open", "tree", "connections", "watch"}
  BY <1>1 DEF ActionFlag
<1>3. ActionFlag[name] \in boolFlags /\ ActionFlag[name] \notin valueFlags
  BY <1>2 DEF boolFlags, valueFlags
<1>4. Flag(ActionFlag[name]) = [dash |-> TRUE, text |-> ActionFlag[name], inline |-> NoValue]
  BY DEF Flag
<1>6. ActionFlag[name] \in ViewsAndActions \cup {"watch"}
  BY <1>2 DEF ViewsAndActions
<1>7. name \in Commands /\ name # NoCommand /\ name # "find"
  BY <1>1 DEF Commands, NoCommand
<1> HIDE DEF ActionFlag
<1> QED
  BY <1>3, <1>4, <1>6, <1>7 DEF Argument, PullsValue, NamesValue

\* Where the arguments of a part of a line were.
LEMMA Slice ==
    ASSUME NEW c \in Line, NEW a \in 1..(Len(c) + 1), NEW b \in 0..Len(c), a <= b + 1
    PROVE  /\ SubSeq(c, a, b) \in Line /\ SubSeq(c, a, b) \in Seq(Argument)
           /\ Len(SubSeq(c, a, b)) = (b - a) + 1
           /\ \A k \in 1..((b - a) + 1) : SubSeq(c, a, b)[k] = c[(a - 1) + k]
<1>1. Len(c) \in Nat /\ a \in Int /\ b \in Int
  BY ValuesAre
<1>2. \A i \in a..b : i \in 1..Len(c)
  BY <1>1
<1>3. \A i \in a..b : c[i] \in Argument
  BY <1>2 DEF Line
<1>4. /\ SubSeq(c, a, b) \in Seq(Argument)
      /\ Len(SubSeq(c, a, b)) = IF a <= b THEN b - a + 1 ELSE 0
      /\ \A k \in 1..(b - a + 1) : SubSeq(c, a, b)[k] = c[a + k - 1]
  BY <1>1, <1>3, SubSeqProperties
<1>5. Len(SubSeq(c, a, b)) = (b - a) + 1
  BY <1>1, <1>4
<1>6. \A k \in 1..((b - a) + 1) : a + k - 1 = (a - 1) + k
  BY <1>1
<1> QED
  BY <1>4, <1>5, <1>6 DEF Line

\* Where the arguments are in two lines joined.
LEMMA Joined ==
    ASSUME NEW s \in Line, NEW t \in Line
    PROVE  /\ s \o t \in Line /\ Len(s \o t) = Len(s) + Len(t)
           /\ \A k \in 1..Len(s) : (s \o t)[k] = s[k]
           /\ \A k \in 1..Len(t) : (s \o t)[Len(s) + k] = t[k]
  BY ConcatProperties DEF Line

\* What executeCore is given, but by find: the flags of the command line and its
\* words, and the action of the subcommand.
LEMMA CoreIs ==
    ASSUME NEW c \in Line, NEW cmd, cmd = extractSubcommand(c), NEW core, core = CoreArgs(c),
           cmd.name # "find"
    PROVE  /\ core \in Line
           /\ \A i \in 1..Len(c) : i \notin Values(c) /\ IsFlag(c[i]) =>
                 \E j \in 1..Len(core) : j \notin Values(core) /\ core[j] = c[i]
           /\ \A j \in 1..Len(core) : j \notin Values(core) =>
                 \/ \E i \in 1..Len(c) : i \notin Values(c) /\ core[j] = c[i]
                 \/ cmd.name \in DOMAIN ActionFlag /\ core[j] = Flag(ActionFlag[cmd.name])
           /\ cmd.name \in DOMAIN ActionFlag =>
                 \E j \in 1..Len(core) : j \notin Values(core) /\ core[j] = Flag(ActionFlag[cmd.name])
<1> DEFINE name == cmd.name
           acts == name \in DOMAIN ActionFlag
           mid == IF acts THEN <<Flag(ActionFlag[name])>> ELSE <<>>
           m == IF acts THEN 1 ELSE 0
<1>1. core = (cmd.pre \o mid) \o cmd.rest
  <2>1. CASE acts
    BY <2>1 DEF CoreArgs
  <2>2. CASE ~acts
    <3>1. cmd.pre \in Seq(Argument)
      <4>1. CASE cmd.pre = <<>>
        BY <4>1
      <4>2. CASE \E first : CommandAt(c, first, cmd)
        <5>1. PICK first : CommandAt(c, first, cmd)
          BY <4>2
        <5>2. Len(c) \in Nat /\ first \in 1..Len(c) /\ cmd.pre = SubSeq(c, 1, first - 1)
          BY <5>1, ValuesAre DEF CommandAt
        <5>3. \A i \in 1..(first - 1) : c[i] \in Argument
          BY <5>2 DEF Line
        <5> QED
          BY <5>2, <5>3
      <4> QED
        BY <4>1, <4>2, CommandIs
    <3>2. cmd.pre \o <<>> = cmd.pre
      BY <3>1
    <3>3. core = cmd.pre \o cmd.rest
      BY <2>2 DEF CoreArgs
    <3> QED
      BY <2>2, <3>2, <3>3
  <2> QED
    BY <2>1, <2>2
<1>2. /\ mid \in Seq(Argument) /\ Len(mid) = m /\ m \in 0..1
      /\ acts => mid[1] = Flag(ActionFlag[name]) /\ m = 1
      /\ m = 1 => acts
  <2>1. CASE acts
    <3>1. Flag(ActionFlag[name]) \in Argument /\ mid = <<Flag(ActionFlag[name])>> /\ m = 1
      BY <2>1, ActionsAre
    <3> HIDE DEF mid, m
    <3> QED
      BY <2>1, <3>1
  <2>2. CASE ~acts
    BY <2>2
  <2> QED
    BY <2>1, <2>2
<1>3. Len(c) \in Nat /\ \A i \in 1..Len(c) : c[i] \in Argument
  BY ValuesAre DEF Line
<1> HIDE DEF mid, m
<1>4. CASE cmd.name = NoCommand /\ cmd.pre = <<>> /\ cmd.rest = c
  <2>1. ~acts
    BY <1>4, ActionsAre
  <2>2. m = 0 /\ mid = <<>>
    BY <2>1 DEF m, mid
  <2>3. core = c
    <3>1. <<>> \o <<>> = <<>> /\ <<>> \o c = c
      BY DEF Line
    <3> QED
      BY <1>1, <1>4, <2>2, <3>1
  <2> QED
    BY <2>1, <2>3
<1>5. CASE \E first : CommandAt(c, first, cmd)
  <2>1. PICK first : CommandAt(c, first, cmd)
    BY <1>5
  <2>2. /\ first \in 1..Len(c) /\ first \notin Values(c) /\ ~c[first].dash
        /\ cmd.pre = SubSeq(c, 1, first - 1) /\ cmd.rest = SubSeq(c, first + 1, Len(c))
    BY <2>1 DEF CommandAt
  <2> DEFINE n == Len(c)
             pre == cmd.pre
             rest == cmd.rest
             k0 == first - 1
             k1 == n - first
  <2>3. /\ pre \in Seq(Argument) /\ Len(pre) = k0 /\ \A k \in 1..k0 : pre[k] = c[k]
        /\ k0 \in Nat
    <3>1. first - 1 \in 0..Len(c) /\ 1 \in 1..(Len(c) + 1) /\ 1 <= (first - 1) + 1
      BY <1>3, <2>2
    <3>2. /\ pre \in Seq(Argument) /\ Len(pre) = ((first - 1) - 1) + 1
          /\ \A k \in 1..(((first - 1) - 1) + 1) : pre[k] = c[(1 - 1) + k]
      BY <2>2, <3>1, Slice
    <3>3. ((first - 1) - 1) + 1 = k0 /\ k0 \in Nat /\ \A k \in 1..k0 : (1 - 1) + k = k
      BY <2>2, <3>1
    <3> QED
      BY <3>2, <3>3
  <2>4. /\ rest \in Seq(Argument) /\ Len(rest) = k1 /\ \A k \in 1..k1 : rest[k] = c[first + k]
        /\ k1 \in Nat
    <3>1. n \in 0..Len(c) /\ first + 1 \in 1..(Len(c) + 1) /\ first + 1 <= n + 1
      BY <1>3, <2>2
    <3>2. /\ rest \in Seq(Argument) /\ Len(rest) = (n - (first + 1)) + 1
          /\ \A k \in 1..((n - (first + 1)) + 1) : rest[k] = c[((first + 1) - 1) + k]
      BY <2>2, <3>1, Slice
    <3>3. (n - (first + 1)) + 1 = k1 /\ k1 \in Nat /\ (first + 1) - 1 = first
      BY <1>3, <2>2
    <3> QED
      BY <3>2, <3>3
  <2>5. core = (pre \o mid) \o rest
    BY <1>1
  <2> HIDE DEF pre, rest
  <2>6. /\ pre \o mid \in Seq(Argument) /\ Len(pre \o mid) = k0 + m
        /\ \A k \in 1..k0 : (pre \o mid)[k] = c[k]
        /\ m = 1 => (pre \o mid)[k0 + 1] = mid[1]
    <3>1. pre \in Line /\ mid \in Line
      BY <1>2, <2>3 DEF Line
    <3>2. /\ pre \o mid \in Line /\ Len(pre \o mid) = Len(pre) + Len(mid)
          /\ \A k \in 1..Len(pre) : (pre \o mid)[k] = pre[k]
          /\ \A k \in 1..Len(mid) : (pre \o mid)[Len(pre) + k] = mid[k]
      BY <3>1, Joined
    <3>3. m = 1 => 1 \in 1..Len(mid)
      BY <1>2
    <3> QED
      BY <1>2, <2>3, <3>2, <3>3 DEF Line
  <2> DEFINE front == pre \o mid
  <2>7. /\ core \in Seq(Argument) /\ Len(core) = (k0 + m) + k1
        /\ \A k \in 1..(k0 + m) : core[k] = front[k]
        /\ \A k \in 1..k1 : core[(k0 + m) + k] = c[first + k]
    <3>1. front \in Seq(Argument) /\ Len(front) = k0 + m
      BY <2>6
    <3> HIDE DEF front, k0, k1
    <3>2. core = front \o rest
      BY <2>5 DEF front
    <3>3. front \in Line /\ rest \in Line
      BY <2>4, <3>1 DEF Line
    <3>4. /\ core \in Line /\ Len(core) = Len(front) + Len(rest)
          /\ \A k \in 1..Len(front) : core[k] = front[k]
          /\ \A k \in 1..Len(rest) : core[Len(front) + k] = rest[k]
      BY <3>2, <3>3, Joined
    <3> QED
      BY <2>4, <3>1, <3>4 DEF Line
  <2>8. /\ core \in Line
        /\ \A k \in 1..k0 : core[k] = c[k]
        /\ m = 1 => core[first] = mid[1]
    <3> HIDE DEF front
    <3>1. \A k \in 1..k0 : k \in 1..(k0 + m)
      BY <1>2, <2>3
    <3>2. m = 1 => first \in 1..(k0 + m) /\ k0 + 1 = first
      BY <2>2
    <3> QED
      BY <2>6, <2>7, <3>1, <3>2 DEF front, Line
  <2>9. m = 1 => ~PullsValue(core[first])
    BY <1>2, <2>8, ActionsAre
  <2>10. /\ \A i \in 1..Len(c) : i \notin Values(c) /\ i # first =>
                 \E j \in 1..Len(core) : j \notin Values(core) /\ core[j] = c[i]
         /\ \A j \in 1..Len(core) : j \notin Values(core) =>
                 \/ \E i \in 1..Len(c) : i \notin Values(c) /\ core[j] = c[i]
                 \/ m = 1 /\ j = first
         /\ m = 1 => first \in 1..Len(core) /\ first \notin Values(core)
    <3>1. m \in 0..1 /\ Len(core) = (first - 1) + m + (Len(c) - first)
      BY <1>2, <2>7
    <3>2. \A k \in 1..(first - 1) : core[k] = c[k]
      BY <2>8
    <3>3. \A k \in 1..(Len(c) - first) : core[(first - 1) + m + k] = c[first + k]
      BY <2>7
    <3>4. core \in Line
      BY <2>8
    <3> HIDE DEF front, k0, k1
    <3> QED
      BY ONLY <2>2, <2>9, <3>1, <3>2, <3>3, <3>4, Spliced, c \in Line, Zenon
  <2>11. \A i \in 1..Len(c) : IsFlag(c[i]) => i # first
    BY <2>2 DEF IsFlag
  <2> QED
    BY <1>2, <2>8, <2>10, <2>11
<1> QED
  BY <1>4, <1>5, CommandIs

\* Two lists of arguments of the line, or flags, make one.
LEMMA JoinedKept ==
    ASSUME NEW c \in Line, NEW s \in Line, NEW t \in Line,
           \A j \in 1..Len(s) : s[j].dash \/ \E i \in 1..Len(c) : s[j] = c[i],
           \A j \in 1..Len(t) : t[j].dash \/ \E i \in 1..Len(c) : t[j] = c[i]
    PROVE  /\ s \o t \in Line
           /\ \A j \in 1..Len(s \o t) : (s \o t)[j].dash \/ \E i \in 1..Len(c) : (s \o t)[j] = c[i]
<1> DEFINE all == s \o t
<1>1. /\ all \in Line /\ Len(all) = Len(s) + Len(t)
      /\ \A k \in 1..Len(s) : all[k] = s[k]
      /\ \A k \in 1..Len(t) : all[Len(s) + k] = t[k]
  BY Joined
<1> HIDE DEF all
<1>2. Len(s) \in Nat /\ Len(t) \in Nat
  BY ValuesAre
<1>3. ASSUME NEW j \in 1..Len(all)
      PROVE  (\E k \in 1..Len(s) : all[j] = s[k]) \/ (\E k \in 1..Len(t) : all[j] = t[k])
  <2>1. CASE j <= Len(s)
    <3>1. j \in 1..Len(s)
      BY <1>2, <2>1
    <3> QED
      BY <1>1, <3>1
  <2>2. CASE j > Len(s)
    <3>1. j - Len(s) \in 1..Len(t) /\ Len(s) + (j - Len(s)) = j
      BY <1>1, <1>2, <2>2
    <3> QED
      BY <1>1, <3>1
  <2> QED
    BY <1>1, <1>2, <2>1, <2>2
<1>4. ASSUME NEW j \in 1..Len(all)
      PROVE  all[j].dash \/ \E i \in 1..Len(c) : all[j] = c[i]
  <2>1. CASE \E k \in 1..Len(s) : all[j] = s[k]
    BY <2>1
  <2>2. CASE \E k \in 1..Len(t) : all[j] = t[k]
    BY <2>2
  <2> QED
    BY <1>3, <2>1, <2>2
<1>5. all \in Line /\ \A j \in 1..Len(all) : all[j].dash \/ \E i \in 1..Len(c) : all[j] = c[i]
  BY <1>1, <1>4
<1> QED
  BY <1>5 DEF all

\* What find hands over: arguments of the command line, and a flag.
LEMMA FindIs ==
    ASSUME NEW c \in Line, NEW cmd, cmd = extractSubcommand(c), NEW core, core = CoreArgs(c),
           cmd.name = "find"
    PROVE  /\ core \in Line
           /\ \A j \in 1..Len(core) : core[j].dash \/ \E i \in 1..Len(c) : core[j] = c[i]
<1> DEFINE Kept(s) == \A j \in 1..Len(s) : s[j].dash \/ \E i \in 1..Len(c) : s[j] = c[i]
           pre == cmd.pre
           rest == cmd.rest
           q == FindQueries(rest)
           query == rest[Min(q)]
           left == At(rest, DOMAIN rest \ {Min(q)})
           source == IF IsNumber(query) /\ Numeral[query.text] > 0 THEN "pid" ELSE "name"
<1>1. pre \in Line /\ Kept(pre) /\ rest \in Line /\ Kept(rest)
  <2>1. PICK first : CommandAt(c, first, cmd)
    <3>1. NoCommand # "find"
      BY DEF NoCommand
    <3> QED
      BY <3>1, CommandIs
  <2>2. /\ first \in 1..Len(c) /\ Len(c) \in Nat
        /\ pre = SubSeq(c, 1, first - 1) /\ rest = SubSeq(c, first + 1, Len(c))
    BY <2>1, ValuesAre DEF CommandAt
  <2> HIDE DEF pre, rest
  <2>3. pre \in Line /\ Kept(pre)
    <3>1. first - 1 \in 0..Len(c) /\ 1 \in 1..(Len(c) + 1) /\ 1 <= (first - 1) + 1
      BY <2>2
    <3>2. /\ pre \in Line /\ Len(pre) = ((first - 1) - 1) + 1
          /\ \A k \in 1..(((first - 1) - 1) + 1) : pre[k] = c[(1 - 1) + k]
      BY <2>2, <3>1, Slice
    <3>3. \A k \in 1..(((first - 1) - 1) + 1) : (1 - 1) + k \in 1..Len(c)
      BY <2>2
    <3> QED
      BY <3>2, <3>3
  <2>4. rest \in Line /\ Kept(rest)
    <3>1. Len(c) \in 0..Len(c) /\ first + 1 \in 1..(Len(c) + 1) /\ first + 1 <= Len(c) + 1
      BY <2>2
    <3>2. /\ rest \in Line /\ Len(rest) = (Len(c) - (first + 1)) + 1
          /\ \A k \in 1..((Len(c) - (first + 1)) + 1) : rest[k] = c[((first + 1) - 1) + k]
      BY <2>2, <3>1, Slice
    <3>3. \A k \in 1..((Len(c) - (first + 1)) + 1) : ((first + 1) - 1) + k \in 1..Len(c)
      BY <2>2
    <3> QED
      BY <3>2, <3>3
  <2> QED
    BY <2>3, <2>4
<1> DEFINE handed == FindArgs(rest)
<1>2. core = pre \o handed
  BY DEF CoreArgs
<1>3. handed = IF q = {} THEN rest
               ELSE IF FindHasTarget(rest) THEN left ELSE <<Flag(source), query>> \o left
  BY DEF FindArgs
<1>a. Len(rest) \in Nat /\ DOMAIN rest = 1..Len(rest)
  BY <1>1, ValuesAre
<1>b. q \subseteq 1..Len(rest)
  BY <1>a DEF FindQueries
<1> HIDE DEF pre, rest, q, handed
<1>4. CASE q = {}
  <2>1. handed = rest
    BY <1>3, <1>4
  <2>2. handed \in Line /\ Kept(handed)
    BY <1>1, <2>1
  <2>3. pre \o handed \in Line /\ Kept(pre \o handed)
    BY ONLY <1>1, <2>2, c \in Line, JoinedKept
  <2> QED
    BY <1>2, <2>3
<1>5. CASE q # {}
  <2>1. Min(q) \in 1..Len(rest)
    BY <1>a, <1>b, <1>5, LeastOf
  <2>2. query \in Argument /\ (query.dash \/ \E i \in 1..Len(c) : query = c[i])
    BY <1>1, <2>1 DEF Line
  <2> DEFINE P == DOMAIN rest \ {Min(q)}
  <2>3. P \subseteq 1..Len(rest)
    BY <1>a
  <2> HIDE DEF P
  <2>4. left \in Line /\ Kept(left)
    <3>1. /\ left \in Line /\ Len(left) = Cardinality(P)
          /\ \A k \in 1..Cardinality(P) : Nth(P, k) \in P /\ left[k] = rest[Nth(P, k)]
      <4>1. left = At(rest, P)
        BY DEF P
      <4> HIDE DEF left
      <4>2. rest \in Line
        BY <1>1
      <4>3. left \in Line /\ Len(left) = Cardinality(P)
        BY <2>3, <4>1, <4>2, AtHas
      <4>4. \A k \in 1..Cardinality(P) : Nth(P, k) \in P
        BY <1>a, <2>3, NthOf
      <4>5. left = [k \in 1..Cardinality(P) |-> rest[Nth(P, k)]]
        BY <4>1 DEF At
      <4> QED
        BY <4>3, <4>4, <4>5
    <3> HIDE DEF left
    <3> QED
      BY <1>1, <2>3, <3>1
  <2> DEFINE asked == <<Flag(source), query>>
  <2>5. Flag(source) \in Argument /\ Flag(source).dash
    <3>1. source \in valueFlags
      BY DEF valueFlags
    <3>2. Flag(source) = [dash |-> TRUE, text |-> source, inline |-> NoValue]
      BY DEF Flag
    <3> HIDE DEF source
    <3> QED
      BY <3>1, <3>2 DEF Argument
  <2> HIDE DEF left, source, query
  <2>6. asked \in Line /\ Kept(asked)
    <3>1. Len(asked) = 2 /\ asked[1] = Flag(source) /\ asked[2] = query
      OBVIOUS
    <3>2. asked \in Line
      BY <2>2, <2>5 DEF Line
    <3> HIDE DEF asked
    <3>3. \A j \in 1..Len(asked) : j = 1 \/ j = 2
      BY <3>1
    <3> QED
      BY <2>2, <2>5, <3>1, <3>2, <3>3
  <2> HIDE DEF asked
  <2>7. handed \in Line /\ Kept(handed)
    <3>1. CASE FindHasTarget(rest)
      BY <1>3, <1>5, <2>4, <3>1
    <3>2. CASE ~FindHasTarget(rest)
      <4>1. handed = asked \o left
        BY <1>3, <1>5, <3>2 DEF asked
      <4> QED
        BY <2>4, <2>6, <4>1, JoinedKept
    <3> QED
      BY <3>1, <3>2
  <2>8. pre \o handed \in Line /\ Kept(pre \o handed)
    BY ONLY <1>1, <2>7, c \in Line, JoinedKept
  <2> QED
    BY <1>2, <2>8
<1> QED
  BY <1>4, <1>5

-----------------------------------------------------------------------------
(* What the options are made of.                                           *)

\* A word that is a port comes to the ports from one end to the other.
LEMMA PortsOfWord ==
    ASSUME NEW t, IsPortArg(t)
    PROVE  /\ Ends(t)[1] \in Int /\ Ends(t)[2] \in Int
           /\ parsePortArg(t) \in Seq(Int) /\ Len(parsePortArg(t)) >= 1
           /\ \A k \in DOMAIN parsePortArg(t) : parsePortArg(t)[k] \in Ends(t)[1]..Ends(t)[2]
<1> DEFINE lo == Ends(t)[1]
           hi == Ends(t)[2]
           ports == [k \in 1 .. hi - lo + 1 |-> lo + k - 1]
<1>2. lo \in Int /\ hi \in Int
  <2>1. CASE IsNumber(t)
    <3>1. Ends(t) = <<Numeral[t.text], Numeral[t.text]>> /\ Numeral[t.text] \in Int
      BY <2>1, ArgumentConstants DEF Ends, IsNumber
    <3> QED
      BY <3>1
  <2>2. CASE ~IsNumber(t)
    <3>1. t.text \in DOMAIN Span
      BY <2>2 DEF IsPortArg, IsNumber
    <3>2. Ends(t) \in Int \X Int
      BY <2>2, <3>1, ArgumentConstants DEF Ends
    <3> QED
      BY <3>2
  <2> QED
    BY <2>1, <2>2
<1>3. parsePortArg(t) = ports
  BY DEF parsePortArg
<1>4. lo <= hi
  BY DEF IsPortArg
<1> HIDE DEF lo, hi
<1>5. /\ hi - lo + 1 \in Nat /\ hi - lo + 1 >= 1
      /\ \A k \in 1 .. hi - lo + 1 : lo + k - 1 \in lo..hi
  BY <1>2, <1>4
<1>6. ports \in [1 .. hi - lo + 1 -> Int] /\ \A k \in DOMAIN ports : ports[k] \in lo..hi
  BY <1>2, <1>5
<1>7. ports \in Seq(Int) /\ Len(ports) >= 1
  BY <1>5, <1>6
<1> HIDE DEF ports
<1> QED
  BY <1>2, <1>3, <1>6, <1>7 DEF lo, hi

\* A port that is inspected lies in what a word names.
LEMMA PortsAreNamed ==
    ASSUME NEW words \in Line, AllPorts(words), NEW p \in ToSet(PortsNamed(words))
    PROVE  \E t \in ToSet(words) : p \in Ends(t)[1]..Ends(t)[2]
<1> DEFINE n == Len(words)
           ss == [i \in DOMAIN words |-> parsePortArg(words[i])]
           all == FlattenSeq(ss)
           P == {i \in DOMAIN all : \A j \in 1 .. i - 1 : all[j] # all[i]}
<1>1. n \in Nat /\ DOMAIN words = 1..n
  BY ValuesAre
<1>2. ASSUME NEW i \in 1..n
      PROVE  /\ Ends(words[i])[1] \in Int /\ Ends(words[i])[2] \in Int
             /\ parsePortArg(words[i]) \in Seq(Int)
             /\ \A k \in DOMAIN parsePortArg(words[i]) :
                   parsePortArg(words[i])[k] \in Ends(words[i])[1]..Ends(words[i])[2]
  <2>1. IsPortArg(words[i])
    BY <1>1 DEF AllPorts, ToSet
  <2> QED
    BY <2>1, PortsOfWord
<1>3. ss \in [1..n -> Seq(Int)] /\ \A i \in 1..n : ss[i] = parsePortArg(words[i])
  BY <1>1, <1>2
<1>4. PortsNamed(words) = At(all, P)
  BY DEF PortsNamed, dedupePorts
<1> HIDE DEF ss, n
<1>5. all \in Seq(Int) /\ \E at : Lays(at, ss, n, all)
  BY <1>1, <1>3, Laid
<1>6. Len(all) \in Nat /\ DOMAIN all = 1..Len(all)
  BY <1>5
<1>7. P \subseteq 1..Len(all)
  BY <1>6
<1> HIDE DEF P, all
<1>8. /\ Cardinality(P) \in Nat
      /\ \A k \in 1..Cardinality(P) : Nth(P, k) \in 1..Len(all)
  BY <1>6, <1>7, NthOf
<1>9. PICK j \in 1..Len(all) : p = all[j]
  <2>1. At(all, P) = [k \in 1..Cardinality(P) |-> all[Nth(P, k)]]
    BY DEF At
  <2>2. PICK k \in 1..Cardinality(P) : p = all[Nth(P, k)]
    BY <1>4, <2>1 DEF ToSet
  <2> QED
    BY <1>8, <2>2
<1>10. PICK i \in 1..n : \E k \in 1..Len(ss[i]) : all[j] = ss[i][k]
  <2>1. PICK at : Lays(at, ss, n, all)
    BY <1>5
  <2>2. PICK i \in 1..n : \E k \in 1..Len(ss[i]) : j = at[i] + k
    BY <2>1 DEF Lays
  <2>3. PICK k \in 1..Len(ss[i]) : j = at[i] + k
    BY <2>2
  <2>4. all[at[i] + k] = ss[i][k]
    BY <2>1 DEF Lays
  <2> QED
    BY <2>3, <2>4
<1>11. PICK k \in 1..Len(ss[i]) : all[j] = ss[i][k]
  BY <1>10
<1>12. p \in Ends(words[i])[1]..Ends(words[i])[2]
  <2>1. ss[i] = parsePortArg(words[i]) /\ ss[i] \in Seq(Int)
    BY <1>3
  <2>2. k \in DOMAIN ss[i]
    BY <2>1
  <2> QED
    BY <1>2, <1>9, <1>11, <2>1, <2>2
<1>13. words[i] \in ToSet(words)
  BY <1>1 DEF ToSet, n
<1> QED
  BY <1>12, <1>13

\* Words that are ports come to ports.
LEMMA WordsArePorts ==
    ASSUME NEW words \in Line, AllPorts(words), PortsNamed(words) = <<>>
    PROVE  words = <<>>
<1> DEFINE n == Len(words)
           ss == [i \in DOMAIN words |-> parsePortArg(words[i])]
           all == FlattenSeq(ss)
           P == {i \in DOMAIN all : \A j \in 1 .. i - 1 : all[j] # all[i]}
<1> SUFFICES ASSUME words # <<>> PROVE FALSE
  OBVIOUS
<1>1. n \in Nat /\ DOMAIN words = 1..n /\ n >= 1 /\ 1 \in 1..n
  BY ValuesAre DEF Line
<1>2. \A i \in 1..n : parsePortArg(words[i]) \in Seq(Int) /\ Len(parsePortArg(words[i])) >= 1
  <2>1. \A i \in 1..n : IsPortArg(words[i])
    BY <1>1 DEF AllPorts, ToSet
  <2> QED
    BY <2>1, PortsOfWord
<1>3. ss \in [1..n -> Seq(Int)] /\ \A i \in 1..n : ss[i] = parsePortArg(words[i])
  BY <1>1, <1>2
<1>4. PortsNamed(words) = At(all, P)
  BY DEF PortsNamed, dedupePorts
<1> HIDE DEF ss, n
<1>5. all \in Seq(Int) /\ \E at : Lays(at, ss, n, all)
  BY <1>1, <1>3, Laid
<1>6. PICK at : Lays(at, ss, n, all)
  BY <1>5
<1>7. Len(all) \in Nat /\ DOMAIN all = 1..Len(all) /\ 1 \in 1..Len(all)
  <2>1. at[1] = 0 /\ at[1 + 1] = at[1] + Len(ss[1]) /\ at[1 + 1] <= Len(all)
    BY <1>1, <1>6 DEF Lays
  <2>2. Len(ss[1]) \in Nat /\ Len(ss[1]) >= 1
    BY <1>1, <1>2, <1>3
  <2>3. Len(all) \in Nat /\ DOMAIN all = 1..Len(all)
    BY <1>5
  <2> QED
    BY <2>1, <2>2, <2>3
<1>8. 1 \in P /\ P \subseteq 1..Len(all)
  BY <1>7
<1> HIDE DEF P, all
<1>9. Rank(P, 1) \in 1..Cardinality(P) /\ Cardinality(P) \in Nat
  BY <1>7, <1>8, NthOf
<1>10. DOMAIN At(all, P) = 1..Cardinality(P)
  BY DEF At
<1> QED
  BY <1>4, <1>9, <1>10

\* A word that is a port names what it says.
LEMMA NamesItself ==
    ASSUME NEW t \in Argument, IsPortArg(t), NEW p \in Ends(t)[1]..Ends(t)[2]
    PROVE  p \in NamedBy(t)
<1>1. ~t.dash /\ t.text \in DOMAIN Numeral \cup DOMAIN Span
  BY DEF IsPortArg
<1>2. t.text \notin DOMAIN Groups
  BY <1>1, ArgumentConstants
<1> QED
  BY <1>1, <1>2 DEF NamedBy

\* The ports of a group are what the reference to it names, and no flags.
LEMMA NamedByGroup ==
    ASSUME NEW t, NEW g \in Argument, FromGroup(t, g), NEW p \in Ends(t)[1]..Ends(t)[2]
    PROVE  ~t.dash /\ p \in NamedBy(g)
<1>1. ~g.dash /\ g.text \in DOMAIN Groups
  BY DEF FromGroup
<1> DEFINE ports == Groups[g.text]
<1>2. PICK k \in DOMAIN ports : t = Decimal(ports[k])
  BY DEF FromGroup
<1>3. ports \in Seq(1..MaxPort)
  BY <1>1, ArgumentConstants
<1>4. NamedBy(g) = ToSet(ports)
  BY <1>1 DEF NamedBy
<1> HIDE DEF ports
<1>5. ports[k] \in 1..MaxPort /\ ports[k] \in ToSet(ports)
  <2>1. k \in 1..Len(ports)
    BY <1>3
  <2> QED
    BY <1>3, <2>1, ElementOfSeq DEF ToSet
<1>6. ~t.dash /\ t.text \in DOMAIN Numeral /\ Numeral[t.text] = ports[k]
  BY <1>2, <1>5, DecimalIs
<1>7. Ends(t) = <<ports[k], ports[k]>>
  BY <1>6 DEF Ends, IsNumber
<1>8. p = ports[k]
  <2>1. Ends(t)[1] = ports[k] /\ Ends(t)[2] = ports[k] /\ ports[k] \in Int
    BY <1>5, <1>7
  <2> QED
    BY <2>1
<1> QED
  BY <1>4, <1>5, <1>6, <1>8

\* No port of a group is a flag.
LEMMA GroupPortIsWord ==
    ASSUME NEW t, NEW g \in Argument, FromGroup(t, g)
    PROVE  ~t.dash
<1>1. ~g.dash /\ g.text \in DOMAIN Groups
  BY DEF FromGroup
<1> DEFINE ports == Groups[g.text]
<1>2. PICK k \in DOMAIN ports : t = Decimal(ports[k])
  BY DEF FromGroup
<1>3. ports \in Seq(1..MaxPort)
  BY <1>1, ArgumentConstants
<1> HIDE DEF ports
<1>4. ports[k] \in 1..MaxPort
  <2>1. k \in 1..Len(ports)
    BY <1>3
  <2> QED
    BY <1>3, <2>1, ElementOfSeq
<1> QED
  BY <1>2, <1>4, DecimalIs

\* Every port of an accepted command line is named by an argument of it that
\* stands for itself, or by any, if find is asked.
LEMMA PortsComeFrom ==
    ASSUME NEW c \in Line, NEW e, e = expandGroups(CoreArgs(c)),
           AllPorts(reorderArgs(e).positional),
           NEW p \in ToSet(PortsNamed(reorderArgs(e).positional))
    PROVE  \E i \in 1..Len(c) : /\ i \notin Values(c) \/ extractSubcommand(c).name = "find"
                                /\ p \in NamedBy(c[i])
<1> DEFINE cmd == extractSubcommand(c)
           core == CoreArgs(c)
           words == reorderArgs(e).positional
<1>1. core \in Line
  BY CoreIs, FindIs
<1>2. e \in Line
  BY <1>1, ExpandLays
<1>3. words \in Line /\ \A t \in ToSet(words) : \E j \in 1..Len(e) : j \notin Values(e) /\ e[j] = t
  BY <1>2, Reordered
<1>4. PICK t \in ToSet(words) : p \in Ends(t)[1]..Ends(t)[2]
  BY <1>3, PortsAreNamed
<1>5. IsPortArg(t)
  BY DEF AllPorts
<1>6. PICK j \in 1..Len(e) : j \notin Values(e) /\ e[j] = t
  BY <1>3
<1>7. t \in Argument
  BY <1>2, <1>6 DEF Line
<1>8. PICK i \in 1..Len(core) : /\ i \notin Values(core) \/ cmd.name = "find"
                                /\ t = core[i] \/ FromGroup(t, core[i])
  <2>1. \E i \in 1..Len(core) : i \notin Values(core) /\ (e[j] = core[i] \/ FromGroup(e[j], core[i]))
    BY <1>1, <1>6, Expanded
  <2> QED
    BY <1>6, <2>1
<1>9. core[i] \in Argument
  BY <1>1 DEF Line
<1>10. p \in NamedBy(core[i]) /\ ~core[i].dash
  <2>1. CASE t = core[i]
    BY <1>4, <1>5, <1>7, <2>1, NamesItself DEF IsPortArg
  <2>2. CASE FromGroup(t, core[i])
    BY <1>4, <1>9, <2>2, NamedByGroup DEF FromGroup
  <2> QED
    BY <1>8, <2>1, <2>2
<1>11. CASE cmd.name = "find"
  <2>1. PICK k \in 1..Len(c) : core[i] = c[k]
    BY <1>10, <1>11, FindIs
  <2> QED
    BY <1>10, <1>11, <2>1
<1>12. CASE cmd.name # "find"
  <2>1. i \notin Values(core)
    BY <1>8, <1>12
  <2>2. \/ \E k \in 1..Len(c) : k \notin Values(c) /\ core[i] = c[k]
        \/ cmd.name \in DOMAIN ActionFlag /\ core[i] = Flag(ActionFlag[cmd.name])
    BY <1>12, <2>1, CoreIs
  <2>3. PICK k \in 1..Len(c) : k \notin Values(c) /\ core[i] = c[k]
    BY <1>10, <2>2, ActionsAre
  <2> QED
    BY <1>10, <2>3
<1> QED
  BY <1>11, <1>12

\* A flag is given as false.
TurnsOff(c, n) == \E t \in ToSet(c) : t.dash /\ t.text = n /\ t.inline \in Falsehoods

\* The line asks for a view or an action: by a flag, or by the subcommand.
Asked(c, n) ==
    \/ \E i \in 1..Len(c) : i \notin Values(c) /\ c[i] = Flag(n)
    \/ /\ extractSubcommand(c).name \in DOMAIN ActionFlag
       /\ n = ActionFlag[extractSubcommand(c).name]

\* A view or an action that is asked for is on, if nothing turns it off again.
LEMMA AskedIsOn ==
    ASSUME NEW c \in Line, NEW e, e = expandGroups(CoreArgs(c)),
           AllPorts(reorderArgs(e).positional), extractSubcommand(c).name # "find",
           NEW n, ~TurnsOff(c, n), n \in ViewsAndActions \cup {"watch"}, Asked(c, n)
    PROVE  n \in ParsedFlags(reorderArgs(e).flags).on
<1> DEFINE cmd == extractSubcommand(c)
           core == CoreArgs(c)
           flags == reorderArgs(e).flags
           uses == {i \in DOMAIN flags : Own(flags, PullsValue)[i] /\ flags[i].text = n}
<1>1. core \in Line
  BY CoreIs
<1>2. e \in Line
  BY <1>1, ExpandLays
<1>3. /\ flags \in Line
      /\ \A i \in 1..Len(e) : i \notin Values(e) /\ IsFlag(e[i]) =>
            \E k \in 1..Len(flags) : k \notin Values(flags) /\ flags[k] = e[i]
      /\ \A k \in 1..Len(flags) : k \notin Values(flags) =>
            \E i \in 1..Len(e) : i \notin Values(e) /\ IsFlag(e[i]) /\ flags[k] = e[i]
  <2> DEFINE words == reorderArgs(e).positional
  <2>1. AllPorts(words) /\ words = reorderArgs(e).positional /\ flags = reorderArgs(e).flags
    OBVIOUS
  <2> HIDE DEF flags, words
  <2> QED
    BY ONLY <1>2, <2>1, Reordered
<1>4. n \in boolFlags /\ n # ""
  BY DEF ViewsAndActions, boolFlags
<1>5. IsFlag(Flag(n)) /\ Flag(n).text = n
  <2>1. Flag(n) = [dash |-> TRUE, text |-> n, inline |-> NoValue]
    BY DEF Flag
  <2>2. DashDash.text = ""
    BY DEF DashDash, Flag
  <2>3. Flag(n).text = n /\ Flag(n).dash
    BY <2>1
  <2>4. Flag(n) # DashDash
    BY <1>4, <2>2, <2>3
  <2> QED
    BY <2>3, <2>4 DEF IsFlag
<1> HIDE DEF flags, core
<1>6. \E j \in 1..Len(core) : j \notin Values(core) /\ core[j] = Flag(n)
  <2>1. CASE \E i \in 1..Len(c) : i \notin Values(c) /\ c[i] = Flag(n)
    <3>1. PICK i \in 1..Len(c) : i \notin Values(c) /\ c[i] = Flag(n)
      BY <2>1
    <3>2. \E j \in 1..Len(core) : j \notin Values(core) /\ core[j] = c[i]
      BY <1>5, <3>1, CoreIs DEF core
    <3> QED
      BY <3>1, <3>2
  <2>2. CASE cmd.name \in DOMAIN ActionFlag /\ n = ActionFlag[cmd.name]
    BY <2>2, CoreIs DEF core
  <2> QED
    BY <2>1, <2>2 DEF Asked
<1>7. \E j \in 1..Len(e) : j \notin Values(e) /\ e[j] = Flag(n)
  <2>1. PICK j \in 1..Len(core) : j \notin Values(core) /\ core[j] = Flag(n)
    BY <1>6
  <2>2. \E i \in 1..Len(e) : i \notin Values(e) /\ e[i] = core[j]
    BY <1>1, <1>5, <2>1, Expanded DEF core
  <2> QED
    BY <2>1, <2>2
<1>8. PICK k \in 1..Len(flags) : k \notin Values(flags) /\ flags[k] = Flag(n)
  <2>1. PICK j \in 1..Len(e) : j \notin Values(e) /\ e[j] = Flag(n)
    BY <1>7
  <2> QED
    BY <1>3, <1>5, <2>1
<1>9. Len(flags) \in Nat /\ uses = {i \in 1..Len(flags) : i \notin Values(flags) /\ flags[i].text = n}
  <2>1. /\ Len(flags) \in Nat /\ DOMAIN flags = 1..Len(flags)
        /\ \A i \in 1..Len(flags) : Own(flags, PullsValue)[i] <=> i \notin Values(flags)
    BY <1>3, ValuesAre
  <2> QED
    BY <2>1
<1>10. uses # {} /\ Max(uses) \in uses
  <2>1. k \in uses
    BY <1>5, <1>8, <1>9
  <2>2. uses \subseteq 1..Len(flags)
    BY <1>9
  <2> HIDE DEF uses
  <2> QED
    BY <1>9, <2>1, <2>2, LeastOf
<1> DEFINE last == flags[Max(uses)]
<1>11. PICK i \in 1..Len(e) : i \notin Values(e) /\ IsFlag(e[i]) /\ last = e[i]
  <2>1. Max(uses) \in 1..Len(flags) /\ Max(uses) \notin Values(flags)
    BY <1>9, <1>10
  <2> HIDE DEF uses
  <2> QED
    BY <1>3, <2>1
<1>12. PICK j \in 1..Len(core) : j \notin Values(core) /\ last = core[j]
  <2>1. \E j \in 1..Len(core) : j \notin Values(core) /\ (e[i] = core[j] \/ FromGroup(e[i], core[j]))
    BY <1>1, <1>11, Expanded DEF core
  <2>2. PICK j \in 1..Len(core) : j \notin Values(core) /\ (e[i] = core[j] \/ FromGroup(e[i], core[j]))
    BY <2>1
  <2>3. ~FromGroup(e[i], core[j])
    <3>1. core[j] \in Argument
      BY <1>1 DEF Line
    <3> QED
      BY <1>11, <3>1, GroupPortIsWord DEF IsFlag
  <2> HIDE DEF last
  <2> QED
    BY <1>11, <2>2, <2>3
<1>13. last.dash /\ last.text = n
  <2>1. last.text = n
    BY <1>9, <1>10
  <2> QED
    BY <1>11, <2>1 DEF IsFlag
<1>14. last.inline \notin Falsehoods
  <2>1. \/ \E k1 \in 1..Len(c) : k1 \notin Values(c) /\ last = c[k1]
        \/ cmd.name \in DOMAIN ActionFlag /\ last = Flag(ActionFlag[cmd.name])
    BY <1>12, CoreIs DEF core
  <2> HIDE DEF last
  <2>2. CASE \E k1 \in 1..Len(c) : k1 \notin Values(c) /\ last = c[k1]
    <3>1. last \in ToSet(c)
      BY <2>2, ValuesAre DEF ToSet
    <3> QED
      BY <1>13, <3>1 DEF TurnsOff
  <2>3. CASE cmd.name \in DOMAIN ActionFlag /\ last = Flag(ActionFlag[cmd.name])
    <3>1. last.inline = NoValue
      BY <2>3, ActionsAre
    <3>2. NoValue \notin Falsehoods
      BY DEF NoValue, Falsehoods
    <3> QED
      BY <3>1, <3>2
  <2> QED
    BY <2>1, <2>2, <2>3
<1>15. ParsedFlags(flags).on =
          {f \in boolFlags : LET u == {i1 \in DOMAIN flags : Own(flags, PullsValue)[i1] /\ flags[i1].text = f}
                             IN  u # {} /\ flags[Max(u)].inline \notin Falsehoods}
  BY DEF ParsedFlags
<1>16. n \in ParsedFlags(flags).on
  BY <1>4, <1>10, <1>14, <1>15
<1> QED
  BY <1>16 DEF flags

\* What a selection has, the line has.
LEMMA AtFrom ==
    ASSUME NEW s \in Line, NEW P, P \subseteq 1..Len(s), NEW x \in ToSet(At(s, P))
    PROVE  \E i \in 1..Len(s) : x = s[i]
<1>1. At(s, P) = [k \in 1..Cardinality(P) |-> s[Nth(P, k)]]
  BY DEF At
<1>2. PICK k \in 1..Cardinality(P) : x = s[Nth(P, k)]
  BY <1>1 DEF ToSet
<1>3. Nth(P, k) \in P
  <2>1. Len(s) \in Nat
    BY ValuesAre
  <2> QED
    BY <2>1, NthOf
<1> QED
  BY <1>2, <1>3

\* A run that inspects, and no word of whose line is left when the groups are
\* expanded, was not refused because an argument reads like a source of ports.
LEMMA InspectNames ==
    ASSUME NEW c \in Line, extractSubcommand(c).name = "inspect", ~Pointless(c),
           NEW e, e = expandGroups(CoreArgs(c)), reorderArgs(e).positional = <<>>
    PROVE  \E t \in ToSet(c) : t.text \in DynamicSources
<1> DEFINE cmd == extractSubcommand(c)
           core == CoreArgs(c)
<1>1. core = cmd.pre \o cmd.rest /\ core \in Line
  <2>1. cmd.name # "find" /\ cmd.name \notin DOMAIN ActionFlag
    BY DEF ActionFlag
  <2>2. core = cmd.pre \o cmd.rest
    BY <2>1 DEF CoreArgs
  <2> QED
    BY <2>1, <2>2, CoreIs
<1>2. hasPortTarget(core)
  BY <1>1 DEF Pointless, WantTarget
<1>3. reorderArgs(core).positional = <<>>
  BY <1>1, WordsStay
<1>4. PICK t \in ToSet(reorderArgs(core).flags) : t.text \in DynamicSources
  BY <1>2, <1>3 DEF hasPortTarget
<1>5. PICK i \in 1..Len(core) : t = core[i]
  <2> DEFINE P == FlagPart(core)
  <2>1. reorderArgs(core).flags = At(core, P) /\ P \subseteq 1..Len(core)
    BY <1>1, ReorderIs, StopOf
  <2>2. t \in ToSet(At(core, P)) /\ core \in Line
    BY <1>1, <1>4, <2>1
  <2> HIDE DEF P, core
  <2> QED
    BY ONLY <2>1, <2>2, AtFrom
<1> HIDE DEF core
<1>6. \E k \in 1..Len(c) : t = c[k]
  <2>0. PICK first : CommandAt(c, first, cmd)
    BY CommandIs DEF NoCommand
  <2>1. /\ first \in 1..Len(c) /\ Len(c) \in Nat
        /\ cmd.pre = SubSeq(c, 1, first - 1) /\ cmd.rest = SubSeq(c, first + 1, Len(c))
    BY <2>0, ValuesAre DEF CommandAt
  <2> DEFINE a == SubSeq(c, 1, first - 1)
             b == SubSeq(c, first + 1, Len(c))
  <2>2. /\ a \in Line /\ Len(a) = first - 1 /\ \A k \in 1..Len(a) : a[k] = c[k]
    <3>1. 1 \in 1..(Len(c) + 1) /\ first - 1 \in 0..Len(c) /\ 1 <= (first - 1) + 1
          /\ ((first - 1) - 1) + 1 = first - 1
      BY <2>1
    <3>2. /\ a \in Line /\ Len(a) = ((first - 1) - 1) + 1
          /\ \A k \in 1..(((first - 1) - 1) + 1) : a[k] = c[(1 - 1) + k]
      BY <2>1, <3>1, Slice
    <3>3. \A k \in 1..(first - 1) : (1 - 1) + k = k
      BY <2>1
    <3> QED
      BY <3>1, <3>2, <3>3
  <2>3. /\ b \in Line /\ Len(b) = Len(c) - first /\ \A k \in 1..Len(b) : b[k] = c[first + k]
    <3>1. first + 1 \in 1..(Len(c) + 1) /\ Len(c) \in 0..Len(c) /\ first + 1 <= Len(c) + 1
          /\ (Len(c) - (first + 1)) + 1 = Len(c) - first
      BY <2>1
    <3>2. /\ b \in Line /\ Len(b) = (Len(c) - (first + 1)) + 1
          /\ \A k \in 1..((Len(c) - (first + 1)) + 1) : b[k] = c[((first + 1) - 1) + k]
      BY <2>1, <3>1, Slice
    <3>3. \A k \in 1..(Len(c) - first) : ((first + 1) - 1) + k = first + k
      BY <2>1
    <3> QED
      BY <3>1, <3>2, <3>3
  <2>4. core = a \o b
    BY <1>1, <2>1
  <2> HIDE DEF a, b
  <2>5. /\ Len(core) = Len(a) + Len(b)
        /\ \A k \in 1..Len(a) : core[k] = a[k]
        /\ \A k \in 1..Len(b) : core[Len(a) + k] = b[k]
    BY <2>2, <2>3, <2>4, Joined
  <2>6. CASE i <= Len(a)
    <3>1. i \in 1..Len(a) /\ i \in 1..Len(c)
      BY <2>1, <2>2, <2>6
    <3> QED
      BY <1>5, <2>2, <2>5, <3>1
  <2>7. CASE ~(i <= Len(a))
    <3>1. i - Len(a) \in 1..Len(b) /\ Len(a) + (i - Len(a)) = i /\ first + (i - Len(a)) \in 1..Len(c)
      BY <2>1, <2>2, <2>3, <2>5, <2>7
    <3> QED
      BY <1>5, <2>3, <2>5, <3>1
  <2> QED
    BY <2>6, <2>7
<1> QED
  <2>1. DOMAIN c = 1..Len(c)
    BY ValuesAre
  <2> QED
    BY <1>4, <1>6, <2>1 DEF ToSet

-----------------------------------------------------------------------------
(* OnlyNamedPorts and ListsOnlyUnasked: the options  are what the passes   *)
(* make of the command line, but for the ports of processes that were      *)
(* named, and only options that ask for no action begin a listing or a scan*)

\* The options that a command line comes to.
Read(line) == parseArgs(expandGroups(CoreArgs(line)))

AllWordsArePorts(line) == AllPorts(reorderArgs(expandGroups(CoreArgs(line))).positional)

\* The options are none yet, or those, with the ports of processes if these were
\* named.
OptionsRead ==
    \/ opts = NoOptions /\ phase \notin {"resolving", "listing", "scanning"}
    \/ /\ phase # "start" /\ AllWordsArePorts(args) /\ ~Pointless(args)
       /\ opts = [on |-> Read(args).on, value |-> Read(args).value, ports |-> opts.ports]
       /\ Dynamic(opts) \/ (opts.ports = Read(args).ports /\ phase # "resolving")

\* A listing, or a scan for the eye.
Lists == phase = "listing" \/ (phase = "scanning" /\ "json" \notin opts.on)

ListsIfNothingAsked ==
    /\ Lists => ~requiresPortTarget(opts) /\ "watch" \notin opts.on
    /\ phase = "listing" => opts.ports = <<>> /\ ~Dynamic(opts)

ReadInv == args \in Line /\ OptionsRead /\ ListsIfNothingAsked

\* What the steps do to the options and to the command line.
LEMMA OnlyTwoRead ==
    ASSUME Next
    PROVE  /\ args' = args
           /\ \/ Start \/ Resolve
              \/ opts' = opts /\ (phase' = phase \/ phase' \in {"done", "prompt", "searching"})
<1> DEFINE Quiet == /\ args' = args /\ opts' = opts
                    /\ phase' = phase \/ phase' \in {"done", "prompt", "searching"}
<1>a. ASSUME NEW code, Handle(code) PROVE phase' = phase \/ phase' = "done"
  BY <1>a DEF Handle, Leave
<1>1. CASE ShowHelp
  BY <1>1 DEF ShowHelp, Leave
<1>2. CASE Refuse
  BY <1>2 DEF Refuse, Leave
<1>3. CASE Start
  BY <1>3 DEF Start
<1>4. CASE StartOther
  BY <1>4 DEF StartOther, Leave
<1>5. CASE StartNext
  BY <1>5 DEF StartNext
<1>6. CASE Resolve
  BY <1>6 DEF Resolve
<1>7. CASE Finish
  BY <1>7 DEF Finish, Leave
<1>8. CASE Show
  BY <1>8, <1>a DEF Show
<1>9. CASE Describe
  BY <1>9, <1>a DEF Describe
<1>10. CASE Kill
  BY <1>10, <1>a DEF Kill
<1>11. CASE Spare
  BY <1>11, <1>a DEF Spare
<1>12. CASE Enter
  BY <1>12 DEF Enter
<1>13. CASE Quit
  BY <1>13 DEF Quit, Leave
<1>14. CASE \E key \in {"k", "f", "r"} : PressKill(key)
  BY <1>14 DEF PressKill, Leave
<1>15. CASE TryPort
  BY <1>15 DEF TryPort, Leave
<1>16. CASE Interrupt
  BY <1>16 DEF Interrupt, Leave
<1>17. CASE \E o \in Owners : Exits(o)
  BY <1>17 DEF Exits
<1>18. CASE \E o \in Owners, s \in Sockets : Binds(o, s)
  BY <1>18 DEF Binds
<1> QED
  BY <1>1, <1>2, <1>3, <1>4, <1>5, <1>6, <1>7, <1>8, <1>9, <1>10, <1>11, <1>12, <1>13, <1>14,
     <1>15, <1>16, <1>17, <1>18 DEF Next

\* It holds at the start,
LEMMA ReadInit == Init => ReadInv
<1> SUFFICES ASSUME Init PROVE ReadInv
  OBVIOUS
<1>1. args \in Line /\ phase = "start" /\ opts = NoOptions
  BY InvocationConstants DEF Init, Line
<1> QED
  BY <1>1 DEF ReadInv, OptionsRead, ListsIfNothingAsked, Lists

\* and every step keeps it.
LEMMA ReadStep == ReadInv /\ [Next]_vars => ReadInv'
<1> SUFFICES ASSUME ReadInv, [Next]_vars PROVE ReadInv'
  OBVIOUS
<1>1. ASSUME args' = args, opts' = opts,
             phase' = phase \/ phase' \in {"done", "prompt", "searching"}
      PROVE  ReadInv'
  <2>1. args' \in Line
    BY <1>1 DEF ReadInv
  <2>2. OptionsRead'
    BY <1>1 DEF ReadInv, OptionsRead
  <2>3. ListsIfNothingAsked'
    BY <1>1 DEF ReadInv, ListsIfNothingAsked, Lists
  <2> QED
    BY <2>1, <2>2, <2>3 DEF ReadInv
<1>2. CASE UNCHANGED vars
  BY <1>1, <1>2 DEF vars
<1>3. CASE Start
  <2> DEFINE o == Read(args)
             line == expandGroups(CoreArgs(args))
  <2>1. args' = args /\ opts' = o
    BY <1>3 DEF Start, Read
  <2>2. ~Refused(args) /\ extractSubcommand(args).name \in CoreCommands
    BY <1>3 DEF Start
  <2>3. Accepted(line) /\ ~Pointless(args)
    BY <2>2 DEF Refused
  <2>4. AllWordsArePorts(args)
    BY <2>3 DEF AllWordsArePorts, AllPorts, Accepted
  <2>5. o = [on |-> o.on, value |-> o.value, ports |-> o.ports]
    <3>1. \E a, b, d : o = [on |-> a, value |-> b, ports |-> d]
      BY DEF Read, parseArgs
    <3> HIDE DEF o
    <3> QED
      BY <3>1
  <2>6. \/ phase' = "done"
        \/ Dynamic(o) /\ phase' = "resolving"
        \/ ~Dynamic(o) /\ ~Targetless(o) /\ phase' = NextPhase(o)
    BY <1>3 DEF Start, Leave, Read
  <2> HIDE DEF o, line
  <2>7. phase' = NextPhase(o) => phase' \in {"watching", "listing", "scanning", "looking"}
    BY DEF NextPhase
  <2>8. OptionsRead'
    <3>1. phase' # "start" /\ (Dynamic(o) \/ phase' # "resolving")
      BY <2>6, <2>7
    <3>2. AllWordsArePorts(args')
      BY <2>1, <2>4
    <3>3. opts' = [on |-> Read(args').on, value |-> Read(args').value, ports |-> opts'.ports]
      BY <2>1, <2>5 DEF o
    <3>4. opts'.ports = Read(args').ports
      BY <2>1 DEF o
    <3>5. Dynamic(opts') \/ phase' # "resolving"
      BY <2>1, <3>1
    <3>6. ~Pointless(args')
      BY <2>1, <2>3
    <3> QED
      BY <3>1, <3>2, <3>3, <3>4, <3>5, <3>6 DEF OptionsRead
  <2>9. ListsIfNothingAsked'
    <3> SUFFICES ASSUME Lists'
                 PROVE  /\ ~requiresPortTarget(opts') /\ "watch" \notin opts'.on
                        /\ phase' = "listing" => opts'.ports = <<>> /\ ~Dynamic(opts')
      BY DEF ListsIfNothingAsked, Lists
    <3>1. phase' = "listing" \/ (phase' = "scanning" /\ "json" \notin o.on)
      BY <2>1 DEF Lists
    <3>2. ~Dynamic(o) /\ ~Targetless(o) /\ phase' = NextPhase(o)
      BY <2>6, <3>1
    <3> QED
      BY <2>1, <3>1, <3>2 DEF NextPhase, Targetless
  <2> QED
    BY <2>1, <2>8, <2>9 DEF ReadInv
<1>4. CASE Resolve
  <2>1. phase = "resolving" /\ args' = args
    BY <1>4 DEF Resolve
  <2>2. /\ AllWordsArePorts(args) /\ ~Pointless(args) /\ Dynamic(opts)
        /\ opts = [on |-> Read(args).on, value |-> Read(args).value, ports |-> opts.ports]
    BY <2>1 DEF ReadInv, OptionsRead
  <2>3. CASE phase' = "done" /\ opts' = opts
    BY <1>1, <2>1, <2>3
  <2>4. CASE \E found : /\ found # <<>> /\ opts' = [opts EXCEPT !.ports = found]
                        /\ phase' = NextPhase([opts EXCEPT !.ports = found])
    <3>1. PICK found : /\ found # <<>> /\ opts' = [opts EXCEPT !.ports = found]
                       /\ phase' = NextPhase(opts')
      BY <2>4
    <3>2. opts' = [on |-> Read(args).on, value |-> Read(args).value, ports |-> found]
      BY <2>2, <3>1
    <3>3. opts'.on = opts.on /\ opts'.value = opts.value /\ opts'.ports = found
      BY <2>2, <3>2
    <3>4. Dynamic(opts')
      BY <2>2, <3>3 DEF Dynamic, Given
    <3>5. phase' \in {"watching", "listing", "scanning", "looking"}
      BY <3>1 DEF NextPhase
    <3>6. opts' = [on |-> Read(args').on, value |-> Read(args').value, ports |-> opts'.ports]
      BY <2>1, <3>2, <3>3
    <3>7. OptionsRead'
      BY <2>1, <2>2, <3>4, <3>5, <3>6 DEF OptionsRead
    <3>8. ListsIfNothingAsked'
      <4> SUFFICES ASSUME Lists'
                   PROVE  /\ ~requiresPortTarget(opts') /\ "watch" \notin opts'.on
                          /\ phase' # "listing"
        BY DEF ListsIfNothingAsked, Lists
      <4> QED
        BY <3>1, <3>3 DEF Lists, NextPhase
    <3> QED
      BY <2>1, <3>7, <3>8 DEF ReadInv
  <2>5. \/ phase' = "done" /\ opts' = opts
        \/ \E found : /\ found # <<>> /\ opts' = [opts EXCEPT !.ports = found]
                      /\ phase' = NextPhase([opts EXCEPT !.ports = found])
    BY <1>4 DEF Resolve, Leave
  <2> QED
    BY <2>3, <2>4, <2>5
<1> QED
  BY <1>1, <1>2, <1>3, <1>4, OnlyTwoRead

\* Whatever the command line, of any length: every port that is inspected or acted
\* upon was named by an argument that is not the value of a flag, unless processes
\* were named instead, and unless find is asked.
THEOREM NamedPorts == Spec => []OnlyNamedPorts
<1>1. ReadInv => OnlyNamedPorts
  <2> SUFFICES ASSUME ReadInv, phase # "start", ~Dynamic(opts), NEW p \in ToSet(opts.ports)
               PROVE  \E i \in DOMAIN args : /\ \/ Own(args, PullsValue)[i]
                                                \/ extractSubcommand(args).name = "find"
                                             /\ p \in NamedBy(args[i])
    BY DEF OnlyNamedPorts
  <2>1. opts # NoOptions
    <3>1. ToSet(<<>>) = {}
      BY DEF ToSet
    <3> QED
      BY <3>1 DEF NoOptions
  <2>2. args \in Line /\ AllWordsArePorts(args) /\ opts.ports = Read(args).ports
    BY <2>1 DEF ReadInv, OptionsRead
  <2>3. p \in ToSet(PortsNamed(reorderArgs(expandGroups(CoreArgs(args))).positional))
    <3>1. Read(args).ports = PortsNamed(reorderArgs(expandGroups(CoreArgs(args))).positional)
      BY DEF Read, parseArgs
    <3> QED
      BY <2>2, <3>1
  <2>4. \E i \in 1..Len(args) : /\ i \notin Values(args) \/ extractSubcommand(args).name = "find"
                                /\ p \in NamedBy(args[i])
    BY <2>2, <2>3, PortsComeFrom DEF AllWordsArePorts
  <2> QED
    BY <2>2, <2>4, ValuesAre
<1> QED
  BY <1>1, ReadInit, ReadStep, PTL DEF Spec

\* Whatever the command line, of any length: a run that is asked for a view or an
\* action does not list ports instead, nor scan them but under --json, and one that
\* is to inspect lists only where an argument reads like a source of ports; find is
\* left out.
THEOREM ListsUnasked == Spec => []ListsOnlyUnasked
<1>1. ReadInv => ListsOnlyUnasked
  <2> DEFINE name == extractSubcommand(args).name
  <2> SUFFICES ASSUME ReadInv, name # "find", Lists
               PROVE  /\ AskedFor(args) = {}
                      /\ phase = "listing" /\ name = "inspect"
                           => \E t \in ToSet(args) : t.text \in DynamicSources
    BY DEF ListsOnlyUnasked, Lists
  <2>1. /\ args \in Line /\ AllWordsArePorts(args) /\ ~Pointless(args)
        /\ opts = [on |-> Read(args).on, value |-> Read(args).value, ports |-> opts.ports]
        /\ Dynamic(opts) \/ opts.ports = Read(args).ports
    BY DEF ReadInv, OptionsRead, Lists
  <2>2. /\ opts.on = ParsedFlags(reorderArgs(expandGroups(CoreArgs(args))).flags).on
        /\ Read(args).ports = PortsNamed(reorderArgs(expandGroups(CoreArgs(args))).positional)
    <3>1. /\ Read(args).on = ParsedFlags(reorderArgs(expandGroups(CoreArgs(args))).flags).on
          /\ Read(args).ports = PortsNamed(reorderArgs(expandGroups(CoreArgs(args))).positional)
      BY DEF Read, parseArgs
    <3> QED
      BY <2>1, <3>1
  <2>3. opts.on \cap ViewsAndActions = {} /\ "watch" \notin opts.on
    BY DEF ReadInv, ListsIfNothingAsked, requiresPortTarget
  <2>4. ASSUME NEW n \in AskedFor(args) PROVE FALSE
    <3>1. /\ \/ name \in DOMAIN ActionFlag /\ n = ActionFlag[name]
             \/ /\ n \in ViewsAndActions \cup {"watch"}
                /\ \E i \in DOMAIN args : Own(args, PullsValue)[i] /\ args[i] = Flag(n)
          /\ \A t \in ToSet(args) : t.dash /\ t.text = n => t.inline \notin Falsehoods
      BY DEF AskedFor
    <3>2. n \in ViewsAndActions \cup {"watch"}
      BY <3>1, ActionsAre
    <3>3. Asked(args, n)
      BY <2>1, <3>1, ValuesAre DEF Asked
    <3>4. ~TurnsOff(args, n)
      BY <3>1 DEF TurnsOff
    <3>5. n \in opts.on
      BY <2>1, <2>2, <3>2, <3>3, <3>4, AskedIsOn DEF AllWordsArePorts
    <3> QED
      BY <2>3, <3>2, <3>5
  <2>5. ASSUME phase = "listing", name = "inspect"
        PROVE  \E t \in ToSet(args) : t.text \in DynamicSources
    <3> DEFINE e == expandGroups(CoreArgs(args))
               words == reorderArgs(e).positional
    <3>1. PortsNamed(words) = <<>>
      BY <2>1, <2>2, <2>5 DEF ReadInv, ListsIfNothingAsked
    <3>2. e \in Line
      <4>1. CoreArgs(args) \in Line
        BY <2>1, CoreIs
      <4> QED
        BY <4>1, ExpandLays
    <3>3. words \in Line /\ AllPorts(words)
      <4>1. AllPorts(words)
        BY <2>1 DEF AllWordsArePorts
      <4> QED
        BY <3>2, <4>1, Reordered
    <3>4. words = <<>>
      BY <3>1, <3>3, WordsArePorts
    <3> QED
      BY <2>1, <2>5, <3>4, InspectNames
  <2> QED
    BY <2>4, <2>5
<1> QED
  BY <1>1, ReadInit, ReadStep, PTL DEF Spec

-----------------------------------------------------------------------------
(* Selections, once more: how lines are cut and joined.                    *)

\* Whatever lists a set of positions in their order is Nth.
LEMMA Listing ==
    ASSUME NEW R, NEW m \in Nat, R \subseteq 1..m, NEW n \in Nat, NEW f \in [1..n -> R],
           \A k, l \in 1..n : k < l => f[k] < f[l],
           \A i \in R : \E k \in 1..n : f[k] = i
    PROVE  Cardinality(R) = n /\ \A k \in 1..n : Nth(R, k) = f[k]
<1>1. \A k \in 1..n : f[k] \in R /\ f[k] \in Int /\ k \in Int
  <2>1. \A k \in 1..n : f[k] \in R
    OBVIOUS
  <2>2. (\A i \in R : i \in Int) /\ \A k \in 1..n : k \in Int
    OBVIOUS
  <2> QED
    BY <2>1, <2>2
<1>2. \A k, l \in 1..n : f[k] <= f[l] => k <= l
  BY <1>1
<1>3. \A k, l \in 1..n : k <= l => f[k] <= f[l]
  <2> SUFFICES ASSUME NEW k \in 1..n, NEW l \in 1..n, k <= l PROVE f[k] <= f[l]
    OBVIOUS
  <2>1. k = l \/ k < l
    BY <1>1
  <2>2. k < l => f[k] < f[l]
    OBVIOUS
  <2> QED
    BY <1>1, <2>1, <2>2
<1>4. ASSUME NEW k \in 0..n
      PROVE  IsFiniteSet(1..k) /\ Cardinality(1..k) = k
  <2>1. IsFiniteSet(1..k) /\ Cardinality(1..k) = IF 1 > k THEN 0 ELSE k - 1 + 1
    BY FS_Interval
  <2> QED
    BY <2>1
<1>5. Cardinality(R) = n
  <2>1. \A k, l \in 1..n : f[k] = f[l] => k = l
    BY <1>1, <1>2
  <2>2. f \in Injection(1..n, R) /\ f \in Surjection(1..n, R)
    BY <2>1 DEF Injection, IsInjective, Surjection
  <2>3. ExistsBijection(1..n, R)
    BY <2>2 DEF ExistsBijection, Bijection
  <2>4. n \in 0..n
    OBVIOUS
  <2> QED
    BY <1>4, <2>3, <2>4, FS_Bijection
<1>6. ASSUME NEW k \in 1..n PROVE Rank(R, f[k]) = k
  <2> DEFINE U == {j \in R : j <= f[k]}
             g == [l \in 1..k |-> f[l]]
  <2>1. \A l \in 1..k : l \in 1..n /\ g[l] = f[l] /\ l <= k
    OBVIOUS
  <2>2. \A l \in 1..k : g[l] \in U
    BY <1>1, <1>3, <2>1
  <2>3. \A i \in U : \E l \in 1..k : g[l] = i
    <3> SUFFICES ASSUME NEW i \in U PROVE \E l \in 1..k : g[l] = i
      OBVIOUS
    <3>1. PICK l \in 1..n : f[l] = i
      OBVIOUS
    <3>2. l <= k
      BY <1>2, <3>1
    <3>3. l \in 1..k
      BY <3>2
    <3> QED
      BY <2>1, <3>1, <3>3
  <2>4. \A l, h \in 1..k : g[l] = g[h] => l = h
    BY <1>1, <1>2, <2>1
  <2>5. g \in [1..k -> U]
    BY <2>2
  <2> HIDE DEF g, U
  <2>6. g \in Injection(1..k, U) /\ g \in Surjection(1..k, U)
    BY <2>3, <2>4, <2>5 DEF Injection, IsInjective, Surjection
  <2>7. ExistsBijection(1..k, U)
    BY <2>6 DEF ExistsBijection, Bijection
  <2>8. k \in 0..n
    OBVIOUS
  <2>9. Cardinality(U) = k
    BY <1>4, <2>7, <2>8, FS_Bijection
  <2> QED
    BY <2>9 DEF Rank, U
<1>7. ASSUME NEW k \in 1..n PROVE Nth(R, k) = f[k]
  <2>1. \A i \in R : Nth(R, Rank(R, i)) = i
    BY NthOf
  <2> QED
    BY <1>1, <1>6, <2>1
<1> QED
  BY <1>5, <1>7

\* Everything, and nothing.
LEMMA AtAll ==
    ASSUME NEW s \in Line
    PROVE  At(s, 1..Len(s)) = s /\ At(s, {}) = <<>>
<1>1. Len(s) \in Nat /\ DOMAIN s = 1..Len(s) /\ s \in [1..Len(s) -> Argument]
  BY ValuesAre DEF Line
<1> DEFINE n == Len(s)
           f == [k \in 1..n |-> k]
<1>2. f \in [1..n -> 1..n] /\ \A k \in 1..n : f[k] = k
  OBVIOUS
<1>3. /\ \A k, l \in 1..n : k < l => f[k] < f[l]
      /\ \A i \in 1..n : \E k \in 1..n : f[k] = i
  OBVIOUS
<1> HIDE DEF f
<1>4. Cardinality(1..n) = n /\ \A k \in 1..n : Nth(1..n, k) = k
  <2> DEFINE R == 1..n
  <2>0. n \in Nat /\ R \subseteq 1..n
    BY <1>1
  <2>1. f \in [1..n -> R] /\ \A i \in R : \E k \in 1..n : f[k] = i
    BY <1>2, <1>3
  <2> HIDE DEF n, R
  <2>2. Cardinality(R) = n /\ \A k \in 1..n : Nth(R, k) = f[k]
    BY ONLY <1>3, <2>0, <2>1, Listing
  <2>3. Cardinality(1..n) = n /\ \A k \in 1..n : Nth(1..n, k) = f[k]
    BY <2>2 DEF R
  <2> QED
    BY <1>2, <2>3
<1>5. At(s, 1..n) = [k \in 1..n |-> s[k]]
  BY <1>4 DEF At
<1>6. At(s, {}) = <<>>
  BY FS_EmptySet DEF At
<1> QED
  BY <1>1, <1>5, <1>6

\* R is of two lines joined what P is of the first and Q of the second.
Both(s, t, P, Q, R) ==
    /\ P \subseteq 1..Len(s) /\ Q \subseteq 1..Len(t) /\ R \subseteq 1..Len(s \o t)
    /\ \A i \in 1..Len(s) : i \in R <=> i \in P
    /\ \A j \in 1..Len(t) : Len(s) + j \in R <=> j \in Q

\* Then it selects what both select, one after the other.
LEMMA AtJoined ==
    ASSUME NEW s \in Line, NEW t \in Line, NEW P, NEW Q, NEW R, Both(s, t, P, Q, R)
    PROVE  At(s \o t, R) = At(s, P) \o At(t, Q)
<1> DEFINE d == Len(s)
           p == Cardinality(P)
           q == Cardinality(Q)
           all == s \o t
           f == [k \in 1..(p + q) |-> IF k <= p THEN Nth(P, k) ELSE d + Nth(Q, k - p)]
<1>0. /\ P \subseteq 1..Len(s) /\ Q \subseteq 1..Len(t) /\ R \subseteq 1..Len(s \o t)
      /\ \A i \in 1..Len(s) : i \in R <=> i \in P
      /\ \A j \in 1..Len(t) : Len(s) + j \in R <=> j \in Q
  BY DEF Both
<1>1. /\ all \in Line /\ Len(all) = d + Len(t) /\ d \in Nat /\ Len(t) \in Nat
      /\ \A k \in 1..d : all[k] = s[k]
      /\ \A k \in 1..Len(t) : all[d + k] = t[k]
  BY Joined, ValuesAre
<1>2. /\ p \in Nat /\ \A k \in 1..p : Nth(P, k) \in P /\ Rank(P, Nth(P, k)) = k
      /\ \A i \in P : Rank(P, i) \in 1..p /\ Nth(P, Rank(P, i)) = i
      /\ \A i, j \in P : i < j <=> Rank(P, i) < Rank(P, j)
  BY <1>0, <1>1, NthOf
<1>3. /\ q \in Nat /\ \A k \in 1..q : Nth(Q, k) \in Q /\ Rank(Q, Nth(Q, k)) = k
      /\ \A i \in Q : Rank(Q, i) \in 1..q /\ Nth(Q, Rank(Q, i)) = i
      /\ \A i, j \in Q : i < j <=> Rank(Q, i) < Rank(Q, j)
  BY <1>0, <1>1, NthOf
<1> DEFINE x == At(s, P)
           y == At(t, Q)
<1>4. /\ x \in Line /\ Len(x) = p /\ y \in Line /\ Len(y) = q
      /\ \A k \in 1..p : x[k] = s[Nth(P, k)]
      /\ \A k \in 1..q : y[k] = t[Nth(Q, k)]
  <2>1. x \in Line /\ Len(x) = p /\ y \in Line /\ Len(y) = q
    BY <1>0, AtHas
  <2>2. x = [k \in 1..p |-> s[Nth(P, k)]] /\ y = [k \in 1..q |-> t[Nth(Q, k)]]
    BY DEF At
  <2> QED
    BY <2>1, <2>2
<1>5. /\ x \o y \in Line /\ Len(x \o y) = p + q
      /\ \A k \in 1..p : (x \o y)[k] = x[k]
      /\ \A k \in 1..q : (x \o y)[p + k] = y[k]
  <2>1. x \in Line /\ y \in Line /\ Len(x) = p /\ Len(y) = q
    BY <1>4
  <2> HIDE DEF x, y, p, q
  <2>2. /\ x \o y \in Line /\ Len(x \o y) = Len(x) + Len(y)
        /\ \A k \in 1..Len(x) : (x \o y)[k] = x[k]
        /\ \A k \in 1..Len(y) : (x \o y)[Len(x) + k] = y[k]
    BY ONLY <2>1, Joined
  <2> QED
    BY <2>1, <2>2
<1>6. \A k \in 1..(p + q) : (k <= p /\ k \in 1..p) \/ (k > p /\ k - p \in 1..q /\ p + (k - p) = k)
  BY <1>2, <1>3
<1> HIDE DEF d, p, q, all, x, y
<1>7. /\ \A k \in 1..p : f[k] = Nth(P, k)
      /\ \A k \in 1..q : f[p + k] = d + Nth(Q, k)
  <2>1. ASSUME NEW k \in 1..p PROVE f[k] = Nth(P, k)
    <3>1. k \in 1..(p + q) /\ k <= p
      BY <1>2, <1>3
    <3> QED
      BY <3>1
  <2>2. ASSUME NEW k \in 1..q PROVE f[p + k] = d + Nth(Q, k)
    <3>1. p + k \in 1..(p + q) /\ ~(p + k <= p) /\ (p + k) - p = k
      BY <1>2, <1>3
    <3> QED
      BY <3>1
  <2> QED
    BY <2>1, <2>2
<1> HIDE DEF f
<1>8. /\ \A k \in 1..p : f[k] \in R /\ f[k] \in 1..d
      /\ \A k \in 1..q : f[p + k] \in R /\ f[p + k] \in Int /\ f[p + k] > d
  <2>1. \A k \in 1..p : f[k] \in R /\ f[k] \in 1..d
    BY <1>0, <1>2, <1>7 DEF d
  <2>2. ASSUME NEW k \in 1..q PROVE f[p + k] \in R /\ f[p + k] \in Int /\ f[p + k] > d
    <3>1. Nth(Q, k) \in Q /\ Nth(Q, k) \in 1..Len(t)
      BY <1>0, <1>3
    <3>2. d + Nth(Q, k) \in R
      BY <1>0, <3>1 DEF d
    <3>3. d + Nth(Q, k) \in Int /\ d + Nth(Q, k) > d
      BY <1>1, <3>1
    <3> QED
      BY <1>7, <3>2, <3>3
  <2> QED
    BY <2>1, <2>2
<1>9. f \in [1..(p + q) -> R]
  <2>1. ASSUME NEW k \in 1..(p + q) PROVE f[k] \in R
    <3>1. CASE k \in 1..p
      BY <1>8, <3>1
    <3>2. CASE k - p \in 1..q /\ p + (k - p) = k
      BY <1>8, <3>2
    <3> QED
      BY <1>6, <3>1, <3>2
  <2>2. f = [k \in 1..(p + q) |-> f[k]]
    BY DEF f
  <2> QED
    BY <2>1, <2>2
<1>10. ASSUME NEW k \in 1..(p + q), NEW l \in 1..(p + q), k < l
       PROVE  f[k] < f[l]
  <2>0. k \in Int /\ l \in Int /\ p \in Int
    BY <1>2, <1>3
  <2>1. CASE l <= p
    <3>1. l \in 1..p /\ k \in 1..p
      BY <1>10, <2>0, <2>1
    <3>2. Nth(P, k) \in P /\ Nth(P, l) \in P /\ Rank(P, Nth(P, k)) = k /\ Rank(P, Nth(P, l)) = l
      BY <1>2, <3>1
    <3>3. Nth(P, k) < Nth(P, l)
      BY <1>2, <1>10, <3>2
    <3> QED
      BY <1>7, <3>1, <3>3
  <2>2. CASE k <= p /\ l > p
    <3>1. k \in 1..p /\ l - p \in 1..q /\ p + (l - p) = l
      BY <1>6, <2>0, <2>2
    <3>2. f[k] \in 1..d /\ f[p + (l - p)] > d /\ f[p + (l - p)] \in Int
      BY <1>8, <3>1
    <3>3. f[k] < f[p + (l - p)]
      BY <1>1, <3>2
    <3> QED
      BY <3>1, <3>3
  <2>3. CASE k > p
    <3> DEFINE a == k - p
               b == l - p
    <3>1. a \in 1..q /\ p + a = k /\ b \in 1..q /\ p + b = l /\ a < b
      BY <1>6, <1>10, <2>0, <2>3
    <3> HIDE DEF a, b
    <3>2. Nth(Q, a) \in Q /\ Nth(Q, b) \in Q /\ Rank(Q, Nth(Q, a)) = a /\ Rank(Q, Nth(Q, b)) = b
      BY <1>3, <3>1
    <3>3. Nth(Q, a) < Nth(Q, b)
      BY <1>3, <3>1, <3>2
    <3>4. Nth(Q, a) \in Int /\ Nth(Q, b) \in Int
      <4>1. \A i \in Q : i \in Int
        BY <1>0, <1>1
      <4> QED
        BY <3>2, <4>1
    <3>5. d + Nth(Q, a) < d + Nth(Q, b)
      BY <1>1, <3>3, <3>4
    <3>6. f[p + a] < f[p + b]
      BY <1>7, <3>1, <3>5
    <3> QED
      BY <3>1, <3>6
  <2> QED
    BY <2>0, <2>1, <2>2, <2>3
<1>11. ASSUME NEW i \in R PROVE \E k \in 1..(p + q) : f[k] = i
  <2>1. CASE i <= d
    <3>1. i \in 1..d /\ i \in P
      BY <1>0, <1>1, <2>1 DEF d, all
    <3>2. Rank(P, i) \in 1..p /\ Nth(P, Rank(P, i)) = i
      BY <1>2, <3>1
    <3>3. Rank(P, i) \in 1..(p + q)
      BY <1>2, <1>3, <3>2
    <3> QED
      BY <1>7, <3>2, <3>3
  <2>2. CASE i > d
    <3> DEFINE j == i - d
    <3>1. i \in 1..Len(all)
      BY <1>0 DEF all
    <3>2. j \in 1..Len(t) /\ d + j = i
      BY <1>1, <2>2, <3>1
    <3> HIDE DEF j
    <3>3. j \in Q
      BY <1>0, <3>2 DEF d
    <3>4. Rank(Q, j) \in 1..q /\ Nth(Q, Rank(Q, j)) = j
      BY <1>3, <3>3
    <3>5. p + Rank(Q, j) \in 1..(p + q)
      BY <1>2, <1>3, <3>4
    <3>6. f[p + Rank(Q, j)] = i
      BY <1>7, <3>2, <3>4
    <3> QED
      BY <3>5, <3>6
  <2>3. i \in Int
    BY <1>0, <1>1 DEF all
  <2> QED
    BY <1>1, <2>1, <2>2, <2>3
<1>12. p + q \in Nat /\ Len(all) \in Nat /\ R \subseteq 1..Len(all)
  BY <1>0, <1>1, <1>2, <1>3 DEF all
<1>13. Cardinality(R) = p + q /\ \A k \in 1..(p + q) : Nth(R, k) = f[k]
  BY <1>9, <1>10, <1>11, <1>12, Listing
<1>14. At(all, R) = [k \in 1..(p + q) |-> all[f[k]]]
  BY <1>13 DEF At
<1>15. ASSUME NEW k \in 1..(p + q) PROVE all[f[k]] = (x \o y)[k]
  <2>1. CASE k \in 1..p
    <3>1. all[f[k]] = s[f[k]]
      BY <1>1, <1>8, <2>1
    <3> QED
      BY <1>4, <1>5, <1>7, <2>1, <3>1
  <2>2. CASE k - p \in 1..q /\ p + (k - p) = k
    <3> DEFINE a == k - p
    <3>1. a \in 1..q /\ p + a = k
      BY <2>2
    <3> HIDE DEF a
    <3>2. Nth(Q, a) \in 1..Len(t)
      BY <1>0, <1>3, <3>1
    <3>3. all[d + Nth(Q, a)] = t[Nth(Q, a)]
      BY <1>1, <3>2
    <3>4. all[f[p + a]] = (x \o y)[p + a]
      BY <1>4, <1>5, <1>7, <3>1, <3>3
    <3> QED
      BY <3>1, <3>4
  <2> QED
    BY <1>6, <2>1, <2>2
<1>16. x \o y = [k \in 1..(p + q) |-> (x \o y)[k]]
  <2>1. \A w \in Line : w = [k \in 1..Len(w) |-> w[k]]
    BY DEF Line
  <2>2. x \o y \in Line
    BY <1>5
  <2> DEFINE w == x \o y
  <2>3. w \in Line /\ Len(w) = p + q
    BY <1>5
  <2> HIDE DEF w
  <2>4. w = [k \in 1..(p + q) |-> w[k]]
    BY <2>1, <2>3
  <2> QED
    BY <2>4 DEF w
<1>17. At(all, R) = x \o y
  <2> DEFINE w == x \o y
  <2>1. \A k \in 1..(p + q) : all[f[k]] = w[k]
    BY <1>15
  <2>2. w = [k \in 1..(p + q) |-> w[k]]
    BY <1>16
  <2> HIDE DEF w
  <2>3. At(all, R) = w
    BY <1>14, <2>1, <2>2
  <2> QED
    BY <2>3 DEF w
<1> QED
  BY <1>17 DEF all, x, y

-----------------------------------------------------------------------------
(* Lines without "--", that do not end in the middle of a flag.            *)

\* What reorderArgs makes of a line.
FlagsOf(s) == reorderArgs(s).flags
WordsOf(s) == reorderArgs(s).positional

\* A line without "--".
NoMark(s) == \A i \in 1..Len(s) : s[i] # DashDash

\* The last flag does not wait for a value.
Complete(s) == Len(s) # 0 /\ Len(s) \notin Values(s) => ~PullsValue(s[Len(s)])

\* A line that is both.
Whole(s) == s \in Line /\ NoMark(s) /\ Complete(s)

\* No word reads like the name of a flag that takes a value.
Plain(s) == \A i \in 1..Len(s) : i \notin Values(s) /\ ~s[i].dash => s[i].text \notin valueFlags

\* Without a mark every argument is a flag, the value of one, or a word.
LEMMA Sorted ==
    ASSUME NEW s \in Line, NoMark(s)
    PROVE  /\ FlagsOf(s) = At(s, FlagPart(s)) /\ WordsOf(s) = At(s, WordPart(s))
           /\ FlagPart(s) \subseteq 1..Len(s) /\ WordPart(s) \subseteq 1..Len(s)
           /\ \A i \in 1..Len(s) : i \in FlagPart(s) <=> s[i].dash \/ i \in Values(s)
           /\ \A i \in 1..Len(s) : i \in WordPart(s) <=> ~s[i].dash /\ i \notin Values(s)
           /\ \A i \in 1..Len(s) : IsFlag(s[i]) <=> s[i].dash
<1>1. Len(s) \in Nat /\ DOMAIN s = 1..Len(s)
  BY ValuesAre
<1>2. /\ StopAt(s) \in 1..(Len(s) + 1)
      /\ StopAt(s) <= Len(s) => s[StopAt(s)] = DashDash
      /\ FlagPart(s) \subseteq 1..Len(s) /\ WordPart(s) \subseteq 1..Len(s)
      /\ \A i \in 1..Len(s) : i \in FlagPart(s) <=>
            i < StopAt(s) /\ (IsFlag(s[i]) \/ i \in Values(s))
  BY StopOf
<1>3. StopAt(s) = Len(s) + 1
  <2>1. StopAt(s) \in 1..Len(s) => s[StopAt(s)] # DashDash
    BY DEF NoMark
  <2> QED
    BY <1>1, <1>2, <2>1
<1>4. \A i \in 1..Len(s) : IsFlag(s[i]) <=> s[i].dash
  BY DEF IsFlag, NoMark
<1>5. \A i \in 1..Len(s) : i < StopAt(s) /\ i # StopAt(s)
  BY <1>1, <1>3
<1>6. \A i \in 1..Len(s) : i \in WordPart(s) <=> i \notin FlagPart(s)
  BY <1>1, <1>5 DEF WordPart
<1> QED
  BY <1>2, <1>4, <1>5, <1>6, ReorderIs DEF FlagsOf, WordsOf

\* Behind a complete line another one is read as if it stood alone.
LEMMA Met ==
    ASSUME NEW s \in Line, Complete(s), NEW t \in Line
    PROVE  /\ \A i \in 1..Len(s) : i \in Values(s \o t) <=> i \in Values(s)
           /\ \A j \in 1..Len(t) : Len(s) + j \in Values(s \o t) <=> j \in Values(t)
<1> DEFINE d == Len(s)
           all == s \o t
<1>1. /\ all \in Line /\ Len(all) = d + Len(t) /\ d \in Nat /\ Len(t) \in Nat
      /\ \A k \in 1..d : all[k] = s[k]
      /\ \A k \in 1..Len(t) : all[d + k] = t[k]
  BY Joined, ValuesAre
<1>2. /\ \A i \in 1..(d + Len(t)) : i \in Values(all) <=>
                 i # 1 /\ i - 1 \notin Values(all) /\ PullsValue(all[i - 1])
      /\ 1 \notin Values(s) /\ 1 \notin Values(t)
  <2> HIDE DEF all
  <2>1. \A i \in 1..(d + Len(t)) : i \in Values(all) <=>
                 i # 1 /\ i - 1 \notin Values(all) /\ PullsValue(all[i - 1])
    BY <1>1, ValuesAre
  <2>2. \A u \in Line : 1 \notin Values(u)
    BY ValuesAre
  <2> QED
    BY <2>1, <2>2
<1> HIDE DEF d, all
<1>3. 1 \notin Values(all)
  BY <1>1, ValuesAre
<1>4. \A k \in 1..d : k \in Values(all) <=> k \in Values(s)
  <2>1. /\ 0 \in Nat /\ 0 + d <= Len(s) /\ 0 + d <= Len(all)
        /\ \A k \in 1..d : 0 + k = k
        /\ 0 + 1 = 1
    BY <1>1 DEF d
  <2>2. \A k \in 1..d : all[0 + k] = s[0 + k]
    BY <1>1, <2>1
  <2>3. 0 + 1 \in Values(all) <=> 0 + 1 \in Values(s)
    BY <1>2, <1>3, <2>1
  <2>4. \A k \in 1..d : 0 + k \in Values(all) <=> 0 + k \in Values(s)
    BY ONLY s \in Line, <1>1, <2>1, <2>2, <2>3, Aligned
  <2> QED
    BY <2>1, <2>4
<1>5. d + 1 \notin Values(all)
  <2>1. CASE Len(t) = 0
    <3>1. Values(all) \subseteq 1..d
      <4>1. Values(all) \subseteq 1..Len(all)
        BY <1>1, ValuesAre
      <4>2. Len(all) = d
        BY <1>1, <2>1
      <4> QED
        BY <4>1, <4>2
    <3> QED
      BY <1>1, <3>1
  <2>2. CASE d = 0
    BY <1>3, <2>2
  <2>3. CASE Len(t) # 0 /\ d # 0
    <3>1. d + 1 \in 1..(d + Len(t)) /\ (d + 1) - 1 = d /\ d \in 1..d
      BY <1>1, <2>3
    <3>2. d \in Values(all) \/ ~PullsValue(all[d])
      BY <1>1, <1>4, <2>3, <3>1 DEF Complete, d
    <3> QED
      BY <1>2, <3>1, <3>2
  <2> QED
    BY <2>1, <2>2, <2>3
<1>6. \A k \in 1..Len(t) : d + k \in Values(all) <=> k \in Values(t)
  <2> DEFINE n == Len(t)
  <2>1. /\ 0 \in Nat /\ n \in Nat /\ 0 + n <= Len(t) /\ d + n <= Len(all)
        /\ \A k \in 1..n : 0 + k = k
        /\ 0 + 1 = 1
    BY <1>1
  <2>2. \A k \in 1..n : all[d + k] = t[0 + k]
    BY <1>1, <2>1
  <2>3. d + 1 \in Values(all) <=> 0 + 1 \in Values(t)
    BY <1>2, <1>5, <2>1
  <2> HIDE DEF n
  <2>4. \A k \in 1..n : d + k \in Values(all) <=> 0 + k \in Values(t)
    BY ONLY t \in Line, <1>1, <2>1, <2>2, <2>3, Aligned
  <2>5. \A k \in 1..n : d + k \in Values(all) <=> k \in Values(t)
    BY <2>1, <2>4
  <2> QED
    BY <2>5 DEF n
<1> QED
  BY <1>4, <1>6 DEF all, d

\* Its flags and words come after those of the first.
LEMMA SortedJoined ==
    ASSUME NEW s, Whole(s), NEW t \in Line, NoMark(t)
    PROVE  /\ s \o t \in Line /\ NoMark(s \o t)
           /\ FlagsOf(s \o t) = FlagsOf(s) \o FlagsOf(t)
           /\ WordsOf(s \o t) = WordsOf(s) \o WordsOf(t)
           /\ Complete(s \o t) <=> Complete(t)
           /\ Plain(s \o t) <=> Plain(s) /\ Plain(t)
<1> DEFINE d == Len(s)
           all == s \o t
<1>0. s \in Line /\ NoMark(s) /\ Complete(s)
  BY DEF Whole
<1>1. /\ all \in Line /\ Len(all) = d + Len(t) /\ d \in Nat /\ Len(t) \in Nat
      /\ \A k \in 1..d : all[k] = s[k]
      /\ \A k \in 1..Len(t) : all[d + k] = t[k]
  BY <1>0, Joined, ValuesAre
<1>2. /\ \A i \in 1..d : i \in Values(all) <=> i \in Values(s)
      /\ \A j \in 1..Len(t) : d + j \in Values(all) <=> j \in Values(t)
  BY <1>0, Met
<1>3. \A i \in 1..(d + Len(t)) :
         i \in 1..d \/ \E j \in 1..Len(t) : i = d + j
  <2> SUFFICES ASSUME NEW i \in 1..(d + Len(t)), i \notin 1..d
               PROVE  \E j \in 1..Len(t) : i = d + j
    OBVIOUS
  <2>1. i - d \in 1..Len(t) /\ i = d + (i - d)
    BY <1>1
  <2> QED
    BY <2>1
<1>4. /\ \A i \in 1..d : i \in 1..(d + Len(t))
      /\ \A j \in 1..Len(t) : d + j \in 1..(d + Len(t))
  BY <1>1
<1> HIDE DEF d, all
<1>5. NoMark(all)
  <2> SUFFICES ASSUME NEW i \in 1..(d + Len(t)) PROVE all[i] # DashDash
    BY <1>1 DEF NoMark
  <2>1. CASE i \in 1..d
    BY <1>0, <1>1, <2>1 DEF NoMark, d
  <2>2. CASE \E j \in 1..Len(t) : i = d + j
    BY <1>1, <2>2 DEF NoMark
  <2> QED
    BY <1>3, <2>1, <2>2
<1>6. /\ \A i \in 1..d : i \in FlagPart(all) <=> i \in FlagPart(s)
      /\ \A j \in 1..Len(t) : d + j \in FlagPart(all) <=> j \in FlagPart(t)
      /\ \A i \in 1..d : i \in WordPart(all) <=> i \in WordPart(s)
      /\ \A j \in 1..Len(t) : d + j \in WordPart(all) <=> j \in WordPart(t)
  <2>1. \A i \in 1..(d + Len(t)) : /\ i \in FlagPart(all) <=> all[i].dash \/ i \in Values(all)
                                   /\ i \in WordPart(all) <=> ~all[i].dash /\ i \notin Values(all)
    BY <1>1, <1>5, Sorted
  <2>2. \A i \in 1..d : /\ i \in FlagPart(s) <=> s[i].dash \/ i \in Values(s)
                        /\ i \in WordPart(s) <=> ~s[i].dash /\ i \notin Values(s)
    BY <1>0, Sorted DEF d
  <2>3. \A i \in 1..Len(t) : /\ i \in FlagPart(t) <=> t[i].dash \/ i \in Values(t)
                             /\ i \in WordPart(t) <=> ~t[i].dash /\ i \notin Values(t)
    BY Sorted
  <2>4. \A i \in 1..d : /\ i \in FlagPart(all) <=> i \in FlagPart(s)
                        /\ i \in WordPart(all) <=> i \in WordPart(s)
    BY <1>1, <1>2, <1>4, <2>1, <2>2
  <2>5. \A j \in 1..Len(t) : /\ d + j \in FlagPart(all) <=> j \in FlagPart(t)
                             /\ d + j \in WordPart(all) <=> j \in WordPart(t)
    <3> SUFFICES ASSUME NEW j \in 1..Len(t)
                 PROVE  /\ d + j \in FlagPart(all) <=> j \in FlagPart(t)
                        /\ d + j \in WordPart(all) <=> j \in WordPart(t)
      OBVIOUS
    <3>1. d + j \in 1..(d + Len(t)) /\ all[d + j] = t[j]
      BY <1>1, <1>4
    <3>2. d + j \in Values(all) <=> j \in Values(t)
      BY <1>2
    <3> DEFINE i == d + j
    <3>3. i \in 1..(d + Len(t)) /\ all[i] = t[j] /\ (i \in Values(all) <=> j \in Values(t))
      BY <3>1, <3>2
    <3> HIDE DEF i
    <3>4. /\ i \in FlagPart(all) <=> j \in FlagPart(t)
          /\ i \in WordPart(all) <=> j \in WordPart(t)
      BY <2>1, <2>3, <3>3
    <3> QED
      BY <3>4 DEF i
  <2> QED
    BY <2>4, <2>5
<1>7. FlagsOf(all) = FlagsOf(s) \o FlagsOf(t) /\ WordsOf(all) = WordsOf(s) \o WordsOf(t)
  <2>1. /\ FlagsOf(all) = At(all, FlagPart(all)) /\ WordsOf(all) = At(all, WordPart(all))
        /\ FlagsOf(s) = At(s, FlagPart(s)) /\ WordsOf(s) = At(s, WordPart(s))
        /\ FlagsOf(t) = At(t, FlagPart(t)) /\ WordsOf(t) = At(t, WordPart(t))
    BY <1>0, <1>1, <1>5, Sorted
  <2>2. /\ FlagPart(all) \subseteq 1..Len(s \o t) /\ WordPart(all) \subseteq 1..Len(s \o t)
        /\ FlagPart(s) \subseteq 1..Len(s) /\ WordPart(s) \subseteq 1..Len(s)
        /\ FlagPart(t) \subseteq 1..Len(t) /\ WordPart(t) \subseteq 1..Len(t)
    BY <1>0, <1>1, <1>5, Sorted DEF all
  <2>3. /\ \A i \in 1..Len(s) : i \in FlagPart(all) <=> i \in FlagPart(s)
        /\ \A j \in 1..Len(t) : Len(s) + j \in FlagPart(all) <=> j \in FlagPart(t)
        /\ \A i \in 1..Len(s) : i \in WordPart(all) <=> i \in WordPart(s)
        /\ \A j \in 1..Len(t) : Len(s) + j \in WordPart(all) <=> j \in WordPart(t)
    BY <1>6 DEF d
  <2>4. /\ Both(s, t, FlagPart(s), FlagPart(t), FlagPart(all))
        /\ Both(s, t, WordPart(s), WordPart(t), WordPart(all))
    BY <2>2, <2>3 DEF Both
  <2>5. \A P, Q, R : Both(s, t, P, Q, R) => At(s \o t, R) = At(s, P) \o At(t, Q)
    BY <1>0, AtJoined
  <2>6. /\ At(all, FlagPart(all)) = At(s, FlagPart(s)) \o At(t, FlagPart(t))
        /\ At(all, WordPart(all)) = At(s, WordPart(s)) \o At(t, WordPart(t))
    BY <2>4, <2>5 DEF all
  <2> QED
    BY <2>1, <2>6
<1>8. Complete(all) <=> Complete(t)
  <2>1. CASE Len(t) = 0
    <3>1. Complete(t)
      BY <2>1 DEF Complete
    <3>2. Len(all) = d
      BY <1>1, <2>1
    <3>3. d = 0 => Complete(all)
      BY <3>2 DEF Complete
    <3>4. d # 0 => (d \in Values(all) <=> d \in Values(s)) /\ all[d] = s[d]
      BY <1>1, <1>2
    <3> QED
      BY <1>0, <3>1, <3>2, <3>3, <3>4 DEF Complete, d
  <2>2. CASE Len(t) # 0
    <3> DEFINE n == Len(t)
               m == d + n
    <3>1. n \in 1..n /\ m # 0 /\ n # 0
      BY <1>1, <2>2
    <3>2. Len(all) = m /\ all[m] = t[n] /\ (m \in Values(all) <=> n \in Values(t))
      BY <1>1, <1>2, <3>1
    <3> HIDE DEF n, m
    <3>3. Complete(all) <=> (m \notin Values(all) => ~PullsValue(all[m]))
      BY <3>1, <3>2 DEF Complete
    <3>4. Complete(t) <=> (n \notin Values(t) => ~PullsValue(t[n]))
      BY <3>1 DEF Complete, n
    <3> QED
      BY <3>2, <3>3, <3>4
  <2> QED
    BY <2>1, <2>2
<1>9. Plain(all) <=> Plain(s) /\ Plain(t)
  <2> DEFINE P(u, i) == i \notin Values(u) /\ ~u[i].dash => u[i].text \notin valueFlags
  <2>1. Plain(all) <=> \A i \in 1..(d + Len(t)) : P(all, i)
    BY <1>1 DEF Plain
  <2>2. Plain(s) <=> \A i \in 1..d : P(s, i)
    BY DEF Plain, d
  <2>3. Plain(t) <=> \A i \in 1..Len(t) : P(t, i)
    BY DEF Plain
  <2>4. \A i \in 1..d : P(all, i) <=> P(s, i)
    BY <1>1, <1>2
  <2>5. \A j \in 1..Len(t) : P(all, d + j) <=> P(t, j)
    BY <1>1, <1>2
  <2> HIDE DEF P
  <2> QED
    BY <1>3, <1>4, <2>1, <2>2, <2>3, <2>4, <2>5
<1> QED
  BY <1>1, <1>5, <1>7, <1>8, <1>9 DEF all

\* Where everything is a flag or the value of one, reordering changes nothing,
LEMMA AllFlags ==
    ASSUME NEW s \in Line, NoMark(s), \A i \in 1..Len(s) : s[i].dash \/ i \in Values(s)
    PROVE  FlagsOf(s) = s /\ WordsOf(s) = <<>> /\ Plain(s)
<1>1. FlagPart(s) = 1..Len(s) /\ WordPart(s) = {}
  BY Sorted
<1>2. FlagsOf(s) = s /\ WordsOf(s) = <<>>
  BY <1>1, Sorted, AtAll
<1> QED
  BY <1>2 DEF Plain

\* nor where there are only words.
LEMMA AllWords ==
    ASSUME NEW s \in Line, \A i \in 1..Len(s) : ~s[i].dash
    PROVE  Whole(s) /\ Values(s) = {} /\ FlagsOf(s) = <<>> /\ WordsOf(s) = s
<1>1. Len(s) \in Nat /\ Values(s) \subseteq 1..Len(s)
      /\ \A i \in 1..Len(s) : i \in Values(s) <=>
            i # 1 /\ i - 1 \notin Values(s) /\ PullsValue(s[i - 1])
  BY ValuesAre
<1>2. \A i \in 1..Len(s) : ~PullsValue(s[i])
  BY DEF PullsValue, IsFlag
<1>3. \A i \in 1..Len(s) : i # 1 => i - 1 \in 1..Len(s)
  BY <1>1
<1>4. Values(s) = {}
  BY <1>1, <1>2, <1>3
<1>5. NoMark(s)
  <2>1. DashDash.dash
    BY DEF DashDash, Flag
  <2> QED
    BY <2>1 DEF NoMark
<1>6. Complete(s)
  <2>1. Len(s) # 0 => Len(s) \in 1..Len(s)
    BY <1>1
  <2> QED
    BY <1>2, <2>1 DEF Complete
<1>7. WordPart(s) = 1..Len(s) /\ FlagPart(s) = {}
  BY <1>4, <1>5, Sorted
<1> QED
  BY <1>4, <1>5, <1>6, <1>7, Sorted, AtAll DEF Whole

\* The flags of a line and its words are lines of that kind.
LEMMA Halves ==
    ASSUME NEW s, Whole(s), NEW f, f = FlagsOf(s), NEW w, w = WordsOf(s)
    PROVE  /\ Whole(f) /\ FlagsOf(f) = f /\ WordsOf(f) = <<>> /\ Plain(f)
           /\ Whole(w) /\ FlagsOf(w) = <<>> /\ WordsOf(w) = w
           /\ \A k \in 1..Len(w) : ~w[k].dash
           /\ Plain(s) <=> Plain(w)
<1> DEFINE F == FlagPart(s)
           W == WordPart(s)
           n == Cardinality(F)
           m == Cardinality(W)
<1>0. /\ s \in Line /\ NoMark(s) /\ Complete(s) /\ Len(s) \in Nat
      /\ f = At(s, F) /\ w = At(s, W)
      /\ F \subseteq 1..Len(s) /\ W \subseteq 1..Len(s)
      /\ \A i \in 1..Len(s) : i \in F <=> s[i].dash \/ i \in Values(s)
      /\ \A i \in 1..Len(s) : i \in W <=> ~s[i].dash /\ i \notin Values(s)
  BY Sorted, ValuesAre DEF Whole
<1>1. /\ f \in Line /\ Len(f) = n /\ n \in Nat
      /\ \A k \in 1..n : Nth(F, k) \in F /\ f[k] = s[Nth(F, k)]
      /\ \A i \in F : /\ Rank(F, i) \in 1..n
                      /\ Nth(F, Rank(F, i)) = i /\ f[Rank(F, i)] = s[i]
  BY <1>0, AtHas
<1>2. /\ w \in Line /\ Len(w) = m /\ m \in Nat
      /\ \A k \in 1..m : Nth(W, k) \in W /\ w[k] = s[Nth(W, k)]
      /\ \A i \in W : /\ Rank(W, i) \in 1..m
                      /\ Nth(W, Rank(W, i)) = i /\ w[Rank(W, i)] = s[i]
  BY <1>0, AtHas
<1>3. \A k \in 1..n : k \in Values(f) <=> Nth(F, k) \in Values(s)
  <2>1. Together(s, F)
    BY <1>0, FlagsTogether
  <2> QED
    BY <1>0, <2>1, AtValues
<1> HIDE DEF F, W, n, m
<1>4. NoMark(f)
  BY <1>0, <1>1 DEF NoMark
<1>5. \A k \in 1..n : f[k].dash \/ k \in Values(f)
  BY <1>0, <1>1, <1>3
<1>6. Complete(f)
  <2> SUFFICES ASSUME n # 0, n \notin Values(f), PullsValue(f[n]) PROVE FALSE
    BY <1>1 DEF Complete
  <2> DEFINE i == Nth(F, n)
  <2>1. n \in 1..n
    BY <1>1
  <2>2. i \in F /\ i \in 1..Len(s) /\ i \notin Values(s) /\ PullsValue(s[i]) /\ Rank(F, i) = n
    <3>1. i \in F /\ i \in 1..Len(s) /\ i \notin Values(s) /\ PullsValue(s[i])
      BY <1>0, <1>1, <1>3, <2>1
    <3>2. \A k \in 1..Cardinality(F) : Rank(F, Nth(F, k)) = k
      BY <1>0, NthOf
    <3> QED
      BY <2>1, <3>1, <3>2 DEF n
  <2>3. i # Len(s)
    BY <1>0, <2>2 DEF Complete
  <2>4. i + 1 \in 1..Len(s) /\ (i + 1) - 1 = i /\ i + 1 # 1 /\ i < i + 1
    BY <1>0, <2>2, <2>3
  <2> HIDE DEF i
  <2>5. i + 1 \in Values(s)
    <3>1. \A j \in 1..Len(s) : j \in Values(s) <=>
                 j # 1 /\ j - 1 \notin Values(s) /\ PullsValue(s[j - 1])
      BY <1>0, ValuesAre
    <3> QED
      BY <2>2, <2>4, <3>1
  <2>6. i + 1 \in F
    BY <1>0, <2>4, <2>5
  <2>7. Rank(F, i) < Rank(F, i + 1)
    <3>1. \A a, b \in F : a < b <=> Rank(F, a) < Rank(F, b)
      BY <1>0, NthOf
    <3> QED
      BY <2>2, <2>4, <2>6, <3>1
  <2>8. Rank(F, i + 1) \in 1..n
    BY <1>1, <2>6
  <2> QED
    BY <1>1, <2>2, <2>7, <2>8
<1>7. Whole(f) /\ FlagsOf(f) = f /\ WordsOf(f) = <<>> /\ Plain(f)
  <2>1. \A k \in 1..Len(f) : f[k].dash \/ k \in Values(f)
    BY <1>1, <1>5
  <2> QED
    BY <1>1, <1>4, <1>6, <2>1, AllFlags DEF Whole
<1>8. \A k \in 1..Len(w) : ~w[k].dash
  BY <1>0, <1>2
<1>9. Whole(w) /\ Values(w) = {} /\ FlagsOf(w) = <<>> /\ WordsOf(w) = w
  BY <1>2, <1>8, AllWords
<1>10. Plain(s) <=> Plain(w)
  <2>1. Plain(s) <=> \A i \in W : s[i].text \notin valueFlags
    BY <1>0 DEF Plain
  <2>2. Plain(w) <=> \A k \in 1..m : w[k].text \notin valueFlags
    BY <1>2, <1>8, <1>9 DEF Plain
  <2> QED
    BY <1>2, <2>1, <2>2
<1> QED
  BY <1>7, <1>8, <1>9, <1>10

\* The flags of a line before its words, or behind them.
Rearrangements(s) == {FlagsOf(s) \o WordsOf(s), WordsOf(s) \o FlagsOf(s)}

\* Both say the same as the line.
LEMMA Rearranged ==
    ASSUME NEW s, Whole(s), NEW r \in Rearrangements(s)
    PROVE  /\ Whole(r) /\ FlagsOf(r) = FlagsOf(s) /\ WordsOf(r) = WordsOf(s)
           /\ Plain(s) <=> Plain(r)
<1> DEFINE f == FlagsOf(s)
           w == WordsOf(s)
<1>1. /\ Whole(f) /\ FlagsOf(f) = f /\ WordsOf(f) = <<>> /\ Plain(f)
      /\ Whole(w) /\ FlagsOf(w) = <<>> /\ WordsOf(w) = w
      /\ Plain(s) <=> Plain(w)
  BY Halves
<1>2. f \in Line /\ NoMark(f) /\ Complete(f) /\ w \in Line /\ NoMark(w) /\ Complete(w)
  BY <1>1 DEF Whole
<1>3. r = f \o w \/ r = w \o f
  BY DEF Rearrangements
<1>4. /\ f \o <<>> = f /\ <<>> \o f = f /\ w \o <<>> = w /\ <<>> \o w = w
  BY <1>2, ConcatEmptySeq DEF Line
<1> HIDE DEF f, w
<1>5. CASE r = f \o w
  <2>1. /\ f \o w \in Line /\ NoMark(f \o w)
        /\ FlagsOf(f \o w) = FlagsOf(f) \o FlagsOf(w)
        /\ WordsOf(f \o w) = WordsOf(f) \o WordsOf(w)
        /\ Complete(f \o w) <=> Complete(w)
        /\ Plain(f \o w) <=> Plain(f) /\ Plain(w)
    BY <1>1, <1>2, SortedJoined
  <2> QED
    BY <1>1, <1>2, <1>4, <1>5, <2>1 DEF Whole, f, w
<1>6. CASE r = w \o f
  <2>1. /\ w \o f \in Line /\ NoMark(w \o f)
        /\ FlagsOf(w \o f) = FlagsOf(w) \o FlagsOf(f)
        /\ WordsOf(w \o f) = WordsOf(w) \o WordsOf(f)
        /\ Complete(w \o f) <=> Complete(f)
        /\ Plain(w \o f) <=> Plain(w) /\ Plain(f)
    BY <1>1, <1>2, SortedJoined
  <2> QED
    BY <1>1, <1>2, <1>4, <1>6, <2>1 DEF Whole, f, w
<1> QED
  BY <1>3, <1>5, <1>6

\* Two complete lines with the same flags and words in the same order.
Alike(s, t) == Whole(s) /\ Whole(t) /\ FlagsOf(s) = FlagsOf(t) /\ WordsOf(s) = WordsOf(t)

\* Behind a complete line too.
LEMMA RearrangedBehind ==
    ASSUME NEW p, Whole(p), NEW s, Whole(s), NEW r \in Rearrangements(s)
    PROVE  Alike(p \o s, p \o r) /\ (Plain(p \o s) <=> Plain(p \o r))
<1>1. /\ Whole(r) /\ FlagsOf(r) = FlagsOf(s) /\ WordsOf(r) = WordsOf(s)
      /\ Plain(s) <=> Plain(r)
  BY Rearranged
<1>2. \A t : Whole(t) =>
        /\ Whole(p \o t) /\ FlagsOf(p \o t) = FlagsOf(p) \o FlagsOf(t)
        /\ WordsOf(p \o t) = WordsOf(p) \o WordsOf(t)
        /\ Plain(p \o t) <=> Plain(p) /\ Plain(t)
  BY SortedJoined DEF Whole
<1> QED
  BY <1>1, <1>2 DEF Alike

\* Such lines have the same arguments, and the same values among them.
LEMMA Tokens ==
    ASSUME NEW s, NEW t, Alike(s, t), NEW i \in 1..Len(s)
    PROVE  \E j \in 1..Len(t) : t[j] = s[i] /\ (j \in Values(t) <=> i \in Values(s))
<1> DEFINE Has(u, P) ==
             /\ P \subseteq 1..Len(u)
             /\ \A k \in 1..Len(At(u, P)) :
                   Nth(P, k) \in P /\ At(u, P)[k] = u[Nth(P, k)]
             /\ \A j \in P : /\ Rank(P, j) \in 1..Len(At(u, P))
                             /\ At(u, P)[Rank(P, j)] = u[j] /\ Nth(P, Rank(P, j)) = j
<1>1. ASSUME NEW u, Whole(u)
      PROVE  /\ Has(u, FlagPart(u)) /\ Has(u, WordPart(u))
             /\ FlagsOf(u) = At(u, FlagPart(u)) /\ WordsOf(u) = At(u, WordPart(u))
             /\ \A j \in 1..Len(u) : j \in FlagPart(u) <=> u[j].dash \/ j \in Values(u)
             /\ \A j \in 1..Len(u) : j \in WordPart(u) <=> ~u[j].dash /\ j \notin Values(u)
             /\ \A k \in 1..Len(FlagsOf(u)) :
                   k \in Values(FlagsOf(u)) <=> Nth(FlagPart(u), k) \in Values(u)
  <2>0. u \in Line /\ NoMark(u)
    BY <1>1 DEF Whole
  <2>1. /\ FlagsOf(u) = At(u, FlagPart(u)) /\ WordsOf(u) = At(u, WordPart(u))
        /\ FlagPart(u) \subseteq 1..Len(u) /\ WordPart(u) \subseteq 1..Len(u)
        /\ \A j \in 1..Len(u) : j \in FlagPart(u) <=> u[j].dash \/ j \in Values(u)
        /\ \A j \in 1..Len(u) : j \in WordPart(u) <=> ~u[j].dash /\ j \notin Values(u)
    BY <2>0, Sorted
  <2>2. ASSUME NEW P, P \subseteq 1..Len(u) PROVE Has(u, P)
    <3> DEFINE v == At(u, P)
               n == Cardinality(P)
    <3>1. Len(u) \in Nat
      BY <2>0, ValuesAre
    <3>2. /\ n \in Nat /\ \A k \in 1..n : Nth(P, k) \in P
          /\ \A j \in P : Rank(P, j) \in 1..n /\ Nth(P, Rank(P, j)) = j
      BY <2>2, <3>1, NthOf
    <3>3. v = [k \in 1..n |-> u[Nth(P, k)]]
      BY DEF At
    <3> HIDE DEF v, n
    <3>4. Len(v) = n /\ \A k \in 1..n : v[k] = u[Nth(P, k)]
      BY <3>2, <3>3
    <3>5. /\ \A k \in 1..Len(v) : Nth(P, k) \in P /\ v[k] = u[Nth(P, k)]
          /\ \A j \in P : /\ Rank(P, j) \in 1..Len(v)
                          /\ v[Rank(P, j)] = u[j] /\ Nth(P, Rank(P, j)) = j
      BY <3>2, <3>4
    <3> QED
      BY <2>2, <3>5 DEF v
  <2>3. Together(u, FlagPart(u)) /\ Len(At(u, FlagPart(u))) = Cardinality(FlagPart(u))
    BY <2>0, <2>1, FlagsTogether, AtHas
  <2>4. \A k \in 1..Cardinality(FlagPart(u)) :
           k \in Values(At(u, FlagPart(u))) <=> Nth(FlagPart(u), k) \in Values(u)
    BY <2>0, <2>1, <2>3, AtValues
  <2> HIDE DEF Has
  <2> QED
    BY <2>1, <2>2, <2>3, <2>4
<1>2. Whole(s) /\ Whole(t) /\ FlagsOf(s) = FlagsOf(t) /\ WordsOf(s) = WordsOf(t)
  BY DEF Alike
<1>3. CASE i \in FlagPart(s)
  <2> DEFINE k == Rank(FlagPart(s), i)
             f == FlagsOf(s)
             j == Nth(FlagPart(t), k)
  <2>1. k \in 1..Len(f) /\ f[k] = s[i] /\ Nth(FlagPart(s), k) = i
    BY <1>1, <1>2, <1>3
  <2>2. k \in Values(f) <=> i \in Values(s)
    BY <1>1, <1>2, <2>1
  <2>3. f = FlagsOf(t)
    BY <1>2
  <2> HIDE DEF k, f
  <2>4. j \in 1..Len(t) /\ f[k] = t[j]
    BY <1>1, <1>2, <2>1, <2>3
  <2>5. k \in Values(f) <=> j \in Values(t)
    BY <1>1, <1>2, <2>1, <2>3
  <2> QED
    BY <2>1, <2>2, <2>4, <2>5
<1>4. CASE i \in WordPart(s)
  <2> DEFINE k == Rank(WordPart(s), i)
             w == WordsOf(s)
             j == Nth(WordPart(t), k)
  <2>1. k \in 1..Len(w) /\ w[k] = s[i]
    BY <1>1, <1>2, <1>4
  <2>2. i \notin Values(s)
    BY <1>1, <1>2, <1>4
  <2>3. w = WordsOf(t)
    BY <1>2
  <2> HIDE DEF k, w
  <2>4. j \in WordPart(t) /\ j \in 1..Len(t) /\ w[k] = t[j]
    BY <1>1, <1>2, <2>1, <2>3
  <2>5. j \notin Values(t)
    BY <1>1, <1>2, <2>4
  <2> QED
    BY <2>1, <2>2, <2>4, <2>5
<1> QED
  BY <1>1, <1>2, <1>3, <1>4

-----------------------------------------------------------------------------
(* expandGroups, argument by argument.                                     *)

\* Where the lists begin says what their concatenation is.
LEMMA LaysOnce ==
    ASSUME NEW n \in Nat, NEW ss, NEW f \in Line, NEW g \in Line, NEW a, NEW b,
           Lays(a, ss, n, f), Lays(b, ss, n, g)
    PROVE  f = g
<1>1. /\ a[1] = 0 /\ a[n + 1] = Len(f) /\ \A i \in 1..n : a[i + 1] = a[i] + Len(ss[i])
      /\ \A i \in 1..n : \A k \in 1..Len(ss[i]) : f[a[i] + k] = ss[i][k]
      /\ \A j \in 1..Len(f) : \E i \in 1..n : \E k \in 1..Len(ss[i]) : j = a[i] + k
  BY DEF Lays
<1>2. /\ b[1] = 0 /\ b[n + 1] = Len(g) /\ \A i \in 1..n : b[i + 1] = b[i] + Len(ss[i])
      /\ \A i \in 1..n : \A k \in 1..Len(ss[i]) : g[b[i] + k] = ss[i][k]
  BY DEF Lays
<1> DEFINE Good == {m \in Nat : m <= n => a[m + 1] = b[m + 1]}
<1>3. 0 \in Good
  BY <1>1, <1>2
<1>4. ASSUME NEW m \in Nat, m \in Good PROVE m + 1 \in Good
  <2> SUFFICES ASSUME m + 1 <= n PROVE a[(m + 1) + 1] = b[(m + 1) + 1]
    OBVIOUS
  <2>1. m + 1 \in 1..n /\ m <= n
    OBVIOUS
  <2>2. a[m + 1] = b[m + 1]
    BY <1>4, <2>1
  <2> QED
    BY <1>1, <1>2, <2>1, <2>2
<1>5. \A m \in Nat : m \in Good
  <2> HIDE DEF Good
  <2> QED
    BY <1>3, <1>4, FromZeroUp
<1>6. \A i \in 1..(n + 1) : a[i] = b[i]
  <2> SUFFICES ASSUME NEW i \in 1..(n + 1) PROVE a[i] = b[i]
    OBVIOUS
  <2>1. i - 1 \in Nat /\ i - 1 <= n /\ (i - 1) + 1 = i
    OBVIOUS
  <2>2. i - 1 \in Good
    BY <1>5, <2>1
  <2> QED
    BY <2>1, <2>2
<1>7. \A i \in 1..n : a[i] = b[i]
  BY <1>6
<1>8. Len(f) = Len(g)
  BY <1>1, <1>2, <1>6
<1>9. \A j \in 1..Len(f) : f[j] = g[j]
  <2> SUFFICES ASSUME NEW j \in 1..Len(f) PROVE f[j] = g[j]
    OBVIOUS
  <2>1. PICK i \in 1..n : \E k \in 1..Len(ss[i]) : j = a[i] + k
    BY <1>1
  <2>2. PICK k \in 1..Len(ss[i]) : j = a[i] + k
    BY <2>1
  <2>3. f[a[i] + k] = ss[i][k] /\ g[b[i] + k] = ss[i][k] /\ a[i] = b[i]
    BY <1>1, <1>2, <1>7
  <2> QED
    BY <2>2, <2>3
<1> HIDE DEF Good
<1>10. f = [j \in 1..Len(f) |-> f[j]] /\ g = [j \in 1..Len(g) |-> g[j]]
  BY DEF Line
<1> QED
  BY <1>8, <1>9, <1>10

\* The lists of two sequences of lists, one after the other.
LEMMA FlattenJoined ==
    ASSUME NEW n \in Nat, NEW m \in Nat, NEW ss \in [1..n -> Line], NEW tt \in [1..m -> Line],
           NEW uu \in [1..(n + m) -> Line],
           \A i \in 1..n : uu[i] = ss[i], \A i \in 1..m : uu[n + i] = tt[i]
    PROVE  FlattenSeq(uu) = FlattenSeq(ss) \o FlattenSeq(tt)
<1> DEFINE f == FlattenSeq(ss)
           g == FlattenSeq(tt)
           h == FlattenSeq(uu)
<1>1. f \in Line /\ \E a : Lays(a, ss, n, f)
  BY Laid DEF Line
<1>2. g \in Line /\ \E b : Lays(b, tt, m, g)
  BY Laid DEF Line
<1>3. h \in Line /\ \E c : Lays(c, uu, n + m, h)
  <2>1. n + m \in Nat
    OBVIOUS
  <2> QED
    BY <2>1, Laid DEF Line
<1> HIDE DEF f, g, h
<1>4. PICK a : Lays(a, ss, n, f)
  BY <1>1
<1>5. PICK b : Lays(b, tt, m, g)
  BY <1>2
<1> DEFINE l == Len(f)
           d == [i \in 1..(n + m + 1) |-> IF i <= n THEN a[i] ELSE l + b[i - n]]
           all == f \o g
<1>6. /\ a \in [1..(n + 1) -> Nat] /\ a[1] = 0 /\ a[n + 1] = l
      /\ \A i \in 1..n : a[i + 1] = a[i] + Len(ss[i]) /\ a[i + 1] <= l
      /\ \A i \in 1..n : \A k \in 1..Len(ss[i]) : f[a[i] + k] = ss[i][k]
      /\ \A j \in 1..l : \E i \in 1..n : \E k \in 1..Len(ss[i]) : j = a[i] + k
  BY <1>4 DEF Lays
<1>7. /\ b \in [1..(m + 1) -> Nat] /\ b[1] = 0 /\ b[m + 1] = Len(g)
      /\ \A i \in 1..m : b[i + 1] = b[i] + Len(tt[i]) /\ b[i + 1] <= Len(g)
      /\ \A i \in 1..m : \A k \in 1..Len(tt[i]) : g[b[i] + k] = tt[i][k]
      /\ \A j \in 1..Len(g) : \E i \in 1..m : \E k \in 1..Len(tt[i]) : j = b[i] + k
  BY <1>5 DEF Lays
<1>8. /\ all \in Line /\ Len(all) = l + Len(g) /\ l \in Nat /\ Len(g) \in Nat
      /\ \A k \in 1..l : all[k] = f[k]
      /\ \A k \in 1..Len(g) : all[l + k] = g[k]
  BY <1>1, <1>2, Joined, ValuesAre
<1>9. /\ \A i \in 1..(n + 1) : d[i] = a[i] /\ d[i] \in Nat
      /\ \A i \in 1..(m + 1) : d[n + i] = l + b[i] /\ d[n + i] \in Nat
  <2>1. ASSUME NEW i \in 1..(m + 1) PROVE d[n + i] = l + b[i] /\ d[n + i] \in Nat
    <3>1. n + i \in 1..(n + m + 1) /\ ~(n + i <= n) /\ (n + i) - n = i
      OBVIOUS
    <3>2. b[i] \in Nat
      BY <1>7
    <3> QED
      BY <1>8, <3>1, <3>2
  <2>2. ASSUME NEW i \in 1..(n + 1) PROVE d[i] = a[i] /\ d[i] \in Nat
    <3>1. i \in 1..(n + m + 1) /\ (i <= n \/ (i = n + 1 /\ i - n = 1 /\ ~(i <= n)))
      OBVIOUS
    <3>2. a[i] \in Nat
      BY <1>6
    <3>3. CASE i <= n
      BY <3>1, <3>2, <3>3
    <3>4. CASE i = n + 1 /\ i - n = 1 /\ ~(i <= n)
      <4>1. d[i] = l + b[1]
        BY <3>1, <3>4
      <4>2. d[i] = l /\ a[i] = l
        BY <1>6, <1>7, <1>8, <3>4, <4>1
      <4> QED
        BY <1>8, <4>2
    <3> QED
      BY <3>1, <3>3, <3>4
  <2> QED
    BY <2>1, <2>2
<1>10. \A i \in 1..(n + m) : i \in 1..n \/ \E j \in 1..m : i = n + j
  <2> SUFFICES ASSUME NEW i \in 1..(n + m), i \notin 1..n PROVE \E j \in 1..m : i = n + j
    OBVIOUS
  <2>1. i - n \in 1..m /\ i = n + (i - n)
    OBVIOUS
  <2> QED
    BY <2>1
<1>11. d \in [1..(n + m + 1) -> Nat]
  <2> SUFFICES ASSUME NEW i \in 1..(n + m + 1) PROVE d[i] \in Nat
    OBVIOUS
  <2>1. i \in 1..(n + 1) \/ (i - n \in 1..(m + 1) /\ n + (i - n) = i)
    OBVIOUS
  <2> HIDE DEF d
  <2> QED
    BY <1>9, <2>1
<1> HIDE DEF d, all, l
<1>12. \A i \in 1..n : /\ d[i + 1] = d[i] + Len(uu[i]) /\ d[i + 1] <= Len(all)
                       /\ \A k \in 1..Len(uu[i]) : all[d[i] + k] = uu[i][k]
  <2> SUFFICES ASSUME NEW i \in 1..n
               PROVE  /\ d[i + 1] = d[i] + Len(uu[i]) /\ d[i + 1] <= Len(all)
                      /\ \A k \in 1..Len(uu[i]) : all[d[i] + k] = uu[i][k]
    OBVIOUS
  <2>1. i \in 1..(n + 1) /\ i + 1 \in 1..(n + 1)
    OBVIOUS
  <2>2. d[i] = a[i] /\ d[i + 1] = a[i + 1] /\ a[i] \in Nat /\ a[i + 1] \in Nat
    BY <1>9, <2>1
  <2>3. /\ uu[i] = ss[i] /\ a[i + 1] = a[i] + Len(ss[i]) /\ a[i + 1] <= l
        /\ \A k \in 1..Len(ss[i]) : f[a[i] + k] = ss[i][k]
    BY <1>6
  <2>4. Len(ss[i]) \in Nat
    BY DEF Line
  <2>5. \A k \in 1..Len(ss[i]) : a[i] + k \in 1..l
    BY <1>8, <2>2, <2>3, <2>4
  <2>6. l <= Len(all)
    BY <1>8
  <2>7. a[i + 1] <= Len(all)
    BY <1>8, <2>2, <2>3, <2>6
  <2> QED
    BY <1>8, <2>2, <2>3, <2>5, <2>7
<1>13. \A i \in 1..m : /\ d[(n + i) + 1] = d[n + i] + Len(uu[n + i]) /\ d[(n + i) + 1] <= Len(all)
                       /\ \A k \in 1..Len(uu[n + i]) : all[d[n + i] + k] = uu[n + i][k]
  <2> SUFFICES ASSUME NEW i \in 1..m
               PROVE  /\ d[(n + i) + 1] = d[n + i] + Len(uu[n + i]) /\ d[(n + i) + 1] <= Len(all)
                      /\ \A k \in 1..Len(uu[n + i]) : all[d[n + i] + k] = uu[n + i][k]
    OBVIOUS
  <2>1. i \in 1..(m + 1) /\ i + 1 \in 1..(m + 1) /\ (n + i) + 1 = n + (i + 1)
    OBVIOUS
  <2>2. /\ d[n + i] = l + b[i] /\ d[(n + i) + 1] = l + b[i + 1]
        /\ b[i] \in Nat /\ b[i + 1] \in Nat
    BY <1>7, <1>9, <2>1
  <2>3. /\ uu[n + i] = tt[i] /\ b[i + 1] = b[i] + Len(tt[i]) /\ b[i + 1] <= Len(g)
        /\ \A k \in 1..Len(tt[i]) : g[b[i] + k] = tt[i][k]
    BY <1>7
  <2>4. Len(tt[i]) \in Nat
    BY DEF Line
  <2> DEFINE x == b[i]
             y == b[i + 1]
             z == Len(tt[i])
  <2>9. x \in Nat /\ y \in Nat /\ z \in Nat /\ y = x + z /\ y <= Len(g)
    BY <2>2, <2>3, <2>4
  <2>5. \A k \in 1..Len(tt[i]) : b[i] + k \in 1..Len(g)
    <3> HIDE DEF x, y, z
    <3>1. \A k \in 1..z : x + k \in 1..Len(g)
      BY <1>8, <2>9
    <3> QED
      BY <3>1 DEF x, z
  <2>6. \A k \in 1..Len(tt[i]) : (l + b[i]) + k = l + (b[i] + k)
    BY <1>8, <2>2
  <2>7. \A k \in 1..Len(tt[i]) : all[(l + b[i]) + k] = tt[i][k]
    BY <1>8, <2>3, <2>5, <2>6
  <2>8. l + b[i + 1] = (l + b[i]) + Len(tt[i]) /\ l + b[i + 1] <= Len(all)
    <3> HIDE DEF x, y, z
    <3>1. l + y = (l + x) + z /\ l + y <= Len(all)
      BY <1>8, <2>9
    <3> QED
      BY <3>1 DEF x, y, z
  <2> QED
    BY <2>2, <2>3, <2>7, <2>8
<1>14. \A j \in 1..Len(all) : \E i \in 1..(n + m) : \E k \in 1..Len(uu[i]) : j = d[i] + k
  <2> SUFFICES ASSUME NEW j \in 1..Len(all)
               PROVE  \E i \in 1..(n + m) : \E k \in 1..Len(uu[i]) : j = d[i] + k
    OBVIOUS
  <2>1. CASE j \in 1..l
    <3>1. PICK i \in 1..n : \E k \in 1..Len(ss[i]) : j = a[i] + k
      BY <1>6, <2>1
    <3>2. i \in 1..(n + m) /\ i \in 1..(n + 1)
      OBVIOUS
    <3>3. uu[i] = ss[i] /\ d[i] = a[i]
      BY <1>9, <3>2
    <3> QED
      BY <3>1, <3>2, <3>3
  <2>2. CASE j \notin 1..l
    <3> DEFINE q == j - l
    <3>1. q \in 1..Len(g) /\ j = l + q
      BY <1>8, <2>2
    <3> HIDE DEF q
    <3>2. PICK i \in 1..m : \E k \in 1..Len(tt[i]) : q = b[i] + k
      BY <1>7, <3>1
    <3>3. PICK k \in 1..Len(tt[i]) : q = b[i] + k
      BY <3>2
    <3>4. n + i \in 1..(n + m) /\ i \in 1..(m + 1)
      OBVIOUS
    <3>5. uu[n + i] = tt[i] /\ d[n + i] = l + b[i] /\ b[i] \in Nat
      BY <1>7, <1>9, <3>4
    <3>6. j = d[n + i] + k
      <4> DEFINE x == b[i]
      <4>1. x \in Nat /\ q = x + k /\ d[n + i] = l + x /\ k \in Int
        BY <3>3, <3>5
      <4> HIDE DEF x
      <4>2. l + (x + k) = (l + x) + k
        BY <1>8, <4>1
      <4> QED
        BY <3>1, <4>1, <4>2
    <3> QED
      BY <3>4, <3>5, <3>6
  <2> QED
    BY <2>1, <2>2
<1>15. d[1] = 0 /\ d[n + m + 1] = Len(all)
  <2>1. 1 \in 1..(n + 1) /\ m + 1 \in 1..(m + 1) /\ n + (m + 1) = n + m + 1
    OBVIOUS
  <2>2. d[1] = a[1] /\ d[n + (m + 1)] = l + b[m + 1]
    BY <1>9, <2>1
  <2> QED
    BY <1>6, <1>7, <1>8, <2>1, <2>2
<1>16. Lays(d, uu, n + m, all)
  <2>1. \A i \in 1..(n + m) : /\ d[i + 1] = d[i] + Len(uu[i]) /\ d[i + 1] <= Len(all)
                              /\ \A k \in 1..Len(uu[i]) : all[d[i] + k] = uu[i][k]
    <3> SUFFICES ASSUME NEW i \in 1..(n + m)
                 PROVE  /\ d[i + 1] = d[i] + Len(uu[i]) /\ d[i + 1] <= Len(all)
                        /\ \A k \in 1..Len(uu[i]) : all[d[i] + k] = uu[i][k]
      OBVIOUS
    <3>1. CASE i \in 1..n
      BY <1>12, <3>1
    <3>2. CASE \E j \in 1..m : i = n + j
      <4>1. PICK j \in 1..m : i = n + j
        BY <3>2
      <4> QED
        BY <1>13, <4>1
    <3> QED
      BY <1>10, <3>1, <3>2
  <2> QED
    BY <1>11, <1>14, <1>15, <2>1 DEF Lays
<1>17. h = all
  <2>1. n + m \in Nat
    OBVIOUS
  <2> QED
    BY <1>3, <1>8, <1>16, <2>1, LaysOnce
<1> QED
  BY <1>17 DEF all, f, g, h

\* The first k arguments, and the rest, which does not begin with a value.
CutIn(s, k, t, u) ==
    /\ k \in Nat /\ k < Len(s) /\ k + 1 \notin Values(s)
    /\ t = SubSeq(s, 1, k) /\ u = SubSeq(s, k + 1, Len(s))

\* A line may be cut there.
LEMMA CutAt ==
    ASSUME NEW s \in Line, NEW k, NEW t, NEW u, CutIn(s, k, t, u)
    PROVE  /\ t \in Line /\ u \in Line /\ s = t \o u /\ Len(t) = k /\ Len(u) = Len(s) - k
           /\ Complete(t)
           /\ NoMark(s) => NoMark(t) /\ NoMark(u)
           /\ \A i \in 1..k : t[i] = s[i] /\ (i \in Values(t) <=> i \in Values(s))
           /\ \A i \in 1..Len(u) : k + i \in 1..Len(s) /\ u[i] = s[k + i]
<1>0. Len(s) \in Nat /\ k \in Nat /\ k < Len(s) /\ k <= Len(s)
      /\ k + 1 \notin Values(s) /\ t = SubSeq(s, 1, k) /\ u = SubSeq(s, k + 1, Len(s))
  BY ValuesAre DEF CutIn
<1>1. t \in Line /\ Len(t) = k /\ \A i \in 1..k : t[i] = s[i]
  <2>1. 1 \in 1..(Len(s) + 1) /\ k \in 0..Len(s) /\ 1 <= k + 1 /\ (k - 1) + 1 = k
        /\ \A i \in 1..k : (1 - 1) + i = i
    BY <1>0
  <2>2. /\ SubSeq(s, 1, k) \in Line /\ Len(SubSeq(s, 1, k)) = (k - 1) + 1
        /\ \A i \in 1..((k - 1) + 1) : SubSeq(s, 1, k)[i] = s[(1 - 1) + i]
    BY <2>1, Slice
  <2> QED
    BY <1>0, <2>1, <2>2
<1>2. u \in Line /\ Len(u) = Len(s) - k /\ \A i \in 1..Len(u) : u[i] = s[k + i]
  <2> DEFINE a == k + 1
             b == Len(s)
  <2>1. a \in 1..(Len(s) + 1) /\ b \in 0..Len(s) /\ a <= b + 1 /\ (b - a) + 1 = b - k /\ a - 1 = k
    BY <1>0
  <2> HIDE DEF a, b
  <2>2. /\ SubSeq(s, a, b) \in Line /\ Len(SubSeq(s, a, b)) = (b - a) + 1
        /\ \A i \in 1..((b - a) + 1) : SubSeq(s, a, b)[i] = s[(a - 1) + i]
    BY <2>1, Slice
  <2>3. u = SubSeq(s, a, b)
    BY <1>0 DEF a, b
  <2>4. Len(u) = b - k /\ \A i \in 1..Len(u) : u[i] = s[k + i]
    BY <2>1, <2>2, <2>3
  <2> QED
    BY <2>2, <2>3, <2>4 DEF b
<1>3. s = t \o u
  <2> DEFINE v == t \o u
  <2>0. /\ v \in Line /\ Len(v) = Len(t) + Len(u)
        /\ \A i \in 1..Len(t) : v[i] = t[i]
        /\ \A i \in 1..Len(u) : v[Len(t) + i] = u[i]
    BY <1>1, <1>2, Joined
  <2> HIDE DEF v
  <2>1. /\ v \in Line /\ Len(v) = k + Len(u)
        /\ \A i \in 1..k : v[i] = t[i]
        /\ \A i \in 1..Len(u) : v[k + i] = u[i]
    BY <1>1, <2>0
  <2>2. Len(v) = Len(s)
    BY <1>0, <1>2, <2>1
  <2>3. ASSUME NEW i \in 1..Len(s) PROVE v[i] = s[i]
    <3>1. CASE i <= k
      <4>1. i \in 1..k
        BY <1>0, <3>1
      <4> QED
        BY <1>1, <2>1, <4>1
    <3>2. CASE ~(i <= k)
      <4> DEFINE j == i - k
      <4>1. j \in 1..Len(u) /\ i = k + j
        BY <1>0, <1>2, <3>2
      <4> HIDE DEF j
      <4> QED
        BY <1>2, <2>1, <4>1
    <3> QED
      BY <3>1, <3>2
  <2>4. v \in Line
    BY <2>1
  <2>5. v = [i \in 1..Len(v) |-> v[i]] /\ s = [i \in 1..Len(s) |-> s[i]]
    BY <2>4 DEF Line
  <2> QED
    BY <2>2, <2>3, <2>5 DEF v
<1>4. \A i \in 1..k : i \in Values(t) <=> i \in Values(s)
  <2>1. /\ 0 \in Nat /\ 0 + k <= Len(s) /\ 0 + k <= Len(t)
        /\ \A i \in 1..k : 0 + i = i
        /\ 0 + 1 = 1
    BY <1>0, <1>1
  <2>2. \A i \in 1..k : t[0 + i] = s[0 + i]
    BY <1>1, <2>1
  <2>3. 0 + 1 \in Values(t) <=> 0 + 1 \in Values(s)
    <3>1. \A v \in Line : 1 \notin Values(v)
      BY ValuesAre
    <3> QED
      BY <1>1, <2>1, <3>1
  <2>4. \A i \in 1..k : 0 + i \in Values(t) <=> 0 + i \in Values(s)
    BY ONLY s \in Line, <1>0, <1>1, <2>1, <2>2, <2>3, Aligned
  <2> QED
    BY <2>1, <2>4
<1>5. Complete(t)
  <2> SUFFICES ASSUME k # 0, k \notin Values(t), PullsValue(t[k]) PROVE FALSE
    BY <1>1 DEF Complete
  <2>1. k \in 1..k
    BY <1>0
  <2>2. k \notin Values(s) /\ PullsValue(s[k])
    BY <1>1, <1>4, <2>1
  <2>4. k + 1 \in 1..Len(s) /\ k + 1 # 1 /\ (k + 1) - 1 = k
    BY <1>0
  <2>5. k + 1 \in Values(s)
    BY <2>2, <2>4, ValuesAre
  <2> QED
    BY <1>0, <2>5
<1>6. \A i \in 1..Len(u) : k + i \in 1..Len(s)
  BY <1>0, <1>2
<1>7. NoMark(s) => NoMark(t) /\ NoMark(u)
  <2>1. \A i \in 1..k : i \in 1..Len(s)
    BY <1>0
  <2> QED
    BY <1>1, <1>2, <1>6, <2>1 DEF NoMark
<1> QED
  BY <1>1, <1>2, <1>3, <1>4, <1>5, <1>6, <1>7

\* A flag that takes no value or is written with it, a flag and its value, or a
\* word.
IsUnit(u) == Whole(u) /\ (Len(u) = 1 \/ (Len(u) = 2 /\ 2 \in Values(u)))

\* A complete line ends in one of these.
LEMMA LastUnit ==
    ASSUME NEW s, Whole(s), Len(s) # 0
    PROVE  \E t, u : Whole(t) /\ IsUnit(u) /\ s = t \o u
<1> DEFINE n == Len(s)
<1>0. s \in Line /\ NoMark(s) /\ Complete(s) /\ n \in Nat /\ n # 0 /\ n \in 1..n
  BY ValuesAre DEF Whole
<1>1. \A i \in 1..n : i \in Values(s) <=> i # 1 /\ i - 1 \notin Values(s) /\ PullsValue(s[i - 1])
  BY <1>0, ValuesAre
<1>2. ASSUME NEW k \in Nat, k < n, k + 1 \notin Values(s),
             n = k + 1 \/ (n = k + 2 /\ n \in Values(s))
      PROVE  \E t, u : Whole(t) /\ IsUnit(u) /\ s = t \o u
  <2> DEFINE t == SubSeq(s, 1, k)
             u == SubSeq(s, k + 1, Len(s))
  <2>0. CutIn(s, k, t, u)
    BY <1>2 DEF CutIn
  <2> HIDE DEF t, u
  <2>1. /\ t \in Line /\ u \in Line /\ s = t \o u /\ Len(t) = k /\ Len(u) = n - k
        /\ Complete(t) /\ NoMark(t) /\ NoMark(u)
    BY <1>0, <2>0, CutAt
  <2>2. Whole(t)
    BY <2>1 DEF Whole
  <2>3. Complete(u)
    BY <1>0, <2>1, <2>2, SortedJoined
  <2>4. Whole(u)
    BY <2>1, <2>3 DEF Whole
  <2>5. \A j \in 1..Len(u) : k + j \in Values(s) <=> j \in Values(u)
    BY <2>1, Met
  <2>6. IsUnit(u)
    <3>1. CASE n = k + 1
      BY <1>2, <2>1, <2>4, <3>1 DEF IsUnit
    <3>2. CASE n = k + 2 /\ n \in Values(s)
      <4>1. Len(u) = 2 /\ 2 \in 1..Len(u) /\ k + 2 = n
        BY <1>2, <2>1, <3>2
      <4> QED
        BY <2>4, <2>5, <3>2, <4>1 DEF IsUnit
    <3> QED
      BY <1>2, <3>1, <3>2
  <2> QED
    BY <2>1, <2>2, <2>6
<1>3. CASE n \notin Values(s)
  <2>1. n - 1 \in Nat /\ n - 1 < n /\ (n - 1) + 1 = n
    BY <1>0
  <2> QED
    BY <1>2, <1>3, <2>1
<1>4. CASE n \in Values(s)
  <2>1. n # 1 /\ n - 1 \notin Values(s)
    BY <1>0, <1>1, <1>4
  <2>2. n - 2 \in Nat /\ n - 2 < n /\ (n - 2) + 1 = n - 1 /\ n = (n - 2) + 2
    <3> HIDE DEF n
    <3> QED
      BY <1>0, <2>1
  <2> QED
    BY <1>2, <1>4, <2>1, <2>2
<1> QED
  BY <1>3, <1>4

\* So what holds of these, and of two lines joined when it holds of both, holds
\* of every complete line.
LEMMA EveryWhole ==
    ASSUME NEW S, <<>> \in S, \A u : IsUnit(u) => u \in S,
           \A t, u : Whole(t) /\ Whole(u) /\ t \in S /\ u \in S => t \o u \in S
    PROVE  \A s : Whole(s) => s \in S
<1> DEFINE Good == {n \in Nat : \A s : Whole(s) /\ Len(s) <= n => s \in S}
<1>1. \A s : Whole(s) => Len(s) \in Nat /\ s \in Line
  BY ValuesAre DEF Whole
<1>2. 0 \in Good
  <2> SUFFICES ASSUME NEW s, Whole(s), Len(s) <= 0 PROVE s \in S
    OBVIOUS
  <2>1. Len(s) = 0
    BY <1>1
  <2>2. s = <<>>
    BY <1>1, <2>1 DEF Line
  <2> QED
    BY <2>2
<1>3. ASSUME NEW n \in Nat, n \in Good PROVE n + 1 \in Good
  <2> SUFFICES ASSUME NEW s, Whole(s), Len(s) <= n + 1 PROVE s \in S
    OBVIOUS
  <2>1. CASE Len(s) = 0
    BY <1>1, <1>3, <2>1
  <2>2. CASE Len(s) # 0
    <3>1. PICK t, u : Whole(t) /\ IsUnit(u) /\ s = t \o u
      BY <2>2, LastUnit
    <3>2. Whole(u) /\ Len(u) >= 1 /\ Len(u) \in Nat
      <4>1. Whole(u) /\ (Len(u) = 1 \/ Len(u) = 2)
        BY <3>1 DEF IsUnit
      <4> QED
        BY <4>1
    <3>3. Len(s) = Len(t) + Len(u) /\ Len(t) \in Nat
      BY <1>1, <3>1, <3>2, Joined
    <3>4. Len(t) <= n
      BY <1>1, <3>2, <3>3
    <3>5. t \in S /\ u \in S
      BY <1>3, <3>1, <3>4
    <3> QED
      BY <3>1, <3>2, <3>5
  <2> QED
    BY <2>1, <2>2
<1>4. \A n \in Nat : n \in Good
  <2> HIDE DEF Good
  <2> QED
    BY <1>2, <1>3, FromZeroUp
<1> SUFFICES ASSUME NEW s, Whole(s) PROVE s \in S
  OBVIOUS
<1>5. Len(s) \in Nat /\ Len(s) <= Len(s) /\ Len(s) \in Good
  BY <1>1, <1>4
<1> QED
  BY <1>5

\* Where no word reads like a flag, expandGroups takes the same arguments for
\* values as the other passes.
LEMMA PlainPulled ==
    ASSUME NEW s \in Line, NoMark(s), Plain(s)
    PROVE  Pulled(s) = Values(s)
<1>1. /\ Len(s) \in Nat /\ Values(s) \subseteq 1..Len(s) /\ Pulled(s) \subseteq 1..Len(s)
      /\ \A i \in 1..Len(s) : i \in Values(s) <=>
            i # 1 /\ i - 1 \notin Values(s) /\ PullsValue(s[i - 1])
      /\ \A i \in 1..Len(s) : i \in Pulled(s) <=>
            i # 1 /\ i - 1 \notin Pulled(s) /\ NamesValue(s[i - 1])
  BY ValuesAre, PulledAre
<1>2. \A i \in 1..Len(s) : i \notin Values(s) => (NamesValue(s[i]) <=> PullsValue(s[i]))
  <2> SUFFICES ASSUME NEW i \in 1..Len(s), i \notin Values(s), NamesValue(s[i])
               PROVE  PullsValue(s[i])
    BY DEF PullsValue
  <2>1. s[i].dash
    BY DEF Plain, NamesValue
  <2> QED
    BY <2>1 DEF PullsValue, IsFlag, NoMark
<1> DEFINE Good == {m \in Nat : m + 1 <= Len(s) => (m + 1 \in Pulled(s) <=> m + 1 \in Values(s))}
<1>3. 0 \in Good
  <2> SUFFICES ASSUME 1 <= Len(s) PROVE 1 \in Pulled(s) <=> 1 \in Values(s)
    OBVIOUS
  <2>1. 1 \in 1..Len(s)
    BY <1>1
  <2> QED
    BY <1>1, <2>1
<1>4. ASSUME NEW m \in Nat, m \in Good PROVE m + 1 \in Good
  <2> DEFINE i == m + 1
  <2> SUFFICES ASSUME i + 1 <= Len(s) PROVE i + 1 \in Pulled(s) <=> i + 1 \in Values(s)
    OBVIOUS
  <2>1. /\ i \in 1..Len(s) /\ i + 1 \in 1..Len(s) /\ i + 1 # 1 /\ (i + 1) - 1 = i
        /\ i <= Len(s)
    BY <1>1
  <2>2. i \in Pulled(s) <=> i \in Values(s)
    BY <1>4, <2>1
  <2> HIDE DEF i
  <2> QED
    BY <1>1, <1>2, <2>1, <2>2
<1>5. \A m \in Nat : m \in Good
  <2> HIDE DEF Good
  <2> QED
    BY <1>3, <1>4, FromZeroUp
<1>6. ASSUME NEW i \in 1..Len(s) PROVE i \in Pulled(s) <=> i \in Values(s)
  <2>1. i - 1 \in Nat /\ (i - 1) + 1 = i /\ i <= Len(s)
    BY <1>1
  <2>2. i - 1 \in Good
    BY <1>5, <2>1
  <2> QED
    BY <2>1, <2>2
<1> QED
  BY <1>1, <1>6

\* Which arguments refer to groups, in such a line.
LEMMA ReferenceIs ==
    ASSUME NEW s \in Line, NoMark(s), Plain(s)
    PROVE  \A i \in 1..Len(s) : IsReference(s, i) <=>
              i \notin Values(s) /\ ~s[i].dash /\ s[i].text \in DOMAIN Groups
<1>1. \A i \in 1..Len(s) : Own(s, NamesValue)[i] <=> i \notin Pulled(s)
  BY PulledAre
<1> QED
  BY <1>1, PlainPulled DEF IsReference

\* Behind a complete line another one is expanded as if it stood alone.
LEMMA ExpandJoined ==
    ASSUME NEW s, Whole(s), Plain(s), NEW t \in Line, NoMark(t), Plain(t)
    PROVE  expandGroups(s \o t) = expandGroups(s) \o expandGroups(t)
<1> DEFINE n == Len(s)
           m == Len(t)
           all == s \o t
           ss == [i \in 1..n |-> Part(s, i)]
           tt == [i \in 1..m |-> Part(t, i)]
           uu == [i \in 1..(n + m) |-> Part(all, i)]
<1>0. s \in Line /\ NoMark(s) /\ Complete(s)
  BY DEF Whole
<1>1. /\ all \in Line /\ Len(all) = n + m /\ n \in Nat /\ m \in Nat
      /\ \A k \in 1..n : all[k] = s[k]
      /\ \A k \in 1..m : all[n + k] = t[k]
  BY <1>0, Joined, ValuesAre
<1>2. NoMark(all) /\ Plain(all)
  BY SortedJoined
<1>3. /\ \A i \in 1..n : i \in Values(all) <=> i \in Values(s)
      /\ \A j \in 1..m : n + j \in Values(all) <=> j \in Values(t)
  BY <1>0, Met
<1>4. ASSUME NEW c \in Line
      PROVE  /\ expandGroups(c) = FlattenSeq([i \in 1..Len(c) |-> Part(c, i)])
             /\ [i \in 1..Len(c) |-> Part(c, i)] \in [1..Len(c) -> Line]
  <2>1. DOMAIN c = 1..Len(c)
    BY ValuesAre
  <2>2. \A i \in 1..Len(c) : Part(c, i) \in Line
    BY PartIs DEF Line
  <2> QED
    BY <2>1, <2>2 DEF expandGroups, Part, IsReference, Members
<1>5. /\ expandGroups(all) = FlattenSeq(uu) /\ uu \in [1..(n + m) -> Line]
      /\ expandGroups(s) = FlattenSeq(ss) /\ ss \in [1..n -> Line]
      /\ expandGroups(t) = FlattenSeq(tt) /\ tt \in [1..m -> Line]
  <2>1. Len(all) = n + m
    BY <1>1
  <2> HIDE DEF all
  <2>2. expandGroups(all) = FlattenSeq(uu) /\ uu \in [1..(n + m) -> Line]
    BY <1>1, <1>4, <2>1
  <2> QED
    BY <1>0, <1>4, <2>2
<1>6. \A i \in 1..n : i \in 1..(n + m) /\ uu[i] = Part(all, i) /\ ss[i] = Part(s, i)
  BY <1>1
<1>7. \A i \in 1..m : n + i \in 1..(n + m) /\ uu[n + i] = Part(all, n + i) /\ tt[i] = Part(t, i)
  BY <1>1
<1>8. /\ \A i \in 1..(n + m) : IsReference(all, i) <=>
              i \notin Values(all) /\ ~all[i].dash /\ all[i].text \in DOMAIN Groups
      /\ \A i \in 1..n : IsReference(s, i) <=>
              i \notin Values(s) /\ ~s[i].dash /\ s[i].text \in DOMAIN Groups
      /\ \A i \in 1..m : IsReference(t, i) <=>
              i \notin Values(t) /\ ~t[i].dash /\ t[i].text \in DOMAIN Groups
  <2>1. \A i \in 1..(n + m) : IsReference(all, i) <=>
              i \notin Values(all) /\ ~all[i].dash /\ all[i].text \in DOMAIN Groups
    <3>1. \A i \in 1..Len(all) : IsReference(all, i) <=>
              i \notin Values(all) /\ ~all[i].dash /\ all[i].text \in DOMAIN Groups
      BY <1>1, <1>2, ReferenceIs
    <3> QED
      BY <1>1, <3>1
  <2> QED
    BY <1>0, <2>1, ReferenceIs
<1> HIDE DEF n, m, all, ss, tt, uu
<1>9. \A i \in 1..n : uu[i] = ss[i]
  BY <1>1, <1>3, <1>6, <1>8 DEF Part
<1>10. \A i \in 1..m : uu[n + i] = tt[i]
  <2> SUFFICES ASSUME NEW i \in 1..m PROVE uu[n + i] = tt[i]
    OBVIOUS
  <2> DEFINE j == n + i
  <2>1. /\ j \in 1..(n + m) /\ uu[j] = Part(all, j) /\ tt[i] = Part(t, i)
        /\ all[j] = t[i] /\ (j \in Values(all) <=> i \in Values(t))
    BY <1>1, <1>3, <1>7
  <2> HIDE DEF j
  <2>2. uu[j] = tt[i]
    BY <1>8, <2>1 DEF Part
  <2> QED
    BY <2>2 DEF j
<1>11. FlattenSeq(uu) = FlattenSeq(ss) \o FlattenSeq(tt)
  BY <1>1, <1>5, <1>9, <1>10, FlattenJoined
<1> QED
  BY <1>5, <1>11 DEF all

\* Without a reference nothing changes.
LEMMA NothingToExpand ==
    ASSUME NEW c \in Line, \A i \in 1..Len(c) : ~IsReference(c, i)
    PROVE  expandGroups(c) = c
<1> DEFINE n == Len(c)
           ss == [i \in 1..Len(c) |-> Part(c, i)]
           at == [i \in 1..(n + 1) |-> i - 1]
           e == expandGroups(c)
<1>1. n \in Nat /\ e \in Line /\ \E b : Lays(b, ss, n, e)
  BY ValuesAre, ExpandLays
<1>2. \A i \in 1..n : Len(ss[i]) = 1 /\ ss[i][1] = c[i]
  BY PartIs
<1>3. Lays(at, ss, n, c)
  <2>1. /\ at \in [1..(n + 1) -> Nat] /\ at[1] = 0 /\ at[n + 1] = n
        /\ \A i \in 1..n : at[i] = i - 1 /\ at[i + 1] = i
    BY <1>1
  <2> HIDE DEF ss, at
  <2>2. \A i \in 1..n : at[i + 1] = at[i] + Len(ss[i]) /\ at[i + 1] <= n
    <3> SUFFICES ASSUME NEW i \in 1..n
                 PROVE  at[i + 1] = at[i] + Len(ss[i]) /\ at[i + 1] <= n
      OBVIOUS
    <3>1. at[i] = i - 1 /\ at[i + 1] = i /\ Len(ss[i]) = 1
      BY <1>2, <2>1
    <3>2. i = (i - 1) + 1 /\ i <= n
      BY <1>1
    <3> HIDE DEF n
    <3> QED
      BY <3>1, <3>2
  <2>3. ASSUME NEW i \in 1..n, NEW k \in 1..Len(ss[i]) PROVE c[at[i] + k] = ss[i][k]
    <3>0. Len(ss[i]) = 1 /\ at[i] = i - 1
      BY <1>2, <2>1
    <3>1. k = 1
      BY <3>0
    <3>2. (i - 1) + 1 = i
      BY <1>1
    <3>3. at[i] + k = i
      BY <3>0, <3>1, <3>2
    <3> QED
      BY <1>2, <3>1, <3>3
  <2>4. ASSUME NEW j \in 1..n PROVE \E i \in 1..n : \E k \in 1..Len(ss[i]) : j = at[i] + k
    <3>1. 1 \in 1..Len(ss[j]) /\ j = at[j] + 1
      BY <1>2, <2>1
    <3> QED
      BY <3>1
  <2> QED
    BY <2>1, <2>2, <2>3, <2>4 DEF Lays
<1> HIDE DEF ss, at, e
<1>4. e = c
  BY <1>1, <1>3, LaysOnce
<1> QED
  BY <1>4 DEF e

\* Words turn into words.
LEMMA WordsExpand ==
    ASSUME NEW w \in Line, \A i \in 1..Len(w) : ~w[i].dash
    PROVE  /\ expandGroups(w) \in Line
           /\ \A j \in 1..Len(expandGroups(w)) : ~expandGroups(w)[j].dash
<1> DEFINE e == expandGroups(w)
<1>1. e \in Line
  BY ExpandLays
<1>2. \A j \in 1..Len(e) : \E i \in 1..Len(w) : e[j] = w[i] \/ FromGroup(e[j], w[i])
  BY ExpandedTokens
<1>3. \A i \in 1..Len(w) : w[i] \in Argument
  BY DEF Line
<1> HIDE DEF e
<1>4. ASSUME NEW j \in 1..Len(e) PROVE ~e[j].dash
  <2>1. PICK i \in 1..Len(w) : e[j] = w[i] \/ FromGroup(e[j], w[i])
    BY <1>2
  <2> QED
    BY <1>3, <2>1, GroupPortIsWord
<1> QED
  BY <1>1, <1>4 DEF e

\* What expandGroups makes of a complete line: the flags stay what they are, and
\* the words are those of the line, expanded.
Expands(s) == LET e == expandGroups(s)
              IN  /\ Whole(e) /\ FlagsOf(e) = FlagsOf(s)
                  /\ WordsOf(e) = expandGroups(WordsOf(s))

\* For the empty line,
LEMMA NothingExpands == Whole(<<>>) /\ Expands(<<>>)
<1>1. <<>> \in Line /\ Len(<<>>) = 0
  BY DEF Line
<1>2. Whole(<<>>) /\ FlagsOf(<<>>) = <<>> /\ WordsOf(<<>>) = <<>>
  BY <1>1, AllWords
<1>3. expandGroups(<<>>) = <<>>
  BY <1>1, NothingToExpand
<1> QED
  BY <1>2, <1>3 DEF Expands

\* for a single argument, or a flag with its value,
LEMMA UnitExpands ==
    ASSUME NEW u, IsUnit(u), Plain(u)
    PROVE  Expands(u)
<1>0. u \in Line /\ NoMark(u) /\ Whole(u) /\ (Len(u) = 1 \/ (Len(u) = 2 /\ 2 \in Values(u)))
  BY DEF IsUnit, Whole
<1>1. 1 \in 1..Len(u)
  BY <1>0
<1>2. CASE u[1].dash
  <2>1. \A i \in 1..Len(u) : u[i].dash \/ i \in Values(u)
    <3>1. ASSUME NEW i \in 1..Len(u) PROVE i = 1 \/ (i = 2 /\ 2 \in Values(u))
      <4>1. CASE Len(u) = 1
        <5>1. i = 1
          BY <4>1
        <5> QED
          BY <5>1
      <4>2. CASE Len(u) = 2 /\ 2 \in Values(u)
        <5>1. i = 1 \/ i = 2
          BY <4>2
        <5> QED
          BY <4>2, <5>1
      <4> QED
        BY <1>0, <4>1, <4>2
    <3> QED
      BY <1>2, <3>1
  <2>2. FlagsOf(u) = u /\ WordsOf(u) = <<>>
    BY <1>0, <2>1, AllFlags
  <2>3. \A i \in 1..Len(u) : ~IsReference(u, i)
    BY <1>0, <2>1, ReferenceIs
  <2>4. expandGroups(u) = u /\ expandGroups(<<>>) = <<>>
    <3>1. <<>> \in Line /\ Len(<<>>) = 0
      BY DEF Line
    <3> QED
      BY <1>0, <2>3, <3>1, NothingToExpand
  <2> QED
    BY <1>0, <2>2, <2>4 DEF Expands
<1>3. CASE ~u[1].dash
  <2>1. Len(u) = 1
    <3>1. ~PullsValue(u[1])
      BY <1>3 DEF PullsValue, IsFlag
    <3>2. Len(u) = 2 => 2 \in 1..Len(u) /\ 2 - 1 = 1
      OBVIOUS
    <3>3. \A i \in 1..Len(u) : i \in Values(u) <=>
             i # 1 /\ i - 1 \notin Values(u) /\ PullsValue(u[i - 1])
      BY <1>0, ValuesAre
    <3>4. Len(u) # 2 \/ 2 \notin Values(u)
      <4> SUFFICES ASSUME Len(u) = 2, 2 \in Values(u) PROVE FALSE
        OBVIOUS
      <4>1. PullsValue(u[2 - 1])
        BY <3>2, <3>3
      <4>2. 2 - 1 = 1
        OBVIOUS
      <4>3. PullsValue(u[1])
        BY <4>1, <4>2
      <4> QED
        BY <3>1, <4>3
    <3> QED
      BY <1>0, <3>4
  <2>2. \A i \in 1..Len(u) : ~u[i].dash
    BY <1>3, <2>1
  <2>3. FlagsOf(u) = <<>> /\ WordsOf(u) = u
    BY <1>0, <2>2, AllWords
  <2> DEFINE e == expandGroups(u)
  <2>4. e \in Line /\ \A j \in 1..Len(e) : ~e[j].dash
    BY <1>0, <2>2, WordsExpand
  <2> HIDE DEF e
  <2>5. Whole(e) /\ FlagsOf(e) = <<>> /\ WordsOf(e) = e
    BY <2>4, AllWords
  <2> QED
    BY <2>3, <2>5 DEF Expands, e
<1> QED
  BY <1>2, <1>3

\* for lines joined,
LEMMA JoinedExpands ==
    ASSUME NEW s, Whole(s), Plain(s), Expands(s), NEW t, Whole(t), Plain(t), Expands(t)
    PROVE  Expands(s \o t)
<1> DEFINE d == expandGroups(s)
           e == expandGroups(t)
           v == WordsOf(s)
           w == WordsOf(t)
<1>1. /\ Whole(d) /\ FlagsOf(d) = FlagsOf(s) /\ WordsOf(d) = expandGroups(v)
      /\ Whole(e) /\ FlagsOf(e) = FlagsOf(t) /\ WordsOf(e) = expandGroups(w)
  BY DEF Expands
<1>2. expandGroups(s \o t) = d \o e
  BY ExpandJoined DEF Whole
<1>3. Whole(v) /\ Plain(v) /\ Whole(w) /\ Plain(w)
  BY Halves
<1>4. FlagsOf(s \o t) = FlagsOf(s) \o FlagsOf(t) /\ WordsOf(s \o t) = v \o w
  BY SortedJoined DEF Whole
<1> HIDE DEF d, e, v, w
<1>5. /\ Whole(d \o e) /\ FlagsOf(d \o e) = FlagsOf(d) \o FlagsOf(e)
      /\ WordsOf(d \o e) = WordsOf(d) \o WordsOf(e)
  BY <1>1, SortedJoined DEF Whole
<1>6. expandGroups(v \o w) = expandGroups(v) \o expandGroups(w)
  BY <1>3, ExpandJoined DEF Whole
<1> QED
  BY <1>1, <1>2, <1>4, <1>5, <1>6 DEF Expands

\* and so for every complete line.
LEMMA PlainExpands ==
    ASSUME NEW c, Whole(c), Plain(c)
    PROVE  Expands(c)
<1> DEFINE S == {s \in Line : Plain(s) => Expands(s)}
<1>1. <<>> \in S
  BY NothingExpands DEF Whole
<1>2. \A u : IsUnit(u) => u \in S
  BY UnitExpands DEF IsUnit, Whole
<1>3. ASSUME NEW s, NEW t, Whole(s), Whole(t), s \in S, t \in S PROVE s \o t \in S
  <2>1. s \o t \in Line /\ (Plain(s \o t) <=> Plain(s) /\ Plain(t))
    BY <1>3, SortedJoined DEF Whole
  <2>2. Plain(s) /\ Plain(t) => Expands(s \o t)
    BY <1>3, JoinedExpands
  <2> QED
    BY <2>1, <2>2
<1>4. \A s : Whole(s) => s \in S
  <2> HIDE DEF S
  <2> QED
    BY <1>1, <1>2, <1>3, EveryWhole
<1> QED
  BY <1>4

\* So lines with the same flags and words are read alike when they are expanded.
LEMMA ReadAlike ==
    ASSUME NEW s, NEW t, Alike(s, t), Plain(s), Plain(t)
    PROVE  reorderArgs(expandGroups(s)) = reorderArgs(expandGroups(t))
<1>1. /\ FlagsOf(expandGroups(s)) = FlagsOf(expandGroups(t))
      /\ WordsOf(expandGroups(s)) = WordsOf(expandGroups(t))
  BY PlainExpands DEF Alike, Expands
<1>2. \A e : reorderArgs(e) = [flags |-> FlagsOf(e), positional |-> WordsOf(e)]
  BY DEF reorderArgs, FlagsOf, WordsOf
<1> QED
  BY <1>1, <1>2

-----------------------------------------------------------------------------
(* Lines that are accepted.                                                *)

\* Which references are known depends on the own words alone.
LEMMA KnownIs ==
    ASSUME NEW s \in Line, NoMark(s), Plain(s)
    PROVE  GroupsKnown(s) <=>
             \A i \in 1..Len(s) : i \notin Values(s) /\ ~s[i].dash /\ s[i].text \in References
                                    => s[i].text \in DOMAIN Groups
<1>1. /\ DOMAIN s = 1..Len(s)
      /\ \A i \in 1..Len(s) : Own(s, NamesValue)[i] <=> i \notin Values(s)
  <2>1. DOMAIN s = 1..Len(s)
    BY ValuesAre
  <2>2. \A i \in 1..Len(s) : Own(s, NamesValue)[i] <=> i \notin Pulled(s)
    BY PulledAre
  <2> QED
    BY <2>1, <2>2, PlainPulled
<1> QED
  BY <1>1 DEF GroupsKnown

\* So lines with the same flags and words refer to the same groups.
LEMMA KnownAlike ==
    ASSUME NEW s, NEW t, Alike(s, t), Plain(s), Plain(t), GroupsKnown(t)
    PROVE  GroupsKnown(s)
<1>1. s \in Line /\ NoMark(s) /\ t \in Line /\ NoMark(t)
  BY DEF Alike, Whole
<1>2. \A j \in 1..Len(t) : j \notin Values(t) /\ ~t[j].dash /\ t[j].text \in References
                             => t[j].text \in DOMAIN Groups
  BY <1>1, KnownIs
<1>3. \A i \in 1..Len(s) : \E j \in 1..Len(t) : t[j] = s[i] /\ (j \in Values(t) <=> i \in Values(s))
  BY Tokens
<1>4. \A i \in 1..Len(s) : i \notin Values(s) /\ ~s[i].dash /\ s[i].text \in References
                             => s[i].text \in DOMAIN Groups
  BY <1>2, <1>3
<1> QED
  BY <1>1, <1>4, KnownIs

\* A line is complete when its flags are: its last argument, when it is a flag
\* that wants a value, is the last of the flags.
LEMMA EndsComplete ==
    ASSUME NEW s \in Line, NoMark(s), NEW f, f = FlagsOf(s),
           \A k \in 1..Len(f) : k \notin Values(f) /\ PullsValue(f[k]) => k < Len(f)
    PROVE  Complete(s)
<1> DEFINE n == Len(s)
           P == FlagPart(s)
<1> SUFFICES ASSUME n # 0, n \notin Values(s), PullsValue(s[n]) PROVE FALSE
  BY DEF Complete
<1>1. n \in Nat /\ n \in 1..n
  BY ValuesAre
<1>2. P \subseteq 1..n /\ n \in P /\ f = At(s, P)
  <2>1. s[n].dash
    BY DEF PullsValue, IsFlag
  <2> QED
    BY <1>1, <2>1, Sorted
<1>3. Together(s, P)
  BY FlagsTogether
<1> HIDE DEF n, P
<1>4. /\ Cardinality(P) \in Nat
      /\ \A k \in 1..Cardinality(P) : Nth(P, k) \in P /\ Rank(P, Nth(P, k)) = k
      /\ \A i \in P : Rank(P, i) \in 1..Cardinality(P) /\ Nth(P, Rank(P, i)) = i
      /\ \A i, j \in P : i < j <=> Rank(P, i) < Rank(P, j)
  BY <1>1, <1>2, NthOf
<1>5. /\ Len(f) = Cardinality(P)
      /\ \A k \in 1..Cardinality(P) : f[k] = s[Nth(P, k)]
  BY <1>2, <1>4 DEF At
<1>6. \A k \in 1..Cardinality(P) : k \in Values(f) <=> Nth(P, k) \in Values(s)
  BY <1>2, <1>3, AtValues DEF n
<1> DEFINE k == Rank(P, n)
<1>7. k \in 1..Cardinality(P) /\ Nth(P, k) = n
  BY <1>2, <1>4
<1> HIDE DEF k
<1>8. k \notin Values(f) /\ PullsValue(f[k])
  BY <1>5, <1>6, <1>7
<1>9. k < Cardinality(P)
  BY <1>5, <1>7, <1>8
<1>10. k + 1 \in 1..Cardinality(P) /\ k < k + 1
  BY <1>4, <1>7, <1>9
<1> DEFINE l == Nth(P, k + 1)
<1>11. l \in P /\ Rank(P, l) = k + 1 /\ Rank(P, n) = k
  BY <1>4, <1>10 DEF k
<1> HIDE DEF l
<1>12. n < l
  BY <1>2, <1>4, <1>10, <1>11
<1> QED
  BY <1>1, <1>2, <1>11, <1>12

\* Package flag refuses a flag that lacks its value.
LEMMA AcceptedEnds ==
    ASSUME NEW f \in Line, FlagsAccepted(f)
    PROVE  \A k \in 1..Len(f) : k \notin Values(f) /\ PullsValue(f[k]) => k < Len(f)
<1>1. /\ DOMAIN f = 1..Len(f)
      /\ \A k \in 1..Len(f) : Own(f, PullsValue)[k] <=> k \notin Values(f)
  BY ValuesAre
<1>2. boolFlags \cap valueFlags = {}
  BY DEF boolFlags, valueFlags
<1> SUFFICES ASSUME NEW k \in 1..Len(f), k \notin Values(f), PullsValue(f[k])
             PROVE  k < Len(f)
  OBVIOUS
<1>3. f[k].text \in valueFlags
  BY DEF PullsValue, NamesValue
<1>4. \/ f[k].text \in boolFlags
      \/ PullsValue(f[k]) => k < Len(f)
  BY <1>1 DEF FlagsAccepted
<1> QED
  BY <1>2, <1>3, <1>4

\* What parseArgs accepts ends no flag early, and names nothing like a flag.
LEMMA AcceptedWhole ==
    ASSUME NEW c \in Line, NoMark(c), Accepted(expandGroups(c))
    PROVE  Whole(c) /\ Plain(c)
<1> DEFINE e == expandGroups(c)
           n == Len(c)
<1>1. /\ e \in Line /\ n \in Nat /\ AllPorts(reorderArgs(e).positional)
      /\ FlagsAccepted(FlagsOf(e))
  BY ExpandLays, ValuesAre DEF Accepted, AllPorts, FlagsOf
<1>2. PICK at : Lays(at, [i \in 1..n |-> Part(c, i)], n, e)
  BY ExpandLays
<1>3. \A j \in 1..Len(e) : \E i \in 1..n : e[j] = c[i] \/ FromGroup(e[j], c[i])
  BY ExpandedTokens
<1>4. \A i \in 1..n : at[i] + 1 \in Values(e) <=> i \in Values(c)
  BY <1>1, <1>2, ExpandAligned
<1>5. \A i \in 1..n : c[i] \in Argument
  BY DEF Line
<1> HIDE DEF e
<1>6. NoMark(e)
  <2> SUFFICES ASSUME NEW j \in 1..Len(e) PROVE e[j] # DashDash
    BY DEF NoMark
  <2>1. PICK i \in 1..n : e[j] = c[i] \/ FromGroup(e[j], c[i])
    BY <1>3
  <2>2. c[i] # DashDash
    BY DEF NoMark
  <2>3. FromGroup(e[j], c[i]) => ~e[j].dash
    BY <1>5, GroupPortIsWord
  <2>4. DashDash.dash
    BY DEF DashDash, Flag
  <2> QED
    BY <2>1, <2>2, <2>3, <2>4
<1>7. FlagsOf(e) \in Line /\ Complete(e)
  <2>1. FlagsOf(e) \in Line
    BY <1>1, Reordered DEF FlagsOf
  <2>2. \A k \in 1..Len(FlagsOf(e)) :
           k \notin Values(FlagsOf(e)) /\ PullsValue(FlagsOf(e)[k]) => k < Len(FlagsOf(e))
    BY <1>1, <2>1, AcceptedEnds
  <2> QED
    BY <1>1, <1>6, <2>1, <2>2, EndsComplete
\* An argument that is no reference is found where its part lies.
<1>8. ASSUME NEW i \in 1..n, ~IsReference(c, i)
      PROVE  /\ at[i] + 1 \in 1..Len(e) /\ e[at[i] + 1] = c[i]
             /\ at[i + 1] = at[i] + 1
  <2> DEFINE ss == [j \in 1..n |-> Part(c, j)]
  <2>1. Len(ss[i]) = 1 /\ ss[i][1] = c[i] /\ 1 \in 1..Len(ss[i])
    BY <1>8, PartIs
  <2>2. i \in 1..(n + 1)
    BY <1>1
  <2> HIDE DEF ss
  <2>3. /\ at[i] \in Nat /\ at[i + 1] = at[i] + Len(ss[i]) /\ at[i + 1] <= Len(e)
        /\ e[at[i] + 1] = ss[i][1]
    BY <1>2, <2>1, <2>2 DEF Lays, ss
  <2>4. Len(e) \in Nat
    BY <1>1, ValuesAre
  <2>5. at[i + 1] = at[i] + 1
    BY <2>1, <2>3
  <2> QED
    BY <2>1, <2>3, <2>4, <2>5
<1>9. Plain(c)
  <2> SUFFICES ASSUME NEW i \in 1..n, i \notin Values(c), ~c[i].dash, c[i].text \in valueFlags
               PROVE  FALSE
    BY DEF Plain
  <2>1. ~IsReference(c, i)
    BY ArgumentConstants, NumbersAreNoNames DEF IsReference
  <2> DEFINE j == at[i] + 1
  <2>2. j \in 1..Len(e) /\ e[j] = c[i] /\ j \notin Values(e)
    BY <1>4, <1>8, <2>1
  <2> HIDE DEF j
  <2>3. e[j] \in ToSet(reorderArgs(e).positional)
    BY <1>1, <2>2, Reordered
  <2>4. IsPortArg(c[i])
    BY <1>1, <2>2, <2>3 DEF AllPorts
  <2> QED
    BY <2>4, NumbersAreNoNames DEF IsPortArg
<1>10. Complete(c)
  <2> SUFFICES ASSUME n # 0, n \notin Values(c), PullsValue(c[n]) PROVE FALSE
    BY DEF Complete
  <2>1. n \in 1..n
    BY <1>1
  <2>2. ~IsReference(c, n)
    BY DEF IsReference, PullsValue, IsFlag
  <2> DEFINE j == at[n] + 1
  <2>3. j \in 1..Len(e) /\ e[j] = c[n] /\ at[n + 1] = j /\ j \notin Values(e)
    BY <1>4, <1>8, <2>1, <2>2
  <2>4. at[n + 1] = Len(e)
    BY <1>2 DEF Lays
  <2> HIDE DEF j
  <2>5. j = Len(e) /\ Len(e) # 0
    BY <2>3, <2>4
  <2> QED
    BY <1>7, <2>3, <2>5 DEF Complete
<1> QED
  BY <1>9, <1>10 DEF Whole

-----------------------------------------------------------------------------
(* The subcommand.                                                         *)

\* Lines with the same arguments are the same.
LEMMA SameLine ==
    ASSUME NEW s \in Line, NEW t \in Line, Len(s) = Len(t),
           \A i \in 1..Len(s) : s[i] = t[i]
    PROVE  s = t
<1>1. s = [i \in 1..Len(s) |-> s[i]] /\ t = [i \in 1..Len(t) |-> t[i]]
  BY DEF Line
<1> QED
  BY <1>1

\* What is put together can be taken apart.
LEMMA CutJoined ==
    ASSUME NEW s \in Line, NEW t \in Line, NEW c, c = s \o t
    PROVE  SubSeq(c, 1, Len(s)) = s /\ SubSeq(c, Len(s) + 1, Len(c)) = t
<1>1. /\ c \in Line /\ Len(c) = Len(s) + Len(t)
      /\ \A k \in 1..Len(s) : c[k] = s[k]
      /\ \A k \in 1..Len(t) : c[Len(s) + k] = t[k]
      /\ Len(s) \in Nat /\ Len(t) \in Nat
  BY Joined, ValuesAre
<1> DEFINE n == Len(s)
           m == Len(t)
           l == Len(c)
<1>2. /\ 1 \in 1..(l + 1) /\ n \in 0..l /\ 1 <= n + 1 /\ (n - 1) + 1 = n
      /\ \A i \in 1..n : (1 - 1) + i = i
      /\ n + 1 \in 1..(l + 1) /\ l \in 0..l /\ n + 1 <= l + 1 /\ (l - (n + 1)) + 1 = m
      /\ (n + 1) - 1 = n
  BY <1>1
<1>3. /\ SubSeq(c, 1, n) \in Line /\ Len(SubSeq(c, 1, n)) = (n - 1) + 1
      /\ \A i \in 1..((n - 1) + 1) : SubSeq(c, 1, n)[i] = c[(1 - 1) + i]
  BY <1>1, <1>2, Slice
<1> DEFINE a == n + 1
<1>4. /\ SubSeq(c, a, l) \in Line /\ Len(SubSeq(c, a, l)) = (l - a) + 1
      /\ \A i \in 1..((l - a) + 1) : SubSeq(c, a, l)[i] = c[(a - 1) + i]
  <2> HIDE DEF a
  <2> QED
    BY <1>1, <1>2, Slice DEF a
<1> HIDE DEF n, m, l
<1>5. SubSeq(c, 1, n) = s
  <2> DEFINE u == SubSeq(c, 1, n)
  <2>1. u \in Line /\ Len(u) = n /\ \A i \in 1..n : u[i] = c[i]
    BY <1>2, <1>3
  <2> HIDE DEF u
  <2>2. \A i \in 1..n : u[i] = s[i]
    BY <1>1, <2>1 DEF n
  <2>3. u = s
    BY <2>1, <2>2, SameLine DEF n
  <2> QED
    BY <2>3 DEF u
<1>6. SubSeq(c, a, l) = t
  <2> DEFINE u == SubSeq(c, a, l)
  <2>1. u \in Line /\ Len(u) = m /\ \A i \in 1..m : u[i] = c[n + i]
    BY <1>2, <1>4
  <2> HIDE DEF u
  <2>2. \A i \in 1..m : u[i] = t[i]
    BY <1>1, <2>1 DEF n, m
  <2>3. u = t
    BY <2>1, <2>2, SameLine DEF m
  <2> QED
    BY <2>3 DEF u
<1> QED
  BY <1>5, <1>6 DEF n, l

\* What stands before a subcommand: flags and their values, none of them missing.
FlagsOnly(p) == \A i \in 1..Len(p) : IsFlag(p[i]) \/ i \in Values(p)

\* extractSubcommand cuts a line into such flags, a word, and a rest.
LEMMA Headed ==
    ASSUME NEW c \in Line, NEW cmd, cmd = extractSubcommand(c), cmd.name # NoCommand
    PROVE  /\ cmd.pre \in Line /\ cmd.rest \in Line /\ cmd.name \in Commands \cap Words
           /\ Complete(cmd.pre) /\ FlagsOnly(cmd.pre)
           /\ NoMark(c) => NoMark(cmd.pre) /\ NoMark(cmd.rest)
<1> DEFINE words == {i \in DOMAIN c : Own(c, PullsValue)[i] /\ ~IsFlag(c[i])}
           first == Min(words)
           named == words # {} /\ ~c[first].dash /\ c[first].text \in Commands
           pre == SubSeq(c, 1, first - 1)
           rest == SubSeq(c, first + 1, Len(c))
<1>1. cmd = IF named THEN [name |-> c[first].text, pre |-> pre, rest |-> rest]
            ELSE [name |-> NoCommand, pre |-> <<>>, rest |-> c]
  BY DEF extractSubcommand
<1>2. Len(c) \in Nat /\ words \subseteq 1..Len(c)
  BY ValuesAre
<1>3. \A i \in 1..Len(c) : i \in words <=> i \notin Values(c) /\ ~IsFlag(c[i])
  BY <1>2, ValuesAre
<1> HIDE DEF words
<1>4. named
  <2> HIDE DEF named, pre, rest, first
  <2>1. [name |-> NoCommand, pre |-> <<>>, rest |-> c].name = NoCommand
    OBVIOUS
  <2> QED
    BY <1>1, <2>1
<1>5. first \in words /\ \A i \in words : first <= i
  BY <1>2, <1>4, LeastOf
<1>6. cmd.name = c[first].text /\ cmd.pre = pre /\ cmd.rest = rest
  <2>1. cmd = [name |-> c[first].text, pre |-> pre, rest |-> rest]
    BY <1>1, <1>4
  <2> HIDE DEF first, named, pre, rest
  <2> QED
    BY <2>1
<1>7. first \in 1..Len(c) /\ first \notin Values(c) /\ ~c[first].dash /\ c[first].text \in Commands
  BY <1>2, <1>3, <1>4, <1>5
<1> DEFINE k == first - 1
           u == SubSeq(c, k + 1, Len(c))
<1> HIDE DEF first, named
<1>8. k \in Nat /\ k < Len(c) /\ k + 1 = first
  BY <1>2, <1>7
<1>9. CutIn(c, k, pre, u)
  BY <1>7, <1>8 DEF CutIn
<1> HIDE DEF pre, u, k
<1>10. /\ pre \in Line /\ Len(pre) = k /\ Complete(pre) /\ (NoMark(c) => NoMark(pre))
       /\ \A i \in 1..k : pre[i] = c[i] /\ (i \in Values(pre) <=> i \in Values(c))
  BY <1>9, CutAt
<1>11. FlagsOnly(pre)
  <2> SUFFICES ASSUME NEW i \in 1..k, i \notin Values(pre) PROVE IsFlag(pre[i])
    BY <1>10 DEF FlagsOnly
  <2>1. i \in 1..Len(c) /\ ~(first <= i)
    BY <1>2, <1>8
  <2>2. i \notin words
    BY <1>5, <2>1
  <2> QED
    BY <1>3, <1>10, <2>1, <2>2
<1>12. rest \in Line /\ (NoMark(c) => NoMark(rest))
  <2> DEFINE a == first + 1
             b == Len(c)
  <2>1. /\ a \in 1..(b + 1) /\ b \in 0..b /\ a <= b + 1
        /\ \A i \in 1..((b - a) + 1) : (a - 1) + i \in 1..b
    BY <1>2, <1>7
  <2>2. rest = SubSeq(c, a, b)
    BY DEF rest
  <2> HIDE DEF a, b, rest
  <2>4. /\ SubSeq(c, a, b) \in Line /\ Len(SubSeq(c, a, b)) = (b - a) + 1
        /\ \A i \in 1..((b - a) + 1) : SubSeq(c, a, b)[i] = c[(a - 1) + i]
    BY <2>1, Slice DEF b
  <2>3. /\ rest \in Line /\ Len(rest) = (b - a) + 1
        /\ \A i \in 1..((b - a) + 1) : rest[i] = c[(a - 1) + i]
    BY <2>2, <2>4
  <2>5. NoMark(c) => NoMark(rest)
    BY <2>1, <2>3 DEF NoMark, b
  <2> QED
    BY <2>3, <2>5
<1>13. c[first].text \in Words
  <2>1. c[first] \in Argument
    BY <1>7 DEF Line
  <2> QED
    BY <1>7, <2>1 DEF Argument
<1> QED
  BY <1>6, <1>7, <1>10, <1>11, <1>12, <1>13

\* Behind such flags the subcommand is found again, whatever follows it.
LEMMA Resumed ==
    ASSUME NEW pre \in Line, Complete(pre), FlagsOnly(pre),
           NEW name \in Commands \cap Words, NEW r \in Line,
           NEW c, c = (pre \o <<Word(name)>>) \o r
    PROVE  c \in Line /\ extractSubcommand(c) = [name |-> name, pre |-> pre, rest |-> r]
<1> DEFINE w == <<Word(name)>>
           h == pre \o w
           first == Len(pre) + 1
<1>1. /\ w \in Line /\ Len(w) = 1 /\ w[1] = Word(name) /\ ~PullsValue(w[1])
      /\ ~Word(name).dash /\ Word(name).text = name
  <2>1. Word(name) \in Argument /\ ~Word(name).dash /\ Word(name).text = name
    BY DEF Word, Argument
  <2> QED
    BY <2>1 DEF Line, PullsValue, IsFlag
<1> HIDE DEF w
<1>2. /\ h \in Line /\ Len(h) = first /\ h[first] = Word(name)
      /\ \A i \in 1..Len(pre) : h[i] = pre[i]
      /\ Len(pre) \in Nat /\ first \in 1..first
  <2>1. /\ h \in Line /\ Len(h) = Len(pre) + Len(w)
        /\ \A i \in 1..Len(pre) : h[i] = pre[i]
        /\ \A i \in 1..Len(w) : h[Len(pre) + i] = w[i]
    BY <1>1, Joined
  <2>2. Len(pre) \in Nat /\ 1 \in 1..Len(w)
    BY <1>1, ValuesAre
  <2> QED
    BY <1>1, <2>1, <2>2
<1>3. /\ \A i \in 1..Len(pre) : i \in Values(h) <=> i \in Values(pre)
      /\ first \notin Values(h)
  <2>1. /\ \A i \in 1..Len(pre) : i \in Values(h) <=> i \in Values(pre)
        /\ \A j \in 1..Len(w) : Len(pre) + j \in Values(h) <=> j \in Values(w)
    BY <1>1, Met
  <2>2. 1 \in 1..Len(w)
    BY <1>1
  <2>3. 1 \notin Values(w)
    BY <1>1, <2>2, ValuesAre
  <2> QED
    BY <2>1, <2>2, <2>3
<1>4. Complete(h)
  BY <1>1, <1>2 DEF Complete
<1> HIDE DEF h, first
<1>5. /\ c = h \o r /\ c \in Line /\ Len(c) = first + Len(r)
      /\ \A i \in 1..first : c[i] = h[i] /\ (i \in Values(c) <=> i \in Values(h))
      /\ Len(r) \in Nat
  <2>1. c = h \o r
    BY DEF h, w
  <2>2. /\ h \o r \in Line /\ Len(h \o r) = first + Len(r)
        /\ \A i \in 1..first : (h \o r)[i] = h[i]
    BY <1>2, Joined
  <2>3. \A i \in 1..first : i \in Values(h \o r) <=> i \in Values(h)
    BY <1>2, <1>4, Met
  <2> QED
    BY <2>1, <2>2, <2>3, ValuesAre
<1> DEFINE words == {i \in DOMAIN c : Own(c, PullsValue)[i] /\ ~IsFlag(c[i])}
<1>6. /\ words \subseteq 1..Len(c) /\ Len(c) \in Nat
      /\ \A i \in 1..Len(c) : i \in words <=> i \notin Values(c) /\ ~IsFlag(c[i])
  BY <1>5, ValuesAre
<1> HIDE DEF words
<1>7. first \in words
  <2>1. first \in 1..Len(c)
    BY <1>2, <1>5
  <2>2. c[first] = Word(name) /\ first \notin Values(c)
    BY <1>2, <1>3, <1>5
  <2> QED
    BY <1>1, <1>6, <2>1, <2>2 DEF IsFlag
<1>8. \A i \in words : first <= i
  <2> SUFFICES ASSUME NEW i \in words, ~(first <= i) PROVE FALSE
    OBVIOUS
  <2>1. i \in 1..Len(pre) /\ i \in 1..first /\ i \in 1..Len(c)
    BY <1>2, <1>6 DEF first
  <2>2. c[i] = pre[i] /\ (i \in Values(c) <=> i \in Values(pre))
    BY <1>2, <1>3, <1>5, <2>1
  <2>3. IsFlag(pre[i]) \/ i \in Values(pre)
    BY <2>1 DEF FlagsOnly
  <2> QED
    BY <1>6, <2>1, <2>2, <2>3
<1>9. Min(words) = first
  <2> DEFINE l == Min(words)
  <2>1. l \in words /\ \A i \in words : l <= i
    BY <1>6, <1>7, LeastOf
  <2> HIDE DEF l
  <2>2. l \in 1..Len(c) /\ first \in 1..Len(c)
    BY <1>6, <1>7, <2>1
  <2>3. l <= first /\ first <= l
    BY <1>7, <1>8, <2>1
  <2>4. l = first
    BY <1>6, <2>2, <2>3
  <2> QED
    BY <2>4 DEF l
<1>10. SubSeq(c, 1, first - 1) = pre
  <2> DEFINE t == w \o r
  <2>1. t \in Line
    BY <1>1, Joined
  <2>2. c = pre \o t
    <3>1. pre \in Seq(Argument) /\ w \in Seq(Argument) /\ r \in Seq(Argument)
      BY <1>1 DEF Line
    <3>2. (pre \o w) \o r = pre \o (w \o r)
      BY <3>1, ConcatAssociative
    <3> QED
      BY <1>5, <3>2 DEF h
  <2> HIDE DEF t
  <2>3. SubSeq(c, 1, Len(pre)) = pre
    BY ONLY pre \in Line, <2>1, <2>2, CutJoined
  <2>4. first - 1 = Len(pre)
    BY <1>2 DEF first
  <2> QED
    BY <2>3, <2>4
<1>11. SubSeq(c, first + 1, Len(c)) = r
  <2>0. h \in Line /\ c = h \o r
    BY <1>2, <1>5
  <2>1. SubSeq(c, Len(h) + 1, Len(c)) = r
    BY ONLY r \in Line, <2>0, CutJoined
  <2> QED
    BY <1>2, <2>1
<1>12. c[first] = Word(name)
  BY <1>2, <1>5
<1>13. extractSubcommand(c) =
         IF words # {} /\ ~c[Min(words)].dash /\ c[Min(words)].text \in Commands
         THEN [name |-> c[Min(words)].text, pre |-> SubSeq(c, 1, Min(words) - 1),
               rest |-> SubSeq(c, Min(words) + 1, Len(c))]
         ELSE [name |-> NoCommand, pre |-> <<>>, rest |-> c]
  BY DEF extractSubcommand, words
<1> QED
  BY <1>1, <1>5, <1>7, <1>9, <1>10, <1>11, <1>12, <1>13

\* Without a subcommand the rest is the whole line.
LEMMA NoCommandIs ==
    ASSUME NEW c \in Line, NEW cmd, cmd = extractSubcommand(c), cmd.name = NoCommand
    PROVE  cmd.pre = <<>> /\ cmd.rest = c
<1>1. NoCommand \notin Commands
  BY DEF NoCommand, Commands, ActionFlag
<1>2. \A first : ~CommandAt(c, first, cmd)
  BY <1>1 DEF CommandAt
<1> QED
  BY <1>2, CommandIs

\* The first word decides whether there is a subcommand.
LEMMA FirstWord ==
    ASSUME NEW s \in Line, NoMark(s), NEW w, w = WordsOf(s)
    PROVE  extractSubcommand(s).name = NoCommand <=> ~(Len(w) # 0 /\ w[1].text \in Commands)
<1> DEFINE words == {i \in DOMAIN s : Own(s, PullsValue)[i] /\ ~IsFlag(s[i])}
           P == WordPart(s)
           first == Min(words)
           named == words # {} /\ ~s[first].dash /\ s[first].text \in Commands
<1>1. /\ w = At(s, P) /\ P \subseteq 1..Len(s) /\ Len(s) \in Nat
      /\ \A i \in 1..Len(s) : i \in P <=> ~s[i].dash /\ i \notin Values(s)
      /\ \A i \in 1..Len(s) : IsFlag(s[i]) <=> s[i].dash
  BY Sorted, ValuesAre
<1>2. words = P
  <2>1. /\ words \subseteq 1..Len(s)
        /\ \A i \in 1..Len(s) : i \in words <=> i \notin Values(s) /\ ~IsFlag(s[i])
    BY ValuesAre
  <2> HIDE DEF words, P
  <2>2. \A i \in 1..Len(s) : i \in words <=> i \in P
    BY <1>1, <2>1
  <2> QED
    BY <1>1, <2>1, <2>2
<1>3. extractSubcommand(s) =
         IF named THEN [name |-> s[first].text, pre |-> SubSeq(s, 1, first - 1),
                        rest |-> SubSeq(s, first + 1, Len(s))]
         ELSE [name |-> NoCommand, pre |-> <<>>, rest |-> s]
  BY DEF extractSubcommand
<1>4. NoCommand \notin Commands
  BY DEF NoCommand, Commands, ActionFlag
<1>5. extractSubcommand(s).name = NoCommand <=> ~named
  <2> DEFINE p == SubSeq(s, 1, first - 1)
             q == SubSeq(s, first + 1, Len(s))
             x == s[first].text
  <2>1. named => x \in Commands
    OBVIOUS
  <2>2. extractSubcommand(s) = IF named THEN [name |-> x, pre |-> p, rest |-> q]
                               ELSE [name |-> NoCommand, pre |-> <<>>, rest |-> s]
    BY <1>3
  <2> HIDE DEF named, p, q, x
  <2>3. CASE named
    <3>1. extractSubcommand(s).name = x
      BY <2>2, <2>3
    <3> QED
      BY <1>4, <2>1, <2>3, <3>1
  <2>4. CASE ~named
    <3>1. extractSubcommand(s).name = NoCommand
      BY <2>2, <2>4
    <3> QED
      BY <2>4, <3>1
  <2> QED
    BY <2>3, <2>4
<1> HIDE DEF words, P
<1>6. /\ Cardinality(P) \in Nat
      /\ \A k \in 1..Cardinality(P) : Nth(P, k) \in P /\ Rank(P, Nth(P, k)) = k
      /\ \A i \in P : Rank(P, i) \in 1..Cardinality(P)
      /\ \A i, j \in P : i < j <=> Rank(P, i) < Rank(P, j)
  BY <1>1, NthOf
<1>7. Len(w) = Cardinality(P) /\ \A k \in 1..Cardinality(P) : w[k] = s[Nth(P, k)]
  BY <1>1, <1>6 DEF At
<1>8. CASE P = {}
  <2>1. 1 \notin 1..Cardinality(P)
    BY <1>6, <1>8
  <2>2. Len(w) = 0
    BY <1>6, <1>7, <2>1
  <2> QED
    BY <1>2, <1>5, <1>8, <2>2
<1>9. CASE P # {}
  <2> DEFINE l == Min(P)
             n == Nth(P, 1)
  <2>1. l \in P /\ \A i \in P : l <= i
    BY <1>1, <1>9, LeastOf
  <2>2. Rank(P, l) \in 1..Cardinality(P)
    BY <1>6, <2>1
  <2>3. 1 \in 1..Cardinality(P)
    BY <1>6, <2>2
  <2>4. n \in P /\ Rank(P, n) = 1
    BY <1>6, <2>3
  <2> HIDE DEF l, n
  <2>5. ~(l < n)
    <3>1. ~(Rank(P, l) < Rank(P, n))
      BY <1>6, <2>2, <2>4
    <3> QED
      BY <1>6, <2>1, <2>4, <3>1
  <2>6. l = n
    <3>1. l \in 1..Len(s) /\ n \in 1..Len(s) /\ l <= n
      BY <1>1, <2>1, <2>4
    <3> QED
      BY <1>1, <2>5, <3>1
  <2>7. w[1] = s[l] /\ Len(w) # 0 /\ ~s[l].dash
    <3>1. w[1] = s[n]
      BY <1>7, <2>3 DEF n
    <3>2. Len(w) # 0
      BY <1>6, <1>7, <2>3
    <3> QED
      BY <1>1, <2>1, <2>6, <3>1, <3>2
  <2>8. first = l
    BY <1>2 DEF l
  <2> QED
    BY <1>2, <1>5, <1>9, <2>7, <2>8
<1> QED
  BY <1>8, <1>9

\* The lines that are tried: the rest is rearranged behind the subcommand.
UpToCommand(cmd) == cmd.pre \o (IF cmd.name = NoCommand THEN <<>> ELSE <<Word(cmd.name)>>)

\* Moved rearranges what follows the subcommand.
LEMMA MovedIs ==
    ASSUME NEW c \in Line, NoMark(c), NEW cmd, cmd = extractSubcommand(c),
           NEW line \in Moved(c)
    PROVE  /\ cmd.rest \in Line /\ NoMark(cmd.rest)
           /\ \E r \in Rearrangements(cmd.rest) : r \in Line /\ line = UpToCommand(cmd) \o r
<1> DEFINE s == cmd.rest
           start == UpToCommand(cmd)
           flags == {i \in DOMAIN s : IsFlag(s[i]) \/ ~Own(s, PullsValue)[i]}
           f == FlagsOf(s)
           w == WordsOf(s)
<1>1. s \in Line /\ NoMark(s)
  BY Headed, NoCommandIs
<1>2. start \in Line
  <2>1. CASE cmd.name = NoCommand
    <3>1. cmd.pre = <<>>
      BY <2>1, NoCommandIs
    <3>2. start = <<>> \o <<>>
      BY <2>1, <3>1 DEF UpToCommand
    <3>3. <<>> \in Line /\ <<>> \o <<>> = <<>>
      BY DEF Line
    <3> QED
      BY <3>2, <3>3
  <2>2. CASE cmd.name # NoCommand
    <3>1. cmd.pre \in Line /\ cmd.name \in Words
      BY <2>2, Headed
    <3>2. Word(cmd.name) \in Argument
      BY <3>1 DEF Word, Argument
    <3>3. <<Word(cmd.name)>> \in Line
      BY <3>2 DEF Line
    <3> QED
      BY <2>2, <3>1, <3>3, Joined DEF UpToCommand
  <2> QED
    BY <2>1, <2>2
<1> HIDE DEF s, start
<1>3. /\ f = At(s, FlagPart(s)) /\ w = At(s, WordPart(s))
      /\ FlagPart(s) \subseteq 1..Len(s) /\ WordPart(s) \subseteq 1..Len(s)
      /\ \A i \in 1..Len(s) : i \in FlagPart(s) <=> s[i].dash \/ i \in Values(s)
      /\ \A i \in 1..Len(s) : i \in WordPart(s) <=> ~s[i].dash /\ i \notin Values(s)
      /\ \A i \in 1..Len(s) : IsFlag(s[i]) <=> s[i].dash
  BY <1>1, Sorted
<1>4. flags = FlagPart(s) /\ DOMAIN s \ flags = WordPart(s)
  <2>1. /\ flags \subseteq 1..Len(s) /\ DOMAIN s = 1..Len(s)
        /\ \A i \in 1..Len(s) : i \in flags <=> IsFlag(s[i]) \/ i \in Values(s)
    BY <1>1, ValuesAre
  <2> DEFINE F == FlagPart(s)
             W == WordPart(s)
  <2> HIDE DEF flags, F, W
  <2>2. \A i \in 1..Len(s) : (i \in flags <=> i \in F) /\ (i \in W <=> i \notin F)
    BY <1>3, <2>1 DEF F, W
  <2>3. F \subseteq 1..Len(s) /\ W \subseteq 1..Len(s)
    BY <1>3 DEF F, W
  <2>4. flags = F /\ DOMAIN s \ flags = W
    BY <2>1, <2>2, <2>3
  <2> QED
    BY <2>4 DEF F, W
<1>5. f \in Line /\ w \in Line
  BY <1>1, <1>3, AtHas
<1>6. line \in {start \o At(s, flags) \o At(s, DOMAIN s \ flags),
               start \o At(s, DOMAIN s \ flags) \o At(s, flags)}
  BY DEF Moved, UpToCommand, s, start
<1> HIDE DEF flags, f, w
<1>7. line \in {(start \o f) \o w, (start \o w) \o f}
  BY <1>3, <1>4, <1>6
<1>8. (start \o f) \o w = start \o (f \o w) /\ (start \o w) \o f = start \o (w \o f)
  <2>1. start \in Seq(Argument) /\ f \in Seq(Argument) /\ w \in Seq(Argument)
    BY <1>2, <1>5 DEF Line
  <2>2. (start \o f) \o w = start \o (f \o w)
    BY ONLY <2>1, ConcatAssociative
  <2>3. (start \o w) \o f = start \o (w \o f)
    BY ONLY <2>1, ConcatAssociative
  <2> QED
    BY <2>2, <2>3
<1>9. f \o w \in Line /\ w \o f \in Line
  BY <1>5, Joined
<1>10. Rearrangements(s) = {f \o w, w \o f}
  BY DEF Rearrangements, f, w
<1>11. \E r \in Rearrangements(s) : r \in Line /\ line = start \o r
  BY <1>7, <1>8, <1>9, <1>10
<1> QED
  BY <1>1, <1>11 DEF s, start

\* They have the same subcommand, with the same arguments before it.
LEMMA MovedCommand ==
    ASSUME NEW c \in Line, NoMark(c), NEW cmd, cmd = extractSubcommand(c),
           cmd.name # NoCommand, NEW line \in Moved(c)
    PROVE  \E r \in Rearrangements(cmd.rest) :
              extractSubcommand(line) = [name |-> cmd.name, pre |-> cmd.pre, rest |-> r]
<1>1. PICK r \in Rearrangements(cmd.rest) : r \in Line /\ line = UpToCommand(cmd) \o r
  BY MovedIs
<1>2. /\ cmd.pre \in Line /\ cmd.name \in Commands \cap Words
      /\ Complete(cmd.pre) /\ FlagsOnly(cmd.pre)
  BY Headed
<1>3. line = (cmd.pre \o <<Word(cmd.name)>>) \o r
  BY <1>1 DEF UpToCommand
<1>4. extractSubcommand(line) = [name |-> cmd.name, pre |-> cmd.pre, rest |-> r]
  BY <1>1, <1>2, <1>3, Resumed
<1> QED
  BY <1>4

\* And none when there was none.
LEMMA MovedNoCommand ==
    ASSUME NEW c \in Line, Whole(c), NEW cmd, cmd = extractSubcommand(c),
           cmd.name = NoCommand, NEW line \in Moved(c)
    PROVE  /\ line \in Rearrangements(c)
           /\ extractSubcommand(line) = [name |-> NoCommand, pre |-> <<>>, rest |-> line]
<1>0. NoMark(c)
  BY DEF Whole
<1>1. PICK r \in Rearrangements(cmd.rest) : r \in Line /\ line = UpToCommand(cmd) \o r
  BY <1>0, MovedIs
<1>2. cmd.pre = <<>> /\ cmd.rest = c
  BY NoCommandIs
<1>3. line = r
  <2>1. UpToCommand(cmd) = <<>> \o <<>>
    BY <1>2 DEF UpToCommand
  <2>2. (<<>> \o <<>>) \o r = r
    BY <1>1 DEF Line
  <2> QED
    BY <1>1, <2>1, <2>2
<1>4. line \in Rearrangements(c)
  BY <1>1, <1>2, <1>3
<1>5. Whole(line) /\ WordsOf(line) = WordsOf(c)
  BY <1>4, Rearranged
<1>6. extractSubcommand(line).name = NoCommand
  BY <1>0, <1>5, FirstWord DEF Whole
<1>7. line \in Line
  BY <1>5 DEF Whole
<1>8. extractSubcommand(line).pre = <<>> /\ extractSubcommand(line).rest = line
  BY <1>6, <1>7, NoCommandIs
<1>9. \E x, y, z : extractSubcommand(line) = [name |-> x, pre |-> y, rest |-> z]
  BY DEF extractSubcommand
<1> QED
  BY <1>4, <1>6, <1>8, <1>9

-----------------------------------------------------------------------------
(* What depends on the flags and the words alone.                          *)

\* Rearranged lines ask for help alike, and name a target alike.
LEMMA HelpAlike ==
    ASSUME NEW s, NEW t, Alike(s, t)
    PROVE  wantsHelp(s) <=> wantsHelp(t)
<1>1. ASSUME NEW u, NEW v, Alike(u, v), wantsHelp(u) PROVE wantsHelp(v)
  <2>1. u \in Line /\ v \in Line
    BY <1>1 DEF Alike, Whole
  <2>2. PICK x \in ToSet(u) : x \in {Flag("help"), Word("help")}
    BY <1>1 DEF wantsHelp
  <2>3. DOMAIN u = 1..Len(u) /\ DOMAIN v = 1..Len(v)
    BY <2>1, ValuesAre
  <2>4. PICK i \in 1..Len(u) : x = u[i]
    BY <2>2, <2>3 DEF ToSet
  <2>5. PICK j \in 1..Len(v) : v[j] = u[i]
    BY <1>1, Tokens
  <2>6. x \in ToSet(v)
    BY <2>3, <2>4, <2>5 DEF ToSet
  <2> QED
    BY <2>2, <2>6 DEF wantsHelp
<1>2. Alike(t, s)
  BY DEF Alike
<1> QED
  BY <1>1, <1>2

\* Whether a target is named depends on the flags and the words alone.
LEMMA TargetAlike ==
    ASSUME NEW s, NEW t, Alike(s, t)
    PROVE  reorderArgs(s) = reorderArgs(t) /\ (hasPortTarget(s) <=> hasPortTarget(t))
<1>1. \A e : reorderArgs(e) = [flags |-> FlagsOf(e), positional |-> WordsOf(e)]
  BY DEF reorderArgs, FlagsOf, WordsOf
<1>2. reorderArgs(s) = reorderArgs(t)
  BY <1>1 DEF Alike
<1> QED
  BY <1>2 DEF hasPortTarget

\* next accepts no flag that wants a value without it.
LEMMA NextEnds ==
    ASSUME NEW s \in Line, NoMark(s), NextAccepts(s)
    PROVE  Whole(s)
<1> DEFINE f == FlagsOf(s)
<1>1. f \in Line
  <2>1. FlagPart(s) \subseteq 1..Len(s) /\ f = At(s, FlagPart(s))
    BY Sorted
  <2> QED
    BY <2>1, AtHas
<1>2. /\ DOMAIN f = 1..Len(f)
      /\ \A k \in 1..Len(f) : Own(f, PullsValue)[k] <=> k \notin Values(f)
  BY <1>1, ValuesAre
<1>3. \A k \in DOMAIN f : Own(f, PullsValue)[k] => (PullsValue(f[k]) => k < Len(f))
  BY DEF NextAccepts, FlagsOf
<1>4. \A k \in 1..Len(f) : k \notin Values(f) /\ PullsValue(f[k]) => k < Len(f)
  BY <1>2, <1>3
<1> HIDE DEF f
<1>5. f = FlagsOf(s)
  BY DEF f
<1> QED
  BY <1>4, <1>5, EndsComplete DEF Whole

\* The values of top, which knows one flag that takes any.
TopValues(s) == {i \in DOMAIN s : ~Own(s, TopPulls)[i]}

\* Which those are, from left to right.
LEMMA TopOwnAre ==
    ASSUME NEW s \in Line
    PROVE  /\ DOMAIN s = 1..Len(s) /\ Len(s) \in Nat
           /\ TopValues(s) \subseteq 1..Len(s)
           /\ \A i \in 1..Len(s) : Own(s, TopPulls)[i] <=> i \notin TopValues(s)
           /\ \A i \in 1..Len(s) : i \in TopValues(s) <=>
                 i # 1 /\ i - 1 \notin TopValues(s) /\ TopPulls(s[i - 1])
<1> DEFINE pulling == {i \in 1..Len(s) : TopPulls(s[i])}
<1>1. Len(s) \in Nat /\ DOMAIN s = 1..Len(s)
  BY DEF Line
<1>2. PICK f : f = [i \in 1..Len(s) |-> i = 1 \/ ~f[i - 1] \/ i - 1 \notin pulling]
  BY <1>1, OwnExists
<1>3. ASSUME NEW i \in 1..Len(s), i # 1 PROVE i - 1 \in pulling <=> TopPulls(s[i - 1])
  BY <1>1, <1>3
<1>4. f = [i \in DOMAIN s |-> i = 1 \/ ~f[i - 1] \/ ~TopPulls(s[i - 1])]
  BY <1>1, <1>2, <1>3
<1>5. \E g : /\ Own(s, TopPulls) = g
             /\ g = [i \in DOMAIN s |-> i = 1 \/ ~g[i - 1] \/ ~TopPulls(s[i - 1])]
  BY <1>4, Zenon DEF Own
<1>6. PICK own : /\ Own(s, TopPulls) = own
                /\ own = [i \in DOMAIN s |-> i = 1 \/ ~own[i - 1] \/ ~TopPulls(s[i - 1])]
  BY <1>5
<1>7. ASSUME NEW i \in 1..Len(s) PROVE own[i] = (i = 1 \/ ~own[i - 1] \/ ~TopPulls(s[i - 1]))
  BY <1>1, <1>6
<1>8. TopValues(s) = {i \in 1..Len(s) : ~own[i]}
  BY <1>1, <1>6 DEF TopValues
<1>9. ASSUME NEW i \in 1..Len(s)
      PROVE  i \in TopValues(s) <=> i # 1 /\ i - 1 \notin TopValues(s) /\ TopPulls(s[i - 1])
  <2>1. CASE i = 1
    BY <1>7, <1>8, <2>1
  <2>2. CASE i # 1
    <3>1. i - 1 \in 1..Len(s)
      BY <1>1, <2>2
    <3>2. (i - 1 \notin TopValues(s)) <=> own[i - 1]
      BY <1>8, <3>1
    <3>3. (i \in TopValues(s)) <=> ~own[i]
      BY <1>8
    <3> QED
      BY <1>7, <2>2, <3>2, <3>3
  <2> QED
    BY <2>1, <2>2
<1> QED
  BY <1>1, <1>6, <1>8, <1>9

\* The flag is one of those that take a value everywhere.
TopLike(t) == PullsValue(t) <=> TopPulls(t)

\* Where every argument of its own is such, top and the others agree on the values.
LEMMA TopValuesSame ==
    ASSUME NEW s \in Line,
           \A i \in 1..Len(s) : i \notin TopValues(s) /\ i \notin Values(s) => TopLike(s[i])
    PROVE  TopValues(s) = Values(s)
<1>1. /\ Len(s) \in Nat /\ Values(s) \subseteq 1..Len(s) /\ TopValues(s) \subseteq 1..Len(s)
      /\ \A i \in 1..Len(s) : i \in Values(s) <=>
            i # 1 /\ i - 1 \notin Values(s) /\ PullsValue(s[i - 1])
      /\ \A i \in 1..Len(s) : i \in TopValues(s) <=>
            i # 1 /\ i - 1 \notin TopValues(s) /\ TopPulls(s[i - 1])
  BY ValuesAre, TopOwnAre
<1> DEFINE Good == {m \in Nat : m + 1 <= Len(s) => (m + 1 \in TopValues(s) <=> m + 1 \in Values(s))}
<1>3. 0 \in Good
  <2> SUFFICES ASSUME 1 <= Len(s) PROVE 1 \in TopValues(s) <=> 1 \in Values(s)
    OBVIOUS
  <2>1. 1 \in 1..Len(s)
    BY <1>1
  <2> QED
    BY <1>1, <2>1
<1>4. ASSUME NEW m \in Nat, m \in Good PROVE m + 1 \in Good
  <2> DEFINE i == m + 1
  <2> SUFFICES ASSUME i + 1 <= Len(s) PROVE i + 1 \in TopValues(s) <=> i + 1 \in Values(s)
    OBVIOUS
  <2>1. /\ i \in 1..Len(s) /\ i + 1 \in 1..Len(s) /\ i + 1 # 1 /\ (i + 1) - 1 = i
        /\ i <= Len(s)
    BY <1>1
  <2>2. i \in TopValues(s) <=> i \in Values(s)
    BY <1>4, <2>1
  <2> HIDE DEF i
  <2>3. i \notin Values(s) => (PullsValue(s[i]) <=> TopPulls(s[i]))
    BY <2>1, <2>2 DEF TopLike
  <2> QED
    BY <1>1, <2>1, <2>2, <2>3
<1>5. \A m \in Nat : m \in Good
  <2> HIDE DEF Good
  <2> QED
    BY <1>3, <1>4, FromZeroUp
<1>6. ASSUME NEW i \in 1..Len(s) PROVE i \in TopValues(s) <=> i \in Values(s)
  <2>1. i - 1 \in Nat /\ (i - 1) + 1 = i /\ i <= Len(s)
    BY <1>1
  <2>2. i - 1 \in Good
    BY <1>5, <2>1
  <2> QED
    BY <2>1, <2>2
<1> QED
  BY <1>1, <1>6

\* What top makes of an argument that is no value.
TopKnows(t) == \/ IsNumber(t) /\ Numeral[t.text] > 0
               \/ t.dash /\ t.text = "tcp" /\ t.inline \in {NoValue} \cup Truths \cup Falsehoods
               \/ t.dash /\ t.text = "interval"
                    /\ (t.inline = NoValue \/ t.inline \in DOMAIN Numeral)

\* What top knows is such an argument.
LEMMA TopKnown ==
    ASSUME NEW t \in Argument, TopKnows(t)
    PROVE  /\ TopLike(t)
           /\ t.dash /\ t.text = "interval" /\ t.inline = NoValue <=> PullsValue(t)
<1>1. CASE ~t.dash
  <2>1. ~PullsValue(t)
    BY <1>1 DEF PullsValue, IsFlag
  <2>2. ~TopPulls(t)
    <3>1. Flag("interval").dash
      BY DEF Flag
    <3> QED
      BY <1>1, <3>1 DEF TopPulls
  <2> QED
    BY <1>1, <2>1, <2>2 DEF TopLike
<1>2. CASE t.dash /\ t.text = "tcp"
  <2>1. "tcp" \notin valueFlags /\ "tcp" # "interval"
    BY DEF valueFlags
  <2>2. ~PullsValue(t)
    BY <1>2, <2>1 DEF PullsValue, NamesValue
  <2>3. ~TopPulls(t)
    <3>1. Flag("interval").text = "interval"
      BY DEF Flag
    <3> QED
      BY <1>2, <2>1, <3>1 DEF TopPulls
  <2> QED
    BY <1>2, <2>1, <2>2, <2>3 DEF TopLike
<1>3. CASE t.dash /\ t.text = "interval"
  <2>1. "interval" \in valueFlags /\ "interval" # ""
    BY DEF valueFlags
  <2>2. DashDash.text = ""
    BY DEF DashDash, Flag
  <2>3. PullsValue(t) <=> t.inline = NoValue
    BY <1>3, <2>1, <2>2 DEF PullsValue, NamesValue, IsFlag
  <2>4. t = [dash |-> t.dash, text |-> t.text, inline |-> t.inline]
    BY DEF Argument
  <2>5. TopPulls(t) <=> t.inline = NoValue
    BY <1>3, <2>4 DEF TopPulls, Flag
  <2> QED
    BY <1>3, <2>3, <2>5 DEF TopLike
<1>4. t.dash => t.text = "tcp" \/ t.text = "interval"
  BY DEF TopKnows, IsNumber
<1> QED
  BY <1>1, <1>2, <1>3, <1>4

\* top accepts a line when it knows each of its arguments, and none is missing.
TopFits(s) == \A i \in 1..Len(s) :
                 /\ i \notin Values(s) => TopKnows(s[i])
                 /\ i \in Values(s) => IsNumber(s[i])

\* So top reads a line as the other passes do.
LEMMA TopIs ==
    ASSUME NEW s \in Line
    PROVE  TopAccepts(s) <=> TopFits(s) /\ Complete(s)
<1> DEFINE Takes(i) ==
             \/ IsNumber(s[i]) /\ Numeral[s[i].text] > 0
             \/ s[i].dash /\ s[i].text = "tcp" /\ s[i].inline \in {NoValue} \cup Truths \cup Falsehoods
             \/ s[i].dash /\ s[i].text = "interval"
                  /\ IF s[i].inline = NoValue THEN i < Len(s) ELSE s[i].inline \in DOMAIN Numeral
<1>1. /\ DOMAIN s = 1..Len(s) /\ Len(s) \in Nat /\ TopValues(s) \subseteq 1..Len(s)
      /\ \A i \in 1..Len(s) : Own(s, TopPulls)[i] <=> i \notin TopValues(s)
  BY TopOwnAre
<1>2. \A i \in 1..Len(s) : s[i] \in Argument
  BY DEF Line
<1>3. TopAccepts(s) <=> \A i \in 1..Len(s) : IF i \notin TopValues(s) THEN Takes(i) ELSE IsNumber(s[i])
  <2>1. TopAccepts(s) <=> \A i \in DOMAIN s : IF Own(s, TopPulls)[i] THEN Takes(i) ELSE IsNumber(s[i])
    BY DEF TopAccepts
  <2> HIDE DEF Takes
  <2> QED
    BY <1>1, <2>1
<1>4. ASSUME NEW i \in 1..Len(s)
      PROVE  Takes(i) <=> TopKnows(s[i]) /\ (PullsValue(s[i]) => i < Len(s))
  <2>1. Takes(i) => TopKnows(s[i])
    BY DEF TopKnows
  <2>2. CASE TopKnows(s[i])
    <3>1. s[i].dash /\ s[i].text = "interval" /\ s[i].inline = NoValue <=> PullsValue(s[i])
      BY <1>2, <2>2, TopKnown
    <3>2. CASE PullsValue(s[i])
      <4>1. s[i].dash /\ s[i].text = "interval" /\ s[i].inline = NoValue
        BY <3>1, <3>2
      <4>2. ~IsNumber(s[i]) /\ s[i].text # "tcp"
        BY <4>1 DEF IsNumber
      <4> QED
        BY <2>2, <3>2, <4>1, <4>2
    <3>3. CASE ~PullsValue(s[i])
      BY <2>2, <3>1, <3>3 DEF TopKnows
    <3> QED
      BY <3>2, <3>3
  <2> QED
    BY <2>1, <2>2
<1> HIDE DEF Takes
<1>5. ASSUME \A i \in 1..Len(s) : i \notin TopValues(s) => TopKnows(s[i])
      PROVE  TopValues(s) = Values(s)
  BY <1>2, <1>5, TopKnown, TopValuesSame
<1>6. ASSUME \A i \in 1..Len(s) : i \notin Values(s) => TopKnows(s[i])
      PROVE  TopValues(s) = Values(s)
  BY <1>2, <1>6, TopKnown, TopValuesSame
<1>7. ASSUME TopAccepts(s) PROVE TopFits(s) /\ Complete(s)
  <2>1. TopValues(s) = Values(s)
    BY <1>3, <1>4, <1>5, <1>7
  <2>2. \A i \in 1..Len(s) : i \notin Values(s) => Takes(i)
    BY <1>3, <1>7, <2>1
  <2>3. \A i \in 1..Len(s) : i \in Values(s) => IsNumber(s[i])
    BY <1>3, <1>7, <2>1
  <2>4. TopFits(s)
    BY <1>4, <2>2, <2>3 DEF TopFits
  <2>5. Complete(s)
    <3> SUFFICES ASSUME Len(s) # 0, Len(s) \notin Values(s), PullsValue(s[Len(s)]) PROVE FALSE
      BY DEF Complete
    <3>1. Len(s) \in 1..Len(s) /\ ~(Len(s) < Len(s))
      BY <1>1
    <3> QED
      BY <1>4, <2>2, <3>1
  <2> QED
    BY <2>4, <2>5
<1>8. ASSUME TopFits(s), Complete(s) PROVE TopAccepts(s)
  <2>1. \A i \in 1..Len(s) : i \notin Values(s) => TopKnows(s[i])
    BY <1>8 DEF TopFits
  <2>2. TopValues(s) = Values(s)
    BY <1>6, <2>1
  <2>3. ASSUME NEW i \in 1..Len(s), i \notin Values(s), PullsValue(s[i]) PROVE i < Len(s)
    <3>1. i # Len(s)
      BY <1>8, <2>3 DEF Complete
    <3> DEFINE n == Len(s)
    <3>2. n \in Nat /\ i \in 1..n /\ i # n
      BY <1>1, <3>1
    <3> HIDE DEF n
    <3>3. i < n
      BY <3>2
    <3> QED
      BY <3>3 DEF n
  <2>4. \A i \in 1..Len(s) : i \notin Values(s) => Takes(i)
    BY <1>4, <2>1, <2>3
  <2>5. \A i \in 1..Len(s) : i \in Values(s) => IsNumber(s[i])
    BY <1>8 DEF TopFits
  <2> QED
    BY <1>3, <2>2, <2>4, <2>5
<1> QED
  BY <1>7, <1>8

\* It accepts rearranged lines alike.
LEMMA TopAlike ==
    ASSUME NEW s, NEW t, Alike(s, t), TopAccepts(s)
    PROVE  TopAccepts(t)
<1>1. s \in Line /\ t \in Line /\ Complete(t)
  BY DEF Alike, Whole
<1>2. TopFits(s)
  BY <1>1, TopIs
<1>3. Alike(t, s)
  BY DEF Alike
<1>4. \A i \in 1..Len(t) : \E j \in 1..Len(s) : s[j] = t[i] /\ (j \in Values(s) <=> i \in Values(t))
  BY <1>3, Tokens
<1>5. TopFits(t)
  BY <1>2, <1>4 DEF TopFits
<1> QED
  BY <1>1, <1>5, TopIs

-----------------------------------------------------------------------------
(* Flags may stand anywhere.                                               *)

\* Lines with the same flags and words come to the same.
LEMMA CoreAlike ==
    ASSUME NEW s, NEW t, Alike(s, t), Plain(s), Plain(t),
           GroupsKnown(s), Accepted(expandGroups(s))
    PROVE  /\ GroupsKnown(t) /\ Accepted(expandGroups(t))
           /\ parseArgs(expandGroups(t)) = parseArgs(expandGroups(s))
<1>1. reorderArgs(expandGroups(s)) = reorderArgs(expandGroups(t))
  BY ReadAlike
<1>2. Alike(t, s)
  BY DEF Alike
<1>3. GroupsKnown(t)
  BY <1>2, KnownAlike
<1> DEFINE d == expandGroups(s)
           e == expandGroups(t)
<1> HIDE DEF d, e
<1>4. reorderArgs(d) = reorderArgs(e)
  BY <1>1 DEF d, e
<1>5. (Accepted(d) <=> Accepted(e)) /\ parseArgs(d) = parseArgs(e)
  BY <1>4 DEF Accepted, parseArgs
<1> QED
  BY <1>3, <1>5 DEF d, e

\* What the subcommand puts before the arguments that follow it.
Before(cmd) == IF cmd.name \in DOMAIN ActionFlag
               THEN cmd.pre \o <<Flag(ActionFlag[cmd.name])>> ELSE cmd.pre

\* That ends no flag early.
LEMMA BeforeIs ==
    ASSUME NEW cmd, Whole(cmd.pre)
    PROVE  Whole(Before(cmd))
<1>1. CASE cmd.name \in DOMAIN ActionFlag
  <2> DEFINE a == Flag(ActionFlag[cmd.name])
             u == <<a>>
  <2>1. a \in Argument /\ a.text = ActionFlag[cmd.name] /\ ~PullsValue(a)
        /\ ActionFlag[cmd.name] \in ViewsAndActions \cup {"watch"}
    BY <1>1, ActionsAre
  <2>2. a # DashDash
    <3>1. DashDash.text = ""
      BY DEF DashDash, Flag
    <3>2. "" \notin ViewsAndActions \cup {"watch"}
      BY DEF ViewsAndActions
    <3> HIDE DEF a
    <3> QED
      BY <2>1, <3>1, <3>2
  <2> HIDE DEF a
  <2>3. u \in Line /\ Len(u) = 1 /\ u[1] = a
    BY <2>1 DEF Line
  <2> HIDE DEF u
  <2>4. NoMark(u) /\ Complete(u)
    BY <2>1, <2>2, <2>3 DEF NoMark, Complete
  <2>5. Whole(cmd.pre \o u)
    BY <2>3, <2>4, SortedJoined DEF Whole
  <2> QED
    BY <1>1, <2>5 DEF Before, u, a
<1>2. CASE cmd.name \notin DOMAIN ActionFlag
  BY <1>2 DEF Before
<1> QED
  BY <1>1, <1>2

\* The arguments executeCore gets.
LEMMA CoreSplit ==
    ASSUME NEW c, NEW cmd, cmd = extractSubcommand(c), cmd.name # "find"
    PROVE  CoreArgs(c) = Before(cmd) \o cmd.rest
  BY DEF CoreArgs, Before

\* Without a subcommand.
LEMMA FreeAlone ==
    ASSUME NEW c \in Line, NoMark(c), ~Refused(c), NEW line \in Moved(c),
           extractSubcommand(c).name = NoCommand
    PROVE  /\ ~HelpWanted(c) /\ ~HelpWanted(line) /\ ~Refused(line)
           /\ Reading(line) = Reading(c)
<1> DEFINE cmd == extractSubcommand(c)
           out == extractSubcommand(line)
<1>0. /\ NoCommand \in CoreCommands /\ NoCommand \notin DOMAIN ActionFlag \cup WantTarget
      /\ NoCommand \notin {"find", "top", "next"}
  BY DEF NoCommand, CoreCommands, ActionFlag, WantTarget
<1>1. cmd.pre = <<>> /\ cmd.rest = c
  BY NoCommandIs
<1>2. ASSUME NEW s \in Line, extractSubcommand(s).name = NoCommand,
             extractSubcommand(s).pre = <<>>, extractSubcommand(s).rest = s
      PROVE  /\ CoreArgs(s) = s /\ ~HelpWanted(s)
             /\ Refused(s) <=> ~GroupsKnown(s) \/ ~Accepted(expandGroups(s))
             /\ Reading(s) = parseArgs(expandGroups(s))
  <2>1. <<>> \o s = s
    BY DEF Line
  <2>2. CoreArgs(s) = s
    BY <1>0, <1>2, <2>1 DEF CoreArgs
  <2>3. ~HelpWanted(s)
    BY <1>0, <1>2 DEF HelpWanted
  <2>4. ~Pointless(s)
    BY <1>0, <1>2 DEF Pointless
  <2>5. Refused(s) <=> ~GroupsKnown(s) \/ ~Accepted(expandGroups(s))
    BY <1>0, <1>2, <2>2, <2>4 DEF Refused
  <2>6. Reading(s) = parseArgs(expandGroups(s))
    BY <1>0, <1>2, <2>2, <2>3 DEF Reading
  <2> QED
    BY <2>2, <2>3, <2>5, <2>6
<1>3. /\ ~HelpWanted(c) /\ GroupsKnown(c) /\ Accepted(expandGroups(c))
      /\ Reading(c) = parseArgs(expandGroups(c))
  BY <1>1, <1>2
<1>4. Whole(c) /\ Plain(c)
  BY <1>3, AcceptedWhole
<1>5. /\ line \in Rearrangements(c)
      /\ out = [name |-> NoCommand, pre |-> <<>>, rest |-> line]
  BY <1>4, MovedNoCommand
<1>6. Alike(c, line) /\ Plain(line) /\ line \in Line
  BY <1>4, <1>5, Rearranged DEF Alike, Whole
<1>7. /\ GroupsKnown(line) /\ Accepted(expandGroups(line))
      /\ parseArgs(expandGroups(line)) = parseArgs(expandGroups(c))
  BY <1>3, <1>4, <1>6, CoreAlike
<1>8. /\ ~HelpWanted(line) /\ ~Refused(line)
      /\ Reading(line) = parseArgs(expandGroups(line))
  <2>1. out.name = NoCommand /\ out.pre = <<>> /\ out.rest = line
    BY <1>5
  <2> QED
    BY <1>2, <1>6, <1>7, <2>1
<1> QED
  BY <1>3, <1>7, <1>8

\* The two lines, of which the second has r for the rest.
Pair(c, line, cmd, r) ==
    /\ c \in Line /\ NoMark(c) /\ cmd = extractSubcommand(c)
    /\ cmd.name # NoCommand /\ cmd.name # "find" /\ ~Refused(c)
    /\ r \in Rearrangements(cmd.rest)
    /\ extractSubcommand(line).name = cmd.name /\ extractSubcommand(line).pre = cmd.pre
    /\ extractSubcommand(line).rest = r

\* What is known of the parts of the first,
LEMMA PairIs ==
    ASSUME NEW c, NEW line, NEW cmd, NEW r, Pair(c, line, cmd, r)
    PROVE  Whole(cmd.pre) /\ cmd.rest \in Line /\ NoMark(cmd.rest)
  BY Headed DEF Pair, Whole

\* and that the second has the same flags and words.
LEMMA PairAlike ==
    ASSUME NEW c, NEW line, NEW cmd, NEW r, Pair(c, line, cmd, r), Complete(cmd.rest)
    PROVE  /\ wantsHelp(cmd.rest) <=> wantsHelp(r)
           /\ Alike(cmd.pre \o cmd.rest, cmd.pre \o r)
           /\ Alike(Before(cmd) \o cmd.rest, Before(cmd) \o r)
           /\ Plain(Before(cmd) \o cmd.rest) <=> Plain(Before(cmd) \o r)
<1>1. Whole(cmd.pre) /\ Whole(cmd.rest) /\ Whole(Before(cmd)) /\ r \in Rearrangements(cmd.rest)
  BY PairIs, BeforeIs DEF Pair, Whole
<1>2. Alike(cmd.rest, r)
  BY <1>1, Rearranged DEF Alike
<1>3. wantsHelp(cmd.rest) <=> wantsHelp(r)
  BY <1>2, HelpAlike
<1> DEFINE p == cmd.pre
           b == Before(cmd)
           s == cmd.rest
<1> HIDE DEF p, b, s
<1>4. Whole(p) /\ Whole(b) /\ Whole(s) /\ r \in Rearrangements(s)
  BY <1>1 DEF p, b, s
<1>5. Alike(p \o s, p \o r)
  BY <1>4, RearrangedBehind
<1>6. Alike(b \o s, b \o r) /\ (Plain(b \o s) <=> Plain(b \o r))
  BY <1>4, RearrangedBehind
<1> QED
  BY <1>3, <1>5, <1>6 DEF p, b, s

\* The end of a line is the end of what follows its subcommand.
LEMMA PairEnds ==
    ASSUME NEW p, Whole(p), NEW s \in Line, NoMark(s), Complete(p \o s)
    PROVE  Complete(s)
  BY SortedJoined

\* The subcommands executeCore answers.
LEMMA FreeCore ==
    ASSUME NEW c, NEW line, NEW cmd, NEW r, Pair(c, line, cmd, r), cmd.name \in CoreCommands
    PROVE  /\ HelpWanted(c) <=> HelpWanted(line)
           /\ ~Refused(line) /\ Reading(line) = Reading(c)
<1> DEFINE out == extractSubcommand(line)
           s == cmd.rest
           b == Before(cmd)
<1>1. /\ cmd = extractSubcommand(c) /\ cmd.name # NoCommand /\ cmd.name # "find" /\ ~Refused(c)
      /\ out.name = cmd.name /\ out.pre = cmd.pre /\ out.rest = r
  BY DEF Pair
<1>2. /\ Whole(cmd.pre) /\ s \in Line /\ NoMark(s) /\ Whole(b)
  BY PairIs, BeforeIs
<1>3. CoreArgs(c) = b \o s /\ CoreArgs(line) = b \o r
  <2>1. Before(out) = b
    BY <1>1 DEF Before
  <2>2. CoreArgs(c) = b \o s
    BY <1>1, CoreSplit
  <2>3. CoreArgs(line) = Before(out) \o out.rest
    BY <1>1, CoreSplit
  <2> QED
    BY <1>1, <2>1, <2>2, <2>3
<1>4. cmd.name # "top" /\ cmd.name # "next"
  BY DEF CoreCommands, ActionFlag, NoCommand
<1>5. /\ ~Pointless(c) /\ GroupsKnown(CoreArgs(c)) /\ Accepted(expandGroups(CoreArgs(c)))
  BY <1>1 DEF Refused
<1> HIDE DEF s, b, out
<1>6. b \o s \in Line /\ NoMark(b \o s)
  BY <1>2, SortedJoined
<1>7. Whole(b \o s) /\ Plain(b \o s)
  BY <1>3, <1>5, <1>6, AcceptedWhole
<1>8. Complete(s)
  BY <1>2, <1>7, PairEnds DEF Whole
<1>9. /\ wantsHelp(s) <=> wantsHelp(r)
      /\ Alike(cmd.pre \o s, cmd.pre \o r)
      /\ Alike(b \o s, b \o r) /\ Plain(b \o r)
  BY <1>7, <1>8, PairAlike DEF s, b
<1>10. /\ GroupsKnown(CoreArgs(line)) /\ Accepted(expandGroups(CoreArgs(line)))
       /\ parseArgs(expandGroups(CoreArgs(line))) = parseArgs(expandGroups(CoreArgs(c)))
  BY <1>3, <1>5, <1>7, <1>9, CoreAlike
<1>11. hasPortTarget(cmd.pre \o s) <=> hasPortTarget(cmd.pre \o r)
  BY <1>9, TargetAlike
<1>12. ~Pointless(line)
  BY <1>1, <1>5, <1>11 DEF Pointless, s, out
<1>13. ~Refused(line)
  BY <1>1, <1>4, <1>10, <1>12 DEF Refused, out
<1>14. HelpWanted(c) <=> HelpWanted(line)
  BY <1>1, <1>4, <1>9 DEF HelpWanted, s, out
<1>15. Reading(line) = Reading(c)
  BY <1>1, <1>10, <1>14 DEF Reading, out
<1> QED
  BY <1>13, <1>14, <1>15

\* top and next, which read the arguments themselves.
LEMMA FreeLoops ==
    ASSUME NEW c, NEW line, NEW cmd, NEW r, Pair(c, line, cmd, r), cmd.name \in {"top", "next"}
    PROVE  /\ HelpWanted(c) <=> HelpWanted(line)
           /\ ~Refused(line) /\ Reading(line) = Reading(c)
<1> DEFINE out == extractSubcommand(line)
           s == cmd.rest
           p == cmd.pre
<1>1. /\ cmd = extractSubcommand(c) /\ ~Refused(c)
      /\ out.name = cmd.name /\ out.pre = p /\ out.rest = r
  BY DEF Pair
<1>2. Whole(p) /\ s \in Line /\ NoMark(s)
  BY PairIs
<1>3. cmd.name \notin CoreCommands
  BY DEF CoreCommands, ActionFlag, NoCommand
<1>4. /\ cmd.name = "top" => TopAccepts(p \o s)
      /\ cmd.name = "next" => NextAccepts(p \o s)
  BY <1>1 DEF Refused
<1> HIDE DEF s, p, out
<1>5. p \o s \in Line /\ NoMark(p \o s)
  BY <1>2, SortedJoined
<1>6. Complete(p \o s)
  <2>1. CASE cmd.name = "top"
    BY <1>4, <1>5, <2>1, TopIs
  <2>2. CASE cmd.name = "next"
    BY <1>4, <1>5, <2>2, NextEnds DEF Whole
  <2> QED
    BY <2>1, <2>2
<1>7. Complete(s)
  BY <1>2, <1>6, PairEnds
<1>8. (wantsHelp(s) <=> wantsHelp(r)) /\ Alike(p \o s, p \o r)
  BY <1>7, PairAlike DEF s, p
<1>9. wantsHelp(p \o s) <=> wantsHelp(p \o r)
  BY <1>8, HelpAlike
<1>10. cmd.name = "top" => TopAccepts(p \o r)
  BY <1>4, <1>8, TopAlike
<1>11. cmd.name = "next" => NextAccepts(p \o r)
  <2>1. reorderArgs(p \o s) = reorderArgs(p \o r)
    BY <1>8, TargetAlike
  <2> DEFINE d == p \o s
             e == p \o r
  <2> HIDE DEF d, e
  <2>2. reorderArgs(d) = reorderArgs(e)
    BY <2>1 DEF d, e
  <2>3. NextAccepts(d) <=> NextAccepts(e)
    BY <2>2 DEF NextAccepts
  <2> QED
    BY <1>4, <2>3 DEF d, e
<1>12. ~Refused(line)
  BY <1>1, <1>3, <1>10, <1>11 DEF Refused, out
<1>13. HelpWanted(c) <=> HelpWanted(line)
  BY <1>1, <1>3, <1>8, <1>9 DEF HelpWanted, s, p, out
<1>14. Reading(line) = Reading(c)
  BY <1>1, <1>3, <1>13 DEF Reading, out
<1> QED
  BY <1>12, <1>13, <1>14

\* config, doctor and completion.
LEMMA FreeOthers ==
    ASSUME NEW c, NEW line, NEW cmd, NEW r, Pair(c, line, cmd, r),
           cmd.name \notin CoreCommands \cup {"top", "next"}
    PROVE  /\ HelpWanted(c) <=> HelpWanted(line)
           /\ ~Refused(line) /\ Reading(line) = Reading(c)
<1> DEFINE out == extractSubcommand(line)
<1>1. cmd = extractSubcommand(c) /\ out.name = cmd.name
  BY DEF Pair
<1>2. ~HelpWanted(c) /\ ~HelpWanted(line)
  BY <1>1 DEF HelpWanted
<1>3. ~Refused(line)
  BY <1>1 DEF Refused
<1> QED
  BY <1>1, <1>2, <1>3 DEF Reading

\* All of them together.
LEMMA FlagsFree ==
    ASSUME NEW c \in Line, NoMark(c), extractSubcommand(c).name # "find", ~Refused(c),
           NEW line \in Moved(c)
    PROVE  ~Refused(line) /\ Reading(line) = Reading(c)
<1> DEFINE cmd == extractSubcommand(c)
<1>1. CASE cmd.name = NoCommand
  BY <1>1, FreeAlone
<1>2. CASE cmd.name # NoCommand
  <2>1. PICK r \in Rearrangements(cmd.rest) :
           extractSubcommand(line) = [name |-> cmd.name, pre |-> cmd.pre, rest |-> r]
    BY <1>2, MovedCommand
  <2>2. /\ extractSubcommand(line).name = cmd.name
        /\ extractSubcommand(line).pre = cmd.pre
        /\ extractSubcommand(line).rest = r
    BY <2>1
  <2>3. Pair(c, line, cmd, r)
    BY <1>2, <2>2 DEF Pair
  <2> HIDE DEF cmd
  <2> QED
    BY <2>3, FreeCore, FreeLoops, FreeOthers
<1> QED
  BY <1>1, <1>2

\* Whatever the command line, of any length: an accepted one means the same
\* wherever the flags after the subcommand are put.
THEOREM FlagsMoveFreely == Spec => []FlagsMayStandAnywhere
<1>1. ReadInv => FlagsMayStandAnywhere
  <2> SUFFICES ASSUME ReadInv, DashDash \notin ToSet(args),
                      extractSubcommand(args).name # "find", ~Refused(args),
                      NEW line \in Moved(args)
               PROVE  ~Refused(line) /\ Reading(line) = Reading(args)
    BY DEF FlagsMayStandAnywhere
  <2>1. args \in Line
    BY DEF ReadInv
  <2>2. NoMark(args)
    <3>1. DOMAIN args = 1..Len(args)
      BY <2>1, ValuesAre
    <3> QED
      BY <3>1 DEF NoMark, ToSet
  <2> QED
    BY <2>1, <2>2, FlagsFree
<1> QED
  BY <1>1, ReadInit, ReadStep, PTL DEF Spec

=============================================================================
