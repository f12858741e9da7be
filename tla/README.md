# TLA+ models of PortLens

PortLens answers one question, "what is listening on this port, and may I stop
it?", from several goroutines and against a host that does not stand still
while it looks. These modules model the parts of it whose correctness depends
on order, on failure, or on agreement between separate pieces of code, check
them with TLC on small instances, and prove the properties that matter most with
TLAPS for every value of the constants.

Contents: [the system](#the-system), [modules](#modules),
[runs](#runs-and-what-they-show), [bounds](#bounds), [fairness](#fairness),
[proofs](#proofs), [disagreements](#disagreements-found),
[what is not modelled](#not-modelled), [plan](#plan).

## The system

| component | state it keeps | operations | talks to |
|---|---|---|---|
| command line (`cmd/root.go`, `dispatch.go`, `top.go`) | none beyond `options` | subcommand lookup, group expansion, flag reordering, parsing, target resolution | config file, inspector, watch, scan, dashboard |
| one run over ports (`cmd/app.go`, `prompt.go`) | worst exit code | listing, scan, per-port loop, actions | service, inspector, actions |
| interactive prompt, `next` (`cmd/interactive.go`, `next.go`) | the report at hand; the candidate port | keys; listing and bind probe | actions, platform |
| scan (`internal/service`) | results, three counters, a mutex, a channel | prefilter, worker pool, progress callback, collection | inspector, platform |
| dashboard (`internal/tui`) | `Model` (rows, cursor, filter, mode), report cache, two channels | keys, ticks, fetches, confirmed actions | inspector, actions, `singleFlight` |
| `singleFlight` (`internal/tui/flight.go`) | two atomic flags | `run` | goroutines of the dashboard |
| watch (`cmd/watch.go`) | previous snapshot, `first` | tick, diff, emit or notify | inspector, and through it the inode map |
| actions (`internal/actions`) | none; the process-table snapshot of the platform | Kill, Restart, TerminateTree | signals, container runtime, prompt |
| platform, Linux (`internal/platform`) | inode map and process table, both with a TTL | ResolvePort, Listeners, Signal, IsAlive, Descendants | `/proc`, kernel |
| inspector (`internal/inspector`) | none | InspectDepth, List, search, exposure | platform, detectors |
| project detection (`internal/detect`) | a memo with expiry and cap; descriptions shared by reference | Detect | files of the user |
| container lookup (`internal/platform/container.go`) | one list of running containers with a TTL | FindByPID, FindByPort, FindByPorts | container daemon |
| configuration (`internal/config`, `cmd/config.go`) | one JSON file, a `.tmp` beside it | Load, Save, add, remove | file system |
| key decoder (`internal/tui/keys.go`) | bytes read so far | ReadKey | terminal |
| frame (`internal/tui/render.go`) | the scroll offset of the model | Render | dashboard |
| renderers, completion, usage, doctor, macOS layer | none | text | - |

The commands call down (command line, service or watch or dashboard, inspector,
platform). What runs concurrently: the workers of a scan; the dashboard's event
loop with its list and report goroutines and one goroutine per confirmed
action; Ctrl-C, through a context, with all of them; and always the host. They
share the inode map, the process-table snapshot, the container list and the
project memo, each under a mutex. The map, the list and the memo are rebuilt
without it, so that an older answer may be published over a newer one; the
process table is rebuilt under it (`proctable.go:63`).

Where it is hard, and what is asked of each part:

* *scan*: completions out of order, a prefilter older than the inspections, a
  cancellation half way. The answer is a complete, ordered account or an error,
  what did not change is judged rightly, progress never runs back, and it ends.
* *singleFlight*: two flags changed in separate steps. Runs never overlap, never
  outnumber the requests, and a request that is queued is served.
* *dashboard*: listings and reports that arrive between two keys, or late, or
  not at all. The cursor stays on its row, the last report fetched is shown,
  nothing runs that was not armed, and the screen ends up right.
* *actions*: a process tree that forks, exits and reuses numbers under a walk
  that takes seconds. PortLens and PID 1 are never signalled, nothing happens
  unasked, success means gone, a restart starts nothing while the owner of the
  port lives, and once a question is answered it ends.
* *watch*: listings that fail, and a host that changes during a tick. What is
  told adds up to what was seen, nothing is told to be up or down that did not
  change, though owners come from a map that is older than the tick, and a tick
  that Ctrl-C interrupted is silent.
* *attribution*: a shared map that is older than the socket it is asked about. A
  steady port is answered rightly through any map, and nobody is named who
  never held the socket.
* *configuration*: processes that load, change and save one file through one
  temporary name, with failures and deaths halfway. The file is whole, and
  changes as the command said.
* *project memo*: walks that take time under files that change, and one
  description that several reports write into. What is remembered is recent, and
  nothing of another directory gets into a report.
* *containers*: a list that is old when it arrives. A container that is named ran a
  moment ago and is the one of that process or publishes that port, and that of
  the process comes before others.
* *process trees, listings, exposure*: snapshots with parents missing or in a
  circle; several sockets for a row. The walks up and down agree, what a report
  says is of the socket its row shows, and one more socket makes no rating milder.
* *keys and frame*: bytes cut by reads, terminals of any size. Nothing but a cut
  key is misread, a cut key confirms nothing, and what a key acts on is on the screen.
* *command line*: five passes that each decide what is a flag, a value or a
  port. They agree; who asks for an action is not given a listing; an exit code hides no
  failure; `next` passes over no port that it could have bound.

## Modules

Names follow the source. `PROJECT.json` maps every definition to its lines.

| module | models | state and actions in the code's terms |
|---|---|---|
| `CoalescedRuns` | the promise of `singleFlight` | requests counted, runs that never overlap and that a request accounts for |
| `SingleFlight` | `flight.go` | one action per atomic operation: the swap of a caller, its mark, the goroutine's run, look at `pending`, and lowering of `flight` |
| `ScanAnswer` | the promise of `PortService.Scan` | findings made once and never revised; an answer that accounts for all of them |
| `Scan` | `service.go` `Scan`, `app.go` progress reporter | `ListActive`, `FilterPort`, `StartPool`, `Wait`, `Collect`, `Deliver` of the main goroutine; `TakeJob` ... `Lock`, `Call` of each worker |
| `Dashboard` | `tui/app.go`, `tui/model.go` | one action per event the `select` takes (tick, listing, report, key) and per step of the background goroutines |
| `Actions`, `MCActions` | `actions.go`, `restart.go`, `launch.go`, `proctable.go`, signals | find the owner, for a restart the process that launched it and its arguments, ask, snapshot, signal leaf by leaf, probe, poll, give up; release of the port and start for a restart; the host forks, exits, reaps |
| `Watch` | `watch.go`, the lookups of `linux_port.go` that it makes | get the shared map, walk again if an owner is missing, read the tables, per port or for all at once; comparison, telling, waiting; the map expires or outlives a tick |
| `Attribution` | `linux_port.go`, outcome of `InspectDepth` | get, walk process by process, publish, read the tables or fail to, refresh once, conclude; the host binds, forks, closes, exits |
| `Arguments` | the passes of `root.go`, `dispatch.go`, `top.go` and the arguments of `next` | operators on sequences of arguments; `Own` is the left-to-right pass every loop is a form of |
| `Invocation`, `MCInvocation` | `executeCore`, `app.go`, `prompt.go`, `interactive.go`, `next.go` | one run from its arguments to its exit code; one action per return path, one port at a time |
| `Settings`, `MCSettings` | `config.go`, `cmd/config.go` | one action per command and per call of a save to the file system (open, write, rename), failures and death at each of them; files are inodes, so that a rename moves what another run still writes |
| `Projects` | `project.go`, `memo.go`, and what `InspectDepth` and `interpret` read from and write into a description | look into the memo, walk directory by directory, remember, then runtime and framework, each read and write apart, the write of an empty runtime too; files come and go and time passes |
| `Containers` | `container.go`, `attachContainer`, `attachContainers` | lookup by process, lookup by port with or without a protocol, request, answer, arrival, failure; containers start and stop and time passes |
| `MCSharing` | - | runs `Projects` and `Containers` side by side, with the inputs of `Reports` |
| `Lookups` | - | what `Projects` and `Containers` share: the inspections that run at a time, and ages |
| `Lineage` | walks of `proctable.go`, `launch.go` | operators on a snapshot that gives each process its parent |
| `Listings` | `search.go`, `exposure.go`, `choosePrimary` | operators on the sequence of listeners, and on the walks of `Lineage` |
| `Reports` | - | joins `Containers` and `Listings`: what a search and a report say of the sockets of a host while containers start and stop |
| `KeyReader`, `MCTui` | `tui/keys.go` | a key is typed, a read takes some of the bytes there are, one key is decoded from the buffer |
| `Frame` | `tui/render.go`, `EnsureVisible` | operators from sizes and widths to the lines of a frame, each a sequence of pieces with a number of runes and the columns of a rune |
| `Screens`, `MCDashboard` | - | joins `Dashboard` and `Frame`: what is on the screen in a state of the dashboard |
| `...Proofs` | - | the theorems, in a module of their own for each component; `SharingProofs` has those of `SingleFlight`, `Projects`, `Containers` and `Reports` with `Lineage` and `Listings`, `InspectorProofs` those of `Attribution` |

Every module models whole handlers. What one module models step by step is one
step with its possible results elsewhere: `Dashboard` and `Invocation` take an
action's outcome from what `Actions` allows, `Dashboard` joins the swap and the
mark of a `singleFlight` caller (nothing it observes lies between them) but keeps
the goroutine's two steps apart, and `Invocation` takes a scan as its result.

Definitions in a section "Plausible faults", or marked `FAULT`, are broken
versions of a definition that follows. No specification uses them. Substituted
one at a time, each makes the property it is meant for fail, which shows that the
property says something about the code.

Abstractions worth knowing:

* A port, a process, a name or a filter text is a number or a member of a small
  set; a filter is the set of entries it matches.
* `Attribution` gives a port one listening socket at a time and never reuses
  an inode or a process number. `Actions` does reuse process numbers, and keeps
  a generation to tell the processes apart; the code has no such thing.
* The process-table snapshot of `Actions` is taken in one step. The arguments that
  a restart starts again are those of a launcher above the owner, or of the owner
  where there is none above it, read before the question is asked.
* `Watch` keeps of the shared map whose each target is to it. It may be as old as
  the host it started on, and outlive any number of changes.
* In `Invocation` an inspection and the action after it are one step of the
  host; the inside of it is `Actions` and `Attribution`. A kill that succeeds has
  stopped its process there, unless it was forced on one of another user (`Passes`):
  that is what `SuccessMeansGone` leaves of it. `next` may find the bind of any port
  refused, held or not, and `denied` has those that were not.
* In `Settings` the text of a file is the groups it holds, nothing, or a text that
  the decoder refuses; two savers on one inode leave either's text or a torn
  one. A file system that loses renamed data at a power failure is not modelled.
* A container publishes any set of ports, several containers may publish one
  number, under one protocol or under both, and the list has them in any order.
* `Projects` and `Containers` keep times as ages counted up by `WalkTick` and
  `FetchTick`, which wait for everything that takes no time. A race on a string of a shared description
  may leave either value or a string put together from both.
* `Frame`, `Lineage` and `Listings` are functions; their properties are
  in `Screens` and `Reports`. In `KeyReader` a byte is named by what it
  is and remembers the key it was sent for, which the code cannot see. In `Frame`
  a piece of a line by what it shows, how many runes it has, which is all that the
  code counts, and how many columns the terminal gives each.
* `Arguments` writes one-letter flags and aliases as the long ones and leaves out
  the lone `-`, the empty argument, flags with one dash where `find` compares
  with two, and the hidden completion flag.

## Runs and what they show

| run | configuration | shows |
|---|---|---|
| `tui_goroutines` | `MCTui` | refinement of `CoalescedRuns` (runs never overlap, and none that no request accounts for), and a request marked before the last look is served; however reads cut the bytes, every key that is not cut comes out as it is, and a cut one confirms nothing and ends nothing, though it may call a question off |
| `scan` | `MCScan` | refinement of `ScanAnswer`, one writer per slot, steady ports judged rightly, progress that never falls back, termination |
| `dashboard` | `MCDashboard` | the selection survives listings; on every frame the cursor is on a row, and the row and the process a key is about can be seen, where a rune is one column and no text breaks a line |
| `dashboard_live` | `MCDashboard_live` | listings and reports catch up with the host |
| `dashboard_prompt` | `MCDashboard_prompt` | **violation**: a confirmed kill hits the owner of another row |
| `actions` | `MCActions` | protection, success means gone, nothing started beside the owner, whole tree tried, leaves first, an end once the question is answered |
| `actions_foreign` | `MCActions_foreign` | **violation**: a forced kill of another user's process reports success |
| `watch` | `MCWatch` | the stream adds up, nothing up or down that did not change, a silent interrupt, a quiet host ends up known, all through a map that is older than the tick |
| `attribution` | `MCAttribution` | steady ports answered, no false blame, inspections end, listings catch up |
| `invocation` | `MCInvocation` | the argument passes agree, flags may stand anywhere, no silent kill, no listing or scan for who asked for something else, honest exit codes, no port passed over that was free and could be bound |
| `settings` | `MCSettings` | the file is whole after any failure or death, and changes as the command said |
| `sharing` | `MCSharing` | a project that a report gets from the memo is recent, and its hints come from its own directory; a container that is named was up a moment ago, and that of the process comes first; the search for a process shows the rows of its tree; a report is of the socket of its row, and rates it no milder than it should |

The invariants about frames, trees and exposure are about functions. Their MC
module tabulates once, over all the inputs it enumerates, in which situations
the function is right (`DrawnRight`, `SearchedRight`, `RatedRight`), and
the invariant says that every situation the run reaches is one of them: the rows of
the dashboard and its cursor, the processes that are still there.

`CHECK_DEADLOCK FALSE` stands where the system ends: a scan returns, a watch is interrupted, a user quits, a
bounded host or a bounded typing falls quiet. Where something must not hang there is a liveness property
instead (`ScanReturns`, `ActionReturns`, `InspectionReturns`). `settings` and `sharing` never stop, and TLC
checks that they do not.

## Bounds

* `SingleFlight`: two callers, two goroutine names (a second can exist only while
  the first is releasing), five requests: enough for a run, a queued one,
  and a race for the release.
* `Scan`: two ports, two workers, two changes of the host, any port invalid, any
  inspection failing. Two workers are what an overlap, an overtaking and a lost
  slot take; `LineEvery = 2` puts both a printed and a swallowed line
  in reach; the interactive progress line prints every call.
* `Dashboard`: two sockets on two ports, one change of owner, one confirmed
  action; for the live run one failed fetch and no action. One overtaken
  fetch, one moved row and one stale report take no more.
  `InSession` stops the live run at the quit: both properties hold trivially after
  it and no step leads back, so no behaviour that could break them is cut off.
  Frames: widths and
  heights on either side of every threshold in `render.go`, lists from empty to
  longer than the screen, scrolled anywhere, fields and messages of the
  greatest width; and one terminal with runes of two columns and one with a broken
  command, on which `AimIsOnScreen` says nothing and `FramesFit` fails.
* `KeyReader`: six bytes of eight keys, one of every kind the code tells apart and
  `[`, which may follow an escape; reads of one to four bytes, where the code asks for
  64. The longest key with another on either side fits, and so does every cut of it.
  `MCTui` has them in one run with `SingleFlight`. The two share no variable, so it
  lets either run while the other has not begun.
* `Actions`: four process numbers (PID 1, a server, a process of another user,
  PortLens), any of the first three or nobody known on the port, in three trees:
  PortLens below the worker of the server, above the server, or below the server that
  the other user's process launched. One fork and two exits: a number can be freed,
  reaped and reused while the tree is being signalled. `MaxTreeDepth` is the
  code's 64, never reached.
* `Watch`: two targets, two owners, one of them unknown, two changes, one failure, both
  modes, and a map that may expire at any moment or never within two ticks.
* `Attribution`: an inspector and a lister sharing the map, two processes of which
  one is unreadable, one port, two sockets, two forks, closes or exits, one
  failing walk: a rebuild can be overtaken by an older one and a socket replaced
  during a walk.
* `Invocation`: every line of up to two arguments from 43, every line of three from
  14, the lines of four that begin with `kill` or `find`, and one longer line on
  which `find` loses a value, those of three that begin with `inspect`; a port space of two
  (`MaxPort = 2`), three sockets, two processes, one of them another user's, one
  change of the host. The
  passes look at one argument and the one before it, so a disagreement between
  them shows within three arguments after a subcommand.
* `Settings`: two places for commands, each with any number of them one after the
  other, two valid names and an invalid one, one set of ports, one failure or death,
  any file to begin with. Four inodes are as many as can be in use at once (file,
  temporary file, two open), so that the bound takes nothing away. The tail a
  shorter text leaves behind is allowed even where the texts are equally long.
* `Projects`: two inspections, a directory and the one above it, two marker files, one
  change, a memo of two entries that live one tick, and walks of up to one: an
  entry can expire, be overtaken by a slower walk, and be shared.
* `Containers`: two inspections, two containers, one port that both publish and one
  that one of them publishes while the process behind it is in the other, which
  publishes the same number under the other protocol; two starts or stops, a list that
  lives one tick and requests of up to one, so that two requests overlap and arrive
  in either order. Trees: every snapshot of up to
  four processes with parents missing, their own, or in a circle, and `MaxTreeDepth = 4`,
  which none of them exceeds. Exposure: all pairs of sockets of one port, two
  protocols, five kinds of address and three owners, and any third one.

## Fairness

Fairness is stated for what the Go runtime and timers give, and never for the
user, the host or Ctrl-C.

* Goroutines that are ready run (`WF` per goroutine): `SingleFlight`, `Scan`,
  `Dashboard`. In `Scan` weak fairness of a worker is enough at the mutex,
  because a holder leaves it and the jobs run out.
* `Dashboard`: the ticker fires and `select` takes every channel that stays
  ready (`WF` of `Tick`, `TakeListing`, `TakeReport`).
* `Actions`: PortLens runs (`WF(Work)`, which has no answer to a question in it;
  where `--yes` or `--force` leaves nothing to ask it goes on by itself,
  `WF(~Prompting /\ Agree)`), and the deadline of the wait passes
  however often it polls (`SF(GiveUp)`): it alternates between polling and
  sleeping, so weak fairness would never apply. `ActionReturns` says that an action
  comes to its question or to its end, and from an answer to its end.
* `Watch`: the ticker ticks, the loop runs and the map expires. `Attribution`: the TTL expires, a
  call goes on, and a listing is asked for again and again (as by the dashboard).
* Fetches and inspections end because their reads are bounded and carry contexts.
* `Invocation`, `Settings`, `Projects` and `Containers` claim no liveness.

## Proofs

All theorems are of the form `Spec => ...` for any constants that satisfy the
`ASSUME`s of the module (`FiniteCallers`, `CallsBound`, `ScanConstants`,
`DashboardConstants`, `ActionsConstants`, `TreesOfProcesses`, `WatchConstants`,
`AttributionConstants`, `ArgumentConstants`, `NumbersAreNoNames`,
`InvocationConstants`, `SettingsConstants`, `NoneIsNoProcess`, `ProjectsConstants`,
`ContainersConstants`, `TreeDepthIsFinite`, `ReportsConstants`, `LooksAreDrawn`,
`KeyConstants`), which TLC evaluates for the instances
it runs. Each follows the same scheme: a lemma that the initial states satisfy an
inductive invariant, one that every action keeps it, and that it implies the
property. Every inductive invariant was first checked by TLC. What is proved for
every value of the constants needs no run of its own: every `TypeOK`, and `OneRunAtATime`, `RunsPaidFor`, `PromptArmed`,
`CachedSelectionShown`, `CursorOnRow` and `AskedFirst`, are in no configuration (TLC
found them to hold before they were proved). The theorems about the operators of `Lineage` and `Listings`
are of no specification: they hold for every snapshot and every listing, and
`SearchesFindTheTree` and `ExposureIsNeverUnderstated` say so of every reachable state.

* `SharingProofs`, about what concurrent callers share. Of the background run: types;
  `OneRun` from "flight is raised exactly while some
  goroutine is out, and only one is"; `PaidFor`, which counts what may still
  become a run; `Refinement` of `CoalescedRuns` from both.
  Of the remembered projects: `DetectedProjectIsRecent` (`ProjectIsRecent`) from
  `RecentInv`. What a directory's walk would find now was seen now; what a walk
  under way has collected was there since it began; and what an entry of the memo
  that has not expired says was the answer no longer ago than its age and the time a
  walk takes. A report that takes an entry is then no staler than the time to live
  and one walk, and one that walks itself no staler than its walk (`RecentIfKept`
  carries this over every step that leaves the files alone, `AnswerAges` over a
  tick). The invariant is needed because an entry may be written by a slower walk
  over a newer one.
  `HintsAreOfTheDirectory` (`HintsStayInDirectory`) from `HintsInv`: a
  description that was written by one inspection at a time says what a directory or
  one of its own processes gives, what an inspection is about to write is of that
  kind too, and a description that two may write at once is marked as raced, whatever
  it says. The race itself is in the model, and the property says what survives it.
  Of the containers: `NamedContainersWereUp` (`ContainerWasUp`) from
  `ContainersInv`: what the kept list names ran no longer ago than the age of the
  list and the time a request takes, what an answer on its way names ran since its
  request, and a number read from the cgroup of a process is that of its own
  container, though nothing is said of a port then. The same of what they leave out, a
  container that they do not name has not been running longer than their age, gives
  `OwnContainerIsFirst` (`OwnContainerFirst`).
  The properties about age assume `MemoTTL > 0` and `ListTTL > 0`, as part of
  the assumptions on the constants; they are 5 s and 1 s in the code, and with 0
  nothing is kept, and the strict bounds of the two properties leave no room for a
  walk or a request that takes all its time.
  The last part is about what a search and a report say. What is above a process
  (`Forebears`) and what is below it (`Offspring`) are defined as least sets, without
  a depth; the climb collects the one and the levels of the tree the other, and being
  above is the converse of being below. So `SearchMeetsTree`, that the search keeps
  the owners that the tree drawn from above contains, and `LaunchedAbove`, that the
  process whose command a restart starts has the target below it (and so is not
  stopped with the target's tree), for every snapshot, with
  parents missing or in a circle, in which the climb cuts no chain off (`Shallow`):
  beyond 64 generations the code gives up, and the two walks disagree. The rows
  follow from counting: who is put in order is at the place that as many go
  before (`InOrderIs`), and every port has a first socket (`FirstOfKey`), hence `SearchPicksTheTree` and `SearchesFindTheTree`
  (`SearchFindsTheTree`): the yardstick is the sockets of the tree, and the ports that
  the search misses are those whose first socket is another's.
  Of exposure, `MoreIsNoSafer` (one more socket never makes a rating milder) and
  `LowIsLocal` (a rating is low only if every socket is bound to loopback or has no
  address, and no two have different owners), for sockets of any address; with
  `ReportOfFirst`, that the row of a port and its report are made of the same listener,
  they give `ExposureIsNeverUnderstated` (`ExposureNeverUnderstates`).
* `ScanProofs`: `Inductive` is the conjunction of types, slot ownership (a job is
  in the channel, with one worker, or done), what nobody has touched yet,
  the account of all ports, and what was collected so far. `OneWriter` and
  `ScanKeepsPromise` (every step maps to a step or a stutter of `ScanAnswer`) follow.
  `SteadyPortsAreRight` adds `Steady`, that a port whose binding has not changed
  since the scan began is passed over and filed only as what it is, and `Delivered`,
  that an answer without error speaks for every port. `ProgressIsMonotone` needs
  `Monotone`: what is shown is never ahead of the counters, and the one worker
  inside the callback holds the mutex with a count that is at least the one shown.
* `DashboardProofs`: the cursor is in range because every operation on it
  clamps, and a position in range is a row, because positions number the visible
  rows (`IndexGrows`, `IndexBelow`, `EveryPosition`); `ShownReportIsLast`;
  `PromptStaysArmed`; `SelectionFollows`, that a listing leaves the cursor on the
  socket it was on if that is still there and visible, from the same numbering:
  no two rows have one position (`RowAtIndex`).
  The second part is about frames. `Width` and `Truncate` go over a line piece by
  piece (`Folded`, `UpToTheLast`), so that widths add up where lines are joined
  (`Widths`), a truncated line is no wider than it may be (`TruncateFits`), and a
  piece that ends before the cut is left where it was (`TruncateKeeps`). `Within`
  follows the port and the number of the process from the fields of their row to
  the pane, the body and the frame; they end left of column 39, whatever the width
  of the pane (`RowDrawn`), and the row is inside the window (`InWindow`). The code
  counts runes; where each takes one column and no text has a line break
  (`PlainTexts`), what it counted is what is on the terminal (`TextDrawn`). So
  `FramesShowTheAim`, for every size that is drawn on; and `AimIsShown`
  (`AimIsOnScreen`), since the cursor is on a row. The hypotheses are the greatest
  widths of a port, a protocol and a process number, and that the question names
  its process within the box (`LooksAreDrawn`).
  The third part is about keys. `KeysInv` says that the bytes of a key lie next to
  each other (`Blocks`) and that what is decoded ends in the middle of a key only
  where a read cuts that key (`InTheMiddleOfCutKeys`), which is what keeps a misread
  key from disturbing the next: the rest of a key is read byte by byte
  (`MiddleByItself`), the start of one takes no more than has arrived of it
  (`ReadsStart`), and an escape that takes characters along takes each of them as a
  whole (`ReadsLonger`, `AloneIfPlain`). Of what a cut key leaves, only its start can
  be a key that answers a question, and then it is the escape key. With `ReadsWhole` this gives
  `WholeKeysComeOut` (`OnlyCutKeysAreMisread`), for keys that `KeyConstants` allows:
  all that the code knows, in any number, and reads of any size.
* `ActionsProofs`: `ProtectedSafe` needs that every number that is signalled
  passed `checkProtected` in the same step; `ConsentFirst` that the program counter
  is past the question only with an answer; `OwnerIsGoneFirst` and `SuccessIsGone`
  rest on `GoneStays`: a process that has exited stays gone, whoever gets its
  number. Both are for owners of any user. `RefusedInv` says that a graceful action on
  another user's process has met a refusal by the time it waits, and ends with it; a
  forced one takes the refused probe for an exit (`Blind`), which is the one success
  that `SuccessMeansGone` excepts; see `ForeignIsDenied` below. A restart goes on only
  after a wait, which is why nothing is started beside an owner of another user.
  The second part is about the tree. `ProcessTree` recurses on the number of
  generations left, so what it returns is shown for the set of those numbers and
  that set is shown to be all of them: each member once, the members of the
  snapshot's tree and no others, children before parents. `HostIsTree` and `Forest`
  say that the table the host offers is a forest, whatever it forks, reaps and
  adopts, and that the snapshot is one, which is why the order of the list can be
  read as an order of generations. `LoopInv` says what the loop has done with the
  list so far. `TreeIsTried`, `LeavesComeFirst` and `NobodyElseIsTried` (only
  members of the owner's tree are signalled) follow. `TreeIsTried` is
  `Spec => [](Shallow => WholeTreeTried)`: `Shallow` says that the owner's tree has
  no more than `MaxTreeDepth` generations, and the code does give up below them.
* `WatchProofs`: `AddedDiff`, that a comparison added to the older snapshot is
  the newer one, gives `StreamIsEnough`; and a late look implies a cancelled
  context, which the check before telling sees (`InterruptedTickIsSilent`).
  `AlarmsAreReal` from `AlarmInv`: a target that has not changed or failed since it
  was seen was seen taken or free as it is, and with its owner unless it was seen
  through a map that did not know it (`SeenIsCurrent`), and what this tick has seen
  differs from the tick before only where that is news, or in an owner that one of
  them did not know (`OnlyNewsDiffers`).
* `InspectorProofs`: `NobodyWronged` from "every map, published or still being
  built, names only processes that did hold the socket", since walks of several
  callers interleave and either may publish. `SteadyPortIsAnswered` from
  `SteadyInv`: a socket that is listed has a living holder (`Backed`), no map names
  a process that cannot be read (`MapsReadable`), and, of an inspection whose port
  stays as it is, the second walk has found the owner or still will, so that the row
  it concludes from is right (`Undisturbed`). The first map may be of any age. An inspection that could
  not read a table, or whose walk failed, is excepted by name.
* `InvocationProofs`: `Consent` from "nothing was signalled before the ports are
  looked at, and the options stay as they are from then on"; `Honesty` from "the
  worst code bounds all codes, and who was killed with success stays stopped or is
  another user's that force was used on" (`Cleared`); `Lowest` from "what the search
  passed over was held when it was tried, or its bind was refused".
  The second half follows a flag, its value and a word through the passes, for
  command lines of any length. `ValuesAre` and `PulledAre` say what one pass takes
  for a value; `FlagsTogether` that reordering keeps a flag and its value next to
  each other; `ExpandAligned` that a pass over the expanded line agrees with a pass
  over the line as typed; `PortsComeFrom` that a port of the run is a word of the
  line or a member of a group named by one. `ReadInv` says that the options of the
  run are those of its line, and that a run without a target lists only if nothing
  was asked of one. A view that the line asks for is on, unless the line turns it off
  again (`AskedIsOn`, `TurnsOff`), and a source of ports that `hasPortTarget` sees is
  an argument that reads like one. `NamedPorts` and `ListsUnasked` follow.
  The last part, for `FlagsMoveFreely`, is about lines that are cut and joined:
  `Listing` and `AtJoined` say what is picked out of two lines put one after the
  other, and `Met` that the values in them are those of each, if no flag at the end
  of the first waits for its value (`Complete`). So reordering a rearranged line
  gives the same flags and words (`Rearranged`). `EveryWhole` is an induction over
  flags with their values and single words; by it the expanded line has the flags
  of the line, and its words, expanded (`PlainExpands`), as long as no word reads
  like the name of a flag that takes a value (`Plain`). Both conditions follow from
  the line being accepted (`AcceptedWhole`, `NextEnds`, `TopIs`): a flag at the very
  end without its value, or such a word, is refused. `Resumed` finds the subcommand
  of the rearranged line.
* `SettingsProofs`: `AlwaysWhole` from "a saver with nobody beside it owns the
  temporary file, which is empty while it writes and holds what it meant to write
  when it renames, and while the file is not spoiled nobody writes into it".
  `SavesAreTheCommands` adds that what a run loaded is what the file holds still,
  unless it is known to be behind. Failures and deaths are all one lemma (`GivenUp`).

Definitions that were changed so that they could be reasoned about are the
same functions: `ProcessTree` recurses on the number of generations as a recursive
function, over the children in the order of their numbers (`InOrder`); `Ancestors`
and `Descendants` take a turn of the loop (`Turn`) or one more level (`Deeper`)
`MaxTreeDepth` times; the rows of a listing are put in order by counting who goes
before; `Width` and `Truncate` are recursive functions of how many
pieces have been taken; and `At` picks arguments by counting (`Nth`) instead of
filtering a sequence by a test on indices. One property was wrong and the proof found it: `OnlyNamedPorts` does not
hold of `find` as it does of the other commands (see below), which needs a line of
five arguments. Of `find` it now says that some argument of the line names the port,
a value or not, and the run has that line (`MCLost`).

Only model-checked, because the prover cannot: everything under fairness
(`MarkedRunIsServed`, `ScanReturns`, `ListCatchesUp`, `ReportCatchesUp`,
`ActionReturns`, `ListenerCatchesUp`, `InspectionReturns`, `ListingsCatchUp`), and
what is said of data by induction with an operator for an argument. Every safety
property of a passing run is stated by a theorem.

## Disagreements found

Two are runs whose property is violated, and `PROJECT.json` quotes both sides:

* `dashboard_prompt`: the dashboard's confirmed action goes to the report loaded
  last, not to the row of the prompt (`tui/app.go:301`).
* `actions_foreign`, `Actions!ForeignIsDenied`: a forced kill of another user's process
  reports success, since `EPERM` from the probe counts as "gone" (`actions.go:190`,
  `process_linux.go:263`, against `docs/usage.md:256-258`). `SuccessMeansGone` and
  `ExitHonest` name this case as their only exception.

Twelve more are stated as definitions that do not hold, each commented so in its
module. They are in no configuration; TLC finds the counterexample when one is
given the property. Where a property that holds lies next to one of them, it says
what is left to say.

1. `SingleFlight!LatestRequestServed`: a request queued between the goroutine's
   last look at `pending` and its lowering of `flight` is lost (`flight.go:24-25`,
   against `flight.go:8` "the latest request is always served by the next run").
   `MarkedRunIsServed` is about requests before that look.
2. `Invocation!OnlyMatchingStopped`: a kill by name, PID or project keeps only port
   numbers, and looks them up under TCP (`root.go:468`, `app.go:296`, against
   `docs/usage.md:533`).
3. `Invocation!InspectNeverLists`: `hasPortTarget` looks at pulled values, and
   `inspect --filter all` prints the listing (`root.go:346`, against
   `CHANGELOG.md:250-253`). `ListsOnlyUnasked` allows it for arguments that read like
   a source of ports, and for no others.
4. `KeyReader!NothingIsLost`: a key that arrives in two reads is an escape, or
   nothing, and the rest of its bytes (`keys.go:68`, against `keys.go:37` "so fast
   typing, escape sequences, and multi-byte inputs are never lost"). The escape calls
   off a question that is open (`tui/app.go:292`), and of a cut `End` the rest is `F`,
   the key that asks for a forced kill. The damage ends with the key, and no part of
   one confirms anything or ends the session (`OnlyCutKeysAreMisread`). That does not
   hold of keys the code does not know: F2 is sent as `ESC O Q`, and its last byte is
   read as `Q`, which quits.
5. `Screens!FramesFit`: `visibleLen` counts runes where its comment says "displayed
   column width" (`render.go:27-31`). A name of wide runes makes a frame that wraps, and
   a command with a line break in it (`render.go:427`) one that is higher than the
   terminal. `AimIsOnScreen` is about texts with neither.
6. `Actions!NoTwin`: a restart starts the command of the launcher above the owner,
   the process below the nearest shell, but stops only the owner's tree
   (`restart.go:30-38` and `60-62`): the launcher lives on beside its second copy.
   `OwnerGoneFirst` says what there is: nothing is started beside the owner.
7. `Actions!CommandIsTheLaunchers`: the launcher's number may be another process's by
   the time its arguments are read (`restart.go:35`).
8. `Watch!OnlyChangesAreTold`: the inode map outlives a tick, so that a new socket is
   told to be up without an owner, and to have changed one tick later with nothing
   changed in between (`linux_port.go:39`, against `watch.go:128`). `NoFalseAlarm` holds of
   up and down, and of owners but for these.
9. `Containers!NeverAWrongAnswer`: the container that publishes the port is named for a
   process of another one when the daemon fails, or its list is older than that one
   (`inspector.go:213`, against `inspector.go:202` "never to a wrong answer").
   `OwnContainerFirst` says that there is no other occasion.
10. `Containers!RowNamesItsPublisher`: a listing asks for numbers without a protocol,
    and of a tcp and a udp publisher of one number names the one listed last
    (`inspector.go:291`, `container.go:202`).
11. `Reports!SearchFindsEveryPort`: a search drops a port whose first listed socket
    belongs to another process, though a later one is of the tree: `buildEntries` marks
    it seen before it asks whether to keep it (`search.go:110-118`, against
    `search.go:38-40`). `SearchFindsTheTree` has this one exception.
12. `Reports!LowIsLoopback`: a socket without an address is rated low, and shown as
    `0.0.0.0` (`exposure.go:69`, `inspector.go:315`, against `exposure.go:16-18`).
    `ExposureNeverUnderstates` has this one exception.

Others were met while modelling and are reproduced by the models, without a run:

* `service.go:145` loads `done` before `found`, so a line can show more ports found
  than done. An idle port that reaches a worker counts as `Failed`, and the scan
  warns that it could not be inspected (`service.go:200`, against `app.go:110`).
* A watch whose first listing fails has no baseline: the first listing that
  succeeds is told as changes, every socket "up" (`watch.go:82`, against
  `watch.go:90` and `257`). A port that goes from down to an error is told
  as "up".
* A graceful kill returns at the first member of the tree that has exited already
  (`ESRCH`), before it waits. A restart starts the command even if the port is still
  held after two seconds. The dashboard never shows an empty listing
  (`tui/app.go:231`); `o` and `u` act on the report of the row left behind.
* An inode map built before a server daemonises names the parent, which "has since
  exited", while its child listens. An empty map is cached after a failed walk.
  A table that is missing counts as empty (`procnet.go:42`). One that cannot be read
  fails a listing, but an inspection drops the error and says that nobody listens
  (`linux_port.go:169-172`).
* `find --filter web node` and
  `find --project orbit` take the value of the flag for the query, and
  `find --name web 3000` drops the query. What it drops may leave a flag without its
  value: `find --filter 0 --filter 1 --filter --name=node` looks at port 1,
  which is the value of a `--filter`.
* `--kill --json` reports and kills nothing, with exit code 0, and of several ports it
  makes a scan (`app.go:60`). `next` passes over a port that nobody holds when its bind
  is refused, as for a privileged one (`next.go:89-103`). `--protocol UDP`
  is accepted and means TCP. A process with two ports that is killed by name is
  gone at the second, so the run ends in "not found" (3). An interrupted `next`
  prints nothing and exits 0. The check of `k` in the prompt for a process that
  has gone does not notice a number in use again.
* `SaveAt` "writes atomically" (`config.go:48`) except beside another saver: they
  share `config.json.tmp`, and one may rename what the other has half written.
  One that finds the name gone fails although its text may be in the file.
  What a command loaded is saved without a look at what changed since.
* Every report on a directory writes runtime and framework, empty ones too, into the description
  that the memo shares (`inspector.go:159-165`), without a lock: a report may show
  the runtime of another process of that directory.
* `Ancestors` as the platform returns them carry no command line, so the
  launching command of a report is empty and "Launched via" never appears;
  `Restart` reads the arguments itself (`restart.go:30`).
* A report of an owner that has exited carries no exposure. The overview says
  "wildcard bind 0.0.0.0" for every warning, private addresses included.
* Where the terminal is narrower than 58 columns the box of the question is not
  drawn, and `y` confirms all the same; below 50 columns or 10 lines nothing is.
  From 80 to 99 columns the rows are wider than their pane. The help lists `k`
  as "move cursor up" and as terminate; the code terminates (`render.go:575`).

## Not modelled

* The text renderers of reports, usage, completion, doctor and version: no state.
* The macOS layer: the same interfaces by `sysctl` and `lsof`, decoding only.
* Parsers of `/proc/net` lines and cgroup files, clipboard, browser, notifications,
  HTTP to the container daemon: pure I/O.
* Data races on the dashboard's status writer; foreign memory layouts.
* What only words a report: origin, services, the HTTP probe, interpretation, the
  signatures of runtimes by process name, branch and package manager of a
  project, and the contents of the dashboard's tabs. In `Frame` the report is
  lines of any width.
* Cancelled contexts in project detection: a walk that is cut off remembers "no
  project" (`project.go:44`), but contexts are cancelled only when the program is
  about to end, and the memo with it.

## Order of work

`CoalescedRuns` and `SingleFlight`; `ScanAnswer` and `Scan`; `Dashboard`; `Actions`;
`Watch`; `Attribution`; `Arguments` and `Invocation`; `Settings`; `Projects`;
`Containers` with `Lineage`, `Listings` and `Reports` (`MCSharing`); `KeyReader` and `Frame`: the most
consequential first, and what others are composed from before them. A component
is modelled, then checked, then proved about.
