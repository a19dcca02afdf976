# homelab-nut: a verification project

TLA+ models of homelab-nut, TLC runs that check them on small instances and
TLAPS proofs about them.  Paths are relative to the repository root; a "promise"
is an abstract specification.

## The system

homelab-nut installs and runs Network UPS Tools on a home lab.  One Go program
(`internal/cli`, `internal/tui`) reads an inventory of hosts, logs into them over
SSH and brings each to the roles it is given; one shell daemon, installed by the
`shutdown-daemon` role, watches the UPS and shuts the other hosts down.

| Component | State it keeps | Operations | What is hard |
|---|---|---|---|
| Battery-shutdown daemon (`internal/roles/embedded/battery-shutdown.sh`) | one lock file per node; `STATUS`, `CHARGE`, place in the walk | poll, clear locks on OL, walk the nodes on OB, lock, alert, delay, ssh | a slow walk on old readings, restarts that drop the locks, dry runs that share them, calls that hang |
| SSH executor (`internal/ssh`) | the cache of connections, one per `user@address` | `Open`, `Close`, `Connection.Run/Pipe/Stream/Close` | two goroutines that dial at once, connections shared by callers that close them, cancelled commands |
| Orchestrator (`internal/orchestrator`) | one result per host, a semaphore | `Plan`, `Apply`, `Uninstall` | a goroutine per host, roles in order, failures that abort a host but not the others |
| Roles (`internal/roles`) | nothing of their own: files and services of a host | `Detect`, `Plan`, `Apply`, `Uninstall` | a script that fails half way, passwords that rotate on the server under the clients |
| Inventory (`internal/inventory`) | the YAML file | `Load`, `Validate`, `Save` | edits of a file that another command rewrites |
| UPS client and poller (`internal/ups`, `internal/upspoll`) | one TCP connection with an unread answer | `ListUPS`, `ListVar`, `GetVar`, `Poll` | answers out of step with requests, deadlines |
| Dashboard and `status` (`internal/tui`, `cli/status.go`) | rows per host, cursors, `inFlight` | ticks, polls, keys, Ctrl+C, and the commands it hands over to | polls that overlap and answers that arrive late |
| Fan-out commands (`backup`, `shutdown test`, `logs` in `internal/cli`) | a result per host, tokens, local tarballs | one command per host, at most `--concurrency` at a time | a stream, a disk or a deadline that fails half way through a file, a host that keeps its token |
| Wizard (`internal/forms`) | the fields of a form | `AskHost`, `EditHost` | roles and the blocks that go with them, fields that are cleared, numbers checked in one form and read in another |

What makes each correct, in a sentence: the daemon sheds a target once per outage and
in stages, and does shed it; the executor hands out one connection per account and
leaves none open; a run works on its hosts within its bound, in order, and exits with 0
only if all that was due is done; a backup that is reported is there and whole; passwords flow one way, repeated applies
converge, and an apply or a purge that ends well leaves a host with all of its roles or
with none;
a daemon that runs is wholly installed; the inventory on disk always loads; the
dashboard goes on being refreshed.

The components meet in three places.  The orchestrator calls the roles, the roles run
scripts through the executor.  The `shutdown-daemon` role writes the configuration the
daemon sources.  The dashboard ends with an action and the index of a host, which the
flows of `internal/cli` take to the inventory.

`upsdetect`, the documentation site, `cmd/gen-docs`, the Docker image and the
stand-alone `scripts/` hold no state that outlives a call; they are not modelled.

## Modules

Each component has a module; its proofs are in `<Module>Proofs` (those of `SshExecutor`
in `FanOutProofs`), the constants of its runs in `MC<Module>`.  Three abstract
specifications say what a component promises.
`PROJECT.json` maps every definition to the lines it stands for.

### BatteryShutdown, promise StagedShedding

`battery-shutdown.sh`, line by line where it changes something: `locks` is LOCK_DIR,
`pc` the place of each running copy, `status`, `reading` and `at` its STATUS, CHARGE and
place in REMOTE_NODES.  `ClearLocks` is the OL branch, `SkipNode`, `CommitNode`,
`AlertSent`, `DelayOver`, `Send` and `SshReturns` the body of the walk.  The copy `Live`
is the systemd service, which may stop and be started again; the other copies are
`--test` runs, by root or the service's user.  LOCK_DIR is the service's
RuntimeDirectory: it is there while the service runs (`HasLockDir`) and taken away with
its locks when it stops, so that a copy that comes to touch a lock then ends
(`TouchFails`).  `fires`, `sent` and `lowest` only record what happened.  Charge is a few levels; a lookup by sanitised host is the constant
`Key`.  `StagedShedding` has no polls, locks or shell: targets are armed, committed and
shed, one at a time and in stages.

### SshExecutor, promise ConnectionPool

`executor.go` as a cache shared by `Callers`, one goroutine each.  The mutex makes
`Lookup`, `Insert` and `Close` atomic; dialling, sessions and commands interleave.
Connections are named by who dialled them.  ssh-agent and keys are one choice.
`ConnectionPool` has no dials and no sessions: a caller takes the connection of its key in
one step, the first one a new one, and gives it back; a connection that lost the race to
the cache was never in the pool.

### FanOut, composed with SshExecutor

`backup`, `shutdown test` and `logs --follow`, and the runs over the roles beside them.
The module extends `SshExecutor`: each step of a host is one of the executor's and what
the command does with it.  `Spawn` is the loop and its semaphore, `Opening`,
`CreateFile`, `Streaming`, `Abandon` and `Return` the returns of `backupHost`,
`checkShutdownTarget` and `runLogs` in order, `Report` the exit code behind `wg.Wait()`.
`file` is what is at the path of a host's tarball, `spoiled` who has lost a byte of it.
`UsesExecutor` proves that every command implements `SshExecutor!Spec`, which is why one
run checks both.

### Orchestrator, promise RoleWalk

`run()` (semaphore, goroutine per host, `wg.Wait`), `runHost`, `uninstallHost`, and the
commands around them (plan, prompt, changing run, exit code).  `diffs`, `due`, `done`
and `errors` are the fields of HostResult the exit code and the prompt are made from.
What a role finds is left open.  `RoleWalk` knows hosts and roles only: consent first,
then each host's roles one at a time and in order.

### FleetSetup

The nut-server, nut-client and exporter roles under repeated applies: the scripts step
by step, with a cut possible between any two steps, and what upsd and the consumers have
read from which file.  Passwords are numbered in the order they are generated.  A run
works on its hosts in any order, which is what `Orchestrator` allows.  It may be started
with NUT_MONITOR_PASSWORD set (`override`), to any password there has been or a foreign
one (`Foreign`); the consumers are then given that one and the server is not asked
(`Resolved`), whatever its credentials file holds.  `told` records what was exported.

### NutHost

One host with any of nut-server, nut-client and exporter, and what `FleetSetup` leaves
out: packages, files, `MODE` and the MONITOR line, what is enabled and what runs, the
walk over the roles forwards and backwards (`IsNext`), `--role`, `--purge-nut`.  `script`
is the next step of the script that runs, `FirstStep` where a role's begins (`SetupFirst`,
`RemovalFirst`); it may be cut at any; apt, the only package manager here, may fail (`PurgeFails`)
or take dependents along; a service may stop and the host be booted (`Boot`).  `spoiled`
and `disturbed` record what the properties except.

### ShutdownChain

The shutdown-target and shutdown-daemon roles under applies (of all hosts or one),
uninstalls and edits of the inventory.  `conf` is /etc/ups-battery-shutdown.conf as the
script appends it, `loaded` what the daemon has sourced, `CommandFor` the command the
daemon looks up in it for a target: it ties the Go side (`Lines`, `isScriptCommand`) to
the lookups of the shell side.  Files, sudoers rules, program and unit are there or not.

### InventoryFile

homelab-nut.yaml and every flow that rewrites it: the TUI's add, edit, delete, scan and
init, in several programs at once, with `$EDITOR` beside them and kills at any step.  A
flow loads the file (`OpenForm`, `OpenName`, `Lookup`), lets the user answer, and saves
in the steps of `Save`: check, temporary file, write, rename, deferred remove.  What a
host is, which one `Validate` lets pass and what the wizard makes of its fields is module
`HostForm`: `CollectRoleDetails` is the whole of `AskHost` and `EditHost`, `Works` what
the roles make of a host whose blocks may be missing.  White space is kept where
`Validate` looks for it (`Spaced`): in names, addresses and webhooks, and, as a 0, in the
daemon's numbers.

### Dashboard

One session of the TUI: `inFlight`, `rows`, the cursors and the screens of `rootModel`,
every key, the tick, and the polls under way.  A poll is a goroutine for each server,
which goes through `Dial`, `LIST UPS` and `LIST VAR` or fails at any point.  Results are
delivered in any order.  Lines that change nothing (`BEGIN`, a second UPS, a variable) are not
steps; a server in `Endless` may go on sending them.  A session without a server polls
nothing and is left out, and so is `r` in it.  The polls of a session that is left go on
unheard; the model drops them.

`homelab-nut status` is in the same module, since it makes the same polls: `current` is
then `status`, `watch` or, once Ctrl+C has come to a watch, `interrupted`.  `Render` shows
a poll that is done, which ends the program unless it watches; `Again` is the ticker,
`Interrupt` the signal, and `Stop` the end of the loop, which is taken between polls only.

### How they compose

`BatteryShutdown` implements `StagedShedding`, `Orchestrator` implements `RoleWalk` and
`SshExecutor` implements `ConnectionPool`, by INSTANCE with a refinement mapping, checked
(`KeepsPromise`) and proved (`Refinement`, `PoolRefinement`).  The other joints are by assumption on one side and property on the
other: `FleetSetup`, `NutHost` and `ShutdownChain` take runs as `Orchestrator` has them; the `Nodes`,
`Key` and `Threshold` of `BatteryShutdown` are what `ShutdownChain` writes (`DaemonIsTold`); the keys of
`Dashboard.Leave` are those of `InventoryFile.Press`.  `FanOut` and `SshExecutor` are
composed in one specification.

## Runs

| Run | Module | What it shows |
|---|---|---|
| BatterySafety | BatteryShutdown | three staged nodes, two outages, a restart in each: once per outage and start of the service, stages in order, a lock is evidence of a command, nothing above its threshold, StagedShedding |
| BatteryLiveness | BatteryShutdown | service and dry run: a crossed node is sent its command, locks go when mains stays |
| SshSafety | FanOut | each command over five callers, two of one account: ConnectionPool, no connection left open, none closed in use; a reported backup is whole, a failed one leaves nothing; only a peer that owes an answer outlives a deadline; every host gets its turn |
| OrchestratorRuns | Orchestrator | all commands, failures everywhere, one host that may hang, semaphore of two: bound, what exit 0 means, an uninstall tries all, RoleWalk, progress of the others, termination |
| FleetConverges | FleetSetup | two clients, one read by an account that sees too little, and an exporter, each kind of trouble once: with and without an exported password, which may be wrong: passwords flow one way; with the server left alone and no wrong password exported a clean run logs everyone in, and repeated applies reach one |
| NutHostRuns | NutHost | any roles, any order of applies, uninstalls, purges, cuts, stops and boots: what an apply or a purge that ends well has left |
| ChainSafety | ShutdownChain | two targets, an edit, two cuts, a stop, two uninstalls: what a run that ended well has made true, and that targets converge |
| InventorySaves | InventoryFile | two programs, an editor, a kill, answers with white space in them: the file always is a whole inventory, blocks go with roles, no litter |
| DashboardRuns | Dashboard | two servers, one of them endless: and `status --watch`: polls bounded, rows whole, cursor stable, rows refreshed, Ctrl+C ends a watch |
| BatteryDryRun | BatteryShutdown | violation: a dry run takes the lock of a crossed node while the service runs, and the service walks past the node without a command (`CrossedAreFired`) |
| FleetHalfApplied | FleetSetup | violation: a cut in the server's script is never repaired |
| ChainEdited | ShutdownChain | violation: an apply keeps the daemon's configuration of an earlier inventory |

Deadlock is checked except where the system may stop: a command that is over
(Orchestrator, FanOut) and a session that is left (Dashboard).

### Bounds

`MaxCharge = 2` gives a charge above, at and below both thresholds, and a fall through
both; two outages and one restart in each are what it takes to reuse stale locks and
counts.  Two of five callers race for one cache entry; the other three are hosts of
their own, of which `--concurrency 2` keeps one waiting.  A caller of a role runs up to
two commands, so that one may be cut before and after the first.  Three hosts behind two tokens let one wait, one work and one
hang; three roles, one of them missing in the middle, give each kind of walk.  Passwords
are bounded by what the troubles can cause to be generated: the first, and one more for
each time the server is found down.  Each kind of trouble happens once, which lets any
two meet in either order; a password is exported for one run, and `Foreign` stands for
every wrong one that upsd has never had.  One edit and one stop, two cuts and two removals, in any
order, interleave at every step; the second cut is what `AppliedProtects` excepts, the
second removal goes on where the first was cut.  `NutHost`
has no bounds: all its variables are finite.  Two programs and two hosts suffice
for a stale index, a doubled name and a lost daemon; of the two temporary names one may
stay behind with the file of a killed program, and the other is then what the programs
go on with.  Polls: three slots, of which the
property says two are used, so that a third would show.

### Fairness

- `BatteryShutdown`: systemd restarts the service (`Restart=on-failure`, boot) and the
  shell keeps running it; curl and ssh return.  The last is an assumption about the
  network, and dropping it is what `FairButSlack` and `FairButSsh` do.
- `FanOut` (`FanFair`): goroutines run and deadlines pass.  Peers, disks and users need do
  nothing, Ctrl+C under `logs --follow` need not come, and a command on a host may run
  for ever; `FanOutEnds` assumes of the peers what it needs, as its hypothesis.
- `Orchestrator`: goroutines run; hung hosts are excepted, and `Finishes` says what holds
  beside them, and what if they answer after all.
- `FleetSetup`, `ShutdownChain`: scripts go on or are cut, runs end, the user repeats a
  run that has failed.  In `ShutdownChain` that is strong fairness: the user may be
  kept from starting an apply by other runs, again and again.
- `Dashboard`: goroutines run, the tick fires, a read that meets silence ends at its
  deadline.  `Stop` has strong fairness: a tick and a signal may both be there when the
  loop comes to its `select`, which takes either at random.  `Refreshes` assumes of endless servers what it needs, as its hypothesis.
- `NutHost` and `InventoryFile` have none: nothing there must happen.

## Proofs

Each theorem is for every value of the constants under the ASSUMEs of its module.

- **BatteryShutdown** (with one copy of the script): `AtMostOnce`, `Staged`,
  `LockIsEvidence`, `WalksFire`, `NoEarlyShutdown`, `Refinement`.  The hypothesis `Procs = {Live}`
  is needed: a dry run breaks them (`OneLockEach`, where stated, too: entries with one
  lock do).  The invariant adds what a pass knows, `PassInv`: the node it works on is
  locked, and so is every crossed node it has passed; what a command costs, `BudgetInv`:
  a node without a lock has a command left in this outage; and where a reading comes
  from, `ChargeInv`: the charge has really been that low since the locks were cleared.
- **SshExecutor**: `PoolRefinement`, `HandsOutOne` (two callers of one key hold one
  connection), `ClosesAll`, and `SafeToClose`, which assumes that a caller that closes its
  connection has its account to itself.  The invariant says that what is cached was
  dialled for its key, a caller at work holds what is cached, and an open connection is
  cached or about to be.  The refinement needs it where a caller returns: that what it
  gives back is still the pool's.
- **FanOut**: `UsesExecutor`, so that the theorems above hold under every command;
  `HostsAtWork`: `--concurrency` is kept for any number of hosts, since a host that is over
  is never taken up again; and `BackupsAsReported`: a part of a tarball belongs to a host
  at work or to a failed `Close`, a host that is done is over and has lost nothing, and one
  that has lost a byte is at work or not done.
- **Orchestrator**: `ConcurrencyIsBounded` (tokens count the goroutines at work),
  `ClosesLast`, `CleanExits` (the books of each host: all roles passed have a diff, all
  due ones are done, unless an error says otherwise), `UninstallTriesAll`, `Refinement`.
- **FleetSetup**: `PasswordsFlow`, whatever is cut, stopped or exported: a consumer has a
  password of the server's file, an older one, or one that a user has exported; and
  `CleanRunsLogIn`: as long as the server's script has not been cut, its service has not
  stopped and no foreign password has been exported (`Calm`).  The invariant carries the
  password each script is working with, and where it may come from.
- **NutHost**: `Typing` and `KeepsWhatItSays`.  The invariant goes along the steps of each
  script: what runs is installed, since a removal halts a service before it takes its
  files, and each step of a set-up has what the earlier ones have left.  A server whose
  own script and purge have never been cut (`spoiled`) has all a boot needs whenever it
  runs and its script is over.  A host of both NUT roles keeps the server's mode as long
  as it is left alone (`disturbed`): the client's script then gets no further than its
  first step, for want of the server's credentials.  The rest says what the roles already
  passed have, in an apply, and no longer have, in a purge.
- **ShutdownChain**: `Typing`, which says how hosts move between waiting, working and
  failed in a run; `RunsInstalled`: an enabled unit has its program and configuration,
  each step of the installation has what the earlier ones left, and the removal takes the
  unit before the rest; `RemovesAll`, and `RemovesAllAlike`: nothing at all is left after
  edits either, when they keep the hosts and the kind of each command (`Alike`); and
  `AppliesProtect`,
  which assumes that no two targets have one sanitised address (`KeysDiffer`), as the
  lookups of the daemon do.  The invariant follows each host of a run through its script,
  with the inventory the run has loaded, which is why most of both properties holds
  whatever is edited; and it says that an enabled unit whose installation is over has the
  whole configuration, and that the daemon, when it runs, has loaded it.  `DaemonIsTold`:
  with half a configuration, too, the daemon is told of no target, command or number that
  no inventory has asked for, which is what `ConfAssumption` of `BatteryShutdown` takes
  for granted of the fleet's part of it.
- **InventoryFile**: `Typing`, `WholeSaves` and `NothingLeft`: a save under way has checked
  its inventory, owns its temporary file alone, and that file is partial until it is
  written.  About `HostForm`, for any host and any answers: `UntouchedEditKeeps` (an edit
  that changes nothing changes nothing), `FormsAreAccepted` (which answers `Validate`
  accepts: exactly those without white space in the name, the address and, for a daemon,
  the webhook and around the numbers) and `SnapshotsLoad` (the inventory in a host's
  backup passes).
- **Dashboard**: `PollsBounded`, `RowsAreWhole`, `CursorIsKept`, `Typing`: a goroutine that
  is done has left a row of its host in its place.  `PrintsOneAtATime`: the polls of
  `status` never overlap, as those of the dashboard may.

The types of every module are proved too.

Every invariant, action property and refinement the passing runs check is proved, under the
hypotheses named above.  Only model-checked: the liveness properties (`DueIsFired`,
`MainsClearsLocks`, `HangsOnlyOnPeer`, `FanOutEnds`, `Finishes`, `Converges`,
`TargetsConverge`, `Refreshes`), which are beyond the prover.  The constants of the runs
satisfy the hypotheses of the theorems about them, and the table below shows what happens
without `Procs = {Live}`, `OneLockEach` and `CloserAlone`.

## Statements the code does not keep

The three violation runs show one each.  The other definitions below are in the
modules and can be given to TLC with the constants named; each is violated.

| Property | Says | What the code does | Constants |
|---|---|---|---|
| `CrossedAreFired` (BatteryDryRun) | `battery-shutdown.sh:132` "fire any whose own threshold the charge has now crossed", `:8` a test only prints | `--test` touches and clears the locks of the service | the run's |
| `LockedMeansFired` | `:147` "Already fired this outage", `:40` "One lock per node" | nas-1 and nas.1 share a lock; the second is never fired | `Key <- SameKey`, `Procs = {"live"}` |
| `AtMostOncePerOutage` | `:29` "at most once per outage" | a restart empties RuntimeDirectory, and every node is armed again | `Procs = {"live"}`, 2 outages, 1 restart |
| `FiredOnlyBelowThreshold` | `:143` "Battery still above this node's threshold" | a decimal charge makes the test an error, hence false: fired | `Forms` with `"decimal"` |
| `FiredOnlyOnBattery` | `:132` "on battery, walk every node" | after a delay or ssh the walk goes on with the old STATUS | as BatterySafety |
| `DueIsFired` | `slack.md:64` a webhook does not delay the shutdown | curl has no limit and runs before ssh | `FairButSlack` |
| `DueIsFired` | `:40` "so staged targets fire independently" | an ssh that does not return holds all later nodes | `FairButSsh` |
| `DueIsFired` | `config/README.md:40` LOG_FILE is optional | without it the first log call ends the script | `LogFile = FALSE` |
| `HandshakeIsCapped` | `ssh/config.go:41` "ConnectTimeout caps the SSH handshake" | it caps the TCP connect | `FairProgram` |
| `DeadlineCapsCall` | `cli/shutdown.go:16` the timeout caps connect and check | NewSession and Start do not look at the context | `FairDial` |
| `NotClosedInUse` | `executor.go:24` "each host gets a dedicated connection" | two entries of one account share it, and a closer closes it for both | a closer that shares its key |
| `StopsAtFailure` | `orchestrator.go:291` no later roles once one fails | a failed Plan is passed over | as OrchestratorRuns |
| `AppliesWhatWasShown` | `apply.go:49` "Plan first so the user sees what's about to happen" | the second run detects again | as OrchestratorRuns |
| `ConvergesAlways` (FleetHalfApplied) | `role.go:89` re-running on a half-applied host converges | a server cut before its credentials file looks OK | the run's |
| `EveryRunLogsIn` | the same | a server found down gets new passwords, its clients do not; an exported password is used whatever the server has (`creds.go:46`) | a `MaxTroubles` with one `"stop"`, or as FleetConverges |
| `BothComeBack` | the same | a client's script writes `MODE=netclient` over the server's own (`setup-client.sh:85`) | as NutHostRuns |
| `PurgeTakesAll` | `uninstall.go:17` `--purge-nut` purges the NUT packages | nut-client, which the server's script installs, stays with its upsmon | as NutHostRuns |
| `NoPartialLeft` | `backup.go:238` "a failure leaves no partial file behind" | after an error of Close the file is left (`:278`) | as SshSafety |
| `HealthyIsDetected` | `role.go:28` "fully configured and healthy" | Detect reads without sudo what is written 0640 | `Readers = {}` |
| `ConfFollowsInventory` (ChainEdited) | `setup-shutdown-daemon.sh:76` "re-run homelab-nut apply to regenerate" | Detect looks at artefacts only | the run's; also without an edit, one cut and one stop, or two cuts |
| `ActsOnSelected` | `model.go:214` "Scan the selected host" | an index into the file as it is then | drafts with another first host |
| `PollsEnd` | `model.go:128` timeouts cap how long inFlight stays true | the deadline is per line | as DashboardRuns |
| `CtrlCExits` | `status.go:62` "Ctrl+C (and SIGTERM) exits cleanly" | the signal is caught and the poll under way waited for, for ever if a server goes on sending | as DashboardRuns |
| `NoOverlap` | `dashboard.go:28` inFlight from dispatch to result | the poll of Init is not noted | as DashboardRuns |

Three more follow from a definition at a glance and have no property: the daemon's two
numbers are checked without the white space around them and converted with it, which makes
them 0 and the save fail (`forms.go:289`, `:311`), and white space in a name, an address or
a webhook is found by the save only (`forms.go:98`, `:103`, `:301`; `FormsAreAccepted` says
which answers fail); an
edit of a daemon's host gives it a block of its own, so that later changes of the fleet's
block no longer reach it, although a missing block means "inherit" (`schema.go`); and the
lines that hosts write to the terminal are not modelled: `prefixWriter`
(`orchestrator.go:340`) writes single bytes without a lock to an output all hosts share,
and both streams of a session share its flag, so that lines mix, although `:157` calls
them attributable.

## Not modelled

- The scripts that `backup`, `shutdown test` and `logs` send to a host, and what they
  print: they only read.  `inventory` with its subcommands edits by hand or only reads.
- `upsdetect`, the drawing of the TUI and the table of `status`, the parsing of upsd's lines: functions of text
  without state of their own.
- Hosts with dnf: the branches of the set-up scripts for it (`setup-server.sh:58`,
  `setup-client.sh:62`), after which `--purge-nut` finds no dpkg-query and reports every
  package absent (`uninstall.go:65`).  `NutHost` says nothing of them.
- `Login` and `GetVar` of the UPS client, which nothing calls.
- A second session of the TUI while polls of the first are under way: they end unheard.

## Plan

Done, in this order: the daemon and its promise; the executor; the orchestrator and its
promise; the NUT roles; the shutdown chain; the inventory; the dashboard with the poller;
the fan-out commands over the executor; the wizard; the roles of one host together; `status`.

To extend, most important first:

1. A composition of `ShutdownChain` and `BatteryShutdown`: a conf that is rewritten under
   a daemon that walks it.
2. `NutHost` for any host of a fleet, in place of the one server of `FleetSetup`.
3. The classification of commands and of detected UPSes as functions, checked against a
   reference over bounded inputs.

To prove: the safety part of convergence (what each apply that ends well brings closer).
