---------------------------- MODULE ShutdownChain ----------------------------
(***************************************************************************)
(* What `homelab-nut apply' and `uninstall' do to the shutdown chain: the  *)
(* hosts with the shutdown-target role and the host of the daemon          *)
(* (internal/roles: shutdowntarget.go, shutdowndaemon.go, uninstall.go and *)
(* embedded/setup-shutdown-daemon.sh).                                     *)
(*                                                                         *)
(* The inventory may be edited at any time; a run works with the one it    *)
(* has loaded, on its hosts in any order.  A host's script may be cut      *)
(* between any two of its steps, by the connection or by set -e.  What the *)
(* daemon does with the configuration is module BatteryShutdown.           *)
(***************************************************************************)
EXTENDS Integers, FiniteSets

CONSTANTS
  N,            \* number of hosts that may be targets, in inventory order
  Daemon,       \* the host with the shutdown-daemon role
  Keys,         \* sanitised addresses
  Key,          \* the sanitised address of each target
  Homes,        \* targets whose user's home is /home/<user>
  Inventories,  \* the inventories looked at
  MaxEdits,     \* bound: edits of the inventory
  MaxCuts,      \* bound: scripts that are cut
  MaxStops,     \* bound: times the daemon ends up stopped
  MaxRemovals   \* bound: runs of uninstall

Targets == 1 .. N
Hosts == Targets \cup {Daemon}

\* shutdown.command: unset, ~/shutdown.sh, the path of a script of the user's
\* own, or an inline command.
Commands == {"unset", "home", "own", "inline"}

\* The shutdown block of a host; 0 is unset.
Settings == [command : Commands, delay : 0 .. 1, threshold : 0 .. 1]

ASSUME HostAssumption ==
  /\ N \in Nat /\ Daemon \notin Targets
  /\ Key \in [Targets -> Keys]
  /\ Homes \subseteq Targets
ASSUME InventoryAssumption ==
  \A i \in Inventories :
    \E T \in (SUBSET Targets) \ {{}} : i \in [T -> Settings]
ASSUME BoundAssumption ==
  MaxEdits \in Nat /\ MaxCuts \in Nat /\ MaxStops \in Nat /\ MaxRemovals \in Nat

VARIABLES
  inv,        \* the inventory: the settings of each target in it
  snapshot,   \* the inventory the run has loaded
  file,       \* targets with the user's shutdown.sh
  sudoers,    \* targets with /etc/sudoers.d/ups-shutdown
  binary,     \* is the daemon's script installed?
  conf,       \* its configuration, or NoConf
  unit,       \* "absent", "written", or "enabled"
  active,     \* is the service active?
  loaded,     \* the configuration it has sourced
  script,     \* script[h]: next step of the script run on h, or "none"
  run,        \* "idle", "apply", "uninstall", "applied", "removed" or "partial"
  scope,      \* hosts of the run
  waiting,    \* those it has not begun
  failed,     \* hosts of the run with an error
  edits, cuts, stops, removals   \* how often so far

targetVars == <<file, sudoers>>
daemonVars == <<binary, conf, unit, active, loaded>>
runVars == <<run, snapshot, scope, waiting, failed>>
counts == <<edits, cuts, stops, removals>>
vars == <<inv, targetVars, daemonVars, script, runVars, counts>>

-----------------------------------------------------------------------------
\* The configuration generated from an inventory.

\* The lines FIELD_<key>=value for the targets that set the field.  The file is
\* sourced, so of two lines with one key the later counts.
Lines(i, field, unset) ==
  LET setting == {t \in DOMAIN i : i[t][field] # unset}
      last(k) == CHOOSE t \in setting :
                   Key[t] = k /\ \A u \in setting : Key[u] = k => u <= t
  IN  [k \in {Key[t] : t \in setting} |-> i[last(k)][field]]

NoLines == [k \in {} |-> 0]
Conf(nodes, commands, delays, thresholds) ==
  [nodes |-> nodes, commands |-> commands, delays |-> delays, thresholds |-> thresholds]
NoConf == Conf({}, NoLines, NoLines, NoLines)

\* What the daemon finds for a target; ~/shutdown.sh is REMOTE_SHUTDOWN_CMD.
LookUp(lines, t, default) == IF Key[t] \in DOMAIN lines THEN lines[Key[t]] ELSE default
CommandFor(c, t)   == LookUp(c.commands, t, "home")
DelayFor(c, t)     == LookUp(c.delays, t, 0)
ThresholdFor(c, t) == LookUp(c.thresholds, t, 0)

\* What the inventory asks for.
Wanted(s) == IF s.command = "unset" THEN "home" ELSE s.command

Matches(c, i) ==
  /\ c.nodes = DOMAIN i
  /\ \A t \in DOMAIN i : /\ CommandFor(c, t) = Wanted(i[t])
                         /\ DelayFor(c, t) = i[t].delay
                         /\ ThresholdFor(c, t) = i[t].threshold

-----------------------------------------------------------------------------
\* Detect.

\* Unset and every path mean script mode.
Scripted(s) == s.command # "inline"

\* Mutant: the sudoers rule is enough.
SudoersOnly(t, i) == t \in sudoers

TargetDetected(t, i) == t \in sudoers /\ (Scripted(i[t]) => t \in file)

DaemonDetected == binary /\ conf # NoConf /\ unit # "absent" /\ active

Init ==
  /\ inv \in Inventories /\ snapshot = inv
  /\ file = {} /\ sudoers = {}
  /\ binary = FALSE /\ conf = NoConf /\ unit = "absent" /\ active = FALSE
  /\ loaded = NoConf
  /\ script = [h \in Hosts |-> "none"]
  /\ run = "idle" /\ scope = {} /\ waiting = {} /\ failed = {}
  /\ edits = 0 /\ cuts = 0 /\ stops = 0 /\ removals = 0

-----------------------------------------------------------------------------
\* Runs.

Busy == run \in {"apply", "uninstall"}
HostsOf(i) == DOMAIN i \cup {Daemon}

Start(kind, hosts) ==
  /\ ~Busy
  /\ run' = kind /\ snapshot' = inv
  /\ scope' = hosts /\ waiting' = hosts /\ failed' = {}
  /\ UNCHANGED <<inv, targetVars, daemonVars, script>>

StartApply == Start("apply", HostsOf(inv)) /\ UNCHANGED counts

\* The run of one host, as after it has been added or edited.
StartApplyHost == (\E h \in HostsOf(inv) : Start("apply", {h})) /\ UNCHANGED counts

StartUninstall ==
  /\ removals < MaxRemovals /\ removals' = removals + 1
  /\ Start("uninstall", HostsOf(inv))
  /\ UNCHANGED <<edits, cuts, stops>>

\* What is done to a host first; nothing when Detect finds it in order.
FirstStep(h) ==
  IF run = "uninstall" THEN IF h = Daemon THEN "rmUnit" ELSE "rmSudoers"
  ELSE IF h = Daemon THEN IF DaemonDetected THEN "none" ELSE "binary"
  ELSE IF TargetDetected(h, snapshot) THEN "none"
  ELSE IF Scripted(snapshot[h]) THEN "file" ELSE "sudoers"

\* Mutant: the host stays on the list.
BeginAgain(h) ==
  /\ h \in waiting
  /\ script' = [script EXCEPT ![h] = FirstStep(h)]
  /\ UNCHANGED <<inv, targetVars, daemonVars, runVars, counts>>

Begin(h) ==
  /\ h \in waiting
  /\ waiting' = waiting \ {h}
  /\ script' = [script EXCEPT ![h] = FirstStep(h)]
  /\ UNCHANGED <<inv, targetVars, daemonVars, run, snapshot, scope, failed, counts>>

EndRun ==
  /\ Busy /\ waiting = {} /\ \A h \in Hosts : script[h] = "none"
  /\ run' = IF failed # {} THEN "partial"
            ELSE IF scope # HostsOf(snapshot) THEN "idle"
            ELSE IF run = "apply" THEN "applied" ELSE "removed"
  /\ UNCHANGED <<inv, targetVars, daemonVars, script, snapshot, scope, waiting,
                 failed, counts>>

\* The script of h goes on, ends, or ends the host's part of the run in error.
From(h, step, next) ==
  /\ script[h] = step /\ script' = [script EXCEPT ![h] = next]
  /\ UNCHANGED <<inv, runVars, counts>>
FailAt(h, step) ==
  /\ script[h] = step /\ script' = [script EXCEPT ![h] = "none"]
  /\ failed' = failed \cup {h}
  /\ UNCHANGED <<inv, run, snapshot, scope, waiting, counts>>

-----------------------------------------------------------------------------
\* A target: the script goes to /home/<user>, then the sudoers rule.

InstallFile(t) ==
  \/ t \in Homes /\ From(t, "file", "sudoers")
     /\ file' = file \cup {t} /\ UNCHANGED <<sudoers, daemonVars>>
  \/ t \notin Homes /\ FailAt(t, "file") /\ UNCHANGED <<targetVars, daemonVars>>

WriteSudoers(t) ==
  /\ From(t, "sudoers", "none")
  /\ sudoers' = sudoers \cup {t}
  /\ UNCHANGED <<file, daemonVars>>

\* Mutant: the script stays.
LeaveFile(t) ==
  /\ From(t, "rmSudoers", "none")
  /\ sudoers' = sudoers \ {t}
  /\ UNCHANGED <<file, daemonVars>>

RemoveSudoers(t) ==
  /\ From(t, "rmSudoers", IF Scripted(snapshot[t]) THEN "rmFile" ELSE "none")
  /\ sudoers' = sudoers \ {t}
  /\ UNCHANGED <<file, daemonVars>>

RemoveFile(t) ==
  /\ From(t, "rmFile", "none")
  /\ file' = file \ {t}
  /\ UNCHANGED <<sudoers, daemonVars>>

TargetStep(t) ==
  InstallFile(t) \/ WriteSudoers(t) \/ RemoveSudoers(t) \/ RemoveFile(t)

-----------------------------------------------------------------------------
\* The daemon: setup-shutdown-daemon.sh, and its removal.

InstallBinary ==
  /\ From(Daemon, "binary", "head")
  /\ binary' = TRUE
  /\ UNCHANGED <<targetVars, conf, unit, active, loaded>>

WriteConf(step, next, written) ==
  /\ From(Daemon, step, next)
  /\ conf' = written
  /\ UNCHANGED <<targetVars, binary, unit, active, loaded>>

WriteHead ==
  WriteConf("head", "commands", Conf(DOMAIN snapshot, NoLines, NoLines, NoLines))

AppendCommands ==
  WriteConf("commands", "delays",
    Conf(conf.nodes, Lines(snapshot, "command", "unset"), conf.delays, conf.thresholds))
AppendDelays ==
  WriteConf("delays", "thresholds",
    Conf(conf.nodes, conf.commands, Lines(snapshot, "delay", 0), conf.thresholds))
AppendThresholds ==
  WriteConf("thresholds", "unit",
    Conf(conf.nodes, conf.commands, conf.delays, Lines(snapshot, "threshold", 0)))

\* Writing the unit again does not undo an earlier enable.
InstallUnit ==
  /\ From(Daemon, "unit", "enable")
  /\ unit' = IF unit = "enabled" THEN "enabled" ELSE "written"
  /\ UNCHANGED <<targetVars, binary, conf, active, loaded>>

EnableUnit ==
  /\ From(Daemon, "enable", "restart")
  /\ unit' = "enabled"
  /\ UNCHANGED <<targetVars, binary, conf, active, loaded>>

\* Mutant: systemctl start.
StartOnly ==
  /\ From(Daemon, "restart", "none")
  /\ active' = TRUE /\ loaded' = IF active THEN loaded ELSE conf
  /\ UNCHANGED <<targetVars, binary, conf, unit>>

RestartDaemon ==
  /\ From(Daemon, "restart", "none")
  /\ active' = TRUE /\ loaded' = conf
  /\ UNCHANGED <<targetVars, binary, conf, unit>>

\* Mutant: the unit file goes and the service runs on.
RemoveRunning ==
  /\ From(Daemon, "rmUnit", "rmBinary")
  /\ unit' = "absent"
  /\ UNCHANGED <<targetVars, binary, conf, active, loaded>>

RemoveUnit ==
  /\ From(Daemon, "rmUnit", "rmBinary")
  /\ unit' = "absent" /\ active' = FALSE
  /\ UNCHANGED <<targetVars, binary, conf, loaded>>

RemoveBinary ==
  /\ From(Daemon, "rmBinary", "rmConf")
  /\ binary' = FALSE
  /\ UNCHANGED <<targetVars, conf, unit, active, loaded>>

RemoveConf == WriteConf("rmConf", "none", NoConf)

DaemonStep ==
  \/ InstallBinary \/ WriteHead \/ AppendCommands \/ AppendDelays \/ AppendThresholds
  \/ InstallUnit \/ EnableUnit \/ RestartDaemon
  \/ RemoveUnit \/ RemoveBinary \/ RemoveConf

HostStep(h) == Begin(h) \/ (h \in Targets /\ TargetStep(h)) \/ (h = Daemon /\ DaemonStep)

-----------------------------------------------------------------------------
\* What happens to the fleet.

EditInventory ==
  /\ edits < MaxEdits /\ edits' = edits + 1
  /\ inv' \in Inventories \ {inv}
  /\ UNCHANGED <<snapshot, targetVars, daemonVars, script, run, scope, waiting,
                 failed, cuts, stops, removals>>

\* A host cannot be reached, or its script is cut.
Cut(h) ==
  /\ cuts < MaxCuts /\ cuts' = cuts + 1
  /\ h \in waiting \/ script[h] # "none"
  /\ waiting' = waiting \ {h} /\ failed' = failed \cup {h}
  /\ script' = [script EXCEPT ![h] = "none"]
  /\ UNCHANGED <<inv, targetVars, daemonVars, run, snapshot, scope, edits, stops, removals>>

DaemonStops ==
  /\ active /\ stops < MaxStops /\ stops' = stops + 1
  /\ active' = FALSE
  /\ UNCHANGED <<inv, targetVars, binary, conf, unit, loaded, script, runVars,
                 edits, cuts, removals>>

\* Restart=on-failure, or a boot of the daemon's host.
DaemonRestarts ==
  /\ ~active /\ unit = "enabled"
  /\ active' = TRUE /\ loaded' = conf
  /\ UNCHANGED <<inv, targetVars, binary, conf, unit, script, runVars, counts>>

Next ==
  \/ StartApply \/ StartApplyHost \/ StartUninstall \/ EndRun
  \/ \E h \in Hosts : HostStep(h) \/ Cut(h)
  \/ EditInventory \/ DaemonStops \/ DaemonRestarts

Spec == Init /\ [][Next]_vars

\* Scripts go on, runs end, and an apply is repeated until one of all hosts has
\* ended well with the inventory as it is; an uninstall stands.
Settled == run \in {"applied", "removed"} /\ snapshot = inv
FairSpec ==
  /\ Spec
  /\ \A h \in Hosts : WF_vars(HostStep(h))
  /\ WF_vars(EndRun)
  /\ SF_vars(~Settled /\ StartApply)

-----------------------------------------------------------------------------
\* Properties.

Steps == {"none", "file", "sudoers", "rmSudoers", "rmFile", "binary", "head",
          "commands", "delays", "thresholds", "unit", "enable", "restart",
          "rmUnit", "rmBinary", "rmConf"}

\* Types; a host is under way only in a run, of its hosts, and then neither
\* still to begin nor given up (Start, Begin, EndRun).
TypeOK ==
  /\ {inv, snapshot} \subseteq Inventories
  /\ file \subseteq Homes /\ sudoers \subseteq Targets
  /\ binary \in BOOLEAN /\ active \in BOOLEAN
  /\ unit \in {"absent", "written", "enabled"}
  /\ {conf.nodes, loaded.nodes} \subseteq SUBSET Targets
  /\ script \in [Hosts -> Steps]
  /\ run \in {"idle", "apply", "uninstall", "applied", "removed", "partial"}
  /\ scope \subseteq Hosts
  /\ waiting \subseteq scope /\ failed \subseteq scope \ waiting
  /\ \A h \in Hosts : script[h] # "none" => h \in scope \ (waiting \cup failed)
  /\ ~Busy => waiting = {} /\ \A h \in Hosts : script[h] = "none"
  /\ edits \in 0 .. MaxEdits /\ cuts \in 0 .. MaxCuts
  /\ stops \in 0 .. MaxStops /\ removals \in 0 .. MaxRemovals

\* A daemon that runs has its program, its configuration and its unit, at every
\* step of an installation or a removal and wherever one is cut: the order of
\* the steps in setup-shutdown-daemon.sh and buildRemovalScript.
ActiveIsInstalled ==
  active => binary /\ conf # NoConf /\ loaded # NoConf /\ unit = "enabled"

\* Does the shutdown command the daemon has for t do its work on t?
GoesDown(t) == t \in sudoers /\ (CommandFor(conf, t) = "home" => t \in file)

\* Is t set up for its settings s?
Ready(t, s) == t \in sudoers /\ (Scripted(s) => t \in file)

\* After an apply of all hosts that ended well every target of the inventory it has
\* loaded is set up and the daemon will be started by every boot, whatever was cut,
\* stopped or edited before: what Detect has passed over was in place.  With the
\* inventory unchanged since the beginning, the daemon is besides configured as the
\* inventory says, has loaded that configuration if it runs, and has for every target
\* a command that works there: an installation cut half-way has been completed, and a
\* daemon systemd has restarted in the middle has been restarted once more.  That need
\* not be so when an installation over an enabled unit was cut, which takes a daemon
\* that was stopped, or that an earlier cut kept from its start: that one may have
\* left half a configuration, with which a boot starts the daemon.
AppliedProtects ==
  run = "applied" =>
    /\ \A t \in DOMAIN snapshot : Ready(t, snapshot[t])
    /\ unit = "enabled" /\ (stops = 0 => active)
    /\ edits = 0 /\ (cuts = 0 \/ (cuts = 1 /\ stops = 0)) =>
         /\ Matches(conf, inv) /\ \A t \in DOMAIN inv : GoesDown(t)
         /\ active => loaded = conf

\* After an uninstall of all hosts that ended well nothing is left of the daemon, nor
\* on the targets of the inventory it has loaded what is there for them, whatever was
\* cut, stopped or edited before; and nothing at all as long as the inventory names
\* the hosts and commands it was installed with (Uninstall of both roles).
RemovedLeavesNothing ==
  run = "removed" =>
    /\ ~binary /\ conf = NoConf /\ unit = "absent" /\ ~active
    /\ \A t \in DOMAIN snapshot : t \notin sudoers /\ (Scripted(snapshot[t]) => t \notin file)
    /\ edits = 0 => file = {} /\ sudoers = {}

\* Repeated applies set up every target they can (a script needs a user with a
\* home in /home), whatever is cut and however the commands in the inventory have
\* changed; or the user has ended with an uninstall.
TargetsConverge ==
  \/ <>[](run = "removed")
  \/ <>[](\A t \in DOMAIN inv :
            IF Scripted(inv[t]) THEN t \in Homes => t \in sudoers \cap file
                                ELSE t \in sudoers)

\* "Edit and re-run `homelab-nut apply' to regenerate from inventory."
\* (setup-shutdown-daemon.sh:76): after an apply of all hosts that ended well
\* with the inventory as it is, the daemon runs with what the inventory says.
\* The code does not keep it: Detect looks only for the artefacts.
ConfFollowsInventory ==
  (run = "applied" /\ snapshot = inv /\ active) => Matches(loaded, inv)
=============================================================================
