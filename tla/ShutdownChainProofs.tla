------------------------- MODULE ShutdownChainProofs -------------------------
(***************************************************************************)
(* ShutdownChain, for any hosts, inventories and bounds: the types, that a *)
(* running daemon is installed and told nothing that nobody has asked for, *)
(* that a removal leaves nothing, and that an apply protects.              *)
(***************************************************************************)
EXTENDS ShutdownChain, WellFoundedInduction, TLAPS

\* What ActiveIsInstalled rests on.  An enabled unit has its program and its
\* configuration; the steps of the installation have what earlier ones have
\* left, and the removal has taken the unit away before the rest.
Installed == binary /\ conf.nodes # {}

Ordered ==
  LET at == script[Daemon] IN
  /\ unit = "enabled" => Installed
  /\ active => unit = "enabled" /\ loaded.nodes # {}
  /\ at = "head" => binary
  /\ at \in {"commands", "delays", "thresholds", "unit", "enable", "restart"} => Installed
  /\ at = "restart" => unit = "enabled"
  /\ at \in {"rmBinary", "rmConf"} => unit = "absent"

IInv == TypeOK /\ Ordered

LEMMA NonEmpty == \A i \in Inventories : DOMAIN i \subseteq Targets /\ DOMAIN i # {}
BY InventoryAssumption

\* The steps of a host's script.
LEMMA FirstStepType == ASSUME NEW h PROVE FirstStep(h) \in Steps
BY DEF FirstStep, Steps

LEMMA InitIInv == Init => IInv
<1> SUFFICES ASSUME Init PROVE IInv
  OBVIOUS
<1>1. TypeOK
  <2>1. binary \in BOOLEAN /\ active \in BOOLEAN
    BY DEF Init
  <2>2. loaded.nodes = {} /\ conf.nodes = {}
    BY DEF Init, NoConf, Conf
  <2> QED BY <2>1, <2>2, BoundAssumption DEF Init, TypeOK, Steps, Busy
<1>2. Ordered
  BY HostAssumption DEF Init, Ordered, Hosts
<1> QED BY <1>1, <1>2 DEF IInv

LEMMA NextTypeOK == TypeOK /\ [Next]_vars => TypeOK'
<1> SUFFICES ASSUME TypeOK, [Next]_vars PROVE TypeOK'
  OBVIOUS
<1> USE NonEmpty, BoundAssumption, HostAssumption DEF TypeOK, Hosts, Busy
<1>1. CASE StartApply
  BY <1>1 DEF StartApply, Start, HostsOf, counts, targetVars, daemonVars
<1>2. CASE StartApplyHost
  BY <1>2 DEF StartApplyHost, Start, HostsOf, counts, targetVars, daemonVars
<1>3. CASE StartUninstall
  BY <1>3 DEF StartUninstall, Start, HostsOf, targetVars, daemonVars
<1>4. CASE EndRun
  BY <1>4 DEF EndRun, counts, targetVars, daemonVars
<1>5. ASSUME NEW h \in Hosts, Begin(h) PROVE TypeOK'
  BY <1>5, FirstStepType DEF Begin, counts, targetVars, daemonVars
<1>6. ASSUME NEW t \in Targets, TargetStep(t) PROVE TypeOK'
  <2>1. CASE InstallFile(t)
    BY <2>1 DEF InstallFile, From, FailAt, Steps, counts, targetVars, daemonVars, runVars
  <2>2. CASE WriteSudoers(t)
    BY <2>2 DEF WriteSudoers, From, Steps, counts, daemonVars, runVars
  <2>3. CASE RemoveSudoers(t)
    BY <2>3 DEF RemoveSudoers, From, Steps, counts, daemonVars, runVars
  <2>4. CASE RemoveFile(t)
    BY <2>4 DEF RemoveFile, From, Steps, counts, daemonVars, runVars
  <2> QED BY <1>6, <2>1, <2>2, <2>3, <2>4 DEF TargetStep
<1>7. CASE DaemonStep
  <2> USE DEF From, Steps, counts, targetVars, runVars
  <2>1. CASE InstallBinary BY <2>1 DEF InstallBinary
  <2>2. CASE WriteHead BY <2>2 DEF WriteHead, WriteConf, Conf
  <2>3. CASE AppendCommands BY <2>3 DEF AppendCommands, WriteConf, Conf
  <2>4. CASE AppendDelays BY <2>4 DEF AppendDelays, WriteConf, Conf
  <2>5. CASE AppendThresholds BY <2>5 DEF AppendThresholds, WriteConf, Conf
  <2>6. CASE InstallUnit BY <2>6 DEF InstallUnit
  <2>7. CASE EnableUnit BY <2>7 DEF EnableUnit
  <2>8. CASE RestartDaemon BY <2>8 DEF RestartDaemon
  <2>9. CASE RemoveUnit BY <2>9 DEF RemoveUnit
  <2>10. CASE RemoveBinary BY <2>10 DEF RemoveBinary
  <2>11. CASE RemoveConf BY <2>11 DEF RemoveConf, WriteConf, NoConf, Conf
  <2> QED BY <1>7, <2>1, <2>2, <2>3, <2>4, <2>5, <2>6, <2>7, <2>8, <2>9, <2>10, <2>11
        DEF DaemonStep
<1>8. ASSUME NEW h \in Hosts, Cut(h) PROVE TypeOK'
  BY <1>8 DEF Cut, Steps, targetVars, daemonVars
<1>9. CASE EditInventory
  BY <1>9 DEF EditInventory, targetVars, daemonVars
<1>10. CASE DaemonStops
  <2>1. active' \in BOOLEAN
    BY <1>10, Zenon DEF DaemonStops
  <2>2. stops' \in 0 .. MaxStops
    BY <1>10, SMT DEF DaemonStops
  <2> QED BY <1>10, <2>1, <2>2 DEF DaemonStops, targetVars, runVars
<1>11. CASE DaemonRestarts
  BY <1>11 DEF DaemonRestarts, targetVars, runVars, counts
<1>12. CASE UNCHANGED vars
  BY <1>12 DEF vars, targetVars, daemonVars, runVars, counts
<1> QED
  BY <1>1, <1>2, <1>3, <1>4, <1>5, <1>6, <1>7, <1>8, <1>9, <1>10, <1>11, <1>12
     DEF Next, HostStep

LEMMA NextOrdered == IInv /\ [Next]_vars => Ordered'
<1> SUFFICES ASSUME TypeOK, Ordered, [Next]_vars PROVE Ordered'
  BY DEF IInv
<1>0. /\ script \in [Hosts -> Steps] /\ Daemon \in Hosts /\ Daemon \notin Targets
      /\ snapshot \in Inventories
      /\ DOMAIN snapshot # {}
  BY NonEmpty, HostAssumption DEF TypeOK, Hosts
<1> USE <1>0 DEF Ordered, Installed
<1>1. CASE StartApply
  BY <1>1 DEF StartApply, Start, daemonVars
<1>2. CASE StartApplyHost
  BY <1>2 DEF StartApplyHost, Start, daemonVars
<1>3. CASE StartUninstall
  BY <1>3 DEF StartUninstall, Start, daemonVars
<1>4. CASE EndRun
  BY <1>4 DEF EndRun, daemonVars
<1>5. ASSUME NEW h \in Hosts, Begin(h) PROVE Ordered'
  BY <1>5 DEF Begin, FirstStep, daemonVars
<1>6. ASSUME NEW t \in Targets, TargetStep(t) PROVE Ordered'
  <2>1. UNCHANGED <<daemonVars, script[Daemon]>>
    BY <1>6 DEF TargetStep, InstallFile, WriteSudoers, RemoveSudoers, RemoveFile,
                From, FailAt
  <2> QED BY <2>1 DEF daemonVars
<1>7. CASE DaemonStep
  <2> USE DEF From
  <2>1. CASE InstallBinary BY <2>1 DEF InstallBinary
  <2>2. CASE WriteHead BY <2>2 DEF WriteHead, WriteConf, Conf
  <2>3. CASE AppendCommands BY <2>3 DEF AppendCommands, WriteConf, Conf
  <2>4. CASE AppendDelays BY <2>4 DEF AppendDelays, WriteConf, Conf
  <2>5. CASE AppendThresholds BY <2>5 DEF AppendThresholds, WriteConf, Conf
  <2>6. CASE InstallUnit BY <2>6 DEF InstallUnit
  <2>7. CASE EnableUnit BY <2>7 DEF EnableUnit
  <2>8. CASE RestartDaemon BY <2>8 DEF RestartDaemon
  <2>9. CASE RemoveUnit BY <2>9 DEF RemoveUnit
  <2>10. CASE RemoveBinary BY <2>10 DEF RemoveBinary
  <2>11. CASE RemoveConf BY <2>11 DEF RemoveConf, WriteConf, NoConf, Conf
  <2> QED BY <1>7, <2>1, <2>2, <2>3, <2>4, <2>5, <2>6, <2>7, <2>8, <2>9, <2>10, <2>11
        DEF DaemonStep
<1>8. ASSUME NEW h \in Hosts, Cut(h) PROVE Ordered'
  BY <1>8 DEF Cut, daemonVars
<1>9. CASE EditInventory
  BY <1>9 DEF EditInventory, daemonVars
<1>10. CASE DaemonStops
  BY <1>10 DEF DaemonStops
<1>11. CASE DaemonRestarts
  BY <1>11 DEF DaemonRestarts
<1>12. CASE UNCHANGED vars
  BY <1>12 DEF vars, daemonVars
<1> QED
  BY <1>1, <1>2, <1>3, <1>4, <1>5, <1>6, <1>7, <1>8, <1>9, <1>10, <1>11, <1>12
     DEF Next, HostStep

\* The inductive invariant holds of every behaviour.
LEMMA Invariance == Spec => []IInv
<1>1. IInv /\ [Next]_vars => IInv'
  BY NextTypeOK, NextOrdered DEF IInv
<1> QED BY <1>1, InitIInv, PTL DEF Spec

\* Types, and that a host is never both waiting and under way (Begin).
THEOREM Typing == Spec => []TypeOK
<1>1. IInv => TypeOK BY DEF IInv
<1> QED BY <1>1, Invariance, PTL

\* A running daemon has its program, its configuration and an enabled unit
\* (setup-shutdown-daemon.sh, buildRemovalScript).
THEOREM RunsInstalled == Spec => []ActiveIsInstalled
<1>1. IInv => ActiveIsInstalled
  BY DEF IInv, Ordered, Installed, ActiveIsInstalled, NoConf, Conf
<1> QED BY <1>1, Invariance, PTL

-----------------------------------------------------------------------------
(* What runs have made true of the inventory they have loaded.                *)

\* Do all inventories name the same hosts, and for each of them a command of the
\* same kind?
Alike ==
  \A i, j \in Inventories :
    DOMAIN i = DOMAIN j /\ \A t \in DOMAIN i : Scripted(i[t]) <=> Scripted(j[t])
Steady == edits = 0 \/ Alike

\* A run is one of hosts of the inventory it has loaded, an uninstall one of all of
\* them.
Scoped ==
  /\ scope \subseteq HostsOf(snapshot)
  /\ run \in {"uninstall", "applied", "removed"} => scope = HostsOf(snapshot)
  /\ run \in {"applied", "removed"} => failed = {}
  /\ \A t \in Targets : script[t] \in {"file", "rmFile"} => Scripted(snapshot[t])
  /\ edits = 0 => snapshot = inv

\* What is on the targets is there for a target of the inventory.
Placed ==
  Steady =>
    /\ sudoers \subseteq DOMAIN snapshot
    /\ \A t \in file : t \in DOMAIN snapshot /\ Scripted(snapshot[t])

\* The hosts of a run that are through with their first step, and not in error.
Begun(h) == h \in scope /\ h \notin waiting /\ h \notin failed

TargetSteps == {"none", "file", "sudoers", "rmSudoers", "rmFile"}
ApplySteps == {"none", "file", "sudoers", "binary", "head", "commands", "delays",
               "thresholds", "unit", "enable", "restart"}
RemovalSteps == {"none", "rmSudoers", "rmFile", "rmUnit", "rmBinary", "rmConf"}

InStep ==
  /\ run = "apply" => \A h \in Hosts : script[h] \in ApplySteps
  /\ run = "uninstall" => \A h \in Hosts : script[h] \in RemovalSteps
  /\ \A t \in Targets : script[t] \in TargetSteps
  /\ script[Daemon] \notin TargetSteps \ {"none"}

\* How far the removal of a host has come.
TargetRemoved(t) ==
  \/ script[t] = "rmSudoers"
  \/ t \notin sudoers /\ (script[t] = "rmFile" \/ (Scripted(snapshot[t]) => t \notin file))

DaemonRemoved ==
  \/ script[Daemon] = "rmUnit"
  \/ /\ unit = "absent" /\ ~active
     /\ \/ script[Daemon] = "rmBinary"
        \/ ~binary /\ (script[Daemon] = "rmConf" \/ conf = NoConf)

Removing ==
  run \in {"uninstall", "removed"} =>
    /\ \A t \in DOMAIN snapshot : Begun(t) => TargetRemoved(t)
    /\ Begun(Daemon) => DaemonRemoved

\* How far the set-up of a host has come.
TargetApplied(t) ==
  \/ script[t] = "file"
  \/ (Scripted(snapshot[t]) => t \in file) /\ (script[t] = "sudoers" \/ t \in sudoers)

DaemonApplied ==
  \/ script[Daemon] # "none"
  \/ unit = "enabled" /\ (stops = 0 => active)

Applying ==
  run \in {"apply", "applied"} =>
    /\ \A t \in DOMAIN snapshot : Begun(t) => TargetApplied(t)
    /\ Begun(Daemon) => DaemonApplied

\* The configuration at each step of its writing.
FullConf(i) == Conf(DOMAIN i, Lines(i, "command", "unset"), Lines(i, "delay", 0),
                    Lines(i, "threshold", 0))
MidWrite == {"commands", "delays", "thresholds"}

Written ==
  edits = 0 =>
    LET at == script[Daemon] IN
    /\ at = "commands" => conf = Conf(DOMAIN inv, NoLines, NoLines, NoLines)
    /\ at = "delays" =>
         conf = Conf(DOMAIN inv, Lines(inv, "command", "unset"), NoLines, NoLines)
    /\ at = "thresholds" =>
         conf = Conf(DOMAIN inv, Lines(inv, "command", "unset"), Lines(inv, "delay", 0), NoLines)
    /\ at \in {"unit", "enable", "restart"} => conf = FullConf(inv)

\* As long as nothing went wrong, an enabled unit is that of a daemon that runs
\* or is being started; then one cut cannot leave half a configuration to it.
Undisturbed ==
  edits = 0 /\ cuts = 0 /\ stops = 0 =>
    /\ unit = "enabled" =>
         \/ active /\ script[Daemon] \in {"none", "rmUnit"}
         \/ script[Daemon] = "restart"
    /\ active => loaded = conf

Whole ==
  edits = 0 /\ (cuts = 0 \/ (cuts = 1 /\ stops = 0)) =>
    /\ unit = "enabled" /\ script[Daemon] \notin MidWrite => conf = FullConf(inv)
    /\ active /\ script[Daemon] \in {"none", "binary", "head", "rmUnit"} => loaded = conf

Kept == Scoped /\ Placed /\ InStep /\ Removing /\ Applying /\ Written /\ Undisturbed /\ Whole

LEMMA InitKept == Init => Kept
<1> SUFFICES ASSUME Init PROVE Kept
  OBVIOUS
<1> USE HostAssumption DEF Init, Hosts
<1>1. Scoped /\ Placed BY DEF Scoped, HostsOf, Placed
<1>2. InStep BY DEF InStep, TargetSteps, ApplySteps, RemovalSteps
<1>3. Removing /\ Applying BY DEF Removing, Applying
<1>4. Written BY DEF Written
<1>5. Undisturbed BY DEF Undisturbed
<1>6. Whole BY DEF Whole
<1> QED BY <1>1, <1>2, <1>3, <1>4, <1>5, <1>6 DEF Kept

\* What the step lemmas below need to know of the state.
LEMMA Known ==
  ASSUME TypeOK
  PROVE  /\ script \in [Hosts -> Steps] /\ Daemon \in Hosts /\ Daemon \notin Targets
         /\ Targets \subseteq Hosts
         /\ DOMAIN inv \subseteq Targets /\ DOMAIN snapshot \subseteq Targets
         /\ DOMAIN inv # {}
         /\ edits \in Nat /\ cuts \in Nat /\ stops \in Nat
         /\ \A h \in Hosts : script[h] # "none" => h \in scope \ (waiting \cup failed)
         /\ waiting \subseteq scope /\ failed \subseteq scope
BY NonEmpty, HostAssumption, BoundAssumption DEF TypeOK, Hosts

LEMMA NextScoped == TypeOK /\ InStep /\ Scoped /\ [Next]_vars => Scoped'
<1> SUFFICES ASSUME TypeOK, InStep, Scoped, [Next]_vars PROVE Scoped'
  OBVIOUS
<1> USE Known DEF Scoped, HostsOf
<1>1. CASE StartApply \/ StartApplyHost \/ StartUninstall
  BY <1>1 DEF StartApply, StartApplyHost, StartUninstall, Start, counts, targetVars, TypeOK, Busy
<1>2. CASE EndRun
  BY <1>2 DEF EndRun, counts, targetVars, Busy
<1>3. ASSUME NEW h \in Hosts, Begin(h) PROVE Scoped'
  BY <1>3 DEF Begin, FirstStep, counts, targetVars
<1>4. ASSUME NEW t \in Targets, TargetStep(t) PROVE Scoped'
  <2>1. CASE InstallFile(t)
    BY <2>1 DEF InstallFile, From, FailAt, counts, targetVars, runVars, TypeOK, Busy
  <2>2. CASE WriteSudoers(t)
    BY <2>2 DEF WriteSudoers, From, counts, runVars
  <2>3. CASE RemoveSudoers(t)
    BY <2>3 DEF RemoveSudoers, From, counts, runVars
  <2>4. CASE RemoveFile(t)
    BY <2>4 DEF RemoveFile, From, counts, runVars
  <2> QED BY <1>4, <2>1, <2>2, <2>3, <2>4 DEF TargetStep
<1>5. CASE DaemonStep
  <2>1. UNCHANGED <<inv, runVars, counts, targetVars>> /\ \A t \in Targets : script'[t] = script[t]
    BY <1>5 DEF DaemonStep, From, InstallBinary, WriteHead, AppendCommands, AppendDelays,
       AppendThresholds, WriteConf, InstallUnit, EnableUnit, RestartDaemon, RemoveUnit,
       RemoveBinary, RemoveConf
  <2> QED BY <2>1 DEF runVars, counts, targetVars
<1>6. ASSUME NEW h \in Hosts, Cut(h) PROVE Scoped'
  BY <1>6 DEF Cut, targetVars, TypeOK, Busy
<1>7. CASE EditInventory
  BY <1>7 DEF EditInventory, counts, targetVars, daemonVars
<1>8. CASE DaemonStops \/ DaemonRestarts \/ UNCHANGED vars
  BY <1>8 DEF DaemonStops, DaemonRestarts, vars, targetVars, runVars, counts
<1> QED
  BY <1>1, <1>2, <1>3, <1>4, <1>5, <1>6, <1>7, <1>8 DEF Next, HostStep

LEMMA NextPlaced == TypeOK /\ InStep /\ Scoped /\ Placed /\ [Next]_vars => Placed'
<1> SUFFICES ASSUME TypeOK, InStep, Scoped, Placed, [Next]_vars, Steady'
             PROVE  /\ sudoers' \subseteq DOMAIN snapshot'
                    /\ \A t \in file' : t \in DOMAIN snapshot' /\ Scripted(snapshot'[t])
  BY DEF Placed
<1>0. Steady
  <2>1. Steady' => edits' = 0 \/ Alike
    BY DEF Steady, Alike
  <2>2. edits' = edits \/ edits' = edits + 1
    BY DEF Next, HostStep, StartApply, StartApplyHost, StartUninstall, EndRun, Begin, TargetStep,
       InstallFile, WriteSudoers, RemoveSudoers, RemoveFile, From, FailAt, DaemonStep,
       InstallBinary, WriteHead, AppendCommands, AppendDelays, AppendThresholds, WriteConf,
       InstallUnit, EnableUnit, RestartDaemon, RemoveUnit, RemoveBinary, RemoveConf, Cut,
       EditInventory, DaemonStops, DaemonRestarts, counts, vars
  <2> QED BY <2>1, <2>2, Known DEF Steady
<1>a. /\ sudoers \subseteq DOMAIN snapshot
      /\ \A t \in file : t \in DOMAIN snapshot /\ Scripted(snapshot[t])
  BY <1>0 DEF Placed
<1>b. DOMAIN snapshot = DOMAIN inv /\ \A t \in DOMAIN inv : Scripted(snapshot[t]) <=> Scripted(inv[t])
  BY <1>0 DEF Steady, Alike, Scoped, TypeOK
<1> USE Known, <1>a
<1>1. CASE StartApply \/ StartApplyHost \/ StartUninstall
  BY <1>1, <1>b DEF StartApply, StartApplyHost, StartUninstall, Start, targetVars
<1>2. CASE EndRun
  BY <1>2 DEF EndRun, targetVars
<1>3. ASSUME NEW h \in Hosts, Begin(h) \/ Cut(h)
      PROVE  UNCHANGED <<snapshot, targetVars>>
  BY <1>3 DEF Begin, Cut, runVars
<1>4. ASSUME NEW t \in Targets, TargetStep(t)
      PROVE  /\ sudoers' \subseteq DOMAIN snapshot'
             /\ \A u \in file' : u \in DOMAIN snapshot' /\ Scripted(snapshot'[u])
  <2>1. script[t] # "none" => t \in DOMAIN snapshot
    BY DEF Scoped, HostsOf
  <2>2. CASE InstallFile(t)
    BY <2>1, <2>2 DEF InstallFile, From, FailAt, runVars, targetVars, Scoped
  <2>3. CASE WriteSudoers(t)
    BY <2>1, <2>3 DEF WriteSudoers, From, runVars
  <2>4. CASE RemoveSudoers(t) \/ RemoveFile(t)
    BY <2>4 DEF RemoveSudoers, RemoveFile, From, runVars
  <2> QED BY <1>4, <2>2, <2>3, <2>4 DEF TargetStep
<1>5. CASE DaemonStep
  BY <1>5 DEF DaemonStep, From, InstallBinary, WriteHead, AppendCommands, AppendDelays,
     AppendThresholds, WriteConf, InstallUnit, EnableUnit, RestartDaemon, RemoveUnit,
     RemoveBinary, RemoveConf, runVars, targetVars
<1>6. CASE EditInventory \/ DaemonStops \/ DaemonRestarts \/ UNCHANGED vars
  BY <1>6 DEF EditInventory, DaemonStops, DaemonRestarts, vars, targetVars, runVars
<1> QED
  BY <1>1, <1>2, <1>3, <1>4, <1>5, <1>6 DEF Next, HostStep, targetVars

LEMMA NextInStep == TypeOK /\ InStep /\ [Next]_vars => InStep'
<1> SUFFICES ASSUME TypeOK, InStep, [Next]_vars PROVE InStep'
  OBVIOUS
<1> USE Known DEF InStep, TargetSteps, ApplySteps, RemovalSteps
<1>1. CASE StartApply \/ StartApplyHost \/ StartUninstall
  BY <1>1 DEF StartApply, StartApplyHost, StartUninstall, Start, TypeOK
<1>2. CASE EndRun
  BY <1>2 DEF EndRun
<1>3. ASSUME NEW h \in Hosts, Begin(h) PROVE InStep'
  <2>1. run \in {"apply", "uninstall"}
    BY <1>3 DEF Begin, TypeOK, Busy
  <2> QED BY <1>3, <2>1 DEF Begin, FirstStep, Hosts
<1>4. ASSUME NEW t \in Targets, TargetStep(t) PROVE InStep'
  BY <1>4 DEF TargetStep, InstallFile, WriteSudoers, RemoveSudoers, RemoveFile, From, FailAt,
     runVars
<1>5. CASE DaemonStep
  BY <1>5 DEF DaemonStep, From, InstallBinary, WriteHead, AppendCommands, AppendDelays,
     AppendThresholds, WriteConf, InstallUnit, EnableUnit, RestartDaemon, RemoveUnit,
     RemoveBinary, RemoveConf, runVars
<1>6. ASSUME NEW h \in Hosts, Cut(h) PROVE InStep'
  BY <1>6 DEF Cut
<1>7. CASE EditInventory \/ DaemonStops \/ DaemonRestarts \/ UNCHANGED vars
  BY <1>7 DEF EditInventory, DaemonStops, DaemonRestarts, vars, runVars
<1> QED
  BY <1>1, <1>2, <1>3, <1>4, <1>5, <1>6, <1>7 DEF Next, HostStep

LEMMA NextRemoving ==
  TypeOK /\ InStep /\ Scoped /\ Removing /\ [Next]_vars => Removing'
<1> SUFFICES ASSUME TypeOK, InStep, Scoped, Removing, [Next]_vars,
                    run' \in {"uninstall", "removed"}
             PROVE  /\ \A t \in DOMAIN snapshot' : Begun(t)' => TargetRemoved(t)'
                    /\ Begun(Daemon)' => DaemonRemoved'
  BY DEF Removing
<1> USE Known DEF Removing, Begun, TargetRemoved, DaemonRemoved
<1>1. CASE StartApply \/ StartApplyHost \/ StartUninstall
  BY <1>1 DEF StartApply, StartApplyHost, StartUninstall, Start
<1>2. CASE EndRun
  BY <1>2 DEF EndRun, counts, targetVars, daemonVars, Busy
<1>3. ASSUME NEW h \in Hosts, Begin(h) PROVE Removing'
  <2>1. run = "uninstall"
    BY <1>3 DEF Begin, TypeOK, Busy
  <2> QED BY <1>3, <2>1 DEF Begin, FirstStep, counts, targetVars, daemonVars
<1>4. ASSUME NEW t \in Targets, TargetStep(t) PROVE Removing'
  <2>1. run = "uninstall" /\ UNCHANGED <<snapshot, run, scope, waiting, daemonVars, script[Daemon]>>
    BY <1>4 DEF TargetStep, InstallFile, WriteSudoers, RemoveSudoers, RemoveFile, From, FailAt,
       counts, runVars, TypeOK, Busy
  <2>2. script[t] \in {"none", "rmSudoers", "rmFile"}
    BY <2>1 DEF Scoped, InStep, TargetSteps, RemovalSteps
  <2>3. CASE RemoveSudoers(t)
    BY <2>1, <2>2, <2>3 DEF RemoveSudoers, From, Scoped, daemonVars, runVars
  <2>4. CASE RemoveFile(t)
    BY <2>1, <2>2, <2>4 DEF RemoveFile, From, daemonVars, runVars
  <2>5. CASE InstallFile(t) \/ WriteSudoers(t)
    BY <2>2, <2>5 DEF InstallFile, WriteSudoers, From, FailAt
  <2> QED BY <1>4, <2>3, <2>4, <2>5 DEF TargetStep
<1>5. CASE DaemonStep
  <2>1. /\ run = "uninstall" /\ UNCHANGED <<inv, runVars, counts, targetVars>>
        /\ \A t \in Targets : script'[t] = script[t]
    BY <1>5 DEF DaemonStep, From, InstallBinary, WriteHead, AppendCommands, AppendDelays,
       AppendThresholds, WriteConf, InstallUnit, EnableUnit, RestartDaemon, RemoveUnit,
       RemoveBinary, RemoveConf, TypeOK, Busy, runVars
  <2>2. script[Daemon] \in {"none", "rmUnit", "rmBinary", "rmConf"}
    BY <2>1 DEF InStep, RemovalSteps, TargetSteps, counts
  <2>3. RemoveUnit \/ RemoveBinary \/ RemoveConf
    BY <1>5, <2>2 DEF DaemonStep, From, InstallBinary, WriteHead, AppendCommands, AppendDelays,
       AppendThresholds, WriteConf, InstallUnit, EnableUnit, RestartDaemon
  <2>4. \A t \in DOMAIN snapshot' : Begun(t)' => TargetRemoved(t)'
    BY <2>1, <2>2 DEF counts, runVars, targetVars
  <2>5. Begun(Daemon)' => DaemonRemoved'
    BY <2>1, <2>2, <2>3 DEF RemoveUnit, RemoveBinary, RemoveConf, WriteConf, From, runVars
  <2> QED BY <2>4, <2>5
<1>6. ASSUME NEW h \in Hosts, Cut(h) PROVE Removing'
  BY <1>6 DEF Cut, targetVars, daemonVars, TypeOK, Busy
<1>7. CASE EditInventory
  BY <1>7 DEF EditInventory, targetVars, daemonVars
<1>8. CASE DaemonStops \/ DaemonRestarts
  BY <1>8 DEF DaemonStops, DaemonRestarts, targetVars, runVars, counts
<1>9. CASE UNCHANGED vars
  BY <1>9 DEF vars, targetVars, daemonVars, runVars, counts
<1> QED
  BY <1>1, <1>2, <1>3, <1>4, <1>5, <1>6, <1>7, <1>8, <1>9 DEF Next, HostStep

LEMMA NextApplying ==
  TypeOK /\ Ordered /\ InStep /\ Scoped /\ Applying /\ [Next]_vars => Applying'
<1> SUFFICES ASSUME TypeOK, Ordered, InStep, Scoped, Applying, [Next]_vars,
                    run' \in {"apply", "applied"}
             PROVE  /\ \A t \in DOMAIN snapshot' : Begun(t)' => TargetApplied(t)'
                    /\ Begun(Daemon)' => DaemonApplied'
  BY DEF Applying
<1> USE Known DEF Applying, Begun, TargetApplied, DaemonApplied
<1>1. CASE StartApply \/ StartApplyHost \/ StartUninstall
  BY <1>1 DEF StartApply, StartApplyHost, StartUninstall, Start
<1>2. CASE EndRun
  BY <1>2 DEF EndRun, counts, targetVars, daemonVars, Busy
<1>3. ASSUME NEW h \in Hosts, Begin(h) PROVE Applying'
  <2>1. run = "apply"
    BY <1>3 DEF Begin, TypeOK, Busy
  <2>2. FirstStep(Daemon) # "none" \/ (unit = "enabled" /\ active)
    BY <2>1 DEF FirstStep, DaemonDetected, Ordered
  <2>3. \A t \in Targets :
          \/ FirstStep(t) = "file"
          \/ (Scripted(snapshot[t]) => t \in file) /\ (FirstStep(t) = "sudoers" \/ t \in sudoers)
    BY <2>1 DEF FirstStep, TargetDetected
  <2> QED BY <1>3, <2>1, <2>2, <2>3 DEF Begin, counts, targetVars, daemonVars
<1>4. ASSUME NEW t \in Targets, TargetStep(t) PROVE Applying'
  <2>1. run = "apply" /\ UNCHANGED <<snapshot, run, scope, waiting, counts, daemonVars, script[Daemon]>>
    BY <1>4 DEF TargetStep, InstallFile, WriteSudoers, RemoveSudoers, RemoveFile, From, FailAt,
       runVars, TypeOK, Busy
  <2>2. script[t] \in {"none", "file", "sudoers"}
    BY <2>1 DEF InStep, TargetSteps, ApplySteps, counts
  <2>3. CASE InstallFile(t)
    BY <2>1, <2>2, <2>3 DEF InstallFile, From, FailAt, daemonVars, runVars, counts, targetVars
  <2>4. CASE WriteSudoers(t)
    BY <2>1, <2>2, <2>4 DEF WriteSudoers, From, daemonVars, runVars, counts
  <2>5. CASE RemoveSudoers(t) \/ RemoveFile(t)
    BY <2>2, <2>5 DEF RemoveSudoers, RemoveFile, From
  <2> QED BY <1>4, <2>3, <2>4, <2>5 DEF TargetStep
<1>5. CASE DaemonStep
  <2>1. /\ run = "apply" /\ UNCHANGED <<inv, runVars, counts, targetVars>>
        /\ \A t \in Targets : script'[t] = script[t]
    BY <1>5 DEF DaemonStep, From, InstallBinary, WriteHead, AppendCommands, AppendDelays,
       AppendThresholds, WriteConf, InstallUnit, EnableUnit, RestartDaemon, RemoveUnit,
       RemoveBinary, RemoveConf, TypeOK, Busy, runVars
  <2>2. \A t \in DOMAIN snapshot' : Begun(t)' => TargetApplied(t)'
    BY <2>1 DEF counts, runVars, targetVars
  <2>3. script'[Daemon] # "none" \/ (unit' = "enabled" /\ active')
    <3>1. script[Daemon] \notin {"rmUnit", "rmBinary", "rmConf"}
      BY <2>1 DEF InStep, ApplySteps
    <3> QED
      BY <1>5, <3>1 DEF DaemonStep, From, InstallBinary, WriteHead, AppendCommands, AppendDelays,
         AppendThresholds, WriteConf, InstallUnit, EnableUnit, RestartDaemon, RemoveUnit,
         RemoveBinary, RemoveConf, Ordered
  <2> QED BY <2>2, <2>3
<1>6. ASSUME NEW h \in Hosts, Cut(h) PROVE Applying'
  BY <1>6 DEF Cut, targetVars, daemonVars, TypeOK, Busy
<1>7. CASE EditInventory
  BY <1>7 DEF EditInventory, targetVars, daemonVars
<1>8. CASE DaemonStops \/ DaemonRestarts
  BY <1>8 DEF DaemonStops, DaemonRestarts, targetVars, runVars, counts
<1>9. CASE UNCHANGED vars
  BY <1>9 DEF vars, targetVars, daemonVars, runVars, counts
<1> QED
  BY <1>1, <1>2, <1>3, <1>4, <1>5, <1>6, <1>7, <1>8, <1>9 DEF Next, HostStep

\* Steps that leave the daemon, its script and the inventory alone.
LEMMA DaemonAlone ==
  ASSUME TypeOK, [Next]_vars, ~DaemonStep, ~DaemonStops, ~DaemonRestarts,
         ~EditInventory, ~Begin(Daemon), ~Cut(Daemon)
  PROVE  UNCHANGED <<inv, daemonVars, edits, stops, script[Daemon]>> /\ cuts' >= cuts
<1> USE Known
<1>1. CASE StartApply \/ StartApplyHost \/ StartUninstall \/ EndRun
  BY <1>1 DEF StartApply, StartApplyHost, StartUninstall, Start, EndRun, counts
<1>2. ASSUME NEW t \in Targets, Begin(t) \/ TargetStep(t) \/ Cut(t)
      PROVE  UNCHANGED <<inv, daemonVars, edits, stops, script[Daemon]>> /\ cuts' >= cuts
  BY <1>2 DEF Begin, TargetStep, InstallFile, WriteSudoers, RemoveSudoers, RemoveFile, From,
     FailAt, Cut, counts
<1>3. CASE UNCHANGED vars
  BY <1>3 DEF vars, counts
<1> QED BY <1>1, <1>2, <1>3 DEF Next, HostStep, Hosts

LEMMA NextWritten == TypeOK /\ InStep /\ Scoped /\ Written /\ [Next]_vars => Written'
<1> SUFFICES ASSUME TypeOK, InStep, Scoped, Written, [Next]_vars PROVE Written'
  OBVIOUS
<1> USE Known DEF Written
<1>1. CASE DaemonStep
  <2>1. UNCHANGED <<inv, edits>> /\ (edits = 0 => snapshot = inv)
    BY <1>1 DEF DaemonStep, From, InstallBinary, WriteHead, AppendCommands, AppendDelays,
       AppendThresholds, WriteConf, InstallUnit, EnableUnit, RestartDaemon, RemoveUnit,
       RemoveBinary, RemoveConf, counts, Scoped
  <2>2. script'[Daemon] = "none" \/ Written'
    BY <1>1, <2>1 DEF DaemonStep, From, InstallBinary, WriteHead, AppendCommands, AppendDelays,
       AppendThresholds, WriteConf, InstallUnit, EnableUnit, RestartDaemon, RemoveUnit,
       RemoveBinary, RemoveConf, Conf, FullConf
  <2> QED BY <2>2
<1>2. CASE Begin(Daemon)
  BY <1>2 DEF Begin, FirstStep
<1>3. CASE Cut(Daemon)
  BY <1>3 DEF Cut
<1>4. CASE EditInventory
  BY <1>4 DEF EditInventory
<1>5. CASE DaemonStops \/ DaemonRestarts
  BY <1>5 DEF DaemonStops, DaemonRestarts, counts
<1> QED BY <1>1, <1>2, <1>3, <1>4, <1>5, DaemonAlone DEF daemonVars

LEMMA NextUndisturbed ==
  TypeOK /\ Ordered /\ InStep /\ Undisturbed /\ [Next]_vars => Undisturbed'
<1> SUFFICES ASSUME TypeOK, Ordered, InStep, Undisturbed, [Next]_vars PROVE Undisturbed'
  OBVIOUS
<1> USE Known DEF Undisturbed
<1>1. CASE DaemonStep
  BY <1>1 DEF DaemonStep, From, InstallBinary, WriteHead, AppendCommands, AppendDelays,
     AppendThresholds, WriteConf, InstallUnit, EnableUnit, RestartDaemon, RemoveUnit,
     RemoveBinary, RemoveConf, counts, Ordered
<1>2. CASE Begin(Daemon)
  BY <1>2 DEF Begin, FirstStep, DaemonDetected, Ordered, Installed, NoConf, Conf, counts, daemonVars
<1>3. CASE Cut(Daemon)
  BY <1>3 DEF Cut
<1>4. CASE EditInventory
  BY <1>4 DEF EditInventory
<1>5. CASE DaemonStops \/ DaemonRestarts
  BY <1>5 DEF DaemonStops, DaemonRestarts, counts
<1> QED BY <1>1, <1>2, <1>3, <1>4, <1>5, DaemonAlone DEF daemonVars

LEMMA NextWhole ==
  /\ TypeOK /\ Ordered /\ InStep /\ Scoped /\ Written /\ Undisturbed /\ Whole
  /\ [Next]_vars
  => Whole'
<1> SUFFICES ASSUME TypeOK, Ordered, InStep, Scoped, Written, Undisturbed, Whole, [Next]_vars
             PROVE  Whole'
  OBVIOUS
<1> USE Known DEF Whole, MidWrite
<1>1. CASE DaemonStep
  <2>1. UNCHANGED <<inv, edits, cuts, stops>> /\ (edits = 0 => snapshot = inv)
    BY <1>1 DEF DaemonStep, From, InstallBinary, WriteHead, AppendCommands, AppendDelays,
       AppendThresholds, WriteConf, InstallUnit, EnableUnit, RestartDaemon, RemoveUnit,
       RemoveBinary, RemoveConf, counts, Scoped
  <2>2. CASE InstallBinary BY <2>1, <2>2 DEF InstallBinary, From
  <2>3. CASE WriteHead BY <2>1, <2>3 DEF WriteHead, WriteConf, From
  <2>4. CASE AppendCommands BY <2>1, <2>4 DEF AppendCommands, WriteConf, From
  <2>5. CASE AppendDelays BY <2>1, <2>5 DEF AppendDelays, WriteConf, From
  <2>6. CASE AppendThresholds
    BY <2>1, <2>6 DEF AppendThresholds, WriteConf, From, Written, Conf, FullConf
  <2>7. CASE InstallUnit BY <2>1, <2>7 DEF InstallUnit, From
  <2>8. CASE EnableUnit BY <2>1, <2>8 DEF EnableUnit, From, Written
  <2>9. CASE RestartDaemon BY <2>1, <2>9 DEF RestartDaemon, From
  <2>10. CASE RemoveUnit \/ RemoveBinary \/ RemoveConf
    BY <2>1, <2>10 DEF RemoveUnit, RemoveBinary, RemoveConf, WriteConf, From, Ordered
  <2> QED BY <1>1, <2>2, <2>3, <2>4, <2>5, <2>6, <2>7, <2>8, <2>9, <2>10 DEF DaemonStep
<1>2. CASE Begin(Daemon)
  <2>1. script[Daemon] = "none"
    BY <1>2 DEF Begin
  <2> QED BY <1>2, <2>1 DEF Begin, FirstStep, counts, daemonVars
<1>3. CASE Cut(Daemon)
  <2>1. edits' = 0 /\ (cuts' = 0 \/ (cuts' = 1 /\ stops' = 0)) =>
          edits = 0 /\ cuts = 0 /\ stops = 0
    BY <1>3 DEF Cut
  <2>2. UNCHANGED <<inv, daemonVars>> /\ script'[Daemon] = "none"
    BY <1>3 DEF Cut
  <2> QED BY <2>1, <2>2, <1>3 DEF Undisturbed, daemonVars
<1>4. CASE EditInventory
  BY <1>4 DEF EditInventory
<1>5. CASE DaemonStops
  BY <1>5 DEF DaemonStops
<1>6. CASE DaemonRestarts
  BY <1>6 DEF DaemonRestarts, counts
<1> QED BY <1>1, <1>2, <1>3, <1>4, <1>5, <1>6, DaemonAlone DEF daemonVars

LEMMA KeptInvariance == Spec => [](IInv /\ Kept)
<1>1. IInv /\ Kept /\ [Next]_vars => Kept'
  BY NextScoped, NextPlaced, NextInStep, NextRemoving, NextApplying, NextWritten, NextUndisturbed, NextWhole
     DEF IInv, Kept
<1> QED BY <1>1, InitKept, Invariance, PTL DEF Spec

\* An uninstall of all hosts without an error has removed all that the inventory it
\* has loaded gives rise to, whatever was cut, stopped or edited before, and all there
\* was while the inventory is the same (shutdownTarget.Uninstall,
\* shutdownDaemon.Uninstall).
LEMMA RemovedIsGone ==
  ASSUME IInv, Kept, run = "removed"
  PROVE  /\ ~binary /\ conf = NoConf /\ unit = "absent" /\ ~active
         /\ \A t \in DOMAIN snapshot : t \notin sudoers /\ (Scripted(snapshot[t]) => t \notin file)
         /\ Steady => file = {} /\ sudoers = {}
<1>1. /\ \A h \in Hosts : script[h] = "none"
      /\ \A h \in HostsOf(snapshot) : Begun(h)
  BY DEF IInv, TypeOK, Kept, Scoped, Busy, Begun
<1>2. DaemonRemoved /\ script[Daemon] = "none"
  BY <1>1 DEF Kept, Removing, HostsOf, Hosts
<1>3. \A t \in DOMAIN snapshot : t \notin sudoers /\ (Scripted(snapshot[t]) => t \notin file)
  BY <1>1, Known DEF IInv, Kept, Removing, HostsOf, TargetRemoved
<1>4. Steady => file = {} /\ sudoers = {}
  BY <1>3 DEF Kept, Placed
<1> QED BY <1>2, <1>3, <1>4 DEF DaemonRemoved

\* What an uninstall that ended well leaves, for any fleet and any inventories.
THEOREM RemovesAll == Spec => []RemovedLeavesNothing
<1>1. IInv /\ Kept => RemovedLeavesNothing
  BY RemovedIsGone DEF RemovedLeavesNothing, Steady
<1> QED BY <1>1, KeptInvariance, PTL

\* Nothing at all is left, however often the inventory was edited, when the edits add
\* and drop no hosts and leave each its kind of command: what shutdownTarget.Uninstall
\* derives from the command there is now is then what was installed.
THEOREM RemovesAllAlike ==
  ASSUME Alike
  PROVE  Spec => [](run = "removed" => file = {} /\ sudoers = {})
<1>1. IInv /\ Kept => (run = "removed" => file = {} /\ sudoers = {})
  BY RemovedIsGone DEF Steady
<1> QED BY <1>1, KeptInvariance, PTL

\* No two targets have one sanitised address.
KeysDiffer == \A t, u \in Targets : Key[t] = Key[u] => t = u

\* Then the line of a target is the one it was given.
Found(i, t, field, unset, default) ==
  LookUp(Lines(i, field, unset), t, default)
    = IF i[t][field] = unset THEN default ELSE i[t][field]

LEMMA LinesFound ==
  KeysDiffer =>
    \A i \in Inventories : \A t \in DOMAIN i :
      \A field, unset, default : Found(i, t, field, unset, default)
<1> SUFFICES ASSUME KeysDiffer, NEW i \in Inventories, NEW t \in DOMAIN i,
                    NEW field, NEW unset, NEW default
             PROVE  Found(i, t, field, unset, default)
  OBVIOUS
<1> DEFINE setting == {u \in DOMAIN i : i[u][field] # unset}
           last(k) == CHOOSE u \in setting : Key[u] = k /\ \A v \in setting : Key[v] = k => v <= u
<1>1. Lines(i, field, unset) = [k \in {Key[u] : u \in setting} |-> i[last(k)][field]]
  BY DEF Lines
<1>2. DOMAIN i \subseteq Targets /\ setting \subseteq Targets
  BY NonEmpty
<1>3. CASE t \in setting
  <2>1. t <= t
    BY <1>2, <1>3, HostAssumption DEF Targets
  <2>2. last(Key[t]) = t
    BY <1>2, <1>3, <2>1 DEF KeysDiffer
  <2> HIDE DEF last
  <2> QED BY <1>1, <1>3, <2>2 DEF LookUp, Found
<1>4. CASE t \notin setting
  <2>1. Key[t] \notin {Key[u] : u \in setting}
    BY <1>2, <1>4 DEF KeysDiffer
  <2> HIDE DEF last
  <2> QED BY <1>1, <1>4, <2>1 DEF LookUp, Found
<1> QED BY <1>3, <1>4

LEMMA FullConfMatches ==
  ASSUME KeysDiffer, NEW i \in Inventories
  PROVE  Matches(FullConf(i), i)
<1> SUFFICES ASSUME NEW t \in DOMAIN i
             PROVE  /\ CommandFor(FullConf(i), t) = Wanted(i[t])
                    /\ DelayFor(FullConf(i), t) = i[t].delay
                    /\ ThresholdFor(FullConf(i), t) = i[t].threshold
  BY DEF Matches, FullConf, Conf
<1>4. Found(i, t, "command", "unset", "home") /\ Found(i, t, "delay", 0, 0)
      /\ Found(i, t, "threshold", 0, 0)
  BY LinesFound, Zenon
<1>0. /\ i[t]["command"] = i[t].command /\ i[t]["delay"] = i[t].delay
      /\ i[t]["threshold"] = i[t].threshold
  <2>1. i[t] \in Settings
    BY InventoryAssumption
  <2> QED BY <2>1 DEF Settings
<1>1. LookUp(Lines(i, "command", "unset"), t, "home") = Wanted(i[t])
  BY <1>0, <1>4 DEF Wanted, Found
<1>2. LookUp(Lines(i, "delay", 0), t, 0) = i[t].delay
  BY <1>0, <1>4 DEF Found
<1>3. LookUp(Lines(i, "threshold", 0), t, 0) = i[t].threshold
  BY <1>0, <1>4 DEF Found
<1> QED BY <1>1, <1>2, <1>3 DEF FullConf, Conf, CommandFor, DelayFor, ThresholdFor

\* If no two targets have one sanitised address: an apply of all hosts without an
\* error has set up every target of its inventory and enabled the daemon, and the
\* daemon has the configuration of the inventory and a command that works for every
\* target, unless an installation over an enabled unit may have been cut
\* (setup-shutdown-daemon.sh, Detect of both roles).
THEOREM AppliesProtect ==
  ASSUME KeysDiffer
  PROVE  Spec => []AppliedProtects
<1>1. IInv /\ Kept => AppliedProtects
  <2> SUFFICES ASSUME IInv, Kept, run = "applied" PROVE AppliedProtects
    BY DEF AppliedProtects
  <2>1. /\ \A h \in Hosts : script[h] = "none"
        /\ \A h \in HostsOf(snapshot) : Begun(h)
    BY DEF IInv, TypeOK, Kept, Scoped, Busy, Begun
  <2>2. script[Daemon] = "none" /\ unit = "enabled" /\ (stops = 0 => active)
    BY <2>1 DEF Kept, Applying, DaemonApplied, HostsOf, Hosts
  <2>3. \A t \in DOMAIN snapshot : Ready(t, snapshot[t])
    BY <2>1, Known DEF IInv, Kept, Applying, TargetApplied, HostsOf, Ready
  <2>4. ASSUME edits = 0, cuts = 0 \/ (cuts = 1 /\ stops = 0)
        PROVE  /\ Matches(conf, inv) /\ \A t \in DOMAIN inv : GoesDown(t)
               /\ active => loaded = conf
    <3>1. conf = FullConf(inv) /\ (active => loaded = conf)
      BY <2>2, <2>4 DEF Kept, Whole, MidWrite
    <3>2. inv \in Inventories /\ snapshot = inv
      BY <2>4 DEF IInv, TypeOK, Kept, Scoped
    <3>3. Matches(conf, inv)
      BY <3>1, <3>2, FullConfMatches
    <3>4. ASSUME NEW t \in DOMAIN inv PROVE GoesDown(t)
      <4>1. t \in sudoers /\ (Scripted(inv[t]) => t \in file)
        BY <2>3, <3>2 DEF Ready
      <4>2. CommandFor(conf, t) = "home" => Scripted(inv[t])
        BY <3>3 DEF Matches, Wanted, Scripted
      <4> QED BY <4>1, <4>2 DEF GoesDown
    <3> QED BY <3>1, <3>3, <3>4
  <2> QED BY <2>2, <2>3, <2>4 DEF AppliedProtects
<1> QED BY <1>1, KeptInvariance, PTL

-----------------------------------------------------------------------------
(* Where the daemon's configuration comes from, whatever is cut or edited.    *)

\* Of the targets with a key the last counts.
LEMMA LastOfTargets ==
  ASSUME NEW T, T \subseteq Targets, T # {}
  PROVE  \E t \in T : \A u \in T : u <= t
<1> DEFINE back == {N - t : t \in T}
           less == OpToRel(<, Nat)
<1>1. T \subseteq 1 .. N /\ N \in Nat
  BY HostAssumption DEF Targets
<1>2. back \subseteq Nat /\ back # {}
  BY <1>1
<1>3. IsWellFoundedOn(less, Nat)
  BY NatLessThanWellFounded, Zenon
<1>4. \A m, n \in Nat : <<m, n>> \in less <=> m < n
  BY DEF OpToRel
<1> HIDE DEF less
<1>5. PICK b \in back : \A a \in back : <<a, b>> \notin less
  BY <1>2, <1>3, WFMin
<1>6. PICK t \in T : b = N - t
  OBVIOUS
<1>7. ASSUME NEW u \in T PROVE u <= t
  <2>1. N - u \in back /\ N - u \in Nat /\ b \in Nat
    BY <1>2
  <2>2. ~(N - u < b)
    BY <1>4, <1>5, <2>1
  <2>3. QED
    BY <1>1, <1>6, <2>2
<1>8. QED
  BY <1>7

\* Every line is that of a target with its key.
LinesOf(lines, field, unset) ==
  \A k \in DOMAIN lines :
    \E i \in Inventories : \E t \in DOMAIN i :
      Key[t] = k /\ lines[k] = i[t][field] /\ i[t][field] # unset

\* The lines generated from an inventory.
LEMMA LinesAreOfTargets ==
  ASSUME NEW i \in Inventories, NEW field, NEW unset
  PROVE  LinesOf(Lines(i, field, unset), field, unset)
<1> DEFINE setting == {t \in DOMAIN i : i[t][field] # unset}
           last(k) == CHOOSE t \in setting : Key[t] = k /\ \A u \in setting : Key[u] = k => u <= t
<1>1. Lines(i, field, unset) = [k \in {Key[t] : t \in setting} |-> i[last(k)][field]]
  BY DEF Lines
<1>2. ASSUME NEW k \in {Key[t] : t \in setting} PROVE last(k) \in setting /\ Key[last(k)] = k
  <2> DEFINE T == {t \in setting : Key[t] = k}
  <2>1. T # {} /\ T \subseteq Targets
    BY NonEmpty
  <2>2. PICK t \in T : \A u \in T : u <= t
    BY <2>1, LastOfTargets
  <2>3. t \in setting /\ Key[t] = k /\ \A u \in setting : Key[u] = k => u <= t
    BY <2>2
  <2>4. QED
    BY <2>3
<1> HIDE DEF last
<1>3. QED
  BY <1>1, <1>2 DEF LinesOf

\* A configuration, whole or half written: the targets of one inventory, and lines
\* that targets have asked for.
ConfOf(c) ==
  /\ c.nodes = {} \/ \E i \in Inventories : c.nodes = DOMAIN i
  /\ LinesOf(c.commands, "command", "unset")
  /\ LinesOf(c.delays, "delay", 0)
  /\ LinesOf(c.thresholds, "threshold", 0)

Sourced == ConfOf(conf) /\ ConfOf(loaded)

\* Each step of the script writes lines of the inventory the run has loaded.
LEMMA NextSourced == TypeOK /\ Sourced /\ [Next]_vars => Sourced'
<1> SUFFICES ASSUME TypeOK, Sourced, [Next]_vars PROVE Sourced'
  OBVIOUS
<1>0. snapshot \in Inventories
  BY DEF TypeOK
<1>1. CASE DaemonStep
  <2>1. CASE WriteHead
    <3>1. LinesOf(NoLines, "command", "unset") /\ LinesOf(NoLines, "delay", 0)
          /\ LinesOf(NoLines, "threshold", 0)
      BY DEF LinesOf, NoLines
    <3>2. QED
      BY <1>0, <2>1, <3>1 DEF WriteHead, WriteConf, Conf, Sourced, ConfOf
  <2>2. CASE AppendCommands
    BY <1>0, <2>2, LinesAreOfTargets DEF AppendCommands, WriteConf, Conf, Sourced, ConfOf
  <2>3. CASE AppendDelays
    BY <1>0, <2>3, LinesAreOfTargets DEF AppendDelays, WriteConf, Conf, Sourced, ConfOf
  <2>4. CASE AppendThresholds
    BY <1>0, <2>4, LinesAreOfTargets DEF AppendThresholds, WriteConf, Conf, Sourced, ConfOf
  <2>5. CASE RemoveConf
    <3>1. ConfOf(NoConf)
      BY DEF LinesOf, NoLines, NoConf, Conf, ConfOf
    <3>2. QED
      BY <2>5, <3>1 DEF RemoveConf, WriteConf, Sourced
  <2>6. CASE RestartDaemon
    BY <2>6 DEF RestartDaemon, Sourced
  <2>7. CASE InstallBinary \/ InstallUnit \/ EnableUnit \/ RemoveUnit \/ RemoveBinary
    BY <2>7 DEF InstallBinary, InstallUnit, EnableUnit, RemoveUnit, RemoveBinary, Sourced
  <2>8. QED
    BY <1>1, <2>1, <2>2, <2>3, <2>4, <2>5, <2>6, <2>7 DEF DaemonStep
<1>2. CASE DaemonStops \/ DaemonRestarts
  BY <1>2 DEF DaemonStops, DaemonRestarts, Sourced
<1>3. CASE Begin(Daemon) \/ Cut(Daemon) \/ EditInventory
  BY <1>3 DEF Begin, Cut, EditInventory, daemonVars, Sourced
<1>4. QED
  BY <1>1, <1>2, <1>3, DaemonAlone DEF daemonVars, Sourced

\* Did a target with the key of t ask for this value?
Asked(t, field, value) ==
  \E i \in Inventories : \E u \in DOMAIN i : Key[u] = Key[t] /\ i[u][field] = value

\* Whatever is cut, edited or restarted, and with half a configuration too, a daemon
\* that runs watches the targets of one inventory, and what it finds for a target is
\* the default or what some target with that sanitised address has asked for: one of
\* the commands it can run, and numbers within their bounds
\* (setup-shutdown-daemon.sh, battery-shutdown.sh).
ReadsWhatWasAsked ==
  /\ active => \E i \in Inventories : loaded.nodes = DOMAIN i
  /\ \A t \in Targets :
       /\ CommandFor(loaded, t) = "home" \/ Asked(t, "command", CommandFor(loaded, t))
       /\ DelayFor(loaded, t) = 0 \/ Asked(t, "delay", DelayFor(loaded, t))
       /\ ThresholdFor(loaded, t) = 0 \/ Asked(t, "threshold", ThresholdFor(loaded, t))
       /\ CommandFor(loaded, t) \in Commands \ {"unset"}
       /\ DelayFor(loaded, t) \in 0 .. 1 /\ ThresholdFor(loaded, t) \in 0 .. 1

\* What the daemon looks up.
LEMMA FoundWasAsked ==
  ASSUME NEW lines, NEW field, NEW unset, NEW default, LinesOf(lines, field, unset),
         NEW t \in Targets
  PROVE  LET found == LookUp(lines, t, default)
         IN  found = default \/ (Asked(t, field, found) /\ found # unset)
BY DEF LinesOf, LookUp, Asked

\* Inventories ask for settings.
LEMMA AskedIsSetting ==
  ASSUME NEW t, NEW value
  PROVE  /\ Asked(t, "command", value) => value \in Commands
         /\ Asked(t, "delay", value) => value \in 0 .. 1
         /\ Asked(t, "threshold", value) => value \in 0 .. 1
<1>1. \A i \in Inventories : \A u \in DOMAIN i :
        /\ i[u]["command"] \in Commands
        /\ i[u]["delay"] \in 0 .. 1 /\ i[u]["threshold"] \in 0 .. 1
  <2>1. \A i \in Inventories : \A u \in DOMAIN i : i[u] \in Settings
    BY InventoryAssumption
  <2>2. \A s \in Settings : /\ s["command"] \in Commands
                          /\ s["delay"] \in 0 .. 1 /\ s["threshold"] \in 0 .. 1
    BY DEF Settings
  <2>3. QED
    BY <2>1, <2>2
<1>2. QED
  BY <1>1 DEF Asked

\* The daemon is told nothing that no inventory has asked for, and nothing it cannot
\* read: what BatteryShutdown assumes of its configuration (remoteCmdsFromInventory,
\* setup-shutdown-daemon.sh, the lookups of battery-shutdown.sh).
THEOREM DaemonIsTold == Spec => []ReadsWhatWasAsked
<1>1. Init => Sourced
  <2>1. ConfOf(NoConf)
    BY DEF LinesOf, NoLines, NoConf, Conf, ConfOf
  <2>2. QED
    BY <2>1 DEF Init, Sourced
<1>2. IInv /\ Sourced => ReadsWhatWasAsked
  <2> SUFFICES ASSUME IInv, Sourced PROVE ReadsWhatWasAsked
    OBVIOUS
  <2>1. active => \E i \in Inventories : loaded.nodes = DOMAIN i
    BY DEF IInv, Ordered, Sourced, ConfOf
  <2>2. ASSUME NEW t \in Targets
        PROVE  /\ CommandFor(loaded, t) = "home"
                    \/ (Asked(t, "command", CommandFor(loaded, t)) /\ CommandFor(loaded, t) # "unset")
               /\ DelayFor(loaded, t) = 0 \/ Asked(t, "delay", DelayFor(loaded, t))
               /\ ThresholdFor(loaded, t) = 0 \/ Asked(t, "threshold", ThresholdFor(loaded, t))
    <3>1. LinesOf(loaded.commands, "command", "unset") /\ LinesOf(loaded.delays, "delay", 0)
          /\ LinesOf(loaded.thresholds, "threshold", 0)
      BY DEF Sourced, ConfOf
    <3>2. CommandFor(loaded, t) = "home"
            \/ (Asked(t, "command", CommandFor(loaded, t)) /\ CommandFor(loaded, t) # "unset")
      BY <3>1, FoundWasAsked DEF CommandFor
    <3>3. DelayFor(loaded, t) = 0 \/ Asked(t, "delay", DelayFor(loaded, t))
      BY <3>1, FoundWasAsked DEF DelayFor
    <3>4. ThresholdFor(loaded, t) = 0 \/ Asked(t, "threshold", ThresholdFor(loaded, t))
      BY <3>1, FoundWasAsked DEF ThresholdFor
    <3>5. QED
      BY <3>2, <3>3, <3>4
  <2>3. QED
    BY <2>1, <2>2, AskedIsSetting DEF ReadsWhatWasAsked, Commands
<1>3. QED
  BY <1>1, <1>2, NextSourced, Typing, Invariance, PTL DEF Spec
=============================================================================
