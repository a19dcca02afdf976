--------------------------- MODULE BatteryShutdown ---------------------------
(***************************************************************************)
(* The battery-shutdown daemon (internal/roles/embedded/                   *)
(* battery-shutdown.sh): a loop that polls upsd and, while the UPS is on   *)
(* battery, walks REMOTE_NODES and sends a shutdown command over SSH to    *)
(* every node whose threshold the charge has crossed.  A lock file per     *)
(* node makes each node a one-shot until the daemon sees mains again.      *)
(*                                                                         *)
(* Several copies of the script may run: the one systemd keeps alive       *)
(* (Live) and dry runs started by hand with --test, by root or the service *)
(* user.  They share LOCK_DIR, which exists only while the service runs.   *)
(* Sleeping between polls is waiting in pc = "status".                     *)
(***************************************************************************)
EXTENDS Integers, Sequences

CONSTANTS
  Names,        \* user@host entries
  Nodes,        \* REMOTE_NODES: the entries in the order of the conf
  Keys,         \* sanitised host names, which name locks and conf variables
  Key,          \* the sanitised host name of each entry
  Threshold,    \* THRESHOLD_<key>, or the global THRESHOLD
  Delayed,      \* the keys with DELAY_<key> > 0
  Procs,        \* running copies of the script
  Live,         \* the copy that is the service; the others run with --test
  LogFile,      \* does the conf set LOG_FILE?
  Forms,        \* how upsd prints battery.charge: "integer" and/or "decimal"
  MaxCharge,    \* bound: levels of charge
  MaxOutages,   \* bound: outages in a behaviour
  MaxRestarts   \* bound: service stops within one outage

ASSUME ConfAssumption ==
  /\ Nodes \in Seq(Names) /\ Nodes # << >>
  /\ Key \in [Names -> Keys]
  /\ MaxCharge \in Nat
  /\ Threshold \in [Keys -> 0 .. MaxCharge]
  /\ Live \in Procs
  /\ Delayed \subseteq Keys
  /\ LogFile \in BOOLEAN
  /\ Forms \subseteq {"integer", "decimal"} /\ Forms # {}
  /\ MaxOutages \in Nat /\ MaxRestarts \in Nat

VARIABLES
  mains,        \* is there mains power?
  charge,       \* battery charge
  upsd,         \* "answers", "silent", or "other": a status with neither OL nor OB
  locks,        \* lock files in LOCK_DIR
  pc,           \* where each copy of the script is
  status,       \* STATUS of each copy
  reading,      \* CHARGE of each copy
  at,           \* position of each copy in REMOTE_NODES
  fires,        \* history: commands sent to each node in the current outage
  sent,         \* history: nodes sent a command since LOCK_DIR was last emptied
  lowest,       \* history: least charge since LOCK_DIR was last emptied
  restarts,     \* history: service stops in the current outage
  outages       \* history: outages so far

env     == <<mains, charge, upsd>>
script  == <<pc, status, reading, at>>
history == <<fires, sent, lowest, restarts, outages>>
vars    == <<env, locks, script, history>>

\* An unset STATUS ("none") or CHARGE ("empty") is the empty string, and
\* [[ -gt ]] evaluates an empty CHARGE to 0.
NoReading == [form |-> "empty", value |-> 0]
Readings  == [form : {"empty", "integer", "decimal"}, value : 0 .. MaxCharge]

Pending == {"alert", "delay", "send", "ssh", "alertFail"}
Places  == {"down", "status", "charge", "decide", "alertOL", "walk"} \cup Pending

\* The step that sends the command is the only one a --test run leaves out.
DryRun(p) == p # Live

HasNode(p)   == at[p] \in 1 .. Len(Nodes)
NodeOf(p)    == Nodes[at[p]]
KeyOf(p)     == Key[NodeOf(p)]

\* Mutant: -lt for -gt.
CrossedBackwards(r, n) == r.form = "decimal" \/ r.value >= Threshold[Key[n]]

\* [[ "$CHARGE" -gt "$NODE_THRESHOLD" ]] is false for a lower charge, and also
\* when CHARGE is not an integer and the test cannot be evaluated.
Crossed(r, n) == r.form = "decimal" \/ r.value <= Threshold[Key[n]]

Init ==
  /\ mains = TRUE /\ charge = MaxCharge /\ upsd = "answers"
  /\ locks = {}
  /\ pc = [p \in Procs |-> "down"]
  /\ status = [p \in Procs |-> "none"]
  /\ reading = [p \in Procs |-> NoReading]
  /\ at = [p \in Procs |-> 0]
  /\ fires = [n \in Names |-> 0]
  /\ sent = {}
  /\ lowest = MaxCharge
  /\ restarts = 0
  /\ outages = 0

-----------------------------------------------------------------------------
(* The power, the battery and upsd.                                        *)

LoseMains ==
  /\ mains /\ outages < MaxOutages
  /\ mains' = FALSE
  /\ outages' = outages + 1
  /\ fires' = [n \in Names |-> 0]
  /\ restarts' = 0
  /\ UNCHANGED <<charge, upsd, locks, script, sent, lowest>>

RestoreMains ==
  /\ ~mains
  /\ mains' = TRUE
  /\ UNCHANGED <<charge, upsd, locks, script, history>>

\* The charge may fall through several thresholds between two polls.
Drain ==
  /\ ~mains
  /\ \E c \in 0 .. (charge - 1) :
        /\ charge' = c
        /\ lowest' = IF c < lowest THEN c ELSE lowest
  /\ UNCHANGED <<mains, upsd, locks, script, fires, sent, restarts, outages>>

Recharge ==
  /\ mains /\ charge < MaxCharge
  /\ charge' = MaxCharge
  /\ UNCHANGED <<mains, upsd, locks, script, history>>

UpsdChanges ==
  /\ upsd' \in {"answers", "silent", "other"} \ {upsd}
  /\ UNCHANGED <<mains, charge, locks, script, history>>

-----------------------------------------------------------------------------
(* The script.                                                             *)

Goto(p, place) == pc' = [pc EXCEPT ![p] = place]

\* Back to the head of the loop; STATUS and CHARGE are assigned before their
\* next use, so their old values are dropped.
Forget(p) ==
  /\ status' = [status EXCEPT ![p] = "none"]
  /\ reading' = [reading EXCEPT ![p] = NoReading]
  /\ at' = [at EXCEPT ![p] = 0]

EndPass(p) == Goto(p, "status") /\ Forget(p)

\* The script is over.
Quit(p) == Goto(p, "down") /\ Forget(p)

NextNode(p) ==
  /\ Goto(p, "walk")
  /\ at' = [at EXCEPT ![p] = @ + 1]
  /\ UNCHANGED <<status, reading>>

\* Under "set -e" a log call without LOG_FILE ends the script: the last
\* command of log() is then a false test, and the first call is in the start-up.
Start(p) ==
  /\ pc[p] = "down"
  /\ LogFile
  /\ Goto(p, "status")
  /\ UNCHANGED <<env, locks, status, reading, at, history>>

\* systemd removes RuntimeDirectory, and the locks in it, when the service
\* stops; a dry run that is interrupted leaves them.
Stop(p) ==
  /\ pc[p] # "down"
  /\ Quit(p)
  /\ IF DryRun(p)
     THEN UNCHANGED <<locks, history>>
     ELSE /\ restarts < MaxRestarts
          /\ restarts' = restarts + 1
          /\ locks' = {} /\ sent' = {} /\ lowest' = charge
          /\ UNCHANGED <<fires, outages>>
  /\ UNCHANGED env

StatusNow ==
  CASE upsd = "silent"  -> "none"
    [] upsd = "other"   -> "other"
    [] upsd = "answers" -> IF mains THEN "OL" ELSE "OB"

\* STATUS and CHARGE are two calls of upsc: the UPS can change in between.
ReadStatus(p) ==
  /\ pc[p] = "status"
  /\ status' = [status EXCEPT ![p] = StatusNow]
  /\ Goto(p, "charge")
  /\ UNCHANGED <<env, locks, reading, at, history>>

ReadCharge(p) ==
  /\ pc[p] = "charge"
  /\ \E f \in Forms :
        reading' = [reading EXCEPT ![p] =
                      IF upsd = "silent" THEN NoReading
                                         ELSE [form |-> f, value |-> charge]]
  /\ Goto(p, "decide")
  /\ UNCHANGED <<env, locks, status, at, history>>

\* Mutant: only STATUS is tested for being empty.
HasStatusOnly(p) == status[p] # "none"

HasData(p) == status[p] # "none" /\ reading[p].form # "empty"

\* A failed poll is counted and skipped; a status that contains neither OL
\* nor OB leads to nothing.
IgnorePoll(p) ==
  /\ pc[p] = "decide"
  /\ ~HasData(p) \/ status[p] = "other"
  /\ EndPass(p)
  /\ UNCHANGED <<env, locks, history>>

\* Mutant: the locks are not removed when mains is back.
KeepLocks(p) ==
  /\ pc[p] = "decide" /\ HasData(p) /\ status[p] = "OL"
  /\ EndPass(p)
  /\ UNCHANGED <<env, locks, history>>

\* The sleep is not reached until the Slack message is out, if there is one.
ClearLocks(p) ==
  /\ pc[p] = "decide" /\ HasData(p) /\ status[p] = "OL"
  /\ locks' = {} /\ sent' = {} /\ lowest' = charge
  /\ IF locks = {} THEN EndPass(p)
                   ELSE Goto(p, "alertOL") /\ UNCHANGED <<status, reading, at>>
  /\ UNCHANGED <<env, fires, restarts, outages>>

StartWalk(p) ==
  /\ pc[p] = "decide" /\ HasData(p) /\ status[p] = "OB"
  /\ Goto(p, "walk")
  /\ at' = [at EXCEPT ![p] = 1]
  /\ UNCHANGED <<env, locks, status, reading, history>>

\* Mutant: the walk does not stop at the end of the list.
WalkOn(p) ==
  /\ pc[p] = "walk" /\ ~HasNode(p)
  /\ NextNode(p)
  /\ UNCHANGED <<env, locks, history>>

FinishWalk(p) ==
  /\ pc[p] = "walk" /\ ~HasNode(p)
  /\ EndPass(p)
  /\ UNCHANGED <<env, locks, history>>

\* Mutant: break for continue.
BreakAtNode(p) ==
  /\ pc[p] = "walk" /\ HasNode(p)
  /\ ~Crossed(reading[p], NodeOf(p)) \/ KeyOf(p) \in locks
  /\ EndPass(p)
  /\ UNCHANGED <<env, locks, history>>

\* Still above the node's threshold, or its lock exists.
SkipNode(p) ==
  /\ pc[p] = "walk" /\ HasNode(p)
  /\ ~Crossed(reading[p], NodeOf(p)) \/ KeyOf(p) \in locks
  /\ NextNode(p)
  /\ UNCHANGED <<env, locks, history>>

\* Mutant: no lock is taken.
CommitUnlocked(p) ==
  /\ pc[p] = "walk" /\ HasNode(p)
  /\ Crossed(reading[p], NodeOf(p)) /\ KeyOf(p) \notin locks
  /\ Goto(p, "alert")
  /\ UNCHANGED <<env, locks, status, reading, at, history>>

\* LOCK_DIR is the RuntimeDirectory of the service.
HasLockDir == pc[Live] # "down"

\* Beside a service that is down, a dry run has no directory to touch a lock in,
\* and set -e ends it.
TouchFails(p) ==
  /\ pc[p] = "walk" /\ HasNode(p)
  /\ Crossed(reading[p], NodeOf(p)) /\ KeyOf(p) \notin locks
  /\ ~HasLockDir
  /\ Quit(p)
  /\ UNCHANGED <<env, locks, history>>

\* The lock is taken before anything is sent.
CommitNode(p) ==
  /\ pc[p] = "walk" /\ HasNode(p)
  /\ Crossed(reading[p], NodeOf(p)) /\ KeyOf(p) \notin locks
  /\ HasLockDir
  /\ locks' = locks \cup {KeyOf(p)}
  /\ Goto(p, "alert")
  /\ UNCHANGED <<env, status, reading, at, history>>

\* Mutant: a node with a delay is left for the next poll.
SkipDelayed(p) ==
  /\ pc[p] = "alert"
  /\ IF KeyOf(p) \in Delayed
     THEN NextNode(p)
     ELSE Goto(p, "send") /\ UNCHANGED <<status, reading, at>>
  /\ UNCHANGED <<env, locks, history>>

\* slack() runs curl in the foreground and ignores its exit code.
AlertSent(p) ==
  /\ pc[p] = "alert"
  /\ Goto(p, IF KeyOf(p) \in Delayed /\ ~DryRun(p) THEN "delay" ELSE "send")
  /\ UNCHANGED <<env, locks, status, reading, at, history>>

DelayOver(p) ==
  /\ pc[p] = "delay"
  /\ Goto(p, "send")
  /\ UNCHANGED <<env, locks, status, reading, at, history>>

\* ssh is started with the STATUS and CHARGE of the start of the pass.
Send(p) ==
  /\ pc[p] = "send"
  /\ IF DryRun(p)
     THEN NextNode(p) /\ UNCHANGED history
     ELSE /\ Goto(p, "ssh")
          /\ fires' = [fires EXCEPT ![NodeOf(p)] = @ + 1]
          /\ sent' = sent \cup {NodeOf(p)}
          /\ UNCHANGED <<status, reading, at, lowest, restarts, outages>>
  /\ UNCHANGED <<env, locks>>

\* Mutant: a failed command is tried again.
RetrySsh(p) ==
  /\ pc[p] = "ssh"
  /\ \/ NextNode(p)
     \/ Goto(p, "send") /\ UNCHANGED <<status, reading, at>>
  /\ UNCHANGED <<env, locks, history>>

\* A script command is detached on the node, so ssh returns at once; an inline
\* one holds ssh until it ends or the connection dies.  Either way a failure is
\* only logged and reported: the lock stays and the node is not tried again.
SshReturns(p) ==
  /\ pc[p] = "ssh"
  /\ \/ NextNode(p)
     \/ Goto(p, "alertFail") /\ UNCHANGED <<status, reading, at>>
  /\ UNCHANGED <<env, locks, history>>

\* curl returns from the report of a failure, or of the return of mains.
ReportSent(p) ==
  /\ \/ pc[p] = "alertFail" /\ NextNode(p)
     \/ pc[p] = "alertOL" /\ EndPass(p)
  /\ UNCHANGED <<env, locks, history>>

Slack(p) == AlertSent(p) \/ ReportSent(p)

\* Everything the script does on its own, without a network peer's answer.
Local(p) ==
  \/ Start(p) \/ ReadStatus(p) \/ ReadCharge(p) \/ IgnorePoll(p)
  \/ ClearLocks(p) \/ StartWalk(p) \/ FinishWalk(p) \/ SkipNode(p)
  \/ TouchFails(p) \/ CommitNode(p) \/ DelayOver(p) \/ Send(p)

Environment == LoseMains \/ RestoreMains \/ Drain \/ Recharge \/ UpsdChanges

Script(p) == Local(p) \/ Slack(p) \/ SshReturns(p) \/ Stop(p)

Next == Environment \/ \E p \in Procs : Script(p)

Spec == Init /\ [][Next]_vars

-----------------------------------------------------------------------------
(* Fairness.  systemd restarts the service and the shell keeps running it; *)
(* curl and ssh return only if the network lets them.                      *)

FairLocal == WF_vars(Local(Live))
FairSlack == WF_vars(Slack(Live))
FairSsh   == WF_vars(SshReturns(Live))

FairSpec     == Spec /\ FairLocal /\ FairSlack /\ FairSsh
FairButSlack == Spec /\ FairLocal /\ FairSsh
FairButSsh   == Spec /\ FairLocal /\ FairSlack

-----------------------------------------------------------------------------
(* Properties.                                                             *)

TypeOK ==
  /\ mains \in BOOLEAN
  /\ charge \in 0 .. MaxCharge
  /\ upsd \in {"answers", "silent", "other"}
  /\ locks \subseteq Keys
  /\ pc \in [Procs -> Places]
  /\ status \in [Procs -> {"none", "OL", "OB", "other"}]
  /\ reading \in [Procs -> Readings]
  /\ at \in [Procs -> 0 .. Len(Nodes) + 1]
  /\ fires \in [Names -> Nat]
  /\ sent \subseteq Names
  /\ lowest \in 0 .. MaxCharge
  /\ restarts \in Nat
  /\ outages \in Nat

\* "Each node is fired at most once per outage" (l.29-30), for as long as the
\* service runs: only a stop of the service can make room for one more command.
AtMostOncePerBoot == \A n \in Names : fires[n] <= 1 + restarts

\* The same without the allowance: what the comment at l.29-30 says.
AtMostOncePerOutage == \A n \in Names : fires[n] <= 1

\* Of two nodes, the one listed first with a threshold no lower is never behind:
\* when the later one is locked, so is the earlier one (staged shutdown).
StagedOrder ==
  \A j \in 1 .. Len(Nodes) : \A i \in 1 .. (j - 1) :
    /\ Threshold[Key[Nodes[i]]] >= Threshold[Key[Nodes[j]]]
    /\ \A m \in 1 .. (j - 1) : Key[Nodes[m]] # Key[Nodes[j]]
    /\ Key[Nodes[j]] \in locks
    => Key[Nodes[i]] \in locks

PendingNode(p, n) == pc[p] \in {"alert", "delay", "send"} /\ NodeOf(p) = n

\* "Already fired this outage" (l.147): the lock of a node means that this node
\* was sent its command, or is about to be, since LOCK_DIR was last emptied.
LockedMeansFired ==
  \A i \in 1 .. Len(Nodes) :
    Key[Nodes[i]] \in locks => Nodes[i] \in sent \/ PendingNode(Live, Nodes[i])

\* "On battery, walk every node and fire any whose own threshold the charge has now
\* crossed and that hasn't fired this outage" (l.132-133): a crossed node the service
\* has walked past has been sent its command, now or before.
CrossedAreFired ==
  pc[Live] = "walk" =>
    \A i \in 1 .. (at[Live] - 1) :
      Crossed(reading[Live], Nodes[i]) => Nodes[i] \in sent

\* "Battery still above this node's threshold - leave it running" (l.143): a node
\* is sent its command only if the battery really was at or below its threshold.
FiredOnlyBelowThreshold ==
  \A n \in sent : lowest <= Threshold[Key[n]]

\* "On battery, walk every node and fire any whose own threshold the charge has
\* now crossed" (l.132-133): a command leaves only while mains is down.
FiredOnlyOnBattery == [][\A n \in Names : fires'[n] > fires[n] => ~mains]_vars

Due(n) == ~mains /\ upsd = "answers" /\ charge <= Threshold[Key[n]]

\* A node whose threshold stays crossed in an outage that lasts is eventually
\* sent its command and stays counted as sent, unless somebody starts a dry run.
DueIsFired ==
  [](\A p \in Procs \ {Live} : pc[p] = "down") =>
    \A i \in 1 .. Len(Nodes) : <>[]Due(Nodes[i]) => <>[](Nodes[i] \in sent)

\* "Clear per-node locks when power is restored so future outages re-trigger"
\* (l.123): when mains stays, every lock goes and none comes back.
MainsClearsLocks == <>[](mains /\ upsd = "answers") => <>[](locks = {})

-----------------------------------------------------------------------------
(* The promise the daemon keeps when no two entries share a lock.          *)

Targets == {Nodes[i] : i \in 1 .. Len(Nodes)}

\* Entries listed before every mention of n, with a threshold no lower.
Stage(n) ==
  {Nodes[i] : i \in {i \in 1 .. Len(Nodes) :
     /\ \A j \in 1 .. Len(Nodes) : Nodes[j] = n => i < j
     /\ Threshold[Key[Nodes[i]]] >= Threshold[Key[n]]}}

Phase(n) ==
  IF Key[n] \notin locks THEN "armed"
  ELSE IF PendingNode(Live, n) THEN "committed" ELSE "shed"

Promise == INSTANCE StagedShedding WITH
  Before <- [n \in Targets |-> Stage(n)],
  phase <- [n \in Targets |-> Phase(n)],
  commands <- [n \in Targets |-> fires[n]]

\* The daemon implements staged shedding: every step of the script is a step
\* of StagedShedding or leaves the targets alone.
KeepsPromise == Promise!Spec
=============================================================================
