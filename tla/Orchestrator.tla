---------------------------- MODULE Orchestrator ----------------------------
(***************************************************************************)
(* One apply, plan or uninstall command: internal/orchestrator and the two *)
(* commands that drive it (internal/cli/apply.go, uninstall.go).           *)
(*                                                                         *)
(* run() spawns a goroutine per host behind a counting semaphore; each     *)
(* opens a connection and walks the roles in roleOrder.  `apply' does that *)
(* twice: a planning run, whose result the user is shown and agrees to,    *)
(* and a run that detects again and applies.  What a role finds and        *)
(* whether it succeeds is left open here (module FleetSetup looks inside). *)
(* Roles are numbered by their place in roleOrder, hosts by their place in *)
(* the targets.                                                            *)
(***************************************************************************)
EXTENDS Integers, FiniteSets

CONSTANTS
  N,               \* number of targets (selectTargets)
  RoleCount,       \* length of roleOrder
  Assigned,        \* Assigned[h]: the roles that apply to host h
  OnlyRoles,       \* the roles an uninstall is limited to (OnlyRole, or all)
  MaxConcurrency,  \* Options.MaxConcurrency
  Commands,        \* the commands looked at
  Flaky,           \* hosts on which opening, detecting or applying may fail
  Hung             \* hosts that may stop answering for ever

Hosts == 1..N
Roles == 1..RoleCount

ASSUME CountAssumption == N \in Nat \ {0} /\ RoleCount \in Nat /\ MaxConcurrency \in Int
ASSUME InventoryAssumption == Assigned \in [Hosts -> SUBSET Roles] /\ OnlyRoles \subseteq Roles
ASSUME CommandAssumption == Commands \subseteq {"plan", "apply", "uninstall"}
ASSUME TroubleAssumption == Flaky \subseteq Hosts /\ Hung \subseteq Hosts

Concurrency ==
  IF MaxConcurrency <= 0 \/ MaxConcurrency > N THEN N ELSE MaxConcurrency

VARIABLES
  command,  \* what the user typed
  phase,    \* "plan" run, "confirm" prompt, "change" run, then "changed" or "over"
  spawned,  \* hosts whose goroutine the loop of run() has started
  sem,      \* tokens in the semaphore
  pc,       \* pc[h]: where the goroutine of h is
  at,       \* at[h]: its place in the walk
  diffs,    \* diffs[h]: roles with a Diff (uninstall: with a Removal)
  due,      \* due[h]: roles whose Diff was not empty (uninstall: handed to Uninstall)
  done,     \* done[h]: roles whose Apply or Uninstall came back without an error
  errors,   \* errors[h]: the kinds of HostResult.Errors
  shown,    \* the result of the planning run that the prompt is about
  executor, \* "none" before a run, "open", "closed"
  exit      \* how the command ended

vars == <<command, phase, spawned, sem, pc, at, diffs, due, done, errors, shown,
          executor, exit>>

Kinds == {"ssh", "plan", "apply", "uninstall"}
Running == phase \in {"plan", "change"}
Changing == phase \in {"change", "changed"}
Working(h) == pc[h] \in {"open", "walk", "work", "leave"}
Nobody == [h \in Hosts |-> {}]

\* What starts with run(): results and goroutines of its own, an executor.
Fresh ==
  /\ spawned' = 0
  /\ sem' = 0
  /\ pc' = [h \in Hosts |-> "idle"]
  /\ at' = [h \in Hosts |-> 1]
  /\ diffs' = Nobody /\ due' = Nobody /\ done' = Nobody /\ errors' = Nobody
  /\ executor' = "open"

Init ==
  /\ command \in Commands
  /\ phase = (IF command = "uninstall" THEN "confirm" ELSE "plan")
  /\ spawned = 0
  /\ sem = 0
  /\ pc = [h \in Hosts |-> "idle"]
  /\ at = [h \in Hosts |-> 1]
  /\ diffs = Nobody /\ due = Nobody /\ done = Nobody /\ errors = Nobody
  /\ shown = Nobody
  /\ executor = (IF command = "uninstall" THEN "none" ELSE "open")
  /\ exit = "none"

\* The role at place p of the walk: uninstallHost walks from the end.
RoleAt(p) == IF command = "uninstall" THEN RoleCount + 1 - p ELSE p

\* The roles of h a walk stops at.
Chosen(h) == IF command = "uninstall" THEN Assigned[h] \cap OnlyRoles ELSE Assigned[h]

-----------------------------------------------------------------------------
\* The goroutine of one host (runHost, uninstallHost).

\* executor.Open: a connection, or an error and the end of the goroutine.
Open(h) ==
  /\ pc[h] = "open"
  /\ \/ pc' = [pc EXCEPT ![h] = "walk"] /\ UNCHANGED errors
     \/ /\ h \in Flaky
        /\ pc' = [pc EXCEPT ![h] = "leave"]
        /\ errors' = [errors EXCEPT ![h] = @ \cup {"ssh"}]
  /\ UNCHANGED <<command, phase, spawned, sem, at, diffs, due, done, shown, executor, exit>>

\* Mutant: the end of roleOrder is passed over.
SkipBeyond(h) ==
  /\ pc[h] = "walk"
  /\ RoleAt(at[h]) \notin Chosen(h)
  /\ at' = [at EXCEPT ![h] = @ + 1]
  /\ UNCHANGED <<command, phase, spawned, sem, pc, diffs, due, done, errors, shown, executor, exit>>

\* A role the host does not have, or the uninstall is not about.
Skip(h) ==
  /\ pc[h] = "walk" /\ at[h] <= RoleCount
  /\ RoleAt(at[h]) \notin Chosen(h)
  /\ at' = [at EXCEPT ![h] = @ + 1]
  /\ UNCHANGED <<command, phase, spawned, sem, pc, diffs, due, done, errors, shown, executor, exit>>

AtRole(h) ==
  /\ pc[h] = "walk" /\ at[h] <= RoleCount
  /\ RoleAt(at[h]) \in Chosen(h)

\* role.Plan fails: recorded, and the next role is tried, in an apply as well.
PlanFails(h) ==
  /\ AtRole(h) /\ h \in Flaky /\ command # "uninstall"
  /\ errors' = [errors EXCEPT ![h] = @ \cup {"plan"}]
  /\ at' = [at EXCEPT ![h] = @ + 1]
  /\ UNCHANGED <<command, phase, spawned, sem, pc, diffs, due, done, shown, executor, exit>>

\* role.Plan finds the role in place: an empty Diff.
PlanNoOp(h) ==
  /\ AtRole(h) /\ command # "uninstall"
  /\ diffs' = [diffs EXCEPT ![h] = @ \cup {RoleAt(at[h])}]
  /\ at' = [at EXCEPT ![h] = @ + 1]
  /\ UNCHANGED <<command, phase, spawned, sem, pc, due, done, errors, shown, executor, exit>>

\* role.Plan finds something to do: listed by a plan, applied by an apply.
PlanDue(h) ==
  /\ AtRole(h) /\ command # "uninstall"
  /\ diffs' = [diffs EXCEPT ![h] = @ \cup {RoleAt(at[h])}]
  /\ due' = [due EXCEPT ![h] = @ \cup {RoleAt(at[h])}]
  /\ IF phase = "plan"
       THEN at' = [at EXCEPT ![h] = @ + 1] /\ UNCHANGED pc
       ELSE pc' = [pc EXCEPT ![h] = "work"] /\ UNCHANGED at
  /\ UNCHANGED <<command, phase, spawned, sem, done, errors, shown, executor, exit>>

\* role.Uninstall is called without a plan.
StartUninstall(h) ==
  /\ AtRole(h) /\ command = "uninstall"
  /\ due' = [due EXCEPT ![h] = @ \cup {RoleAt(at[h])}]
  /\ pc' = [pc EXCEPT ![h] = "work"]
  /\ UNCHANGED <<command, phase, spawned, sem, at, diffs, done, errors, shown, executor, exit>>

\* role.Apply or role.Uninstall comes back.
RoleSucceeds(h) ==
  /\ pc[h] = "work"
  /\ done' = [done EXCEPT ![h] = @ \cup {RoleAt(at[h])}]
  /\ diffs' = [diffs EXCEPT ![h] = @ \cup {RoleAt(at[h])}]
  /\ pc' = [pc EXCEPT ![h] = "walk"]
  /\ at' = [at EXCEPT ![h] = @ + 1]
  /\ UNCHANGED <<command, phase, spawned, sem, due, errors, shown, executor, exit>>

\* Mutant: the error of an Apply is logged and not recorded.
ApplyFailsSilently(h) ==
  /\ pc[h] = "work" /\ command = "apply" /\ h \in Flaky
  /\ pc' = [pc EXCEPT ![h] = "leave"]
  /\ UNCHANGED <<command, phase, spawned, sem, at, diffs, due, done, errors, shown, executor, exit>>

\* Mutant: `continue' where the code returns.
ApplyFailsAndGoesOn(h) ==
  /\ pc[h] = "work" /\ command = "apply" /\ h \in Flaky
  /\ errors' = [errors EXCEPT ![h] = @ \cup {"apply"}]
  /\ pc' = [pc EXCEPT ![h] = "walk"]
  /\ at' = [at EXCEPT ![h] = @ + 1]
  /\ UNCHANGED <<command, phase, spawned, sem, diffs, due, done, shown, executor, exit>>

\* A failed Apply ends the walk.
ApplyFails(h) ==
  /\ pc[h] = "work" /\ command = "apply" /\ h \in Flaky
  /\ errors' = [errors EXCEPT ![h] = @ \cup {"apply"}]
  /\ pc' = [pc EXCEPT ![h] = "leave"]
  /\ UNCHANGED <<command, phase, spawned, sem, at, diffs, due, done, shown, executor, exit>>

\* Mutant: a failed Uninstall ends the walk, like a failed Apply.
UninstallFailsAndStops(h) ==
  /\ pc[h] = "work" /\ command = "uninstall" /\ h \in Flaky
  /\ errors' = [errors EXCEPT ![h] = @ \cup {"uninstall"}]
  /\ pc' = [pc EXCEPT ![h] = "leave"]
  /\ UNCHANGED <<command, phase, spawned, sem, at, diffs, due, done, shown, executor, exit>>

\* A failed Uninstall does not; it too leaves a Removal, of what was removed.
UninstallFails(h) ==
  /\ pc[h] = "work" /\ command = "uninstall" /\ h \in Flaky
  /\ errors' = [errors EXCEPT ![h] = @ \cup {"uninstall"}]
  /\ diffs' = [diffs EXCEPT ![h] = @ \cup {RoleAt(at[h])}]
  /\ pc' = [pc EXCEPT ![h] = "walk"]
  /\ at' = [at EXCEPT ![h] = @ + 1]
  /\ UNCHANGED <<command, phase, spawned, sem, due, done, shown, executor, exit>>

EndOfWalk(h) ==
  /\ pc[h] = "walk" /\ at[h] > RoleCount
  /\ pc' = [pc EXCEPT ![h] = "leave"]
  /\ UNCHANGED <<command, phase, spawned, sem, at, diffs, due, done, errors, shown, executor, exit>>

\* The deferred calls: the token goes back, the wait group counts down.
Leave(h) ==
  /\ pc[h] = "leave"
  /\ sem' = sem - 1
  /\ pc' = [pc EXCEPT ![h] = "gone"]
  /\ UNCHANGED <<command, phase, spawned, at, diffs, due, done, errors, shown, executor, exit>>

HostStep(h) ==
  \/ Open(h) \/ Skip(h) \/ PlanFails(h) \/ PlanNoOp(h) \/ PlanDue(h)
  \/ StartUninstall(h) \/ RoleSucceeds(h) \/ ApplyFails(h) \/ UninstallFails(h)
  \/ EndOfWalk(h) \/ Leave(h)

-----------------------------------------------------------------------------
\* The goroutine of the command.

\* Mutant: the goroutine is started before there is a token for it.
SpawnUnbounded ==
  /\ Running /\ spawned < N
  /\ sem' = sem + 1
  /\ spawned' = spawned + 1
  /\ pc' = [pc EXCEPT ![spawned + 1] = "open"]
  /\ UNCHANGED <<command, phase, at, diffs, due, done, errors, shown, executor, exit>>

\* Mutant: the loop waits for the goroutines it has started.
SpawnOneByOne ==
  /\ Running /\ spawned < N
  /\ sem = 0
  /\ sem' = sem + 1
  /\ spawned' = spawned + 1
  /\ pc' = [pc EXCEPT ![spawned + 1] = "open"]
  /\ UNCHANGED <<command, phase, at, diffs, due, done, errors, shown, executor, exit>>

\* One turn of the loop: the token is taken here, before `go'.
Spawn ==
  /\ Running /\ spawned < N
  /\ sem < Concurrency
  /\ sem' = sem + 1
  /\ spawned' = spawned + 1
  /\ pc' = [pc EXCEPT ![spawned + 1] = "open"]
  /\ UNCHANGED <<command, phase, at, diffs, due, done, errors, shown, executor, exit>>

\* wg.Wait returned.
Joined == Running /\ spawned = N /\ \A h \in Hosts : pc[h] = "gone"

HasErrors == \E h \in Hosts : errors[h] # {}

\* The planning run is over: report, stop on errors or if there is nothing to do.
EndPlan ==
  /\ Joined /\ phase = "plan"
  /\ executor' = "closed"
  /\ IF command = "apply" /\ ~HasErrors /\ \E h \in Hosts : due[h] # {}
       THEN phase' = "confirm" /\ shown' = due /\ UNCHANGED exit
       ELSE phase' = "over" /\ exit' = (IF HasErrors THEN "error" ELSE "ok") /\ UNCHANGED shown
  /\ UNCHANGED <<command, spawned, sem, pc, at, diffs, due, done, errors>>

\* The user agrees (or passed --auto-approve).
Confirm ==
  /\ phase = "confirm"
  /\ phase' = "change"
  /\ Fresh
  /\ UNCHANGED <<command, shown, exit>>

Decline ==
  /\ phase = "confirm"
  /\ phase' = "over"
  /\ exit' = "ok"
  /\ UNCHANGED <<command, spawned, sem, pc, at, diffs, due, done, errors, shown, executor>>

\* The changing run is over: the exit code says what became of it.
EndChange ==
  /\ Joined /\ phase = "change"
  /\ executor' = "closed"
  /\ phase' = "changed"
  /\ exit' \in IF HasErrors THEN {"partial"}
               ELSE IF command = "uninstall" THEN {"ok", "nothing"} ELSE {"ok"}
  /\ UNCHANGED <<command, spawned, sem, pc, at, diffs, due, done, errors, shown>>

CommandStep == Spawn \/ EndPlan \/ Confirm \/ Decline \/ EndChange

Next == CommandStep \/ \E h \in Hosts : HostStep(h)

\* The scheduler runs every goroutine that can run; a hung host may never
\* answer again, and every other call comes back, with an answer or an error.
Fairness ==
  /\ WF_vars(CommandStep)
  /\ \A h \in Hosts \ Hung : WF_vars(HostStep(h))

Spec == Init /\ [][Next]_vars
FairSpec == Spec /\ Fairness

-----------------------------------------------------------------------------
TypeOK ==
  /\ command \in Commands
  /\ phase \in {"plan", "confirm", "change", "changed", "over"}
  /\ spawned \in 0..N
  /\ sem \in Int
  /\ pc \in [Hosts -> {"idle", "open", "walk", "work", "leave", "gone"}]
  /\ at \in [Hosts -> 1..(RoleCount + 1)]
  /\ diffs \in [Hosts -> SUBSET Roles]
  /\ due \in [Hosts -> SUBSET Roles]
  /\ done \in [Hosts -> SUBSET Roles]
  /\ errors \in [Hosts -> SUBSET Kinds]
  /\ shown \in [Hosts -> SUBSET Roles]
  /\ executor \in {"none", "open", "closed"}
  /\ exit \in {"none", "ok", "error", "partial", "nothing"}

\* At most Concurrency hosts are worked on at a time (Options.MaxConcurrency),
\* and a token is held for each of them and for nothing else.
Bounded ==
  /\ sem <= Concurrency
  /\ Cardinality({h \in Hosts : Working(h)}) <= Concurrency

\* The shared connections are closed behind the last goroutine that uses them
\* (defer executor.Close() and wg.Wait() of run()).
ClosedLast == (\E h \in Hosts : Working(h)) => executor = "open"

\* An apply that exits with 0 after its changing run has looked at every role
\* of every target, and has applied to the end whatever was due.
CleanExit ==
  (phase = "changed" /\ command = "apply" /\ exit = "ok") =>
    \A h \in Hosts : diffs[h] = Assigned[h] /\ due[h] = done[h]

\* An uninstall tries every role it is about on every host it can log into,
\* whatever fails on the way ("removals are independent", orchestrator.go).
TriesAll ==
  (phase = "changed" /\ command = "uninstall") =>
    \A h \in Hosts : "ssh" \notin errors[h] => due[h] = Chosen(h)

\* What RoleWalk sees of the state.
Begun == IF Changing THEN due ELSE Nobody
Busy == [h \in Hosts |-> pc[h] = "work"]
Stopped == [h \in Hosts |-> Changing /\ (pc[h] \in {"leave", "gone"} \/ "apply" \in errors[h])]

Promise == INSTANCE RoleWalk WITH agreed <- Changing, backwards <- command = "uninstall",
                                  begun <- Begun, busy <- Busy, stopped <- Stopped

\* Nothing is begun before the user agreed; the roles of a host are begun one
\* at a time and in order, and none after a failed Apply.
KeepsPromise == Promise!Spec

\* Hosts that hang do not keep the others from being worked on, as long as
\* there are fewer of them than MaxConcurrency lets in; and if they answer after
\* all, the command comes to its end.
Finishes ==
  /\ \A h \in Hosts \ Hung : Running ~> pc[h] = "gone"
  /\ (\A h \in Hung : WF_vars(HostStep(h))) => <>(phase \in {"changed", "over"})

\* "Don't continue to subsequent roles on the same host once one fails"
\* (orchestrator.go, runHost).
StopsAtFailure ==
  [][\A h \in Hosts :
       phase = "change" /\ command = "apply" /\ errors[h] # {} => due'[h] = due[h]]_vars

\* "Plan first so the user sees what's about to happen" (apply.go): what is
\* applied is what the prompt was about.
AppliesWhatWasShown ==
  (phase = "change" /\ command = "apply") => \A h \in Hosts : due[h] \subseteq shown[h]
=============================================================================
