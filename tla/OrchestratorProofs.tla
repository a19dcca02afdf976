------------------------- MODULE OrchestratorProofs -------------------------
(***************************************************************************)
(* The concurrency bound, the order of shutting down the executor, what an *)
(* exit code of 0 stands for, and the promise of RoleWalk, for any number  *)
(* of hosts and roles.                                                     *)
(***************************************************************************)
EXTENDS Orchestrator, FiniteSetTheorems, TLAPS

Workers == {h \in Hosts : Working(h)}

\* The tokens in the semaphore are those of the goroutines at work.
TokenInv == sem = Cardinality(Workers) /\ sem <= Concurrency

\* Goroutines are at work in a run only, behind the loop that spawned them,
\* and the executor of the run is open.
PhaseInv ==
  /\ Running => executor = "open"
  /\ phase = "plan" => command # "uninstall"
  /\ \A h \in Hosts :
       /\ Working(h) => Running
       /\ pc[h] = "work" => phase = "change" /\ at[h] <= RoleCount
       /\ (Running /\ spawned < h) => pc[h] = "idle"
       /\ phase = "changed" => pc[h] = "gone"

\* The books of one host of an apply: what was passed has a Diff, what was due
\* is done or under work, unless an error says otherwise.
Books(h) ==
  /\ diffs[h] \subseteq Assigned[h]
  /\ done[h] \subseteq due[h]
  /\ pc[h] = "work" => at[h] \in due[h] \cap diffs[h]
  /\ "plan" \notin errors[h] => \A r \in Assigned[h] : r < at[h] => r \in diffs[h]
  /\ errors[h] = {} => \A r \in due[h] : r \in done[h] \/ (pc[h] = "work" /\ r = at[h])
  /\ (pc[h] \in {"leave", "gone"} /\ errors[h] = {}) => at[h] = RoleCount + 1

ApplyInv ==
  (command = "apply" /\ phase \in {"change", "changed"}) => \A h \in Hosts : Books(h)

ExitInv == (phase = "changed" /\ exit = "ok") => \A h \in Hosts : errors[h] = {}

\* What was begun on a host lies behind its place in the walk.
WalkInv ==
  Changing => \A h \in Hosts :
    /\ \A r \in due[h] :
         \/ IF command = "uninstall" THEN RoleCount + 1 - r < at[h] ELSE r < at[h]
         \/ r = RoleAt(at[h]) /\ pc[h] \in {"work", "leave", "gone"}
    /\ "apply" \in errors[h] => pc[h] \in {"leave", "gone"}

\* What an uninstall is about and has passed on a host it could log into was begun.
RemovalInv ==
  (command = "uninstall" /\ phase \in {"change", "changed"}) =>
    \A h \in Hosts : "ssh" \notin errors[h] =>
      /\ due[h] \subseteq Chosen(h)
      /\ \A r \in Chosen(h) : RoleCount + 1 - r < at[h] => r \in due[h]
      /\ pc[h] = "work" => RoleAt(at[h]) \in due[h]
      /\ pc[h] \in {"leave", "gone"} => at[h] = RoleCount + 1

IInv == TypeOK /\ TokenInv /\ PhaseInv /\ ApplyInv /\ ExitInv /\ WalkInv /\ RemovalInv

-----------------------------------------------------------------------------
\* The number of goroutines at a time is a positive number.
LEMMA ConcurrencyIsNat == Concurrency \in Nat \ {0}
  BY CountAssumption DEF Concurrency

\* The initial states satisfy the invariant.
LEMMA InitIInv == Init => IInv
<1> SUFFICES ASSUME Init PROVE IInv
  OBVIOUS
<1>1. TypeOK
  BY CountAssumption, CommandAssumption DEF Init, TypeOK, Nobody, Kinds, Roles
<1>2. TokenInv
  <2>1. Workers = {}
    BY DEF Init, Workers, Working
  <2> QED BY <2>1, FS_EmptySet, ConcurrencyIsNat DEF Init, TokenInv
<1>3. PhaseInv
  BY DEF Init, PhaseInv, Running, Working
<1>4. ApplyInv /\ ExitInv /\ WalkInv /\ RemovalInv
  BY DEF Init, ApplyInv, ExitInv, WalkInv, RemovalInv, Changing
<1> QED BY <1>1, <1>2, <1>3, <1>4 DEF IInv

\* Every step keeps the variables in their ranges.
LEMMA TypeStep ==
  ASSUME TypeOK, PhaseInv, [Next]_vars
  PROVE  TypeOK'
<1> USE CountAssumption, InventoryAssumption, CommandAssumption
<1>1. ASSUME NEW g \in Hosts, Open(g) PROVE TypeOK'
  <2>1. pc' \in [Hosts -> {"idle", "open", "walk", "work", "leave", "gone"}]
    BY <1>1 DEF TypeOK, Open, Kinds, Roles
  <2>2. errors' \in [Hosts -> SUBSET Kinds]
    BY <1>1 DEF TypeOK, Open, Kinds, Roles
  <2> QED BY <1>1, <2>1, <2>2 DEF TypeOK, Open
<1>2. ASSUME NEW g \in Hosts, Skip(g) PROVE TypeOK'
  BY <1>2 DEF TypeOK, Nobody, Kinds, Roles, Chosen, RoleAt, PhaseInv, Hosts, Skip
<1>3. ASSUME NEW g \in Hosts, PlanFails(g) PROVE TypeOK'
  BY <1>3 DEF TypeOK, Nobody, Kinds, Roles, Chosen, RoleAt, PhaseInv, Hosts, PlanFails, AtRole
<1>4. ASSUME NEW g \in Hosts, PlanNoOp(g) PROVE TypeOK'
  BY <1>4 DEF TypeOK, Nobody, Kinds, Roles, Chosen, RoleAt, PhaseInv, Hosts, PlanNoOp, AtRole
<1>5. ASSUME NEW g \in Hosts, PlanDue(g) PROVE TypeOK'
  <2>1. pc' \in [Hosts -> {"idle", "open", "walk", "work", "leave", "gone"}]
    BY <1>5 DEF TypeOK, PlanDue, Kinds, Roles, AtRole, Chosen, RoleAt
  <2>2. at' \in [Hosts -> 1..(RoleCount + 1)]
    BY <1>5 DEF TypeOK, PlanDue, Kinds, Roles, AtRole, Chosen, RoleAt
  <2>3. diffs' \in [Hosts -> SUBSET Roles] /\ due' \in [Hosts -> SUBSET Roles]
    BY <1>5 DEF TypeOK, PlanDue, Kinds, Roles, AtRole, Chosen, RoleAt
  <2> QED BY <1>5, <2>1, <2>2, <2>3 DEF TypeOK, PlanDue
<1>6. ASSUME NEW g \in Hosts, StartUninstall(g) PROVE TypeOK'
  BY <1>6 DEF TypeOK, Nobody, Kinds, Roles, Chosen, RoleAt, PhaseInv, Hosts, StartUninstall, AtRole
<1>7. ASSUME NEW g \in Hosts, RoleSucceeds(g) PROVE TypeOK'
  BY <1>7 DEF TypeOK, Nobody, Kinds, Roles, Chosen, RoleAt, PhaseInv, Hosts, RoleSucceeds
<1>8. ASSUME NEW g \in Hosts, ApplyFails(g) PROVE TypeOK'
  BY <1>8 DEF TypeOK, Nobody, Kinds, Roles, Chosen, RoleAt, PhaseInv, Hosts, ApplyFails
<1>9. ASSUME NEW g \in Hosts, UninstallFails(g) PROVE TypeOK'
  BY <1>9 DEF TypeOK, Nobody, Kinds, Roles, Chosen, RoleAt, PhaseInv, Hosts, UninstallFails
<1>10. ASSUME NEW g \in Hosts, EndOfWalk(g) PROVE TypeOK'
  BY <1>10 DEF TypeOK, Nobody, Kinds, Roles, Chosen, RoleAt, PhaseInv, Hosts, EndOfWalk
<1>11. ASSUME NEW g \in Hosts, Leave(g) PROVE TypeOK'
  BY <1>11 DEF TypeOK, Nobody, Kinds, Roles, Chosen, RoleAt, PhaseInv, Hosts, Leave
<1>12. CASE Spawn
  BY <1>12 DEF TypeOK, Nobody, Kinds, Roles, Chosen, RoleAt, PhaseInv, Hosts, Spawn
<1>13. CASE EndPlan
  BY <1>13 DEF TypeOK, Nobody, Kinds, Roles, Chosen, RoleAt, PhaseInv, Hosts, EndPlan, Joined, HasErrors
<1>14. CASE Confirm
  BY <1>14 DEF TypeOK, Nobody, Kinds, Roles, Chosen, RoleAt, PhaseInv, Hosts, Confirm, Fresh
<1>15. CASE Decline
  BY <1>15 DEF TypeOK, Nobody, Kinds, Roles, Chosen, RoleAt, PhaseInv, Hosts, Decline
<1>16. CASE EndChange
  BY <1>16 DEF TypeOK, Nobody, Kinds, Roles, Chosen, RoleAt, PhaseInv, Hosts, EndChange, Joined, HasErrors
<1>17. CASE UNCHANGED vars
  BY <1>17 DEF TypeOK, Nobody, Kinds, Roles, Chosen, RoleAt, PhaseInv, Hosts, vars
<1> QED BY <1>1, <1>2, <1>3, <1>4, <1>5, <1>6, <1>7, <1>8, <1>9, <1>10, <1>11, <1>12, <1>13, <1>14, <1>15, <1>16, <1>17 DEF Next, CommandStep, HostStep

\* Every step keeps the goroutines inside their run.
LEMMA PhaseStep ==
  ASSUME TypeOK, PhaseInv, [Next]_vars
  PROVE  PhaseInv'
<1> USE CountAssumption, InventoryAssumption
<1>1. ASSUME NEW g \in Hosts, Open(g) PROVE PhaseInv'
  BY <1>1 DEF PhaseInv, TypeOK, Running, Working, Hosts, Open
<1>2. ASSUME NEW g \in Hosts, Skip(g) PROVE PhaseInv'
  BY <1>2 DEF PhaseInv, TypeOK, Running, Working, Hosts, Skip
<1>3. ASSUME NEW g \in Hosts, PlanFails(g) PROVE PhaseInv'
  BY <1>3 DEF PhaseInv, TypeOK, Running, Working, Hosts, PlanFails, AtRole
<1>4. ASSUME NEW g \in Hosts, PlanNoOp(g) PROVE PhaseInv'
  BY <1>4 DEF PhaseInv, TypeOK, Running, Working, Hosts, PlanNoOp, AtRole
<1>5. ASSUME NEW g \in Hosts, PlanDue(g) PROVE PhaseInv'
  BY <1>5 DEF PhaseInv, TypeOK, Running, Working, Hosts, PlanDue, AtRole
<1>6. ASSUME NEW g \in Hosts, StartUninstall(g) PROVE PhaseInv'
  BY <1>6 DEF PhaseInv, TypeOK, Running, Working, Hosts, StartUninstall, AtRole
<1>7. ASSUME NEW g \in Hosts, RoleSucceeds(g) PROVE PhaseInv'
  BY <1>7 DEF PhaseInv, TypeOK, Running, Working, Hosts, RoleSucceeds
<1>8. ASSUME NEW g \in Hosts, ApplyFails(g) PROVE PhaseInv'
  BY <1>8 DEF PhaseInv, TypeOK, Running, Working, Hosts, ApplyFails
<1>9. ASSUME NEW g \in Hosts, UninstallFails(g) PROVE PhaseInv'
  BY <1>9 DEF PhaseInv, TypeOK, Running, Working, Hosts, UninstallFails
<1>10. ASSUME NEW g \in Hosts, EndOfWalk(g) PROVE PhaseInv'
  BY <1>10 DEF PhaseInv, TypeOK, Running, Working, Hosts, EndOfWalk
<1>11. ASSUME NEW g \in Hosts, Leave(g) PROVE PhaseInv'
  BY <1>11 DEF PhaseInv, TypeOK, Running, Working, Hosts, Leave
<1>12. CASE Spawn
  BY <1>12 DEF PhaseInv, TypeOK, Running, Working, Hosts, Spawn
<1>13. CASE EndPlan
  BY <1>13 DEF PhaseInv, TypeOK, Running, Working, Hosts, EndPlan, Joined, HasErrors
<1>14. CASE Confirm
  BY <1>14 DEF PhaseInv, TypeOK, Running, Working, Hosts, Confirm, Fresh
<1>15. CASE Decline
  BY <1>15 DEF PhaseInv, TypeOK, Running, Working, Hosts, Decline
<1>16. CASE EndChange
  BY <1>16 DEF PhaseInv, TypeOK, Running, Working, Hosts, EndChange, Joined, HasErrors
<1>17. CASE UNCHANGED vars
  BY <1>17 DEF PhaseInv, TypeOK, Running, Working, Hosts, vars
<1> QED BY <1>1, <1>2, <1>3, <1>4, <1>5, <1>6, <1>7, <1>8, <1>9, <1>10, <1>11, <1>12, <1>13, <1>14, <1>15, <1>16, <1>17 DEF Next, CommandStep, HostStep

\* A goroutine that goes on holds its token.
LEMMA SameWorkers ==
  ASSUME TokenInv, sem' = sem, \A h \in Hosts : Working(h)' = Working(h)
  PROVE  TokenInv'
<1>1. Workers' = Workers
  BY DEF Workers
<1> QED BY <1>1 DEF TokenInv, Concurrency

\* Every step keeps one token for each goroutine at work.
LEMMA TokenStep ==
  ASSUME TypeOK, PhaseInv, TokenInv, [Next]_vars
  PROVE  TokenInv'
<1>0. IsFiniteSet(Workers)
  <2>1. IsFiniteSet(Hosts)
    BY CountAssumption, FS_Interval DEF Hosts
  <2> QED BY <2>1, FS_Subset DEF Workers
<1>1. ASSUME NEW g \in Hosts, Open(g) PROVE TokenInv'
  BY <1>1, SameWorkers DEF TypeOK, Open, Working
<1>2. ASSUME NEW g \in Hosts, Skip(g) PROVE TokenInv'
  BY <1>2, SameWorkers DEF TypeOK, Skip, Working
<1>3. ASSUME NEW g \in Hosts, PlanFails(g) PROVE TokenInv'
  BY <1>3, SameWorkers DEF TypeOK, PlanFails, Working, AtRole
<1>4. ASSUME NEW g \in Hosts, PlanNoOp(g) PROVE TokenInv'
  BY <1>4, SameWorkers DEF TypeOK, PlanNoOp, Working, AtRole
<1>5. ASSUME NEW g \in Hosts, PlanDue(g) PROVE TokenInv'
  BY <1>5, SameWorkers DEF TypeOK, PlanDue, Working, AtRole
<1>6. ASSUME NEW g \in Hosts, StartUninstall(g) PROVE TokenInv'
  BY <1>6, SameWorkers DEF TypeOK, StartUninstall, Working, AtRole
<1>7. ASSUME NEW g \in Hosts, RoleSucceeds(g) PROVE TokenInv'
  BY <1>7, SameWorkers DEF TypeOK, RoleSucceeds, Working
<1>8. ASSUME NEW g \in Hosts, ApplyFails(g) PROVE TokenInv'
  BY <1>8, SameWorkers DEF TypeOK, ApplyFails, Working
<1>9. ASSUME NEW g \in Hosts, UninstallFails(g) PROVE TokenInv'
  BY <1>9, SameWorkers DEF TypeOK, UninstallFails, Working
<1>10. ASSUME NEW g \in Hosts, EndOfWalk(g) PROVE TokenInv'
  BY <1>10, SameWorkers DEF TypeOK, EndOfWalk, Working
<1>11. ASSUME NEW g \in Hosts, Leave(g) PROVE TokenInv'
  <2>1. g \in Workers /\ Workers' = Workers \ {g}
    BY <1>11 DEF TypeOK, Leave, Workers, Working
  <2>2. sem' = sem - 1 /\ sem \in Int
    BY <1>11 DEF Leave, TypeOK
  <2> QED BY <2>1, <2>2, <1>0, FS_RemoveElement, ConcurrencyIsNat DEF TokenInv
<1>12. CASE Spawn
  <2> DEFINE g == spawned + 1
  <2>1. g \in Hosts /\ g \notin Workers
    BY <1>12, CountAssumption DEF TypeOK, PhaseInv, Spawn, Workers, Working, Hosts
  <2>2. Workers' = Workers \cup {g}
    BY <1>12, <2>1 DEF TypeOK, Spawn, Workers, Working
  <2>3. sem' = sem + 1 /\ sem < Concurrency /\ sem \in Int
    BY <1>12 DEF Spawn, TypeOK
  <2> HIDE DEF g
  <2> QED BY <2>1, <2>2, <2>3, <1>0, FS_AddElement, ConcurrencyIsNat DEF TokenInv
<1>13. CASE EndPlan
  BY <1>13, SameWorkers DEF TypeOK, EndPlan, Working
<1>14. CASE Confirm
  <2>1. Workers' = {} /\ sem' = 0
    BY <1>14 DEF Confirm, Fresh, Workers, Working
  <2> QED BY <2>1, FS_EmptySet, ConcurrencyIsNat DEF TokenInv, Concurrency
<1>15. CASE Decline
  BY <1>15, SameWorkers DEF TypeOK, Decline, Working
<1>16. CASE EndChange
  BY <1>16, SameWorkers DEF TypeOK, EndChange, Working
<1>17. CASE UNCHANGED vars
  BY <1>17, SameWorkers DEF vars, Working
<1> QED BY <1>1, <1>2, <1>3, <1>4, <1>5, <1>6, <1>7, <1>8, <1>9, <1>10, <1>11, <1>12, <1>13, <1>14, <1>15, <1>16, <1>17 DEF Next, CommandStep, HostStep

\* Every step keeps the books of an apply.
LEMMA ApplyStep ==
  ASSUME TypeOK, PhaseInv, ApplyInv, [Next]_vars
  PROVE  ApplyInv'
<1> USE CountAssumption, InventoryAssumption
<1>1. ASSUME NEW g \in Hosts, Open(g) PROVE ApplyInv'
  <2>1. SUFFICES ASSUME command' = "apply", phase' \in {"change", "changed"}, NEW h \in Hosts
                 PROVE  Books(h)'
    BY DEF ApplyInv
  <2>2. Books(h) /\ at[h] \in Nat
    BY <1>1, <2>1 DEF ApplyInv, Open, TypeOK, Roles
  <2>3. CASE h # g
    BY <1>1, <2>2, <2>3 DEF Books, Open, TypeOK
  <2>4. CASE h = g
    BY <1>1, <2>1, <2>2, <2>4 DEF Books, Open, PhaseInv, TypeOK, Roles, RoleAt, Chosen
  <2> QED BY <2>3, <2>4
<1>2. ASSUME NEW g \in Hosts, Skip(g) PROVE ApplyInv'
  <2>1. SUFFICES ASSUME command' = "apply", phase' \in {"change", "changed"}, NEW h \in Hosts
                 PROVE  Books(h)'
    BY DEF ApplyInv
  <2>2. Books(h) /\ at[h] \in Nat
    BY <1>2, <2>1 DEF ApplyInv, Skip, TypeOK, Roles
  <2>3. CASE h # g
    BY <1>2, <2>2, <2>3 DEF Books, Skip, TypeOK
  <2>4. CASE h = g
    BY <1>2, <2>1, <2>2, <2>4 DEF Books, Skip, PhaseInv, TypeOK, Roles, RoleAt, Chosen
  <2> QED BY <2>3, <2>4
<1>3. ASSUME NEW g \in Hosts, PlanFails(g) PROVE ApplyInv'
  BY <1>3 DEF ApplyInv, Books, PhaseInv, TypeOK, Nobody, Kinds, Roles, Chosen, RoleAt, PlanFails, AtRole
<1>4. ASSUME NEW g \in Hosts, PlanNoOp(g) PROVE ApplyInv'
  <2>1. SUFFICES ASSUME command' = "apply", phase' \in {"change", "changed"}, NEW h \in Hosts
                 PROVE  Books(h)'
    BY DEF ApplyInv
  <2>2. Books(h) /\ at[h] \in Nat
    BY <1>4, <2>1 DEF ApplyInv, PlanNoOp, TypeOK, Roles
  <2>3. CASE h # g
    BY <1>4, <2>2, <2>3 DEF Books, PlanNoOp, TypeOK
  <2>4. CASE h = g
    BY <1>4, <2>1, <2>2, <2>4 DEF Books, PlanNoOp, AtRole, PhaseInv, TypeOK, Roles, RoleAt, Chosen
  <2> QED BY <2>3, <2>4
<1>5. ASSUME NEW g \in Hosts, PlanDue(g) PROVE ApplyInv'
  BY <1>5 DEF ApplyInv, Books, PhaseInv, TypeOK, Nobody, Kinds, Roles, Chosen, RoleAt, PlanDue, AtRole
<1>6. ASSUME NEW g \in Hosts, StartUninstall(g) PROVE ApplyInv'
  BY <1>6 DEF ApplyInv, Books, PhaseInv, TypeOK, Nobody, Kinds, Roles, Chosen, RoleAt, StartUninstall, AtRole
<1>7. ASSUME NEW g \in Hosts, RoleSucceeds(g) PROVE ApplyInv'
  <2>1. SUFFICES ASSUME command' = "apply", phase' \in {"change", "changed"}, NEW h \in Hosts
                 PROVE  Books(h)'
    BY DEF ApplyInv
  <2>2. Books(h) /\ at[h] \in Nat
    BY <1>7, <2>1 DEF ApplyInv, RoleSucceeds, TypeOK, Roles
  <2>3. CASE h # g
    BY <1>7, <2>2, <2>3 DEF Books, RoleSucceeds, TypeOK
  <2>4. CASE h = g
    BY <1>7, <2>1, <2>2, <2>4 DEF Books, RoleSucceeds, PhaseInv, TypeOK, Roles, RoleAt, Chosen
  <2> QED BY <2>3, <2>4
<1>8. ASSUME NEW g \in Hosts, ApplyFails(g) PROVE ApplyInv'
  BY <1>8 DEF ApplyInv, Books, PhaseInv, TypeOK, Nobody, Kinds, Roles, Chosen, RoleAt, ApplyFails
<1>9. ASSUME NEW g \in Hosts, UninstallFails(g) PROVE ApplyInv'
  BY <1>9 DEF ApplyInv, Books, PhaseInv, TypeOK, Nobody, Kinds, Roles, Chosen, RoleAt, UninstallFails
<1>10. ASSUME NEW g \in Hosts, EndOfWalk(g) PROVE ApplyInv'
  BY <1>10 DEF ApplyInv, Books, PhaseInv, TypeOK, Nobody, Kinds, Roles, Chosen, RoleAt, EndOfWalk
<1>11. ASSUME NEW g \in Hosts, Leave(g) PROVE ApplyInv'
  BY <1>11 DEF ApplyInv, Books, PhaseInv, TypeOK, Nobody, Kinds, Roles, Chosen, RoleAt, Leave
<1>12. CASE Spawn
  BY <1>12 DEF ApplyInv, Books, PhaseInv, TypeOK, Nobody, Kinds, Roles, Chosen, RoleAt, Spawn
<1>13. CASE EndPlan
  BY <1>13 DEF ApplyInv, Books, PhaseInv, TypeOK, Nobody, Kinds, Roles, Chosen, RoleAt, EndPlan, Joined, HasErrors
<1>14. CASE Confirm
  BY <1>14 DEF ApplyInv, Books, PhaseInv, TypeOK, Nobody, Kinds, Roles, Chosen, RoleAt, Confirm, Fresh
<1>15. CASE Decline
  BY <1>15 DEF ApplyInv, Books, PhaseInv, TypeOK, Nobody, Kinds, Roles, Chosen, RoleAt, Decline
<1>16. CASE EndChange
  BY <1>16 DEF ApplyInv, Books, PhaseInv, TypeOK, Nobody, Kinds, Roles, Chosen, RoleAt, EndChange, Joined, HasErrors
<1>17. CASE UNCHANGED vars
  BY <1>17 DEF ApplyInv, Books, PhaseInv, TypeOK, Nobody, Kinds, Roles, Chosen, RoleAt, vars
<1> QED BY <1>1, <1>2, <1>3, <1>4, <1>5, <1>6, <1>7, <1>8, <1>9, <1>10, <1>11, <1>12, <1>13, <1>14, <1>15, <1>16, <1>17 DEF Next, CommandStep, HostStep

\* Every step keeps the exit code in line with the errors.
LEMMA ExitStep ==
  ASSUME TypeOK, PhaseInv, ExitInv, [Next]_vars
  PROVE  ExitInv'
<1>1. ASSUME NEW g \in Hosts, Open(g) PROVE ExitInv'
  BY <1>1 DEF ExitInv, PhaseInv, TypeOK, Running, Working, Open
<1>2. ASSUME NEW g \in Hosts, Skip(g) PROVE ExitInv'
  BY <1>2 DEF ExitInv, PhaseInv, TypeOK, Running, Working, Skip
<1>3. ASSUME NEW g \in Hosts, PlanFails(g) PROVE ExitInv'
  BY <1>3 DEF ExitInv, PhaseInv, TypeOK, Running, Working, PlanFails, AtRole
<1>4. ASSUME NEW g \in Hosts, PlanNoOp(g) PROVE ExitInv'
  BY <1>4 DEF ExitInv, PhaseInv, TypeOK, Running, Working, PlanNoOp, AtRole
<1>5. ASSUME NEW g \in Hosts, PlanDue(g) PROVE ExitInv'
  BY <1>5 DEF ExitInv, PhaseInv, TypeOK, Running, Working, PlanDue, AtRole
<1>6. ASSUME NEW g \in Hosts, StartUninstall(g) PROVE ExitInv'
  BY <1>6 DEF ExitInv, PhaseInv, TypeOK, Running, Working, StartUninstall, AtRole
<1>7. ASSUME NEW g \in Hosts, RoleSucceeds(g) PROVE ExitInv'
  BY <1>7 DEF ExitInv, PhaseInv, TypeOK, Running, Working, RoleSucceeds
<1>8. ASSUME NEW g \in Hosts, ApplyFails(g) PROVE ExitInv'
  BY <1>8 DEF ExitInv, PhaseInv, TypeOK, Running, Working, ApplyFails
<1>9. ASSUME NEW g \in Hosts, UninstallFails(g) PROVE ExitInv'
  BY <1>9 DEF ExitInv, PhaseInv, TypeOK, Running, Working, UninstallFails
<1>10. ASSUME NEW g \in Hosts, EndOfWalk(g) PROVE ExitInv'
  BY <1>10 DEF ExitInv, PhaseInv, TypeOK, Running, Working, EndOfWalk
<1>11. ASSUME NEW g \in Hosts, Leave(g) PROVE ExitInv'
  BY <1>11 DEF ExitInv, PhaseInv, TypeOK, Running, Working, Leave
<1>12. CASE Spawn
  BY <1>12 DEF ExitInv, PhaseInv, TypeOK, Running, Working, Spawn
<1>13. CASE EndPlan
  BY <1>13 DEF ExitInv, PhaseInv, TypeOK, Running, Working, EndPlan, Joined, HasErrors
<1>14. CASE Confirm
  BY <1>14 DEF ExitInv, PhaseInv, TypeOK, Running, Working, Confirm, Fresh
<1>15. CASE Decline
  BY <1>15 DEF ExitInv, PhaseInv, TypeOK, Running, Working, Decline
<1>16. CASE EndChange
  BY <1>16 DEF ExitInv, PhaseInv, TypeOK, Running, Working, EndChange, Joined, HasErrors
<1>17. CASE UNCHANGED vars
  BY <1>17 DEF ExitInv, PhaseInv, TypeOK, Running, Working, vars
<1> QED BY <1>1, <1>2, <1>3, <1>4, <1>5, <1>6, <1>7, <1>8, <1>9, <1>10, <1>11, <1>12, <1>13, <1>14, <1>15, <1>16, <1>17 DEF Next, CommandStep, HostStep

\* Every step keeps what was begun behind the place in the walk.
LEMMA WalkStep ==
  ASSUME TypeOK, PhaseInv, WalkInv, [Next]_vars
  PROVE  WalkInv'
<1> USE CountAssumption, InventoryAssumption
<1>1. ASSUME NEW g \in Hosts, Open(g) PROVE WalkInv'
  BY <1>1 DEF WalkInv, PhaseInv, Changing, Running, Working, TypeOK, Nobody, Kinds, Roles, Chosen, RoleAt, Open
<1>2. ASSUME NEW g \in Hosts, Skip(g) PROVE WalkInv'
  BY <1>2 DEF WalkInv, PhaseInv, Changing, Running, Working, TypeOK, Nobody, Kinds, Roles, Chosen, RoleAt, Skip
<1>3. ASSUME NEW g \in Hosts, PlanFails(g) PROVE WalkInv'
  BY <1>3 DEF WalkInv, PhaseInv, Changing, Running, Working, TypeOK, Nobody, Kinds, Roles, Chosen, RoleAt, PlanFails, AtRole
<1>4. ASSUME NEW g \in Hosts, PlanNoOp(g) PROVE WalkInv'
  BY <1>4 DEF WalkInv, PhaseInv, Changing, Running, Working, TypeOK, Nobody, Kinds, Roles, Chosen, RoleAt, PlanNoOp, AtRole
<1>5. ASSUME NEW g \in Hosts, PlanDue(g) PROVE WalkInv'
  BY <1>5 DEF WalkInv, PhaseInv, Changing, Running, Working, TypeOK, Nobody, Kinds, Roles, Chosen, RoleAt, PlanDue, AtRole
<1>6. ASSUME NEW g \in Hosts, StartUninstall(g) PROVE WalkInv'
  BY <1>6 DEF WalkInv, PhaseInv, Changing, Running, Working, TypeOK, Nobody, Kinds, Roles, Chosen, RoleAt, StartUninstall, AtRole
<1>7. ASSUME NEW g \in Hosts, RoleSucceeds(g) PROVE WalkInv'
  BY <1>7 DEF WalkInv, PhaseInv, Changing, Running, Working, TypeOK, Nobody, Kinds, Roles, Chosen, RoleAt, RoleSucceeds
<1>8. ASSUME NEW g \in Hosts, ApplyFails(g) PROVE WalkInv'
  BY <1>8 DEF WalkInv, PhaseInv, Changing, Running, Working, TypeOK, Nobody, Kinds, Roles, Chosen, RoleAt, ApplyFails
<1>9. ASSUME NEW g \in Hosts, UninstallFails(g) PROVE WalkInv'
  BY <1>9 DEF WalkInv, PhaseInv, Changing, Running, Working, TypeOK, Nobody, Kinds, Roles, Chosen, RoleAt, UninstallFails
<1>10. ASSUME NEW g \in Hosts, EndOfWalk(g) PROVE WalkInv'
  BY <1>10 DEF WalkInv, PhaseInv, Changing, Running, Working, TypeOK, Nobody, Kinds, Roles, Chosen, RoleAt, EndOfWalk
<1>11. ASSUME NEW g \in Hosts, Leave(g) PROVE WalkInv'
  BY <1>11 DEF WalkInv, PhaseInv, Changing, Running, Working, TypeOK, Nobody, Kinds, Roles, Chosen, RoleAt, Leave
<1>12. CASE Spawn
  BY <1>12 DEF WalkInv, PhaseInv, Changing, Running, Working, TypeOK, Nobody, Kinds, Roles, Chosen, RoleAt, Spawn
<1>13. CASE EndPlan
  BY <1>13 DEF WalkInv, PhaseInv, Changing, Running, Working, TypeOK, Nobody, Kinds, Roles, Chosen, RoleAt, EndPlan, Joined, HasErrors
<1>14. CASE Confirm
  BY <1>14 DEF WalkInv, PhaseInv, Changing, Running, Working, TypeOK, Nobody, Kinds, Roles, Chosen, RoleAt, Confirm, Fresh
<1>15. CASE Decline
  BY <1>15 DEF WalkInv, PhaseInv, Changing, Running, Working, TypeOK, Nobody, Kinds, Roles, Chosen, RoleAt, Decline
<1>16. CASE EndChange
  BY <1>16 DEF WalkInv, PhaseInv, Changing, Running, Working, TypeOK, Nobody, Kinds, Roles, Chosen, RoleAt, EndChange, Joined, HasErrors
<1>17. CASE UNCHANGED vars
  BY <1>17 DEF WalkInv, PhaseInv, Changing, Running, Working, TypeOK, Nobody, Kinds, Roles, Chosen, RoleAt, vars
<1> QED BY <1>1, <1>2, <1>3, <1>4, <1>5, <1>6, <1>7, <1>8, <1>9, <1>10, <1>11, <1>12, <1>13, <1>14, <1>15, <1>16, <1>17 DEF Next, CommandStep, HostStep

\* Every step keeps what an uninstall has begun in line with its place.
LEMMA RemovalStep ==
  ASSUME TypeOK, PhaseInv, RemovalInv, [Next]_vars
  PROVE  RemovalInv'
<1> USE CountAssumption, InventoryAssumption
<1> USE DEF RemovalInv, PhaseInv, Running, Working, TypeOK, Nobody, Roles, Chosen, RoleAt
<1>1. ASSUME NEW g \in Hosts, Open(g) PROVE RemovalInv'
  BY <1>1 DEF Open
<1>2. ASSUME NEW g \in Hosts, Skip(g) PROVE RemovalInv'
  BY <1>2 DEF Skip
<1>3. ASSUME NEW g \in Hosts, PlanFails(g) PROVE RemovalInv'
  BY <1>3 DEF PlanFails, AtRole
<1>4. ASSUME NEW g \in Hosts, PlanNoOp(g) PROVE RemovalInv'
  BY <1>4 DEF PlanNoOp, AtRole
<1>5. ASSUME NEW g \in Hosts, PlanDue(g) PROVE RemovalInv'
  BY <1>5 DEF PlanDue, AtRole
<1>6. ASSUME NEW g \in Hosts, StartUninstall(g) PROVE RemovalInv'
  BY <1>6 DEF StartUninstall, AtRole
<1>7. ASSUME NEW g \in Hosts, RoleSucceeds(g) PROVE RemovalInv'
  BY <1>7 DEF RoleSucceeds
<1>8. ASSUME NEW g \in Hosts, ApplyFails(g) PROVE RemovalInv'
  BY <1>8 DEF ApplyFails
<1>9. ASSUME NEW g \in Hosts, UninstallFails(g) PROVE RemovalInv'
  BY <1>9 DEF UninstallFails
<1>10. ASSUME NEW g \in Hosts, EndOfWalk(g) PROVE RemovalInv'
  BY <1>10 DEF EndOfWalk
<1>11. ASSUME NEW g \in Hosts, Leave(g) PROVE RemovalInv'
  BY <1>11 DEF Leave
<1>12. CASE Spawn
  BY <1>12 DEF Spawn
<1>13. CASE EndPlan
  BY <1>13 DEF EndPlan, Joined, HasErrors
<1>14. CASE Confirm
  BY <1>14 DEF Confirm, Fresh
<1>15. CASE Decline
  BY <1>15 DEF Decline
<1>16. CASE EndChange
  BY <1>16 DEF EndChange, Joined, HasErrors
<1>17. CASE UNCHANGED vars
  BY <1>17 DEF vars
<1> QED
  BY <1>1, <1>2, <1>3, <1>4, <1>5, <1>6, <1>7, <1>8, <1>9, <1>10, <1>11, <1>12, <1>13, <1>14, <1>15, <1>16, <1>17
  DEF Next, CommandStep, HostStep

\* The invariant of every reachable state.
THEOREM Invariant == Spec => []IInv
<1>1. IInv /\ [Next]_vars => IInv'
  BY TypeStep, PhaseStep, TokenStep, ApplyStep, ExitStep, WalkStep, RemovalStep DEF IInv
<1> QED BY InitIInv, <1>1, PTL DEF Spec

\* Every reachable state is well typed.
THEOREM TypeCorrect == Spec => []TypeOK
  BY Invariant, PTL DEF IInv

\* At most MaxConcurrency hosts are worked on at a time, for any fleet
\* (the semaphore of run(), orchestrator.go).
THEOREM ConcurrencyIsBounded == Spec => []Bounded
<1>1. IInv => Bounded
  BY DEF IInv, TokenInv, Bounded, Workers
<1> QED BY Invariant, <1>1, PTL

\* The executor is closed behind the last goroutine (wg.Wait() in run()).
THEOREM ClosesLast == Spec => []ClosedLast
<1>1. IInv => ClosedLast
  BY DEF IInv, PhaseInv, ClosedLast
<1> QED BY Invariant, <1>1, PTL

\* An apply that exits with 0 has dealt with every role of every target
\* (runHost, EndChange of runApply).
THEOREM CleanExits == Spec => []CleanExit
<1>1. IInv => CleanExit
  BY CountAssumption, InventoryAssumption
  DEF IInv, TypeOK, PhaseInv, ApplyInv, ExitInv, Books, CleanExit, Roles
<1> QED BY Invariant, <1>1, PTL

\* An uninstall that ends has tried every role it is about on every host it could
\* log into, whatever failed on the way (uninstallHost).
THEOREM UninstallTriesAll == Spec => []TriesAll
<1>1. IInv => TriesAll
  <2> SUFFICES ASSUME IInv, phase = "changed", command = "uninstall",
                      NEW h \in Hosts, "ssh" \notin errors[h]
               PROVE  due[h] = Chosen(h)
    BY DEF TriesAll
  <2>1. at[h] = RoleCount + 1 /\ due[h] \subseteq Chosen(h)
    BY DEF IInv, PhaseInv, RemovalInv
  <2>2. \A r \in Chosen(h) : RoleCount + 1 - r < RoleCount + 1
    BY CountAssumption, InventoryAssumption DEF Chosen, Roles
  <2>3. QED
    BY <2>1, <2>2 DEF IInv, RemovalInv
<1> QED BY Invariant, <1>1, PTL

-----------------------------------------------------------------------------
\* A step that moves no host into or out of a role, and stops none, is not
\* seen by RoleWalk.
LEMMA Unseen ==
  ASSUME command' = command, Changing' = Changing, Changing => due' = due,
         \A h \in Hosts : (pc[h] = "work")' = (pc[h] = "work"),
         Changing => \A h \in Hosts :
           (pc[h] \in {"leave", "gone"} \/ "apply" \in errors[h])'
             = (pc[h] \in {"leave", "gone"} \/ "apply" \in errors[h])
  PROVE  UNCHANGED Promise!vars
<1>1. Begun' = Begun
  BY DEF Begun, Nobody
<1>2. Busy' = Busy
  BY DEF Busy
<1>3. Stopped' = Stopped
  <2>1. \A h \in Hosts :
          (Changing /\ (pc[h] \in {"leave", "gone"} \/ "apply" \in errors[h]))'
            = (Changing /\ (pc[h] \in {"leave", "gone"} \/ "apply" \in errors[h]))
    OBVIOUS
  <2> QED BY <2>1, Zenon DEF Stopped
<1> QED BY <1>1, <1>2, <1>3, Zenon DEF Promise!vars

\* What a step of one goroutine on a role means to RoleWalk.
LEMMA BeginStep ==
  ASSUME TypeOK, PhaseInv, WalkInv, NEW g \in Hosts, AtRole(g), Changing,
         Changing' = Changing, command' = command, errors' = errors,
         due' = [due EXCEPT ![g] = @ \cup {RoleAt(at[g])}],
         pc' = [pc EXCEPT ![g] = "work"]
  PROVE  Promise!Next
<1> DEFINE r == RoleAt(at[g])
<1>1. r \in Roles
  BY CountAssumption DEF AtRole, TypeOK, Roles, RoleAt
<1>2. ~Busy[g] /\ ~Stopped[g]
  BY DEF Busy, Stopped, AtRole, WalkInv
<1>3. Promise!IsLater(g, r)
  BY CountAssumption, <1>1 DEF Promise!IsLater, Begun, AtRole, WalkInv, TypeOK, Roles, RoleAt
<1>4. Begun' = [Begun EXCEPT ![g] = @ \cup {r}]
  BY DEF Begun
<1>5. Busy' = [Busy EXCEPT ![g] = TRUE]
  BY DEF Busy, TypeOK
<1>6. Stopped' = Stopped
  <2>1. \A h \in Hosts : (pc'[h] \in {"leave", "gone"}) = (pc[h] \in {"leave", "gone"})
    BY DEF TypeOK, AtRole
  <2> QED BY <2>1 DEF Stopped
<1> HIDE DEF r
<1>7. Promise!Begin(g, r)
  BY <1>2, <1>3, <1>4, <1>5, <1>6, Zenon DEF Promise!Begin
<1> QED BY <1>1, <1>7, Zenon DEF Promise!Next

LEMMA EndStep ==
  ASSUME TypeOK, NEW g \in Hosts, pc[g] = "work", Changing, Changing' = Changing,
         command' = command, due' = due, NEW next \in {"walk", "leave"},
         pc' = [pc EXCEPT ![g] = next],
         \A h \in Hosts \ {g} : errors'[h] = errors[h]
  PROVE  Promise!Next
<1> DEFINE s == Stopped'[g]
<1>1. Busy[g] /\ Busy' = [Busy EXCEPT ![g] = FALSE]
  BY DEF Busy, TypeOK
<1>2. s \in BOOLEAN
  BY Zenon DEF Stopped
<1>3. Stopped' = [Stopped EXCEPT ![g] = s]
  BY DEF Stopped, TypeOK
<1>4. Begun' = Begun
  BY DEF Begun
<1> HIDE DEF s
<1>5. Promise!End(g)
  BY <1>1, <1>2, <1>3, <1>4, Zenon DEF Promise!End
<1> QED BY <1>5, Zenon DEF Promise!Next

LEMMA StopStep ==
  ASSUME TypeOK, NEW g \in Hosts, Changing, Changing' = Changing,
         command' = command, due' = due, pc[g] # "work",
         pc' = [pc EXCEPT ![g] = "leave"],
         \A h \in Hosts \ {g} : errors'[h] = errors[h]
  PROVE  Promise!Next
<1>1. Busy' = Busy
  BY DEF Busy, TypeOK
<1>2. Stopped' = [Stopped EXCEPT ![g] = TRUE]
  BY DEF Stopped, TypeOK
<1>3. Begun' = Begun
  BY DEF Begun
<1>4. Promise!Stop(g)
  BY <1>1, <1>2, <1>3, Zenon DEF Promise!Stop
<1> QED BY <1>4, Zenon DEF Promise!Next

\* Every step of a command is a step of RoleWalk or is not seen by it.
LEMMA PromiseStep ==
  ASSUME IInv, [Next]_vars
  PROVE  [Promise!Next]_Promise!vars
<1> USE DEF IInv
<1>1. ASSUME NEW g \in Hosts, Open(g) PROVE [Promise!Next]_Promise!vars
  <2>1. CASE Changing /\ pc' = [pc EXCEPT ![g] = "leave"]
    BY <1>1, <2>1, StopStep DEF Open, Changing, TypeOK
  <2>2. CASE ~Changing \/ (pc' = [pc EXCEPT ![g] = "walk"] /\ errors' = errors)
    BY <1>1, <2>2, Unseen DEF Open, Changing, TypeOK
  <2> QED BY <1>1, <2>1, <2>2 DEF Open
<1>2. ASSUME NEW g \in Hosts, Skip(g) PROVE [Promise!Next]_Promise!vars
  BY <1>2, Unseen DEF Skip, Changing
<1>3. ASSUME NEW g \in Hosts, PlanFails(g) PROVE [Promise!Next]_Promise!vars
  BY <1>3, Unseen DEF PlanFails, Changing, TypeOK
<1>4. ASSUME NEW g \in Hosts, PlanNoOp(g) PROVE [Promise!Next]_Promise!vars
  BY <1>4, Unseen DEF PlanNoOp, Changing
<1>5. ASSUME NEW g \in Hosts, PlanDue(g) PROVE [Promise!Next]_Promise!vars
  <2>1. CASE Changing
    BY <1>5, <2>1, BeginStep DEF PlanDue, Changing
  <2>2. CASE ~Changing
    BY <1>5, <2>2, Unseen DEF PlanDue, Changing, PhaseInv, Running, Working, AtRole
  <2> QED BY <2>1, <2>2
<1>6. ASSUME NEW g \in Hosts, StartUninstall(g) PROVE [Promise!Next]_Promise!vars
  <2>1. Changing
    BY <1>6 DEF StartUninstall, AtRole, PhaseInv, Running, Working, Changing
  <2> QED BY <1>6, <2>1, BeginStep DEF StartUninstall, Changing
<1>7. ASSUME NEW g \in Hosts, RoleSucceeds(g) PROVE [Promise!Next]_Promise!vars
  BY <1>7, EndStep DEF RoleSucceeds, PhaseInv, Changing
<1>8. ASSUME NEW g \in Hosts, ApplyFails(g) PROVE [Promise!Next]_Promise!vars
  BY <1>8, EndStep DEF ApplyFails, PhaseInv, Changing, TypeOK
<1>9. ASSUME NEW g \in Hosts, UninstallFails(g) PROVE [Promise!Next]_Promise!vars
  BY <1>9, EndStep DEF UninstallFails, PhaseInv, Changing, TypeOK
<1>10. ASSUME NEW g \in Hosts, EndOfWalk(g) PROVE [Promise!Next]_Promise!vars
  <2>1. CASE Changing
    BY <1>10, <2>1, StopStep DEF EndOfWalk, Changing
  <2>2. CASE ~Changing
    BY <1>10, <2>2, Unseen DEF EndOfWalk, Changing, TypeOK
  <2> QED BY <2>1, <2>2
<1>11. ASSUME NEW g \in Hosts, Leave(g) PROVE [Promise!Next]_Promise!vars
  BY <1>11, Unseen DEF Leave, Changing, TypeOK
<1>12. CASE Spawn
  BY <1>12, Unseen, CountAssumption DEF Spawn, Changing, TypeOK, PhaseInv, Hosts
<1>13. CASE EndPlan
  BY <1>13, Unseen DEF EndPlan, Changing
<1>14. CASE Confirm
  <2>1. ~Changing /\ Changing' /\ command' = command
    BY <1>14 DEF Confirm, Changing
  <2>2. Begun' = Begun
    BY <1>14, <2>1 DEF Confirm, Fresh, Begun, Nobody
  <2>3. Busy' = Busy
    BY <1>14 DEF Confirm, Fresh, Busy, PhaseInv
  <2>4. Stopped' = Stopped
    BY <1>14, <2>1 DEF Confirm, Fresh, Stopped, Nobody
  <2>5. Promise!Agree
    BY <2>1, <2>2, <2>3, <2>4, Zenon DEF Promise!Agree
  <2> QED BY <2>5, Zenon DEF Promise!Next
<1>15. CASE Decline
  BY <1>15, Unseen DEF Decline, Changing
<1>16. CASE EndChange
  BY <1>16, Unseen DEF EndChange, Changing
<1>17. CASE UNCHANGED vars
  BY <1>17, Unseen DEF vars, Changing
<1> QED BY <1>1, <1>2, <1>3, <1>4, <1>5, <1>6, <1>7, <1>8, <1>9, <1>10, <1>11, <1>12,
           <1>13, <1>14, <1>15, <1>16, <1>17 DEF Next, CommandStep, HostStep

\* Every command keeps the promise of RoleWalk (runHost, uninstallHost and
\* the prompts of runApply and runUninstall).
THEOREM Refinement == Spec => KeepsPromise
<1>1. Init => Promise!Init
  <2> SUFFICES ASSUME Init PROVE Promise!Init
    OBVIOUS
  <2>1. Changing = FALSE /\ (command = "uninstall") \in BOOLEAN
    BY DEF Init, Changing
  <2>2. Begun = [h \in Hosts |-> {}]
    BY <2>1 DEF Begun, Nobody
  <2>3. Busy = [h \in Hosts |-> FALSE]
    BY DEF Init, Busy
  <2>4. Stopped = [h \in Hosts |-> FALSE]
    BY <2>1 DEF Stopped
  <2> QED BY <2>1, <2>2, <2>3, <2>4, Zenon DEF Promise!Init
<1>2. IInv /\ [Next]_vars => [Promise!Next]_Promise!vars
  BY PromiseStep
<1> QED BY <1>1, <1>2, Invariant, PTL DEF Spec, KeepsPromise, Promise!Spec
=============================================================================
